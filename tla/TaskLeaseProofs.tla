-------------------------- MODULE TaskLeaseProofs --------------------------
(***************************************************************************)
(* Proofs about TaskLease, for any number of tasks and workers, any lease  *)
(* time and any number of faults: types, fencing, finality of settlement,  *)
(* that the queue implements TaskContract, and then what its tokens are    *)
(* for: that no two workers act under the same one, that only the newest   *)
(* lease of a message settles it, that retries are bounded, and that no    *)
(* task is lost.                                                           *)
(***************************************************************************)
EXTENDS TaskLeaseProperties, SequenceTheorems, FiniteSetTheorems, TLAPS

-----------------------------------------------------------------------------
(* Types.                                                                  *)

\* A dead letter the operator is moving back is still in its stream.
Removable == operator # NoTask => dlq[operator] > 0

\* A worker past its read holds the number of an entry that was delivered.
Placed == \A w \in Workers : worker[w].pc \notin {"idle", "polled"} => worker[w].m \in 1..read

Shapes == TypeOK /\ Removable /\ Placed

LEMMA MessageInType == \A t \in Tasks : Message(t) \in MessageType
BY LeaseAssumption DEF Message, MessageType, LeaseAssumption

LEMMA LogShape ==
    ASSUME TypeOK
    PROVE  Ids = 1..Len(log) /\ Len(log) \in Nat /\ \A m \in Ids : log[m] \in MessageType
BY LenProperties, ElementOfSeq DEF TypeOK, Ids

\* What appending a new message does to a log.
LEMMA Appended ==
    ASSUME NEW s \in Seq(MessageType), NEW t \in Tasks
    PROVE  LET a == Append(s, Message(t))
           IN  /\ a \in Seq(MessageType) /\ Len(a) = Len(s) + 1
               /\ \A m \in 1..Len(s) : a[m] = s[m]
               /\ a[Len(s) + 1] = Message(t)
BY MessageInType, AppendProperties, LenProperties

\* What closing a message does to the log.
LEMMA ClosedForm ==
    ASSUME TypeOK, NEW w \in Workers, worker[w].m \in Ids, NEW state \in Terminal
    PROVE  /\ Closed(w, state) \in Seq(MessageType)
           /\ Len(Closed(w, state)) = Len(log)
           /\ \A m \in Ids : Closed(w, state)[m] =
                IF m = worker[w].m THEN [log[m] EXCEPT !.state = state] ELSE log[m]
<1> DEFINE r == [log[worker[w].m] EXCEPT !.state = state]
<1>1. r \in MessageType
  BY LogShape DEF MessageType
<1>2. Closed(w, state) = [log EXCEPT ![worker[w].m] = r]
  BY DEF Closed
<1>3. log \in Seq(MessageType) /\ worker[w].m \in 1..Len(log)
  BY LogShape DEF TypeOK
<1> HIDE DEF r
<1>4. /\ Closed(w, state) \in Seq(MessageType)
      /\ Len(Closed(w, state)) = Len(log)
      /\ \A m \in 1..Len(log) : Closed(w, state)[m] = IF m = worker[w].m THEN r ELSE log[m]
  BY <1>1, <1>2, <1>3, ExceptSeq
<1> QED BY <1>4, LogShape DEF r

\* What a grant does to the log and to the counters.
LEMMA GrantForm ==
    ASSUME TypeOK, NEW w \in Workers, NEW m \in Ids, NEW first \in BOOLEAN, Grant(w, m, first)
    PROVE  /\ log' \in Seq(MessageType) /\ Len(log') = Len(log)
           /\ \A n \in Ids \ {m} : log'[n] = log[n]
           /\ log'[m].task = log[m].task /\ log'[m].state = "active" /\ log'[m].owner = w
           /\ log'[m].token = Drawn(log[m].task).token /\ log[m].task \in Tasks
           /\ log'[m].attempt = Drawn(log[m].task).attempt
           /\ counter' \in [Tasks -> CounterType]
           /\ counter' = [counter EXCEPT ![log[m].task] = Drawn(log[m].task)]
           /\ Drawn(log[m].task) \in CounterType
<1> DEFINE t == log[m].task
           r == [log[m] EXCEPT !.state = "active", !.owner = w, !.token = Drawn(t).token,
                   !.attempt = Drawn(t).attempt, !.ttl = TTL, !.first = first]
<1>1. t \in Tasks /\ log[m] \in MessageType
  BY LogShape DEF MessageType
<1>2. Drawn(t) \in CounterType
  <2>1. counter[t] \in CounterType
    BY <1>1 DEF TypeOK
  <2> QED BY <2>1 DEF Drawn, CounterType
<1>3. r \in MessageType
  <2>1. /\ Drawn(t).token \in Nat /\ Drawn(t).attempt \in Nat
        /\ TTL \in 0..TTL
    BY <1>2, LeaseAssumption DEF CounterType, LeaseAssumption
  <2> QED BY <1>1, <2>1 DEF MessageType
<1>4. log' = [log EXCEPT ![m] = r] /\ counter' = [counter EXCEPT ![t] = Drawn(t)]
  BY DEF Grant
<1>5. log \in Seq(MessageType) /\ m \in 1..Len(log) /\ counter \in [Tasks -> CounterType]
  BY LogShape DEF TypeOK
<1>6. counter' \in [Tasks -> CounterType] /\ counter'[t] = Drawn(t)
  BY <1>1, <1>2, <1>4, <1>5
<1> HIDE DEF r
<1>7. /\ log' \in Seq(MessageType) /\ Len(log') = Len(log)
      /\ \A n \in 1..Len(log) : log'[n] = IF n = m THEN r ELSE log[n]
  BY <1>3, <1>4, <1>5, ExceptSeq
<1>8. /\ r.task = t /\ r.state = "active" /\ r.owner = w /\ r.token = Drawn(t).token
      /\ r.attempt = Drawn(t).attempt
  BY <1>1 DEF r, MessageType
<1>9. log'[m] = r /\ \A n \in Ids \ {m} : log'[n] = log[n]
  BY <1>5, <1>7, LogShape
<1> QED BY <1>1, <1>2, <1>4, <1>6, <1>7, <1>8, <1>9

\* A worker that holds a lease is a worker.
LEMMA HoldingType ==
    ASSUME TypeOK, NEW m \in 1..read, NEW lease \in MessageType
    PROVE  Holding(m, lease) \in WorkerType(read)
BY DEF Holding, MessageType, WorkerType, TypeOK

-----------------------------------------------------------------------------
(* Every step keeps the types.                                             *)

LEMMA InitShapes == Init => Shapes
<1> SUFFICES ASSUME Init PROVE Shapes
  OBVIOUS
<1>1. log \in Seq(MessageType) /\ Len(log) = 0
  BY EmptySeq DEF Init
<1>2. TypeOK
  BY <1>1 DEF Init, TypeOK, IdleWorker, CounterType, WorkerType
<1> QED BY <1>2 DEF Init, Shapes, Removable, Placed, IdleWorker

\* A reply brings the caller to one of two points.
LEMMA ReplyForm ==
    ASSUME NEW w \in Workers, NEW next, NEW other, Reply(w, next, other), faults \in Nat
    PROVE  /\ \/ worker' = [worker EXCEPT ![w] = next]
              \/ worker' = [worker EXCEPT ![w] = other]
           /\ faults' \in Nat
BY DEF Reply

\* Reading and appending, time and everything that only moves a worker.
LEMMA OtherKeepsTypes ==
    ASSUME Shapes,
           \/ \E t \in Tasks : Enqueue(t) \/ RequeueAdd(t)
           \/ RequeueDelete \/ RequeueCutOff \/ Tick
           \/ \E w \in Workers : ReadNew(w) \/ FindNothing(w) \/ Work(w) \/ Crash(w)
    PROVE  Shapes'
<1> USE DEF Shapes
<1>0. Len(log) \in Nat /\ Ids = 1..Len(log) /\ read \in 0..Len(log)
  BY LogShape DEF TypeOK
<1>1. ASSUME NEW t \in Tasks, Enqueue(t) PROVE Shapes'
  <2>1. log' \in Seq(MessageType) /\ Len(log') = Len(log) + 1
    BY <1>1, Appended DEF Enqueue, TypeOK
  <2>2. TypeOK'
    BY <1>0, <1>1, <2>1 DEF Enqueue, TypeOK, history
  <2> QED BY <1>1, <2>2 DEF Enqueue, Removable, Placed
<1>2. ASSUME NEW t \in Tasks, RequeueAdd(t) PROVE Shapes'
  <2>1. log' \in Seq(MessageType) /\ Len(log') = Len(log) + 1
    BY <1>2, Appended DEF RequeueAdd, TypeOK
  <2>2. TypeOK'
    BY <1>0, <1>2, <2>1 DEF RequeueAdd, TypeOK, history
  <2> QED BY <1>2, <2>2 DEF RequeueAdd, Removable, Placed
<1>3. ASSUME RequeueDelete PROVE Shapes'
  <2>1. operator \in Tasks /\ dlq[operator] \in Nat \ {0}
    BY <1>3 DEF RequeueDelete, TypeOK, Removable
  <2>2. dlq' \in [Tasks -> Nat]
    BY <1>3, <2>1 DEF RequeueDelete, TypeOK
  <2>3. TypeOK'
    BY <1>3, <2>2 DEF RequeueDelete, TypeOK, history
  <2> QED BY <1>3, <2>3 DEF RequeueDelete, Removable, Placed
<1>4. ASSUME RequeueCutOff PROVE Shapes'
  <2>1. operator \in Tasks
    BY <1>4 DEF RequeueCutOff, TypeOK
  <2>2. split' \in [Tasks -> Nat]
    BY <1>4, <2>1 DEF RequeueCutOff, TypeOK
  <2>3. TypeOK'
    BY <1>4, <2>2 DEF RequeueCutOff, TypeOK, redis
  <2> QED BY <1>4, <2>3 DEF RequeueCutOff, Removable, Placed, redis
<1>5. ASSUME Tick PROVE Shapes'
  <2>1. \A m \in Ids : (IF Live(m) THEN [log[m] EXCEPT !.ttl = @ - 1] ELSE log[m]) \in MessageType
    BY LogShape, LeaseAssumption, SMTT(40) DEF Live, MessageType, LeaseAssumption
  <2>2. log' = [m \in 1..Len(log) |-> IF Live(m) THEN [log[m] EXCEPT !.ttl = @ - 1] ELSE log[m]]
    BY <1>0, <1>5 DEF Tick
  <2>3. log' \in Seq(MessageType) /\ Len(log') = Len(log)
    <3> DEFINE e(m) == IF Live(m) THEN [log[m] EXCEPT !.ttl = @ - 1] ELSE log[m]
    <3>1. \A m \in 1..Len(log) : e(m) \in MessageType
      BY <1>0, <2>1
    <3>2. log' = [m \in 1..Len(log) |-> e(m)]
      BY <2>2
    <3> HIDE DEF e
    <3>3. log' \in [1..Len(log) -> MessageType]
      BY <3>1, <3>2
    <3>4. log' \in Seq(MessageType)
      BY <1>0, <3>1, <3>2, IsASeq
    <3> QED BY <1>0, <3>3, <3>4, LenProperties
  <2>4. faults' \in Nat
    BY <1>5 DEF Tick, TypeOK
  <2>5. UNCHANGED <<read, pel, counter, dlq, worker, operator, submitted, requeues, history>>
    BY <1>5 DEF Tick
  <2>6. TypeOK'
    BY <2>3, <2>4, <2>5 DEF TypeOK, history
  <2> QED BY <2>5, <2>6 DEF Removable, Placed
<1>6. ASSUME NEW w \in Workers, ReadNew(w) PROVE Shapes'
  <2>1. worker[w] \in WorkerType(read)
    BY DEF TypeOK
  <2>2. CASE read < Len(log)
    <3>1. /\ read' = read + 1 /\ pel' = pel \cup {read + 1}
          /\ worker' = [worker EXCEPT ![w] = [worker[w] EXCEPT !.pc = "read", !.m = read + 1]]
      BY <1>6, <2>2 DEF ReadNew
    <3>2. read' \in 0..Len(log) /\ pel' \subseteq 1..read' /\ WorkerType(read) \subseteq WorkerType(read')
      BY <1>0, <2>2, <3>1, SMTT(40) DEF TypeOK, WorkerType
    <3>3. [worker[w] EXCEPT !.pc = "read", !.m = read + 1] \in WorkerType(read')
      <4>1. read + 1 \in 0..read'
        BY <1>0, <3>1
      <4> QED BY <2>1, <4>1 DEF WorkerType
    <3>4. worker' \in [Workers -> WorkerType(read')]
      BY <3>1, <3>2, <3>3 DEF TypeOK
    <3>5. settled' \subseteq (1..read') \X Nat
      BY <1>0, <1>6, <3>1 DEF ReadNew, TypeOK, history
    <3>6. TypeOK'
      BY <1>6, <3>2, <3>4, <3>5 DEF ReadNew, TypeOK, history
    <3> QED BY <1>0, <1>6, <3>1, <3>6, SMTT(30) DEF ReadNew, Removable, Placed, TypeOK
  <2>3. CASE ~(read < Len(log))
    <3>1. worker' = [worker EXCEPT ![w] = [worker[w] EXCEPT !.pc = "polled"]] /\ UNCHANGED <<read, pel>>
      BY <1>6, <2>3 DEF ReadNew
    <3>2. worker' \in [Workers -> WorkerType(read)]
      BY <2>1, <3>1 DEF TypeOK, WorkerType
    <3>3. TypeOK'
      BY <1>6, <3>1, <3>2 DEF ReadNew, TypeOK, history
    <3> QED BY <1>6, <3>1, <3>3 DEF ReadNew, Removable, Placed, TypeOK
  <2> QED BY <2>2, <2>3
<1>7. ASSUME NEW w \in Workers, worker' = [worker EXCEPT ![w] = IdleWorker],
             UNCHANGED <<redis, operator, submitted, requeues, history>>, faults' \in Nat
      PROVE  Shapes'
  <2>1. TypeOK'
    BY <1>0, <1>7, SMTT(30) DEF TypeOK, IdleWorker, WorkerType, redis, history
  <2> QED BY <1>7, <2>1 DEF TypeOK, IdleWorker, redis, Removable, Placed
<1>8. ASSUME NEW w \in Workers, Renew(w) PROVE Shapes'
  <2> DEFINE r == [log[worker[w].m] EXCEPT !.ttl = TTL]
  <2>1. worker[w].m \in 1..Len(log) /\ log[worker[w].m] \in MessageType
    BY <1>0, <1>8, LogShape DEF Renew, Placed
  <2>2. r \in MessageType
    <3>1. TTL \in 0..TTL
      BY LeaseAssumption DEF LeaseAssumption
    <3> QED BY <2>1, <3>1 DEF MessageType
  <2>3. log' = [log EXCEPT ![worker[w].m] = r]
    BY <1>8 DEF Renew
  <2> HIDE DEF r
  <2>4. log' \in Seq(MessageType) /\ Len(log') = Len(log)
    BY <2>1, <2>2, <2>3, ExceptSeq DEF TypeOK
  <2>5. TypeOK'
    BY <1>8, <2>4 DEF Renew, TypeOK, history
  <2> QED BY <1>8, <2>5 DEF Renew, Removable, Placed
<1>9. ASSUME NEW w \in Workers, HandlerEnds(w) PROVE Shapes'
  <2>1. PICK next \in {"ack", "retry", "dead"} : worker' = [worker EXCEPT ![w].pc = next]
    BY <1>9 DEF HandlerEnds
  <2>2. TypeOK'
    BY <1>9, <2>1, ZenonT(90) DEF HandlerEnds, TypeOK, WorkerType, redis, history
  <2> QED BY <1>9, <2>1, <2>2, SMTT(40) DEF HandlerEnds, TypeOK, Removable, Placed, redis
<1>10. ASSUME NEW w \in Workers, FindNothing(w) \/ LoseLease(w) \/ Refuse(w) \/ Abandon(w) \/ Crash(w)
       PROVE  Shapes'
  <2>1. faults \in Nat /\ worker' = [worker EXCEPT ![w] = IdleWorker]
        /\ UNCHANGED <<redis, operator, submitted, requeues, history>>
    BY <1>10 DEF FindNothing, LoseLease, Refuse, Abandon, Crash, TypeOK
  <2>2. faults' \in Nat
    BY <1>10, <2>1 DEF FindNothing, LoseLease, Refuse, Abandon, Crash
  <2> QED BY <1>7, <2>1, <2>2
<1> QED BY <1>1, <1>2, <1>3, <1>4, <1>5, <1>6, <1>8, <1>9, <1>10 DEF Work

\* A granted or a returned lease, and a message that is busy or settled.
LEMMA PollKeepsTypes ==
    ASSUME Shapes, NEW w \in Workers, Acquire(w) \/ \E m \in pel : Reclaim(w, m)
    PROVE  Shapes'
<1> USE DEF Shapes
<1>0. /\ Len(log) \in Nat /\ Ids = 1..Len(log) /\ read \in 0..Len(log)
      /\ faults \in Nat /\ worker[w] \in WorkerType(read)
  BY LogShape DEF TypeOK
<1>1. ASSUME NEW x \in WorkerType(read), x.pc \notin {"idle", "polled"} => x.m \in 1..read,
             worker' = [worker EXCEPT ![w] = x], faults' \in Nat,
             \/ UNCHANGED <<log, counter>>
             \/ \E m \in 1..read, first \in BOOLEAN : Grant(w, m, first),
             UNCHANGED <<read, pel, dlq, operator, submitted, requeues, history>>
      PROVE  Shapes'
  <2>1. log' \in Seq(MessageType) /\ Len(log') = Len(log) /\ counter' \in [Tasks -> CounterType]
    <3>1. CASE UNCHANGED <<log, counter>>
      BY <3>1 DEF TypeOK
    <3>2. ASSUME NEW m \in 1..read, NEW first \in BOOLEAN, Grant(w, m, first)
          PROVE  log' \in Seq(MessageType) /\ Len(log') = Len(log) /\ counter' \in [Tasks -> CounterType]
      <4>1. m \in Ids
        BY <1>0
      <4> QED BY <3>2, <4>1, GrantForm
    <3> QED BY <1>1, <3>1, <3>2
  <2>2. worker' \in [Workers -> WorkerType(read)]
    BY <1>1 DEF TypeOK
  <2>3. TypeOK'
    BY <1>1, <2>1, <2>2 DEF TypeOK, history
  <2>4. Placed'
    BY <1>1 DEF Placed, TypeOK
  <2> QED BY <1>1, <2>3, <2>4 DEF Removable
<1>2. ASSUME NEW m \in 1..read, NEW first \in BOOLEAN, NEW other \in {worker[w], IdleWorker},
             \/ UNCHANGED <<log, counter>>
             \/ Grant(w, m, first),
             Reply(w, Holding(m, log'[m]), other),
             UNCHANGED <<read, pel, dlq, operator, submitted, requeues, history>>
      PROVE  Shapes'
  <2>1. log'[m] \in MessageType
    <3>1. m \in Ids
      BY <1>0
    <3>2. CASE Grant(w, m, first)
      BY <1>0, <3>1, <3>2, GrantForm, ElementOfSeq
    <3> QED BY <1>2, <3>1, <3>2, LogShape
  <2>2. Holding(m, log'[m]) \in WorkerType(read) /\ Holding(m, log'[m]).m = m
    BY <2>1, HoldingType DEF Holding
  <2>3. other \in WorkerType(read) /\ (other.pc \notin {"idle", "polled"} => other.m \in 1..read)
    BY <1>0 DEF WorkerType, IdleWorker, Placed
  <2>4. faults' \in Nat /\ \E x \in {Holding(m, log'[m]), other} : worker' = [worker EXCEPT ![w] = x]
    BY <1>0, <1>2 DEF Reply
  <2>5. PICK x \in {Holding(m, log'[m]), other} : worker' = [worker EXCEPT ![w] = x]
    BY <2>4
  <2>6. x \in WorkerType(read) /\ (x.pc \notin {"idle", "polled"} => x.m \in 1..read)
    BY <2>2, <2>3
  <2> QED BY <1>1, <1>2, <2>4, <2>5, <2>6
<1>3. ASSUME Acquire(w) PROVE Shapes'
  <2>1. worker[w].m \in 1..read
    BY <1>3 DEF Acquire, Placed
  <2>2. CASE worker' = [worker EXCEPT ![w] = [IdleWorker EXCEPT !.pc = "polled"]] /\ UNCHANGED <<log, counter, faults>>
    <3>1. [IdleWorker EXCEPT !.pc = "polled"] \in WorkerType(read) /\ [IdleWorker EXCEPT !.pc = "polled"].pc = "polled"
      BY <1>0 DEF IdleWorker, WorkerType
    <3> QED BY <1>0, <1>1, <1>3, <2>2, <3>1 DEF Acquire
  <2>3. CASE Reply(w, Holding(worker[w].m, log[worker[w].m]), worker[w]) /\ UNCHANGED <<log, counter>>
    <3>1. Reply(w, Holding(worker[w].m, log'[worker[w].m]), worker[w])
      BY <2>3
    <3> QED BY <1>2, <1>3, <2>1, <2>3, <3>1 DEF Acquire
  <2>4. CASE Grant(w, worker[w].m, TRUE) /\ Reply(w, Holding(worker[w].m, log'[worker[w].m]), worker[w])
    BY <1>2, <1>3, <2>1, <2>4 DEF Acquire
  <2> QED BY <1>3, <2>2, <2>3, <2>4 DEF Acquire
<1>4. ASSUME NEW m \in pel, Reclaim(w, m) PROVE Shapes'
  <2>1. m \in 1..read
    BY DEF TypeOK
  <2> QED BY <1>2, <1>4, <2>1 DEF Reclaim
<1> QED BY <1>3, <1>4

\* A message is settled, or the settling script changes nothing.
LEMMA CloseKeepsTypes ==
    ASSUME Shapes, NEW w \in Workers, Close(w)
    PROVE  Shapes'
<1> USE DEF Shapes
<1>0. /\ Len(log) \in Nat /\ Ids = 1..Len(log) /\ read \in 0..Len(log)
      /\ faults \in Nat /\ worker[w] \in WorkerType(read)
  BY LogShape DEF TypeOK
<1>1. worker[w].pc \in {"ack", "retry", "dead"} /\ worker[w].m \in 1..read
  BY DEF Close, Ack, FailRetry, FailDeadLetter, Placed
<1>2. worker[w].m \in Ids /\ worker[w].token \in Nat /\ TaskOf(w) \in Tasks
  BY <1>0, <1>1, LogShape DEF TaskOf, MessageType, WorkerType
<1>3. Settle(w)
  BY DEF Close, Ack, FailRetry, FailDeadLetter
<1>4. /\ pel' \subseteq 1..read /\ settled' \subseteq (1..read) \X Nat
      /\ faults' \in Nat
  <2>1. pel \subseteq 1..read /\ settled \subseteq (1..read) \X Nat
    BY DEF TypeOK
  <2>2. faults' \in Nat
    BY <1>0, <1>3 DEF Settle, Reply
  <2>3. pel' \subseteq pel /\ settled' \subseteq settled \cup {<<worker[w].m, worker[w].token>>}
    BY <1>3 DEF Settle
  <2> QED BY <1>1, <1>2, <2>1, <2>2, <2>3
<1>5. worker' \in [Workers -> WorkerType(read)] /\ Placed'
  <2>1. IdleWorker \in WorkerType(read)
    BY <1>0 DEF IdleWorker, WorkerType
  <2>2. worker' = [worker EXCEPT ![w] = IdleWorker] \/ worker' = [worker EXCEPT ![w] = worker[w]]
    BY <1>3 DEF Settle, Reply
  <2>3. read' = read
    BY <1>3 DEF Settle
  <2>4. worker \in [Workers -> WorkerType(read)]
    BY DEF TypeOK
  <2>5. worker' \in [Workers -> WorkerType(read)]
    BY <2>1, <2>2, <2>4
  <2>6. \A v \in Workers : worker'[v] = worker[v] \/ worker'[v] = IdleWorker
    BY <2>2, <2>4
  <2>7. Placed'
    BY <2>3, <2>6 DEF Placed, IdleWorker
  <2> QED BY <2>5, <2>7
<1>6. /\ log' \in Seq(MessageType) /\ Len(log') >= Len(log)
      /\ dlq' \in [Tasks -> Nat] /\ \A t \in Tasks : dlq'[t] >= dlq[t]
      /\ retries' \in [Tasks -> Nat]
  <2>1. \A s \in Terminal : Closed(w, s) \in Seq(MessageType) /\ Len(Closed(w, s)) = Len(log)
    BY <1>2, ClosedForm
  <2>2. CASE Ack(w)
    BY <1>0, <2>1, <2>2 DEF Ack, TypeOK, Terminal
  <2>3. CASE FailDeadLetter(w)
    <3>1. /\ dlq \in [Tasks -> Nat] /\ log \in Seq(MessageType) /\ retries' \in [Tasks -> Nat]
          /\ \/ dlq' = dlq /\ log' = log
             \/ dlq' = [dlq EXCEPT ![TaskOf(w)] = @ + 1] /\ log' = Closed(w, "dead_letter")
      BY <2>3 DEF FailDeadLetter, TypeOK
    <3>2. dlq' \in [Tasks -> Nat] /\ \A t \in Tasks : dlq'[t] >= dlq[t]
      <4>1. dlq' \in [Tasks -> Nat]
        BY <1>2, <3>1, SMTT(40)
      <4>2. \A t \in Tasks : dlq[t] \in Nat /\ (dlq'[t] = dlq[t] \/ dlq'[t] = dlq[t] + 1)
        BY <1>2, <3>1
      <4> QED BY <4>1, <4>2
    <3> QED BY <1>0, <2>1, <3>1, <3>2 DEF Terminal
  <2>4. CASE FailRetry(w)
    <3>1. Closed(w, "retrying") \in Seq(MessageType) /\ Len(Closed(w, "retrying")) = Len(log)
      BY <2>1 DEF Terminal
    <3>2. LET a == Append(Closed(w, "retrying"), Message(TaskOf(w)))
          IN  a \in Seq(MessageType) /\ Len(a) = Len(log) + 1
      BY <1>2, <3>1, Appended
    <3>3. /\ retries \in [Tasks -> Nat] /\ log \in Seq(MessageType) /\ dlq' = dlq
          /\ dlq \in [Tasks -> Nat]
          /\ \/ retries' = retries /\ log' = log
             \/ /\ retries' = [retries EXCEPT ![TaskOf(w)] = @ + 1]
                /\ log' = Append(Closed(w, "retrying"), Message(TaskOf(w)))
      BY <2>4 DEF FailRetry, TypeOK
    <3>4. retries' \in [Tasks -> Nat]
      BY <1>2, <3>3
    <3>5. \A t \in Tasks : dlq[t] \in Nat /\ dlq'[t] = dlq[t]
      BY <3>3
    <3>6. \A t \in Tasks : dlq'[t] >= dlq[t]
      BY <3>5
    <3>7. log' \in Seq(MessageType) /\ Len(log') >= Len(log)
      <4>1. CASE log' = log
        BY <1>0, <3>3, <4>1
      <4>2. CASE log' = Append(Closed(w, "retrying"), Message(TaskOf(w)))
        <5>1. log' \in Seq(MessageType) /\ Len(log') = Len(log) + 1
          BY <3>2, <4>2
        <5> QED BY <1>0, <5>1
      <4> QED BY <3>3, <4>1, <4>2
    <3> QED BY <3>3, <3>4, <3>6, <3>7
  <2> QED BY <2>2, <2>3, <2>4 DEF Close
<1>7. TypeOK'
  BY <1>0, <1>3, <1>4, <1>5, <1>6 DEF Settle, TypeOK
<1>8. Removable'
  BY <1>3, <1>6 DEF Settle, Removable, TypeOK
<1> QED BY <1>5, <1>7, <1>8

LEMMA TypesStep == ASSUME Shapes, [Next]_vars PROVE Shapes'
<1>1. CASE UNCHANGED vars
  BY <1>1 DEF Shapes, TypeOK, Removable, Placed, vars, redis, history
<1>2. CASE Next
  BY <1>2, OtherKeepsTypes, PollKeepsTypes, CloseKeepsTypes DEF Next, Poll
<1> QED BY <1>1, <1>2

LEMMA ShapesAlways == Spec => []Shapes
BY InitShapes, TypesStep, PTL DEF Spec

\* The Redis keys and the memory of the workers keep their types, for any
\* number of tasks, workers and faults.
THEOREM Types == Spec => []TypeOK
BY ShapesAlways, PTL DEF Shapes

-----------------------------------------------------------------------------
(* What a step does to the messages.                                       *)

\* A message whose lease is renewed or has aged.
Aged(m) == /\ log'[m].task = log[m].task /\ log'[m].state = log[m].state
           /\ log'[m].owner = log[m].owner /\ log'[m].token = log[m].token
           /\ log'[m].attempt = log[m].attempt

\* The five things a step can do to the log.
Untouched == Len(log') = Len(log) /\ \A m \in Ids : Aged(m)
Added == \E t \in Tasks : log' = Append(log, Message(t))
Granted ==
    \E w \in Workers, m \in 1..read, first \in BOOLEAN :
        Grant(w, m, first) /\ ~Live(m) /\ log[m].state \notin Terminal
Finished(w, s) == Effective(w) /\ log' = Closed(w, s)
Retried(w) == Effective(w) /\ log' = Append(Closed(w, "retrying"), Message(TaskOf(w)))

\* Renewals and time change nothing of a lease but what is left of it.
LEMMA LeasesAge ==
    ASSUME Shapes, Tick \/ \E w \in Workers : Renew(w)
    PROVE  Untouched
<1>0. /\ Len(log) \in Nat /\ Ids = 1..Len(log) /\ read \in 0..Len(log)
      /\ \A m \in Ids : log[m] \in MessageType
  BY LogShape DEF Shapes, TypeOK
<1>1. ASSUME NEW w \in Workers, Renew(w) PROVE Untouched
  <2> DEFINE k == worker[w].m
             r == [log[k] EXCEPT !.ttl = TTL]
  <2>1. k \in 1..Len(log) /\ log[k] \in MessageType
    BY <1>0, <1>1 DEF Renew, Shapes, Placed
  <2>2. r \in MessageType
    <3>1. TTL \in 0..TTL
      BY LeaseAssumption DEF LeaseAssumption
    <3> QED BY <2>1, <3>1 DEF MessageType
  <2>3. log' = [log EXCEPT ![k] = r]
    BY <1>1 DEF Renew
  <2>4. /\ r.task = log[k].task /\ r.state = log[k].state /\ r.owner = log[k].owner /\ r.token = log[k].token
        /\ r.attempt = log[k].attempt
    BY <2>1 DEF MessageType
  <2> HIDE DEF r
  <2>5. Len(log') = Len(log) /\ \A m \in 1..Len(log) : log'[m] = IF m = k THEN r ELSE log[m]
    BY <2>1, <2>2, <2>3, ExceptSeq DEF Shapes, TypeOK
  <2> QED BY <1>0, <2>4, <2>5 DEF Untouched, Aged
<1>2. ASSUME Tick PROVE Untouched
  <2>1. log' = [m \in 1..Len(log) |-> IF Live(m) THEN [log[m] EXCEPT !.ttl = @ - 1] ELSE log[m]]
    BY <1>0, <1>2 DEF Tick
  <2>2. log' \in Seq(MessageType)
    BY <1>2, OtherKeepsTypes DEF Shapes, TypeOK
  <2>3. Len(log') = Len(log)
    BY <1>0, <2>1, <2>2, LenProperties
  <2>4. \A m \in Ids : Aged(m)
    BY <1>0, <2>1 DEF Aged, MessageType
  <2> QED BY <2>3, <2>4 DEF Untouched
<1> QED BY <1>1, <1>2

\* Leases, workers and time never settle or add a message.
LEMMA LeaseSteps ==
    ASSUME Shapes, Tick \/ \E w \in Workers : Poll(w) \/ Work(w) \/ Crash(w)
    PROVE  Untouched \/ Granted
<1>0. /\ Len(log) \in Nat /\ Ids = 1..Len(log) /\ read \in 0..Len(log) /\ pel \subseteq 1..read
      /\ \A m \in Ids : log[m] \in MessageType
  BY LogShape DEF Shapes, TypeOK
<1>1. log' = log => Untouched
  BY DEF Untouched, Aged
<1>2. ASSUME NEW w \in Workers, Acquire(w) PROVE log' = log \/ Granted
  <2>1. worker[w].m \in 1..read
    BY <1>2 DEF Acquire, Shapes, Placed
  <2> QED BY <1>2, <2>1 DEF Acquire, Granted
<1>3. ASSUME NEW w \in Workers, NEW m \in pel, Reclaim(w, m) PROVE Granted
  BY <1>0, <1>3 DEF Reclaim, Granted
<1>4. ASSUME NEW w \in Workers, Renew(w) PROVE Untouched
  BY <1>4, LeasesAge
<1>5. ASSUME Tick PROVE Untouched
  BY <1>5, LeasesAge
<1>6. ASSUME NEW w \in Workers, ReadNew(w) \/ FindNothing(w) \/ LoseLease(w) \/ Refuse(w)
                                \/ Abandon(w) \/ HandlerEnds(w) \/ Crash(w)
      PROVE  log' = log
  BY <1>6 DEF ReadNew, FindNothing, LoseLease, Refuse, Abandon, HandlerEnds, Crash, redis
<1> QED BY <1>1, <1>2, <1>3, <1>4, <1>5, <1>6 DEF Poll, Work

LEMMA LogForms ==
    ASSUME Shapes, [Next]_vars
    PROVE  \/ Untouched \/ Added \/ Granted
           \/ \E w \in Workers : \/ \E s \in Terminal : Finished(w, s)
                                 \/ Retried(w)
<1>1. CASE log' = log
  BY <1>1 DEF Untouched, Aged
<1>2. ASSUME NEW t \in Tasks, Enqueue(t) \/ RequeueAdd(t) PROVE Added
  BY <1>2 DEF Enqueue, RequeueAdd, Added
<1>3. ASSUME NEW w \in Workers, Close(w)
      PROVE  log' = log \/ Retried(w) \/ \E s \in Terminal : Finished(w, s)
  BY <1>3 DEF Close, Ack, FailRetry, FailDeadLetter, Finished, Retried, Terminal
<1>4. CASE RequeueDelete \/ RequeueCutOff \/ UNCHANGED vars
  <2>1. log' = log
    BY <1>4 DEF RequeueDelete, RequeueCutOff, vars, redis
  <2> QED BY <1>1, <2>1
<1>5. CASE Next
  <2>1. CASE Tick \/ \E w \in Workers : Poll(w) \/ Work(w) \/ Crash(w)
    BY <2>1, LeaseSteps
  <2>2. CASE \E w \in Workers : Close(w)
    BY <1>1, <1>3, <2>2
  <2> QED BY <1>2, <1>4, <1>5, <2>1, <2>2 DEF Next
<1> QED BY <1>4, <1>5

\* A message that a settling script finds is delivered, pending and leased.
LEMMA EffectiveForm ==
    ASSUME TypeOK, NEW w \in Workers, Effective(w)
    PROVE  /\ worker[w].m \in pel /\ worker[w].m \in Ids /\ worker[w].m \in 1..read
           /\ log[worker[w].m].state = "active"
           /\ log[worker[w].m].token = worker[w].token
           /\ TaskOf(w) = log[worker[w].m].task /\ TaskOf(w) \in Tasks
<1>1. worker[w].m \in pel /\ pel \subseteq 1..read /\ read \in 0..Len(log)
  BY DEF Effective, TypeOK
<1>2. worker[w].m \in Ids
  <2>1. Ids = 1..Len(log) /\ Len(log) \in Nat
    BY LogShape
  <2>2. worker[w].m \in 1..read
    BY <1>1
  <2>3. worker[w].m \in 1..Len(log)
    BY <1>1, <2>1, <2>2
  <2> QED BY <2>1, <2>3
<1>3. log[worker[w].m] \in MessageType
  BY <1>2, LogShape
<1>4. log[worker[w].m].task \in Tasks
  BY <1>3 DEF MessageType
<1>5. log[worker[w].m].state = "active" /\ log[worker[w].m].token = worker[w].token
  BY DEF Effective, Owns, OnRecord, Live
<1> QED BY <1>1, <1>2, <1>4, <1>5 DEF TaskOf

\* Message by message: what may become of it in one step.
LEMMA MessageSteps ==
    ASSUME Shapes, [Next]_vars
    PROVE  /\ Len(log') >= Len(log) /\ Len(log') \in Nat
           /\ \A m \in Ids : /\ log'[m].task = log[m].task
                             /\ log[m].state \in Terminal => Aged(m)
           /\ \A m \in 1..Len(log') : m > Len(log) => \E t \in Tasks : log'[m] = Message(t)
<1>0. /\ Len(log) \in Nat /\ Ids = 1..Len(log) /\ \A m \in Ids : log[m] \in MessageType
      /\ TypeOK /\ log \in Seq(MessageType) /\ read \in 0..Len(log)
  BY LogShape DEF Shapes, TypeOK
<1>1. CASE Untouched
  BY <1>0, <1>1 DEF Untouched, Aged
<1>2. CASE Added
  BY <1>0, <1>2, Appended DEF Added, Aged
<1>3. CASE Granted
  <2>1. PICK w \in Workers, m \in 1..read, first \in BOOLEAN :
           Grant(w, m, first) /\ log[m].state \notin Terminal
    BY <1>3 DEF Granted
  <2>2. m \in Ids
    BY <1>0
  <2>3. /\ Len(log') = Len(log) /\ \A n \in Ids \ {m} : log'[n] = log[n]
        /\ log'[m].task = log[m].task
    <3>1. TypeOK
      BY <1>0
    <3> QED BY <2>1, <2>2, <3>1, GrantForm
  <2> QED BY <1>0, <2>1, <2>3 DEF Aged
<1>4. ASSUME NEW w \in Workers, Effective(w), NEW s \in Terminal
      PROVE  /\ Closed(w, s) \in Seq(MessageType) /\ Len(Closed(w, s)) = Len(log)
             /\ \A m \in Ids : /\ Closed(w, s)[m].task = log[m].task
                               /\ log[m].state \in Terminal => Closed(w, s)[m] = log[m]
  <2>1. worker[w].m \in Ids /\ log[worker[w].m].state \notin Terminal
    BY <1>0, <1>4, EffectiveForm DEF Terminal
  <2>2. /\ Closed(w, s) \in Seq(MessageType) /\ Len(Closed(w, s)) = Len(log)
        /\ \A m \in Ids : Closed(w, s)[m] =
             IF m = worker[w].m THEN [log[m] EXCEPT !.state = s] ELSE log[m]
    BY <1>0, <2>1, ClosedForm
  <2>3. \A m \in Ids : [log[m] EXCEPT !.state = s].task = log[m].task
    BY <1>0 DEF MessageType
  <2> QED BY <2>1, <2>2, <2>3
<1>5. ASSUME NEW w \in Workers, NEW s \in Terminal, Finished(w, s)
      PROVE  /\ Len(log') = Len(log)
             /\ \A m \in Ids : /\ log'[m].task = log[m].task
                               /\ log[m].state \in Terminal => Aged(m)
  BY <1>4, <1>5 DEF Finished, Aged
<1>6. ASSUME NEW w \in Workers, Retried(w)
      PROVE  /\ Len(log') = Len(log) + 1
             /\ \A m \in Ids : /\ log'[m].task = log[m].task
                               /\ log[m].state \in Terminal => Aged(m)
             /\ \E t \in Tasks : log'[Len(log) + 1] = Message(t)
  <2>1. TaskOf(w) \in Tasks /\ Effective(w) /\ "retrying" \in Terminal
    BY <1>0, <1>6, EffectiveForm DEF Retried, Terminal
  <2>2. Closed(w, "retrying") \in Seq(MessageType) /\ Len(Closed(w, "retrying")) = Len(log)
    BY <1>4, <2>1
  <2>3. /\ Len(log') = Len(log) + 1 /\ log'[Len(log) + 1] = Message(TaskOf(w))
        /\ \A m \in Ids : log'[m] = Closed(w, "retrying")[m]
    BY <1>0, <1>6, <2>1, <2>2, Appended DEF Retried
  <2> QED BY <1>4, <2>1, <2>3 DEF Aged
<1> QED BY <1>0, <1>1, <1>2, <1>3, <1>5, <1>6, LogForms

\* A message that was settled is never settled otherwise, whoever still holds
\* an old lease of it.
THEOREM Final == Spec => SettledIsFinal
<1>1. ASSUME Shapes, [Next]_vars
      PROVE  \A m \in Ids : log[m].state \in Terminal => log'[m].state = log[m].state
  <2>1. \A m \in Ids : log[m].state \in Terminal => Aged(m)
    BY <1>1, MessageSteps
  <2> QED BY <2>1 DEF Aged
<1> QED BY <1>1, ShapesAlways, PTL DEF Spec, SettledIsFinal

-----------------------------------------------------------------------------
(* The contract of the queue.                                              *)

ItemType == [task : Tasks, state : Terminal \cup {"open"}]

ItemsFollow ==
    /\ Items \in Seq(ItemType) /\ Len(Items) = Len(log)
    /\ \A m \in 1..Len(log) : Items[m] = Outcome(m)

LEMMA ItemsShape == TypeOK => ItemsFollow
<1> SUFFICES ASSUME TypeOK PROVE ItemsFollow
  OBVIOUS
<1>1. Len(log) \in Nat /\ Ids = 1..Len(log) /\ \A m \in Ids : Outcome(m) \in ItemType
  BY LogShape DEF Outcome, ItemType, MessageType
<1>2. Items = [m \in 1..Len(log) |-> Outcome(m)]
  BY <1>1 DEF Items, Ids
<1>3. Items \in Seq(ItemType)
  BY <1>1, <1>2, IsASeq
<1> QED BY <1>1, <1>2, <1>3, LenProperties DEF ItemsFollow

LEMMA ItemsShapeNext == TypeOK' => ItemsFollow'
BY ItemsShape, PTL

\* Items of the same outcomes are the same.
LEMMA SameItems ==
    ASSUME TypeOK, TypeOK', Len(log') = Len(log), \A m \in Ids : Outcome(m)' = Outcome(m)
    PROVE  Items' = Items
<1>1. ItemsFollow /\ ItemsFollow' /\ Ids = 1..Len(log)
  BY ItemsShape, ItemsShapeNext, LogShape
<1> QED BY <1>1, SeqEqual DEF ItemsFollow

\* A new message is a new open item.
LEMMA NewItem ==
    ASSUME TypeOK, TypeOK', NEW t \in Tasks, NEW s \in Seq(ItemType), Len(s) = Len(log),
           \A m \in Ids : Outcome(m)' = s[m],
           NEW n \in Nat, n = Len(log) + 1, Len(log') = n, log'[n] = Message(t)
    PROVE  Items' = Append(s, Contract!Open(t))
<1>1. ItemsFollow' /\ Ids = 1..Len(log) /\ Len(log) \in Nat
  BY ItemsShapeNext, LogShape
<1>2. Outcome(n)' = Contract!Open(t) /\ Contract!Open(t) \in ItemType
  BY DEF Outcome, Contract!Open, Message, Terminal, ItemType
<1>3. /\ Append(s, Contract!Open(t)) \in Seq(ItemType)
      /\ Len(Append(s, Contract!Open(t))) = n
      /\ \A m \in 1..Len(log) : Append(s, Contract!Open(t))[m] = s[m]
      /\ Append(s, Contract!Open(t))[n] = Contract!Open(t)
  BY <1>1, <1>2, AppendProperties
<1>4. \A m \in 1..n : m \in 1..Len(log) \/ m = n
  BY <1>1
<1>5. ASSUME NEW m \in 1..n PROVE Items'[m] = Append(s, Contract!Open(t))[m]
  <2>1. Items'[m] = Outcome(m)'
    BY <1>1 DEF ItemsFollow
  <2> QED BY <1>1, <1>2, <1>3, <1>4, <2>1
<1> QED BY <1>1, <1>3, <1>5, SeqEqual DEF ItemsFollow

\* What the settling of one message does to the items.
LEMMA SettledItem ==
    ASSUME TypeOK, NEW w \in Workers, Effective(w), NEW s \in Terminal
    PROVE  LET k == worker[w].m
               done == [Items EXCEPT ![k].state = s]
           IN  /\ Contract!IsOpen(k) /\ k \in DOMAIN Items /\ Items[k].task = TaskOf(w)
               /\ done \in Seq(ItemType) /\ Len(done) = Len(log)
               /\ Closed(w, s) \in Seq(MessageType) /\ Len(Closed(w, s)) = Len(log)
               /\ \A m \in Ids :
                     done[m] = [task |-> Closed(w, s)[m].task,
                                state |-> IF Closed(w, s)[m].state \in Terminal
                                          THEN Closed(w, s)[m].state ELSE "open"]
<1> DEFINE k == worker[w].m
           r == [Items[k] EXCEPT !.state = s]
           done == [Items EXCEPT ![k] = r]
<1>1. /\ k \in 1..Len(log) /\ log[k].state = "active" /\ TaskOf(w) = log[k].task
      /\ Ids = 1..Len(log) /\ Len(log) \in Nat /\ log[k] \in MessageType
  BY EffectiveForm, LogShape
<1>2. ItemsFollow /\ Items[k] = [task |-> log[k].task, state |-> "open"]
  BY <1>1, ItemsShape DEF ItemsFollow, Outcome, Terminal
<1>3. DOMAIN Items = 1..Len(log)
  BY <1>2, LenProperties DEF ItemsFollow
<1>4. r = [task |-> log[k].task, state |-> s] /\ r \in ItemType
  BY <1>1, <1>2 DEF ItemType, MessageType
<1> HIDE DEF r
<1>5. /\ done \in Seq(ItemType) /\ Len(done) = Len(log)
      /\ \A m \in 1..Len(log) : done[m] = IF m = k THEN r ELSE Items[m]
  BY <1>1, <1>2, <1>4, ExceptSeq DEF ItemsFollow
<1>6. done = [Items EXCEPT ![k].state = s]
  BY DEF r
<1> HIDE DEF done
<1>7. /\ Closed(w, s) \in Seq(MessageType) /\ Len(Closed(w, s)) = Len(log)
      /\ \A m \in Ids : Closed(w, s)[m] = IF m = k THEN [log[m] EXCEPT !.state = s] ELSE log[m]
  BY <1>1, ClosedForm
<1>8. \A m \in Ids : done[m] = [task |-> Closed(w, s)[m].task,
                                 state |-> IF Closed(w, s)[m].state \in Terminal
                                           THEN Closed(w, s)[m].state ELSE "open"]
  <2> SUFFICES ASSUME NEW m \in Ids
               PROVE  done[m] = [task |-> Closed(w, s)[m].task,
                                 state |-> IF Closed(w, s)[m].state \in Terminal
                                           THEN Closed(w, s)[m].state ELSE "open"]
    OBVIOUS
  <2>1. CASE m = k
    <3>1. Closed(w, s)[m].task = log[k].task /\ Closed(w, s)[m].state = s
      BY <1>1, <1>7, <2>1 DEF MessageType
    <3> QED BY <1>1, <1>4, <1>5, <2>1, <3>1
  <2>2. CASE m # k
    BY <1>1, <1>2, <1>5, <1>7, <2>2 DEF ItemsFollow, Outcome
  <2> QED BY <2>1, <2>2
<1>9. Contract!IsOpen(k) /\ Items[k].task = TaskOf(w)
  BY <1>1, <1>2, <1>3 DEF Contract!IsOpen
<1> QED BY <1>1, <1>3, <1>5, <1>6, <1>7, <1>8, <1>9

\* Steps that settle nothing and add nothing are stutters of the contract.
LEMMA LeasesAreHidden ==
    ASSUME Shapes, [Next]_vars, Untouched \/ Granted
    PROVE  Items' = Items
<1>0. TypeOK /\ TypeOK' /\ Ids = 1..Len(log) /\ read \in 0..Len(log) /\ Len(log) \in Nat
  BY TypesStep, LogShape DEF Shapes, TypeOK
<1>1. CASE Untouched
  <2>1. \A m \in Ids : Outcome(m)' = Outcome(m)
    BY <1>1 DEF Untouched, Aged, Outcome
  <2> QED BY <1>0, <1>1, <2>1, SameItems DEF Untouched
<1>2. CASE Granted
  <2>1. PICK w \in Workers, k \in 1..read, first \in BOOLEAN :
           Grant(w, k, first) /\ log[k].state \notin Terminal
    BY <1>2 DEF Granted
  <2>2. k \in Ids
    BY <1>0
  <2>3. /\ Len(log') = Len(log) /\ \A m \in Ids \ {k} : log'[m] = log[m]
        /\ log'[k].task = log[k].task /\ log'[k].state = "active"
    BY <1>0, <2>1, <2>2, GrantForm
  <2>4. \A m \in Ids : Outcome(m)' = Outcome(m)
    BY <2>1, <2>3 DEF Outcome, Terminal
  <2> QED BY <1>0, <2>3, <2>4, SameItems
<1> QED BY <1>1, <1>2

LEMMA AddedIsOpen ==
    ASSUME Shapes, [Next]_vars, NEW t \in Tasks, log' = Append(log, Message(t))
    PROVE  Items' = Append(Items, Contract!Open(t))
<1>0. /\ TypeOK /\ TypeOK' /\ Ids = 1..Len(log) /\ Len(log) \in Nat /\ log \in Seq(MessageType)
      /\ ItemsFollow
  BY TypesStep, LogShape, ItemsShape DEF Shapes, TypeOK
<1>1. /\ Len(log') = Len(log) + 1 /\ log'[Len(log) + 1] = Message(t)
      /\ \A m \in 1..Len(log) : log'[m] = log[m]
  BY <1>0, Appended
<1>2. \A m \in Ids : Outcome(m)' = Items[m]
  BY <1>0, <1>1 DEF Outcome, ItemsFollow
<1>3. PICK n \in Nat : n = Len(log) + 1
  BY <1>0
<1> QED BY <1>0, <1>1, <1>2, <1>3, NewItem DEF ItemsFollow

LEMMA SettledIsSettled ==
    ASSUME Shapes, [Next]_vars, NEW w \in Workers, Effective(w), NEW s \in Terminal
    PROVE  LET done == [Items EXCEPT ![worker[w].m].state = s]
           IN  /\ log' = Closed(w, s) => Items' = done
               /\ log' = Append(Closed(w, s), Message(TaskOf(w)))
                     => Items' = Append(done, Contract!Open(TaskOf(w)))
<1> DEFINE done == [Items EXCEPT ![worker[w].m].state = s]
<1>0. /\ TypeOK /\ TypeOK' /\ Ids = 1..Len(log) /\ Len(log) \in Nat /\ ItemsFollow'
      /\ TaskOf(w) \in Tasks
  BY TypesStep, LogShape, ItemsShapeNext, EffectiveForm DEF Shapes, TypeOK
<1>1. /\ done \in Seq(ItemType) /\ Len(done) = Len(log)
      /\ Closed(w, s) \in Seq(MessageType) /\ Len(Closed(w, s)) = Len(log)
      /\ \A m \in Ids :
            done[m] = [task |-> Closed(w, s)[m].task,
                       state |-> IF Closed(w, s)[m].state \in Terminal
                                 THEN Closed(w, s)[m].state ELSE "open"]
  BY <1>0, SettledItem
<1> HIDE DEF done
<1>2. CASE log' = Closed(w, s)
  <2>1. \A m \in 1..Len(log) : Items'[m] = done[m]
    BY <1>0, <1>1, <1>2 DEF ItemsFollow, Outcome
  <2>2. Items' = done
    BY <1>0, <1>1, <1>2, <2>1, SeqEqual DEF ItemsFollow
  <2>3. log' # Append(Closed(w, s), Message(TaskOf(w)))
    BY <1>0, <1>1, <1>2, Appended
  <2> QED BY <2>2, <2>3 DEF done
<1>3. CASE log' = Append(Closed(w, s), Message(TaskOf(w)))
  <2>1. /\ Len(log') = Len(log) + 1 /\ log'[Len(log) + 1] = Message(TaskOf(w))
        /\ \A m \in 1..Len(log) : log'[m] = Closed(w, s)[m]
    BY <1>0, <1>1, <1>3, Appended
  <2>2. \A m \in Ids : Outcome(m)' = done[m]
    BY <1>0, <1>1, <2>1 DEF Outcome
  <2>3. PICK n \in Nat : n = Len(log) + 1
    BY <1>0
  <2>4. PICK t \in Tasks : t = TaskOf(w)
    BY <1>0
  <2>5. Items' = Append(done, Contract!Open(t))
    BY <1>0, <1>1, <2>1, <2>2, <2>3, <2>4, NewItem
  <2>6. log' # Closed(w, s)
    BY <1>0, <1>1, <2>1
  <2> QED BY <2>4, <2>5, <2>6 DEF done
<1> QED BY <1>2, <1>3 DEF done

LEMMA ContractInit == Init => Contract!Init
<1> SUFFICES ASSUME Init PROVE Contract!Init
  OBVIOUS
<1>1. log \in Seq(MessageType) /\ Len(log) = 0
  BY EmptySeq DEF Init
<1>2. Items \in Seq(ItemType) /\ Len(Items) = 0
  BY <1>1, InitShapes, ItemsShape DEF Shapes, ItemsFollow
<1>3. Items = <<>>
  BY <1>2, EmptySeq
<1> QED BY <1>3 DEF Init, Contract!Init

LEMMA ContractStep ==
    ASSUME Shapes, [Next]_vars
    PROVE  [Contract!Next]_Contract!vars
<1>0. TypeOK /\ TypeOK' /\ Len(log) \in Nat /\ Removable
  BY TypesStep, LogShape DEF Shapes
<1>1. ASSUME NEW t \in Tasks, Enqueue(t) PROVE Contract!Submit(t)
  <2>1. Items' = Append(Items, Contract!Open(t))
    BY <1>1, AddedIsOpen DEF Enqueue
  <2> QED BY <1>1, <2>1 DEF Enqueue, Contract!Submit
<1>2. ASSUME NEW t \in Tasks, RequeueAdd(t) PROVE Contract!Requeue(t)
  <2>1. Items' = Append(Items, Contract!Open(t))
    BY <1>2, AddedIsOpen DEF RequeueAdd
  <2> QED BY <1>2, <2>1 DEF RequeueAdd, Contract!Requeue
<1>3. ASSUME NEW w \in Workers, Close(w), Effective(w)
      PROVE  \E m \in DOMAIN Items : Contract!Finish(m) \/ Contract!Retry(m) \/ Contract!Bury(m)
  <2> DEFINE k == worker[w].m
  <2>1. Contract!IsOpen(k) /\ k \in DOMAIN Items /\ Items[k].task = TaskOf(w)
    <3>1. "succeeded" \in Terminal
      BY DEF Terminal
    <3> QED BY <1>0, <1>3, <3>1, SettledItem
  <2>2. UNCHANGED <<operator, submitted>>
    BY <1>3 DEF Close, Ack, FailRetry, FailDeadLetter, Settle
  <2>3. CASE Ack(w)
    <3>1. log' = Closed(w, "succeeded") /\ "succeeded" \in Terminal
      BY <1>3, <2>3 DEF Ack, Terminal
    <3>2. Items' = [Items EXCEPT ![k].state = "succeeded"]
      BY <1>3, <3>1, SettledIsSettled
    <3>3. Contract!Finish(k)
      BY <2>1, <2>2, <2>3, <3>2 DEF Ack, Contract!Finish
    <3> QED BY <2>1, <3>3
  <2>4. CASE FailRetry(w)
    <3>1. log' = Append(Closed(w, "retrying"), Message(TaskOf(w))) /\ "retrying" \in Terminal
      BY <1>3, <2>4 DEF FailRetry, Terminal
    <3>2. Items' = Append([Items EXCEPT ![k].state = "retrying"], Contract!Open(TaskOf(w)))
      BY <1>3, <3>1, SettledIsSettled
    <3>3. Contract!Retry(k)
      BY <2>1, <2>2, <2>4, <3>2 DEF FailRetry, Contract!Retry
    <3> QED BY <2>1, <3>3
  <2>5. CASE FailDeadLetter(w)
    <3>1. log' = Closed(w, "dead_letter") /\ "dead_letter" \in Terminal
      BY <1>3, <2>5 DEF FailDeadLetter, Terminal
    <3>2. Items' = [Items EXCEPT ![k].state = "dead_letter"]
      BY <1>3, <3>1, SettledIsSettled
    <3>3. dlq' = [dlq EXCEPT ![Items[k].task] = @ + 1]
      BY <1>3, <2>1, <2>5 DEF FailDeadLetter
    <3>4. Contract!Bury(k)
      BY <2>1, <2>2, <3>2, <3>3 DEF Contract!Bury
    <3> QED BY <2>1, <3>4
  <2> QED BY <1>3, <2>3, <2>4, <2>5 DEF Close
<1>4. ASSUME UNCHANGED <<dlq, operator, submitted>>, Untouched \/ Granted
      PROVE  UNCHANGED Contract!vars
  <2>1. Items' = Items
    BY <1>4, LeasesAreHidden
  <2> QED BY <1>4, <2>1 DEF Contract!vars
<1>5. log' = log => Untouched
  BY DEF Untouched, Aged
<1>6. ASSUME NEW w \in Workers, Close(w), ~Effective(w) PROVE UNCHANGED Contract!vars
  <2>1. log' = log /\ UNCHANGED <<dlq, operator, submitted>>
    BY <1>6 DEF Close, Ack, FailRetry, FailDeadLetter, Settle
  <2> QED BY <1>4, <1>5, <2>1
<1>7. ASSUME NEW w \in Workers, Poll(w) \/ Work(w) \/ Crash(w) PROVE UNCHANGED Contract!vars
  <2>1. UNCHANGED <<dlq, operator, submitted>>
    BY <1>7 DEF Poll, Work, Crash, ReadNew, Acquire, Reclaim, FindNothing, Renew, LoseLease,
                Refuse, Abandon, HandlerEnds, redis
  <2>2. Untouched \/ Granted
    BY <1>7, LeaseSteps
  <2> QED BY <1>4, <2>1, <2>2
<1>8. ASSUME Tick PROVE UNCHANGED Contract!vars
  <2>1. UNCHANGED <<dlq, operator, submitted>>
    BY <1>8 DEF Tick
  <2>2. Untouched \/ Granted
    BY <1>8, LeaseSteps
  <2> QED BY <1>4, <2>1, <2>2
<1>9. ASSUME RequeueDelete PROVE Contract!Remove
  <2>1. log' = log
    BY <1>9 DEF RequeueDelete
  <2>2. Items' = Items
    BY <1>5, <2>1, LeasesAreHidden
  <2> QED BY <1>9, <2>2 DEF RequeueDelete, Contract!Remove, NoTask
<1>10. ASSUME RequeueCutOff PROVE Contract!Leave
  <2>1. log' = log
    BY <1>10 DEF RequeueCutOff, redis
  <2>2. Items' = Items
    BY <1>5, <2>1, LeasesAreHidden
  <2> QED BY <1>10, <2>2 DEF RequeueCutOff, Contract!Leave, redis
<1>11. ASSUME UNCHANGED vars PROVE UNCHANGED Contract!vars
  <2>1. log' = log /\ UNCHANGED <<dlq, operator, submitted>>
    BY <1>11 DEF vars, redis
  <2> QED BY <1>4, <1>5, <2>1
<1>12. CASE Next
  <2>1. CASE \E w \in Workers : Close(w)
    BY <1>3, <1>6, <2>1 DEF Contract!Next
  <2>2. CASE \E t \in Tasks : Enqueue(t) \/ RequeueAdd(t)
    BY <1>1, <1>2, <2>2 DEF Contract!Next
  <2>3. CASE RequeueDelete \/ RequeueCutOff
    BY <1>9, <1>10, <2>3 DEF Contract!Next
  <2> QED BY <1>7, <1>8, <1>12, <2>1, <2>2, <2>3 DEF Next
<1> QED BY <1>11, <1>12

\* Any history of leases, lost replies, reclaims and crashes looks to the
\* callers like a queue that settles every message at most once.
THEOREM Implements == Spec => KeepsContract
BY ContractInit, ContractStep, ShapesAlways, PTL DEF Spec, KeepsContract, Contract!Spec

-----------------------------------------------------------------------------
(* Settlement.                                                             *)

\* What was not delivered was never leased.
UnreadIsNew == \A m \in 1..Len(log) : m > read => log[m].state = "new"

SettledIsClosed ==
    \A s \in settled :
        s[1] \in 1..Len(log) /\ s[2] = log[s[1]].token /\ log[s[1]].state \in Terminal

Settlement == UnreadIsNew /\ PendingIsUnsettled /\ SettledIsClosed

LEMMA InitSettlement == Init => Settlement
<1> SUFFICES ASSUME Init PROVE Settlement
  OBVIOUS
<1>1. Len(log) = 0 /\ read = 0 /\ pel = {} /\ settled = {}
  BY EmptySeq DEF Init
<1> QED BY <1>1 DEF Settlement, UnreadIsNew, PendingIsUnsettled, SettledIsClosed

\* Outside the settling scripts no message enters or leaves a terminal state.
LEMMA StatesKept ==
    ASSUME Shapes, Untouched \/ Added \/ Granted
    PROVE  /\ Len(log') \in Nat /\ Len(log') >= Len(log)
           /\ \A m \in 1..Len(log) :
                 /\ log'[m].state \in Terminal <=> log[m].state \in Terminal
                 /\ m > read => log'[m].state = log[m].state
           /\ \A m \in 1..Len(log') : m > Len(log) => log'[m].state = "new"
<1>0. /\ TypeOK /\ Len(log) \in Nat /\ Ids = 1..Len(log) /\ read \in 0..Len(log)
      /\ log \in Seq(MessageType)
  BY LogShape DEF Shapes, TypeOK
<1>1. CASE Untouched
  BY <1>0, <1>1 DEF Untouched, Aged
<1>2. CASE Added
  <2>1. PICK t \in Tasks : log' = Append(log, Message(t))
    BY <1>2 DEF Added
  <2>2. /\ Len(log') = Len(log) + 1 /\ log'[Len(log) + 1] = Message(t)
        /\ \A m \in 1..Len(log) : log'[m] = log[m]
    BY <1>0, <2>1, Appended
  <2> QED BY <1>0, <2>2 DEF Message
<1>3. CASE Granted
  <2>1. PICK w \in Workers, k \in 1..read, first \in BOOLEAN :
           Grant(w, k, first) /\ log[k].state \notin Terminal
    BY <1>3 DEF Granted
  <2>2. k \in Ids
    BY <1>0
  <2>3. /\ Len(log') = Len(log) /\ \A m \in Ids \ {k} : log'[m] = log[m]
        /\ log'[k].state = "active"
    BY <1>0, <2>1, <2>2, GrantForm
  <2>4. "active" \notin Terminal /\ ~(k > read)
    BY <1>0 DEF Terminal
  <2> QED BY <1>0, <2>1, <2>3, <2>4
<1> QED BY <1>1, <1>2, <1>3

\* The settling of one message, with or without a retry.
LEMMA StatesClosed ==
    ASSUME Shapes, NEW w \in Workers, Retried(w) \/ \E s \in Terminal : Finished(w, s)
    PROVE  /\ Len(log') \in Nat /\ Len(log') >= Len(log)
           /\ worker[w].m \in 1..read /\ worker[w].token = log[worker[w].m].token
           /\ log'[worker[w].m].state \in Terminal /\ log[worker[w].m].state \notin Terminal
           /\ log'[worker[w].m].token = log[worker[w].m].token
           /\ \A m \in 1..Len(log) : m # worker[w].m => log'[m] = log[m]
           /\ \A m \in 1..Len(log') : m > Len(log) => log'[m].state = "new"
<1>0. /\ TypeOK /\ Len(log) \in Nat /\ Ids = 1..Len(log) /\ log \in Seq(MessageType)
      /\ Effective(w) /\ "retrying" \in Terminal
  BY LogShape DEF Shapes, TypeOK, Retried, Finished, Terminal
<1>1. /\ worker[w].m \in 1..read /\ worker[w].m \in Ids /\ log[worker[w].m].state = "active"
      /\ log[worker[w].m].token = worker[w].token /\ TaskOf(w) \in Tasks
      /\ log[worker[w].m] \in MessageType
  BY <1>0, EffectiveForm, LogShape
<1>2. "active" \notin Terminal
  BY DEF Terminal
<1>3. ASSUME NEW s \in Terminal
      PROVE  /\ Closed(w, s) \in Seq(MessageType) /\ Len(Closed(w, s)) = Len(log)
             /\ Closed(w, s)[worker[w].m].state = s
             /\ Closed(w, s)[worker[w].m].token = log[worker[w].m].token
             /\ \A m \in Ids : m # worker[w].m => Closed(w, s)[m] = log[m]
  <2>1. /\ Closed(w, s) \in Seq(MessageType) /\ Len(Closed(w, s)) = Len(log)
        /\ \A m \in Ids : Closed(w, s)[m] =
             IF m = worker[w].m THEN [log[m] EXCEPT !.state = s] ELSE log[m]
    BY <1>0, <1>1, ClosedForm
  <2> QED BY <1>1, <2>1 DEF MessageType
<1>4. CASE \E s \in Terminal : Finished(w, s)
  BY <1>0, <1>1, <1>2, <1>3, <1>4 DEF Finished
<1>5. CASE Retried(w)
  <2> DEFINE c == Closed(w, "retrying")
  <2>1. /\ c \in Seq(MessageType) /\ Len(c) = Len(log)
        /\ c[worker[w].m].state \in Terminal
        /\ c[worker[w].m].token = log[worker[w].m].token
        /\ \A m \in Ids : m # worker[w].m => c[m] = log[m]
    BY <1>0, <1>3
  <2>2. log' = Append(c, Message(TaskOf(w)))
    BY <1>5 DEF Retried
  <2> HIDE DEF c
  <2>3. /\ Len(log') = Len(log) + 1 /\ log'[Len(log) + 1] = Message(TaskOf(w))
        /\ \A m \in 1..Len(log) : log'[m] = c[m]
    BY <1>0, <1>1, <2>1, <2>2, Appended
  <2>4. \A m \in 1..Len(log') : m > Len(log) => log'[m].state = "new"
    BY <1>0, <2>3 DEF Message
  <2> QED BY <1>0, <1>1, <1>2, <2>1, <2>3, <2>4
<1> QED BY <1>4, <1>5

\* The pending list and the history of settlements follow the log.
LEMMA PendingForms ==
    ASSUME Shapes, [Next]_vars
    PROVE  \/ /\ Untouched \/ Added \/ Granted
              /\ settled' = settled
              /\ \/ UNCHANGED <<read, pel>>
                 \/ /\ read' = read + 1 /\ read < Len(log) /\ pel' = pel \cup {read + 1}
                    /\ log' = log
           \/ \E w \in Workers :
                /\ Retried(w) \/ \E s \in Terminal : Finished(w, s)
                /\ read' = read /\ pel' = pel \ {worker[w].m}
                /\ settled' = settled \cup {<<worker[w].m, worker[w].token>>}
<1>1. ASSUME NEW w \in Workers, Close(w), Effective(w)
      PROVE  /\ Retried(w) \/ \E s \in Terminal : Finished(w, s)
             /\ read' = read /\ pel' = pel \ {worker[w].m}
             /\ settled' = settled \cup {<<worker[w].m, worker[w].token>>}
  BY <1>1 DEF Close, Ack, FailRetry, FailDeadLetter, Settle, Finished, Retried, Terminal
<1>2. log' = log => Untouched
  BY DEF Untouched, Aged
<1>3. ASSUME NEW w \in Workers, Close(w), ~Effective(w)
      PROVE  Untouched /\ UNCHANGED <<settled, read, pel>>
  BY <1>2, <1>3 DEF Close, Ack, FailRetry, FailDeadLetter, Settle
<1>4. ASSUME NEW w \in Workers, ReadNew(w)
      PROVE  /\ log' = log /\ settled' = settled
             /\ \/ UNCHANGED <<read, pel>>
                \/ read' = read + 1 /\ read < Len(log) /\ pel' = pel \cup {read + 1}
  BY <1>4 DEF ReadNew, history
<1>5. CASE Tick \/ \E w \in Workers : Poll(w) \/ Work(w) \/ Crash(w)
  <2>1. Untouched \/ Granted
    BY <1>5, LeaseSteps
  <2>2. CASE \E w \in Workers : ReadNew(w)
    BY <1>2, <1>4, <2>2
  <2>3. CASE ~\E w \in Workers : ReadNew(w)
    <3>1. UNCHANGED <<settled, read, pel>>
      BY <1>5, <2>3 DEF Tick, Poll, Work, Crash, Acquire, Reclaim, FindNothing, Renew, LoseLease,
                        Refuse, Abandon, HandlerEnds, redis, history
    <3> QED BY <2>1, <3>1
  <2> QED BY <2>2, <2>3
<1>6. ASSUME NEW t \in Tasks, Enqueue(t) \/ RequeueAdd(t)
      PROVE  Added /\ UNCHANGED <<settled, read, pel>>
  BY <1>6 DEF Enqueue, RequeueAdd, Added, history
<1>7. CASE RequeueDelete \/ RequeueCutOff \/ UNCHANGED vars
  <2>1. log' = log /\ UNCHANGED <<settled, read, pel>>
    BY <1>7 DEF RequeueDelete, RequeueCutOff, vars, redis, history
  <2> QED BY <1>2, <2>1
<1>8. CASE Next
  <2>1. CASE \E w \in Workers : Close(w)
    BY <1>1, <1>3, <2>1
  <2> QED BY <1>5, <1>6, <1>7, <1>8, <2>1 DEF Next
<1> QED BY <1>7, <1>8

LEMMA SettlementStep == ASSUME Shapes, Settlement, [Next]_vars PROVE Settlement'
<1>0. /\ Len(log) \in Nat /\ Ids = 1..Len(log) /\ read \in 0..Len(log) /\ pel \subseteq 1..read
      /\ UnreadIsNew /\ PendingIsUnsettled /\ SettledIsClosed /\ "new" \notin Terminal
  BY LogShape DEF Shapes, TypeOK, Settlement, Terminal
<1>1. CASE /\ Untouched \/ Added \/ Granted
           /\ settled' = settled
           /\ \/ UNCHANGED <<read, pel>>
              \/ /\ read' = read + 1 /\ read < Len(log) /\ pel' = pel \cup {read + 1}
                 /\ log' = log
  <2>1. /\ Len(log') \in Nat /\ Len(log') >= Len(log)
        /\ \A m \in 1..Len(log) : /\ log'[m].state \in Terminal <=> log[m].state \in Terminal
                                  /\ m > read => log'[m].state = log[m].state
        /\ \A m \in 1..Len(log') : m > Len(log) => log'[m].state = "new"
    BY <1>1, StatesKept
  <2>2. UnreadIsNew'
    <3> SUFFICES ASSUME NEW m \in 1..Len(log'), m > read' PROVE log'[m].state = "new"
      BY DEF UnreadIsNew
    <3>1. m > read
      BY <1>0, <1>1
    <3> QED BY <1>0, <2>1, <3>1 DEF UnreadIsNew
  <2>3. PendingIsUnsettled'
    <3>1. CASE UNCHANGED <<read, pel>>
      BY <1>0, <2>1, <3>1 DEF PendingIsUnsettled
    <3>2. CASE read' = read + 1 /\ read < Len(log) /\ pel' = pel \cup {read + 1} /\ log' = log
      <4>1. log[read + 1].state = "new"
        BY <1>0, <3>2 DEF UnreadIsNew
      <4>2. 1..(read + 1) = (1..read) \cup {read + 1}
        BY <1>0
      <4> QED BY <1>0, <3>2, <4>1, <4>2 DEF PendingIsUnsettled
    <3> QED BY <1>1, <3>1, <3>2
  <2>4. SettledIsClosed'
    <3>1. \A m \in 1..Len(log) : log[m].state \in Terminal => Aged(m)
      BY <1>0, MessageSteps
    <3> QED BY <1>0, <1>1, <2>1, <3>1 DEF SettledIsClosed, Aged
  <2> QED BY <2>2, <2>3, <2>4 DEF Settlement
<1>2. ASSUME NEW w \in Workers,
             Retried(w) \/ \E s \in Terminal : Finished(w, s),
             read' = read, pel' = pel \ {worker[w].m},
             settled' = settled \cup {<<worker[w].m, worker[w].token>>}
      PROVE  Settlement'
  <2> DEFINE k == worker[w].m
  <2>1. /\ Len(log') \in Nat /\ Len(log') >= Len(log)
        /\ k \in 1..read /\ worker[w].token = log[k].token
        /\ log'[k].state \in Terminal /\ log[k].state \notin Terminal
        /\ log'[k].token = log[k].token
        /\ \A m \in 1..Len(log) : m # k => log'[m] = log[m]
        /\ \A m \in 1..Len(log') : m > Len(log) => log'[m].state = "new"
    BY <1>2, StatesClosed
  <2> HIDE DEF k
  <2>2. UnreadIsNew'
    <3> SUFFICES ASSUME NEW m \in 1..Len(log'), m > read PROVE log'[m].state = "new"
      BY <1>2 DEF UnreadIsNew
    <3>1. m # k
      BY <1>0, <2>1
    <3> QED BY <1>0, <2>1, <3>1 DEF UnreadIsNew
  <2>3. PendingIsUnsettled'
    <3>1. \A m \in 1..read : m \in 1..Len(log)
      BY <1>0
    <3> QED BY <1>0, <1>2, <2>1, <3>1 DEF PendingIsUnsettled, k
  <2>4. SettledIsClosed'
    <3> SUFFICES ASSUME NEW s \in settled'
                 PROVE  s[1] \in 1..Len(log') /\ s[2] = log'[s[1]].token /\ log'[s[1]].state \in Terminal
      BY DEF SettledIsClosed
    <3>1. CASE s \in settled
      BY <1>0, <2>1, <3>1 DEF SettledIsClosed
    <3>2. CASE s = <<k, worker[w].token>>
      BY <1>0, <2>1, <3>2
    <3> QED BY <1>2, <3>1, <3>2 DEF k
  <2> QED BY <2>2, <2>3, <2>4 DEF Settlement
<1> QED BY <1>1, <1>2, PendingForms

LEMMA SettlementAlways == Spec => []Settlement
BY InitSettlement, SettlementStep, ShapesAlways, PTL DEF Spec

\* The pending list holds what was delivered and is not settled, so that a
\* crashed worker's message can always be reclaimed and a settled one never.
THEOREM Pending == Spec => []PendingIsUnsettled
BY SettlementAlways, PTL DEF Settlement

-----------------------------------------------------------------------------
(* What a step does to the leases.                                         *)

\* The log keeps every lease record, and new messages have none.
LeasesKept ==
    /\ Len(log') >= Len(log) /\ Len(log') \in Nat
    /\ \A m \in 1..Len(log) :
          /\ log'[m].task = log[m].task /\ log'[m].owner = log[m].owner
          /\ log'[m].token = log[m].token /\ log'[m].attempt = log[m].attempt
          /\ log[m].state = "new" => log'[m].state = "new"
    /\ \A m \in 1..Len(log') : m > Len(log) => \E t \in Tasks : log'[m] = Message(t)
    /\ counter' = counter

\* A worker that holds a lease held it before, and goes on to settle only what
\* it may.
KeepsLease(v) ==
    v \in Holders' =>
        /\ v \in Holders
        /\ worker'[v].m = worker[v].m /\ worker'[v].token = worker[v].token
        /\ worker'[v].attempt = worker[v].attempt
        /\ \/ worker'[v].pc = worker[v].pc
           \/ /\ TaskOf(v) \notin Poisoned
              /\ worker'[v].pc = "retry" => worker[v].attempt < MaxAttempts

\* A worker takes the lease recorded for message k.
Takes(w, k) == worker' = [worker EXCEPT ![w] = Holding(k, log'[k])]

\* A repeated acquire script returns the lease it granted before.
Returned ==
    \E w \in Workers, k \in 1..read :
        /\ UNCHANGED <<log, counter>>
        /\ log[k].state = "active" /\ log[k].owner = w
        /\ Takes(w, k)

\* A lease is granted, and its reply arrives or is lost.
Leased ==
    \E w \in Workers, k \in 1..read, first \in BOOLEAN :
        /\ Grant(w, k, first)
        /\ Takes(w, k) \/ \A v \in Workers : KeepsLease(v)

\* Every step keeps the leases, returns one or grants one.
LEMMA FenceForms ==
    ASSUME Shapes, [Next]_vars
    PROVE  \/ LeasesKept /\ \A v \in Workers : KeepsLease(v)
           \/ Returned
           \/ Leased
<1>0. /\ Len(log) \in Nat /\ Ids = 1..Len(log) /\ read \in 0..Len(log) /\ pel \subseteq 1..read
      /\ worker \in [Workers -> WorkerType(read)] /\ TypeOK
  BY LogShape DEF Shapes, TypeOK
<1>1. ASSUME counter' = counter,
             \/ Untouched \/ Added
             \/ \E w \in Workers : Retried(w) \/ \E s \in Terminal : Finished(w, s)
      PROVE  LeasesKept
  <2>1. /\ Len(log') >= Len(log) /\ Len(log') \in Nat
        /\ \A m \in 1..Len(log') : m > Len(log) => \E t \in Tasks : log'[m] = Message(t)
    BY MessageSteps
  <2> DEFINE Same(m) == /\ log'[m].task = log[m].task /\ log'[m].owner = log[m].owner
                        /\ log'[m].token = log[m].token /\ log'[m].attempt = log[m].attempt
                        /\ log[m].state = "new" => log'[m].state = "new"
  <2>2. ASSUME NEW w \in Workers, Effective(w), NEW s \in Terminal
        PROVE  /\ Closed(w, s) \in Seq(MessageType) /\ Len(Closed(w, s)) = Len(log)
               /\ \A m \in 1..Len(log) :
                     /\ Closed(w, s)[m].task = log[m].task /\ Closed(w, s)[m].owner = log[m].owner
                     /\ Closed(w, s)[m].token = log[m].token
                     /\ Closed(w, s)[m].attempt = log[m].attempt
                     /\ log[m].state = "new" => Closed(w, s)[m].state = "new"
    <3>1. worker[w].m \in Ids /\ log[worker[w].m].state = "active"
      BY <1>0, <2>2, EffectiveForm
    <3>2. /\ Closed(w, s) \in Seq(MessageType) /\ Len(Closed(w, s)) = Len(log)
          /\ \A m \in Ids : Closed(w, s)[m] =
               IF m = worker[w].m THEN [log[m] EXCEPT !.state = s] ELSE log[m]
      BY <1>0, <3>1, ClosedForm
    <3>3. \A m \in Ids : log[m] \in MessageType
      BY <1>0, LogShape
    <3> QED BY <1>0, <3>1, <3>2, <3>3, ZenonT(90) DEF MessageType
  <2>3. \A m \in 1..Len(log) : Same(m)
    <3>1. CASE Untouched
      BY <1>0, <3>1 DEF Untouched, Aged
    <3>2. CASE Added
      BY <1>0, <3>2, Appended DEF Added, TypeOK
    <3>3. ASSUME NEW w \in Workers, NEW s \in Terminal, Finished(w, s)
          PROVE  \A m \in 1..Len(log) : Same(m)
      BY <2>2, <3>3 DEF Finished
    <3>4. ASSUME NEW w \in Workers, Retried(w)
          PROVE  \A m \in 1..Len(log) : Same(m)
      <4> DEFINE c == Closed(w, "retrying")
      <4>1. Effective(w) /\ "retrying" \in Terminal /\ TaskOf(w) \in Tasks
        BY <1>0, <3>4, EffectiveForm DEF Retried, Terminal
      <4>2. /\ c \in Seq(MessageType) /\ Len(c) = Len(log)
            /\ \A m \in 1..Len(log) :
                  /\ c[m].task = log[m].task /\ c[m].owner = log[m].owner
                  /\ c[m].token = log[m].token /\ c[m].attempt = log[m].attempt
                  /\ log[m].state = "new" => c[m].state = "new"
        BY <2>2, <4>1
      <4>3. log' = Append(c, Message(TaskOf(w)))
        BY <3>4 DEF Retried
      <4> HIDE DEF c
      <4>4. \A m \in 1..Len(log) : log'[m] = c[m]
        BY <4>1, <4>2, <4>3, Appended
      <4> QED BY <4>2, <4>4
    <3> QED BY <1>1, <3>1, <3>2, <3>3, <3>4
  <2> QED BY <1>1, <2>1, <2>3 DEF LeasesKept
<1>2. ASSUME log' = log, counter' = counter PROVE LeasesKept
  BY <1>1, <1>2 DEF Untouched, Aged
<1>3. ASSUME NEW w \in Workers, worker' = [worker EXCEPT ![w] = IdleWorker] \/ worker' = worker
      PROVE  \A v \in Workers : KeepsLease(v)
  BY <1>0, <1>3 DEF KeepsLease, Holders, IdleWorker
<1>4. ASSUME NEW w \in Workers, Close(w)
      PROVE  LeasesKept /\ \A v \in Workers : KeepsLease(v)
  <2>1. /\ counter' = counter
        /\ worker' = [worker EXCEPT ![w] = IdleWorker] \/ worker' = [worker EXCEPT ![w] = worker[w]]
        /\ log' = log \/ Retried(w) \/ \E s \in Terminal : Finished(w, s)
    BY <1>4 DEF Close, Ack, FailRetry, FailDeadLetter, Settle, Reply, Finished, Retried, Terminal
  <2>2. worker' = [worker EXCEPT ![w] = worker[w]] => worker' = worker
    BY <1>0
  <2> QED BY <1>1, <1>2, <1>3, <2>1, <2>2
<1>5. CASE (\E t \in Tasks : Enqueue(t) \/ RequeueAdd(t)) \/ RequeueDelete \/ RequeueCutOff \/ Tick \/ UNCHANGED vars
  <2>1. counter' = counter /\ worker' = worker
    BY <1>5 DEF Enqueue, RequeueAdd, RequeueDelete, RequeueCutOff, Tick, vars, redis
  <2>2. Added \/ Tick \/ log' = log
    BY <1>5 DEF Enqueue, RequeueAdd, RequeueDelete, RequeueCutOff, Added, vars, redis
  <2>3. LeasesKept
    BY <1>1, <1>2, <2>1, <2>2, LeasesAge
  <2>4. \A v \in Workers : KeepsLease(v)
    BY <2>1 DEF KeepsLease, Holders
  <2> QED BY <2>3, <2>4
<1>6. ASSUME NEW w \in Workers, Work(w) \/ Crash(w) \/ FindNothing(w) \/ ReadNew(w)
      PROVE  LeasesKept /\ \A v \in Workers : KeepsLease(v)
  <2>1. counter' = counter
    BY <1>6 DEF Work, Crash, FindNothing, ReadNew, Renew, LoseLease, Refuse, Abandon, HandlerEnds, redis
  <2>2. Renew(w) \/ log' = log
    BY <1>6 DEF Work, Crash, FindNothing, ReadNew, LoseLease, Refuse, Abandon, HandlerEnds, redis
  <2>3. LeasesKept
    BY <1>1, <1>2, <2>1, <2>2, LeasesAge
  <2>4. CASE HandlerEnds(w)
    <3>1. worker[w].pc = "working" /\ TaskOf(w) \notin Poisoned
      BY <2>4 DEF HandlerEnds
    <3>2. PICK next \in {"ack", "retry", "dead"} :
             /\ worker' = [worker EXCEPT ![w].pc = next]
             /\ next = "retry" => worker[w].attempt < MaxAttempts
      BY <2>4 DEF HandlerEnds
    <3>3. worker[w] \in WorkerType(read)
      BY <1>0
    <3>4. /\ worker'[w].m = worker[w].m /\ worker'[w].token = worker[w].token
          /\ worker'[w].attempt = worker[w].attempt /\ worker'[w].pc = next
          /\ \A v \in Workers \ {w} : worker'[v] = worker[v]
      BY <1>0, <3>2, <3>3 DEF WorkerType
    <3> QED BY <2>3, <3>1, <3>2, <3>4 DEF KeepsLease, Holders
  <2>5. CASE ReadNew(w)
    <3>1. worker[w] \in WorkerType(read)
      BY <1>0
    <3>2. worker'[w].pc \in {"read", "polled"} /\ \A v \in Workers \ {w} : worker'[v] = worker[v]
      BY <1>0, <2>5, <3>1 DEF ReadNew, WorkerType
    <3> QED BY <2>3, <3>2 DEF KeepsLease, Holders
  <2>6. CASE ~HandlerEnds(w) /\ ~ReadNew(w)
    <3>1. worker' = [worker EXCEPT ![w] = IdleWorker] \/ worker' = worker
      BY <1>6, <2>6 DEF Work, Crash, FindNothing, Renew, LoseLease, Refuse, Abandon
    <3> QED BY <1>3, <2>3, <3>1
  <2> QED BY <2>4, <2>5, <2>6
<1>7. ASSUME NEW w \in Workers, Acquire(w) \/ \E m \in pel : Reclaim(w, m)
      PROVE  \/ LeasesKept /\ \A v \in Workers : KeepsLease(v)
             \/ Returned \/ Leased
  <2>1. ASSUME NEW x \in {worker[w], IdleWorker, [IdleWorker EXCEPT !.pc = "polled"]},
               worker' = [worker EXCEPT ![w] = x]
        PROVE  \A v \in Workers : KeepsLease(v)
    <3>1. worker[w].pc \in {"read", "polled"}
      BY <1>7 DEF Acquire, Reclaim
    <3>2. x.pc \in {"idle", "read", "polled"}
      BY <2>1, <3>1 DEF IdleWorker
    <3> QED BY <1>0, <2>1, <3>2 DEF KeepsLease, Holders
  <2>2. CASE Acquire(w)
    <3> DEFINE k == worker[w].m
    <3>1. k \in 1..read
      BY <2>2 DEF Acquire, Shapes, Placed
    <3>2. CASE /\ log[k].state = "active" /\ log[k].first /\ log[k].owner = w
               /\ Reply(w, Holding(k, log[k]), worker[w])
               /\ UNCHANGED <<log, counter>>
      <4>1. CASE worker' = [worker EXCEPT ![w] = Holding(k, log[k])]
        BY <3>1, <3>2, <4>1 DEF Returned, Takes
      <4>2. CASE worker' = [worker EXCEPT ![w] = worker[w]]
        BY <1>2, <2>1, <3>2, <4>2
      <4> QED BY <3>2, <4>1, <4>2 DEF Reply
    <3>3. CASE /\ worker' = [worker EXCEPT ![w] = [IdleWorker EXCEPT !.pc = "polled"]]
               /\ UNCHANGED <<log, counter, faults>>
      BY <1>2, <2>1, <3>3
    <3>4. CASE Grant(w, k, TRUE) /\ Reply(w, Holding(k, log'[k]), worker[w])
      <4>1. CASE worker' = [worker EXCEPT ![w] = Holding(k, log'[k])]
        BY <3>1, <3>4, <4>1 DEF Leased, Takes
      <4>2. CASE worker' = [worker EXCEPT ![w] = worker[w]]
        BY <2>1, <3>1, <3>4, <4>2 DEF Leased
      <4> QED BY <3>4, <4>1, <4>2 DEF Reply
    <3> QED BY <2>2, <3>2, <3>3, <3>4 DEF Acquire
  <2>3. ASSUME NEW m \in pel, Reclaim(w, m) PROVE Leased
    <3>1. m \in 1..read /\ Grant(w, m, FALSE) /\ Reply(w, Holding(m, log'[m]), IdleWorker)
      BY <1>0, <2>3 DEF Reclaim
    <3>2. CASE worker' = [worker EXCEPT ![w] = Holding(m, log'[m])]
      BY <3>1, <3>2 DEF Leased, Takes
    <3>3. CASE worker' = [worker EXCEPT ![w] = IdleWorker]
      BY <2>1, <3>1, <3>3 DEF Leased
    <3> QED BY <3>1, <3>2, <3>3 DEF Reply
  <2> QED BY <1>7, <2>2, <2>3
<1> QED BY <1>4, <1>5, <1>6, <1>7 DEF Next, Poll
-----------------------------------------------------------------------------
(* Fencing.                                                                *)

\* A task's tokens name its messages: each is drawn from the counter once.
TokensNameMessages ==
    /\ \A m \in 1..Len(log) : /\ log[m].token <= counter[log[m].task].token
                              /\ log[m].state # "new" => log[m].token > 0
    /\ \A t \in Poisoned : counter[t].token <= 1
    /\ \A m, n \in 1..Len(log) :
          /\ log[m].task = log[n].task /\ log[m].task \notin Poisoned
          /\ log[m].token = log[n].token /\ log[m].token > 0
          => m = n

\* What a worker holds is a lease the log recorded for it, the newest of its
\* message or an older one.
HoldsItsOwn(w) ==
    /\ 0 < worker[w].token /\ worker[w].token <= log[worker[w].m].token
    /\ \A n \in 1..Len(log) :
          /\ log[n].task = TaskOf(w) /\ TaskOf(w) \notin Poisoned
          /\ log[n].token = worker[w].token
          => n = worker[w].m /\ log[n].owner = w

HoldersDiffer ==
    \A v, w \in Holders :
        v # w /\ TaskOf(v) = TaskOf(w) /\ TaskOf(v) \notin Poisoned => worker[v].token # worker[w].token

Fences == TokensNameMessages /\ HoldersDiffer /\ \A w \in Holders : HoldsItsOwn(w)

\* The numbers a fence compares.
LEMMA FenceTypes ==
    ASSUME Shapes
    PROVE  /\ Len(log) \in Nat /\ read \in 0..Len(log) /\ Ids = 1..Len(log)
           /\ \A m \in 1..Len(log) : log[m].token \in Nat /\ log[m].task \in Tasks
           /\ \A t \in Tasks : counter[t].token \in Nat
           /\ \A w \in Workers : worker[w].token \in Nat
           /\ \A w \in Holders : /\ worker[w].m \in 1..read /\ worker[w].m \in 1..Len(log)
                                /\ TaskOf(w) = log[worker[w].m].task /\ w \in Workers
<1>1. /\ TypeOK /\ Ids = 1..Len(log) /\ Len(log) \in Nat /\ read \in 0..Len(log)
      /\ \A m \in Ids : log[m] \in MessageType
  BY LogShape DEF Shapes, TypeOK
<1>2. \A w \in Holders : w \in Workers /\ worker[w].m \in 1..read
  BY DEF Holders, Shapes, Placed
<1>3. \A w \in Workers : worker[w] \in WorkerType(read)
  BY <1>1 DEF TypeOK
<1>4. \A t \in Tasks : counter[t] \in CounterType
  BY <1>1 DEF TypeOK
<1> QED BY <1>1, <1>2, <1>3, <1>4 DEF MessageType, CounterType, WorkerType, TaskOf

\* A granted token is newer than every other of its task.
LEMMA GrantIsNewest ==
    ASSUME Shapes, TokensNameMessages, NEW w \in Workers, NEW k \in 1..read, NEW first \in BOOLEAN,
           Grant(w, k, first)
    PROVE  /\ Len(log') = Len(log) /\ k \in 1..Len(log)
           /\ \A n \in 1..Len(log) : n # k => log'[n] = log[n]
           /\ log'[k].task = log[k].task /\ log'[k].state = "active" /\ log'[k].owner = w
           /\ log'[k].token > 0 /\ log'[k].token >= log[k].token /\ log'[k].token \in Nat
           /\ \A t \in Tasks : counter'[t].token =
                IF t = log[k].task THEN log'[k].token ELSE counter[t].token
           /\ log[k].task \in Poisoned => log'[k].token = 1
           /\ log[k].task \notin Poisoned => counter[log[k].task].token < log'[k].token
<1>1. /\ TypeOK /\ k \in 1..Len(log) /\ k \in Ids /\ Ids = 1..Len(log)
      /\ log[k].task \in Tasks /\ log[k].token \in Nat
      /\ counter[log[k].task].token \in Nat
  BY FenceTypes DEF Shapes
<1>2. /\ Len(log') = Len(log)
      /\ \A n \in Ids \ {k} : log'[n] = log[n]
      /\ log'[k].task = log[k].task /\ log'[k].state = "active" /\ log'[k].owner = w
      /\ log'[k].token = Drawn(log[k].task).token
      /\ counter' = [counter EXCEPT ![log[k].task] = Drawn(log[k].task)]
  BY <1>1, GrantForm
<1>3. \A t \in Tasks : counter'[t].token =
          IF t = log[k].task THEN log'[k].token ELSE counter[t].token
  BY <1>1, <1>2 DEF TypeOK
<1>4. /\ log[k].task \in Poisoned => log'[k].token = 1
      /\ log[k].task \notin Poisoned => log'[k].token = counter[log[k].task].token + 1
  BY <1>2 DEF Drawn
<1>5. log[k].token <= counter[log[k].task].token
      /\ (log[k].task \in Poisoned => counter[log[k].task].token <= 1)
  BY <1>1 DEF TokensNameMessages
<1> QED BY <1>1, <1>2, <1>3, <1>4, <1>5, SMTT(30)

LEMMA InitFences == Init => Fences
<1> SUFFICES ASSUME Init PROVE Fences
  OBVIOUS
<1>1. Len(log) = 0 /\ Holders = {}
  BY EmptySeq DEF Init, Holders, IdleWorker
<1>2. \A t \in Poisoned : counter[t].token = 0
  BY LeaseAssumption DEF Init, LeaseAssumption
<1> QED BY <1>1, <1>2 DEF Fences, TokensNameMessages, HoldersDiffer, HoldsItsOwn

LEMMA TokensStep ==
    ASSUME Shapes, Shapes', TokensNameMessages, [Next]_vars
    PROVE  TokensNameMessages'
<1>1. ASSUME LeasesKept PROVE TokensNameMessages'
  <2>1. \A m \in 1..Len(log') :
           \/ /\ m \in 1..Len(log) /\ log'[m].task = log[m].task /\ log'[m].token = log[m].token
              /\ log[m].state = "new" => log'[m].state = "new"
           \/ log'[m].token = 0 /\ log'[m].state = "new" /\ log'[m].task \in Tasks
    <3> SUFFICES ASSUME NEW m \in 1..Len(log'), m \notin 1..Len(log)
                 PROVE  log'[m].token = 0 /\ log'[m].state = "new" /\ log'[m].task \in Tasks
      BY <1>1 DEF LeasesKept
    <3>1. m > Len(log)
      BY <1>1, FenceTypes DEF LeasesKept
    <3>2. PICK t \in Tasks : log'[m] = Message(t)
      BY <1>1, <3>1 DEF LeasesKept
    <3> QED BY <3>2 DEF Message
  <2>2. counter' = counter
    BY <1>1 DEF LeasesKept
  <2> QED BY <2>1, <2>2, FenceTypes, SMTT(40) DEF TokensNameMessages
<1>2. CASE Returned
  BY <1>2 DEF Returned, TokensNameMessages
<1>3. ASSUME NEW w \in Workers, NEW k \in 1..read, NEW first \in BOOLEAN, Grant(w, k, first)
      PROVE  TokensNameMessages'
  <2> DEFINE t == log[k].task
             T == log'[k].token
  <2>1. /\ Len(log') = Len(log) /\ k \in 1..Len(log) /\ t \in Tasks
        /\ \A n \in 1..Len(log) : n # k => log'[n] = log[n]
        /\ log'[k].task = t /\ T > 0 /\ T \in Nat
        /\ \A u \in Tasks : counter'[u].token = IF u = t THEN T ELSE counter[u].token
        /\ t \in Poisoned => T = 1
        /\ t \notin Poisoned => counter[t].token < T
    BY <1>3, GrantIsNewest, FenceTypes
  <2>2. \A n \in 1..Len(log) : /\ log[n].token \in Nat /\ log[n].task \in Tasks
                               /\ log[n].token <= counter[log[n].task].token
                               /\ counter[log[n].task].token \in Nat
    BY FenceTypes DEF TokensNameMessages
  <2> HIDE DEF t, T
  <2>3. \A n \in 1..Len(log') : /\ log'[n].token <= counter'[log'[n].task].token
                                /\ log'[n].state # "new" => log'[n].token > 0
    <3> SUFFICES ASSUME NEW n \in 1..Len(log)
                 PROVE  /\ log'[n].token <= counter'[log'[n].task].token
                        /\ log'[n].state # "new" => log'[n].token > 0
      BY <2>1
    <3>1. CASE n = k
      BY <2>1, <3>1 DEF T
    <3>2. CASE n # k
      <4>1. log'[n] = log[n] /\ log[n].task \in Tasks /\ log[n].token \in Nat
        BY <2>1, <2>2, <3>2
      <4>2. log[n].token <= counter[log[n].task].token
            /\ (log[n].state # "new" => log[n].token > 0)
        BY DEF TokensNameMessages
      <4>3. counter'[log[n].task].token = IF log[n].task = t THEN T ELSE counter[log[n].task].token
        BY <2>1, <4>1
      <4>4. log[n].task = t => log[n].token <= T
        <5>1. CASE t \in Poisoned
          <6>1. T = 1 /\ counter[t].token <= 1
            BY <2>1, <5>1 DEF TokensNameMessages
          <6> QED BY <2>2, <4>1, <4>2, <6>1
        <5>2. CASE t \notin Poisoned
          BY <2>1, <2>2, <4>1, <4>2, <5>2
        <5> QED BY <5>1, <5>2
      <4> QED BY <4>1, <4>2, <4>3, <4>4
    <3> QED BY <3>1, <3>2
  <2>4. \A u \in Poisoned : counter'[u].token <= 1
    BY <2>1, LeaseAssumption DEF LeaseAssumption, TokensNameMessages
  <2>5. \A m, n \in 1..Len(log') :
           /\ log'[m].task = log'[n].task /\ log'[m].task \notin Poisoned
           /\ log'[m].token = log'[n].token /\ log'[m].token > 0
           => m = n
    <3>1. \A n \in 1..Len(log) : n # k /\ log[n].task = t /\ t \notin Poisoned => log'[n].token # T
      BY <2>1, <2>2
    <3>2. log'[k].token = T
      BY DEF T
    <3> QED BY <2>1, <3>1, <3>2 DEF TokensNameMessages
  <2> QED BY <2>3, <2>4, <2>5 DEF TokensNameMessages
<1> QED BY <1>1, <1>2, <1>3, FenceForms DEF Leased

\* A worker that keeps its lease keeps its place and its task.
LEMMA HolderStays ==
    ASSUME Shapes, NEW v \in Holders', KeepsLease(v),
           \A m \in 1..Len(log) : log'[m].task = log[m].task
    PROVE  /\ v \in Holders /\ worker'[v].m = worker[v].m /\ worker'[v].token = worker[v].token
           /\ worker[v].m \in 1..Len(log) /\ TaskOf(v)' = TaskOf(v)
BY FenceTypes DEF KeepsLease, TaskOf

LEMMA FencesStep ==
    ASSUME Shapes, Shapes', Fences, [Next]_vars
    PROVE  Fences'
<1> DEFINE t(k) == log[k].task
<1>1. /\ TokensNameMessages /\ TokensNameMessages' /\ HoldersDiffer
      /\ \A w \in Holders : HoldsItsOwn(w)
  BY TokensStep DEF Fences
<1>2. ASSUME LeasesKept, \A v \in Workers : KeepsLease(v)
      PROVE  Fences'
  <2>1. \A v \in Holders' : /\ v \in Holders /\ worker'[v].m = worker[v].m
                            /\ worker'[v].token = worker[v].token
                            /\ worker[v].m \in 1..Len(log) /\ TaskOf(v)' = TaskOf(v)
    BY <1>2, HolderStays DEF LeasesKept, Holders
  <2>2. HoldersDiffer'
    BY <1>1, <2>1 DEF HoldersDiffer
  <2>3. ASSUME NEW v \in Holders' PROVE HoldsItsOwn(v)'
    <3>1. HoldsItsOwn(v) /\ worker[v].token \in Nat
      BY <1>1, <2>1, FenceTypes
    <3>2. log'[worker[v].m].token = log[worker[v].m].token
      BY <1>2, <2>1 DEF LeasesKept
    <3>3. \A n \in 1..Len(log') : n \in 1..Len(log) \/ log'[n].token = 0
      <4> SUFFICES ASSUME NEW n \in 1..Len(log'), n \notin 1..Len(log) PROVE log'[n].token = 0
        OBVIOUS
      <4>1. n > Len(log)
        BY <1>2, FenceTypes DEF LeasesKept
      <4>2. PICK u \in Tasks : log'[n] = Message(u)
        BY <1>2, <4>1 DEF LeasesKept
      <4> QED BY <4>2 DEF Message
    <3> QED BY <1>2, <2>1, <3>1, <3>2, <3>3, SMTT(30) DEF HoldsItsOwn, LeasesKept
  <2> QED BY <1>1, <2>2, <2>3 DEF Fences, HoldsItsOwn
<1>2a. ASSUME NEW w \in Workers, NEW k \in 1..read, Takes(w, k), k \in 1..Len(log')
       PROVE  \A v \in Holders' :
                 \/ /\ v = w /\ worker'[v].m = k /\ worker'[v].token = log'[k].token
                    /\ TaskOf(v)' = log'[k].task
                 \/ v # w /\ v \in Holders /\ worker'[v] = worker[v]
  BY <1>2a DEF Takes, Holding, Holders, TaskOf, Shapes, TypeOK
<1>3. CASE Returned
  <2>1. PICK w \in Workers, k \in 1..read :
           /\ log' = log /\ counter' = counter /\ log[k].state = "active" /\ log[k].owner = w
           /\ Takes(w, k)
    BY <1>3 DEF Returned
  <2>2. k \in 1..Len(log) /\ log[k].token > 0
    <3>1. k \in 1..Len(log)
      BY FenceTypes
    <3> QED BY <1>1, <2>1, <3>1 DEF TokensNameMessages
  <2>3. \A v \in Holders' :
           \/ /\ v = w /\ worker'[v].m = k /\ worker'[v].token = log[k].token
              /\ TaskOf(v)' = log[k].task
           \/ /\ v # w /\ v \in Holders /\ worker'[v].m = worker[v].m
              /\ worker'[v].token = worker[v].token /\ TaskOf(v)' = TaskOf(v)
    BY <1>2a, <2>1, <2>2 DEF TaskOf
  <2>4. HoldersDiffer'
    <3>1. \A v \in Holders : /\ TaskOf(v) = log[k].task /\ TaskOf(v) \notin Poisoned
                             /\ worker[v].token = log[k].token
                             => v = w
      BY <1>1, <2>1, <2>2 DEF HoldsItsOwn
    <3> QED BY <1>1, <2>3, <3>1 DEF HoldersDiffer
  <2>5. \A v \in Holders' :
           /\ 0 < worker'[v].token /\ worker'[v].token <= log'[worker'[v].m].token
           /\ \A n \in 1..Len(log') :
                 /\ log'[n].task = TaskOf(v)' /\ TaskOf(v)' \notin Poisoned
                 /\ log'[n].token = worker'[v].token
                 => n = worker'[v].m /\ log'[n].owner = v
    <3> SUFFICES ASSUME NEW v \in Holders'
                 PROVE  /\ 0 < worker'[v].token /\ worker'[v].token <= log'[worker'[v].m].token
                        /\ \A n \in 1..Len(log') :
                              /\ log'[n].task = TaskOf(v)' /\ TaskOf(v)' \notin Poisoned
                              /\ log'[n].token = worker'[v].token
                              => n = worker'[v].m /\ log'[n].owner = v
      OBVIOUS
    <3>1. CASE v = w
      BY <1>1, <2>1, <2>2, <2>3, <3>1, FenceTypes DEF TokensNameMessages
    <3>2. CASE v # w
      BY <1>1, <2>1, <2>3, <3>2 DEF HoldsItsOwn
    <3> QED BY <3>1, <3>2
  <2> QED BY <1>1, <2>4, <2>5 DEF Fences, HoldsItsOwn
<1>4. ASSUME NEW w \in Workers, NEW k \in 1..read, NEW first \in BOOLEAN, Grant(w, k, first),
             Takes(w, k) \/ \A v \in Workers : KeepsLease(v)
      PROVE  Fences'
  <2> DEFINE T == log'[k].token
  <2>1. /\ Len(log') = Len(log) /\ k \in 1..Len(log)
        /\ \A n \in 1..Len(log) : n # k => log'[n] = log[n]
        /\ log'[k].task = t(k) /\ log'[k].owner = w /\ T > 0 /\ T \in Nat /\ T >= log[k].token
        /\ t(k) \notin Poisoned => counter[t(k)].token < T
    BY <1>1, <1>4, GrantIsNewest
  <2>2. \A n \in 1..Len(log) : /\ log[n].token \in Nat /\ log[n].token <= counter[log[n].task].token
                               /\ counter[log[n].task].token \in Nat
                               /\ log'[n].task = log[n].task
    BY <1>1, <2>1, FenceTypes DEF TokensNameMessages
  <2>3. \A v \in Holders' :
           \/ /\ v = w /\ worker'[v].m = k /\ worker'[v].token = T
              /\ TaskOf(v)' = t(k) /\ Takes(w, k)
           \/ /\ v \in Holders /\ worker'[v].m = worker[v].m
              /\ worker'[v].token = worker[v].token /\ TaskOf(v)' = TaskOf(v)
              /\ v = w => ~Takes(w, k)
    <3>1. CASE Takes(w, k)
      BY <1>2a, <2>1, <2>2, <3>1, FenceTypes, SMTT(30) DEF TaskOf
    <3>2. CASE ~Takes(w, k)
      BY <1>4, <2>2, <3>2, HolderStays DEF Holders
    <3> QED BY <3>1, <3>2
  <2>4. \A v \in Holders : TaskOf(v) = t(k) /\ t(k) \notin Poisoned => worker[v].token < T
    <3> SUFFICES ASSUME NEW v \in Holders, TaskOf(v) = t(k), t(k) \notin Poisoned
                 PROVE  worker[v].token < T
      OBVIOUS
    <3>1. /\ worker[v].token <= log[worker[v].m].token /\ worker[v].token \in Nat
          /\ worker[v].m \in 1..Len(log) /\ log[worker[v].m].task = t(k)
      BY <1>1, FenceTypes DEF HoldsItsOwn
    <3> HIDE DEF T
    <3> QED BY <2>1, <2>2, <3>1, SMTT(40)
  <2>5. HoldersDiffer'
    <3>1. \A v, u \in Holders' :
             /\ v # u /\ TaskOf(v)' = TaskOf(u)' /\ TaskOf(v)' \notin Poisoned
             => worker'[v].token # worker'[u].token
      <4> SUFFICES ASSUME NEW v \in Holders', NEW u \in Holders', v # u,
                          TaskOf(v)' = TaskOf(u)', TaskOf(v)' \notin Poisoned,
                          worker'[v].token = worker'[u].token
                   PROVE  FALSE
        OBVIOUS
      <4> HIDE DEF T
      <4>0. \A x \in Holders : worker[x].token \in Nat
        BY FenceTypes
      <4>1. CASE Takes(w, k) /\ v = w
        BY <2>1, <2>3, <2>4, <4>0, <4>1
      <4>2. CASE Takes(w, k) /\ u = w
        BY <2>1, <2>3, <2>4, <4>0, <4>2
      <4>3. CASE ~(Takes(w, k) /\ (v = w \/ u = w))
        BY <1>1, <2>3, <4>3 DEF HoldersDiffer
      <4> QED BY <4>1, <4>2, <4>3
    <3> QED BY <3>1 DEF HoldersDiffer
  <2>6. \A v \in Holders' :
           /\ 0 < worker'[v].token /\ worker'[v].token <= log'[worker'[v].m].token
           /\ \A n \in 1..Len(log') :
                 /\ log'[n].task = TaskOf(v)' /\ TaskOf(v)' \notin Poisoned
                 /\ log'[n].token = worker'[v].token
                 => n = worker'[v].m /\ log'[n].owner = v
    <3> SUFFICES ASSUME NEW v \in Holders'
                 PROVE  /\ 0 < worker'[v].token /\ worker'[v].token <= log'[worker'[v].m].token
                        /\ \A n \in 1..Len(log') :
                              /\ log'[n].task = TaskOf(v)' /\ TaskOf(v)' \notin Poisoned
                              /\ log'[n].token = worker'[v].token
                              => n = worker'[v].m /\ log'[n].owner = v
      OBVIOUS
    <3>1. CASE v = w /\ Takes(w, k)
      <4>1. worker'[v].m = k /\ worker'[v].token = T /\ TaskOf(v)' = t(k)
        BY <2>3, <3>1
      <4>2. ASSUME NEW n \in 1..Len(log'), log'[n].task = t(k), t(k) \notin Poisoned, log'[n].token = T
            PROVE  n = k
        <5> HIDE DEF T
        <5> QED BY <2>1, <2>2, <4>2
      <4> QED BY <2>1, <3>1, <4>1, <4>2
    <3>2. CASE ~(v = w /\ Takes(w, k))
      <4>1. /\ v \in Holders /\ worker'[v].m = worker[v].m
            /\ worker'[v].token = worker[v].token /\ TaskOf(v)' = TaskOf(v)
            /\ worker[v].m \in 1..Len(log) /\ worker[v].token \in Nat /\ HoldsItsOwn(v)
        BY <1>1, <2>3, <3>2, FenceTypes
      <4>2. 0 < worker[v].token /\ worker[v].token <= log'[worker[v].m].token
        <5>1. 0 < worker[v].token /\ worker[v].token <= log[worker[v].m].token
          BY <4>1 DEF HoldsItsOwn
        <5>2. log[worker[v].m].token <= log'[worker[v].m].token
              /\ log'[worker[v].m].token \in Nat
          BY <2>1, <2>2, <4>1, SMTT(30)
        <5> QED BY <2>2, <4>1, <5>1, <5>2
      <4>3. ASSUME NEW n \in 1..Len(log'), log'[n].task = TaskOf(v), TaskOf(v) \notin Poisoned,
                   log'[n].token = worker[v].token
            PROVE  n = worker[v].m /\ log'[n].owner = v
        <5>1. n # k
          BY <2>1, <2>4, <4>1, <4>3
        <5> QED BY <2>1, <4>1, <4>3, <5>1 DEF HoldsItsOwn
      <4> QED BY <4>1, <4>2, <4>3
    <3> QED BY <3>1, <3>2
  <2> QED BY <1>1, <2>5, <2>6 DEF Fences, HoldsItsOwn
<1> QED BY <1>2, <1>3, <1>4, FenceForms DEF Leased

LEMMA FencesAlways == Spec => []Fences
BY InitFences, FencesStep, ShapesAlways, PTL DEF Spec

\* Two workers never act under one token of a task, and of all that ever held a
\* message, through reclaims, lost replies and crashes, only the one that was
\* given the newest lease settles it.
THEOREM Fenced == Spec => []LeasesAreFenced
<1>1. ASSUME Shapes, Fences, Settlement PROVE LeasesAreFenced
  <2>1. TokensAreUnique
    BY <1>1, FenceTypes DEF Fences, HoldersDiffer, TokensNameMessages, TokensAreUnique
  <2>2. SettledByNewestLease
    BY <1>1 DEF Fences, HoldsItsOwn, Settlement, SettledIsClosed, SettledByNewestLease
  <2> QED BY <2>1, <2>2 DEF LeasesAreFenced
<1> QED BY <1>1, ShapesAlways, FencesAlways, SettlementAlways, PTL

-----------------------------------------------------------------------------
(* The messages of a task, by what became of them.                         *)

Where(s, t, state) == {m \in 1..Len(s) : s[m].task = t /\ s[m].state = state}

LEMMA WhereFinite ==
    ASSUME NEW s \in Seq(ItemType), NEW t, NEW state
    PROVE  IsFiniteSet(Where(s, t, state)) /\ Cardinality(Where(s, t, state)) \in Nat
<1>1. IsFiniteSet(1..Len(s))
  BY LenProperties, FS_Interval
<1>2. Where(s, t, state) \in SUBSET (1..Len(s))
  BY DEF Where
<1> QED BY <1>1, <1>2, FS_Subset, FS_CardinalityType

LEMMA WhereOpened ==
    ASSUME NEW s \in Seq(ItemType), NEW t \in Tasks, NEW u, NEW state
    PROVE  Where(Append(s, Contract!Open(t)), u, state) =
             IF u = t /\ state = "open" THEN Where(s, u, state) \cup {Len(s) + 1}
                                       ELSE Where(s, u, state)
<1> DEFINE a == Append(s, Contract!Open(t))
<1>1. Contract!Open(t) \in ItemType /\ Len(s) \in Nat
  BY LenProperties DEF Contract!Open, ItemType
<1>2. /\ Len(a) = Len(s) + 1 /\ a[Len(s) + 1] = Contract!Open(t)
      /\ \A m \in 1..Len(s) : a[m] = s[m]
  BY <1>1, AppendProperties
<1>3. Contract!Open(t).task = t /\ Contract!Open(t).state = "open"
  BY DEF Contract!Open
<1> HIDE DEF a
<1>4. Where(a, u, state) = Where(s, u, state) \cup
                              (IF u = t /\ state = "open" THEN {Len(s) + 1} ELSE {})
  BY <1>1, <1>2, <1>3 DEF Where
<1> QED BY <1>4 DEF a

Settling(s, k, closed) == [s EXCEPT ![k].state = closed]

LEMMA SettlingForm ==
    ASSUME NEW s \in Seq(ItemType), NEW k \in 1..Len(s), NEW closed \in Terminal
    PROVE  /\ Settling(s, k, closed) \in Seq(ItemType) /\ Len(Settling(s, k, closed)) = Len(s)
           /\ \A m \in 1..Len(s) :
                 /\ Settling(s, k, closed)[m].task = s[m].task
                 /\ Settling(s, k, closed)[m].state = IF m = k THEN closed ELSE s[m].state
<1> DEFINE r == [s[k] EXCEPT !.state = closed]
           done == [s EXCEPT ![k] = r]
<1>1. s[k] \in ItemType
  BY ElementOfSeq
<1>2. r \in ItemType /\ r.task = s[k].task /\ r.state = closed
  BY <1>1 DEF ItemType
<1> HIDE DEF r
<1>3. /\ done \in Seq(ItemType) /\ Len(done) = Len(s)
      /\ \A m \in 1..Len(s) : done[m] = IF m = k THEN r ELSE s[m]
  BY <1>2, ExceptSeq
<1>4. done = Settling(s, k, closed)
  BY DEF r, Settling
<1> HIDE DEF done
<1> QED BY <1>2, <1>3, <1>4

LEMMA OpenSettled ==
    ASSUME NEW s \in Seq(ItemType), NEW k \in 1..Len(s), NEW closed \in Terminal, NEW u
    PROVE  Where(Settling(s, k, closed), u, "open") = Where(s, u, "open") \ {k}
<1>1. closed # "open"
  BY DEF Terminal
<1>2. \A m \in 1..Len(s) :
         Settling(s, k, closed)[m].task = u /\ Settling(s, k, closed)[m].state = "open"
         <=> s[m].task = u /\ s[m].state = "open" /\ m # k
  BY <1>1, SettlingForm
<1>3. Len(Settling(s, k, closed)) = Len(s)
  BY SettlingForm
<1> QED BY <1>2, <1>3 DEF Where

LEMMA ClosedSettled ==
    ASSUME NEW s \in Seq(ItemType), NEW k \in 1..Len(s), s[k].state = "open",
           NEW closed \in Terminal, NEW u, NEW state, state # "open"
    PROVE  Where(Settling(s, k, closed), u, state) =
             IF u = s[k].task /\ state = closed THEN Where(s, u, state) \cup {k}
                                                ELSE Where(s, u, state)
<1>0. Len(Settling(s, k, closed)) = Len(s)
  BY SettlingForm
<1>a. \A m \in 1..Len(s) :
         Settling(s, k, closed)[m].task = u /\ Settling(s, k, closed)[m].state = state
         <=> s[m].task = u /\ (IF m = k THEN closed = state ELSE s[m].state = state)
  BY SettlingForm, SMTT(40)
<1>1. CASE u = s[k].task /\ state = closed
  BY <1>0, <1>1, <1>a DEF Where
<1>2. CASE ~(u = s[k].task /\ state = closed)
  <2>1. \A m \in 1..Len(s) :
           Settling(s, k, closed)[m].task = u /\ Settling(s, k, closed)[m].state = state
           <=> s[m].task = u /\ s[m].state = state
    BY <1>2, <1>a
  <2>2. Where(Settling(s, k, closed), u, state) = Where(s, u, state)
    BY <1>0, <2>1 DEF Where
  <2> QED BY <1>2, <2>2
<1> QED BY <1>1, <1>2

Retrying(t) == {m \in Ids : log[m].task = t /\ log[m].state = "retrying"}

SetsFollow(t) ==
    /\ Unsettled(t) = Where(Items, t, "open")
    /\ Succeeded(t) = Where(Items, t, "succeeded")
    /\ Retrying(t) = Where(Items, t, "retrying")

LEMMA ItemSets == TypeOK => \A t \in Tasks : SetsFollow(t)
<1> SUFFICES ASSUME TypeOK, NEW t \in Tasks PROVE SetsFollow(t)
  OBVIOUS
<1>1. Len(Items) = Len(log) /\ Ids = 1..Len(Items)
  BY ItemsShape, LogShape DEF ItemsFollow
<1>2. \A m \in Ids : /\ Items[m].task = log[m].task
                     /\ Items[m].state = "open" <=> log[m].state \notin Terminal
                     /\ Items[m].state = "succeeded" <=> log[m].state = "succeeded"
                     /\ Items[m].state = "retrying" <=> log[m].state = "retrying"
  <2>1. \A m \in Ids : Items[m] = Outcome(m)
    BY <1>1, ItemsShape DEF ItemsFollow
  <2>2. \A m \in Ids : /\ Outcome(m).task = log[m].task
                       /\ Outcome(m).state = IF log[m].state \in Terminal THEN log[m].state ELSE "open"
    BY DEF Outcome
  <2> QED BY <2>1, <2>2 DEF Terminal
<1>3. Unsettled(t) = Where(Items, t, "open")
  BY <1>1, <1>2 DEF Where, Unsettled
<1>4. Succeeded(t) = Where(Items, t, "succeeded")
  BY <1>1, <1>2 DEF Where, Succeeded
<1>5. Retrying(t) = Where(Items, t, "retrying")
  BY <1>1, <1>2 DEF Where, Retrying
<1> QED BY <1>3, <1>4, <1>5 DEF SetsFollow

LEMMA ItemSetsNext == TypeOK' => (\A t \in Tasks : SetsFollow(t))'
BY ItemSets, PTL

\* What a step does to the items, and which step it is.
LEMMA ItemForms ==
    ASSUME Shapes, [Next]_vars
    PROVE  \/ /\ Items' = Items /\ UNCHANGED <<retries, submitted>>
              /\ UNCHANGED <<dlq, operator, split>> \/ RequeueDelete \/ RequeueCutOff
           \/ \E t \in Tasks :
                 /\ Enqueue(t) \/ RequeueAdd(t)
                 /\ Items' = Append(Items, Contract!Open(t)) /\ retries' = retries
           \/ \E w \in Workers :
                 /\ Effective(w) /\ Contract!IsOpen(worker[w].m)
                 /\ Items[worker[w].m].task = TaskOf(w) /\ TaskOf(w) \in Tasks
                 /\ UNCHANGED <<operator, submitted, split>>
                 /\ \/ /\ Ack(w) /\ UNCHANGED <<dlq, retries>>
                       /\ Items' = [Items EXCEPT ![worker[w].m].state = "succeeded"]
                    \/ /\ FailDeadLetter(w) /\ UNCHANGED retries
                       /\ dlq' = [dlq EXCEPT ![TaskOf(w)] = @ + 1]
                       /\ Items' = [Items EXCEPT ![worker[w].m].state = "dead_letter"]
                    \/ /\ FailRetry(w) /\ UNCHANGED dlq
                       /\ retries' = [retries EXCEPT ![TaskOf(w)] = @ + 1]
                       /\ Items' = Append([Items EXCEPT ![worker[w].m].state = "retrying"],
                                          Contract!Open(TaskOf(w)))
<1>1. Untouched \/ Granted => Items' = Items
  BY LeasesAreHidden
<1>2. log' = log => Untouched
  BY DEF Untouched, Aged
<1>3. ASSUME NEW t \in Tasks, Enqueue(t) \/ RequeueAdd(t)
      PROVE  Items' = Append(Items, Contract!Open(t)) /\ retries' = retries
  BY <1>3, AddedIsOpen DEF Enqueue, RequeueAdd, history
<1>4. ASSUME NEW w \in Workers, Close(w), ~Effective(w)
      PROVE  Items' = Items /\ UNCHANGED <<retries, submitted, dlq, operator, split>>
  BY <1>1, <1>2, <1>4 DEF Close, Ack, FailRetry, FailDeadLetter, Settle
<1>5. ASSUME NEW w \in Workers, Close(w), Effective(w)
      PROVE  /\ Contract!IsOpen(worker[w].m)
             /\ Items[worker[w].m].task = TaskOf(w) /\ TaskOf(w) \in Tasks
             /\ UNCHANGED <<operator, submitted, split>>
             /\ \/ /\ Ack(w) /\ UNCHANGED <<dlq, retries>>
                   /\ Items' = [Items EXCEPT ![worker[w].m].state = "succeeded"]
                \/ /\ FailDeadLetter(w) /\ UNCHANGED retries
                   /\ dlq' = [dlq EXCEPT ![TaskOf(w)] = @ + 1]
                   /\ Items' = [Items EXCEPT ![worker[w].m].state = "dead_letter"]
                \/ /\ FailRetry(w) /\ UNCHANGED dlq
                   /\ retries' = [retries EXCEPT ![TaskOf(w)] = @ + 1]
                   /\ Items' = Append([Items EXCEPT ![worker[w].m].state = "retrying"],
                                      Contract!Open(TaskOf(w)))
  <2>1. "succeeded" \in Terminal /\ "dead_letter" \in Terminal /\ "retrying" \in Terminal
    BY DEF Terminal
  <2>2. Contract!IsOpen(worker[w].m) /\ Items[worker[w].m].task = TaskOf(w) /\ TaskOf(w) \in Tasks
    BY <1>5, <2>1, SettledItem, EffectiveForm DEF Shapes
  <2>3. UNCHANGED <<operator, submitted, split>>
    BY <1>5 DEF Close, Ack, FailRetry, FailDeadLetter, Settle
  <2>4. CASE Ack(w)
    <3>1. log' = Closed(w, "succeeded") /\ UNCHANGED <<dlq, retries>>
      BY <1>5, <2>4 DEF Ack
    <3> QED BY <1>5, <2>1, <2>2, <2>3, <2>4, <3>1, SettledIsSettled
  <2>5. CASE FailDeadLetter(w)
    <3>1. /\ log' = Closed(w, "dead_letter") /\ UNCHANGED retries
          /\ dlq' = [dlq EXCEPT ![TaskOf(w)] = @ + 1]
      BY <1>5, <2>5 DEF FailDeadLetter
    <3> QED BY <1>5, <2>1, <2>2, <2>3, <2>5, <3>1, SettledIsSettled
  <2>6. CASE FailRetry(w)
    <3>1. /\ log' = Append(Closed(w, "retrying"), Message(TaskOf(w))) /\ UNCHANGED dlq
          /\ retries' = [retries EXCEPT ![TaskOf(w)] = @ + 1]
      BY <1>5, <2>6 DEF FailRetry
    <3> QED BY <1>5, <2>1, <2>2, <2>3, <2>6, <3>1, SettledIsSettled
  <2> QED BY <1>5, <2>4, <2>5, <2>6 DEF Close
<1>6. ASSUME Tick \/ \E w \in Workers : Poll(w) \/ Work(w) \/ Crash(w)
      PROVE  Items' = Items /\ UNCHANGED <<retries, submitted, dlq, operator, split>>
  <2>1. Items' = Items
    BY <1>1, <1>6, LeaseSteps
  <2> QED BY <1>6, <2>1 DEF Tick, Poll, Work, Crash, ReadNew, Acquire, Reclaim, FindNothing, Renew,
                        LoseLease, Refuse, Abandon, HandlerEnds, redis, history
<1>7. ASSUME RequeueDelete \/ RequeueCutOff \/ UNCHANGED vars
      PROVE  /\ Items' = Items /\ UNCHANGED <<retries, submitted>>
             /\ UNCHANGED vars => UNCHANGED <<dlq, operator, split>>
  <2>1. log' = log /\ UNCHANGED <<retries, submitted>>
    BY <1>7 DEF RequeueDelete, RequeueCutOff, vars, redis, history
  <2> QED BY <1>1, <1>2, <2>1 DEF vars, redis, history
<1> QED BY <1>3, <1>4, <1>5, <1>6, <1>7 DEF Next

-----------------------------------------------------------------------------
(* No task is lost, none is multiplied.                                    *)

Conserved(t) ==
    Cardinality(Where(Items, t, "open")) + Cardinality(Where(Items, t, "succeeded")) + dlq[t] =
        IF t \in submitted THEN 1 + split[t] + (IF operator = t THEN 1 ELSE 0) ELSE 0

\* A task that was not submitted has left no trace.
Untold(t) == t \notin submitted => operator # t /\ dlq[t] = 0 /\ split[t] = 0

LEMMA InitConserved == Init => \A t \in Tasks : Conserved(t) /\ Untold(t)
<1> SUFFICES ASSUME Init, NEW t \in Tasks PROVE Conserved(t) /\ Untold(t)
  OBVIOUS
<1>1. Len(Items) = 0 /\ dlq[t] = 0 /\ split[t] = 0 /\ submitted = {} /\ operator = NoTask
  BY InitShapes, ItemsShape, EmptySeq DEF Init, Shapes, ItemsFollow
<1>2. \A state : Where(Items, t, state) = {}
  BY <1>1 DEF Where
<1>3. Cardinality(Where(Items, t, "open")) = 0 /\ Cardinality(Where(Items, t, "succeeded")) = 0
  BY <1>2, FS_EmptySet
<1>4. operator # t
  BY <1>1, NoTaskAssumption
<1> QED BY <1>1, <1>3, <1>4 DEF Conserved, Untold

\* Opening and closing, counted.
LEMMA CountOpened ==
    ASSUME NEW s \in Seq(ItemType), NEW t \in Tasks, NEW u, NEW state
    PROVE  Cardinality(Where(Append(s, Contract!Open(t)), u, state)) =
             Cardinality(Where(s, u, state)) + (IF u = t /\ state = "open" THEN 1 ELSE 0)
<1>1. Len(s) + 1 \notin Where(s, u, state)
  BY LenProperties DEF Where
<1> QED BY <1>1, WhereOpened, WhereFinite, FS_AddElement

LEMMA CountOpenSettled ==
    ASSUME NEW s \in Seq(ItemType), NEW k \in 1..Len(s), s[k].state = "open",
           NEW closed \in Terminal, NEW u
    PROVE  Cardinality(Where(Settling(s, k, closed), u, "open")) =
             Cardinality(Where(s, u, "open")) - (IF u = s[k].task THEN 1 ELSE 0)
<1>1. IsFiniteSet(Where(s, u, "open")) /\ Cardinality(Where(s, u, "open")) \in Nat
  BY WhereFinite
<1>2. k \in Where(s, u, "open") <=> u = s[k].task
  BY DEF Where
<1>3. Cardinality(Where(s, u, "open") \ {k}) =
        IF k \in Where(s, u, "open") THEN Cardinality(Where(s, u, "open")) - 1
                                      ELSE Cardinality(Where(s, u, "open"))
  BY <1>1, FS_RemoveElement
<1>4. Where(Settling(s, k, closed), u, "open") = Where(s, u, "open") \ {k}
  BY OpenSettled
<1>5. Cardinality(Where(Settling(s, k, closed), u, "open")) = Cardinality(Where(s, u, "open") \ {k})
  BY <1>4, Zenon
<1> QED BY <1>1, <1>2, <1>3, <1>5

LEMMA CountClosedSettled ==
    ASSUME NEW s \in Seq(ItemType), NEW k \in 1..Len(s), s[k].state = "open",
           NEW closed \in Terminal, NEW u, NEW state, state # "open"
    PROVE  Cardinality(Where(Settling(s, k, closed), u, state)) =
             Cardinality(Where(s, u, state)) + (IF u = s[k].task /\ state = closed THEN 1 ELSE 0)
<1>1. IsFiniteSet(Where(s, u, state)) /\ Cardinality(Where(s, u, state)) \in Nat
  BY WhereFinite
<1>2. k \notin Where(s, u, state)
  BY DEF Where
<1>3. Cardinality(Where(s, u, state) \cup {k}) = Cardinality(Where(s, u, state)) + 1
  BY <1>1, <1>2, FS_AddElement
<1>4. Where(Settling(s, k, closed), u, state) =
        IF u = s[k].task /\ state = closed THEN Where(s, u, state) \cup {k}
                                           ELSE Where(s, u, state)
  BY ClosedSettled
<1> QED BY <1>1, <1>3, <1>4

LEMMA ConservedStep ==
    ASSUME Shapes, Shapes', [Next]_vars, NEW t \in Tasks, Conserved(t), Untold(t)
    PROVE  (Conserved(t) /\ Untold(t))'
<1> DEFINE opened == Cardinality(Where(Items, t, "open"))
           done == Cardinality(Where(Items, t, "succeeded"))
           opened1 == Cardinality(Where(Items', t, "open"))
           done1 == Cardinality(Where(Items', t, "succeeded"))
<1>0. /\ Items \in Seq(ItemType) /\ opened \in Nat /\ done \in Nat
      /\ dlq \in [Tasks -> Nat] /\ split \in [Tasks -> Nat]
      /\ operator \in Tasks \cup {NoTask} /\ NoTask \notin Tasks
  BY ItemsShape, WhereFinite, NoTaskAssumption DEF ItemsFollow, Shapes, TypeOK
<1>1. /\ t \in submitted => opened + done + dlq[t] = 1 + split[t] + (IF operator = t THEN 1 ELSE 0)
      /\ t \notin submitted => opened + done + dlq[t] = 0
      /\ t \notin submitted => operator # t /\ dlq[t] = 0 /\ split[t] = 0
  BY DEF Conserved, Untold
<1>2. SUFFICES
        /\ opened1 + done1 + dlq'[t] =
              IF t \in submitted' THEN 1 + split'[t] + (IF operator' = t THEN 1 ELSE 0) ELSE 0
        /\ t \notin submitted' => operator' # t /\ dlq'[t] = 0 /\ split'[t] = 0
  BY DEF Conserved, Untold
<1> HIDE DEF opened, done
<1>3. ASSUME Items' = Items, UNCHANGED <<retries, submitted>>,
             UNCHANGED <<dlq, operator, split>> \/ RequeueDelete \/ RequeueCutOff
      PROVE  /\ opened1 + done1 + dlq'[t] =
                   IF t \in submitted' THEN 1 + split'[t] + (IF operator' = t THEN 1 ELSE 0) ELSE 0
             /\ t \notin submitted' => operator' # t /\ dlq'[t] = 0 /\ split'[t] = 0
  <2>1. opened1 = opened /\ done1 = done /\ submitted' = submitted
    BY <1>3 DEF opened, done
  <2> HIDE DEF opened1, done1
  <2>2. CASE UNCHANGED <<dlq, operator, split>>
    BY <1>0, <1>1, <2>1, <2>2
  <2>3. CASE RequeueDelete
    <3>1. /\ operator \in Tasks /\ operator' = NoTask /\ split' = split
          /\ dlq'[t] = IF t = operator THEN dlq[t] - 1 ELSE dlq[t]
      BY <1>0, <2>3 DEF RequeueDelete, history
    <3> QED BY <1>0, <1>1, <2>1, <3>1
  <2>4. CASE RequeueCutOff
    <3>1. /\ operator \in Tasks /\ operator' = NoTask /\ dlq' = dlq
          /\ split'[t] = IF t = operator THEN split[t] + 1 ELSE split[t]
      BY <1>0, <2>4 DEF RequeueCutOff, redis
    <3> QED BY <1>0, <1>1, <2>1, <3>1
  <2> QED BY <1>3, <2>2, <2>3, <2>4
<1>4. ASSUME NEW u \in Tasks, Enqueue(u) \/ RequeueAdd(u), Items' = Append(Items, Contract!Open(u))
      PROVE  /\ opened1 + done1 + dlq'[t] =
                   IF t \in submitted' THEN 1 + split'[t] + (IF operator' = t THEN 1 ELSE 0) ELSE 0
             /\ t \notin submitted' => operator' # t /\ dlq'[t] = 0 /\ split'[t] = 0
  <2>1. opened1 = opened + (IF t = u THEN 1 ELSE 0) /\ done1 = done
    BY <1>0, <1>4, CountOpened, SMTT(30) DEF opened, done
  <2> HIDE DEF opened1, done1
  <2>2. CASE Enqueue(u)
    <3>1. u \notin submitted /\ submitted' = submitted \cup {u} /\ UNCHANGED <<dlq, operator, split>>
      BY <2>2 DEF Enqueue, history
    <3> QED BY <1>0, <1>1, <2>1, <3>1
  <2>3. CASE RequeueAdd(u)
    <3>1. operator = NoTask /\ operator' = u /\ dlq[u] > 0 /\ UNCHANGED <<dlq, submitted, split>>
      BY <2>3 DEF RequeueAdd, history
    <3> QED BY <1>0, <1>1, <2>1, <3>1
  <2> QED BY <1>4, <2>2, <2>3
<1>5. ASSUME NEW w \in Workers, Contract!IsOpen(worker[w].m),
             Items[worker[w].m].task = TaskOf(w), TaskOf(w) \in Tasks,
             UNCHANGED <<operator, submitted, split>>,
             \/ /\ Ack(w) /\ UNCHANGED <<dlq, retries>>
                /\ Items' = [Items EXCEPT ![worker[w].m].state = "succeeded"]
             \/ /\ FailDeadLetter(w) /\ UNCHANGED retries
                /\ dlq' = [dlq EXCEPT ![TaskOf(w)] = @ + 1]
                /\ Items' = [Items EXCEPT ![worker[w].m].state = "dead_letter"]
             \/ /\ FailRetry(w) /\ UNCHANGED dlq
                /\ retries' = [retries EXCEPT ![TaskOf(w)] = @ + 1]
                /\ Items' = Append([Items EXCEPT ![worker[w].m].state = "retrying"],
                                   Contract!Open(TaskOf(w)))
      PROVE  /\ opened1 + done1 + dlq'[t] =
                   IF t \in submitted' THEN 1 + split'[t] + (IF operator' = t THEN 1 ELSE 0) ELSE 0
             /\ t \notin submitted' => operator' # t /\ dlq'[t] = 0 /\ split'[t] = 0
  <2> DEFINE k == worker[w].m
             u == TaskOf(w)
             closed(st) == Settling(Items, k, st)
  <2>0. k \in 1..Len(Items) /\ Items[k].state = "open" /\ Items[k].task = u
    BY <1>0, <1>5, LenProperties DEF Contract!IsOpen
  <2>1. \A st \in Terminal :
               /\ closed(st) \in Seq(ItemType)
               /\ Cardinality(Where(closed(st), t, "open")) = opened - (IF t = u THEN 1 ELSE 0)
               /\ Cardinality(Where(closed(st), t, "succeeded")) =
                     done + (IF t = u /\ st = "succeeded" THEN 1 ELSE 0)
    <3> SUFFICES ASSUME NEW st \in Terminal
                 PROVE  /\ closed(st) \in Seq(ItemType)
                        /\ Cardinality(Where(closed(st), t, "open")) = opened - (IF t = u THEN 1 ELSE 0)
                        /\ Cardinality(Where(closed(st), t, "succeeded")) =
                              done + (IF t = u /\ st = "succeeded" THEN 1 ELSE 0)
      OBVIOUS
    <3> HIDE DEF k, u
    <3>2. closed(st) \in Seq(ItemType)
      BY <1>0, <2>0, SettlingForm
    <3>3. Cardinality(Where(closed(st), t, "open")) = opened - (IF t = u THEN 1 ELSE 0)
      BY <1>0, <2>0, CountOpenSettled DEF opened
    <3>4. Cardinality(Where(closed(st), t, "succeeded")) =
            done + (IF t = u /\ st = "succeeded" THEN 1 ELSE 0)
      BY <1>0, <2>0, CountClosedSettled DEF done
    <3> QED BY <3>2, <3>3, <3>4
  <2>2. u \in Tasks /\ UNCHANGED <<operator, submitted, split>>
        /\ "succeeded" \in Terminal /\ "dead_letter" \in Terminal /\ "retrying" \in Terminal
    BY <1>5 DEF Terminal
  <2>3. t = u => opened # 0
    <3>1. IsFiniteSet(Where(Items, u, "open"))
      BY <1>0, WhereFinite
    <3>6. k \in Where(Items, u, "open")
      BY <2>0 DEF Where
    <3>2. Cardinality(Where(Items, u, "open")) # 0
      BY <3>1, <3>6, FS_EmptySet
    <3> QED BY <3>2 DEF opened
  <2>4. CASE Items' = closed("succeeded") /\ UNCHANGED dlq
    <3>1. opened1 = opened - (IF t = u THEN 1 ELSE 0) /\ done1 = done + (IF t = u THEN 1 ELSE 0)
      BY <2>1, <2>2, <2>4
    <3> HIDE DEF opened1, done1, u
    <3> QED BY <1>0, <1>1, <2>2, <2>4, <3>1
  <2>5. CASE Items' = closed("dead_letter") /\ dlq' = [dlq EXCEPT ![u] = @ + 1]
    <3>1. opened1 = opened - (IF t = u THEN 1 ELSE 0) /\ done1 = done
      BY <1>0, <2>1, <2>2, <2>5
    <3>2. dlq'[t] = dlq[t] + (IF t = u THEN 1 ELSE 0)
      BY <1>0, <2>2, <2>5
    <3>3. dlq[t] \in Nat /\ split[t] \in Nat
      BY <1>0
    <3> HIDE DEF opened1, done1, u
    <3>4. opened1 + done1 + dlq'[t] = opened + done + dlq[t]
      BY <1>0, <3>1, <3>2, <3>3
    <3>5. t = u => t \in submitted
      BY <1>0, <1>1, <2>3, <3>3
    <3> QED BY <1>1, <2>2, <3>2, <3>4, <3>5
  <2>6. CASE Items' = Append(closed("retrying"), Contract!Open(u)) /\ UNCHANGED dlq
    <3>1. /\ opened1 = Cardinality(Where(closed("retrying"), t, "open")) + (IF t = u THEN 1 ELSE 0)
          /\ done1 = Cardinality(Where(closed("retrying"), t, "succeeded"))
      <4>1. closed("retrying") \in Seq(ItemType) /\ u \in Tasks
        BY <2>1, <2>2
      <4>2. /\ Cardinality(Where(closed("retrying"), t, "open")) \in Nat
            /\ Cardinality(Where(closed("retrying"), t, "succeeded")) \in Nat
        BY <4>1, WhereFinite
      <4> HIDE DEF closed, u
      <4> QED BY <2>6, <4>1, <4>2, CountOpened
    <3>2. opened1 = opened /\ done1 = done
      BY <1>0, <2>1, <2>2, <3>1
    <3> HIDE DEF opened1, done1, u
    <3> QED BY <1>0, <1>1, <2>2, <2>6, <3>2
  <2> QED BY <1>5, <2>4, <2>5, <2>6 DEF Settling
<1> QED BY <1>3, <1>4, <1>5, ItemForms

LEMMA ConservedAlways == Spec => [](\A t \in Tasks : Conserved(t) /\ Untold(t))
<1>1. ASSUME Shapes, Shapes', [Next]_vars, \A t \in Tasks : Conserved(t) /\ Untold(t)
      PROVE  (\A t \in Tasks : Conserved(t) /\ Untold(t))'
  BY <1>1, ConservedStep
<1> QED BY <1>1, InitConserved, ShapesAlways, PTL DEF Spec

\* A submitted task is in exactly one place, whatever leases expire, replies are
\* lost or workers die: only an operator cut off between the two calls of a
\* requeue leaves a copy.
THEOREM Conservation == Spec => []TaskIsConserved
<1>1. ASSUME Shapes, \A t \in Tasks : Conserved(t) /\ Untold(t) PROVE TaskIsConserved
  <2> SUFFICES ASSUME NEW t \in submitted
               PROVE  Cardinality(Unsettled(t)) + Cardinality(Succeeded(t)) + dlq[t] =
                        1 + split[t] + (IF operator = t THEN 1 ELSE 0)
    BY DEF TaskIsConserved
  <2>1. t \in Tasks /\ Conserved(t)
    BY <1>1 DEF Shapes, TypeOK
  <2>2. SetsFollow(t)
    BY <1>1, <2>1, ItemSets DEF Shapes
  <2> QED BY <2>1, <2>2 DEF Conserved, SetsFollow
<1> QED BY <1>1, ShapesAlways, ConservedAlways, PTL
-----------------------------------------------------------------------------
(* Retries.                                                                *)

\* A task is leased as often as it is attempted, and a worker settles only what
\* it was allowed to work on.
CountedLog ==
    /\ \A t \in Tasks \ Poisoned : counter[t].attempt = counter[t].token
    /\ \A m \in 1..Len(log) : log[m].task \notin Poisoned => log[m].attempt = log[m].token

CountedWorker(w) ==
    /\ TaskOf(w) \notin Poisoned => worker[w].attempt = worker[w].token
    /\ worker[w].pc # "working" => TaskOf(w) \notin Poisoned
    /\ worker[w].pc = "retry" => worker[w].attempt < MaxAttempts

Counted == CountedLog /\ \A w \in Holders : CountedWorker(w)

LEMMA InitCounted == Init => Counted
<1> SUFFICES ASSUME Init PROVE Counted
  OBVIOUS
<1>1. Len(log) = 0 /\ Holders = {}
  BY EmptySeq DEF Init, Holders, IdleWorker
<1>2. \A t \in Tasks : counter[t] = [token |-> 0, attempt |-> 0]
  BY DEF Init
<1> QED BY <1>1, <1>2 DEF Counted, CountedLog

LEMMA CountedLogStep ==
    ASSUME Shapes, Shapes', CountedLog, [Next]_vars
    PROVE  CountedLog'
<1>1. ASSUME LeasesKept PROVE CountedLog'
  <2>1. ASSUME NEW m \in 1..Len(log'), log'[m].task \notin Poisoned
        PROVE  log'[m].attempt = log'[m].token
    <3>1. CASE m \in 1..Len(log)
      BY <1>1, <2>1, <3>1 DEF LeasesKept, CountedLog
    <3>2. CASE m \notin 1..Len(log)
      <4>1. m > Len(log)
        BY <1>1, <3>2, FenceTypes DEF LeasesKept
      <4>2. PICK t \in Tasks : log'[m] = Message(t)
        BY <1>1, <4>1 DEF LeasesKept
      <4> QED BY <4>2 DEF Message
    <3> QED BY <3>1, <3>2
  <2> QED BY <1>1, <2>1 DEF LeasesKept, CountedLog
<1>2. CASE Returned
  BY <1>2 DEF Returned, CountedLog
<1>3. ASSUME NEW w \in Workers, NEW k \in 1..read, NEW first \in BOOLEAN, Grant(w, k, first)
      PROVE  CountedLog'
  <2>1. k \in Ids /\ Ids = 1..Len(log) /\ TypeOK /\ counter \in [Tasks -> CounterType]
    <3>1. k \in Ids /\ Ids = 1..Len(log)
      BY FenceTypes
    <3> QED BY <3>1 DEF Shapes, TypeOK
  <2>2. /\ Len(log') = Len(log)
        /\ \A n \in Ids \ {k} : log'[n] = log[n]
        /\ log'[k].task = log[k].task /\ log[k].task \in Tasks
        /\ log'[k].token = Drawn(log[k].task).token
        /\ log'[k].attempt = Drawn(log[k].task).attempt
        /\ counter' = [counter EXCEPT ![log[k].task] = Drawn(log[k].task)]
    BY <1>3, <2>1, GrantForm
  <2>3. log[k].task \notin Poisoned => Drawn(log[k].task).attempt = Drawn(log[k].task).token
    BY <2>2 DEF Drawn, CountedLog
  <2>4. \A m \in 1..Len(log') : log'[m].task \notin Poisoned => log'[m].attempt = log'[m].token
    BY <2>1, <2>2, <2>3 DEF CountedLog
  <2>5. \A t \in Tasks \ Poisoned : counter'[t].attempt = counter'[t].token
    BY <2>1, <2>2, <2>3 DEF CountedLog
  <2> QED BY <2>4, <2>5 DEF CountedLog
<1> QED BY <1>1, <1>2, <1>3, FenceForms DEF Leased

LEMMA CountedStep ==
    ASSUME Shapes, Shapes', Counted, [Next]_vars
    PROVE  Counted'
<1>1. CountedLog /\ CountedLog' /\ \A w \in Holders : CountedWorker(w)
  BY CountedLogStep DEF Counted
<1>2. \A m \in 1..Len(log) : log'[m].task = log[m].task
  BY MessageSteps, FenceTypes
<1>3. ASSUME NEW v \in Holders', KeepsLease(v) PROVE CountedWorker(v)'
  <2>1. /\ v \in Holders /\ worker'[v].token = worker[v].token /\ TaskOf(v)' = TaskOf(v)
        /\ worker'[v].attempt = worker[v].attempt
        /\ \/ worker'[v].pc = worker[v].pc
           \/ /\ TaskOf(v) \notin Poisoned
              /\ worker'[v].pc = "retry" => worker[v].attempt < MaxAttempts
    BY <1>2, <1>3, HolderStays DEF KeepsLease
  <2> QED BY <1>1, <2>1 DEF CountedWorker
<1>4. ASSUME NEW w \in Workers, NEW k \in 1..read, Takes(w, k), NEW v \in Holders'
      PROVE  CountedWorker(v)'
  <2>1. k \in 1..Len(log) /\ worker \in [Workers -> WorkerType(read)] /\ v \in Workers
        /\ k \in 1..Len(log')
    BY FenceTypes, MessageSteps, SMTT(30) DEF Shapes, TypeOK, Holders
  <2>2. CASE v = w
    <3>1. /\ worker'[v].pc = "working" /\ worker'[v].m = k
          /\ worker'[v].token = log'[k].token /\ worker'[v].attempt = log'[k].attempt
      BY <1>4, <2>1, <2>2 DEF Takes, Holding
    <3> QED BY <1>1, <2>1, <3>1 DEF CountedWorker, CountedLog, TaskOf
  <2>3. CASE v # w
    <3>1. worker'[v] = worker[v] /\ v \in Holders
      BY <1>4, <2>1, <2>3 DEF Takes, Holders
    <3>2. TaskOf(v)' = TaskOf(v)
      BY <1>2, <3>1, FenceTypes DEF TaskOf
    <3> QED BY <1>1, <3>1, <3>2 DEF CountedWorker
  <2> QED BY <2>2, <2>3
<1>5. ASSUME NEW v \in Holders' PROVE CountedWorker(v)'
  <2>1. v \in Workers
    BY DEF Holders
  <2> QED BY <1>3, <1>4, <2>1, FenceForms DEF Returned, Leased
<1> QED BY <1>1, <1>5 DEF Counted, CountedWorker

\* The attempts a task has spent on retries: the tokens of the messages that
\* were followed by another.
Spent(t) == {log[m].token : m \in Retrying(t)}

WithinBudget(t) == retries[t] = Cardinality(Spent(t)) /\ Spent(t) \subseteq 1..(MaxAttempts - 1)

LEMMA InitBudget == Init => \A t \in Tasks : WithinBudget(t)
<1> SUFFICES ASSUME Init, NEW t \in Tasks PROVE WithinBudget(t)
  OBVIOUS
<1>1. Ids = {} /\ retries[t] = 0
  BY InitShapes, FenceTypes, EmptySeq DEF Init
<1>2. Spent(t) = {}
  BY <1>1 DEF Spent, Retrying
<1> QED BY <1>1, <1>2, FS_EmptySet DEF WithinBudget

LEMMA BudgetStep ==
    ASSUME Shapes, Shapes', Fences, Counted, [Next]_vars, NEW t \in Tasks, WithinBudget(t)
    PROVE  WithinBudget(t)'
<1>0. /\ Items \in Seq(ItemType) /\ Retrying(t) = Where(Items, t, "retrying")
      /\ Retrying(t)' = Where(Items', t, "retrying")
      /\ retries \in [Tasks -> Nat]
      /\ \A m \in Retrying(t) : log'[m].token = log[m].token
  <2>1. \A m \in Retrying(t) : log'[m].token = log[m].token
    BY MessageSteps DEF Retrying, Terminal, Aged
  <2>2. SetsFollow(t) /\ SetsFollow(t)'
    BY ItemSets, ItemSetsNext DEF Shapes
  <2> QED BY <2>1, <2>2, ItemsShape DEF ItemsFollow, Shapes, TypeOK, SetsFollow
<1>1. ASSUME Where(Items', t, "retrying") = Where(Items, t, "retrying"), retries'[t] = retries[t]
      PROVE  WithinBudget(t)'
  <2>1. Retrying(t)' = Retrying(t)
    BY <1>0, <1>1, Zenon
  <2>2. Spent(t)' = Spent(t)
    BY <1>0, <2>1 DEF Spent
  <2> QED BY <1>1, <2>2 DEF WithinBudget
<1>2. ASSUME NEW u \in Tasks, Items' = Append(Items, Contract!Open(u)), retries' = retries
      PROVE  WithinBudget(t)'
  <2>1. Where(Append(Items, Contract!Open(u)), t, "retrying") = Where(Items, t, "retrying")
    BY <1>0, WhereOpened
  <2> QED BY <1>1, <1>2, <2>1
<1>3. ASSUME NEW w \in Workers, Effective(w), Contract!IsOpen(worker[w].m),
             Items[worker[w].m].task = TaskOf(w), TaskOf(w) \in Tasks,
             \/ /\ UNCHANGED retries
                /\ Items' = [Items EXCEPT ![worker[w].m].state = "succeeded"]
             \/ /\ UNCHANGED retries
                /\ Items' = [Items EXCEPT ![worker[w].m].state = "dead_letter"]
             \/ /\ FailRetry(w)
                /\ retries' = [retries EXCEPT ![TaskOf(w)] = @ + 1]
                /\ Items' = Append([Items EXCEPT ![worker[w].m].state = "retrying"],
                                   Contract!Open(TaskOf(w)))
      PROVE  WithinBudget(t)'
  <2> DEFINE k == worker[w].m
             u == TaskOf(w)
  <2>1. /\ k \in 1..Len(Items) /\ Items[k].state = "open" /\ Items[k].task = u /\ u \in Tasks
        /\ "succeeded" \in Terminal /\ "dead_letter" \in Terminal /\ "retrying" \in Terminal
    BY <1>0, <1>3, LenProperties DEF Contract!IsOpen, Terminal
  <2> HIDE DEF k, u
  <2>2. ASSUME NEW st \in {"succeeded", "dead_letter"}, Items' = Settling(Items, k, st), retries' = retries
        PROVE  WithinBudget(t)'
    <3>1. st \in Terminal /\ st # "retrying"
      BY DEF Terminal
    <3>2. Where(Settling(Items, k, st), t, "retrying") = Where(Items, t, "retrying")
      BY <1>0, <2>1, <3>1, ClosedSettled
    <3> QED BY <1>1, <2>2, <3>2
  <2>3. ASSUME FailRetry(w), retries' = [retries EXCEPT ![u] = @ + 1],
               Items' = Append(Settling(Items, k, "retrying"), Contract!Open(u))
        PROVE  WithinBudget(t)'
    <3>1. Settling(Items, k, "retrying") \in Seq(ItemType)
      BY <1>0, <2>1, SettlingForm
    <3>2. Where(Append(Settling(Items, k, "retrying"), Contract!Open(u)), t, "retrying") =
            Where(Settling(Items, k, "retrying"), t, "retrying")
      BY <2>1, <3>1, WhereOpened
    <3>3. CASE t # u
      <4>1. Where(Settling(Items, k, "retrying"), t, "retrying") = Where(Items, t, "retrying")
        BY <1>0, <2>1, <3>3, ClosedSettled
      <4>2. retries'[t] = retries[t]
        BY <1>0, <2>3, <3>3
      <4>3. Where(Items', t, "retrying") = Where(Items, t, "retrying")
        BY <2>3, <3>2, <4>1, Zenon
      <4> QED BY <1>1, <4>2, <4>3
    <3>4. CASE t = u
      <4>1. Where(Settling(Items, k, "retrying"), t, "retrying") = Where(Items, t, "retrying") \cup {k}
        BY <1>0, <2>1, <3>4, ClosedSettled
      <4>2. Retrying(t)' = Retrying(t) \cup {k}
        BY <1>0, <2>3, <3>2, <4>1, Zenon
      <4>3. /\ worker[w].pc = "retry" /\ w \in Holders /\ CountedWorker(w)
            /\ worker[w].token \in Nat /\ worker[w].token > 0
        BY <1>3, <2>3, FenceTypes DEF FailRetry, Holders, Counted, Fences, HoldsItsOwn
      <4>4. worker[w].attempt = worker[w].token /\ worker[w].attempt < MaxAttempts /\ u \notin Poisoned
        BY <4>3 DEF CountedWorker, u
      <4>5. /\ log[k].token = worker[w].token /\ log'[k].token = worker[w].token
            /\ k \in 1..Len(log) /\ log[k].state = "active" /\ log[k].task = u
        <5>1. Retried(w)
          BY <1>3, <2>3 DEF FailRetry, Retried
        <5> QED BY <1>3, <5>1, StatesClosed, EffectiveForm, FenceTypes DEF k, u, Shapes
      <4>6. Spent(t)' = Spent(t) \cup {worker[w].token}
        BY <1>0, <4>2, <4>5, SMTT(30) DEF Spent
      <4>7. worker[w].token \notin Spent(t)
        <5> SUFFICES ASSUME NEW m \in Retrying(t), log[m].token = worker[w].token PROVE FALSE
          BY DEF Spent
        <5>1. m \in 1..Len(log) /\ log[m].task = u /\ log[m].state = "retrying"
          BY <3>4, FenceTypes DEF Retrying
        <5>2. m = k
          BY <4>3, <4>4, <4>5, <5>1 DEF Fences, TokensNameMessages
        <5> QED BY <4>5, <5>1, <5>2
      <4>8. worker[w].token \in 1..(MaxAttempts - 1)
        BY <4>3, <4>4, LeaseAssumption DEF LeaseAssumption
      <4>9. IsFiniteSet(Spent(t)) /\ retries[t] = Cardinality(Spent(t))
            /\ Spent(t) \in SUBSET (1..(MaxAttempts - 1))
        <5>1. IsFiniteSet(1..(MaxAttempts - 1))
          BY LeaseAssumption, FS_Interval DEF LeaseAssumption
        <5> QED BY <5>1, FS_Subset DEF WithinBudget
      <4>10. Cardinality(Spent(t) \cup {worker[w].token}) = Cardinality(Spent(t)) + 1
        BY <4>7, <4>9, FS_AddElement
      <4>11. Cardinality(Spent(t)') = Cardinality(Spent(t) \cup {worker[w].token})
        BY <4>6, Zenon
      <4>12. retries'[t] = retries[t] + 1
        BY <1>0, <2>3, <3>4
      <4> QED BY <4>6, <4>8, <4>9, <4>10, <4>11, <4>12 DEF WithinBudget
    <3> QED BY <3>3, <3>4
  <2> QED BY <1>3, <2>2, <2>3 DEF Settling, k, u
<1>4. CASE Items' = Items /\ UNCHANGED retries
  BY <1>1, <1>4
<1> QED BY <1>2, <1>3, <1>4, ItemForms

LEMMA BudgetAlways == Spec => [](\A t \in Tasks : WithinBudget(t))
<1>1. ASSUME Shapes, Shapes', Fences, Counted, [Next]_vars, \A t \in Tasks : WithinBudget(t)
      PROVE  (\A t \in Tasks : WithinBudget(t))'
  BY <1>1, BudgetStep
<1>2. Spec => []Counted
  BY InitCounted, CountedStep, ShapesAlways, PTL DEF Spec
<1> QED BY <1>1, <1>2, InitBudget, FencesAlways, ShapesAlways, PTL DEF Spec

\* A task is retried fewer than MaxAttempts times in its whole life: a lease that
\* was lost, reclaimed or requeued spends an attempt as well, and none is spent
\* twice.
THEOREM Bounded == Spec => []RetriesAreBounded
<1>1. ASSUME \A t \in Tasks : WithinBudget(t) PROVE RetriesAreBounded
  <2> SUFFICES ASSUME NEW t \in Tasks PROVE retries[t] < MaxAttempts
    BY DEF RetriesAreBounded
  <2>1. /\ IsFiniteSet(1..(MaxAttempts - 1)) /\ Cardinality(1..(MaxAttempts - 1)) = MaxAttempts - 1
        /\ MaxAttempts \in Nat
    BY LeaseAssumption, FS_Interval DEF LeaseAssumption
  <2>2. Spent(t) \in SUBSET (1..(MaxAttempts - 1)) /\ retries[t] = Cardinality(Spent(t))
    BY <1>1 DEF WithinBudget
  <2>3. Cardinality(Spent(t)) <= MaxAttempts - 1 /\ Cardinality(Spent(t)) \in Nat
    BY <2>1, <2>2, FS_Subset, FS_CardinalityType
  <2> QED BY <2>1, <2>2, <2>3
<1> QED BY <1>1, BudgetAlways, PTL
=============================================================================
