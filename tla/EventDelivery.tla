---------------------------- MODULE EventDelivery ----------------------------
(***************************************************************************)
(* The durable event store's delivery ledger (SQLiteEventStore) for one    *)
(* subscription, and the runtime that dispatches claimed deliveries to its *)
(* consumer (DurableDeliveryRuntime).                                      *)
(*                                                                         *)
(* Every store method is one IMMEDIATE transaction, so one action.  A      *)
(* delivery is named by its event and its generation: 1 for the delivery   *)
(* that append or registration creates, higher for repairs.  Nothing       *)
(* renews a lease; whether it has expired and whether a retry is due are   *)
(* flags that time sets.  The clock, checksums and reports are left out.   *)
(***************************************************************************)
EXTENDS Integers, Sequences, FiniteSets, SequencesExt

CONSTANTS
    Streams,        \* stream ids, in their order
    Events,
    StreamOf,       \* [Events -> Streams]
    Matching,       \* events that pass the subscription's filter
    Start,          \* start sequence; 0 for the start policy LATEST
    Transactional,  \* the idempotency strategy is INBOX_TRANSACTION
    Workers,        \* lease owners
    MaxAttempts, BatchSize, MaxInFlight, MaxConcurrency, PendingLimit,
    CancelLimit,
    MaxRepairs,     \* bound on requeues and redeliveries
    MaxPauses,      \* bound on pauses
    MaxFaults       \* bound on crashes and on claims that fail their checks

ASSUME DeliveryAssumption ==
    /\ Streams \subseteq Nat /\ IsFiniteSet(Events) /\ IsFiniteSet(Workers)
    /\ StreamOf \in [Events -> Streams] /\ Matching \subseteq Events
    /\ Start \in Nat /\ Transactional \in BOOLEAN
    /\ {MaxAttempts, BatchSize, MaxInFlight, MaxConcurrency, PendingLimit, CancelLimit} \subseteq Nat \ {0}
    /\ {MaxRepairs, MaxPauses, MaxFaults} \subseteq Nat

VARIABLES
    stream,         \* per stream: its events, a sequence number is a position
    status,         \* of the subscription; none before it is registered
    begin, end,     \* per stream: start sequence and retirement watermark, 0 for none
    delivery,       \* the ledger: a record for every delivery
    checkpoint,     \* per stream: highest contiguous terminal sequence
    deadLetter,     \* dead letters that are open: neither requeued nor resolved
    inbox,          \* events whose effect the inbox has recorded
    worker,         \* per worker: the rest of its claimed batch and the first item's outcome
    applied,        \* history: the effects of the consumer, in their order
    registered, retired,    \* history: the streams' lengths at these moments
    repairs, pauses, faults

ledger == <<delivery, checkpoint, deadLetter, inbox>>
subscription == <<status, begin, end>>
history == <<registered, retired>>
bounds == <<repairs, pauses, faults>>
vars == <<stream, subscription, ledger, worker, applied, history, bounds>>

-----------------------------------------------------------------------------
Latest   == 0
NoOwner  == "none"
Open     == {"pending", "claimed", "retry_wait"}
Settled  == {"acked", "dropped", "dead_letter"}
Pending  == [state |-> "pending", attempts |-> 0, owner |-> NoOwner, live |-> FALSE, due |-> TRUE]
Closed(state, attempts) == [Pending EXCEPT !.state = state, !.attempts = attempts]
IdleWorker == [batch |-> <<>>, result |-> "none"]

Stored == UNION {ToSet(stream[s]) : s \in Streams}
SequenceOf(e) == CHOOSE n \in DOMAIN stream[StreamOf[e]] : stream[StreamOf[e]][n] = e

\* Open deliveries of a ledger D, and those of the first generation of stream s.
OpenIn(D) == {d \in DOMAIN D : D[d].state \in Open}
FirstIn(D, s) == {d \in DOMAIN D : d[2] = 1 /\ StreamOf[d[1]] = s}

\* ORDER BY stream_id, stream_sequence, delivery_generation.
Before(c, d) ==
    \/ StreamOf[c[1]] < StreamOf[d[1]]
    \/ /\ StreamOf[c[1]] = StreamOf[d[1]]
       /\ \/ SequenceOf(c[1]) < SequenceOf(d[1])
          \/ c[1] = d[1] /\ c[2] < d[2]

\* The first n of a set of deliveries.
FirstOf(D, n) == {d \in D : Cardinality({c \in D : Before(c, d)}) < n}

NextGeneration(e) == 1 + Cardinality({d \in DOMAIN delivery : d[1] = e})

WithPending(D, new) == [d \in DOMAIN D \cup new |-> IF d \in new THEN Pending ELSE D[d]]

\* Variant: a dead letter holds the checkpoint back.
FrontierOfAcked(D, s) ==
    LET done == {SequenceOf(d[1]) :
                    d \in {c \in FirstIn(D, s) :
                              /\ SequenceOf(c[1]) > checkpoint[s]
                              /\ \A o \in FirstIn(D, s) :
                                    SequenceOf(o[1]) \in (checkpoint[s] + 1)..SequenceOf(c[1])
                                        => D[o].state = "acked"}}
    IN  CHOOSE n \in done \cup {checkpoint[s]} : \A m \in done : m <= n

\* How far the checkpoint of a stream advances over settled deliveries.
Frontier(D, s) ==
    LET done == {SequenceOf(d[1]) :
                    d \in {c \in FirstIn(D, s) :
                              /\ SequenceOf(c[1]) > checkpoint[s]
                              /\ \A o \in FirstIn(D, s) :
                                    SequenceOf(o[1]) \in (checkpoint[s] + 1)..SequenceOf(c[1])
                                        => D[o].state \in Settled}}
    IN  CHOOSE n \in done \cup {checkpoint[s]} : \A m \in done : m <= n

\* Checkpoints after the deliveries in changed were settled in D.
Advanced(D, changed) ==
    [s \in Streams |-> IF \E d \in changed : d[2] = 1 /\ StreamOf[d[1]] = s
                       THEN Frontier(D, s) ELSE checkpoint[s]]

Init ==
    /\ stream = [s \in Streams |-> <<>>]
    /\ status = "none" /\ begin = [s \in Streams |-> 0] /\ end = [s \in Streams |-> 0]
    /\ delivery = [d \in {} |-> Pending] /\ deadLetter = {}
    /\ checkpoint = [s \in Streams |-> 0] /\ inbox = {}
    /\ worker = [w \in Workers |-> IdleWorker]
    /\ applied = <<>>
    /\ registered = [s \in Streams |-> 0] /\ retired = [s \in Streams |-> 0]
    /\ repairs = 0 /\ pauses = 0 /\ faults = 0

-----------------------------------------------------------------------------
(* Publishing and the life of the subscription.                            *)

\* _subscription_start_sequence
StartAfter(watermark) == IF Start = Latest THEN watermark + 1 ELSE Start

\* An event id that is stored already is returned as it is.  A backlog at its
\* hard limit rejects the whole append.
AppendEvent(e) ==
    LET s == StreamOf[e]
        sequence == Len(stream[s]) + 1
        first == IF begin[s] # 0 THEN begin[s] ELSE StartAfter(sequence - 1)
        subscribed == status \in {"active", "paused"} /\ first <= sequence
    IN  /\ e \notin Stored
        /\ stream' = [stream EXCEPT ![s] = Append(@, e)]
        /\ begin' = IF subscribed THEN [begin EXCEPT ![s] = first] ELSE begin
        /\ IF subscribed /\ e \in Matching
           THEN /\ Cardinality(OpenIn(delivery)) < PendingLimit
                /\ delivery' = WithPending(delivery, {<<e, 1>>})
           ELSE delivery' = delivery
        /\ UNCHANGED <<status, end, checkpoint, deadLetter, inbox, worker, applied, history, bounds>>

\* Variant: the backfill starts behind the first event.
BackfillLate(s) == (StartAfter(Len(stream[s])) + 1)..Len(stream[s])

\* Sequence numbers of a stream that registration looks back at.
Backfill(s) == StartAfter(Len(stream[s]))..Len(stream[s])

Register ==
    LET known == {s \in Streams : stream[s] # <<>>}
        old == UNION {{<<stream[s][n], 1>> : n \in Backfill(s)} : s \in known}
        new == {d \in old : d[1] \in Matching}
    IN  /\ status = "none"
        /\ \A s \in known : StartAfter(Len(stream[s])) <= Len(stream[s]) + 1
        /\ Cardinality(new) <= PendingLimit
        /\ status' = "active"
        /\ begin' = [s \in Streams |-> IF s \in known THEN StartAfter(Len(stream[s])) ELSE 0]
        /\ delivery' = WithPending(delivery, new)
        /\ registered' = [s \in Streams |-> Len(stream[s])]
        /\ UNCHANGED <<stream, end, checkpoint, deadLetter, inbox, worker, applied, retired, bounds>>

Pause ==
    /\ status = "active" /\ pauses < MaxPauses
    /\ status' = "paused" /\ pauses' = pauses + 1
    /\ UNCHANGED <<stream, begin, end, ledger, worker, applied, history, repairs, faults>>

Resume ==
    /\ status = "paused"
    /\ status' = "active"
    /\ UNCHANGED <<stream, begin, end, ledger, worker, applied, history, bounds>>

Retire ==
    /\ status \in {"active", "paused"}
    /\ status' = "retired"
    /\ end' = [s \in Streams |-> IF begin[s] # 0 THEN Len(stream[s]) ELSE 0]
    /\ retired' = [s \in Streams |-> Len(stream[s])]
    /\ UNCHANGED <<stream, begin, ledger, worker, applied, registered, bounds>>

BeforeRetirement(d) == end[StreamOf[d[1]]] # 0 /\ SequenceOf(d[1]) <= end[StreamOf[d[1]]]

\* cancel_retired_subscription drops what is left, a bounded number at a time.
Cancel ==
    LET left == {d \in OpenIn(delivery) : BeforeRetirement(d)}
        gone == FirstOf(left, CancelLimit)
        D == [d \in DOMAIN delivery |->
                 IF d \in gone
                 THEN Closed("dropped", IF delivery[d].attempts < 1 THEN 1 ELSE delivery[d].attempts)
                 ELSE delivery[d]]
    IN  /\ status = "retired" /\ left = OpenIn(delivery) /\ gone # {}
        /\ delivery' = D
        /\ checkpoint' = Advanced(D, gone)
        /\ UNCHANGED <<stream, subscription, deadLetter, inbox, worker, applied, history, bounds>>

-----------------------------------------------------------------------------
(* Claiming: expired claims are recovered first.                           *)

Expired == {d \in DOMAIN delivery : delivery[d].state = "claimed" /\ ~delivery[d].live}

\* Variant: an expired claim is always tried again.
RecoveredForEver ==
    [d \in DOMAIN delivery |->
        IF d \in Expired THEN Closed("retry_wait", delivery[d].attempts) ELSE delivery[d]]

\* The ledger once expired claims wait for a retry that is due at once or,
\* with their attempts used up, are dead letters.
Recovered ==
    [d \in DOMAIN delivery |->
        IF d \notin Expired THEN delivery[d]
        ELSE Closed(IF delivery[d].attempts < MaxAttempts THEN "retry_wait" ELSE "dead_letter",
                    delivery[d].attempts)]

Buried == {d \in Expired : Recovered[d].state = "dead_letter"}
Claims == {d \in DOMAIN delivery \ Expired : delivery[d].state = "claimed"}
Owners == {delivery[d].owner : d \in Claims}

\* Variant: a delivery that waits for its retry lets later events pass.
OvertakesRetry(d) ==
    \A c \in FirstIn(Recovered, StreamOf[d[1]]) :
        Recovered[c].state \in Open \ {"retry_wait"} => SequenceOf(c[1]) >= SequenceOf(d[1])

\* No earlier event of the stream is open in its first delivery.
IsNextInStream(d) ==
    \A c \in FirstIn(Recovered, StreamOf[d[1]]) :
        Recovered[c].state \in Open => SequenceOf(c[1]) >= SequenceOf(d[1])

\* Variant: only what never failed is claimed.
CandidatesWithoutRetries(scope) ==
    {d \in DOMAIN delivery :
        /\ Recovered[d].state = "pending" /\ StreamOf[d[1]] \in scope
        /\ status = "retired" => BeforeRetirement(d)
        /\ d[2] > 1 \/ IsNextInStream(d)}

\* Deliveries in the streams of scope that a claim may take.
Candidates(scope) ==
    {d \in DOMAIN delivery :
        /\ Recovered[d].state \in {"pending", "retry_wait"} /\ Recovered[d].due
        /\ StreamOf[d[1]] \in scope
        /\ status = "retired" => BeforeRetirement(d)
        /\ d[2] > 1 \/ IsNextInStream(d)}

\* How many deliveries worker w may claim now.
Capacity(w) ==
    IF w \notin Owners /\ Cardinality(Owners) >= MaxConcurrency THEN 0
    ELSE IF MaxInFlight - Cardinality(Claims) < BatchSize
         THEN MaxInFlight - Cardinality(Claims) ELSE BatchSize

\* claim_deliveries: what it recovers stays recovered when nothing is claimed.
Claim(w, scope) ==
    LET taken == FirstOf(Candidates(scope), Capacity(w))
        Item(d) == [delivery |-> d, attempt |-> Recovered[d].attempts + 1]
    IN  /\ worker[w] = IdleWorker /\ status \notin {"none", "paused"}
        /\ Expired \cup taken # {}
        /\ delivery' = [d \in DOMAIN delivery |->
                           IF d \in taken
                           THEN [state |-> "claimed", attempts |-> Recovered[d].attempts + 1,
                                 owner |-> w, live |-> TRUE, due |-> FALSE]
                           ELSE Recovered[d]]
        /\ deadLetter' = deadLetter \cup Buried
        /\ checkpoint' = Advanced(Recovered, Buried)
        /\ \E order \in [1..Cardinality(taken) -> taken] :
              /\ \A i, j \in DOMAIN order : i < j => Before(order[i], order[j])
              /\ worker' = [worker EXCEPT ![w].batch = [i \in DOMAIN order |-> Item(order[i])]]
        /\ UNCHANGED <<stream, subscription, inbox, applied, history, bounds>>

-----------------------------------------------------------------------------
(* Dispatching a claimed batch, one item after the other.                  *)

Outcomes == {"ack", "drop", "transient", "permanent"}
Current(w) == Head(worker[w].batch)

NextItem(w) == worker' = [worker EXCEPT ![w] = [batch |-> Tail(@.batch), result |-> "none"]]

\* Variant: the number of the attempt says it all.
AttemptMatches(w) == delivery[Current(w).delivery].attempts = Current(w).attempt

\* _lease_matches: the lease generation is the number of the attempt.
LeaseMatches(w) ==
    LET held == delivery[Current(w).delivery]
    IN  /\ held.state = "claimed" /\ held.owner = w /\ held.live
        /\ held.attempts = Current(w).attempt

\* RetryPlanner.plan, and what _settle_delivery makes of it.
Target(outcome, attempts) ==
    CASE outcome = "ack" -> "acked"
      [] outcome = "drop" -> "dropped"
      [] outcome = "transient" /\ attempts < MaxAttempts -> "retry_wait"
      [] OTHER -> "dead_letter"

\* _settle_delivery: a stale lease changes nothing.
Settlement(w, outcome) ==
    LET d == Current(w).delivery
        target == Target(outcome, delivery[d].attempts)
        D == [delivery EXCEPT ![d] = [Closed(target, @.attempts) EXCEPT !.due = target # "retry_wait"]]
    IN  IF LeaseMatches(w)
        THEN /\ delivery' = D
             /\ deadLetter' = IF target = "dead_letter" THEN deadLetter \cup {d} ELSE deadLetter
             /\ checkpoint' = IF target \in Settled THEN Advanced(D, {d}) ELSE checkpoint
        ELSE UNCHANGED <<delivery, deadLetter, checkpoint>>

\* The consumer is called; its target ignores a key that it has seen.
Consume(w, outcome) ==
    LET e == Current(w).delivery[1]
    IN  /\ ~Transactional /\ worker[w].batch # <<>> /\ worker[w].result = "none"
        /\ worker' = [worker EXCEPT ![w].result = outcome]
        /\ applied' = IF outcome = "ack" /\ e \notin ToSet(applied) THEN Append(applied, e) ELSE applied
        /\ UNCHANGED <<stream, subscription, ledger, history, bounds>>

Settle(w) ==
    /\ worker[w].batch # <<>> /\ worker[w].result # "none"
    /\ Settlement(w, worker[w].result)
    /\ NextItem(w)
    /\ UNCHANGED <<stream, subscription, inbox, applied, history, bounds>>

\* Variant: the runner calls the consumer without asking the inbox.
ExecuteUnchecked(w, outcome) ==
    LET e == Current(w).delivery[1]
    IN  /\ Transactional /\ worker[w].batch # <<>> /\ worker[w].result = "none"
        /\ \/ /\ outcome = "ack" /\ Settlement(w, "ack") /\ NextItem(w)
              /\ IF LeaseMatches(w)
                 THEN inbox' = inbox \cup {e} /\ applied' = Append(applied, e)
                 ELSE UNCHANGED <<inbox, applied>>
           \/ /\ outcome # "ack"
              /\ worker' = [worker EXCEPT ![w].result = outcome]
              /\ UNCHANGED <<ledger, applied>>
        /\ UNCHANGED <<stream, subscription, history, bounds>>

\* InboxTransactionalEffectRunner.execute: effect, inbox and acknowledgement
\* are one transaction, which a stale lease rolls back.  An event in the inbox
\* is acknowledged without a call; another outcome is settled afterwards.
Execute(w, outcome) ==
    LET e == Current(w).delivery[1]
    IN  /\ Transactional /\ worker[w].batch # <<>> /\ worker[w].result = "none"
        /\ \/ /\ e \in inbox \/ outcome = "ack"
              /\ Settlement(w, "ack") /\ NextItem(w)
              /\ IF e \notin inbox /\ LeaseMatches(w)
                 THEN inbox' = inbox \cup {e} /\ applied' = Append(applied, e)
                 ELSE UNCHANGED <<inbox, applied>>
           \/ /\ e \notin inbox /\ outcome # "ack"
              /\ worker' = [worker EXCEPT ![w].result = outcome]
              /\ UNCHANGED <<ledger, applied>>
        /\ UNCHANGED <<stream, subscription, history, bounds>>

\* _failed_attempt: the claim, the capability, the clock or the store failed;
\* the item is left to its lease.
Skip(w) ==
    /\ worker[w].batch # <<>> /\ faults < MaxFaults
    /\ NextItem(w) /\ faults' = faults + 1
    /\ UNCHANGED <<stream, subscription, ledger, applied, history, repairs, pauses>>

Crash(w) ==
    /\ worker[w].batch # <<>> /\ faults < MaxFaults
    /\ worker' = [worker EXCEPT ![w] = IdleWorker] /\ faults' = faults + 1
    /\ UNCHANGED <<stream, subscription, ledger, applied, history, repairs, pauses>>

-----------------------------------------------------------------------------
(* Time and the operator.                                                  *)

Timed == <<stream, subscription, checkpoint, deadLetter, inbox, worker, applied, history, bounds>>

Expire(d) ==
    /\ delivery[d].live
    /\ delivery' = [delivery EXCEPT ![d].live = FALSE]
    /\ UNCHANGED Timed

Wait(d) ==
    /\ delivery[d].state = "retry_wait" /\ ~delivery[d].due
    /\ delivery' = [delivery EXCEPT ![d].due = TRUE]
    /\ UNCHANGED Timed

\* requeue_dead_letter does not ask whether a newer delivery is open.
Requeue(d) ==
    /\ repairs < MaxRepairs
    /\ d \in deadLetter /\ status # "retired"
    /\ Cardinality(OpenIn(delivery)) < PendingLimit
    /\ delivery' = WithPending(delivery, {<<d[1], NextGeneration(d[1])>>})
    /\ deadLetter' = deadLetter \ {d}
    /\ repairs' = repairs + 1
    /\ UNCHANGED <<stream, subscription, checkpoint, inbox, worker, applied, history, pauses, faults>>

Resolve(d) ==
    /\ d \in deadLetter
    /\ deadLetter' = deadLetter \ {d}
    /\ UNCHANGED <<stream, subscription, delivery, checkpoint, inbox, worker, applied, history, bounds>>

\* begin_redelivery: everything that was delivered in the range, once more.
Redeliver(s, from, through) ==
    LET known == {d \in FirstIn(delivery, s) : SequenceOf(d[1]) \in from..through}
        open == {d \in OpenIn(delivery) : StreamOf[d[1]] = s /\ SequenceOf(d[1]) \in from..through}
    IN  /\ repairs < MaxRepairs /\ status \notin {"none", "retired"}
        /\ open = {} /\ known # {}
        /\ Cardinality(OpenIn(delivery)) + Cardinality(known) <= PendingLimit
        /\ delivery' = WithPending(delivery, {<<d[1], NextGeneration(d[1])>> : d \in known})
        /\ repairs' = repairs + 1
        /\ UNCHANGED <<stream, subscription, checkpoint, deadLetter, inbox, worker, applied,
                       history, pauses, faults>>

Dispatch(w) == Settle(w) \/ \E o \in Outcomes : Consume(w, o) \/ Execute(w, o)

Next ==
    \/ \E e \in Events : AppendEvent(e)
    \/ Register \/ Pause \/ Resume \/ Retire \/ Cancel
    \/ \E w \in Workers : \/ Claim(w, Streams) \/ \E s \in Streams : Claim(w, {s})
                          \/ Settle(w) \/ Skip(w) \/ Crash(w)
                          \/ \E o \in Outcomes : Consume(w, o) \/ Execute(w, o)
    \/ \E d \in DOMAIN delivery : Expire(d) \/ Wait(d)
    \/ \E d \in deadLetter : Requeue(d) \/ Resolve(d)
    \/ \E s \in Streams : \E from \in DOMAIN stream[s] :
           \E through \in from..Len(stream[s]) : Redeliver(s, from, through)

Spec == Init /\ [][Next]_vars

\* The host calls dispatch_batch again and again, consumers return, and leases
\* and retry delays run out.  Nothing is asked of publishers or operators.
Keys == Events \X (1..(1 + MaxRepairs))
FairSpec ==
    /\ Spec
    /\ \A w \in Workers : WF_vars(Claim(w, Streams)) /\ WF_vars(Dispatch(w))
    /\ \A d \in Keys : WF_vars(d \in DOMAIN delivery /\ (Expire(d) \/ Wait(d)))
=============================================================================
