----------------------- MODULE EventDeliveryProperties -----------------------
(***************************************************************************)
(* What the delivery ledger promises publishers, consumers and operators.  *)
(***************************************************************************)
EXTENDS EventDelivery

\* Where the subscription to stream s starts and ends, by what it was told and
\* when: LATEST is behind what was stored at registration.
FirstWanted(s) == IF Start = Latest THEN registered[s] + 1 ELSE Start
LastWanted(s) == IF status = "retired" THEN retired[s] ELSE Len(stream[s])

\* The deliveries that append_event and register_subscription create are those
\* of the matching events between start and retirement, each one once: none is
\* lost or added between the backfill and the appends around it.
ExactlySubscribed ==
    \A s \in Streams :
        {SequenceOf(d[1]) : d \in FirstIn(delivery, s)}
          = IF status = "none" THEN {}
            ELSE {n \in FirstWanted(s)..LastWanted(s) : stream[s][n] \in Matching}

\* The effects of a stream are applied in its order.  Only an event whose
\* first delivery failed may take effect after a later one: retries, expired
\* leases, late workers and redeliveries keep to this.
EffectsInOrder ==
    \A i, j \in DOMAIN applied :
        /\ i < j /\ StreamOf[applied[i]] = StreamOf[applied[j]]
        /\ SequenceOf(applied[i]) > SequenceOf(applied[j])
        => delivery[<<applied[j], 1>>].state \in {"dropped", "dead_letter"}

\* An event whose delivery is acknowledged took effect and, with the inbox
\* transaction, no event does so twice, whatever is retried, redelivered,
\* requeued twice or finished by a late worker.
EffectExactlyOnce ==
    /\ \A d \in DOMAIN delivery : delivery[d].state = "acked" => d[1] \in ToSet(applied)
    /\ Transactional => IsInjective(applied)

\* The checkpoint of a stream is the last event up to which every first
\* delivery is settled (_advance_checkpoint at every settlement, recovery and
\* cancellation): a reader that trusts it skips no open event.
CheckpointIsFrontier ==
    \A s \in Streams :
        LET settledUpTo == {n \in 1..Len(stream[s]) :
                /\ <<stream[s][n], 1>> \in DOMAIN delivery
                /\ \A d \in FirstIn(delivery, s) :
                      SequenceOf(d[1]) <= n => delivery[d].state \in Settled}
        IN  /\ checkpoint[s] \in settledUpTo \cup {0}
            /\ \A n \in settledUpTo : n <= checkpoint[s]

\* What was acked, dropped or dead-lettered stays so: no late settlement, no
\* recovery and no repair reopens a delivery.
TerminalIsFinal ==
    [][\A d \in DOMAIN delivery :
          delivery[d].state \in Settled => delivery'[d].state = delivery[d].state]_vars

\* The limits of the subscription hold together, whatever fills its backlog:
\* failures, crashes and expired leases share one budget of attempts, claims
\* that can still be settled keep to max_in_flight and max_concurrency, the
\* open deliveries to the hard limit, and those of a retired subscription to
\* its retirement watermark.
LimitsHold ==
    LET held == {d \in DOMAIN delivery : delivery[d].live}
    IN  /\ \A d \in DOMAIN delivery : delivery[d].attempts <= MaxAttempts
        /\ Cardinality(held) <= MaxInFlight
        /\ Cardinality({delivery[d].owner : d \in held}) <= MaxConcurrency
        /\ Cardinality(OpenIn(delivery)) <= PendingLimit
        /\ status = "retired" => \A d \in OpenIn(delivery) : BeforeRetirement(d)

\* Every delivery that is open is settled in the end unless the subscription
\* stays paused, with workers that crash, stall and lose their leases.
EventsSettle ==
    \A e \in Events :
        (\E d \in OpenIn(delivery) : d[1] = e)
          ~> \/ status = "paused"
             \/ \A d \in OpenIn(delivery) : d[1] # e
=============================================================================
