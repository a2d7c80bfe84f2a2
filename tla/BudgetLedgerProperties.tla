----------------------- MODULE BudgetLedgerProperties -----------------------
(***************************************************************************)
(* What the budget ledger promises to the run that spends through it.      *)
(***************************************************************************)
EXTENDS BudgetLedger

Statuses == {"none", "denied", "reserved", "indeterminate", "settled", "released"}
Points == {"idle", "sizing", "sized", "held", "dispatched", "closed", "reported", "failed"}

RecordType == [status : Statuses, requested : Spend, actual : Spend, rev : Nat]
FactType   == [op : Operations, kind : Statuses, amounts : Spend, rev : Nat]
CheckType  == [within : BOOLEAN, rev : Nat]
TotalType  == Nat \cup {Unbounded}
CallType   == [pc : Points, want : Spend, total : TotalType, physical : BOOLEAN,
               dispatched : BOOLEAN, within : BOOLEAN, check : CheckType]

\* The shapes of the ledger's maps and of the threads' records; what a request
\* asks for and what a record holds is never negative, however far a scope has
\* been drawn down when it is sized.
TypeOK ==
    /\ committed \in [Scopes -> Amounts] /\ reserved \in [Scopes -> Amounts]
    /\ record \in [Operations -> RecordType]
    /\ revision \in Nat /\ faults \in 0..MaxFaults
    /\ stream \in Seq(FactType)
    /\ call \in [Threads -> CallType]

\* No scope ever holds more than its limits allow, committed and reserved
\* together, whoever below it reserves, settles or overruns.
WithinLimits == \A s \in Scopes : Within(s, Used(s))

-----------------------------------------------------------------------------
\* replay_budget_events: the ledger that the facts of the stream add up to.
ScopeOfOp(op) == ScopeOf[CHOOSE t \in Threads : OpOf[t] = op]

\* The record of an operation after one more fact about it.
Updated(r, fact) ==
    [status |-> fact.kind, rev |-> fact.rev,
     requested |-> IF r.status = "none" THEN fact.amounts ELSE r.requested,
     actual |-> IF fact.kind = "settled" THEN fact.amounts ELSE r.actual]

Replay(state, fact) ==
    LET s == ScopeOfOp(fact.op)
        r == state.record[fact.op]
        freed == IF fact.kind \in {"settled", "released"} THEN r.requested ELSE Zero
        taken == IF fact.kind = "reserved" THEN fact.amounts ELSE Zero
        spent == IF fact.kind = "settled" THEN fact.amounts ELSE Zero
    IN  [record |-> [state.record EXCEPT ![fact.op] = Updated(r, fact)],
         reserved |-> Add(Subtract(state.reserved, s, freed), s, taken),
         committed |-> Add(state.committed, s, spent)]

EmptyLedger == [record |-> [o \in Operations |-> NoRecord],
                reserved |-> [s \in Scopes |-> Zero],
                committed |-> [s \in Scopes |-> Zero]]

\* The ledgers after 0, 1, 2, ... facts.
LedgersOf(facts) ==
    LET state[n \in 0..Len(facts)] ==
            IF n = 0 THEN EmptyLedger ELSE Replay(state[n - 1], facts[n])
    IN  state

Replayed == LedgersOf(stream)[Len(stream)]

\* A ledger rebuilt from the durable facts is the live one, whichever appends
\* failed: no fact is missing and none tells of a change that was not made.
\* (Until a fact is stored whose append raises: that one the ledger repeats.)
RecoveryReproducesLedger ==
    \/ Len(stream) > revision
    \/ /\ Contiguous /\ Len(stream) = revision
       /\ Replayed = [record |-> record, reserved |-> reserved, committed |-> committed]

\* A provider call is paid for: its usage was charged, or what it may have
\* cost is still held, provided nobody else used its operation id.
DispatchIsAccounted ==
    \A t \in Threads :
        call[t].dispatched /\ (\A u \in Threads \ {t} : OpOf[u] # OpOf[t])
            => record[OpOf[t]].status \in Open \cup {"settled"}

\* A check that the Harness verifies points at the fact that closed this very
\* operation, unless a later settlement has reconciled it; a check that took
\* its revision from somebody else's fact is refused.
VerifiedCheckIsTheOutcome ==
    \A t \in Threads :
        call[t].pc = "reported" /\ Verified(OpOf[t], call[t].check) =>
            LET fact == stream[call[t].check.rev]
                status == record[OpOf[t]].status
            IN  /\ fact.op = OpOf[t]
                /\ \/ fact.kind = status
                   \/ fact.kind = "indeterminate" /\ status = "settled"

\* An operation is decided once: only an unknown outcome is ever revised, and
\* only to a settlement; what was settled, released or denied stays.
OperationsAreDecidedOnce ==
    [][\A o \in Operations :
        LET was == record[o]
            is  == record'[o]
        IN  /\ was.status \in {"settled", "released", "denied"} => is = was
            /\ was.status \in Open =>
                 is.requested = was.requested /\ is.status \notin {"none", "denied"}
            /\ was.status = "indeterminate" => is.status \in {"indeterminate", "settled"}]_vars

=============================================================================
