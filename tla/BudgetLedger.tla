---------------------------- MODULE BudgetLedger ----------------------------
(***************************************************************************)
(* The cumulative LLM budget of a run: the process-local BudgetLedger over *)
(* its tree of scopes, the durable stream of budget facts it appends to,   *)
(* the router threads that reserve, dispatch and settle through a tracker, *)
(* and the check each of them hands to the Harness.                        *)
(*                                                                         *)
(* Every ledger method holds one RLock and is one atomic action; what a    *)
(* thread reads between two methods may be out of date.  Of the amounts,   *)
(* calls stands for llm_calls, input for input, cached input and cost,     *)
(* output for output and reasoning tokens; total is derived from them.     *)
(***************************************************************************)
EXTENDS Integers, Sequences, FiniteSets

CONSTANTS
    Scopes, Ancestors,  \* a scope's ancestors include the scope itself
    Limit,              \* per scope and measure, a number or Unbounded
    Threads,            \* threads that make one attempt each
    OpOf, ScopeOf,      \* the operation and the scope of a thread
    Estimates, Usages,  \* what a prepared request asks for, what a call used
    MaxFaults,          \* bound on appends that fail
    LosesReplies        \* an append may reach the stream and still fail

Fields   == {"calls", "input", "output"}
Measures == Fields \cup {"total"}
Amounts  == [Fields -> Int]
Spend    == [Fields -> Nat]
Unbounded == -1
Operations == {OpOf[t] : t \in Threads}

ASSUME BudgetAssumption ==
    /\ Ancestors \in [Scopes -> SUBSET Scopes]
    /\ \A s \in Scopes : s \in Ancestors[s]
    /\ Limit \in [Scopes -> [Measures -> Nat \cup {Unbounded}]]
    /\ ScopeOf \in [Threads -> Scopes]
    /\ \A t, u \in Threads : OpOf[t] = OpOf[u] => ScopeOf[t] = ScopeOf[u]
    /\ Estimates \subseteq Spend /\ Usages \subseteq Spend
    /\ MaxFaults \in Nat /\ LosesReplies \in BOOLEAN

VARIABLES
    committed, reserved,  \* per scope, the amounts of its subtree
    record,               \* per operation, its reservation and settlement
    revision,             \* ledger_revision
    stream,               \* durable facts
    call,                 \* the threads
    faults

ledger == <<committed, reserved, record, revision>>
vars == <<ledger, stream, call, faults>>

-----------------------------------------------------------------------------
Zero       == [f \in Fields |-> 0]
Amount(c, i, o) == [f \in Fields |-> CASE f = "calls" -> c [] f = "input" -> i [] OTHER -> o]
Plus(a, b)  == [f \in Fields |-> a[f] + b[f]]
Minus(a, b) == [f \in Fields |-> a[f] - b[f]]
Measure(a, m) == IF m = "total" THEN a["input"] + a["output"] ELSE a[m]

Least(a, b) == IF a < b THEN a ELSE b
Floor(a)    == IF a < 0 THEN 0 ELSE a

NoRecord == [status |-> "none", requested |-> Zero, actual |-> Zero, rev |-> 0]
Open     == {"reserved", "indeterminate"}

\* within and check: what the ledger answered, and the GlobalBudgetCheck.
NoCheck  == [within |-> TRUE, rev |-> 0]
IdleCall == [pc |-> "idle", want |-> Zero, total |-> Unbounded,
             physical |-> TRUE, dispatched |-> FALSE, within |-> TRUE,
             check |-> NoCheck]

Within(s, a) ==
    \A m \in Measures : Limit[s][m] # Unbounded => Measure(a, m) <= Limit[s][m]

Used(s) == Plus(committed[s], reserved[s])

\* Variant: only the scope of the request is asked.
FitsOwnScope(s, request) == Within(s, Plus(Used(s), request))

\* _projected_for_request: no ancestor is violated.
Admissible(s, request) ==
    \A a \in Ancestors[s] : Within(a, Plus(Used(a), request))

\* What is left of a measure: the tightest ancestor, Unbounded if none is bounded.
Available(s, m) ==
    LET left == {Floor(Limit[a][m] - Measure(Used(a), m)) :
                    a \in {b \in Ancestors[s] : Limit[b][m] # Unbounded}}
    IN  IF left = {} THEN Unbounded ELSE CHOOSE x \in left : \A y \in left : x <= y

Add(totals, s, a) ==
    [x \in Scopes |-> IF x \in Ancestors[s] THEN Plus(totals[x], a) ELSE totals[x]]
Subtract(totals, s, a) ==
    [x \in Scopes |-> IF x \in Ancestors[s] THEN Minus(totals[x], a) ELSE totals[x]]

Bounded(s, m) == \E a \in Ancestors[s] : Limit[a][m] # Unbounded

\* _settlement_fits_reservation.
Fits(s, requested, actual) ==
    /\ actual["calls"] <= requested["calls"]
    /\ \A m \in Measures : Bounded(s, m) => Measure(actual, m) <= Measure(requested, m)
    /\ \A a \in Ancestors[s] : Within(a, Plus(Minus(Used(a), requested), actual))

Fact(op, kind, amounts, rev) ==
    [op |-> op, kind |-> kind, amounts |-> amounts, rev |-> rev]

-----------------------------------------------------------------------------
(* The durable fact is appended before the ledger changes.  A failed append *)
(* raises: the thread's call ends and the ledger stays as it was.           *)

Init ==
    /\ committed = [s \in Scopes |-> Zero]
    /\ reserved = [s \in Scopes |-> Zero]
    /\ record = [o \in Operations |-> NoRecord]
    /\ revision = 0 /\ stream = <<>>
    /\ call = [t \in Threads |-> IdleCall]
    /\ faults = 0

Move(t, pc) == call' = [call EXCEPT ![t].pc = pc]

\* The ledger call returned and the thread still has to build its check.
Close(t, within) ==
    call' = [call EXCEPT ![t].pc = "closed", ![t].within = within]

Raise(t) == Move(t, "failed") /\ UNCHANGED <<ledger, stream, faults>>

Published(fact) ==
    /\ stream' = Append(stream, fact)
    /\ revision' = revision + 1
    /\ faults' = faults

\* Variant: the ledger goes on although the append failed.
AppendLoosely(t, fact) ==
    /\ faults < MaxFaults /\ faults' = faults + 1
    /\ Move(t, "failed")
    /\ record' = [record EXCEPT ![fact.op].status = fact.kind]
    /\ UNCHANGED <<committed, reserved, revision, stream>>

\* A required append that fails; its fact may have been stored all the same.
AppendFails(t, fact) ==
    /\ faults < MaxFaults /\ faults' = faults + 1
    /\ Move(t, "failed")
    /\ \/ UNCHANGED stream
       \/ LosesReplies /\ stream' = Append(stream, fact)
    /\ UNCHANGED ledger

-----------------------------------------------------------------------------
(* A router attempt.  It reads what is left, sizes its request and reserves *)
(* it: three calls of the ledger.                                           *)

ReadTotal(t) ==
    /\ call[t].pc = "idle"
    /\ call' = [call EXCEPT ![t].pc = "sizing",
                            ![t].total = Available(ScopeOf[t], "total")]
    /\ UNCHANGED <<ledger, stream, faults>>

SizedOutput(t, need) ==
    LET left == Available(ScopeOf[t], "output")
    IN  IF left = Unbounded THEN need["output"] ELSE Least(need["output"], left)

SizedInput(t, need) ==
    IF call[t].total = Unbounded THEN need["input"]
    ELSE Least(need["input"], Floor(call[t].total - SizedOutput(t, need)))

Size(t) ==
    /\ call[t].pc = "sizing"
    /\ \E need \in Estimates :
         call' = [call EXCEPT ![t].pc = "sized",
                    ![t].want = Amount(1, SizedInput(t, need), SizedOutput(t, need))]
    /\ UNCHANGED <<ledger, stream, faults>>

\* A cache lookup is one logical call that asks for no tokens.
SizeLookup(t) ==
    /\ call[t].pc = "idle"
    /\ call' = [call EXCEPT ![t].pc = "sized", ![t].physical = FALSE,
                            ![t].want = Amount(1, 0, 0)]
    /\ UNCHANGED <<ledger, stream, faults>>

\* reserve of an operation the ledger knows: its reservation, whatever has
\* become of it, its denial, or a conflict when the request differs.
ReserveAgain(t) ==
    LET r == record[OpOf[t]]
    IN  /\ call[t].pc = "sized" /\ r.status # "none"
        /\ CASE r.requested # call[t].want -> Move(t, "failed")
             [] r.status = "denied" ->
                  call' = [call EXCEPT ![t].pc = "reported",
                              ![t].check = [within |-> FALSE, rev |-> r.rev]]
             [] OTHER -> Move(t, "held")
        /\ UNCHANGED <<ledger, stream, faults>>

Deny(t) ==
    LET op == OpOf[t]
        want == call[t].want
        fact == Fact(op, "denied", want, revision + 1)
    IN  /\ call[t].pc = "sized" /\ record[op].status = "none"
        /\ ~Admissible(ScopeOf[t], want)
        /\ \/ /\ Published(fact)
              /\ record' = [record EXCEPT ![op] =
                    [NoRecord EXCEPT !.status = "denied", !.requested = want, !.rev = fact.rev]]
              /\ call' = [call EXCEPT ![t].pc = "reported",
                              ![t].check = [within |-> FALSE, rev |-> fact.rev]]
              /\ UNCHANGED <<committed, reserved>>
           \/ AppendFails(t, fact)

Reserve(t) ==
    LET op == OpOf[t]
        want == call[t].want
        fact == Fact(op, "reserved", want, revision + 1)
    IN  /\ call[t].pc = "sized" /\ record[op].status = "none"
        /\ Admissible(ScopeOf[t], want)
        /\ \/ /\ Published(fact)
              /\ record' = [record EXCEPT ![op] =
                    [NoRecord EXCEPT !.status = "reserved", !.requested = want, !.rev = fact.rev]]
              /\ reserved' = Add(reserved, ScopeOf[t], want)
              /\ Move(t, "held")
              /\ UNCHANGED committed
           \/ AppendFails(t, fact)

Dispatch(t) ==
    /\ call[t].pc = "held" /\ call[t].physical
    /\ call' = [call EXCEPT ![t].pc = "dispatched", ![t].dispatched = TRUE]
    /\ UNCHANGED <<ledger, stream, faults>>

-----------------------------------------------------------------------------
(* Closing a reservation.                                                   *)

\* Variant: an unknown outcome frees what was reserved.
BecomeReleased(t) ==
    LET op == OpOf[t]
        fact == Fact(op, "released", record[op].requested, revision + 1)
    IN  \/ /\ Published(fact)
           /\ record' = [record EXCEPT ![op].status = "released", ![op].rev = fact.rev]
           /\ reserved' = Subtract(reserved, ScopeOf[t], record[op].requested)
           /\ Close(t, TRUE)
           /\ UNCHANGED committed
        \/ AppendFails(t, fact)

\* The write of mark_indeterminate: the reservation stays held.
BecomeIndeterminate(t) ==
    LET op == OpOf[t]
        fact == Fact(op, "indeterminate", record[op].requested, revision + 1)
    IN  \/ /\ Published(fact)
           /\ record' = [record EXCEPT ![op].status = "indeterminate", ![op].rev = fact.rev]
           /\ Close(t, FALSE)
           /\ UNCHANGED <<committed, reserved>>
        \/ AppendFails(t, fact)

\* The write of settle.
BecomeSettled(t, actual) ==
    LET op == OpOf[t]
        fact == Fact(op, "settled", actual, revision + 1)
    IN  \/ /\ Published(fact)
           /\ record' = [record EXCEPT ![op].status = "settled",
                                       ![op].actual = actual, ![op].rev = fact.rev]
           /\ reserved' = Subtract(reserved, ScopeOf[t], record[op].requested)
           /\ committed' = Add(committed, ScopeOf[t], actual)
           /\ Close(t, TRUE)
        \/ AppendFails(t, fact)

\* settle: a repeated command returns the first answer and a different one
\* raises (the commands also carry an outcome and a reason, left out here); an
\* indeterminate reservation may be reconciled, an overrun makes it so.
SettleWith(t, actual) ==
    LET r == record[OpOf[t]]
        fits == Fits(ScopeOf[t], r.requested, actual)
    IN  \/ /\ r.status = "settled" /\ r.actual = actual
           /\ Close(t, TRUE) /\ UNCHANGED <<ledger, stream, faults>>
        \/ r.status \in Open /\ fits /\ BecomeSettled(t, actual)
        \/ r.status = "reserved" /\ ~fits /\ BecomeIndeterminate(t)
        \/ /\ r.status = "indeterminate" => ~fits
           /\ r.status # "reserved"
           /\ Raise(t)

\* The provider answered, or failed with a usage that is known.
Settle(t) ==
    /\ call[t].pc = "dispatched"
    /\ \E usage \in Usages : SettleWith(t, Amount(record[OpOf[t]].requested["calls"],
                                                  usage["input"], usage["output"]))

\* Variant: whatever has become of the reservation.
MarkAnyIndeterminate(t) == call[t].pc = "dispatched" /\ BecomeIndeterminate(t)

\* The provider failed and nobody knows what it did.
MarkIndeterminate(t) ==
    LET r == record[OpOf[t]]
    IN  /\ call[t].pc = "dispatched"
        /\ CASE r.status = "reserved" -> BecomeIndeterminate(t)
             [] r.status = "indeterminate" ->
                  \/ Close(t, FALSE) /\ UNCHANGED <<ledger, stream, faults>>
                  \/ Raise(t)
             [] OTHER -> Raise(t)

\* The cache had the answer: one call without tokens.
CacheHit(t) ==
    /\ call[t].pc = "held" /\ ~call[t].physical
    /\ SettleWith(t, Amount(record[OpOf[t]].requested["calls"], 0, 0))

\* The cache had not, or the lookup could not be prepared.
Release(t) ==
    LET op == OpOf[t]
        r == record[op]
        fact == Fact(op, "released", r.requested, revision + 1)
    IN  /\ call[t].pc = "held" /\ ~call[t].physical
        /\ CASE r.status = "reserved" ->
                  \/ /\ Published(fact)
                     /\ record' = [record EXCEPT ![op].status = "released",
                                                 ![op].rev = fact.rev]
                     /\ reserved' = Subtract(reserved, ScopeOf[t], r.requested)
                     /\ Close(t, TRUE)
                     /\ UNCHANGED committed
                  \/ AppendFails(t, fact)
             [] r.status = "released" ->
                  Close(t, TRUE) /\ UNCHANGED <<ledger, stream, faults>>
             [] OTHER -> Raise(t)

\* GlobalBudgetCheck: its revision is read after the ledger call returned.
Report(t) ==
    /\ call[t].pc = "closed"
    /\ call' = [call EXCEPT ![t].pc = "reported",
                    ![t].check = [within |-> call[t].within, rev |-> revision]]
    /\ UNCHANGED <<ledger, stream, faults>>

Ended(t) == call[t].pc \in {"reported", "failed"}
Done == (\A t \in Threads : Ended(t)) /\ UNCHANGED vars

Attempt(t) ==
    \/ ReadTotal(t) \/ Size(t) \/ SizeLookup(t)
    \/ ReserveAgain(t) \/ Deny(t) \/ Reserve(t)
    \/ Dispatch(t) \/ Settle(t) \/ MarkIndeterminate(t) \/ CacheHit(t) \/ Release(t)
    \/ Report(t)

Next == (\E t \in Threads : Attempt(t)) \/ Done

Spec == Init /\ [][Next]_vars

-----------------------------------------------------------------------------
(* What the Harness makes of a check.                                       *)

Contiguous == \A n \in DOMAIN stream : stream[n].rev = n

Terminal == {"settled", "released", "denied", "indeterminate"}

\* Variant: a fact is looked up by its revision alone.
FactsAt(op, check) == {n \in DOMAIN stream : stream[n].rev = check.rev}

\* The fact the check points at, as DurableBudgetFactResolver looks for it.
FactsOf(op, check) == {n \in DOMAIN stream : stream[n].op = op /\ stream[n].rev = check.rev}

\* resolve_harness_cumulative_budget_fact returns a verified fact.
Verified(op, check) ==
    /\ Contiguous
    /\ \E n \in FactsOf(op, check) :
         /\ stream[n].kind \in Terminal
         /\ check.within <=> stream[n].kind \in {"settled", "released"}
=============================================================================
