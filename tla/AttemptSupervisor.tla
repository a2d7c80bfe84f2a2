------------------------- MODULE AttemptSupervisor -------------------------
(***************************************************************************)
(* AttemptSupervisor.run (framework/shared/attempts.py): admission and     *)
(* supervision of physical attempts.  A call of run is made by a thread of *)
(* its own, or, when it has a parent, by the callable of its parent        *)
(* attempt.  The calls share one root retry ledger and one capacity; the   *)
(* calls of one logical operation share its LocalRetryBudget, whose lock a *)
(* reservation keeps from _reserve_attempt to its commit or rollback.      *)
(*                                                                         *)
(* Time is the monotone window of each call, "open" or "over": before the  *)
(* start over means that less than the minimum start window is left, from  *)
(* then on that the effective deadline has passed.  A child's deadline     *)
(* never lies after its parent's.                                          *)
(***************************************************************************)
EXTENDS Integers, FiniteSets, Sequences

CONSTANTS
    Calls,         \* calls of run
    Ops,           \* logical operations
    OpOf,          \* the operation of each call
    ParentOf,      \* the call whose callable makes this call, or NoCall
    Inline,        \* calls without deadline, cancel event, limits or parent
    MaxActive,     \* AttemptExecutionCapacity.max_active
    MaxAttempts,   \* LocalRetryBudget.max_attempts
    MaxRetries,    \* RetryCreditLedger.max_total_retries
    NoCall

ASSUME CallsAssumption ==
    /\ IsFiniteSet(Calls) /\ NoCall \notin Calls
    /\ OpOf \in [Calls -> Ops]
    /\ ParentOf \in [Calls -> Calls \cup {NoCall}]
    /\ Inline \subseteq {c \in Calls : ParentOf[c] = NoCall}
ASSUME LimitsAssumption ==
    MaxActive \in Nat \ {0} /\ MaxAttempts \in Nat \ {0} /\ MaxRetries \in Nat

VARIABLES
    pc,         \* how far run has come
    worker,     \* the attempt thread (the caller's own for an inline call)
    value,      \* what the callable left: "none", "value" or "error"
    window,     \* time left before the effective deadline
    late,       \* finished_at > deadline
    cancelled,  \* context.cancel_event
    indet,      \* context.descendant_indeterminate_event
    unconf,     \* context.descendant_unconfirmed_event
    out,        \* the AttemptOutcome
    facts,      \* what the required lifecycle sink has recorded
    output,     \* caller-owned publication staged by finalize
    used,       \* LocalRetryBudget._used
    lockedBy,   \* the call whose reservation holds the budget's lock
    number,     \* local_attempt_no of the reservation, 0 when there is none
    credits,    \* RetryCreditLedger._used_retries
    active      \* AttemptExecutionCapacity._active

budgets == <<used, lockedBy, number, credits>>
flags == <<cancelled, indet, unconf>>
vars == <<pc, worker, value, window, late, cancelled, indet, unconf, out, facts,
          output, used, lockedBy, number, credits, active>>

Outcome(state, confirmed, indeterminate) ==
    [state |-> state, confirmed |-> confirmed, indeterminate |-> indeterminate]

NoOutcome == Outcome("none", TRUE, FALSE)

Returned(c) == pc[c] \in {"returned", "raised"}
Children(c) == {d \in Calls : ParentOf[d] = c}
Parent(c) == {p \in Calls : p = ParentOf[c]}

\* Variant: a context asks only its own event.
IsCancelledItself(c) == cancelled[c]

\* AttemptContext.cancelled: the own event or the parent's.
IsCancelled(c) == cancelled[c] \/ \E p \in Parent(c) : cancelled[p]

\* _cancelled_before_start: the parent is asked for its `cancelled`.
CancelledBeforeStart(c) == cancelled[c] \/ \E p \in Parent(c) : IsCancelled(p)

Init ==
    /\ pc = [c \in Calls |-> "idle"]
    /\ worker = [c \in Calls |-> "none"]
    /\ value = [c \in Calls |-> "none"]
    /\ window = [c \in Calls |-> "open"]
    /\ late = [c \in Calls |-> FALSE]
    /\ cancelled = [c \in Calls |-> FALSE]
    /\ indet = [c \in Calls |-> FALSE]
    /\ unconf = [c \in Calls |-> FALSE]
    /\ out = [c \in Calls |-> NoOutcome]
    /\ facts = [c \in Calls |-> <<>>]
    /\ output = [c \in Calls |-> "none"]
    /\ used = [o \in Ops |-> 0]
    /\ lockedBy = [o \in Ops |-> NoCall]
    /\ number = [c \in Calls |-> 0]
    /\ credits = 0
    /\ active = 0

-----------------------------------------------------------------------------
(* Admission.                                                              *)

\* Variant: a reservation does not keep the budget's lock.
LockIgnored(c) == pc[c] # "done"

LockFree(c) == lockedBy[OpOf[c]] = NoCall
SlotLeft(c) == used[OpOf[c]] < MaxAttempts
CreditLeft(c) == used[OpOf[c]] > 0 => credits < MaxRetries

\* _rejected: the required sink records the rejection, or its failure is raised.
Reject(c) ==
    \/ /\ facts' = [facts EXCEPT ![c] = Append(@, "rejected")]
       /\ out' = [out EXCEPT ![c] = Outcome("rejected", TRUE, FALSE)]
       /\ pc' = [pc EXCEPT ![c] = "returned"]
    \/ pc' = [pc EXCEPT ![c] = "raised"] /\ UNCHANGED <<facts, out>>

\* The checks before any resource is taken; the budget answers once its lock
\* is free.  What they read may be stale when the reservation is made.
Gate(c) ==
    /\ pc[c] = "idle" /\ LockFree(c)
    /\ \A p \in Parent(c) : worker[p] = "running"
    /\ \/ /\ ~CancelledBeforeStart(c) /\ window[c] = "open"
          /\ SlotLeft(c) /\ CreditLeft(c)
          /\ pc' = [pc EXCEPT ![c] = "gated"] /\ UNCHANGED <<facts, out>>
       \/ /\ \/ CancelledBeforeStart(c)
             \/ window[c] = "over"
             \/ ~SlotLeft(c)
             \/ ~CreditLeft(c)
          /\ Reject(c)
    /\ UNCHANGED <<worker, value, window, late, flags, output, budgets, active>>

\* AttemptExecutionCapacity.acquire never blocks.
AcquireCapacity(c) ==
    /\ pc[c] = "gated"
    /\ \/ /\ active < MaxActive
          /\ active' = active + 1
          /\ pc' = [pc EXCEPT ![c] = "slotted"] /\ UNCHANGED <<facts, out>>
       \/ active >= MaxActive /\ Reject(c) /\ UNCHANGED active
    /\ UNCHANGED <<worker, value, window, late, flags, output, budgets>>

\* _reserve_attempt: counters are read again under the lock, which stays held.
Reserve(c) ==
    LET o == OpOf[c] IN
    /\ pc[c] = "slotted" /\ LockFree(c)
    /\ \/ /\ SlotLeft(c) /\ CreditLeft(c)
          /\ credits' = credits + (IF used[o] > 0 THEN 1 ELSE 0)
          /\ used' = [used EXCEPT ![o] = @ + 1]
          /\ number' = [number EXCEPT ![c] = used[o] + 1]
          /\ lockedBy' = [lockedBy EXCEPT ![o] = c]
          /\ pc' = [pc EXCEPT ![c] = "reserved"]
          /\ UNCHANGED <<facts, out, active>>
       \/ /\ ~(SlotLeft(c) /\ CreditLeft(c))
          /\ active' = active - 1
          /\ Reject(c) /\ UNCHANGED budgets
    /\ UNCHANGED <<worker, value, window, late, flags, output>>

\* AttemptReservation.rollback, with the capacity released next to it.
RollBack(c) ==
    /\ used' = [used EXCEPT ![OpOf[c]] = @ - 1]
    /\ credits' = credits - (IF number[c] > 1 THEN 1 ELSE 0)
    /\ number' = [number EXCEPT ![c] = 0]
    /\ lockedBy' = [lockedBy EXCEPT ![OpOf[c]] = NoCall]
    /\ active' = active - 1

\* _raise_if_start_window_closed, then AttemptContext.create.
Recheck(c) ==
    /\ pc[c] = "reserved"
    /\ \/ /\ ~CancelledBeforeStart(c) /\ window[c] = "open"
          /\ pc' = [pc EXCEPT ![c] = "bound"]
          /\ UNCHANGED <<facts, out, budgets, active>>
       \/ /\ CancelledBeforeStart(c) \/ window[c] = "over"
          /\ RollBack(c) /\ Reject(c)
    /\ UNCHANGED <<worker, value, window, late, flags, output>>

-----------------------------------------------------------------------------
(* Start and physical work.                                                *)

\* Variant: a failing start keeps the capacity it holds.
StartLeaking(c) ==
    /\ pc[c] = "bound"
    /\ \/ /\ facts' = [facts EXCEPT ![c] = Append(@, "started")]
          /\ worker' = [worker EXCEPT ![c] = "waiting"]
          /\ lockedBy' = [lockedBy EXCEPT ![OpOf[c]] = NoCall]
          /\ pc' = [pc EXCEPT ![c] = "started"]
          /\ UNCHANGED <<used, number, credits, active>>
       \/ /\ used' = [used EXCEPT ![OpOf[c]] = @ - 1]
          /\ lockedBy' = [lockedBy EXCEPT ![OpOf[c]] = NoCall]
          /\ pc' = [pc EXCEPT ![c] = "raised"]
          /\ UNCHANGED <<facts, worker, number, credits, active>>
    /\ UNCHANGED <<value, window, late, flags, out, output>>

\* The gated thread exists, the started fact is recorded, the reservation is
\* committed; when the thread or the required sink fails everything is undone.
Start(c) ==
    /\ pc[c] = "bound"
    /\ \/ /\ facts' = [facts EXCEPT ![c] = Append(@, "started")]
          /\ worker' = [worker EXCEPT ![c] = "waiting"]
          /\ lockedBy' = [lockedBy EXCEPT ![OpOf[c]] = NoCall]
          /\ pc' = [pc EXCEPT ![c] = "started"]
          /\ UNCHANGED <<used, number, credits, active>>
       \/ /\ RollBack(c)
          /\ pc' = [pc EXCEPT ![c] = "raised"]
          /\ UNCHANGED <<facts, worker>>
    /\ UNCHANGED <<value, window, late, flags, out, output>>

\* prepare takes the caller's resource.  Its failure aborts the waiting thread
\* and ends the consumed attempt as FAILED; otherwise the gate opens.
Prepare(c) ==
    /\ pc[c] = "started"
    /\ \/ /\ worker' = [worker EXCEPT ![c] = "open"]
          /\ cancelled' = [cancelled EXCEPT ![c] = @ \/ window[c] = "over"]
          /\ pc' = [pc EXCEPT ![c] = "supervised"]
          /\ UNCHANGED <<out, active>>
       \/ /\ worker' = [worker EXCEPT ![c] = "exited"]
          /\ active' = active - 1
          /\ out' = [out EXCEPT ![c] = Outcome("failed", TRUE, FALSE)]
          /\ pc' = [pc EXCEPT ![c] = "unprepared"]
          /\ UNCHANGED cancelled
    /\ UNCHANGED <<value, window, late, indet, unconf, facts, output, budgets>>

\* The end of invoke: the slot is given back by the thread that held it.
Exit(c, result) ==
    /\ worker' = [worker EXCEPT ![c] = "exited"]
    /\ value' = [value EXCEPT ![c] = result]
    /\ late' = [late EXCEPT ![c] = window[c] = "over"]
    /\ active' = active - 1

\* invoke behind the gate: a cancelled context never calls fn.
Enter(c) ==
    /\ worker[c] = "open"
    /\ \/ /\ ~IsCancelled(c)
          /\ worker' = [worker EXCEPT ![c] = "running"]
          /\ UNCHANGED <<value, late, active>>
       \/ IsCancelled(c) /\ Exit(c, "error")
    /\ UNCHANGED <<pc, window, flags, out, facts, output, budgets>>

\* fn returns or raises, whenever it likes, once its nested calls are back.
Leave(c) ==
    /\ worker[c] = "running"
    /\ \A d \in Children(c) : pc[d] = "idle" \/ Returned(d)
    /\ \E result \in {"value", "error"} : Exit(c, result)
    /\ UNCHANGED <<pc, window, flags, out, facts, output, budgets>>

-----------------------------------------------------------------------------
(* The supervising loop.                                                   *)

\* Variant: the flags stay with the call itself.
MarkOnlyItself(c, indeterminate, unconfirmed) ==
    /\ indet' = [indet EXCEPT ![c] = @ \/ indeterminate \/ unconfirmed]
    /\ unconf' = [unconf EXCEPT ![c] = @ \/ unconfirmed]

\* context.mark_descendant_* and _propagate_descendant_state: a call raises its
\* flags and its parent inherits them.
Mark(c, indeterminate, unconfirmed) ==
    LET up(flag, raised) ==
            [d \in Calls |-> flag[d] \/ (raised /\ d \in {c} \cup Parent(c))]
    IN  /\ indet' = up(indet, indet[c] \/ indeterminate \/ unconfirmed)
        /\ unconf' = up(unconf, unconf[c] \/ unconfirmed)

\* _completed_outcome: an indeterminate descendant overrides the result.
CompletedOutcome(c) ==
    IF indet[c]
    THEN Outcome(IF unconf[c] THEN "timed_out" ELSE "indeterminate", ~unconf[c], TRUE)
    ELSE Outcome(IF value[c] = "value" THEN "succeeded" ELSE "failed", TRUE, FALSE)

\* The callable finished in time and nobody cancelled.
Complete(c) ==
    /\ pc[c] = "supervised" /\ worker[c] = "exited"
    /\ ~IsCancelled(c) /\ ~late[c]
    /\ out' = [out EXCEPT ![c] = CompletedOutcome(c)]
    /\ cancelled' = [cancelled EXCEPT ![c] = indet[c]]
    /\ Mark(c, FALSE, FALSE)
    /\ pc' = [pc EXCEPT ![c] = "concluded"]
    /\ UNCHANGED <<worker, value, window, late, facts, output, budgets, active>>

\* The deadline passed or the context is cancelled: ask the callable to stop.
Interrupt(c) ==
    /\ pc[c] = "supervised"
    /\ \/ /\ IF worker[c] = "exited" THEN late[c] ELSE window[c] = "over"
          /\ pc' = [pc EXCEPT ![c] = "expiring"]
       \/ /\ IsCancelled(c)
          /\ ~(IF worker[c] = "exited" THEN late[c] ELSE window[c] = "over")
          /\ pc' = [pc EXCEPT ![c] = "cancelling"]
    /\ cancelled' = [cancelled EXCEPT ![c] = TRUE]
    /\ UNCHANGED <<worker, value, window, late, indet, unconf, out, facts, output,
                   budgets, active>>

\* Variant: the loop joins the callable instead of bounding the wait.
GraceOverJoining(c) ==
    /\ pc[c] \in {"expiring", "cancelling"} /\ worker[c] = "exited"
    /\ Mark(c, FALSE, unconf[c])
    /\ out' = [out EXCEPT ![c] = Outcome("timed_out", TRUE, FALSE)]
    /\ pc' = [pc EXCEPT ![c] = "concluded"]
    /\ UNCHANGED <<worker, value, window, late, cancelled, facts, output, budgets, active>>

\* completed.wait(grace) ended: with the thread's exit, or with it still alive.
GraceOver(c) ==
    LET confirmed == worker[c] = "exited" /\ ~unconf[c] IN
    /\ pc[c] \in {"expiring", "cancelling"}
    /\ Mark(c, FALSE, ~confirmed)
    /\ out' = [out EXCEPT ![c] =
                 IF pc[c] = "expiring"
                 THEN Outcome("timed_out", confirmed, ~confirmed \/ indet[c])
                 ELSE IF confirmed THEN Outcome("timed_out", TRUE, FALSE)
                                   ELSE Outcome("indeterminate", FALSE, TRUE)]
    /\ pc' = [pc EXCEPT ![c] = "concluded"]
    /\ UNCHANGED <<worker, value, window, late, cancelled, facts, output, budgets, active>>

-----------------------------------------------------------------------------
(* _finalize_started_outcome.                                              *)


\* _normal_output_allowed of the node-output finalizer.
NormalOutputAllowed(c) ==
    /\ out[c].state = "succeeded" /\ out[c].confirmed /\ ~out[c].indeterminate
    /\ ~indet[c] /\ ~unconf[c]

Indeterminate(o) == Outcome("indeterminate", o.confirmed, TRUE)

\* What the attempt ends with: the finalizer keeps the outcome, declares its
\* effect unknown or raises; a cleanup that fails makes it INDETERMINATE.
\* Neither runs for an attempt whose preparation failed.
Finalized(c, finalizer, cleaned) ==
    IF pc[c] = "concluded" /\ (finalizer # "kept" \/ ~cleaned)
    THEN Indeterminate(out[c]) ELSE out[c]

\* Finalizer, propagation, cleanup, and rollback of the staged output of
\* whatever did not stay a success.
Finalize(c) ==
    /\ pc[c] \in {"concluded", "unprepared"}
    /\ \E finalizer \in {"kept", "unknown", "raised"}, cleaned \in BOOLEAN :
          LET final == Finalized(c, finalizer, cleaned)
              told == Finalized(c, finalizer, TRUE)
              failed == finalizer = "raised" \/ ~cleaned
          IN  /\ pc[c] = "unprepared" => finalizer = "kept" /\ cleaned
              /\ out' = [out EXCEPT ![c] = final]
              /\ output' = [output EXCEPT ![c] =
                    IF NormalOutputAllowed(c) /\ final = out[c] THEN "staged" ELSE "none"]
              /\ cancelled' = [cancelled EXCEPT ![c] = @ \/ failed]
              /\ Mark(c, told.indeterminate \/ failed,
                      told.state = "timed_out" /\ ~told.confirmed)
    /\ pc' = [pc EXCEPT ![c] = "finalized"]
    /\ UNCHANGED <<worker, value, window, late, facts, budgets, active>>

\* A failed compensation or completion leaves the caller's resource unknown.
Unknown(c) ==
    /\ cancelled' = [cancelled EXCEPT ![c] = TRUE]
    /\ indet' = [d \in Calls |-> indet[d] \/ d \in Parent(c)]
    /\ UNCHANGED unconf

\* The terminal fact, and only then the caller's completion (its commit); a
\* terminal fact that cannot be recorded rolls the staged output back.
EmitTerminal(c) ==
    /\ pc[c] = "finalized"
    /\ \/ /\ facts' = [facts EXCEPT ![c] = Append(@, out[c].state)]
          /\ \/ /\ output' = [output EXCEPT ![c] = IF @ = "staged" THEN "committed" ELSE @]
                /\ pc' = [pc EXCEPT ![c] = "returned"]
                /\ UNCHANGED flags
             \/ /\ output[c] = "staged"
                /\ output' = [output EXCEPT ![c] = "none"]
                /\ pc' = [pc EXCEPT ![c] = "raised"]
                /\ Unknown(c)
       \/ /\ output' = [output EXCEPT ![c] = "none"]
          /\ pc' = [pc EXCEPT ![c] = "raised"]
          /\ UNCHANGED facts
          /\ UNCHANGED flags \/ (output[c] = "staged" /\ Unknown(c))
    /\ UNCHANGED <<worker, value, window, late, out, budgets, active>>

-----------------------------------------------------------------------------
(* The environment: time and the callers' cancel events.                   *)

\* The deadline of a nested call is over when its parent's is.
Below(c) == {c} \cup Children(c) \cup UNION {Children(d) : d \in Children(c)}

Tick(c) ==
    /\ c \notin Inline /\ ~Returned(c) /\ window[c] = "open"
    /\ window' = [d \in Calls |-> IF d \in Below(c) THEN "over" ELSE window[d]]
    /\ UNCHANGED <<pc, worker, value, late, flags, out, facts, output, budgets, active>>

Cancel(c) ==
    /\ ParentOf[c] = NoCall /\ c \notin Inline
    /\ ~cancelled[c] /\ ~Returned(c)
    /\ cancelled' = [cancelled EXCEPT ![c] = TRUE]
    /\ UNCHANGED <<pc, worker, value, window, late, indet, unconf, out, facts, output,
                   budgets, active>>

Step(c) ==
    \/ Gate(c) \/ AcquireCapacity(c) \/ Reserve(c) \/ Recheck(c)
    \/ Start(c) \/ Prepare(c) \/ Complete(c) \/ Interrupt(c) \/ GraceOver(c)
    \/ Finalize(c) \/ EmitTerminal(c)

Done ==
    /\ \A c \in Calls : pc[c] = "idle" \/ Returned(c)
    /\ UNCHANGED vars

Next ==
    \/ \E c \in Calls : Step(c) \/ Enter(c) \/ Leave(c) \/ Tick(c) \/ Cancel(c)
    \/ Done

Spec == Init /\ [][Next]_vars

\* The supervising thread of a call and its attempt thread up to fn are
\* scheduled; fn itself, the clock and the callers owe nothing.
Fairness == \A c \in Calls : WF_vars(Step(c)) /\ WF_vars(Enter(c))
FairSpec == Spec /\ Fairness
=============================================================================
