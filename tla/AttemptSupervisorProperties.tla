-------------------- MODULE AttemptSupervisorProperties --------------------
(***************************************************************************)
(* What AttemptSupervisor.run promises (the requirements of                *)
(* openspec/specs/attempt-deadline-admission and                           *)
(* attempt-execution-integrity).                                           *)
(***************************************************************************)
EXTENDS AttemptSupervisor

HasStarted(c) == facts[c] # <<>> /\ facts[c][1] = "started"
StartsOf(o) == {c \in Calls : OpOf[c] = o /\ HasStarted(c)}
IsAlive(c) == worker[c] \in {"waiting", "open", "running"}

\* The capacity in use is the admissions under way plus the threads still
\* alive: a slot outlives a timed-out call until its callable exits, and is
\* given back exactly once on every path (acquire, invoke's finally, rollback).
CapacityIsLiveWork ==
    active = Cardinality({c \in Calls :
                 pc[c] \in {"slotted", "reserved", "bound"} \/ IsAlive(c)})

\* Counters and durable start facts agree: a rejection or a failed start
\* leaves neither a local attempt nor a retry credit consumed, every start
\* after an operation's first costs one credit, and the concurrent admissions
\* of one operation get the numbers 1, 2, ... without a gap or a duplicate.
AttemptsAreCounted ==
    /\ \A o \in Ops :
          used[o] = Cardinality(StartsOf(o)) + (IF lockedBy[o] = NoCall THEN 0 ELSE 1)
    /\ credits = Cardinality({c \in Calls : number[c] > 1})
    /\ \A o \in Ops : {number[c] : c \in StartsOf(o)} = 1..Cardinality(StartsOf(o))

\* A committed output is that of an attempt whose success is recorded, whose
\* nested calls are all back, none of them with an unknown effect or with a
\* callable still alive (_normal_output_allowed, complete after the terminal).
CommittedOutputIsDeterminate ==
    \A c \in Calls : output[c] = "committed" =>
        /\ facts[c] = <<"started", "succeeded">>
        /\ \A d \in Children(c) : ~IsAlive(d) /\ ~out[d].indeterminate

\* No callable begins below an attempt that is already over, however late its
\* abandoned parent thread asks for it (invoke's raise_if_cancelled).
NoWorkBelowAnEndedAttempt ==
    [][\A c \in Calls : worker[c] = "open" /\ worker'[c] = "running" =>
           \A p \in Parent(c) : ~Returned(p)]_vars

\* A started attempt whose deadline passes or which is cancelled ends, even
\* when its callable never returns (the supervising loop and its grace wait).
InterruptedAttemptEnds ==
    \A c \in Calls :
        (HasStarted(c) /\ (window[c] = "over" \/ IsCancelled(c))) ~> Returned(c)

=============================================================================
