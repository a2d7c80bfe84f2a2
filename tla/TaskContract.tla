---------------------------- MODULE TaskContract ----------------------------
(***************************************************************************)
(* What a task queue owes its callers, without leases, workers, tokens or  *)
(* time: every message is open until it is settled once, a settled message *)
(* never changes again, a failure is followed by exactly one new message   *)
(* or one dead letter, and only an operator brings a dead letter back.     *)
(***************************************************************************)
EXTENDS Integers, Sequences

CONSTANTS Tasks, NoTask

VARIABLES
    items,      \* every message: its task and how it was settled, if it was
    dead,       \* per task: its dead letters
    moving,     \* the task whose dead letter the operator is moving back
    submitted

vars == <<items, dead, moving, submitted>>

Open(t) == [task |-> t, state |-> "open"]

IsOpen(m) == m \in DOMAIN items /\ items[m].state = "open"

Init == items = <<>> /\ dead = [t \in Tasks |-> 0] /\ moving = NoTask /\ submitted = {}

Submit(t) ==
    /\ t \notin submitted
    /\ submitted' = submitted \cup {t}
    /\ items' = Append(items, Open(t))
    /\ UNCHANGED <<dead, moving>>

Finish(m) ==
    /\ IsOpen(m)
    /\ items' = [items EXCEPT ![m].state = "succeeded"]
    /\ UNCHANGED <<dead, moving, submitted>>

Retry(m) ==
    /\ IsOpen(m)
    /\ items' = Append([items EXCEPT ![m].state = "retrying"], Open(items[m].task))
    /\ UNCHANGED <<dead, moving, submitted>>

Bury(m) ==
    /\ IsOpen(m)
    /\ items' = [items EXCEPT ![m].state = "dead_letter"]
    /\ dead' = [dead EXCEPT ![items[m].task] = @ + 1]
    /\ UNCHANGED <<moving, submitted>>

\* Moving a dead letter back takes two calls and may stop between them.
Requeue(t) ==
    /\ moving = NoTask /\ dead[t] > 0
    /\ items' = Append(items, Open(t))
    /\ moving' = t
    /\ UNCHANGED <<dead, submitted>>

Remove ==
    /\ moving # NoTask
    /\ dead' = [dead EXCEPT ![moving] = @ - 1]
    /\ moving' = NoTask
    /\ UNCHANGED <<items, submitted>>

Leave ==
    /\ moving # NoTask
    /\ moving' = NoTask
    /\ UNCHANGED <<items, dead, submitted>>

Next ==
    \/ \E t \in Tasks : Submit(t) \/ Requeue(t)
    \/ \E m \in DOMAIN items : Finish(m) \/ Retry(m) \/ Bury(m)
    \/ Remove \/ Leave

Spec == Init /\ [][Next]_vars
=============================================================================
