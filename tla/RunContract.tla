----------------------------- MODULE RunContract -----------------------------
(***************************************************************************)
(* What a graph run owes its caller, without journal, controller, phases,  *)
(* gates and budgets: nodes begin in the order of the graph, the attempts  *)
(* of a node follow one another, a Worker is called once per attempt and   *)
(* its answer taken once, a node ends on the answer to its last attempt,   *)
(* and a run ends once; after that nothing happens.                        *)
(***************************************************************************)
EXTENDS Integers

CONSTANTS Nodes, Preds, Reports

VARIABLES
    end,     \* "open", or how the run has ended
    status,  \* of each node: absent, open, or how it has ended
    made,    \* the Worker calls that were made: <<node, attempt>>
    answer   \* the last answer to a call of each node: [attempt, report]

vars == <<end, status, made, answer>>

Terminals == Nodes \ UNION {Preds[n] : n \in Nodes}

IsOpen(n) == end = "open" /\ status[n] = "open"

NextAttempt(n) == <<n, answer[n].attempt + 1>>

\* No call of n waits for its answer.
Answered(n) == \A act \in made : act[1] = n => act[2] <= answer[n].attempt

Init ==
    /\ end = "open"
    /\ status = [n \in Nodes |-> "absent"]
    /\ made = {}
    /\ answer = [n \in Nodes |-> [attempt |-> 0, report |-> "none"]]

Begin(n) ==
    /\ end = "open" /\ status[n] = "absent"
    /\ \A p \in Preds[n] : status[p] = "succeeded"
    /\ status' = [status EXCEPT ![n] = "open"]
    /\ UNCHANGED <<end, made, answer>>

Call(n) ==
    /\ IsOpen(n) /\ Answered(n)
    /\ made' = made \cup {NextAttempt(n)}
    /\ UNCHANGED <<end, status, answer>>

Answer(n, report) ==
    /\ IsOpen(n) /\ NextAttempt(n) \in made
    /\ report # "indeterminate"
    /\ answer' = [answer EXCEPT ![n] = [attempt |-> @.attempt + 1, report |-> report]]
    /\ UNCHANGED <<end, status, made>>

\* What a call did is not known: it is not made again, and the run halts.
Lose(n) ==
    /\ IsOpen(n) /\ NextAttempt(n) \in made
    /\ answer' = [answer EXCEPT ![n] = [attempt |-> @.attempt + 1,
                                        report |-> "indeterminate"]]
    /\ status' = [status EXCEPT ![n] = "halted"]
    /\ end' = "uncertain"
    /\ UNCHANGED made

Succeed(n) ==
    /\ IsOpen(n) /\ Answered(n)
    /\ answer[n].report = "succeeded"
    /\ status' = [status EXCEPT ![n] = "succeeded"]
    /\ UNCHANGED <<end, made, answer>>

Fail(n) ==
    /\ IsOpen(n) /\ Answered(n)
    /\ answer[n].report \notin {"none", "succeeded"}
    /\ status' = [status EXCEPT ![n] = "failed"]
    /\ UNCHANGED <<end, made, answer>>

\* A halt stops the run, and at most the node it is about.
Halt(stopped) ==
    /\ end = "open" /\ \A n \in stopped : status[n] = "open"
    /\ status' = [n \in Nodes |-> IF n \in stopped THEN "halted" ELSE status[n]]
    /\ end' = "halted"
    /\ UNCHANGED <<made, answer>>

Complete ==
    /\ end = "open"
    /\ \A n \in Nodes : status[n] # "open" /\ Answered(n)
    /\ end' = IF \A n \in Terminals : status[n] = "succeeded" THEN "succeeded" ELSE "failed"
    /\ UNCHANGED <<status, made, answer>>

Next ==
    \/ \E n \in Nodes : Begin(n) \/ Call(n) \/ Lose(n) \/ Succeed(n) \/ Fail(n)
    \/ \E n \in Nodes, report \in Reports : Answer(n, report)
    \/ \E stopped \in {{}} \cup {{n} : n \in Nodes} : Halt(stopped)
    \/ Complete

Spec == Init /\ [][Next]_vars
=============================================================================
