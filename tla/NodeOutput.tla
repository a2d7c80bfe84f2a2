----------------------------- MODULE NodeOutput -----------------------------
(***************************************************************************)
(* The output of one node of a graph run: the activities the run tries for *)
(* it, one after the other, the fenced output slot of the SQLite resource  *)
(* (infrastructure/storage/harness/sqlite_node_output.py) and the          *)
(* controllers that execute them.  A run may have several controllers at   *)
(* once: its task is delivered again while a slow worker still drives it,  *)
(* and the dispatch marker is a record, not a lock.                        *)
(*                                                                         *)
(* Every method of the resource is one IMMEDIATE transaction, hence one    *)
(* action.  A lease is represented by its generation, a result and the     *)
(* Worker evidence it rests on by their status and the lease whose         *)
(* candidate they carry (0 when the attempt had none).                     *)
(***************************************************************************)
EXTENDS Naturals, Sequences, FiniteSets

CONSTANTS
    Controllers,     \* controller processes
    MaxActivities,   \* bound on the activities tried for the node
    MaxCrashes       \* bound on crashes and on lost races of a journal commit

ASSUME ControllersAssumption == IsFiniteSet(Controllers) /\ Controllers # {}
ASSUME BoundsAssumption == MaxActivities \in Nat \ {0} /\ MaxCrashes \in Nat

VARIABLES
    active,      \* the node's active activity in the projection, or 0
    tried,       \* activities created so far
    result,      \* committed results of the journal
    evidence,    \* recorded terminal Worker results
    callers,     \* controllers that recorded the call marker of an activity
    leases,      \* the activity of each lease ever granted, by generation
    current,     \* current_lease_ref, 0 for NULL
    staged,      \* leases with a row in `staged`
    committed,   \* the lease of committed_json, 0 for NULL
    outputs,     \* history: leases that have ever committed an output
    ctl,         \* what a controller holds in memory
    crashes

journal == <<active, tried, result, evidence, callers>>
slot == <<leases, current, staged, committed, outputs>>
vars == <<active, tried, result, evidence, callers, leases, current, staged,
          committed, outputs, ctl, crashes>>

Activities == 1..MaxActivities
Statuses == {"succeeded", "failed", "indeterminate"}

NoEvidence == [status |-> "none", lease |-> 0]
Evidence(status, lease) == [status |-> status, lease |-> lease]

\* via: rebuilt from the attempt, or from its record, under another evidence_ref.
NoResult == [status |-> "none", lease |-> 0, via |-> "attempt"]
Result(e, via) == [status |-> e.status, lease |-> e.lease, via |-> via]

Idle == [pc |-> "idle", activity |-> 0, lease |-> 0, evidence |-> NoEvidence,
         result |-> NoResult]

\* The candidate behind a committed output embeds the Worker result.
OutputOf(lease) == Evidence("succeeded", lease)

Init ==
    /\ active = 1 /\ tried = 1
    /\ result = [a \in Activities |-> NoResult]
    /\ evidence = [a \in Activities |-> NoEvidence]
    /\ callers = [a \in Activities |-> {}]
    /\ leases = <<>> /\ current = 0 /\ staged = {} /\ committed = 0
    /\ outputs = {}
    /\ ctl = [c \in Controllers |-> Idle]
    /\ crashes = 0

Goto(c, pc) == ctl' = [ctl EXCEPT ![c].pc = pc]
Raise(c) == ctl' = [ctl EXCEPT ![c] = Idle]

\* The controller leaves the attempt with what _commit_result is to record.
Conclude(c, e, r) ==
    ctl' = [ctl EXCEPT ![c].pc = "record", ![c].evidence = e, ![c].result = r]

-----------------------------------------------------------------------------
(* The dispatcher.                                                         *)

\* recover dispatches the active activity.  One that has a call marker and no
\* result is refused by reconcile, whoever recorded the marker.
Dispatch(c) ==
    /\ ctl[c].pc = "idle" /\ active # 0 /\ callers[active] = {}
    /\ ctl' = [ctl EXCEPT ![c].pc = "accept", ![c].activity = active]
    /\ UNCHANGED <<journal, slot, crashes>>

Accept(c) ==
    LET a == ctl[c].activity
        e == evidence[a]
    IN  /\ ctl[c].pc = "accept"
        /\ \/ e = NoEvidence /\ Goto(c, "mark")
           \/ e.status = "succeeded" /\ Goto(c, "recover")
           \/ /\ e.status \in {"failed", "indeterminate"}
              /\ Conclude(c, e, Result(e, "record"))
        /\ UNCHANGED <<journal, slot, crashes>>

\* The marker event has a stable identity: appending it again changes nothing.
Mark(c) ==
    /\ ctl[c].pc = "mark"
    /\ callers' = [callers EXCEPT ![ctl[c].activity] = @ \cup {c}]
    /\ Goto(c, "lookup")
    /\ UNCHANGED <<active, tried, result, evidence, slot, crashes>>

\* Variant: the slot is taken for the activity's whatever it holds.
CommittedIsAny(a) == committed # 0

\* The slot holds a committed output of the activity.
CommittedIs(a) == committed # 0 /\ leases[committed] = a

\* execute finds the output already there.
Lookup(c) ==
    /\ ctl[c].pc = "lookup"
    /\ IF CommittedIs(ctl[c].activity)
       THEN Conclude(c, OutputOf(committed), Result(OutputOf(committed), "attempt"))
       ELSE Goto(c, "acquire")
    /\ UNCHANGED <<journal, slot, crashes>>

\* recover_committed_output: nothing but the activity's own output will do.
RecoverOutput(c) ==
    /\ ctl[c].pc = "recover"
    /\ IF CommittedIs(ctl[c].activity)
       THEN Conclude(c, OutputOf(committed), Result(OutputOf(committed), "attempt"))
       ELSE Raise(c)
    /\ UNCHANGED <<journal, slot, crashes>>

-----------------------------------------------------------------------------
(* The attempt and its lease.                                              *)

\* Variant: the lease of the previous owner keeps what it has staged.
KeepStaged == staged

\* Rows that survive the acquisition of a new lease.
StagedAfterAcquire == staged \ {current}

\* The supervisor refuses the attempt; it has not started.
Refuse(c) ==
    /\ ctl[c].pc = "acquire"
    /\ Goto(c, "reread")
    /\ UNCHANGED <<journal, slot, crashes>>

\* acquire_after_admission.  The committed output of another activity is
\* cleared, that of the same activity is an error of the started attempt.
Acquire(c) ==
    LET a == ctl[c].activity
    IN  /\ ctl[c].pc = "acquire"
        /\ \/ /\ CommittedIs(a)
              /\ ctl' = [ctl EXCEPT ![c].pc = "reread",
                                    ![c].evidence = Evidence("failed", 0)]
              /\ UNCHANGED slot
           \/ /\ ~CommittedIs(a)
              /\ leases' = Append(leases, a)
              /\ current' = Len(leases) + 1
              /\ staged' = StagedAfterAcquire
              /\ committed' = 0
              /\ ctl' = [ctl EXCEPT ![c].pc = "work", ![c].lease = Len(leases) + 1]
              /\ UNCHANGED outputs
        /\ UNCHANGED <<journal, crashes>>

\* The Worker returns a candidate, or the attempt fails or times out.
Work(c) ==
    /\ ctl[c].pc = "work"
    /\ \/ Goto(c, "stage")
       \/ \E status \in {"failed", "indeterminate"} :
            ctl' = [ctl EXCEPT ![c].pc = "revoke",
                               ![c].evidence = Evidence(status, ctl[c].lease)]
    /\ UNCHANGED <<journal, slot, crashes>>

\* finalize of an attempt that may not publish: revoke.
Revoke(c) ==
    /\ ctl[c].pc = "revoke"
    /\ IF committed = 0 /\ current = ctl[c].lease
       THEN current' = 0 /\ staged' = staged \ {ctl[c].lease}
       ELSE UNCHANGED <<current, staged>>
    /\ Goto(c, "reread")
    /\ UNCHANGED <<journal, leases, committed, outputs, crashes>>

\* The lease is the current one.
Owns(c) == current = ctl[c].lease

\* finalize of a normal outcome.  When the lease is stale the finalization
\* fails, the outcome is indeterminate, and cleanup's revoke finds nothing.
Stage(c) ==
    /\ ctl[c].pc = "stage"
    /\ IF Owns(c)
       THEN staged' = staged \cup {ctl[c].lease} /\ Goto(c, "commit")
       ELSE /\ ctl' = [ctl EXCEPT ![c].pc = "reread",
                          ![c].evidence = Evidence("indeterminate", ctl[c].lease)]
            /\ UNCHANGED staged
    /\ UNCHANGED <<journal, leases, current, committed, outputs, crashes>>

\* complete, after the terminal fact.  A stale owner has nothing to discard or
\* to revoke any more and raises.
Commit(c) ==
    /\ ctl[c].pc = "commit"
    /\ IF Owns(c)
       THEN /\ committed' = ctl[c].lease
            /\ outputs' = outputs \cup {ctl[c].lease}
            /\ Goto(c, "check")
       ELSE Raise(c) /\ UNCHANGED <<committed, outputs>>
    /\ UNCHANGED <<journal, leases, current, staged, crashes>>

\* The adapter reads its commit back.
Check(c) ==
    /\ ctl[c].pc = "check"
    /\ IF committed = ctl[c].lease
       THEN Conclude(c, OutputOf(committed), Result(OutputOf(committed), "attempt"))
       ELSE Raise(c)
    /\ UNCHANGED <<journal, slot, crashes>>

-----------------------------------------------------------------------------
(* The result.                                                             *)

\* execute reads the slot again after an attempt without a commit.  An output
\* of its activity, whoever committed it, makes the result a success; the
\* evidence of an attempt that did start stays its own.
Reread(c) ==
    LET e == ctl[c].evidence
    IN  /\ ctl[c].pc = "reread"
        /\ \/ /\ CommittedIs(ctl[c].activity)
              /\ Conclude(c, IF e = NoEvidence THEN OutputOf(committed) ELSE e,
                             Result(OutputOf(committed), "attempt"))
           \/ /\ ~CommittedIs(ctl[c].activity)
              /\ IF committed # 0 \/ e = NoEvidence
                 THEN Raise(c)
                 ELSE Goto(c, "owner")
        /\ UNCHANGED <<journal, slot, crashes>>

\* A failure is the result only of the last owner.
Owner(c) ==
    /\ ctl[c].pc = "owner"
    /\ IF current # 0 /\ ctl[c].lease # 0 /\ ~Owns(c)
       THEN Raise(c)
       ELSE Conclude(c, ctl[c].evidence, Result(ctl[c].evidence, "attempt"))
    /\ UNCHANGED <<journal, slot, crashes>>

\* Variant: the last terminal evidence stays.
RecordLast(c) ==
    /\ ctl[c].pc = "record"
    /\ evidence' = [evidence EXCEPT ![ctl[c].activity] = ctl[c].evidence]
    /\ Goto(c, "apply")
    /\ UNCHANGED <<active, tried, result, callers, slot, crashes>>

\* record_graph_activity_result: the first terminal evidence stays.
Record(c) ==
    LET a == ctl[c].activity
        e == ctl[c].evidence
    IN  /\ ctl[c].pc = "record"
        /\ IF evidence[a] \in {NoEvidence, e}
           THEN evidence' = [evidence EXCEPT ![a] = e] /\ Goto(c, "apply")
           ELSE Raise(c) /\ UNCHANGED evidence
        /\ UNCHANGED <<active, tried, result, callers, slot, crashes>>

\* Variant: the last result counts.
ApplyLast(c) ==
    /\ ctl[c].pc = "apply"
    /\ result' = [result EXCEPT ![ctl[c].activity] = ctl[c].result]
    /\ active' = IF active = ctl[c].activity THEN 0 ELSE active
    /\ Raise(c)
    /\ UNCHANGED <<tried, evidence, callers, slot, crashes>>

\* accept_activity_result: the result of the active activity is committed and
\* projected, the same one is answered, any other raises.
Apply(c) ==
    LET a == ctl[c].activity
    IN  /\ ctl[c].pc = "apply"
        /\ IF result[a] = NoResult /\ active = a
           THEN /\ result' = [result EXCEPT ![a] = ctl[c].result]
                /\ active' = 0
           ELSE UNCHANGED <<result, active>>
        /\ Raise(c)
        /\ UNCHANGED <<tried, evidence, callers, slot, crashes>>

\* RETRY_STEP after a failure, REPLAN_STEP after a failed verification: a new
\* activity under a new idempotency key.
Retry(c) ==
    /\ ctl[c].pc = "idle" /\ active = 0 /\ tried < MaxActivities
    /\ result[tried].status \in {"failed", "succeeded"}
    /\ tried' = tried + 1 /\ active' = tried + 1
    /\ UNCHANGED <<result, evidence, callers, slot, ctl, crashes>>

\* The process dies, or a commit of its loses a race and raises.
Crash(c) ==
    /\ ctl[c].pc # "idle" /\ crashes < MaxCrashes
    /\ crashes' = crashes + 1
    /\ Raise(c)
    /\ UNCHANGED <<journal, slot>>

Next == \E c \in Controllers :
    \/ Dispatch(c) \/ Accept(c) \/ Mark(c) \/ Lookup(c) \/ RecoverOutput(c)
    \/ Refuse(c) \/ Acquire(c) \/ Work(c) \/ Revoke(c) \/ Stage(c) \/ Commit(c)
    \/ Check(c) \/ Reread(c) \/ Owner(c) \/ Record(c) \/ Apply(c)
    \/ Retry(c) \/ Crash(c)

Spec == Init /\ [][Next]_vars
=============================================================================
