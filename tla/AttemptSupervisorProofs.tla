---------------------- MODULE AttemptSupervisorProofs ----------------------
(***************************************************************************)
(* Proofs about AttemptSupervisor, for any number of calls nested to any   *)
(* depth: capacity is never leaked or given back twice, attempts and       *)
(* credits are counted, and what is published is determinate.              *)
(***************************************************************************)
EXTENDS AttemptSupervisorProperties, FiniteSetTheorems,
        SequenceTheorems, TLAPS

-----------------------------------------------------------------------------
(* The inductive invariant.                                                *)

Admission == {"idle", "gated", "slotted", "reserved", "bound"}
Supervision == {"supervised", "expiring", "cancelling", "concluded", "finalized"}
Ended == {"returned", "raised"}
Stages == Admission \cup {"started", "unprepared"} \cup Supervision \cup Ended
OutcomeStates == {"none", "rejected", "succeeded", "failed", "timed_out", "indeterminate"}
Outcomes == [state : OutcomeStates, confirmed : BOOLEAN, indeterminate : BOOLEAN]

\* Control state.
StageTypes ==
    /\ pc \in [Calls -> Stages]
    /\ worker \in [Calls -> {"none", "waiting", "open", "running", "exited"}]
    /\ value \in [Calls -> {"none", "value", "error"}]
    /\ window \in [Calls -> {"open", "over"}]
    /\ late \in [Calls -> BOOLEAN]

\* The three events of an AttemptContext.
FlagTypes ==
    /\ cancelled \in [Calls -> BOOLEAN]
    /\ indet \in [Calls -> BOOLEAN]
    /\ unconf \in [Calls -> BOOLEAN]

\* What a call reports.
ResultTypes ==
    /\ out \in [Calls -> Outcomes]
    /\ facts \in [Calls -> Seq(OutcomeStates \cup {"started"})]
    /\ output \in [Calls -> {"none", "staged", "committed"}]

CounterTypes ==
    /\ used \in [Ops -> Int]
    /\ lockedBy \in [Ops -> Calls \cup {NoCall}]
    /\ number \in [Calls -> Int]
    /\ credits \in Int
    /\ active \in Int

TypeOK == StageTypes /\ FlagTypes /\ ResultTypes /\ CounterTypes

\* The attempt thread exists from the recorded start on.
Life(c) ==
    /\ pc[c] \in Admission => worker[c] = "none" /\ facts[c] = <<>>
    /\ worker[c] = "waiting" <=> pc[c] = "started"
    /\ pc[c] = "unprepared" => worker[c] = "exited"
    /\ pc[c] \in Supervision => worker[c] # "none"
    /\ pc[c] \in {"started", "unprepared"} \cup Supervision => facts[c] = <<"started">>
    /\ HasStarted(c) <=> worker[c] # "none"

\* A callable that outlives the loop that supervised it has been asked to stop.
Asked(c) ==
    worker[c] \in {"open", "running"} /\ pc[c] # "supervised" => cancelled[c]

\* What is staged or committed is the output of a determinate success.
Published(c) ==
    /\ pc[c] \in Admission \cup {"started", "supervised", "expiring", "cancelling"} =>
          out[c] = NoOutcome
    /\ pc[c] = "unprepared" => out[c] = Outcome("failed", TRUE, FALSE)
    /\ pc[c] = "concluded" /\ out[c].state = "succeeded" => worker[c] = "exited"
    /\ output[c] # "none" =>
          worker[c] = "exited" /\ ~indet[c] /\ out[c].state = "succeeded"
    /\ output[c] = "staged" => pc[c] = "finalized"
    /\ output[c] = "committed" => pc[c] = "returned" /\ facts[c] = <<"started", "succeeded">>

\* A call is made by its parent's callable, which returns after it.
Nested(d, p) ==
    /\ pc[d] # "idle" => worker[p] \in {"running", "exited"}
    /\ pc[d] \notin {"idle"} \cup Ended => worker[p] = "running"

\* The parent knows of a call whose effect is unknown or whose callable lives on.
Flagged(d, p) ==
    out[d].indeterminate \/ (IsAlive(d) /\ pc[d] \in {"concluded", "finalized"} \cup Ended) =>
        indet[p]

\* A reservation is what keeps the budget's lock.
HoldsLock(c) == pc[c] \in {"reserved", "bound"}

Reserved ==
    /\ \A c \in Calls : HoldsLock(c) => lockedBy[OpOf[c]] = c /\ number[c] = used[OpOf[c]]
    /\ \A o \in Ops, c \in Calls : lockedBy[o] = c => HoldsLock(c) /\ OpOf[c] = o
    /\ \A c \in Calls : number[c] # 0 <=> HoldsLock(c) \/ worker[c] # "none"

\* The calls that hold a slot of the capacity.
Holders == {c \in Calls : pc[c] \in {"slotted", "reserved", "bound"} \/ IsAlive(c)}

SInv ==
    /\ TypeOK
    /\ \A c \in Calls : Life(c) /\ Asked(c) /\ Published(c)
    /\ \A d \in Calls : \A p \in Parent(d) : Nested(d, p) /\ Flagged(d, p)

-----------------------------------------------------------------------------
(* Facts about the data.                                                   *)

LEMMA OneFact ==
    /\ \A s \in OutcomeStates \cup {"started"} :
          Append(<<>>, s) = <<s>> /\ Append(<<"started">>, s) = <<"started", s>>
    /\ <<"started">>[1] = "started" /\ <<"rejected">>[1] # "started"
    /\ \A s \in OutcomeStates : <<"started", s>>[1] = "started"
    /\ <<"started">> # <<>> /\ \A s \in OutcomeStates : <<"started", s>> # <<>>
<1>1. ASSUME NEW s \in OutcomeStates \cup {"started"}
      PROVE  Append(<<>>, s) = <<s>> /\ Append(<<"started">>, s) = <<"started", s>>
  <2> DEFINE S == OutcomeStates \cup {"started"}
             long == Append(<<"started">>, s)
  <2>1. /\ <<"started">> \in Seq(S) /\ Len(<<"started">>) = 1 /\ <<"started">>[1] = "started"
        /\ <<"started", s>> \in Seq(S) /\ Len(<<"started", s>>) = 2
        /\ <<"started", s>>[1] = "started" /\ <<"started", s>>[2] = s
    OBVIOUS
  <2>2. long \in Seq(S) /\ Len(long) = 2 /\ long[1] = "started" /\ long[2] = s
    BY <2>1, AppendProperties
  <2> HIDE DEF long, S
  <2>3. \A i \in 1..Len(long) : long[i] = <<"started", s>>[i]
    <3>1. 1..Len(long) = {1, 2}
      BY <2>2
    <3> QED BY <2>1, <2>2, <3>1
  <2>4. long = <<"started", s>>
    BY <2>1, <2>2, <2>3, SeqEqual
  <2>5. Append(<<>>, s) = <<s>>
    OBVIOUS
  <2> QED BY <2>4, <2>5 DEF long
<1>2. <<"started">>[1] = "started" /\ <<"rejected">>[1] # "started"
  OBVIOUS
<1>3. \A s \in OutcomeStates : <<"started", s>>[1] = "started"
  OBVIOUS
<1>4. <<"started">> # <<>> /\ \A s \in OutcomeStates : <<"started", s>> # <<>>
  <2>1. /\ Len(<<"started">>) = 1 /\ Len(<<>>) = 0
        /\ \A s \in OutcomeStates : Len(<<"started", s>>) = 2
    OBVIOUS
  <2> QED BY <2>1
<1> QED BY <1>1, <1>2, <1>3, <1>4

LEMMA OutcomeValues ==
    ASSUME NEW s \in OutcomeStates, NEW confirmed \in BOOLEAN, NEW unknown \in BOOLEAN
    PROVE  /\ Outcome(s, confirmed, unknown) \in Outcomes
           /\ Outcome(s, confirmed, unknown).state = s
           /\ Outcome(s, confirmed, unknown).confirmed = confirmed
           /\ Outcome(s, confirmed, unknown).indeterminate = unknown
  BY DEF Outcome, Outcomes

\* The steps of one call, the clock and the callers.
LEMMA NextSteps ==
    ASSUME Next
    PROVE  \/ \E c \in Calls : Step(c) \/ Enter(c) \/ Leave(c) \/ Tick(c) \/ Cancel(c)
           \/ UNCHANGED vars
  BY DEF Next, Done

\* Outside its flags a call changes nothing of another call.
Others(c) ==
    \A d \in Calls : d # c =>
        /\ pc'[d] = pc[d] /\ worker'[d] = worker[d] /\ cancelled'[d] = cancelled[d]
        /\ out'[d] = out[d] /\ facts'[d] = facts[d] /\ output'[d] = output[d]
        /\ number'[d] = number[d]

\* An attempt's flags are raised by its own steps and its children's, and
\* never lowered.
FlagsRise(c) ==
    \A d \in Calls :
        /\ indet[d] => indet'[d]
        /\ indet'[d] => indet[d] \/ d = c \/ d \in Parent(c)

LEMMA MarkRaises ==
    ASSUME FlagTypes, NEW c \in Calls, NEW i \in BOOLEAN, NEW u \in BOOLEAN, Mark(c, i, u)
    PROVE  /\ indet' \in [Calls -> BOOLEAN] /\ unconf' \in [Calls -> BOOLEAN]
           /\ FlagsRise(c)
           /\ indet[c] \/ i \/ u => indet'[c] /\ \A p \in Parent(c) : indet'[p]
           /\ ~indet[c] /\ ~i /\ ~u => indet' = indet
<1>1. \A d \in Calls :
         indet'[d] = (indet[d] \/ ((indet[c] \/ i \/ u) /\ d \in {c} \cup Parent(c)))
  BY DEF Mark
<1>2. indet' \in [Calls -> BOOLEAN] /\ unconf' \in [Calls -> BOOLEAN]
  BY DEF Mark, FlagTypes
<1>3. \A p \in Parent(c) : p \in Calls
  BY DEF Parent
<1>4. FlagsRise(c)
  BY <1>1, <1>3 DEF FlagsRise, FlagTypes
<1>5. indet[c] \/ i \/ u => indet'[c] /\ \A p \in Parent(c) : indet'[p]
  BY <1>1, <1>3
<1>6. ASSUME ~indet[c], ~i, ~u PROVE indet' = indet
  <2>1. \A d \in Calls : indet'[d] = indet[d]
    BY <1>1, <1>6 DEF FlagTypes
  <2> QED BY <1>2, <2>1 DEF FlagTypes
<1> QED BY <1>2, <1>4, <1>5, <1>6

-----------------------------------------------------------------------------
(* Types, and what a step leaves alone.                                    *)

CallStep(c) == Step(c) \/ Enter(c) \/ Leave(c) \/ Tick(c) \/ Cancel(c)

LEMMA OutcomeOf == ASSUME TypeOK, NEW c \in Calls PROVE out[c] \in Outcomes
BY DEF TypeOK, ResultTypes

\* The finalizer and the cleanup keep an outcome or make it indeterminate.
LEMMA FinalizedForms ==
    ASSUME TypeOK, NEW c \in Calls, NEW f, NEW cleaned \in BOOLEAN
    PROVE  /\ Finalized(c, f, cleaned) \in Outcomes
           /\ Finalized(c, f, cleaned) # out[c] => Finalized(c, f, cleaned).indeterminate
           /\ ~Finalized(c, f, cleaned).indeterminate => Finalized(c, f, cleaned) = out[c]
           /\ Finalized(c, f, cleaned).indeterminate =>
                 ~cleaned \/ Finalized(c, f, TRUE).indeterminate
<1>1. /\ out[c] \in Outcomes
      /\ out[c].confirmed \in BOOLEAN
      /\ "indeterminate" \in OutcomeStates
  BY OutcomeOf DEF Outcomes, OutcomeStates
<1>2. Indeterminate(out[c]) \in Outcomes /\ Indeterminate(out[c]).indeterminate
  BY <1>1, OutcomeValues DEF Indeterminate
<1> QED BY <1>1, <1>2 DEF Finalized

\* Finalize with the values it chose.
FinalizeWith(c, f, cleaned) ==
    /\ f \in {"kept", "unknown", "raised"} /\ cleaned \in BOOLEAN
    /\ pc[c] = "unprepared" => f = "kept" /\ cleaned
    /\ out' = [out EXCEPT ![c] = Finalized(c, f, cleaned)]
    /\ output' = [output EXCEPT ![c] =
          IF NormalOutputAllowed(c) /\ Finalized(c, f, cleaned) = out[c] THEN "staged"
          ELSE "none"]
    /\ cancelled' = [cancelled EXCEPT ![c] = @ \/ (f = "raised" \/ ~cleaned)]
    /\ Mark(c, Finalized(c, f, TRUE).indeterminate \/ (f = "raised" \/ ~cleaned),
            Finalized(c, f, TRUE).state = "timed_out" /\ ~Finalized(c, f, TRUE).confirmed)

LEMMA FinalizeForm ==
    ASSUME NEW c \in Calls, Finalize(c)
    PROVE  /\ pc[c] \in {"concluded", "unprepared"} /\ pc' = [pc EXCEPT ![c] = "finalized"]
           /\ UNCHANGED <<worker, value, window, late, facts, budgets, active>>
           /\ \E f \in {"kept", "unknown", "raised"}, cleaned \in BOOLEAN :
                 FinalizeWith(c, f, cleaned)
BY DEF Finalize, FinalizeWith

LEMMA CompletedOutcomes ==
    ASSUME TypeOK, NEW c \in Calls
    PROVE  /\ CompletedOutcome(c) \in Outcomes
           /\ CompletedOutcome(c).indeterminate <=> indet[c]
<1>1. indet[c] \in BOOLEAN /\ unconf[c] \in BOOLEAN
  BY DEF TypeOK, FlagTypes
<1>2. CASE indet[c]
  <2> DEFINE s == IF unconf[c] THEN "timed_out" ELSE "indeterminate"
  <2>1. s \in OutcomeStates /\ CompletedOutcome(c) = Outcome(s, ~unconf[c], TRUE)
    BY <1>2 DEF CompletedOutcome, OutcomeStates
  <2> HIDE DEF s
  <2> QED BY <1>1, <1>2, <2>1, OutcomeValues, ZenonT(90)
<1>3. CASE ~indet[c]
  <2> DEFINE s == IF value[c] = "value" THEN "succeeded" ELSE "failed"
  <2>1. s \in OutcomeStates /\ CompletedOutcome(c) = Outcome(s, TRUE, FALSE)
    BY <1>3 DEF CompletedOutcome, OutcomeStates
  <2> HIDE DEF s
  <2> QED BY <1>3, <2>1, OutcomeValues
<1> QED BY <1>2, <1>3

\* What the end of the grace wait reports.
GraceOutcome(c) ==
    LET confirmed == worker[c] = "exited" /\ ~unconf[c]
    IN  IF pc[c] = "expiring"
        THEN Outcome("timed_out", confirmed, ~confirmed \/ indet[c])
        ELSE IF confirmed THEN Outcome("timed_out", TRUE, FALSE)
                          ELSE Outcome("indeterminate", FALSE, TRUE)

LEMMA GraceForm ==
    ASSUME TypeOK, NEW c \in Calls, GraceOver(c)
    PROVE  /\ pc[c] \in {"expiring", "cancelling"} /\ pc' = [pc EXCEPT ![c] = "concluded"]
           /\ out' = [out EXCEPT ![c] = GraceOutcome(c)]
           /\ GraceOutcome(c) \in Outcomes /\ GraceOutcome(c).state # "succeeded"
           /\ \E u \in BOOLEAN :
                 /\ Mark(c, FALSE, u)
                 /\ worker[c] # "exited" => u
                 /\ GraceOutcome(c).indeterminate => u \/ indet[c]
           /\ UNCHANGED <<worker, value, window, late, cancelled, facts, output, budgets,
                          active>>
<1> DEFINE confirmed == worker[c] = "exited" /\ ~unconf[c]
<1>1. confirmed \in BOOLEAN /\ indet[c] \in BOOLEAN /\ (worker[c] # "exited" => ~confirmed)
  BY DEF TypeOK, FlagTypes
<1>2. /\ pc[c] \in {"expiring", "cancelling"} /\ pc' = [pc EXCEPT ![c] = "concluded"]
      /\ out' = [out EXCEPT ![c] = GraceOutcome(c)]
      /\ Mark(c, FALSE, ~confirmed)
      /\ UNCHANGED <<worker, value, window, late, cancelled, facts, output, budgets, active>>
  BY DEF GraceOver, GraceOutcome
<1>3. GraceOutcome(c) = IF pc[c] = "expiring"
                        THEN Outcome("timed_out", confirmed, ~confirmed \/ indet[c])
                        ELSE IF confirmed THEN Outcome("timed_out", TRUE, FALSE)
                                          ELSE Outcome("indeterminate", FALSE, TRUE)
  BY DEF GraceOutcome
<1> HIDE DEF confirmed
<1>4. /\ GraceOutcome(c) \in Outcomes /\ GraceOutcome(c).state # "succeeded"
      /\ GraceOutcome(c).indeterminate => ~confirmed \/ indet[c]
  <2>1. "timed_out" \in OutcomeStates /\ "indeterminate" \in OutcomeStates
    BY DEF OutcomeStates
  <2>2. CASE pc[c] = "expiring"
    <3> DEFINE unknown == ~confirmed \/ indet[c]
    <3>1. /\ unknown \in BOOLEAN /\ (unknown => ~confirmed \/ indet[c])
          /\ GraceOutcome(c) = Outcome("timed_out", confirmed, unknown)
      BY <1>1, <1>3, <2>2
    <3> HIDE DEF unknown
    <3> QED BY <1>1, <2>1, <3>1, OutcomeValues
  <2>3. CASE pc[c] # "expiring" /\ confirmed
    BY <1>1, <1>3, <2>1, <2>3, OutcomeValues, ZenonT(90)
  <2>4. CASE pc[c] # "expiring" /\ ~confirmed
    BY <1>1, <1>3, <2>1, <2>4, OutcomeValues
  <2> QED BY <2>2, <2>3, <2>4
<1> QED BY <1>1, <1>2, <1>4

LEMMA FrameStep ==
    ASSUME TypeOK, NEW c \in Calls, CallStep(c)
    PROVE  Others(c)
<1> USE DEF TypeOK, StageTypes, FlagTypes, ResultTypes, CounterTypes, Others, budgets, flags
<1>1. CASE Gate(c) \/ AcquireCapacity(c)
  BY <1>1, ZenonT(90) DEF Gate, AcquireCapacity, Reject
<1>2. CASE Reserve(c)
  BY <1>2, ZenonT(90) DEF Reserve, Reject
<1>3. CASE Recheck(c)
  BY <1>3, ZenonT(90) DEF Recheck, RollBack, Reject
<1>4. CASE Start(c)
  BY <1>4 DEF Start, RollBack
<1>5. CASE Prepare(c)
  BY <1>5, ZenonT(90) DEF Prepare
<1>6. CASE Complete(c)
  BY <1>6 DEF Complete
<1>7. CASE Interrupt(c)
  BY <1>7 DEF Interrupt
<1>8. CASE GraceOver(c)
  BY <1>8 DEF GraceOver
<1>9. CASE Finalize(c)
  <2>1. \E f \in {"kept", "unknown", "raised"}, cleaned \in BOOLEAN : FinalizeWith(c, f, cleaned)
    BY <1>9, FinalizeForm
  <2>2. \A d \in Calls : d # c => out'[d] = out[d] /\ output'[d] = output[d]
                                 /\ cancelled'[d] = cancelled[d]
    BY <2>1 DEF FinalizeWith
  <2>3. pc' = [pc EXCEPT ![c] = "finalized"] /\ UNCHANGED <<worker, facts, number>>
    BY <1>9, FinalizeForm
  <2> QED BY <2>2, <2>3
<1>10. CASE EmitTerminal(c)
  BY <1>10 DEF EmitTerminal, Unknown
<1>11. CASE Enter(c)
  BY <1>11 DEF Enter, Exit
<1>12. CASE Leave(c)
  BY <1>12 DEF Leave, Exit
<1>13. CASE Tick(c) \/ Cancel(c)
  BY <1>13 DEF Tick, Cancel
<1> QED BY <1>1, <1>2, <1>3, <1>4, <1>5, <1>6, <1>7, <1>8, <1>9, <1>10, <1>11, <1>12, <1>13
        DEF CallStep, Step

\* Who raises the flags.
LEMMA FlagsStep ==
    ASSUME TypeOK, NEW c \in Calls, CallStep(c)
    PROVE  /\ indet' \in [Calls -> BOOLEAN] /\ unconf' \in [Calls -> BOOLEAN]
           /\ FlagsRise(c)
           /\ indet' = indet \/ Complete(c) \/ GraceOver(c) \/ Finalize(c) \/ EmitTerminal(c)
<1>0. FlagTypes
  BY DEF TypeOK
<1>1. CASE Complete(c)
  <2>1. Mark(c, FALSE, FALSE)
    BY <1>1 DEF Complete
  <2> QED BY <1>0, <1>1, <2>1, MarkRaises
<1>2. CASE GraceOver(c)
  <2>1. PICK u \in BOOLEAN : Mark(c, FALSE, u)
    BY <1>2, GraceForm
  <2> QED BY <1>0, <1>2, <2>1, MarkRaises
<1>3. CASE Finalize(c)
  <2>1. PICK f \in {"kept", "unknown", "raised"}, cleaned \in BOOLEAN :
           FinalizeWith(c, f, cleaned)
    BY <1>3, FinalizeForm
  <2> DEFINE told == Finalized(c, f, TRUE)
             i == told.indeterminate \/ (f = "raised" \/ ~cleaned)
             u == told.state = "timed_out" /\ ~told.confirmed
  <2>2. told \in Outcomes
    BY FinalizedForms
  <2>3. i \in BOOLEAN /\ u \in BOOLEAN
    BY <2>2 DEF Outcomes
  <2>4. Mark(c, i, u)
    BY <2>1 DEF FinalizeWith
  <2> HIDE DEF i, u
  <2> QED BY <1>0, <1>3, <2>3, <2>4, MarkRaises
<1>4. CASE EmitTerminal(c)
  <2>1. UNCHANGED <<indet, unconf>> \/ Unknown(c)
    BY <1>4 DEF EmitTerminal, flags
  <2>2. ASSUME Unknown(c)
        PROVE  indet' \in [Calls -> BOOLEAN] /\ unconf' = unconf /\ FlagsRise(c)
    <3>1. indet' = [d \in Calls |-> indet[d] \/ d \in Parent(c)] /\ unconf' = unconf
      BY <2>2 DEF Unknown
    <3> QED BY <1>0, <3>1 DEF FlagTypes, FlagsRise
  <2>3. ASSUME UNCHANGED <<indet, unconf>>
        PROVE  indet' \in [Calls -> BOOLEAN] /\ unconf' = unconf /\ FlagsRise(c)
    BY <1>0, <2>3 DEF FlagTypes, FlagsRise
  <2> QED BY <1>0, <1>4, <2>1, <2>2, <2>3 DEF FlagTypes
<1>5. CASE ~(Complete(c) \/ GraceOver(c) \/ Finalize(c) \/ EmitTerminal(c))
  <2>1. UNCHANGED <<indet, unconf>>
    <3>1. CASE Gate(c) \/ AcquireCapacity(c) \/ Reserve(c) \/ Recheck(c)
      BY <3>1 DEF Gate, AcquireCapacity, Reserve, Recheck, flags
    <3>2. CASE Start(c) \/ Prepare(c) \/ Interrupt(c) \/ Enter(c) \/ Leave(c)
      BY <3>2 DEF Start, Prepare, Interrupt, Enter, Leave, flags
    <3>3. CASE Tick(c) \/ Cancel(c)
      BY <3>3 DEF Tick, Cancel, flags
    <3> QED BY <1>5, <3>1, <3>2, <3>3 DEF CallStep, Step
  <2> QED BY <1>0, <2>1 DEF FlagTypes, FlagsRise
<1> QED BY <1>1, <1>2, <1>3, <1>4, <1>5

LEMMA StageTypesStep == ASSUME TypeOK, NEW c \in Calls, CallStep(c) PROVE StageTypes'
<1> USE DEF TypeOK, StageTypes, Stages, Admission, Supervision, Ended
<1>1. CASE Gate(c) \/ AcquireCapacity(c) \/ Reserve(c)
  BY <1>1 DEF Gate, AcquireCapacity, Reserve, Reject
<1>2. CASE Recheck(c) \/ Start(c) \/ Prepare(c)
  BY <1>2 DEF Recheck, Start, Prepare, Reject
<1>3. CASE Complete(c) \/ Interrupt(c) \/ GraceOver(c) \/ Finalize(c)
  BY <1>3 DEF Complete, Interrupt, GraceOver, Finalize
<1>4. CASE EmitTerminal(c)
  BY <1>4 DEF EmitTerminal
<1>5. CASE Enter(c) \/ Leave(c)
  <2>1. ASSUME NEW r \in {"value", "error"}, Exit(c, r), UNCHANGED <<pc, window>>
        PROVE  StageTypes'
    BY <2>1 DEF Exit
  <2>2. CASE worker' = [worker EXCEPT ![c] = "running"] /\ UNCHANGED <<pc, value, window, late>>
    BY <2>2
  <2> QED BY <1>5, <2>1, <2>2 DEF Enter, Leave
<1>6. CASE Tick(c) \/ Cancel(c)
  BY <1>6 DEF Tick, Cancel
<1> QED BY <1>1, <1>2, <1>3, <1>4, <1>5, <1>6 DEF CallStep, Step

LEMMA FlagTypesStep == ASSUME TypeOK, NEW c \in Calls, CallStep(c) PROVE FlagTypes'
<1> USE DEF TypeOK, FlagTypes
<1>1. cancelled' \in [Calls -> BOOLEAN]
  <2>1. CASE Finalize(c)
    <3>1. \E f \in {"kept", "unknown", "raised"}, cleaned \in BOOLEAN : FinalizeWith(c, f, cleaned)
      BY <2>1, FinalizeForm
    <3> QED BY <3>1 DEF FinalizeWith
  <2>2. CASE EmitTerminal(c)
    BY <2>2 DEF EmitTerminal, Unknown, flags
  <2>3. CASE Prepare(c) \/ Complete(c) \/ Interrupt(c) \/ Cancel(c)
    BY <2>3 DEF Prepare, Complete, Interrupt, Cancel
  <2>4. CASE Gate(c) \/ AcquireCapacity(c) \/ Reserve(c) \/ Recheck(c) \/ Start(c)
    BY <2>4 DEF Gate, AcquireCapacity, Reserve, Recheck, Start, flags
  <2>5. CASE GraceOver(c) \/ Enter(c) \/ Leave(c) \/ Tick(c)
    BY <2>5 DEF GraceOver, Enter, Leave, Tick, flags
  <2> QED BY <2>1, <2>2, <2>3, <2>4, <2>5 DEF CallStep, Step
<1> QED BY <1>1, FlagsStep

LEMMA ResultTypesStep == ASSUME TypeOK, NEW c \in Calls, CallStep(c) PROVE ResultTypes'
<1> USE DEF TypeOK, ResultTypes
<1>0. /\ Outcome("rejected", TRUE, FALSE) \in Outcomes
      /\ Outcome("failed", TRUE, FALSE) \in Outcomes
      /\ \A s \in OutcomeStates \cup {"started"} :
            Append(facts[c], s) \in Seq(OutcomeStates \cup {"started"})
      /\ {"rejected", "started", out[c].state} \subseteq OutcomeStates \cup {"started"}
  BY OutcomeOf DEF Outcome, Outcomes, OutcomeStates
<1>1. CASE Gate(c) \/ AcquireCapacity(c) \/ Reserve(c) \/ Recheck(c)
  <2>1. output' = output /\ (Reject(c) \/ UNCHANGED <<facts, out>>)
    BY <1>1 DEF Gate, AcquireCapacity, Reserve, Recheck
  <2> QED BY <1>0, <2>1, ZenonT(90) DEF Reject
<1>2. CASE Start(c)
  BY <1>0, <1>2, ZenonT(90) DEF Start
<1>3. CASE Prepare(c)
  BY <1>0, <1>3 DEF Prepare
<1>4. CASE Complete(c)
  BY <1>4, CompletedOutcomes DEF Complete
<1>5. CASE GraceOver(c)
  BY <1>5, GraceForm
<1>6. CASE Finalize(c)
  <2>1. PICK f \in {"kept", "unknown", "raised"}, cleaned \in BOOLEAN : FinalizeWith(c, f, cleaned)
    BY <1>6, FinalizeForm
  <2>2. Finalized(c, f, cleaned) \in Outcomes
    BY FinalizedForms
  <2> QED BY <1>6, <2>1, <2>2, FinalizeForm DEF FinalizeWith
<1>7. CASE EmitTerminal(c)
  <2>1. out' = out /\ (facts' = facts \/ facts' = [facts EXCEPT ![c] = Append(@, out[c].state)])
    BY <1>7 DEF EmitTerminal
  <2>2. output' \in [Calls -> {"none", "staged", "committed"}]
    BY <1>7 DEF EmitTerminal
  <2> QED BY <1>0, <2>1, <2>2
<1>8. CASE Interrupt(c) \/ Enter(c) \/ Leave(c) \/ Tick(c) \/ Cancel(c)
  BY <1>8 DEF Interrupt, Enter, Leave, Tick, Cancel
<1> QED BY <1>1, <1>2, <1>3, <1>4, <1>5, <1>6, <1>7, <1>8 DEF CallStep, Step

LEMMA CounterTypesStep == ASSUME TypeOK, NEW c \in Calls, CallStep(c) PROVE CounterTypes'
<1> USE DEF TypeOK, CounterTypes, budgets
<1>0. OpOf[c] \in Ops
  BY CallsAssumption
<1>1. CASE Gate(c) \/ AcquireCapacity(c)
  BY <1>1 DEF Gate, AcquireCapacity
<1>2. CASE Reserve(c)
  BY <1>0, <1>2 DEF Reserve
<1>3. CASE Recheck(c)
  BY <1>0, <1>3 DEF Recheck, RollBack
<1>4. CASE Start(c)
  <2>1. CASE RollBack(c)
    BY <1>0, <2>1 DEF RollBack
  <2>2. CASE lockedBy' = [lockedBy EXCEPT ![OpOf[c]] = NoCall] /\ UNCHANGED <<used, number, credits, active>>
    BY <2>2
  <2> QED BY <1>4, <2>1, <2>2 DEF Start
<1>5. CASE Prepare(c) \/ Enter(c) \/ Leave(c)
  <2>1. UNCHANGED <<used, lockedBy, number, credits>> /\ active' \in {active, active - 1}
    BY <1>5 DEF Prepare, Enter, Leave, Exit
  <2> QED BY <2>1
<1>6. CASE Complete(c) \/ Interrupt(c) \/ GraceOver(c) \/ Finalize(c) \/ EmitTerminal(c)
  BY <1>6 DEF Complete, Interrupt, GraceOver, Finalize, EmitTerminal
<1>7. CASE Tick(c) \/ Cancel(c)
  BY <1>7 DEF Tick, Cancel
<1> QED BY <1>1, <1>2, <1>3, <1>4, <1>5, <1>6, <1>7 DEF CallStep, Step

LEMMA TypesStep == ASSUME TypeOK, [Next]_vars PROVE TypeOK'
<1>1. CASE UNCHANGED vars
  BY <1>1 DEF TypeOK, StageTypes, FlagTypes, ResultTypes, CounterTypes, vars
<1>2. ASSUME NEW c \in Calls, CallStep(c) PROVE TypeOK'
  BY <1>2, StageTypesStep, FlagTypesStep, ResultTypesStep, CounterTypesStep DEF TypeOK
<1> QED BY <1>1, <1>2, NextSteps DEF CallStep

-----------------------------------------------------------------------------
(* A call's own life.                                                      *)

LEMMA LifeStep ==
    ASSUME TypeOK, NEW c \in Calls, CallStep(c), Life(c)
    PROVE  Life(c)'
<1> USE DEF Life, Admission, Supervision, Ended, HasStarted
<1>0. /\ pc[c] \in Stages /\ out[c].state \in OutcomeStates /\ "rejected" \in OutcomeStates
      /\ pc \in [Calls -> Stages] /\ DOMAIN worker = Calls /\ DOMAIN facts = Calls
  BY OutcomeOf DEF TypeOK, StageTypes, ResultTypes, Outcomes, OutcomeStates
<1>1. CASE Gate(c) \/ AcquireCapacity(c) \/ Reserve(c) \/ Recheck(c)
  <2>1. /\ pc[c] \in Admission /\ worker' = worker
        /\ \/ pc'[c] \in Admission /\ facts' = facts
           \/ pc'[c] = "returned" /\ facts'[c] = Append(facts[c], "rejected")
           \/ pc'[c] = "raised" /\ facts' = facts
    BY <1>0, <1>1 DEF Gate, AcquireCapacity, Reserve, Recheck, Reject
  <2> QED BY <1>0, <2>1, OneFact
<1>2. CASE Start(c)
  <2>1. /\ pc[c] = "bound"
        /\ \/ /\ pc'[c] = "started" /\ worker'[c] = "waiting"
              /\ facts'[c] = Append(facts[c], "started")
           \/ pc'[c] = "raised" /\ UNCHANGED <<worker, facts>>
    BY <1>0, <1>2 DEF Start
  <2> QED BY <1>0, <2>1, OneFact
<1>3. CASE Prepare(c)
  <2>1. /\ pc[c] = "started" /\ facts' = facts
        /\ \/ pc'[c] = "supervised" /\ worker'[c] = "open"
           \/ pc'[c] = "unprepared" /\ worker'[c] = "exited"
    BY <1>0, <1>3 DEF Prepare
  <2> QED BY <1>0, <2>1, OneFact
<1>4. CASE Complete(c) \/ Interrupt(c) \/ GraceOver(c) \/ Finalize(c)
  <2>1. /\ UNCHANGED <<worker, facts>> /\ pc[c] \in Supervision \cup {"unprepared"}
        /\ pc'[c] \in Supervision
    BY <1>0, <1>4 DEF Complete, Interrupt, GraceOver, Finalize
  <2> QED BY <1>0, <2>1, OneFact
<1>5. CASE EmitTerminal(c)
  <2>1. /\ pc[c] = "finalized" /\ worker' = worker /\ pc'[c] \in Ended
        /\ facts'[c] \in {facts[c], Append(facts[c], out[c].state)}
    BY <1>0, <1>5 DEF EmitTerminal
  <2> QED BY <1>0, <2>1, OneFact
<1>6. CASE Enter(c) \/ Leave(c)
  <2>1. UNCHANGED <<pc, facts>> /\ worker[c] \in {"open", "running"}
        /\ worker'[c] \in {"running", "exited"}
    BY <1>0, <1>6 DEF Enter, Leave, Exit
  <2> QED BY <1>0, <2>1
<1>7. CASE Tick(c) \/ Cancel(c)
  BY <1>7 DEF Tick, Cancel
<1> QED BY <1>1, <1>2, <1>3, <1>4, <1>5, <1>6, <1>7 DEF CallStep, Step

LEMMA AskedStep ==
    ASSUME TypeOK, NEW c \in Calls, CallStep(c), Life(c), Asked(c)
    PROVE  Asked(c)'
<1> USE DEF Asked
<1>0. /\ pc[c] \in Stages /\ pc \in [Calls -> Stages] /\ DOMAIN worker = Calls
      /\ DOMAIN cancelled = Calls
  BY DEF TypeOK, StageTypes, FlagTypes
<1>1. CASE Gate(c) \/ AcquireCapacity(c) \/ Reserve(c) \/ Recheck(c)
  <2>1. pc[c] \in Admission /\ worker' = worker
    BY <1>1 DEF Gate, AcquireCapacity, Reserve, Recheck, Admission
  <2> QED BY <2>1 DEF Life
<1>2. CASE Start(c) \/ Prepare(c)
  BY <1>0, <1>2 DEF Start, Prepare, Life, Admission
<1>3. CASE Interrupt(c)
  BY <1>0, <1>3 DEF Interrupt
<1>4. CASE Complete(c)
  BY <1>0, <1>4 DEF Complete
<1>5. CASE GraceOver(c)
  BY <1>0, <1>5 DEF GraceOver
<1>6. CASE Finalize(c)
  <2>1. PICK f \in {"kept", "unknown", "raised"}, cleaned \in BOOLEAN : FinalizeWith(c, f, cleaned)
    BY <1>6, FinalizeForm
  <2>2. /\ pc[c] \in {"concluded", "unprepared"} /\ worker' = worker
        /\ cancelled[c] => cancelled'[c]
    BY <1>0, <1>6, <2>1, FinalizeForm DEF FinalizeWith
  <2> QED BY <2>2
<1>7. CASE EmitTerminal(c)
  <2>1. pc[c] = "finalized" /\ worker' = worker /\ (cancelled' = cancelled \/ cancelled'[c])
    BY <1>0, <1>7 DEF EmitTerminal, Unknown, flags
  <2> QED BY <2>1
<1>8. CASE Enter(c) \/ Leave(c)
  <2>1. /\ UNCHANGED <<pc, cancelled>> /\ worker[c] \in {"open", "running"}
    BY <1>8 DEF Enter, Leave, flags
  <2> QED BY <2>1
<1>9. CASE Tick(c) \/ Cancel(c)
  BY <1>0, <1>9 DEF Tick, Cancel, flags
<1> QED BY <1>1, <1>2, <1>3, <1>4, <1>5, <1>6, <1>7, <1>8, <1>9 DEF CallStep, Step

-----------------------------------------------------------------------------
(* Parents and children.                                                   *)

\* Flags are raised only from below a callable that still runs.
LEMMA RaisedBelowWork ==
    ASSUME SInv, NEW c \in Calls, CallStep(c), NEW p \in Parent(c), indet'[p] # indet[p]
    PROVE  worker[p] = "running"
<1>1. indet' # indet
  OBVIOUS
<1>2. Complete(c) \/ GraceOver(c) \/ Finalize(c) \/ EmitTerminal(c)
  BY <1>1, FlagsStep DEF SInv
<1>3. pc[c] \in {"supervised", "expiring", "cancelling", "concluded", "unprepared", "finalized"}
  BY <1>2 DEF Complete, GraceOver, Finalize, EmitTerminal
<1>4. pc[c] \notin {"idle"} \cup Ended
  BY <1>3 DEF Ended
<1> QED BY <1>4 DEF SInv, Nested

\* A finalizer that stages output saw a determinate success and kept it.
LEMMA StagesSuccess ==
    ASSUME SInv, NEW c \in Calls, Finalize(c), output'[c] # "none"
    PROVE  /\ output'[c] = "staged" /\ out'[c] = out[c] /\ out[c].state = "succeeded"
           /\ indet' = indet /\ ~indet[c] /\ worker[c] = "exited"
<1>1. PICK f \in {"kept", "unknown", "raised"}, cleaned \in BOOLEAN : FinalizeWith(c, f, cleaned)
  BY FinalizeForm
<1>2. /\ DOMAIN out = Calls /\ DOMAIN output = Calls /\ out[c] \in Outcomes
      /\ pc[c] \in {"concluded", "unprepared"}
  BY FinalizeForm, OutcomeOf DEF SInv, TypeOK, ResultTypes
<1> DEFINE final == Finalized(c, f, cleaned)
           told == Finalized(c, f, TRUE)
<1>3. /\ NormalOutputAllowed(c) /\ final = out[c] /\ output'[c] = "staged" /\ out'[c] = out[c]
  BY <1>1, <1>2 DEF FinalizeWith
<1>4. out[c].state = "succeeded" /\ ~out[c].indeterminate /\ ~indet[c]
  BY <1>3 DEF NormalOutputAllowed
<1>5. pc[c] = "concluded" /\ worker[c] = "exited"
  <2>1. pc[c] = "unprepared" => out[c].state = "failed"
    <3>1. Outcome("failed", TRUE, FALSE).state = "failed"
      BY DEF Outcome
    <3> QED BY <3>1 DEF SInv, Published
  <2> QED BY <1>2, <1>4, <2>1 DEF SInv, Published
<1>6. f = "kept" /\ cleaned
  <2>1. Indeterminate(out[c]).indeterminate
    BY DEF Indeterminate, Outcome
  <2> QED BY <1>3, <1>4, <1>5, <2>1 DEF Finalized
<1>7. told = out[c]
  BY <1>3, <1>6
<1>8. Mark(c, FALSE, FALSE)
  <2>1. /\ (told.indeterminate \/ (f = "raised" \/ ~cleaned)) = FALSE
        /\ (told.state = "timed_out" /\ ~told.confirmed) = FALSE
    BY <1>2, <1>4, <1>6, <1>7 DEF Outcomes
  <2> HIDE DEF told
  <2> QED BY <1>1, <2>1 DEF FinalizeWith, told
<1>9. indet' = indet
  BY <1>4, <1>8, MarkRaises DEF SInv, TypeOK
<1> QED BY <1>3, <1>4, <1>5, <1>9

LEMMA PublishedStep ==
    ASSUME SInv, NEW c \in Calls, CallStep(c)
    PROVE  Published(c)'
<1> USE DEF Published
<1>0. /\ TypeOK /\ Life(c) /\ Published(c)
      /\ DOMAIN pc = Calls /\ DOMAIN worker = Calls /\ DOMAIN out = Calls /\ DOMAIN facts = Calls
      /\ DOMAIN output = Calls
      /\ output[c] \in {"none", "staged", "committed"}
      /\ NoOutcome.state = "none" /\ Outcome("failed", TRUE, FALSE).state = "failed"
  BY DEF SInv, TypeOK, StageTypes, ResultTypes, NoOutcome, Outcome
<1>1. CASE Gate(c) \/ AcquireCapacity(c) \/ Reserve(c) \/ Recheck(c)
  <2>1. /\ pc[c] \in Admission /\ UNCHANGED <<worker, output>>
        /\ (pc'[c] \in Admission /\ out' = out) \/ pc'[c] \in Ended
    BY <1>0, <1>1 DEF Gate, AcquireCapacity, Reserve, Recheck, Reject, Admission, Ended
  <2>2. output[c] = "none"
    BY <1>0, <2>1 DEF Life
  <2> QED BY <1>0, <2>1, <2>2 DEF Admission, Ended
<1>2. CASE Start(c)
  <2>1. /\ pc[c] = "bound" /\ UNCHANGED <<out, output>> /\ pc'[c] \in {"started", "raised"}
    BY <1>0, <1>2 DEF Start
  <2>2. output[c] = "none"
    BY <1>0, <2>1 DEF Life, Admission
  <2> QED BY <1>0, <2>1, <2>2 DEF Admission
<1>3. CASE Prepare(c)
  <2>1. /\ pc[c] = "started" /\ UNCHANGED output
        /\ \/ pc'[c] = "supervised" /\ out' = out
           \/ pc'[c] = "unprepared" /\ out'[c] = Outcome("failed", TRUE, FALSE)
    BY <1>0, <1>3 DEF Prepare
  <2> QED BY <1>0, <2>1 DEF Admission
<1>4. CASE Complete(c)
  <2>1. /\ pc[c] = "supervised" /\ worker[c] = "exited" /\ UNCHANGED <<worker, output>>
        /\ pc'[c] = "concluded"
    BY <1>0, <1>4 DEF Complete
  <2> QED BY <1>0, <2>1 DEF Admission
<1>5. CASE Interrupt(c)
  <2>1. /\ pc[c] = "supervised" /\ UNCHANGED <<out, output>>
        /\ pc'[c] \in {"expiring", "cancelling"}
    BY <1>0, <1>5 DEF Interrupt
  <2> QED BY <1>0, <2>1 DEF Admission
<1>6. CASE GraceOver(c)
  <2>1. /\ pc[c] \in {"expiring", "cancelling"} /\ UNCHANGED output /\ pc'[c] = "concluded"
        /\ out'[c].state # "succeeded"
    BY <1>0, <1>6, GraceForm
  <2> QED BY <1>0, <2>1 DEF Admission
<1>7. CASE Finalize(c)
  <2>1. pc'[c] = "finalized" /\ worker' = worker /\ output'[c] \in {"none", "staged"}
    <3>1. PICK f \in {"kept", "unknown", "raised"}, cleaned \in BOOLEAN : FinalizeWith(c, f, cleaned)
      BY <1>7, FinalizeForm
    <3>2. output'[c] \in {"none", "staged"}
      BY <1>0, <3>1 DEF FinalizeWith
    <3> QED BY <1>0, <1>7, <3>2, FinalizeForm
  <2> QED BY <1>7, <2>1, StagesSuccess DEF Admission
<1>8. CASE EmitTerminal(c)
  <2>1. /\ pc[c] = "finalized" /\ UNCHANGED <<worker, out>> /\ pc'[c] \in Ended
        /\ \/ output'[c] = "none"
           \/ /\ pc'[c] = "returned" /\ indet' = indet
              /\ output'[c] = IF output[c] = "staged" THEN "committed" ELSE output[c]
              /\ facts'[c] = Append(facts[c], out[c].state)
    BY <1>0, <1>8 DEF EmitTerminal, Ended, flags
  <2>2. output[c] # "committed" /\ facts[c] = <<"started">>
    BY <1>0, <2>1 DEF Life, Supervision
  <2>3. output[c] = "staged" => Append(facts[c], out[c].state) = <<"started", "succeeded">>
    <3>1. "succeeded" \in OutcomeStates
      BY DEF OutcomeStates
    <3> QED BY <1>0, <2>2, <3>1, OneFact
  <2> QED BY <1>0, <2>1, <2>2, <2>3 DEF Admission, Ended
<1>9. CASE Enter(c) \/ Leave(c)
  <2>1. UNCHANGED <<pc, out, output, indet>> /\ worker[c] \in {"open", "running"}
    BY <1>9 DEF Enter, Leave, flags
  <2> QED BY <1>0, <2>1
<1>10. CASE Tick(c) \/ Cancel(c)
  BY <1>0, <1>10 DEF Tick, Cancel, flags
<1> QED BY <1>1, <1>2, <1>3, <1>4, <1>5, <1>6, <1>7, <1>8, <1>9, <1>10 DEF CallStep, Step

\* How a call and its attempt thread progress.
LEMMA StageMoves ==
    ASSUME TypeOK, NEW c \in Calls, Life(c), CallStep(c)
    PROVE  /\ pc[c] \in Ended => pc'[c] = pc[c]
           /\ pc[c] = "idle" /\ pc'[c] # "idle" =>
                 worker' = worker /\ \A p \in Parent(c) : worker[p] = "running"
           /\ worker[c] = "exited" => worker'[c] = "exited"
           /\ worker[c] = "running" =>
                 \/ worker'[c] = "running"
                 \/ /\ worker'[c] = "exited" /\ pc' = pc
                    /\ \A d \in Children(c) : pc[d] \in {"idle"} \cup Ended
<1> USE DEF Ended
<1>0. DOMAIN pc = Calls /\ DOMAIN worker = Calls
  BY DEF TypeOK, StageTypes
<1>1. CASE Gate(c)
  <2>1. /\ pc[c] = "idle" /\ worker' = worker /\ \A p \in Parent(c) : worker[p] = "running"
    BY <1>1 DEF Gate
  <2> QED BY <2>1
<1>2. CASE AcquireCapacity(c) \/ Reserve(c) \/ Recheck(c)
  BY <1>2 DEF AcquireCapacity, Reserve, Recheck
<1>3. CASE Start(c)
  <2>1. pc[c] = "bound" /\ worker[c] = "none"
    BY <1>3 DEF Start, Life, Admission
  <2> QED BY <2>1
<1>4. CASE Prepare(c)
  <2>1. pc[c] = "started" /\ worker[c] = "waiting"
    BY <1>4 DEF Prepare, Life
  <2> QED BY <2>1
<1>5. CASE Complete(c) \/ Interrupt(c) \/ GraceOver(c) \/ Finalize(c) \/ EmitTerminal(c)
  <2>1. pc[c] \in Supervision \cup {"unprepared"} /\ worker' = worker
    BY <1>5 DEF Complete, Interrupt, GraceOver, Finalize, EmitTerminal, Supervision
  <2> QED BY <2>1 DEF Supervision
<1>6. CASE Enter(c)
  <2>1. pc' = pc /\ worker[c] = "open"
    BY <1>6 DEF Enter
  <2> QED BY <2>1
<1>7. CASE Leave(c)
  <2>1. /\ pc' = pc /\ worker[c] = "running" /\ worker'[c] = "exited"
        /\ \A d \in Children(c) : pc[d] \in {"idle"} \cup Ended
    BY <1>0, <1>7 DEF Leave, Exit, Returned
  <2> QED BY <2>1
<1>8. CASE Tick(c) \/ Cancel(c)
  BY <1>8 DEF Tick, Cancel
<1> QED BY <1>1, <1>2, <1>3, <1>4, <1>5, <1>6, <1>7, <1>8 DEF CallStep, Step

LEMMA NestedStep ==
    ASSUME SInv, NEW c \in Calls, CallStep(c), NEW d \in Calls, NEW p \in Parent(d)
    PROVE  Nested(d, p)'
<1>0. /\ TypeOK /\ Nested(d, p) /\ p \in Calls /\ d \in Children(p) /\ Life(c)
  BY DEF SInv, Parent, Children
<1>1. Others(c)
  BY <1>0, FrameStep
<1>2. CASE pc[d] = "idle" /\ pc'[d] # "idle"
  <2>1. d = c
    BY <1>1, <1>2 DEF Others
  <2>2. worker' = worker /\ worker[p] = "running"
    BY <1>0, <1>2, <2>1, StageMoves
  <2> QED BY <2>2 DEF Nested
<1>3. CASE pc[d] # "idle"
  <2>1. worker[p] \in {"running", "exited"}
    BY <1>0, <1>3 DEF Nested
  <2>2. worker'[p] \in {"running", "exited"}
    <3>1. CASE p = c
      BY <1>0, <2>1, <3>1, StageMoves
    <3>2. CASE p # c
      BY <1>0, <1>1, <2>1, <3>2 DEF Others
    <3> QED BY <3>1, <3>2
  <2>3. ASSUME pc'[d] \notin {"idle"} \cup Ended PROVE worker'[p] = "running"
    <3>1. pc[d] \notin Ended
      BY <1>0, <1>1, <2>3, StageMoves DEF Others
    <3>2. worker[p] = "running"
      BY <1>0, <1>3, <3>1 DEF Nested
    <3>3. CASE p = c
      <4>1. \/ worker'[c] = "running"
            \/ pc' = pc /\ \A k \in Children(c) : pc[k] \in {"idle"} \cup Ended
        BY <1>0, <3>2, <3>3, StageMoves
      <4> QED BY <1>0, <1>3, <3>1, <3>3, <4>1
    <3>4. CASE p # c
      BY <1>0, <1>1, <3>2, <3>4 DEF Others
    <3> QED BY <3>3, <3>4
  <2> QED BY <2>2, <2>3 DEF Nested
<1> QED BY <1>2, <1>3 DEF Nested

\* A call whose effect becomes unknown, or that stops supervising a callable
\* which lives on, has told its parent.
LEMMA TellsParent ==
    ASSUME SInv, NEW c \in Calls, CallStep(c), NEW p \in Parent(c), ~indet'[p],
           out'[c].indeterminate \/ (IsAlive(c)' /\ pc'[c] \in {"concluded", "finalized"} \cup Ended)
    PROVE  out[c].indeterminate \/ (IsAlive(c) /\ pc[c] \in {"concluded", "finalized"} \cup Ended)
<1> USE DEF IsAlive
<1>0. /\ TypeOK /\ Life(c) /\ FlagTypes
      /\ DOMAIN pc = Calls /\ DOMAIN worker = Calls /\ DOMAIN out = Calls
      /\ ~Outcome("rejected", TRUE, FALSE).indeterminate
      /\ ~Outcome("failed", TRUE, FALSE).indeterminate
  BY DEF SInv, TypeOK, StageTypes, ResultTypes, Outcome
<1>1. CASE Gate(c) \/ AcquireCapacity(c) \/ Reserve(c) \/ Recheck(c)
  <2>1. /\ pc[c] \in Admission /\ worker' = worker
        /\ out' = out \/ out'[c] = Outcome("rejected", TRUE, FALSE)
    BY <1>0, <1>1 DEF Gate, AcquireCapacity, Reserve, Recheck, Reject, Admission
  <2> QED BY <1>0, <2>1 DEF Life
<1>2. CASE Start(c)
  <2>1. /\ pc[c] = "bound" /\ out' = out
        /\ pc'[c] = "started" \/ (pc'[c] = "raised" /\ worker' = worker)
    BY <1>0, <1>2 DEF Start
  <2>2. worker[c] = "none"
    BY <1>0, <2>1 DEF Life, Admission
  <2> QED BY <2>1, <2>2 DEF Ended
<1>3. CASE Prepare(c)
  <2>1. /\ pc'[c] \in {"supervised", "unprepared"}
        /\ out' = out \/ out'[c] = Outcome("failed", TRUE, FALSE)
    BY <1>0, <1>3 DEF Prepare
  <2> QED BY <1>0, <2>1 DEF Ended
<1>4. CASE Interrupt(c)
  <2>1. out' = out /\ pc'[c] \in {"expiring", "cancelling"}
    BY <1>0, <1>4 DEF Interrupt
  <2> QED BY <2>1 DEF Ended
<1>5. CASE Complete(c)
  <2>1. /\ Mark(c, FALSE, FALSE) /\ out'[c] = CompletedOutcome(c) /\ worker'[c] = "exited"
    BY <1>0, <1>5 DEF Complete
  <2>2. indet[c]
    BY <1>0, <2>1, CompletedOutcomes
  <2> QED BY <1>0, <2>1, <2>2, MarkRaises
<1>6. CASE GraceOver(c)
  <2>1. PICK u \in BOOLEAN :
           /\ Mark(c, FALSE, u)
           /\ worker[c] # "exited" => u
           /\ GraceOutcome(c).indeterminate => u \/ indet[c]
    BY <1>0, <1>6, GraceForm
  <2>2. worker' = worker /\ out'[c] = GraceOutcome(c)
    BY <1>0, <1>6, GraceForm
  <2>3. u \/ indet[c]
    BY <2>1, <2>2
  <2> QED BY <1>0, <2>1, <2>3, MarkRaises
<1>7. CASE Finalize(c)
  <2>1. PICK f \in {"kept", "unknown", "raised"}, cleaned \in BOOLEAN : FinalizeWith(c, f, cleaned)
    BY <1>7, FinalizeForm
  <2> DEFINE final == Finalized(c, f, cleaned)
             told == Finalized(c, f, TRUE)
             i == told.indeterminate \/ (f = "raised" \/ ~cleaned)
             u == told.state = "timed_out" /\ ~told.confirmed
  <2>2. worker' = worker /\ pc[c] \in {"concluded", "unprepared"} /\ out'[c] = final
    BY <1>0, <1>7, <2>1, FinalizeForm DEF FinalizeWith
  <2>3. told \in Outcomes /\ (final.indeterminate => ~cleaned \/ told.indeterminate)
    BY <1>0, FinalizedForms
  <2>4. i \in BOOLEAN /\ u \in BOOLEAN /\ (final.indeterminate => i)
    BY <2>3 DEF Outcomes
  <2>5. Mark(c, i, u)
    BY <2>1 DEF FinalizeWith
  <2> HIDE DEF i, u, final, told
  <2>6. ~i
    BY <1>0, <2>4, <2>5, MarkRaises
  <2>7. IsAlive(c)
    BY <2>2, <2>4, <2>6
  <2> QED BY <1>0, <2>2, <2>7 DEF Life
<1>8. CASE EmitTerminal(c)
  BY <1>8 DEF EmitTerminal
<1>9. CASE Enter(c) \/ Leave(c)
  <2>1. UNCHANGED <<pc, out>> /\ worker[c] \in {"open", "running"}
    BY <1>9 DEF Enter, Leave
  <2> QED BY <2>1
<1>10. CASE Tick(c) \/ Cancel(c)
  BY <1>10 DEF Tick, Cancel
<1> QED BY <1>1, <1>2, <1>3, <1>4, <1>5, <1>6, <1>7, <1>8, <1>9, <1>10 DEF CallStep, Step

LEMMA FlaggedStep ==
    ASSUME SInv, NEW c \in Calls, CallStep(c), NEW d \in Calls, NEW p \in Parent(d)
    PROVE  Flagged(d, p)'
<1>0. /\ TypeOK /\ Flagged(d, p) /\ p \in Calls
  BY DEF SInv, Parent
<1>1. Others(c) /\ (indet[p] => indet'[p])
  BY <1>0, FrameStep, FlagsStep DEF FlagsRise
<1>2. CASE d = c
  BY <1>0, <1>1, <1>2, TellsParent DEF Flagged
<1>3. CASE d # c
  BY <1>0, <1>1, <1>3 DEF Flagged, Others, IsAlive
<1> QED BY <1>2, <1>3

LEMMA SInvStep == ASSUME SInv, [Next]_vars PROVE SInv'
<1>1. CASE UNCHANGED vars
  <2>1. TypeOK'
    BY <1>1, TypesStep DEF SInv
  <2> QED BY <1>1, <2>1, ZenonT(60) DEF SInv, vars, Life, Asked, Published, Nested, Flagged, HasStarted,
                            IsAlive
<1>2. ASSUME NEW c \in Calls, CallStep(c) PROVE SInv'
  <2>1. TypeOK /\ TypeOK'
    BY <1>2, StageTypesStep, FlagTypesStep, ResultTypesStep, CounterTypesStep DEF TypeOK, SInv
  <2>2. ASSUME NEW d \in Calls PROVE (Life(d) /\ Asked(d) /\ Published(d))'
    <3>0. Life(d) /\ Asked(d) /\ Published(d)
      BY DEF SInv
    <3>1. CASE d = c
      BY <1>2, <2>1, <3>0, <3>1, LifeStep, AskedStep, PublishedStep
    <3>2. CASE d # c
      <4>1. Others(c)
        BY <1>2, <2>1, FrameStep
      <4>2. Life(d)' /\ Asked(d)'
        BY <3>0, <3>2, <4>1 DEF Others, Life, Asked, HasStarted
      <4>3. output'[d] # "none" => ~indet'[d]
        <5>1. CASE indet'[d] = indet[d]
          BY <3>0, <3>2, <4>1, <5>1 DEF Others, Published
        <5>2. CASE indet'[d] # indet[d]
          <6>1. indet'[d] \in BOOLEAN /\ indet[d] \in BOOLEAN
            BY <2>1 DEF TypeOK, FlagTypes
          <6>2. d \in Parent(c)
            BY <1>2, <2>1, <3>2, <5>2, <6>1, FlagsStep DEF FlagsRise
          <6>3. worker[d] = "running"
            BY <1>2, <5>2, <6>2, RaisedBelowWork
          <6> QED BY <3>0, <3>2, <4>1, <6>3 DEF Others, Published
        <5> QED BY <5>1, <5>2
      <4>4. Published(d)'
        BY <3>0, <3>2, <4>1, <4>3 DEF Others, Published
      <4> QED BY <4>2, <4>4
    <3> QED BY <3>1, <3>2
  <2>3. \A d \in Calls : \A p \in Parent(d) : (Nested(d, p) /\ Flagged(d, p))'
    BY <1>2, NestedStep, FlaggedStep
  <2> QED BY <2>1, <2>2, <2>3 DEF SInv, Parent
<1> QED BY <1>1, <1>2, NextSteps DEF CallStep

-----------------------------------------------------------------------------
(* Capacity.                                                               *)

\* A step takes a slot, gives one back, or leaves the capacity alone.
LEMMA SlotMoves ==
    ASSUME SInv, NEW c \in Calls, CallStep(c)
    PROVE  \/ c \notin Holders /\ c \in Holders' /\ active' = active + 1
           \/ c \in Holders /\ c \notin Holders' /\ active' = active - 1
           \/ (c \in Holders <=> c \in Holders') /\ active' = active
<1> USE DEF Holders, IsAlive
<1>0. TypeOK /\ Life(c) /\ DOMAIN pc = Calls /\ DOMAIN worker = Calls
  BY DEF SInv, TypeOK, StageTypes
<1>1. CASE Gate(c)
  <2>1. pc[c] = "idle" /\ pc'[c] \in {"gated"} \cup Ended /\ UNCHANGED <<worker, active>>
    BY <1>0, <1>1 DEF Gate, Reject, Ended
  <2> QED BY <2>1 DEF Ended
<1>2. CASE AcquireCapacity(c)
  <2>1. /\ pc[c] = "gated" /\ worker' = worker
        /\ \/ pc'[c] = "slotted" /\ active' = active + 1
           \/ pc'[c] \in Ended /\ active' = active
    BY <1>0, <1>2 DEF AcquireCapacity, Reject, Ended
  <2>2. worker[c] = "none"
    BY <1>0, <2>1 DEF Life, Admission
  <2> QED BY <2>1, <2>2 DEF Ended
<1>3. CASE Reserve(c) \/ Recheck(c)
  <2>1. /\ pc[c] \in {"slotted", "reserved"} /\ worker' = worker
        /\ \/ pc'[c] \in {"reserved", "bound"} /\ active' = active
           \/ pc'[c] \in Ended /\ active' = active - 1
    BY <1>0, <1>3 DEF Reserve, Recheck, Reject, RollBack, Ended
  <2>2. worker[c] = "none"
    BY <1>0, <2>1 DEF Life, Admission
  <2> QED BY <2>1, <2>2 DEF Ended
<1>4. CASE Start(c)
  <2>1. /\ pc[c] = "bound"
        /\ \/ worker'[c] = "waiting" /\ active' = active
           \/ pc'[c] = "raised" /\ worker' = worker /\ active' = active - 1
    BY <1>0, <1>4 DEF Start, RollBack
  <2>2. worker[c] = "none"
    BY <1>0, <2>1 DEF Life, Admission
  <2> QED BY <2>1, <2>2
<1>5. CASE Prepare(c)
  <2>1. /\ pc[c] = "started" /\ pc'[c] \in {"supervised", "unprepared"}
        /\ \/ worker'[c] = "open" /\ active' = active
           \/ worker'[c] = "exited" /\ active' = active - 1
    BY <1>0, <1>5 DEF Prepare
  <2>2. worker[c] = "waiting"
    BY <1>0, <2>1 DEF Life
  <2> QED BY <2>1, <2>2
<1>6. CASE Complete(c) \/ Interrupt(c) \/ GraceOver(c) \/ Finalize(c) \/ EmitTerminal(c)
  <2>1. /\ pc[c] \in {"unprepared"} \cup Supervision /\ pc'[c] \in Supervision \cup Ended
        /\ UNCHANGED <<worker, active>>
    BY <1>0, <1>6 DEF Complete, Interrupt, GraceOver, Finalize, EmitTerminal, Supervision, Ended
  <2> QED BY <2>1 DEF Supervision, Ended
<1>7. CASE Enter(c) \/ Leave(c)
  <2>1. /\ pc' = pc /\ worker[c] \in {"open", "running"}
        /\ \/ worker'[c] = "running" /\ active' = active
           \/ worker'[c] = "exited" /\ active' = active - 1
    BY <1>0, <1>7 DEF Enter, Leave, Exit
  <2>2. pc[c] \notin Admission
    BY <1>0, <2>1 DEF Life
  <2> QED BY <2>1, <2>2 DEF Admission
<1>8. CASE Tick(c) \/ Cancel(c)
  BY <1>8 DEF Tick, Cancel
<1> QED BY <1>1, <1>2, <1>3, <1>4, <1>5, <1>6, <1>7, <1>8 DEF CallStep, Step

LEMMA CapacityStep ==
    ASSUME SInv, active = Cardinality(Holders), [Next]_vars
    PROVE  active' = Cardinality(Holders')
<1>0. IsFiniteSet(Holders) /\ Cardinality(Holders) \in Nat
  <2>1. Holders \subseteq Calls
    BY DEF Holders
  <2> QED BY <2>1, CallsAssumption, FS_Subset, FS_CardinalityType
<1>1. CASE UNCHANGED vars
  <2>1. Holders' = Holders /\ active' = active
    BY <1>1 DEF vars, Holders, IsAlive
  <2>2. Cardinality(Holders') = Cardinality(Holders)
    BY <2>1, Zenon
  <2> QED BY <2>1, <2>2
<1>2. ASSUME NEW c \in Calls, CallStep(c) PROVE active' = Cardinality(Holders')
  <2>1. Others(c)
    BY <1>2, FrameStep DEF SInv
  <2>2. \A d \in Calls : d # c => (d \in Holders <=> d \in Holders')
    BY <2>1 DEF Others, Holders, IsAlive
  <2>3. Holders \subseteq Calls /\ Holders' \subseteq Calls
    BY DEF Holders
  <2>4. CASE c \notin Holders /\ c \in Holders' /\ active' = active + 1
    <3>1. Holders' = Holders \cup {c}
      BY <2>2, <2>3, <2>4
    <3>2. Cardinality(Holders') = Cardinality(Holders \cup {c})
      BY <3>1, Zenon
    <3>3. Cardinality(Holders \cup {c}) = Cardinality(Holders) + 1
      BY <1>0, <2>4, FS_AddElement
    <3> QED BY <2>4, <3>2, <3>3
  <2>5. CASE c \in Holders /\ c \notin Holders' /\ active' = active - 1
    <3>1. Holders' = Holders \ {c}
      BY <2>2, <2>3, <2>5
    <3>2. Cardinality(Holders') = Cardinality(Holders \ {c})
      BY <3>1, Zenon
    <3>3. Cardinality(Holders \ {c}) = Cardinality(Holders) - 1
      BY <1>0, <2>5, FS_RemoveElement
    <3> QED BY <2>5, <3>2, <3>3
  <2>6. CASE (c \in Holders <=> c \in Holders') /\ active' = active
    <3>1. Holders' = Holders
      BY <2>2, <2>3, <2>6
    <3>2. Cardinality(Holders') = Cardinality(Holders)
      BY <3>1, Zenon
    <3> QED BY <2>6, <3>2
  <2> QED BY <1>2, <2>4, <2>5, <2>6, SlotMoves
<1> QED BY <1>1, <1>2, NextSteps DEF CallStep

-----------------------------------------------------------------------------
(* The local budget and the credits.                                       *)

Numbering(o) ==
    /\ used[o] = Cardinality(StartsOf(o)) + (IF lockedBy[o] = NoCall THEN 0 ELSE 1)
    /\ {number[c] : c \in StartsOf(o)} = 1..Cardinality(StartsOf(o))

Retries == {c \in Calls : number[c] > 1}

BInv == SInv /\ Reserved /\ credits = Cardinality(Retries) /\ \A o \in Ops : Numbering(o)

ReservesFor(c) ==
    LET o == OpOf[c] IN
    /\ lockedBy[o] = NoCall /\ ~HoldsLock(c) /\ HoldsLock(c)' /\ worker' = worker
    /\ worker[c] = "none"
    /\ used' = [used EXCEPT ![o] = @ + 1] /\ number' = [number EXCEPT ![c] = used[o] + 1]
    /\ lockedBy' = [lockedBy EXCEPT ![o] = c]
    /\ credits' = credits + (IF used[o] > 0 THEN 1 ELSE 0)

UndoneFor(c) ==
    /\ HoldsLock(c) /\ ~HoldsLock(c)' /\ worker' = worker /\ worker[c] = "none"
    /\ RollBack(c)

CommitsFor(c) ==
    /\ HoldsLock(c) /\ ~HoldsLock(c)' /\ worker[c] = "none" /\ worker'[c] # "none"
    /\ lockedBy' = [lockedBy EXCEPT ![OpOf[c]] = NoCall] /\ UNCHANGED <<used, number, credits>>

\* A reservation is made, undone or committed, or the budgets stay as they are.
LEMMA BudgetMoves ==
    ASSUME SInv, NEW c \in Calls, CallStep(c)
    PROVE  \/ ReservesFor(c)
           \/ UndoneFor(c)
           \/ CommitsFor(c)
           \/ /\ UNCHANGED budgets
              /\ HoldsLock(c) <=> HoldsLock(c)'
              /\ worker[c] = "none" <=> worker'[c] = "none"
<1>0. TypeOK /\ Life(c) /\ DOMAIN pc = Calls /\ DOMAIN worker = Calls
  BY DEF SInv, TypeOK, StageTypes
<1>1. CASE Gate(c) \/ AcquireCapacity(c)
  <2>1. /\ pc[c] \in {"idle", "gated"} /\ pc'[c] \in {"gated", "slotted"} \cup Ended
        /\ worker' = worker /\ UNCHANGED budgets
    BY <1>0, <1>1 DEF Gate, AcquireCapacity, Reject, Ended
  <2> QED BY <2>1 DEF Ended, HoldsLock
<1>2. CASE Reserve(c)
  <2>1. pc[c] = "slotted" /\ worker' = worker /\ worker[c] = "none"
    BY <1>0, <1>2 DEF Reserve, Life, Admission
  <2>2. CASE Reject(c) /\ UNCHANGED budgets
    <3>1. pc'[c] \in Ended
      BY <1>0, <2>2 DEF Reject, Ended
    <3> QED BY <2>1, <2>2, <3>1 DEF Ended, HoldsLock
  <2>3. CASE pc' = [pc EXCEPT ![c] = "reserved"]
    <3>1. HoldsLock(c)' /\ ~HoldsLock(c)
      BY <1>0, <2>1, <2>3 DEF HoldsLock
    <3>2. ReservesFor(c) \/ Reject(c)
      BY <1>2, <2>1, <3>1 DEF Reserve, LockFree, ReservesFor
    <3>3. ~Reject(c)
      BY <1>0, <2>3 DEF Reject
    <3> QED BY <3>2, <3>3
  <2> QED BY <1>2, <2>2, <2>3 DEF Reserve
<1>3. CASE Recheck(c)
  <2>1. pc[c] = "reserved" /\ worker' = worker /\ worker[c] = "none"
    BY <1>0, <1>3 DEF Recheck, Life, Admission
  <2>2. \/ pc'[c] = "bound" /\ UNCHANGED budgets
        \/ pc'[c] \in Ended /\ RollBack(c)
    BY <1>0, <1>3 DEF Recheck, Reject, Ended
  <2> QED BY <2>1, <2>2 DEF HoldsLock, UndoneFor, Ended
<1>4. CASE Start(c)
  <2>1. pc[c] = "bound" /\ worker[c] = "none"
    BY <1>0, <1>4 DEF Start, Life, Admission
  <2>2. \/ /\ pc'[c] = "started" /\ worker'[c] = "waiting"
           /\ lockedBy' = [lockedBy EXCEPT ![OpOf[c]] = NoCall]
           /\ UNCHANGED <<used, number, credits>>
        \/ pc'[c] = "raised" /\ worker' = worker /\ RollBack(c)
    BY <1>0, <1>4 DEF Start
  <2> QED BY <2>1, <2>2 DEF HoldsLock, UndoneFor, CommitsFor
<1>5. CASE Prepare(c)
  <2>1. /\ pc[c] = "started" /\ pc'[c] \in {"supervised", "unprepared"} /\ UNCHANGED budgets
        /\ worker'[c] # "none"
    BY <1>0, <1>5 DEF Prepare
  <2>2. worker[c] = "waiting"
    BY <1>0, <2>1 DEF Life
  <2> QED BY <2>1, <2>2 DEF HoldsLock
<1>6. CASE Complete(c) \/ Interrupt(c) \/ GraceOver(c) \/ Finalize(c) \/ EmitTerminal(c)
  <2>1. /\ pc[c] \in {"unprepared"} \cup Supervision /\ pc'[c] \in Supervision \cup Ended
        /\ worker' = worker /\ UNCHANGED budgets
    BY <1>0, <1>6 DEF Complete, Interrupt, GraceOver, Finalize, EmitTerminal, Supervision, Ended
  <2> QED BY <2>1 DEF Supervision, Ended, HoldsLock
<1>7. CASE Enter(c) \/ Leave(c)
  <2>1. /\ pc' = pc /\ worker[c] # "none" /\ worker'[c] # "none" /\ UNCHANGED budgets
    BY <1>0, <1>7 DEF Enter, Leave, Exit
  <2> QED BY <2>1 DEF HoldsLock
<1>8. CASE Tick(c) \/ Cancel(c)
  BY <1>8 DEF Tick, Cancel, HoldsLock
<1> QED BY <1>1, <1>2, <1>3, <1>4, <1>5, <1>6, <1>7, <1>8 DEF CallStep, Step

LEMMA ReservedStep ==
    ASSUME SInv, Reserved, \A q \in Ops : used[q] >= 0, NEW c \in Calls, CallStep(c)
    PROVE  Reserved'
<1> DEFINE o == OpOf[c]
<1>0. /\ TypeOK /\ Others(c) /\ o \in Ops /\ OpOf \in [Calls -> Ops] /\ NoCall \notin Calls
      /\ \A d \in Calls : d # c => (HoldsLock(d) <=> HoldsLock(d)') /\ worker'[d] = worker[d]
                                   /\ number'[d] = number[d]
      /\ used \in [Ops -> Int] /\ number \in [Calls -> Int]
      /\ lockedBy \in [Ops -> Calls \cup {NoCall}]
  BY CallsAssumption, FrameStep DEF SInv, Others, HoldsLock, TypeOK, CounterTypes
<1>1. ASSUME ReservesFor(c) PROVE Reserved'
  <2>1. /\ \A d \in Calls : number'[d] = IF d = c THEN used[o] + 1 ELSE number[d]
        /\ \A q \in Ops : /\ used'[q] = IF q = o THEN used[o] + 1 ELSE used[q]
                          /\ lockedBy'[q] = IF q = o THEN c ELSE lockedBy[q]
        /\ lockedBy[o] = NoCall /\ ~HoldsLock(c) /\ HoldsLock(c)' /\ used[o] >= 0
    BY <1>0, <1>1 DEF ReservesFor
  <2> HIDE DEF o
  <2>2. ASSUME NEW d \in Calls, HoldsLock(d)'
        PROVE  lockedBy'[OpOf[d]] = d /\ number'[d] = used'[OpOf[d]]
    <3>1. CASE d = c
      BY <1>0, <2>1, <3>1 DEF o
    <3>2. CASE d # c
      <4>1. lockedBy[OpOf[d]] = d /\ number[d] = used[OpOf[d]]
        BY <1>0, <2>2, <3>2 DEF Reserved
      <4>2. OpOf[d] # o
        BY <1>0, <2>1, <4>1
      <4> QED BY <1>0, <2>1, <3>2, <4>1, <4>2
    <3> QED BY <3>1, <3>2
  <2>3. ASSUME NEW q \in Ops, NEW k \in Calls, lockedBy'[q] = k
        PROVE  HoldsLock(k)' /\ OpOf[k] = q
    <3>1. CASE q = o
      BY <2>1, <2>3, <3>1 DEF o
    <3>2. CASE q # o
      <4>1. HoldsLock(k) /\ OpOf[k] = q
        BY <2>1, <2>3, <3>2 DEF Reserved
      <4> QED BY <1>0, <2>1, <4>1
    <3> QED BY <3>1, <3>2
  <2>4. ASSUME NEW d \in Calls
        PROVE  number'[d] # 0 <=> HoldsLock(d)' \/ worker'[d] # "none"
    <3>1. CASE d = c
      BY <1>0, <2>1, <3>1
    <3>2. CASE d # c
      BY <1>0, <2>1, <3>2 DEF Reserved
    <3> QED BY <3>1, <3>2
  <2> QED BY <2>2, <2>3, <2>4 DEF Reserved
<1>2. ASSUME HoldsLock(c), ~HoldsLock(c)', lockedBy' = [lockedBy EXCEPT ![o] = NoCall],
             \A q \in Ops : q # o => used'[q] = used[q],
             number'[c] # 0 <=> worker'[c] # "none"
      PROVE  Reserved'
  <2>1. /\ lockedBy[o] = c
        /\ \A q \in Ops : lockedBy'[q] = IF q = o THEN NoCall ELSE lockedBy[q]
    BY <1>0, <1>2 DEF Reserved
  <2> HIDE DEF o
  <2>2. ASSUME NEW d \in Calls, HoldsLock(d)'
        PROVE  lockedBy'[OpOf[d]] = d /\ number'[d] = used'[OpOf[d]]
    <3>1. d # c /\ HoldsLock(d)
      BY <1>0, <1>2, <2>2
    <3>2. lockedBy[OpOf[d]] = d /\ number[d] = used[OpOf[d]]
      BY <3>1 DEF Reserved
    <3>3. OpOf[d] # o /\ OpOf[d] \in Ops
      BY <1>0, <2>1, <3>1, <3>2
    <3> QED BY <1>0, <1>2, <2>1, <3>1, <3>2, <3>3
  <2>3. ASSUME NEW q \in Ops, NEW k \in Calls, lockedBy'[q] = k
        PROVE  HoldsLock(k)' /\ OpOf[k] = q
    <3>1. q # o /\ lockedBy[q] = k
      BY <1>0, <2>1, <2>3
    <3>2. HoldsLock(k) /\ OpOf[k] = q
      BY <3>1 DEF Reserved
    <3> QED BY <1>0, <3>1, <3>2 DEF o
  <2>4. ASSUME NEW d \in Calls
        PROVE  number'[d] # 0 <=> HoldsLock(d)' \/ worker'[d] # "none"
    <3>1. CASE d = c
      BY <1>2, <3>1
    <3>2. CASE d # c
      BY <1>0, <3>2 DEF Reserved
    <3> QED BY <3>1, <3>2
  <2> QED BY <2>2, <2>3, <2>4 DEF Reserved
<1>3. ASSUME UNCHANGED budgets, HoldsLock(c) <=> HoldsLock(c)',
             worker[c] = "none" <=> worker'[c] = "none"
      PROVE  Reserved'
  <2>1. UNCHANGED <<used, lockedBy, number>>
    BY <1>3 DEF budgets
  <2>2. \A d \in Calls : /\ HoldsLock(d) <=> HoldsLock(d)'
                         /\ worker[d] = "none" <=> worker'[d] = "none"
    BY <1>0, <1>3
  <2> QED BY <2>1, <2>2 DEF Reserved
<1>4. CASE UndoneFor(c)
  <2>1. /\ \A q \in Ops : q # o => used'[q] = used[q]
        /\ number'[c] = 0 /\ worker'[c] = "none" /\ HoldsLock(c) /\ ~HoldsLock(c)'
        /\ lockedBy' = [lockedBy EXCEPT ![o] = NoCall]
    BY <1>0, <1>4 DEF UndoneFor, RollBack
  <2> QED BY <1>2, <2>1
<1>5. CASE CommitsFor(c)
  <2>1. /\ \A q \in Ops : q # o => used'[q] = used[q]
        /\ number'[c] = number[c] /\ worker'[c] # "none" /\ HoldsLock(c) /\ ~HoldsLock(c)'
        /\ lockedBy' = [lockedBy EXCEPT ![o] = NoCall]
    BY <1>5 DEF CommitsFor
  <2>2. number[c] # 0
    BY <2>1 DEF Reserved
  <2> QED BY <1>2, <2>1, <2>2
<1> QED BY <1>1, <1>3, <1>4, <1>5, BudgetMoves

\* The started calls of an operation are those that have an attempt thread.
Threads(o) == {c \in Calls : OpOf[c] = o /\ worker[c] # "none"}
StartsAreThreads == \A o \in Ops : StartsOf(o) = Threads(o)

LEMMA StartsForm == SInv => StartsAreThreads
BY DEF SInv, Life, StartsAreThreads, StartsOf, Threads

LEMMA StartsFormNext == SInv' => StartsAreThreads'
BY StartsForm, PTL

LEMMA ThreadsFinite == \A o : IsFiniteSet(Threads(o)) /\ Cardinality(Threads(o)) \in Nat
<1> TAKE o
<1>1. Threads(o) \subseteq Calls
  BY DEF Threads
<1> QED BY <1>1, CallsAssumption, FS_Subset, FS_CardinalityType

LEMMA NumberingStep ==
    ASSUME BInv, SInv', NEW c \in Calls, CallStep(c), NEW q \in Ops
    PROVE  Numbering(q)'
<1> DEFINE o == OpOf[c]
           T == Threads(q)
           N == Cardinality(T)
<1>0. /\ TypeOK /\ Others(c) /\ o \in Ops /\ NoCall \notin Calls /\ SInv /\ Reserved
      /\ used \in [Ops -> Int] /\ number \in [Calls -> Int]
      /\ lockedBy \in [Ops -> Calls \cup {NoCall}]
      /\ IsFiniteSet(T) /\ N \in Nat
  BY CallsAssumption, FrameStep, ThreadsFinite DEF BInv, SInv, TypeOK, CounterTypes
<1>1. /\ used[q] = N + (IF lockedBy[q] = NoCall THEN 0 ELSE 1)
      /\ {number[d] : d \in T} = 1..N
  <2>1. StartsOf(q) = T
    BY <1>0, StartsForm DEF StartsAreThreads
  <2> QED BY <2>1 DEF BInv, Numbering
<1>2. \A d \in Calls : d # c => number'[d] = number[d] /\ worker'[d] = worker[d]
  BY <1>0 DEF Others
<1>3. ASSUME NEW U, Threads(q)' = U, used'[q] = Cardinality(U) + (IF lockedBy'[q] = NoCall THEN 0 ELSE 1),
             {number'[d] : d \in U} = 1..Cardinality(U)
      PROVE  Numbering(q)'
  <2>1. StartsOf(q)' = U
    BY <1>3, StartsFormNext DEF StartsAreThreads
  <2>2. Cardinality(StartsOf(q)') = Cardinality(U)
    BY <2>1, Zenon
  <2>3. {number'[d] : d \in StartsOf(q)'} = {number'[d] : d \in U}
    BY <2>1
  <2> QED BY <1>3, <2>2, <2>3 DEF Numbering
<1>4. CASE ReservesFor(c)
  <2>1. /\ lockedBy[o] = NoCall /\ worker[c] = "none" /\ worker' = worker
        /\ used'[q] = IF q = o THEN used[o] + 1 ELSE used[q]
        /\ lockedBy'[q] = IF q = o THEN c ELSE lockedBy[q]
    BY <1>0, <1>4 DEF ReservesFor
  <2>2. Threads(q)' = T /\ c \notin T /\ T \subseteq Calls
    BY <2>1 DEF Threads
  <2>3. \A d \in T : number'[d] = number[d]
    BY <1>2, <2>2
  <2> HIDE DEF T, o
  <2>4. {number'[d] : d \in T} = 1..N
    BY <1>1, <2>3
  <2>5. used'[q] = N + (IF lockedBy'[q] = NoCall THEN 0 ELSE 1)
    <3> HIDE DEF N
    <3> QED BY <1>0, <1>1, <2>1
  <2> QED BY <1>3, <2>2, <2>4, <2>5
<1>5. CASE UndoneFor(c)
  <2>1. /\ HoldsLock(c) /\ worker[c] = "none" /\ worker' = worker
        /\ used'[q] = IF q = o THEN used[o] - 1 ELSE used[q]
        /\ lockedBy'[q] = IF q = o THEN NoCall ELSE lockedBy[q]
    BY <1>0, <1>5 DEF UndoneFor, RollBack
  <2>2. lockedBy[o] = c
    BY <1>0, <2>1 DEF Reserved
  <2>3. Threads(q)' = T /\ c \notin T /\ T \subseteq Calls
    BY <2>1 DEF Threads
  <2>4. \A d \in T : number'[d] = number[d]
    BY <1>2, <2>3
  <2> HIDE DEF T, o
  <2>5. {number'[d] : d \in T} = 1..N
    BY <1>1, <2>4
  <2>6. used'[q] = N + (IF lockedBy'[q] = NoCall THEN 0 ELSE 1)
    <3> HIDE DEF N
    <3> QED BY <1>0, <1>1, <2>1, <2>2
  <2> QED BY <1>3, <2>3, <2>5, <2>6
<1>6. CASE CommitsFor(c) /\ q = o
  <2>1. /\ HoldsLock(c) /\ worker[c] = "none" /\ worker'[c] # "none"
        /\ number' = number /\ used' = used /\ lockedBy'[q] = NoCall
    BY <1>0, <1>6 DEF CommitsFor
  <2>2. lockedBy[q] = c /\ number[c] = used[q]
    BY <1>0, <1>6, <2>1 DEF Reserved
  <2>3. Threads(q)' = T \cup {c} /\ c \notin T
    BY <1>2, <1>6, <2>1 DEF Threads
  <2>4. Cardinality(T \cup {c}) = N + 1
    BY <1>0, <2>3, FS_AddElement
  <2>5. {number'[d] : d \in T \cup {c}} = {number[d] : d \in T} \cup {number[c]}
    BY <2>1
  <2> HIDE DEF T, o
  <2>6. used[q] = N + 1
    <3> HIDE DEF N
    <3> QED BY <1>0, <1>1, <2>2
  <2>7. {number'[d] : d \in T \cup {c}} = 1..(N + 1)
    <3> HIDE DEF N
    <3>1. {number'[d] : d \in T \cup {c}} = (1..N) \cup {N + 1}
      BY <1>1, <2>2, <2>5, <2>6
    <3>2. (1..N) \cup {N + 1} = 1..(N + 1)
      BY <1>0
    <3> QED BY <3>1, <3>2
  <2>8. /\ used'[q] = Cardinality(T \cup {c}) + (IF lockedBy'[q] = NoCall THEN 0 ELSE 1)
        /\ {number'[d] : d \in T \cup {c}} = 1..Cardinality(T \cup {c})
    <3> HIDE DEF N
    <3> QED BY <1>0, <2>1, <2>4, <2>6, <2>7
  <2> QED BY <1>3, <2>3, <2>8
<1>7. CASE CommitsFor(c) /\ q # o
  <2>1. number' = number /\ used' = used /\ lockedBy'[q] = lockedBy[q]
    BY <1>0, <1>7 DEF CommitsFor
  <2>2. Threads(q)' = T
    BY <1>2, <1>7 DEF Threads
  <2> HIDE DEF T, o
  <2> QED BY <1>1, <1>3, <2>1, <2>2
<1>8. CASE UNCHANGED budgets /\ (worker[c] = "none" <=> worker'[c] = "none")
  <2>1. number' = number /\ used' = used /\ lockedBy' = lockedBy
    BY <1>8 DEF budgets
  <2>2. Threads(q)' = T
    BY <1>2, <1>8 DEF Threads
  <2> HIDE DEF T, o
  <2> QED BY <1>1, <1>3, <2>1, <2>2
<1> QED BY <1>0, <1>4, <1>5, <1>6, <1>7, <1>8, BudgetMoves

LEMMA CreditsStep ==
    ASSUME BInv, NEW c \in Calls, CallStep(c)
    PROVE  credits' = Cardinality(Retries')
<1>0. /\ TypeOK /\ Others(c) /\ OpOf[c] \in Ops /\ SInv /\ Reserved
      /\ used \in [Ops -> Int] /\ number \in [Calls -> Int]
      /\ credits = Cardinality(Retries) /\ IsFiniteSet(Retries) /\ Cardinality(Retries) \in Nat
  <2>1. Retries \subseteq Calls
    BY DEF Retries
  <2> QED BY <2>1, CallsAssumption, FrameStep, FS_Subset, FS_CardinalityType
          DEF BInv, SInv, TypeOK, CounterTypes
<1>1. \A d \in Calls : d # c => number'[d] = number[d]
  BY <1>0 DEF Others
<1>2. ASSUME c \notin Retries, number'[c] > 1, credits' = credits + 1
      PROVE  credits' = Cardinality(Retries')
  <2>1. Retries' = Retries \cup {c}
    BY <1>1, <1>2 DEF Retries
  <2>2. Cardinality(Retries') = Cardinality(Retries \cup {c})
    BY <2>1, Zenon
  <2>3. Cardinality(Retries \cup {c}) = Cardinality(Retries) + 1
    BY <1>0, <1>2, FS_AddElement
  <2> QED BY <1>0, <1>2, <2>2, <2>3
<1>3. ASSUME c \in Retries, ~(number'[c] > 1), credits' = credits - 1
      PROVE  credits' = Cardinality(Retries')
  <2>1. Retries' = Retries \ {c}
    BY <1>1, <1>3 DEF Retries
  <2>2. Cardinality(Retries') = Cardinality(Retries \ {c})
    BY <2>1, Zenon
  <2>3. Cardinality(Retries \ {c}) = Cardinality(Retries) - 1
    BY <1>0, <1>3, FS_RemoveElement
  <2> QED BY <1>0, <1>3, <2>2, <2>3
<1>4. ASSUME number[c] > 1 <=> number'[c] > 1, credits' = credits
      PROVE  credits' = Cardinality(Retries')
  <2>1. Retries' = Retries
    BY <1>1, <1>4 DEF Retries
  <2>2. Cardinality(Retries') = Cardinality(Retries)
    BY <2>1, Zenon
  <2> QED BY <1>0, <1>4, <2>2
<1>5. CASE ReservesFor(c)
  <2>1. /\ ~HoldsLock(c) /\ worker[c] = "none" /\ number'[c] = used[OpOf[c]] + 1
        /\ credits' = credits + (IF used[OpOf[c]] > 0 THEN 1 ELSE 0)
    BY <1>0, <1>5 DEF ReservesFor
  <2>2. number[c] = 0 /\ c \notin Retries
    BY <1>0, <2>1 DEF Reserved, Retries
  <2>3. CASE used[OpOf[c]] > 0
    BY <1>0, <1>2, <2>1, <2>2, <2>3
  <2>4. CASE ~(used[OpOf[c]] > 0)
    <3>1. credits' = credits
      BY <1>0, <2>1, <2>4
    <3> QED BY <1>0, <1>4, <2>1, <2>2, <2>4, <3>1
  <2> QED BY <2>3, <2>4
<1>6. CASE UndoneFor(c)
  <2>1. number'[c] = 0 /\ credits' = credits - (IF number[c] > 1 THEN 1 ELSE 0)
    BY <1>0, <1>6 DEF UndoneFor, RollBack
  <2>2. CASE number[c] > 1
    BY <1>0, <1>3, <2>1, <2>2 DEF Retries
  <2>3. CASE ~(number[c] > 1)
    <3>1. credits' = credits
      BY <1>0, <2>1, <2>3
    <3> QED BY <1>4, <2>1, <2>3, <3>1
  <2> QED BY <2>2, <2>3
<1>7. CASE UNCHANGED <<number, credits>>
  BY <1>4, <1>7
<1> QED BY <1>0, <1>5, <1>6, <1>7, BudgetMoves DEF CommitsFor, budgets

LEMMA BInvStep == ASSUME BInv, [Next]_vars PROVE BInv'
<1>1. SInv'
  BY SInvStep DEF BInv
<1>2. \A q \in Ops : used[q] >= 0
  <2> TAKE q \in Ops
  <2>1. StartsOf(q) = Threads(q)
    BY StartsForm DEF BInv, StartsAreThreads
  <2>2. Cardinality(StartsOf(q)) \in Nat
    BY <2>1, ThreadsFinite
  <2> QED BY <2>2 DEF BInv, Numbering
<1>3. CASE UNCHANGED vars
  <2>1. Retries' = Retries /\ credits' = credits
    BY <1>3 DEF vars, Retries
  <2>2. Cardinality(Retries') = Cardinality(Retries)
    BY <2>1, Zenon
  <2>3. Reserved'
    BY <1>3 DEF BInv, vars, Reserved, HoldsLock
  <2>4. ASSUME NEW q \in Ops PROVE Numbering(q)'
    <3>1. StartsOf(q)' = StartsOf(q)
      BY <1>3 DEF vars, StartsOf, HasStarted
    <3>2. Cardinality(StartsOf(q)') = Cardinality(StartsOf(q))
      BY <3>1, Zenon
    <3>3. {number'[c] : c \in StartsOf(q)'} = {number[c] : c \in StartsOf(q)}
      BY <1>3, <3>1 DEF vars
    <3>4. Numbering(q) /\ used' = used /\ lockedBy' = lockedBy
      BY <1>3 DEF BInv, vars
    <3> QED BY <3>2, <3>3, <3>4 DEF Numbering
  <2> QED BY <1>1, <2>1, <2>2, <2>3, <2>4 DEF BInv
<1>4. ASSUME NEW c \in Calls, CallStep(c) PROVE BInv'
  BY <1>1, <1>2, <1>4, ReservedStep, CreditsStep, NumberingStep DEF BInv
<1> QED BY <1>3, <1>4, NextSteps DEF CallStep

-----------------------------------------------------------------------------
(* The theorems.                                                           *)

LEMMA InitSupervision == Init => BInv /\ active = Cardinality(Holders)
<1> SUFFICES ASSUME Init PROVE BInv /\ active = Cardinality(Holders)
  OBVIOUS
<1> USE DEF Init
<1>1. TypeOK
  BY DEF TypeOK, StageTypes, FlagTypes, ResultTypes, CounterTypes, Stages, Admission,
         Outcomes, OutcomeStates, NoOutcome, Outcome
<1>2. \A c \in Calls : Life(c) /\ Asked(c) /\ Published(c)
  BY DEF Life, Asked, Published, Admission, Supervision, Ended, HasStarted
<1>3. \A d \in Calls : \A p \in Parent(d) : Nested(d, p) /\ Flagged(d, p)
  BY DEF Nested, Flagged, IsAlive, Ended, NoOutcome, Outcome
<1>4. Holders = {} /\ Retries = {} /\ \A o \in Ops : StartsOf(o) = {}
  BY DEF Holders, IsAlive, Retries, StartsOf, HasStarted
<1>5. Cardinality(Holders) = 0 /\ Cardinality(Retries) = 0
  BY <1>4, FS_EmptySet, Zenon
<1>6. Reserved
  BY CallsAssumption DEF Reserved, HoldsLock
<1>7. ASSUME NEW o \in Ops PROVE Numbering(o)
  <2>1. Cardinality(StartsOf(o)) = 0
    BY <1>4, FS_EmptySet, Zenon
  <2>2. {number[c] : c \in StartsOf(o)} = 1..0
    BY <1>4
  <2>3. used[o] = 0 /\ lockedBy[o] = NoCall
    OBVIOUS
  <2>4. used[o] = Cardinality(StartsOf(o)) + (IF lockedBy[o] = NoCall THEN 0 ELSE 1)
    BY <2>1, <2>3
  <2>5. {number[c] : c \in StartsOf(o)} = 1..Cardinality(StartsOf(o))
    BY <2>1, <2>2, Zenon
  <2> QED BY <2>4, <2>5 DEF Numbering
<1> QED BY <1>1, <1>2, <1>3, <1>5, <1>6, <1>7 DEF SInv, BInv

LEMMA SupervisionInvariance == Spec => []BInv
<1>1. Init => BInv
  BY InitSupervision
<1>2. BInv /\ [Next]_vars => BInv'
  BY BInvStep
<1> QED BY <1>1, <1>2, PTL DEF Spec

\* A slot outlives the call that timed out until its callable exits, and every
\* path gives it back exactly once: the capacity in use is the admissions
\* under way and the attempt threads alive.
THEOREM CapacityHeld == Spec => []CapacityIsLiveWork
<1>1. Init => active = Cardinality(Holders)
  BY InitSupervision
<1>2. BInv /\ active = Cardinality(Holders) /\ [Next]_vars => active' = Cardinality(Holders')
  BY CapacityStep DEF BInv
<1>3. active = Cardinality(Holders) <=> CapacityIsLiveWork
  BY DEF CapacityIsLiveWork, Holders
<1>4. active' = Cardinality(Holders') <=> CapacityIsLiveWork'
  BY DEF CapacityIsLiveWork, Holders
<1> QED BY <1>1, <1>2, <1>3, <1>4, SupervisionInvariance, PTL DEF Spec

\* Whatever admissions of one operation interleave, fail or are rejected, its
\* starts are numbered without a gap or a duplicate, and the ledger holds one
\* credit for each start beyond an operation's first.
THEOREM Counted == Spec => []AttemptsAreCounted
<1>1. BInv => AttemptsAreCounted
  BY DEF BInv, Numbering, Retries, AttemptsAreCounted
<1> QED BY <1>1, SupervisionInvariance, PTL

\* What is committed is the output of a recorded success below which nothing
\* is left running and no effect is unknown, whatever finalizers, cleanups,
\* deadlines and cancellations did.
THEOREM CommitsDeterminate == Spec => []CommittedOutputIsDeterminate
<1>1. BInv => CommittedOutputIsDeterminate
  <2> SUFFICES ASSUME BInv, NEW c \in Calls, output[c] = "committed"
               PROVE  /\ facts[c] = <<"started", "succeeded">>
                      /\ \A d \in Children(c) : ~IsAlive(d) /\ ~out[d].indeterminate
    BY DEF CommittedOutputIsDeterminate
  <2>1. facts[c] = <<"started", "succeeded">> /\ worker[c] = "exited" /\ ~indet[c]
    BY DEF BInv, SInv, Published
  <2>2. ASSUME NEW d \in Children(c) PROVE ~IsAlive(d) /\ ~out[d].indeterminate
    <3>1. d \in Calls /\ c \in Parent(d) /\ pc[d] \in {"idle"} \cup Ended
      BY <2>1 DEF BInv, SInv, Nested, Children, Parent
    <3>2. pc[d] = "idle" => ~IsAlive(d)
      BY <3>1 DEF BInv, SInv, Life, Admission, IsAlive
    <3> QED BY <2>1, <3>1, <3>2 DEF BInv, SInv, Flagged
  <2> QED BY <2>1, <2>2
<1> QED BY <1>1, SupervisionInvariance, PTL

\* A callable asked for late, by the abandoned thread of a call that is over,
\* never begins.
THEOREM NoLateWork == Spec => NoWorkBelowAnEndedAttempt
<1>1. BInv /\ [Next]_vars =>
         [\A c \in Calls : worker[c] = "open" /\ worker'[c] = "running" =>
             \A p \in Parent(c) : ~Returned(p)]_vars
  <2> SUFFICES ASSUME BInv, [Next]_vars, NEW c \in Calls, worker[c] = "open",
                      worker'[c] = "running", NEW p \in Parent(c), Returned(p)
               PROVE  FALSE
    OBVIOUS
  <2>0. TypeOK /\ p \in Calls /\ DOMAIN worker = Calls /\ Ended = {"returned", "raised"}
    BY DEF BInv, SInv, TypeOK, StageTypes, Parent, Ended
  <2>1. PICK e \in Calls : CallStep(e)
    BY NextSteps DEF CallStep, vars
  <2>2. e = c
    BY <2>0, <2>1, FrameStep DEF Others
  <2>3. ~IsCancelled(c)
    <3>1. CASE Enter(c)
      BY <2>0, <3>1 DEF Enter, Exit
    <3>2. CASE Leave(c)
      BY <3>2 DEF Leave
    <3>3. CASE Start(c) \/ Prepare(c)
      BY <2>0, <3>3 DEF Start, Prepare
    <3>4. CASE ~(Enter(c) \/ Leave(c) \/ Start(c) \/ Prepare(c))
      <4>1. worker' = worker
        BY <2>1, <2>2, <3>4 DEF CallStep, Step, Gate, AcquireCapacity, Reserve, Recheck,
           Complete, Interrupt, GraceOver, Finalize, EmitTerminal, Tick, Cancel
      <4> QED BY <4>1
    <3> QED BY <3>1, <3>2, <3>3, <3>4
  <2>4. pc[c] = "supervised"
    BY <2>3 DEF BInv, SInv, Asked, IsCancelled
  <2>5. worker[p] = "running"
    BY <2>0, <2>4 DEF BInv, SInv, Nested
  <2>6. cancelled[p]
    BY <2>0, <2>5 DEF BInv, SInv, Asked, Returned
  <2> QED BY <2>3, <2>6 DEF IsCancelled
<1> QED BY <1>1, SupervisionInvariance, PTL DEF Spec, NoWorkBelowAnEndedAttempt
=============================================================================
