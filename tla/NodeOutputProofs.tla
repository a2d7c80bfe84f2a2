-------------------------- MODULE NodeOutputProofs --------------------------
(***************************************************************************)
(* The output slot of a node under any number of controllers, activities   *)
(* and crashes: fencing, backed successes, evidence and final results.     *)
(***************************************************************************)
EXTENDS NodeOutputProperties, TLAPS

Bad == {"failed", "indeterminate"}

\* A success stands on an output committed for the activity.
Backs(e, a) == e.status = "succeeded" => e.lease \in outputs /\ leases[e.lease] = a

\* What may be committed as the result next to the recorded evidence e.
Fits(r, e) ==
    /\ r.status \in Statuses
    /\ \/ e = Evidence(r.status, r.lease)
       \/ r.status = "succeeded" /\ e.status \in Bad

SlotHistory == committed # 0 => committed \in outputs

JournalOK ==
    /\ active # 0 => active = tried /\ result[active] = NoResult
    /\ \A a \in Activities :
         /\ Backs(evidence[a], a) /\ Backs(result[a], a)
         /\ evidence[a] = NoEvidence \/ evidence[a].status \in Statuses
         /\ result[a] = NoResult \/ Fits(result[a], evidence[a])
         /\ a > tried => result[a] = NoResult

\* What a controller remembers at each point of an execution.
MemoryOK(m) ==
    /\ m.lease <= Len(leases)
    /\ m.pc # "idle" => m.activity \in Activities
    /\ m.pc = "idle" => m.lease = 0
    /\ m.lease # 0 => leases[m.lease] = m.activity
    /\ m.pc \in {"work", "revoke", "stage", "commit", "check"} => m.lease # 0
    /\ m.pc \in {"idle", "accept", "mark", "lookup", "recover", "acquire",
                 "work", "stage", "commit", "check"} => m.evidence = NoEvidence
    /\ m.pc = "reread" => m.evidence = NoEvidence \/ m.evidence.status \in Bad
    /\ m.pc \in {"revoke", "owner"} => m.evidence.status \in Bad
    /\ m.pc \in {"record", "apply"} =>
         /\ Fits(m.result, m.evidence)
         /\ m.evidence.status \in Statuses
         /\ Backs(m.evidence, m.activity) /\ Backs(m.result, m.activity)
    /\ m.pc = "apply" => evidence[m.activity] = m.evidence

MemoriesOK == \A c \in Controllers : MemoryOK(ctl[c])

Inv == TypeOK /\ SlotIsNewest /\ SlotHistory /\ JournalOK /\ MemoriesOK

-----------------------------------------------------------------------------
(* Initially and in general.                                               *)

LEMMA Known ==
    /\ NoEvidence \in EvidenceType /\ NoResult \in ResultType
    /\ Idle \in MemoryType
    /\ \A m \in MemoryType : /\ m.evidence \in EvidenceType
                            /\ m.result \in ResultType
                            /\ m.lease \in Nat /\ m.activity \in 0..MaxActivities
    /\ NoEvidence.status = "none" /\ NoResult.status = "none"
BY BoundsAssumption
   DEF NoEvidence, NoResult, Idle, EvidenceType, ResultType, MemoryType

LEMMA IdleOK == ASSUME leases \in Seq(Activities) PROVE MemoryOK(Idle)
BY DEF Idle, MemoryOK

LEMMA InitInv == Init => Inv
<1> SUFFICES ASSUME Init PROVE Inv
  OBVIOUS
<1> USE BoundsAssumption DEF Init
<1>1. 1 \in Activities
  BY DEF Activities
<1>2. leases \in Seq(Activities) /\ Len(leases) = 0
  OBVIOUS
<1>3. TypeOK
  BY <1>1, <1>2, Known DEF TypeOK, Activities
<1>4. SlotIsNewest /\ SlotHistory
  BY <1>2 DEF SlotIsNewest, SlotHistory
<1>5. JournalOK
  BY <1>1, Known DEF JournalOK, Backs, NoEvidence, NoResult
<1>6. MemoriesOK
  BY <1>2, IdleOK DEF MemoriesOK
<1> QED
  BY <1>3, <1>4, <1>5, <1>6 DEF Inv

-----------------------------------------------------------------------------
(* Steps that change nothing but the memory of one controller.             *)

\* Memory that a step does not touch stays sound as leases and outputs grow.
LEMMA MemoryKept ==
    ASSUME leases \in Seq(Activities), leases' \in Seq(Activities),
           Len(leases) <= Len(leases'),
           \A g \in 1..Len(leases) : leases'[g] = leases[g],
           outputs \subseteq 1..Len(leases), outputs \subseteq outputs',
           NEW m \in MemoryType, MemoryOK(m),
           m.pc = "apply" => evidence'[m.activity] = evidence[m.activity]
    PROVE  MemoryOK(m)'
<1>1. m.lease \in Nat /\ Len(leases) \in Nat /\ Len(leases') \in Nat
  BY Known
<1>2. m.lease # 0 => leases'[m.lease] = leases[m.lease]
  BY <1>1 DEF MemoryOK
<1>3. ASSUME NEW e, Backs(e, m.activity) PROVE Backs(e, m.activity)'
  BY <1>3 DEF Backs
<1>4. m.lease <= Len(leases')
  BY <1>1 DEF MemoryOK
<1> QED
  BY <1>2, <1>3, <1>4 DEF MemoryOK

Quiet ==
    /\ UNCHANGED <<active, tried, result, evidence, slot>>
    /\ callers' \in [Activities -> SUBSET Controllers]
    /\ crashes' \in 0..MaxCrashes

LEMMA IsQuiet == Inv /\ UNCHANGED <<journal, slot, crashes>> => Quiet
BY DEF Inv, TypeOK, Quiet, journal

LEMMA OnlyMemory ==
    ASSUME Inv, Quiet, NEW c \in Controllers,
           NEW m \in MemoryType, MemoryOK(m), ctl' = [ctl EXCEPT ![c] = m]
    PROVE  Inv'
<1> USE DEF Quiet, slot
<1>1. TypeOK' /\ SlotIsNewest' /\ SlotHistory'
  BY DEF Inv, TypeOK, SlotIsNewest, SlotHistory
<1>2. JournalOK'
  BY DEF Inv, JournalOK, Backs
<1>3. MemoriesOK'
  <2> SUFFICES ASSUME NEW d \in Controllers PROVE MemoryOK(ctl[d])'
    BY DEF MemoriesOK
  <2>1. PICK x \in MemoryType : x = ctl'[d] /\ MemoryOK(x)
    BY DEF Inv, TypeOK, MemoriesOK
  <2>2. MemoryOK(x)'
    BY <2>1, MemoryKept DEF Inv, TypeOK
  <2> QED
    BY <2>1, <2>2 DEF MemoryOK, Backs
<1> QED
  BY <1>1, <1>2, <1>3 DEF Inv

LEMMA Raising ==
    ASSUME Inv, Quiet, NEW c \in Controllers, Raise(c)
    PROVE  Inv'
BY OnlyMemory, IdleOK, Known DEF Raise, Inv, TypeOK

\* A controller that goes on takes what it knew with it.
LEMMA Going ==
    ASSUME Inv, Quiet, NEW c \in Controllers, NEW pc,
           Goto(c, pc), [ctl[c] EXCEPT !.pc = pc] \in MemoryType,
           MemoryOK([ctl[c] EXCEPT !.pc = pc])
    PROVE  Inv'
<1> DEFINE m == [ctl[c] EXCEPT !.pc = pc]
<1>1. ctl' = [ctl EXCEPT ![c] = m]
  BY DEF Goto
<1> HIDE DEF m
<1> QED
  BY <1>1, OnlyMemory DEF m

LEMMA Concluding ==
    ASSUME Inv, Quiet, NEW c \in Controllers,
           ctl[c].pc # "idle", NEW e \in EvidenceType, NEW r \in ResultType,
           Conclude(c, e, r), Fits(r, e), e.status \in Statuses,
           Backs(e, ctl[c].activity), Backs(r, ctl[c].activity)
    PROVE  Inv'
<1> DEFINE m == [ctl[c] EXCEPT !.pc = "record", !.evidence = e, !.result = r]
<1>1. ctl[c] \in MemoryType /\ MemoryOK(ctl[c])
  BY DEF Inv, TypeOK, MemoriesOK
<1>2. m \in MemoryType
  BY <1>1 DEF MemoryType
<1>3. /\ m.pc = "record" /\ m.evidence = e /\ m.result = r
      /\ m.lease = ctl[c].lease /\ m.activity = ctl[c].activity
  BY <1>1 DEF MemoryType
<1>4. MemoryOK(m)
  <2> HIDE DEF m
  <2> QED
    BY <1>1, <1>3 DEF MemoryOK, Backs
<1>5. ctl' = [ctl EXCEPT ![c] = m]
  BY DEF Conclude
<1> HIDE DEF m
<1> QED
  BY <1>2, <1>4, <1>5, OnlyMemory

LEMMA Remembers ==
    ASSUME Inv, NEW c \in Controllers
    PROVE  /\ ctl[c] \in MemoryType /\ MemoryOK(ctl[c])
           /\ ctl[c].lease \in Nat /\ ctl[c].evidence \in EvidenceType
           /\ ctl[c].pc # "idle" => ctl[c].activity \in Activities
BY Known DEF Inv, TypeOK, MemoriesOK, MemoryOK

\* Going on within the part of an execution that has no evidence yet.
Early == {"accept", "mark", "lookup", "recover", "acquire"}

LEMMA GoingEarly ==
    ASSUME Inv, Quiet, NEW c \in Controllers, NEW pc \in Early \cup {"reread"},
           ctl[c].pc \in Early, Goto(c, pc)
    PROVE  Inv'
<1> DEFINE m == [ctl[c] EXCEPT !.pc = pc]
<1>1. m \in MemoryType
  BY Remembers DEF MemoryType, Early
<1>2. /\ m.pc = pc /\ m.evidence = ctl[c].evidence /\ m.result = ctl[c].result
      /\ m.lease = ctl[c].lease /\ m.activity = ctl[c].activity
  BY Remembers DEF MemoryType
<1>3. MemoryOK(m)
  <2> HIDE DEF m
  <2> QED
    BY <1>2, Remembers DEF MemoryOK, Early
<1> QED
  BY <1>1, <1>3, Going

LEMMA CommittedOutput ==
    ASSUME Inv, NEW a \in Activities, CommittedIs(a)
    PROVE  /\ OutputOf(committed) \in EvidenceType
           /\ Result(OutputOf(committed), "attempt") \in ResultType
           /\ Backs(OutputOf(committed), a)
           /\ Backs(Result(OutputOf(committed), "attempt"), a)
           /\ OutputOf(committed).status \in Statuses
           /\ Fits(Result(OutputOf(committed), "attempt"), OutputOf(committed))
<1>1. committed \in Nat /\ committed \in outputs /\ leases[committed] = a
  BY DEF Inv, TypeOK, SlotHistory, CommittedIs
<1> QED
  BY <1>1 DEF OutputOf, Evidence, Result, EvidenceType, ResultType, Backs, Fits, Statuses

\* An execution that ends with the output it has found in the slot.
LEMMA ConcludingOutput ==
    ASSUME Inv, Quiet, NEW c \in Controllers, ctl[c].pc # "idle",
           CommittedIs(ctl[c].activity),
           Conclude(c, OutputOf(committed), Result(OutputOf(committed), "attempt"))
    PROVE  Inv'
BY CommittedOutput, Concluding, Remembers

-----------------------------------------------------------------------------
(* The dispatcher's steps.                                                 *)

LEMMA DispatchStep ==
    ASSUME Inv, NEW c \in Controllers, Dispatch(c) PROVE Inv'
<1> DEFINE m == [ctl[c] EXCEPT !.pc = "accept", !.activity = active]
<1>1. active \in Activities /\ active \in 0..MaxActivities
  BY BoundsAssumption DEF Inv, TypeOK, JournalOK, Dispatch
<1>2. m \in MemoryType
  BY <1>1, Remembers DEF MemoryType
<1>3. /\ m.pc = "accept" /\ m.evidence = ctl[c].evidence /\ m.lease = ctl[c].lease
      /\ m.activity = active
  BY Remembers DEF MemoryType
<1>4. ctl[c].lease = 0
  BY Remembers DEF MemoryOK, Dispatch
<1>5. MemoryOK(m)
  <2> HIDE DEF m
  <2> QED
    BY <1>1, <1>3, <1>4, Remembers DEF MemoryOK, Dispatch
<1> QED
  BY <1>2, <1>5, OnlyMemory, IsQuiet DEF Dispatch

\* Evidence of an attempt that did not succeed is the result as it stands.
LEMMA BadEvidence ==
    ASSUME NEW e \in EvidenceType, e.status \in Bad, NEW a,
           NEW via \in {"attempt", "record"}
    PROVE  /\ e.status \in Statuses /\ Result(e, via) \in ResultType
           /\ Fits(Result(e, via), e)
           /\ Backs(e, a) /\ Backs(Result(e, via), a)
BY DEF Bad, Statuses, Result, ResultType, EvidenceType, Fits, Backs, Evidence

LEMMA AcceptStep ==
    ASSUME Inv, NEW c \in Controllers, Accept(c) PROVE Inv'
<1> DEFINE e == evidence[ctl[c].activity]
<1>1. Quiet /\ ctl[c].pc = "accept" /\ e \in EvidenceType
  BY IsQuiet, Remembers DEF Accept, Inv, TypeOK
<1>2. CASE Goto(c, "mark") \/ Goto(c, "recover")
  BY <1>1, <1>2, GoingEarly DEF Early
<1>3. CASE e.status \in Bad /\ Conclude(c, e, Result(e, "record"))
  <2> HIDE DEF e
  <2> QED
    BY <1>1, <1>3, BadEvidence, Concluding
<1> QED
  BY <1>2, <1>3 DEF Accept, Bad

LEMMA MarkStep ==
    ASSUME Inv, NEW c \in Controllers, Mark(c) PROVE Inv'
<1>1. Quiet
  BY Remembers DEF Mark, Inv, TypeOK, Quiet
<1> QED
  BY <1>1, GoingEarly DEF Mark, Early

LEMMA LookupStep ==
    ASSUME Inv, NEW c \in Controllers, Lookup(c) PROVE Inv'
BY IsQuiet, GoingEarly, ConcludingOutput DEF Lookup, Early

LEMMA RecoverStep ==
    ASSUME Inv, NEW c \in Controllers, RecoverOutput(c) PROVE Inv'
BY IsQuiet, Raising, ConcludingOutput DEF RecoverOutput

-----------------------------------------------------------------------------
(* The attempt's steps.                                                    *)

LEMMA RefuseStep ==
    ASSUME Inv, NEW c \in Controllers, Refuse(c) PROVE Inv'
BY IsQuiet, GoingEarly DEF Refuse, Early

\* Going on with evidence, or with none when the attempt has gone well so far.
LEMMA GoingOn ==
    ASSUME Inv, Quiet, NEW c \in Controllers,
           ctl[c].pc \in {"acquire", "work", "revoke", "stage", "commit", "reread"},
           NEW pc \in {"revoke", "stage", "commit", "check", "reread", "owner"},
           NEW e \in EvidenceType,
           ctl' = [ctl EXCEPT ![c].pc = pc, ![c].evidence = e],
           pc \in {"stage", "commit", "check"} => e = NoEvidence,
           pc = "reread" => e = NoEvidence \/ e.status \in Bad,
           pc \in {"revoke", "owner"} => e.status \in Bad,
           pc \in {"revoke", "stage", "commit", "check"} => ctl[c].lease # 0
    PROVE  Inv'
<1> DEFINE m == [ctl[c] EXCEPT !.pc = pc, !.evidence = e]
<1>1. m \in MemoryType
  BY Remembers DEF MemoryType
<1>2. /\ m.pc = pc /\ m.evidence = e
      /\ m.lease = ctl[c].lease /\ m.activity = ctl[c].activity
  BY Remembers DEF MemoryType
<1>3. MemoryOK(m)
  <2> HIDE DEF m
  <2> QED
    BY <1>2, Remembers DEF MemoryOK
<1>4. ctl' = [ctl EXCEPT ![c] = m]
  OBVIOUS
<1> HIDE DEF m
<1> QED
  BY <1>1, <1>3, <1>4, OnlyMemory

\* A step that only moves the controller keeps its evidence.
LEMMA KeepsEvidence ==
    ASSUME Inv, NEW c \in Controllers, NEW pc, Goto(c, pc)
    PROVE  ctl' = [ctl EXCEPT ![c].pc = pc, ![c].evidence = ctl[c].evidence]
BY Remembers DEF Goto, Inv, TypeOK, MemoryType

LEMMA WorkStep ==
    ASSUME Inv, NEW c \in Controllers, Work(c) PROVE Inv'
<1>1. /\ Quiet /\ ctl[c].pc = "work" /\ ctl[c].lease # 0
      /\ ctl[c].evidence = NoEvidence
  BY IsQuiet, Remembers DEF Work, MemoryOK
<1>2. CASE Goto(c, "stage")
  BY <1>1, <1>2, KeepsEvidence, Known, GoingOn
<1>3. ASSUME NEW status \in Bad,
             ctl' = [ctl EXCEPT ![c].pc = "revoke",
                        ![c].evidence = Evidence(status, ctl[c].lease)]
      PROVE  Inv'
  <2>1. /\ Evidence(status, ctl[c].lease) \in EvidenceType
        /\ Evidence(status, ctl[c].lease).status \in Bad
    BY <1>3, Remembers DEF Evidence, EvidenceType, Statuses, Bad
  <2> QED
    BY <1>1, <1>3, <2>1, GoingOn
<1> QED
  BY <1>2, <1>3 DEF Work, Bad

LEMMA CheckStep ==
    ASSUME Inv, NEW c \in Controllers, Check(c) PROVE Inv'
<1>1. Quiet /\ ctl[c].pc = "check" /\ ctl[c].lease # 0
  BY IsQuiet, Remembers DEF Check, MemoryOK
<1>2. CASE committed = ctl[c].lease
  <2>1. CommittedIs(ctl[c].activity)
    BY <1>1, <1>2, Remembers DEF CommittedIs, MemoryOK
  <2> QED
    BY <1>1, <1>2, <2>1, ConcludingOutput DEF Check
<1>3. CASE committed # ctl[c].lease
  BY <1>1, <1>3, Raising DEF Check
<1> QED
  BY <1>2, <1>3

LEMMA RereadStep ==
    ASSUME Inv, NEW c \in Controllers, Reread(c) PROVE Inv'
<1> DEFINE e == ctl[c].evidence
           o == OutputOf(committed)
<1>1. /\ Quiet /\ ctl[c].pc = "reread" /\ e \in EvidenceType
      /\ e = NoEvidence \/ e.status \in Bad
  BY IsQuiet, Remembers DEF Reread, MemoryOK
<1>2. CASE /\ CommittedIs(ctl[c].activity)
           /\ Conclude(c, IF e = NoEvidence THEN o ELSE e, Result(o, "attempt"))
  <2>1. CASE e = NoEvidence
    BY <1>1, <1>2, <2>1, ConcludingOutput
  <2>2. CASE e # NoEvidence
    <3>1. Backs(e, ctl[c].activity) /\ e.status \in Statuses
      BY <1>1, <2>2, BadEvidence
    <3>2. /\ Result(o, "attempt") \in ResultType
          /\ Backs(Result(o, "attempt"), ctl[c].activity)
      BY <1>1, <1>2, CommittedOutput, Remembers
    <3>3. Fits(Result(o, "attempt"), e)
      BY <1>1, <2>2 DEF Fits, Result, OutputOf, Evidence, Statuses
    <3>4. Conclude(c, e, Result(o, "attempt"))
      BY <1>2, <2>2
    <3> HIDE DEF e, o
    <3> QED
      BY <1>1, <3>1, <3>2, <3>3, <3>4, Concluding
  <2> QED
    BY <2>1, <2>2
<1>3. CASE Raise(c)
  BY <1>1, <1>3, Raising
<1>4. CASE e # NoEvidence /\ Goto(c, "owner")
  BY <1>1, <1>4, KeepsEvidence, GoingOn
<1> QED
  BY <1>2, <1>3, <1>4 DEF Reread

LEMMA OwnerStep ==
    ASSUME Inv, NEW c \in Controllers, Owner(c) PROVE Inv'
<1> DEFINE e == ctl[c].evidence
<1>1. Quiet /\ ctl[c].pc = "owner" /\ e \in EvidenceType /\ e.status \in Bad
  BY IsQuiet, Remembers DEF Owner, MemoryOK
<1>2. CASE Conclude(c, e, Result(e, "attempt"))
  <2> HIDE DEF e
  <2> QED
    BY <1>1, <1>2, BadEvidence, Concluding
<1> QED
  BY <1>1, <1>2, Raising DEF Owner

-----------------------------------------------------------------------------
(* Steps that change the slot.                                             *)

\* Leases and outputs only ever grow, so whatever rested on them still does.
LEMMA SlotChange ==
    ASSUME Inv, UNCHANGED <<journal, crashes>>, NEW c \in Controllers,
           leases' \in Seq(Activities), Len(leases) <= Len(leases'),
           \A g \in 1..Len(leases) : leases'[g] = leases[g],
           outputs \subseteq outputs', outputs' \subseteq 1..Len(leases'),
           current' \in 0..Len(leases'), SlotIsNewest', SlotHistory',
           NEW m \in MemoryType, MemoryOK(m)', ctl' = [ctl EXCEPT ![c] = m]
    PROVE  Inv'
<1> USE DEF journal
<1>1. TypeOK'
  BY DEF Inv, TypeOK, SlotIsNewest
<1>2. JournalOK'
  BY DEF Inv, TypeOK, JournalOK, Backs
<1>3. MemoriesOK'
  <2> SUFFICES ASSUME NEW d \in Controllers PROVE MemoryOK(ctl[d])'
    BY DEF MemoriesOK
  <2>1. CASE d = c
    <3>1. ctl'[d] = m
      BY <2>1 DEF Inv, TypeOK
    <3> QED
      BY <3>1 DEF MemoryOK, Backs
  <2>2. CASE d # c
    <3>1. PICK x \in MemoryType : x = ctl[d] /\ x = ctl'[d] /\ MemoryOK(x)
      BY <2>2 DEF Inv, TypeOK, MemoriesOK
    <3>2. MemoryOK(x)'
      BY <3>1, MemoryKept DEF Inv, TypeOK
    <3> QED
      BY <3>1, <3>2 DEF MemoryOK, Backs
  <2> QED
    BY <2>1, <2>2
<1> QED
  BY <1>1, <1>2, <1>3 DEF Inv

\* The same for a step that grants no lease and keeps what is remembered sound.
LEMMA SlotMove ==
    ASSUME Inv, UNCHANGED <<journal, crashes, leases>>, NEW c \in Controllers,
           outputs \subseteq outputs', outputs' \subseteq 1..Len(leases),
           current' \in 0..Len(leases), SlotIsNewest', SlotHistory',
           NEW m \in MemoryType, MemoryOK(m), m.pc # "apply",
           ctl' = [ctl EXCEPT ![c] = m]
    PROVE  Inv'
<1>1. MemoryOK(m)'
  BY MemoryKept DEF Inv, TypeOK
<1>2. /\ leases' = leases /\ leases' \in Seq(Activities)
      /\ Len(leases') = Len(leases) /\ Len(leases) \in Nat
  BY DEF Inv, TypeOK
<1>3. /\ UNCHANGED <<journal, crashes>> /\ Len(leases) <= Len(leases')
      /\ \A g \in 1..Len(leases) : leases'[g] = leases[g]
      /\ outputs' \subseteq 1..Len(leases') /\ current' \in 0..Len(leases')
  BY <1>2
<1> QED
  BY <1>1, <1>2, <1>3, SlotChange

LEMMA AcquireStep ==
    ASSUME Inv, NEW c \in Controllers, Acquire(c) PROVE Inv'
<1> DEFINE a == ctl[c].activity
           n == Len(leases) + 1
<1>1. ctl[c].pc = "acquire" /\ a \in Activities /\ ctl[c].evidence = NoEvidence
  BY Remembers DEF Acquire, MemoryOK
<1>2. ASSUME UNCHANGED slot,
             ctl' = [ctl EXCEPT ![c].pc = "reread",
                                ![c].evidence = Evidence("failed", 0)]
      PROVE  Inv'
  <2>1. /\ Evidence("failed", 0) \in EvidenceType
        /\ Evidence("failed", 0).status \in Bad
    BY DEF Evidence, EvidenceType, Statuses, Bad
  <2> QED
    BY <1>1, <1>2, <2>1, IsQuiet, GoingOn DEF Acquire
<1>3. ASSUME leases' = Append(leases, a), current' = n,
             staged' = StagedAfterAcquire, committed' = 0, UNCHANGED outputs,
             ctl' = [ctl EXCEPT ![c].pc = "work", ![c].lease = n]
      PROVE  Inv'
  <2>1. /\ leases' \in Seq(Activities) /\ Len(leases') = n
        /\ \A g \in 1..Len(leases) : leases'[g] = leases[g]
        /\ leases'[n] = a /\ n \in Nat \ {0} /\ Len(leases) \in Nat
    BY <1>1, <1>3 DEF Inv, TypeOK
  <2>2. SlotIsNewest' /\ SlotHistory'
    BY <1>3, <2>1 DEF Inv, SlotIsNewest, SlotHistory, StagedAfterAcquire
  <2>3. PICK m \in MemoryType : m = [ctl[c] EXCEPT !.pc = "work", !.lease = n]
    BY <2>1, Remembers DEF MemoryType
  <2>4. /\ m.pc = "work" /\ m.lease = n /\ m.activity = a
        /\ m.evidence = NoEvidence
    BY <1>1, <2>3, Remembers DEF MemoryType
  <2>5. leases'[m.lease] = m.activity /\ m.lease <= Len(leases')
    BY <2>1, <2>4
  <2>6. MemoryOK(m)'
    BY <1>1, <2>1, <2>4, <2>5 DEF MemoryOK
  <2>7. /\ outputs' = outputs /\ outputs' \subseteq 1..Len(leases')
        /\ current' \in 0..Len(leases') /\ Len(leases) <= Len(leases')
    BY <1>3, <2>1 DEF Inv, TypeOK
  <2>8. ctl' = [ctl EXCEPT ![c] = m] /\ UNCHANGED <<journal, crashes>>
    BY <1>3, <2>3 DEF Acquire
  <2> HIDE DEF n
  <2> QED
    BY <2>1, <2>2, <2>6, <2>7, <2>8, SlotChange
<1> QED
  BY <1>2, <1>3 DEF Acquire

\* The memory of a controller that has gone on to pc.
LEMMA Moved ==
    ASSUME Inv, NEW c \in Controllers, ctl[c].pc # "idle",
           NEW pc \in {"commit", "check", "reread"}, Goto(c, pc),
           pc \in {"commit", "check"} =>
               ctl[c].lease # 0 /\ ctl[c].evidence = NoEvidence,
           pc = "reread" => ctl[c].evidence.status \in Bad
    PROVE  \E m \in MemoryType : /\ MemoryOK(m) /\ m.pc # "apply"
                                 /\ ctl' = [ctl EXCEPT ![c] = m]
<1> DEFINE m == [ctl[c] EXCEPT !.pc = pc]
<1>1. m \in MemoryType
  BY Remembers DEF MemoryType
<1>2. /\ m.pc = pc /\ m.evidence = ctl[c].evidence
      /\ m.lease = ctl[c].lease /\ m.activity = ctl[c].activity
  BY Remembers DEF MemoryType
<1>3. MemoryOK(m)
  <2> HIDE DEF m
  <2> QED
    BY <1>2, Remembers DEF MemoryOK
<1>4. ctl' = [ctl EXCEPT ![c] = m]
  BY DEF Goto
<1> QED
  BY <1>1, <1>2, <1>3, <1>4

LEMMA RevokeStep ==
    ASSUME Inv, NEW c \in Controllers, Revoke(c) PROVE Inv'
<1>1. /\ ctl[c].pc = "revoke" /\ ctl[c].evidence.status \in Bad
      /\ Goto(c, "reread") /\ UNCHANGED <<journal, crashes, leases, outputs>>
  BY Remembers DEF Revoke, MemoryOK
<1>2. PICK m \in MemoryType : /\ MemoryOK(m) /\ m.pc # "apply"
                              /\ ctl' = [ctl EXCEPT ![c] = m]
  BY <1>1, Moved
<1>3. /\ current' \in 0..Len(leases) /\ outputs \subseteq 1..Len(leases)
      /\ SlotIsNewest' /\ SlotHistory'
  BY DEF Revoke, Inv, TypeOK, SlotIsNewest, SlotHistory
<1> QED
  BY <1>1, <1>2, <1>3, SlotMove

LEMMA StageStep ==
    ASSUME Inv, NEW c \in Controllers, Stage(c) PROVE Inv'
<1>1. /\ ctl[c].pc = "stage" /\ ctl[c].lease # 0 /\ ctl[c].lease \in Nat
      /\ ctl[c].evidence = NoEvidence
      /\ UNCHANGED <<journal, crashes, leases, current, committed, outputs>>
  BY Remembers DEF Stage, MemoryOK
<1>2. CASE Owns(c)
  <2>1. PICK m \in MemoryType : /\ MemoryOK(m) /\ m.pc # "apply"
                                /\ ctl' = [ctl EXCEPT ![c] = m]
    BY <1>1, <1>2, Moved DEF Stage
  <2>2. /\ current' \in 0..Len(leases) /\ outputs \subseteq 1..Len(leases)
        /\ SlotIsNewest' /\ SlotHistory'
    BY <1>1, <1>2 DEF Stage, Owns, Inv, TypeOK, SlotIsNewest, SlotHistory
  <2> QED
    BY <1>1, <2>1, <2>2, SlotMove
<1>3. CASE ~Owns(c)
  <2> DEFINE e == Evidence("indeterminate", ctl[c].lease)
  <2>1. e \in EvidenceType /\ e.status \in Bad
    BY <1>1 DEF Evidence, EvidenceType, Statuses, Bad
  <2>2. /\ ctl' = [ctl EXCEPT ![c].pc = "reread", ![c].evidence = e]
        /\ UNCHANGED <<journal, slot, crashes>>
    BY <1>1, <1>3 DEF Stage, slot
  <2> HIDE DEF e
  <2> QED
    BY <1>1, <2>1, <2>2, IsQuiet, GoingOn
<1> QED
  BY <1>2, <1>3

LEMMA CommitStep ==
    ASSUME Inv, NEW c \in Controllers, Commit(c) PROVE Inv'
<1>1. /\ ctl[c].pc = "commit" /\ ctl[c].lease # 0 /\ ctl[c].lease \in Nat
      /\ ctl[c].evidence = NoEvidence /\ ctl[c].lease \in 1..Len(leases)
      /\ UNCHANGED <<journal, crashes, leases, current, staged>>
  BY Remembers DEF Commit, MemoryOK, Inv, TypeOK
<1>2. CASE Owns(c)
  <2>1. PICK m \in MemoryType : /\ MemoryOK(m) /\ m.pc # "apply"
                                /\ ctl' = [ctl EXCEPT ![c] = m]
    BY <1>1, <1>2, Moved DEF Commit
  <2>2. /\ current' \in 0..Len(leases) /\ outputs' \subseteq 1..Len(leases)
        /\ outputs \subseteq outputs'
    BY <1>1, <1>2 DEF Commit, Inv, TypeOK
  <2>3. SlotIsNewest' /\ SlotHistory'
    BY <1>1, <1>2 DEF Commit, Owns, Inv, SlotIsNewest, SlotHistory
  <2> QED
    BY <1>1, <2>1, <2>2, <2>3, SlotMove
<1>3. CASE ~Owns(c)
  BY <1>1, <1>3, IsQuiet, Raising DEF Commit, slot
<1> QED
  BY <1>2, <1>3

-----------------------------------------------------------------------------
(* Steps that change the journal.                                          *)

\* The evidence a controller is about to apply must not change under it.
LEMMA JournalChange ==
    ASSUME Inv, UNCHANGED slot, NEW c \in Controllers, TypeOK', JournalOK',
           \A d \in Controllers \ {c} : ctl[d].pc = "apply" =>
               evidence'[ctl[d].activity] = evidence[ctl[d].activity],
           NEW m \in MemoryType, MemoryOK(m)', ctl' = [ctl EXCEPT ![c] = m]
    PROVE  Inv'
<1> USE DEF slot
<1>1. SlotIsNewest' /\ SlotHistory'
  BY DEF Inv, SlotIsNewest, SlotHistory
<1>2. ASSUME NEW d \in Controllers PROVE MemoryOK(ctl[d])'
  <2>1. CASE d = c
    <3>1. ctl'[d] = m
      BY <2>1 DEF Inv, TypeOK
    <3> QED
      BY <3>1 DEF MemoryOK, Backs
  <2>2. CASE d # c
    <3>1. PICK x \in MemoryType : x = ctl[d] /\ x = ctl'[d] /\ MemoryOK(x)
      BY <2>2 DEF Inv, TypeOK, MemoriesOK
    <3>2. MemoryOK(x)'
      BY <2>2, <3>1, MemoryKept DEF Inv, TypeOK
    <3> QED
      BY <3>1, <3>2 DEF MemoryOK, Backs
  <2> QED
    BY <2>1, <2>2
<1> QED
  BY <1>1, <1>2 DEF Inv, MemoriesOK

LEMMA RecordStep ==
    ASSUME Inv, NEW c \in Controllers, Record(c) PROVE Inv'
<1> DEFINE a == ctl[c].activity
           e == ctl[c].evidence
<1>1. /\ ctl[c].pc = "record" /\ a \in Activities /\ e \in EvidenceType
      /\ e.status \in Statuses /\ Backs(e, a)
      /\ UNCHANGED <<active, tried, result, callers, slot, crashes>>
  BY Remembers DEF Record, MemoryOK
<1>2. ASSUME evidence[a] \in {NoEvidence, e},
             evidence' = [evidence EXCEPT ![a] = e], Goto(c, "apply")
      PROVE  Inv'
  <2>1. PICK m \in MemoryType : m = [ctl[c] EXCEPT !.pc = "apply"]
    BY Remembers DEF MemoryType
  <2>2. /\ m.pc = "apply" /\ m.evidence = e /\ m.result = ctl[c].result
        /\ m.lease = ctl[c].lease /\ m.activity = a
    BY <2>1, Remembers DEF MemoryType
  <2>3. /\ evidence' \in [Activities -> EvidenceType] /\ evidence'[a] = e
        /\ \A b \in Activities \ {a} : evidence'[b] = evidence[b]
    BY <1>1, <1>2 DEF Inv, TypeOK
  <2>4. ctl' = [ctl EXCEPT ![c] = m]
    BY <1>2, <2>1 DEF Goto
  <2>5. TypeOK'
    BY <1>1, <2>3, <2>4 DEF Inv, TypeOK, slot
  <2>6. evidence[a] # e => result[a] = NoResult
    <3>1. \A r : ~Fits(r, NoEvidence)
      BY Known DEF Fits, Evidence, Statuses, Bad
    <3> QED
      BY <1>1, <1>2, <3>1 DEF Inv, JournalOK
  <2>7. JournalOK'
    <3> HIDE DEF a, e
    <3> QED
      BY <1>1, <2>3, <2>6 DEF Inv, JournalOK, Backs, slot
  <2>8. MemoryOK(m)'
    <3> HIDE DEF a, e
    <3>1. /\ Fits(m.result, m.evidence) /\ Backs(m.result, m.activity)
          /\ MemoryOK(ctl[c])
      BY <1>1, <2>2, Remembers DEF MemoryOK, a, e
    <3> QED
      BY <1>1, <2>2, <2>3, <3>1 DEF MemoryOK, Backs, slot, a
  <2>9. ASSUME NEW d \in Controllers \ {c}, ctl[d].pc = "apply"
        PROVE  evidence'[ctl[d].activity] = evidence[ctl[d].activity]
    <3>1. /\ ctl[d].activity \in Activities
          /\ evidence[ctl[d].activity].status \in Statuses
      BY <2>9, Remembers DEF MemoryOK
    <3>2. ctl[d].activity = a => evidence[a] = e
      BY <1>2, <3>1, Known DEF Statuses
    <3> QED
      BY <2>3, <3>1, <3>2
  <2> HIDE DEF a, e
  <2> QED
    BY <1>1, <2>4, <2>5, <2>7, <2>8, <2>9, JournalChange
<1>3. CASE Raise(c) /\ UNCHANGED evidence
  <2>1. UNCHANGED <<journal, slot, crashes>>
    BY <1>1, <1>3 DEF journal
  <2> QED
    BY <1>3, <2>1, IsQuiet, Raising
<1> QED
  BY <1>2, <1>3 DEF Record

LEMMA ApplyStep ==
    ASSUME Inv, NEW c \in Controllers, Apply(c) PROVE Inv'
<1> DEFINE a == ctl[c].activity
           r == ctl[c].result
<1>1. /\ a \in Activities /\ r \in ResultType
      /\ Fits(r, evidence[a]) /\ Backs(r, a)
      /\ Raise(c) /\ UNCHANGED <<tried, evidence, callers, slot, crashes>>
  BY Remembers, Known DEF Apply, MemoryOK
<1>2. CASE /\ active = a
           /\ result' = [result EXCEPT ![a] = r] /\ active' = 0
  <2>1. /\ result' \in [Activities -> ResultType] /\ result'[a] = r
        /\ \A b \in Activities \ {a} : result'[b] = result[b]
    BY <1>1, <1>2 DEF Inv, TypeOK
  <2>2. TypeOK'
    <3>1. ctl' = [ctl EXCEPT ![c] = Idle] /\ UNCHANGED <<tried, evidence, callers, slot, crashes>>
      BY <1>1 DEF Raise
    <3> HIDE DEF a, r
    <3> QED
      BY <1>2, <2>1, <3>1, Known, BoundsAssumption DEF Inv, TypeOK, slot
  <2>3. a = tried
    BY <1>1, <1>2 DEF Inv, JournalOK, Activities
  <2>4. tried \in Nat
    BY BoundsAssumption DEF Inv, TypeOK, Activities
  <2>5. JournalOK'
    <3> HIDE DEF a, r
    <3> QED
      BY <1>1, <1>2, <2>1, <2>3, <2>4 DEF Inv, JournalOK, Backs, slot, Activities
  <2>6. MemoryOK(Idle)'
    BY <1>1, Known DEF Inv, TypeOK, slot, MemoryOK, Idle
  <2>7. ctl' = [ctl EXCEPT ![c] = Idle] /\ UNCHANGED <<evidence, slot>>
    BY <1>1 DEF Raise
  <2> QED
    BY <2>2, <2>5, <2>6, <2>7, Known, JournalChange
<1>3. CASE UNCHANGED <<result, active>>
  <2>1. UNCHANGED <<journal, slot, crashes>>
    BY <1>1, <1>3 DEF journal
  <2> QED
    BY <1>1, <2>1, IsQuiet, Raising
<1> QED
  BY <1>2, <1>3 DEF Apply

LEMMA RetryStep ==
    ASSUME Inv, NEW c \in Controllers, Retry(c) PROVE Inv'
<1>1. /\ tried + 1 \in Activities /\ tried \in Nat /\ tried' = tried + 1
      /\ active' = tried + 1 /\ result[tried + 1] = NoResult
      /\ UNCHANGED <<result, evidence, callers, slot, ctl, crashes>>
  BY BoundsAssumption DEF Retry, Inv, TypeOK, JournalOK, Activities
<1>2. TypeOK' /\ SlotIsNewest' /\ SlotHistory'
  BY <1>1, BoundsAssumption
     DEF Inv, TypeOK, SlotIsNewest, SlotHistory, slot, Activities
<1>3. JournalOK'
  BY <1>1 DEF Inv, JournalOK, Backs, slot, Activities
<1>4. MemoriesOK'
  BY <1>1 DEF Inv, MemoriesOK, MemoryOK, Backs, slot
<1> QED
  BY <1>2, <1>3, <1>4 DEF Inv

LEMMA CrashStep ==
    ASSUME Inv, NEW c \in Controllers, Crash(c) PROVE Inv'
<1>1. Quiet
  BY BoundsAssumption DEF Crash, Inv, TypeOK, Quiet, journal
<1> QED
  BY <1>1, Raising DEF Crash

LEMMA StepInv == Inv /\ [Next]_vars => Inv'
<1> SUFFICES ASSUME Inv, [Next]_vars PROVE Inv'
  OBVIOUS
<1>1. ASSUME Next PROVE Inv'
  <2>1. PICK c \in Controllers :
          \/ Dispatch(c) \/ Accept(c) \/ Mark(c) \/ Lookup(c) \/ RecoverOutput(c)
          \/ Refuse(c) \/ Acquire(c) \/ Work(c) \/ Revoke(c) \/ Stage(c)
          \/ Commit(c) \/ Check(c) \/ Reread(c) \/ Owner(c) \/ Record(c)
          \/ Apply(c) \/ Retry(c) \/ Crash(c)
    BY <1>1 DEF Next
  <2> QED
    BY <2>1, DispatchStep, AcceptStep, MarkStep, LookupStep, RecoverStep,
       RefuseStep, AcquireStep, WorkStep, RevokeStep, StageStep, CommitStep,
       CheckStep, RereadStep, OwnerStep, RecordStep, ApplyStep, RetryStep,
       CrashStep
<1>2. CASE UNCHANGED vars
  BY <1>2 DEF vars, slot, Inv, TypeOK, SlotIsNewest, SlotHistory, JournalOK,
              Backs, MemoriesOK, MemoryOK
<1> QED
  BY <1>1, <1>2

LEMMA Invariance == Spec => []Inv
BY InitInv, StepInv, PTL DEF Spec

-----------------------------------------------------------------------------
(* What it is for.                                                         *)

(* However many controllers lease a node's slot, a lease that was overtaken *)
(* neither stages nor commits in it, and acquire and revoke leave nothing   *)
(* of it behind (sqlite_node_output.py, _assert_current and the deletes).   *)
THEOREM Fenced == Spec => []SlotIsNewest
<1>1. Inv => SlotIsNewest
  BY DEF Inv
<1> QED
  BY <1>1, Invariance, PTL

(* A node is reported successful only with an output its slot committed     *)
(* for the same activity, through execute, its second read of the slot and  *)
(* recover_committed_output alike (activity_executor.py).                   *)
THEOREM Backed == Spec => []SuccessIsBacked
<1>1. Inv => SuccessIsBacked
  BY DEF Inv, JournalOK, Backs, SuccessIsBacked
<1> QED
  BY <1>1, Invariance, PTL

(* A committed result is the one recorded as the activity's terminal        *)
(* evidence, or a success over failed evidence, never a failure over        *)
(* evidence of success (record_graph_activity_result,                       *)
(* accept_activity_result).                                                 *)
THEOREM Decided == Spec => []EvidenceDecides
<1>1. Inv => EvidenceDecides
  BY DEF Inv, JournalOK, Fits, EvidenceDecides, Bad
<1> QED
  BY <1>1, Invariance, PTL

(* accept_activity_result commits one result per activity and only for the  *)
(* newest one, whatever late controllers bring.                             *)
THEOREM Final == Spec => ResultsAreFinal
<1> DEFINE A == \A a \in Activities :
                  /\ result[a] # NoResult => result'[a] = result[a]
                  /\ result'[a] # result[a] => a = tried
<1>1. Inv /\ [Next]_vars => [A]_vars
  <2> SUFFICES ASSUME Inv, Next PROVE A
    OBVIOUS
  <2>1. PICK c \in Controllers : Apply(c) \/ UNCHANGED result
    BY DEF Next, Dispatch, Accept, Mark, Lookup, RecoverOutput, Refuse, Acquire,
           Work, Revoke, Stage, Commit, Check, Reread, Owner, Record, Retry,
           Crash, journal
  <2>2. CASE Apply(c)
    <3> DEFINE b == ctl[c].activity
               r == ctl[c].result
    <3>1. \/ /\ result[b] = NoResult /\ active = b /\ b # 0
             /\ result' = [result EXCEPT ![b] = r]
          \/ UNCHANGED result
      BY <2>2, Remembers DEF Apply, Activities
    <3>2. result \in [Activities -> ResultType] /\ (active # 0 => active = tried)
      BY DEF Inv, TypeOK, JournalOK
    <3> HIDE DEF b, r
    <3> QED
      BY <3>1, <3>2
  <2> QED
    BY <2>1, <2>2
<1> QED
  BY <1>1, Invariance, PTL DEF Spec, ResultsAreFinal
=============================================================================
