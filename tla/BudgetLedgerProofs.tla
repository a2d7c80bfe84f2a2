------------------------- MODULE BudgetLedgerProofs -------------------------
(***************************************************************************)
(* Proofs about BudgetLedger: for every tree of scopes, every limit and    *)
(* any number of threads, what a scope has committed and reserved stays    *)
(* within its limits (invariant TypeOK /\ WithinLimits: that a request is  *)
(* never negative is what makes a release harmless), an operation is       *)
(* decided once, a provider call is paid for (Accounted: what a thread     *)
(* that is alone with its operation finds at each point of its call), and  *)
(* a verified check tells the outcome (Faithful: as long as the revisions  *)
(* number the stream, each terminal fact agrees with its record).  Last,   *)
(* what a replay of the stream gives is the live ledger: one more fact     *)
(* extends the replay as the step that stores it changes the ledger.       *)
(***************************************************************************)
EXTENDS BudgetLedgerProperties, WellFoundedInduction, TLAPS

-----------------------------------------------------------------------------
(* The arithmetic of amounts.                                              *)

\* A non-empty set of numbers has a least one.
LEMMA LeastExists ==
    ASSUME NEW T, T \subseteq Nat, T # {}
    PROVE  \E x \in T : \A y \in T : x <= y
<1>1. PICK x \in T : \A y \in T : ~(<<y, x>> \in OpToRel(<, Nat))
  BY WFMin, NatLessThanWellFounded
<1>2. \A y \in T : ~(y < x)
  BY <1>1 DEF OpToRel
<1> QED BY <1>2

\* Adding amounts adds what they measure.
LEMMA MeasurePlus ==
    ASSUME NEW a \in Amounts, NEW b \in Amounts, NEW m \in Measures
    PROVE  /\ Plus(a, b) \in Amounts
           /\ Measure(a, m) \in Int
           /\ Measure(Plus(a, b), m) = Measure(a, m) + Measure(b, m)
BY DEF Amounts, Fields, Measures, Plus, Measure

\* Subtracting amounts subtracts what they measure.
LEMMA MeasureMinus ==
    ASSUME NEW a \in Amounts, NEW b \in Amounts, NEW m \in Measures
    PROVE  /\ Minus(a, b) \in Amounts
           /\ Measure(Minus(a, b), m) = Measure(a, m) - Measure(b, m)
BY DEF Amounts, Fields, Measures, Minus, Measure

\* What was asked for or used measures no less than nothing.
LEMMA SpendMeasure ==
    ASSUME NEW a \in Spend, NEW m \in Measures
    PROVE  a \in Amounts /\ Measure(a, m) \in Nat
BY DEF Spend, Amounts, Fields, Measures, Measure

\* What is left of a measure is a number or Unbounded.
LEMMA AvailableType ==
    ASSUME BudgetAssumption, committed \in [Scopes -> Amounts],
           reserved \in [Scopes -> Amounts], NEW s \in Scopes, NEW m \in Measures
    PROVE  Available(s, m) \in Nat \cup {Unbounded}
<1> DEFINE left == {Floor(Limit[a][m] - Measure(Used(a), m)) :
                       a \in {b \in Ancestors[s] : Limit[b][m] # Unbounded}}
<1>1. ASSUME NEW a \in Ancestors[s], Limit[a][m] # Unbounded
      PROVE  Floor(Limit[a][m] - Measure(Used(a), m)) \in Nat
  <2>1. a \in Scopes /\ Limit[a][m] \in Nat
    BY <1>1 DEF BudgetAssumption
  <2>2. Measure(Used(a), m) \in Int
    BY <2>1, MeasurePlus DEF Used
  <2> QED BY <2>1, <2>2 DEF Floor
<1>2. left \subseteq Nat
  BY <1>1
<1>3. left # {} => \E x \in left : \A y \in left : x <= y
  BY <1>2, LeastExists
<1>4. left # {} => (CHOOSE x \in left : \A y \in left : x <= y) \in Nat
  BY <1>2, <1>3
<1> QED BY <1>4 DEF Available

\* Every total stays an amount when the scopes above s take or give one.
LEMMA TotalsType ==
    ASSUME NEW totals \in [Scopes -> Amounts], NEW s \in Scopes, NEW a \in Amounts
    PROVE  /\ Add(totals, s, a) \in [Scopes -> Amounts]
           /\ Subtract(totals, s, a) \in [Scopes -> Amounts]
BY DEF Add, Subtract, Plus, Minus, Amounts

\* An amount built from three numbers is something to spend.
LEMMA AmountType ==
    ASSUME NEW c \in Nat, NEW i \in Nat, NEW o \in Nat
    PROVE  Amount(c, i, o) \in Spend
BY DEF Amount, Spend, Fields

-----------------------------------------------------------------------------
(* Types.                                                                  *)

\* What a step changes in a thread's record keeps its type.
LEMMA CallChange ==
    ASSUME NEW c \in CallType, NEW p \in Points
    PROVE  /\ [c EXCEPT !.pc = p] \in CallType
           /\ \A x \in BOOLEAN : [c EXCEPT !.pc = p, !.within = x] \in CallType
           /\ \A x \in BOOLEAN : [c EXCEPT !.pc = p, !.dispatched = x] \in CallType
           /\ \A x \in TotalType : [c EXCEPT !.pc = p, !.total = x] \in CallType
           /\ \A x \in CheckType : [c EXCEPT !.pc = p, !.check = x] \in CallType
           /\ \A w \in Spend : [c EXCEPT !.pc = p, !.want = w] \in CallType
           /\ \A w \in Spend : \A x \in BOOLEAN :
                 [c EXCEPT !.pc = p, !.physical = x, !.want = w] \in CallType
BY DEF CallType

\* What a step changes in an operation's record keeps its type.
LEMMA RecordChange ==
    ASSUME NEW r \in RecordType, NEW status \in Statuses, NEW n \in Nat, NEW a \in Spend
    PROVE  /\ [r EXCEPT !.status = status, !.rev = n] \in RecordType
           /\ [r EXCEPT !.status = status, !.requested = a, !.rev = n] \in RecordType
           /\ [r EXCEPT !.status = status, !.actual = a, !.rev = n] \in RecordType
BY DEF RecordType

\* Init has the types.
LEMMA InitType == ASSUME BudgetAssumption, Init PROVE TypeOK
<1>1. Zero \in Spend /\ Zero \in Amounts
  BY DEF Zero, Spend, Amounts
<1>2. NoRecord \in RecordType /\ IdleCall \in CallType
  BY <1>1 DEF NoRecord, RecordType, IdleCall, CallType, NoCheck, CheckType, TotalType,
              Statuses, Points
<1> QED BY <1>1, <1>2 DEF Init, TypeOK, BudgetAssumption

\* A step that changes the threads' records only.
LEMMA CallOnly ==
    ASSUME TypeOK, UNCHANGED <<ledger, stream, faults>>, call' \in [Threads -> CallType]
    PROVE  TypeOK'
BY DEF TypeOK, ledger

\* A thread that moves on, closes or raises keeps its type.
LEMMA MoveType ==
    ASSUME TypeOK, NEW t \in Threads
    PROVE  /\ \A p \in Points : Move(t, p) => call' \in [Threads -> CallType]
           /\ \A x \in BOOLEAN : Close(t, x) => call' \in [Threads -> CallType]
<1>1. call[t] \in CallType /\ call \in [Threads -> CallType]
  BY DEF TypeOK
<1>2. ASSUME NEW p \in Points, Move(t, p) PROVE call' \in [Threads -> CallType]
  <2>1. call' = [call EXCEPT ![t] = [call[t] EXCEPT !.pc = p]]
    BY <1>2 DEF Move
  <2> QED BY <1>1, <2>1, CallChange
<1>3. ASSUME NEW x \in BOOLEAN, Close(t, x) PROVE call' \in [Threads -> CallType]
  <2>1. call' = [call EXCEPT ![t] = [call[t] EXCEPT !.pc = "closed", !.within = x]]
    BY <1>3 DEF Close
  <2>2. "closed" \in Points
    BY DEF Points
  <2> QED BY <1>1, <2>1, <2>2, CallChange
<1> QED BY <1>2, <1>3

\* A failed append leaves every type as it was.
LEMMA FailedType ==
    ASSUME TypeOK, BudgetAssumption, NEW t \in Threads, NEW fact \in FactType,
           AppendFails(t, fact)
    PROVE  TypeOK'
<1>1. call' \in [Threads -> CallType]
  BY MoveType DEF AppendFails, Points
<1>2. stream' \in Seq(FactType)
  <2>1. stream \in Seq(FactType)
    BY DEF TypeOK
  <2>2. stream' = stream \/ stream' = Append(stream, fact)
    BY DEF AppendFails
  <2> QED BY <2>1, <2>2, SMTT(40)
<1>3. UNCHANGED ledger /\ faults' \in 0..MaxFaults
  BY DEF TypeOK, AppendFails, BudgetAssumption
<1> QED BY <1>1, <1>2, <1>3 DEF TypeOK, ledger

\* A published fact keeps the types of stream, revision and faults.
LEMMA PublishedType ==
    ASSUME TypeOK, NEW fact \in FactType, Published(fact)
    PROVE  stream' \in Seq(FactType) /\ revision' \in Nat /\ faults' \in 0..MaxFaults
<1>1. stream \in Seq(FactType) /\ revision \in Nat /\ faults \in 0..MaxFaults
  BY DEF TypeOK
<1> QED BY <1>1 DEF Published

\* A fact about the operation of a thread.
LEMMA FactTyped ==
    ASSUME NEW t \in Threads, NEW kind \in Statuses, NEW a \in Spend, NEW n \in Nat
    PROVE  /\ OpOf[t] \in Operations
           /\ Fact(OpOf[t], kind, a, n) \in FactType
           /\ Fact(OpOf[t], kind, a, n).rev = n
<1>1. OpOf[t] \in Operations
  BY DEF Operations
<1> QED BY <1>1 DEF Fact, FactType

\* Sizing a request never asks for less than nothing.
LEMMA SizeType ==
    ASSUME TypeOK, BudgetAssumption, NEW t \in Threads, Size(t)
    PROVE  TypeOK'
<1>1. PICK need \in Estimates :
        call' = [call EXCEPT ![t].pc = "sized",
                    ![t].want = Amount(1, SizedInput(t, need), SizedOutput(t, need))]
  BY DEF Size
<1>2. need["input"] \in Nat /\ need["output"] \in Nat
  BY DEF BudgetAssumption, Spend, Fields
<1>3. Available(ScopeOf[t], "output") \in Nat \cup {Unbounded}
  BY AvailableType DEF TypeOK, BudgetAssumption, Measures, Fields
<1>4. SizedOutput(t, need) \in Nat
  BY <1>2, <1>3 DEF SizedOutput, Least, Unbounded
<1>5. call[t] \in CallType /\ call \in [Threads -> CallType]
  BY DEF TypeOK
<1>6. SizedInput(t, need) \in Nat
  BY <1>2, <1>4, <1>5 DEF SizedInput, Least, Floor, Unbounded, CallType, TotalType
<1>7. Amount(1, SizedInput(t, need), SizedOutput(t, need)) \in Spend
  BY <1>4, <1>6, AmountType
<1>8. call' = [call EXCEPT ![t] = [call[t] EXCEPT !.pc = "sized",
                  !.want = Amount(1, SizedInput(t, need), SizedOutput(t, need))]]
  BY <1>1
<1>9. "sized" \in Points
  BY DEF Points
<1>10. call' \in [Threads -> CallType]
  BY <1>5, <1>7, <1>8, <1>9, CallChange
<1>11. UNCHANGED <<ledger, stream, faults>>
  BY DEF Size
<1> QED BY <1>10, <1>11, CallOnly

-----------------------------------------------------------------------------
(* The five writes of the ledger.                                          *)

\* The facts a thread writes about: its record and what it asks for.
LEMMA Own ==
    ASSUME TypeOK, BudgetAssumption, NEW t \in Threads
    PROVE  /\ OpOf[t] \in Operations /\ ScopeOf[t] \in Scopes
           /\ record[OpOf[t]] \in RecordType
           /\ record[OpOf[t]].requested \in Spend
           /\ call[t] \in CallType /\ call[t].want \in Spend
<1>1. OpOf[t] \in Operations
  BY DEF Operations
<1> QED BY <1>1 DEF TypeOK, BudgetAssumption, RecordType, CallType

LEMMA DenyType ==
    ASSUME TypeOK, BudgetAssumption, NEW t \in Threads, Deny(t)
    PROVE  TypeOK'
<1> DEFINE fact == Fact(OpOf[t], "denied", call[t].want, revision + 1)
           new  == [NoRecord EXCEPT !.status = "denied", !.requested = call[t].want,
                                    !.rev = fact.rev]
<1>1. fact \in FactType /\ fact.rev = revision + 1 /\ fact.rev \in Nat
  <2>1. revision + 1 \in Nat
    BY DEF TypeOK
  <2> QED BY <2>1, Own, FactTyped DEF Statuses
<1>2. CASE AppendFails(t, fact)
  BY <1>1, <1>2, FailedType
<1>3. CASE /\ Published(fact)
           /\ record' = [record EXCEPT ![OpOf[t]] = new]
           /\ call' = [call EXCEPT ![t].pc = "reported",
                          ![t].check = [within |-> FALSE, rev |-> fact.rev]]
           /\ UNCHANGED <<committed, reserved>>
  <2>1. new \in RecordType
    <3>1. Zero \in Spend
      BY DEF Zero, Spend
    <3>2. NoRecord \in RecordType /\ "denied" \in Statuses
      BY <3>1 DEF NoRecord, RecordType, Statuses
    <3> QED BY <1>1, <3>2, Own, RecordChange
  <2>2. call' \in [Threads -> CallType]
    <3>1. [within |-> FALSE, rev |-> fact.rev] \in CheckType /\ "reported" \in Points
      BY <1>1 DEF CheckType, Points
    <3>2. call' = [call EXCEPT ![t] = [call[t] EXCEPT !.pc = "reported",
                                  !.check = [within |-> FALSE, rev |-> fact.rev]]]
      BY <1>3
    <3>3. call \in [Threads -> CallType] /\ call[t] \in CallType
      BY DEF TypeOK
    <3> QED BY <3>1, <3>2, <3>3, CallChange
  <2>3. record' \in [Operations -> RecordType]
    BY <1>3, <2>1 DEF TypeOK
  <2> QED BY <1>1, <1>3, <2>2, <2>3, PublishedType DEF TypeOK
<1> QED BY <1>2, <1>3 DEF Deny

LEMMA ReserveType ==
    ASSUME TypeOK, BudgetAssumption, NEW t \in Threads, Reserve(t)
    PROVE  TypeOK'
<1> DEFINE fact == Fact(OpOf[t], "reserved", call[t].want, revision + 1)
           new  == [NoRecord EXCEPT !.status = "reserved", !.requested = call[t].want,
                                    !.rev = fact.rev]
<1>1. fact \in FactType /\ fact.rev = revision + 1 /\ fact.rev \in Nat
  <2>1. revision + 1 \in Nat
    BY DEF TypeOK
  <2> QED BY <2>1, Own, FactTyped DEF Statuses
<1>2. CASE AppendFails(t, fact)
  BY <1>1, <1>2, FailedType
<1>3. CASE /\ Published(fact)
           /\ record' = [record EXCEPT ![OpOf[t]] = new]
           /\ reserved' = Add(reserved, ScopeOf[t], call[t].want)
           /\ Move(t, "held")
           /\ UNCHANGED committed
  <2>1. new \in RecordType
    <3>1. Zero \in Spend
      BY DEF Zero, Spend
    <3>2. NoRecord \in RecordType /\ "reserved" \in Statuses
      BY <3>1 DEF NoRecord, RecordType, Statuses
    <3> QED BY <1>1, <3>2, Own, RecordChange
  <2>2. call' \in [Threads -> CallType]
    BY <1>3, MoveType DEF Points
  <2>3. record' \in [Operations -> RecordType]
    BY <1>3, <2>1 DEF TypeOK
  <2>4. reserved' \in [Scopes -> Amounts]
    <3>1. call[t].want \in Amounts
      BY Own DEF Spend, Amounts
    <3> QED BY <1>3, <3>1, Own, TotalsType DEF TypeOK
  <2> QED BY <1>1, <1>3, <2>2, <2>3, <2>4, PublishedType DEF TypeOK
<1> QED BY <1>2, <1>3 DEF Reserve

LEMMA IndeterminateType ==
    ASSUME TypeOK, BudgetAssumption, NEW t \in Threads, BecomeIndeterminate(t)
    PROVE  TypeOK'
<1> DEFINE fact == Fact(OpOf[t], "indeterminate", record[OpOf[t]].requested, revision + 1)
           new  == [record[OpOf[t]] EXCEPT !.status = "indeterminate", !.rev = fact.rev]
<1>1. fact \in FactType /\ fact.rev = revision + 1 /\ fact.rev \in Nat
  <2>1. revision + 1 \in Nat
    BY DEF TypeOK
  <2> QED BY <2>1, Own, FactTyped DEF Statuses
<1>2. CASE AppendFails(t, fact)
  BY <1>1, <1>2, FailedType
<1>3. CASE /\ Published(fact)
           /\ record' = [record EXCEPT ![OpOf[t]].status = "indeterminate",
                                       ![OpOf[t]].rev = fact.rev]
           /\ Close(t, FALSE)
           /\ UNCHANGED <<committed, reserved>>
  <2>1. new \in RecordType
    BY <1>1, Own, RecordChange DEF Statuses
  <2>2. call' \in [Threads -> CallType]
    BY <1>3, MoveType
  <2>3. record' = [record EXCEPT ![OpOf[t]] = new]
    BY <1>3
  <2>4. record' \in [Operations -> RecordType]
    BY <2>1, <2>3 DEF TypeOK
  <2> QED BY <1>1, <1>3, <2>2, <2>4, PublishedType DEF TypeOK
<1> QED BY <1>2, <1>3 DEF BecomeIndeterminate

LEMMA SettledType ==
    ASSUME TypeOK, BudgetAssumption, NEW t \in Threads, NEW actual \in Spend,
           BecomeSettled(t, actual)
    PROVE  TypeOK'
<1> DEFINE fact == Fact(OpOf[t], "settled", actual, revision + 1)
           new  == [record[OpOf[t]] EXCEPT !.status = "settled", !.actual = actual,
                                           !.rev = fact.rev]
<1>1. fact \in FactType /\ fact.rev = revision + 1 /\ fact.rev \in Nat
  <2>1. revision + 1 \in Nat
    BY DEF TypeOK
  <2> QED BY <2>1, Own, FactTyped DEF Statuses
<1>2. CASE AppendFails(t, fact)
  BY <1>1, <1>2, FailedType
<1>3. CASE /\ Published(fact)
           /\ record' = [record EXCEPT ![OpOf[t]].status = "settled",
                                       ![OpOf[t]].actual = actual, ![OpOf[t]].rev = fact.rev]
           /\ reserved' = Subtract(reserved, ScopeOf[t], record[OpOf[t]].requested)
           /\ committed' = Add(committed, ScopeOf[t], actual)
           /\ Close(t, TRUE)
  <2>1. new \in RecordType
    BY <1>1, Own, RecordChange DEF Statuses
  <2>2. call' \in [Threads -> CallType]
    BY <1>3, MoveType
  <2>3. record' = [record EXCEPT ![OpOf[t]] = new]
    BY <1>3
  <2>4. record' \in [Operations -> RecordType]
    BY <2>1, <2>3 DEF TypeOK
  <2>5. reserved' \in [Scopes -> Amounts] /\ committed' \in [Scopes -> Amounts]
    <3>1. actual \in Amounts /\ record[OpOf[t]].requested \in Amounts
      BY Own DEF Spend, Amounts
    <3> QED BY <1>3, <3>1, Own, TotalsType DEF TypeOK
  <2> QED BY <1>1, <1>3, <2>2, <2>4, <2>5, PublishedType DEF TypeOK
<1> QED BY <1>2, <1>3 DEF BecomeSettled

LEMMA ReleaseType ==
    ASSUME TypeOK, BudgetAssumption, NEW t \in Threads, Release(t)
    PROVE  TypeOK'
<1> DEFINE fact == Fact(OpOf[t], "released", record[OpOf[t]].requested, revision + 1)
           new  == [record[OpOf[t]] EXCEPT !.status = "released", !.rev = fact.rev]
<1>1. fact \in FactType /\ fact.rev = revision + 1 /\ fact.rev \in Nat
  <2>1. revision + 1 \in Nat
    BY DEF TypeOK
  <2> QED BY <2>1, Own, FactTyped DEF Statuses
<1>2. CASE AppendFails(t, fact)
  BY <1>1, <1>2, FailedType
<1>3. CASE /\ Published(fact)
           /\ record' = [record EXCEPT ![OpOf[t]].status = "released",
                                       ![OpOf[t]].rev = fact.rev]
           /\ reserved' = Subtract(reserved, ScopeOf[t], record[OpOf[t]].requested)
           /\ Close(t, TRUE)
           /\ UNCHANGED committed
  <2>1. new \in RecordType
    BY <1>1, Own, RecordChange, ZenonT(90) DEF Statuses
  <2>2. call' \in [Threads -> CallType]
    BY <1>3, MoveType
  <2>3. record' = [record EXCEPT ![OpOf[t]] = new]
    BY <1>3
  <2>4. record' \in [Operations -> RecordType]
    BY <2>1, <2>3 DEF TypeOK
  <2>5. reserved' \in [Scopes -> Amounts]
    <3>1. record[OpOf[t]].requested \in Amounts
      BY Own DEF Spend, Amounts
    <3> QED BY <1>3, <3>1, Own, TotalsType DEF TypeOK
  <2> QED BY <1>1, <1>3, <2>2, <2>4, <2>5, PublishedType DEF TypeOK
<1>4. CASE Close(t, TRUE) /\ UNCHANGED <<ledger, stream, faults>>
  BY <1>4, MoveType, CallOnly
<1>5. CASE Raise(t)
  BY <1>5, MoveType, CallOnly DEF Raise, Points
<1> QED BY <1>2, <1>3, <1>4, <1>5 DEF Release

\* settle, whichever answer it gives.
LEMMA SettleWithType ==
    ASSUME TypeOK, BudgetAssumption, NEW t \in Threads, NEW actual \in Spend,
           SettleWith(t, actual)
    PROVE  TypeOK'
<1>1. CASE Close(t, TRUE) /\ UNCHANGED <<ledger, stream, faults>>
  BY <1>1, MoveType, CallOnly
<1>2. CASE BecomeSettled(t, actual)
  BY <1>2, SettledType
<1>3. CASE BecomeIndeterminate(t)
  BY <1>3, IndeterminateType
<1>4. CASE Raise(t)
  BY <1>4, MoveType, CallOnly DEF Raise, Points
<1> QED BY <1>1, <1>2, <1>3, <1>4 DEF SettleWith

\* What a settlement charges is something to spend.
LEMMA ChargeType ==
    ASSUME TypeOK, BudgetAssumption, NEW t \in Threads
    PROVE  /\ Amount(record[OpOf[t]].requested["calls"], 0, 0) \in Spend
           /\ \A u \in Usages :
                Amount(record[OpOf[t]].requested["calls"], u["input"], u["output"]) \in Spend
<1>1. record[OpOf[t]].requested["calls"] \in Nat
  BY Own DEF Spend, Fields
<1>2. \A u \in Usages : u["input"] \in Nat /\ u["output"] \in Nat
  BY DEF BudgetAssumption, Spend, Fields
<1> QED BY <1>1, <1>2, AmountType

\* The steps that only move the thread on.
LEMMA ThreadType ==
    ASSUME TypeOK, BudgetAssumption, NEW t \in Threads,
           ReadTotal(t) \/ SizeLookup(t) \/ ReserveAgain(t) \/ Dispatch(t) \/ Report(t)
    PROVE  TypeOK'
<1>1. call \in [Threads -> CallType] /\ call[t] \in CallType
  BY DEF TypeOK
<1>2. CASE ReadTotal(t)
  <2>1. Available(ScopeOf[t], "total") \in TotalType
    BY AvailableType DEF TypeOK, BudgetAssumption, Measures, TotalType
  <2>2. call' = [call EXCEPT ![t] = [call[t] EXCEPT !.pc = "sizing",
                                        !.total = Available(ScopeOf[t], "total")]]
    BY <1>2 DEF ReadTotal
  <2>3. call' \in [Threads -> CallType]
    BY <1>1, <2>1, <2>2, CallChange DEF Points
  <2> QED BY <1>2, <2>3, CallOnly DEF ReadTotal
<1>3. CASE SizeLookup(t)
  <2>1. call' = [call EXCEPT ![t] = [call[t] EXCEPT !.pc = "sized", !.physical = FALSE,
                                        !.want = Amount(1, 0, 0)]]
    BY <1>3 DEF SizeLookup
  <2>2. Amount(1, 0, 0) \in Spend
    BY AmountType
  <2>3. call' \in [Threads -> CallType]
    BY <1>1, <2>1, <2>2, CallChange DEF Points
  <2> QED BY <1>3, <2>3, CallOnly DEF SizeLookup
<1>4. CASE ReserveAgain(t)
  <2>1. ASSUME NEW p \in Points, Move(t, p) PROVE call' \in [Threads -> CallType]
    BY <2>1, MoveType
  <2>2. ASSUME call' = [call EXCEPT ![t].pc = "reported",
                    ![t].check = [within |-> FALSE, rev |-> record[OpOf[t]].rev]]
        PROVE  call' \in [Threads -> CallType]
    <3>1. [within |-> FALSE, rev |-> record[OpOf[t]].rev] \in CheckType
      BY Own DEF RecordType, CheckType
    <3>2. call' = [call EXCEPT ![t] = [call[t] EXCEPT !.pc = "reported",
                    !.check = [within |-> FALSE, rev |-> record[OpOf[t]].rev]]]
      BY <2>2
    <3> QED BY <1>1, <3>1, <3>2, CallChange DEF Points
  <2>3. call' \in [Threads -> CallType]
    BY <1>4, <2>1, <2>2 DEF ReserveAgain, Points
  <2> QED BY <1>4, <2>3, CallOnly DEF ReserveAgain
<1>5. CASE Dispatch(t)
  <2>1. call' = [call EXCEPT ![t] = [call[t] EXCEPT !.pc = "dispatched",
                                                    !.dispatched = TRUE]]
    BY <1>5 DEF Dispatch
  <2>2. call' \in [Threads -> CallType]
    BY <1>1, <2>1, CallChange DEF Points
  <2> QED BY <1>5, <2>2, CallOnly DEF Dispatch
<1>6. CASE Report(t)
  <2>1. [within |-> call[t].within, rev |-> revision] \in CheckType
    BY <1>1 DEF CheckType, CallType, TypeOK
  <2>2. call' = [call EXCEPT ![t] = [call[t] EXCEPT !.pc = "reported",
                    !.check = [within |-> call[t].within, rev |-> revision]]]
    BY <1>6 DEF Report
  <2>3. call' \in [Threads -> CallType]
    BY <1>1, <2>1, <2>2, CallChange DEF Points
  <2> QED BY <1>6, <2>3, CallOnly DEF Report
<1> QED BY <1>2, <1>3, <1>4, <1>5, <1>6

LEMMA MarkType ==
    ASSUME TypeOK, BudgetAssumption, NEW t \in Threads, MarkIndeterminate(t)
    PROVE  TypeOK'
<1>1. CASE BecomeIndeterminate(t)
  BY <1>1, IndeterminateType
<1>2. CASE Close(t, FALSE) /\ UNCHANGED <<ledger, stream, faults>>
  BY <1>2, MoveType, CallOnly
<1>3. CASE Raise(t)
  BY <1>3, MoveType, CallOnly DEF Raise, Points
<1> QED BY <1>1, <1>2, <1>3 DEF MarkIndeterminate

\* Every step keeps the types.
LEMMA TypeStep == ASSUME BudgetAssumption, TypeOK, [Next]_vars PROVE TypeOK'
<1>1. CASE UNCHANGED vars
  BY <1>1 DEF TypeOK, vars, ledger
<1>2. ASSUME NEW t \in Threads, Attempt(t) PROVE TypeOK'
  <2>1. CASE ReadTotal(t) \/ SizeLookup(t) \/ ReserveAgain(t) \/ Dispatch(t) \/ Report(t)
    BY <2>1, ThreadType
  <2>2. CASE Size(t)
    BY <2>2, SizeType
  <2>3. CASE Deny(t)
    BY <2>3, DenyType
  <2>4. CASE Reserve(t)
    BY <2>4, ReserveType
  <2>5. CASE Settle(t)
    BY <2>5, ChargeType, SettleWithType DEF Settle
  <2>6. CASE MarkIndeterminate(t)
    BY <2>6, MarkType
  <2>7. CASE CacheHit(t)
    BY <2>7, ChargeType, SettleWithType DEF CacheHit
  <2>8. CASE Release(t)
    BY <2>8, ReleaseType
  <2> QED BY <1>2, <2>1, <2>2, <2>3, <2>4, <2>5, <2>6, <2>7, <2>8 DEF Attempt
<1> QED BY <1>1, <1>2 DEF Next, Done

-----------------------------------------------------------------------------
(* The limits.                                                              *)

\* A scope whose totals stay where they are stays within its limits.
LEMMA LimitsUnchanged ==
    ASSUME WithinLimits, UNCHANGED <<committed, reserved>>
    PROVE  WithinLimits'
BY DEF WithinLimits, Within, Used

\* Init holds nothing.
LEMMA LimitsInit == ASSUME BudgetAssumption, Init PROVE WithinLimits
<1> SUFFICES ASSUME NEW s \in Scopes, NEW m \in Measures, Limit[s][m] # Unbounded
             PROVE  Measure(Used(s), m) <= Limit[s][m]
  BY DEF WithinLimits, Within
<1>1. Zero \in Spend /\ Measure(Zero, m) = 0
  BY DEF Zero, Spend, Measure, Measures, Fields
<1>2. Used(s) = Plus(Zero, Zero)
  BY DEF Init, Used
<1>3. Measure(Used(s), m) = 0
  BY <1>1, <1>2, SpendMeasure, MeasurePlus
<1>4. Limit[s][m] \in Nat
  BY DEF BudgetAssumption
<1> QED BY <1>3, <1>4

\* What _projected_for_request admits fits every scope above it.
LEMMA LimitsReserve ==
    ASSUME BudgetAssumption, TypeOK, WithinLimits, NEW t \in Threads, Reserve(t)
    PROVE  WithinLimits'
<1>1. CASE UNCHANGED ledger
  BY <1>1, LimitsUnchanged DEF ledger
<1>2. CASE reserved' = Add(reserved, ScopeOf[t], call[t].want) /\ UNCHANGED committed
  <2> SUFFICES ASSUME NEW s \in Scopes, NEW m \in Measures, Limit[s][m] # Unbounded
               PROVE  Measure(Used(s)', m) <= Limit[s][m]
    BY DEF WithinLimits, Within
  <2>1. CASE s \in Ancestors[ScopeOf[t]]
    <3>1. call[t].want \in Amounts /\ committed[s] \in Amounts /\ reserved[s] \in Amounts
      BY Own DEF Spend, Amounts, TypeOK
    <3>2. Used(s)' = Plus(committed[s], Plus(reserved[s], call[t].want))
      BY <1>2, <2>1 DEF Used, Add
    <3>3. Measure(Plus(Used(s), call[t].want), m) <= Limit[s][m]
      BY <2>1 DEF Reserve, Admissible, Within
    <3> DEFINE c == committed[s]
               r == reserved[s]
               w == call[t].want
    <3>4. /\ Plus(c, r) \in Amounts
          /\ Measure(Plus(Plus(c, r), w), m) = Measure(c, m) + Measure(r, m) + Measure(w, m)
      <4>1. Plus(c, r) \in Amounts /\ Measure(Plus(c, r), m) = Measure(c, m) + Measure(r, m)
        BY <3>1, MeasurePlus
      <4>2. Measure(Plus(Plus(c, r), w), m) = Measure(Plus(c, r), m) + Measure(w, m)
        BY <3>1, <4>1, MeasurePlus
      <4> QED BY <4>1, <4>2
    <3>5. Measure(Plus(c, Plus(r, w)), m) = Measure(c, m) + (Measure(r, m) + Measure(w, m))
      <4>1. Plus(r, w) \in Amounts /\ Measure(Plus(r, w), m) = Measure(r, m) + Measure(w, m)
        BY <3>1, MeasurePlus
      <4>2. Measure(Plus(c, Plus(r, w)), m) = Measure(c, m) + Measure(Plus(r, w), m)
        BY <3>1, <4>1, MeasurePlus
      <4> QED BY <4>1, <4>2
    <3>6. Measure(c, m) \in Int /\ Measure(r, m) \in Int /\ Measure(w, m) \in Int
      BY <3>1, MeasurePlus
    <3>7. Measure(Plus(c, Plus(r, w)), m) = Measure(Plus(Plus(c, r), w), m)
      BY <3>4, <3>5, <3>6
    <3> QED BY <3>2, <3>3, <3>7 DEF Used
  <2>2. CASE s \notin Ancestors[ScopeOf[t]]
    <3>1. Used(s)' = Used(s)
      BY <1>2, <2>2 DEF Used, Add
    <3> QED BY <3>1 DEF WithinLimits, Within
  <2> QED BY <2>1, <2>2
<1> QED BY <1>1, <1>2 DEF Reserve, AppendFails

\* A settlement that overruns its reservation still fits every scope above it.
LEMMA LimitsSettled ==
    ASSUME BudgetAssumption, TypeOK, WithinLimits, NEW t \in Threads, NEW actual \in Spend,
           Fits(ScopeOf[t], record[OpOf[t]].requested, actual), BecomeSettled(t, actual)
    PROVE  WithinLimits'
<1> DEFINE w == record[OpOf[t]].requested
<1>1. CASE UNCHANGED ledger
  BY <1>1, LimitsUnchanged DEF ledger
<1>2. CASE /\ reserved' = Subtract(reserved, ScopeOf[t], w)
           /\ committed' = Add(committed, ScopeOf[t], actual)
  <2> SUFFICES ASSUME NEW s \in Scopes, NEW m \in Measures, Limit[s][m] # Unbounded
               PROVE  Measure(Used(s)', m) <= Limit[s][m]
    BY DEF WithinLimits, Within
  <2>1. CASE s \in Ancestors[ScopeOf[t]]
    <3> DEFINE c == committed[s]
               r == reserved[s]
    <3>1. w \in Amounts /\ actual \in Amounts /\ c \in Amounts /\ r \in Amounts
      BY Own DEF Spend, Amounts, TypeOK
    <3>2. Used(s)' = Plus(Plus(c, actual), Minus(r, w))
      BY <1>2, <2>1 DEF Used, Add, Subtract
    <3>3. Measure(Plus(Minus(Plus(c, r), w), actual), m) <= Limit[s][m]
      BY <2>1 DEF Fits, Within, Used
    <3> HIDE DEF c, r, w
    <3>4. /\ Measure(c, m) \in Int /\ Measure(r, m) \in Int /\ Measure(w, m) \in Int
          /\ Measure(actual, m) \in Int
      BY <3>1, MeasurePlus
    <3>5. Measure(Plus(Minus(Plus(c, r), w), actual), m)
            = Measure(c, m) + Measure(r, m) - Measure(w, m) + Measure(actual, m)
      <4>1. Plus(c, r) \in Amounts /\ Measure(Plus(c, r), m) = Measure(c, m) + Measure(r, m)
        BY <3>1, MeasurePlus
      <4>2. /\ Minus(Plus(c, r), w) \in Amounts
            /\ Measure(Minus(Plus(c, r), w), m) = Measure(Plus(c, r), m) - Measure(w, m)
        BY <3>1, <4>1, MeasureMinus
      <4>3. Measure(Plus(Minus(Plus(c, r), w), actual), m)
              = Measure(Minus(Plus(c, r), w), m) + Measure(actual, m)
        BY <3>1, <4>2, MeasurePlus
      <4> QED BY <3>4, <4>1, <4>2, <4>3
    <3>6. Measure(Plus(Plus(c, actual), Minus(r, w)), m)
            = (Measure(c, m) + Measure(actual, m)) + (Measure(r, m) - Measure(w, m))
      <4>1. /\ Plus(c, actual) \in Amounts
            /\ Measure(Plus(c, actual), m) = Measure(c, m) + Measure(actual, m)
        BY <3>1, MeasurePlus
      <4>2. Minus(r, w) \in Amounts /\ Measure(Minus(r, w), m) = Measure(r, m) - Measure(w, m)
        BY <3>1, MeasureMinus
      <4>3. Measure(Plus(Plus(c, actual), Minus(r, w)), m)
              = Measure(Plus(c, actual), m) + Measure(Minus(r, w), m)
        BY <4>1, <4>2, MeasurePlus
      <4> QED BY <4>1, <4>2, <4>3
    <3>7. Measure(Plus(Plus(c, actual), Minus(r, w)), m)
            = Measure(Plus(Minus(Plus(c, r), w), actual), m)
      BY <3>4, <3>5, <3>6
    <3> QED BY <3>2, <3>3, <3>7
  <2>2. CASE s \notin Ancestors[ScopeOf[t]]
    <3>1. Used(s)' = Used(s)
      BY <1>2, <2>2 DEF Used, Add, Subtract
    <3> QED BY <3>1 DEF WithinLimits, Within
  <2> QED BY <2>1, <2>2
<1> QED BY <1>1, <1>2 DEF BecomeSettled, AppendFails

\* A release gives back something that was never negative.
LEMMA LimitsRelease ==
    ASSUME BudgetAssumption, TypeOK, WithinLimits, NEW t \in Threads, Release(t)
    PROVE  WithinLimits'
<1> DEFINE w == record[OpOf[t]].requested
<1>1. CASE UNCHANGED ledger
  BY <1>1, LimitsUnchanged DEF ledger
<1>2. CASE reserved' = Subtract(reserved, ScopeOf[t], w) /\ UNCHANGED committed
  <2> SUFFICES ASSUME NEW s \in Scopes, NEW m \in Measures, Limit[s][m] # Unbounded
               PROVE  Measure(Used(s)', m) <= Limit[s][m]
    BY DEF WithinLimits, Within
  <2>0. Measure(Used(s), m) <= Limit[s][m] /\ Limit[s][m] \in Nat
    BY DEF WithinLimits, Within, BudgetAssumption
  <2>1. CASE s \in Ancestors[ScopeOf[t]]
    <3> DEFINE c == committed[s]
               r == reserved[s]
    <3>1. w \in Spend /\ w \in Amounts /\ c \in Amounts /\ r \in Amounts
      BY Own, SMTT(30) DEF Spend, Amounts, TypeOK
    <3>2. Used(s)' = Plus(c, Minus(r, w)) /\ Used(s) = Plus(c, r)
      BY <1>2, <2>1 DEF Used, Subtract
    <3> HIDE DEF c, r, w
    <3>3. Measure(w, m) \in Nat
      BY <3>1, SpendMeasure
    <3>4. Measure(c, m) \in Int /\ Measure(r, m) \in Int
      BY <3>1, MeasurePlus
    <3>5. Measure(Plus(c, r), m) = Measure(c, m) + Measure(r, m)
      BY <3>1, MeasurePlus
    <3>6. Minus(r, w) \in Amounts /\ Measure(Minus(r, w), m) = Measure(r, m) - Measure(w, m)
      BY <3>1, MeasureMinus
    <3>7. Measure(Plus(c, Minus(r, w)), m) = Measure(c, m) + Measure(Minus(r, w), m)
      BY <3>1, <3>6, MeasurePlus
    <3> QED BY <2>0, <3>2, <3>3, <3>4, <3>5, <3>6, <3>7
  <2>2. CASE s \notin Ancestors[ScopeOf[t]]
    <3>1. Used(s)' = Used(s)
      BY <1>2, <2>2 DEF Used, Subtract
    <3> QED BY <2>0, <3>1
  <2> QED BY <2>1, <2>2
<1> QED BY <1>1, <1>2 DEF Release, AppendFails, Raise, ledger

\* settle, whichever answer it gives.
LEMMA LimitsSettleWith ==
    ASSUME BudgetAssumption, TypeOK, WithinLimits, NEW t \in Threads, NEW actual \in Spend,
           SettleWith(t, actual)
    PROVE  WithinLimits'
<1>1. CASE UNCHANGED <<ledger, stream, faults>>
  BY <1>1, LimitsUnchanged DEF ledger
<1>2. CASE /\ Fits(ScopeOf[t], record[OpOf[t]].requested, actual)
           /\ BecomeSettled(t, actual)
  BY <1>2, LimitsSettled
<1>3. CASE BecomeIndeterminate(t)
  BY <1>3, LimitsUnchanged DEF BecomeIndeterminate, AppendFails, ledger
<1> QED BY <1>1, <1>2, <1>3 DEF SettleWith, Raise

\* Every step keeps the limits.
LEMMA LimitsStep ==
    ASSUME BudgetAssumption, TypeOK, WithinLimits, [Next]_vars PROVE WithinLimits'
<1>1. CASE UNCHANGED vars
  BY <1>1, LimitsUnchanged DEF vars, ledger
<1>2. ASSUME NEW t \in Threads, Attempt(t) PROVE WithinLimits'
  <2>1. CASE \/ ReadTotal(t) \/ SizeLookup(t) \/ ReserveAgain(t) \/ Dispatch(t)
             \/ Report(t) \/ Size(t)
    BY <2>1, LimitsUnchanged
       DEF ReadTotal, SizeLookup, ReserveAgain, Dispatch, Report, Size, ledger
  <2>2. CASE Deny(t)
    BY <2>2, LimitsUnchanged DEF Deny, AppendFails, ledger
  <2>3. CASE Reserve(t)
    BY <2>3, LimitsReserve
  <2>4. CASE Settle(t)
    BY <2>4, ChargeType, LimitsSettleWith DEF Settle
  <2>5. CASE MarkIndeterminate(t)
    BY <2>5, LimitsUnchanged
       DEF MarkIndeterminate, BecomeIndeterminate, AppendFails, Raise, ledger
  <2>6. CASE CacheHit(t)
    BY <2>6, ChargeType, LimitsSettleWith DEF CacheHit
  <2>7. CASE Release(t)
    BY <2>7, LimitsRelease
  <2> QED BY <1>2, <2>1, <2>2, <2>3, <2>4, <2>5, <2>6, <2>7 DEF Attempt
<1> QED BY <1>1, <1>2 DEF Next, Done

-----------------------------------------------------------------------------
(* What may become of an operation.                                         *)

\* How a decided or open operation may change.
Revised(was, is) ==
    /\ was.status \in {"settled", "released", "denied"} => is = was
    /\ was.status \in Open => is.requested = was.requested /\ is.status \notin {"none", "denied"}
    /\ was.status = "indeterminate" => is.status \in {"indeterminate", "settled"}

\* A record that stays is not revised.
LEMMA StaysRevised == ASSUME NEW r PROVE Revised(r, r)
BY DEF Revised, Open

\* Writing one record revises it only as far as that record allows.
LEMMA WriteRevised ==
    ASSUME NEW r, record' = [record EXCEPT ![r] = record'[r]], record \in [Operations -> RecordType],
           r \in Operations, Revised(record[r], record'[r])
    PROVE  \A o \in Operations : Revised(record[o], record'[o])
<1> SUFFICES ASSUME NEW o \in Operations, o # r PROVE record'[o] = record[o]
  BY StaysRevised
<1> QED OBVIOUS

LEMMA SettledRevised ==
    ASSUME TypeOK, BudgetAssumption, NEW t \in Threads, NEW actual,
           record[OpOf[t]].status \in Open, BecomeSettled(t, actual)
    PROVE  \A o \in Operations : Revised(record[o], record'[o])
<1> DEFINE op == OpOf[t]
<1>1. CASE UNCHANGED ledger
  BY <1>1, StaysRevised DEF ledger
<1>2. CASE record' = [record EXCEPT ![op].status = "settled", ![op].actual = actual,
                 ![op].rev = Fact(op, "settled", actual, revision + 1).rev]
  <2>1. record \in [Operations -> RecordType] /\ op \in Operations
    BY Own DEF TypeOK
  <2>2. /\ record'[op].status = "settled" /\ record'[op].requested = record[op].requested
        /\ record' = [record EXCEPT ![op] = record'[op]]
    BY <1>2, <2>1, ZenonT(90) DEF RecordType
  <2>3. Revised(record[op], record'[op])
    BY <2>2 DEF Revised, Open
  <2> QED BY <2>1, <2>2, <2>3, WriteRevised
<1> QED BY <1>1, <1>2 DEF BecomeSettled, AppendFails

LEMMA IndeterminateRevised ==
    ASSUME TypeOK, BudgetAssumption, NEW t \in Threads,
           record[OpOf[t]].status = "reserved", BecomeIndeterminate(t)
    PROVE  \A o \in Operations : Revised(record[o], record'[o])
<1> DEFINE op == OpOf[t]
<1>1. CASE UNCHANGED ledger
  BY <1>1, StaysRevised DEF ledger
<1>2. CASE record' = [record EXCEPT ![op].status = "indeterminate",
             ![op].rev = Fact(op, "indeterminate", record[op].requested, revision + 1).rev]
  <2>1. record \in [Operations -> RecordType] /\ op \in Operations
    BY Own DEF TypeOK
  <2>2. /\ record'[op].status = "indeterminate" /\ record'[op].requested = record[op].requested
        /\ record' = [record EXCEPT ![op] = record'[op]]
    BY <1>2, <2>1, ZenonT(90) DEF RecordType
  <2>3. Revised(record[op], record'[op])
    BY <2>2 DEF Revised, Open
  <2> QED BY <2>1, <2>2, <2>3, WriteRevised
<1> QED BY <1>1, <1>2 DEF BecomeIndeterminate, AppendFails

\* A first reserve writes a record that was not there.
LEMMA ReserveRevised ==
    ASSUME TypeOK, BudgetAssumption, NEW t \in Threads, Reserve(t) \/ Deny(t)
    PROVE  \A o \in Operations : Revised(record[o], record'[o])
<1> DEFINE op == OpOf[t]
<1>1. CASE UNCHANGED ledger
  BY <1>1, StaysRevised DEF ledger
<1>2. ASSUME NEW r, record' = [record EXCEPT ![op] = r]
      PROVE  \A o \in Operations : Revised(record[o], record'[o])
  <2>1. record \in [Operations -> RecordType] /\ op \in Operations
    BY Own DEF TypeOK
  <2>2. record[op].status = "none"
    BY DEF Reserve, Deny
  <2>3. Revised(record[op], record'[op])
    BY <2>2 DEF Revised, Open
  <2>4. record' = [record EXCEPT ![op] = record'[op]]
    BY <1>2, <2>1
  <2> QED BY <2>1, <2>3, <2>4, WriteRevised
<1> QED BY <1>1, <1>2 DEF Reserve, Deny, AppendFails

LEMMA ReleaseRevised ==
    ASSUME TypeOK, BudgetAssumption, NEW t \in Threads, Release(t)
    PROVE  \A o \in Operations : Revised(record[o], record'[o])
<1> DEFINE op == OpOf[t]
<1>1. CASE UNCHANGED ledger
  BY <1>1, StaysRevised DEF ledger
<1>2. CASE /\ record[op].status = "reserved"
           /\ record' = [record EXCEPT ![op].status = "released",
                ![op].rev = Fact(op, "released", record[op].requested, revision + 1).rev]
  <2>1. record \in [Operations -> RecordType] /\ op \in Operations
    BY Own DEF TypeOK
  <2>2. /\ record'[op].status = "released" /\ record'[op].requested = record[op].requested
        /\ record' = [record EXCEPT ![op] = record'[op]]
    BY <1>2, <2>1, ZenonT(90) DEF RecordType
  <2>3. Revised(record[op], record'[op])
    BY <1>2, <2>2 DEF Revised, Open
  <2> QED BY <2>1, <2>2, <2>3, WriteRevised
<1> QED BY <1>1, <1>2 DEF Release, AppendFails, Raise, ledger

LEMMA SettleWithRevised ==
    ASSUME TypeOK, BudgetAssumption, NEW t \in Threads, NEW actual, SettleWith(t, actual)
    PROVE  \A o \in Operations : Revised(record[o], record'[o])
<1>1. CASE UNCHANGED <<ledger, stream, faults>>
  BY <1>1, StaysRevised DEF ledger
<1>2. CASE record[OpOf[t]].status \in Open /\ BecomeSettled(t, actual)
  BY <1>2, SettledRevised
<1>3. CASE record[OpOf[t]].status = "reserved" /\ BecomeIndeterminate(t)
  BY <1>3, IndeterminateRevised
<1> QED BY <1>1, <1>2, <1>3 DEF SettleWith, Raise

\* Every step revises an operation only as far as its record allows.
LEMMA RevisedStep ==
    ASSUME BudgetAssumption, TypeOK, [Next]_vars
    PROVE  \A o \in Operations : Revised(record[o], record'[o])
<1>1. CASE UNCHANGED record
  BY <1>1, StaysRevised
<1>2. ASSUME NEW t \in Threads, Attempt(t)
      PROVE  \A o \in Operations : Revised(record[o], record'[o])
  <2>1. CASE \/ ReadTotal(t) \/ SizeLookup(t) \/ ReserveAgain(t) \/ Dispatch(t)
             \/ Report(t) \/ Size(t)
    BY <1>1, <2>1 DEF ReadTotal, SizeLookup, ReserveAgain, Dispatch, Report, Size, ledger
  <2>2. CASE Deny(t) \/ Reserve(t)
    BY <2>2, ReserveRevised
  <2>3. CASE Settle(t)
    BY <2>3, SettleWithRevised DEF Settle
  <2>4. CASE MarkIndeterminate(t)
    BY <1>1, <2>4, IndeterminateRevised DEF MarkIndeterminate, Raise, ledger
  <2>5. CASE CacheHit(t)
    BY <2>5, SettleWithRevised DEF CacheHit
  <2>6. CASE Release(t)
    BY <2>6, ReleaseRevised
  <2> QED BY <1>2, <2>1, <2>2, <2>3, <2>4, <2>5, <2>6 DEF Attempt
<1> QED BY <1>1, <1>2 DEF Next, Done, vars, ledger

-----------------------------------------------------------------------------
(* What a step writes: at most one fact, about the operation of its thread. *)

\* Nothing is recorded; a fact may be stored whose append failed.
Quiet ==
    /\ UNCHANGED <<record, revision>>
    /\ stream' = stream \/ \E fact \in FactType : stream' = Append(stream, fact)

\* The fact is stored and the record says the same.
Writes(op, fact) ==
    /\ fact \in FactType /\ fact.op = op /\ fact.rev = revision + 1
    /\ stream' = Append(stream, fact) /\ revision' = revision + 1
    /\ record' = [record EXCEPT ![op] = record'[op]]
    /\ record'[op].status = fact.kind /\ record'[op].rev = fact.rev

\* Only the thread's own record moves, and a check it takes is no newer than
\* the ledger.
Shape(t) ==
    /\ Quiet \/ \E fact : Writes(OpOf[t], fact)
    /\ \A u \in Threads \ {t} : call'[u] = call[u]
    /\ \/ call'[t].check = call[t].check
       \/ call'[t].check.rev \in {revision', record[OpOf[t]].rev}

\* A fact of a thread's operation at the next revision.
LEMMA NextFact ==
    ASSUME TypeOK, BudgetAssumption, NEW t \in Threads, NEW kind \in Statuses,
           NEW a \in Spend
    PROVE  LET fact == Fact(OpOf[t], kind, a, revision + 1)
           IN  /\ fact \in FactType /\ fact.op = OpOf[t] /\ fact.kind = kind
               /\ fact.rev = revision + 1
<1>1. revision + 1 \in Nat
  BY DEF TypeOK
<1> QED BY <1>1, FactTyped DEF Fact

\* A thread that moves on, closes or raises takes no check.
LEMMA MoveShape ==
    ASSUME TypeOK, NEW t \in Threads, NEW p, Move(t, p) \/ Close(t, p)
    PROVE  /\ \A u \in Threads \ {t} : call'[u] = call[u]
           /\ call'[t].check = call[t].check
<1>1. call \in [Threads -> CallType] /\ call[t] \in CallType
  BY DEF TypeOK
<1>2. CASE Move(t, p)
  <2>1. call' = [call EXCEPT ![t] = [call[t] EXCEPT !.pc = p]]
    BY <1>2 DEF Move
  <2> QED BY <1>1, <2>1 DEF CallType
<1>3. CASE Close(t, p)
  <2>1. call' = [call EXCEPT ![t] = [call[t] EXCEPT !.pc = "closed", !.within = p]]
    BY <1>3 DEF Close
  <2> QED BY <1>1, <2>1 DEF CallType
<1> QED BY <1>2, <1>3

LEMMA FailedShape ==
    ASSUME TypeOK, BudgetAssumption, NEW t \in Threads, NEW fact \in FactType,
           AppendFails(t, fact)
    PROVE  Shape(t) /\ record' = record
<1>1. Quiet /\ record' = record
  BY DEF AppendFails, Quiet, ledger
<1> QED BY <1>1, MoveShape DEF AppendFails, Shape

LEMMA RaiseShape ==
    ASSUME TypeOK, NEW t \in Threads, UNCHANGED <<ledger, stream, faults>>,
           NEW p, Move(t, p) \/ Close(t, p)
    PROVE  Shape(t) /\ record' = record
<1>1. Quiet /\ record' = record
  BY DEF Quiet, ledger
<1> QED BY <1>1, MoveShape DEF Shape

\* A deny or a reserve that is stored.
LEMMA DenyShape ==
    ASSUME TypeOK, BudgetAssumption, NEW t \in Threads, Deny(t)
    PROVE  Shape(t) /\ record[OpOf[t]].status = "none"
<1> DEFINE fact == Fact(OpOf[t], "denied", call[t].want, revision + 1)
           new  == [NoRecord EXCEPT !.status = "denied", !.requested = call[t].want,
                                    !.rev = fact.rev]
<1>1. fact \in FactType /\ fact.op = OpOf[t] /\ fact.kind = "denied" /\ fact.rev = revision + 1
  BY Own, NextFact DEF Statuses
<1>2. CASE AppendFails(t, fact)
  BY <1>1, <1>2, FailedShape DEF Deny
<1>3. CASE /\ Published(fact)
           /\ record' = [record EXCEPT ![OpOf[t]] = new]
           /\ call' = [call EXCEPT ![t].pc = "reported",
                          ![t].check = [within |-> FALSE, rev |-> fact.rev]]
  <2>1. record \in [Operations -> RecordType] /\ OpOf[t] \in Operations
    BY Own DEF TypeOK
  <2>2. new.status = fact.kind /\ new.rev = fact.rev
    BY <1>1 DEF NoRecord
  <2> HIDE DEF fact, new
  <2>3. Writes(OpOf[t], fact)
    BY <1>1, <1>3, <2>1, <2>2 DEF Writes, Published
  <2>4. call \in [Threads -> CallType] /\ call[t] \in CallType
    BY DEF TypeOK
  <2>5. call' = [call EXCEPT ![t] = [call[t] EXCEPT !.pc = "reported",
                    !.check = [within |-> FALSE, rev |-> fact.rev]]]
    BY <1>3
  <2>6. /\ \A u \in Threads \ {t} : call'[u] = call[u]
        /\ call'[t].check.rev = fact.rev
    BY <2>4, <2>5 DEF CallType
  <2>7. call'[t].check.rev = revision'
    BY <1>1, <1>3, <2>6 DEF Published
  <2> QED BY <2>3, <2>6, <2>7 DEF Shape, Deny
<1> QED BY <1>2, <1>3 DEF Deny

LEMMA ReserveShape ==
    ASSUME TypeOK, BudgetAssumption, NEW t \in Threads, Reserve(t)
    PROVE  /\ Shape(t)
           /\ record[OpOf[t]].status = "none"
           /\ \/ record' = record /\ Move(t, "failed")
              \/ record'[OpOf[t]].status = "reserved" /\ Move(t, "held")
<1> DEFINE fact == Fact(OpOf[t], "reserved", call[t].want, revision + 1)
           new  == [NoRecord EXCEPT !.status = "reserved", !.requested = call[t].want,
                                    !.rev = fact.rev]
<1>1. fact \in FactType /\ fact.op = OpOf[t] /\ fact.kind = "reserved" /\ fact.rev = revision + 1
  BY Own, NextFact DEF Statuses
<1>2. CASE AppendFails(t, fact)
  <2>1. Move(t, "failed")
    BY <1>2 DEF AppendFails
  <2> QED BY <1>1, <1>2, <2>1, FailedShape DEF Reserve
<1>3. CASE /\ Published(fact)
           /\ record' = [record EXCEPT ![OpOf[t]] = new]
           /\ Move(t, "held")
  <2>1. record \in [Operations -> RecordType] /\ OpOf[t] \in Operations
    BY Own DEF TypeOK
  <2>2. new.status = fact.kind /\ new.rev = fact.rev
    BY <1>1 DEF NoRecord
  <2> HIDE DEF fact, new
  <2>3. Writes(OpOf[t], fact)
    BY <1>1, <1>3, <2>1, <2>2 DEF Writes, Published
  <2>4. Shape(t)
    BY <1>3, <2>3, MoveShape DEF Shape
  <2>5. record'[OpOf[t]].status = "reserved"
    BY <1>1, <2>3 DEF Writes
  <2> QED BY <1>3, <2>4, <2>5 DEF Reserve
<1> QED BY <1>2, <1>3 DEF Reserve

\* A record that becomes indeterminate, settled or released.
LEMMA CloseShape ==
    ASSUME TypeOK, BudgetAssumption, NEW t \in Threads, NEW kind \in Statuses,
           NEW a \in Spend, NEW x,
           LET fact == Fact(OpOf[t], kind, a, revision + 1)
           IN  Published(fact) /\ Close(t, x)
                 /\ \/ record' = [record EXCEPT ![OpOf[t]].status = kind, ![OpOf[t]].rev = fact.rev]
                    \/ record' = [record EXCEPT ![OpOf[t]].status = kind, ![OpOf[t]].actual = a,
                                                ![OpOf[t]].rev = fact.rev]
    PROVE  Shape(t) /\ record'[OpOf[t]].status = kind
<1> DEFINE fact == Fact(OpOf[t], kind, a, revision + 1)
<1>1. fact \in FactType /\ fact.op = OpOf[t] /\ fact.kind = kind /\ fact.rev = revision + 1
  BY NextFact
<1>2. Published(fact) /\ Close(t, x)
  OBVIOUS
<1>3. \/ record' = [record EXCEPT ![OpOf[t]].status = kind, ![OpOf[t]].rev = fact.rev]
      \/ record' = [record EXCEPT ![OpOf[t]].status = kind, ![OpOf[t]].actual = a,
                                  ![OpOf[t]].rev = fact.rev]
  OBVIOUS
<1> HIDE DEF fact
<1>4. record \in [Operations -> RecordType] /\ OpOf[t] \in Operations
  BY Own DEF TypeOK
<1>5. /\ record' = [record EXCEPT ![OpOf[t]] = record'[OpOf[t]]]
      /\ record'[OpOf[t]].status = kind /\ record'[OpOf[t]].rev = fact.rev
  BY <1>3, <1>4 DEF RecordType
<1>6. Writes(OpOf[t], fact)
  BY <1>1, <1>2, <1>5 DEF Writes, Published
<1> QED BY <1>2, <1>5, <1>6, MoveShape DEF Shape

LEMMA IndeterminateShape ==
    ASSUME TypeOK, BudgetAssumption, NEW t \in Threads, BecomeIndeterminate(t)
    PROVE  Shape(t) /\ (record' = record \/ record'[OpOf[t]].status = "indeterminate")
<1> DEFINE fact == Fact(OpOf[t], "indeterminate", record[OpOf[t]].requested, revision + 1)
<1>1. "indeterminate" \in Statuses /\ record[OpOf[t]].requested \in Spend
  BY Own DEF Statuses
<1>2. CASE AppendFails(t, fact)
  BY <1>1, <1>2, NextFact, FailedShape
<1>3. CASE ~AppendFails(t, fact)
  BY <1>1, <1>3, CloseShape, ZenonT(60) DEF BecomeIndeterminate
<1> QED BY <1>2, <1>3

LEMMA SettledShape ==
    ASSUME TypeOK, BudgetAssumption, NEW t \in Threads, NEW actual \in Spend,
           BecomeSettled(t, actual)
    PROVE  Shape(t) /\ (record' = record \/ record'[OpOf[t]].status = "settled")
<1> DEFINE fact == Fact(OpOf[t], "settled", actual, revision + 1)
<1>1. "settled" \in Statuses
  BY DEF Statuses
<1>2. CASE AppendFails(t, fact)
  BY <1>1, <1>2, NextFact, FailedShape
<1>3. CASE ~AppendFails(t, fact)
  BY <1>1, <1>3, CloseShape DEF BecomeSettled
<1> QED BY <1>2, <1>3

LEMMA ReleaseShape ==
    ASSUME TypeOK, BudgetAssumption, NEW t \in Threads, Release(t)
    PROVE  Shape(t)
<1> DEFINE fact == Fact(OpOf[t], "released", record[OpOf[t]].requested, revision + 1)
<1>1. "released" \in Statuses /\ record[OpOf[t]].requested \in Spend
  BY Own DEF Statuses
<1>2. CASE AppendFails(t, fact)
  BY <1>1, <1>2, NextFact, FailedShape
<1>3. CASE /\ Published(fact) /\ Close(t, TRUE)
           /\ record' = [record EXCEPT ![OpOf[t]].status = "released",
                                       ![OpOf[t]].rev = fact.rev]
  BY <1>1, <1>3, CloseShape
<1>4. CASE UNCHANGED <<ledger, stream, faults>> /\ (Close(t, TRUE) \/ Move(t, "failed"))
  BY <1>4, RaiseShape
<1> QED BY <1>2, <1>3, <1>4 DEF Release, Raise

\* settle leaves an operation as it was, unknown, or settled.
LEMMA SettleWithShape ==
    ASSUME TypeOK, BudgetAssumption, NEW t \in Threads, NEW actual \in Spend,
           SettleWith(t, actual)
    PROVE  /\ Shape(t)
           /\ \/ record' = record
              \/ record'[OpOf[t]].status \in {"indeterminate", "settled"}
<1>1. CASE UNCHANGED <<ledger, stream, faults>> /\ (Close(t, TRUE) \/ Move(t, "failed"))
  BY <1>1, RaiseShape
<1>2. CASE BecomeSettled(t, actual)
  BY <1>2, SettledShape
<1>3. CASE BecomeIndeterminate(t)
  BY <1>3, IndeterminateShape
<1> QED BY <1>1, <1>2, <1>3 DEF SettleWith, Raise

LEMMA MarkShape ==
    ASSUME TypeOK, BudgetAssumption, NEW t \in Threads, MarkIndeterminate(t)
    PROVE  Shape(t) /\ (record' = record \/ record'[OpOf[t]].status = "indeterminate")
<1>1. CASE UNCHANGED <<ledger, stream, faults>> /\ (Close(t, FALSE) \/ Move(t, "failed"))
  BY <1>1, RaiseShape
<1>2. CASE BecomeIndeterminate(t)
  BY <1>2, IndeterminateShape
<1> QED BY <1>1, <1>2 DEF MarkIndeterminate, Raise

\* The steps that only move the thread on.
LEMMA ThreadShape ==
    ASSUME TypeOK, BudgetAssumption, NEW t \in Threads,
           \/ ReadTotal(t) \/ Size(t) \/ SizeLookup(t) \/ ReserveAgain(t)
           \/ Dispatch(t) \/ Report(t)
    PROVE  Shape(t) /\ record' = record
<1>1. Quiet /\ record' = record
  BY DEF ReadTotal, Size, SizeLookup, ReserveAgain, Dispatch, Report, Quiet, ledger
<1>2. call \in [Threads -> CallType] /\ call[t] \in CallType
  BY DEF TypeOK
<1>3. CASE ReadTotal(t)
  <2>1. call' = [call EXCEPT ![t] = [call[t] EXCEPT !.pc = "sizing",
                    !.total = Available(ScopeOf[t], "total")]]
    BY <1>3 DEF ReadTotal
  <2> QED BY <1>1, <1>2, <2>1 DEF Shape, CallType
<1>4. CASE Size(t)
  <2>1. PICK w : call' = [call EXCEPT ![t] = [call[t] EXCEPT !.pc = "sized", !.want = w]]
    BY <1>4 DEF Size
  <2> QED BY <1>1, <1>2, <2>1 DEF Shape, CallType
<1>5. CASE SizeLookup(t)
  <2>1. call' = [call EXCEPT ![t] = [call[t] EXCEPT !.pc = "sized", !.physical = FALSE,
                    !.want = Amount(1, 0, 0)]]
    BY <1>5 DEF SizeLookup
  <2> QED BY <1>1, <1>2, <2>1 DEF Shape, CallType
<1>6. CASE ReserveAgain(t)
  <2>1. CASE Move(t, "failed") \/ Move(t, "held")
    BY <1>1, <2>1, MoveShape DEF Shape
  <2>2. CASE call' = [call EXCEPT ![t].pc = "reported",
                        ![t].check = [within |-> FALSE, rev |-> record[OpOf[t]].rev]]
    <3>1. call' = [call EXCEPT ![t] = [call[t] EXCEPT !.pc = "reported",
                      !.check = [within |-> FALSE, rev |-> record[OpOf[t]].rev]]]
      BY <2>2
    <3> QED BY <1>1, <1>2, <3>1 DEF Shape, CallType
  <2> QED BY <1>6, <2>1, <2>2 DEF ReserveAgain
<1>7. CASE Dispatch(t)
  <2>1. call' = [call EXCEPT ![t] = [call[t] EXCEPT !.pc = "dispatched", !.dispatched = TRUE]]
    BY <1>7 DEF Dispatch
  <2> QED BY <1>1, <1>2, <2>1 DEF Shape, CallType
<1>8. CASE Report(t)
  <2>1. call' = [call EXCEPT ![t] = [call[t] EXCEPT !.pc = "reported",
                    !.check = [within |-> call[t].within, rev |-> revision]]]
    BY <1>8 DEF Report
  <2>2. revision' = revision
    BY <1>1 DEF Quiet
  <2> QED BY <1>1, <1>2, <2>1, <2>2 DEF Shape, CallType
<1> QED BY <1>3, <1>4, <1>5, <1>6, <1>7, <1>8

\* Every step of a thread has this shape.
LEMMA AttemptShape ==
    ASSUME TypeOK, BudgetAssumption, NEW t \in Threads, Attempt(t)
    PROVE  Shape(t)
<1>1. CASE \/ ReadTotal(t) \/ Size(t) \/ SizeLookup(t) \/ ReserveAgain(t)
           \/ Dispatch(t) \/ Report(t)
  BY <1>1, ThreadShape
<1>2. CASE Deny(t)
  BY <1>2, DenyShape
<1>3. CASE Reserve(t)
  BY <1>3, ReserveShape
<1>4. CASE Settle(t)
  BY <1>4, ChargeType, SettleWithShape DEF Settle
<1>5. CASE MarkIndeterminate(t)
  BY <1>5, MarkShape
<1>6. CASE CacheHit(t)
  BY <1>6, ChargeType, SettleWithShape DEF CacheHit
<1>7. CASE Release(t)
  BY <1>7, ReleaseShape
<1> QED BY <1>1, <1>2, <1>3, <1>4, <1>5, <1>6, <1>7 DEF Attempt

-----------------------------------------------------------------------------
(* A provider call is paid for.                                             *)

Alone(t) == \A u \in Threads \ {t} : OpOf[u] # OpOf[t]

\* A thread whose operation is nobody else's: nothing is recorded of it before
\* it has reserved, it holds what it reserved, and what it sent to the provider
\* was a physical call that is still charged or held.
Accounted(t) == Alone(t) =>
    /\ call[t].pc \in {"idle", "sizing", "sized"} =>
         record[OpOf[t]].status = "none" /\ ~call[t].dispatched
    /\ call[t].pc = "held" => record[OpOf[t]].status = "reserved"
    /\ call[t].dispatched =>
         call[t].physical /\ record[OpOf[t]].status \in Open \cup {"settled"}

\* Somebody else's step does not touch it.
LEMMA OthersAccounted ==
    ASSUME BudgetAssumption, TypeOK, NEW t \in Threads, NEW u \in Threads, t # u,
           Accounted(u), Attempt(t)
    PROVE  Accounted(u)'
<1> SUFFICES ASSUME Alone(u)
             PROVE  record'[OpOf[u]] = record[OpOf[u]] /\ call'[u] = call[u]
  BY DEF Accounted, Alone
<1>1. Shape(t)
  BY AttemptShape
<1>2. call'[u] = call[u]
  BY <1>1 DEF Shape
<1>3. CASE Quiet
  BY <1>2, <1>3 DEF Quiet
<1>4. CASE \E fact : Writes(OpOf[t], fact)
  <2>1. OpOf[t] # OpOf[u]
    BY DEF Alone
  <2>2. record \in [Operations -> RecordType] /\ OpOf[t] \in Operations /\ OpOf[u] \in Operations
    BY Own DEF TypeOK
  <2> QED BY <1>2, <1>4, <2>1, <2>2 DEF Writes
<1> QED BY <1>1, <1>3, <1>4 DEF Shape

\* How a thread's own step moves it, as far as its account is concerned.
LEMMA OwnMove ==
    ASSUME TypeOK, NEW t \in Threads
    PROVE  /\ \A p : Move(t, p) =>
                /\ call'[t].pc = p /\ call'[t].dispatched = call[t].dispatched
                /\ call'[t].physical = call[t].physical
           /\ \A x : Close(t, x) =>
                /\ call'[t].pc = "closed" /\ call'[t].dispatched = call[t].dispatched
                /\ call'[t].physical = call[t].physical
<1>1. call \in [Threads -> CallType] /\ call[t] \in CallType
  BY DEF TypeOK
<1>2. ASSUME NEW p, Move(t, p)
      PROVE  /\ call'[t].pc = p /\ call'[t].dispatched = call[t].dispatched
             /\ call'[t].physical = call[t].physical
  <2>1. call' = [call EXCEPT ![t] = [call[t] EXCEPT !.pc = p]]
    BY <1>2 DEF Move
  <2> QED BY <1>1, <2>1 DEF CallType
<1>3. ASSUME NEW x, Close(t, x)
      PROVE  /\ call'[t].pc = "closed" /\ call'[t].dispatched = call[t].dispatched
             /\ call'[t].physical = call[t].physical
  <2>1. call' = [call EXCEPT ![t] = [call[t] EXCEPT !.pc = "closed", !.within = x]]
    BY <1>3 DEF Close
  <2> QED BY <1>1, <2>1 DEF CallType
<1> QED BY <1>2, <1>3

\* A step that closes or ends a call leaves the provider call paid for when the
\* record stays or is one that pays.
LEMMA ClosingAccounted ==
    ASSUME TypeOK, NEW t \in Threads, Accounted(t),
           Move(t, "failed") \/ (\E x : Close(t, x)),
           record' = record \/ record'[OpOf[t]].status \in {"indeterminate", "settled"}
    PROVE  Accounted(t)'
<1>1. /\ call'[t].pc \in {"failed", "closed"} /\ call'[t].dispatched = call[t].dispatched
      /\ call'[t].physical = call[t].physical
  BY OwnMove
<1> QED BY <1>1 DEF Accounted, Alone, Open

LEMMA SettleWithMoves ==
    ASSUME NEW t \in Threads, NEW actual, SettleWith(t, actual)
    PROVE  Move(t, "failed") \/ (\E x : Close(t, x))
BY DEF SettleWith, BecomeSettled, BecomeIndeterminate, AppendFails, Raise

LEMMA MarkMoves ==
    ASSUME NEW t \in Threads, MarkIndeterminate(t)
    PROVE  Move(t, "failed") \/ (\E x : Close(t, x))
BY DEF MarkIndeterminate, BecomeIndeterminate, AppendFails, Raise

LEMMA ReleaseMoves ==
    ASSUME NEW t \in Threads, Release(t)
    PROVE  Move(t, "failed") \/ (\E x : Close(t, x))
BY DEF Release, AppendFails, Raise

\* The thread's own step keeps it.
LEMMA OwnAccounted ==
    ASSUME BudgetAssumption, TypeOK, NEW t \in Threads, Accounted(t), Attempt(t)
    PROVE  Accounted(t)'
<1> SUFFICES ASSUME Alone(t) PROVE Accounted(t)'
  BY DEF Accounted, Alone
<1>0. call \in [Threads -> CallType] /\ call[t] \in CallType
  BY DEF TypeOK
<1>1. CASE ReadTotal(t) \/ Size(t) \/ SizeLookup(t)
  <2>1. record' = record
    BY <1>1, ThreadShape
  <2>2. call[t].pc \in {"idle", "sizing"} /\ call'[t].pc \in {"sizing", "sized"}
        /\ call'[t].dispatched = call[t].dispatched
    <3>1. CASE ReadTotal(t)
      <4>1. call' = [call EXCEPT ![t] = [call[t] EXCEPT !.pc = "sizing",
                        !.total = Available(ScopeOf[t], "total")]]
        BY <3>1 DEF ReadTotal
      <4> QED BY <1>0, <3>1, <4>1 DEF CallType, ReadTotal
    <3>2. CASE Size(t)
      <4>1. PICK w : call' = [call EXCEPT ![t] = [call[t] EXCEPT !.pc = "sized", !.want = w]]
        BY <3>2 DEF Size
      <4> QED BY <1>0, <3>2, <4>1 DEF CallType, Size
    <3>3. CASE SizeLookup(t)
      <4>1. call' = [call EXCEPT ![t] = [call[t] EXCEPT !.pc = "sized", !.physical = FALSE,
                        !.want = Amount(1, 0, 0)]]
        BY <3>3 DEF SizeLookup
      <4> QED BY <1>0, <3>3, <4>1 DEF CallType, SizeLookup
    <3> QED BY <1>1, <3>1, <3>2, <3>3
  <2> QED BY <2>1, <2>2 DEF Accounted
<1>2. CASE ReserveAgain(t)
  BY <1>2 DEF ReserveAgain, Accounted
<1>3. CASE Deny(t)
  <2>1. call[t].pc = "sized" /\ ~call[t].dispatched
    BY <1>3 DEF Deny, Accounted
  <2>2. CASE Move(t, "failed")
    BY <2>1, <2>2, OwnMove DEF Accounted
  <2>3. CASE call' = [call EXCEPT ![t].pc = "reported",
                ![t].check = [within |-> FALSE,
                  rev |-> Fact(OpOf[t], "denied", call[t].want, revision + 1).rev]]
    <3>1. PICK k : call' = [call EXCEPT ![t] = [call[t] EXCEPT !.pc = "reported", !.check = k]]
      BY <2>3
    <3>2. call'[t].pc = "reported" /\ call'[t].dispatched = call[t].dispatched
      BY <1>0, <3>1 DEF CallType
    <3> QED BY <2>1, <3>2 DEF Accounted
  <2> QED BY <1>3, <2>2, <2>3 DEF Deny, AppendFails
<1>4. CASE Reserve(t)
  <2>1. call[t].pc = "sized" /\ ~call[t].dispatched
    BY <1>4 DEF Reserve, Accounted
  <2>2. CASE record'[OpOf[t]].status = "reserved" /\ Move(t, "held")
    BY <2>1, <2>2, OwnMove DEF Accounted
  <2>3. CASE Move(t, "failed")
    BY <2>1, <2>3, OwnMove DEF Accounted
  <2> QED BY <1>4, <2>2, <2>3, ReserveShape
<1>5. CASE Dispatch(t)
  <2>1. call' = [call EXCEPT ![t] = [call[t] EXCEPT !.pc = "dispatched", !.dispatched = TRUE]]
    BY <1>5 DEF Dispatch
  <2>2. call'[t].pc = "dispatched" /\ call'[t].physical = call[t].physical
    BY <1>0, <2>1 DEF CallType
  <2>3. record' = record /\ record[OpOf[t]].status = "reserved" /\ call[t].physical
    BY <1>5, ThreadShape DEF Dispatch, Accounted
  <2> QED BY <2>2, <2>3 DEF Accounted, Open
<1>6. CASE Settle(t)
  <2>1. PICK actual \in Spend : SettleWith(t, actual)
    BY <1>6, ChargeType DEF Settle
  <2> QED BY <2>1, SettleWithShape, SettleWithMoves, ClosingAccounted
<1>7. CASE MarkIndeterminate(t)
  BY <1>7, MarkShape, MarkMoves, ClosingAccounted
<1>8. CASE CacheHit(t)
  <2>1. PICK actual \in Spend : SettleWith(t, actual)
    BY <1>8, ChargeType DEF CacheHit
  <2> QED BY <2>1, SettleWithShape, SettleWithMoves, ClosingAccounted
<1>9. CASE Release(t)
  <2>1. ~call[t].dispatched
    BY <1>9 DEF Release, Accounted
  <2>2. call'[t].pc \in {"failed", "closed"} /\ call'[t].dispatched = call[t].dispatched
    BY <1>9, OwnMove, ReleaseMoves
  <2> QED BY <2>1, <2>2 DEF Accounted
<1>10. CASE Report(t)
  <2>1. PICK k : call' = [call EXCEPT ![t] = [call[t] EXCEPT !.pc = "reported", !.check = k]]
    BY <1>10 DEF Report
  <2>2. /\ call'[t].pc = "reported" /\ call'[t].dispatched = call[t].dispatched
        /\ call'[t].physical = call[t].physical
    BY <1>0, <2>1 DEF CallType
  <2>3. record' = record
    BY <1>10, ThreadShape
  <2> QED BY <2>2, <2>3 DEF Accounted
<1> QED BY <1>1, <1>2, <1>3, <1>4, <1>5, <1>6, <1>7, <1>8, <1>9, <1>10 DEF Attempt

LEMMA AccountedStep ==
    ASSUME BudgetAssumption, TypeOK, \A t \in Threads : Accounted(t), [Next]_vars
    PROVE  (\A t \in Threads : Accounted(t))'
<1>1. CASE UNCHANGED vars
  BY <1>1 DEF vars, ledger, Accounted, Alone
<1>2. ASSUME NEW t \in Threads, Attempt(t) PROVE \A u \in Threads : Accounted(u)'
  BY <1>2, OwnAccounted, OthersAccounted
<1> QED BY <1>1, <1>2 DEF Next, Done

-----------------------------------------------------------------------------
(* What a check that was verified says.                                     *)

\* What a terminal fact says of its operation, now that it has this status.
Says(kind, status) == kind = status \/ (kind = "indeterminate" /\ status = "settled")

\* Every revision has its fact in the stream, and as long as no stored fact was
\* taken for lost (so that the revisions still number the stream) each
\* terminal one tells what has become of its operation.
Faithful ==
    /\ revision <= Len(stream)
    /\ Contiguous => \A n \in 1..revision :
         stream[n].kind \in Terminal => Says(stream[n].kind, record[stream[n].op].status)

\* No record and no check is newer than the ledger.
Dated ==
    /\ \A o \in Operations : record[o].rev <= revision
    /\ \A t \in Threads : call[t].check.rev <= revision

\* Appending a fact leaves the earlier ones where they are.
LEMMA Appended ==
    ASSUME TypeOK, NEW fact \in FactType
    PROVE  /\ Len(Append(stream, fact)) = Len(stream) + 1
           /\ \A n \in 1..Len(stream) : Append(stream, fact)[n] = stream[n]
           /\ Append(stream, fact)[Len(stream) + 1] = fact
           /\ Len(stream) \in Nat
BY DEF TypeOK

\* A longer stream that is contiguous was so before.
LEMMA WasContiguous ==
    ASSUME TypeOK, NEW fact \in FactType, stream' = Append(stream, fact), Contiguous'
    PROVE  Contiguous /\ fact.rev = Len(stream) + 1
<1>1. \A n \in 1..(Len(stream) + 1) : stream'[n].rev = n
  BY Appended DEF Contiguous
<1>2. DOMAIN stream = 1..Len(stream) /\ Len(stream) \in Nat
  BY DEF TypeOK
<1>3. \A n \in 1..Len(stream) : stream[n].rev = n
  BY <1>1, <1>2, Appended
<1>4. stream'[Len(stream) + 1].rev = Len(stream) + 1
  BY <1>1, <1>2
<1> QED BY <1>2, <1>3, <1>4, Appended DEF Contiguous

\* A step that records nothing.
LEMMA QuietFaithful ==
    ASSUME TypeOK, Faithful, Quiet PROVE Faithful'
<1>1. CASE stream' = stream
  BY <1>1 DEF Faithful, Contiguous, Quiet
<1>2. ASSUME NEW fact \in FactType, stream' = Append(stream, fact) PROVE Faithful'
  <2>1. revision \in Nat /\ revision' = revision /\ record' = record
    BY DEF TypeOK, Quiet
  <2>2. revision <= Len(stream)
    BY DEF Faithful
  <2>3. revision' <= Len(stream')
    BY <1>2, <2>1, <2>2, Appended
  <2>4. \A n \in 1..revision : stream'[n] = stream[n]
    BY <1>2, <2>1, <2>2, Appended
  <2>5. Contiguous' => Contiguous
    BY <1>2, WasContiguous
  <2> QED BY <2>1, <2>3, <2>4, <2>5 DEF Faithful
<1> QED BY <1>1, <1>2 DEF Quiet

\* What a fact says stays true however the record is revised.
LEMMA SaysRevised ==
    ASSUME NEW was, NEW is, Revised(was, is), NEW kind \in Terminal, Says(kind, was.status)
    PROVE  Says(kind, is.status)
BY DEF Says, Revised, Terminal, Open

\* A step that writes a fact.
LEMMA WritesFaithful ==
    ASSUME TypeOK, Faithful, NEW op \in Operations, NEW fact, Writes(op, fact),
           \A o \in Operations : Revised(record[o], record'[o])
    PROVE  Faithful'
<1>1. /\ fact \in FactType /\ fact.op = op /\ fact.rev = revision + 1
      /\ stream' = Append(stream, fact) /\ revision' = revision + 1
      /\ record'[op].status = fact.kind
  BY DEF Writes
<1>2. revision \in Nat /\ revision <= Len(stream) /\ stream \in Seq(FactType)
  BY DEF TypeOK, Faithful
<1>3. revision' <= Len(stream')
  BY <1>1, <1>2, Appended
<1>4. ASSUME Contiguous', NEW n \in 1..revision', stream'[n].kind \in Terminal
      PROVE  Says(stream'[n].kind, record'[stream'[n].op].status)
  <2>1. Contiguous /\ revision = Len(stream)
    BY <1>1, <1>2, <1>4, WasContiguous, Appended
  <2>2. CASE n = revision + 1
    <3>1. stream'[n] = fact
      BY <1>1, <2>1, <2>2, Appended
    <3> QED BY <1>1, <3>1 DEF Says
  <2>3. CASE n \in 1..revision
    <3>1. stream'[n] = stream[n] /\ stream[n].op \in Operations
      <4>1. n \in 1..Len(stream) /\ stream[n] \in FactType
        BY <1>2, <2>1, <2>3
      <4> QED BY <1>1, <4>1, Appended DEF FactType
    <3>2. Says(stream[n].kind, record[stream[n].op].status)
      BY <1>4, <2>1, <2>3, <3>1 DEF Faithful
    <3> QED BY <1>4, <3>1, <3>2, SaysRevised
  <2> QED BY <1>1, <1>2, <2>2, <2>3
<1> QED BY <1>3, <1>4 DEF Faithful

LEMMA FaithfulStep ==
    ASSUME BudgetAssumption, TypeOK, Faithful, [Next]_vars PROVE Faithful'
<1>1. CASE UNCHANGED vars
  BY <1>1 DEF vars, ledger, Faithful, Contiguous
<1>2. ASSUME NEW t \in Threads, Attempt(t) PROVE Faithful'
  <2>1. Quiet \/ \E fact : Writes(OpOf[t], fact)
    BY <1>2, AttemptShape DEF Shape
  <2> QED BY <2>1, Own, QuietFaithful, RevisedStep, WritesFaithful
<1> QED BY <1>1, <1>2 DEF Next, Done

LEMMA DatedStep ==
    ASSUME BudgetAssumption, TypeOK, Dated, [Next]_vars PROVE Dated'
<1>1. CASE UNCHANGED vars
  BY <1>1 DEF vars, ledger, Dated
<1>2. ASSUME NEW t \in Threads, Attempt(t) PROVE Dated'
  <2>1. Shape(t)
    BY <1>2, AttemptShape
  <2>2. /\ revision \in Nat /\ record \in [Operations -> RecordType]
        /\ call \in [Threads -> CallType]
    BY DEF TypeOK
  <2>3. (\A o \in Operations : record[o].rev \in Nat) /\ \A u \in Threads : call[u].check.rev \in Nat
    BY <2>2 DEF RecordType, CallType, CheckType
  <2>4. revision' \in Nat /\ revision <= revision'
    BY <2>1, <2>2 DEF Shape, Quiet, Writes
  <2>5. \A o \in Operations : record'[o].rev <= revision'
    <3>1. CASE Quiet
      BY <3>1 DEF Quiet, Dated
    <3>2. ASSUME NEW fact, Writes(OpOf[t], fact) PROVE \A o \in Operations : record'[o].rev <= revision'
      <4>1. record'[OpOf[t]].rev = revision'
        BY <3>2 DEF Writes
      <4>2. \A o \in Operations \ {OpOf[t]} : record'[o] = record[o]
        BY <2>2, <3>2 DEF Writes
      <4> QED BY <2>3, <2>4, <4>1, <4>2, <2>2 DEF Dated
    <3> QED BY <2>1, <3>1, <3>2 DEF Shape
  <2>6. OpOf[t] \in Operations
    BY Own
  <2>7. \A u \in Threads : call'[u].check.rev <= revision'
    BY <2>1, <2>2, <2>3, <2>4, <2>6 DEF Shape, Dated
  <2> QED BY <2>5, <2>7 DEF Dated
<1> QED BY <1>1, <1>2 DEF Next, Done

\* A verified check points at the fact with its revision, and that fact says
\* what has become of the operation.
LEMMA VerifiedSays ==
    ASSUME TypeOK, Faithful, Dated
    PROVE  VerifiedCheckIsTheOutcome
<1> SUFFICES ASSUME NEW t \in Threads, Verified(OpOf[t], call[t].check)
             PROVE  /\ stream[call[t].check.rev].op = OpOf[t]
                    /\ Says(stream[call[t].check.rev].kind, record[OpOf[t]].status)
  BY DEF VerifiedCheckIsTheOutcome, Says
<1>1. PICK n \in DOMAIN stream :
        /\ stream[n].op = OpOf[t] /\ stream[n].rev = call[t].check.rev
        /\ stream[n].kind \in Terminal
  BY DEF Verified, FactsOf
<1>2. Contiguous /\ n = call[t].check.rev
  BY <1>1 DEF Verified, Contiguous
<1>3. n \in 1..revision
  BY <1>1, <1>2 DEF Dated, TypeOK
<1> QED BY <1>1, <1>2, <1>3 DEF Faithful

-----------------------------------------------------------------------------
(* The replay of the stream.                                                *)

\* f tells the ledgers after 0, 1, 2, ... of the facts.
IsReplay(f, facts) ==
    f = [n \in 0..Len(facts) |-> IF n = 0 THEN EmptyLedger ELSE Replay(f[n - 1], facts[n])]

\* The live ledger, as replay returns it.
Live == [record |-> record, reserved |-> reserved, committed |-> committed]

\* The stream can be replayed, and an operation without a fact has no record.
Replayable ==
    /\ \E f : IsReplay(f, stream)
    /\ \A o \in Operations : record[o].status = "none" => record[o] = NoRecord

\* What a replay is at each length.
LEMMA ReplayAt ==
    ASSUME NEW facts \in Seq(FactType), NEW f, IsReplay(f, facts)
    PROVE  /\ f[0] = EmptyLedger
           /\ \A n \in 1..Len(facts) : n - 1 \in 0..Len(facts) /\ f[n] = Replay(f[n - 1], facts[n])
           /\ DOMAIN f = 0..Len(facts)
           /\ f = [n \in 0..Len(facts) |-> f[n]]
<1>1. PICK N \in Nat : N = Len(facts)
  OBVIOUS
<1>2. f = [n \in 0..N |-> IF n = 0 THEN EmptyLedger ELSE Replay(f[n - 1], facts[n])]
  BY <1>1 DEF IsReplay
<1>3. \A n \in 0..N : f[n] = IF n = 0 THEN EmptyLedger ELSE Replay(f[n - 1], facts[n])
  BY <1>2, Zenon
<1>4. DOMAIN f = 0..N
  BY <1>2, Zenon
<1>5. f = [n \in 0..N |-> f[n]]
  BY <1>2, <1>4, Zenon
<1>6. f[0] = EmptyLedger
  <2>1. 0 \in 0..N
    OBVIOUS
  <2> QED BY <1>3, <2>1
<1>7. ASSUME NEW n \in 1..N
      PROVE  n - 1 \in 0..N /\ f[n] = Replay(f[n - 1], facts[n])
  <2>1. n \in 0..N /\ n # 0 /\ n - 1 \in 0..N
    OBVIOUS
  <2> QED BY <1>3, <2>1
<1> QED BY <1>1, <1>4, <1>5, <1>6, <1>7

\* A stream has one replay: two that differ differ first somewhere, and there
\* they apply the same fact to the same ledger.
LEMMA ReplayUnique ==
    ASSUME NEW facts \in Seq(FactType), NEW f, NEW g, IsReplay(f, facts), IsReplay(g, facts)
    PROVE  f = g
<1>1. PICK N \in Nat : N = Len(facts)
  OBVIOUS
<1>2. /\ f[0] = EmptyLedger /\ g[0] = EmptyLedger
      /\ \A n \in 1..N : f[n] = Replay(f[n - 1], facts[n])
      /\ \A n \in 1..N : g[n] = Replay(g[n - 1], facts[n])
      /\ f = [n \in 0..N |-> f[n]] /\ g = [n \in 0..N |-> g[n]]
  BY <1>1, ReplayAt
<1>3. PICK T : T = {n \in 0..N : f[n] # g[n]}
  OBVIOUS
<1>4. CASE T = {}
  <2>1. \A n \in 0..N : f[n] = g[n]
    BY <1>3, <1>4
  <2>2. [n \in 0..N |-> f[n]] = [n \in 0..N |-> g[n]]
    BY <2>1, Zenon
  <2> QED BY <1>2, <2>2
<1>5. CASE T # {}
  <2>1. T \subseteq Nat
    BY <1>3
  <2>2. PICK n \in T : \A m \in T : n <= m
    BY <1>5, <2>1, LeastExists
  <2>3. n \in 0..N /\ f[n] # g[n]
    BY <1>3
  <2>4. n # 0
    BY <1>2, <2>3
  <2>5. n \in 1..N /\ n - 1 \in 0..N /\ ~(n <= n - 1)
    BY <2>3, <2>4
  <2>6. f[n - 1] = g[n - 1]
    BY <1>3, <2>2, <2>5
  <2> QED BY <1>2, <2>3, <2>5, <2>6
<1> QED BY <1>4, <1>5

\* LedgersOf is the replay, once there is one.
LEMMA LedgersAre ==
    ASSUME NEW facts \in Seq(FactType), NEW f, IsReplay(f, facts)
    PROVE  LedgersOf(facts) = f
<1>1. IsReplay(LedgersOf(facts), facts)
  BY Zenon DEF LedgersOf, IsReplay
<1> QED BY <1>1, ReplayUnique

\* One more fact extends the replay.
LEMMA ReplayAppended ==
    ASSUME TypeOK, NEW f, IsReplay(f, stream), NEW fact \in FactType,
           stream' = Append(stream, fact)
    PROVE  \E g : IsReplay(g, stream') /\ g[Len(stream')] = Replay(f[Len(stream)], fact)
<1>1. PICK N \in Nat : N = Len(stream)
  BY DEF TypeOK
<1>2. /\ stream \in Seq(FactType) /\ stream' \in Seq(FactType)
      /\ Len(stream') = N + 1
      /\ \A n \in 1..N : stream'[n] = stream[n]
      /\ stream'[N + 1] = fact
  BY <1>1 DEF TypeOK
<1>3. PICK g : g = [n \in 0..(N + 1) |-> IF n = N + 1 THEN Replay(f[N], fact) ELSE f[n]]
  OBVIOUS
<1>4. f[0] = EmptyLedger /\ \A n \in 1..N : f[n] = Replay(f[n - 1], stream[n])
  BY <1>1, <1>2, ReplayAt
<1>5. g[N + 1] = Replay(f[N], fact)
  BY <1>3
<1>6. \A n \in 0..N : g[n] = f[n]
  BY <1>3
<1>7. ASSUME NEW n \in 0..(N + 1)
      PROVE  g[n] = IF n = 0 THEN EmptyLedger ELSE Replay(g[n - 1], stream'[n])
  <2>1. CASE n = 0
    BY <1>4, <1>6, <2>1
  <2>2. CASE n = N + 1
    <3>1. g[n - 1] = f[N] /\ n # 0 /\ stream'[n] = fact
      BY <1>2, <1>6, <2>2
    <3> QED BY <1>5, <2>2, <3>1
  <2>3. CASE n \in 1..N
    <3>1. n \in 0..N /\ n - 1 \in 0..N /\ n # 0
      BY <2>3
    <3>2. g[n] = f[n] /\ g[n - 1] = f[n - 1] /\ stream'[n] = stream[n]
      BY <1>2, <1>6, <2>3, <3>1
    <3> QED BY <1>4, <2>3, <3>1, <3>2
  <2>4. n = 0 \/ n = N + 1 \/ n \in 1..N
    OBVIOUS
  <2> QED BY <2>1, <2>2, <2>3, <2>4
<1>8. g = [n \in 0..(N + 1) |-> g[n]]
  BY <1>3, Zenon
<1>9. g = [n \in 0..(N + 1) |->
              IF n = 0 THEN EmptyLedger ELSE Replay(g[n - 1], stream'[n])]
  <2>1. [n \in 0..(N + 1) |-> g[n]] =
          [n \in 0..(N + 1) |-> IF n = 0 THEN EmptyLedger ELSE Replay(g[n - 1], stream'[n])]
    BY <1>7, Zenon
  <2> QED BY <1>8, <2>1, Zenon
<1>10. IsReplay(g, stream')
  BY <1>2, <1>9 DEF IsReplay
<1> QED BY <1>1, <1>2, <1>5, <1>10

\* Giving or taking nothing leaves every total as it was.
LEMMA NothingChanges ==
    ASSUME NEW totals \in [Scopes -> Amounts], NEW s \in Scopes
    PROVE  Add(totals, s, Zero) = totals /\ Subtract(totals, s, Zero) = totals
<1>1. ASSUME NEW x \in Scopes
      PROVE  Plus(totals[x], Zero) = totals[x] /\ Minus(totals[x], Zero) = totals[x]
  BY DEF Amounts, Plus, Minus, Zero
<1> QED BY <1>1 DEF Add, Subtract

\* The scope that replay books a fact of thread t to.
LEMMA ScopeOfOwn ==
    ASSUME BudgetAssumption, NEW t \in Threads
    PROVE  ScopeOfOp(OpOf[t]) = ScopeOf[t]
<1>1. PICK u : u = CHOOSE x \in Threads : OpOf[x] = OpOf[t]
  OBVIOUS
<1>2. u \in Threads /\ OpOf[u] = OpOf[t]
  BY <1>1, Zenon
<1> QED BY <1>1, <1>2 DEF ScopeOfOp, BudgetAssumption

\* What one fact makes of the live ledger.
LEMMA ReplayLive ==
    ASSUME TypeOK, BudgetAssumption, NEW t \in Threads, NEW fact, fact.op = OpOf[t]
    PROVE  /\ Replay(Live, fact).record =
                [record EXCEPT ![OpOf[t]] = Updated(record[OpOf[t]], fact)]
           /\ Replay(Live, fact).reserved =
                IF fact.kind \in {"settled", "released"}
                THEN Subtract(reserved, ScopeOf[t], record[OpOf[t]].requested)
                ELSE IF fact.kind = "reserved" THEN Add(reserved, ScopeOf[t], fact.amounts)
                ELSE reserved
           /\ Replay(Live, fact).committed =
                IF fact.kind = "settled" THEN Add(committed, ScopeOf[t], fact.amounts)
                ELSE committed
           /\ Replay(Live, fact) = [record |-> Replay(Live, fact).record,
                                    reserved |-> Replay(Live, fact).reserved,
                                    committed |-> Replay(Live, fact).committed]
<1>1. /\ ScopeOf[t] \in Scopes /\ ScopeOfOp(fact.op) = ScopeOf[t]
      /\ reserved \in [Scopes -> Amounts] /\ committed \in [Scopes -> Amounts]
  BY Own, ScopeOfOwn DEF TypeOK
<1>2. Live.record = record /\ Live.reserved = reserved /\ Live.committed = committed
  BY DEF Live
<1>3. record[OpOf[t]].requested \in Amounts
  BY Own DEF Spend, Amounts
<1>4. /\ Subtract(reserved, ScopeOf[t], Zero) = reserved
      /\ Add(reserved, ScopeOf[t], Zero) = reserved
      /\ Add(committed, ScopeOf[t], Zero) = committed
  BY <1>1, NothingChanges
<1>5. Subtract(reserved, ScopeOf[t], record[OpOf[t]].requested) \in [Scopes -> Amounts]
  BY <1>1, <1>3, TotalsType
<1>6. Add(Subtract(reserved, ScopeOf[t], record[OpOf[t]].requested), ScopeOf[t], Zero)
        = Subtract(reserved, ScopeOf[t], record[OpOf[t]].requested)
  BY <1>1, <1>5, NothingChanges
<1> DEFINE freed == IF fact.kind \in {"settled", "released"}
                    THEN record[OpOf[t]].requested ELSE Zero
           taken == IF fact.kind = "reserved" THEN fact.amounts ELSE Zero
           spent == IF fact.kind = "settled" THEN fact.amounts ELSE Zero
<1>7. Replay(Live, fact) =
        [record |-> [record EXCEPT ![OpOf[t]] = Updated(record[OpOf[t]], fact)],
         reserved |-> Add(Subtract(reserved, ScopeOf[t], freed), ScopeOf[t], taken),
         committed |-> Add(committed, ScopeOf[t], spent)]
  BY <1>1, <1>2, Zenon DEF Replay
<1>8. /\ Replay(Live, fact).record =
           [record EXCEPT ![OpOf[t]] = Updated(record[OpOf[t]], fact)]
      /\ Replay(Live, fact).reserved =
           Add(Subtract(reserved, ScopeOf[t], freed), ScopeOf[t], taken)
      /\ Replay(Live, fact).committed = Add(committed, ScopeOf[t], spent)
  BY <1>7
<1>9. CASE fact.kind \in {"settled", "released"}
  <2>1. freed = record[OpOf[t]].requested /\ taken = Zero
    BY <1>9
  <2>2. spent = IF fact.kind = "settled" THEN fact.amounts ELSE Zero
    OBVIOUS
  <2> HIDE DEF freed, taken, spent
  <2> QED BY <1>4, <1>6, <1>7, <1>8, <1>9, <2>1, <2>2
<1>10. CASE fact.kind \notin {"settled", "released"}
  <2>1. freed = Zero /\ spent = Zero
    BY <1>10
  <2>2. taken = IF fact.kind = "reserved" THEN fact.amounts ELSE Zero
    OBVIOUS
  <2> HIDE DEF freed, taken, spent
  <2> QED BY <1>4, <1>7, <1>8, <1>10, <2>1, <2>2
<1> QED BY <1>9, <1>10

\* A step that stores a fact and makes of the ledger what replay makes of it.
Stores(t) ==
    \E fact \in FactType :
        /\ fact.op = OpOf[t] /\ Published(fact) /\ fact.rev = revision + 1
        /\ Live' = Replay(Live, fact)
        /\ record' = [record EXCEPT ![OpOf[t]] = Updated(record[OpOf[t]], fact)]
        /\ fact.kind # "none"

\* A step that leaves the ledger alone, whether or not it stores a fact.
Keeps ==
    /\ UNCHANGED <<committed, reserved, record, revision>>
    /\ \/ UNCHANGED stream
       \/ \E fact \in FactType : stream' = Append(stream, fact)

\* A record is what its fields are.
LEMMA RecordFields ==
    ASSUME NEW r \in RecordType
    PROVE  r = [status |-> r.status, rev |-> r.rev,
                requested |-> r.requested, actual |-> r.actual]
BY DEF RecordType

\* A record with the fields that a fact gives it is the updated one.
LEMMA UpdatedIs ==
    ASSUME NEW r, NEW fact, NEW y \in RecordType, y.status = fact.kind, y.rev = fact.rev,
           y.requested = IF r.status = "none" THEN fact.amounts ELSE r.requested,
           y.actual = IF fact.kind = "settled" THEN fact.amounts ELSE r.actual
    PROVE  Updated(r, fact) = y
<1>1. y = [status |-> y.status, rev |-> y.rev,
           requested |-> y.requested, actual |-> y.actual]
  BY RecordFields
<1> QED BY <1>1, Zenon DEF Updated

LEMMA FailedKeeps ==
    ASSUME NEW t \in Threads, NEW fact \in FactType, AppendFails(t, fact)
    PROVE  Keeps
BY DEF AppendFails, Keeps, ledger

\* The record of a thread's operation and the totals are what the fact makes
\* of them.
Booked(t, fact) ==
    LET was == record[OpOf[t]]
        is  == record'[OpOf[t]]
    IN  /\ is.status = fact.kind /\ is.rev = fact.rev
        /\ is.requested = IF was.status = "none" THEN fact.amounts ELSE was.requested
        /\ is.actual = IF fact.kind = "settled" THEN fact.amounts ELSE was.actual
        /\ reserved' = IF fact.kind \in {"settled", "released"}
                       THEN Subtract(reserved, ScopeOf[t], was.requested)
                       ELSE IF fact.kind = "reserved" THEN Add(reserved, ScopeOf[t], fact.amounts)
                       ELSE reserved
        /\ committed' = IF fact.kind = "settled" THEN Add(committed, ScopeOf[t], fact.amounts)
                        ELSE committed

\* A stored fact with the record and the totals that replay gives it.
LEMMA StoresFact ==
    ASSUME TypeOK, TypeOK', BudgetAssumption, NEW t \in Threads, NEW fact \in FactType,
           fact.op = OpOf[t], fact.rev = revision + 1, fact.kind # "none", Published(fact),
           record' = [record EXCEPT ![OpOf[t]] = record'[OpOf[t]]],
           Booked(t, fact)
    PROVE  Stores(t)
<1>1. record'[OpOf[t]] \in RecordType
  BY Own DEF TypeOK
<1>2. Updated(record[OpOf[t]], fact) = record'[OpOf[t]]
  <2>1. PICK r, y : r = record[OpOf[t]] /\ y = record'[OpOf[t]]
    OBVIOUS
  <2>2. /\ y \in RecordType /\ y.status = fact.kind /\ y.rev = fact.rev
        /\ y.requested = IF r.status = "none" THEN fact.amounts ELSE r.requested
        /\ y.actual = IF fact.kind = "settled" THEN fact.amounts ELSE r.actual
    BY <1>1, <2>1, Zenon DEF Booked
  <2>3. Updated(r, fact) = y
    BY <2>2, UpdatedIs, Zenon
  <2> QED BY <2>1, <2>3, Zenon
<1>3. record' = [record EXCEPT ![OpOf[t]] = Updated(record[OpOf[t]], fact)]
  BY <1>2, Zenon
<1>4. /\ Replay(Live, fact).record = record'
      /\ Replay(Live, fact).reserved = reserved'
      /\ Replay(Live, fact).committed = committed'
      /\ Replay(Live, fact) = [record |-> Replay(Live, fact).record,
                               reserved |-> Replay(Live, fact).reserved,
                               committed |-> Replay(Live, fact).committed]
  BY <1>3, ReplayLive, ZenonT(60) DEF Booked
<1>5. Live' = [record |-> record', reserved |-> reserved', committed |-> committed']
  BY DEF Live
<1>6. Live' = Replay(Live, fact)
  BY <1>4, <1>5, Zenon
<1> QED BY <1>3, <1>6 DEF Stores

LEMMA DenyStores ==
    ASSUME TypeOK, TypeOK', BudgetAssumption, Replayable, NEW t \in Threads, Deny(t)
    PROVE  Stores(t) \/ Keeps
<1> DEFINE fact == Fact(OpOf[t], "denied", call[t].want, revision + 1)
<1>1. /\ fact \in FactType /\ fact.op = OpOf[t] /\ fact.kind = "denied"
      /\ fact.rev = revision + 1 /\ fact.amounts = call[t].want
  BY Own, NextFact DEF Statuses, Fact
<1>2. CASE AppendFails(t, fact)
  BY <1>1, <1>2, FailedKeeps
<1>3. CASE /\ Published(fact)
           /\ record' = [record EXCEPT ![OpOf[t]] =
                 [NoRecord EXCEPT !.status = "denied", !.requested = call[t].want,
                                  !.rev = fact.rev]]
           /\ UNCHANGED <<committed, reserved>>
  <2> HIDE DEF fact
  <2>1. record \in [Operations -> RecordType] /\ OpOf[t] \in Operations
    BY Own DEF TypeOK
  <2>2. record[OpOf[t]] = NoRecord
    BY <2>1 DEF Deny, Replayable
  <2>3. /\ record' = [record EXCEPT ![OpOf[t]] = record'[OpOf[t]]]
        /\ record'[OpOf[t]].status = "denied" /\ record'[OpOf[t]].rev = fact.rev
        /\ record'[OpOf[t]].requested = call[t].want
        /\ record'[OpOf[t]].actual = Zero
    BY <1>3, <2>1 DEF NoRecord
  <2>4. Booked(t, fact)
    BY <1>1, <1>3, <2>2, <2>3 DEF Booked, NoRecord
  <2>5. Published(fact) /\ fact.kind # "none"
    BY <1>1, <1>3
  <2> QED BY <1>1, <2>3, <2>4, <2>5, StoresFact, Zenon
<1> QED BY <1>2, <1>3 DEF Deny

LEMMA ReserveStores ==
    ASSUME TypeOK, TypeOK', BudgetAssumption, Replayable, NEW t \in Threads, Reserve(t)
    PROVE  Stores(t) \/ Keeps
<1> DEFINE fact == Fact(OpOf[t], "reserved", call[t].want, revision + 1)
<1>1. /\ fact \in FactType /\ fact.op = OpOf[t] /\ fact.kind = "reserved"
      /\ fact.rev = revision + 1 /\ fact.amounts = call[t].want
  BY Own, NextFact DEF Statuses, Fact
<1>2. CASE AppendFails(t, fact)
  BY <1>1, <1>2, FailedKeeps
<1>3. CASE /\ Published(fact)
           /\ record' = [record EXCEPT ![OpOf[t]] =
                 [NoRecord EXCEPT !.status = "reserved", !.requested = call[t].want,
                                  !.rev = fact.rev]]
           /\ reserved' = Add(reserved, ScopeOf[t], call[t].want)
           /\ UNCHANGED committed
  <2> HIDE DEF fact
  <2>1. record \in [Operations -> RecordType] /\ OpOf[t] \in Operations
    BY Own DEF TypeOK
  <2>2. record[OpOf[t]] = NoRecord
    BY <2>1 DEF Reserve, Replayable
  <2>3. /\ record' = [record EXCEPT ![OpOf[t]] = record'[OpOf[t]]]
        /\ record'[OpOf[t]].status = "reserved" /\ record'[OpOf[t]].rev = fact.rev
        /\ record'[OpOf[t]].requested = call[t].want
        /\ record'[OpOf[t]].actual = Zero
    BY <1>3, <2>1 DEF NoRecord
  <2>4. Booked(t, fact)
    BY <1>1, <1>3, <2>2, <2>3 DEF Booked, NoRecord
  <2>5. Published(fact) /\ fact.kind # "none"
    BY <1>1, <1>3
  <2> QED BY <1>1, <2>3, <2>4, <2>5, StoresFact, Zenon
<1> QED BY <1>2, <1>3 DEF Reserve

LEMMA IndeterminateStores ==
    ASSUME TypeOK, TypeOK', BudgetAssumption, NEW t \in Threads,
           record[OpOf[t]].status # "none", BecomeIndeterminate(t)
    PROVE  Stores(t) \/ Keeps
<1> DEFINE fact == Fact(OpOf[t], "indeterminate", record[OpOf[t]].requested, revision + 1)
<1>1. /\ fact \in FactType /\ fact.op = OpOf[t] /\ fact.kind = "indeterminate"
      /\ fact.rev = revision + 1 /\ fact.amounts = record[OpOf[t]].requested
  BY Own, NextFact DEF Statuses, Fact
<1>2. CASE AppendFails(t, fact)
  BY <1>1, <1>2, FailedKeeps
<1>3. CASE /\ Published(fact)
           /\ record' = [record EXCEPT ![OpOf[t]].status = "indeterminate",
                                       ![OpOf[t]].rev = fact.rev]
           /\ UNCHANGED <<committed, reserved>>
  <2> HIDE DEF fact
  <2>1. record \in [Operations -> RecordType] /\ OpOf[t] \in Operations
    BY Own DEF TypeOK
  <2>2. record[OpOf[t]].status # "none"
    OBVIOUS
  <2>3. /\ record' = [record EXCEPT ![OpOf[t]] = record'[OpOf[t]]]
        /\ record'[OpOf[t]].status = "indeterminate" /\ record'[OpOf[t]].rev = fact.rev
        /\ record'[OpOf[t]].requested = record[OpOf[t]].requested
        /\ record'[OpOf[t]].actual = record[OpOf[t]].actual
    <3>1. record[OpOf[t]] \in RecordType
      BY <2>1
    <3>2. record'[OpOf[t]] = [record[OpOf[t]] EXCEPT !.status = "indeterminate", !.rev = fact.rev]
      BY <1>3, <2>1
    <3>3. record' = [record EXCEPT ![OpOf[t]] = record'[OpOf[t]]]
      BY <1>3, <2>1
    <3> QED BY <3>1, <3>2, <3>3 DEF RecordType
  <2>4. Booked(t, fact)
    BY <1>1, <1>3, <2>2, <2>3 DEF Booked
  <2>5. Published(fact) /\ fact.kind # "none"
    BY <1>1, <1>3
  <2> QED BY <1>1, <2>3, <2>4, <2>5, StoresFact, Zenon
<1> QED BY <1>2, <1>3 DEF BecomeIndeterminate

LEMMA SettledStores ==
    ASSUME TypeOK, TypeOK', BudgetAssumption, NEW t \in Threads, NEW actual \in Spend,
           record[OpOf[t]].status # "none", BecomeSettled(t, actual)
    PROVE  Stores(t) \/ Keeps
<1> DEFINE fact == Fact(OpOf[t], "settled", actual, revision + 1)
<1>1. /\ fact \in FactType /\ fact.op = OpOf[t] /\ fact.kind = "settled"
      /\ fact.rev = revision + 1 /\ fact.amounts = actual
  BY Own, NextFact DEF Statuses, Fact
<1>2. CASE AppendFails(t, fact)
  BY <1>1, <1>2, FailedKeeps
<1>3. CASE /\ Published(fact)
           /\ record' = [record EXCEPT ![OpOf[t]].status = "settled",
                                       ![OpOf[t]].actual = actual, ![OpOf[t]].rev = fact.rev]
           /\ reserved' = Subtract(reserved, ScopeOf[t], record[OpOf[t]].requested)
           /\ committed' = Add(committed, ScopeOf[t], actual)
  <2> HIDE DEF fact
  <2>1. record \in [Operations -> RecordType] /\ OpOf[t] \in Operations
    BY Own DEF TypeOK
  <2>2. record[OpOf[t]].status # "none"
    OBVIOUS
  <2>3. /\ record' = [record EXCEPT ![OpOf[t]] = record'[OpOf[t]]]
        /\ record'[OpOf[t]].status = "settled" /\ record'[OpOf[t]].rev = fact.rev
        /\ record'[OpOf[t]].requested = record[OpOf[t]].requested
        /\ record'[OpOf[t]].actual = actual
    <3>1. record[OpOf[t]] \in RecordType
      BY <2>1
    <3>2. record'[OpOf[t]] = [record[OpOf[t]] EXCEPT !.status = "settled",
                              !.actual = actual, !.rev = fact.rev]
      BY <1>3, <2>1
    <3>3. record' = [record EXCEPT ![OpOf[t]] = record'[OpOf[t]]]
      BY <1>3, <2>1
    <3> QED BY <3>1, <3>2, <3>3 DEF RecordType
  <2>4. Booked(t, fact)
    BY <1>1, <1>3, <2>2, <2>3 DEF Booked
  <2>5. Published(fact) /\ fact.kind # "none"
    BY <1>1, <1>3
  <2> QED BY <1>1, <2>3, <2>4, <2>5, StoresFact, Zenon
<1> QED BY <1>2, <1>3 DEF BecomeSettled

LEMMA ReleaseStores ==
    ASSUME TypeOK, TypeOK', BudgetAssumption, NEW t \in Threads, Release(t)
    PROVE  Stores(t) \/ Keeps
<1> DEFINE fact == Fact(OpOf[t], "released", record[OpOf[t]].requested, revision + 1)
<1>1. /\ fact \in FactType /\ fact.op = OpOf[t] /\ fact.kind = "released"
      /\ fact.rev = revision + 1 /\ fact.amounts = record[OpOf[t]].requested
  BY Own, NextFact DEF Statuses, Fact
<1>2. CASE AppendFails(t, fact)
  BY <1>1, <1>2, FailedKeeps
<1>3. CASE /\ record[OpOf[t]].status = "reserved"
           /\ Published(fact)
           /\ record' = [record EXCEPT ![OpOf[t]].status = "released",
                                       ![OpOf[t]].rev = fact.rev]
           /\ reserved' = Subtract(reserved, ScopeOf[t], record[OpOf[t]].requested)
           /\ UNCHANGED committed
  <2> HIDE DEF fact
  <2>1. record \in [Operations -> RecordType] /\ OpOf[t] \in Operations
    BY Own DEF TypeOK
  <2>2. record[OpOf[t]].status # "none"
    BY <1>3
  <2>3. /\ record' = [record EXCEPT ![OpOf[t]] = record'[OpOf[t]]]
        /\ record'[OpOf[t]].status = "released" /\ record'[OpOf[t]].rev = fact.rev
        /\ record'[OpOf[t]].requested = record[OpOf[t]].requested
        /\ record'[OpOf[t]].actual = record[OpOf[t]].actual
    <3>1. record[OpOf[t]] \in RecordType
      BY <2>1
    <3>2. record'[OpOf[t]] = [record[OpOf[t]] EXCEPT !.status = "released", !.rev = fact.rev]
      BY <1>3, <2>1
    <3>3. record' = [record EXCEPT ![OpOf[t]] = record'[OpOf[t]]]
      BY <1>3, <2>1
    <3> QED BY <3>1, <3>2, <3>3 DEF RecordType
  <2>4. Booked(t, fact)
    BY <1>1, <1>3, <2>2, <2>3 DEF Booked
  <2>5. Published(fact) /\ fact.kind # "none"
    BY <1>1, <1>3
  <2> QED BY <1>1, <2>3, <2>4, <2>5, StoresFact, Zenon
<1>4. CASE UNCHANGED <<ledger, stream, faults>>
  BY <1>4 DEF Keeps, ledger
<1> QED BY <1>2, <1>3, <1>4 DEF Release, Raise

LEMMA SettleWithStores ==
    ASSUME TypeOK, TypeOK', BudgetAssumption, NEW t \in Threads, NEW actual \in Spend,
           SettleWith(t, actual)
    PROVE  Stores(t) \/ Keeps
<1>1. CASE UNCHANGED <<ledger, stream, faults>>
  BY <1>1 DEF Keeps, ledger
<1>2. CASE record[OpOf[t]].status \in Open /\ BecomeSettled(t, actual)
  BY <1>2, SettledStores DEF Open
<1>3. CASE record[OpOf[t]].status = "reserved" /\ BecomeIndeterminate(t)
  BY <1>3, IndeterminateStores
<1> QED BY <1>1, <1>2, <1>3 DEF SettleWith, Raise

\* Every step of a thread stores a fact and follows it, or leaves the ledger.
LEMMA AttemptStores ==
    ASSUME TypeOK, TypeOK', BudgetAssumption, Replayable, NEW t \in Threads, Attempt(t)
    PROVE  Stores(t) \/ Keeps
<1>1. CASE \/ ReadTotal(t) \/ Size(t) \/ SizeLookup(t) \/ ReserveAgain(t)
           \/ Dispatch(t) \/ Report(t)
  BY <1>1 DEF ReadTotal, Size, SizeLookup, ReserveAgain, Dispatch, Report, Keeps, ledger
<1>2. CASE Deny(t)
  BY <1>2, DenyStores
<1>3. CASE Reserve(t)
  BY <1>3, ReserveStores
<1>4. CASE Settle(t)
  BY <1>4, ChargeType, SettleWithStores DEF Settle
<1>5. CASE MarkIndeterminate(t)
  <2>1. CASE UNCHANGED <<ledger, stream, faults>>
    BY <2>1 DEF Keeps, ledger
  <2>2. CASE record[OpOf[t]].status = "reserved" /\ BecomeIndeterminate(t)
    BY <2>2, IndeterminateStores
  <2> QED BY <1>5, <2>1, <2>2 DEF MarkIndeterminate, Raise
<1>6. CASE CacheHit(t)
  BY <1>6, ChargeType, SettleWithStores DEF CacheHit
<1>7. CASE Release(t)
  BY <1>7, ReleaseStores
<1> QED BY <1>1, <1>2, <1>3, <1>4, <1>5, <1>6, <1>7 DEF Attempt

\* A stream that has one more fact can still be replayed.
LEMMA ReplayableAppended ==
    ASSUME TypeOK, Replayable, NEW fact \in FactType, stream' = Append(stream, fact)
    PROVE  /\ \E g : IsReplay(g, stream')
           /\ LedgersOf(stream')[Len(stream')] = Replay(LedgersOf(stream)[Len(stream)], fact)
<1>1. PICK f : IsReplay(f, stream)
  BY DEF Replayable
<1>2. PICK g : IsReplay(g, stream') /\ g[Len(stream')] = Replay(f[Len(stream)], fact)
  BY <1>1, ReplayAppended
<1>3. stream \in Seq(FactType) /\ stream' \in Seq(FactType)
  BY DEF TypeOK
<1>4. LedgersOf(stream) = f /\ LedgersOf(stream') = g
  BY <1>1, <1>2, <1>3, LedgersAre
<1> QED BY <1>2, <1>4

\* The replay stays possible, and what it gives stays the live ledger.
LEMMA RecoveryStep ==
    ASSUME BudgetAssumption, TypeOK, TypeOK', Replayable, RecoveryReproducesLedger, [Next]_vars
    PROVE  Replayable' /\ RecoveryReproducesLedger'
<1>1. stream \in Seq(FactType) /\ Len(stream) \in Nat /\ revision \in Nat
  BY DEF TypeOK
<1>2. RecoveryReproducesLedger <=>
        \/ Len(stream) > revision
        \/ /\ Contiguous /\ Len(stream) = revision
           /\ LedgersOf(stream)[Len(stream)] = Live
  BY DEF RecoveryReproducesLedger, Replayed, Live
<1>3. RecoveryReproducesLedger' <=>
        \/ Len(stream') > revision'
        \/ /\ Contiguous' /\ Len(stream') = revision'
           /\ LedgersOf(stream')[Len(stream')] = Live'
  BY DEF RecoveryReproducesLedger, Replayed, Live
<1>4. CASE UNCHANGED <<committed, reserved, record, revision, stream>>
  <2>1. Contiguous' <=> Contiguous
    BY <1>4 DEF Contiguous
  <2>2. Live' = Live
    BY <1>4 DEF Live
  <2> QED BY <1>2, <1>3, <1>4, <2>1, <2>2 DEF Replayable
<1>5. ASSUME NEW fact \in FactType, stream' = Append(stream, fact),
             UNCHANGED <<committed, reserved, record, revision>>
      PROVE  Replayable' /\ RecoveryReproducesLedger'
  <2>1. Len(stream') = Len(stream) + 1
    BY <1>1, <1>5
  <2>2. Len(stream) >= revision
    BY <1>1, <1>2
  <2>3. Len(stream') > revision'
    BY <1>1, <1>5, <2>1, <2>2
  <2>4. \E g : IsReplay(g, stream')
    BY <1>5, ReplayableAppended
  <2>5. Replayable'
    BY <1>5, <2>4 DEF Replayable
  <2> QED BY <1>3, <2>3, <2>5
<1>6. ASSUME NEW t \in Threads, Stores(t)
      PROVE  Replayable' /\ RecoveryReproducesLedger'
  <2>1. PICK fact \in FactType :
          /\ fact.op = OpOf[t] /\ Published(fact) /\ fact.rev = revision + 1
          /\ Live' = Replay(Live, fact)
          /\ record' = [record EXCEPT ![OpOf[t]] = Updated(record[OpOf[t]], fact)]
          /\ fact.kind # "none"
    BY <1>6 DEF Stores
  <2>2. stream' = Append(stream, fact) /\ revision' = revision + 1
    BY <2>1 DEF Published
  <2>3. /\ \E g : IsReplay(g, stream')
        /\ LedgersOf(stream')[Len(stream')] = Replay(LedgersOf(stream)[Len(stream)], fact)
    BY <2>2, ReplayableAppended
  <2>4. Len(stream') = Len(stream) + 1
    BY <1>1, <2>2
  <2>5. Replayable'
    <3>1. record \in [Operations -> RecordType] /\ OpOf[t] \in Operations
      BY Own DEF TypeOK
    <3>2. Updated(record[OpOf[t]], fact).status = fact.kind
      BY <3>1 DEF Updated, RecordType
    <3>3. \A o \in Operations : record'[o].status = "none" => record'[o] = NoRecord
      BY <2>1, <3>1, <3>2 DEF Replayable
    <3> QED BY <2>3, <3>3 DEF Replayable
  <2>6. CASE Len(stream) > revision
    BY <1>1, <1>3, <2>2, <2>4, <2>5, <2>6
  <2>7. CASE ~(Len(stream) > revision)
    <3>1. Contiguous /\ Len(stream) = revision /\ LedgersOf(stream)[Len(stream)] = Live
      BY <1>2, <2>7
    <3>2. LedgersOf(stream')[Len(stream')] = Live'
      BY <2>1, <2>3, <3>1
    <3>3. Len(stream') = revision'
      BY <2>2, <2>4, <3>1
    <3>4. Contiguous'
      <4>1. DOMAIN stream = 1..Len(stream) /\ DOMAIN stream' = 1..(Len(stream) + 1)
        BY <1>1, <2>2
      <4>2. /\ \A n \in 1..Len(stream) : stream'[n] = stream[n]
            /\ stream'[Len(stream) + 1] = fact
        BY <2>2, Appended
      <4>3. \A n \in 1..Len(stream) : stream'[n].rev = n
        BY <3>1, <4>1, <4>2 DEF Contiguous
      <4>4. stream'[Len(stream) + 1].rev = Len(stream) + 1
        BY <2>1, <3>1, <4>2
      <4>5. \A n \in 1..(Len(stream) + 1) : n \in 1..Len(stream) \/ n = Len(stream) + 1
        BY <1>1
      <4>6. \A n \in DOMAIN stream' : stream'[n].rev = n
        BY <4>1, <4>3, <4>4, <4>5
      <4> QED BY <4>6 DEF Contiguous
    <3> QED BY <1>3, <2>5, <3>2, <3>3, <3>4
  <2> QED BY <2>6, <2>7
<1>7. CASE Keeps
  BY <1>4, <1>5, <1>7 DEF Keeps
<1>8. CASE UNCHANGED vars
  BY <1>4, <1>8 DEF vars, ledger
<1>9. ASSUME NEW t \in Threads, Attempt(t) PROVE Stores(t) \/ Keeps
  BY <1>9, AttemptStores
<1> QED BY <1>6, <1>7, <1>8, <1>9 DEF Next, Done

LEMMA RecoveryInit == ASSUME BudgetAssumption, Init PROVE Replayable /\ RecoveryReproducesLedger
<1>1. stream = <<>> /\ Len(stream) = 0 /\ stream \in Seq(FactType) /\ revision = 0
  BY DEF Init
<1>2. PICK f : f = [n \in 0..0 |-> EmptyLedger]
  OBVIOUS
<1>3. f = [n \in 0..0 |-> IF n = 0 THEN EmptyLedger ELSE Replay(f[n - 1], stream[n])]
  <2>1. \A n \in 0..0 : EmptyLedger = IF n = 0 THEN EmptyLedger ELSE Replay(f[n - 1], stream[n])
    OBVIOUS
  <2>2. [n \in 0..0 |-> EmptyLedger]
          = [n \in 0..0 |-> IF n = 0 THEN EmptyLedger ELSE Replay(f[n - 1], stream[n])]
    BY <2>1, Zenon
  <2> QED BY <1>2, <2>2, Zenon
<1>4. IsReplay(f, stream)
  BY <1>1, <1>3 DEF IsReplay
<1>5. LedgersOf(stream)[Len(stream)] = EmptyLedger
  <2>1. LedgersOf(stream) = f
    BY <1>1, <1>4, LedgersAre
  <2>2. f[0] = EmptyLedger
    BY <1>2
  <2> QED BY <1>1, <2>1, <2>2
<1>6. EmptyLedger = Live
  BY DEF EmptyLedger, Live, Init
<1>7. Replayable
  BY <1>4 DEF Replayable, Init
<1>8. Contiguous
  BY <1>1 DEF Contiguous
<1> QED BY <1>1, <1>5, <1>6, <1>7, <1>8 DEF RecoveryReproducesLedger, Replayed, Live

-----------------------------------------------------------------------------
(* The theorems.                                                            *)

\* The ledger, the stream and the threads keep their types: no request and no
\* record is ever negative.
THEOREM Types == Spec => []TypeOK
<1>1. Init => TypeOK
  BY InitType, BudgetAssumption
<1>2. TypeOK /\ [Next]_vars => TypeOK'
  BY TypeStep, BudgetAssumption
<1> QED BY <1>1, <1>2, PTL DEF Spec

\* For every tree of scopes, every limit and any number of threads, no scope
\* holds more than it may: what is admitted fits, what settles fits again, and
\* what is released was never negative.
THEOREM Limits == Spec => []WithinLimits
<1>1. Init => TypeOK /\ WithinLimits
  BY InitType, LimitsInit, BudgetAssumption
<1>2. (TypeOK /\ WithinLimits) /\ [Next]_vars => (TypeOK /\ WithinLimits)'
  BY TypeStep, LimitsStep, BudgetAssumption
<1> QED BY <1>1, <1>2, PTL DEF Spec

\* Whichever threads share an operation, it is decided once: a settled,
\* released or denied one keeps its record, an unknown outcome is only ever
\* reconciled to a settlement.
THEOREM DecidedOnce == Spec => OperationsAreDecidedOnce
<1>1. Init => TypeOK
  BY InitType, BudgetAssumption
<1>2. TypeOK /\ [Next]_vars => TypeOK'
  BY TypeStep, BudgetAssumption
<1>3. TypeOK /\ [Next]_vars => \A o \in Operations : Revised(record[o], record'[o])
  BY RevisedStep, BudgetAssumption
<1>4. (\A o \in Operations : Revised(record[o], record'[o])) =>
        [\A o \in Operations :
            LET was == record[o]
                is  == record'[o]
            IN  /\ was.status \in {"settled", "released", "denied"} => is = was
                /\ was.status \in Open =>
                     is.requested = was.requested /\ is.status \notin {"none", "denied"}
                /\ was.status = "indeterminate" => is.status \in {"indeterminate", "settled"}]_vars
  BY DEF Revised
<1> QED BY <1>1, <1>2, <1>3, <1>4, PTL DEF Spec, OperationsAreDecidedOnce

\* A call that reached the provider is charged or still held, whatever failed
\* on the way, when no other thread uses its operation id.
THEOREM Paid == Spec => []DispatchIsAccounted
<1> DEFINE Inv == TypeOK /\ \A t \in Threads : Accounted(t)
<1>1. Init => Inv
  BY InitType, BudgetAssumption DEF Init, Accounted, IdleCall, NoRecord, Operations
<1>2. Inv /\ [Next]_vars => Inv'
  BY TypeStep, AccountedStep, BudgetAssumption
<1>3. Inv => DispatchIsAccounted
  BY DEF Accounted, Alone, DispatchIsAccounted
<1> HIDE DEF Inv
<1> QED BY <1>1, <1>2, <1>3, PTL DEF Spec

\* Whatever appends fail or are stored without a reply, a check that the
\* Harness verifies points at the fact that closed this very operation.
THEOREM ChecksTell == Spec => []VerifiedCheckIsTheOutcome
<1> DEFINE Inv == TypeOK /\ Faithful /\ Dated
<1>1. Init => Inv
  BY InitType, BudgetAssumption
     DEF Init, Faithful, Dated, Contiguous, IdleCall, NoCheck, NoRecord
<1>2. Inv /\ [Next]_vars => Inv'
  BY TypeStep, FaithfulStep, DatedStep, BudgetAssumption
<1>3. Inv => VerifiedCheckIsTheOutcome
  BY VerifiedSays
<1> HIDE DEF Inv
<1> QED BY <1>1, <1>2, <1>3, PTL DEF Spec

\* For every tree of scopes, any number of threads and whichever appends fail:
\* a ledger rebuilt from the stream is the live one, until a fact is stored
\* whose append raises.
THEOREM Recovers == Spec => []RecoveryReproducesLedger
<1> DEFINE Inv == TypeOK /\ Replayable /\ RecoveryReproducesLedger
<1>1. Init => Inv
  BY InitType, RecoveryInit, BudgetAssumption
<1>2. Inv /\ [Next]_vars => Inv'
  BY TypeStep, RecoveryStep, BudgetAssumption
<1>3. Inv => RecoveryReproducesLedger
  OBVIOUS
<1> HIDE DEF Inv
<1> QED BY <1>1, <1>2, <1>3, PTL DEF Spec
=============================================================================
