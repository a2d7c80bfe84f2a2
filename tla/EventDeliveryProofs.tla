------------------------ MODULE EventDeliveryProofs ------------------------
(***************************************************************************)
(* Proofs about EventDelivery, for any events, streams and workers: what   *)
(* is settled stays settled, the limits hold, the first deliveries are     *)
(* exactly the subscribed events, the checkpoint is the frontier of what   *)
(* is settled, and effects happen once and in the order of their stream.   *)
(***************************************************************************)
EXTENDS EventDeliveryProperties, FiniteSetTheorems, TLAPS

-----------------------------------------------------------------------------
(* The inductive invariant.                                                *)

Statuses == {"none", "active", "paused", "retired"}
RecordType == [state : Open \cup Settled, attempts : Nat, owner : Workers \cup {NoOwner},
               live : BOOLEAN, due : BOOLEAN]
ItemType == [delivery : Events \X Nat, attempt : Nat]
WorkerType == [batch : Seq(ItemType), result : Outcomes \cup {"none"}]

TypeOK ==
    /\ stream \in [Streams -> Seq(Events)]
    /\ status \in Statuses
    /\ begin \in [Streams -> Nat] /\ end \in [Streams -> Nat]
    /\ DOMAIN delivery \subseteq Events \X Nat /\ IsFiniteSet(DOMAIN delivery)
    /\ delivery \in [DOMAIN delivery -> RecordType]
    /\ deadLetter \subseteq DOMAIN delivery
    /\ worker \in [Workers -> WorkerType]
    /\ applied \in Seq(Events)
    /\ registered \in [Streams -> Nat] /\ retired \in [Streams -> Nat]

\* An event is stored once, in its own stream.
Placed == \A s \in Streams : \A n \in DOMAIN stream[s] :
    /\ StreamOf[stream[s][n]] = s
    /\ \A m \in DOMAIN stream[s] : stream[s][m] = stream[s][n] => m = n

\* Only stored events are delivered, and again only when their first delivery
\* is settled.
Keyed == \A d \in DOMAIN delivery :
    /\ d[1] \in Stored
    /\ d[2] > 1 => delivery[<<d[1], 1>>].state \in Settled

\* The generations of an event are counted without a gap.
Generations(D, e) == {d \in DOMAIN D : d[1] = e}
Numbered(D) == \A e \in Events : Generations(D, e) = {e} \X (1..Cardinality(Generations(D, e)))

\* The life of one delivery.
Lively(r) ==
    /\ r.live => r.state = "claimed"
    /\ r.state = "pending" <=> r.attempts = 0
    /\ r.attempts <= MaxAttempts
    /\ r.state = "retry_wait" => r.attempts < MaxAttempts

-----------------------------------------------------------------------------
(* Numbers.                                                                *)

\* A bounded, non-empty set of numbers has a greatest one.
LEMMA GreatestExists ==
    ASSUME NEW T, T \subseteq Nat, T # {}, NEW b \in Nat, \A x \in T : x <= b
    PROVE  \E x \in T : \A y \in T : y <= x
<1> DEFINE U == {b - x : x \in T}
<1>1. U \subseteq Nat /\ U # {}
  <2>1. \A x \in T : x \in Nat /\ b - x \in Nat
    OBVIOUS
  <2> QED BY <2>1
<1>2. PICK u \in U : \A v \in U : ~(<<v, u>> \in OpToRel(<, Nat))
  BY <1>1, WFMin, NatLessThanWellFounded
<1>3. \A v \in U : ~(v < u)
  BY <1>1, <1>2 DEF OpToRel
<1>4. PICK x \in T : u = b - x
  OBVIOUS
<1>5. \A y \in T : ~(b - y < b - x)
  BY <1>3, <1>4
<1> QED BY <1>5

-----------------------------------------------------------------------------
(* Streams and sequence numbers.                                           *)

LEMMA SequenceIs ==
    ASSUME Placed, NEW s \in Streams, NEW n \in DOMAIN stream[s]
    PROVE  SequenceOf(stream[s][n]) = n /\ stream[s][n] \in Stored
<1>1. stream[s][n] \in Stored
  BY DEF Stored, ToSet
<1>2. StreamOf[stream[s][n]] = s
  BY DEF Placed
<1>3. \A m \in DOMAIN stream[s] : stream[s][m] = stream[s][n] => m = n
  BY DEF Placed
<1> QED BY <1>1, <1>2, <1>3 DEF SequenceOf

LEMMA StoredAt ==
    ASSUME TypeOK, Placed, NEW e \in Stored
    PROVE  /\ e \in Events /\ StreamOf[e] \in Streams
           /\ SequenceOf(e) \in 1..Len(stream[StreamOf[e]]) /\ SequenceOf(e) \in Nat
           /\ stream[StreamOf[e]][SequenceOf(e)] = e
<1>1. PICK s \in Streams : \E m \in DOMAIN stream[s] : e = stream[s][m]
  BY DEF Stored, ToSet
<1>2. PICK n \in DOMAIN stream[s] : e = stream[s][n]
  BY <1>1
<1>3. stream[s] \in Seq(Events) /\ DOMAIN stream[s] = 1..Len(stream[s])
  BY DEF TypeOK
<1>4. StreamOf[e] = s
  BY <1>2 DEF Placed
<1>5. SequenceOf(e) = n
  BY <1>2, SequenceIs
<1> QED BY <1>2, <1>3, <1>4, <1>5

\* An event is named by its stream and its sequence number.
LEMMA SameEvent ==
    ASSUME TypeOK, Placed, NEW e \in Stored, NEW f \in Stored,
           StreamOf[e] = StreamOf[f], SequenceOf(e) = SequenceOf(f)
    PROVE  e = f
BY StoredAt

\* What a delivery is named by.
LEMMA KeyParts ==
    ASSUME DeliveryAssumption, TypeOK, Placed, Keyed, NEW d \in DOMAIN delivery
    PROVE  /\ d = <<d[1], d[2]>> /\ d[1] \in Events /\ d[2] \in Nat /\ d[1] \in Stored
           /\ StreamOf[d[1]] \in Streams /\ StreamOf[d[1]] \in Nat
           /\ SequenceOf(d[1]) \in Nat
           /\ SequenceOf(d[1]) \in 1..Len(stream[StreamOf[d[1]]])
<1>1. d \in Events \X Nat
  BY DEF TypeOK
<1>2. d = <<d[1], d[2]>> /\ d[1] \in Events /\ d[2] \in Nat
  BY <1>1
<1>3. d[1] \in Stored
  BY DEF Keyed
<1>4. Streams \subseteq Nat
  BY DEF DeliveryAssumption
<1> QED BY <1>2, <1>3, <1>4, StoredAt

-----------------------------------------------------------------------------
(* The order of deliveries.                                                 *)

LEMMA BeforeOrder ==
    ASSUME DeliveryAssumption, TypeOK, Placed, Keyed
    PROVE  /\ \A a \in DOMAIN delivery : ~Before(a, a)
           /\ \A a, b \in DOMAIN delivery : a = b \/ Before(a, b) \/ Before(b, a)
           /\ \A a, b, c \in DOMAIN delivery : Before(a, b) /\ Before(b, c) => Before(a, c)
<1>1. \A a \in DOMAIN delivery : ~Before(a, a)
  BY KeyParts DEF Before
<1>2. ASSUME NEW a \in DOMAIN delivery, NEW b \in DOMAIN delivery
      PROVE  a = b \/ Before(a, b) \/ Before(b, a)
  <2>1. /\ a = <<a[1], a[2]>> /\ a[2] \in Nat /\ a[1] \in Stored
        /\ StreamOf[a[1]] \in Nat /\ SequenceOf(a[1]) \in Nat
    BY KeyParts
  <2>2. /\ b = <<b[1], b[2]>> /\ b[2] \in Nat /\ b[1] \in Stored
        /\ StreamOf[b[1]] \in Nat /\ SequenceOf(b[1]) \in Nat
    BY KeyParts
  <2>3. CASE a[1] = b[1]
    BY <2>1, <2>2, <2>3 DEF Before
  <2>4. CASE a[1] # b[1]
    <3>1. StreamOf[a[1]] # StreamOf[b[1]] \/ SequenceOf(a[1]) # SequenceOf(b[1])
      BY <2>1, <2>2, <2>4, SameEvent
    <3> QED BY <2>1, <2>2, <3>1 DEF Before
  <2> QED BY <2>3, <2>4
<1>3. ASSUME NEW a \in DOMAIN delivery, NEW b \in DOMAIN delivery, NEW c \in DOMAIN delivery,
             Before(a, b), Before(b, c)
      PROVE  Before(a, c)
  <2>1. /\ a[2] \in Nat /\ StreamOf[a[1]] \in Nat /\ SequenceOf(a[1]) \in Nat
        /\ b[2] \in Nat /\ StreamOf[b[1]] \in Nat /\ SequenceOf(b[1]) \in Nat
        /\ c[2] \in Nat /\ StreamOf[c[1]] \in Nat /\ SequenceOf(c[1]) \in Nat
    BY KeyParts
  <2> QED BY <1>3, <2>1 DEF Before
<1> QED BY <1>1, <1>2, <1>3

\* The first n of a set are at most n, and with one of them come all before it.
LEMMA FirstOfFacts ==
    ASSUME DeliveryAssumption, TypeOK, Placed, Keyed,
           NEW D \in SUBSET DOMAIN delivery, NEW n \in Int
    PROVE  /\ FirstOf(D, n) \subseteq D
           /\ n \in Nat => Cardinality(FirstOf(D, n)) <= n
           /\ n <= 0 => FirstOf(D, n) = {}
           /\ \A c \in D : \A d \in FirstOf(D, n) : Before(c, d) => c \in FirstOf(D, n)
<1> DEFINE Preds(d) == {c \in D : Before(c, d)}
           First == FirstOf(D, n)
<1>1. IsFiniteSet(D)
  BY FS_Subset DEF TypeOK
<1>2. \A d \in D : IsFiniteSet(Preds(d)) /\ Cardinality(Preds(d)) \in Nat
  BY <1>1, FS_Subset, FS_CardinalityType
<1>3. First = {d \in D : Cardinality(Preds(d)) < n}
  BY DEF FirstOf
<1>4. ASSUME NEW c \in D, NEW d \in D, Before(c, d)
      PROVE  Cardinality(Preds(c)) < Cardinality(Preds(d))
  <2>1. Preds(c) \subseteq Preds(d)
    BY <1>4, BeforeOrder
  <2>2. c \in Preds(d) /\ c \notin Preds(c)
    BY <1>4, BeforeOrder
  <2>3. Cardinality(Preds(c)) <= Cardinality(Preds(d))
    BY <1>2, <2>1, FS_Subset
  <2>4. Cardinality(Preds(c)) # Cardinality(Preds(d))
    BY <1>2, <2>1, <2>2, FS_Subset
  <2> HIDE DEF Preds
  <2> QED BY <1>2, <2>3, <2>4
<1> HIDE DEF Preds
<1>5. First \subseteq D
  BY <1>3
<1>6. ASSUME n \in Nat PROVE Cardinality(First) <= n
  <2> DEFINE rank == [d \in First |-> Cardinality(Preds(d))]
  <2>1. rank \in [First -> 0..(n - 1)]
    BY <1>2, <1>3, <1>6
  <2>2. \A c, d \in First : rank[c] = rank[d] => c = d
    <3> SUFFICES ASSUME NEW c \in First, NEW d \in First, c # d PROVE rank[c] # rank[d]
      OBVIOUS
    <3>1. Before(c, d) \/ Before(d, c)
      BY <1>5, BeforeOrder
    <3>2. Cardinality(Preds(c)) \in Nat /\ Cardinality(Preds(d)) \in Nat
      BY <1>2, <1>5
    <3>3. Cardinality(Preds(c)) # Cardinality(Preds(d))
      BY <1>4, <1>5, <3>1, <3>2
    <3> QED BY <3>3
  <2>3. rank \in Injection(First, 0..(n - 1))
    BY <2>1, <2>2 DEF Injection, IsInjective
  <2>4. IsFiniteSet(0..(n - 1)) /\ Cardinality(0..(n - 1)) = n
    <3>1. 0 \in Int /\ n - 1 \in Int
      BY <1>6
    <3>2. /\ IsFiniteSet(0..(n - 1))
          /\ Cardinality(0..(n - 1)) = IF 0 > n - 1 THEN 0 ELSE (n - 1) - 0 + 1
      BY <3>1, FS_Interval
    <3> QED BY <1>6, <3>2
  <2> HIDE DEF rank, First
  <2>5. Cardinality(First) <= Cardinality(0..(n - 1))
    BY <2>3, <2>4, FS_Injection
  <2> QED BY <2>4, <2>5
<1>7. n <= 0 => First = {}
  BY <1>2, <1>3
<1>8. ASSUME NEW c \in D, NEW d \in First, Before(c, d) PROVE c \in First
  <2>1. Cardinality(Preds(c)) < Cardinality(Preds(d)) /\ Cardinality(Preds(d)) < n
    BY <1>3, <1>4, <1>8
  <2> QED BY <1>2, <1>3, <1>5, <2>1
<1> HIDE DEF First
<1> QED BY <1>5, <1>6, <1>7, <1>8 DEF First

-----------------------------------------------------------------------------
(* The frontier of a ledger.                                                *)

\* The sequence numbers of s up to which every first delivery is settled in D.
SettledUpTo(D, s) ==
    {n \in 1..Len(stream[s]) :
        /\ <<stream[s][n], 1>> \in DOMAIN D
        /\ \A d \in FirstIn(D, s) : SequenceOf(d[1]) <= n => D[d].state \in Settled}

IsFrontier(c, D, s) ==
    c \in SettledUpTo(D, s) \cup {0} /\ \A n \in SettledUpTo(D, s) : n <= c

\* The first deliveries of a stream.
LEMMA FirstInFacts ==
    ASSUME DeliveryAssumption, TypeOK, Placed, Keyed, NEW s \in Streams,
           NEW d \in FirstIn(delivery, s)
    PROVE  /\ d \in DOMAIN delivery /\ d = <<d[1], 1>> /\ d[1] \in Stored /\ StreamOf[d[1]] = s
           /\ SequenceOf(d[1]) \in 1..Len(stream[s]) /\ stream[s][SequenceOf(d[1])] = d[1]
<1>1. d \in DOMAIN delivery /\ d[2] = 1 /\ StreamOf[d[1]] = s
  BY DEF FirstIn
<1>2. d = <<d[1], d[2]>> /\ d[1] \in Stored
  BY <1>1, KeyParts
<1> QED BY <1>1, <1>2, StoredAt

\* Frontier is the frontier of D when the checkpoint was the ledger's.
LEMMA FrontierIs ==
    ASSUME DeliveryAssumption, TypeOK, Placed, Keyed, NEW D, DOMAIN D = DOMAIN delivery,
           \A d \in DOMAIN delivery : delivery[d].state \in Settled => D[d].state \in Settled,
           NEW s \in Streams, IsFrontier(checkpoint[s], delivery, s)
    PROVE  Frontier(D, s) \in Nat /\ IsFrontier(Frontier(D, s), D, s)
<1> DEFINE c0 == checkpoint[s]
           F == FirstIn(delivery, s)
           top == Len(stream[s])
           good == {n \in SettledUpTo(D, s) : n > c0}
<1>0. FirstIn(D, s) = F
  BY DEF FirstIn
<1>1. top \in Nat
  BY DEF TypeOK
<1>2. c0 \in 0..top
  BY <1>1, SMTT(30) DEF IsFrontier, SettledUpTo
<1>3. \A d \in F : SequenceOf(d[1]) <= c0 => D[d].state \in Settled
  <2> SUFFICES ASSUME NEW d \in F, SequenceOf(d[1]) <= c0 PROVE delivery[d].state \in Settled
    BY FirstInFacts
  <2>1. SequenceOf(d[1]) \in 1..top
    BY FirstInFacts
  <2>2. c0 \in SettledUpTo(delivery, s)
    BY <1>1, <1>2, <2>1 DEF IsFrontier
  <2> QED BY <2>2 DEF SettledUpTo
<1>4. ASSUME NEW d \in F
      PROVE  SequenceOf(d[1]) \in good <=>
               /\ SequenceOf(d[1]) > c0
               /\ \A o \in F : SequenceOf(o[1]) \in (c0 + 1)..SequenceOf(d[1])
                                  => D[o].state \in Settled
  <2> DEFINE n == SequenceOf(d[1])
  <2>1. n \in 1..top /\ <<stream[s][n], 1>> \in DOMAIN D
    BY FirstInFacts, SMTT(40)
  <2>2. \A o \in F : SequenceOf(o[1]) \in 1..top
    BY FirstInFacts
  <2>3. n > c0 => \A o \in F : (SequenceOf(o[1]) <= n => D[o].state \in Settled)
                     <=> (SequenceOf(o[1]) \in (c0 + 1)..n => D[o].state \in Settled)
    BY <1>1, <1>2, <1>3, <2>1, <2>2, SMTT(30)
  <2>4. n \in SettledUpTo(D, s) <=> \A o \in F : SequenceOf(o[1]) <= n => D[o].state \in Settled
    BY <1>0, <2>1 DEF SettledUpTo
  <2> QED BY <2>3, <2>4
<1>5. \A n \in good : \E d \in F : n = SequenceOf(d[1])
  <2> SUFFICES ASSUME NEW n \in good PROVE \E d \in F : n = SequenceOf(d[1])
    OBVIOUS
  <2>1. n \in DOMAIN stream[s] /\ <<stream[s][n], 1>> \in DOMAIN delivery
    BY SMTT(40) DEF SettledUpTo, TypeOK
  <2>2. SequenceOf(stream[s][n]) = n
    BY <2>1, SequenceIs
  <2>3. StreamOf[stream[s][n]] = s
    BY <2>1 DEF Placed
  <2>4. <<stream[s][n], 1>> \in F
    BY <2>1, <2>3 DEF FirstIn
  <2> QED BY <2>2, <2>4
<1>6. good = {SequenceOf(d[1]) :
                d \in {c \in F :
                         /\ SequenceOf(c[1]) > c0
                         /\ \A o \in F : SequenceOf(o[1]) \in (c0 + 1)..SequenceOf(c[1])
                                            => D[o].state \in Settled}}
  BY <1>4, <1>5
<1>7. Frontier(D, s) = CHOOSE n \in good \cup {c0} : \A m \in good : m <= n
  BY <1>0, <1>6 DEF Frontier
<1>8. good \subseteq 1..top
  BY DEF SettledUpTo
<1> HIDE DEF c0, F, top, good
<1>9. good \cup {c0} \subseteq Nat /\ \A x \in good \cup {c0} : x <= top
  BY <1>1, <1>2, <1>8
<1>10. Frontier(D, s) \in good \cup {c0} /\ \A m \in good : m <= Frontier(D, s)
  <2>1. \E n \in good \cup {c0} : \A m \in good \cup {c0} : m <= n
    BY <1>1, <1>9, GreatestExists
  <2> QED BY <1>7, <2>1
<1>11. c0 \in SettledUpTo(D, s) \cup {0}
  <2> SUFFICES ASSUME c0 # 0 PROVE c0 \in SettledUpTo(D, s)
    OBVIOUS
  <2>1. c0 \in SettledUpTo(delivery, s)
    BY DEF IsFrontier, c0
  <2> QED BY <1>0, <1>3, <2>1 DEF SettledUpTo
<1>12. Frontier(D, s) \in SettledUpTo(D, s) \cup {0}
  BY <1>10, <1>11 DEF good
<1>13. ASSUME NEW n \in SettledUpTo(D, s) PROVE n <= Frontier(D, s)
  <2>1. n \in 1..top
    BY DEF SettledUpTo, top
  <2>2. CASE n > c0
    BY <1>10, <2>2 DEF good
  <2>3. CASE ~(n > c0)
    <3>1. Frontier(D, s) = c0 \/ Frontier(D, s) > c0
      BY <1>10 DEF good
    <3>2. Frontier(D, s) \in Nat
      BY <1>9, <1>10
    <3> QED BY <1>1, <1>2, <2>1, <2>3, <3>1, <3>2
  <2> QED BY <2>2, <2>3
<1>14. Frontier(D, s) \in Nat
  BY <1>9, <1>10
<1> QED BY <1>12, <1>13, <1>14 DEF IsFrontier

\* The frontier only depends on what is delivered and what of it is settled.
LEMMA SameFrontier ==
    ASSUME NEW D, NEW E, DOMAIN D = DOMAIN E, NEW s,
           \A d \in DOMAIN D : d[2] = 1 /\ StreamOf[d[1]] = s =>
              (D[d].state \in Settled <=> E[d].state \in Settled)
    PROVE  \A c : IsFrontier(c, D, s) <=> IsFrontier(c, E, s)
<1>1. FirstIn(D, s) = FirstIn(E, s)
  BY DEF FirstIn
<1>2. \A d \in FirstIn(D, s) : D[d].state \in Settled <=> E[d].state \in Settled
  BY DEF FirstIn
<1>3. SettledUpTo(D, s) = SettledUpTo(E, s)
  BY <1>1, <1>2 DEF SettledUpTo
<1> QED BY <1>3 DEF IsFrontier

\* The checkpoints advance to the frontier of D.
LEMMA AdvancedIs ==
    ASSUME DeliveryAssumption, TypeOK, Placed, Keyed, CheckpointIsFrontier,
           NEW D, DOMAIN D = DOMAIN delivery,
           \A d \in DOMAIN delivery : delivery[d].state \in Settled => D[d].state \in Settled,
           NEW changed,
           \A d \in DOMAIN delivery :
              D[d].state \in Settled => delivery[d].state \in Settled \/ d \in changed
    PROVE  \A s \in Streams : IsFrontier(Advanced(D, changed)[s], D, s)
<1> SUFFICES ASSUME NEW s \in Streams PROVE IsFrontier(Advanced(D, changed)[s], D, s)
  OBVIOUS
<1>1. IsFrontier(checkpoint[s], delivery, s)
  BY DEF CheckpointIsFrontier, IsFrontier, SettledUpTo
<1>2. CASE \E d \in changed : d[2] = 1 /\ StreamOf[d[1]] = s
  BY <1>1, <1>2, FrontierIs DEF Advanced
<1>3. CASE ~\E d \in changed : d[2] = 1 /\ StreamOf[d[1]] = s
  <2>1. Advanced(D, changed)[s] = checkpoint[s]
    BY <1>3 DEF Advanced
  <2>2. \A d \in DOMAIN delivery : d[2] = 1 /\ StreamOf[d[1]] = s =>
           (delivery[d].state \in Settled <=> D[d].state \in Settled)
    BY <1>3
  <2> HIDE DEF IsFrontier
  <2> QED BY <1>1, <2>1, <2>2, SameFrontier
<1> QED BY <1>2, <1>3

-----------------------------------------------------------------------------
(* Streams only grow.                                                       *)

Sequenced == Placed =>
    \A s \in Streams : \A n \in DOMAIN stream[s] : \A e :
        stream[s][n] = e => SequenceOf(e) = n /\ e \in Stored

LEMMA SequencedNow == Sequenced
BY SequenceIs DEF Sequenced

LEMMA SequencedNext == Sequenced'
BY SequencedNow, PTL

\* Stored events keep their sequence numbers.
Kept == \A e \in Stored : e \in Stored' /\ SequenceOf(e)' = SequenceOf(e)

LEMMA SameStreams ==
    ASSUME stream' = stream
    PROVE  /\ Stored' = Stored /\ \A e : SequenceOf(e)' = SequenceOf(e)
           /\ Kept /\ (Placed => Placed')
<1>1. Stored' = Stored
  BY DEF Stored
<1>2. \A e : SequenceOf(e)' = SequenceOf(e)
  BY DEF SequenceOf
<1> QED BY <1>1, <1>2 DEF Kept, Placed

LEMMA GrownStream ==
    ASSUME DeliveryAssumption, TypeOK, Placed, NEW e \in Events, e \notin Stored,
           stream' = [stream EXCEPT ![StreamOf[e]] = Append(@, e)]
    PROVE  /\ stream' \in [Streams -> Seq(Events)] /\ Placed' /\ Kept
           /\ Stored' = Stored \cup {e} /\ SequenceOf(e)' = Len(stream[StreamOf[e]]) + 1
           /\ Len(stream'[StreamOf[e]]) = Len(stream[StreamOf[e]]) + 1
           /\ \A s \in Streams : s # StreamOf[e] => stream'[s] = stream[s]
           /\ \A n \in 1..Len(stream[StreamOf[e]]) : stream'[StreamOf[e]][n] = stream[StreamOf[e]][n]
           /\ stream'[StreamOf[e]][Len(stream[StreamOf[e]]) + 1] = e
<1> DEFINE x == StreamOf[e]
           top == Len(stream[x])
<1>1. x \in Streams /\ stream \in [Streams -> Seq(Events)] /\ stream[x] \in Seq(Events) /\ top \in Nat
  BY SMTT(40) DEF DeliveryAssumption, TypeOK
<1>2. /\ stream'[x] = Append(stream[x], e) /\ \A s \in Streams \ {x} : stream'[s] = stream[s]
      /\ stream' \in [Streams -> Seq(Events)]
  BY <1>1
<1>3. /\ Len(stream'[x]) = top + 1 /\ stream'[x][top + 1] = e
      /\ \A n \in 1..top : stream'[x][n] = stream[x][n]
  BY <1>1, <1>2
<1>4. \A s \in Streams : DOMAIN stream[s] = 1..Len(stream[s]) /\ DOMAIN stream'[s] = 1..Len(stream'[s])
  BY <1>1, <1>2
<1>5. \A s \in Streams : \A n \in DOMAIN stream[s] : stream[s][n] # e
  BY DEF Stored, ToSet
<1>6. Placed'
  <2> SUFFICES ASSUME NEW s \in Streams, NEW n \in DOMAIN stream'[s]
               PROVE  /\ StreamOf[stream'[s][n]] = s
                      /\ \A m \in DOMAIN stream'[s] : stream'[s][m] = stream'[s][n] => m = n
    BY DEF Placed
  <2>1. CASE s # x
    BY <1>2, <2>1, ZenonT(60) DEF Placed
  <2>2. CASE s = x
    <3>1. DOMAIN stream'[x] = 1..(top + 1) /\ DOMAIN stream[x] = 1..top
      BY <1>1, <1>3, <1>4
    <3>2. CASE n = top + 1
      BY <1>1, <1>3, <1>5, <2>2, <3>1, <3>2
    <3>3. CASE n \in 1..top
      <4>1. StreamOf[stream[x][n]] = x /\ \A m \in 1..top : stream[x][m] = stream[x][n] => m = n
        BY <1>1, <3>1, <3>3 DEF Placed
      <4>2. stream'[x][top + 1] # stream'[x][n]
        BY <1>1, <1>3, <1>5, <3>1, <3>3, ZenonT(90)
      <4>3. stream'[x][n] = stream[x][n] /\ \A m \in 1..top : stream'[x][m] = stream[x][m]
        BY <1>3, <3>3
      <4>4. ASSUME NEW m \in 1..(top + 1), stream'[x][m] = stream'[x][n] PROVE m = n
        <5>1. m = top + 1 \/ m \in 1..top
          BY <1>1, SMTT(30)
        <5>2. m \in 1..top
          BY <4>2, <4>4, <5>1
        <5> QED BY <4>1, <4>3, <4>4, <5>2
      <4> QED BY <2>2, <3>1, <4>1, <4>3, <4>4
    <3>4. n = top + 1 \/ n \in 1..top
      <4>1. n \in 1..(top + 1)
        BY <2>2, <3>1
      <4> QED BY <1>1, <4>1, SMTT(30)
    <3> QED BY <3>2, <3>3, <3>4
  <2> QED BY <2>1, <2>2
<1>7. \A s \in Streams : \A n \in DOMAIN stream'[s] : \A f :
        stream'[s][n] = f => SequenceOf(f)' = n /\ f \in Stored'
  BY <1>6, SequencedNext DEF Sequenced
<1>8. SequenceOf(e)' = top + 1 /\ e \in Stored'
  <2>1. top + 1 \in DOMAIN stream'[x]
    BY <1>1, <1>3, <1>4
  <2> QED BY <1>1, <1>3, <1>7, <2>1
<1>9. ASSUME NEW f \in Stored PROVE f \in Stored' /\ SequenceOf(f)' = SequenceOf(f)
  <2>1. PICK n \in 1..Len(stream[StreamOf[f]]) : n = SequenceOf(f) /\ stream[StreamOf[f]][n] = f
    BY StoredAt
  <2>2. StreamOf[f] \in Streams
    BY StoredAt
  <2>3. n \in DOMAIN stream'[StreamOf[f]] /\ stream'[StreamOf[f]][n] = f
    BY <1>1, <1>2, <1>3, <1>4, <2>1, <2>2, SMTT(30)
  <2> QED BY <1>7, <2>1, <2>2, <2>3, ZenonT(60)
<1>10. Stored' \subseteq Stored \cup {e}
  <2> SUFFICES ASSUME NEW s \in Streams, NEW n \in DOMAIN stream'[s]
               PROVE  stream'[s][n] \in Stored \cup {e}
    BY DEF Stored, ToSet
  <2>1. stream'[s][n] = e \/ (n \in DOMAIN stream[s] /\ stream'[s][n] = stream[s][n])
    BY <1>1, <1>2, <1>3, <1>4
  <2> QED BY <2>1 DEF Stored, ToSet
<1>11. Stored' = Stored \cup {e}
  BY <1>8, <1>9, <1>10
<1> QED BY <1>2, <1>3, <1>6, <1>8, <1>9, <1>11 DEF Kept

-----------------------------------------------------------------------------
(* How a delivery changes.                                                  *)

Lives == \A d \in DOMAIN delivery : Lively(delivery[d])

\* One delivery from one step to the next.
Moved(r, q) ==
    /\ r.state \in Settled => q.state = r.state
    /\ Lively(r) => Lively(q)
    /\ r.attempts <= q.attempts

\* A step that adds no delivery.
Changes ==
    /\ delivery' \in [DOMAIN delivery -> RecordType]
    /\ \A d \in DOMAIN delivery : Moved(delivery[d], delivery'[d])

\* A step that adds deliveries and leaves the others alone.
Grows(new) ==
    /\ delivery' = WithPending(delivery, new)
    /\ new \cap DOMAIN delivery = {}

LEMMA Limited ==
    ASSUME DeliveryAssumption
    PROVE  /\ MaxAttempts \in Nat \ {0} /\ BatchSize \in Nat \ {0} /\ MaxInFlight \in Nat \ {0}
           /\ MaxConcurrency \in Nat \ {0} /\ PendingLimit \in Nat \ {0} /\ CancelLimit \in Nat \ {0}
BY DEF DeliveryAssumption

LEMMA ClosedFacts ==
    ASSUME NEW s \in Open \cup Settled, NEW n \in Nat
    PROVE  /\ Closed(s, n) \in RecordType /\ Closed(s, n).state = s
           /\ Closed(s, n).attempts = n /\ ~Closed(s, n).live
BY DEF Closed, Pending, RecordType

LEMMA ClosedDue ==
    ASSUME NEW s \in Open \cup Settled, NEW n \in Nat, NEW x \in BOOLEAN
    PROVE  LET r == [Closed(s, n) EXCEPT !.due = x]
           IN  r \in RecordType /\ r.state = s /\ r.attempts = n /\ ~r.live
BY DEF Closed, Pending, RecordType

LEMMA PendingFacts ==
    Pending \in RecordType /\ Pending.state = "pending" /\ Pending.attempts = 0 /\ ~Pending.live
BY DEF Pending, RecordType, Open

LEMMA RecordFacts ==
    ASSUME TypeOK, NEW d \in DOMAIN delivery
    PROVE  /\ delivery[d] \in RecordType /\ delivery[d].state \in Open \cup Settled
           /\ delivery[d].attempts \in Nat /\ delivery[d].live \in BOOLEAN
BY DEF TypeOK, RecordType

LEMMA MovedItself ==
    ASSUME TypeOK, NEW d \in DOMAIN delivery PROVE Moved(delivery[d], delivery[d])
BY RecordFacts DEF Moved

\* A ledger that stays the same.
LEMMA SameLedger == ASSUME TypeOK, delivery' = delivery PROVE Changes
BY MovedItself DEF Changes, TypeOK

\* What recovery does to each delivery.
LEMMA RecoveredFacts ==
    ASSUME DeliveryAssumption, TypeOK, Lives
    PROVE  /\ Recovered \in [DOMAIN delivery -> RecordType]
           /\ \A d \in DOMAIN delivery :
                /\ Moved(delivery[d], Recovered[d]) /\ Lively(Recovered[d])
                /\ Recovered[d].attempts = delivery[d].attempts
                /\ Recovered[d].state \in Settled => delivery[d].state \in Settled \/ d \in Buried
                /\ Recovered[d].live <=> d \in Claims
                /\ d \in Claims => Recovered[d] = delivery[d]
                /\ d \in Claims <=> delivery[d].live
                /\ Recovered[d].state \in Open => delivery[d].state \in Open
<1> SUFFICES ASSUME NEW d \in DOMAIN delivery
             PROVE  /\ Recovered[d] \in RecordType
                    /\ Moved(delivery[d], Recovered[d]) /\ Lively(Recovered[d])
                    /\ Recovered[d].attempts = delivery[d].attempts
                    /\ Recovered[d].state \in Settled => delivery[d].state \in Settled \/ d \in Buried
                    /\ Recovered[d].live <=> d \in Claims
                    /\ d \in Claims => Recovered[d] = delivery[d]
                    /\ d \in Claims <=> delivery[d].live
                    /\ Recovered[d].state \in Open => delivery[d].state \in Open
  BY DEF Recovered
<1>1. /\ delivery[d] \in RecordType /\ delivery[d].state \in Open \cup Settled
      /\ delivery[d].attempts \in Nat /\ delivery[d].live \in BOOLEAN /\ Lively(delivery[d])
  BY RecordFacts DEF Lives
<1>2. CASE d \notin Expired
  <2>1. Recovered[d] = delivery[d]
    BY <1>2 DEF Recovered
  <2>2. d \in Claims <=> delivery[d].state = "claimed"
    BY <1>2 DEF Claims
  <2>3. delivery[d].state = "claimed" => delivery[d].live
    BY <1>2 DEF Expired
  <2> QED BY <1>1, <2>1, <2>2, <2>3, MovedItself DEF Lively, Open
<1>3. CASE d \in Expired
  <2> DEFINE target == IF delivery[d].attempts < MaxAttempts THEN "retry_wait" ELSE "dead_letter"
             n == delivery[d].attempts
  <2>1. Recovered[d] = Closed(target, n)
    BY <1>3 DEF Recovered
  <2>2. target \in Open \cup Settled
    BY DEF Open, Settled
  <2>3. /\ Closed(target, n) \in RecordType /\ Closed(target, n).state = target
        /\ Closed(target, n).attempts = n /\ ~Closed(target, n).live
    <3>1. n \in Nat
      BY <1>1
    <3> HIDE DEF target, n
    <3> QED BY <2>2, <3>1, ClosedFacts
  <2>4. delivery[d].state = "claimed" /\ ~delivery[d].live /\ d \notin Claims
    BY <1>3 DEF Expired, Claims
  <2>5. Lively(Recovered[d])
    BY <1>1, <2>1, <2>3, <2>4 DEF Lively
  <2>6. Moved(delivery[d], Recovered[d])
    BY <1>1, <2>1, <2>3, <2>4, <2>5 DEF Moved, Settled
  <2>7. Recovered[d].state \in Settled => d \in Buried
    BY <1>3, <2>1, <2>3 DEF Buried, Settled
  <2> QED BY <1>1, <2>1, <2>3, <2>4, <2>5, <2>6, <2>7 DEF Open
<1> QED BY <1>2, <1>3

-----------------------------------------------------------------------------
(* What each step does to the ledger.                                       *)

\* Claimed batches name deliveries of the ledger.
Held == \A w \in Workers : \A n \in DOMAIN worker[w].batch :
    worker[w].batch[n].delivery \in DOMAIN delivery

LEMMA WorkerFacts ==
    ASSUME TypeOK, Held, NEW w \in Workers
    PROVE  /\ worker \in [Workers -> WorkerType]
           /\ worker[w].batch \in Seq(ItemType) /\ worker[w].result \in Outcomes \cup {"none"}
           /\ worker[w].batch # <<>> =>
                /\ 1 \in DOMAIN worker[w].batch /\ Current(w) = worker[w].batch[1]
                /\ Current(w) \in ItemType /\ Current(w).delivery \in DOMAIN delivery
<1>1. worker[w] \in WorkerType /\ worker \in [Workers -> WorkerType]
  BY DEF TypeOK
<1>2. worker[w].batch \in Seq(ItemType) /\ worker[w].result \in Outcomes \cup {"none"}
  BY <1>1 DEF WorkerType
<1>3. ASSUME worker[w].batch # <<>>
      PROVE  /\ 1 \in DOMAIN worker[w].batch /\ Current(w) = worker[w].batch[1]
             /\ Current(w) \in ItemType
  BY <1>2, <1>3 DEF Current
<1> QED BY <1>1, <1>2, <1>3 DEF Held

\* The deliveries that a claim takes.
Taken(w, scope) == FirstOf(Candidates(scope), Capacity(w))

LEMMA ClaimFacts ==
    ASSUME DeliveryAssumption, TypeOK, Lives, NEW w \in Workers, NEW scope, Claim(w, scope)
    PROVE  /\ Changes /\ Taken(w, scope) \subseteq DOMAIN delivery
           /\ \A d \in Taken(w, scope) :
                /\ delivery'[d].state = "claimed" /\ delivery'[d].live /\ delivery'[d].owner = w
                /\ Recovered[d].state \in {"pending", "retry_wait"}
                /\ delivery'[d].attempts = Recovered[d].attempts + 1
                /\ d[2] > 1 \/ IsNextInStream(d)
           /\ \A d \in DOMAIN delivery \ Taken(w, scope) : delivery'[d] = Recovered[d]
<1> DEFINE T == Taken(w, scope)
<1>1. \A d \in T : /\ d \in DOMAIN delivery /\ Recovered[d].state \in {"pending", "retry_wait"}
                   /\ d[2] > 1 \/ IsNextInStream(d)
  BY DEF Taken, FirstOf, Candidates
<1>2. delivery' = [d \in DOMAIN delivery |->
                     IF d \in T
                     THEN [state |-> "claimed", attempts |-> Recovered[d].attempts + 1,
                           owner |-> w, live |-> TRUE, due |-> FALSE]
                     ELSE Recovered[d]]
  BY DEF Claim, Taken
<1> HIDE DEF T
<1>3. ASSUME NEW d \in T
      PROVE  /\ delivery'[d].state = "claimed" /\ delivery'[d].live /\ delivery'[d].owner = w
             /\ delivery'[d].attempts = Recovered[d].attempts + 1
             /\ delivery'[d] \in RecordType /\ Moved(delivery[d], delivery'[d])
  <2>1. d \in DOMAIN delivery
    BY <1>1
  <2>2. delivery'[d] = [state |-> "claimed", attempts |-> Recovered[d].attempts + 1,
                        owner |-> w, live |-> TRUE, due |-> FALSE]
    BY <1>2, <2>1
  <2>3. /\ Recovered[d].attempts = delivery[d].attempts /\ Lively(Recovered[d])
        /\ Recovered[d].state \in Open => delivery[d].state \in Open
    BY <2>1, RecoveredFacts
  <2>4. delivery[d].attempts \in Nat /\ delivery[d].state \in Open \cup Settled
    BY <2>1, RecordFacts
  <2>5. Recovered[d].attempts + 1 <= MaxAttempts
    BY <1>1, <2>3, <2>4, Limited DEF Lively
  <2>6. delivery'[d] \in RecordType
    BY <2>2, <2>3, <2>4 DEF RecordType, Open
  <2>7. Lively(delivery'[d])
    BY <2>2, <2>3, <2>4, <2>5 DEF Lively
  <2>8. delivery[d].state \notin Settled
    BY <1>1, <2>3 DEF Open, Settled
  <2>9. delivery[d].attempts <= delivery'[d].attempts
    BY <2>2, <2>3, <2>4
  <2> QED BY <2>2, <2>6, <2>7, <2>8, <2>9 DEF Moved
<1>4. \A d \in DOMAIN delivery \ T : delivery'[d] = Recovered[d]
  BY <1>2
<1>5. \A d \in DOMAIN delivery : delivery'[d] \in RecordType /\ Moved(delivery[d], delivery'[d])
  BY <1>3, <1>4, RecoveredFacts
<1>6. Changes
  BY <1>2, <1>5 DEF Changes
<1> QED BY <1>1, <1>3, <1>4, <1>6 DEF T

\* The deliveries that a cancellation drops.
Gone == FirstOf({d \in OpenIn(delivery) : BeforeRetirement(d)}, CancelLimit)

LEMMA CancelFacts ==
    ASSUME DeliveryAssumption, TypeOK, Placed, Keyed, Lives, Cancel
    PROVE  /\ Changes /\ Gone \subseteq OpenIn(delivery)
           /\ \A d \in Gone : /\ delivery'[d].state = "dropped" /\ ~delivery'[d].live
           /\ \A d \in DOMAIN delivery \ Gone : delivery'[d] = delivery[d]
           /\ \A c \in OpenIn(delivery) : \A d \in Gone : Before(c, d) => c \in Gone
<1> DEFINE left == {d \in OpenIn(delivery) : BeforeRetirement(d)}
           n(d) == IF delivery[d].attempts < 1 THEN 1 ELSE delivery[d].attempts
<1>1. left = OpenIn(delivery) /\ left \in SUBSET DOMAIN delivery
  BY DEF Cancel, OpenIn
<1>2. CancelLimit \in Int
  BY Limited
<1>3. Gone \subseteq left /\ \A c \in left : \A d \in Gone : Before(c, d) => c \in Gone
  BY <1>1, <1>2, FirstOfFacts DEF Gone
<1>4. delivery' = [d \in DOMAIN delivery |-> IF d \in Gone THEN Closed("dropped", n(d)) ELSE delivery[d]]
  BY DEF Cancel, Gone
<1>5. ASSUME NEW d \in Gone
      PROVE  /\ delivery'[d] \in RecordType /\ delivery'[d].state = "dropped" /\ ~delivery'[d].live
             /\ Moved(delivery[d], delivery'[d])
  <2>1. d \in DOMAIN delivery /\ delivery[d].state \in Open
    BY <1>3 DEF OpenIn
  <2>2. delivery[d].attempts \in Nat /\ Lively(delivery[d])
    BY <2>1, RecordFacts DEF Lives
  <2>3. n(d) \in Nat /\ n(d) >= 1 /\ n(d) <= MaxAttempts /\ delivery[d].attempts <= n(d)
    BY <2>2, Limited DEF Lively
  <2>4. PICK k \in Nat : k = n(d)
    BY <2>3
  <2>5. "dropped" \in Open \cup Settled /\ delivery'[d] = Closed("dropped", k)
    BY <1>4, <2>1, <2>4 DEF Settled
  <2>6. /\ delivery'[d] \in RecordType /\ delivery'[d].state = "dropped"
        /\ delivery'[d].attempts = k /\ ~delivery'[d].live
    BY <2>5, ClosedFacts
  <2>7. Lively(delivery'[d])
    BY <2>3, <2>4, <2>6 DEF Lively
  <2>8. delivery[d].state \notin Settled
    BY <2>1 DEF Open, Settled
  <2> QED BY <2>3, <2>4, <2>6, <2>7, <2>8 DEF Moved
<1>6. \A d \in DOMAIN delivery \ Gone : delivery'[d] = delivery[d]
  BY <1>4
<1>7. \A d \in DOMAIN delivery : delivery'[d] \in RecordType /\ Moved(delivery[d], delivery'[d])
  BY <1>5, <1>6, MovedItself, RecordFacts
<1>8. Changes
  BY <1>4, <1>7 DEF Changes
<1> QED BY <1>1, <1>3, <1>5, <1>6, <1>8

LEMMA SettlementFacts ==
    ASSUME DeliveryAssumption, TypeOK, Lives, Held, NEW w \in Workers, NEW o \in Outcomes,
           worker[w].batch # <<>>, Settlement(w, o)
    PROVE  LET d == Current(w).delivery
           IN  /\ Changes /\ d \in DOMAIN delivery
               /\ \A c \in DOMAIN delivery : c # d => delivery'[c] = delivery[c]
               /\ LeaseMatches(w) =>
                    /\ delivery[d].state = "claimed"
                    /\ delivery'[d].state = Target(o, delivery[d].attempts)
                    /\ delivery'[d].attempts = delivery[d].attempts /\ ~delivery'[d].live
               /\ ~LeaseMatches(w) => delivery' = delivery
<1> DEFINE d == Current(w).delivery
           n == delivery[d].attempts
           target == Target(o, n)
<1>1. d \in DOMAIN delivery
  BY WorkerFacts
<1>2. CASE ~LeaseMatches(w)
  <2>1. delivery' = delivery
    BY <1>2 DEF Settlement
  <2> QED BY <1>1, <1>2, <2>1, SameLedger
<1>3. CASE LeaseMatches(w)
  <2>1. delivery' = [delivery EXCEPT ![d] = [Closed(target, @.attempts) EXCEPT !.due = target # "retry_wait"]]
    BY <1>3 DEF Settlement
  <2>2. target \in {"acked", "dropped", "retry_wait", "dead_letter"}
        /\ (target = "retry_wait" => n < MaxAttempts)
    BY DEF Target
  <2>3. n \in Nat /\ Lively(delivery[d]) /\ delivery[d].state = "claimed"
    BY <1>1, <1>3, RecordFacts DEF Lives, LeaseMatches
  <2>4. delivery'[d] = [Closed(target, n) EXCEPT !.due = target # "retry_wait"]
    BY <1>1, <2>1 DEF TypeOK
  <2>5. \A c \in DOMAIN delivery : c # d => delivery'[c] = delivery[c]
    BY <2>1 DEF TypeOK
  <2>6. delivery' \in [DOMAIN delivery -> {delivery'[c] : c \in DOMAIN delivery}]
    BY <2>1 DEF TypeOK
  <2>7. target \in Open \cup Settled /\ (target # "retry_wait") \in BOOLEAN
    BY <2>2 DEF Open, Settled
  <2>a. PICK due \in BOOLEAN : delivery'[d] = [Closed(target, n) EXCEPT !.due = due]
    BY <2>4, <2>7
  <2> HIDE DEF target, n, d
  <2>8. /\ delivery'[d] \in RecordType /\ delivery'[d].state = target
        /\ delivery'[d].attempts = n /\ ~delivery'[d].live
    BY <2>3, <2>a, <2>7, ClosedDue DEF n
  <2>9. Lively(delivery'[d])
    BY <2>2, <2>3, <2>8 DEF Lively, n
  <2>10. Moved(delivery[d], delivery'[d])
    BY <2>3, <2>8, <2>9 DEF Moved, Settled, n
  <2>11. \A c \in DOMAIN delivery : delivery'[c] \in RecordType /\ Moved(delivery[c], delivery'[c])
    BY <2>5, <2>8, <2>10, MovedItself, RecordFacts
  <2>12. Changes
    BY <2>6, <2>11 DEF Changes
  <2> QED BY <1>1, <1>3, <2>3, <2>5, <2>8, <2>12 DEF d, n, target
<1> QED BY <1>2, <1>3

\* A lease that runs out and a retry that falls due only set a flag.
LEMMA TimeFacts ==
    ASSUME TypeOK, NEW d \in DOMAIN delivery, Expire(d) \/ Wait(d)
    PROVE  /\ Changes
           /\ \A c \in DOMAIN delivery : /\ delivery'[c].state = delivery[c].state
                                         /\ delivery'[c].attempts = delivery[c].attempts
                                         /\ delivery'[c].owner = delivery[c].owner
                                         /\ delivery'[c].live => delivery[c].live
<1>1. delivery \in [DOMAIN delivery -> RecordType]
  BY DEF TypeOK
<1>2. /\ delivery' \in [DOMAIN delivery -> RecordType]
      /\ \A c \in DOMAIN delivery : /\ delivery'[c].state = delivery[c].state
                                    /\ delivery'[c].attempts = delivery[c].attempts
                                    /\ delivery'[c].owner = delivery[c].owner
                                    /\ delivery'[c].live => delivery[c].live
  <2>1. CASE Expire(d)
    <3>1. delivery' = [delivery EXCEPT ![d] = [delivery[d] EXCEPT !.live = FALSE]]
      BY <2>1 DEF Expire
    <3> QED BY <1>1, <3>1 DEF RecordType
  <2>2. CASE Wait(d)
    <3>1. delivery' = [delivery EXCEPT ![d] = [delivery[d] EXCEPT !.due = TRUE]]
      BY <2>2 DEF Wait
    <3> QED BY <1>1, <3>1 DEF RecordType
  <2> QED BY <2>1, <2>2
<1>3. \A c \in DOMAIN delivery : delivery'[c].live \in BOOLEAN /\ delivery[c].attempts \in Nat
  BY <1>2, RecordFacts DEF RecordType
<1>4. \A c \in DOMAIN delivery : Moved(delivery[c], delivery'[c])
  BY <1>2, <1>3 DEF Moved, Lively
<1> QED BY <1>2, <1>4 DEF Changes

-----------------------------------------------------------------------------
(* Steps that add deliveries.                                               *)

LEMMA GenerationFacts ==
    ASSUME TypeOK, Numbered(delivery), NEW e \in Events
    PROVE  /\ IsFiniteSet(Generations(delivery, e))
           /\ Cardinality(Generations(delivery, e)) \in Nat
           /\ NextGeneration(e) = 1 + Cardinality(Generations(delivery, e))
           /\ NextGeneration(e) \in Nat /\ NextGeneration(e) >= 1
           /\ <<e, NextGeneration(e)>> \notin DOMAIN delivery
           /\ (\E d \in DOMAIN delivery : d[1] = e) =>
                 <<e, 1>> \in DOMAIN delivery /\ NextGeneration(e) > 1
           /\ (~\E d \in DOMAIN delivery : d[1] = e) => NextGeneration(e) = 1
<1> DEFINE G == Generations(delivery, e)
           k == Cardinality(G)
<1>1. IsFiniteSet(G)
  BY FS_Subset DEF TypeOK, Generations
<1>2. k \in Nat /\ (k = 0 <=> G = {})
  BY <1>1, FS_CardinalityType, FS_EmptySet
<1>3. G = {e} \X (1..k)
  BY DEF Numbered
<1>4. NextGeneration(e) = 1 + k
  BY DEF NextGeneration, Generations
<1>5. \A n : <<e, n>> \in DOMAIN delivery => <<e, n>> \in G
  BY DEF Generations
<1>6. \A d \in G : d \in DOMAIN delivery
  BY DEF Generations
<1>7. (\E d \in DOMAIN delivery : d[1] = e) <=> G # {}
  BY DEF Generations
<1> HIDE DEF G, k
<1>8. <<e, 1 + k>> \notin DOMAIN delivery
  BY <1>2, <1>3, <1>5
<1>9. k > 0 => <<e, 1>> \in DOMAIN delivery
  BY <1>2, <1>3, <1>6
<1>10. /\ NextGeneration(e) \in Nat /\ NextGeneration(e) >= 1
       /\ G # {} => NextGeneration(e) > 1
       /\ G = {} => NextGeneration(e) = 1
  BY <1>2, <1>4
<1>11. /\ IsFiniteSet(Generations(delivery, e))
       /\ Cardinality(Generations(delivery, e)) \in Nat
       /\ NextGeneration(e) = 1 + Cardinality(Generations(delivery, e))
  BY <1>1, <1>2, <1>4 DEF G, k
<1> QED BY <1>2, <1>4, <1>7, <1>8, <1>9, <1>10, <1>11

\* What new deliveries may be: the next generations of some events.
Nexts == {<<e, NextGeneration(e)>> : e \in Events}

LEMMA GrowFacts ==
    ASSUME DeliveryAssumption, TypeOK, Numbered(delivery), Lives, NEW new \in SUBSET Nexts,
           delivery' = WithPending(delivery, new)
    PROVE  /\ Grows(new) /\ DOMAIN delivery' = DOMAIN delivery \cup new
           /\ \A d \in DOMAIN delivery : delivery'[d] = delivery[d]
           /\ \A d \in new : d \notin DOMAIN delivery /\ delivery'[d] = Pending
           /\ DOMAIN delivery' \subseteq Events \X Nat /\ IsFiniteSet(DOMAIN delivery')
           /\ delivery' \in [DOMAIN delivery' -> RecordType]
           /\ Numbered(delivery') /\ Lives'
<1>1. \A d \in new : \E e \in Events : d = <<e, NextGeneration(e)>>
  BY DEF Nexts
<1>2. \A d \in new : d \notin DOMAIN delivery /\ d \in Events \X Nat
  <2> SUFFICES ASSUME NEW d \in new PROVE d \notin DOMAIN delivery /\ d \in Events \X Nat
    OBVIOUS
  <2>1. PICK e \in Events : d = <<e, NextGeneration(e)>>
    BY <1>1
  <2>2. NextGeneration(e) \in Nat /\ <<e, NextGeneration(e)>> \notin DOMAIN delivery
    BY GenerationFacts
  <2> QED BY <2>1, <2>2
<1>3. /\ DOMAIN delivery' = DOMAIN delivery \cup new
      /\ \A d \in DOMAIN delivery : delivery'[d] = delivery[d]
      /\ \A d \in new : delivery'[d] = Pending
  BY <1>2 DEF WithPending
<1>4. Grows(new)
  BY <1>2 DEF Grows
<1>5. IsFiniteSet(new)
  <2> DEFINE f == [e \in Events |-> <<e, NextGeneration(e)>>]
  <2>1. f \in Surjection(Events, Nexts)
    <3>1. f \in [Events -> Nexts]
      BY DEF Nexts
    <3>2. \A x \in Nexts : \E e \in Events : f[e] = x
      BY DEF Nexts
    <3> HIDE DEF f
    <3> QED BY <3>1, <3>2 DEF Surjection
  <2>2. IsFiniteSet(Events)
    BY DEF DeliveryAssumption
  <2> HIDE DEF f
  <2>3. IsFiniteSet(Nexts)
    BY <2>1, <2>2, FS_Surjection
  <2> QED BY <2>3, FS_Subset
<1>6. IsFiniteSet(DOMAIN delivery')
  <2>1. IsFiniteSet(DOMAIN delivery)
    BY DEF TypeOK
  <2>2. IsFiniteSet(DOMAIN delivery \cup new)
    BY <1>5, <2>1, FS_Union
  <2> QED BY <1>3, <2>2
<1>7. DOMAIN delivery' \subseteq Events \X Nat
  BY <1>2, <1>3 DEF TypeOK
<1>8. delivery' \in [DOMAIN delivery' -> RecordType]
  <2>1. delivery' = [d \in DOMAIN delivery' |-> delivery'[d]]
    BY <1>3 DEF WithPending
  <2>2. \A d \in DOMAIN delivery' : delivery'[d] \in RecordType
    BY <1>3, RecordFacts, PendingFacts
  <2> QED BY <2>1, <2>2
<1>9. Lives'
  <2>1. Lively(Pending)
    BY PendingFacts, Limited DEF Lively
  <2> QED BY <1>3, <2>1 DEF Lives
<1>10. Numbered(delivery')
  <2> SUFFICES ASSUME NEW e \in Events
               PROVE  Generations(delivery', e)
                        = {e} \X (1..Cardinality(Generations(delivery', e)))
    BY DEF Numbered
  <2> DEFINE G == Generations(delivery, e)
             H == Generations(delivery', e)
             k == Cardinality(G)
  <2>1. /\ IsFiniteSet(G) /\ k \in Nat /\ NextGeneration(e) = 1 + k
        /\ <<e, 1 + k>> \notin G
    BY GenerationFacts DEF Generations
  <2>2. G = {e} \X (1..k)
    BY DEF Numbered
  <2>3. CASE <<e, 1 + k>> \in new
    <3>1. \A d \in new : d[1] = e <=> d = <<e, 1 + k>>
      BY <1>1, <2>1
    <3>2. H = G \cup {<<e, 1 + k>>}
      BY <1>3, <2>3, <3>1 DEF Generations
    <3>3. Cardinality(G \cup {<<e, 1 + k>>}) = k + 1
      BY <2>1, FS_AddElement
    <3> HIDE DEF G, H, k
    <3>4. G \cup {<<e, 1 + k>>} = {e} \X (1..(k + 1))
      BY <2>1, <2>2
    <3> QED BY <3>2, <3>3, <3>4 DEF H
  <2>4. CASE <<e, 1 + k>> \notin new
    <3>1. \A d \in new : d[1] # e
      BY <1>1, <2>1, <2>4
    <3>2. H = G
      BY <1>3, <3>1 DEF Generations
    <3> QED BY <2>2, <3>2
  <2> QED BY <2>3, <2>4
<1> QED BY <1>2, <1>3, <1>4, <1>6, <1>7, <1>8, <1>9, <1>10

-----------------------------------------------------------------------------
(* The steps that add deliveries.                                           *)

\* Nothing is delivered before registration, and a dead letter is settled.
Empty == status = "none" => DOMAIN delivery = {}
Letters == \A d \in deadLetter : delivery[d].state \in Settled

\* An appended event has had no delivery.
LEMMA AppendFacts ==
    ASSUME TypeOK, Keyed, Numbered(delivery), NEW e \in Events, AppendEvent(e)
    PROVE  /\ \A d \in DOMAIN delivery : d[1] # e
           /\ <<e, 1>> \in Nexts
           /\ \E new \in SUBSET {<<e, 1>>} : delivery' = WithPending(delivery, new)
<1>1. e \notin Stored
  BY DEF AppendEvent
<1>2. \A d \in DOMAIN delivery : d[1] # e
  BY <1>1 DEF Keyed
<1>3. NextGeneration(e) = 1
  BY <1>2, GenerationFacts
<1>4. <<e, 1>> \in Nexts
  BY <1>3 DEF Nexts
<1>5. delivery = WithPending(delivery, {})
  BY DEF WithPending, TypeOK
<1>6. delivery' = WithPending(delivery, {<<e, 1>>}) \/ delivery' = WithPending(delivery, {})
  BY <1>5 DEF AppendEvent
<1>7. {<<e, 1>>} \in SUBSET {<<e, 1>>} /\ {} \in SUBSET {<<e, 1>>}
  OBVIOUS
<1> QED BY <1>2, <1>4, <1>6, <1>7

\* What a registration delivers.
Backfilled ==
    {d \in UNION {{<<stream[s][n], 1>> : n \in Backfill(s)} : s \in {x \in Streams : stream[x] # <<>>}} :
        d[1] \in Matching}

LEMMA RegisterFacts ==
    ASSUME DeliveryAssumption, TypeOK, Numbered(delivery), Empty, Register
    PROVE  /\ Backfilled \subseteq Nexts /\ delivery' = WithPending(delivery, Backfilled)
           /\ DOMAIN delivery = {}
           /\ \A d \in Backfilled : d[1] \in Stored /\ d[2] = 1
<1>1. DOMAIN delivery = {}
  BY DEF Register, Empty
<1>2. \A e \in Events : NextGeneration(e) = 1
  BY <1>1, GenerationFacts
<1>3. ASSUME NEW s \in Streams, NEW n \in Backfill(s)
      PROVE  stream[s][n] \in Stored /\ stream[s][n] \in Events
  <2>1. stream[s] \in Seq(Events) /\ Len(stream[s]) \in Nat
    BY DEF TypeOK
  <2>2. StartAfter(Len(stream[s])) \in Nat \ {0}
    BY <2>1 DEF StartAfter, Latest, DeliveryAssumption
  <2>3. n \in DOMAIN stream[s]
    BY <2>1, <2>2 DEF Backfill
  <2> QED BY <2>1, <2>3 DEF Stored, ToSet
<1>4. \A d \in Backfilled : \E s \in Streams : \E n \in Backfill(s) : d = <<stream[s][n], 1>>
  BY DEF Backfilled
<1>5. \A d \in Backfilled : d[1] \in Stored /\ d[2] = 1 /\ d \in Nexts
  BY <1>2, <1>3, <1>4 DEF Nexts
<1>6. delivery' = WithPending(delivery, Backfilled)
  BY DEF Register, Backfilled
<1> QED BY <1>1, <1>5, <1>6

\* A repair delivers again what was delivered and settled.
LEMMA RequeueFacts ==
    ASSUME TypeOK, Keyed, Numbered(delivery), Letters, NEW d \in deadLetter, Requeue(d)
    PROVE  LET new == <<d[1], NextGeneration(d[1])>>
           IN  /\ new \in Nexts /\ delivery' = WithPending(delivery, {new})
               /\ new[1] \in Stored /\ new[2] > 1
               /\ <<d[1], 1>> \in DOMAIN delivery /\ delivery[<<d[1], 1>>].state \in Settled
<1>1. d \in DOMAIN delivery /\ d = <<d[1], d[2]>> /\ d[1] \in Events /\ d[2] \in Nat
  BY DEF TypeOK
<1>2. d[1] \in Stored
  BY <1>1 DEF Keyed
<1>3. NextGeneration(d[1]) > 1 /\ <<d[1], 1>> \in DOMAIN delivery
  BY <1>1, GenerationFacts
<1>4. delivery[<<d[1], 1>>].state \in Settled
  <2>1. CASE d[2] > 1
    BY <1>1, <2>1 DEF Keyed
  <2>2. CASE d[2] = 1
    <3>1. d = <<d[1], 1>>
      BY <1>1, <2>2
    <3> QED BY <3>1 DEF Letters
  <2>3. d[2] >= 1
    <3>1. d \in Generations(delivery, d[1])
      BY <1>1 DEF Generations
    <3>2. d \in {d[1]} \X (1..Cardinality(Generations(delivery, d[1])))
      BY <1>1, <3>1 DEF Numbered
    <3> QED BY <1>1, <3>2
  <2> QED BY <1>1, <2>1, <2>2, <2>3
<1>5. delivery' = WithPending(delivery, {<<d[1], NextGeneration(d[1])>>})
  BY DEF Requeue
<1> QED BY <1>1, <1>2, <1>3, <1>4, <1>5 DEF Nexts

\* First deliveries of stream s in a range of sequence numbers.
InRange(s, from, through) == {d \in FirstIn(delivery, s) : SequenceOf(d[1]) \in from..through}
Redelivered(s, from, through) == {<<d[1], NextGeneration(d[1])>> : d \in InRange(s, from, through)}

LEMMA RedeliverFacts ==
    ASSUME TypeOK, Keyed, Numbered(delivery), NEW s, NEW from, NEW through,
           Redeliver(s, from, through)
    PROVE  LET new == Redelivered(s, from, through)
           IN  /\ new \subseteq Nexts /\ delivery' = WithPending(delivery, new)
               /\ \A d \in new : /\ d[1] \in Stored /\ d[2] > 1
                                 /\ <<d[1], 1>> \in DOMAIN delivery
                                 /\ delivery[<<d[1], 1>>].state \in Settled
<1>1. ASSUME NEW d \in InRange(s, from, through)
      PROVE  /\ d[1] \in Events /\ d[1] \in Stored /\ d = <<d[1], 1>> /\ NextGeneration(d[1]) > 1
             /\ d \in DOMAIN delivery /\ delivery[d].state \in Settled
  <2>1. /\ d \in DOMAIN delivery /\ d[2] = 1 /\ StreamOf[d[1]] = s
        /\ SequenceOf(d[1]) \in from..through
    BY DEF InRange, FirstIn
  <2>2. d = <<d[1], 1>> /\ d[1] \in Events
    BY <2>1 DEF TypeOK
  <2>3. d[1] \in Stored
    BY <2>1 DEF Keyed
  <2>4. NextGeneration(d[1]) > 1
    BY <2>1, <2>2, GenerationFacts
  <2>5. d \notin OpenIn(delivery)
    BY <2>1 DEF Redeliver
  <2>6. delivery[d].state \in Settled
    BY <2>1, <2>5, RecordFacts DEF OpenIn
  <2> QED BY <2>1, <2>2, <2>3, <2>4, <2>6
<1>2. Redelivered(s, from, through) \subseteq Nexts
  BY <1>1 DEF Redelivered, Nexts
<1>3. ASSUME NEW x \in Redelivered(s, from, through)
      PROVE  /\ x[1] \in Stored /\ x[2] > 1 /\ <<x[1], 1>> \in DOMAIN delivery
             /\ delivery[<<x[1], 1>>].state \in Settled
  <2>1. PICK d \in InRange(s, from, through) : x = <<d[1], NextGeneration(d[1])>>
    BY DEF Redelivered
  <2>2. x[1] = d[1] /\ x[2] = NextGeneration(d[1]) /\ <<x[1], 1>> = d
    BY <1>1, <2>1
  <2> QED BY <1>1, <2>2
<1>4. delivery' = WithPending(delivery, Redelivered(s, from, through))
  BY DEF Redeliver, Redelivered, InRange
<1> QED BY <1>2, <1>3, <1>4

-----------------------------------------------------------------------------
(* What each step does to the batches.                                      *)

\* No batch holds what it did not hold before.
BatchKept ==
    /\ worker' \in [Workers -> WorkerType]
    /\ \A v \in Workers : \A n \in DOMAIN worker'[v].batch :
         \E m \in DOMAIN worker[v].batch : worker'[v].batch[n] = worker[v].batch[m]

LEMMA SameWorkers == ASSUME TypeOK, worker' = worker PROVE BatchKept
BY DEF TypeOK, BatchKept

LEMMA NextItemFacts ==
    ASSUME TypeOK, NEW w \in Workers, worker[w].batch # <<>>, NextItem(w)
    PROVE  BatchKept /\ worker'[w].result = "none" /\ \A v \in Workers \ {w} : worker'[v] = worker[v]
<1>1. worker \in [Workers -> WorkerType] /\ worker[w].batch \in Seq(ItemType)
  BY DEF TypeOK, WorkerType
<1>2. worker' = [worker EXCEPT ![w] = [batch |-> Tail(worker[w].batch), result |-> "none"]]
  BY DEF NextItem
<1>3. Tail(worker[w].batch) \in Seq(ItemType)
  BY <1>1
<1>4. \A n \in DOMAIN Tail(worker[w].batch) :
        n + 1 \in DOMAIN worker[w].batch /\ Tail(worker[w].batch)[n] = worker[w].batch[n + 1]
  BY <1>1
<1>5. /\ worker'[w].batch = Tail(worker[w].batch) /\ worker'[w].result = "none"
      /\ \A v \in Workers \ {w} : worker'[v] = worker[v]
  BY <1>1, <1>2
<1>6. worker' \in [Workers -> WorkerType]
  BY <1>1, <1>2, <1>3 DEF WorkerType
<1>7. \A v \in Workers : \A n \in DOMAIN worker'[v].batch :
         \E m \in DOMAIN worker[v].batch : worker'[v].batch[n] = worker[v].batch[m]
  BY <1>4, <1>5, ZenonT(90)
<1> QED BY <1>5, <1>6, <1>7 DEF BatchKept

LEMMA CrashFacts ==
    ASSUME TypeOK, NEW w \in Workers, Crash(w)
    PROVE  BatchKept /\ worker'[w].result = "none" /\ \A v \in Workers \ {w} : worker'[v] = worker[v]
<1>1. worker \in [Workers -> WorkerType]
  BY DEF TypeOK
<1>2. worker' = [worker EXCEPT ![w] = IdleWorker]
  BY DEF Crash
<1>3. IdleWorker \in WorkerType /\ IdleWorker.batch = <<>> /\ IdleWorker.result = "none"
  BY DEF IdleWorker, WorkerType
<1>4. /\ worker'[w] = IdleWorker /\ \A v \in Workers \ {w} : worker'[v] = worker[v]
      /\ worker' \in [Workers -> WorkerType]
  BY <1>1, <1>2, <1>3
<1>5. DOMAIN worker'[w].batch = {}
  BY <1>3, <1>4
<1> QED BY <1>3, <1>4, <1>5 DEF BatchKept

\* A consumer that returned: its outcome waits to be settled.
LEMMA ResultFacts ==
    ASSUME TypeOK, NEW w \in Workers, NEW o \in Outcomes,
           worker' = [worker EXCEPT ![w].result = o]
    PROVE  /\ BatchKept /\ worker'[w].result = o /\ worker'[w].batch = worker[w].batch
           /\ \A v \in Workers \ {w} : worker'[v] = worker[v]
<1>1. worker \in [Workers -> WorkerType] /\ worker[w] \in WorkerType
  BY DEF TypeOK
<1>2. worker' = [worker EXCEPT ![w] = [worker[w] EXCEPT !.result = o]]
  OBVIOUS
<1>3. /\ worker'[w].result = o /\ worker'[w].batch = worker[w].batch
      /\ \A v \in Workers \ {w} : worker'[v] = worker[v]
      /\ worker' \in [Workers -> WorkerType]
  BY <1>1, <1>2, SMTT(30) DEF WorkerType
<1>4. \A v \in Workers : worker'[v].batch = worker[v].batch
  BY <1>3
<1> QED BY <1>3, <1>4 DEF BatchKept

\* A claimed batch is made of what was taken.
LEMMA ClaimBatch ==
    ASSUME DeliveryAssumption, TypeOK, Lives, NEW w \in Workers, NEW scope, Claim(w, scope)
    PROVE  /\ worker' \in [Workers -> WorkerType]
           /\ worker[w] = IdleWorker /\ worker'[w].result = "none"
           /\ \A n \in DOMAIN worker'[w].batch : worker'[w].batch[n].delivery \in Taken(w, scope)
           /\ \A v \in Workers \ {w} : worker'[v] = worker[v]
<1> DEFINE T == Taken(w, scope)
           Item(d) == [delivery |-> d, attempt |-> Recovered[d].attempts + 1]
<1>1. PICK order \in [1..Cardinality(T) -> T] :
        worker' = [worker EXCEPT ![w].batch = [i \in DOMAIN order |-> Item(order[i])]]
  BY DEF Claim, Taken
<1>2. T \subseteq DOMAIN delivery
  BY ClaimFacts
<1>3. IsFiniteSet(T) /\ Cardinality(T) \in Nat
  <2>1. IsFiniteSet(DOMAIN delivery)
    BY DEF TypeOK
  <2>2. IsFiniteSet(T)
    BY <1>2, <2>1, FS_Subset
  <2> QED BY <2>2, FS_CardinalityType
<1> DEFINE batch == [i \in DOMAIN order |-> Item(order[i])]
<1>4. \A d \in T : Item(d) \in ItemType
  <2> SUFFICES ASSUME NEW d \in T PROVE Item(d) \in ItemType
    OBVIOUS
  <2>1. d \in DOMAIN delivery /\ d \in Events \X Nat
    BY <1>2 DEF TypeOK
  <2>2. Recovered[d].attempts \in Nat
    BY <2>1, RecoveredFacts, RecordFacts
  <2> QED BY <2>1, <2>2, SMTT(30) DEF ItemType
<1>5. /\ DOMAIN batch = 1..Cardinality(T)
      /\ \A i \in DOMAIN batch : batch[i] \in ItemType /\ batch[i].delivery \in T
  BY <1>4
<1>6. batch \in Seq(ItemType)
  <2>1. batch \in [1..Cardinality(T) -> ItemType]
    BY <1>5
  <2> HIDE DEF batch
  <2> QED BY <1>3, <2>1, SMTT(30)
<1>7. worker \in [Workers -> WorkerType] /\ worker[w] \in WorkerType
  BY DEF TypeOK
<1>8. worker[w] = IdleWorker /\ worker[w].result = "none"
  BY DEF Claim, IdleWorker
<1>9. worker' = [worker EXCEPT ![w] = [worker[w] EXCEPT !.batch = batch]]
  BY <1>1
<1> HIDE DEF batch, T
<1>10. /\ worker'[w].batch = batch /\ worker'[w].result = worker[w].result
       /\ \A v \in Workers \ {w} : worker'[v] = worker[v]
       /\ worker' \in [Workers -> WorkerType]
  BY <1>6, <1>7, <1>9 DEF WorkerType
<1> QED BY <1>5, <1>8, <1>10 DEF T

\* Every step but a claim.
LEMMA BatchStep ==
    ASSUME DeliveryAssumption, TypeOK, Next
    PROVE  BatchKept \/ \E w \in Workers : \E scope : Claim(w, scope)
<1>1. CASE worker' = worker
  BY <1>1, SameWorkers
<1>2. ASSUME NEW w \in Workers, worker[w].batch # <<>>, NextItem(w) PROVE BatchKept
  BY <1>2, NextItemFacts
<1>3. ASSUME NEW w \in Workers, NEW o \in Outcomes, worker' = [worker EXCEPT ![w].result = o]
      PROVE  BatchKept
  BY <1>3, ResultFacts
<1>4. ASSUME NEW w \in Workers, Crash(w) PROVE BatchKept
  BY <1>4, CrashFacts
<1>5. ASSUME NEW w \in Workers, Settle(w) \/ Skip(w) PROVE BatchKept
  BY <1>2, <1>5 DEF Settle, Skip
<1>6. ASSUME NEW w \in Workers, NEW o \in Outcomes, Consume(w, o) \/ Execute(w, o)
      PROVE  BatchKept
  BY <1>2, <1>3, <1>6 DEF Consume, Execute
<1>7. CASE \E e \in Events : AppendEvent(e)
  BY <1>1, <1>7 DEF AppendEvent
<1>8. CASE Register \/ Pause \/ Resume \/ Retire \/ Cancel
  BY <1>1, <1>8 DEF Register, Pause, Resume, Retire, Cancel
<1>9. CASE \E d \in DOMAIN delivery : Expire(d) \/ Wait(d)
  BY <1>1, <1>9 DEF Expire, Wait, Timed
<1>10. CASE \E d \in deadLetter : Requeue(d) \/ Resolve(d)
  BY <1>1, <1>10 DEF Requeue, Resolve
<1>11. CASE \E s \in Streams : \E from \in DOMAIN stream[s] :
              \E through \in from..Len(stream[s]) : Redeliver(s, from, through)
  BY <1>1, <1>11 DEF Redeliver
<1> QED BY <1>4, <1>5, <1>6, <1>7, <1>8, <1>9, <1>10, <1>11 DEF Next

-----------------------------------------------------------------------------
(* The core of the invariant is kept by every step.                         *)

Core == /\ TypeOK /\ Placed /\ Keyed /\ Numbered(delivery) /\ Lives /\ Held
        /\ Empty /\ Letters

LEMMA StreamStep ==
    ASSUME DeliveryAssumption, TypeOK, Placed, Next
    PROVE  stream' \in [Streams -> Seq(Events)] /\ Placed' /\ Kept
<1>1. CASE stream' = stream
  BY <1>1, SameStreams DEF TypeOK
<1>2. ASSUME NEW e \in Events, AppendEvent(e)
      PROVE  stream' \in [Streams -> Seq(Events)] /\ Placed' /\ Kept
  <2>1. e \notin Stored /\ stream' = [stream EXCEPT ![StreamOf[e]] = Append(@, e)]
    BY <1>2 DEF AppendEvent
  <2> QED BY <2>1, GrownStream
<1>3. CASE Register \/ Pause \/ Resume \/ Retire \/ Cancel
  BY <1>1, <1>3 DEF Register, Pause, Resume, Retire, Cancel
<1>4. ASSUME NEW w \in Workers,
             \/ (\E scope : Claim(w, scope)) \/ Settle(w) \/ Skip(w) \/ Crash(w)
             \/ \E o \in Outcomes : Consume(w, o) \/ Execute(w, o)
      PROVE  stream' = stream
  BY <1>4 DEF Claim, Settle, Skip, Crash, Consume, Execute
<1>5. CASE \/ \E d \in DOMAIN delivery : Expire(d) \/ Wait(d)
           \/ \E d \in deadLetter : Requeue(d) \/ Resolve(d)
           \/ \E s \in Streams : \E from \in DOMAIN stream[s] :
                 \E through \in from..Len(stream[s]) : Redeliver(s, from, through)
  BY <1>1, <1>5 DEF Expire, Wait, Timed, Requeue, Resolve, Redeliver
<1> QED BY <1>1, <1>2, <1>3, <1>4, <1>5 DEF Next

\* What is delivered anew is stored, and a repair repeats something settled.
Repeats(d) ==
    d[1] \in Stored' /\ (d[2] > 1 => /\ <<d[1], 1>> \in DOMAIN delivery
                                     /\ delivery[<<d[1], 1>>].state \in Settled)

\* An appended event is stored.
LEMMA AppendedIsStored ==
    ASSUME DeliveryAssumption, TypeOK, Placed, NEW e \in Events, AppendEvent(e)
    PROVE  e \in Stored'
<1>1. e \notin Stored /\ stream' = [stream EXCEPT ![StreamOf[e]] = Append(@, e)]
  BY DEF AppendEvent
<1>2. Stored' = Stored \cup {e}
  BY <1>1, GrownStream
<1> QED BY <1>2

\* Every step either changes deliveries or adds some.
Shape ==
    \/ Changes
    \/ \E new \in SUBSET Nexts : /\ delivery' = WithPending(delivery, new)
                                 /\ \A d \in new : Repeats(d)

\* What settles a delivery: the result of a call or its inbox.
Settling(w) == worker[w].batch # <<>> /\ \E o \in Outcomes : Settlement(w, o)

LEMMA SettleIs ==
    ASSUME TypeOK, Held, NEW w \in Workers, Settle(w)
    PROVE  worker[w].result \in Outcomes /\ Settling(w)
<1>1. worker[w].result \in Outcomes /\ worker[w].batch # <<>> /\ Settlement(w, worker[w].result)
  BY WorkerFacts DEF Settle
<1> QED BY <1>1 DEF Settling

LEMMA ExecuteIs ==
    ASSUME NEW w \in Workers, NEW o \in Outcomes, Execute(w, o)
    PROVE  \/ /\ Settlement(w, "ack") /\ NextItem(w) /\ Settling(w)
              /\ Current(w).delivery[1] \in inbox \/ o = "ack"
              /\ IF Current(w).delivery[1] \notin inbox /\ LeaseMatches(w)
                 THEN /\ inbox' = inbox \cup {Current(w).delivery[1]}
                      /\ applied' = Append(applied, Current(w).delivery[1])
                 ELSE UNCHANGED <<inbox, applied>>
           \/ /\ o # "ack" /\ worker' = [worker EXCEPT ![w].result = o]
              /\ UNCHANGED <<ledger, applied>>
<1>1. "ack" \in Outcomes
  BY DEF Outcomes
<1> QED BY <1>1 DEF Execute, Settling

LEMMA ShapeStep ==
    ASSUME DeliveryAssumption, Core, Next
    PROVE  Shape
<1> USE DEF Core
<1>1. CASE delivery' = delivery
  BY <1>1, SameLedger DEF Shape
<1>2. ASSUME NEW e \in Events, AppendEvent(e) PROVE Shape
  <2>1. PICK new \in SUBSET {<<e, 1>>} : delivery' = WithPending(delivery, new)
    BY <1>2, AppendFacts
  <2>2. e \in Stored'
    BY <1>2, AppendedIsStored
  <2>3. new \in SUBSET Nexts
    BY <1>2, <2>1, AppendFacts
  <2>4. \A d \in new : Repeats(d)
    BY <2>1, <2>2 DEF Repeats
  <2> QED BY <2>1, <2>3, <2>4 DEF Shape
<1>3. CASE Register
  <2>1. \A d \in Backfilled : Repeats(d)
    <3>1. Stored' = Stored
      BY <1>3, SameStreams DEF Register
    <3> QED BY <1>3, <3>1, RegisterFacts DEF Repeats
  <2> QED BY <1>3, <2>1, RegisterFacts DEF Shape
<1>4. CASE Pause \/ Resume \/ Retire
  BY <1>1, <1>4 DEF Pause, Resume, Retire, ledger
<1>5. CASE Cancel
  BY <1>5, CancelFacts DEF Shape
<1>6. ASSUME NEW w \in Workers, NEW scope, Claim(w, scope) PROVE Shape
  BY <1>6, ClaimFacts DEF Shape
<1>7. ASSUME NEW w \in Workers, Settling(w) PROVE Shape
  BY <1>7, SettlementFacts DEF Shape, Settling
<1>8. ASSUME NEW w \in Workers, Settle(w) \/ Skip(w) \/ Crash(w) PROVE Shape
  BY <1>1, <1>7, <1>8, SettleIs DEF Skip, Crash, ledger
<1>9. ASSUME NEW w \in Workers, NEW o \in Outcomes, Consume(w, o) \/ Execute(w, o) PROVE Shape
  BY <1>1, <1>7, <1>9, ExecuteIs DEF Consume, ledger
<1>10. ASSUME NEW d \in DOMAIN delivery, Expire(d) \/ Wait(d) PROVE Shape
  BY <1>10, TimeFacts DEF Shape
<1>11. ASSUME NEW d \in deadLetter, Requeue(d) PROVE Shape
  <2> DEFINE x == <<d[1], NextGeneration(d[1])>>
  <2>1. Stored' = Stored
    BY <1>11, SameStreams DEF Requeue
  <2>2. /\ x \in Nexts /\ delivery' = WithPending(delivery, {x}) /\ x[1] \in Stored
        /\ <<d[1], 1>> \in DOMAIN delivery /\ delivery[<<d[1], 1>>].state \in Settled
    BY <1>11, RequeueFacts
  <2>3. Repeats(x)
    BY <2>1, <2>2 DEF Repeats
  <2>4. {x} \in SUBSET Nexts /\ \A y \in {x} : Repeats(y)
    BY <2>2, <2>3
  <2> HIDE DEF x
  <2> QED BY <2>2, <2>4 DEF Shape
<1>12. ASSUME NEW d \in deadLetter, Resolve(d) PROVE Shape
  BY <1>1, <1>12 DEF Resolve
<1>13. ASSUME NEW s \in Streams, NEW from, NEW through, Redeliver(s, from, through) PROVE Shape
  <2>1. Stored' = Stored
    BY <1>13, SameStreams DEF Redeliver
  <2>2. /\ Redelivered(s, from, through) \in SUBSET Nexts
        /\ delivery' = WithPending(delivery, Redelivered(s, from, through))
        /\ \A d \in Redelivered(s, from, through) : Repeats(d)
    BY <1>13, <2>1, RedeliverFacts DEF Repeats
  <2> QED BY <2>2 DEF Shape
<1> QED BY <1>2, <1>3, <1>4, <1>5, <1>6, <1>8, <1>9, <1>10, <1>11, <1>12, <1>13 DEF Next

\* What follows from the shape.
LEMMA ShapeFacts ==
    ASSUME DeliveryAssumption, Core, Kept, Shape
    PROVE  /\ DOMAIN delivery \subseteq DOMAIN delivery'
           /\ \A d \in DOMAIN delivery : Moved(delivery[d], delivery'[d])
           /\ \A d \in DOMAIN delivery' \ DOMAIN delivery : Repeats(d) /\ delivery'[d] = Pending
           /\ DOMAIN delivery' \subseteq Events \X Nat /\ IsFiniteSet(DOMAIN delivery')
           /\ delivery' \in [DOMAIN delivery' -> RecordType]
           /\ Numbered(delivery') /\ Lives' /\ Keyed'
<1> USE DEF Core
<1>1. /\ DOMAIN delivery \subseteq DOMAIN delivery'
      /\ \A d \in DOMAIN delivery : Moved(delivery[d], delivery'[d])
      /\ \A d \in DOMAIN delivery' \ DOMAIN delivery : Repeats(d) /\ delivery'[d] = Pending
      /\ DOMAIN delivery' \subseteq Events \X Nat /\ IsFiniteSet(DOMAIN delivery')
      /\ delivery' \in [DOMAIN delivery' -> RecordType]
      /\ Numbered(delivery') /\ Lives'
  <2>1. CASE Changes
    <3>1. /\ DOMAIN delivery' = DOMAIN delivery /\ delivery' \in [DOMAIN delivery' -> RecordType]
          /\ \A d \in DOMAIN delivery : Moved(delivery[d], delivery'[d])
      BY <2>1 DEF Changes
    <3>2. Lives'
      BY <3>1 DEF Lives, Moved
    <3>3. Numbered(delivery')
      BY <3>1 DEF Numbered, Generations
    <3> QED BY <3>1, <3>2, <3>3 DEF TypeOK
  <2>2. ASSUME NEW new \in SUBSET Nexts, delivery' = WithPending(delivery, new),
               \A d \in new : Repeats(d)
        PROVE  <1>1
    <3>1. TypeOK /\ Numbered(delivery) /\ Lives
      OBVIOUS
    <3>2. /\ DOMAIN delivery' = DOMAIN delivery \cup new
          /\ \A d \in DOMAIN delivery : delivery'[d] = delivery[d]
          /\ \A d \in new : delivery'[d] = Pending
          /\ DOMAIN delivery' \subseteq Events \X Nat /\ IsFiniteSet(DOMAIN delivery')
          /\ delivery' \in [DOMAIN delivery' -> RecordType]
          /\ Numbered(delivery') /\ Lives'
      BY <2>2, <3>1, GrowFacts, Zenon
    <3> HIDE DEF Core
    <3>3. \A d \in DOMAIN delivery : Moved(delivery[d], delivery'[d])
      BY <3>1, <3>2, MovedItself
    <3>4. \A d \in DOMAIN delivery' \ DOMAIN delivery : Repeats(d) /\ delivery'[d] = Pending
      BY <2>2, <3>2
    <3> QED BY <3>2, <3>3, <3>4
  <2> QED BY <2>1, <2>2 DEF Shape
<1>2. ASSUME NEW d \in DOMAIN delivery'
      PROVE  d[1] \in Stored' /\ (d[2] > 1 => delivery'[<<d[1], 1>>].state \in Settled)
  <2>1. CASE d \in DOMAIN delivery
    <3>1. d[1] \in Stored /\ d[1] \in Events
      BY <2>1 DEF Keyed, TypeOK
    <3>2. d[1] \in Stored'
      BY <3>1 DEF Kept
    <3>3. <<d[1], 1>> \in DOMAIN delivery
      BY <2>1, <3>1, GenerationFacts
    <3> QED BY <1>1, <2>1, <3>2, <3>3 DEF Keyed, Moved
  <2>2. CASE d \notin DOMAIN delivery
    BY <1>1, <2>2 DEF Repeats, Moved
  <2> QED BY <2>1, <2>2
<1> QED BY <1>1, <1>2 DEF Keyed

\* Dead letters are settled.
LEMMA LettersStep ==
    ASSUME DeliveryAssumption, Core, Next, Kept, Shape
    PROVE  deadLetter' \subseteq DOMAIN delivery' /\ Letters'
<1> USE DEF Core
<1>1. CASE deadLetter' \subseteq deadLetter
  <2> SUFFICES ASSUME NEW d \in deadLetter'
               PROVE  d \in DOMAIN delivery' /\ delivery'[d].state \in Settled
    BY DEF Letters
  <2>1. d \in DOMAIN delivery /\ delivery[d].state \in Settled
    BY <1>1 DEF Letters, TypeOK
  <2> QED BY <2>1, ShapeFacts DEF Moved
<1>2. ASSUME NEW w \in Workers, NEW scope, Claim(w, scope)
      PROVE  deadLetter' \subseteq DOMAIN delivery' /\ Letters'
  <2> SUFFICES ASSUME NEW d \in deadLetter'
               PROVE  d \in DOMAIN delivery' /\ delivery'[d].state \in Settled
    BY DEF Letters
  <2>1. d \in deadLetter \/ d \in Buried
    BY <1>2 DEF Claim
  <2>2. CASE d \in deadLetter
    <3>1. d \in DOMAIN delivery /\ delivery[d].state \in Settled
      BY <2>2 DEF Letters, TypeOK
    <3> QED BY <3>1, ShapeFacts DEF Moved
  <2>3. CASE d \in Buried
    <3>1. d \in DOMAIN delivery /\ Recovered[d].state = "dead_letter"
      BY <2>3 DEF Buried, Expired
    <3>2. d \notin Taken(w, scope)
      BY <1>2, <3>1, ClaimFacts
    <3>3. delivery'[d] = Recovered[d]
      BY <1>2, <3>1, <3>2, ClaimFacts
    <3> QED BY <3>1, <3>3, ShapeFacts DEF Settled
  <2> QED BY <2>1, <2>2, <2>3
<1>3. ASSUME NEW w \in Workers, Settling(w)
      PROVE  deadLetter' \subseteq DOMAIN delivery' /\ Letters'
  <2>1. PICK o \in Outcomes : worker[w].batch # <<>> /\ Settlement(w, o)
    BY <1>3 DEF Settling
  <2> DEFINE d == Current(w).delivery
  <2>2. CASE deadLetter' = deadLetter
    BY <1>1, <2>2
  <2>3. CASE /\ deadLetter' = deadLetter \cup {d} /\ LeaseMatches(w)
             /\ Target(o, delivery[d].attempts) = "dead_letter"
    <3>1. d \in DOMAIN delivery /\ delivery'[d].state = "dead_letter"
      BY <2>1, <2>3, SettlementFacts
    <3> SUFFICES ASSUME NEW c \in deadLetter'
                 PROVE  c \in DOMAIN delivery' /\ delivery'[c].state \in Settled
      BY DEF Letters
    <3>2. CASE c = d
      BY <3>1, <3>2, ShapeFacts DEF Settled
    <3>3. CASE c \in deadLetter
      <4>1. c \in DOMAIN delivery /\ delivery[c].state \in Settled
        BY <3>3 DEF Letters, TypeOK
      <4> QED BY <4>1, ShapeFacts DEF Moved
    <3> QED BY <2>3, <3>2, <3>3
  <2> QED BY <2>1, <2>2, <2>3 DEF Settlement
<1>4. CASE \E e \in Events : AppendEvent(e)
  BY <1>1, <1>4 DEF AppendEvent
<1>5. CASE Register \/ Pause \/ Resume \/ Retire \/ Cancel
  BY <1>1, <1>5 DEF Register, Pause, Resume, Retire, Cancel, ledger
<1>6. ASSUME NEW w \in Workers, Settle(w) \/ Skip(w) \/ Crash(w)
      PROVE  deadLetter' \subseteq DOMAIN delivery' /\ Letters'
  BY <1>1, <1>3, <1>6, SettleIs DEF Skip, Crash, ledger
<1>7. ASSUME NEW w \in Workers, NEW o \in Outcomes, Consume(w, o) \/ Execute(w, o)
      PROVE  deadLetter' \subseteq DOMAIN delivery' /\ Letters'
  BY <1>1, <1>3, <1>7, ExecuteIs DEF Consume, ledger
<1>8. CASE \E d \in DOMAIN delivery : Expire(d) \/ Wait(d)
  BY <1>1, <1>8 DEF Expire, Wait, Timed
<1>9. CASE \E d \in deadLetter : Requeue(d) \/ Resolve(d)
  BY <1>1, <1>9 DEF Requeue, Resolve
<1>10. CASE \E s \in Streams : \E from \in DOMAIN stream[s] :
              \E through \in from..Len(stream[s]) : Redeliver(s, from, through)
  BY <1>1, <1>10 DEF Redeliver
<1> QED BY <1>2, <1>4, <1>5, <1>6, <1>7, <1>8, <1>9, <1>10 DEF Next

LEMMA HeldStep ==
    ASSUME DeliveryAssumption, Core, Next, Kept, Shape
    PROVE  worker' \in [Workers -> WorkerType] /\ Held'
<1> USE DEF Core
<1>1. CASE BatchKept
  <2>1. \A v \in Workers : \A n \in DOMAIN worker'[v].batch :
           worker'[v].batch[n].delivery \in DOMAIN delivery
    BY <1>1 DEF BatchKept, Held
  <2> QED BY <1>1, <2>1, ShapeFacts DEF BatchKept, Held
<1>2. ASSUME NEW w \in Workers, NEW scope, Claim(w, scope)
      PROVE  worker' \in [Workers -> WorkerType] /\ Held'
  <2>1. \A v \in Workers : \A n \in DOMAIN worker'[v].batch :
           worker'[v].batch[n].delivery \in DOMAIN delivery
    <3> SUFFICES ASSUME NEW v \in Workers, NEW n \in DOMAIN worker'[v].batch
                 PROVE  worker'[v].batch[n].delivery \in DOMAIN delivery
      OBVIOUS
    <3>1. CASE v = w
      BY <1>2, <3>1, ClaimBatch, ClaimFacts
    <3>2. CASE v # w
      <4>1. worker'[v] = worker[v]
        BY <1>2, <3>2, ClaimBatch
      <4> QED BY <4>1 DEF Held
    <3> QED BY <3>1, <3>2
  <2> QED BY <1>2, <2>1, ClaimBatch, ShapeFacts DEF Held
<1> QED BY <1>1, <1>2, BatchStep

\* Registration is what fills an empty ledger.
LEMMA EmptyStep ==
    ASSUME DeliveryAssumption, Core, Next
    PROVE  Empty'
<1> USE DEF Core
<1> SUFFICES ASSUME status' = "none" PROVE DOMAIN delivery' = {}
  BY DEF Empty
<1>1. status = "none" => DOMAIN delivery = {}
  BY DEF Empty
<1>2. CASE delivery' = delivery /\ status' = status
  BY <1>1, <1>2
<1>3. ASSUME NEW e \in Events, AppendEvent(e) PROVE DOMAIN delivery' = {}
  <2>1. status = "none" /\ delivery' = delivery
    BY <1>3 DEF AppendEvent
  <2> QED BY <1>1, <2>1
<1>4. CASE Register \/ Pause \/ Resume \/ Retire \/ Cancel
  BY <1>4 DEF Register, Pause, Resume, Retire, Cancel, subscription
<1>5. ASSUME NEW w \in Workers, NEW scope, Claim(w, scope) PROVE DOMAIN delivery' = {}
  BY <1>5 DEF Claim, subscription
<1>6. ASSUME NEW w \in Workers, Settling(w), status' = status PROVE DOMAIN delivery' = {}
  <2>1. Changes
    BY <1>6, SettlementFacts DEF Settling
  <2> QED BY <1>1, <1>6, <2>1 DEF Changes
<1>7. ASSUME NEW w \in Workers, Settle(w) \/ Skip(w) \/ Crash(w) PROVE DOMAIN delivery' = {}
  <2>1. status' = status
    BY <1>7 DEF Settle, Skip, Crash, subscription
  <2>2. CASE Settle(w)
    BY <1>6, <2>1, <2>2, SettleIs
  <2>3. CASE Skip(w) \/ Crash(w)
    BY <1>2, <2>1, <2>3 DEF Skip, Crash, ledger
  <2> QED BY <1>7, <2>2, <2>3
<1>8. ASSUME NEW w \in Workers, NEW o \in Outcomes, Consume(w, o) \/ Execute(w, o)
      PROVE  DOMAIN delivery' = {}
  <2>1. status' = status
    BY <1>8 DEF Consume, Execute, subscription
  <2>2. CASE delivery' = delivery
    BY <1>2, <2>1, <2>2
  <2> QED BY <1>6, <1>8, <2>1, <2>2, ExecuteIs DEF Consume, ledger
<1>9. ASSUME NEW d \in DOMAIN delivery, Expire(d) \/ Wait(d) PROVE DOMAIN delivery' = {}
  <2>1. status = "none"
    BY <1>9 DEF Expire, Wait, Timed, subscription
  <2> QED BY <1>1, <1>9, <2>1
<1>10. CASE \E d \in deadLetter : Requeue(d) \/ Resolve(d)
  <2>1. status = "none" /\ deadLetter # {}
    BY <1>10 DEF Requeue, Resolve, subscription
  <2> QED BY <1>1, <2>1 DEF TypeOK
<1>11. CASE \E s \in Streams : \E from \in DOMAIN stream[s] :
              \E through \in from..Len(stream[s]) : Redeliver(s, from, through)
  BY <1>11 DEF Redeliver, subscription
<1> QED BY <1>3, <1>4, <1>5, <1>7, <1>8, <1>9, <1>10, <1>11 DEF Next

\* The subscription and the histories.
SubscriptionTypes ==
    /\ status \in Statuses /\ begin \in [Streams -> Nat] /\ end \in [Streams -> Nat]
    /\ registered \in [Streams -> Nat] /\ retired \in [Streams -> Nat]

LEMMA StartTyped ==
    ASSUME DeliveryAssumption, NEW n \in Nat
    PROVE  StartAfter(n) \in Nat \ {0}
BY DEF StartAfter, Latest, DeliveryAssumption

LEMMA SubscriptionStep ==
    ASSUME DeliveryAssumption, TypeOK, Next
    PROVE  SubscriptionTypes'
<1>1. CASE UNCHANGED <<subscription, history>>
  BY <1>1 DEF TypeOK, SubscriptionTypes, subscription, history
<1>2. \A s \in Streams : Len(stream[s]) \in Nat /\ StartAfter(Len(stream[s])) \in Nat
  BY StartTyped, SMTT(40) DEF TypeOK
<1>3. ASSUME NEW e \in Events, AppendEvent(e) PROVE SubscriptionTypes'
  <2> DEFINE s == StreamOf[e]
             first == IF begin[s] # 0 THEN begin[s] ELSE StartAfter((Len(stream[s]) + 1) - 1)
  <2>1. s \in Streams /\ first \in Nat
    <3>1. s \in Streams
      BY DEF DeliveryAssumption
    <3>2. (Len(stream[s]) + 1) - 1 = Len(stream[s]) /\ begin[s] \in Nat
      BY <1>2, <3>1 DEF TypeOK
    <3> QED BY <1>2, <3>1, <3>2
  <2>2. begin' = begin \/ begin' = [begin EXCEPT ![s] = first]
    BY <1>3 DEF AppendEvent
  <2> HIDE DEF first, s
  <2>3. begin' \in [Streams -> Nat]
    BY <2>1, <2>2, ZenonT(60) DEF TypeOK
  <2> QED BY <1>3, <2>3 DEF AppendEvent, TypeOK, SubscriptionTypes, history
<1>4. CASE Register
  <2>1. begin' \in [Streams -> Nat] /\ registered' \in [Streams -> Nat]
    BY <1>2, <1>4 DEF Register
  <2> QED BY <1>4, <2>1 DEF Register, TypeOK, SubscriptionTypes, Statuses
<1>5. CASE Pause \/ Resume
  BY <1>5 DEF Pause, Resume, TypeOK, SubscriptionTypes, Statuses, history
<1>6. CASE Retire
  <2>1. end' \in [Streams -> Nat] /\ retired' \in [Streams -> Nat]
    BY <1>2, <1>6 DEF Retire
  <2> QED BY <1>6, <2>1 DEF Retire, TypeOK, SubscriptionTypes, Statuses
<1>7. CASE Cancel
  BY <1>1, <1>7 DEF Cancel
<1>8. ASSUME NEW w \in Workers,
             \/ (\E scope : Claim(w, scope)) \/ Settle(w) \/ Skip(w) \/ Crash(w)
             \/ \E o \in Outcomes : Consume(w, o) \/ Execute(w, o)
      PROVE  UNCHANGED <<subscription, history>>
  BY <1>8 DEF Claim, Settle, Skip, Crash, Consume, Execute
<1>9. CASE \/ \E d \in DOMAIN delivery : Expire(d) \/ Wait(d)
           \/ \E d \in deadLetter : Requeue(d) \/ Resolve(d)
           \/ \E s \in Streams : \E from \in DOMAIN stream[s] :
                 \E through \in from..Len(stream[s]) : Redeliver(s, from, through)
  BY <1>1, <1>9 DEF Expire, Wait, Timed, Requeue, Resolve, Redeliver
<1> QED BY <1>1, <1>3, <1>4, <1>5, <1>6, <1>7, <1>8, <1>9 DEF Next

\* What a step may add to the effects.
LEMMA AppliedStep ==
    ASSUME DeliveryAssumption, TypeOK, Held, Next
    PROVE  \/ applied' = applied
           \/ \E w \in Workers : /\ worker[w].batch # <<>>
                                 /\ applied' = Append(applied, Current(w).delivery[1])
<1>1. ASSUME NEW w \in Workers, NEW o \in Outcomes, Consume(w, o) \/ Execute(w, o)
      PROVE  \/ applied' = applied
             \/ worker[w].batch # <<>> /\ applied' = Append(applied, Current(w).delivery[1])
  BY <1>1, ExecuteIs DEF Consume, Settling
<1>2. CASE \E w \in Workers : (\E scope : Claim(w, scope)) \/ Settle(w) \/ Skip(w) \/ Crash(w)
  BY <1>2 DEF Claim, Settle, Skip, Crash
<1>3. CASE (\E e \in Events : AppendEvent(e)) \/ Register \/ Pause \/ Resume \/ Retire \/ Cancel
  BY <1>3 DEF AppendEvent, Register, Pause, Resume, Retire, Cancel
<1>4. CASE \/ \E d \in DOMAIN delivery : Expire(d) \/ Wait(d)
           \/ \E d \in deadLetter : Requeue(d) \/ Resolve(d)
           \/ \E s \in Streams : \E from \in DOMAIN stream[s] :
                 \E through \in from..Len(stream[s]) : Redeliver(s, from, through)
  BY <1>4 DEF Expire, Wait, Timed, Requeue, Resolve, Redeliver
<1> QED BY <1>1, <1>2, <1>3, <1>4 DEF Next

LEMMA CoreInit == ASSUME DeliveryAssumption, Init PROVE Core
<1>1. DOMAIN delivery = {}
  BY DEF Init
<1>2. delivery \in [DOMAIN delivery -> RecordType] /\ IsFiniteSet(DOMAIN delivery)
  BY <1>1, FS_EmptySet DEF Init
<1>3. \A w \in Workers : worker[w] = IdleWorker /\ worker[w].batch = <<>>
  BY DEF Init, IdleWorker
<1>4. worker \in [Workers -> WorkerType]
  <2>1. IdleWorker \in WorkerType
    BY DEF IdleWorker, WorkerType
  <2> QED BY <2>1 DEF Init
<1>5. /\ stream \in [Streams -> Seq(Events)] /\ applied \in Seq(Events)
      /\ begin \in [Streams -> Nat] /\ end \in [Streams -> Nat]
      /\ registered \in [Streams -> Nat] /\ retired \in [Streams -> Nat]
      /\ status = "none" /\ deadLetter = {}
  BY DEF Init
<1>6. TypeOK
  BY <1>1, <1>2, <1>4, <1>5 DEF TypeOK, Statuses
<1>7. Placed
  BY DEF Init, Placed
<1>8. Numbered(delivery)
  <2> SUFFICES ASSUME NEW e \in Events
               PROVE  Generations(delivery, e) = {e} \X (1..Cardinality(Generations(delivery, e)))
    BY DEF Numbered
  <2>1. Generations(delivery, e) = {}
    BY <1>1 DEF Generations
  <2>2. Cardinality({}) = 0
    BY FS_EmptySet
  <2> QED BY <2>1, <2>2
<1>9. Keyed /\ Lives /\ Empty /\ Letters
  BY <1>1, <1>5 DEF Keyed, Lives, Empty, Letters
<1>10. Held
  BY <1>3 DEF Held
<1> QED BY <1>6, <1>7, <1>8, <1>9, <1>10 DEF Core

LEMMA CoreStep ==
    ASSUME DeliveryAssumption, Core, [Next]_vars
    PROVE  Core'
<1>1. CASE UNCHANGED vars
  <2>1. /\ UNCHANGED <<stream, status, begin, end, delivery, deadLetter, worker, applied>>
        /\ UNCHANGED <<registered, retired>>
    BY <1>1 DEF vars, subscription, ledger, history
  <2>2. Stored' = Stored
    BY <2>1 DEF Stored
  <2> QED BY <2>1, <2>2 DEF Core, TypeOK, Placed, Keyed, Numbered, Generations, Lives, Held, Empty, Letters
<1>2. CASE Next
  <2>0. TypeOK /\ Placed /\ Held
    BY DEF Core
  <2>1. stream' \in [Streams -> Seq(Events)] /\ Placed' /\ Kept
    BY <1>2, <2>0, StreamStep
  <2>2. Shape
    BY <1>2, ShapeStep
  <2>3. /\ DOMAIN delivery' \subseteq Events \X Nat /\ IsFiniteSet(DOMAIN delivery')
        /\ delivery' \in [DOMAIN delivery' -> RecordType]
        /\ Numbered(delivery') /\ Lives' /\ Keyed'
    BY <2>1, <2>2, ShapeFacts
  <2>4. deadLetter' \subseteq DOMAIN delivery' /\ Letters'
    BY <1>2, <2>1, <2>2, LettersStep
  <2>5. worker' \in [Workers -> WorkerType] /\ Held'
    BY <1>2, <2>1, <2>2, HeldStep
  <2>6. Empty'
    BY <1>2, EmptyStep
  <2>7. SubscriptionTypes'
    BY <1>2, <2>0, SubscriptionStep
  <2>8. applied' \in Seq(Events)
    <3>1. \A w \in Workers : worker[w].batch # <<>> => Current(w).delivery[1] \in Events
      BY <2>0, WorkerFacts DEF TypeOK
    <3>2. applied \in Seq(Events)
      BY <2>0 DEF TypeOK
    <3>3. CASE applied' = applied
      BY <3>2, <3>3
    <3>4. ASSUME NEW w \in Workers, worker[w].batch # <<>>,
                 applied' = Append(applied, Current(w).delivery[1])
          PROVE  applied' \in Seq(Events)
      <4>1. PICK e \in Events : e = Current(w).delivery[1]
        BY <3>1, <3>4
      <4> QED BY <3>2, <3>4, <4>1
    <3> QED BY <1>2, <2>0, <3>3, <3>4, AppliedStep
  <2>9. TypeOK'
    BY <2>1, <2>3, <2>4, <2>5, <2>7, <2>8 DEF TypeOK, SubscriptionTypes
  <2>10. Numbered(delivery)'
    BY <2>3 DEF Numbered, Generations
  <2> QED BY <2>1, <2>3, <2>4, <2>5, <2>6, <2>9, <2>10 DEF Core
<1> QED BY <1>1, <1>2


\* The invariant at a step.
LEMMA CoreNext ==
    ASSUME DeliveryAssumption, Core, Next
    PROVE  Kept /\ Shape /\ stream' \in [Streams -> Seq(Events)]
<1>1. TypeOK /\ Placed
  BY DEF Core
<1> QED BY <1>1, StreamStep, ShapeStep

-----------------------------------------------------------------------------
(* What is settled stays settled.                                           *)

LEMMA FinalStep ==
    ASSUME DeliveryAssumption, Core, [Next]_vars
    PROVE  \A d \in DOMAIN delivery :
              delivery[d].state \in Settled => delivery'[d].state = delivery[d].state
<1>1. CASE UNCHANGED vars
  BY <1>1 DEF vars, ledger
<1>2. CASE Next
  BY <1>2, CoreNext, ShapeFacts DEF Moved
<1> QED BY <1>1, <1>2

LEMMA CoreHolds == ASSUME DeliveryAssumption PROVE Spec => []Core
<1>1. Init => Core
  BY CoreInit
<1>2. Core /\ [Next]_vars => Core'
  BY CoreStep
<1> QED BY <1>1, <1>2, PTL DEF Spec

\* No settlement, recovery, cancellation or repair reopens a delivery that was
\* acked, dropped or dead-lettered.
THEOREM Final == Spec => TerminalIsFinal
<1>1. Core /\ [Next]_vars =>
        [\A d \in DOMAIN delivery :
            delivery[d].state \in Settled => delivery'[d].state = delivery[d].state]_vars
  BY FinalStep, DeliveryAssumption
<1>2. Spec => []Core
  BY CoreHolds, DeliveryAssumption
<1> QED BY <1>1, <1>2, PTL DEF Spec, TerminalIsFinal

-----------------------------------------------------------------------------
(* The checkpoint is the frontier.                                          *)

LEMMA FrontierNow ==
    CheckpointIsFrontier <=> \A s \in Streams : IsFrontier(checkpoint[s], delivery, s)
BY DEF CheckpointIsFrontier, IsFrontier, SettledUpTo

\* With the streams as they were, a ledger and its checkpoints are enough.
LEMMA FrontierNext ==
    ASSUME stream' = stream, \A s \in Streams : IsFrontier(checkpoint'[s], delivery', s)
    PROVE  CheckpointIsFrontier'
<1>1. \A e : SequenceOf(e)' = SequenceOf(e)
  BY SameStreams
<1>2. ASSUME NEW s \in Streams
      PROVE  {n \in 1..Len(stream'[s]) :
                /\ <<stream'[s][n], 1>> \in DOMAIN delivery'
                /\ \A d \in FirstIn(delivery', s) :
                      SequenceOf(d[1])' <= n => delivery'[d].state \in Settled}
               = SettledUpTo(delivery', s)
  BY <1>1 DEF SettledUpTo
<1> QED BY <1>2 DEF CheckpointIsFrontier, IsFrontier

\* Only first deliveries count.
LEMMA SameFirsts ==
    ASSUME NEW D, NEW E, \A d : d[2] = 1 => (d \in DOMAIN D <=> d \in DOMAIN E),
           \A d \in DOMAIN D : d[2] = 1 => (D[d].state \in Settled <=> E[d].state \in Settled),
           NEW s
    PROVE  \A c : IsFrontier(c, D, s) <=> IsFrontier(c, E, s)
<1>1. FirstIn(D, s) = FirstIn(E, s)
  BY DEF FirstIn
<1>2. \A d \in FirstIn(D, s) : D[d].state \in Settled <=> E[d].state \in Settled
  BY DEF FirstIn
<1>3. \A n : <<stream[s][n], 1>> \in DOMAIN D <=> <<stream[s][n], 1>> \in DOMAIN E
  <2> SUFFICES ASSUME NEW n
               PROVE  <<stream[s][n], 1>> \in DOMAIN D <=> <<stream[s][n], 1>> \in DOMAIN E
    OBVIOUS
  <2> DEFINE d == <<stream[s][n], 1>>
  <2>1. d[2] = 1
    OBVIOUS
  <2> HIDE DEF d
  <2>2. d \in DOMAIN D <=> d \in DOMAIN E
    BY <2>1
  <2> QED BY <2>2 DEF d
<1>4. SettledUpTo(D, s) = SettledUpTo(E, s)
  BY <1>1, <1>2, <1>3 DEF SettledUpTo
<1> QED BY <1>4 DEF IsFrontier

LEMMA FrontierAppend ==
    ASSUME DeliveryAssumption, Core, CheckpointIsFrontier, NEW e \in Events, AppendEvent(e)
    PROVE  CheckpointIsFrontier'
<1> DEFINE x == StreamOf[e]
           top == Len(stream[x])
<1>0. TypeOK /\ Placed /\ Keyed /\ Numbered(delivery) /\ Lives
  BY DEF Core
<1>1. e \notin Stored /\ stream' = [stream EXCEPT ![x] = Append(@, e)] /\ checkpoint' = checkpoint
  BY DEF AppendEvent
<1>2. /\ Kept /\ SequenceOf(e)' = top + 1
      /\ Len(stream'[x]) = top + 1 /\ \A s \in Streams : s # x => stream'[s] = stream[s]
      /\ \A n \in 1..top : stream'[x][n] = stream[x][n]
      /\ stream'[x][top + 1] = e
  BY <1>0, <1>1, GrownStream
<1>3. PICK new \in SUBSET {<<e, 1>>} : delivery' = WithPending(delivery, new)
  BY <1>0, AppendFacts
<1>4. new \in SUBSET Nexts
  BY <1>0, <1>3, AppendFacts
<1>5. /\ DOMAIN delivery' = DOMAIN delivery \cup new
      /\ \A d \in DOMAIN delivery : delivery'[d] = delivery[d]
      /\ \A d \in new : delivery'[d] = Pending
  BY <1>0, <1>3, <1>4, GrowFacts
<1>6. \A s \in Streams : Len(stream[s]) \in Nat /\ DOMAIN stream[s] = 1..Len(stream[s])
  BY <1>0 DEF TypeOK
<1>a. ASSUME NEW s \in Streams
      PROVE  \/ Len(stream'[s]) = Len(stream[s])
             \/ s = x /\ Len(stream'[s]) = Len(stream[s]) + 1
  BY <1>2
<1>b. ASSUME NEW s \in Streams, NEW n \in 1..Len(stream[s])
      PROVE  n \in 1..Len(stream'[s]) /\ stream'[s][n] = stream[s][n]
  <2>1. CASE s = x
    BY <1>2, <1>6, <2>1, SMTT(30)
  <2>2. CASE s # x
    BY <1>2, <2>2
  <2> QED BY <2>1, <2>2
<1>7. ASSUME NEW s \in Streams, NEW d \in FirstIn(delivery, s)
      PROVE  SequenceOf(d[1])' = SequenceOf(d[1])
  BY <1>0, <1>2, <1>7, FirstInFacts DEF Kept
<1>8. ASSUME NEW s \in Streams
      PROVE  /\ FirstIn(delivery', s) \subseteq FirstIn(delivery, s) \cup {<<e, 1>>}
             /\ FirstIn(delivery, s) \subseteq FirstIn(delivery', s)
             /\ s # x => <<e, 1>> \notin FirstIn(delivery', s)
  BY <1>5 DEF FirstIn
<1>9. ASSUME NEW s \in Streams, NEW n \in 1..Len(stream[s])
      PROVE  n \in SettledUpTo(delivery, s)' <=> n \in SettledUpTo(delivery, s)
  <2>1. n \in 1..Len(stream'[s]) /\ stream'[s][n] = stream[s][n]
    BY <1>b
  <2>2. stream[s][n] # e
    BY <1>1, <1>6 DEF Stored, ToSet
  <2>3. <<stream'[s][n], 1>> \in DOMAIN delivery' <=> <<stream[s][n], 1>> \in DOMAIN delivery
    BY <1>5, <2>1, <2>2
  <2>4. <<e, 1>> \in FirstIn(delivery', s) => ~(SequenceOf(e)' <= n)
    BY <1>2, <1>6, <1>8, SMTT(30)
  <2>5. \A d \in FirstIn(delivery, s) : delivery'[d] = delivery[d]
    BY <1>5 DEF FirstIn
  <2>6. (\A d \in FirstIn(delivery', s) : SequenceOf(d[1])' <= n => delivery'[d].state \in Settled)
          <=> (\A d \in FirstIn(delivery, s) : SequenceOf(d[1]) <= n => delivery[d].state \in Settled)
    BY <1>7, <1>8, <2>4, <2>5, SMTT(30)
  <2> QED BY <2>1, <2>3, <2>6 DEF SettledUpTo
<1>10. top + 1 \notin SettledUpTo(delivery, x)'
  <2> SUFFICES ASSUME <<e, 1>> \in DOMAIN delivery', x \in Streams,
                      \A d \in FirstIn(delivery', x) :
                         SequenceOf(d[1])' <= top + 1 => delivery'[d].state \in Settled
               PROVE  FALSE
    BY <1>2 DEF SettledUpTo, DeliveryAssumption
  <2>1. <<e, 1>> \in FirstIn(delivery', x)
    BY DEF FirstIn
  <2>2. delivery'[<<e, 1>>] = Pending
    <3>1. <<e, 1>> \notin DOMAIN delivery
      BY <1>0, AppendFacts
    <3> QED BY <1>5, <3>1
  <2>3. SequenceOf(e)' <= top + 1
    BY <1>2, <1>6
  <2>4. Pending.state \in Settled
    BY <2>1, <2>2, <2>3
  <2> QED BY <2>4 DEF Pending, Settled
<1>11. ASSUME NEW s \in Streams PROVE SettledUpTo(delivery, s)' = SettledUpTo(delivery, s)
  <2>1. SettledUpTo(delivery, s)' \subseteq 1..Len(stream'[s])
    BY DEF SettledUpTo
  <2>2. SettledUpTo(delivery, s) \subseteq 1..Len(stream[s])
    BY DEF SettledUpTo
  <2>3. \A n \in 1..Len(stream'[s]) : n \in 1..Len(stream[s]) \/ (s = x /\ n = top + 1)
    <3>1. Len(stream[s]) \in Nat
      BY <1>6
    <3>2. CASE Len(stream'[s]) = Len(stream[s])
      BY <3>2
    <3>3. CASE s = x /\ Len(stream'[s]) = Len(stream[s]) + 1
      <4>1. top = Len(stream[s]) /\ Len(stream'[s]) = top + 1 /\ top \in Nat
        BY <3>1, <3>3
      <4> HIDE DEF top, x
      <4>2. \A n \in 1..(top + 1) : n \in 1..top \/ n = top + 1
        BY <4>1, SMTT(30)
      <4> QED BY <3>3, <4>1, <4>2
    <3> QED BY <1>a, <3>2, <3>3
  <2>4. s = x => top + 1 \notin SettledUpTo(delivery, s)'
    BY <1>10
  <2>5. \A n \in SettledUpTo(delivery, s)' : n \in 1..Len(stream[s])
    BY <2>1, <2>3, <2>4
  <2>6. \A n \in 1..Len(stream[s]) : n \in SettledUpTo(delivery, s)' <=> n \in SettledUpTo(delivery, s)
    BY <1>9
  <2> HIDE DEF top, x
  <2> QED BY <2>2, <2>5, <2>6
<1>12. \A s \in Streams : IsFrontier(checkpoint[s], delivery, s)
  BY FrontierNow
<1>13. \A s \in Streams : IsFrontier(checkpoint[s], delivery, s)'
  BY <1>1, <1>11, <1>12 DEF IsFrontier
<1> QED BY <1>13 DEF CheckpointIsFrontier, IsFrontier, SettledUpTo

\* Steps that neither settle a first delivery nor add one.
LEMMA FrontierIdle ==
    ASSUME CheckpointIsFrontier, stream' = stream, checkpoint' = checkpoint,
           \A d : d[2] = 1 => (d \in DOMAIN delivery' <=> d \in DOMAIN delivery),
           \A d \in DOMAIN delivery :
              d[2] = 1 => (delivery'[d].state \in Settled <=> delivery[d].state \in Settled)
    PROVE  CheckpointIsFrontier'
<1>1. \A s \in Streams : IsFrontier(checkpoint[s], delivery, s)
  BY FrontierNow
<1>2. \A s \in Streams : IsFrontier(checkpoint[s], delivery', s)
  BY <1>1, SameFirsts
<1> QED BY <1>2, FrontierNext

LEMMA FrontierRegister ==
    ASSUME DeliveryAssumption, Core, CheckpointIsFrontier, Register
    PROVE  CheckpointIsFrontier'
<1>0. TypeOK /\ Placed /\ Numbered(delivery) /\ Empty /\ Lives
  BY DEF Core
<1>1. stream' = stream /\ checkpoint' = checkpoint
  BY DEF Register
<1>2. /\ Backfilled \subseteq Nexts /\ delivery' = WithPending(delivery, Backfilled)
      /\ DOMAIN delivery = {}
  BY <1>0, RegisterFacts
<1>3. \A d \in DOMAIN delivery' : delivery'[d].state \notin Settled
  <2>1. \A d \in DOMAIN delivery' : delivery'[d] = Pending
    BY <1>0, <1>2, GrowFacts
  <2> QED BY <2>1 DEF Pending, Settled
<1>4. ASSUME NEW s \in Streams PROVE IsFrontier(checkpoint'[s], delivery', s)
  <2>1. SettledUpTo(delivery, s) = {}
    BY <1>2 DEF SettledUpTo
  <2>2. checkpoint[s] = 0
    BY <2>1, FrontierNow DEF IsFrontier
  <2>3. ASSUME NEW n \in 1..Len(stream[s]), <<stream[s][n], 1>> \in DOMAIN delivery'
        PROVE  \E d \in FirstIn(delivery', s) : SequenceOf(d[1]) <= n /\ delivery'[d].state \notin Settled
    <3>1. n \in DOMAIN stream[s]
      BY <1>0, SMTT(30) DEF TypeOK
    <3>2. SequenceOf(stream[s][n]) = n /\ StreamOf[stream[s][n]] = s
      BY <1>0, <3>1, SequenceIs DEF Placed
    <3>3. <<stream[s][n], 1>> \in FirstIn(delivery', s)
      BY <2>3, <3>2 DEF FirstIn
    <3>4. n <= n
      OBVIOUS
    <3> QED BY <1>3, <2>3, <3>2, <3>3, <3>4
  <2>4. SettledUpTo(delivery', s) = {}
    BY <2>3 DEF SettledUpTo
  <2> QED BY <1>1, <2>2, <2>4 DEF IsFrontier
<1> QED BY <1>1, <1>4, FrontierNext

\* Steps that settle deliveries and advance the checkpoints of their streams.
LEMMA FrontierAdvance ==
    ASSUME DeliveryAssumption, Core, CheckpointIsFrontier, stream' = stream,
           NEW D, DOMAIN D = DOMAIN delivery, DOMAIN delivery' = DOMAIN delivery,
           \A d \in DOMAIN delivery : D[d].state \in Settled <=> delivery'[d].state \in Settled,
           \A d \in DOMAIN delivery : delivery[d].state \in Settled => D[d].state \in Settled,
           NEW changed,
           \A d \in DOMAIN delivery :
              D[d].state \in Settled => delivery[d].state \in Settled \/ d \in changed,
           checkpoint' = Advanced(D, changed)
    PROVE  CheckpointIsFrontier'
<1>0. TypeOK /\ Placed /\ Keyed
  BY DEF Core
<1>1. \A s \in Streams : IsFrontier(checkpoint'[s], D, s)
  BY <1>0, AdvancedIs
<1>2. \A s \in Streams : IsFrontier(checkpoint'[s], delivery', s)
  BY <1>1, SameFirsts
<1> QED BY <1>2, FrontierNext

LEMMA FrontierClaim ==
    ASSUME DeliveryAssumption, Core, CheckpointIsFrontier, NEW w \in Workers, NEW scope,
           Claim(w, scope)
    PROVE  CheckpointIsFrontier'
<1>0. TypeOK /\ Placed /\ Keyed /\ Lives
  BY DEF Core
<1>1. stream' = stream /\ checkpoint' = Advanced(Recovered, Buried)
  BY DEF Claim
<1>2. /\ Recovered \in [DOMAIN delivery -> RecordType]
      /\ \A d \in DOMAIN delivery :
           /\ Moved(delivery[d], Recovered[d])
           /\ Recovered[d].state \in Settled => delivery[d].state \in Settled \/ d \in Buried
  BY <1>0, RecoveredFacts
<1>3. DOMAIN delivery' = DOMAIN delivery
  BY <1>0, ClaimFacts DEF Changes
<1>4. ASSUME NEW d \in DOMAIN delivery
      PROVE  Recovered[d].state \in Settled <=> delivery'[d].state \in Settled
  <2>1. CASE d \in Taken(w, scope)
    <3>1. delivery'[d].state = "claimed" /\ Recovered[d].state \in {"pending", "retry_wait"}
      BY <1>0, <2>1, ClaimFacts
    <3> QED BY <3>1 DEF Settled
  <2>2. CASE d \notin Taken(w, scope)
    <3>1. delivery'[d] = Recovered[d]
      BY <1>0, <2>2, ClaimFacts
    <3> QED BY <3>1
  <2> QED BY <2>1, <2>2
<1>5. \A d \in DOMAIN delivery : delivery[d].state \in Settled => Recovered[d].state \in Settled
  BY <1>2 DEF Moved
<1>6. DOMAIN Recovered = DOMAIN delivery
  BY <1>2
<1>7. \A d \in DOMAIN delivery :
        Recovered[d].state \in Settled => delivery[d].state \in Settled \/ d \in Buried
  BY <1>2
<1> QED BY <1>1, <1>3, <1>4, <1>5, <1>6, <1>7, FrontierAdvance

LEMMA FrontierCancel ==
    ASSUME DeliveryAssumption, Core, CheckpointIsFrontier, Cancel
    PROVE  CheckpointIsFrontier'
<1>0. TypeOK /\ Placed /\ Keyed /\ Lives
  BY DEF Core
<1>1. stream' = stream /\ checkpoint' = Advanced(delivery', Gone)
  BY DEF Cancel, Gone
<1>2. /\ DOMAIN delivery' = DOMAIN delivery
      /\ \A d \in DOMAIN delivery : delivery[d].state \in Settled => delivery'[d].state \in Settled
      /\ \A d \in DOMAIN delivery : delivery'[d] = delivery[d] \/ d \in Gone
  BY <1>0, CancelFacts DEF Changes, Moved
<1>3. \A d \in DOMAIN delivery : delivery'[d].state \in Settled => delivery[d].state \in Settled \/ d \in Gone
  BY <1>2
<1> QED BY <1>1, <1>2, <1>3, FrontierAdvance

LEMMA FrontierSettle ==
    ASSUME DeliveryAssumption, Core, CheckpointIsFrontier, NEW w \in Workers, Settling(w),
           stream' = stream
    PROVE  CheckpointIsFrontier'
<1>0. TypeOK /\ Placed /\ Keyed /\ Lives /\ Held
  BY DEF Core
<1>1. PICK o \in Outcomes : worker[w].batch # <<>> /\ Settlement(w, o)
  BY DEF Settling
<1>2. PICK d : d = Current(w).delivery
  OBVIOUS
<1>3. /\ Changes /\ d \in DOMAIN delivery
      /\ \A c \in DOMAIN delivery : c # d => delivery'[c] = delivery[c]
      /\ LeaseMatches(w) => /\ delivery[d].state = "claimed"
                            /\ delivery'[d].state = Target(o, delivery[d].attempts)
  BY <1>0, <1>1, <1>2, SettlementFacts
<1>4. /\ DOMAIN delivery' = DOMAIN delivery
      /\ \A c \in DOMAIN delivery : delivery[c].state \in Settled => delivery'[c].state \in Settled
  BY <1>3 DEF Changes, Moved
<1>5. CASE ~LeaseMatches(w)
  <2>1. delivery' = delivery /\ checkpoint' = checkpoint
    BY <1>1, <1>5 DEF Settlement
  <2> QED BY <2>1, FrontierIdle
<1>6. CASE LeaseMatches(w) /\ Target(o, delivery[d].attempts) \in Settled
  <2>1. checkpoint' = Advanced(delivery', {d})
    BY <1>1, <1>2, <1>6 DEF Settlement
  <2>2. \A c \in DOMAIN delivery : delivery'[c].state \in Settled => delivery[c].state \in Settled \/ c \in {d}
    BY <1>3
  <2> QED BY <1>4, <2>1, <2>2, FrontierAdvance
<1>7. CASE LeaseMatches(w) /\ Target(o, delivery[d].attempts) \notin Settled
  <2>1. checkpoint' = checkpoint
    BY <1>1, <1>2, <1>7 DEF Settlement
  <2>2. \A c \in DOMAIN delivery : delivery'[c].state \in Settled => delivery[c].state \in Settled
    BY <1>3, <1>7
  <2> QED BY <1>4, <2>1, <2>2, FrontierIdle
<1> QED BY <1>5, <1>6, <1>7

\* Repairs add later generations.
LEMMA FrontierRepair ==
    ASSUME DeliveryAssumption, Core, CheckpointIsFrontier, stream' = stream, checkpoint' = checkpoint,
           NEW new \in SUBSET Nexts, delivery' = WithPending(delivery, new), \A d \in new : d[2] > 1
    PROVE  CheckpointIsFrontier'
<1>0. TypeOK /\ Numbered(delivery) /\ Lives
  BY DEF Core
<1>1. /\ DOMAIN delivery' = DOMAIN delivery \cup new
      /\ \A d \in DOMAIN delivery : delivery'[d] = delivery[d]
  BY <1>0, GrowFacts
<1>2. \A d \in new : d[2] # 1
  OBVIOUS
<1>3. \A d : d[2] = 1 => (d \in DOMAIN delivery' <=> d \in DOMAIN delivery)
  BY <1>1, <1>2
<1> QED BY <1>1, <1>3, FrontierIdle

LEMMA FrontierStep ==
    ASSUME DeliveryAssumption, Core, CheckpointIsFrontier, [Next]_vars
    PROVE  CheckpointIsFrontier'
<1>0. TypeOK /\ Keyed /\ Numbered(delivery) /\ Letters /\ Held
  BY DEF Core
<1>1. CASE stream' = stream /\ checkpoint' = checkpoint /\ delivery' = delivery
  BY <1>1, FrontierIdle
<1>2. CASE UNCHANGED vars
  BY <1>1, <1>2 DEF vars, ledger
<1>3. ASSUME NEW e \in Events, AppendEvent(e) PROVE CheckpointIsFrontier'
  BY <1>3, FrontierAppend
<1>4. CASE Pause \/ Resume \/ Retire
  BY <1>1, <1>4 DEF Pause, Resume, Retire, ledger
<1>5. ASSUME NEW w \in Workers, Settle(w) \/ Skip(w) \/ Crash(w) PROVE CheckpointIsFrontier'
  <2>1. stream' = stream
    BY <1>5 DEF Settle, Skip, Crash
  <2>2. CASE Settle(w)
    BY <1>0, <2>1, <2>2, SettleIs, FrontierSettle
  <2>3. CASE Skip(w) \/ Crash(w)
    BY <1>1, <2>3 DEF Skip, Crash, ledger
  <2> QED BY <1>5, <2>2, <2>3
<1>6. ASSUME NEW w \in Workers, NEW o \in Outcomes, Consume(w, o) \/ Execute(w, o)
      PROVE  CheckpointIsFrontier'
  <2>1. stream' = stream
    BY <1>6 DEF Consume, Execute
  <2>2. Settling(w) \/ UNCHANGED ledger
    BY <1>6, ExecuteIs DEF Consume
  <2>3. CASE Settling(w)
    BY <2>1, <2>3, FrontierSettle
  <2>4. CASE UNCHANGED ledger
    BY <1>1, <2>1, <2>4 DEF ledger
  <2> QED BY <2>2, <2>3, <2>4
<1>7. ASSUME NEW d \in DOMAIN delivery, Expire(d) \/ Wait(d) PROVE CheckpointIsFrontier'
  <2>1. stream' = stream /\ checkpoint' = checkpoint
    BY <1>7 DEF Expire, Wait, Timed
  <2>2. /\ DOMAIN delivery' = DOMAIN delivery
        /\ \A c \in DOMAIN delivery : delivery'[c].state = delivery[c].state
    BY <1>0, <1>7, TimeFacts DEF Changes
  <2> QED BY <2>1, <2>2, FrontierIdle
<1>8. ASSUME NEW d \in deadLetter, Requeue(d) PROVE CheckpointIsFrontier'
  <2> DEFINE x == <<d[1], NextGeneration(d[1])>>
  <2>1. x \in Nexts /\ delivery' = WithPending(delivery, {x}) /\ x[2] > 1
    BY <1>0, <1>8, RequeueFacts
  <2>2. stream' = stream /\ checkpoint' = checkpoint
    BY <1>8 DEF Requeue
  <2> HIDE DEF x
  <2>3. {x} \in SUBSET Nexts /\ \A y \in {x} : y[2] > 1
    BY <2>1
  <2> QED BY <2>1, <2>2, <2>3, FrontierRepair
<1>9. ASSUME NEW d \in deadLetter, Resolve(d) PROVE CheckpointIsFrontier'
  BY <1>1, <1>9 DEF Resolve
<1>10. ASSUME NEW s \in Streams, NEW from, NEW through, Redeliver(s, from, through)
       PROVE  CheckpointIsFrontier'
  <2>1. /\ Redelivered(s, from, through) \in SUBSET Nexts
        /\ delivery' = WithPending(delivery, Redelivered(s, from, through))
        /\ \A d \in Redelivered(s, from, through) : d[2] > 1
    BY <1>0, <1>10, RedeliverFacts
  <2>2. stream' = stream /\ checkpoint' = checkpoint
    BY <1>10 DEF Redeliver
  <2> QED BY <2>1, <2>2, FrontierRepair
<1> QED BY <1>2, <1>3, <1>4, <1>5, <1>6, <1>7, <1>8, <1>9, <1>10, FrontierRegister, FrontierClaim,
           FrontierCancel DEF Next

LEMMA FrontierInit == ASSUME Init PROVE CheckpointIsFrontier
<1>1. \A s \in Streams : checkpoint[s] = 0 /\ SettledUpTo(delivery, s) = {}
  BY DEF Init, SettledUpTo
<1> QED BY <1>1, FrontierNow DEF IsFrontier

\* Every settlement, recovery and cancellation moves the checkpoint to the last
\* event up to which the first deliveries are settled, and nothing else does.
THEOREM Checkpointed == Spec => []CheckpointIsFrontier
<1>1. Init => CheckpointIsFrontier
  BY FrontierInit
<1>2. Core /\ CheckpointIsFrontier /\ [Next]_vars => CheckpointIsFrontier'
  BY FrontierStep, DeliveryAssumption
<1>3. Spec => []Core
  BY CoreHolds, DeliveryAssumption
<1> QED BY <1>1, <1>2, <1>3, PTL DEF Spec

-----------------------------------------------------------------------------
(* The first deliveries are the subscribed events.                          *)

\* The event at n in stream s is subscribed.
Wanted(s, n) == status # "none" /\ n \in FirstWanted(s)..LastWanted(s) /\ stream[s][n] \in Matching

\* What the subscription has been told of a stream.
Told(s) ==
    /\ registered[s] <= Len(stream[s]) /\ retired[s] <= Len(stream[s])
    /\ status = "none" => begin[s] = 0
    /\ status # "none" /\ begin[s] # 0 => begin[s] = FirstWanted(s)
    /\ status \in {"active", "paused"} /\ begin[s] = 0 => Len(stream[s]) < FirstWanted(s)
    /\ status = "retired" /\ begin[s] # 0 => end[s] = retired[s]

Delivered(s) ==
    \A n \in DOMAIN stream[s] : <<stream[s][n], 1>> \in DOMAIN delivery <=> Wanted(s, n)

Subscribed ==
    /\ \A s \in Streams : Told(s) /\ Delivered(s)
    /\ \A d \in DOMAIN delivery : begin[StreamOf[d[1]]] # 0

LEMMA WantedTyped ==
    ASSUME DeliveryAssumption, TypeOK, NEW s \in Streams
    PROVE  /\ FirstWanted(s) \in Nat /\ FirstWanted(s) >= 1 /\ Len(stream[s]) \in Nat
           /\ DOMAIN stream[s] = 1..Len(stream[s])
           /\ registered[s] \in Nat /\ retired[s] \in Nat /\ begin[s] \in Nat
           /\ LastWanted(s) \in Nat
<1>1. /\ Len(stream[s]) \in Nat /\ DOMAIN stream[s] = 1..Len(stream[s])
      /\ registered[s] \in Nat /\ retired[s] \in Nat /\ begin[s] \in Nat
  BY DEF TypeOK
<1>2. Start \in Nat
  BY DEF DeliveryAssumption
<1> QED BY <1>1, <1>2, SMTT(40) DEF FirstWanted, LastWanted, Latest

\* Every step that is not about the stream or the subscription.
Others ==
    /\ UNCHANGED <<stream, subscription, history>>
    /\ DOMAIN delivery \subseteq DOMAIN delivery'
    /\ \A d \in DOMAIN delivery' \ DOMAIN delivery : d[2] > 1 /\ <<d[1], 1>> \in DOMAIN delivery

LEMMA OtherSteps ==
    ASSUME DeliveryAssumption, Core, Next
    PROVE  \/ Register \/ Pause \/ Resume \/ Retire \/ Others
           \/ \E e \in Events : AppendEvent(e)
<1>0. TypeOK /\ Placed /\ Keyed /\ Numbered(delivery) /\ Letters /\ Held /\ Lives
  BY DEF Core
<1>1. ASSUME UNCHANGED <<stream, subscription, history>>, DOMAIN delivery' = DOMAIN delivery
      PROVE  Others
  BY <1>1 DEF Others
<1>2. CASE Cancel
  <2>1. UNCHANGED <<stream, subscription, history>>
    BY <1>2 DEF Cancel
  <2>2. DOMAIN delivery' = DOMAIN delivery
    BY <1>0, <1>2, CancelFacts DEF Changes
  <2> QED BY <1>1, <2>1, <2>2
<1>3. ASSUME NEW w \in Workers, NEW scope, Claim(w, scope) PROVE Others
  <2>1. UNCHANGED <<stream, subscription, history>>
    BY <1>3 DEF Claim
  <2>2. DOMAIN delivery' = DOMAIN delivery
    BY <1>0, <1>3, ClaimFacts DEF Changes
  <2> QED BY <1>1, <2>1, <2>2
<1>4. ASSUME NEW w \in Workers, Settling(w) PROVE DOMAIN delivery' = DOMAIN delivery
  BY <1>0, <1>4, SettlementFacts DEF Changes, Settling
<1>5. ASSUME NEW w \in Workers, Settle(w) \/ Skip(w) \/ Crash(w) PROVE Others
  <2>1. UNCHANGED <<stream, subscription, history>>
    BY <1>5 DEF Settle, Skip, Crash
  <2>2. DOMAIN delivery' = DOMAIN delivery
    BY <1>0, <1>4, <1>5, SettleIs DEF Skip, Crash, ledger
  <2> QED BY <1>1, <2>1, <2>2
<1>6. ASSUME NEW w \in Workers, NEW o \in Outcomes, Consume(w, o) \/ Execute(w, o) PROVE Others
  <2>1. UNCHANGED <<stream, subscription, history>>
    BY <1>6 DEF Consume, Execute
  <2>2. DOMAIN delivery' = DOMAIN delivery
    BY <1>4, <1>6, ExecuteIs DEF Consume, ledger
  <2> QED BY <1>1, <2>1, <2>2
<1>7. ASSUME NEW d \in DOMAIN delivery, Expire(d) \/ Wait(d) PROVE Others
  <2>1. UNCHANGED <<stream, subscription, history>>
    BY <1>7 DEF Expire, Wait, Timed
  <2>2. DOMAIN delivery' = DOMAIN delivery
    BY <1>0, <1>7, TimeFacts DEF Changes
  <2> QED BY <1>1, <2>1, <2>2
<1>8. ASSUME UNCHANGED <<stream, subscription, history>>, NEW new \in SUBSET Nexts,
             delivery' = WithPending(delivery, new),
             \A d \in new : d[2] > 1 /\ <<d[1], 1>> \in DOMAIN delivery
      PROVE  Others
  <2>1. DOMAIN delivery' = DOMAIN delivery \cup new
    BY <1>0, <1>8, GrowFacts
  <2> QED BY <1>8, <2>1 DEF Others
<1>9. ASSUME NEW d \in deadLetter, Requeue(d) PROVE Others
  <2> DEFINE x == <<d[1], NextGeneration(d[1])>>
  <2>1. /\ x \in Nexts /\ delivery' = WithPending(delivery, {x}) /\ x[2] > 1
        /\ <<x[1], 1>> \in DOMAIN delivery
    BY <1>0, <1>9, RequeueFacts
  <2>2. UNCHANGED <<stream, subscription, history>>
    BY <1>9 DEF Requeue
  <2> HIDE DEF x
  <2>3. {x} \in SUBSET Nexts /\ \A y \in {x} : y[2] > 1 /\ <<y[1], 1>> \in DOMAIN delivery
    BY <2>1
  <2> QED BY <1>8, <2>1, <2>2, <2>3
<1>10. ASSUME NEW d \in deadLetter, Resolve(d) PROVE Others
  BY <1>1, <1>10 DEF Resolve
<1>11. ASSUME NEW s \in Streams, NEW from, NEW through, Redeliver(s, from, through) PROVE Others
  <2>1. /\ Redelivered(s, from, through) \in SUBSET Nexts
        /\ delivery' = WithPending(delivery, Redelivered(s, from, through))
        /\ \A d \in Redelivered(s, from, through) : d[2] > 1 /\ <<d[1], 1>> \in DOMAIN delivery
    BY <1>0, <1>11, RedeliverFacts
  <2>2. UNCHANGED <<stream, subscription, history>>
    BY <1>11 DEF Redeliver
  <2> QED BY <1>8, <2>1, <2>2
<1> QED BY <1>2, <1>3, <1>5, <1>6, <1>7, <1>9, <1>10, <1>11 DEF Next

LEMMA SubscribedOthers ==
    ASSUME DeliveryAssumption, TypeOK, Subscribed, Others
    PROVE  Subscribed'
<1>1. UNCHANGED <<stream, status, begin, end, registered, retired>>
  BY DEF Others, subscription, history
<1>2. \A s \in Streams : Told(s)'
  BY <1>1 DEF Subscribed, Told, FirstWanted
<1>3. ASSUME NEW s \in Streams, NEW n \in DOMAIN stream'[s]
      PROVE  <<stream'[s][n], 1>> \in DOMAIN delivery' <=> Wanted(s, n)'
  <2>1. <<stream[s][n], 1>> \in DOMAIN delivery <=> Wanted(s, n)
    BY <1>1, <1>3 DEF Subscribed, Delivered
  <2>2. Wanted(s, n)' <=> Wanted(s, n)
    BY <1>1 DEF Wanted, FirstWanted, LastWanted
  <2>3. PICK d : d = <<stream[s][n], 1>>
    OBVIOUS
  <2>4. ~(d[2] > 1)
    BY <2>3
  <2>5. d \in DOMAIN delivery' <=> d \in DOMAIN delivery
    BY <2>4 DEF Others
  <2> QED BY <1>1, <2>1, <2>2, <2>3, <2>5
<1>4. ASSUME NEW d \in DOMAIN delivery' PROVE begin[StreamOf[d[1]]] # 0
  <2>1. CASE d \in DOMAIN delivery
    BY <2>1 DEF Subscribed
  <2>2. CASE d \notin DOMAIN delivery
    <3>1. PICK c \in DOMAIN delivery : c = <<d[1], 1>>
      BY <2>2 DEF Others
    <3> QED BY <3>1 DEF Subscribed
  <2> QED BY <2>1, <2>2
<1> QED BY <1>1, <1>2, <1>3, <1>4 DEF Subscribed, Delivered

LEMMA SubscribedStatus ==
    ASSUME DeliveryAssumption, TypeOK, Subscribed, Pause \/ Resume \/ Retire
    PROVE  Subscribed'
<1>1. /\ UNCHANGED <<stream, begin, delivery, registered>>
      /\ status \in {"active", "paused"} /\ status' \in {"active", "paused", "retired"}
  BY DEF Pause, Resume, Retire, ledger, history
<1>2. \/ status' \in {"active", "paused"} /\ UNCHANGED <<end, retired>>
      \/ /\ status' = "retired"
         /\ \A s \in Streams : /\ retired'[s] = Len(stream[s])
                               /\ begin[s] # 0 => end'[s] = Len(stream[s])
  BY DEF Pause, Resume, Retire, history
<1>3. \A s \in Streams : FirstWanted(s)' = FirstWanted(s)
  BY <1>1 DEF FirstWanted
<1>4. \A s \in Streams : LastWanted(s)' = LastWanted(s)
  BY <1>1, <1>2 DEF LastWanted
<1>5. \A s \in Streams : Delivered(s)'
  BY <1>1, <1>3, <1>4 DEF Subscribed, Delivered, Wanted
<1>6. \A s \in Streams : Told(s)'
  <2> SUFFICES ASSUME NEW s \in Streams PROVE Told(s)'
    OBVIOUS
  <2>1. Told(s) /\ Len(stream[s]) \in Nat
    BY WantedTyped DEF Subscribed
  <2>2. CASE status' \in {"active", "paused"} /\ UNCHANGED <<end, retired>>
    BY <1>1, <1>3, <2>1, <2>2 DEF Told
  <2>3. CASE status' = "retired" /\ retired'[s] = Len(stream[s]) /\ (begin[s] # 0 => end'[s] = Len(stream[s]))
    BY <1>1, <1>3, <2>1, <2>3 DEF Told
  <2> QED BY <1>2, <2>2, <2>3
<1> QED BY <1>1, <1>5, <1>6 DEF Subscribed

LEMMA SubscribedRegister ==
    ASSUME DeliveryAssumption, Core, Subscribed, Register
    PROVE  Subscribed'
<1>0. TypeOK /\ Placed /\ Numbered(delivery) /\ Empty /\ Lives
  BY DEF Core
<1>1. /\ UNCHANGED <<stream, end, retired>> /\ status = "none" /\ status' = "active"
      /\ \A s \in Streams : /\ registered'[s] = Len(stream[s])
                            /\ begin'[s] = IF stream[s] # <<>> THEN StartAfter(Len(stream[s])) ELSE 0
  BY DEF Register
<1>2. /\ Backfilled \subseteq Nexts /\ delivery' = WithPending(delivery, Backfilled)
      /\ DOMAIN delivery = {}
  BY <1>0, RegisterFacts
<1>3. DOMAIN delivery' = Backfilled
  BY <1>0, <1>2, GrowFacts
<1>4. ASSUME NEW s \in Streams
      PROVE  /\ FirstWanted(s)' = StartAfter(Len(stream[s])) /\ LastWanted(s)' = Len(stream[s])
             /\ StartAfter(Len(stream[s])) \in Nat \ {0} /\ Len(stream[s]) \in Nat
             /\ DOMAIN stream[s] = 1..Len(stream[s])
             /\ stream[s] = <<>> <=> Len(stream[s]) = 0
             /\ retired[s] <= Len(stream[s])
  <2>1. Len(stream[s]) \in Nat /\ DOMAIN stream[s] = 1..Len(stream[s]) /\ stream[s] \in Seq(Events)
    BY <1>0 DEF TypeOK
  <2>2. FirstWanted(s)' = StartAfter(Len(stream[s])) /\ LastWanted(s)' = Len(stream[s])
    BY <1>1 DEF FirstWanted, LastWanted, StartAfter
  <2>3. StartAfter(Len(stream[s])) \in Nat \ {0}
    BY <2>1, StartTyped
  <2>4. retired[s] <= Len(stream[s])
    BY DEF Subscribed, Told
  <2>5. stream[s] = <<>> <=> Len(stream[s]) = 0
    BY <2>1
  <2> QED BY <2>1, <2>2, <2>3, <2>4, <2>5
<1>5. ASSUME NEW s \in Streams PROVE Told(s)'
  <2>1. PICK k \in Nat \ {0} : k = StartAfter(Len(stream[s]))
    BY <1>4
  <2>2. begin'[s] = (IF stream[s] # <<>> THEN k ELSE 0) /\ FirstWanted(s)' = k
    BY <1>1, <1>4, <2>1
  <2>3. /\ registered'[s] <= Len(stream'[s]) /\ retired'[s] <= Len(stream'[s])
        /\ status' = "active"
    BY <1>1, <1>4
  <2>4. begin'[s] # 0 => begin'[s] = FirstWanted(s)'
    BY <2>2
  <2>5. begin'[s] = 0 => Len(stream'[s]) < FirstWanted(s)'
    <3>1. begin'[s] = 0 => stream[s] = <<>>
      BY <2>1, <2>2
    <3> QED BY <1>1, <1>4, <2>1, <2>2, <3>1
  <2> QED BY <2>3, <2>4, <2>5 DEF Told
<1>6. ASSUME NEW s \in Streams, NEW n \in Backfill(s)
      PROVE  n \in DOMAIN stream[s] /\ StreamOf[stream[s][n]] = s /\ stream[s] # <<>>
  <2>1. n \in StartAfter(Len(stream[s]))..Len(stream[s])
    BY DEF Backfill
  <2>2. n \in DOMAIN stream[s] /\ Len(stream[s]) # 0
    BY <1>4, <2>1, SMTT(30)
  <2> QED BY <1>0, <1>4, <2>2 DEF Placed
<1>7. \A d \in Backfilled : /\ d[1] \in Matching
                            /\ \E s \in Streams : \E n \in Backfill(s) : d = <<stream[s][n], 1>>
  BY DEF Backfilled
<1>8. ASSUME NEW s \in Streams, NEW n \in DOMAIN stream[s]
      PROVE  <<stream[s][n], 1>> \in Backfilled <=> n \in Backfill(s) /\ stream[s][n] \in Matching
  <2>1. ASSUME <<stream[s][n], 1>> \in Backfilled PROVE n \in Backfill(s) /\ stream[s][n] \in Matching
    <3>1. PICK t \in Streams : \E m \in Backfill(t) : <<stream[s][n], 1>> = <<stream[t][m], 1>>
      BY <1>7, <2>1
    <3>2. PICK m \in Backfill(t) : stream[s][n] = stream[t][m]
      BY <3>1
    <3>3. t = s
      BY <1>0, <1>6, <3>2 DEF Placed
    <3>4. m = n
      BY <1>0, <1>6, <3>2, <3>3 DEF Placed
    <3> QED BY <1>7, <2>1, <3>3, <3>4
  <2>2. ASSUME n \in Backfill(s), stream[s][n] \in Matching PROVE <<stream[s][n], 1>> \in Backfilled
    <3>1. s \in {x \in Streams : stream[x] # <<>>}
      BY <1>6, <2>2
    <3> QED BY <2>2, <3>1 DEF Backfilled
  <2> QED BY <2>1, <2>2
<1>9. ASSUME NEW s \in Streams PROVE Delivered(s)'
  <2>1. Backfill(s) = FirstWanted(s)'..LastWanted(s)'
    BY <1>4 DEF Backfill
  <2>2. status' # "none"
    BY <1>1
  <2> QED BY <1>1, <1>3, <1>8, <2>1, <2>2 DEF Delivered, Wanted
<1>10. ASSUME NEW d \in DOMAIN delivery' PROVE begin'[StreamOf[d[1]]] # 0
  <2>1. PICK s \in Streams : \E n \in Backfill(s) : d = <<stream[s][n], 1>>
    BY <1>3, <1>7
  <2>2. StreamOf[d[1]] = s /\ stream[s] # <<>>
    BY <1>6, <2>1
  <2> QED BY <1>1, <1>4, <2>2
<1> QED BY <1>5, <1>9, <1>10 DEF Subscribed

LEMMA SubscribedAppend ==
    ASSUME DeliveryAssumption, Core, Subscribed, NEW e \in Events, AppendEvent(e)
    PROVE  Subscribed'
<1> DEFINE x == StreamOf[e]
           top == Len(stream[x])
           told == status \in {"active", "paused"} /\ FirstWanted(x) <= top + 1
<1>0. TypeOK /\ Placed /\ Keyed /\ Numbered(delivery) /\ Lives /\ Empty
  BY DEF Core
<1>1. /\ e \notin Stored /\ stream' = [stream EXCEPT ![x] = Append(@, e)]
      /\ UNCHANGED <<status, end, registered, retired>>
  BY DEF AppendEvent, history
<1>2. /\ Len(stream'[x]) = top + 1 /\ \A s \in Streams : s # x => stream'[s] = stream[s]
      /\ \A n \in 1..top : stream'[x][n] = stream[x][n]
      /\ stream'[x][top + 1] = e /\ stream' \in [Streams -> Seq(Events)]
  BY <1>0, <1>1, GrownStream
<1>3. x \in Streams
  BY DEF DeliveryAssumption
<1>4. /\ FirstWanted(x) \in Nat /\ FirstWanted(x) >= 1 /\ top \in Nat
      /\ begin[x] \in Nat /\ registered[x] \in Nat /\ retired[x] \in Nat
      /\ DOMAIN stream[x] = 1..top /\ Told(x)
  BY <1>0, <1>3, WantedTyped DEF Subscribed
<1>5. \A s \in Streams : FirstWanted(s)' = FirstWanted(s)
  BY <1>1 DEF FirstWanted
\* The append sees the start that the subscription was told.
<1>6. status \in {"active", "paused"} =>
        (IF begin[x] # 0 THEN begin[x] ELSE StartAfter((top + 1) - 1)) = FirstWanted(x)
  <2> SUFFICES ASSUME status \in {"active", "paused"}
               PROVE  (IF begin[x] # 0 THEN begin[x] ELSE StartAfter((top + 1) - 1)) = FirstWanted(x)
    OBVIOUS
  <2>1. CASE begin[x] # 0
    BY <1>4, <2>1 DEF Told
  <2>2. CASE begin[x] = 0 /\ Start = Latest
    <3>1. FirstWanted(x) = registered[x] + 1 /\ registered[x] <= top /\ top < FirstWanted(x)
      BY <1>4, <2>2 DEF Told, FirstWanted
    <3>2. StartAfter((top + 1) - 1) = top + 1
      BY <1>4, <2>2 DEF StartAfter
    <3> HIDE DEF top, x
    <3> QED BY <1>4, <2>2, <3>1, <3>2, SMTT(30)
  <2>3. CASE begin[x] = 0 /\ Start # Latest
    BY <2>3 DEF StartAfter, FirstWanted
  <2> QED BY <2>1, <2>2, <2>3
<1>7. /\ told => begin' = [begin EXCEPT ![x] = FirstWanted(x)]
      /\ ~told => begin' = begin
      /\ told /\ e \in Matching => delivery' = WithPending(delivery, {<<e, 1>>})
      /\ ~(told /\ e \in Matching) => delivery' = delivery
  <2>1. PICK first : first = IF begin[x] # 0 THEN begin[x] ELSE StartAfter((top + 1) - 1)
    OBVIOUS
  <2>2. LET subscribed == status \in {"active", "paused"} /\ first <= top + 1
        IN  /\ begin' = IF subscribed THEN [begin EXCEPT ![x] = first] ELSE begin
            /\ IF subscribed /\ e \in Matching
               THEN delivery' = WithPending(delivery, {<<e, 1>>})
               ELSE delivery' = delivery
    BY <2>1 DEF AppendEvent
  <2>3. status \in {"active", "paused"} => first = FirstWanted(x)
    BY <1>6, <2>1
  <2> HIDE DEF x, top
  <2> QED BY <2>2, <2>3
<1>8. <<e, 1>> \in Nexts /\ \A d \in DOMAIN delivery : d[1] # e
  BY <1>0, AppendFacts
<1>9. /\ \A d : d # <<e, 1>> => (d \in DOMAIN delivery' <=> d \in DOMAIN delivery)
      /\ <<e, 1>> \in DOMAIN delivery' <=> told /\ e \in Matching
  <2>1. CASE told /\ e \in Matching
    <3>1. {<<e, 1>>} \in SUBSET Nexts
      BY <1>8
    <3>2. DOMAIN delivery' = DOMAIN delivery \cup {<<e, 1>>}
      BY <1>0, <1>7, <2>1, <3>1, GrowFacts
    <3> QED BY <2>1, <3>2
  <2>2. CASE ~(told /\ e \in Matching)
    <3>1. delivery' = delivery
      BY <1>7, <2>2
    <3>2. <<e, 1>> \notin DOMAIN delivery
      BY <1>8
    <3> QED BY <2>2, <3>1, <3>2
  <2> QED BY <2>1, <2>2
<1>10. /\ begin'[x] = IF told THEN FirstWanted(x) ELSE begin[x]
       /\ \A s \in Streams : s # x => begin'[s] = begin[s]
  BY <1>0, <1>3, <1>7 DEF TypeOK
<1>11. \A s \in Streams : Told(s)'
  <2> SUFFICES ASSUME NEW s \in Streams PROVE Told(s)'
    OBVIOUS
  <2>1. CASE s # x
    <3>1. Told(s) /\ stream'[s] = stream[s] /\ begin'[s] = begin[s] /\ FirstWanted(s)' = FirstWanted(s)
      BY <1>2, <1>5, <1>10, <2>1 DEF Subscribed
    <3> QED BY <1>1, <3>1 DEF Told
  <2>2. CASE s = x
    <3>1. told => begin[x] = 0 \/ begin[x] = FirstWanted(x)
      BY <1>4 DEF Told
    <3>2. /\ registered[x] <= top + 1 /\ retired[x] <= top + 1
          /\ status = "none" => begin[x] = 0
          /\ status # "none" /\ begin[x] # 0 => begin[x] = FirstWanted(x)
          /\ status = "retired" /\ begin[x] # 0 => end[x] = retired[x]
      BY <1>4, SMTT(40) DEF Told
    <3>3. told => status # "none" /\ status # "retired"
      OBVIOUS
    <3>4. status \in {"active", "paused"} /\ ~told => top + 1 < FirstWanted(x)
      BY <1>4, SMTT(30)
    <3>5. status \in {"active", "paused"} /\ begin'[x] = 0 => Len(stream'[x]) < FirstWanted(x)'
      <4>1. begin'[x] = 0 => ~told
        BY <1>4, <1>10
      <4> QED BY <1>2, <1>3, <1>5, <3>4, <4>1
    <3> HIDE DEF told, top
    <3>6. /\ registered'[x] <= Len(stream'[x]) /\ retired'[x] <= Len(stream'[x])
          /\ status' = "none" => begin'[x] = 0
          /\ status' # "none" /\ begin'[x] # 0 => begin'[x] = FirstWanted(x)'
          /\ status' = "retired" /\ begin'[x] # 0 => end'[x] = retired'[x]
      BY <1>1, <1>2, <1>3, <1>5, <1>10, <3>2, <3>3
    <3> QED BY <1>1, <2>2, <3>5, <3>6 DEF Told
  <2> QED BY <2>1, <2>2
<1>12. ASSUME NEW s \in Streams, NEW n \in 1..Len(stream[s])
       PROVE  <<stream'[s][n], 1>> \in DOMAIN delivery' <=> Wanted(s, n)'
  <2>1. stream'[s][n] = stream[s][n]
    BY <1>2
  <2>2. stream[s][n] # e
    <3>1. n \in DOMAIN stream[s]
      BY <1>0, SMTT(30) DEF TypeOK
    <3> QED BY <1>1, <3>1 DEF Stored, ToSet
  <2>3. <<stream[s][n], 1>> \in DOMAIN delivery' <=> <<stream[s][n], 1>> \in DOMAIN delivery
    BY <1>9, <2>2
  <2>4. <<stream[s][n], 1>> \in DOMAIN delivery <=> Wanted(s, n)
    <3>1. DOMAIN stream[s] = 1..Len(stream[s]) /\ Delivered(s)
      BY <1>0, WantedTyped DEF Subscribed
    <3> QED BY <3>1 DEF Delivered
  <2>5. n <= LastWanted(s)' <=> n <= LastWanted(s)
    <3>1. CASE status = "retired"
      BY <1>1, <3>1 DEF LastWanted
    <3>2. CASE status # "retired"
      <4>1. LastWanted(s)' = Len(stream'[s]) /\ LastWanted(s) = Len(stream[s])
        BY <1>1, <3>2 DEF LastWanted
      <4>2. s = x => Len(stream'[s]) = top + 1
        BY <1>2
      <4>3. s # x => Len(stream'[s]) = Len(stream[s])
        BY <1>2
      <4>4. Len(stream[s]) \in Nat /\ (s = x => Len(stream[s]) = top)
        BY <1>0, WantedTyped
      <4> HIDE DEF top
      <4> QED BY <4>1, <4>2, <4>3, <4>4, SMTT(40)
    <3> QED BY <3>1, <3>2
  <2>6. FirstWanted(s) \in Nat /\ LastWanted(s) \in Nat /\ LastWanted(s)' \in Nat /\ n \in Nat
    <3>1. FirstWanted(s) \in Nat /\ LastWanted(s) \in Nat /\ retired[s] \in Nat
      BY <1>0, WantedTyped
    <3>2. Len(stream'[s]) \in Nat
      BY <1>2
    <3> QED BY <1>1, <3>1, <3>2 DEF LastWanted
  <2>7. n \in FirstWanted(s)'..LastWanted(s)' <=> n \in FirstWanted(s)..LastWanted(s)
    BY <1>5, <2>5, <2>6
  <2>8. Wanted(s, n)' <=> Wanted(s, n)
    BY <1>1, <2>1, <2>7 DEF Wanted
  <2> QED BY <2>1, <2>3, <2>4, <2>8
<1>13. ASSUME NEW m \in Nat, m = top + 1
       PROVE  <<e, 1>> \in DOMAIN delivery' <=> Wanted(x, m)'
  <2>1. m \in FirstWanted(x)..LastWanted(x)' <=> FirstWanted(x) <= m /\ m <= LastWanted(x)'
    <3>1. LastWanted(x)' \in Nat
      BY <1>1, <1>2, <1>4 DEF LastWanted
    <3> HIDE DEF x, top
    <3> QED BY <1>4, <3>1
  <2>2. status = "retired" => ~(m <= LastWanted(x)')
    <3>1. retired[x] <= top
      BY <1>4 DEF Told
    <3> QED BY <1>1, <1>4, <1>13, <3>1, SMTT(30) DEF LastWanted
  <2>3. status # "retired" => m <= LastWanted(x)'
    BY <1>1, <1>2, <1>4, <1>13 DEF LastWanted
  <2>4. status \in {"none", "active", "paused", "retired"}
    BY <1>0 DEF TypeOK, Statuses
  <2>5. stream'[x][m] = e /\ FirstWanted(x)' = FirstWanted(x)
    BY <1>2, <1>3, <1>5, <1>13
  <2>6. Wanted(x, m)' <=> status # "none" /\ m \in FirstWanted(x)..LastWanted(x)' /\ e \in Matching
    BY <1>1, <2>5 DEF Wanted
  <2> HIDE DEF x, top
  <2>7. Wanted(x, m)' <=> told /\ e \in Matching
    BY <1>13, <2>1, <2>2, <2>3, <2>4, <2>6
  <2> QED BY <1>9, <2>7
<1>14. \A s \in Streams : Delivered(s)'
  <2> SUFFICES ASSUME NEW s \in Streams, NEW n \in DOMAIN stream'[s]
               PROVE  <<stream'[s][n], 1>> \in DOMAIN delivery' <=> Wanted(s, n)'
    BY DEF Delivered
  <2>1. n \in 1..Len(stream'[s])
    BY <1>2, SMTT(30)
  <2>2. CASE n \in 1..Len(stream[s])
    BY <1>12, <2>2
  <2>3. CASE s = x /\ n = top + 1
    <3>1. n \in Nat /\ stream'[s][n] = e
      BY <1>2, <1>4, <2>3
    <3> QED BY <1>13, <2>3, <3>1
  <2>4. n \in 1..Len(stream[s]) \/ (s = x /\ n = top + 1)
    <3>1. CASE s = x
      BY <1>2, <1>4, <2>1, <3>1, SMTT(30)
    <3>2. CASE s # x
      BY <1>2, <2>1, <3>2
    <3> QED BY <3>1, <3>2
  <2> QED BY <2>2, <2>3, <2>4
<1>15. ASSUME NEW d \in DOMAIN delivery' PROVE begin'[StreamOf[d[1]]] # 0
  <2>1. CASE d = <<e, 1>>
    <3>1. told
      BY <1>9, <2>1
    <3>2. StreamOf[d[1]] = x /\ begin'[x] = FirstWanted(x)
      BY <1>10, <2>1, <3>1
    <3> QED BY <1>4, <3>2
  <2>2. CASE d # <<e, 1>>
    <3>1. d \in DOMAIN delivery
      BY <1>9, <2>2
    <3>2. begin[StreamOf[d[1]]] # 0 /\ StreamOf[d[1]] \in Streams
      BY <1>0, <3>1, KeyParts DEF Subscribed
    <3>3. \A s \in Streams : begin[s] # 0 => begin'[s] # 0
      BY <1>4, <1>10, SMTT(30)
    <3> QED BY <3>2, <3>3
  <2> QED BY <2>1, <2>2
<1> QED BY <1>11, <1>14, <1>15 DEF Subscribed

LEMMA SubscribedStep ==
    ASSUME DeliveryAssumption, Core, Subscribed, [Next]_vars
    PROVE  Subscribed'
<1>0. TypeOK
  BY DEF Core
<1>1. CASE UNCHANGED vars
  <2>1. Others
    BY <1>1 DEF vars, ledger, Others
  <2> QED BY <1>0, <2>1, SubscribedOthers
<1>2. CASE Next
  BY <1>0, <1>2, OtherSteps, SubscribedOthers, SubscribedStatus, SubscribedRegister, SubscribedAppend
<1> QED BY <1>1, <1>2

LEMMA SubscribedInit == ASSUME DeliveryAssumption, Init PROVE Subscribed
<1>1. /\ status = "none" /\ DOMAIN delivery = {}
      /\ \A s \in Streams : /\ stream[s] = <<>> /\ begin[s] = 0
                            /\ registered[s] = 0 /\ retired[s] = 0
  BY DEF Init
<1>2. \A s \in Streams : Len(stream[s]) = 0 /\ DOMAIN stream[s] = {}
  BY <1>1
<1>3. \A s \in Streams : Told(s)
  BY <1>1, <1>2 DEF Told
<1>4. \A s \in Streams : Delivered(s)
  BY <1>2 DEF Delivered
<1> QED BY <1>1, <1>3, <1>4 DEF Subscribed

LEMMA SubscribedHolds == ASSUME DeliveryAssumption PROVE Spec => []Subscribed
<1>1. Init => Subscribed
  BY SubscribedInit
<1>2. Core /\ Subscribed /\ [Next]_vars => Subscribed'
  BY SubscribedStep
<1>3. Spec => []Core
  BY CoreHolds
<1> QED BY <1>1, <1>2, <1>3, PTL DEF Spec

LEMMA SubscribedExactly ==
    ASSUME DeliveryAssumption, Core, Subscribed
    PROVE  ExactlySubscribed
<1>0. TypeOK /\ Placed /\ Keyed
  BY DEF Core
<1> SUFFICES ASSUME NEW s \in Streams
             PROVE  {SequenceOf(d[1]) : d \in FirstIn(delivery, s)}
                      = IF status = "none" THEN {}
                        ELSE {n \in FirstWanted(s)..LastWanted(s) : stream[s][n] \in Matching}
  BY DEF ExactlySubscribed
<1>1. /\ FirstWanted(s) \in Nat /\ FirstWanted(s) >= 1 /\ Len(stream[s]) \in Nat
      /\ DOMAIN stream[s] = 1..Len(stream[s]) /\ retired[s] \in Nat
      /\ LastWanted(s) \in Nat /\ Told(s) /\ Delivered(s)
  BY <1>0, WantedTyped DEF Subscribed
<1>2. ASSUME NEW d \in FirstIn(delivery, s)
      PROVE  Wanted(s, SequenceOf(d[1]))
  <2>1. PICK n \in 1..Len(stream[s]) : n = SequenceOf(d[1]) /\ stream[s][n] = d[1]
    BY <1>0, FirstInFacts, SMTT(30)
  <2>2. <<stream[s][n], 1>> \in DOMAIN delivery
    BY <1>0, <2>1, FirstInFacts, SMTT(30)
  <2> QED BY <1>1, <2>1, <2>2 DEF Delivered
<1>3. LastWanted(s) <= Len(stream[s])
  BY <1>1 DEF LastWanted, Told
<1>4. ASSUME NEW n, Wanted(s, n)
      PROVE  \E d \in FirstIn(delivery, s) : n = SequenceOf(d[1])
  <2>1. n \in DOMAIN stream[s]
    <3>1. n \in FirstWanted(s)..LastWanted(s)
      BY <1>4 DEF Wanted
    <3> QED BY <1>1, <1>3, <3>1, SMTT(30)
  <2>2. <<stream[s][n], 1>> \in DOMAIN delivery
    BY <1>1, <1>4, <2>1 DEF Delivered
  <2>3. StreamOf[stream[s][n]] = s /\ SequenceOf(stream[s][n]) = n
    BY <1>0, <2>1, SequenceIs DEF Placed
  <2>4. <<stream[s][n], 1>> \in FirstIn(delivery, s)
    BY <2>2, <2>3 DEF FirstIn
  <2> QED BY <2>3, <2>4
<1>5. \A n : Wanted(s, n) <=>
         status # "none" /\ n \in {k \in FirstWanted(s)..LastWanted(s) : stream[s][k] \in Matching}
  BY DEF Wanted
<1> QED BY <1>2, <1>4, <1>5

\* Backfill and appends deliver every subscribed event once, and nothing else,
\* however registration, filters and retirement fall between the appends.
THEOREM Exactly == Spec => []ExactlySubscribed
<1>1. Core /\ Subscribed => ExactlySubscribed
  BY SubscribedExactly, DeliveryAssumption
<1>2. Spec => []Core
  BY CoreHolds, DeliveryAssumption
<1>3. Spec => []Subscribed
  BY SubscribedHolds, DeliveryAssumption
<1> QED BY <1>1, <1>2, <1>3, PTL

-----------------------------------------------------------------------------
(* Effects, once and in order.                                              *)

\* The first delivery of an event has been attempted.
Started(e) == <<e, 1>> \in DOMAIN delivery /\ delivery[<<e, 1>>].attempts > 0

\* First deliveries are attempted in turn: behind what is settled.
InTurn == \A c, d \in DOMAIN delivery :
    /\ c[2] = 1 /\ d[2] = 1 /\ StreamOf[c[1]] = StreamOf[d[1]]
    /\ SequenceOf(c[1]) < SequenceOf(d[1]) /\ delivery[d].attempts > 0
    => delivery[c].state \in Settled

\* What workers hold was attempted, and a consumer that succeeded took effect.
Batches == \A w \in Workers :
    /\ \A n \in DOMAIN worker[w].batch : Started(worker[w].batch[n].delivery[1])
    /\ worker[w].result = "ack" =>
          worker[w].batch # <<>> /\ Current(w).delivery[1] \in ToSet(applied)

Effects ==
    /\ \A d \in DOMAIN delivery : delivery[d].state = "acked" => d[1] \in ToSet(applied)
    /\ \A i \in DOMAIN applied : Started(applied[i])
    /\ Transactional => inbox = ToSet(applied)
    /\ \A i, j \in DOMAIN applied : applied[i] = applied[j] => i = j

LEMMA AppendSet ==
    ASSUME NEW S, NEW q \in Seq(S), NEW e \in S
    PROVE  /\ DOMAIN Append(q, e) = DOMAIN q \cup {Len(q) + 1} /\ DOMAIN q = 1..Len(q)
           /\ Len(q) \in Nat /\ Append(q, e)[Len(q) + 1] = e
           /\ \A i \in DOMAIN q : Append(q, e)[i] = q[i]
           /\ ToSet(Append(q, e)) = ToSet(q) \cup {e}
<1>1. /\ DOMAIN q = 1..Len(q) /\ Len(q) \in Nat /\ Append(q, e)[Len(q) + 1] = e
      /\ \A i \in DOMAIN q : Append(q, e)[i] = q[i]
      /\ DOMAIN Append(q, e) = 1..(Len(q) + 1)
  OBVIOUS
<1>2. 1..(Len(q) + 1) = 1..Len(q) \cup {Len(q) + 1}
  BY <1>1
<1>3. DOMAIN Append(q, e) = DOMAIN q \cup {Len(q) + 1}
  BY <1>1, <1>2
<1>4. ToSet(Append(q, e)) = ToSet(q) \cup {e}
  <2>1. \A i \in DOMAIN Append(q, e) : Append(q, e)[i] \in ToSet(q) \cup {e}
    BY <1>1, <1>3 DEF ToSet
  <2>2. \A i \in DOMAIN q : q[i] \in ToSet(Append(q, e))
    BY <1>1, <1>3 DEF ToSet
  <2>3. e \in ToSet(Append(q, e))
    BY <1>1, <1>3 DEF ToSet
  <2> QED BY <2>1, <2>2, <2>3 DEF ToSet
<1> QED BY <1>1, <1>3, <1>4

LEMMA StartedBy ==
    ASSUME DeliveryAssumption, Core, NEW d \in DOMAIN delivery, delivery[d].attempts > 0
    PROVE  Started(d[1])
<1>0. TypeOK /\ Placed /\ Keyed /\ Numbered(delivery) /\ Lives
  BY DEF Core
<1>1. d = <<d[1], d[2]>> /\ d[1] \in Events /\ d[2] \in Nat
  BY <1>0, KeyParts
<1>2. d[2] >= 1
  <2>1. d \in Generations(delivery, d[1])
    BY DEF Generations
  <2>2. d \in {d[1]} \X (1..Cardinality(Generations(delivery, d[1])))
    BY <1>0, <1>1, <2>1 DEF Numbered
  <2> QED BY <1>1, <2>2
<1>3. CASE d[2] = 1
  <2>1. d = <<d[1], 1>>
    BY <1>1, <1>3
  <2> QED BY <2>1 DEF Started
<1>4. CASE d[2] > 1
  <2>1. PICK c \in DOMAIN delivery : c = <<d[1], 1>>
    BY <1>0, <1>1, GenerationFacts
  <2>2. delivery[c].state \in Settled
    BY <1>0, <1>4, <2>1 DEF Keyed
  <2>3. delivery[c].attempts \in Nat /\ delivery[c].attempts # 0
    BY <1>0, <2>2, RecordFacts DEF Lives, Lively, Settled
  <2> QED BY <2>1, <2>3 DEF Started
<1> QED BY <1>1, <1>2, <1>3, <1>4

AllStarted == Core => \A d \in DOMAIN delivery : delivery[d].attempts > 0 => Started(d[1])

LEMMA AllStartedNow == AllStarted
BY DeliveryAssumption, StartedBy DEF AllStarted

LEMMA AllStartedNext == AllStarted'
BY AllStartedNow, PTL

LEMMA StartedKept ==
    ASSUME DeliveryAssumption, Core, Next, NEW e, Started(e)
    PROVE  Started(e)'
<1>1. PICK d \in DOMAIN delivery : d = <<e, 1>> /\ delivery[d].attempts > 0
  BY DEF Started
<1>2. /\ d \in DOMAIN delivery' /\ delivery[d].attempts <= delivery'[d].attempts
      /\ delivery' \in [DOMAIN delivery' -> RecordType]
  BY CoreNext, ShapeFacts DEF Moved
<1>3. delivery[d].attempts \in Nat
  BY RecordFacts DEF Core
<1>4. delivery'[d].attempts \in Nat
  BY <1>2 DEF RecordType
<1>5. delivery'[d].attempts > 0
  BY <1>1, <1>2, <1>3, <1>4
<1> QED BY <1>1, <1>2, <1>5 DEF Started

\* Steps that attempt no first delivery and add those they add behind the others.
LEMMA InTurnKept ==
    ASSUME DeliveryAssumption, Core, InTurn, Kept, Shape,
           \A d \in DOMAIN delivery :
              d[2] = 1 /\ delivery[d].attempts = 0 => delivery'[d].attempts = 0,
           \A c \in DOMAIN delivery' \ DOMAIN delivery : \A d \in DOMAIN delivery :
              c[2] = 1 /\ StreamOf[c[1]] = StreamOf[d[1]]
                 => ~(SequenceOf(c[1])' < SequenceOf(d[1])')
    PROVE  InTurn'
<1>0. TypeOK /\ Placed /\ Keyed
  BY DEF Core
<1> SUFFICES ASSUME NEW c \in DOMAIN delivery', NEW d \in DOMAIN delivery',
                    c[2] = 1, d[2] = 1, StreamOf[c[1]] = StreamOf[d[1]],
                    SequenceOf(c[1])' < SequenceOf(d[1])', delivery'[d].attempts > 0
             PROVE  delivery'[c].state \in Settled
  BY DEF InTurn
<1>1. d \in DOMAIN delivery
  <2>1. d \notin DOMAIN delivery => delivery'[d] = Pending
    BY ShapeFacts
  <2>2. ~(Pending.attempts > 0)
    BY PendingFacts
  <2> QED BY <2>1, <2>2
<1>2. c \in DOMAIN delivery
  BY <1>1
<1>3. delivery[d].attempts > 0
  BY <1>0, <1>1, RecordFacts
<1>4. SequenceOf(c[1]) < SequenceOf(d[1])
  <2>1. c[1] \in Stored /\ d[1] \in Stored
    BY <1>0, <1>1, <1>2 DEF Keyed
  <2> QED BY <2>1 DEF Kept
<1>5. delivery[c].state \in Settled
  BY <1>1, <1>2, <1>3, <1>4 DEF InTurn
<1> QED BY <1>2, <1>5, ShapeFacts DEF Moved

LEMMA InTurnClaim ==
    ASSUME DeliveryAssumption, Core, InTurn, NEW w \in Workers, NEW scope, Claim(w, scope)
    PROVE  InTurn'
<1>0. TypeOK /\ Placed /\ Keyed /\ Lives
  BY DEF Core
<1>1. stream' = stream /\ DOMAIN delivery' = DOMAIN delivery
  BY <1>0, ClaimFacts DEF Claim, Changes
<1>2. \A e : SequenceOf(e)' = SequenceOf(e)
  BY <1>1, SameStreams
<1> SUFFICES ASSUME NEW c \in DOMAIN delivery, NEW d \in DOMAIN delivery,
                    c[2] = 1, d[2] = 1, StreamOf[c[1]] = StreamOf[d[1]],
                    SequenceOf(c[1]) < SequenceOf(d[1]), delivery'[d].attempts > 0
             PROVE  delivery'[c].state \in Settled
  BY <1>1, <1>2 DEF InTurn
<1>3. /\ Recovered \in [DOMAIN delivery -> RecordType]
      /\ Recovered[d].attempts = delivery[d].attempts
      /\ Recovered[c] \in RecordType
  BY <1>0, RecoveredFacts
<1>4. CASE d \in Taken(w, scope)
  <2>1. IsNextInStream(d)
    BY <1>0, <1>4, ClaimFacts
  <2>2. c \in FirstIn(Recovered, StreamOf[d[1]])
    BY <1>3 DEF FirstIn
  <2>3. SequenceOf(c[1]) \in Nat /\ SequenceOf(d[1]) \in Nat
    BY <1>0, KeyParts
  <2>4. Recovered[c].state \notin Open
    BY <2>1, <2>2, <2>3 DEF IsNextInStream
  <2>5. Recovered[c].state \in Settled
    BY <1>3, <2>4 DEF RecordType
  <2>6. c \notin Taken(w, scope)
    <3>1. c \in Taken(w, scope) => Recovered[c].state \in {"pending", "retry_wait"}
      BY <1>0, ClaimFacts
    <3> QED BY <2>4, <3>1 DEF Open
  <2>7. delivery'[c] = Recovered[c]
    BY <1>0, <2>6, ClaimFacts
  <2> QED BY <2>5, <2>7
<1>5. CASE d \notin Taken(w, scope)
  <2>1. delivery'[d] = Recovered[d]
    BY <1>0, <1>5, ClaimFacts
  <2>2. delivery[c].state \in Settled
    BY <1>3, <2>1 DEF InTurn
  <2> QED BY <1>0, <2>2, ClaimFacts DEF Changes, Moved
<1> QED BY <1>4, <1>5

LEMMA InTurnCancel ==
    ASSUME DeliveryAssumption, Core, InTurn, Cancel
    PROVE  InTurn'
<1>0. TypeOK /\ Placed /\ Keyed /\ Lives
  BY DEF Core
<1>1. stream' = stream /\ DOMAIN delivery' = DOMAIN delivery
  BY <1>0, CancelFacts DEF Cancel, Changes
<1>2. \A e : SequenceOf(e)' = SequenceOf(e)
  BY <1>1, SameStreams
<1> SUFFICES ASSUME NEW c \in DOMAIN delivery, NEW d \in DOMAIN delivery,
                    c[2] = 1, d[2] = 1, StreamOf[c[1]] = StreamOf[d[1]],
                    SequenceOf(c[1]) < SequenceOf(d[1]), delivery'[d].attempts > 0
             PROVE  delivery'[c].state \in Settled
  BY <1>1, <1>2 DEF InTurn
<1>3. delivery[c].state \in Settled => delivery'[c].state \in Settled
  BY <1>0, CancelFacts DEF Changes, Moved
<1>4. CASE d \in Gone
  <2>1. CASE c \in OpenIn(delivery)
    <3>1. Before(c, d)
      BY DEF Before
    <3>2. c \in Gone
      BY <1>0, <1>4, <2>1, <3>1, CancelFacts
    <3> QED BY <1>0, <3>2, CancelFacts DEF Settled
  <2>2. CASE c \notin OpenIn(delivery)
    <3>1. delivery[c].state \in Settled
      BY <1>0, <2>2, RecordFacts DEF OpenIn
    <3> QED BY <1>3, <3>1
  <2> QED BY <2>1, <2>2
<1>5. CASE d \notin Gone
  <2>1. delivery'[d] = delivery[d]
    BY <1>0, <1>5, CancelFacts
  <2> QED BY <1>3, <2>1 DEF InTurn
<1> QED BY <1>4, <1>5

LEMMA InTurnStep ==
    ASSUME DeliveryAssumption, Core, InTurn, Next
    PROVE  InTurn'
<1>0. TypeOK /\ Placed /\ Keyed /\ Numbered(delivery) /\ Lives /\ Held /\ Letters /\ Empty
  BY DEF Core
<1>a. Kept /\ Shape
  BY CoreNext
<1>1. ASSUME DOMAIN delivery' = DOMAIN delivery,
             \A d \in DOMAIN delivery : delivery'[d].attempts = delivery[d].attempts
      PROVE  InTurn'
  BY <1>a, <1>1, InTurnKept
<1>2. CASE delivery' = delivery
  BY <1>1, <1>2
<1>3. ASSUME NEW new \in SUBSET Nexts, delivery' = WithPending(delivery, new),
             \A d \in new : d[2] > 1
      PROVE  InTurn'
  <2>1. /\ DOMAIN delivery' = DOMAIN delivery \cup new
        /\ \A d \in DOMAIN delivery : delivery'[d] = delivery[d]
    BY <1>0, <1>3, GrowFacts
  <2>2. \A d \in new : d[2] # 1
    BY <1>3
  <2> QED BY <1>a, <2>1, <2>2, InTurnKept
<1>4. ASSUME NEW e \in Events, AppendEvent(e) PROVE InTurn'
  <2>1. e \notin Stored /\ stream' = [stream EXCEPT ![StreamOf[e]] = Append(@, e)]
    BY <1>4 DEF AppendEvent
  <2>2. SequenceOf(e)' = Len(stream[StreamOf[e]]) + 1
    BY <1>0, <2>1, GrownStream
  <2>3. PICK new \in SUBSET {<<e, 1>>} : delivery' = WithPending(delivery, new)
    BY <1>0, <1>4, AppendFacts
  <2>4. new \in SUBSET Nexts
    BY <1>0, <1>4, <2>3, AppendFacts
  <2>5. /\ DOMAIN delivery' = DOMAIN delivery \cup new
        /\ \A d \in DOMAIN delivery : delivery'[d] = delivery[d]
    BY <1>0, <2>3, <2>4, GrowFacts
  <2>6. ASSUME NEW d \in DOMAIN delivery, StreamOf[e] = StreamOf[d[1]]
        PROVE  ~(SequenceOf(e)' < SequenceOf(d[1])')
    <3>1. d[1] \in Stored /\ SequenceOf(d[1]) \in 1..Len(stream[StreamOf[e]])
      BY <1>0, <2>6, KeyParts
    <3>2. SequenceOf(d[1])' = SequenceOf(d[1])
      BY <1>a, <3>1 DEF Kept
    <3>3. Len(stream[StreamOf[e]]) \in Nat
      BY <1>0 DEF TypeOK, DeliveryAssumption
    <3> QED BY <2>2, <3>1, <3>2, <3>3
  <2>7. \A c \in DOMAIN delivery' \ DOMAIN delivery : c[1] = e
    BY <2>5
  <2> QED BY <1>a, <2>5, <2>6, <2>7, InTurnKept
<1>5. CASE Register
  BY <1>0, <1>a, <1>5, RegisterFacts, InTurnKept
<1>6. CASE Pause \/ Resume \/ Retire
  BY <1>2, <1>6 DEF Pause, Resume, Retire, ledger
<1>7. ASSUME NEW w \in Workers, Settling(w) PROVE InTurn'
  <2>1. PICK o \in Outcomes : worker[w].batch # <<>> /\ Settlement(w, o)
    BY <1>7 DEF Settling
  <2>2. PICK d : d = Current(w).delivery
    OBVIOUS
  <2>3. /\ DOMAIN delivery' = DOMAIN delivery
        /\ \A c \in DOMAIN delivery : c # d => delivery'[c] = delivery[c]
        /\ LeaseMatches(w) => delivery'[d].attempts = delivery[d].attempts
        /\ ~LeaseMatches(w) => delivery' = delivery
    BY <1>0, <2>1, <2>2, SettlementFacts DEF Changes
  <2> QED BY <1>1, <2>3
<1>8. ASSUME NEW w \in Workers, Settle(w) \/ Skip(w) \/ Crash(w) PROVE InTurn'
  BY <1>0, <1>2, <1>7, <1>8, SettleIs DEF Skip, Crash, ledger
<1>9. ASSUME NEW w \in Workers, NEW o \in Outcomes, Consume(w, o) \/ Execute(w, o) PROVE InTurn'
  BY <1>2, <1>7, <1>9, ExecuteIs DEF Consume, ledger
<1>10. ASSUME NEW d \in DOMAIN delivery, Expire(d) \/ Wait(d) PROVE InTurn'
  BY <1>0, <1>1, <1>10, TimeFacts DEF Changes
<1>11. ASSUME NEW d \in deadLetter, Requeue(d) PROVE InTurn'
  <2> DEFINE x == <<d[1], NextGeneration(d[1])>>
  <2>1. x \in Nexts /\ delivery' = WithPending(delivery, {x}) /\ x[2] > 1
    BY <1>0, <1>11, RequeueFacts
  <2> HIDE DEF x
  <2>2. {x} \in SUBSET Nexts /\ \A y \in {x} : y[2] > 1
    BY <2>1
  <2> QED BY <1>3, <2>1, <2>2
<1>12. ASSUME NEW d \in deadLetter, Resolve(d) PROVE InTurn'
  BY <1>2, <1>12 DEF Resolve
<1>13. ASSUME NEW s \in Streams, NEW from, NEW through, Redeliver(s, from, through) PROVE InTurn'
  BY <1>0, <1>3, <1>13, RedeliverFacts
<1> QED BY <1>4, <1>5, <1>6, <1>8, <1>9, <1>10, <1>11, <1>12, <1>13, InTurnClaim, InTurnCancel DEF Next

\* The event of the item that a worker is at.
LEMMA CurrentFacts ==
    ASSUME DeliveryAssumption, Core, Batches, NEW w \in Workers, worker[w].batch # <<>>
    PROVE  /\ Current(w).delivery \in DOMAIN delivery /\ Current(w).delivery[1] \in Events
           /\ Current(w).delivery[1] \in Stored /\ Started(Current(w).delivery[1])
<1>0. TypeOK /\ Held /\ Placed /\ Keyed
  BY DEF Core
<1>1. 1 \in DOMAIN worker[w].batch /\ Current(w) = worker[w].batch[1]
  BY <1>0, WorkerFacts
<1>2. Current(w).delivery \in DOMAIN delivery
  BY <1>0, WorkerFacts
<1>3. Started(Current(w).delivery[1])
  BY <1>1 DEF Batches
<1> QED BY <1>0, <1>2, <1>3, KeyParts

\* An effect is one that has not been applied, of an item that a worker is at.
Applies(w) ==
    LET e == Current(w).delivery[1]
    IN  /\ worker[w].batch # <<>> /\ e \notin ToSet(applied)
        /\ applied' = Append(applied, e)
        /\ Transactional => inbox' = inbox \cup {e}

LEMMA EffectStep ==
    ASSUME DeliveryAssumption, Core, Effects, Next
    PROVE  \/ applied' = applied /\ inbox' = inbox
           \/ stream' = stream /\ \E w \in Workers : Applies(w)
<1>1. ASSUME NEW w \in Workers, NEW o \in Outcomes, Consume(w, o)
      PROVE  (applied' = applied /\ inbox' = inbox) \/ (stream' = stream /\ Applies(w))
  BY <1>1 DEF Consume, Applies, ledger
<1>2. ASSUME NEW w \in Workers, NEW o \in Outcomes, Execute(w, o)
      PROVE  (applied' = applied /\ inbox' = inbox) \/ (stream' = stream /\ Applies(w))
  <2>1. /\ Transactional /\ worker[w].batch # <<>> /\ stream' = stream
        /\ \/ UNCHANGED <<inbox, applied>>
           \/ /\ Current(w).delivery[1] \notin inbox
              /\ inbox' = inbox \cup {Current(w).delivery[1]}
              /\ applied' = Append(applied, Current(w).delivery[1])
    BY <1>2 DEF Execute, ledger
  <2> QED BY <2>1 DEF Applies, Effects
<1>3. CASE \E w \in Workers : (\E scope : Claim(w, scope)) \/ Settle(w) \/ Skip(w) \/ Crash(w)
  BY <1>3 DEF Claim, Settle, Skip, Crash, ledger
<1>4. CASE (\E e \in Events : AppendEvent(e)) \/ Register \/ Pause \/ Resume \/ Retire \/ Cancel
  BY <1>4 DEF AppendEvent, Register, Pause, Resume, Retire, Cancel, ledger
<1>5. CASE \/ \E d \in DOMAIN delivery : Expire(d) \/ Wait(d)
           \/ \E d \in deadLetter : Requeue(d) \/ Resolve(d)
           \/ \E s \in Streams : \E from \in DOMAIN stream[s] :
                 \E through \in from..Len(stream[s]) : Redeliver(s, from, through)
  BY <1>5 DEF Expire, Wait, Timed, Requeue, Resolve, Redeliver
<1> QED BY <1>1, <1>2, <1>3, <1>4, <1>5 DEF Next

\* Effects are never taken back.
LEMMA AppliedGrows ==
    ASSUME DeliveryAssumption, Core, Batches, Effects, Next
    PROVE  ToSet(applied) \subseteq ToSet(applied')
<1>1. applied \in Seq(Events)
  BY DEF Core, TypeOK
<1>2. ASSUME NEW w \in Workers, Applies(w) PROVE ToSet(applied) \subseteq ToSet(applied')
  <2>1. PICK e \in Events : e = Current(w).delivery[1]
    BY <1>2, CurrentFacts DEF Applies
  <2>2. applied' = Append(applied, e)
    BY <1>2, <2>1 DEF Applies
  <2>3. ToSet(Append(applied, e)) = ToSet(applied) \cup {e}
    BY <1>1, AppendSet
  <2> QED BY <2>2, <2>3
<1> QED BY <1>2, EffectStep

LEMMA BatchesStep ==
    ASSUME DeliveryAssumption, Core, Core', Batches, Effects, Next
    PROVE  Batches'
<1>0. TypeOK /\ Held /\ Lives
  BY DEF Core
<1>1. ASSUME NEW v \in Workers, worker'[v] = worker[v]
      PROVE  worker'[v].result = "ack" =>
                worker'[v].batch # <<>> /\ Current(v)'.delivery[1] \in ToSet(applied')
  <2>1. Current(v)' = Current(v)
    BY <1>1 DEF Current
  <2> QED BY <1>1, <2>1, AppliedGrows DEF Batches
<1>2. ASSUME NEW w \in Workers, worker'[w].result # "ack",
             \A v \in Workers \ {w} : worker'[v] = worker[v], NEW v \in Workers
      PROVE  worker'[v].result = "ack" =>
                worker'[v].batch # <<>> /\ Current(v)'.delivery[1] \in ToSet(applied')
  BY <1>1, <1>2
<1>3. ASSUME \A v \in Workers : worker'[v].result = "ack" =>
                worker'[v].batch # <<>> /\ Current(v)'.delivery[1] \in ToSet(applied'),
             BatchKept
      PROVE  Batches'
  <2>1. \A v \in Workers : \A n \in DOMAIN worker'[v].batch : Started(worker'[v].batch[n].delivery[1])
    BY <1>3 DEF BatchKept, Batches
  <2> QED BY <1>3, <2>1, StartedKept DEF Batches
<1>15. ASSUME NEW w \in Workers, worker'[w].result # "ack",
              \A v \in Workers \ {w} : worker'[v] = worker[v], BatchKept
       PROVE  Batches'
  <2>1. ASSUME NEW v \in Workers
        PROVE  worker'[v].result = "ack" =>
                  worker'[v].batch # <<>> /\ Current(v)'.delivery[1] \in ToSet(applied')
    <3>1. CASE v = w
      BY <1>15, <3>1, Zenon
    <3>2. CASE v # w
      <4>1. worker'[v] = worker[v]
        BY <1>15, <3>2, Zenon
      <4> QED BY <1>1, <4>1, Zenon
    <3> QED BY <3>1, <3>2
  <2> QED BY <1>3, <1>15, <2>1, Zenon
<1>4. CASE worker' = worker
  <2>1. BatchKept
    BY <1>0, <1>4, SameWorkers, Zenon
  <2>2. \A v \in Workers : worker'[v] = worker[v]
    BY <1>4, Zenon
  <2> QED BY <1>1, <1>3, <2>1, <2>2, Zenon
<1>5. ASSUME NEW w \in Workers, worker[w].batch # <<>>, NextItem(w) PROVE Batches'
  <2>1. /\ BatchKept /\ worker'[w].result = "none"
        /\ \A v \in Workers \ {w} : worker'[v] = worker[v]
    BY <1>0, <1>5, NextItemFacts, Zenon
  <2>2. worker'[w].result # "ack"
    BY <2>1
  <2> QED BY <1>15, <2>1, <2>2, Zenon
<1>6. ASSUME NEW w \in Workers, Crash(w) PROVE Batches'
  <2>1. /\ BatchKept /\ worker'[w].result = "none"
        /\ \A v \in Workers \ {w} : worker'[v] = worker[v]
    BY <1>0, <1>6, CrashFacts, Zenon
  <2>2. worker'[w].result # "ack"
    BY <2>1
  <2> QED BY <1>15, <2>1, <2>2, Zenon
<1>7. ASSUME NEW w \in Workers, NEW o \in Outcomes, o # "ack",
             worker' = [worker EXCEPT ![w].result = o]
      PROVE  Batches'
  <2>1. /\ BatchKept /\ worker'[w].result = o
        /\ \A v \in Workers \ {w} : worker'[v] = worker[v]
    BY <1>0, <1>7, ResultFacts
  <2>2. worker'[w].result # "ack"
    BY <1>7, <2>1, Zenon
  <2> QED BY <1>15, <2>1, <2>2, Zenon
<1>8. ASSUME NEW w \in Workers, NEW o \in Outcomes, Consume(w, o) PROVE Batches'
  <2>1. worker[w].batch # <<>> /\ worker' = [worker EXCEPT ![w].result = o]
    BY <1>8 DEF Consume
  <2>2. CASE o # "ack"
    BY <1>7, <2>1, <2>2
  <2>3. CASE o = "ack"
    <3>1. /\ BatchKept /\ worker'[w].batch = worker[w].batch
          /\ \A v \in Workers \ {w} : worker'[v] = worker[v]
      BY <1>0, <2>1, ResultFacts
    <3>2. PICK e \in Events : e = Current(w).delivery[1]
      BY <2>1, CurrentFacts
    <3>3. e \in ToSet(applied')
      <4>1. CASE e \in ToSet(applied)
        BY <4>1, AppliedGrows
      <4>2. CASE e \notin ToSet(applied)
        <5>1. applied' = Append(applied, e) /\ applied \in Seq(Events)
          BY <1>0, <1>8, <2>3, <3>2, <4>2 DEF Consume, TypeOK
        <5>2. ToSet(Append(applied, e)) = ToSet(applied) \cup {e}
          BY <5>1, AppendSet
        <5> QED BY <5>1, <5>2
      <4> QED BY <4>1, <4>2
    <3>4. Current(w)' = Current(w)
      BY <3>1 DEF Current
    <3>5. worker'[w].batch # <<>> /\ Current(w)'.delivery[1] \in ToSet(applied')
      BY <2>1, <3>1, <3>2, <3>3, <3>4
    <3> QED BY <1>1, <1>3, <3>1, <3>5
  <2> QED BY <2>2, <2>3
<1>9. ASSUME NEW w \in Workers, NEW o \in Outcomes, Execute(w, o) PROVE Batches'
  <2>1. worker[w].batch # <<>>
    BY <1>9 DEF Execute
  <2>2. NextItem(w) \/ (o # "ack" /\ worker' = [worker EXCEPT ![w].result = o])
    BY <1>9, ExecuteIs
  <2> QED BY <1>5, <1>7, <2>1, <2>2
<1>10. ASSUME NEW w \in Workers, Settle(w) \/ Skip(w) PROVE Batches'
  BY <1>5, <1>10 DEF Settle, Skip
<1>11. ASSUME NEW w \in Workers, NEW scope, Claim(w, scope) PROVE Batches'
  <2>1. /\ worker'[w].result = "none" /\ \A v \in Workers \ {w} : worker'[v] = worker[v]
        /\ \A n \in DOMAIN worker'[w].batch : worker'[w].batch[n].delivery \in Taken(w, scope)
    BY <1>0, <1>11, ClaimBatch
  <2>2. ASSUME NEW d \in Taken(w, scope) PROVE Started(d[1])'
    <3>1. d \in DOMAIN delivery /\ delivery'[d].attempts = Recovered[d].attempts + 1
      BY <1>0, <1>11, ClaimFacts
    <3>2. Recovered[d].attempts \in Nat
      BY <1>0, <3>1, RecoveredFacts, RecordFacts
    <3>3. d \in DOMAIN delivery' /\ delivery'[d].attempts > 0
      BY <1>0, <1>11, <3>1, <3>2, ClaimFacts DEF Changes
    <3> QED BY <3>3, AllStartedNext DEF AllStarted
  <2>3. ASSUME NEW v \in Workers, NEW n \in DOMAIN worker'[v].batch
        PROVE  \E e : e = worker'[v].batch[n].delivery[1] /\ Started(e)'
    <3>1. CASE v = w
      <4>1. PICK d \in Taken(w, scope) : d = worker'[v].batch[n].delivery
        BY <2>1, <3>1
      <4>2. Started(d[1])'
        BY <2>2
      <4> QED BY <4>1, <4>2
    <3>2. CASE v # w
      <4>1. worker'[v] = worker[v]
        BY <2>1, <3>2
      <4>2. PICK e : e = worker[v].batch[n].delivery[1] /\ Started(e)
        BY <4>1 DEF Batches
      <4>3. Started(e)'
        BY <4>2, StartedKept
      <4> QED BY <4>1, <4>2, <4>3
    <3> QED BY <3>1, <3>2
  <2>4. \A v \in Workers : worker'[v].result = "ack" =>
           worker'[v].batch # <<>> /\ Current(v)'.delivery[1] \in ToSet(applied')
    BY <1>2, <2>1
  <2> QED BY <2>3, <2>4 DEF Batches, Started
<1>12. CASE \E e \in Events : AppendEvent(e)
  BY <1>4, <1>12 DEF AppendEvent
<1>13. CASE Register \/ Pause \/ Resume \/ Retire \/ Cancel
  BY <1>4, <1>13 DEF Register, Pause, Resume, Retire, Cancel
<1>14. CASE \/ \E d \in DOMAIN delivery : Expire(d) \/ Wait(d)
            \/ \E d \in deadLetter : Requeue(d) \/ Resolve(d)
            \/ \E s \in Streams : \E from \in DOMAIN stream[s] :
                  \E through \in from..Len(stream[s]) : Redeliver(s, from, through)
  BY <1>4, <1>14 DEF Expire, Wait, Timed, Requeue, Resolve, Redeliver
<1> QED BY <1>6, <1>8, <1>9, <1>10, <1>11, <1>12, <1>13, <1>14 DEF Next

\* What becomes acknowledged has taken effect.
LEMMA AckedStep ==
    ASSUME DeliveryAssumption, Core, Batches, Effects, Next
    PROVE  \A d \in DOMAIN delivery' : delivery'[d].state = "acked" => d[1] \in ToSet(applied')
<1>0. TypeOK /\ Placed /\ Keyed /\ Held /\ Lives
  BY DEF Core
<1>1. ASSUME \A d \in DOMAIN delivery : delivery'[d].state = "acked" =>
                delivery[d].state = "acked" \/ d[1] \in ToSet(applied')
      PROVE  \A d \in DOMAIN delivery' : delivery'[d].state = "acked" => d[1] \in ToSet(applied')
  <2> SUFFICES ASSUME NEW d \in DOMAIN delivery', delivery'[d].state = "acked"
               PROVE  d[1] \in ToSet(applied')
    OBVIOUS
  <2>1. d \in DOMAIN delivery
    <3>1. d \notin DOMAIN delivery => delivery'[d] = Pending
      BY CoreNext, ShapeFacts
    <3> QED BY <3>1, PendingFacts
  <2> QED BY <1>1, <2>1, AppliedGrows DEF Effects
<1>2. CASE \A d \in DOMAIN delivery : delivery'[d].state = delivery[d].state
  BY <1>1, <1>2
<1>3. ASSUME NEW w \in Workers, NEW o \in Outcomes, worker[w].batch # <<>>, Settlement(w, o),
             o = "ack" /\ LeaseMatches(w) => Current(w).delivery[1] \in ToSet(applied')
      PROVE  \A d \in DOMAIN delivery : delivery'[d].state = "acked" =>
                delivery[d].state = "acked" \/ d[1] \in ToSet(applied')
  <2>1. PICK c : c = Current(w).delivery
    OBVIOUS
  <2>2. /\ \A d \in DOMAIN delivery : d # c => delivery'[d] = delivery[d]
        /\ LeaseMatches(w) => delivery'[c].state = Target(o, delivery[c].attempts)
        /\ ~LeaseMatches(w) => delivery' = delivery
    BY <1>0, <1>3, <2>1, SettlementFacts
  <2>3. Target(o, delivery[c].attempts) = "acked" => o = "ack"
    BY DEF Target
  <2> QED BY <1>3, <2>1, <2>2, <2>3
<1>5. ASSUME NEW w \in Workers, NEW scope, Claim(w, scope)
      PROVE  \A d \in DOMAIN delivery : delivery'[d].state = "acked" => delivery[d].state = "acked"
  <2> SUFFICES ASSUME NEW d \in DOMAIN delivery, delivery'[d].state = "acked"
               PROVE  delivery[d].state = "acked"
    OBVIOUS
  <2>1. d \notin Taken(w, scope)
    BY <1>0, <1>5, ClaimFacts
  <2>2. Recovered[d].state = "acked"
    BY <1>0, <1>5, <2>1, ClaimFacts
  <2>3. d \notin Buried
    BY <2>2 DEF Buried
  <2>4. delivery[d].state \in Settled /\ (delivery[d].state \in Settled => Recovered[d].state = delivery[d].state)
    BY <1>0, <2>2, <2>3, RecoveredFacts DEF Moved, Settled
  <2> QED BY <2>2, <2>4
<1>6. ASSUME Cancel
      PROVE  \A d \in DOMAIN delivery : delivery'[d].state = "acked" => delivery[d].state = "acked"
  BY <1>0, <1>6, CancelFacts
<1>7. ASSUME NEW w \in Workers, Settle(w)
      PROVE  \A d \in DOMAIN delivery' : delivery'[d].state = "acked" => d[1] \in ToSet(applied')
  <2>1. worker[w].result \in Outcomes /\ worker[w].batch # <<>> /\ Settlement(w, worker[w].result)
    BY <1>0, <1>7, WorkerFacts DEF Settle
  <2>2. worker[w].result = "ack" => Current(w).delivery[1] \in ToSet(applied')
    BY AppliedGrows DEF Batches
  <2> QED BY <1>1, <1>3, <2>1, <2>2
<1>8. ASSUME NEW w \in Workers, Skip(w) \/ Crash(w) PROVE delivery' = delivery
  BY <1>8 DEF Skip, Crash, ledger
<1>9. ASSUME NEW w \in Workers, NEW o \in Outcomes, Consume(w, o) PROVE delivery' = delivery
  BY <1>9 DEF Consume, ledger
<1>10. ASSUME NEW w \in Workers, NEW o \in Outcomes, Execute(w, o)
       PROVE  \A d \in DOMAIN delivery' : delivery'[d].state = "acked" => d[1] \in ToSet(applied')
  <2>1. Transactional /\ worker[w].batch # <<>>
    BY <1>10 DEF Execute
  <2>2. PICK e \in Events : e = Current(w).delivery[1]
    BY <2>1, CurrentFacts
  <2>3. CASE /\ Settlement(w, "ack")
             /\ IF e \notin inbox /\ LeaseMatches(w)
                THEN inbox' = inbox \cup {e} /\ applied' = Append(applied, e)
                ELSE UNCHANGED <<inbox, applied>>
    <3>1. LeaseMatches(w) => e \in ToSet(applied')
      <4>1. CASE e \in inbox
        <5>1. e \in ToSet(applied)
          BY <2>1, <4>1 DEF Effects
        <5> QED BY <5>1, AppliedGrows
      <4>2. CASE e \notin inbox /\ LeaseMatches(w)
        <5>1. applied \in Seq(Events)
          BY <1>0 DEF TypeOK
        <5>2. applied' = Append(applied, e)
          BY <2>3, <4>2
        <5>3. ToSet(Append(applied, e)) = ToSet(applied) \cup {e}
          BY <5>1, AppendSet
        <5> QED BY <5>2, <5>3
      <4> QED BY <4>1, <4>2
    <3>2. "ack" \in Outcomes
      BY DEF Outcomes
    <3> QED BY <1>1, <1>3, <2>1, <2>2, <2>3, <3>1, <3>2
  <2>4. CASE delivery' = delivery
    BY <1>2, <2>4
  <2>5. \/ /\ Settlement(w, "ack")
           /\ IF e \notin inbox /\ LeaseMatches(w)
              THEN inbox' = inbox \cup {e} /\ applied' = Append(applied, e)
              ELSE UNCHANGED <<inbox, applied>>
        \/ delivery' = delivery
    BY <1>10, <2>2, ExecuteIs DEF ledger
  <2> QED BY <2>3, <2>4, <2>5
<1>11. ASSUME NEW d \in DOMAIN delivery, Expire(d) \/ Wait(d)
       PROVE  \A c \in DOMAIN delivery : delivery'[c].state = delivery[c].state
  BY <1>0, <1>11, TimeFacts
<1>12. CASE \/ Register \/ (\E d \in deadLetter : Requeue(d)) \/ \E e \in Events : AppendEvent(e)
            \/ \E s \in Streams : \E from \in DOMAIN stream[s] :
                  \E through \in from..Len(stream[s]) : Redeliver(s, from, through)
  <2>1. \E new : delivery' = WithPending(delivery, new) \/ delivery' = delivery
    BY <1>12 DEF Register, Requeue, Redeliver, AppendEvent
  <2>2. \A d \in DOMAIN delivery : delivery'[d] = Pending \/ delivery'[d] = delivery[d]
    BY <2>1 DEF WithPending
  <2> QED BY <1>1, <2>2, PendingFacts
<1>13. CASE Pause \/ Resume \/ Retire \/ \E d \in deadLetter : Resolve(d)
  BY <1>2, <1>13 DEF Pause, Resume, Retire, Resolve, ledger
<1>14. CASE Cancel \/ \E w \in Workers : Claim(w, Streams) \/ \E s \in Streams : Claim(w, {s})
  BY <1>1, <1>5, <1>6, <1>14
<1> QED BY <1>2, <1>7, <1>8, <1>9, <1>10, <1>11, <1>12, <1>13, <1>14 DEF Next

LEMMA EffectsStep ==
    ASSUME DeliveryAssumption, Core, Batches, Effects, Next
    PROVE  Effects'
<1>0. applied \in Seq(Events)
  BY DEF Core, TypeOK
<1>1. \A d \in DOMAIN delivery' : delivery'[d].state = "acked" => d[1] \in ToSet(applied')
  BY AckedStep
<1>2. CASE applied' = applied /\ inbox' = inbox
  <2>1. \A i \in DOMAIN applied : Started(applied[i])'
    <3> SUFFICES ASSUME NEW i \in DOMAIN applied, NEW e, e = applied[i] PROVE Started(e)'
      BY <1>2
    <3> QED BY StartedKept DEF Effects
  <2> QED BY <1>1, <1>2, <2>1 DEF Effects, Started
<1>3. ASSUME NEW w \in Workers, Applies(w) PROVE Effects'
  <2>1. PICK e \in Events : e = Current(w).delivery[1] /\ Started(e)
    BY <1>3, CurrentFacts DEF Applies
  <2>2. /\ e \notin ToSet(applied) /\ applied' = Append(applied, e)
        /\ Transactional => inbox' = inbox \cup {e}
    BY <1>3, <2>1 DEF Applies
  <2>3. /\ DOMAIN applied' = DOMAIN applied \cup {Len(applied) + 1}
        /\ applied'[Len(applied) + 1] = e /\ \A i \in DOMAIN applied : applied'[i] = applied[i]
        /\ ToSet(applied') = ToSet(applied) \cup {e}
    BY <1>0, <2>2, AppendSet
  <2>4. \A i \in DOMAIN applied : applied[i] # e
    BY <2>2 DEF ToSet
  <2>5. \A i, j \in DOMAIN applied' : applied'[i] = applied'[j] => i = j
    BY <2>3, <2>4 DEF Effects
  <2>6. Transactional => inbox' = ToSet(applied')
    BY <2>2, <2>3 DEF Effects
  <2>7. \A x : Started(x) => Started(x)'
    BY StartedKept
  <2>8. \A i \in DOMAIN applied' : \E x : x = applied'[i] /\ Started(x)'
    BY <2>1, <2>3, <2>7 DEF Effects
  <2>9. \A i \in DOMAIN applied' : /\ <<applied'[i], 1>> \in DOMAIN delivery'
                                   /\ delivery'[<<applied'[i], 1>>].attempts > 0
    BY <2>8 DEF Started
  <2> QED BY <1>1, <2>5, <2>6, <2>9 DEF Effects, Started
<1> QED BY <1>2, <1>3, EffectStep

LEMMA OrderStep ==
    ASSUME DeliveryAssumption, Core, InTurn, Batches, Effects, EffectsInOrder, Next
    PROVE  EffectsInOrder'
<1>0. applied \in Seq(Events) /\ TypeOK /\ Placed /\ Keyed
  BY DEF Core, TypeOK
<1>1. \A i \in DOMAIN applied : applied[i] \in Stored
  <2> SUFFICES ASSUME NEW i \in DOMAIN applied PROVE applied[i] \in Stored
    OBVIOUS
  <2>1. PICK d \in DOMAIN delivery : d = <<applied[i], 1>>
    BY DEF Effects, Started
  <2> QED BY <1>0, <2>1 DEF Keyed
<1>3. ASSUME NEW i \in DOMAIN applied, NEW j \in DOMAIN applied, i < j,
             StreamOf[applied[i]] = StreamOf[applied[j]], NEW a, NEW b, a = applied[i], b = applied[j],
             SequenceOf(a)' > SequenceOf(b)'
      PROVE  delivery'[<<b, 1>>].state \in {"dropped", "dead_letter"}
  <2>1. a \in Stored /\ b \in Stored
    BY <1>1, <1>3
  <2>2. SequenceOf(a) > SequenceOf(b)
    BY <1>3, <2>1, CoreNext DEF Kept
  <2>3. PICK d \in DOMAIN delivery : d = <<b, 1>>
    BY <1>3 DEF Effects, Started
  <2>4. delivery[d].state \in {"dropped", "dead_letter"}
    BY <1>3, <2>2, <2>3 DEF EffectsInOrder
  <2>5. delivery'[d].state = delivery[d].state
    BY <2>4, CoreNext, ShapeFacts DEF Moved, Settled
  <2> QED BY <2>3, <2>4, <2>5
<1>4. CASE applied' = applied
  BY <1>3, <1>4 DEF EffectsInOrder
<1>5. ASSUME NEW w \in Workers, Applies(w), stream' = stream PROVE EffectsInOrder'
  <2>1. PICK e \in Events : e = Current(w).delivery[1] /\ Started(e)
    BY <1>5, CurrentFacts DEF Applies
  <2>2. e \notin ToSet(applied) /\ applied' = Append(applied, e)
    BY <1>5, <2>1 DEF Applies
  <2>3. /\ DOMAIN applied' = DOMAIN applied \cup {Len(applied) + 1} /\ Len(applied) \in Nat
        /\ DOMAIN applied = 1..Len(applied)
        /\ applied'[Len(applied) + 1] = e /\ \A i \in DOMAIN applied : applied'[i] = applied[i]
    BY <1>0, <2>2, AppendSet
  <2>4. PICK d \in DOMAIN delivery : d = <<e, 1>> /\ delivery[d].attempts > 0
    BY <2>1 DEF Started
  <2>5. ASSUME NEW i \in DOMAIN applied, StreamOf[applied[i]] = StreamOf[e], NEW a, a = applied[i],
               SequenceOf(a)' > SequenceOf(e)'
        PROVE  delivery'[d].state \in {"dropped", "dead_letter"}
    <3>1. PICK c \in DOMAIN delivery : c = <<a, 1>> /\ delivery[c].attempts > 0
      BY <2>5 DEF Effects, Started
    <3>2. SequenceOf(a) \in Nat /\ SequenceOf(e) \in Nat
      BY <1>0, <2>4, <3>1, KeyParts
    <3>3. SequenceOf(e) < SequenceOf(a)
      BY <1>5, <2>5, <3>2, SameStreams
    <3>4. delivery[d].state \in Settled
      BY <2>4, <2>5, <3>1, <3>3 DEF InTurn
    <3>5. delivery[d].state # "acked"
      BY <2>2, <2>4 DEF Effects
    <3>6. delivery'[d].state = delivery[d].state
      BY <3>4, CoreNext, ShapeFacts DEF Moved
    <3> QED BY <3>4, <3>5, <3>6 DEF Settled
  <2>6. ASSUME NEW i \in DOMAIN applied', NEW j \in DOMAIN applied', i < j,
               NEW a, NEW b, a = applied'[i], b = applied'[j],
               StreamOf[a] = StreamOf[b], SequenceOf(a)' > SequenceOf(b)'
        PROVE  delivery'[<<b, 1>>].state \in {"dropped", "dead_letter"}
    <3>1. i \in DOMAIN applied /\ a = applied[i]
      <4>1. i # Len(applied) + 1
        <5>1. j \in 1..Len(applied) \/ j = Len(applied) + 1
          BY <2>3
        <5> QED BY <2>3, <2>6, <5>1
      <4>2. i \in DOMAIN applied
        BY <2>3, <4>1
      <4> QED BY <2>3, <2>6, <4>2
    <3>2. CASE j \in DOMAIN applied
      <4>1. b = applied[j]
        BY <2>3, <2>6, <3>2
      <4> QED BY <1>3, <2>6, <3>1, <3>2, <4>1
    <3>3. CASE j \notin DOMAIN applied
      <4>1. b = e
        BY <2>3, <2>6, <3>3
      <4> QED BY <2>4, <2>5, <2>6, <3>1, <4>1
    <3> QED BY <3>2, <3>3
  <2> QED BY <2>6 DEF EffectsInOrder
<1> QED BY <1>4, <1>5, EffectStep

\* The invariant of the effects.
EffectInv == InTurn /\ Batches /\ Effects /\ EffectsInOrder

LEMMA EffectInit == ASSUME DeliveryAssumption, Init PROVE EffectInv
<1>1. /\ DOMAIN delivery = {} /\ applied = <<>> /\ inbox = {}
      /\ \A w \in Workers : worker[w].batch = <<>> /\ worker[w].result = "none"
  BY DEF Init, IdleWorker
<1>2. DOMAIN applied = {} /\ ToSet(applied) = {}
  BY <1>1 DEF ToSet
<1>3. InTurn /\ Effects /\ EffectsInOrder
  BY <1>1, <1>2 DEF InTurn, Effects, EffectsInOrder
<1>4. Batches
  BY <1>1 DEF Batches
<1> QED BY <1>3, <1>4 DEF EffectInv

LEMMA EffectInvStep ==
    ASSUME DeliveryAssumption, Core, Core', EffectInv, [Next]_vars
    PROVE  EffectInv'
<1>1. CASE UNCHANGED vars
  <2>1. UNCHANGED <<stream, delivery, worker, applied, inbox>>
    BY <1>1 DEF vars, ledger
  <2>2. \A e : SequenceOf(e)' = SequenceOf(e)
    BY <2>1, SameStreams
  <2>3. \A w : Current(w)' = Current(w)
    BY <2>1 DEF Current
  <2> QED BY <2>1, <2>2, <2>3 DEF EffectInv, InTurn, Batches, Effects, EffectsInOrder, Started
<1>2. CASE Next
  BY <1>2, InTurnStep, BatchesStep, EffectsStep, OrderStep DEF EffectInv
<1> QED BY <1>1, <1>2

LEMMA EffectHolds == ASSUME DeliveryAssumption PROVE Spec => []EffectInv
<1>1. Init => EffectInv
  BY EffectInit
<1>2. Core /\ Core' /\ EffectInv /\ [Next]_vars => EffectInv'
  BY EffectInvStep
<1>3. Spec => []Core
  BY CoreHolds
<1> QED BY <1>1, <1>2, <1>3, PTL DEF Spec

\* An acknowledged event took effect, and the inbox transaction lets none do so
\* twice: retries, late workers, requeues and redeliveries included.
THEOREM Once == Spec => []EffectExactlyOnce
<1>1. Core /\ EffectInv => EffectExactlyOnce
  BY DEF EffectInv, Effects, EffectExactlyOnce, IsInjective
<1>2. Spec => []Core
  BY CoreHolds, DeliveryAssumption
<1>3. Spec => []EffectInv
  BY EffectHolds, DeliveryAssumption
<1> QED BY <1>1, <1>2, <1>3, PTL

\* An effect that comes after one of a later event of its stream is that of an
\* event whose first delivery failed.
THEOREM InOrder == Spec => []EffectsInOrder
<1>1. EffectInv => EffectsInOrder
  BY DEF EffectInv
<1>2. Spec => []EffectInv
  BY EffectHolds, DeliveryAssumption
<1> QED BY <1>1, <1>2, PTL

-----------------------------------------------------------------------------
(* The limits.                                                              *)

\* Claims of a ledger D that can still be settled, and who holds them.
LiveIn(D) == {d \in DOMAIN D : D[d].live}
OwnersIn(D) == {D[d].owner : d \in LiveIn(D)}

InFlight == /\ Cardinality(LiveIn(delivery)) <= MaxInFlight
            /\ Cardinality(OwnersIn(delivery)) <= MaxConcurrency
Backlog == Cardinality(OpenIn(delivery)) <= PendingLimit

LEMMA LiveFinite ==
    ASSUME DeliveryAssumption, TypeOK
    PROVE  /\ IsFiniteSet(LiveIn(delivery)) /\ Cardinality(LiveIn(delivery)) \in Nat
           /\ IsFiniteSet(OwnersIn(delivery)) /\ Cardinality(OwnersIn(delivery)) \in Nat
           /\ IsFiniteSet(OpenIn(delivery)) /\ Cardinality(OpenIn(delivery)) \in Nat
           /\ IsFiniteSet(Workers \cup {NoOwner})
<1>1. IsFiniteSet(DOMAIN delivery)
  BY DEF TypeOK
<1>2. LiveIn(delivery) \subseteq DOMAIN delivery /\ OpenIn(delivery) \subseteq DOMAIN delivery
  BY DEF LiveIn, OpenIn
<1>3. IsFiniteSet(Workers \cup {NoOwner})
  <2>1. IsFiniteSet(Workers)
    BY DEF DeliveryAssumption
  <2> QED BY <2>1, FS_AddElement
<1>4. OwnersIn(delivery) \subseteq Workers \cup {NoOwner}
  <2>1. \A d \in DOMAIN delivery : delivery[d].owner \in Workers \cup {NoOwner}
    BY DEF TypeOK, RecordType
  <2> QED BY <1>2, <2>1 DEF OwnersIn
<1>5. IsFiniteSet(LiveIn(delivery)) /\ IsFiniteSet(OpenIn(delivery)) /\ IsFiniteSet(OwnersIn(delivery))
  BY <1>1, <1>2, <1>3, <1>4, FS_Subset
<1> QED BY <1>3, <1>5, FS_CardinalityType

\* Steps that claim nothing.
LEMMA InFlightKept ==
    ASSUME DeliveryAssumption, TypeOK, InFlight,
           \A d \in DOMAIN delivery' : delivery'[d].live =>
              d \in DOMAIN delivery /\ delivery[d].live /\ delivery'[d].owner = delivery[d].owner
    PROVE  InFlight'
<1>1. LiveIn(delivery') \subseteq LiveIn(delivery) /\ OwnersIn(delivery') \subseteq OwnersIn(delivery)
  BY DEF LiveIn, OwnersIn
<1>2. /\ Cardinality(LiveIn(delivery')) \in Nat
      /\ Cardinality(LiveIn(delivery')) <= Cardinality(LiveIn(delivery))
      /\ Cardinality(OwnersIn(delivery')) \in Nat
      /\ Cardinality(OwnersIn(delivery')) <= Cardinality(OwnersIn(delivery))
  BY <1>1, LiveFinite, FS_Subset, FS_CardinalityType
<1>3. /\ Cardinality(LiveIn(delivery')) <= MaxInFlight
      /\ Cardinality(OwnersIn(delivery')) <= MaxConcurrency
  BY <1>2, LiveFinite, Limited DEF InFlight
<1> QED BY <1>3 DEF InFlight, LiveIn, OwnersIn

\* A claim takes what its capacity leaves.
LEMMA InFlightClaim ==
    ASSUME DeliveryAssumption, Core, InFlight, NEW w \in Workers, NEW scope, Claim(w, scope)
    PROVE  InFlight'
<1> DEFINE T == Taken(w, scope)
           L == LiveIn(delivery)
           O == OwnersIn(delivery)
<1>0. TypeOK /\ Placed /\ Keyed /\ Lives
  BY DEF Core
<1>1. Claims = L /\ Owners = O
  <2>1. Claims = L
    BY <1>0, RecoveredFacts DEF Claims, LiveIn
  <2> QED BY <2>1 DEF Owners, OwnersIn
<1>2. /\ IsFiniteSet(L) /\ Cardinality(L) \in Nat /\ Cardinality(L) <= MaxInFlight
      /\ IsFiniteSet(O) /\ Cardinality(O) \in Nat /\ Cardinality(O) <= MaxConcurrency
  BY <1>0, LiveFinite DEF InFlight
<1>3. DOMAIN delivery' = DOMAIN delivery /\ T \subseteq DOMAIN delivery
  BY <1>0, ClaimFacts DEF Changes
<1>4. \A d \in T : delivery'[d].live /\ delivery'[d].owner = w
  BY <1>0, ClaimFacts
<1>5. \A d \in DOMAIN delivery \ T : /\ delivery'[d].live <=> d \in L
                                     /\ d \in L => delivery'[d] = delivery[d]
  BY <1>0, <1>1, ClaimFacts, RecoveredFacts
<1>6. LiveIn(delivery') \subseteq L \cup T /\ OwnersIn(delivery') \subseteq O \cup {delivery'[d].owner : d \in T}
  BY <1>3, <1>5 DEF LiveIn, OwnersIn
<1>7. Candidates(scope) \in SUBSET DOMAIN delivery
  BY DEF Candidates
<1>8. CASE w \notin Owners /\ Cardinality(Owners) >= MaxConcurrency
  <2>1. Capacity(w) = 0
    BY <1>8 DEF Capacity
  <2>2. T = {}
    BY <1>0, <1>7, <2>1, FirstOfFacts DEF Taken
  <2> HIDE DEF T, L, O
  <2>3. LiveIn(delivery') \subseteq L /\ OwnersIn(delivery') \subseteq O
    BY <1>6, <2>2
  <2>4. \A d \in DOMAIN delivery' : delivery'[d].live =>
           d \in DOMAIN delivery /\ delivery[d].live /\ delivery'[d].owner = delivery[d].owner
    BY <1>3, <1>5, <2>2 DEF LiveIn, L
  <2> QED BY <1>0, <2>4, InFlightKept
<1>9. CASE ~(w \notin Owners /\ Cardinality(Owners) >= MaxConcurrency)
  <2> DEFINE room == MaxInFlight - Cardinality(L)
  <2>1. room \in Nat
    BY <1>2, Limited
  <2>2. Capacity(w) \in Nat /\ Capacity(w) <= room
    <3>1. Capacity(w) = IF room < BatchSize THEN room ELSE BatchSize
      BY <1>1, <1>9 DEF Capacity
    <3> HIDE DEF room
    <3> QED BY <2>1, <3>1, Limited
  <2>3. Cardinality(T) <= Capacity(w)
    <3>1. PICK k \in Nat : k = Capacity(w)
      BY <2>2
    <3>2. PICK D \in SUBSET DOMAIN delivery : D = Candidates(scope)
      BY <1>7
    <3>3. k \in Int
      BY <3>1
    <3>4. Cardinality(FirstOf(D, k)) <= k
      BY <1>0, <3>1, <3>3, FirstOfFacts
    <3> QED BY <3>1, <3>2, <3>4 DEF Taken
  <2>4. IsFiniteSet(T) /\ Cardinality(T) \in Nat
    <3>1. IsFiniteSet(DOMAIN delivery)
      BY <1>0 DEF TypeOK
    <3>2. IsFiniteSet(T)
      BY <1>3, <3>1, FS_Subset
    <3> QED BY <3>2, FS_CardinalityType
  <2> HIDE DEF T, L, O
  <2>5. /\ IsFiniteSet(L \cup T) /\ Cardinality(L \cup T) \in Nat
        /\ Cardinality(L \cup T) <= Cardinality(L) + Cardinality(T)
    <3>1. /\ IsFiniteSet(L \cup T)
          /\ Cardinality(L \cup T) = Cardinality(L) + Cardinality(T) - Cardinality(L \cap T)
      BY <1>2, <2>4, FS_Union
    <3>2. Cardinality(L \cap T) \in Nat
      BY <1>2, FS_Intersection, FS_CardinalityType
    <3>3. Cardinality(L \cup T) \in Nat
      BY <3>1, FS_CardinalityType
    <3> QED BY <1>2, <2>4, <3>1, <3>2, <3>3
  <2>6. Cardinality(LiveIn(delivery')) <= Cardinality(L \cup T) /\ Cardinality(LiveIn(delivery')) \in Nat
    BY <1>6, <2>5, FS_Subset, FS_CardinalityType
  <2>7. Cardinality(LiveIn(delivery')) <= MaxInFlight
    BY <1>2, <2>2, <2>3, <2>4, <2>5, <2>6, Limited
  <2>8. OwnersIn(delivery') \subseteq O \cup {w}
    BY <1>4, <1>6
  <2>9. Cardinality(O \cup {w}) <= MaxConcurrency /\ IsFiniteSet(O \cup {w})
    <3>1. CASE w \in O
      <4>1. O \cup {w} = O
        BY <3>1
      <4> QED BY <1>2, <4>1
    <3>2. CASE w \notin O
      <4>1. Cardinality(O) < MaxConcurrency
        BY <1>1, <1>2, <1>9, <3>2, Limited
      <4>2. IsFiniteSet(O \cup {w}) /\ Cardinality(O \cup {w}) = Cardinality(O) + 1
        BY <1>2, <3>2, FS_AddElement
      <4> QED BY <1>2, <4>1, <4>2, Limited
    <3> QED BY <3>1, <3>2
  <2>10. /\ Cardinality(OwnersIn(delivery')) <= Cardinality(O \cup {w})
         /\ Cardinality(OwnersIn(delivery')) \in Nat /\ Cardinality(O \cup {w}) \in Nat
    BY <2>8, <2>9, FS_Subset, FS_CardinalityType
  <2>11. Cardinality(OwnersIn(delivery')) <= MaxConcurrency
    BY <2>9, <2>10, Limited
  <2> QED BY <2>7, <2>11 DEF InFlight, LiveIn, OwnersIn
<1> QED BY <1>8, <1>9

LEMMA InFlightStep ==
    ASSUME DeliveryAssumption, Core, InFlight, [Next]_vars
    PROVE  InFlight'
<1>0. TypeOK /\ Placed /\ Keyed /\ Numbered(delivery) /\ Lives /\ Held /\ Letters /\ Empty
  BY DEF Core
<1>1. CASE delivery' = delivery
  BY <1>0, <1>1, InFlightKept
<1>2. CASE UNCHANGED vars
  BY <1>1, <1>2 DEF vars, ledger
<1>3. ASSUME NEW new \in SUBSET Nexts, delivery' = WithPending(delivery, new) PROVE InFlight'
  <2>1. /\ DOMAIN delivery' = DOMAIN delivery \cup new
        /\ \A d \in DOMAIN delivery : delivery'[d] = delivery[d]
        /\ \A d \in new : delivery'[d] = Pending
    BY <1>0, <1>3, GrowFacts
  <2> QED BY <1>0, <2>1, PendingFacts, InFlightKept
<1>4. ASSUME NEW e \in Events, AppendEvent(e) PROVE InFlight'
  <2>1. PICK new \in SUBSET {<<e, 1>>} : delivery' = WithPending(delivery, new)
    BY <1>0, <1>4, AppendFacts
  <2>2. new \in SUBSET Nexts
    BY <1>0, <1>4, <2>1, AppendFacts
  <2> QED BY <1>3, <2>1, <2>2
<1>5. CASE Register
  BY <1>0, <1>3, <1>5, RegisterFacts
<1>6. CASE Pause \/ Resume \/ Retire
  BY <1>1, <1>6 DEF Pause, Resume, Retire, ledger
<1>7. CASE Cancel
  BY <1>0, <1>7, CancelFacts, InFlightKept DEF Changes
<1>8. ASSUME NEW w \in Workers, Settling(w) PROVE InFlight'
  <2>1. PICK o \in Outcomes : worker[w].batch # <<>> /\ Settlement(w, o)
    BY <1>8 DEF Settling
  <2>2. PICK d : d = Current(w).delivery
    OBVIOUS
  <2>3. /\ DOMAIN delivery' = DOMAIN delivery
        /\ \A c \in DOMAIN delivery : c # d => delivery'[c] = delivery[c]
        /\ LeaseMatches(w) => ~delivery'[d].live
        /\ ~LeaseMatches(w) => delivery' = delivery
    BY <1>0, <2>1, <2>2, SettlementFacts DEF Changes
  <2>4. CASE LeaseMatches(w)
    BY <1>0, <2>3, <2>4, InFlightKept
  <2> QED BY <1>1, <2>3, <2>4
<1>9. ASSUME NEW w \in Workers, Settle(w) \/ Skip(w) \/ Crash(w) PROVE InFlight'
  BY <1>0, <1>1, <1>8, <1>9, SettleIs DEF Skip, Crash, ledger
<1>10. ASSUME NEW w \in Workers, NEW o \in Outcomes, Consume(w, o) \/ Execute(w, o) PROVE InFlight'
  BY <1>1, <1>8, <1>10, ExecuteIs DEF Consume, ledger
<1>11. ASSUME NEW d \in DOMAIN delivery, Expire(d) \/ Wait(d) PROVE InFlight'
  BY <1>0, <1>11, TimeFacts, InFlightKept DEF Changes
<1>12. ASSUME NEW d \in deadLetter, Requeue(d) PROVE InFlight'
  <2> DEFINE x == <<d[1], NextGeneration(d[1])>>
  <2>1. x \in Nexts /\ delivery' = WithPending(delivery, {x})
    BY <1>0, <1>12, RequeueFacts
  <2> HIDE DEF x
  <2> QED BY <1>3, <2>1
<1>13. ASSUME NEW d \in deadLetter, Resolve(d) PROVE InFlight'
  BY <1>1, <1>13 DEF Resolve
<1>14. ASSUME NEW s \in Streams, NEW from, NEW through, Redeliver(s, from, through) PROVE InFlight'
  BY <1>0, <1>3, <1>14, RedeliverFacts
<1> QED BY <1>2, <1>4, <1>5, <1>6, <1>7, <1>9, <1>10, <1>11, <1>12, <1>13, <1>14, InFlightClaim DEF Next

\* No step opens what it does not add.
LEMMA OpenKept ==
    ASSUME DeliveryAssumption, TypeOK, Backlog, Changes
    PROVE  Backlog'
<1>1. OpenIn(delivery') \subseteq OpenIn(delivery)
  <2> SUFFICES ASSUME NEW d \in OpenIn(delivery') PROVE d \in OpenIn(delivery)
    OBVIOUS
  <2>1. d \in DOMAIN delivery /\ delivery'[d].state \in Open /\ Moved(delivery[d], delivery'[d])
    BY DEF OpenIn, Changes
  <2>2. delivery[d].state \notin Settled
    BY <2>1 DEF Moved, Open, Settled
  <2> QED BY <2>1, <2>2, RecordFacts DEF OpenIn
<1>2. Cardinality(OpenIn(delivery')) \in Nat /\ Cardinality(OpenIn(delivery')) <= Cardinality(OpenIn(delivery))
  BY <1>1, LiveFinite, FS_Subset, FS_CardinalityType
<1>3. Cardinality(OpenIn(delivery')) <= PendingLimit
  BY <1>2, LiveFinite, Limited DEF Backlog
<1> QED BY <1>3 DEF Backlog, OpenIn

\* What adds deliveries has room for them.
LEMMA OpenGrown ==
    ASSUME DeliveryAssumption, TypeOK, Numbered(delivery), Lives, NEW new \in SUBSET Nexts,
           delivery' = WithPending(delivery, new), IsFiniteSet(new),
           Cardinality(OpenIn(delivery)) + Cardinality(new) <= PendingLimit
    PROVE  Backlog'
<1>1. OpenIn(delivery') \subseteq OpenIn(delivery) \cup new
  BY GrowFacts DEF OpenIn
<1>2. /\ IsFiniteSet(OpenIn(delivery)) /\ Cardinality(OpenIn(delivery)) \in Nat
      /\ Cardinality(new) \in Nat
  BY LiveFinite, FS_CardinalityType
<1>3. /\ IsFiniteSet(OpenIn(delivery) \cup new)
      /\ Cardinality(OpenIn(delivery) \cup new)
           = Cardinality(OpenIn(delivery)) + Cardinality(new) - Cardinality(OpenIn(delivery) \cap new)
  BY <1>2, FS_Union
<1>4. Cardinality(OpenIn(delivery) \cap new) \in Nat /\ Cardinality(OpenIn(delivery) \cup new) \in Nat
  BY <1>2, <1>3, FS_Intersection, FS_CardinalityType
<1>5. Cardinality(OpenIn(delivery')) <= Cardinality(OpenIn(delivery) \cup new)
      /\ Cardinality(OpenIn(delivery')) \in Nat
  BY <1>1, <1>3, FS_Subset, FS_CardinalityType
<1>6. Cardinality(OpenIn(delivery')) <= PendingLimit
  BY <1>2, <1>3, <1>4, <1>5, Limited
<1> QED BY <1>6 DEF Backlog, OpenIn

LEMMA BacklogStep ==
    ASSUME DeliveryAssumption, Core, Backlog, [Next]_vars
    PROVE  Backlog'
<1>0. TypeOK /\ Placed /\ Keyed /\ Numbered(delivery) /\ Lives /\ Held /\ Letters /\ Empty
  BY DEF Core
<1>a. Cardinality(OpenIn(delivery)) \in Nat /\ PendingLimit \in Nat \ {0}
  BY <1>0, LiveFinite, Limited
<1>1. CASE delivery' = delivery
  BY <1>0, <1>1, SameLedger, OpenKept
<1>2. CASE UNCHANGED vars
  BY <1>1, <1>2 DEF vars, ledger
<1>3. ASSUME NEW x \in Nexts, delivery' = WithPending(delivery, {x}),
             Cardinality(OpenIn(delivery)) < PendingLimit
      PROVE  Backlog'
  <2>1. IsFiniteSet({x}) /\ Cardinality({x}) = 1
    BY FS_Singleton
  <2>2. Cardinality(OpenIn(delivery)) + Cardinality({x}) <= PendingLimit
    BY <1>a, <1>3, <2>1
  <2> QED BY <1>0, <1>3, <2>1, <2>2, OpenGrown
<1>4. ASSUME NEW e \in Events, AppendEvent(e) PROVE Backlog'
  <2>1. <<e, 1>> \in Nexts
    BY <1>0, <1>4, AppendFacts
  <2>2. \/ delivery' = delivery
        \/ delivery' = WithPending(delivery, {<<e, 1>>}) /\ Cardinality(OpenIn(delivery)) < PendingLimit
    BY <1>4 DEF AppendEvent
  <2> QED BY <1>1, <1>3, <2>1, <2>2
<1>5. CASE Register
  <2>1. /\ Backfilled \subseteq Nexts /\ delivery' = WithPending(delivery, Backfilled)
        /\ DOMAIN delivery = {}
    BY <1>0, <1>5, RegisterFacts
  <2>2. Cardinality(Backfilled) <= PendingLimit
    BY <1>5 DEF Register, Backfilled
  <2>3. IsFiniteSet(Backfilled) /\ Cardinality(Backfilled) \in Nat
    <3>1. DOMAIN delivery' = Backfilled /\ IsFiniteSet(DOMAIN delivery')
      BY <1>0, <2>1, GrowFacts
    <3>2. IsFiniteSet(Backfilled)
      BY <3>1
    <3> QED BY <3>2, FS_CardinalityType
  <2>4. Cardinality(OpenIn(delivery)) = 0
    <3>1. OpenIn(delivery) = {}
      BY <2>1 DEF OpenIn
    <3> QED BY <3>1, FS_EmptySet
  <2>5. Cardinality(OpenIn(delivery)) + Cardinality(Backfilled) <= PendingLimit
    BY <1>a, <2>2, <2>3, <2>4
  <2> QED BY <1>0, <2>1, <2>3, <2>5, OpenGrown
<1>6. CASE Pause \/ Resume \/ Retire
  BY <1>1, <1>6 DEF Pause, Resume, Retire, ledger
<1>7. CASE Cancel
  BY <1>0, <1>7, CancelFacts, OpenKept
<1>8. ASSUME NEW w \in Workers, NEW scope, Claim(w, scope) PROVE Backlog'
  BY <1>0, <1>8, ClaimFacts, OpenKept
<1>9. ASSUME NEW w \in Workers, Settling(w) PROVE Backlog'
  BY <1>0, <1>9, SettlementFacts, OpenKept DEF Settling
<1>10. ASSUME NEW w \in Workers, Settle(w) \/ Skip(w) \/ Crash(w) PROVE Backlog'
  BY <1>0, <1>1, <1>9, <1>10, SettleIs DEF Skip, Crash, ledger
<1>11. ASSUME NEW w \in Workers, NEW o \in Outcomes, Consume(w, o) \/ Execute(w, o) PROVE Backlog'
  BY <1>1, <1>9, <1>11, ExecuteIs DEF Consume, ledger
<1>12. ASSUME NEW d \in DOMAIN delivery, Expire(d) \/ Wait(d) PROVE Backlog'
  BY <1>0, <1>12, TimeFacts, OpenKept
<1>13. ASSUME NEW d \in deadLetter, Requeue(d) PROVE Backlog'
  <2> DEFINE x == <<d[1], NextGeneration(d[1])>>
  <2>1. x \in Nexts /\ delivery' = WithPending(delivery, {x})
    BY <1>0, <1>13, RequeueFacts
  <2>2. Cardinality(OpenIn(delivery)) < PendingLimit
    BY <1>13 DEF Requeue
  <2> HIDE DEF x
  <2> QED BY <1>3, <2>1, <2>2
<1>14. ASSUME NEW d \in deadLetter, Resolve(d) PROVE Backlog'
  BY <1>1, <1>14 DEF Resolve
<1>15. ASSUME NEW s \in Streams, NEW from, NEW through, Redeliver(s, from, through) PROVE Backlog'
  <2> DEFINE K == InRange(s, from, through)
             R == Redelivered(s, from, through)
             f == [d \in K |-> <<d[1], NextGeneration(d[1])>>]
  <2>1. R \in SUBSET Nexts /\ delivery' = WithPending(delivery, R)
    BY <1>0, <1>15, RedeliverFacts
  <2>2. Cardinality(OpenIn(delivery)) + Cardinality(K) <= PendingLimit
    BY <1>15 DEF Redeliver, InRange
  <2>3. IsFiniteSet(K) /\ Cardinality(K) \in Nat
    <3>1. K \subseteq DOMAIN delivery
      BY DEF InRange, FirstIn
    <3>2. IsFiniteSet(DOMAIN delivery)
      BY <1>0 DEF TypeOK
    <3>3. IsFiniteSet(K)
      BY <3>1, <3>2, FS_Subset
    <3> QED BY <3>3, FS_CardinalityType
  <2>4. f \in Surjection(K, R)
    <3>1. f \in [K -> R]
      BY DEF Redelivered
    <3>2. \A x \in R : \E d \in K : f[d] = x
      BY DEF Redelivered
    <3> HIDE DEF f, K, R
    <3> QED BY <3>1, <3>2 DEF Surjection
  <2> HIDE DEF f, K, R
  <2>5. IsFiniteSet(R) /\ Cardinality(R) <= Cardinality(K)
    BY <2>3, <2>4, FS_Surjection
  <2>6. Cardinality(R) \in Nat
    BY <2>5, FS_CardinalityType
  <2>7. Cardinality(OpenIn(delivery)) + Cardinality(R) <= PendingLimit
    BY <1>a, <2>2, <2>3, <2>5, <2>6
  <2> QED BY <1>0, <2>1, <2>5, <2>7, OpenGrown
<1> QED BY <1>2, <1>4, <1>5, <1>6, <1>7, <1>8, <1>10, <1>11, <1>12, <1>13, <1>14, <1>15 DEF Next

LEMMA LimitsInit == ASSUME DeliveryAssumption, Init PROVE InFlight /\ Backlog
<1>1. LiveIn(delivery) = {} /\ OwnersIn(delivery) = {} /\ OpenIn(delivery) = {}
  BY DEF Init, LiveIn, OwnersIn, OpenIn
<1>2. Cardinality({}) = 0
  BY FS_EmptySet
<1> QED BY <1>1, <1>2, Limited DEF InFlight, Backlog

LEMMA LimitsInvariant == ASSUME DeliveryAssumption PROVE Spec => [](InFlight /\ Backlog)
<1>1. Init => InFlight /\ Backlog
  BY LimitsInit
<1>2. Core /\ (InFlight /\ Backlog) /\ [Next]_vars => (InFlight /\ Backlog)'
  BY InFlightStep, BacklogStep
<1>3. Spec => []Core
  BY CoreHolds
<1> QED BY <1>1, <1>2, <1>3, PTL DEF Spec

\* What a retired subscription still has open lies before its retirement.
LEMMA RetiredWatermark ==
    ASSUME DeliveryAssumption, Core, Subscribed, status = "retired", NEW d \in DOMAIN delivery
    PROVE  BeforeRetirement(d)
<1>0. TypeOK /\ Placed /\ Keyed /\ Numbered(delivery)
  BY DEF Core
<1>1. PICK s \in Streams : s = StreamOf[d[1]]
  BY <1>0, KeyParts
<1>2. d[1] \in Events /\ d[1] \in Stored
  BY <1>0, KeyParts
<1>3. PICK n \in 1..Len(stream[s]) : n = SequenceOf(d[1]) /\ stream[s][n] = d[1]
  BY <1>0, <1>1, <1>2, StoredAt
<1>4. <<d[1], 1>> \in DOMAIN delivery
  BY <1>0, <1>2, GenerationFacts
<1>5. Told(s) /\ Delivered(s) /\ begin[s] # 0 /\ DOMAIN stream[s] = 1..Len(stream[s])
  BY <1>0, <1>1, WantedTyped DEF Subscribed
<1>6. n \in FirstWanted(s)..LastWanted(s)
  BY <1>3, <1>4, <1>5 DEF Delivered, Wanted
<1>7. end[s] = retired[s] /\ LastWanted(s) = retired[s]
  BY <1>5 DEF Told, LastWanted
<1>8. retired[s] \in Nat /\ n <= retired[s] /\ n >= 1
  BY <1>0, <1>6, <1>7, WantedTyped
<1> QED BY <1>1, <1>3, <1>7, <1>8 DEF BeforeRetirement

\* Attempts, claims in flight, their owners and the backlog keep to their
\* limits, and a retired subscription to its watermark, in every reachable state.
THEOREM Limits == Spec => []LimitsHold
<1>1. Core /\ Subscribed /\ (InFlight /\ Backlog) => LimitsHold
  <2> SUFFICES ASSUME Core, Subscribed, InFlight, Backlog PROVE LimitsHold
    OBVIOUS
  <2>1. \A d \in DOMAIN delivery : delivery[d].attempts <= MaxAttempts
    BY DEF Core, Lives, Lively
  <2>2. status = "retired" => \A d \in OpenIn(delivery) : BeforeRetirement(d)
    BY RetiredWatermark, DeliveryAssumption DEF OpenIn
  <2> QED BY <2>1, <2>2 DEF LimitsHold, InFlight, Backlog, LiveIn, OwnersIn
<1>2. Spec => []Core
  BY CoreHolds, DeliveryAssumption
<1>3. Spec => []Subscribed
  BY SubscribedHolds, DeliveryAssumption
<1>4. Spec => [](InFlight /\ Backlog)
  BY LimitsInvariant, DeliveryAssumption
<1> QED BY <1>1, <1>2, <1>3, <1>4, PTL
=============================================================================
