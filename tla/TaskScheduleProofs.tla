------------------------- MODULE TaskScheduleProofs -------------------------
(***************************************************************************)
(* Proofs about TaskSchedule, for any schedules, clock and number of       *)
(* processes: a schedule fires only when it is due, the file never names a *)
(* run that was not enqueued, with one tick loop every due time is         *)
(* enqueued once, once more for every fault and twice more for every edit, *)
(* a process that is alone never loses the file, and one that is lost      *)
(* stays lost.                                                             *)
(***************************************************************************)
EXTENDS TaskScheduleProperties, FiniteSetTheorems, WellFoundedInduction, TLAPS

-----------------------------------------------------------------------------
(* Numbers.                                                                *)

\* A non-empty set of numbers has a least one.
LEMMA LeastExists ==
    ASSUME NEW T, T \subseteq Nat, T # {}
    PROVE  \E x \in T : \A y \in T : x <= y
<1>1. PICK x \in T : \A y \in T : ~(<<y, x>> \in OpToRel(<, Nat))
  BY WFMin, NatLessThanWellFounded
<1>2. \A y \in T : ~(y < x)
  BY <1>1 DEF OpToRel
<1> QED BY <1>2

\* The latest of some times is one of them.
LEMMA LatestIs ==
    ASSUME NEW b \in Nat, NEW T, T \subseteq 0..b, T # {}
    PROVE  Latest(T) \in T /\ \A u \in T : u <= Latest(T)
<1> DEFINE left == {b - x : x \in T}
<1>1. left \subseteq Nat /\ left # {}
  <2>1. \A x \in T : x \in Nat /\ b - x \in Nat
    OBVIOUS
  <2> QED BY <2>1
<1>2. PICK u \in left : \A v \in left : u <= v
  BY <1>1, LeastExists
<1>3. PICK x \in T : u = b - x
  OBVIOUS
<1>4. \A y \in T : b - x <= b - y
  BY <1>2, <1>3
<1>5. \A y \in T : y <= x
  BY <1>4
<1> QED BY <1>5 DEF Latest

LEMMA Monotone ==
    ASSUME NEW i \in Int, NEW j \in Int, NEW e \in Nat, i <= j
    PROVE  i * e <= j * e
OBVIOUS

LEMMA Cancel ==
    ASSUME NEW i \in Int, NEW j \in Int, NEW e \in Nat \ {0}, i * e <= j * e
    PROVE  i <= j
OBVIOUS

LEMMA Division ==
    ASSUME NEW e \in Nat \ {0}, NEW d \in Nat
    PROVE  /\ d = (d \div e) * e + (d % e) /\ d \div e \in Nat
           /\ d % e \in Nat /\ d % e < e /\ (d \div e) * e <= d
OBVIOUS

LEMMA Multiples ==
    ASSUME NEW e \in Nat \ {0}, NEW d \in Nat
    PROVE  d % e = 0 <=> \E k \in Nat : d = k * e
<1>1. PICK q \in Nat, r \in Nat : q = d \div e /\ r = d % e /\ d = q * e + r /\ r < e
  BY Division
<1>2. ASSUME NEW k \in Nat, d = k * e PROVE r = 0
  <2>1. q * e <= k * e
    BY <1>1, <1>2
  <2>2. q <= k
    BY <2>1, Cancel
  <2>3. CASE k = q
    BY <1>1, <1>2, <2>3
  <2>4. CASE q + 1 <= k
    <3>1. (q + 1) * e <= k * e
      BY <2>4, Monotone
    <3>2. (q + 1) * e = q * e + e
      OBVIOUS
    <3> QED BY <1>1, <1>2, <3>1, <3>2
  <2> QED BY <2>2, <2>3, <2>4
<1>3. ASSUME r = 0 PROVE d = q * e
  BY <1>1, <1>3
<1> QED BY <1>1, <1>2, <1>3

-----------------------------------------------------------------------------
(* What evaluate returns.                                                  *)

\* The times at which a schedule may fire.
OnGrid(s, t) ==
    LET spec == Trigger[s]
    IN  /\ spec.kind = "date" => t = spec.runAt
        /\ spec.kind = "cron" => t \in spec.cron
        /\ spec.kind = "interval" /\ spec.runAt # Never =>
              \E k \in Nat : t = spec.runAt + k * spec.every

\* A last run that has been.
Timely(s, last, at) == last = Never \/ (last \in 0..at /\ OnGrid(s, last))

\* An interval that enqueues every due time it has missed.
CatchesUp(s) ==
    LET spec == Trigger[s]
    IN  spec.kind = "interval" /\ spec.policy = "catch_up" /\ spec.runAt # Never

\* Due times are on the grid and new, the last run covers them and is one of
\* them unless it did not move, and catching up leaves none out.
Sound(s, last, at, due) ==
    /\ \A t \in due.times : t \in 0..at /\ OnGrid(s, t) /\ last < t /\ t <= due.last
    /\ Timely(s, due.last, at) /\ last <= due.last
    /\ Trigger[s].policy # "skip" => due.last = last \/ due.last \in due.times
    /\ CatchesUp(s) => \A t \in Nat : OnGrid(s, t) /\ last < t /\ t <= due.last => t \in due.times

LEMMA TriggerTypes ==
    ASSUME NEW s \in Schedules
    PROVE  /\ Trigger[s].kind \in Kinds /\ Trigger[s].policy \in Policies
           /\ Trigger[s].every \in Nat \ {0} /\ Trigger[s].maxRuns \in Nat \ {0}
           /\ Trigger[s].runAt \in Times \cup {Never} /\ Trigger[s].cron \subseteq Times
           /\ Trigger[s].kind = "date" => Trigger[s].runAt # Never
           /\ Times = 0..MaxTime /\ Times \subseteq Nat /\ MaxTime \in Nat /\ Never = -1
BY ScheduleAssumption DEF Times, Never

LEMMA NothingDue ==
    ASSUME NEW s \in Schedules, NEW at \in Times, NEW last, Timely(s, last, at)
    PROVE  Sound(s, last, at, Due({}, last))
<1>1. last \in Int
  BY TriggerTypes DEF Timely
<1> QED BY <1>1, TriggerTypes DEF Sound, Due

LEMMA DateSound ==
    ASSUME NEW s \in Schedules, Trigger[s].kind = "date", NEW at \in Times,
           NEW last, Timely(s, last, at)
    PROVE  Sound(s, last, at, DueDate(Trigger[s], last, at))
<1>1. CASE last # Never \/ at < Trigger[s].runAt
  BY <1>1, NothingDue DEF DueDate
<1>2. CASE last = Never /\ ~(at < Trigger[s].runAt)
  <2>1. DueDate(Trigger[s], last, at) = Due({Trigger[s].runAt}, Trigger[s].runAt)
    BY <1>2 DEF DueDate
  <2>2. Trigger[s].runAt \in 0..at /\ Never < Trigger[s].runAt
    BY <1>2, TriggerTypes
  <2>3. OnGrid(s, Trigger[s].runAt) /\ ~CatchesUp(s)
    BY DEF OnGrid, CatchesUp
  <2> QED BY <1>2, <2>1, <2>2, <2>3, TriggerTypes DEF Sound, Due, Timely
<1> QED BY <1>1, <1>2

LEMMA CronSound ==
    ASSUME NEW s \in Schedules, Trigger[s].kind = "cron", NEW at \in Times,
           NEW last, Timely(s, last, at)
    PROVE  Sound(s, last, at, DueCron(Trigger[s], last, at))
<1> DEFINE hits == Trigger[s].cron \cap (IF last = Never THEN {at} ELSE Scanned(last, at))
           due  == DueCron(Trigger[s], last, at)
<1>1. last \in Int /\ at \in Nat
  BY TriggerTypes DEF Timely
<1>2. \A t \in hits : t \in 0..at /\ last < t /\ OnGrid(s, t)
  <2>1. CASE last = Never
    BY <2>1, TriggerTypes DEF OnGrid
  <2>2. CASE last # Never
    <3>1. Window \in Nat /\ Window > 0 /\ last \in 0..at
      BY <2>2, ScheduleAssumption DEF Timely
    <3>2. \A t \in Scanned(last, at) : t \in 0..at /\ last < t
      BY <3>1, TriggerTypes DEF Scanned, Smaller
    <3> QED BY <2>2, <3>2 DEF OnGrid
  <2> QED BY <2>1, <2>2
<1>3. ~CatchesUp(s)
  BY DEF CatchesUp
<1>4. CASE hits = {}
  BY <1>4, NothingDue DEF DueCron
<1>5. CASE hits # {}
  <2>1. Latest(hits) \in hits /\ \A u \in hits : u <= Latest(hits)
    <3> HIDE DEF hits
    <3> QED BY <1>1, <1>2, <1>5, LatestIs
  <2>2. Latest(hits) \in Newest(hits, Trigger[s].maxRuns)
    <3>1. {u \in hits : u > Latest(hits)} = {}
      BY <1>1, <1>2, <2>1
    <3>2. Cardinality({u \in hits : u > Latest(hits)}) = Cardinality({})
      BY <3>1, Zenon
    <3> HIDE DEF hits
    <3>3. Cardinality({u \in hits : u > Latest(hits)}) = 0
      BY <3>2, FS_EmptySet
    <3> QED BY <2>1, <3>3, TriggerTypes DEF Newest
  <2>3. /\ due.last = Latest(hits)
        /\ due.times \subseteq hits
        /\ Trigger[s].policy # "skip" => Latest(hits) \in due.times
    <3>1. CASE Cardinality(hits) > 1 /\ Trigger[s].policy = "skip"
      BY <1>5, <3>1 DEF DueCron, Due
    <3>2. CASE ~(Cardinality(hits) > 1 /\ Trigger[s].policy = "skip") /\ Trigger[s].policy = "run_once"
      <4>1. due = Due({Latest(hits)}, Latest(hits))
        BY <1>5, <3>2 DEF DueCron
      <4> HIDE DEF hits, due
      <4> QED BY <2>1, <4>1 DEF Due
    <3>3. CASE ~(Cardinality(hits) > 1 /\ Trigger[s].policy = "skip") /\ Trigger[s].policy # "run_once"
      <4>1. due = Due(Newest(hits, Trigger[s].maxRuns), Latest(hits))
        BY <1>5, <3>3 DEF DueCron
      <4> HIDE DEF hits, due
      <4> QED BY <2>2, <4>1 DEF Due, Newest
    <3> QED BY <3>1, <3>2, <3>3
  <2> HIDE DEF hits, due
  <2>4. Timely(s, due.last, at) /\ last <= due.last
    BY <1>1, <1>2, <2>1, <2>3 DEF Timely
  <2>5. Sound(s, last, at, due)
    BY <1>1, <1>2, <1>3, <2>1, <2>3, <2>4 DEF Sound
  <2> QED BY <2>5 DEF due
<1> QED BY <1>4, <1>5

\* The due times of an interval are those base, base + every, ... that are not
\* in the future.
LEMMA CountIs ==
    ASSUME NEW s \in Schedules, NEW base \in Nat, NEW at \in Nat, base <= at
    PROVE  \E q \in Nat : /\ Count(Trigger[s], base, at) = q + 1
                          /\ \A i \in 0..q : base + i * Trigger[s].every <= at
<1> DEFINE e == Trigger[s].every
<1>1. e \in Nat \ {0} /\ at - base \in Nat
  BY TriggerTypes
<1>2. PICK q \in Nat : q = (at - base) \div e /\ q * e <= at - base
  <2> HIDE DEF e
  <2> QED BY <1>1, Division
<1>3. ASSUME NEW i \in 0..q PROVE base + i * e <= at
  <2>1. i * e <= q * e
    BY <1>1, Monotone
  <2>2. i * e \in Int /\ q * e \in Int
    BY <1>1
  <2> HIDE DEF e
  <2> QED BY <1>2, <2>1, <2>2
<1>4. Count(Trigger[s], base, at) = q + 1
  BY <1>2 DEF Count
<1> QED BY <1>3, <1>4

\* The first due time comes after the last run, on the grid, and no other one
\* between them.
LEMMA BaseIs ==
    ASSUME NEW s \in Schedules, Trigger[s].kind = "interval", NEW at \in Times,
           NEW last, Timely(s, last, at)
    PROVE  LET base == IntervalBase(Trigger[s], last, at)
               e    == Trigger[s].every
           IN  /\ base \in Nat /\ last \in Int /\ last < base
               /\ Trigger[s].runAt # Never =>
                    /\ \E b \in Nat : base = Trigger[s].runAt + b * e
                    /\ \A t \in Nat : OnGrid(s, t) /\ last < t => \E j \in Nat : t = base + j * e
<1> DEFINE base == IntervalBase(Trigger[s], last, at)
           e == Trigger[s].every
           r == Trigger[s].runAt
<1>1. e \in Nat \ {0} /\ at \in Nat /\ r \in Nat \cup {-1} /\ Never = -1
  BY TriggerTypes
<1>2. \A t : OnGrid(s, t) /\ r # Never => \E k \in Nat : t = r + k * e
  BY DEF OnGrid
<1>3. CASE last = Never
  <2>1. base = IF r = Never THEN at ELSE r
    BY <1>3 DEF IntervalBase
  <2>2. base \in Nat /\ last \in Int /\ last < base
    BY <1>1, <1>3, <2>1
  <2>3. r # Never => base = r /\ base = r + 0 * e
    <3> HIDE DEF base, e, r
    <3> QED BY <1>1, <2>1
  <2> HIDE DEF base, e, r
  <2>4. r # Never =>
          /\ \E b \in Nat : base = r + b * e
          /\ \A t \in Nat : OnGrid(s, t) /\ last < t => \E j \in Nat : t = base + j * e
    BY <1>2, <2>3
  <2> QED BY <2>2, <2>4 DEF base, e, r
<1>4. CASE last # Never
  <2>1. base = last + e /\ last \in Nat /\ OnGrid(s, last)
    BY <1>1, <1>4 DEF IntervalBase, Timely
  <2>2. base \in Nat /\ last < base
    <3> HIDE DEF base, e
    <3> QED BY <1>1, <2>1
  <2>3. ASSUME r # Never
        PROVE  /\ \E b \in Nat : base = r + b * e
               /\ \A t \in Nat : OnGrid(s, t) /\ last < t => \E j \in Nat : t = base + j * e
    <3>1. PICK k \in Nat : last = r + k * e
      BY <1>2, <2>1, <2>3
    <3>2. (k + 1) * e = k * e + e /\ k * e \in Int
      BY <1>1
    <3>3. base = r + (k + 1) * e
      <4> HIDE DEF base, e, r
      <4> QED BY <1>1, <2>1, <2>3, <3>1, <3>2
    <3>4. ASSUME NEW t \in Nat, OnGrid(s, t), last < t
          PROVE  \E j \in Nat : t = base + j * e
      <4>1. PICK m \in Nat : t = r + m * e
        BY <1>2, <2>3, <3>4
      <4>2. k < m
        <5>1. ~(m * e <= k * e)
          <6> HIDE DEF e, r, base
          <6> QED BY <1>1, <2>3, <3>1, <3>2, <3>4, <4>1
        <5>2. m <= k => m * e <= k * e
          BY <1>1, Monotone
        <5> QED BY <5>1, <5>2
      <4>3. (m - (k + 1)) * e = m * e - (k + 1) * e /\ m * e \in Int /\ (k + 1) * e \in Int
        BY <1>1
      <4>4. m - (k + 1) \in Nat /\ t = base + (m - (k + 1)) * e
        <5> HIDE DEF base, e, r
        <5> QED BY <1>1, <2>3, <3>3, <4>1, <4>2, <4>3
      <4> QED BY <4>4
    <3> QED BY <3>3, <3>4
  <2> QED BY <2>1, <2>2, <2>3
<1> QED BY <1>3, <1>4

\* Which of them are taken.
LEMMA TakenIs ==
    ASSUME NEW s \in Schedules, NEW q \in Nat
    PROVE  /\ Taken(Trigger[s], q + 1) \subseteq 0..q /\ Taken(Trigger[s], q + 1) # {}
           /\ Trigger[s].policy = "catch_up" =>
                \A i \in Taken(Trigger[s], q + 1) : 0..i \subseteq Taken(Trigger[s], q + 1)
<1>1. PICK m \in Nat \ {0} : m = Trigger[s].maxRuns
  BY TriggerTypes
<1>2. CASE Trigger[s].policy = "run_once"
  BY <1>2 DEF Taken
<1>3. CASE Trigger[s].policy # "run_once"
  <2>1. Taken(Trigger[s], q + 1) = 0..(Smaller(q + 1, m) - 1)
    BY <1>1, <1>3 DEF Taken
  <2>2. PICK c \in Nat : c = Smaller(q + 1, m) /\ c > 0 /\ c <= q + 1
    BY DEF Smaller
  <2>3. Taken(Trigger[s], q + 1) = 0..(c - 1)
    BY <2>1, <2>2
  <2>4. 0..(c - 1) \subseteq 0..q /\ 0 \in 0..(c - 1) /\ \A i \in 0..(c - 1) : 0..i \subseteq 0..(c - 1)
    BY <2>2
  <2> QED BY <2>3, <2>4, Zenon
<1> QED BY <1>2, <1>3

LEMMA IntervalSound ==
    ASSUME NEW s \in Schedules, Trigger[s].kind = "interval", NEW at \in Times,
           NEW last, Timely(s, last, at)
    PROVE  Sound(s, last, at, DueInterval(Trigger[s], last, at))
<1> DEFINE due == DueInterval(Trigger[s], last, at)
<1>1. PICK base : base = IntervalBase(Trigger[s], last, at)
  OBVIOUS
<1>2. PICK e \in Nat \ {0} : e = Trigger[s].every
  BY TriggerTypes
<1>3. PICK r \in Nat \cup {-1} : r = Trigger[s].runAt /\ Never = -1
  BY TriggerTypes
<1>4. /\ base \in Nat /\ last \in Int /\ last < base /\ at \in Nat
      /\ r # Never =>
           /\ \E b \in Nat : base = r + b * e
           /\ \A t \in Nat : OnGrid(s, t) /\ last < t => \E j \in Nat : t = base + j * e
  BY <1>1, <1>2, <1>3, BaseIs, TriggerTypes
<1>5. CASE at < base
  BY <1>1, <1>5, NothingDue DEF DueInterval
<1>6. CASE base <= at
  <2>1. PICK q \in Nat : /\ Count(Trigger[s], base, at) = q + 1
                         /\ \A i \in 0..q : base + i * e <= at
    BY <1>2, <1>4, <1>6, CountIs
  <2>2. ASSUME NEW i \in 0..q
        PROVE  base + i * e \in 0..at /\ OnGrid(s, base + i * e) /\ last < base + i * e
    <3>1. i * e \in Nat /\ base + i * e <= at
      BY <2>1
    <3>2. base + i * e \in 0..at /\ last < base + i * e
      BY <1>4, <3>1
    <3>3. OnGrid(s, base + i * e)
      <4>1. CASE r = Never
        BY <1>3, <4>1 DEF OnGrid
      <4>2. CASE r # Never
        <5>1. PICK b \in Nat : base = r + b * e
          BY <1>4, <4>2
        <5>2. (b + i) * e = b * e + i * e /\ b * e \in Int /\ b + i \in Nat
          OBVIOUS
        <5>3. base + i * e = r + (b + i) * e
          BY <1>3, <3>1, <5>1, <5>2, <4>2
        <5> QED BY <1>2, <1>3, <5>2, <5>3 DEF OnGrid
      <4> QED BY <4>1, <4>2
    <3> QED BY <3>2, <3>3
  <2>3. CASE q + 1 > 1 /\ Trigger[s].policy = "skip"
    <3>1. due = Due({}, base + q * e)
      <4>1. due = Due({}, base + (q + 1 - 1) * e)
        BY <1>1, <1>2, <1>4, <1>6, <2>1, <2>3 DEF DueInterval
      <4>2. q + 1 - 1 = q
        OBVIOUS
      <4> QED BY <4>1, <4>2
    <3>2. base + q * e \in 0..at /\ OnGrid(s, base + q * e) /\ last < base + q * e
      BY <2>2
    <3>3. ~CatchesUp(s)
      BY <2>3 DEF CatchesUp
    <3>4. PICK m : m = base + q * e
      OBVIOUS
    <3> HIDE DEF due
    <3>5. Sound(s, last, at, due)
      BY <1>4, <2>3, <3>1, <3>2, <3>3, <3>4 DEF Sound, Due, Timely
    <3> QED BY <3>5 DEF due
  <2>4. CASE ~(q + 1 > 1 /\ Trigger[s].policy = "skip")
    <3> DEFINE taken == Taken(Trigger[s], q + 1)
               times == {base + i * e : i \in taken}
    <3>1. due = Due(times, Latest(times))
      BY <1>1, <1>2, <1>4, <1>6, <2>1, <2>4 DEF DueInterval
    <3>2. /\ taken \subseteq 0..q /\ taken # {}
          /\ Trigger[s].policy = "catch_up" => \A i \in taken : 0..i \subseteq taken
      BY TakenIs
    <3>3. times \subseteq 0..at /\ times # {}
      <4> HIDE DEF taken
      <4> QED BY <2>2, <3>2
    <3>4. Latest(times) \in times /\ \A u \in times : u <= Latest(times)
      <4> HIDE DEF times
      <4> QED BY <1>4, <3>3, LatestIs
    <3>5. PICK l : l = Latest(times)
      OBVIOUS
    <3>6. \A t \in times : t \in 0..at /\ OnGrid(s, t) /\ last < t /\ t <= l
      <4> HIDE DEF taken
      <4>1. \A t \in times : t \in 0..at /\ OnGrid(s, t) /\ last < t
        BY <2>2, <3>2
      <4> QED BY <3>4, <3>5, <4>1
    <3>7. ASSUME CatchesUp(s), NEW t \in Nat, OnGrid(s, t), last < t, t <= l
          PROVE  t \in times
      <4>1. PICK j \in Nat : t = base + j * e
        BY <1>3, <1>4, <3>7 DEF CatchesUp
      <4>2. PICK i \in taken : l = base + i * e
        BY <3>4, <3>5
      <4>3. i \in Nat /\ j * e \in Int /\ i * e \in Int
        <5> HIDE DEF taken
        <5>1. i \in Nat
          BY <3>2, <4>2
        <5> QED BY <5>1
      <4>4. j * e <= i * e
        <5> HIDE DEF taken, times
        <5> QED BY <1>4, <3>7, <4>1, <4>2, <4>3
      <4>5. j <= i
        <5> HIDE DEF taken, times
        <5> QED BY <4>3, <4>4, Cancel
      <4>6. j \in taken
        <5> HIDE DEF taken, times
        <5>1. j \in 0..i
          BY <4>3, <4>5
        <5>2. 0..i \subseteq taken
          BY <3>2, <3>7 DEF CatchesUp
        <5> QED BY <5>1, <5>2
      <4> QED BY <4>1, <4>6
    <3>8. due.times = times /\ due.last = l
      <4> HIDE DEF times, due
      <4> QED BY <3>1, <3>5 DEF Due
    <3>9. l \in times /\ l \in 0..at /\ OnGrid(s, l) /\ last <= l
      <4>1. l \in times
        BY <3>4, <3>5
      <4> HIDE DEF times, due
      <4> QED BY <1>4, <3>6, <4>1
    <3> HIDE DEF times, due
    <3>10. Sound(s, last, at, due)
      BY <3>6, <3>7, <3>8, <3>9 DEF Sound, Timely
    <3> QED BY <3>10 DEF due
  <2> QED BY <2>3, <2>4
<1> QED BY <1>4, <1>5, <1>6

\* evaluate, whatever the kind and policy of the schedule.
LEMMA EvaluateSound ==
    ASSUME NEW s \in Schedules, NEW at \in Times, NEW last, Timely(s, last, at)
    PROVE  Sound(s, last, at, Evaluate(s, last, at))
<1>1. Trigger[s].kind \in {"date", "interval", "cron"}
  BY TriggerTypes DEF Kinds
<1>2. CASE Trigger[s].kind = "date"
  BY <1>2, DateSound DEF Evaluate
<1>3. CASE Trigger[s].kind = "interval"
  BY <1>3, IntervalSound DEF Evaluate
<1>4. CASE Trigger[s].kind = "cron"
  BY <1>4, CronSound DEF Evaluate
<1> QED BY <1>1, <1>2, <1>3, <1>4

-----------------------------------------------------------------------------
(* The processes.                                                          *)

Points == {"idle", "enqueue", "find", "load", "open", "fill", "rename"}
Files == UNION {[S -> Int] : S \in SUBSET Schedules}

SaveType == [id : Schedules, kind : {"run", "edit", "delete"}, last : Int, moved : BOOLEAN]
ProcType == [pc : Points, due : SUBSET (Schedules \X Times), saves : SUBSET SaveType, file : Files]

\* Only a whole file names schedules.
FileType == {f \in [state : {"absent", "empty", "whole", "garbled"}, runs : Files] :
                f.state # "whole" => f.runs = NoRuns}

TypeOK ==
    /\ now \in Times
    /\ store \in FileType /\ temp \in FileType
    /\ handle \in [Procs -> {"none", "temp", "store"}]
    /\ proc \in [Procs -> ProcType]
    /\ fired \in [Schedules -> [Times -> Nat]]
    /\ edits \in Nat /\ faults \in Nat

\* What a process holds at each point: due times only while it enqueues, which
\* only a tick does, one save for each schedule it looked at, or the one save of
\* an edit.
Orderly(r, mayRun) ==
    /\ r.pc = "idle" => r.saves = {}
    /\ IF r.pc = "enqueue" THEN mayRun ELSE r.due = {}
    /\ r.pc \in {"load", "open", "fill", "rename"} => r.saves # {}
    /\ \A u, v \in r.saves : u.id = v.id => u = v
    /\ \A u \in r.saves :
          /\ u.kind # "run" => u.last = Never /\ r.saves = {u} /\ r.pc # "enqueue"
          /\ u.kind = "run" => mayRun

Shapes == TypeOK /\ \A p \in Procs : Orderly(proc[p], p \in Tickers)

LEMMA ProcFacts ==
    ASSUME TypeOK, NEW p \in Procs
    PROVE  /\ proc[p] \in ProcType
           /\ proc[p].due \subseteq Schedules \X Times
           /\ \A u \in proc[p].saves :
                 /\ u \in SaveType /\ u.id \in Schedules /\ u.kind \in {"run", "edit", "delete"}
                 /\ u.last \in Int /\ u.moved \in BOOLEAN
           /\ DOMAIN proc[p].file \subseteq Schedules
           /\ \A s \in DOMAIN proc[p].file : proc[p].file[s] \in Int
<1>1. proc[p] \in ProcType
  BY DEF TypeOK
<1>2. PICK S \in SUBSET Schedules : proc[p].file \in [S -> Int]
  BY <1>1 DEF ProcType, Files
<1>3. proc[p].saves \subseteq SaveType /\ proc[p].due \subseteq Schedules \X Times
  BY <1>1 DEF ProcType
<1> QED BY <1>1, <1>2, <1>3 DEF SaveType

LEMMA FileFacts ==
    ASSUME NEW f \in FileType
    PROVE  /\ f.runs \in Files /\ DOMAIN f.runs \subseteq Schedules
           /\ f.runs \in [DOMAIN f.runs -> Int] /\ \A s \in DOMAIN f.runs : f.runs[s] \in Int
           /\ f.state \in {"absent", "empty", "whole", "garbled"}
           /\ f.state # "whole" => DOMAIN f.runs = {}
<1>1. PICK S \in SUBSET Schedules : f.runs \in [S -> Int]
  BY DEF FileType, Files
<1>2. DOMAIN NoRuns = {}
  BY DEF NoRuns
<1> QED BY <1>1, <1>2 DEF FileType, Files

LEMMA StoreFacts ==
    ASSUME TypeOK
    PROVE  /\ DOMAIN store.runs \subseteq Schedules /\ store.runs \in [DOMAIN store.runs -> Int]
           /\ \A s \in DOMAIN store.runs : store.runs[s] \in Int
           /\ store.runs \in Files
BY FileFacts DEF TypeOK

\* The least of a set whose members have different places.
LEMMA LeastByPlace ==
    ASSUME NEW U, U # {}, NEW place \in [U -> Nat]
    PROVE  \E u \in U : \A v \in U : place[u] <= place[v]
<1> DEFINE T == {place[u] : u \in U}
<1>1. PICK x \in T : \A y \in T : x <= y
  BY LeastExists, ZenonT(90)
<1>2. PICK u \in U : x = place[u]
  OBVIOUS
<1> QED BY <1>1, <1>2

\* There is a next save as long as there are saves.
LEMMA NextSaveIs ==
    ASSUME Shapes, NEW p \in Procs, proc[p].saves # {}
    PROVE  NextSave(p) \in proc[p].saves
<1> DEFINE all == proc[p].saves
           moved == {u \in all : u.moved}
<1>1. \A u \in all : u.id \in Schedules /\ u.moved \in BOOLEAN /\ Place[u.id] \in Nat
  BY ProcFacts, ScheduleAssumption DEF Shapes
<1>2. \A u, v \in all : Place[u.id] = Place[v.id] => u = v
  BY <1>1, ScheduleAssumption DEF Shapes, Orderly
<1>3. \E u \in all : \A v \in all : v = u \/ SavedBefore(u, v)
  <2> HIDE DEF all
  <2>1. CASE moved # {}
    <3> DEFINE place == [u \in moved |-> Place[u.id]]
    <3>1. place \in [moved -> Nat]
      BY <1>1
    <3>2. PICK u \in moved : \A v \in moved : place[u] <= place[v]
      <4> HIDE DEF place, moved
      <4> QED BY <2>1, <3>1, LeastByPlace
    <3>3. \A v \in moved : Place[u.id] <= Place[v.id]
      BY <3>2
    <3> QED BY <1>1, <1>2, <3>3 DEF SavedBefore
  <2>2. CASE moved = {}
    <3> DEFINE place == [u \in all |-> Place[u.id]]
    <3>1. place \in [all -> Nat]
      BY <1>1
    <3>2. PICK u \in all : \A v \in all : place[u] <= place[v]
      <4> HIDE DEF place
      <4> QED BY <3>1, LeastByPlace DEF all
    <3>3. \A v \in all : Place[u.id] <= Place[v.id]
      BY <3>2
    <3> QED BY <1>1, <1>2, <2>2, <3>3 DEF SavedBefore
  <2> QED BY <2>1, <2>2
<1> QED BY <1>3 DEF NextSave

\* There is a next due time as long as there are due times.
LEMMA NextDueIs ==
    ASSUME TypeOK, NEW p \in Procs, proc[p].due # {}
    PROVE  /\ NextDue(p) \in proc[p].due
           /\ NextDue(p)[1] \in Schedules /\ NextDue(p)[2] \in Times
           /\ NextDue(p) = <<NextDue(p)[1], NextDue(p)[2]>>
<1> DEFINE all == proc[p].due
<1>1. \A d \in all : /\ d[1] \in Schedules /\ d[2] \in Times /\ d = <<d[1], d[2]>>
                     /\ Place[d[1]] \in Nat /\ d[2] \in Nat
  BY ProcFacts, ScheduleAssumption, TriggerTypes DEF Times
<1>2. \E d \in all : \A e \in all : e = d \/ DueBefore(d, e)
  <2> HIDE DEF all
  <2> DEFINE place == [d \in all |-> Place[d[1]]]
  <2>1. place \in [all -> Nat]
    BY <1>1
  <2>2. PICK d1 \in all : \A e \in all : place[d1] <= place[e]
    <3> HIDE DEF place
    <3> QED BY <2>1, LeastByPlace DEF all
  <2>3. \A e \in all : Place[d1[1]] <= Place[e[1]]
    BY <2>2
  <2> DEFINE same == {e \in all : e[1] = d1[1]}
             time == [e \in same |-> e[2]]
  <2>4. same # {} /\ time \in [same -> Nat]
    BY <1>1
  <2>5. PICK d \in same : \A e \in same : time[d] <= time[e]
    <3> HIDE DEF same, time
    <3> QED BY <2>4, LeastByPlace
  <2>6. \A e \in same : d[2] <= e[2]
    BY <2>5
  <2>7. ASSUME NEW e \in all PROVE e = d \/ DueBefore(d, e)
    <3>1. CASE e[1] = d1[1]
      BY <1>1, <2>6, <3>1 DEF DueBefore
    <3>2. CASE e[1] # d1[1]
      BY <1>1, <2>3, <3>2, ScheduleAssumption, SMTT(30) DEF DueBefore
    <3> QED BY <3>1, <3>2
  <2> QED BY <2>7
<1>3. NextDue(p) \in all
  BY <1>2 DEF NextDue
<1> QED BY <1>1, <1>3

-----------------------------------------------------------------------------
(* What each action makes of its process.                                  *)

Becomes(p, pc, due, saves, file) ==
    /\ proc'[p].pc = pc /\ proc'[p].due = due
    /\ proc'[p].saves = saves /\ proc'[p].file = file
    /\ \A q \in Procs : q # p => proc'[q] = proc[q]

\* A file that is not whole names nothing, and a text that is written is a file.
LEMMA NoRunsIs == NoRuns \in Files /\ DOMAIN NoRuns = {}
<1>1. NoRuns \in [{} -> Int] /\ {} \in SUBSET Schedules
  BY DEF NoRuns
<1>2. DOMAIN NoRuns = {}
  BY DEF NoRuns
<1> QED BY <1>1, <1>2 DEF Files

LEMMA FilesAre ==
    /\ Absent \in FileType /\ Absent.state = "absent" /\ DOMAIN Absent.runs = {}
    /\ Empty \in FileType /\ Empty.state = "empty" /\ DOMAIN Empty.runs = {}
    /\ Garbled \in FileType /\ Garbled.state = "garbled" /\ DOMAIN Garbled.runs = {}
    /\ \A runs : File(runs).state = "whole" /\ File(runs).runs = runs
    /\ \A runs \in Files : File(runs) \in FileType
BY NoRunsIs DEF FileType, Absent, Empty, Garbled, File

LEMMA MoveForm ==
    ASSUME TypeOK, NEW p \in Procs, NEW pc \in Points,
           NEW due \in SUBSET (Schedules \X Times), NEW saves \in SUBSET SaveType,
           NEW file \in Files,
           proc' = [proc EXCEPT ![p] = [pc |-> pc, due |-> due, saves |-> saves, file |-> file]]
    PROVE  proc' \in [Procs -> ProcType] /\ Becomes(p, pc, due, saves, file)
<1> DEFINE r == [pc |-> pc, due |-> due, saves |-> saves, file |-> file]
<1>1. r \in ProcType
  BY DEF ProcType, Files
<1>2. proc \in [Procs -> ProcType] /\ proc' = [proc EXCEPT ![p] = r]
  BY DEF TypeOK
<1>3. r.pc = pc /\ r.due = due /\ r.saves = saves /\ r.file = file
  OBVIOUS
<1> HIDE DEF r
<1>4. proc' \in [Procs -> ProcType] /\ proc'[p] = r /\ \A q \in Procs : q # p => proc'[q] = proc[q]
  BY <1>1, <1>2
<1> QED BY <1>3, <1>4 DEF Becomes

\* A record is what its fields are.
LEMMA WholeProc ==
    ASSUME TypeOK, NEW p \in Procs
    PROVE  /\ proc[p] = [pc |-> proc[p].pc, due |-> proc[p].due,
                         saves |-> proc[p].saves, file |-> proc[p].file]
           /\ proc[p].pc \in Points
           /\ proc[p].due \in SUBSET (Schedules \X Times) /\ proc[p].saves \in SUBSET SaveType
           /\ proc[p].file \in Files
BY DEF TypeOK, ProcType, Files

LEMMA IdleForm ==
    ASSUME TypeOK, NEW p \in Procs, proc' = [proc EXCEPT ![p] = Idle]
    PROVE  proc' \in [Procs -> ProcType] /\ Becomes(p, "idle", {}, {}, NoRuns)
BY MoveForm, NoRunsIs DEF Idle, Points

\* What a tick finds due, and the last runs it will save.
Found == {d \in (DOMAIN store.runs) \X Times : d[2] \in Evaluate(d[1], store.runs[d[1]], now).times}
Reached == {Run(s, Evaluate(s, store.runs[s], now).last,
               Evaluate(s, store.runs[s], now).last # store.runs[s]) : s \in DOMAIN store.runs}

\* The last run every part of the system knows of.
Punctual ==
    /\ \A s \in DOMAIN store.runs : Timely(s, store.runs[s], now)
    /\ \A s \in DOMAIN temp.runs : Timely(s, temp.runs[s], now)
    /\ \A p \in Procs :
          /\ \A u \in proc[p].saves : Timely(u.id, u.last, now)
          /\ \A s \in DOMAIN proc[p].file : Timely(s, proc[p].file[s], now)
          /\ \A d \in proc[p].due : d[2] \in 0..now /\ OnGrid(d[1], d[2])

Evaluated(s) == Sound(s, store.runs[s], now, Evaluate(s, store.runs[s], now))

LEMMA TickForm ==
    ASSUME Shapes, Punctual, Readable, NEW p \in Procs, Tick(p)
    PROVE  /\ \A s \in DOMAIN store.runs : Evaluated(s)
           /\ proc' \in [Procs -> ProcType] /\ Becomes(p, "enqueue", Found, Reached, NoRuns)
           /\ \A u \in Reached : /\ u.kind = "run" /\ u.id \in DOMAIN store.runs
                                 /\ u.last = Evaluate(u.id, store.runs[u.id], now).last
           /\ \A u, v \in Reached : u.id = v.id => u = v
           /\ \A s \in DOMAIN store.runs : \E u \in Reached : u.id = s
           /\ \A d \in Found : d[1] \in DOMAIN store.runs /\ d[2] \in Evaluate(d[1], store.runs[d[1]], now).times
<1> DEFINE E(s) == Evaluate(s, store.runs[s], now)
<1>0. DOMAIN store.runs \subseteq Schedules
  BY StoreFacts DEF Shapes
<1>1. \A s \in DOMAIN store.runs : Evaluated(s)
  BY <1>0, EvaluateSound DEF Punctual, Evaluated, Shapes, TypeOK
<1>2. \A s \in DOMAIN store.runs : E(s).last \in Int
  BY <1>1 DEF Evaluated, Sound, Timely, Never
<1>3. Found \in SUBSET (Schedules \X Times)
  BY <1>0 DEF Found
<1> DEFINE R(s) == Run(s, E(s).last, E(s).last # store.runs[s])
<1>r. /\ Reached = {R(s) : s \in DOMAIN store.runs}
      /\ \A s \in DOMAIN store.runs : /\ R(s) \in SaveType
                                 /\ R(s).id = s /\ R(s).kind = "run" /\ R(s).last = E(s).last
  <2>1. ASSUME NEW s \in DOMAIN store.runs
        PROVE  R(s) \in SaveType /\ R(s).id = s /\ R(s).kind = "run" /\ R(s).last = E(s).last
    <3>1. PICK l \in Int : l = E(s).last
      BY <1>2
    <3>2. PICK m \in BOOLEAN : m = (l # store.runs[s])
      OBVIOUS
    <3>3. R(s) = [id |-> s, kind |-> "run", last |-> l, moved |-> m]
      BY <3>1, <3>2 DEF Run
    <3>4. s \in Schedules
      BY <1>0
    <3> HIDE DEF R, E
    <3> QED BY <3>1, <3>3, <3>4 DEF SaveType
  <2> QED BY <2>1 DEF Reached
<1>4. Reached \in SUBSET SaveType
  <2> HIDE DEF R
  <2> QED BY <1>r
<1>5. proc' = [proc EXCEPT ![p] = [pc |-> "enqueue", due |-> Found, saves |-> Reached, file |-> NoRuns]]
  <2> DEFINE result == [s \in DOMAIN store.runs |-> Evaluate(s, store.runs[s], now)]
  <2>1. proc' = [proc EXCEPT ![p] = Work(
            {d \in (DOMAIN store.runs) \X Times : d[2] \in result[d[1]].times},
            {Run(s, result[s].last, result[s].last # store.runs[s]) : s \in DOMAIN store.runs})]
    BY DEF Tick
  <2>2. \A s \in DOMAIN store.runs : result[s] = E(s)
    OBVIOUS
  <2> HIDE DEF result
  <2>3. {d \in (DOMAIN store.runs) \X Times : d[2] \in result[d[1]].times} = Found
    BY <2>2 DEF Found
  <2>4. {Run(s, result[s].last, result[s].last # store.runs[s]) : s \in DOMAIN store.runs} = Reached
    BY <2>2 DEF Reached
  <2> QED BY <2>1, <2>3, <2>4 DEF Work
<1>6. proc' \in [Procs -> ProcType] /\ Becomes(p, "enqueue", Found, Reached, NoRuns)
  BY <1>3, <1>4, <1>5, MoveForm, NoRunsIs DEF Shapes, Points
<1>7. /\ \A u \in Reached : u.kind = "run" /\ u.id \in DOMAIN store.runs /\ u.last = E(u.id).last
      /\ \A u, v \in Reached : u.id = v.id => u = v
      /\ \A s \in DOMAIN store.runs : \E u \in Reached : u.id = s
  <2> HIDE DEF R, E
  <2> QED BY <1>r
<1>8. \A d \in Found : d[1] \in DOMAIN store.runs /\ d[2] \in E(d[1]).times
  BY DEF Found
<1> QED BY <1>1, <1>6, <1>7, <1>8

\* A tick that cannot read the file does nothing.
LEMMA TickRaises ==
    ASSUME NEW p \in Procs, Tick(p), ~Readable
    PROVE  UNCHANGED vars
BY DEF Tick, vars, disk

LEMMA EnqueueForm ==
    ASSUME Shapes, NEW p \in Procs, Enqueue(p)
    PROVE  /\ proc' \in [Procs -> ProcType] /\ NextDue(p) \in proc[p].due
           /\ \/ /\ Becomes(p, "enqueue", proc[p].due \ {NextDue(p)}, proc[p].saves, proc[p].file)
                 /\ fired' = [fired EXCEPT ![NextDue(p)[1]][NextDue(p)[2]] = Smaller(@ + 1, Many)]
                 /\ faults' = faults
              \/ /\ Becomes(p, "idle", {}, {}, NoRuns)
                 /\ fired' = fired /\ faults' = faults + 1
<1> DEFINE d == NextDue(p)
<1>1. d \in proc[p].due /\ TypeOK
  BY NextDueIs DEF Shapes, Enqueue
<1>2. CASE proc' = [proc EXCEPT ![p] = Idle] /\ fired' = fired /\ faults' = faults + 1
  BY <1>1, <1>2, IdleForm
<1>3. CASE /\ fired' = [fired EXCEPT ![d[1]][d[2]] = Smaller(@ + 1, Many)]
           /\ proc' = [proc EXCEPT ![p].due = @ \ {d}]
           /\ faults' = faults
  <2>1. proc[p] = [pc |-> "enqueue", due |-> proc[p].due, saves |-> proc[p].saves, file |-> proc[p].file]
    BY <1>1, WholeProc DEF Enqueue
  <2>2. proc' = [proc EXCEPT ![p] = [proc[p] EXCEPT !.due = proc[p].due \ {d}]]
    BY <1>3
  <2>3. [proc[p] EXCEPT !.due = proc[p].due \ {d}]
        = [pc |-> "enqueue", due |-> proc[p].due \ {d}, saves |-> proc[p].saves, file |-> proc[p].file]
    BY <2>1
  <2>4. proc' = [proc EXCEPT ![p] = [pc |-> "enqueue", due |-> proc[p].due \ {d},
                                     saves |-> proc[p].saves, file |-> proc[p].file]]
    BY <2>2, <2>3, Zenon
  <2>5. proc[p].due \ {d} \in SUBSET (Schedules \X Times)
    BY <1>1, WholeProc
  <2>6. /\ proc' \in [Procs -> ProcType]
        /\ Becomes(p, "enqueue", proc[p].due \ {d}, proc[p].saves, proc[p].file)
    BY <1>1, <2>4, <2>5, WholeProc, MoveForm DEF Points
  <2> QED BY <1>1, <1>3, <2>6
<1> QED BY <1>2, <1>3 DEF Enqueue

LEMMA EndForm ==
    ASSUME Shapes, NEW p \in Procs, EndOfEnqueues(p)
    PROVE  /\ proc' \in [Procs -> ProcType]
           /\ Becomes(p, "find", {}, proc[p].saves, proc[p].file)
<1>1. proc[p] = [pc |-> "enqueue", due |-> {}, saves |-> proc[p].saves, file |-> proc[p].file]
  BY WholeProc DEF EndOfEnqueues, Shapes
<1>2. proc' = [proc EXCEPT ![p] = [proc[p] EXCEPT !.pc = "find"]]
  BY DEF EndOfEnqueues
<1>3. [proc[p] EXCEPT !.pc = "find"]
      = [pc |-> "find", due |-> {}, saves |-> proc[p].saves, file |-> proc[p].file]
  BY <1>1
<1>4. proc' = [proc EXCEPT ![p] = [pc |-> "find", due |-> {}, saves |-> proc[p].saves,
                                   file |-> proc[p].file]]
  BY <1>2, <1>3, Zenon
<1>5. {} \in SUBSET (Schedules \X Times) /\ "find" \in Points
  BY DEF Points
<1> QED BY <1>4, <1>5, WholeProc, MoveForm DEF Shapes

\* A save either cannot be made, and the process gives up, or reads the file.
GivesUp(p) ==
    /\ Becomes(p, "idle", {}, {}, NoRuns)
    /\ proc[p].saves # {} /\ Readable =>
          NextSave(p).kind # "edit" /\ NextSave(p).id \notin DOMAIN store.runs

\* Whatever the condition on which it gives up.
LEMMA SaveForm ==
    ASSUME Shapes, NEW p \in Procs, NEW ends \in BOOLEAN, NEW pc \in {"load", "open"}, NEW file \in Files,
           proc' = [proc EXCEPT ![p] = IF ends THEN Idle ELSE Saving(pc, proc[p].saves, file)]
    PROVE  /\ proc' \in [Procs -> ProcType]
           /\ ends => Becomes(p, "idle", {}, {}, NoRuns)
           /\ ~ends => Becomes(p, pc, {}, proc[p].saves, file)
<1>1. CASE ends
  <2>1. proc' = [proc EXCEPT ![p] = Idle]
    BY <1>1
  <2> QED BY <1>1, <2>1, IdleForm DEF Shapes
<1>2. CASE ~ends
  <2>1. proc' = [proc EXCEPT ![p] = [pc |-> pc, due |-> {}, saves |-> proc[p].saves, file |-> file]]
    BY <1>2 DEF Saving
  <2>2. /\ pc \in Points
        /\ {} \in SUBSET (Schedules \X Times) /\ proc[p].saves \in SUBSET SaveType
    BY WholeProc DEF Shapes, Points
  <2>3. proc' \in [Procs -> ProcType] /\ Becomes(p, pc, {}, proc[p].saves, file)
    BY <2>1, <2>2, MoveForm DEF Shapes
  <2> QED BY <1>2, <2>3
<1> QED BY <1>1, <1>2

LEMMA FindForm ==
    ASSUME Shapes, NEW p \in Procs, Find(p)
    PROVE  /\ proc' \in [Procs -> ProcType]
           /\ \/ GivesUp(p)
              \/ Becomes(p, "load", {}, proc[p].saves, NoRuns) /\ proc[p].saves # {}
<1>1. PICK ends \in BOOLEAN : ends <=> \/ proc[p].saves = {}
                                       \/ /\ NextSave(p).kind = "run"
                                          /\ ~Readable \/ NextSave(p).id \notin DOMAIN store.runs
  OBVIOUS
<1>2. proc' = [proc EXCEPT ![p] = IF ends THEN Idle ELSE Saving("load", proc[p].saves, NoRuns)]
  BY <1>1 DEF Find
<1>3. /\ proc' \in [Procs -> ProcType]
      /\ ends => Becomes(p, "idle", {}, {}, NoRuns)
      /\ ~ends => Becomes(p, "load", {}, proc[p].saves, NoRuns)
  BY <1>2, SaveForm, NoRunsIs
<1> QED BY <1>1, <1>3 DEF GivesUp

LEMMA LoadForm ==
    ASSUME Shapes, NEW p \in Procs, Load(p)
    PROVE  /\ proc' \in [Procs -> ProcType] /\ NextSave(p) \in proc[p].saves
           /\ GivesUp(p) \/ (Readable /\ Becomes(p, "open", {}, proc[p].saves, store.runs))
<1>1. PICK ends \in BOOLEAN : ends <=> \/ ~Readable
                                       \/ NextSave(p).kind = "delete" /\ NextSave(p).id \notin DOMAIN store.runs
  OBVIOUS
<1>2. proc' = [proc EXCEPT ![p] = IF ends THEN Idle ELSE Saving("open", proc[p].saves, store.runs)]
  BY <1>1 DEF Load
<1>3. store.runs \in Files
  BY StoreFacts DEF Shapes
<1>4. /\ proc' \in [Procs -> ProcType]
      /\ ends => Becomes(p, "idle", {}, {}, NoRuns)
      /\ ~ends => Becomes(p, "open", {}, proc[p].saves, store.runs)
  BY <1>2, <1>3, SaveForm
<1>5. NextSave(p) \in proc[p].saves
  BY NextSaveIs DEF Shapes, Orderly, Load
<1> QED BY <1>1, <1>4, <1>5 DEF GivesUp

\* A step that only moves its process on.
LEMMA NextForm ==
    ASSUME Shapes, NEW p \in Procs, NEW pc \in Points, proc' = [proc EXCEPT ![p].pc = pc]
    PROVE  /\ proc' \in [Procs -> ProcType]
           /\ Becomes(p, pc, proc[p].due, proc[p].saves, proc[p].file)
<1>1. proc[p] = [pc |-> proc[p].pc, due |-> proc[p].due, saves |-> proc[p].saves, file |-> proc[p].file]
  BY WholeProc DEF Shapes
<1>2. proc' = [proc EXCEPT ![p] = [proc[p] EXCEPT !.pc = pc]]
  OBVIOUS
<1>3. [proc[p] EXCEPT !.pc = pc]
      = [pc |-> pc, due |-> proc[p].due, saves |-> proc[p].saves, file |-> proc[p].file]
  BY <1>1
<1>4. proc' = [proc EXCEPT ![p] = [pc |-> pc, due |-> proc[p].due, saves |-> proc[p].saves,
                                   file |-> proc[p].file]]
  BY <1>2, <1>3, Zenon
<1> QED BY <1>4, WholeProc, MoveForm DEF Shapes

LEMMA OpenForm ==
    ASSUME Shapes, NEW p \in Procs, Open(p)
    PROVE  /\ proc' \in [Procs -> ProcType]
           /\ Becomes(p, "fill", {}, proc[p].saves, proc[p].file)
<1>1. proc[p].due = {} /\ "fill" \in Points
  BY DEF Shapes, Orderly, Open, Points
<1>2. /\ proc' \in [Procs -> ProcType]
      /\ Becomes(p, "fill", proc[p].due, proc[p].saves, proc[p].file)
  BY <1>1, NextForm DEF Open
<1> QED BY <1>1, <1>2

\* The runs as a save leaves them.
Replaced(runs, file, save) ==
    /\ DOMAIN runs = (DOMAIN file \ {save.id}) \cup (IF save.kind = "delete" THEN {} ELSE {save.id})
    /\ \A s \in DOMAIN runs : runs[s] = IF s = save.id THEN save.last ELSE file[s]

LEMMA ContentsAre ==
    ASSUME Shapes, NEW p \in Procs, proc[p].saves # {}
    PROVE  /\ NextSave(p) \in proc[p].saves /\ Contents(p) \in Files
           /\ Replaced(Contents(p), proc[p].file, NextSave(p))
<1> DEFINE save == NextSave(p)
           file == proc[p].file
           ids  == (DOMAIN file \ {save.id}) \cup (IF save.kind = "delete" THEN {} ELSE {save.id})
<1>1. save \in proc[p].saves
  BY NextSaveIs
<1>2. /\ save.id \in Schedules /\ save.last \in Int
      /\ DOMAIN file \subseteq Schedules /\ \A s \in DOMAIN file : file[s] \in Int
  BY <1>1, ProcFacts DEF Shapes
<1>3. Contents(p) = [s \in ids |-> IF s = save.id THEN save.last ELSE file[s]]
  BY DEF Contents
<1> HIDE DEF save, file
<1>4. /\ DOMAIN Contents(p) = ids
      /\ \A s \in ids : Contents(p)[s] = IF s = save.id THEN save.last ELSE file[s]
  BY <1>3
<1>5. Contents(p) \in [ids -> Int] /\ ids \in SUBSET Schedules
  BY <1>2, <1>3
<1> QED BY <1>1, <1>4, <1>5 DEF save, file, Files, Replaced

\* Where the text of a save goes, and what else becomes of the two files.
LEMMA FillForm ==
    ASSUME Shapes, NEW p \in Procs, Fill(p)
    PROVE  /\ proc' \in [Procs -> ProcType] /\ NextSave(p) \in proc[p].saves
           /\ Becomes(p, "rename", {}, proc[p].saves, proc[p].file)
           /\ store' \in {store, Garbled, File(Contents(p))}
           /\ temp' \in {temp, Garbled, File(Contents(p))}
           /\ handle[p] = "temp" => store' = store /\ temp' \in {Garbled, File(Contents(p))}
<1>1. proc[p].due = {} /\ proc[p].saves # {} /\ "rename" \in Points
  BY DEF Shapes, Orderly, Fill, Points
<1>2. /\ proc' \in [Procs -> ProcType]
      /\ Becomes(p, "rename", proc[p].due, proc[p].saves, proc[p].file)
  BY <1>1, NextForm DEF Fill
<1>3. PICK file \in {Garbled, File(Contents(p))} :
         temp' = Put(p, "temp", temp, file) /\ store' = Put(p, "store", store, file)
  BY DEF Fill, Written
<1>4. temp' = IF handle[p] = "temp" THEN file ELSE temp
  BY <1>3 DEF Put
<1>5. store' = IF handle[p] = "store" THEN file ELSE store
  BY <1>3 DEF Put
<1>6. NextSave(p) \in proc[p].saves
  BY <1>1, NextSaveIs
<1> QED BY <1>1, <1>2, <1>3, <1>4, <1>5, <1>6

LEMMA RenameForm ==
    ASSUME Shapes, NEW p \in Procs, Rename(p)
    PROVE  /\ proc' \in [Procs -> ProcType] /\ NextSave(p) \in proc[p].saves
           /\ handle' \in [Procs -> {"none", "temp", "store"}]
           /\ \/ /\ temp # Absent /\ store' = temp /\ temp' = Absent
                 /\ Becomes(p, "find", {}, proc[p].saves \ {NextSave(p)}, NoRuns)
              \/ /\ temp = Absent /\ store' = store /\ temp' = temp
                 /\ Becomes(p, "idle", {}, {}, NoRuns)
<1>1. NextSave(p) \in proc[p].saves
  BY NextSaveIs DEF Shapes, Orderly, Rename
<1>2. handle' \in [Procs -> {"none", "temp", "store"}]
  BY DEF Rename, disk, Shapes, TypeOK
<1>3. CASE temp = Absent /\ proc' = [proc EXCEPT ![p] = Idle] /\ UNCHANGED disk
  BY <1>1, <1>2, <1>3, IdleForm DEF Shapes, disk
<1>4. CASE /\ temp # Absent /\ store' = temp /\ temp' = Absent
           /\ proc' = [proc EXCEPT ![p] = Saving("find", @.saves \ {NextSave(p)}, NoRuns)]
  <2>1. proc' = [proc EXCEPT ![p] = [pc |-> "find", due |-> {}, saves |-> proc[p].saves \ {NextSave(p)},
                                     file |-> NoRuns]]
    BY <1>4 DEF Saving
  <2>2. proc[p].saves \ {NextSave(p)} \in SUBSET SaveType /\ "find" \in Points
    BY WholeProc DEF Shapes, Points
  <2>3. /\ proc' \in [Procs -> ProcType]
        /\ Becomes(p, "find", {}, proc[p].saves \ {NextSave(p)}, NoRuns)
    BY <2>1, <2>2, NoRunsIs, MoveForm DEF Shapes
  <2> QED BY <1>1, <1>2, <1>4, <2>3
<1> QED BY <1>3, <1>4 DEF Rename

LEMMA ChangeForm ==
    ASSUME Shapes, NEW p \in Procs, Change(p)
    PROVE  \E s \in Schedules : \E save \in {Edit(s), Delete(s)} :
              /\ proc' \in [Procs -> ProcType] /\ Becomes(p, "load", {}, {save}, NoRuns)
              /\ save.id = s /\ save.kind \in {"edit", "delete"} /\ save.last = Never
<1>1. PICK s \in Schedules : \E save \in {Edit(s), Delete(s)} :
         proc' = [proc EXCEPT ![p] = Saving("load", {save}, NoRuns)]
  BY DEF Change
<1>2. PICK save \in {Edit(s), Delete(s)} :
         proc' = [proc EXCEPT ![p] = Saving("load", {save}, NoRuns)]
  BY <1>1
<1>4. proc' = [proc EXCEPT ![p] = [pc |-> "load", due |-> {}, saves |-> {save}, file |-> NoRuns]]
  BY <1>2 DEF Saving
<1>5. save \in SaveType /\ save.id = s /\ save.kind \in {"edit", "delete"} /\ save.last = Never
  <2>1. CASE save = Edit(s)
    <3>1. save = [id |-> s, kind |-> "edit", last |-> -1, moved |-> TRUE]
      BY <2>1 DEF Edit, Never
    <3> QED BY <3>1 DEF SaveType, Never
  <2>2. CASE save = Delete(s)
    <3>1. save = [id |-> s, kind |-> "delete", last |-> -1, moved |-> TRUE]
      BY <2>2 DEF Delete, Never
    <3> QED BY <3>1 DEF SaveType, Never
  <2> QED BY <2>1, <2>2
<1>6. /\ proc' \in [Procs -> ProcType] /\ Becomes(p, "load", {}, {save}, NoRuns)
  BY <1>4, <1>5, MoveForm, NoRunsIs DEF Shapes, Points
<1> QED BY <1>5, <1>6

LEMMA CrashForm ==
    ASSUME Shapes, NEW p \in Procs, Crash(p)
    PROVE  /\ proc' \in [Procs -> ProcType] /\ Becomes(p, "idle", {}, {}, NoRuns)
           /\ store' \in {store, Garbled} /\ temp' \in {temp, Garbled}
           /\ handle' \in [Procs -> {"none", "temp", "store"}]
<1>1. proc' \in [Procs -> ProcType] /\ Becomes(p, "idle", {}, {}, NoRuns)
  BY IdleForm DEF Crash, Shapes
<1>2. store' \in {store, Garbled} /\ temp' \in {temp, Garbled}
  BY DEF Crash, Put
<1>3. handle' \in [Procs -> {"none", "temp", "store"}]
  BY DEF Crash, Shapes, TypeOK
<1> QED BY <1>1, <1>2, <1>3

\* The two files are of their type after every step, and each is what it was, or
\* the other one, or has been spoiled, or is a text that a process has written.
LEMMA FilesStep ==
    ASSUME Shapes, [Next]_vars
    PROVE  /\ store' \in FileType /\ temp' \in FileType
           /\ handle' \in [Procs -> {"none", "temp", "store"}]
           /\ \A f \in {store', temp'} :
                 \/ f \in {store, temp} \/ DOMAIN f.runs = {}
                 \/ \E p \in Procs : Fill(p) /\ f = File(Contents(p))
<1>0. /\ store \in FileType /\ temp \in FileType
      /\ handle \in [Procs -> {"none", "temp", "store"}]
  BY DEF Shapes, TypeOK
<1>1. CASE UNCHANGED <<store, temp, handle>>
  BY <1>0, <1>1
<1>2. ASSUME NEW p \in Procs, Open(p) PROVE /\ store' = store /\ temp' = Empty
                                            /\ handle' \in [Procs -> {"none", "temp", "store"}]
  BY <1>0, <1>2 DEF Open
<1>3. ASSUME NEW p \in Procs, Fill(p)
      PROVE  /\ store' \in {store, Garbled, File(Contents(p))} /\ temp' \in {temp, Garbled, File(Contents(p))}
             /\ handle' \in [Procs -> {"none", "temp", "store"}] /\ Contents(p) \in Files
  <2>1. handle' \in [Procs -> {"none", "temp", "store"}]
    BY <1>0, <1>3 DEF Fill
  <2>2. proc[p].saves # {}
    BY <1>3 DEF Fill, Shapes, Orderly
  <2> QED BY <1>3, <2>1, <2>2, FillForm, ContentsAre
<1>4. ASSUME NEW p \in Procs, Rename(p) \/ Crash(p)
      PROVE  /\ store' \in {store, temp, Garbled} /\ temp' \in {temp, Absent, Garbled}
             /\ handle' \in [Procs -> {"none", "temp", "store"}]
  BY <1>4, RenameForm, CrashForm
<1>5. CASE \E p \in Procs : Open(p) \/ Rename(p) \/ Crash(p)
  BY <1>0, <1>2, <1>4, <1>5, FilesAre
<1>6. CASE \E p \in Procs : Fill(p)
  <2>1. PICK p \in Procs : Fill(p)
    BY <1>6
  <2>2. File(Contents(p)) \in FileType
    BY <1>3, <2>1, FilesAre
  <2> QED BY <1>0, <1>3, <2>1, <2>2, FilesAre
<1>7. CASE \E p \in Procs : \/ Tick(p) \/ Enqueue(p) \/ EndOfEnqueues(p) \/ Find(p) \/ Load(p) \/ Change(p)
  BY <1>1, <1>7 DEF Tick, Enqueue, EndOfEnqueues, Find, Load, Change, disk
<1>8. CASE Advance \/ UNCHANGED vars
  BY <1>1, <1>8 DEF Advance, vars, disk
<1> QED BY <1>5, <1>6, <1>7, <1>8 DEF Next, Step

-----------------------------------------------------------------------------
(* Types, and that no last run and no due time is made up.                 *)

LEMMA ShapesInit == Init => Shapes /\ Punctual
<1> SUFFICES ASSUME Init PROVE Shapes /\ Punctual
  OBVIOUS
<1>1. Idle \in ProcType
  BY NoRunsIs DEF Idle, ProcType, Points
<1>2. 0 \in Times
  BY ScheduleAssumption DEF Times
<1>3. /\ store \in FileType /\ temp \in FileType /\ DOMAIN temp.runs = {}
      /\ \A s \in DOMAIN store.runs : store.runs[s] = Never
  <2>1. [s \in Schedules |-> Never] \in [Schedules -> Int] /\ Schedules \in SUBSET Schedules
    BY DEF Never
  <2>2. [s \in Schedules |-> Never] \in Files
    BY <2>1 DEF Files
  <2> QED BY <2>2, FilesAre DEF Init
<1>4. TypeOK
  BY <1>1, <1>2, <1>3 DEF Init, TypeOK
<1>5. /\ Idle.pc = "idle" /\ Idle.due = {} /\ Idle.saves = {} /\ DOMAIN Idle.file = {}
      /\ \A p \in Procs : proc[p] = Idle
  BY NoRunsIs DEF Init, Idle
<1>6. Shapes
  BY <1>4, <1>5 DEF Shapes, Orderly
<1>7. Punctual
  BY <1>3, <1>5 DEF Punctual, Timely, Init
<1> QED BY <1>6, <1>7

LEMMA FiredStep ==
    ASSUME Shapes, NEW p \in Procs, Enqueue(p)
    PROVE  fired' \in [Schedules -> [Times -> Nat]]
<1>0. fired \in [Schedules -> [Times -> Nat]]
  BY DEF Shapes, TypeOK
<1>1. CASE fired' = fired
  BY <1>0, <1>1
<1>2. CASE fired' = [fired EXCEPT ![NextDue(p)[1]][NextDue(p)[2]] = Smaller(@ + 1, Many)]
  <2>1. Many \in Nat
    BY ScheduleAssumption DEF Many
  <2>2. PICK s \in Schedules, t \in Times : s = NextDue(p)[1] /\ t = NextDue(p)[2]
    BY NextDueIs DEF Shapes, Enqueue
  <2>3. fired[s][t] \in Nat /\ fired[s] \in [Times -> Nat]
    BY <1>0
  <2>4. Smaller(fired[s][t] + 1, Many) \in Nat
    BY <2>1, <2>3 DEF Smaller
  <2>5. fired' = [fired EXCEPT ![s] = [fired[s] EXCEPT ![t] = Smaller(fired[s][t] + 1, Many)]]
    BY <1>2, <2>2
  <2> QED BY <1>0, <2>3, <2>4, <2>5
<1> QED BY <1>1, <1>2, EnqueueForm

LEMMA OrderlyIdle == ASSUME NEW r, r.pc = "idle", r.saves = {}, r.due = {}, NEW b PROVE Orderly(r, b)
BY DEF Orderly

LEMMA ShapesStep ==
    ASSUME Shapes, Punctual, [Next]_vars
    PROVE  Shapes'
<1>0. TypeOK /\ \A p \in Procs : Orderly(proc[p], p \in Tickers)
  BY DEF Shapes
<1>1. CASE UNCHANGED vars
  BY <1>1 DEF vars, Shapes, TypeOK, Orderly
<1>f. /\ store' \in FileType /\ temp' \in FileType
      /\ handle' \in [Procs -> {"none", "temp", "store"}]
  BY FilesStep
<1>2. CASE Advance
  <2>1. now' \in Times
    BY <1>0, <1>2, ScheduleAssumption DEF TypeOK, Advance, Times
  <2> QED BY <1>2, <1>f, <2>1 DEF Advance, Shapes, TypeOK, Orderly
<1>3. ASSUME NEW p \in Procs, NEW pc, NEW due, NEW saves, NEW file,
             proc' \in [Procs -> ProcType], Becomes(p, pc, due, saves, file),
             now' = now, fired' \in [Schedules -> [Times -> Nat]],
             edits' \in Nat, faults' \in Nat,
             Orderly([pc |-> pc, due |-> due, saves |-> saves, file |-> file], p \in Tickers)
      PROVE  Shapes'
  <2>1. TypeOK'
    BY <1>0, <1>3, <1>f DEF TypeOK
  <2>2. Orderly(proc[p], p \in Tickers)'
    BY <1>3 DEF Becomes, Orderly
  <2>3. ASSUME NEW q \in Procs, q # p PROVE Orderly(proc[q], q \in Tickers)'
    BY <1>0, <1>3, <2>3 DEF Becomes, Orderly
  <2> QED BY <2>1, <2>2, <2>3 DEF Shapes
<1> DEFINE Fits(p, pc, due, saves, file) ==
             Orderly([pc |-> pc, due |-> due, saves |-> saves, file |-> file], p \in Tickers)
<1>4. fired \in [Schedules -> [Times -> Nat]] /\ edits \in Nat /\ faults \in Nat
  BY <1>0 DEF TypeOK
<1>5. ASSUME NEW p \in Procs PROVE Fits(p, "idle", {}, {}, NoRuns)
  BY DEF Orderly
<1>6. ASSUME NEW p \in Procs, Tick(p) PROVE Shapes'
  <2>1. CASE Readable
    <3>1. Fits(p, "enqueue", Found, Reached, NoRuns)
      BY <1>6, <2>1, TickForm DEF Orderly, Tick
    <3> QED BY <1>3, <1>4, <1>6, <2>1, <3>1, TickForm DEF Tick
  <2>2. CASE ~Readable
    BY <1>1, <1>6, <2>2, TickRaises
  <2> QED BY <2>1, <2>2
<1>7. ASSUME NEW p \in Procs, Enqueue(p) PROVE Shapes'
  <2>1. Fits(p, "enqueue", proc[p].due \ {NextDue(p)}, proc[p].saves, proc[p].file)
    BY <1>0, <1>7 DEF Orderly, Enqueue
  <2>2. now' = now /\ edits' \in Nat
    BY <1>4, <1>7 DEF Enqueue
  <2>3. proc' \in [Procs -> ProcType] /\ fired' \in [Schedules -> [Times -> Nat]]
    BY <1>7, EnqueueForm, FiredStep
  <2>4. CASE /\ Becomes(p, "enqueue", proc[p].due \ {NextDue(p)}, proc[p].saves, proc[p].file)
             /\ faults' = faults
    <3>1. faults' \in Nat
      BY <1>4, <2>4
    <3> QED BY <1>3, <2>1, <2>2, <2>3, <2>4, <3>1
  <2>5. CASE Becomes(p, "idle", {}, {}, NoRuns) /\ faults' = faults + 1
    <3>1. faults' \in Nat
      BY <1>4, <2>5
    <3> QED BY <1>3, <1>5, <2>2, <2>3, <2>5, <3>1
  <2> QED BY <1>7, <2>4, <2>5, EnqueueForm
<1>8. ASSUME NEW p \in Procs, EndOfEnqueues(p) PROVE Shapes'
  <2>1. Fits(p, "find", {}, proc[p].saves, proc[p].file)
    BY <1>0, <1>8 DEF Orderly, EndOfEnqueues
  <2> QED BY <1>3, <1>4, <1>8, <2>1, EndForm DEF EndOfEnqueues
<1>9. ASSUME NEW p \in Procs, Find(p) PROVE Shapes'
  <2>1. ASSUME proc[p].saves # {} PROVE Fits(p, "load", {}, proc[p].saves, NoRuns)
    BY <1>0, <1>9, <2>1 DEF Orderly, Find
  <2>2. now' = now /\ fired' = fired /\ edits' = edits /\ faults' = faults
    BY <1>9 DEF Find
  <2> QED BY <1>3, <1>4, <1>5, <1>9, <2>1, <2>2, FindForm DEF GivesUp
<1>10. ASSUME NEW p \in Procs, Load(p) PROVE Shapes'
  <2>1. Fits(p, "open", {}, proc[p].saves, store.runs)
    BY <1>0, <1>10 DEF Orderly, Load
  <2>2. now' = now /\ fired' = fired /\ edits' = edits /\ faults' = faults
    BY <1>10 DEF Load
  <2> QED BY <1>3, <1>4, <1>5, <1>10, <2>1, <2>2, LoadForm DEF GivesUp
<1>o. ASSUME NEW p \in Procs, Open(p) PROVE Shapes'
  <2>1. Fits(p, "fill", {}, proc[p].saves, proc[p].file)
    BY <1>0, <1>o DEF Orderly, Open
  <2>2. now' = now /\ fired' = fired /\ edits' = edits /\ faults' = faults
    BY <1>o DEF Open
  <2> QED BY <1>3, <1>4, <1>o, <2>1, <2>2, OpenForm
<1>w. ASSUME NEW p \in Procs, Fill(p) PROVE Shapes'
  <2>1. Fits(p, "rename", {}, proc[p].saves, proc[p].file)
    BY <1>0, <1>w DEF Orderly, Fill
  <2>2. now' = now /\ fired' = fired /\ edits' = edits /\ faults' = faults
    BY <1>w DEF Fill
  <2> QED BY <1>3, <1>4, <1>w, <2>1, <2>2, FillForm
<1>r. ASSUME NEW p \in Procs, Rename(p) PROVE Shapes'
  <2>1. Fits(p, "find", {}, proc[p].saves \ {NextSave(p)}, NoRuns)
    <3>1. Orderly(proc[p], p \in Tickers) /\ NextSave(p) \in proc[p].saves /\ proc[p].pc = "rename"
      BY <1>0, <1>r, RenameForm DEF Rename
    <3>2. ASSUME NEW u \in proc[p].saves \ {NextSave(p)} PROVE u.kind = "run"
      BY <3>1 DEF Orderly
    <3> QED BY <3>1, <3>2 DEF Orderly
  <2>2. now' = now /\ fired' = fired /\ edits' = edits /\ faults' = faults
    BY <1>r DEF Rename
  <2> QED BY <1>3, <1>4, <1>5, <1>r, <2>1, <2>2, RenameForm
<1>11. ASSUME NEW p \in Procs, Change(p) PROVE Shapes'
  <2>0. PICK s \in Schedules : \E save \in {Edit(s), Delete(s)} :
              /\ proc' \in [Procs -> ProcType] /\ Becomes(p, "load", {}, {save}, NoRuns)
              /\ save.id = s /\ save.kind \in {"edit", "delete"} /\ save.last = Never
    BY <1>11, ChangeForm
  <2>1. PICK save \in {Edit(s), Delete(s)} :
              /\ proc' \in [Procs -> ProcType] /\ Becomes(p, "load", {}, {save}, NoRuns)
              /\ save.id = s /\ save.kind \in {"edit", "delete"} /\ save.last = Never
    BY <2>0
  <2>2. Fits(p, "load", {}, {save}, NoRuns)
    BY <2>1 DEF Orderly
  <2>3. /\ now' = now /\ fired' \in [Schedules -> [Times -> Nat]]
        /\ edits' \in Nat /\ faults' \in Nat
    BY <1>4, <1>11 DEF Change
  <2> QED BY <1>3, <2>1, <2>2, <2>3
<1>12. ASSUME NEW p \in Procs, Crash(p) PROVE Shapes'
  <2>1. proc' \in [Procs -> ProcType] /\ Becomes(p, "idle", {}, {}, NoRuns)
    BY <1>12, CrashForm
  <2>2. /\ now' = now /\ fired' \in [Schedules -> [Times -> Nat]]
        /\ edits' \in Nat /\ faults' \in Nat
    BY <1>4, <1>12 DEF Crash
  <2> QED BY <1>3, <1>5, <2>1, <2>2
<1>13. ASSUME NEW p \in Procs, Step(p) \/ Change(p) \/ Crash(p) PROVE Shapes'
  BY <1>6, <1>7, <1>8, <1>9, <1>10, <1>o, <1>w, <1>r, <1>11, <1>12, <1>13 DEF Step
<1> QED BY <1>1, <1>2, <1>13 DEF Next

\* Advancing the clock keeps what is timely timely.
LEMMA PunctualLater ==
    ASSUME Shapes, Punctual, Advance
    PROVE  Punctual'
<1>1. PICK a \in Nat : now = a /\ now' = a + 1
  BY TriggerTypes DEF Advance, Shapes, TypeOK, Times
<1>2. \A s, last : Timely(s, last, a) => Timely(s, last, a + 1)
  <2>1. 0..a \subseteq 0..(a + 1)
    OBVIOUS
  <2> QED BY <2>1 DEF Timely
<1>3. store' = store /\ temp' = temp /\ proc' = proc
  BY DEF Advance, disk
<1>4. /\ \A s \in DOMAIN store.runs : Timely(s, store.runs[s], a + 1)
      /\ \A s \in DOMAIN temp.runs : Timely(s, temp.runs[s], a + 1)
  BY <1>1, <1>2 DEF Punctual
<1>5. \A p \in Procs :
          /\ \A u \in proc[p].saves : Timely(u.id, u.last, a + 1)
          /\ \A s \in DOMAIN proc[p].file : Timely(s, proc[p].file[s], a + 1)
          /\ \A d \in proc[p].due : d[2] \in 0..(a + 1) /\ OnGrid(d[1], d[2])
  BY <1>1, <1>2 DEF Punctual
<1> QED BY <1>1, <1>3, <1>4, <1>5 DEF Punctual

\* What one process may hold at time a.
Exact(due, saves, file, a) ==
    /\ \A u \in saves : Timely(u.id, u.last, a)
    /\ \A s \in DOMAIN file : Timely(s, file[s], a)
    /\ \A d \in due : d[2] \in 0..a /\ OnGrid(d[1], d[2])

LEMMA PunctualMove ==
    ASSUME Punctual, NEW p \in Procs, NEW pc, NEW due, NEW saves, NEW file,
           Becomes(p, pc, due, saves, file), now' = now, Exact(due, saves, file, now),
           \A f \in {store', temp'} : \A s \in DOMAIN f.runs : Timely(s, f.runs[s], now)
    PROVE  Punctual'
<1>1. ASSUME NEW q \in Procs
      PROVE  Exact(proc'[q].due, proc'[q].saves, proc'[q].file, now)
  <2>1. CASE q = p
    BY <2>1 DEF Becomes
  <2>2. CASE q # p
    BY <2>2 DEF Becomes, Punctual, Exact
  <2> QED BY <2>1, <2>2
<1> QED BY <1>1 DEF Punctual, Exact

LEMMA PunctualStep ==
    ASSUME Shapes, Punctual, [Next]_vars
    PROVE  Punctual'
<1>0. /\ \A f \in {store, temp} : \A s \in DOMAIN f.runs : Timely(s, f.runs[s], now)
      /\ \A p \in Procs : Exact(proc[p].due, proc[p].saves, proc[p].file, now)
      /\ Exact({}, {}, NoRuns, now)
  BY NoRunsIs DEF Punctual, Exact
<1>1. CASE UNCHANGED vars
  BY <1>1 DEF vars, Punctual
<1>s. \A f \in {store', temp'} : \A s \in DOMAIN f.runs : Timely(s, f.runs[s], now)
  <2>1. ASSUME NEW p \in Procs, Fill(p), NEW s \in DOMAIN Contents(p) PROVE Timely(s, Contents(p)[s], now)
    <3>1. proc[p].saves # {}
      BY <2>1 DEF Fill, Shapes, Orderly
    <3>2. /\ NextSave(p) \in proc[p].saves
          /\ \/ s = NextSave(p).id /\ Contents(p)[s] = NextSave(p).last
             \/ s \in DOMAIN proc[p].file /\ Contents(p)[s] = proc[p].file[s]
      <4>1. NextSave(p) \in proc[p].saves /\ Replaced(Contents(p), proc[p].file, NextSave(p))
        BY <3>1, ContentsAre
      <4> QED BY <2>1, <4>1 DEF Replaced
    <3> QED BY <1>0, <3>2 DEF Exact
  <2>2. ASSUME NEW f \in {store', temp'}, NEW s \in DOMAIN f.runs PROVE Timely(s, f.runs[s], now)
    <3>1. CASE f \in {store, temp}
      BY <1>0, <2>2, <3>1
    <3>2. CASE \E p \in Procs : Fill(p) /\ f = File(Contents(p))
      BY <2>1, <2>2, <3>2, FilesAre
    <3> QED BY <2>2, <3>1, <3>2, FilesStep
  <2> QED BY <2>2
<1>2. ASSUME NEW p \in Procs, Tick(p), Readable PROVE Punctual'
  <2>1. \A d \in Found : d[2] \in 0..now /\ OnGrid(d[1], d[2])
    BY <1>2, TickForm DEF Evaluated, Sound
  <2>2. \A u \in Reached : Timely(u.id, u.last, now)
    BY <1>2, TickForm DEF Evaluated, Sound
  <2>3. Exact(Found, Reached, NoRuns, now)
    BY <2>1, <2>2, NoRunsIs DEF Exact
  <2>4. now' = now /\ Becomes(p, "enqueue", Found, Reached, NoRuns)
    BY <1>2, TickForm DEF Tick
  <2> QED BY <1>s, <2>3, <2>4, PunctualMove
<1>3. ASSUME NEW p \in Procs, Enqueue(p) PROVE Punctual'
  <2>1. now' = now
    BY <1>3 DEF Enqueue
  <2>2. CASE Becomes(p, "enqueue", proc[p].due \ {NextDue(p)}, proc[p].saves, proc[p].file)
    <3>1. Exact(proc[p].due \ {NextDue(p)}, proc[p].saves, proc[p].file, now)
      BY <1>0 DEF Exact
    <3> QED BY <1>s, <2>1, <2>2, <3>1, PunctualMove
  <2>3. CASE Becomes(p, "idle", {}, {}, NoRuns)
    BY <1>0, <1>s, <2>1, <2>3, PunctualMove
  <2> QED BY <1>3, <2>2, <2>3, EnqueueForm
<1>4. ASSUME NEW p \in Procs, EndOfEnqueues(p) PROVE Punctual'
  <2>1. now' = now /\ Becomes(p, "find", {}, proc[p].saves, proc[p].file)
    BY <1>4, EndForm DEF EndOfEnqueues
  <2>2. Exact({}, proc[p].saves, proc[p].file, now)
    BY <1>0 DEF Exact
  <2> QED BY <1>s, <2>1, <2>2, PunctualMove
<1>5. ASSUME NEW p \in Procs, Find(p) PROVE Punctual'
  <2>1. now' = now /\ Exact({}, proc[p].saves, NoRuns, now)
    BY <1>0, <1>5 DEF Find, Exact
  <2> QED BY <1>0, <1>5, <1>s, <2>1, FindForm, PunctualMove DEF GivesUp
<1>6. ASSUME NEW p \in Procs, Load(p) PROVE Punctual'
  <2>1. now' = now /\ Exact({}, proc[p].saves, store.runs, now)
    BY <1>0, <1>6 DEF Load, Exact
  <2> QED BY <1>0, <1>6, <1>s, <2>1, LoadForm, PunctualMove DEF GivesUp
<1>7. ASSUME NEW p \in Procs, Open(p) \/ Fill(p) PROVE Punctual'
  <2>1. now' = now /\ Exact({}, proc[p].saves, proc[p].file, now)
    BY <1>0, <1>7 DEF Open, Fill, Exact
  <2> QED BY <1>7, <1>s, <2>1, OpenForm, FillForm, PunctualMove
<1>8. ASSUME NEW p \in Procs, Rename(p) PROVE Punctual'
  <2>1. now' = now /\ Exact({}, proc[p].saves \ {NextSave(p)}, NoRuns, now)
    BY <1>0, <1>8 DEF Rename, Exact
  <2> QED BY <1>0, <1>8, <1>s, <2>1, RenameForm, PunctualMove
<1>9. ASSUME NEW p \in Procs, Change(p) PROVE Punctual'
  <2>0. PICK s \in Schedules : \E save \in {Edit(s), Delete(s)} :
              /\ proc' \in [Procs -> ProcType] /\ Becomes(p, "load", {}, {save}, NoRuns)
              /\ save.id = s /\ save.kind \in {"edit", "delete"} /\ save.last = Never
    BY <1>9, ChangeForm
  <2>1. PICK save \in {Edit(s), Delete(s)} :
              Becomes(p, "load", {}, {save}, NoRuns) /\ save.last = Never
    BY <2>0
  <2>2. Exact({}, {save}, NoRuns, now)
    BY <2>1, NoRunsIs DEF Exact, Timely
  <2>3. now' = now
    BY <1>9 DEF Change
  <2> QED BY <1>s, <2>1, <2>2, <2>3, PunctualMove
<1>10. ASSUME NEW p \in Procs, Crash(p) PROVE Punctual'
  <2>1. now' = now /\ Becomes(p, "idle", {}, {}, NoRuns)
    BY <1>10, CrashForm DEF Crash
  <2> QED BY <1>0, <1>s, <2>1, PunctualMove
<1>11. ASSUME NEW p \in Procs, Step(p) \/ Change(p) \/ Crash(p) PROVE Punctual'
  BY <1>1, <1>2, <1>3, <1>4, <1>5, <1>6, <1>7, <1>8, <1>9, <1>10, <1>11, TickRaises DEF Step
<1> QED BY <1>1, <1>11, PunctualLater DEF Next

LEMMA CoreHolds == Spec => [](Shapes /\ Punctual)
<1>1. Init => Shapes /\ Punctual
  BY ShapesInit
<1>2. Shapes /\ Punctual /\ [Next]_vars => Shapes' /\ Punctual'
  BY ShapesStep, PunctualStep
<1> QED BY <1>1, <1>2, PTL DEF Spec

-----------------------------------------------------------------------------
(* A schedule fires when it is due.                                        *)

FiredOnGrid == \A s \in Schedules, t \in Times : fired[s][t] > 0 => OnGrid(s, t)

\* What an enqueue counts, and what nothing else does.
LEMMA FiredIs ==
    ASSUME Shapes, NEW p \in Procs, Enqueue(p), NEW s \in Schedules, NEW t \in Times
    PROVE  /\ fired[s][t] \in Nat /\ fired'[s][t] \in Nat
           /\ fired[s][t] <= fired'[s][t] \/ fired[s][t] > Many
           /\ fired'[s][t] <= fired[s][t] + 1
           /\ fired[s][t] > 0 => fired'[s][t] > 0
           /\ <<s, t>> # NextDue(p) => fired'[s][t] = fired[s][t]
           /\ <<s, t>> = NextDue(p) /\ fired' # fired => fired'[s][t] > 0
<1>0. fired \in [Schedules -> [Times -> Nat]] /\ fired[s] \in [Times -> Nat] /\ fired[s][t] \in Nat
  BY DEF Shapes, TypeOK
<1>1. CASE fired' = fired
  BY <1>0, <1>1
<1>2. CASE fired' = [fired EXCEPT ![NextDue(p)[1]][NextDue(p)[2]] = Smaller(@ + 1, Many)]
  <2>1. Many \in Nat /\ Many > 1
    BY ScheduleAssumption DEF Many
  <2>2. PICK r \in Schedules, v \in Times : NextDue(p) = <<r, v>> /\ r = NextDue(p)[1] /\ v = NextDue(p)[2]
    BY NextDueIs DEF Shapes, Enqueue
  <2>3. fired[r] \in [Times -> Nat] /\ fired[r][v] \in Nat
    BY <1>0
  <2>4. fired' = [fired EXCEPT ![r] = [fired[r] EXCEPT ![v] = Smaller(fired[r][v] + 1, Many)]]
    BY <1>2, <2>2
  <2>5. CASE <<s, t>> = <<r, v>>
    <3>1. s = r /\ t = v
      BY <2>5
    <3>2. fired'[s][t] = Smaller(fired[s][t] + 1, Many)
      BY <1>0, <2>3, <2>4, <3>1
    <3>3. fired'[s][t] \in Nat /\ fired'[s][t] > 0 /\ fired'[s][t] <= fired[s][t] + 1
          /\ (fired[s][t] <= fired'[s][t] \/ fired[s][t] > Many)
      BY <1>0, <2>1, <3>2 DEF Smaller
    <3> QED BY <1>0, <2>2, <2>5, <3>3
  <2>6. CASE <<s, t>> # <<r, v>>
    <3>1. fired'[s][t] = fired[s][t]
      BY <1>0, <2>3, <2>4, <2>6
    <3> QED BY <1>0, <2>2, <2>6, <3>1
  <2> QED BY <2>5, <2>6
<1> QED BY <1>1, <1>2, EnqueueForm

LEMMA FiredElsewhere ==
    ASSUME [Next]_vars, ~\E p \in Procs : Enqueue(p)
    PROVE  fired' = fired
<1>1. CASE UNCHANGED vars
  BY <1>1 DEF vars
<1>2. CASE Advance
  BY <1>2 DEF Advance
<1>3. ASSUME NEW p \in Procs, Step(p) \/ Change(p) \/ Crash(p) PROVE fired' = fired
  BY <1>3 DEF Step, Tick, EndOfEnqueues, Find, Load, Open, Fill, Rename, Change, Crash
<1> QED BY <1>1, <1>2, <1>3 DEF Next

LEMMA FiredOnGridStep ==
    ASSUME Shapes, Punctual, FiredOnGrid, [Next]_vars
    PROVE  FiredOnGrid'
<1>1. ASSUME NEW p \in Procs, Enqueue(p) PROVE FiredOnGrid'
  <2> SUFFICES ASSUME NEW s \in Schedules, NEW t \in Times, fired'[s][t] > 0
               PROVE  OnGrid(s, t)
    BY DEF FiredOnGrid, OnGrid
  <2>1. NextDue(p) \in proc[p].due
    BY <1>1, EnqueueForm
  <2>2. CASE <<s, t>> = NextDue(p)
    <3>1. OnGrid(<<s, t>>[1], <<s, t>>[2])
      BY <2>1, <2>2 DEF Punctual
    <3> QED BY <3>1
  <2>3. CASE <<s, t>> # NextDue(p)
    BY <1>1, <2>3, FiredIs DEF FiredOnGrid
  <2> QED BY <2>2, <2>3
<1>2. CASE ~\E p \in Procs : Enqueue(p)
  BY <1>2, FiredElsewhere DEF FiredOnGrid, OnGrid
<1> QED BY <1>1, <1>2

\* A date fires at its time, cron at its minutes, an interval on the grid of its
\* run_at, however late the ticks were and whatever was skipped or edited.
THEOREM WhenDue == Spec => []FiresOnlyWhenDue
<1>1. Init => FiredOnGrid
  BY DEF Init, FiredOnGrid
<1>2. Shapes /\ Punctual /\ FiredOnGrid /\ [Next]_vars => FiredOnGrid'
  BY FiredOnGridStep
<1>3. Shapes /\ FiredOnGrid => FiresOnlyWhenDue
  <2> SUFFICES ASSUME Shapes, FiredOnGrid, NEW s \in Schedules
               PROVE  /\ Trigger[s].kind = "date" => FiredAt(s) \subseteq {Trigger[s].runAt}
                      /\ Trigger[s].kind = "cron" => FiredAt(s) \subseteq Trigger[s].cron
                      /\ Trigger[s].kind = "interval" /\ Trigger[s].runAt # Never =>
                            \A t \in FiredAt(s) :
                               /\ t >= Trigger[s].runAt
                               /\ (t - Trigger[s].runAt) % Trigger[s].every = 0
    BY TriggerTypes DEF FiresOnlyWhenDue, Kinds
  <2>1. \A t \in FiredAt(s) : t \in Times /\ OnGrid(s, t)
    BY DEF FiredAt, FiredOnGrid
  <2>2. ASSUME Trigger[s].kind = "interval", Trigger[s].runAt # Never, NEW t \in FiredAt(s)
        PROVE  t >= Trigger[s].runAt /\ (t - Trigger[s].runAt) % Trigger[s].every = 0
    <3>1. PICK r \in Nat, e \in Nat \ {0} : r = Trigger[s].runAt /\ e = Trigger[s].every
      BY <2>2, TriggerTypes
    <3>2. PICK k \in Nat : t = r + k * e
      BY <2>1, <2>2, <3>1 DEF OnGrid
    <3>3. k * e \in Nat
      BY <3>1
    <3>4. t - r = k * e /\ t >= r
      BY <3>1, <3>2, <3>3
    <3>5. (k * e) % e = 0
      BY <3>3, Multiples
    <3> QED BY <3>1, <3>4, <3>5
  <2>3. Trigger[s].kind = "date" => FiredAt(s) \subseteq {Trigger[s].runAt}
    BY <2>1 DEF OnGrid
  <2>4. Trigger[s].kind = "cron" => FiredAt(s) \subseteq Trigger[s].cron
    BY <2>1 DEF OnGrid
  <2> QED BY <2>2, <2>3, <2>4
<1> QED BY <1>1, <1>2, <1>3, CoreHolds, PTL DEF Spec

-----------------------------------------------------------------------------
(* The file names no run that was not enqueued.                            *)

\* The runs that a last run stands for are in F.
Backed(s, last, F) ==
    /\ Trigger[s].policy # "skip" /\ last # Never => last \in F
    /\ CatchesUp(s) => \A t \in Nat : OnGrid(s, t) /\ t <= last => t \in F

Expected(p, s) == {t \in Times : <<s, t>> \in proc[p].due}

\* A save still waits for the due times of its schedule to be enqueued.
Accountable ==
    /\ \A s \in DOMAIN store.runs : Backed(s, store.runs[s], FiredAt(s))
    /\ \A s \in DOMAIN temp.runs : Backed(s, temp.runs[s], FiredAt(s))
    /\ \A p \in Procs :
          /\ \A s \in DOMAIN proc[p].file : Backed(s, proc[p].file[s], FiredAt(s))
          /\ \A u \in proc[p].saves : Backed(u.id, u.last, FiredAt(u.id) \cup Expected(p, u.id))

LEMMA BackedMore ==
    ASSUME NEW s, NEW last, NEW F, NEW G, Backed(s, last, F), F \subseteq G
    PROVE  Backed(s, last, G)
BY DEF Backed

\* Nothing that was enqueued is forgotten.
LEMMA FiredGrows ==
    ASSUME Shapes, [Next]_vars, NEW s \in Schedules
    PROVE  FiredAt(s) \subseteq FiredAt(s)'
<1>1. CASE fired' = fired
  BY <1>1 DEF FiredAt
<1>2. ASSUME NEW p \in Procs, Enqueue(p) PROVE FiredAt(s) \subseteq FiredAt(s)'
  BY <1>2, FiredIs DEF FiredAt
<1> QED BY <1>1, <1>2, FiredElsewhere

\* What one process answers for.
Answers(due, saves, file) ==
    /\ \A s \in DOMAIN file : Backed(s, file[s], FiredAt(s)')
    /\ \A u \in saves : Backed(u.id, u.last, FiredAt(u.id)' \cup {t \in Times : <<u.id, t>> \in due})

LEMMA AnswersMove ==
    ASSUME Shapes, Accountable, [Next]_vars, NEW p \in Procs, NEW pc, NEW due, NEW saves, NEW file,
           Becomes(p, pc, due, saves, file), Answers(due, saves, file),
           \A f \in {store', temp'} : \A s \in DOMAIN f.runs : Backed(s, f.runs[s], FiredAt(s)')
    PROVE  Accountable'
<1>1. ASSUME NEW q \in Procs
      PROVE  Answers(proc'[q].due, proc'[q].saves, proc'[q].file)
  <2>1. CASE q = p
    BY <2>1 DEF Becomes
  <2>2. CASE q # p
    <3>1. proc'[q] = proc[q]
      BY <2>2 DEF Becomes
    <3>2. ASSUME NEW s \in DOMAIN proc[q].file PROVE Backed(s, proc[q].file[s], FiredAt(s)')
      <4>1. s \in Schedules /\ Backed(s, proc[q].file[s], FiredAt(s))
        BY ProcFacts DEF Accountable, Shapes
      <4> QED BY <4>1, FiredGrows, BackedMore
    <3>3. ASSUME NEW u \in proc[q].saves
          PROVE  Backed(u.id, u.last, FiredAt(u.id)' \cup {t \in Times : <<u.id, t>> \in proc[q].due})
      <4>1. u.id \in Schedules /\ Backed(u.id, u.last, FiredAt(u.id) \cup Expected(q, u.id))
        BY ProcFacts DEF Accountable, Shapes
      <4>2. PICK G : G = FiredAt(u.id)' \cup {t \in Times : <<u.id, t>> \in proc[q].due}
        OBVIOUS
      <4>3. PICK F : F = FiredAt(u.id) \cup Expected(q, u.id)
        OBVIOUS
      <4>4. F \subseteq G
        BY <4>1, <4>2, <4>3, FiredGrows DEF Expected
      <4>5. Backed(u.id, u.last, G)
        BY <4>1, <4>3, <4>4, BackedMore
      <4> QED BY <4>2, <4>5
    <3> QED BY <3>1, <3>2, <3>3 DEF Answers
  <2> QED BY <2>1, <2>2
<1> QED BY <1>1 DEF Accountable, Answers, Expected

LEMMA AccountableStep ==
    ASSUME Shapes, Punctual, Accountable, [Next]_vars
    PROVE  Accountable'
<1>0. /\ DOMAIN store.runs \subseteq Schedules
      /\ \A f \in {store, temp} : \A s \in DOMAIN f.runs : Backed(s, f.runs[s], FiredAt(s)')
      /\ Answers({}, {}, NoRuns)
  <2>1. \A f \in {store, temp} : DOMAIN f.runs \subseteq Schedules
    BY FileFacts DEF Shapes, TypeOK
  <2>2. \A f \in {store, temp} : \A s \in DOMAIN f.runs : Backed(s, f.runs[s], FiredAt(s)')
    BY <2>1, FiredGrows, BackedMore DEF Accountable
  <2> QED BY <2>1, <2>2, NoRunsIs DEF Answers
<1>a. ASSUME NEW p \in Procs
      PROVE  /\ \A s \in DOMAIN proc[p].file : Backed(s, proc[p].file[s], FiredAt(s)')
             /\ \A u \in proc[p].saves :
                   /\ u.id \in Schedules
                   /\ Backed(u.id, u.last, FiredAt(u.id)' \cup Expected(p, u.id))
                   /\ proc[p].due = {} => Backed(u.id, u.last, FiredAt(u.id)')
  <2>1. \A s \in DOMAIN proc[p].file : s \in Schedules /\ Backed(s, proc[p].file[s], FiredAt(s))
    BY ProcFacts DEF Accountable, Shapes
  <2>2. \A s \in DOMAIN proc[p].file : Backed(s, proc[p].file[s], FiredAt(s)')
    BY <2>1, FiredGrows, BackedMore
  <2>3. ASSUME NEW u \in proc[p].saves
        PROVE  /\ u.id \in Schedules
               /\ Backed(u.id, u.last, FiredAt(u.id)' \cup Expected(p, u.id))
               /\ proc[p].due = {} => Backed(u.id, u.last, FiredAt(u.id)')
    <3>1. u.id \in Schedules /\ Backed(u.id, u.last, FiredAt(u.id) \cup Expected(p, u.id))
      BY ProcFacts DEF Accountable, Shapes
    <3>2. FiredAt(u.id) \cup Expected(p, u.id) \subseteq FiredAt(u.id)' \cup Expected(p, u.id)
      BY <3>1, FiredGrows
    <3>3. Backed(u.id, u.last, FiredAt(u.id)' \cup Expected(p, u.id))
      BY <3>1, <3>2, BackedMore
    <3>4. proc[p].due = {} => FiredAt(u.id)' \cup Expected(p, u.id) = FiredAt(u.id)'
      BY DEF Expected
    <3> QED BY <3>1, <3>3, <3>4
  <2> QED BY <2>2, <2>3
<1>1. CASE UNCHANGED vars
  BY <1>1 DEF vars, Accountable, Backed, FiredAt, Expected
<1>2. CASE Advance
  BY <1>2 DEF Advance, disk, Accountable, Backed, FiredAt, Expected
<1>s. \A f \in {store', temp'} : \A s \in DOMAIN f.runs : Backed(s, f.runs[s], FiredAt(s)')
  <2>1. ASSUME NEW p \in Procs, Fill(p), NEW s \in DOMAIN Contents(p)
        PROVE  Backed(s, Contents(p)[s], FiredAt(s)')
    <3>1. proc[p].saves # {} /\ proc[p].due = {}
      BY <2>1 DEF Fill, Shapes, Orderly
    <3>2. /\ NextSave(p) \in proc[p].saves
          /\ \/ s = NextSave(p).id /\ Contents(p)[s] = NextSave(p).last
             \/ s \in DOMAIN proc[p].file /\ Contents(p)[s] = proc[p].file[s]
      <4>1. NextSave(p) \in proc[p].saves /\ Replaced(Contents(p), proc[p].file, NextSave(p))
        BY <3>1, ContentsAre
      <4> QED BY <2>1, <4>1 DEF Replaced
    <3> QED BY <1>a, <3>1, <3>2
  <2>2. ASSUME NEW f \in {store', temp'}, NEW s \in DOMAIN f.runs PROVE Backed(s, f.runs[s], FiredAt(s)')
    <3>1. CASE f \in {store, temp}
      BY <1>0, <2>2, <3>1
    <3>2. CASE \E p \in Procs : Fill(p) /\ f = File(Contents(p))
      BY <2>1, <2>2, <3>2, FilesAre
    <3> QED BY <2>2, <3>1, <3>2, FilesStep
  <2> QED BY <2>2
<1>3. ASSUME NEW p \in Procs, Tick(p), Readable PROVE Accountable'
  <2>1. Becomes(p, "enqueue", Found, Reached, NoRuns)
    BY <1>3, TickForm DEF Tick
  <2>2. ASSUME NEW u \in Reached
        PROVE  Backed(u.id, u.last, FiredAt(u.id)' \cup {t \in Times : <<u.id, t>> \in Found})
    <3> DEFINE s == u.id
               E == Evaluate(s, store.runs[s], now)
               F == FiredAt(s)' \cup {t \in Times : <<s, t>> \in Found}
    <3>1. s \in DOMAIN store.runs /\ u.last = E.last /\ Sound(s, store.runs[s], now, E)
      BY <1>3, TickForm DEF Evaluated
    <3>2. now \in Nat /\ 0..now \subseteq Times
      BY TriggerTypes, ScheduleAssumption DEF Shapes, TypeOK, Times
    <3>3. E.times \subseteq F
      <4>1. \A t \in E.times : t \in Times /\ <<s, t>> \in Found
        BY <3>1, <3>2 DEF Sound, Found
      <4> QED BY <4>1
    <3>4. Backed(s, store.runs[s], F)
      BY <1>0, <3>1, BackedMore
    <3>5. store.runs[s] \in Int
      BY <3>1, StoreFacts DEF Shapes
    <3> HIDE DEF F, E, s
    <3>6. Trigger[s].policy # "skip" /\ E.last # Never => E.last \in F
      BY <3>1, <3>3, <3>4 DEF Backed, Sound
    <3>7. CatchesUp(s) => \A t \in Nat : OnGrid(s, t) /\ t <= E.last => t \in F
      BY <3>1, <3>3, <3>4, <3>5 DEF Backed, Sound
    <3>8. Backed(s, u.last, F)
      BY <3>1, <3>6, <3>7 DEF Backed
    <3> QED BY <3>8 DEF F, s
  <2>3. Answers(Found, Reached, NoRuns)
    BY <2>2, NoRunsIs DEF Answers
  <2> QED BY <1>s, <2>1, <2>3, AnswersMove
<1>4. ASSUME NEW p \in Procs, Enqueue(p) PROVE Accountable'
  <2>2. CASE /\ Becomes(p, "enqueue", proc[p].due \ {NextDue(p)}, proc[p].saves, proc[p].file)
             /\ fired' = [fired EXCEPT ![NextDue(p)[1]][NextDue(p)[2]] = Smaller(@ + 1, Many)]
    <3>0. NextDue(p)[1] \in Schedules /\ NextDue(p)[2] \in Times
          /\ NextDue(p) = <<NextDue(p)[1], NextDue(p)[2]>>
      BY <1>4, NextDueIs DEF Shapes, Enqueue
    <3>1. fired'[NextDue(p)[1]][NextDue(p)[2]] > 0
      <4>1. PICK s \in Schedules, t \in Times : s = NextDue(p)[1] /\ t = NextDue(p)[2]
        BY <3>0
      <4>2. fired \in [Schedules -> [Times -> Nat]] /\ fired[s] \in [Times -> Nat] /\ fired[s][t] \in Nat
        BY DEF Shapes, TypeOK
      <4>3. fired' = [fired EXCEPT ![s] = [fired[s] EXCEPT ![t] = Smaller(fired[s][t] + 1, Many)]]
        BY <2>2, <4>1
      <4>4. fired'[s][t] = Smaller(fired[s][t] + 1, Many)
        BY <4>2, <4>3
      <4>5. Many \in Nat /\ Many > 0
        BY ScheduleAssumption DEF Many
      <4>6. fired'[s][t] > 0
        BY <4>2, <4>4, <4>5 DEF Smaller
      <4> QED BY <4>1, <4>6
    <3>2. ASSUME NEW u \in proc[p].saves
          PROVE  Backed(u.id, u.last, FiredAt(u.id)' \cup
                     {t \in Times : <<u.id, t>> \in proc[p].due \ {NextDue(p)}})
      <4>1. \A t \in Times : <<u.id, t>> = NextDue(p) => t \in FiredAt(u.id)'
        <5>1. ASSUME NEW t \in Times, <<u.id, t>> = NextDue(p) PROVE t \in FiredAt(u.id)'
          <6>1. u.id = NextDue(p)[1] /\ t = NextDue(p)[2]
            BY <5>1
          <6>2. fired'[u.id][t] > 0
            BY <3>1, <6>1
          <6> QED BY <6>2 DEF FiredAt
        <5> QED BY <5>1
      <4>2. PICK G : G = FiredAt(u.id)' \cup
                         {t \in Times : <<u.id, t>> \in proc[p].due \ {NextDue(p)}}
        OBVIOUS
      <4>3. PICK F : F = FiredAt(u.id)' \cup Expected(p, u.id)
        OBVIOUS
      <4>4. F \subseteq G
        BY <4>1, <4>2, <4>3 DEF Expected
      <4>5. Backed(u.id, u.last, G)
        BY <1>a, <4>3, <4>4, BackedMore
      <4> QED BY <4>2, <4>5
    <3>3. Answers(proc[p].due \ {NextDue(p)}, proc[p].saves, proc[p].file)
      BY <1>a, <3>2 DEF Answers
    <3> QED BY <1>s, <2>2, <3>3, AnswersMove
  <2>3. CASE Becomes(p, "idle", {}, {}, NoRuns)
    BY <1>0, <1>s, <2>3, AnswersMove
  <2> QED BY <1>4, <2>2, <2>3, EnqueueForm
<1>5. ASSUME NEW p \in Procs, EndOfEnqueues(p) PROVE Accountable'
  <2>1. Becomes(p, "find", {}, proc[p].saves, proc[p].file) /\ proc[p].due = {}
    BY <1>5, EndForm DEF EndOfEnqueues
  <2>2. Answers({}, proc[p].saves, proc[p].file)
    BY <1>a, <2>1 DEF Answers, Expected
  <2> QED BY <1>s, <2>1, <2>2, AnswersMove
<1>6. ASSUME NEW p \in Procs, Find(p) PROVE Accountable'
  <2>1. proc[p].due = {}
    BY <1>6 DEF Find, Shapes, Orderly
  <2>2. Answers({}, proc[p].saves, NoRuns)
    BY <1>0, <1>a, <2>1 DEF Answers, Expected
  <2> QED BY <1>0, <1>6, <1>s, <2>2, FindForm, AnswersMove DEF GivesUp
<1>7. ASSUME NEW p \in Procs, Load(p) PROVE Accountable'
  <2>1. proc[p].due = {}
    BY <1>7 DEF Load, Shapes, Orderly
  <2>2. Answers({}, proc[p].saves, store.runs)
    BY <1>0, <1>a, <2>1 DEF Answers, Expected
  <2> QED BY <1>0, <1>7, <1>s, <2>2, LoadForm, AnswersMove DEF GivesUp
<1>8. ASSUME NEW p \in Procs, Open(p) \/ Fill(p) PROVE Accountable'
  <2>1. proc[p].due = {}
    BY <1>8 DEF Open, Fill, Shapes, Orderly
  <2>2. Answers({}, proc[p].saves, proc[p].file)
    BY <1>a, <2>1 DEF Answers, Expected
  <2> QED BY <1>8, <1>s, <2>2, OpenForm, FillForm, AnswersMove
<1>9. ASSUME NEW p \in Procs, Rename(p) PROVE Accountable'
  <2>1. proc[p].due = {}
    BY <1>9 DEF Rename, Shapes, Orderly
  <2>2. Answers({}, proc[p].saves \ {NextSave(p)}, NoRuns)
    BY <1>a, <2>1, NoRunsIs DEF Answers, Expected
  <2> QED BY <1>0, <1>9, <1>s, <2>2, RenameForm, AnswersMove
<1>10. ASSUME NEW p \in Procs, Change(p) PROVE Accountable'
  <2>0. PICK s \in Schedules : \E save \in {Edit(s), Delete(s)} :
              /\ proc' \in [Procs -> ProcType] /\ Becomes(p, "load", {}, {save}, NoRuns)
              /\ save.id = s /\ save.kind \in {"edit", "delete"} /\ save.last = Never
    BY <1>10, ChangeForm
  <2>1. PICK save \in {Edit(s), Delete(s)} :
              Becomes(p, "load", {}, {save}, NoRuns) /\ save.last = Never
    BY <2>0
  <2>2. \A F : Backed(save.id, save.last, F)
    BY <2>1 DEF Backed, Never
  <2>3. Answers({}, {save}, NoRuns)
    BY <2>2, NoRunsIs DEF Answers
  <2> QED BY <1>s, <2>1, <2>3, AnswersMove
<1>11. ASSUME NEW p \in Procs, Crash(p) PROVE Accountable'
  BY <1>0, <1>11, <1>s, CrashForm, AnswersMove
<1>12. ASSUME NEW p \in Procs, Step(p) \/ Change(p) \/ Crash(p) PROVE Accountable'
  BY <1>1, <1>3, <1>4, <1>5, <1>6, <1>7, <1>8, <1>9, <1>10, <1>11, <1>12, TickRaises DEF Step
<1> QED BY <1>1, <1>2, <1>12 DEF Next

\* Whatever ticks, edits and lost updates are interleaved, a last run in the
\* file was enqueued, and what an interval that catches up has passed was as well.
THEOREM SavedBacked == Spec => []SavedRunsWereEnqueued
<1>1. Init => Accountable
  <2> SUFFICES ASSUME Init PROVE Accountable
    OBVIOUS
  <2>1. /\ Idle.saves = {} /\ DOMAIN Idle.file = {} /\ \A p \in Procs : proc[p] = Idle
    BY NoRunsIs DEF Init, Idle
  <2>2. ASSUME NEW s \in DOMAIN store.runs PROVE Backed(s, store.runs[s], FiredAt(s))
    <3>1. s \in Schedules /\ store.runs[s] = -1 /\ Never = -1
      BY <2>2, FilesAre DEF Init, Never
    <3>2. CatchesUp(s) => \A t \in Nat : ~(t <= store.runs[s])
      BY <3>1
    <3> QED BY <3>1, <3>2 DEF Backed
  <2>3. DOMAIN temp.runs = {}
    BY FilesAre DEF Init
  <2> QED BY <2>1, <2>2, <2>3 DEF Accountable
<1>2. Shapes /\ Punctual /\ Accountable /\ [Next]_vars => Accountable'
  BY AccountableStep
<1>3. Shapes /\ Punctual /\ Accountable => SavedRunsWereEnqueued
  <2> SUFFICES ASSUME Shapes, Punctual, Accountable, NEW s \in DOMAIN store.runs
               PROVE  /\ Trigger[s].policy # "skip" /\ store.runs[s] # Never => store.runs[s] \in FiredAt(s)
                      /\ Trigger[s].kind = "interval" /\ Trigger[s].policy = "catch_up"
                            /\ Trigger[s].runAt # Never
                           => \A t \in Trigger[s].runAt..store.runs[s] :
                                 (t - Trigger[s].runAt) % Trigger[s].every = 0 => t \in FiredAt(s)
    BY DEF SavedRunsWereEnqueued
  <2>1. s \in Schedules /\ store.runs[s] \in Int /\ Backed(s, store.runs[s], FiredAt(s))
    BY StoreFacts DEF Shapes, Accountable
  <2>2. ASSUME Trigger[s].kind = "interval", Trigger[s].policy = "catch_up", Trigger[s].runAt # Never,
               NEW t \in Trigger[s].runAt..store.runs[s], (t - Trigger[s].runAt) % Trigger[s].every = 0
        PROVE  t \in FiredAt(s)
    <3>1. PICK r \in Nat, e \in Nat \ {0} : r = Trigger[s].runAt /\ e = Trigger[s].every
      BY <2>1, <2>2, TriggerTypes
    <3>2. t \in Nat /\ t - r \in Nat /\ t <= store.runs[s] /\ (t - r) % e = 0
      BY <2>1, <2>2, <3>1
    <3>3. PICK k \in Nat : t - r = k * e
      BY <3>1, <3>2, Multiples
    <3>4. k * e \in Nat
      BY <3>1
    <3>5. t = r + k * e
      BY <3>1, <3>2, <3>3, <3>4
    <3>6. OnGrid(s, t) /\ CatchesUp(s)
      BY <2>2, <3>1, <3>5 DEF OnGrid, CatchesUp
    <3> QED BY <2>1, <3>2, <3>6 DEF Backed
  <2>3. Trigger[s].policy # "skip" /\ store.runs[s] # Never => store.runs[s] \in FiredAt(s)
    BY <2>1 DEF Backed
  <2> QED BY <2>2, <2>3
<1>4. Spec => []Accountable
  BY <1>1, <1>2, CoreHolds, PTL DEF Spec
<1> QED BY <1>3, <1>4, CoreHolds, PTL

-----------------------------------------------------------------------------
(* With one tick loop, how often a due time is enqueued.                   *)

\* An edit or deletion under way.
Edits(saves) == \E u \in saves : u.kind # "run"
Editing == {p \in Procs : Edits(proc[p].saves)}

\* One that has not written its text yet.
Early == {p \in Procs : Edits(proc[p].saves) /\ proc[p].pc # "rename"}

\* What may have been handled in vain: the faults, and the texts and the renames
\* of the edits, those that are still to come left out.
Room == faults + 2 * edits - Cardinality(Editing) - Cardinality(Early)

\* In a file, and with the saves that follow it, a due time of s is handled: the
\* last run of s is at or past t, there or in a save, and no save takes it back.
\* In a file that nobody can read nothing is due.
Safe(f, saves, s, t) ==
    f.state = "whole" =>
        /\ s \in DOMAIN f.runs
        /\ \A u \in saves : u.kind = "run" => u.id \in DOMAIN f.runs /\ (u.id = s => t <= u.last)
        /\ t <= f.runs[s] \/ \E u \in saves : u.kind = "run" /\ u.id = s

\* It is handled in the file, and in what the process that ticks is about to make
\* the file.
Covered(q, s, t) ==
    /\ Safe(store, proc[q].saves, s, t)
    /\ proc[q].pc \in {"open", "fill"} => Safe(File(proc[q].file), proc[q].saves, s, t)
    /\ proc[q].pc = "fill" => handle[q] = "temp"
    /\ proc[q].pc = "rename" => temp # Absent /\ Safe(temp, proc[q].saves \ {NextSave(q)}, s, t)

\* What was enqueued and what the tick under way will enqueue.
Spent(q, s, t) == fired[s][t] + (IF <<s, t>> \in proc[q].due THEN 1 ELSE 0)

Once(q) ==
    \A s \in Schedules, t \in Times :
        Spent(q, s, t) <= Room + 1 /\ (Spent(q, s, t) <= Room \/ Covered(q, s, t))

LEMMA RoomTypes ==
    ASSUME Shapes
    PROVE  /\ IsFiniteSet(Editing) /\ Cardinality(Editing) \in Nat
           /\ IsFiniteSet(Early) /\ Cardinality(Early) \in Nat
           /\ edits \in Nat /\ faults \in Nat /\ Room \in Int /\ Room <= faults + 2 * edits
<1>1. IsFiniteSet(Editing) /\ IsFiniteSet(Early)
  BY ScheduleAssumption, FS_Subset DEF Editing, Early
<1>2. Cardinality(Editing) \in Nat /\ Cardinality(Early) \in Nat
  BY <1>1, FS_CardinalityType
<1> QED BY <1>1, <1>2 DEF Shapes, TypeOK, Room

\* Only the process that moves comes to edit, writes its text or ends its edit.
LEMMA EditingMoves ==
    ASSUME NEW p \in Procs, NEW pc, NEW due, NEW saves, NEW file,
           Becomes(p, pc, due, saves, file)
    PROVE  /\ Editing' = IF Edits(saves) THEN Editing \cup {p} ELSE Editing \ {p}
           /\ Early' = IF Edits(saves) /\ pc # "rename" THEN Early \cup {p} ELSE Early \ {p}
<1>1. /\ proc'[p].saves = saves /\ proc'[p].pc = pc
      /\ \A r \in Procs : r # p => proc'[r] = proc[r]
  BY DEF Becomes
<1>2. /\ Editing' = {r \in Procs : Edits(proc'[r].saves)}
      /\ Early' = {r \in Procs : Edits(proc'[r].saves) /\ proc'[r].pc # "rename"}
  BY DEF Editing, Early, Edits
<1>3. \A r \in Procs : r # p => (r \in Editing' <=> r \in Editing) /\ (r \in Early' <=> r \in Early)
  BY <1>1, <1>2 DEF Editing, Early
<1>4. (p \in Editing' <=> Edits(saves)) /\ (p \in Early' <=> Edits(saves) /\ pc # "rename")
  BY <1>1, <1>2
<1>5. /\ Editing' \subseteq Procs /\ Editing \subseteq Procs
      /\ Early' \subseteq Procs /\ Early \subseteq Procs
  BY <1>2 DEF Editing, Early
<1> HIDE DEF Editing, Early
<1>6. Editing' = IF Edits(saves) THEN Editing \cup {p} ELSE Editing \ {p}
  BY <1>3, <1>4, <1>5
<1>7. Early' = IF Edits(saves) /\ pc # "rename" THEN Early \cup {p} ELSE Early \ {p}
  BY <1>3, <1>4, <1>5
<1> QED BY <1>6, <1>7

\* A set that one element leaves or stays in.
LEMMA Shrinks ==
    ASSUME NEW S, IsFiniteSet(S), NEW T, NEW x, NEW in \in BOOLEAN, in => x \in S,
           T = IF in THEN S \cup {x} ELSE S \ {x}
    PROVE  /\ Cardinality(T) \in Nat /\ Cardinality(T) <= Cardinality(S)
           /\ x \in S /\ ~in => Cardinality(T) = Cardinality(S) - 1
<1>0. Cardinality(S) \in Nat
  BY FS_CardinalityType
<1>1. CASE in
  <2>1. T = S
    BY <1>1
  <2> QED BY <1>0, <1>1, <2>1
<1>2. CASE ~in
  <2>1. T = S \ {x}
    BY <1>2
  <2>2. Cardinality(S \ {x}) = IF x \in S THEN Cardinality(S) - 1 ELSE Cardinality(S)
    BY FS_RemoveElement
  <2>3. IsFiniteSet(S \ {x})
    BY FS_RemoveElement
  <2>4. Cardinality(S \ {x}) \in Nat
    BY <2>3, FS_CardinalityType
  <2> QED BY <1>0, <1>2, <2>1, <2>2, <2>4
<1> QED BY <1>1, <1>2

\* The room grows by every fault, and by every text and rename of an edit.
LEMMA RoomMoves ==
    ASSUME Shapes, Shapes', NEW p \in Procs, NEW pc, NEW due, NEW saves, NEW file,
           Becomes(p, pc, due, saves, file), edits' = edits,
           Edits(saves) => p \in Editing, Edits(saves) /\ pc # "rename" => p \in Early
    PROVE  /\ Room' \in Int /\ Room' >= Room + (faults' - faults)
           /\ p \in Editing /\ ~Edits(saves) => Room' >= Room + (faults' - faults) + 1
           /\ p \in Early /\ pc = "rename" => Room' >= Room + (faults' - faults) + 1
<1>1. /\ Cardinality(Editing) \in Nat /\ Cardinality(Early) \in Nat
      /\ IsFiniteSet(Editing) /\ IsFiniteSet(Early) /\ edits \in Nat /\ faults \in Nat /\ faults' \in Nat
  BY RoomTypes DEF Shapes, TypeOK
<1>2. /\ Room = faults + 2 * edits - Cardinality(Editing) - Cardinality(Early)
      /\ Room' = faults' + 2 * edits - Cardinality(Editing') - Cardinality(Early')
  BY DEF Room
<1>3. PICK in \in BOOLEAN : in <=> Edits(saves)
  OBVIOUS
<1>4. PICK early \in BOOLEAN : early <=> Edits(saves) /\ pc # "rename"
  OBVIOUS
<1>5. /\ Editing' = IF in THEN Editing \cup {p} ELSE Editing \ {p}
      /\ Early' = IF early THEN Early \cup {p} ELSE Early \ {p}
  BY <1>3, <1>4, EditingMoves
<1>6. /\ Cardinality(Editing') \in Nat /\ Cardinality(Editing') <= Cardinality(Editing)
      /\ p \in Editing /\ ~in => Cardinality(Editing') = Cardinality(Editing) - 1
  <2>1. in => p \in Editing
    BY <1>3
  <2> QED BY <1>1, <1>5, <2>1, Shrinks
<1>7. /\ Cardinality(Early') \in Nat /\ Cardinality(Early') <= Cardinality(Early)
      /\ p \in Early /\ ~early => Cardinality(Early') = Cardinality(Early) - 1
  <2>1. early => p \in Early
    BY <1>4
  <2> QED BY <1>1, <1>5, <2>1, Shrinks
<1> QED BY <1>1, <1>2, <1>3, <1>4, <1>6, <1>7

\* An edit that begins takes no room: it is charged for what it writes.
LEMMA RoomChange ==
    ASSUME Shapes, NEW p \in Procs, Change(p)
    PROVE  Room' = Room
<1>1. PICK s \in Schedules : \E save \in {Edit(s), Delete(s)} :
              /\ proc' \in [Procs -> ProcType] /\ Becomes(p, "load", {}, {save}, NoRuns)
              /\ save.id = s /\ save.kind \in {"edit", "delete"} /\ save.last = Never
  BY ChangeForm
<1>2. PICK save \in {Edit(s), Delete(s)} :
              Becomes(p, "load", {}, {save}, NoRuns) /\ save.kind # "run"
  BY <1>1
<1>3. Edits({save})
  BY <1>2 DEF Edits
<1>4. Editing' = Editing \cup {p} /\ Early' = Early \cup {p}
  BY <1>2, <1>3, EditingMoves
<1>5. p \notin Editing /\ p \notin Early
  BY DEF Shapes, Orderly, Change, Editing, Early, Edits
<1>6. /\ IsFiniteSet(Editing) /\ Cardinality(Editing) \in Nat /\ edits \in Nat /\ faults \in Nat
      /\ IsFiniteSet(Early) /\ Cardinality(Early) \in Nat
      /\ edits' = edits + 1 /\ faults' = faults
  BY RoomTypes DEF Change
<1>7. /\ Cardinality(Editing \cup {p}) = Cardinality(Editing) + 1
      /\ Cardinality(Early \cup {p}) = Cardinality(Early) + 1
  BY <1>5, <1>6, FS_AddElement
<1>8. /\ Cardinality(Editing') = Cardinality(Editing) + 1
      /\ Cardinality(Early') = Cardinality(Early) + 1
  BY <1>4, <1>7, Zenon
<1>9. /\ Room = faults + 2 * edits - Cardinality(Editing) - Cardinality(Early)
      /\ Room' = faults' + 2 * edits' - Cardinality(Editing') - Cardinality(Early')
  BY DEF Room
<1> QED BY <1>6, <1>8, <1>9

\* A step that brings no new due times keeps the bound when it makes room ...
LEMMA OnceRelieved ==
    ASSUME NEW q, Once(q), Room \in Int, Room' \in Int, Room' >= Room + 1,
           \A s \in Schedules, t \in Times :
               Spent(q, s, t) \in Int /\ Spent(q, s, t)' \in Int /\ Spent(q, s, t)' <= Spent(q, s, t)
    PROVE  Once(q)'
<1> SUFFICES ASSUME NEW s \in Schedules, NEW t \in Times
             PROVE  Spent(q, s, t)' <= Room'
  <2>1. \A s \in Schedules, t \in Times : Spent(q, s, t)' <= Room'
    OBVIOUS
  <2>2. \A s \in Schedules, t \in Times : Spent(q, s, t)' <= Room' + 1
    BY <2>1
  <2> QED BY <2>1, <2>2 DEF Once
<1>1. Spent(q, s, t) <= Room + 1
  BY DEF Once
<1> QED BY <1>1

\* ... or when it takes back no run.
LEMMA OnceKept ==
    ASSUME NEW q, Once(q), Room \in Int, Room' \in Int, Room' >= Room,
           \A s \in Schedules, t \in Times :
               /\ Spent(q, s, t) \in Int /\ Spent(q, s, t)' \in Int /\ Spent(q, s, t)' <= Spent(q, s, t)
               /\ Covered(q, s, t) => Covered(q, s, t)'
    PROVE  Once(q)'
<1> SUFFICES ASSUME NEW s \in Schedules, NEW t \in Times
             PROVE  Spent(q, s, t)' <= Room' + 1 /\ (Spent(q, s, t)' <= Room' \/ Covered(q, s, t)')
  BY DEF Once
<1>1. Spent(q, s, t) <= Room + 1 /\ (Spent(q, s, t) <= Room \/ Covered(q, s, t))
  BY DEF Once
<1> QED BY <1>1

LEMMA SpentTypes ==
    ASSUME Shapes, NEW q \in Procs, NEW s \in Schedules, NEW t \in Times
    PROVE  Spent(q, s, t) \in Nat /\ fired[s][t] <= Spent(q, s, t)
BY DEF Shapes, TypeOK, Spent

LEMMA SpentSame ==
    ASSUME Shapes, Shapes', NEW q \in Procs, fired' = fired, proc'[q].due \subseteq proc[q].due
    PROVE  \A s \in Schedules, t \in Times :
               Spent(q, s, t) \in Int /\ Spent(q, s, t)' \in Int /\ Spent(q, s, t)' <= Spent(q, s, t)
<1> SUFFICES ASSUME NEW s \in Schedules, NEW t \in Times
             PROVE  Spent(q, s, t) \in Int /\ Spent(q, s, t)' \in Int /\ Spent(q, s, t)' <= Spent(q, s, t)
  OBVIOUS
<1>1. fired[s][t] \in Nat /\ fired'[s][t] = fired[s][t]
  BY DEF Shapes, TypeOK
<1> QED BY <1>1 DEF Spent

LEMMA RoomStill ==
    ASSUME Shapes, proc' = proc, edits' = edits, faults' = faults
    PROVE  Room \in Int /\ Room' = Room
<1>1. Editing' = Editing /\ Early' = Early
  BY DEF Editing, Early, Edits
<1>2. Cardinality(Editing') = Cardinality(Editing) /\ Cardinality(Early') = Cardinality(Early)
  BY <1>1, Zenon
<1> QED BY <1>2, RoomTypes DEF Room

\* A tick finds due only what was not handled, and its saves will handle it.
LEMMA TickOnce ==
    ASSUME Shapes, Shapes', Punctual, NEW q \in Procs, Tickers \subseteq {q}, Once(q), Tick(q),
           Readable
    PROVE  Once(q)'
<1>1. /\ Becomes(q, "enqueue", Found, Reached, NoRuns)
      /\ store' = store /\ fired' = fired /\ edits' = edits /\ faults' = faults
  BY TickForm DEF Tick, disk
<1>2. proc[q].saves = {} /\ proc[q].due = {}
  BY DEF Tick, Shapes, Orderly
<1>3. Room \in Int /\ Room' \in Int /\ Room' >= Room
  <2>1. ~Edits(Reached) /\ faults' \in Nat
    BY TickForm DEF Edits, Shapes, TypeOK
  <2> QED BY <1>1, <2>1, RoomMoves, RoomTypes
<1> SUFFICES ASSUME NEW s \in Schedules, NEW t \in Times
             PROVE  Spent(q, s, t)' <= Room' + 1 /\ (Spent(q, s, t)' <= Room' \/ Covered(q, s, t)')
  BY DEF Once
<1>4. Spent(q, s, t) <= Room + 1 /\ (Spent(q, s, t) <= Room \/ Covered(q, s, t))
  BY DEF Once
<1>5. /\ fired[s][t] \in Nat /\ Spent(q, s, t) = fired[s][t]
      /\ Spent(q, s, t)' = fired[s][t] + (IF <<s, t>> \in Found THEN 1 ELSE 0)
  BY <1>1, <1>2 DEF Shapes, TypeOK, Spent, Becomes
<1>6. PICK last : s \in DOMAIN store.runs => last = store.runs[s]
  OBVIOUS
<1>7. PICK E : E = Evaluate(s, last, now)
  OBVIOUS
<1>8. /\ s \in DOMAIN store.runs =>
             /\ last \in Int /\ E.last \in Int /\ last <= E.last
             /\ \A v \in E.times : v \in Int /\ last < v /\ v <= E.last
      /\ <<s, t>> \in Found => s \in DOMAIN store.runs /\ t \in E.times
      /\ t \in Int
  <2>1. s \in DOMAIN store.runs => last \in Int /\ Sound(s, last, now, E)
    BY <1>6, <1>7, StoreFacts, TickForm DEF Evaluated, Shapes
  <2>2. now \in Nat /\ t \in Int
    BY TriggerTypes, ScheduleAssumption DEF Shapes, TypeOK, Times
  <2>3. s \in DOMAIN store.runs =>
             /\ last \in Int /\ E.last \in Int /\ last <= E.last
             /\ \A v \in E.times : v \in Int /\ last < v /\ v <= E.last
    BY <2>1, <2>2 DEF Sound, Timely, Never
  <2>4. <<s, t>> \in Found => s \in DOMAIN store.runs /\ t \in E.times
    <3>1. <<s, t>>[1] = s /\ <<s, t>>[2] = t
      OBVIOUS
    <3> QED BY <1>6, <1>7, <3>1, TickForm
  <2> QED BY <2>2, <2>3, <2>4
<1>9. \A u \in Reached : u.id \in DOMAIN store.runs /\ (u.id = s => u.last = E.last)
  BY <1>6, <1>7, TickForm
<1>10. s \in DOMAIN store.runs => \E u \in Reached : u.kind = "run" /\ u.id = s
  BY TickForm
<1>11. s \in DOMAIN store.runs /\ t <= E.last => Covered(q, s, t)'
  <2>1. s \in DOMAIN store.runs /\ t <= E.last => Safe(store, Reached, s, t)
    BY <1>9, <1>10 DEF Safe
  <2>2. proc'[q].pc = "enqueue" /\ proc'[q].saves = Reached
    BY <1>1 DEF Becomes
  <2>3. Safe(store, Reached, s, t) => Covered(q, s, t)'
    BY <1>1, <2>2 DEF Covered, Safe
  <2> QED BY <2>1, <2>3
<1>12. Covered(q, s, t) => s \in DOMAIN store.runs /\ t <= last
  BY <1>2, <1>6 DEF Covered, Safe, Readable
<1>13. CASE <<s, t>> \in Found
  <2>1. Covered(q, s, t)' /\ ~Covered(q, s, t)
    BY <1>8, <1>11, <1>12, <1>13
  <2> QED BY <1>3, <1>4, <1>5, <1>13, <2>1
<1>14. CASE <<s, t>> \notin Found
  <2>1. Covered(q, s, t) => Covered(q, s, t)'
    BY <1>8, <1>11, <1>12
  <2> QED BY <1>3, <1>4, <1>5, <1>14, <2>1
<1> QED BY <1>13, <1>14

\* What is handled stays handled when nobody writes, and the process that ticks
\* goes on with no other saves.
LEMMA CoveredMove ==
    ASSUME NEW q \in Procs, NEW p \in Procs, NEW pc, NEW due, NEW saves, NEW file,
           Becomes(p, pc, due, saves, file), NEW s, NEW t, Covered(q, s, t),
           store' = store, temp' \in {temp, Empty}, p # q => handle'[q] = handle[q],
           p = q => /\ pc \notin {"fill", "rename"}
                    /\ pc = "open" => Readable /\ file = store.runs
                    /\ \A u \in saves : u.kind = "run" => u \in proc[q].saves
                    /\ Readable => t <= store.runs[s] \/ \E u \in saves : u.kind = "run" /\ u.id = s
    PROVE  Covered(q, s, t)'
<1>1. CASE p = q
  <2>1. proc'[q].pc = pc /\ proc'[q].saves = saves /\ proc'[q].file = file
    BY <1>1 DEF Becomes
  <2>2. Safe(store, saves, s, t)
    BY <1>1 DEF Covered, Safe, Readable
  <2>3. pc = "open" => Safe(File(file), saves, s, t)
    <3>1. pc = "open" => File(file).state = "whole" /\ File(file).runs = store.runs /\ store.state = "whole"
      BY <1>1, FilesAre DEF Readable
    <3> QED BY <2>2, <3>1 DEF Safe
  <2>4. Safe(store, saves, s, t)' <=> Safe(store, saves', s, t)
    BY DEF Safe
  <2>5. Safe(store', proc'[q].saves, s, t)
    BY <2>1, <2>2
  <2>6. pc = "open" => Safe(File(proc'[q].file), proc'[q].saves, s, t)
    BY <2>1, <2>3
  <2> QED BY <1>1, <2>1, <2>5, <2>6 DEF Covered, Safe, File
<1>2. CASE p # q
  <2>1. proc'[q] = proc[q]
    BY <1>2 DEF Becomes
  <2>2. NextSave(q)' = NextSave(q)
    BY <2>1 DEF NextSave
  <2>3. Safe(Empty, proc[q].saves \ {NextSave(q)}, s, t) /\ Empty # Absent
    BY FilesAre DEF Safe
  <2>4. proc[q].pc = "rename" => temp' # Absent /\ Safe(temp', proc[q].saves \ {NextSave(q)}, s, t)
    BY <2>3 DEF Covered
  <2>5. /\ Safe(store', proc'[q].saves, s, t)
        /\ proc'[q].pc \in {"open", "fill"} => Safe(File(proc'[q].file), proc'[q].saves, s, t)
        /\ proc'[q].pc = "fill" => handle'[q] = "temp"
        /\ proc'[q].pc = "rename" => temp' # Absent /\ Safe(temp', proc'[q].saves \ {NextSave(q)'}, s, t)
    BY <1>2, <2>1, <2>2, <2>4 DEF Covered
  <2> QED BY <2>5 DEF Covered, Safe, File, Absent
<1> QED BY <1>1, <1>2

\* A process that gives up ends an edit, or nothing was handled by its saves.
LEMMA GivingUpOnce ==
    ASSUME Shapes, Shapes', NEW q \in Procs, Once(q), NEW p \in Procs, GivesUp(p), proc[p].due = {},
           UNCHANGED <<disk, edits, fired, faults>>
    PROVE  Once(q)'
<1>0. /\ Room \in Int /\ faults \in Nat
      /\ p \in Editing <=> Edits(proc[p].saves)
      /\ \A u \in proc[p].saves : u.kind # "run" => Edits(proc[p].saves)
      /\ ~Edits({})
      /\ store' = store /\ temp' = temp /\ handle' = handle
      /\ edits' = edits /\ fired' = fired /\ faults' = faults
  BY RoomTypes DEF Editing, Edits, disk
<1>1. Becomes(p, "idle", {}, {}, NoRuns)
  BY DEF GivesUp
<1>2. Room' \in Int /\ Room' >= Room /\ (p \in Editing => Room' >= Room + 1)
  BY <1>0, <1>1, RoomMoves
<1>3. proc'[q].due \subseteq proc[q].due
  BY <1>1 DEF Becomes
<1>4. CASE p \in Editing
  BY <1>0, <1>2, <1>3, <1>4, SpentSame, OnceRelieved
<1>5. CASE p \notin Editing
  <2>1. ASSUME NEW s \in Schedules, NEW t \in Times, Covered(q, s, t) PROVE Covered(q, s, t)'
    <3>1. p = q /\ Readable => t <= store.runs[s]
      <4> SUFFICES ASSUME p = q, Readable PROVE t <= store.runs[s]
        OBVIOUS
      <4>1. CASE proc[q].saves = {}
        BY <2>1, <4>1 DEF Covered, Safe, Readable
      <4>2. CASE proc[q].saves # {}
        <5>1. /\ NextSave(q) \in proc[q].saves /\ NextSave(q).id \notin DOMAIN store.runs
              /\ NextSave(q).kind = "run"
          BY <1>0, <1>5, <4>2, NextSaveIs DEF GivesUp
        <5> QED BY <2>1, <5>1 DEF Covered, Safe, Readable
      <4> QED BY <4>1, <4>2
    <3> QED BY <1>0, <1>1, <2>1, <3>1, CoveredMove
  <2> QED BY <1>0, <1>2, <1>3, <2>1, SpentSame, OnceKept
<1> QED BY <1>4, <1>5

\* A step that writes nothing and has the same saves before it takes back nothing.
LEMMA GoingOnOnce ==
    ASSUME Shapes, Shapes', NEW q \in Procs, Once(q), NEW p \in Procs, NEW pc, NEW file,
           Becomes(p, pc, {}, proc[p].saves, file), proc[p].pc # "rename",
           edits' = edits, fired' = fired, faults' = faults,
           \A s \in Schedules, t \in Times : Covered(q, s, t) => Covered(q, s, t)'
    PROVE  Once(q)'
<1>1. Room \in Int /\ Room' \in Int /\ Room' >= Room
  <2>1. /\ Room \in Int /\ faults \in Nat /\ (Edits(proc[p].saves) => p \in Editing)
        /\ Edits(proc[p].saves) => p \in Early
    BY RoomTypes DEF Editing, Early
  <2> QED BY <2>1, RoomMoves
<1>2. proc'[q].due \subseteq proc[q].due
  BY DEF Becomes
<1> QED BY <1>1, <1>2, SpentSame, OnceKept

\* A save that follows a file on which a due time is handled leaves it handled.
LEMMA SafeReplaced ==
    ASSUME NEW file, NEW saves, NEW save \in saves, save.kind = "run", NEW runs, NEW s, NEW t,
           Safe(File(file), saves, s, t), Replaced(runs, file, save)
    PROVE  Safe(File(runs), saves \ {save}, s, t)
<1>1. /\ s \in DOMAIN file
      /\ \A u \in saves : u.kind = "run" => u.id \in DOMAIN file /\ (u.id = s => t <= u.last)
      /\ t <= file[s] \/ \E u \in saves : u.kind = "run" /\ u.id = s
  BY FilesAre DEF Safe
<1>2. /\ DOMAIN runs = DOMAIN file
      /\ \A r \in DOMAIN file : runs[r] = IF r = save.id THEN save.last ELSE file[r]
  BY <1>1 DEF Replaced
<1>3. t <= runs[s] \/ \E u \in saves \ {save} : u.kind = "run" /\ u.id = s
  <2>1. CASE s = save.id
    BY <1>1, <1>2, <2>1
  <2>2. CASE s # save.id
    BY <1>1, <1>2, <2>2
  <2> QED BY <2>1, <2>2
<1>4. File(runs).runs = runs
  BY FilesAre
<1> QED BY <1>1, <1>2, <1>3, <1>4 DEF Safe

LEMMA OnceStep ==
    ASSUME Shapes, Shapes', Punctual, NEW q \in Procs, Tickers \subseteq {q}, Once(q), [Next]_vars
    PROVE  Once(q)'
<1>0. /\ Room \in Int /\ edits \in Nat /\ faults \in Nat
      /\ \A p \in Procs : Orderly(proc[p], p \in Tickers) /\ proc[p].saves = proc[p].saves
      /\ \A p \in Procs : p \in Editing <=> Edits(proc[p].saves)
      /\ ~Edits({})
  BY RoomTypes DEF Shapes, Editing, Edits
<1>1. CASE proc' = proc /\ UNCHANGED disk /\ fired' = fired /\ edits' = edits /\ faults' = faults
  <2>1. Room' = Room
    BY <1>1, RoomStill
  <2>2. \A s, t : Covered(q, s, t) => Covered(q, s, t)'
    BY <1>1 DEF Covered, NextSave, Safe, File, Absent, disk
  <2>3. \A s \in Schedules, t \in Times :
           Spent(q, s, t) \in Int /\ Spent(q, s, t)' \in Int /\ Spent(q, s, t)' <= Spent(q, s, t)
    BY <1>1, SpentSame
  <2>4. Room' \in Int /\ Room' >= Room
    BY <1>0, <2>1
  <2> QED BY <1>0, <2>2, <2>3, <2>4, OnceKept
<1>2. ASSUME NEW p \in Procs, Tick(p), Readable PROVE Once(q)'
  <2>1. p = q
    BY <1>2 DEF Tick
  <2> QED BY <1>2, <2>1, TickOnce
<1>3. ASSUME NEW p \in Procs, Enqueue(p) PROVE Once(q)'
  <2>1. /\ p = q /\ store' = store /\ temp' = temp /\ edits' = edits
        /\ proc[q].pc = "enqueue"
    BY <1>0, <1>3 DEF Orderly, Enqueue, disk
  <2>2. CASE /\ Becomes(q, "enqueue", proc[q].due \ {NextDue(q)}, proc[q].saves, proc[q].file)
             /\ faults' = faults
    <3>1. Room' \in Int /\ Room' >= Room
      <4>1. ~Edits(proc[q].saves)
        BY <1>0, <2>1 DEF Edits, Orderly
      <4> QED BY <1>0, <2>1, <2>2, <4>1, RoomMoves
    <3>2. ASSUME NEW s \in Schedules, NEW t \in Times
          PROVE  Spent(q, s, t) \in Int /\ Spent(q, s, t)' \in Int /\ Spent(q, s, t)' <= Spent(q, s, t)
      <4>1. /\ fired[s][t] \in Nat /\ fired'[s][t] \in Nat /\ fired'[s][t] <= fired[s][t] + 1
            /\ <<s, t>> # NextDue(q) => fired'[s][t] = fired[s][t]
            /\ NextDue(q) \in proc[q].due
        BY <1>3, <2>1, FiredIs, EnqueueForm
      <4>2. Spent(q, s, t)' = fired'[s][t]
                + (IF <<s, t>> \in proc[q].due \ {NextDue(q)} THEN 1 ELSE 0)
        BY <2>2 DEF Spent, Becomes
      <4>3. Spent(q, s, t) = fired[s][t] + (IF <<s, t>> \in proc[q].due THEN 1 ELSE 0)
        BY DEF Spent
      <4>4. CASE <<s, t>> = NextDue(q)
        BY <4>1, <4>2, <4>3, <4>4
      <4>5. CASE <<s, t>> # NextDue(q)
        BY <4>1, <4>2, <4>3, <4>5
      <4> QED BY <4>4, <4>5
    <3>3. ASSUME NEW s \in Schedules, NEW t \in Times, Covered(q, s, t) PROVE Covered(q, s, t)'
      <4>1. Readable => t <= store.runs[s] \/ \E u \in proc[q].saves : u.kind = "run" /\ u.id = s
        BY <3>3 DEF Covered, Safe, Readable
      <4> QED BY <2>1, <2>2, <3>3, <4>1, CoveredMove
    <3> QED BY <1>0, <3>1, <3>2, <3>3, OnceKept
  <2>3. CASE Becomes(q, "idle", {}, {}, NoRuns) /\ fired' = fired /\ faults' = faults + 1
    <3>1. Room' \in Int /\ Room' >= Room + 1
      BY <1>0, <2>1, <2>3, RoomMoves
    <3>2. proc'[q].due \subseteq proc[q].due
      BY <2>3 DEF Becomes
    <3> QED BY <1>0, <2>3, <3>1, <3>2, SpentSame, OnceRelieved
  <2> QED BY <1>3, <2>1, <2>2, <2>3, EnqueueForm
<1>4. ASSUME NEW p \in Procs, NEW pc \in {"find", "load", "open"}, NEW file,
             EndOfEnqueues(p) \/ Find(p) \/ Load(p), Becomes(p, pc, {}, proc[p].saves, file),
             pc = "open" => Readable /\ file = store.runs
      PROVE  Once(q)'
  <2>1. /\ proc[p].pc # "rename" /\ edits' = edits /\ fired' = fired /\ faults' = faults
        /\ store' = store /\ temp' = temp /\ handle' = handle
    BY <1>4 DEF EndOfEnqueues, Find, Load, disk
  <2>2. ASSUME NEW s \in Schedules, NEW t \in Times, Covered(q, s, t) PROVE Covered(q, s, t)'
    <3>1. Readable => t <= store.runs[s] \/ \E u \in proc[q].saves : u.kind = "run" /\ u.id = s
      BY <2>2 DEF Covered, Safe, Readable
    <3> QED BY <1>4, <2>1, <2>2, <3>1, CoveredMove
  <2> QED BY <1>4, <2>1, <2>2, GoingOnOnce
<1>g. ASSUME NEW p \in Procs, Find(p) \/ Load(p), GivesUp(p) PROVE Once(q)'
  <2>1. proc[p].due = {} /\ UNCHANGED <<disk, edits, fired, faults>>
    BY <1>0, <1>g DEF Find, Load, Orderly
  <2> QED BY <1>g, <2>1, GivingUpOnce
<1>5. ASSUME NEW p \in Procs, EndOfEnqueues(p) \/ Find(p) \/ Load(p) PROVE Once(q)'
  BY <1>4, <1>5, <1>g, EndForm, FindForm, LoadForm
<1>o. ASSUME NEW p \in Procs, Open(p) PROVE Once(q)'
  <2>1. /\ proc[p].pc = "open" /\ edits' = edits /\ fired' = fired /\ faults' = faults
        /\ store' = store /\ temp' = Empty /\ handle' = [handle EXCEPT ![p] = "temp"]
        /\ Becomes(p, "fill", {}, proc[p].saves, proc[p].file)
    BY <1>o, OpenForm DEF Open
  <2>2. handle \in [Procs -> {"none", "temp", "store"}]
    BY DEF Shapes, TypeOK
  <2>3. ASSUME NEW s \in Schedules, NEW t \in Times, Covered(q, s, t) PROVE Covered(q, s, t)'
    <3>1. CASE p # q
      BY <2>1, <2>2, <2>3, <3>1, CoveredMove
    <3>2. CASE p = q
      <4>1. /\ proc'[q].pc = "fill" /\ proc'[q].saves = proc[q].saves /\ proc'[q].file = proc[q].file
            /\ handle'[q] = "temp"
        BY <2>1, <2>2, <3>2 DEF Becomes
      <4>2. Safe(store, proc[q].saves, s, t) /\ Safe(File(proc[q].file), proc[q].saves, s, t)
        BY <2>1, <2>3, <3>2 DEF Covered
      <4> QED BY <2>1, <4>1, <4>2 DEF Covered, Safe, File
    <3> QED BY <3>1, <3>2
  <2> QED BY <2>1, <2>3, GoingOnOnce
<1>w. ASSUME NEW p \in Procs, Fill(p) PROVE Once(q)'
  <2>1. /\ proc[p].pc = "fill" /\ edits' = edits /\ fired' = fired /\ faults' = faults
        /\ proc[p].due = {} /\ proc[p].saves # {}
        /\ Becomes(p, "rename", {}, proc[p].saves, proc[p].file)
    BY <1>0, <1>w, FillForm DEF Fill, Orderly
  <2>2. proc'[q].due \subseteq proc[q].due
    BY <2>1 DEF Becomes
  <2>3. /\ Edits(proc[p].saves) <=> p \in Editing
        /\ Edits(proc[p].saves) <=> p \in Early
    BY <2>1 DEF Editing, Early
  <2>4. Room' \in Int /\ Room' >= Room /\ (p \in Early => Room' >= Room + 1)
    BY <1>0, <2>1, <2>3, RoomMoves
  <2>5. CASE p \in Early
    BY <1>0, <2>1, <2>2, <2>4, <2>5, SpentSame, OnceRelieved
  <2>6. CASE p \notin Early
    <3>1. \A u \in proc[p].saves : u.kind = "run"
      BY <2>3, <2>6 DEF Edits
    <3>2. p = q
      BY <1>0, <2>1, <3>1 DEF Orderly
    <3>3. ASSUME NEW s \in Schedules, NEW t \in Times, Covered(q, s, t) PROVE Covered(q, s, t)'
      <4>1. /\ proc'[q].pc = "rename" /\ proc'[q].saves = proc[q].saves
            /\ NextSave(q)' = NextSave(q)
        BY <2>1, <3>2 DEF Becomes, NextSave
      <4>2. /\ Safe(store, proc[q].saves, s, t) /\ Safe(File(proc[q].file), proc[q].saves, s, t)
            /\ handle[q] = "temp"
        BY <2>1, <3>2, <3>3 DEF Covered
      <4>3. /\ store' = store /\ temp' \in {Garbled, File(Contents(q))}
            /\ NextSave(q) \in proc[q].saves /\ Replaced(Contents(q), proc[q].file, NextSave(q))
        BY <1>w, <2>1, <3>2, <4>2, FillForm, ContentsAre
      <4>4. Safe(File(Contents(q)), proc[q].saves \ {NextSave(q)}, s, t)
        BY <3>1, <3>2, <4>2, <4>3, SafeReplaced
      <4>5. temp' # Absent /\ Safe(temp', proc[q].saves \ {NextSave(q)}, s, t)
        <5>1. CASE temp' = Garbled
          BY <5>1, FilesAre DEF Safe
        <5>2. CASE temp' = File(Contents(q))
          <6>1. File(Contents(q)) # Absent
            BY FilesAre
          <6> QED BY <4>4, <5>2, <6>1
        <5> QED BY <4>3, <5>1, <5>2
      <4>6. /\ Safe(store', proc'[q].saves, s, t) /\ proc'[q].pc = "rename"
            /\ temp' # Absent /\ Safe(temp', proc'[q].saves \ {NextSave(q)'}, s, t)
        BY <4>1, <4>2, <4>3, <4>5
      <4> QED BY <4>6 DEF Covered, Safe, Absent
    <3> QED BY <1>0, <2>1, <2>2, <2>4, <3>3, SpentSame, OnceKept
  <2> QED BY <2>5, <2>6
<1>r. ASSUME NEW p \in Procs, Rename(p) PROVE Once(q)'
  <2> DEFINE save == NextSave(p)
             left == proc[p].saves \ {save}
  <2>1. /\ edits' = edits /\ fired' = fired /\ faults' = faults /\ proc[p].pc = "rename"
        /\ proc[p].due = {} /\ save \in proc[p].saves
        /\ \/ temp # Absent /\ store' = temp /\ Becomes(p, "find", {}, left, NoRuns)
           \/ temp = Absent /\ Becomes(p, "idle", {}, {}, NoRuns)
    BY <1>0, <1>r, RenameForm DEF Rename, Orderly
  <2>2. proc'[q].due \subseteq proc[q].due
    BY <2>1 DEF Becomes
  <2>3. ~Edits(left)
    BY <1>0, <2>1 DEF Edits, Orderly
  <2>4. Room' \in Int /\ Room' >= Room /\ (p \in Editing => Room' >= Room + 1)
    <3> HIDE DEF left
    <3> QED BY <1>0, <2>1, <2>3, RoomMoves
  <2>5. CASE save.kind # "run"
    <3>1. p \in Editing
      BY <1>0, <2>1, <2>5 DEF Edits
    <3> QED BY <1>0, <2>1, <2>2, <2>4, <3>1, SpentSame, OnceRelieved
  <2>6. CASE save.kind = "run"
    <3>1. p = q
      BY <1>0, <2>1, <2>6 DEF Orderly
    <3>2. ASSUME NEW s \in Schedules, NEW t \in Times, Covered(q, s, t) PROVE Covered(q, s, t)'
      <4>1. temp # Absent /\ Safe(temp, left, s, t)
        BY <2>1, <3>1, <3>2 DEF Covered
      <4>2. proc'[q].pc = "find" /\ Safe(store', proc'[q].saves, s, t)
        BY <2>1, <3>1, <4>1 DEF Becomes
      <4> QED BY <4>2 DEF Covered, Safe
    <3> QED BY <1>0, <2>1, <2>2, <2>4, <3>2, SpentSame, OnceKept
  <2> QED BY <2>5, <2>6
<1>7. ASSUME NEW p \in Procs, Change(p) PROVE Once(q)'
  <2>0. PICK s0 \in Schedules : \E save \in {Edit(s0), Delete(s0)} :
              /\ proc' \in [Procs -> ProcType] /\ Becomes(p, "load", {}, {save}, NoRuns)
              /\ save.id = s0 /\ save.kind \in {"edit", "delete"} /\ save.last = Never
    BY <1>7, ChangeForm
  <2>1. PICK save \in {Edit(s0), Delete(s0)} :
              Becomes(p, "load", {}, {save}, NoRuns) /\ save.kind # "run"
    BY <2>0
  <2>2. /\ store' = store /\ temp' = temp /\ handle' = handle /\ fired' = fired
        /\ proc[p].saves = {}
    BY <1>0, <1>7 DEF Change, Orderly, disk
  <2>3. Room' \in Int /\ Room' >= Room
    BY <1>0, <1>7, RoomChange
  <2>4. proc'[q].due \subseteq proc[q].due
    BY <2>1 DEF Becomes
  <2>5. ASSUME NEW s \in Schedules, NEW t \in Times, Covered(q, s, t) PROVE Covered(q, s, t)'
    <3>1. p = q /\ Readable => t <= store.runs[s]
      BY <2>2, <2>5 DEF Covered, Safe, Readable
    <3>2. \A u \in {save} : u.kind = "run" => u \in proc[q].saves
      BY <2>1
    <3> QED BY <2>1, <2>2, <2>5, <3>1, <3>2, CoveredMove
  <2> QED BY <1>0, <2>2, <2>3, <2>4, <2>5, SpentSame, OnceKept
<1>8. ASSUME NEW p \in Procs, Crash(p) PROVE Once(q)'
  <2>1. /\ fired' = fired /\ edits' = edits /\ faults' = faults + 1
        /\ Becomes(p, "idle", {}, {}, NoRuns)
    BY <1>8, CrashForm DEF Crash
  <2>2. Room' \in Int /\ Room' >= Room + 1
    BY <1>0, <2>1, RoomMoves
  <2>3. proc'[q].due \subseteq proc[q].due
    BY <2>1 DEF Becomes
  <2> QED BY <1>0, <2>1, <2>2, <2>3, SpentSame, OnceRelieved
<1>9. CASE Advance \/ UNCHANGED vars
  BY <1>1, <1>9 DEF Advance, vars, disk
<1>10. ASSUME NEW p \in Procs, Step(p) \/ Change(p) \/ Crash(p) PROVE Once(q)'
  BY <1>2, <1>3, <1>5, <1>o, <1>w, <1>r, <1>7, <1>8, <1>9, <1>10, TickRaises DEF Step
<1> QED BY <1>9, <1>10 DEF Next

\* With one tick loop, whatever the other processes edit and whoever dies.
THEOREM OncePerDueTime ==
    ASSUME NEW q \in Procs, Tickers \subseteq {q}
    PROVE  Spec => []FiresOncePerDueTime
<1>1. Init => Once(q)
  <2> SUFFICES ASSUME Init PROVE Once(q)
    OBVIOUS
  <2>1. /\ Idle.saves = {} /\ Idle.due = {} /\ \A p \in Procs : proc[p] = Idle
    BY DEF Init, Idle
  <2>2. Editing = {} /\ Early = {}
    BY <2>1 DEF Editing, Early, Edits
  <2>3. Cardinality(Editing) = 0 /\ Cardinality(Early) = 0
    BY <2>2, FS_EmptySet, Zenon
  <2>4. Room = 0
    BY <2>3 DEF Room, Init
  <2>5. \A s \in Schedules, t \in Times : Spent(q, s, t) = 0
    BY <2>1 DEF Spent, Init
  <2> QED BY <2>4, <2>5 DEF Once
<1>2. Shapes /\ Punctual /\ Once(q) /\ Shapes' /\ [Next]_vars => Once(q)'
  BY OnceStep
<1>3. Shapes /\ Once(q) => FiresOncePerDueTime
  <2> SUFFICES ASSUME Shapes, Once(q), NEW s \in Schedules, NEW t \in Times
               PROVE  fired[s][t] <= 1 + faults + 2 * edits
    BY DEF FiresOncePerDueTime
  <2>1. Spent(q, s, t) \in Nat /\ fired[s][t] <= Spent(q, s, t) /\ fired[s][t] \in Nat
    BY SpentTypes DEF Shapes, TypeOK
  <2>2. Spent(q, s, t) <= Room + 1
    BY DEF Once
  <2> QED BY <2>1, <2>2, RoomTypes
<1>4. Spec => []Once(q)
  BY <1>1, <1>2, CoreHolds, PTL DEF Spec
<1> QED BY <1>3, <1>4, CoreHolds, PTL

-----------------------------------------------------------------------------
(* Who can lose the file.                                                  *)

\* A process that is alone: what it has open is the empty temporary file, and
\* what it renames is whole.
Alone(q) ==
    /\ Readable
    /\ handle[q] = IF proc[q].pc = "fill" THEN "temp" ELSE "none"
    /\ proc[q].pc = "fill" => temp = Empty
    /\ proc[q].pc = "rename" => temp.state = "whole"

LEMMA AloneStep ==
    ASSUME Shapes, Punctual, NEW q, Procs = {q}, Alone(q), [Next]_vars
    PROVE  Alone(q)'
<1>0. handle \in [Procs -> {"none", "temp", "store"}] /\ q \in Procs
  BY DEF Shapes, TypeOK
<1>1. ASSUME proc'[q].pc \notin {"fill", "rename"}, proc[q].pc # "fill",
             store' = store, handle' = handle
      PROVE  Alone(q)'
  BY <1>1 DEF Alone, Readable
<1>2. CASE Tick(q) \/ Enqueue(q)
  <2>1. CASE Tick(q) /\ ~Readable
    BY <2>1 DEF Alone
  <2>2. CASE Tick(q) /\ Readable
    <3>1. proc'[q].pc = "enqueue"
      BY <1>0, <2>2, TickForm DEF Becomes
    <3> QED BY <1>1, <2>2, <3>1 DEF Tick, disk
  <2>3. CASE Enqueue(q)
    <3>1. proc'[q].pc \in {"enqueue", "idle"}
      BY <1>0, <2>3, EnqueueForm DEF Becomes
    <3> QED BY <1>1, <2>3, <3>1 DEF Enqueue, disk
  <2> QED BY <1>2, <2>1, <2>2, <2>3
<1>3. CASE EndOfEnqueues(q) \/ Find(q) \/ Load(q) \/ Change(q)
  <2>1. proc'[q].pc \in {"find", "load", "open", "idle"}
    BY <1>0, <1>3, EndForm, FindForm, LoadForm, ChangeForm DEF Becomes, GivesUp
  <2> QED BY <1>1, <1>3, <2>1 DEF EndOfEnqueues, Find, Load, Change, disk
<1>4. CASE Open(q)
  <2>1. proc'[q].pc = "fill" /\ handle'[q] = "temp"
    BY <1>0, <1>4, OpenForm DEF Open, Becomes
  <2> QED BY <1>4, <2>1 DEF Open, Alone, Readable, Empty
<1>5. CASE Fill(q)
  <2>1. proc[q].pc = "fill" /\ handle[q] = "temp" /\ temp = Empty
    BY <1>5 DEF Fill, Alone
  <2>2. temp' = File(Contents(q)) /\ store' = store
    BY <1>5, <2>1, FilesAre DEF Fill, Written, Put
  <2>3. proc'[q].pc = "rename" /\ handle'[q] = "none"
    BY <1>0, <1>5, FillForm DEF Fill, Becomes
  <2> QED BY <2>2, <2>3, FilesAre DEF Alone, Readable
<1>6. CASE Rename(q)
  <2>1. proc[q].pc = "rename" /\ temp.state = "whole" /\ handle[q] = "none"
    BY <1>6 DEF Rename, Alone
  <2>2. temp # Absent
    BY <2>1, FilesAre
  <2>3. store' = temp /\ proc'[q].pc = "find" /\ handle'[q] = "none"
    BY <1>0, <1>6, <2>1, <2>2, RenameForm DEF Rename, Becomes
  <2> QED BY <2>1, <2>3 DEF Alone, Readable
<1>7. CASE Crash(q)
  <2>1. proc'[q].pc = "idle" /\ handle'[q] = "none"
    BY <1>0, <1>7, CrashForm DEF Crash, Becomes
  <2>2. store' = store
    BY <1>7 DEF Crash, Put, Alone
  <2> QED BY <2>1, <2>2 DEF Alone, Readable
<1>8. CASE Advance \/ UNCHANGED vars
  BY <1>8 DEF Advance, vars, disk, Alone, Readable, Empty
<1>9. CASE \E p \in Procs : Step(p) \/ Change(p) \/ Crash(p)
  <2>1. Step(q) \/ Change(q) \/ Crash(q)
    BY <1>9
  <2> QED BY <1>2, <1>3, <1>4, <1>5, <1>6, <1>7, <2>1 DEF Step
<1> QED BY <1>8, <1>9 DEF Next

\* A process that is alone keeps the schedule file readable whenever it dies and
\* however often: the text is complete before it is renamed, and a file that a
\* dead process has left half written is truncated by the next save.
THEOREM AloneKeepsTheFile ==
    ASSUME NEW q, Procs = {q}
    PROVE  Spec => []Readable
<1>1. Init => Alone(q)
  <2> SUFFICES ASSUME Init PROVE Alone(q)
    OBVIOUS
  <2>1. q \in Procs /\ Idle.pc = "idle" /\ proc[q] = Idle /\ handle[q] = "none"
    BY DEF Init, Idle
  <2> QED BY <2>1, FilesAre DEF Init, Alone, Readable
<1>2. Shapes /\ Punctual /\ Alone(q) /\ [Next]_vars => Alone(q)'
  BY AloneStep
<1>3. Alone(q) => Readable
  BY DEF Alone
<1> QED BY <1>1, <1>2, <1>3, CoreHolds, PTL DEF Spec

\* A schedule file that was lost stays lost: every tick, save, edit and deletion
\* reads it first and raises.
THEOREM LostForEver == Spec => [][Lost => Lost']_vars
<1>1. ASSUME Shapes, Punctual, Lost, Next PROVE Lost'
  <2>0. ~Readable /\ \A p \in Procs : proc[p].pc \notin {"open", "fill", "rename"}
    BY <1>1 DEF Lost
  <2>1. ASSUME NEW p \in Procs, NEW pc, NEW due, NEW saves, NEW file, Becomes(p, pc, due, saves, file),
               pc \notin {"open", "fill", "rename"}, store' = store
        PROVE  Lost'
    BY <2>0, <2>1 DEF Becomes, Lost, Readable
  <2>2. ASSUME NEW p \in Procs, \/ Enqueue(p) \/ EndOfEnqueues(p) \/ Find(p) \/ Load(p) \/ Change(p) \/ Crash(p)
        PROVE  Lost'
    <3>1. store' = store
      BY <2>0, <2>2 DEF Enqueue, EndOfEnqueues, Find, Load, Change, Crash, disk
    <3>2. CASE Enqueue(p)
      <4>1. \/ \E due, saves, file : Becomes(p, "enqueue", due, saves, file)
            \/ Becomes(p, "idle", {}, {}, NoRuns)
        BY <1>1, <3>2, EnqueueForm, Zenon
      <4> QED BY <2>1, <3>1, <4>1
    <3>3. CASE EndOfEnqueues(p)
      BY <1>1, <2>1, <3>1, <3>3, EndForm
    <3>4. CASE Find(p)
      BY <1>1, <2>1, <3>1, <3>4, FindForm DEF GivesUp
    <3>5. CASE Load(p)
      BY <1>1, <2>0, <2>1, <3>1, <3>5, LoadForm DEF GivesUp
    <3>6. CASE Change(p)
      BY <1>1, <2>1, <3>1, <3>6, ChangeForm
    <3>7. CASE Crash(p)
      BY <1>1, <2>1, <3>1, <3>7, CrashForm
    <3> QED BY <2>2, <3>2, <3>3, <3>4, <3>5, <3>6, <3>7
  <2>3. ASSUME NEW p \in Procs, Tick(p) PROVE Lost'
    <3>1. UNCHANGED vars
      BY <2>0, <2>3, TickRaises
    <3> QED BY <1>1, <3>1 DEF vars, Lost, Readable
  <2>4. ASSUME NEW p \in Procs PROVE ~(Open(p) \/ Fill(p) \/ Rename(p))
    BY <2>0 DEF Open, Fill, Rename
  <2>5. CASE Advance
    BY <1>1, <2>5 DEF Advance, disk, Lost, Readable
  <2> QED BY <1>1, <2>2, <2>3, <2>4, <2>5 DEF Next, Step
<1>2. Shapes /\ Punctual /\ [Next]_vars => [Lost => Lost']_vars
  BY <1>1
<1> QED BY <1>2, CoreHolds, PTL DEF Spec
=============================================================================
