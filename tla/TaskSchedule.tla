---------------------------- MODULE TaskSchedule ----------------------------
(***************************************************************************)
(* Task schedules: Scheduler.evaluate decides what is due, tick of         *)
(* ScheduleApplicationService enqueues it and then saves the last run of   *)
(* every schedule it looked at.  The JSON store is one file that each save *)
(* reads whole and replaces whole, by way of a temporary file whose name   *)
(* every process shares; a tick loop, an API call and an editor may be     *)
(* separate processes.  The clock counts minutes.                          *)
(***************************************************************************)
EXTENDS Integers, FiniteSets

CONSTANTS
    Schedules,      \* schedule ids
    Place,          \* where an id comes in the listing of the store
    Trigger,        \* per schedule [kind, policy, every, runAt, cron, maxRuns]
    Window,         \* max_cron_catchup_minutes
    Procs,          \* processes that tick or edit
    Tickers,        \* those that run the tick loop
    MaxTime,        \* bound on the clock
    MaxEdits,       \* bound on edits and deletions
    MaxFaults       \* bound on crashes and failed enqueues

Times == 0..MaxTime
Never == -1
Many  == MaxFaults + 2 * MaxEdits + 2   \* bound on the count of enqueues of one due time

Kinds    == {"date", "interval", "cron"}
Policies == {"skip", "run_once", "catch_up"}

ASSUME ScheduleAssumption ==
    /\ Place \in [Schedules -> Nat]
    /\ \A r, s \in Schedules : Place[r] = Place[s] => r = s
    /\ Trigger \in [Schedules -> [kind : Kinds, policy : Policies, every : Nat \ {0},
                          runAt : Times \cup {Never}, cron : SUBSET Times,
                          maxRuns : Nat \ {0}]]
    /\ \A s \in Schedules : Trigger[s].kind = "date" => Trigger[s].runAt # Never
    /\ IsFiniteSet(Procs) /\ Tickers \subseteq Procs
    /\ Window \in Nat \ {0} /\ MaxTime \in Nat /\ MaxEdits \in Nat /\ MaxFaults \in Nat

VARIABLES
    now,
    store,      \* the file
    temp,       \* <file>.tmp, the one all processes write
    handle,     \* which of the two the open file of a process is by now
    proc,       \* what each process holds in memory
    fired,      \* how often each due time of a schedule was enqueued, up to Many
    edits, faults

disk == <<store, temp, handle>>
vars == <<now, store, temp, handle, proc, fired, edits, faults>>

\* A file: last_run_at of every schedule in it, when it is a whole JSON text.
NoRuns    == [s \in {} |-> Never]
File(runs) == [state |-> "whole", runs |-> runs]
Absent    == [state |-> "absent", runs |-> NoRuns]
Empty     == [state |-> "empty", runs |-> NoRuns]
Garbled   == [state |-> "garbled", runs |-> NoRuns]

\* json.loads raises on anything else.
Readable == store.state = "whole"

-----------------------------------------------------------------------------
(* What is due, as a pure function of the last run and the clock.          *)

Due(times, last) == [times |-> times, last |-> last]
Smaller(a, b) == IF a < b THEN a ELSE b
Latest(times) == CHOOSE t \in times : \A u \in times : u <= t

\* _evaluate_date
DueDate(spec, last, at) ==
    IF last # Never \/ at < spec.runAt THEN Due({}, last)
    ELSE Due({spec.runAt}, spec.runAt)

\* Variant: the grid starts at the first tick, not at the first due time.
IntervalFrom(spec, last, at) == IF last = Never THEN at ELSE last + spec.every

\* The first due time that has not been handled.
IntervalBase(spec, last, at) ==
    IF last = Never THEN IF spec.runAt = Never THEN at ELSE spec.runAt
    ELSE last + spec.every

\* Variant: catch-up takes the newest due times, as the cron branch does.
TakenNewest(spec, n) == (n - Smaller(n, spec.maxRuns))..(n - 1)

\* _interval_due_times: which of the n due times are enqueued.
Taken(spec, n) ==
    IF spec.policy = "run_once" THEN {n - 1} ELSE 0..(Smaller(n, spec.maxRuns) - 1)

\* _interval_due_count
Count(spec, base, at) == (at - base) \div spec.every + 1

\* _evaluate_interval
DueInterval(spec, last, at) ==
    LET base  == IntervalBase(spec, last, at)
        n     == Count(spec, base, at)
        times == {base + i * spec.every : i \in Taken(spec, n)}
    IN  IF at < base THEN Due({}, last)
        ELSE IF n > 1 /\ spec.policy = "skip" THEN Due({}, base + (n - 1) * spec.every)
        ELSE Due(times, Latest(times))

\* Variant: the scan starts again at the minute of the last run.
ScannedAgain(last, at) == last..Smaller(at, last + Window - 1)

\* Variant: the scan ends one minute early.
ScannedShort(last, at) == (last + 1)..Smaller(at, last + Window - 1)

\* The minutes _minute_range visits after the last run.
Scanned(last, at) == (last + 1)..Smaller(at, last + Window)

\* The n latest.
Newest(times, n) == {t \in times : Cardinality({u \in times : u > t}) < n}

\* _evaluate_cron: an empty scan leaves the last run where it was.
DueCron(spec, last, at) ==
    LET hits == spec.cron \cap (IF last = Never THEN {at} ELSE Scanned(last, at))
    IN  IF hits = {} THEN Due({}, last)
        ELSE IF Cardinality(hits) > 1 /\ spec.policy = "skip" THEN Due({}, Latest(hits))
        ELSE IF spec.policy = "run_once" THEN Due({Latest(hits)}, Latest(hits))
        ELSE Due(Newest(hits, spec.maxRuns), Latest(hits))

Evaluate(s, last, at) ==
    LET spec == Trigger[s]
    IN  CASE spec.kind = "date" -> DueDate(spec, last, at)
          [] spec.kind = "interval" -> DueInterval(spec, last, at)
          [] spec.kind = "cron" -> DueCron(spec, last, at)

-----------------------------------------------------------------------------
(* A process: due times left to enqueue, saves left to make, and the file   *)
(* it has read for the save under way.                                      *)

Idle == [pc |-> "idle", due |-> {}, saves |-> {}, file |-> NoRuns]

Run(s, last, moved) == [id |-> s, kind |-> "run", last |-> last, moved |-> moved]
Edit(s)   == [id |-> s, kind |-> "edit", last |-> Never, moved |-> TRUE]
Delete(s) == [id |-> s, kind |-> "delete", last |-> Never, moved |-> TRUE]

\* Schedules in the order of the listing, their due times in that of time.
DueBefore(d, e) ==
    Place[d[1]] < Place[e[1]] \/ (d[1] = e[1] /\ d[2] < e[2])
NextDue(p) == CHOOSE d \in proc[p].due : \A e \in proc[p].due : e = d \/ DueBefore(d, e)

\* The last runs that moved are saved first.
SavedBefore(u, v) ==
    (u.moved /\ ~v.moved) \/ (u.moved = v.moved /\ Place[u.id] < Place[v.id])
NextSave(p) == CHOOSE u \in proc[p].saves : \A v \in proc[p].saves : v = u \/ SavedBefore(u, v)

Init ==
    /\ now = 0
    /\ store = File([s \in Schedules |-> Never]) /\ temp = Absent
    /\ handle = [p \in Procs |-> "none"]
    /\ proc = [p \in Procs |-> Idle]
    /\ fired = [s \in Schedules |-> [t \in Times |-> 0]]
    /\ edits = 0 /\ faults = 0

\* The work of one tick: enqueue every due time, then save every schedule.
Work(due, saves) == [pc |-> "enqueue", due |-> due, saves |-> saves, file |-> NoRuns]

\* Its saves, or the one save of an edit, and the file it has read for the next.
Saving(pc, saves, file) == [pc |-> pc, due |-> {}, saves |-> saves, file |-> file]

\* The schedules, their last runs and the clock are read once; a tick that
\* cannot read them raises.
Tick(p) ==
    LET runs   == store.runs
        result == [s \in DOMAIN runs |-> Evaluate(s, runs[s], now)]
        due    == {d \in (DOMAIN runs) \X Times : d[2] \in result[d[1]].times}
        saves  == {Run(s, result[s].last, result[s].last # runs[s]) : s \in DOMAIN runs}
    IN  /\ p \in Tickers /\ proc[p].pc = "idle"
        /\ proc' = IF Readable THEN [proc EXCEPT ![p] = Work(due, saves)] ELSE proc
        /\ UNCHANGED <<now, disk, fired, edits, faults>>

\* queue.enqueue of one due time; when it raises the tick saves nothing.
Enqueue(p) ==
    /\ proc[p].pc = "enqueue" /\ proc[p].due # {}
    /\ LET d == NextDue(p)
       IN  \/ /\ fired' = [fired EXCEPT ![d[1]][d[2]] = Smaller(@ + 1, Many)]
              /\ proc' = [proc EXCEPT ![p].due = @ \ {d}]
              /\ UNCHANGED faults
           \/ /\ faults < MaxFaults /\ faults' = faults + 1
              /\ proc' = [proc EXCEPT ![p] = Idle]
              /\ UNCHANGED fired
    /\ UNCHANGED <<now, disk, edits>>

EndOfEnqueues(p) ==
    /\ proc[p].pc = "enqueue" /\ proc[p].due = {}
    /\ proc' = [proc EXCEPT ![p].pc = "find"]
    /\ UNCHANGED <<now, disk, fired, edits, faults>>

\* get_schedule before a run state is saved: that of a deleted schedule raises, as
\* does an unreadable file, and the saves that are left are not made.
Find(p) ==
    LET save == NextSave(p)
        ends == \/ proc[p].saves = {}
                \/ save.kind = "run" /\ (~Readable \/ save.id \notin DOMAIN store.runs)
    IN  /\ proc[p].pc = "find"
        /\ proc' = [proc EXCEPT ![p] =
             IF ends THEN Idle ELSE Saving("load", proc[p].saves, NoRuns)]
        /\ UNCHANGED <<now, disk, fired, edits, faults>>

\* A save reads the file once more; a deletion that comes second does nothing.
Load(p) ==
    LET save == NextSave(p)
        ends == ~Readable \/ (save.kind = "delete" /\ save.id \notin DOMAIN store.runs)
    IN  /\ proc[p].pc = "load"
        /\ proc' = [proc EXCEPT ![p] =
             IF ends THEN Idle ELSE Saving("open", proc[p].saves, store.runs)]
        /\ UNCHANGED <<now, disk, fired, edits, faults>>

\* write_text opens the temporary file and truncates it, whoever is writing it.
Open(p) ==
    /\ proc[p].pc = "open"
    /\ temp' = Empty
    /\ handle' = [handle EXCEPT ![p] = "temp"]
    /\ proc' = [proc EXCEPT ![p].pc = "fill"]
    /\ UNCHANGED <<now, store, fired, edits, faults>>

\* What it read, with one schedule changed.
Contents(p) ==
    LET save == NextSave(p)
        file == proc[p].file
    IN  [s \in (DOMAIN file \ {save.id})
               \cup (IF save.kind = "delete" THEN {} ELSE {save.id}) |->
            IF s = save.id THEN save.last ELSE file[s]]

\* The text starts at the beginning of the file: over a text that is longer it
\* leaves the end of that one.
Written(old, runs) == {File(runs)} \cup (IF old.state = "empty" THEN {} ELSE {Garbled})

\* A file after p has put a text into it, if it is the one that p has open.
Put(p, name, old, new) == IF handle[p] = name THEN new ELSE old

\* write_text writes and closes the file it opened, renamed or not by then.
Fill(p) ==
    /\ proc[p].pc = "fill"
    /\ \E file \in Written(IF handle[p] = "temp" THEN temp ELSE store, Contents(p)) :
         /\ temp' = Put(p, "temp", temp, file)
         /\ store' = Put(p, "store", store, file)
    /\ handle' = [handle EXCEPT ![p] = "none"]
    /\ proc' = [proc EXCEPT ![p].pc = "rename"]
    /\ UNCHANGED <<now, fired, edits, faults>>

\* replace publishes the temporary file, whoever wrote it; the file it replaces
\* is gone, also for those that have it open.  When another process has renamed
\* it already this raises, and the saves that are left are not made.
Rename(p) ==
    /\ proc[p].pc = "rename"
    /\ \/ /\ temp # Absent
          /\ store' = temp /\ temp' = Absent
          /\ handle' = [q \in Procs |-> IF handle[q] = "temp" THEN "store" ELSE "none"]
          /\ proc' = [proc EXCEPT ![p] = Saving("find", @.saves \ {NextSave(p)}, NoRuns)]
       \/ /\ temp = Absent
          /\ proc' = [proc EXCEPT ![p] = Idle]
          /\ UNCHANGED disk
    /\ UNCHANGED <<now, fired, edits, faults>>

\* upsert_task_schedule starts the schedule anew; delete_schedule removes it.
Change(p) ==
    /\ proc[p].pc = "idle" /\ edits < MaxEdits
    /\ \E s \in Schedules : \E save \in {Edit(s), Delete(s)} :
         proc' = [proc EXCEPT ![p] = Saving("load", {save}, NoRuns)]
    /\ edits' = edits + 1
    /\ UNCHANGED <<now, disk, fired, faults>>

\* A process that dies while it writes may leave a part of the text.
Crash(p) ==
    /\ proc[p].pc # "idle" /\ faults < MaxFaults
    /\ faults' = faults + 1
    /\ proc' = [proc EXCEPT ![p] = Idle]
    /\ \/ UNCHANGED <<store, temp>>
       \/ /\ proc[p].pc = "fill"
          /\ temp' = Put(p, "temp", temp, Garbled)
          /\ store' = Put(p, "store", store, Garbled)
    /\ handle' = [handle EXCEPT ![p] = "none"]
    /\ UNCHANGED <<now, fired, edits>>

\* Time passes whatever the processes do, or while none of them runs.
Advance ==
    /\ now < MaxTime /\ now' = now + 1
    /\ UNCHANGED <<disk, proc, fired, edits, faults>>

Step(p) == \/ Tick(p) \/ Enqueue(p) \/ EndOfEnqueues(p) \/ Find(p) \/ Load(p)
           \/ Open(p) \/ Fill(p) \/ Rename(p)

Next == Advance \/ \E p \in Procs : Step(p) \/ Change(p) \/ Crash(p)

Spec == Init /\ [][Next]_vars

\* The tick loop of every process goes on.
FairSpec == Spec /\ \A p \in Procs : WF_vars(Step(p))
=============================================================================
