----------------------------- MODULE TimerOrder -----------------------------
(***************************************************************************)
(* When the tasks of a CMUTIL_Timer run (concurrent.c): the arithmetic on  *)
(* times, the comparators that keep the array of scheduled tasks sorted,   *)
(* the main loop that takes the elapsed ones off its front and the worker  *)
(* that computes the next run of a repeating task.  Timer.tla has the      *)
(* threads and the memory; here each operation is one step.                *)
(*                                                                         *)
(* A time is a pair of seconds and microseconds; a task is known by its    *)
(* address, a number.  `int' has 2 * HalfInt values.                       *)
(***************************************************************************)
EXTENDS Arrays

CONSTANTS Millis,          \* milliseconds in a second
          Micros,          \* microseconds in a millisecond
          HalfInt,
          Task,            \* addresses of tasks, in units of their size
          Delay, Period,   \* in milliseconds; period 0: the task runs once
          MaxNow           \* bound on the clock, in microseconds

VARIABLE st
vars == <<st>>

Second    == Millis * Micros
Time(us)  == <<us \div Second, us % Second>>
Micro(tv) == (tv[1] * Second) + tv[2]
Cast(x)    == ((x + HalfInt) % (2 * HalfInt)) - HalfInt

(* Advances a time by a number of milliseconds.                            *)
TimerGetDelayed(tv, delay) ==
  LET sec  == tv[1] + (delay \div Millis)
      usec == tv[2] + ((delay % Millis) * Micros)
  IN  IF usec >= Second THEN <<sec + 1, usec - Second>> ELSE <<sec, usec>>

TimerTVCompare(a, b) ==
  LET sdiff == Cast(a[1] - b[1]) IN IF sdiff = 0 THEN Cast(a[2] - b[2]) ELSE sdiff

TimerIsElapsed(tv, curr) == TimerTVCompare(tv, curr) <= 0

TimerTaskComp(task, a, b) ==
  LET byTime   == TimerTVCompare(task[a].nextrun, task[b].nextrun)
      byPeriod == Cast(task[a].period - task[b].period)
  IN  IF byTime # 0 THEN byTime ELSE IF byPeriod # 0 THEN byPeriod ELSE Cast(a - b)

(* The array of scheduled tasks after t, whose fields are task[t], is      *)
(* added or removed.                                                       *)
Compared(sched, task, t) == [i \in 1 .. Len(sched) |-> TimerTaskComp(task, t, sched[i])]
Added(sched, task, t) ==
  LET found == SearchPrivate(Compared(sched, task, t))
  IN  IF found.found = 1 THEN [sched EXCEPT ![found.idx + 1] = t]
                         ELSE InsertAt(sched, found.idx + 1, t)
Removed(sched, task, t) ==
  LET found == SearchPrivate(Compared(sched, task, t))
  IN  IF found.found = 1 THEN RemoveAt(sched, found.idx + 1) ELSE sched

Init ==
  st = [now |-> 0, curr |-> Time(0), scheduled |-> <<>>,
        task |-> [t \in Task |-> NULL], last |-> NULL]

Tick == st.now < MaxNow /\ st' = [st EXCEPT !.now = @ + 1]
(* Where the bound ends the run.                                           *)
Stop == st.now = MaxNow /\ UNCHANGED st

Enters(t, rec, last) ==
  LET task == [st.task EXCEPT ![t] = rec]
  IN  st' = [st EXCEPT !.task = task, !.last = last, !.scheduled = Added(@, task, t)]

(* Schedule in a number of milliseconds, from now or from the start of     *)
(* time; a time in the past is legal.                                      *)
Schedule(t) ==
  /\ st.task[t] = NULL
  /\ \E delay \in Delay, from \in {0, st.now}, period \in Period, skip \in BOOLEAN :
       Enters(t, [nextrun |-> TimerGetDelayed(Time(from), delay), period |-> period,
                  elapse_skip |-> skip, dispatched |-> FALSE], NULL)

(* Cancelling a task that waits for its time takes it out of the array.    *)
Cancel(t) ==
  /\ st.task[t] # NULL /\ ~st.task[t].dispatched
  /\ st' = [st EXCEPT !.task[t] = NULL, !.scheduled = Removed(@, st.task, t)]

(* The main loop reads the clock, and with that reading, by then possibly  *)
(* old, takes the elapsed tasks off the front of the array.                *)
ReadClock == st.curr # Time(st.now) /\ st' = [st EXCEPT !.curr = Time(st.now)]

Rest(sched, task, curr) ==
  LET skip[k \in Nat] == IF k = Len(sched) \/ ~TimerIsElapsed(task[sched[k + 1]].nextrun, curr)
                         THEN k ELSE skip[k + 1]
  IN  SubSeq(sched, skip[0] + 1, Len(sched))
MainLoop ==
  LET rest  == Rest(st.scheduled, st.task, st.curr)
      taken == {st.scheduled[i] : i \in 1..(Len(st.scheduled) - Len(rest))}
  IN  /\ taken # {}
      /\ st' = [st EXCEPT !.scheduled = rest,
                          !.task = [t \in Task |-> IF t \in taken THEN [@[t] EXCEPT !.dispatched = TRUE]
                                                                  ELSE @[t]]]

(* The next run of a repeating task: one period on, and with elapse_skip   *)
(* as many as it takes not to lie in the past.                             *)
NextRun(rec) ==
  LET next[tv \in Nat \X Nat] ==
        IF rec.elapse_skip /\ TimerTVCompare(Time(st.now), tv) > 0
        THEN next[TimerGetDelayed(tv, rec.period)] ELSE tv
  IN  next[TimerGetDelayed(rec.nextrun, rec.period)]
TimerWorker(t) ==
  /\ st.task[t] # NULL /\ st.task[t].dispatched
  /\ LET rec == st.task[t]
     IN  IF rec.period = 0 THEN st' = [st EXCEPT !.task[t] = NULL]
         ELSE Enters(t, [rec EXCEPT !.nextrun = NextRun(rec), !.dispatched = FALSE],
                     [before |-> Micro(rec.nextrun), after |-> Micro(NextRun(rec)),
                      period |-> rec.period * Micros, skip |-> rec.elapse_skip, now |-> st.now])

Next ==
  \/ Tick \/ Stop \/ ReadClock \/ MainLoop
  \/ \E t \in Task : Schedule(t) \/ Cancel(t) \/ TimerWorker(t)

Spec == Init /\ [][Next]_vars

(* The array holds every task that waits, once, in the order of their      *)
(* times, so one pass of the loop takes exactly those that are due at any  *)
(* reading of the clock; a repeating task keeps its phase, and with        *)
(* elapse_skip its next run is the first that is not in the past.          *)
OrderSound ==
  /\ {st.scheduled[i] : i \in DOMAIN st.scheduled} =
       {t \in Task : st.task[t] # NULL /\ ~st.task[t].dispatched}
  /\ \A i, j \in DOMAIN st.scheduled : i < j =>
        /\ st.scheduled[i] # st.scheduled[j]
        /\ Micro(st.task[st.scheduled[i]].nextrun) <= Micro(st.task[st.scheduled[j]].nextrun)
  /\ \A us \in 0..MaxNow : \E due \in 0..Len(st.scheduled) :
        /\ Rest(st.scheduled, st.task, Time(us)) =
             SubSeq(st.scheduled, due + 1, Len(st.scheduled))
        /\ \A i \in DOMAIN st.scheduled : Micro(st.task[st.scheduled[i]].nextrun) <= us <=> i <= due
  /\ st.last # NULL =>
        /\ (st.last.after - st.last.before) % st.last.period = 0
        /\ st.last.after > st.last.before
        /\ st.last.after - st.last.before > st.last.period =>
             st.last.skip /\ st.last.after - st.last.period < st.last.now
        /\ st.last.skip => st.last.after >= st.last.now
=============================================================================
