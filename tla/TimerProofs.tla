----------------------------- MODULE TimerProofs -----------------------------
(***************************************************************************)
(* Timer.tla for any number of clients, workers and tasks: the memory of a *)
(* task has one owner from its allocation to its last use, a task that is  *)
(* not cancelled is in one place, a cancelled one is silent, and Destroy   *)
(* leaves nothing behind.                                                  *)
(***************************************************************************)
EXTENDS Timer, Counting, TLAPS

Idle == scheduled \cup finished
Queued == ToSet(queue)

\* The calls that work on ctask, and those that may have a snapshot.
Working == {"enter", "wait", "free"}
Purging == Working \cup {"next"}
Ending == {"stop", "join", "pool", "done"}
Done == \E c \in Clients : call[c] = "done"

\* The workers that have taken a job, and those for which it is still listed.
Busy == {"start", "test", "proc", "report", "free"}
Running == {"start", "test", "proc", "report"}

\* A task is listed from Schedule to the moment somebody takes over its memory;
\* while listed it is in an array or dispatched, and cancelled ones are not in
\* an array.
Listing ==
  /\ \A k \in alltasks : mem[k] = "live"
  /\ Idle \subseteq alltasks
  /\ Idle \cap (canceled \cup dispatched) = {}
  /\ scheduled \cap finished = {}
  /\ alltasks \subseteq Idle \cup dispatched
  /\ silenced \cap alltasks = {}
  /\ \A k \in canceled \cup dispatched \cup waiter \cup silenced : mem[k] # "none"

\* Between the arrays a task is in the queue or with one worker, who frees it
\* only if it is cancelled and nobody has undertaken to.
Carrying ==
  /\ IsInjective(queue)
  /\ Queued \subseteq alltasks \cap dispatched
  /\ \A w \in Workers : worker[w] \in Busy => wtask[w] \in Tasks \ Queued
  /\ \A w, v \in Workers :
       worker[w] \in Busy /\ worker[v] \in Busy /\ w # v => wtask[w] # wtask[v]
  /\ \A w \in Workers : worker[w] \in Running => wtask[w] \in alltasks \cap dispatched
  /\ \A w \in Workers :
       worker[w] = "report" /\ wtask[w] \notin canceled => addedto[w] # "none"
  /\ \A w \in Workers :
       worker[w] = "free" => /\ mem[wtask[w]] = "live"
                             /\ wtask[w] \in canceled \ (alltasks \cup waiter)

\* What a call has in its hands: the task it works on and its snapshot.
Hands(c) == purging[c] \cup (IF call[c] \in Working THEN {ctask[c]} ELSE {})

\* A task is in the hands of one call at most, or still has its handle.
Handling ==
  /\ \A c, d \in Callers : c # d => Hands(c) \cap Hands(d) = {}
  /\ \A c \in Callers : call[c] \in Working => ctask[c] \in Tasks \ purging[c]
  /\ \A c \in Callers : held \cap Hands(c) = {}
  /\ \A c \in Callers : \A k \in Hands(c) : mem[k] = "live"
  /\ ~Done => held \subseteq alltasks \ (canceled \cup waiter)

\* What a call knows of them.  Until it has entered, a task that is cancelled
\* already has been marked by the snapshot; then it is idle, and out of every
\* place, or cancelled and marked.
Knowing ==
  /\ \A c \in Callers : \A k \in purging[c] : k \in waiter /\ (k \in alltasks \/ k \in canceled)
  /\ \A c \in Callers : call[c] = "enter" =>
       IF ctask[c] \in canceled THEN ctask[c] \in waiter ELSE ctask[c] \in alltasks
  /\ \A w \in Workers : call[w] = "enter" => ctask[w] \notin waiter
  /\ \A c \in Callers : call[c] = "wait" => ctask[c] \in canceled \cap waiter
  /\ \A c \in Callers : call[c] = "free" => ctask[c] \notin alltasks
  /\ \A w \in Workers, c \in Callers : worker[w] = "free" => wtask[w] \notin Hands(c)

\* Destroy is the only call of a client, and the last one.
Ordering ==
  /\ \A c \in Callers : call[c] \notin Purging => purging[c] = {}
  /\ \A w \in Workers : purging[w] = {}
  /\ \A w \in Workers : worker[w] # "proc" => call[w] = "out"
  /\ \A c \in Callers : call[c] \in Ending => destroyer = c
  /\ destroyer # Nothing => \A c \in Clients \ {destroyer} : call[c] = "out"
  /\ \A c \in Callers : call[c] \in {"pool", "done"} => mainloop = "gone"
  /\ Done => /\ \A w \in Workers : worker[w] = "gone"
             /\ alltasks = {} /\ queue = << >>

IInv == TypeOK /\ Listing /\ Carrying /\ Handling /\ Knowing /\ Ordering

\* With quiet purges: a call that has a task in its hands and has not entered
\* is the first to cancel it, the mark of a cancelled task has somebody who
\* waits, a dispatched task is listed, and a live one that is no longer listed
\* has somebody to free it.
Waits(c, k) == call[c] = "wait" /\ ctask[c] = k
Frees(k) ==
  \/ \E w \in Workers : worker[w] = "free" /\ wtask[w] = k
  \/ \E c \in Callers : call[c] \in {"wait", "free"} /\ ctask[c] = k

Owning ==
  /\ \A c \in Callers : purging[c] \cap canceled = {}
  /\ \A c \in Callers : call[c] = "enter" => ctask[c] \notin canceled
  /\ \A k \in alltasks \cap canceled \cap waiter : \E c \in Callers : Waits(c, k)
  /\ ~Done => dispatched \subseteq alltasks
  /\ \A k \in Tasks \ alltasks : mem[k] = "live" => Frees(k)

------------------------------------------------------------------------------
\* A part of the invariant is untouched by a step that changes nothing it
\* speaks of.
LEMMA Kept ==
  /\ Listing /\ UNCHANGED <<mem, arrays, canceled, dispatched, waiter, silenced>>
       => Listing'
  /\ Carrying /\ UNCHANGED <<mem, alltasks, canceled, dispatched, waiter, queue, working>>
       => Carrying'
  /\ Handling /\ UNCHANGED <<mem, alltasks, canceled, waiter, calling, held>>
       => Handling'
  /\ Knowing /\ UNCHANGED <<alltasks, canceled, waiter, worker, wtask, calling>>
       => Knowing'
  /\ Ordering /\ UNCHANGED <<alltasks, queue, mainloop, worker, call, purging, destroyer>>
       => Ordering'
BY DEF Listing, Idle, Carrying, Queued, Handling, Hands, Done, Knowing, Ordering,
       arrays, working, calling

\* The inductive invariant holds when the program starts.
LEMMA InitInvariant == Init => IInv
<1> SUFFICES ASSUME Init PROVE IInv
  OBVIOUS
<1>1. TypeOK
  BY DistinctAssumption DEF Init, TypeOK, Callers
<1>2. IsInjective(queue) /\ Queued = {}
  BY DEF Init, IsInjective, Queued, ToSet
<1>3. Listing
  BY DEF Init, Listing, Idle
<1>4. Carrying
  BY <1>2 DEF Init, Carrying, Busy, Running
<1>5. \A c \in Callers : Hands(c) = {} /\ call[c] = "out" /\ purging[c] = {}
  BY DEF Init, Hands, Working
<1>6. Handling
  BY <1>5 DEF Init, Handling, Working
<1>7. Knowing
  BY <1>5 DEF Init, Knowing
<1>8. Ordering
  BY <1>5, DistinctAssumption DEF Init, Ordering, Ending, Done, Callers
<1> QED BY <1>1, <1>3, <1>4, <1>6, <1>7, <1>8 DEF IInv

\* Nobody calls once Destroy has returned.
LEMMA CallsBeforeTheEnd ==
  ASSUME IInv, NEW c \in Callers, CanCall(c)
  PROVE  ~Done
BY DistinctAssumption DEF IInv, Ordering, CanCall, Done, Ending, Callers

\* Every step preserves the invariant.
LEMMA NextInvariant == IInv /\ [Next]_vars => IInv'
<1> SUFFICES ASSUME IInv, [Next]_vars PROVE IInv'
  OBVIOUS
<1> USE DEF arrays, flags, working, calling, life, ghosts, Call, Worker, Free
<1>inv. TypeOK /\ Listing /\ Carrying /\ Handling /\ Knowing /\ Ordering
  BY DEF IInv
<1>callers. Workers \subseteq Callers /\ Clients \subseteq Callers
  BY DEF Callers
<1>1. ASSUME LoopCheck
      PROVE  IInv'
  <2>types. TypeOK'
    BY <1>inv, <1>1 DEF TypeOK, LoopCheck
  <2>kept. Listing' /\ Carrying' /\ Handling' /\ Knowing'
    BY <1>inv, <1>1, Kept DEF LoopCheck
  <2>ordering. Ordering'
    BY <1>inv, <1>1 DEF LoopCheck, Ordering, Done
  <2> QED BY <2>types, <2>kept, <2>ordering DEF IInv
<1>2. ASSUME LoopSleep
      PROVE  IInv'
  <2>types. TypeOK'
    BY <1>inv, <1>2 DEF TypeOK, LoopSleep
  <2>kept. Listing' /\ Carrying' /\ Handling' /\ Knowing'
    BY <1>inv, <1>2, Kept DEF LoopSleep
  <2>ordering. Ordering'
    BY <1>inv, <1>2 DEF LoopSleep, Ordering, Done
  <2> QED BY <2>types, <2>kept, <2>ordering DEF IInv
<1>3. ASSUME NEW k \in Tasks, Dispatch(k)
      PROVE  IInv'
  <2>1. k \in alltasks \ (canceled \cup dispatched) /\ k \notin Queued
    BY <1>inv, <1>3 DEF Dispatch, Listing, Idle, Carrying
  <2>2. /\ queue' \in Seq(Tasks) /\ IsInjective(queue')
        /\ Queued' = Queued \cup {k}
    BY <1>inv, <1>3, <2>1, Appended DEF TypeOK, Dispatch, Carrying, Queued
  <2>types. TypeOK'
    BY <1>inv, <1>3, <2>2 DEF TypeOK, Dispatch
  <2>kept. Handling' /\ Knowing'
    BY <1>inv, <1>3, Kept DEF Dispatch
  <2>listing. Listing'
    BY <1>inv, <1>3, <2>1 DEF Dispatch, Listing, Idle
  <2>carrying. Carrying'
    <3>1. \A w \in Workers : worker[w] \in Busy => wtask[w] # k
      BY <1>inv, <2>1 DEF Carrying, Busy, Running
    <3> QED BY <1>inv, <1>3, <2>1, <2>2, <3>1 DEF Dispatch, Carrying
  <2>ordering. Ordering'
    BY <1>inv, <1>3, <2>1 DEF Dispatch, Ordering, Done
  <2> QED BY <2>types, <2>kept, <2>listing, <2>carrying, <2>ordering DEF IInv
<1>4. ASSUME NEW w \in Workers, Take(w)
      PROVE  IInv'
  <2>1. /\ queue' \in Seq(Tasks) /\ IsInjective(queue')
        /\ Head(queue) \in Queued /\ Head(queue) \in Tasks
        /\ Queued' = Queued \ {Head(queue)}
    BY <1>inv, <1>4, FirstTaken DEF TypeOK, Take, Carrying, Queued
  <2>types. TypeOK'
    BY <1>inv, <1>4, <2>1 DEF TypeOK, Take
  <2>kept. Listing' /\ Handling'
    BY <1>inv, <1>4, Kept DEF Take
  <2>carrying. Carrying'
    <3>1. /\ worker'[w] = "start" /\ wtask'[w] = Head(queue)
          /\ \A v \in Workers \ {w} : worker'[v] = worker[v] /\ wtask'[v] = wtask[v]
      BY <1>inv, <1>4 DEF TypeOK, Take
    <3> QED BY <1>inv, <1>4, <2>1, <3>1 DEF Take, Carrying, Busy, Running
  <2>knowing. Knowing'
    BY <1>inv, <1>callers, <1>4 DEF TypeOK, Take, Knowing, Hands
  <2>ordering. Ordering'
    <3>1. ~Done
      BY <1>inv, <1>4 DEF Take, Ordering
    <3> QED BY <1>inv, <1>4, <3>1 DEF TypeOK, Take, Ordering, Done
  <2> QED BY <2>types, <2>kept, <2>carrying, <2>knowing, <2>ordering DEF IInv
<1>5. ASSUME NEW w \in Workers, Leave(w)
      PROVE  IInv'
  <2>types. TypeOK'
    BY <1>inv, <1>5 DEF TypeOK, Leave
  <2>kept. Listing' /\ Handling'
    BY <1>inv, <1>5, Kept DEF Leave
  <2>carrying. Carrying'
    BY <1>inv, <1>5 DEF TypeOK, Leave, Carrying, Queued, Busy, Running
  <2>knowing. Knowing'
    BY <1>inv, <1>5 DEF TypeOK, Leave, Knowing, Hands
  <2>ordering. Ordering'
    BY <1>inv, <1>5 DEF TypeOK, Leave, Ordering, Done
  <2> QED BY <2>types, <2>kept, <2>carrying, <2>knowing, <2>ordering DEF IInv
<1>6. ASSUME NEW w \in Workers, Start(w)
      PROVE  IInv'
  <2>types. TypeOK'
    BY <1>inv, <1>6 DEF TypeOK, Start
  <2>kept. Listing' /\ Handling'
    BY <1>inv, <1>6, Kept DEF Start
  <2>carrying. Carrying'
    BY <1>inv, <1>6 DEF TypeOK, Start, Carrying, Queued, Busy, Running
  <2>knowing. Knowing'
    BY <1>inv, <1>6 DEF TypeOK, Start, Knowing, Hands
  <2>ordering. Ordering'
    BY <1>inv, <1>6 DEF TypeOK, Start, Ordering, Done
  <2> QED BY <2>types, <2>kept, <2>carrying, <2>knowing, <2>ordering DEF IInv
<1>7. ASSUME NEW w \in Workers, Test(w)
      PROVE  IInv'
  <2>types. TypeOK'
    BY <1>inv, <1>7 DEF TypeOK, Test
  <2>kept. Listing' /\ Handling'
    BY <1>inv, <1>7, Kept DEF Test
  <2>carrying. Carrying'
    BY <1>inv, <1>7 DEF TypeOK, Test, Carrying, Queued, Busy, Running
  <2>knowing. Knowing'
    BY <1>inv, <1>7 DEF TypeOK, Test, Knowing, Hands
  <2>ordering. Ordering'
    BY <1>inv, <1>7 DEF TypeOK, Test, Ordering, Done
  <2> QED BY <2>types, <2>kept, <2>carrying, <2>knowing, <2>ordering DEF IInv
<1>8. ASSUME NEW w \in Workers, Return(w)
      PROVE  IInv'
  <2>types. TypeOK'
    BY <1>inv, <1>8 DEF TypeOK, Return
  <2>kept. Listing' /\ Handling'
    BY <1>inv, <1>8, Kept DEF Return
  <2>carrying. Carrying'
    BY <1>inv, <1>8 DEF TypeOK, Return, Carrying, Queued, Busy, Running
  <2>knowing. Knowing'
    BY <1>inv, <1>8 DEF TypeOK, Return, Knowing, Hands
  <2>ordering. Ordering'
    BY <1>inv, <1>8 DEF TypeOK, Return, Ordering, Done
  <2> QED BY <2>types, <2>kept, <2>carrying, <2>knowing, <2>ordering DEF IInv
<1>9. ASSUME NEW w \in Workers, Report(w)
      PROVE  IInv'
  <2> DEFINE k == wtask[w]
  <2>1. /\ k \in Tasks /\ k \in alltasks \cap dispatched
        /\ k \notin Idle /\ k \notin Queued
        /\ \A v \in Workers \ {w} : worker[v] \in Busy => wtask[v] # k
        /\ k \notin canceled => addedto[w] \in {"scheduled", "finished"}
    BY <1>inv, <1>9 DEF TypeOK, Report, Carrying, Busy, Running, Listing
  <2>2. /\ dispatched' = dispatched \ {k}
        /\ UNCHANGED <<mem, canceled, waiter, silenced, queue, wtask, held, calling>>
        /\ \A v \in Workers \ {w} : worker'[v] = worker[v]
    BY <1>inv, <1>9 DEF TypeOK, Report
  <2>3. \/ /\ k \in canceled
           /\ alltasks' = alltasks \ {k} /\ Idle' = Idle
           /\ scheduled' = scheduled /\ finished' = finished
           /\ worker'[w] \in {"free", "idle"}
           /\ worker'[w] = "free" => k \notin waiter
        \/ /\ k \notin canceled
           /\ alltasks' = alltasks /\ Idle' = Idle \cup {k}
           /\ scheduled' \cap finished' = scheduled \cap finished
           /\ scheduled' \subseteq Tasks /\ finished' \subseteq Tasks
           /\ worker'[w] = "idle"
    BY <1>inv, <1>9, <2>1 DEF TypeOK, Report, WorkerFrees, Idle
  <2> HIDE DEF k
  <2>types. TypeOK'
    <3>1. runner' \in [Tasks -> Workers \cup {Nothing}]
      BY <1>inv, <1>9 DEF TypeOK, Report
    <3>2. worker' = [worker EXCEPT ![w] = worker'[w]]
      BY <1>inv, <1>9 DEF TypeOK, Report
    <3> QED BY <1>inv, <1>9, <2>1, <2>2, <2>3, <3>1, <3>2 DEF TypeOK, Report
  <2>listing. Listing'
    BY <1>inv, <2>1, <2>2, <2>3 DEF Listing
  <2>carrying. Carrying'
    <3>1. addedto' = addedto /\ Queued' = Queued
      BY <1>9 DEF Report, Queued
    <3>2. worker'[w] \notin Running /\ (worker'[w] \in Busy => worker'[w] = "free")
      BY <2>3 DEF Running, Busy
    <3>3. worker'[w] = "free" => mem[k] = "live" /\ k \in canceled \ waiter /\ k \notin alltasks'
      BY <1>inv, <2>1, <2>3 DEF Listing
    <3>4. \A v \in Workers : worker'[v] \in Busy => worker[v] \in Busy
      BY <1>9, <2>2 DEF Report, Busy
    <3>5. \A v \in Workers \ {w} : worker[v] = "free" => wtask[v] \notin alltasks'
      BY <1>inv, <2>3 DEF Carrying
    <3>6. \A v \in Workers : worker'[v] \in Running => v # w
      BY <3>2
    <3>7. \A v \in Workers : worker'[v] \in Running => wtask[v] \in alltasks' \cap dispatched'
      BY <1>inv, <2>1, <2>2, <2>3, <3>4, <3>6 DEF Carrying, Running, Busy
    <3>8. \A v \in Workers : worker'[v] = "report" /\ wtask[v] \notin canceled => addedto[v] # "none"
      BY <1>inv, <2>2, <3>6 DEF Carrying, Running
    <3>9. Queued \subseteq alltasks' \cap dispatched'
      BY <1>inv, <2>1, <2>2, <2>3 DEF Carrying
    <3>10. \A v \in Workers : worker'[v] = "free" =>
              mem[wtask[v]] = "live" /\ wtask[v] \in canceled \ (alltasks' \cup waiter)
      <4>1. \A v \in Workers \ {w} : worker'[v] = "free" =>
              mem[wtask[v]] = "live" /\ wtask[v] \in canceled \ (alltasks' \cup waiter)
        BY <1>inv, <2>2, <3>5 DEF Carrying
      <4> QED BY <4>1, <3>3 DEF k
    <3> QED BY <1>inv, <2>2, <3>1, <3>4, <3>7, <3>8, <3>9, <3>10 DEF Carrying
  <2>handling. Handling'
    <3>1. Done' = Done /\ \A c \in Callers : Hands(c)' = Hands(c)
      BY <2>2 DEF Done, Hands
    <3> QED BY <1>inv, <2>2, <2>3, <3>1 DEF Handling
  <2>knowing. Knowing'
    <3>1. \A c \in Callers : Hands(c)' = Hands(c)
      BY <2>2 DEF Hands
    <3>2. worker'[w] = "free" => \A c \in Callers : k \notin Hands(c)
      BY <1>inv, <2>1, <2>3 DEF Knowing, Hands, Working
    <3> QED BY <1>inv, <2>1, <2>2, <2>3, <3>1, <3>2 DEF Knowing, k
  <2>ordering. Ordering'
    <3>1. ~Done
      BY <1>inv, <1>9 DEF Report, Ordering
    <3> QED BY <1>inv, <1>9, <3>1 DEF TypeOK, Report, Ordering, Done
  <2> QED BY <2>types, <2>listing, <2>carrying, <2>handling, <2>knowing, <2>ordering DEF IInv
<1>10. ASSUME NEW w \in Workers, WorkerFree(w)
       PROVE  IInv'
  <2>1. /\ wtask[w] \in Tasks \ alltasks
        /\ \A v \in Workers \ {w} : worker[v] \in Busy => wtask[v] # wtask[w]
        /\ \A c \in Callers : wtask[w] \notin Hands(c)
    BY <1>inv, <1>10 DEF TypeOK, WorkerFree, Carrying, Knowing, Busy
  <2>types. TypeOK'
    BY <1>inv, <1>10 DEF TypeOK, WorkerFree
  <2>listing. Listing'
    <3>1. \A k \in Tasks : mem'[k] = IF k = wtask[w] THEN "freed" ELSE mem[k]
      BY <1>inv, <1>10, <2>1 DEF TypeOK, WorkerFree
    <3> QED BY <1>inv, <1>10, <2>1, <3>1 DEF TypeOK, WorkerFree, Listing, Idle
  <2>carrying. Carrying'
    BY <1>inv, <1>10, <2>1 DEF TypeOK, WorkerFree, Carrying, Queued, Busy, Running
  <2>handling. Handling'
    <3>1. Done' = Done /\ \A c \in Callers : Hands(c)' = Hands(c) /\ Hands(c) \subseteq Tasks
      BY <1>inv, <1>10 DEF TypeOK, WorkerFree, Done, Hands, Handling
    <3>2. \A k \in Tasks \ {wtask[w]} : mem'[k] = mem[k]
      BY <1>inv, <1>10 DEF TypeOK, WorkerFree
    <3> QED BY <1>inv, <1>10, <2>1, <3>1, <3>2 DEF WorkerFree, Handling
  <2>knowing. Knowing'
    BY <1>inv, <1>10 DEF TypeOK, WorkerFree, Knowing, Hands
  <2>ordering. Ordering'
    BY <1>inv, <1>10 DEF TypeOK, WorkerFree, Ordering, Done
  <2> QED BY <2>types, <2>listing, <2>carrying, <2>handling, <2>knowing, <2>ordering DEF IInv
<1>11. ASSUME NEW c \in Callers, NEW k \in Tasks, Schedule(c, k)
       PROVE  IInv'
  <2>1. /\ k \notin alltasks \cup Idle \cup canceled \cup dispatched \cup waiter \cup silenced
        /\ k \notin Queued
        /\ \A d \in Callers : k \notin Hands(d)
        /\ \A w \in Workers : worker[w] \in Busy => wtask[w] # k
    BY <1>inv, <1>11 DEF Schedule, Listing, Handling, Carrying, Busy, Running
  <2>2. ~Done
    BY <1>11, CallsBeforeTheEnd DEF Schedule
  <2>3. /\ \A j \in Tasks \ {k} : mem'[j] = mem[j]
        /\ mem'[k] = "live"
    BY <1>inv, <1>11 DEF TypeOK, Schedule
  <2>types. TypeOK'
    <3>1. repeating' \subseteq Tasks
      BY <1>inv, <1>11 DEF TypeOK, Schedule
    <3> QED BY <1>inv, <1>11, <3>1 DEF TypeOK, Schedule
  <2>listing. Listing'
    <3>1. Idle' = Idle \cup {k}
      BY <1>11 DEF Schedule, Idle
    <3> QED BY <1>inv, <1>11, <2>1, <2>3, <3>1 DEF TypeOK, Schedule, Listing, Idle
  <2>carrying. Carrying'
    BY <1>inv, <1>11, <2>1, <2>3 DEF TypeOK, Schedule, Carrying, Queued, Busy, Running
  <2>handling. Handling'
    <3>1. Done' = Done /\ \A d \in Callers : Hands(d)' = Hands(d) /\ Hands(d) \subseteq Tasks
      BY <1>inv, <1>11 DEF TypeOK, Schedule, Done, Hands, Handling
    <3> QED BY <1>inv, <1>11, <2>1, <2>2, <2>3, <3>1 DEF TypeOK, Schedule, Handling
  <2>knowing. Knowing'
    <3>1. /\ \A d \in Callers : Hands(d)' = Hands(d)
          /\ \A d \in Callers : call[d] = "free" => ctask[d] \in Hands(d)
      BY <1>11 DEF Schedule, Hands, Working
    <3> QED BY <1>inv, <1>11, <2>1, <3>1 DEF Schedule, Knowing
  <2>ordering. Ordering'
    BY <1>inv, <1>11, <2>2 DEF Schedule, Ordering, Done
  <2> QED BY <2>types, <2>listing, <2>carrying, <2>handling, <2>knowing, <2>ordering DEF IInv
<1>12. ASSUME NEW c \in Callers, NEW k \in Tasks, CancelCall(c, k)
       PROVE  IInv'
  <2>1. ~Done /\ call[c] = "out" /\ purging[c] = {}
    BY <1>inv, <1>12, CallsBeforeTheEnd DEF CancelCall, CanCall, Ordering, Purging, Working
  <2>2. /\ k \in alltasks \ (canceled \cup waiter) /\ mem[k] = "live"
        /\ \A d \in Callers : k \notin Hands(d)
    BY <1>inv, <1>12, <2>1 DEF CancelCall, Handling, Listing
  <2>3. /\ call'[c] = "enter" /\ ctask'[c] = k
        /\ \A d \in Callers \ {c} : call'[d] = call[d] /\ ctask'[d] = ctask[d]
        /\ held' = held \ {k}
        /\ UNCHANGED <<mem, repeating, arrays, flags, queue, mainloop, working,
                       purging, life, silenced>>
    BY <1>inv, <1>12 DEF TypeOK, CancelCall
  <2>4. /\ Hands(c)' = {k}
        /\ \A d \in Callers \ {c} : Hands(d)' = Hands(d)
    BY <2>1, <2>3 DEF Hands, Working
  <2>5. ~Done'
    BY <1>callers, <2>1, <2>3 DEF Done
  <2>types. TypeOK'
    BY <1>inv, <1>12, <2>3 DEF TypeOK, CancelCall
  <2>kept. Listing' /\ Carrying'
    BY <1>inv, <2>3, Kept
  <2>handling. Handling'
    <3>1. \A d \in Callers : call'[d] \in Working => ctask'[d] \in Tasks \ purging[d]
      BY <1>inv, <2>1, <2>3 DEF Handling
    <3> QED BY <1>inv, <2>1, <2>2, <2>3, <2>4, <3>1 DEF Handling
  <2>knowing. Knowing'
    <3>1. \A w \in Workers : worker[w] = "free" => wtask[w] # k
      BY <1>inv, <2>2 DEF Carrying
    <3> QED BY <1>inv, <1>callers, <2>1, <2>2, <2>3, <2>4, <3>1 DEF Knowing
  <2>ordering. Ordering'
    <3>1. /\ c \in Clients => destroyer = Nothing
          /\ c \in Workers => worker[c] = "proc"
      BY <1>12, DistinctAssumption DEF CancelCall, CanCall, Callers
    <3>2. \A d \in Callers : call'[d] \in Ending => call[d] \in Ending
      BY <2>3 DEF Ending
    <3>3. \A d \in Callers : call'[d] \notin Purging => purging[d] = {}
      BY <1>inv, <2>1, <2>3 DEF Ordering, Purging
    <3>4. destroyer # Nothing => \A d \in Clients \ {destroyer} : call'[d] = "out"
      BY <1>inv, <1>callers, <2>3, <3>1 DEF Ordering
    <3>5. \A d \in Callers : call'[d] \in {"pool", "done"} => mainloop = "gone"
      BY <1>inv, <2>3 DEF Ordering
    <3>6. \A w \in Workers : worker[w] # "proc" => call'[w] = "out"
      BY <1>inv, <1>callers, <2>3, <3>1 DEF Ordering
    <3> QED BY <1>inv, <2>3, <2>5, <3>2, <3>3, <3>4, <3>5, <3>6 DEF Ordering
  <2> QED BY <2>types, <2>kept, <2>handling, <2>knowing, <2>ordering DEF IInv
<1>13. ASSUME NEW c \in Callers, Enter(c)
       PROVE  IInv'
  <2> DEFINE k == ctask[c]
             idle == k \notin canceled /\ k \in Idle
             await == ~idle /\ k \in dispatched /\ runner[k] # c
  <2>1. /\ call[c] = "enter" /\ k \in Tasks /\ mem[k] = "live" /\ k \in Hands(c)
        /\ \A d \in Callers \ {c} : k \notin Hands(d)
        /\ k \notin held /\ k \notin purging[c]
        /\ \A w \in Workers : worker[w] = "free" => wtask[w] # k
    BY <1>inv, <1>13 DEF Enter, Handling, Hands, Working, Knowing
  <2>2. /\ scheduled' = (IF idle THEN scheduled \ {k} ELSE scheduled)
        /\ finished' = (IF idle THEN finished \ {k} ELSE finished)
        /\ alltasks' = (IF idle THEN alltasks \ {k} ELSE alltasks)
        /\ canceled' = (IF idle THEN canceled ELSE canceled \cup {k})
        /\ waiter' = (IF await THEN waiter \cup {k} ELSE waiter)
        /\ silenced' = (IF idle THEN silenced \cup {k} ELSE silenced)
        /\ call' = [call EXCEPT ![c] = IF idle THEN "free" ELSE IF await THEN "wait" ELSE "next"]
        /\ UNCHANGED <<mem, repeating, dispatched, runner, queue, mainloop, working,
                       ctask, purging, life, held>>
    BY <1>13 DEF Enter, Idle
  <2>3. /\ call'[c] = (IF idle THEN "free" ELSE IF await THEN "wait" ELSE "next")
        /\ \A d \in Callers \ {c} : call'[d] = call[d]
    BY <1>inv, <2>2 DEF TypeOK
  <2>4. /\ k \in canceled => k \in waiter /\ k \notin Idle
        /\ k \notin canceled => k \in alltasks /\ k \in Idle \cup dispatched
        /\ k \in Idle => k \notin dispatched
        /\ idle => k \notin Queued /\ k \notin dispatched
    BY <1>inv, <2>1 DEF Knowing, Listing, Carrying
  <2>5. /\ Hands(c)' \subseteq Hands(c)
        /\ call'[c] \in Working => call'[c] \in {"free", "wait"}
        /\ \A d \in Callers \ {c} : Hands(d)' = Hands(d)
    BY <2>1, <2>2, <2>3 DEF Hands, Working
  <2>6. Done' = Done
    BY <2>1, <2>3, <1>callers DEF Done
  <2>types. TypeOK'
    BY <1>inv, <2>1, <2>2 DEF TypeOK
  <2>7. Idle' = (IF idle THEN Idle \ {k} ELSE Idle)
    BY <2>2 DEF Idle
  <2> HIDE DEF k
  <2>listing. Listing'
    BY <1>inv, <2>1, <2>2, <2>4, <2>7 DEF TypeOK, Listing
  <2>carrying. Carrying'
    <3>1. Queued' = Queued
      BY <2>2 DEF Queued
    <3>2. \A w \in Workers : worker[w] \in Running => wtask[w] \in alltasks' \cap dispatched
      BY <1>inv, <2>2, <2>4 DEF Carrying
    <3>3. \A w \in Workers : worker[w] = "free" =>
            /\ mem[wtask[w]] = "live"
            /\ wtask[w] \in canceled' \ (alltasks' \cup waiter')
      BY <1>inv, <2>1, <2>2 DEF Carrying
    <3>4. canceled \subseteq canceled' /\ Queued \subseteq alltasks' \cap dispatched
      BY <1>inv, <2>2, <2>4 DEF Carrying
    <3> QED BY <1>inv, <2>2, <3>1, <3>2, <3>3, <3>4 DEF Carrying
  <2>handling. Handling'
    <3>1. \A d \in Callers : call'[d] \in Working => ctask[d] \in Tasks \ purging[d]
      BY <1>inv, <2>1, <2>3 DEF Handling, k
    <3> QED BY <1>inv, <2>1, <2>2, <2>3, <2>5, <2>6, <3>1 DEF Handling
  <2>knowing. Knowing'
    <3>1. \A d \in Callers : k \notin purging[d]
      BY <2>1 DEF Hands
    <3>2. \A d \in Callers : d # c /\ call[d] \in Working => ctask[d] # k
      BY <2>1 DEF Hands
    <3>3. \A d \in Callers : \A j \in purging[d] : j \in waiter' /\ (j \in alltasks' \/ j \in canceled')
      BY <1>inv, <2>2, <3>1 DEF Knowing
    <3>4. \A d \in Callers : call'[d] = "enter" =>
            IF ctask[d] \in canceled' THEN ctask[d] \in waiter' ELSE ctask[d] \in alltasks'
      BY <1>inv, <2>2, <2>3, <3>2 DEF Knowing, Working
    <3>5. \A w \in Workers : call'[w] = "enter" => ctask[w] \notin waiter'
      BY <1>inv, <1>callers, <2>2, <2>3, <3>2 DEF Knowing, Working
    <3>6. \A d \in Callers : call'[d] = "wait" => ctask[d] \in canceled' \cap waiter'
      BY <1>inv, <2>2, <2>3 DEF Knowing, k
    <3>7. \A d \in Callers : call'[d] = "free" => ctask[d] \notin alltasks'
      BY <1>inv, <2>2, <2>3 DEF Knowing, k
    <3> QED BY <1>inv, <2>2, <2>5, <3>3, <3>4, <3>5, <3>6, <3>7 DEF Knowing
  <2>ordering. Ordering'
    <3>1. /\ \A d \in Callers : call'[d] \in Ending => call[d] \in Ending
          /\ \A d \in Callers : call'[d] = "out" <=> call[d] = "out"
          /\ \A d \in Callers : call'[d] \in Purging <=> call[d] \in Purging
          /\ \A d \in Callers : call'[d] \in {"pool", "done"} => call[d] \in {"pool", "done"}
      BY <2>1, <2>3 DEF Ending, Purging, Working
    <3>2. Done => alltasks' = {}
      BY <1>inv, <2>2 DEF Ordering
    <3> QED BY <1>inv, <1>callers, <2>2, <2>6, <3>1, <3>2 DEF Ordering
  <2> QED BY <2>types, <2>listing, <2>carrying, <2>handling, <2>knowing, <2>ordering DEF IInv
<1>14. ASSUME NEW c \in Callers, WaitOver(c)
       PROVE  IInv'
  <2>1. /\ call[c] = "wait" /\ ctask[c] \in Tasks /\ ctask[c] \in canceled \ alltasks
        /\ mem[ctask[c]] = "live"
    <3>1. ctask[c] \in Tasks /\ ctask[c] \in canceled \ dispatched /\ mem[ctask[c]] = "live"
      BY <1>inv, <1>14 DEF WaitOver, Handling, Hands, Working, Knowing
    <3> QED BY <1>inv, <1>14, <3>1 DEF WaitOver, Listing
  <2>2. /\ call'[c] = "free" /\ \A d \in Callers \ {c} : call'[d] = call[d]
        /\ \A d \in Callers : Hands(d)' = Hands(d)
    BY <1>inv, <1>14 DEF TypeOK, WaitOver, Hands, Working
  <2>3. Done' = Done
    BY <1>callers, <2>1, <2>2 DEF Done
  <2>types. TypeOK'
    BY <1>inv, <1>14, <2>1 DEF TypeOK, WaitOver
  <2>kept. Carrying'
    BY <1>inv, <1>14, Kept DEF WaitOver
  <2>listing. Listing'
    BY <1>inv, <1>14, <2>1 DEF WaitOver, Listing, Idle
  <2>handling. Handling'
    BY <1>inv, <1>14, <2>1, <2>2, <2>3 DEF WaitOver, Handling, Working
  <2>knowing. Knowing'
    BY <1>inv, <1>callers, <1>14, <2>1, <2>2 DEF WaitOver, Knowing
  <2>ordering. Ordering'
    BY <1>inv, <1>callers, <1>14, <2>1, <2>2, <2>3
       DEF WaitOver, Ordering, Ending, Purging, Working
  <2> QED BY <2>types, <2>kept, <2>listing, <2>handling, <2>knowing, <2>ordering DEF IInv
<1>15. ASSUME NEW c \in Callers, GiveUp(c)
       PROVE  IInv'
  <2>1. /\ call[c] = "wait" /\ ctask[c] \in Hands(c)
        /\ \A d \in Callers \ {c} : ctask[c] \notin Hands(d)
        /\ ctask[c] \notin purging[c]
    BY <1>inv, <1>15 DEF GiveUp, Handling, Hands, Working
  <2>2. /\ call'[c] = "next" /\ \A d \in Callers \ {c} : call'[d] = call[d]
        /\ Hands(c)' = purging[c]
        /\ \A d \in Callers \ {c} : Hands(d)' = Hands(d)
    BY <1>inv, <1>15 DEF TypeOK, GiveUp, Hands, Working
  <2>3. Done' = Done
    BY <1>callers, <2>1, <2>2 DEF Done
  <2>types. TypeOK'
    BY <1>inv, <1>15 DEF TypeOK, GiveUp
  <2>listing. Listing'
    BY <1>inv, <1>15 DEF GiveUp, Listing, Idle
  <2>carrying. Carrying'
    BY <1>inv, <1>15 DEF GiveUp, Carrying, Queued, Busy, Running
  <2>handling. Handling'
    <3>1. \A d \in Callers : Hands(d)' \subseteq Hands(d)
      BY <2>2 DEF Hands
    <3> QED BY <1>inv, <1>15, <2>2, <2>3, <3>1 DEF GiveUp, Handling, Working
  <2>knowing. Knowing'
    <3>1. /\ \A d \in Callers : ctask[c] \notin purging[d]
          /\ \A d \in Callers \ {c} : call[d] \in Working => ctask[d] # ctask[c]
      BY <2>1 DEF Hands
    <3>2. \A d \in Callers : \A j \in purging[d] : j \in waiter' /\ (j \in alltasks \/ j \in canceled)
      BY <1>inv, <1>15, <3>1 DEF GiveUp, Knowing
    <3>3. \A d \in Callers : call'[d] = "enter" =>
            IF ctask[d] \in canceled THEN ctask[d] \in waiter' ELSE ctask[d] \in alltasks
      BY <1>inv, <1>15, <2>2, <3>1 DEF GiveUp, Knowing, Working
    <3>4. \A d \in Callers : call'[d] = "wait" => ctask[d] \in canceled \cap waiter'
      BY <1>inv, <1>15, <2>2, <3>1 DEF GiveUp, Knowing, Working
    <3>5. \A d \in Callers : Hands(d)' \subseteq Hands(d)
      BY <2>2 DEF Hands
    <3> QED BY <1>inv, <1>callers, <1>15, <2>2, <3>2, <3>3, <3>4, <3>5 DEF GiveUp, Knowing
  <2>ordering. Ordering'
    BY <1>inv, <1>callers, <1>15, <2>1, <2>2, <2>3
       DEF GiveUp, Ordering, Ending, Purging, Working
  <2> QED BY <2>types, <2>listing, <2>carrying, <2>handling, <2>knowing, <2>ordering DEF IInv
<1>16. ASSUME NEW c \in Callers, CancelFree(c)
       PROVE  IInv'
  <2>1. /\ call[c] = "free" /\ ctask[c] \in Hands(c)
        /\ ctask[c] \in Tasks \ alltasks
        /\ \A d \in Callers \ {c} : ctask[c] \notin Hands(d)
        /\ ctask[c] \notin purging[c]
        /\ \A w \in Workers : worker[w] = "free" => wtask[w] # ctask[c]
    BY <1>inv, <1>16 DEF CancelFree, Handling, Knowing, Hands, Working
  <2>2. /\ call'[c] = "next" /\ \A d \in Callers \ {c} : call'[d] = call[d]
        /\ Hands(c)' = purging[c]
        /\ \A d \in Callers \ {c} : Hands(d)' = Hands(d)
        /\ \A k \in Tasks : mem'[k] = IF k = ctask[c] THEN "freed" ELSE mem[k]
    BY <1>inv, <1>16, <2>1 DEF TypeOK, CancelFree, Hands, Working
  <2>3. Done' = Done
    BY <1>callers, <2>1, <2>2 DEF Done
  <2>4. \A d \in Callers : Hands(d)' \subseteq Hands(d)
    BY <2>2 DEF Hands
  <2>types. TypeOK'
    BY <1>inv, <1>16 DEF TypeOK, CancelFree
  <2>listing. Listing'
    BY <1>inv, <1>16, <2>1, <2>2 DEF TypeOK, CancelFree, Listing, Idle
  <2>carrying. Carrying'
    BY <1>inv, <1>16, <2>1, <2>2 DEF TypeOK, CancelFree, Carrying, Queued, Busy, Running
  <2>handling. Handling'
    <3>1. \A d \in Callers : ctask[c] \notin Hands(d)' /\ Hands(d) \subseteq Tasks
      BY <1>inv, <2>1, <2>2 DEF TypeOK, Hands, Handling
    <3>2. \A d \in Callers : \A k \in Hands(d)' : mem'[k] = "live"
      BY <1>inv, <2>2, <2>4, <3>1 DEF Handling
    <3> QED BY <1>inv, <1>16, <2>2, <2>3, <2>4, <3>2 DEF CancelFree, Handling, Working
  <2>knowing. Knowing'
    BY <1>inv, <1>callers, <1>16, <2>2, <2>4 DEF CancelFree, Knowing
  <2>ordering. Ordering'
    BY <1>inv, <1>callers, <1>16, <2>1, <2>2, <2>3
       DEF CancelFree, Ordering, Ending, Purging, Working
  <2> QED BY <2>types, <2>listing, <2>carrying, <2>handling, <2>knowing, <2>ordering DEF IInv
<1>17. ASSUME NEW c \in Callers, NextOfPurge(c)
       PROVE  IInv'
  <2>1. /\ call[c] = "next" /\ Hands(c) = purging[c] /\ purging[c] \subseteq Tasks
        /\ destroyer # Nothing /\ c \in Clients => c = destroyer
    BY <1>inv, <1>17 DEF TypeOK, NextOfPurge, Hands, Working, Ordering
  <2>2. UNCHANGED <<mem, repeating, arrays, flags, queue, mainloop, working, life, ghosts>>
    BY <1>17 DEF NextOfPurge
  <2>kept. Listing' /\ Carrying'
    BY <1>inv, <2>2, Kept
  <2>3. CASE purging[c] = {}
    <3>1. /\ call'[c] = (IF destroyer = c THEN "stop" ELSE "out")
          /\ \A d \in Callers \ {c} : call'[d] = call[d] /\ ctask'[d] = ctask[d]
          /\ purging' = purging
          /\ \A d \in Callers : Hands(d)' = Hands(d)
      BY <1>inv, <1>17, <2>1, <2>3 DEF TypeOK, NextOfPurge, Hands, Working
    <3>2. Done' = Done
      BY <1>callers, <2>1, <3>1 DEF Done
    <3>types. TypeOK'
      BY <1>inv, <1>17, <2>3 DEF TypeOK, NextOfPurge
    <3>handling. Handling'
      BY <1>inv, <2>2, <3>1, <3>2 DEF Handling, Working
    <3>knowing. Knowing'
      BY <1>inv, <1>callers, <2>2, <3>1 DEF Knowing
    <3>ordering. Ordering'
      BY <1>inv, <1>callers, <2>1, <2>2, <2>3, <3>1, <3>2
         DEF Ordering, Ending, Purging, Working
    <3> QED BY <2>kept, <3>types, <3>handling, <3>knowing, <3>ordering DEF IInv
  <2>4. CASE purging[c] # {}
    <3>1. PICK k \in purging[c] :
            /\ ctask' = [ctask EXCEPT ![c] = k]
            /\ purging' = [purging EXCEPT ![c] = @ \ {k}]
            /\ call' = [call EXCEPT ![c] = "enter"]
      BY <1>17, <2>4 DEF NextOfPurge
    <3>2. /\ call'[c] = "enter" /\ ctask'[c] = k /\ purging'[c] = purging[c] \ {k}
          /\ \A d \in Callers \ {c} :
               call'[d] = call[d] /\ ctask'[d] = ctask[d] /\ purging'[d] = purging[d]
          /\ \A d \in Callers : Hands(d)' = Hands(d)
      BY <1>inv, <2>1, <3>1 DEF TypeOK, Hands, Working
    <3>3. Done' = Done
      BY <1>callers, <2>1, <3>2 DEF Done
    <3>types. TypeOK'
      BY <1>inv, <2>1, <2>2, <3>1 DEF TypeOK
    <3>handling. Handling'
      BY <1>inv, <2>1, <2>2, <3>2, <3>3 DEF Handling, Working
    <3>4. c \notin Workers
      BY <1>inv, <2>4 DEF Ordering
    <3>knowing. Knowing'
      BY <1>inv, <1>callers, <2>2, <3>2, <3>4 DEF Knowing
    <3>ordering. Ordering'
      BY <1>inv, <1>callers, <2>1, <2>2, <3>2, <3>3, <3>4
         DEF Ordering, Ending, Purging, Working
    <3> QED BY <2>kept, <3>types, <3>handling, <3>knowing, <3>ordering DEF IInv
  <2> QED BY <2>3, <2>4
<1>18. ASSUME NEW c \in Callers, Stop(c)
       PROVE  IInv'
  <2>types. TypeOK'
    BY <1>inv, <1>18 DEF TypeOK, Stop
  <2>kept. Listing' /\ Carrying'
    BY <1>inv, <1>18, Kept DEF Stop
  <2>handling. Handling'
    BY <1>inv, <1>18 DEF TypeOK, Stop, Handling, Hands, Working, Done
  <2>knowing. Knowing'
    BY <1>inv, <1>callers, <1>18 DEF TypeOK, Stop, Knowing, Hands, Working
  <2>ordering. Ordering'
    BY <1>inv, <1>callers, <1>18 DEF TypeOK, Stop, Ordering, Ending, Purging, Working, Done
  <2> QED BY <2>types, <2>kept, <2>handling, <2>knowing, <2>ordering DEF IInv
<1>19. ASSUME NEW c \in Callers, JoinLoop(c)
       PROVE  IInv'
  <2>types. TypeOK'
    BY <1>inv, <1>19 DEF TypeOK, JoinLoop
  <2>kept. Listing' /\ Carrying'
    BY <1>inv, <1>19, Kept DEF JoinLoop
  <2>handling. Handling'
    BY <1>inv, <1>19 DEF TypeOK, JoinLoop, Handling, Hands, Working, Done
  <2>knowing. Knowing'
    BY <1>inv, <1>callers, <1>19 DEF TypeOK, JoinLoop, Knowing, Hands, Working
  <2>ordering. Ordering'
    BY <1>inv, <1>callers, <1>19 DEF TypeOK, JoinLoop, Ordering, Ending, Purging, Working, Done
  <2> QED BY <2>types, <2>kept, <2>handling, <2>knowing, <2>ordering DEF IInv
<1>20. ASSUME NEW c \in Callers, JoinPool(c)
       PROVE  IInv'
  <2>1. /\ \A w \in Workers : worker[w] = "gone"
        /\ c = destroyer /\ c \in Clients /\ c \notin Workers
    BY <1>inv, <1>20, DistinctAssumption DEF JoinPool, Ordering, Ending, TypeOK, Callers
  <2>2. /\ \A d \in Callers \ {c} : call[d] = "out" /\ call'[d] = "out"
        /\ call[c] = "pool" /\ call'[c] = "done"
    BY <1>inv, <1>20, <2>1, DistinctAssumption DEF TypeOK, JoinPool, Ordering, Callers
  <2>3. \A d \in Callers : purging[d] = {} /\ Hands(d)' = {}
    BY <1>inv, <1>20, <2>2 DEF Ordering, JoinPool, Hands, Purging, Working
  <2>4. /\ queue' = << >> /\ IsInjective(queue') /\ Queued' = {} /\ queue' \in Seq(Tasks)
    BY <1>20 DEF JoinPool, IsInjective, Queued, ToSet
  <2>types. TypeOK'
    BY <1>inv, <1>20, <2>4 DEF TypeOK, JoinPool
  <2>listing. Listing'
    BY <1>inv, <1>20 DEF TypeOK, JoinPool, Listing, Idle
  <2>carrying. Carrying'
    BY <1>20, <2>1, <2>4 DEF JoinPool, Carrying, Busy, Running
  <2>handling. Handling'
    <3>1. Done'
      BY <2>1, <2>2 DEF Done
    <3> QED BY <2>2, <2>3, <3>1 DEF Handling, Working
  <2>knowing. Knowing'
    <3>1. purging' = purging
      BY <1>20 DEF JoinPool
    <3> QED BY <1>callers, <2>2, <2>3, <3>1 DEF Knowing
  <2>ordering. Ordering'
    <3>1. UNCHANGED <<purging, worker, destroyer, mainloop>> /\ alltasks' = {}
      BY <1>20 DEF JoinPool
    <3>2. mainloop = "gone"
      BY <1>inv, <2>2 DEF Ordering
    <3> QED BY <1>callers, <2>1, <2>2, <2>3, <2>4, <3>1, <3>2 DEF Ordering, Ending
  <2> QED BY <2>types, <2>listing, <2>carrying, <2>handling, <2>knowing, <2>ordering DEF IInv
<1>21. ASSUME NEW c \in Clients, Purge(c)
       PROVE  IInv'
  <2>1. /\ \A d \in Callers : call[d] = "out" /\ purging[d] = {} /\ Hands(d) = {}
        /\ destroyer = Nothing /\ destroyer' \in {Nothing, c} /\ c \notin Workers
    BY <1>inv, <1>callers, <1>21, DistinctAssumption
       DEF Purge, CanCall, PurgeAllowed, Ordering, Purging, Working, Hands
  <2>2. ~Done /\ held \subseteq alltasks
    BY <1>inv, <1>callers, <2>1 DEF Done, Handling
  <2>3. /\ waiter' = waiter \cup alltasks
        /\ purging' = [purging EXCEPT ![c] = alltasks]
        /\ call' = [call EXCEPT ![c] = "next"]
        /\ held' = {}
        /\ UNCHANGED <<mem, repeating, arrays, canceled, dispatched, runner, queue,
                       mainloop, working, ctask, running, pooling, silenced>>
    BY <1>21, <2>2 DEF Purge, MarkSnapshot, Snapshot
  <2>4. /\ purging'[c] = alltasks /\ call'[c] = "next" /\ Hands(c)' = alltasks
        /\ \A d \in Callers \ {c} : purging'[d] = {} /\ call'[d] = "out" /\ Hands(d)' = {}
    BY <1>inv, <1>callers, <2>1, <2>3 DEF TypeOK, Hands, Working
  <2>types. TypeOK'
    BY <1>inv, <2>1, <2>3 DEF TypeOK
  <2>listing. Listing'
    BY <1>inv, <2>3 DEF Listing, Idle
  <2>carrying. Carrying'
    BY <1>inv, <2>3 DEF Carrying, Queued, Busy, Running
  <2>handling. Handling'
    <3>1. \A d \in Callers : call'[d] \notin Working
      BY <2>4 DEF Working
    <3> QED BY <1>inv, <2>3, <2>4, <3>1 DEF Handling, Listing
  <2>knowing. Knowing'
    BY <1>inv, <1>callers, <2>3, <2>4 DEF Knowing, Carrying
  <2>ordering. Ordering'
    <3>1. ~Done'
      BY <1>callers, <2>4 DEF Done
    <3> QED BY <1>callers, <1>inv, <2>1, <2>3, <2>4, <3>1 DEF Ordering, Purging, Working, Ending
  <2> QED BY <2>types, <2>listing, <2>carrying, <2>handling, <2>knowing, <2>ordering DEF IInv
<1>22. CASE UNCHANGED vars
  <2>1. TypeOK'
    BY <1>inv, <1>22 DEF TypeOK, vars
  <2> QED BY <1>inv, <2>1, <1>22, Kept DEF IInv, vars
<1> QED
  BY <1>1, <1>2, <1>3, <1>4, <1>5, <1>6, <1>7, <1>8, <1>9, <1>10, <1>11,
     <1>12, <1>13, <1>14, <1>15, <1>16, <1>17, <1>18, <1>19, <1>20, <1>21, <1>22
     DEF Next, WorkerStep, CallStep

\* The inductive invariant holds in every state of every execution.
LEMMA Invariance == Spec => []IInv
<1>1. IInv /\ [Next]_vars => IInv'
  BY NextInvariant
<1> QED BY <1>1, InitInvariant, PTL DEF Spec, Safety

------------------------------------------------------------------------------
\* A task is freed by the one who owns it, and nobody touches it afterwards:
\* the hand-over between the timer, a worker and a waiting canceller in
\* TimerWorker and TimerTaskCancelPrivate loses and doubles no ownership.
THEOREM TimerMemorySafe == Spec => []MemorySafe
<1>1. ASSUME IInv PROVE MemorySafe
  <2>inv. TypeOK /\ Listing /\ Carrying /\ Handling /\ Knowing
    BY <1>1 DEF IInv
  <2>1. NoUseAfterFree
    <3>1. \A k \in scheduled \cup finished \cup alltasks \cup ToSet(queue) : mem[k] = "live"
      BY <2>inv DEF Listing, Idle, Carrying, Queued
    <3>2. ASSUME NEW w \in Workers, worker[w] \notin {"idle", "gone"}
          PROVE  mem[wtask[w]] = "live"
      BY <2>inv, <3>2 DEF TypeOK, Listing, Carrying, Running
    <3>3. ASSUME NEW c \in Callers, call[c] \in {"enter", "wait", "free"}
          PROVE  mem[ctask[c]] = "live"
      BY <2>inv, <3>3 DEF Handling, Hands, Working
    <3>4. \A c \in Callers : \A k \in purging[c] : mem[k] = "live"
      BY <2>inv DEF Handling, Hands
    <3> QED BY <3>1, <3>2, <3>3, <3>4 DEF NoUseAfterFree, InUse
  <2>2. ASSUME NEW k \in Tasks
        PROVE  Cardinality({w \in Workers : worker[w] = "free" /\ wtask[w] = k}
                 \cup {c \in Callers : call[c] = "free" /\ ctask[c] = k}) <= 1
    <3> DEFINE W == {w \in Workers : worker[w] = "free" /\ wtask[w] = k}
               C == {c \in Callers : call[c] = "free" /\ ctask[c] = k}
    <3>1. \A w, v \in W : w = v
      BY <2>inv DEF Carrying, Busy
    <3>2. \A c, d \in C : c = d
      BY <2>inv DEF Handling, Hands, Working
    <3>3. \A w \in W, c \in C : FALSE
      BY <2>inv DEF Knowing, Hands, Working
    <3>4. CASE W \cup C = {}
      BY <3>4, FS_EmptySet
    <3>5. CASE W \cup C # {}
      <4>1. PICK x \in W \cup C : TRUE
        BY <3>5
      <4> HIDE DEF W, C
      <4>2. W \cup C = {x}
        BY <3>1, <3>2, <3>3, <4>1
      <4>3. Cardinality(W \cup C) = 1
        BY <4>2, FS_Singleton
      <4> QED BY <4>3 DEF W, C
    <3> QED BY <3>4, <3>5
  <2> QED BY <2>inv, <2>1, <2>2 DEF MemorySafe, NoDoubleFree
<1> QED BY <1>1, Invariance, PTL

\* A task whose cancel has returned, having waited for the worker, is not
\* listed any more, and TimerWorker only runs listed ones.
THEOREM TimerSilentAfterCancel == Spec => []SilentAfterCancel
<1>1. IInv => SilentAfterCancel
  BY DEF IInv, Listing, Carrying, Running, SilentAfterCancel
<1> QED BY <1>1, Invariance, PTL

\* TimerMainLoop, TimerWorker and TimerTaskCancelPrivate move a task between
\* the arrays and the pool without copying or dropping it.
THEOREM TimerOnePlace == Spec => []OnePlace
<1>1. ASSUME IInv, NEW k \in alltasks \ canceled
      PROVE  Cardinality({s \in {"scheduled", "finished", "dispatched"} :
                            \/ s = "scheduled" /\ k \in scheduled
                            \/ s = "finished" /\ k \in finished
                            \/ s = "dispatched" /\ k \in dispatched}) = 1
  <2> DEFINE places == {s \in {"scheduled", "finished", "dispatched"} :
                          \/ s = "scheduled" /\ k \in scheduled
                          \/ s = "finished" /\ k \in finished
                          \/ s = "dispatched" /\ k \in dispatched}
  <2>1. \E s \in {"scheduled", "finished", "dispatched"} : places = {s}
    BY <1>1 DEF IInv, Listing, Idle
  <2> QED BY <2>1, FS_Singleton
<1>2. IInv => OnePlace
  BY <1>1 DEF OnePlace
<1> QED BY <1>2, Invariance, PTL

------------------------------------------------------------------------------
\* Who frees a task depends on the places of workers and calls only.
LEMMA OwningKept ==
  ASSUME Owning,
         UNCHANGED <<mem, alltasks, canceled, dispatched, waiter, worker, wtask, calling>>
  PROVE  Owning'
BY DEF Owning, Waits, Frees, Done, calling

\* A worker that goes on without a task to free leaves the owners alone.
LEMMA OwningWorker ==
  ASSUME Owning, NEW w \in Workers, worker[w] # "free", worker'[w] # "free",
         \A v \in Workers \ {w} : worker'[v] = worker[v] /\ wtask'[v] = wtask[v],
         UNCHANGED <<mem, alltasks, canceled, dispatched, waiter, calling>>
  PROVE  Owning'
<1>1. \A k : Frees(k) => Frees(k)'
  BY DEF Frees, calling
<1> QED BY <1>1 DEF Owning, Waits, Done, calling

\* With quiet purges every step leaves each live task an owner.
LEMMA NextOwning == QuietPurge /\ IInv /\ Owning /\ [Next]_vars => Owning'
<1> SUFFICES ASSUME QuietPurge, IInv, Owning, [Next]_vars PROVE Owning'
  OBVIOUS
<1> USE DEF arrays, flags, working, calling, life, ghosts, Call, Worker, Free
<1>inv. TypeOK /\ Listing /\ Carrying /\ Handling /\ Knowing /\ Ordering
  BY DEF IInv
<1>callers. Workers \subseteq Callers /\ Clients \subseteq Callers
  BY DEF Callers
<1>1. CASE LoopCheck
  BY <1>1, OwningKept DEF LoopCheck
<1>2. CASE LoopSleep
  BY <1>2, OwningKept DEF LoopSleep
<1>3. ASSUME NEW k \in Tasks, Dispatch(k)
      PROVE  Owning'
  BY <1>inv, <1>3 DEF Dispatch, Owning, Waits, Frees, Done, Listing, Idle
<1>4. ASSUME NEW w \in Workers, Take(w)
      PROVE  Owning'
  BY <1>inv, <1>4, OwningWorker DEF TypeOK, Take
<1>5. ASSUME NEW w \in Workers, Leave(w)
      PROVE  Owning'
  BY <1>inv, <1>5, OwningWorker DEF TypeOK, Leave
<1>6. ASSUME NEW w \in Workers, Start(w)
      PROVE  Owning'
  BY <1>inv, <1>6, OwningWorker DEF TypeOK, Start
<1>7. ASSUME NEW w \in Workers, Test(w)
      PROVE  Owning'
  BY <1>inv, <1>7, OwningWorker DEF TypeOK, Test
<1>8. ASSUME NEW w \in Workers, Return(w)
      PROVE  Owning'
  BY <1>inv, <1>8, OwningWorker DEF TypeOK, Return
<1>9. ASSUME NEW w \in Workers, Report(w)
      PROVE  Owning'
  <2> DEFINE k == wtask[w]
  <2>1. /\ k \in alltasks \cap dispatched /\ worker[w] = "report"
        /\ \A v \in Workers \ {w} : worker'[v] = worker[v]
        /\ worker'[w] = (IF k \in canceled /\ k \notin waiter THEN "free" ELSE "idle")
        /\ alltasks' = (IF k \in canceled THEN alltasks \ {k} ELSE alltasks)
        /\ dispatched' = dispatched \ {k}
        /\ UNCHANGED <<mem, canceled, waiter, wtask, calling>>
    BY <1>inv, <1>9 DEF TypeOK, Report, WorkerFrees, Carrying, Running
  <2>2. k \in canceled => Frees(k)'
    <3>1. CASE k \in canceled \ waiter
      BY <2>1, <3>1 DEF Frees
    <3>2. CASE k \in canceled \cap waiter
      BY <2>1, <3>2 DEF Owning, Waits, Frees
    <3> QED BY <3>1, <3>2
  <2>3. \A j : Frees(j) => Frees(j)'
    BY <2>1 DEF Frees
  <2>4. Done' = Done /\ \A c \in Callers : \A j : Waits(c, j)' = Waits(c, j)
    BY <2>1 DEF Done, Waits
  <2>5. k \notin canceled => alltasks' = alltasks
    BY <2>1
  <2>6. alltasks \ {k} \subseteq alltasks' /\ alltasks' \subseteq alltasks
    BY <2>1
  <2>7. UNCHANGED <<mem, canceled, waiter, call, ctask, purging, k>>
    BY <2>1
  <2> HIDE DEF k
  <2>8. \A j \in Tasks \ alltasks' : mem'[j] = "live" => Frees(j)'
    BY <2>2, <2>3, <2>5, <2>6, <2>7 DEF Owning
  <2> QED BY <2>1, <2>4, <2>6, <2>7, <2>8 DEF Owning
<1>10. ASSUME NEW w \in Workers, WorkerFree(w)
       PROVE  Owning'
  <2>1. /\ \A v \in Workers \ {w} : worker'[v] = worker[v]
        /\ \A j \in Tasks : mem'[j] = IF j = wtask[w] THEN "freed" ELSE mem[j]
        /\ UNCHANGED <<alltasks, canceled, dispatched, waiter, wtask, calling>>
    BY <1>inv, <1>10 DEF TypeOK, WorkerFree, Carrying
  <2>2. \A j \in Tasks \ {wtask[w]} : Frees(j) => Frees(j)'
    BY <2>1 DEF Frees
  <2> QED BY <2>1, <2>2 DEF Owning, Waits, Done
<1>11. ASSUME NEW c \in Callers, NEW k \in Tasks, Schedule(c, k)
       PROVE  Owning'
  <2>1. /\ k \notin canceled
        /\ \A j \in Tasks \ {k} : mem'[j] = mem[j]
    BY <1>inv, <1>11 DEF TypeOK, Schedule, Listing
  <2> QED BY <1>11, <2>1 DEF Schedule, Owning, Waits, Frees, Done
<1>12. ASSUME NEW c \in Callers, NEW k \in Tasks, CancelCall(c, k)
       PROVE  Owning'
  <2>1. ~Done /\ k \notin canceled /\ call[c] = "out"
    BY <1>inv, <1>12, CallsBeforeTheEnd DEF CancelCall, CanCall, Handling
  <2>2. /\ call'[c] = "enter" /\ ctask'[c] = k
        /\ \A d \in Callers \ {c} : call'[d] = call[d] /\ ctask'[d] = ctask[d]
        /\ UNCHANGED <<mem, alltasks, canceled, dispatched, waiter, worker, wtask, purging>>
    BY <1>inv, <1>12 DEF TypeOK, CancelCall
  <2>3. \A j : /\ Frees(j) => Frees(j)'
               /\ \A d \in Callers : Waits(d, j) => Waits(d, j)'
    BY <2>1, <2>2 DEF Frees, Waits
  <2> QED BY <2>1, <2>2, <2>3 DEF Owning
<1>13. ASSUME NEW c \in Callers, Enter(c)
       PROVE  Owning'
  <2> DEFINE k == ctask[c]
             idle == k \notin canceled /\ k \in Idle
             await == ~idle /\ k \in dispatched /\ runner[k] # c
  <2>1. /\ call[c] = "enter" /\ k \in Tasks /\ k \notin canceled /\ k \in alltasks
        /\ \A d \in Callers : k \notin purging[d]
        /\ \A d \in Callers \ {c} : call[d] \in Working => ctask[d] # k
        /\ k \notin Idle => k \in dispatched
    BY <1>inv, <1>13 DEF Enter, Owning, Handling, Hands, Working, Knowing, Listing
  <2>2. /\ alltasks' = (IF idle THEN alltasks \ {k} ELSE alltasks)
        /\ canceled' = (IF idle THEN canceled ELSE canceled \cup {k})
        /\ waiter' = (IF await THEN waiter \cup {k} ELSE waiter)
        /\ call'[c] = (IF idle THEN "free" ELSE IF await THEN "wait" ELSE "next")
        /\ \A d \in Callers \ {c} : call'[d] = call[d]
        /\ UNCHANGED <<mem, dispatched, worker, wtask, ctask, purging>>
    BY <1>inv, <1>13 DEF TypeOK, Enter, Idle
  <2>3. runner[k] = c => k \notin waiter
    BY <1>inv, <2>1, DistinctAssumption DEF TypeOK, Knowing, Callers
  <2>4. idle => k \notin dispatched
    BY <1>inv DEF Listing
  <2>5. Done' = Done
    BY <1>callers, <2>1, <2>2 DEF Done
  <2>6. \A j : /\ Frees(j) => Frees(j)'
               /\ \A d \in Callers : Waits(d, j) => Waits(d, j)'
    BY <2>1, <2>2 DEF Frees, Waits
  <2>7. /\ idle => Frees(k)'
        /\ await => Waits(c, k)'
    BY <2>2 DEF Frees, Waits
  <2>8. \A d \in Callers : purging'[d] \cap canceled' = {}
    BY <2>1, <2>2 DEF Owning
  <2>9. \A d \in Callers : call'[d] = "enter" => ctask'[d] \notin canceled'
    BY <2>1, <2>2 DEF Owning, Working
  <2>10. \A j \in alltasks' \cap canceled' \cap waiter' : \E d \in Callers : Waits(d, j)'
    <3>1. CASE await
      BY <2>2, <2>6, <2>7, <3>1 DEF Owning
    <3>2. CASE ~await
      BY <2>1, <2>2, <2>3, <2>6, <3>2 DEF Owning
    <3> QED BY <3>1, <3>2
  <2>11. ~Done' => dispatched' \subseteq alltasks'
    BY <2>2, <2>4, <2>5 DEF Owning
  <2>12. \A j \in Tasks \ alltasks' : mem'[j] = "live" => Frees(j)'
    BY <2>2, <2>6, <2>7 DEF Owning
  <2> QED BY <2>8, <2>9, <2>10, <2>11, <2>12 DEF Owning
<1>14. ASSUME NEW c \in Callers, WaitOver(c)
       PROVE  Owning'
  <2>1. /\ call'[c] = "free" /\ call[c] = "wait" /\ ctask[c] \notin dispatched
        /\ \A d \in Callers \ {c} : call'[d] = call[d]
        /\ UNCHANGED <<mem, alltasks, canceled, dispatched, waiter, worker, wtask, ctask, purging>>
    BY <1>inv, <1>14 DEF TypeOK, WaitOver
  <2>2. ctask[c] \notin alltasks
    BY <1>inv, <2>1 DEF Listing, Knowing
  <2>3. /\ \A j : Frees(j) => Frees(j)'
        /\ \A j \in alltasks : \A d \in Callers : Waits(d, j) => Waits(d, j)'
    BY <2>1, <2>2 DEF Frees, Waits
  <2>4. Done' = Done
    BY <1>callers, <2>1 DEF Done
  <2> QED BY <2>1, <2>3, <2>4 DEF Owning
<1>15. ASSUME NEW c \in Callers, GiveUp(c)
       PROVE  Owning'
  <2>1. /\ call'[c] = "next" /\ call[c] = "wait" /\ ctask[c] \in dispatched
        /\ \A d \in Callers \ {c} : call'[d] = call[d]
        /\ waiter' = waiter \ {ctask[c]}
        /\ UNCHANGED <<mem, alltasks, canceled, dispatched, worker, wtask, ctask, purging>>
    BY <1>inv, <1>15 DEF TypeOK, GiveUp
  <2>2. Done' = Done
    BY <1>callers, <2>1 DEF Done
  <2>3. ~Done
    BY <1>inv, <1>callers, <1>15, DistinctAssumption
       DEF GiveUp, Ordering, Done, Ending, Callers
  <2>4. ctask[c] \in alltasks
    BY <2>1, <2>3 DEF Owning
  <2>5. \A j : j # ctask[c] => /\ Frees(j) => Frees(j)'
                               /\ \A d \in Callers : Waits(d, j) => Waits(d, j)'
    BY <2>1 DEF Frees, Waits
  <2> QED BY <2>1, <2>2, <2>4, <2>5 DEF Owning
<1>16. ASSUME NEW c \in Callers, CancelFree(c)
       PROVE  Owning'
  <2>1. /\ call'[c] = "next" /\ call[c] = "free"
        /\ \A d \in Callers \ {c} : call'[d] = call[d]
        /\ \A j \in Tasks : mem'[j] = IF j = ctask[c] THEN "freed" ELSE mem[j]
        /\ UNCHANGED <<alltasks, canceled, dispatched, waiter, worker, wtask, ctask, purging>>
    BY <1>inv, <1>16 DEF TypeOK, CancelFree
  <2>2. Done' = Done
    BY <1>callers, <2>1 DEF Done
  <2>3. \A j : /\ j # ctask[c] /\ Frees(j) => Frees(j)'
               /\ \A d \in Callers : Waits(d, j) => Waits(d, j)'
    BY <2>1 DEF Frees, Waits
  <2> QED BY <2>1, <2>2, <2>3 DEF Owning
<1>17. ASSUME NEW c \in Callers, NextOfPurge(c)
       PROVE  Owning'
  <2>1. /\ call[c] = "next" /\ call'[c] \notin {"wait", "free", "done"}
        /\ \A d \in Callers \ {c} :
             call'[d] = call[d] /\ ctask'[d] = ctask[d] /\ purging'[d] = purging[d]
        /\ purging'[c] \subseteq purging[c]
        /\ call'[c] = "enter" => ctask'[c] \in purging[c]
        /\ UNCHANGED <<mem, alltasks, canceled, dispatched, waiter, worker, wtask>>
    BY <1>inv, <1>17 DEF TypeOK, NextOfPurge
  <2>2. Done' = Done
    BY <1>callers, <2>1 DEF Done
  <2>3. \A j : /\ Frees(j) => Frees(j)'
               /\ \A d \in Callers : Waits(d, j) => Waits(d, j)'
    BY <2>1 DEF Frees, Waits
  <2> QED BY <2>1, <2>2, <2>3 DEF Owning
<1>18. ASSUME NEW c \in Callers, Stop(c) \/ JoinLoop(c)
       PROVE  Owning'
  <2>1. /\ call[c] \in {"stop", "join"} /\ call'[c] \in {"join", "pool"}
        /\ \A d \in Callers \ {c} : call'[d] = call[d]
        /\ UNCHANGED <<mem, alltasks, canceled, dispatched, waiter, worker, wtask, ctask, purging>>
    BY <1>inv, <1>18 DEF TypeOK, Stop, JoinLoop
  <2>2. Done' = Done
    BY <1>callers, <2>1 DEF Done
  <2>3. \A j : /\ Frees(j) => Frees(j)'
               /\ \A d \in Callers : Waits(d, j) => Waits(d, j)'
    BY <2>1 DEF Frees, Waits
  <2> QED BY <2>1, <2>2, <2>3 DEF Owning
<1>19. ASSUME NEW c \in Callers, JoinPool(c)
       PROVE  Owning'
  <2>1. /\ call[c] = "pool" /\ call'[c] = "done"
        /\ \A d \in Callers \ {c} : call'[d] = call[d]
        /\ alltasks' = {}
        /\ \A j \in Tasks : mem'[j] = IF j \in alltasks THEN "freed" ELSE mem[j]
        /\ UNCHANGED <<canceled, dispatched, waiter, worker, wtask, ctask, purging>>
    BY <1>inv, <1>19 DEF TypeOK, JoinPool
  <2>2. c \in Clients
    BY <1>inv, <2>1, DistinctAssumption DEF TypeOK, Ordering, Ending, Callers
  <2>3. Done'
    BY <2>1, <2>2 DEF Done
  <2>4. \A j : Frees(j) => Frees(j)'
    BY <2>1 DEF Frees
  <2> QED BY <2>1, <2>3, <2>4 DEF Owning
<1>20. ASSUME NEW c \in Clients, Purge(c)
       PROVE  Owning'
  <2>1. alltasks \cap canceled = {}
    BY <1>inv, <1>20 DEF Purge, PurgeAllowed, Listing
  <2>2. /\ call[c] = "out" /\ call'[c] = "next"
        /\ \A d \in Callers \ {c} : call'[d] = call[d] /\ purging'[d] = purging[d]
        /\ purging'[c] = alltasks
        /\ waiter' = waiter \cup alltasks
        /\ UNCHANGED <<mem, alltasks, canceled, dispatched, worker, wtask, ctask>>
    BY <1>inv, <1>callers, <1>20 DEF TypeOK, Purge, CanCall, MarkSnapshot, Snapshot
  <2>3. Done' = Done
    BY <1>callers, <2>2 DEF Done
  <2>4. \A j : Frees(j) => Frees(j)'
    BY <2>2 DEF Frees
  <2> QED BY <2>1, <2>2, <2>3, <2>4 DEF Owning
<1>21. CASE UNCHANGED vars
  BY <1>21, OwningKept DEF vars
<1> QED
  BY <1>1, <1>2, <1>3, <1>4, <1>5, <1>6, <1>7, <1>8, <1>9, <1>10, <1>11,
     <1>12, <1>13, <1>14, <1>15, <1>16, <1>17, <1>18, <1>19, <1>20, <1>21
     DEF Next, WorkerStep, CallStep

\* Unless Purge meets a cancelled task that is still running, whose waiting
\* mark it sets for nobody, TimerDestroy leaves no task allocated.
THEOREM TimerNoLeak ==
  ASSUME QuietPurge
  PROVE  Spec => []NoLeak
<1>1. Init => Owning
  BY DEF Init, Owning, Waits, Frees
<1>2. IInv /\ Owning /\ [Next]_vars => Owning'
  BY QuietPurge, NextOwning
<1>3. Spec => []Owning
  BY <1>1, <1>2, Invariance, PTL DEF Spec, Safety
<1>4. ASSUME IInv, Owning PROVE NoLeak
  <2> SUFFICES ASSUME NEW c \in Clients, call[c] = "done",
                      NEW k \in Tasks, mem[k] = "live"
               PROVE  FALSE
    BY DEF NoLeak
  <2>1. Frees(k) /\ \A w \in Workers : worker[w] = "gone"
    BY <1>4 DEF IInv, Ordering, Owning, Done
  <2>2. PICK d \in Callers : call[d] \in {"wait", "free"} /\ ctask[d] = k
    BY <2>1 DEF Frees
  <2>3. destroyer = c /\ d # c
    BY <1>4, <2>2 DEF IInv, Ordering, Ending, Callers
  <2> QED BY <1>4, <2>1, <2>2, <2>3, DistinctAssumption
          DEF IInv, Ordering, Callers
<1> QED BY <1>3, <1>4, Invariance, PTL
==============================================================================
