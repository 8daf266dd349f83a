-------------------------------- MODULE Timer --------------------------------
(***************************************************************************)
(* CMUTIL_Timer of src/concurrent.c: tasks ordered by their next run, a    *)
(* main loop that hands elapsed ones to a thread pool, workers that run    *)
(* them, and callers that cancel tasks, purge the timer or destroy it.     *)
(* The subject is the ownership of a task's memory, which passes between   *)
(* the timer, a worker and a waiting canceller.                            *)
(*                                                                         *)
(* Every section of timer->mutex is one step.  When a task elapses is data *)
(* and abstracted: any scheduled task may.  The thread pool is a queue and *)
(* its workers; ThreadPool.tla shows that it runs each queued job.         *)
(*                                                                         *)
(* Callers are clients and running procedures.  They follow the discipline *)
(* the API needs: a task is cancelled once, not after a Purge, and Purge   *)
(* and Destroy are called by a client while nobody is inside a call.       *)
(***************************************************************************)
EXTENDS Naturals, Sequences, FiniteSets, SequencesExt

CONSTANTS
  Clients,        \* threads that use the timer
  Workers,        \* the threads of timer->tpool
  Tasks,          \* the tasks that can be created
  Nothing,        \* no task, no thread
  SlowProcs,      \* a task may outlast CMUTIL_TIMER_CANCEL_WAIT
  QuietPurge      \* no Purge while a cancelled task is still running

ASSUME DistinctAssumption ==
  /\ Clients \cap Workers = {}
  /\ Nothing \notin Clients \cup Workers \cup Tasks
ASSUME BooleanAssumption == {SlowProcs, QuietPurge} \subseteq BOOLEAN

Callers == Clients \cup Workers

VARIABLES
  mem,            \* the state of each task's memory
  repeating,      \* tasks of type TimerTask_Repeat
  scheduled, finished, alltasks,  \* the arrays of the timer
  canceled, dispatched, waiter,   \* tasks with that flag set
  runner,         \* the worker that executes a task
  queue,          \* jobs of timer->tpool
  mainloop,       \* where the main loop is
  worker, wtask, addedto,         \* place, task and local of TimerWorker
  call, ctask,    \* place and task of a caller in Cancel, Purge or Destroy
  purging,        \* the rest of its snapshot
  destroyer,      \* the client that destroys the timer
  running, pooling,               \* timer->running, the pool's is_running
  held,           \* tasks whose handle a caller may still use
  silenced        \* tasks a cancel that has not given up returned for

arrays == <<scheduled, finished, alltasks>>
flags == <<canceled, dispatched, waiter, runner>>
working == <<worker, wtask, addedto>>
calling == <<call, ctask, purging>>
life == <<destroyer, running, pooling>>
ghosts == <<held, silenced>>
vars == <<mem, repeating, arrays, flags, queue, mainloop, working, calling,
          life, ghosts>>

Init ==
  /\ mem = [k \in Tasks |-> "none"]
  /\ repeating = {}
  /\ scheduled = {} /\ finished = {} /\ alltasks = {}
  /\ canceled = {} /\ dispatched = {} /\ waiter = {}
  /\ runner = [k \in Tasks |-> Nothing]
  /\ queue = << >>
  /\ mainloop = "check"
  /\ worker = [w \in Workers |-> "idle"]
  /\ wtask = [w \in Workers |-> Nothing]
  /\ addedto = [w \in Workers |-> "none"]
  /\ call = [c \in Callers |-> "out"]
  /\ ctask = [c \in Callers |-> Nothing]
  /\ purging = [c \in Callers |-> {}]
  /\ destroyer = Nothing
  /\ running = TRUE /\ pooling = TRUE
  /\ held = {} /\ silenced = {}

------------------------------------------------------------------------------
\* A caller can call: a client until Destroy, a worker while it runs a
\* procedure.
CanCall(c) ==
  /\ call[c] = "out"
  /\ IF c \in Clients THEN destroyer = Nothing ELSE worker[c] = "proc"

Free(k) == mem' = [mem EXCEPT ![k] = "freed"]
Call(c, place) == call' = [call EXCEPT ![c] = place]
Worker(w, place) == worker' = [worker EXCEPT ![w] = place]

\* The four Schedule functions.
Schedule(c, k) ==
  /\ CanCall(c)
  /\ mem[k] = "none"
  /\ mem' = [mem EXCEPT ![k] = "live"]
  /\ \E r \in BOOLEAN : repeating' = IF r THEN repeating \cup {k} ELSE repeating
  /\ scheduled' = scheduled \cup {k}
  /\ alltasks' = alltasks \cup {k}
  /\ held' = held \cup {k}
  /\ UNCHANGED <<finished, flags, queue, mainloop, working, calling, life, silenced>>

------------------------------------------------------------------------------
(* TimerMainLoop *)

LoopCheck ==
  /\ mainloop = "check"
  /\ mainloop' = IF running THEN "scan" ELSE "gone"
  /\ UNCHANGED <<mem, repeating, arrays, flags, queue, working, calling, life, ghosts>>

\* A wrong variant of Dispatch: the task is not marked before the handover.
DispatchUnmarked(k) ==
  /\ mainloop = "scan"
  /\ k \in scheduled
  /\ scheduled' = scheduled \ {k}
  /\ queue' = Append(queue, k)
  /\ UNCHANGED <<mem, repeating, finished, alltasks, flags, mainloop, working,
                 calling, life, ghosts>>

\* One elapsed task of the section that hands them over.
Dispatch(k) ==
  /\ mainloop = "scan"
  /\ k \in scheduled
  /\ scheduled' = scheduled \ {k}
  /\ dispatched' = dispatched \cup {k}
  /\ queue' = Append(queue, k)
  /\ UNCHANGED <<mem, repeating, finished, alltasks, canceled, waiter, runner,
                 mainloop, working, calling, life, ghosts>>

LoopSleep ==
  /\ mainloop = "scan"
  /\ mainloop' = "check"
  /\ UNCHANGED <<mem, repeating, arrays, flags, queue, working, calling, life, ghosts>>

------------------------------------------------------------------------------
(* TimerWorker, a job of the pool *)

Take(w) ==
  /\ worker[w] = "idle"
  /\ pooling /\ queue # << >>
  /\ queue' = Tail(queue)
  /\ wtask' = [wtask EXCEPT ![w] = Head(queue)]
  /\ Worker(w, "start")
  /\ UNCHANGED <<mem, repeating, arrays, flags, mainloop, addedto, calling, life, ghosts>>

\* A thread of a pool that is destroyed leaves; its queue is dropped.
Leave(w) ==
  /\ worker[w] = "idle"
  /\ ~pooling
  /\ Worker(w, "gone")
  /\ UNCHANGED <<mem, repeating, arrays, flags, queue, mainloop, wtask, addedto,
                 calling, life, ghosts>>

Start(w) ==
  /\ worker[w] = "start"
  /\ runner' = [runner EXCEPT ![wtask[w]] = w]
  /\ Worker(w, "test")
  /\ UNCHANGED <<mem, repeating, arrays, canceled, dispatched, waiter, queue,
                 mainloop, wtask, addedto, calling, life, ghosts>>

\* itask->canceled is read without the mutex, before the procedure ...
Test(w) ==
  /\ worker[w] = "test"
  /\ Worker(w, IF wtask[w] \in canceled THEN "report" ELSE "proc")
  /\ addedto' = [addedto EXCEPT ![w] = "none"]
  /\ UNCHANGED <<mem, repeating, arrays, flags, queue, mainloop, wtask, calling,
                 life, ghosts>>

\* ... and after it, to choose the array the task goes to.
Return(w) ==
  /\ worker[w] = "proc"
  /\ call[w] = "out"
  /\ Worker(w, "report")
  /\ addedto' = [addedto EXCEPT ![w] =
       IF wtask[w] \in repeating \ canceled THEN "scheduled" ELSE "finished"]
  /\ UNCHANGED <<mem, repeating, arrays, flags, queue, mainloop, wtask, calling,
                 life, ghosts>>

\* A wrong variant of WorkerFrees: the waiting canceller is not looked at.
FreesAlways(k) == TRUE

\* A waiting canceller takes over the ownership of a cancelled task.
WorkerFrees(k) == k \notin waiter

\* The last section of TimerWorker.
Report(w) ==
  /\ worker[w] = "report"
  /\ LET k == wtask[w] IN
       /\ IF k \in canceled
            THEN /\ alltasks' = alltasks \ {k}
                 /\ Worker(w, IF WorkerFrees(k) THEN "free" ELSE "idle")
                 /\ UNCHANGED <<scheduled, finished>>
            ELSE /\ scheduled' = IF addedto[w] = "scheduled"
                                   THEN scheduled \cup {k} ELSE scheduled
                 /\ finished' = IF addedto[w] = "finished"
                                   THEN finished \cup {k} ELSE finished
                 /\ Worker(w, "idle")
                 /\ UNCHANGED alltasks
       /\ runner' = [runner EXCEPT ![k] = Nothing]
       /\ dispatched' = dispatched \ {k}
  /\ UNCHANGED <<mem, repeating, canceled, waiter, queue, mainloop, wtask,
                 addedto, calling, life, ghosts>>

WorkerFree(w) ==
  /\ worker[w] = "free"
  /\ Free(wtask[w])
  /\ Worker(w, "idle")
  /\ UNCHANGED <<repeating, arrays, flags, queue, mainloop, wtask, addedto,
                 calling, life, ghosts>>

WorkerStep(w) ==
  \/ Take(w) \/ Leave(w) \/ Start(w) \/ Test(w)
  \/ Return(w) \/ Report(w) \/ WorkerFree(w)

------------------------------------------------------------------------------
(* TimerTaskCancelPrivate *)

CancelCall(c, k) ==
  /\ CanCall(c)
  /\ k \in held
  /\ held' = held \ {k}
  /\ ctask' = [ctask EXCEPT ![c] = k]
  /\ Call(c, "enter")
  /\ UNCHANGED <<mem, repeating, arrays, flags, queue, mainloop, working,
                 purging, life, silenced>>

\* A wrong variant of Enter: it marks a dispatched task and does not wait.
CancelNoWait(c) ==
  /\ call[c] = "enter"
  /\ LET k == ctask[c]
         idle == k \notin canceled /\ k \in scheduled \cup finished IN
       /\ scheduled' = IF idle THEN scheduled \ {k} ELSE scheduled
       /\ finished' = IF idle THEN finished \ {k} ELSE finished
       /\ alltasks' = IF idle THEN alltasks \ {k} ELSE alltasks
       /\ canceled' = IF idle THEN canceled ELSE canceled \cup {k}
       /\ silenced' = silenced \cup {k}
       /\ Call(c, IF idle THEN "free" ELSE "next")
  /\ UNCHANGED <<mem, repeating, dispatched, waiter, runner, queue, mainloop,
                 working, ctask, purging, life, held>>

\* The first section: an idle task is taken out and freed, one that is on its
\* way is marked, and waited for unless the caller is its own runner.
Enter(c) ==
  /\ call[c] = "enter"
  /\ LET k == ctask[c]
         idle == k \notin canceled /\ k \in scheduled \cup finished
         await == ~idle /\ k \in dispatched /\ runner[k] # c IN
       /\ scheduled' = IF idle THEN scheduled \ {k} ELSE scheduled
       /\ finished' = IF idle THEN finished \ {k} ELSE finished
       /\ alltasks' = IF idle THEN alltasks \ {k} ELSE alltasks
       /\ canceled' = IF idle THEN canceled ELSE canceled \cup {k}
       /\ waiter' = IF await THEN waiter \cup {k} ELSE waiter
       /\ silenced' = IF idle THEN silenced \cup {k} ELSE silenced
       /\ Call(c, IF idle THEN "free" ELSE IF await THEN "wait" ELSE "next")
  /\ UNCHANGED <<mem, repeating, dispatched, runner, queue, mainloop, working,
                 ctask, purging, life, held>>

\* The poll that finds the worker finished.
WaitOver(c) ==
  /\ call[c] = "wait"
  /\ ctask[c] \notin dispatched
  /\ silenced' = silenced \cup {ctask[c]}
  /\ Call(c, "free")
  /\ UNCHANGED <<mem, repeating, arrays, flags, queue, mainloop, working, ctask,
                 purging, life, held>>

\* Wrong variants of GiveUp: the ownership stays with the canceller that
\* left, and a canceller that never leaves.
GiveUpKeepsWaiter(c) ==
  /\ SlowProcs
  /\ call[c] = "wait"
  /\ ctask[c] \in dispatched
  /\ Call(c, "next")
  /\ UNCHANGED <<mem, repeating, arrays, flags, queue, mainloop, working, ctask,
                 purging, life, ghosts>>
GiveUpNever(c) == FALSE /\ UNCHANGED vars

\* The last poll, after CMUTIL_TIMER_CANCEL_WAIT of them.
GiveUp(c) ==
  /\ SlowProcs
  /\ call[c] = "wait"
  /\ ctask[c] \in dispatched
  /\ waiter' = waiter \ {ctask[c]}
  /\ Call(c, "next")
  /\ UNCHANGED <<mem, repeating, arrays, canceled, dispatched, runner, queue,
                 mainloop, working, ctask, purging, life, ghosts>>

CancelFree(c) ==
  /\ call[c] = "free"
  /\ Free(ctask[c])
  /\ Call(c, "next")
  /\ UNCHANGED <<repeating, arrays, flags, queue, mainloop, working, ctask,
                 purging, life, ghosts>>

\* The loop of Purge, and the end of a Cancel, which has no snapshot.
NextOfPurge(c) ==
  /\ call[c] = "next"
  /\ IF purging[c] # {}
       THEN \E k \in purging[c] :
              /\ ctask' = [ctask EXCEPT ![c] = k]
              /\ purging' = [purging EXCEPT ![c] = @ \ {k}]
              /\ Call(c, "enter")
       ELSE /\ ctask' = [ctask EXCEPT ![c] = Nothing]
            /\ Call(c, IF destroyer = c THEN "stop" ELSE "out")
            /\ UNCHANGED purging
  /\ UNCHANGED <<mem, repeating, arrays, flags, queue, mainloop, working, life, ghosts>>

------------------------------------------------------------------------------
(* TimerPurge and TimerDestroy *)

PurgeAllowed ==
  /\ \A c \in Callers : call[c] = "out"
  /\ QuietPurge => canceled \cap dispatched = {}

Snapshot == alltasks
MarkSnapshot == waiter' = waiter \cup alltasks

\* The section that takes the snapshot; Destroy starts with it.
Purge(c) ==
  /\ CanCall(c)
  /\ PurgeAllowed
  /\ \E d \in {Nothing, c} : destroyer' = d
  /\ purging' = [purging EXCEPT ![c] = Snapshot]
  /\ MarkSnapshot
  /\ held' = held \ alltasks
  /\ Call(c, "next")
  /\ UNCHANGED <<mem, repeating, arrays, canceled, dispatched, runner, queue,
                 mainloop, working, ctask, running, pooling, silenced>>

Stop(c) ==
  /\ call[c] = "stop"
  /\ running' = FALSE
  /\ Call(c, "join")
  /\ UNCHANGED <<mem, repeating, arrays, flags, queue, mainloop, working, ctask,
                 purging, destroyer, pooling, ghosts>>

JoinLoop(c) ==
  /\ call[c] = "join"
  /\ mainloop = "gone"
  /\ pooling' = FALSE
  /\ Call(c, "pool")
  /\ UNCHANGED <<mem, repeating, arrays, flags, queue, mainloop, working, ctask,
                 purging, destroyer, running, ghosts>>

\* The pool's threads are joined, its queue is dropped, and the tasks that
\* are left are freed with the timer.
JoinPool(c) ==
  /\ call[c] = "pool"
  /\ \A w \in Workers : worker[w] = "gone"
  /\ mem' = [k \in Tasks |-> IF k \in alltasks THEN "freed" ELSE mem[k]]
  /\ scheduled' = {} /\ finished' = {} /\ alltasks' = {}
  /\ queue' = << >>
  /\ Call(c, "done")
  /\ UNCHANGED <<repeating, flags, mainloop, working, ctask, purging, life, ghosts>>

CallStep(c) ==
  \/ Enter(c) \/ WaitOver(c) \/ GiveUp(c) \/ CancelFree(c) \/ NextOfPurge(c)
  \/ Stop(c) \/ JoinLoop(c) \/ JoinPool(c)

Next ==
  \/ LoopCheck \/ LoopSleep
  \/ \E k \in Tasks : Dispatch(k)
  \/ \E w \in Workers : WorkerStep(w)
  \/ \E c \in Callers :
       \/ CallStep(c)
       \/ \E k \in Tasks : Schedule(c, k) \/ CancelCall(c, k)
  \/ \E c \in Clients : Purge(c)

\* The main loop goes round, every thread inside the object proceeds, and
\* procedures return once the calls they make do.  Nothing makes a task
\* elapse.
Fairness ==
  /\ WF_vars(LoopCheck) /\ WF_vars(LoopSleep)
  /\ \A w \in Workers : WF_vars(WorkerStep(w))
  /\ \A c \in Callers : WF_vars(CallStep(c))

Safety == Init /\ [][Next]_vars

Spec == Safety /\ Fairness

------------------------------------------------------------------------------
TypeOK ==
  /\ mem \in [Tasks -> {"none", "live", "freed"}]
  /\ repeating \subseteq Tasks
  /\ scheduled \subseteq Tasks /\ finished \subseteq Tasks /\ alltasks \subseteq Tasks
  /\ canceled \subseteq Tasks /\ dispatched \subseteq Tasks /\ waiter \subseteq Tasks
  /\ held \subseteq Tasks /\ silenced \subseteq Tasks
  /\ runner \in [Tasks -> Workers \cup {Nothing}]
  /\ queue \in Seq(Tasks)
  /\ mainloop \in {"check", "scan", "gone"}
  /\ worker \in [Workers -> {"idle", "start", "test", "proc", "report", "free", "gone"}]
  /\ wtask \in [Workers -> Tasks \cup {Nothing}]
  /\ addedto \in [Workers -> {"none", "scheduled", "finished"}]
  /\ call \in [Callers -> {"out", "enter", "wait", "free", "next", "stop",
                           "join", "pool", "done"}]
  /\ ctask \in [Callers -> Tasks \cup {Nothing}]
  /\ purging \in [Callers -> SUBSET Tasks]
  /\ destroyer \in Clients \cup {Nothing}
  /\ running \in BOOLEAN /\ pooling \in BOOLEAN

\* The tasks some step to come may still touch: those in the arrays and the
\* queue, the one a worker is executing, the one a call works on and the rest
\* of a snapshot.
InUse ==
  scheduled \cup finished \cup alltasks \cup ToSet(queue)
  \cup {wtask[w] : w \in {v \in Workers : worker[v] \notin {"idle", "gone"}}}
  \cup {ctask[c] : c \in {d \in Callers : call[d] \in {"enter", "wait", "free"}}}
  \cup UNION {purging[c] : c \in Callers}

\* A task's memory outlives every use of it: nobody reads, lists, runs or
\* frees a task that a worker or a canceller has freed.
NoUseAfterFree == \A k \in InUse : mem[k] = "live"

\* One owner frees a task: the worker, a canceller, never both.
NoDoubleFree ==
  \A k \in Tasks :
    Cardinality({w \in Workers : worker[w] = "free" /\ wtask[w] = k}
                \cup {c \in Callers : call[c] = "free" /\ ctask[c] = k}) <= 1

\* The memory of a task has one owner at a time, from its allocation to the
\* last use of it by a worker, a canceller or a purge.
MemorySafe == TypeOK /\ NoUseAfterFree /\ NoDoubleFree

\* When the timer is gone, so is every task: whatever happened, somebody
\* owned it.
NoLeak ==
  (\E c \in Clients : call[c] = "done") => \A k \in Tasks : mem[k] # "live"

\* When Cancel, or Purge for this task, returned without giving up, the
\* procedure is not running and will never run again.
SilentAfterCancel ==
  \A w \in Workers : worker[w] = "proc" => wtask[w] \notin silenced

\* A task that is not cancelled is in exactly one place: scheduled, finished,
\* or on its way through the pool with dispatched set.
OnePlace ==
  \A k \in alltasks \ canceled :
    Cardinality({s \in {"scheduled", "finished", "dispatched"} :
                   \/ s = "scheduled" /\ k \in scheduled
                   \/ s = "finished" /\ k \in finished
                   \/ s = "dispatched" /\ k \in dispatched}) = 1

\* Cancel, Purge and Destroy return, even if two procedures cancel each other
\* or a task is queued behind the one that cancels it.
CallsReturn == \A c \in Callers : call[c] # "out" ~> call[c] \in {"out", "done"}
==============================================================================
