------------------------------ MODULE ThreadPool ------------------------------
(***************************************************************************)
(* CMUTIL_ThreadPool of src/concurrent.c: a job queue, a semaphore with    *)
(* one permit per queued job, a fixed or growing set of worker threads,    *)
(* and a manual-reset event (idle_cond, see Cond.tla) set when the last    *)
(* job is done.  Every section of the code under tmtx or qmtx is one step; *)
(* is_running is read without a lock, at each place the code reads it.     *)
(*                                                                         *)
(* The callers follow the discipline the API needs: Destroy is called once *)
(* nobody else calls or waits, and a growing pool is destroyed only when   *)
(* its jobs submit no more jobs.  Only clients call Wait.                  *)
(***************************************************************************)
EXTENDS Integers, Sequences, FiniteSets

CONSTANTS
  Clients,        \* threads outside the pool that call it
  Jobs,           \* the jobs they, and running jobs, may submit
  FixedSizes,     \* pool sizes of the pools that do not grow
  MaxWorkers,     \* bound of the model: worker threads that can exist
  NoJob

ASSUME SizeAssumption ==
  /\ FixedSizes \subseteq 1 .. MaxWorkers
  /\ MaxWorkers \in Nat \ {0}
ASSUME JobsAssumption == IsFiniteSet(Jobs) /\ NoJob \notin Jobs
ASSUME ClientsAssumption == IsFiniteSet(Clients)

Workers == 1 .. MaxWorkers
ASSUME CallersAssumption == Clients \cap Workers = {}
Callers == Clients \cup Workers

VARIABLES
  auto_increment, \* pool->auto_increment, fixed by ThreadPoolCreate
  is_running,     \* pool->is_running
  pool_size,      \* pool->pool_size
  idle_count,     \* pool->idle_count
  jobq,           \* pool->jobq
  feed_sem,       \* permits of pool->feed_sem
  idle_cond,      \* pool->idle_cond is set
  worker,         \* where each worker is in ThreadPoolProc
  job,            \* the job a worker carries
  execute,        \* where each caller is in Execute
  wait,           \* where each client is in Wait
  destroy,        \* where Destroy is
  posted,         \* permits Destroy has released so far
  submitted,      \* jobs that have been queued
  done,           \* jobs whose callback has returned
  awaited         \* for each client in Wait, the jobs it has to outlast

poolvars == <<auto_increment, is_running, pool_size>>
queue == <<jobq, feed_sem>>
idle == <<idle_count, idle_cond>>
ghosts == <<submitted, done, awaited>>
destroying == <<destroy, posted>>
vars == <<poolvars, queue, idle, worker, job, execute, wait, destroying, ghosts>>

WorkerPlaces == {"none", "check", "acquire", "recheck", "fetch", "run",
                 "finish", "gone"}

\* "post" / "postgrow"  the job is queued, its permit is not released yet; the
\*                      second found no idle thread in a growing pool
\* "grow"               about to create a thread
ExecutePlaces == {"out", "post", "postgrow", "grow"}

Init ==
  /\ auto_increment \in BOOLEAN
  /\ is_running = TRUE
  /\ pool_size \in IF auto_increment THEN {1} ELSE FixedSizes
  /\ idle_count = pool_size
  /\ jobq = << >>
  /\ feed_sem = 0
  /\ idle_cond = FALSE
  /\ worker = [w \in Workers |-> IF w <= pool_size THEN "check" ELSE "none"]
  /\ job = [w \in Workers |-> NoJob]
  /\ execute = [c \in Callers |-> "out"]
  /\ wait = [c \in Clients |-> "out"]
  /\ destroy = "none"
  /\ posted = 0
  /\ submitted = {}
  /\ done = {}
  /\ awaited = [c \in Clients |-> {}]

------------------------------------------------------------------------------
(* ThreadPoolProc *)

Goto(w, place) == worker' = [worker EXCEPT ![w] = place]
Busy == {w \in Workers : worker[w] \in {"run", "finish"}}
Fetching == {w \in Workers : worker[w] \in {"recheck", "fetch"}}

\* Wrong variants of steps: a worker that never announces the end, and
\* one that leaves when it has waited in vain.
FinishNeverSets(w) ==
  /\ worker[w] = "finish"
  /\ idle_count' = idle_count + 1
  /\ job' = [job EXCEPT ![w] = NoJob]
  /\ Goto(w, "check")
  /\ UNCHANGED <<poolvars, queue, idle_cond, execute, wait, destroying, ghosts>>
TimeoutLeaves(w) ==
  /\ worker[w] = "acquire"
  /\ feed_sem = 0
  /\ Goto(w, "gone")
  /\ UNCHANGED <<poolvars, queue, idle, job, execute, wait, destroying, ghosts>>

\* The loop condition.
Check(w) ==
  /\ worker[w] = "check"
  /\ Goto(w, IF is_running THEN "acquire" ELSE "gone")
  /\ UNCHANGED <<poolvars, queue, idle, job, execute, wait, destroying, ghosts>>

Acquire(w) ==
  /\ worker[w] = "acquire"
  /\ feed_sem > 0
  /\ feed_sem' = feed_sem - 1
  /\ Goto(w, "recheck")
  /\ UNCHANGED <<poolvars, jobq, idle, job, execute, wait, destroying, ghosts>>

\* Acquire gives up after a second without a permit.
AcquireTimeout(w) ==
  /\ worker[w] = "acquire"
  /\ feed_sem = 0
  /\ Goto(w, "check")
  /\ UNCHANGED <<poolvars, queue, idle, job, execute, wait, destroying, ghosts>>

Recheck(w) ==
  /\ worker[w] = "recheck"
  /\ Goto(w, IF is_running THEN "fetch" ELSE "gone")
  /\ UNCHANGED <<poolvars, queue, idle, job, execute, wait, destroying, ghosts>>

Fetch(w) ==
  /\ worker[w] = "fetch"
  /\ \/ /\ jobq = << >>
        /\ Goto(w, "check")
        /\ UNCHANGED <<jobq, job>>
     \/ /\ jobq # << >>
        /\ jobq' = Tail(jobq)
        /\ job' = [job EXCEPT ![w] = Head(jobq)]
        /\ Goto(w, "run")
  /\ UNCHANGED <<poolvars, feed_sem, idle, execute, wait, destroying, ghosts>>

\* The callback returns.
Return(w) ==
  /\ worker[w] = "run"
  /\ execute[w] = "out"
  /\ done' = done \cup {job[w]}
  /\ Goto(w, "finish")
  /\ UNCHANGED <<poolvars, queue, idle, job, execute, wait, destroying,
                 submitted, awaited>>

Finish(w) ==
  /\ worker[w] = "finish"
  /\ idle_count' = idle_count + 1
  /\ idle_cond' = (idle_cond \/ idle_count + 1 = pool_size)
  /\ job' = [job EXCEPT ![w] = NoJob]
  /\ Goto(w, "check")
  /\ UNCHANGED <<poolvars, queue, execute, wait, destroying, ghosts>>

WorkerStep(w) ==
  \/ Check(w) \/ Acquire(w) \/ AcquireTimeout(w) \/ Recheck(w)
  \/ Fetch(w) \/ Return(w) \/ Finish(w)

------------------------------------------------------------------------------
(* Execute, called by a client or by a running job *)

Posting == {c \in Callers : execute[c] \in {"post", "postgrow"}}
Growing == {c \in Callers : execute[c] \in {"postgrow", "grow"}}

MayExecute(c) ==
  /\ execute[c] = "out"
  /\ IF c \in Clients
       THEN is_running /\ wait[c] = "out"
       ELSE worker[c] = "run" /\ (is_running \/ ~auto_increment)

\* A job submitted by a job somebody waits for is waited for as well.
AwaitedWith(c, j) ==
  [w \in Clients |->
     IF c \in Workers /\ job[c] \in awaited[w] THEN awaited[w] \cup {j}
                                               ELSE awaited[w]]

ResetIdle == idle_cond' = FALSE
NeedsThread == auto_increment /\ idle_count - 1 <= 0

\* The first section of tmtx.
Submit(c) ==
  /\ MayExecute(c)
  /\ \E j \in Jobs \ submitted :
       /\ jobq' = Append(jobq, j)
       /\ submitted' = submitted \cup {j}
       /\ awaited' = AwaitedWith(c, j)
  /\ ResetIdle
  /\ idle_count' = idle_count - 1
  /\ execute' = [execute EXCEPT ![c] = IF NeedsThread THEN "postgrow" ELSE "post"]
  /\ UNCHANGED <<poolvars, feed_sem, worker, job, wait, destroying, done>>

Post(c) ==
  /\ execute[c] \in {"post", "postgrow"}
  /\ feed_sem' = feed_sem + 1
  /\ execute' = [execute EXCEPT ![c] = IF @ = "post" THEN "out" ELSE "grow"]
  /\ UNCHANGED <<poolvars, jobq, idle, worker, job, wait, destroying, ghosts>>

\* A wrong variant of Grow: the new thread is not counted idle.
GrowNotIdle(c) ==
  /\ execute[c] = "grow"
  /\ pool_size < MaxWorkers
  /\ pool_size' = pool_size + 1
  /\ Goto(pool_size + 1, "check")
  /\ execute' = [execute EXCEPT ![c] = "out"]
  /\ UNCHANGED <<auto_increment, is_running, queue, idle, job, wait,
                 destroying, ghosts>>

\* The second section of tmtx: a new, idle, thread.
Grow(c) ==
  /\ execute[c] = "grow"
  /\ pool_size < MaxWorkers
  /\ pool_size' = pool_size + 1
  /\ idle_count' = idle_count + 1
  /\ Goto(pool_size + 1, "check")
  /\ execute' = [execute EXCEPT ![c] = "out"]
  /\ UNCHANGED <<auto_increment, is_running, queue, idle_cond, job, wait,
                 destroying, ghosts>>

------------------------------------------------------------------------------
(* Wait *)

WaitCall(c) ==
  /\ is_running
  /\ execute[c] = "out" /\ wait[c] = "out"
  /\ wait' = [wait EXCEPT ![c] = "asked"]
  /\ awaited' = [awaited EXCEPT ![c] = submitted \ done]
  /\ UNCHANGED <<poolvars, queue, idle, worker, job, execute, destroying,
                 submitted, done>>

\* A wrong variant of AllDone: it looks at the queue only.
QueueEmpty == jobq = << >>
AllDone == idle_count >= pool_size /\ jobq = << >>

\* The section of tmtx and qmtx: a pool with nothing to do is not waited for.
WaitCheck(c) ==
  /\ wait[c] = "asked"
  /\ wait' = [wait EXCEPT ![c] = IF AllDone THEN "out" ELSE "waiting"]
  /\ UNCHANGED <<poolvars, queue, idle, worker, job, execute, destroying, ghosts>>

WaitReturn(c) ==
  /\ wait[c] = "waiting"
  /\ idle_cond
  /\ wait' = [wait EXCEPT ![c] = "out"]
  /\ UNCHANGED <<poolvars, queue, idle, worker, job, execute, destroying, ghosts>>

------------------------------------------------------------------------------
(* Destroy *)

DestroyCall ==
  /\ destroy = "none"
  /\ \A c \in Clients : execute[c] = "out" /\ wait[c] = "out"
  /\ auto_increment => \A w \in Workers : execute[w] = "out"
  /\ destroy' = "post"
  /\ is_running' = FALSE
  /\ UNCHANGED <<auto_increment, pool_size, queue, idle, worker, job, execute,
                 wait, posted, ghosts>>

\* One permit for every thread, so that none sits out its second.
DestroyPost ==
  /\ destroy = "post"
  /\ IF posted < pool_size
       THEN /\ feed_sem' = feed_sem + 1
            /\ posted' = posted + 1
            /\ UNCHANGED destroy
       ELSE destroy' = "join" /\ UNCHANGED <<feed_sem, posted>>
  /\ UNCHANGED <<poolvars, jobq, idle, worker, job, execute, wait, ghosts>>

\* A wrong variant of Joined: only the threads Destroy found idle are joined.
JoinedIdle == \A w \in Workers : worker[w] # "check" /\ worker[w] # "acquire"
Joined == \A w \in Workers : worker[w] \in {"none", "gone"}

\* Every thread has been joined: the jobs left are dropped, the pool freed.
DestroyFree ==
  /\ destroy = "join"
  /\ Joined
  /\ jobq' = << >>
  /\ destroy' = "freed"
  /\ UNCHANGED <<poolvars, feed_sem, idle, worker, job, execute, wait, posted, ghosts>>

------------------------------------------------------------------------------
Next ==
  \/ \E w \in Workers : WorkerStep(w)
  \/ \E c \in Callers : Submit(c) \/ Post(c) \/ Grow(c)
  \/ \E c \in Clients : WaitCall(c) \/ WaitCheck(c) \/ WaitReturn(c)
  \/ DestroyCall \/ DestroyPost \/ DestroyFree

\* Threads inside the object keep running, and callbacks return.
Fairness ==
  /\ \A w \in Workers : WF_vars(WorkerStep(w))
  /\ \A c \in Callers : WF_vars(Post(c) \/ Grow(c))
  /\ \A c \in Clients : WF_vars(WaitCheck(c) \/ WaitReturn(c))
  /\ WF_vars(DestroyPost \/ DestroyFree)

Safety == Init /\ [][Next]_vars

Spec == Safety /\ Fairness

------------------------------------------------------------------------------
TypeOK ==
  /\ auto_increment \in BOOLEAN
  /\ is_running \in BOOLEAN
  /\ pool_size \in Workers
  /\ idle_count \in Int /\ idle_count <= MaxWorkers
  /\ jobq \in Seq(Jobs)
  /\ feed_sem \in Nat
  /\ idle_cond \in BOOLEAN
  /\ worker \in [Workers -> WorkerPlaces]
  /\ job \in [Workers -> Jobs \cup {NoJob}]
  /\ execute \in [Callers -> ExecutePlaces]
  /\ wait \in [Clients -> {"out", "asked", "waiting"}]
  /\ destroy \in {"none", "post", "join", "freed"}
  /\ posted \in Nat
  /\ submitted \subseteq Jobs
  /\ done \subseteq Jobs
  /\ awaited \in [Clients -> SUBSET Jobs]

\* The books balance: idle_count, which submissions lower before a worker has
\* even woken up, always accounts for exactly the jobs queued and in hand.
IdleCountExact ==
  destroy # "freed" =>
    idle_count + Len(jobq) + Cardinality(Busy) = pool_size

\* A permit for every queued job, and a queued job for every permit, counting
\* the callers that have yet to post and the workers that have yet to fetch:
\* no job is left behind without a wakeup and no worker wakes for nothing.
PermitsExact ==
  is_running =>
    Len(jobq) = feed_sem + Cardinality(Fetching) + Cardinality(Posting)

\* The event Wait sleeps on is set exactly when there has been a job and all
\* of them are done and counted.
IdleCondExact ==
  destroy # "freed" =>
    (idle_cond <=> submitted # {} /\ jobq = << >> /\ Busy = {})

\* In a growing pool a thread is idle or on its way, however jobs submit jobs:
\* no job waits for another one to finish.
GrowingPoolHasRoom ==
  auto_increment => idle_count + Cardinality(Growing) >= 1

\* The counters, the permits and the event that Execute, the workers and Wait
\* change in different critical sections agree with each other and with what
\* every thread is about to do.
Books == IdleCountExact /\ PermitsExact /\ IdleCondExact /\ GrowingPoolHasRoom

\* Nothing touches the pool after Destroy has freed it, nested submissions of
\* jobs that outlive is_running included.
NoUseAfterFree ==
  destroy = "freed" =>
    /\ \A w \in Workers : worker[w] \in {"none", "gone"}
    /\ \A c \in Callers : execute[c] = "out"
    /\ \A c \in Clients : wait[c] = "out"

\* Wait returns only when every job submitted before the call, and every job
\* those have submitted since, is done.
WaitMeansDone ==
  [][\A c \in Clients :
       (wait[c] # "out" /\ wait'[c] = "out") => awaited[c] \subseteq done]_vars

\* Every job runs unless the pool is destroyed first, in spite of permits
\* taken by one worker for a job that another one queued.
EveryJobRuns == \A j \in Jobs : j \in submitted ~> (j \in done \/ ~is_running)

\* Wait and Destroy return, if callbacks do.
CallsReturn ==
  /\ \A c \in Clients : wait[c] # "out" ~> wait[c] = "out"
  /\ destroy # "none" ~> destroy = "freed"
==============================================================================
