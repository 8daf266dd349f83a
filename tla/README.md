# A TLA+ development of libcmutils

libcmutils is a C utility library in the style of small objects: every object is
a structure of function pointers (`CMCall(obj, Method, ...)`) and an opaque
internal part. This directory specifies it in TLA+: its concurrent core in depth,
and most of what is built on and beside it - what each part promises, how the code
keeps the promise, which small instances TLC has checked, and what TLAPS has
proved for instances of every size. Line numbers
refer to the sources beside this directory (`src/src/...`); `PROJECT.json` maps
every definition to the lines it stands for.

## 1. Inventory

### The concurrent core

**CMUTIL_Cond** (`concurrent.c`). *State*: a boolean `state`, a mutex, a
condition variable, and `manualrst`, fixed at creation. *Operations*: `Wait`,
`TimedWait` (with limit zero a mere probe), `Set`, `Reset`, `Destroy`. It is
used by the thread pool (idle event), by the semaphore of some builds, and by the
read/write lock (no-readers event). *Hard*: `COND_SIGNAL` wakes one sleeper, so a
manual-reset object frees its waiters by a chain of signals; spurious wakeups;
a limit that expires while a `Set` arrives. *Correct when*: no wakeup is lost, a
timed wait fails only while the object is unset, every path returns the mutex.

**CMUTIL_RWLock** (`concurrent.c`, `RWLOCK_USE_INTERNAL`). *State*: a count of
readers under `rdcntmtx`, a recursive writer mutex `wrmtx`, a manual-reset event
`nordrs`, and a table of holders (thread id, depth) that grows by doubling.
*Operations*: `ReadLock`, `ReadUnlock`, `WriteLock`, `WriteUnlock`, `Destroy`.
*Hard*: two mutexes and an event taken in a definite order; a reentrant reader
must bypass a waiting writer; the table may fail to grow. *Correct when*: a
writer excludes everybody else, reader and waiting writer never wait for each
other, nobody starves.

**CMUTIL_ThreadPool** (`concurrent.c`). *State*: a job queue (`qmtx`), a
semaphore with one permit per job, `pool_size` and `idle_count` (`tmtx`), an idle
event, `is_running` (unlocked). *Operations*: `Execute`, the worker loop, `Wait`,
growth by one thread, `Destroy`. *Hard*: job, permit and counter change in three
separate sections; jobs submit jobs; `Destroy` overlaps with running jobs.
*Correct when*: counters and permits match what is queued and running, `Wait`
neither hangs nor returns early, every job runs, nothing touches a freed pool.

**CMUTIL_Timer** (`concurrent.c`). *State*: three sorted arrays (`scheduled`,
`finished`, `alltasks`) under one mutex; per task `canceled`, `dispatched`,
`waiter`, `runner`; a main-loop thread and a thread pool. *Operations*: four
`Schedule` functions, the main loop, the worker, `Cancel`, `Purge`, `Destroy`.
*Hard*: who frees a task - the worker, a waiting canceller, or the timer; a
canceller gives up after 5 s; procedures cancel tasks, their own included;
`Purge` works on a copy. *Correct when*: each task is freed once, after its last
use, and a cancelled task does not run again.

**CMUTIL_Pool** (`pool.c`). *State*: the list of available resources, `totcnt`,
`maxcnt`, a semaphore, a repeating ping task on its own or the caller's timer.
*Operations*: `CheckOut`, `Release`, `AddResource`, `Destroy`, the ping. *Hard*:
`createf` and `testf` fail in every place; the ping competes with the clients;
`Destroy` while a ping runs. *Correct when*: a resource has one owner, no permit
or count is lost on any error path, the maximum holds, CheckOut returns.

**CMUTIL_Semaphore, CMUTIL_Mutex**: thin wrappers of the OS objects. They appear
in the models as a counter of permits and as the owner (and depth) of a lock.

**CMUTIL_LogAppender** (`logger.c`). *State*: `isasync`, `buffer` and `flush_buffer`
under a recursive mutex, a writer thread, and for rolling files the period
`lasttm` of what is in the open file. *Operations*: `Append`, `SetAsync`, `Flush`,
`Destroy`, the writer's loop. *Hard*: the mode and the size of the buffer are read
without the mutex; messages get their time before they queue for it; opening a file
may fail anywhere; Destroy overlaps with the writer. *Correct when*: no message is
lost, doubled or overwritten, each file holds one period, each thread's messages
keep their order, and Destroy leaves nothing behind.

**CMUTIL_Thread and its registry** (`concurrent.c`). *State*: a map from system
ids to threads, a counter of ids under a mutex, `isrunning` per thread.
*Operations*: `Create`, `Start`, the thread's main function, `Join`, the look-ups of
self. *Hard*: a thread registers after it has started and leaves the registry before
it stops; system ids come back. *Correct when*: a running thread finds itself, and no
entry answers for a thread that is gone.

### What is built on it

**The log system** (`logger.c`). *State*: configured loggers with appenders per level,
loggers by name with the configured ones they refer to, one installed system.
*Operations*: creating, configuring from JSON, asking for a logger, logging,
installing and replacing; and the macro that caches a logger per source file. *Hard*: a
configuration that is refused half way; replacing a system others use; the patterns'
widths, options and defaults. *Correct when*: a message goes where the configuration says,
in the form the pattern says, and the installed system is one that exists.

**CMUTIL_Process** (`process.c`). *State*: a child, the parent's ends of its pipes, a
reader thread, links to the processes it is piped to and from. *Operations*: `Start`,
`Suspend`, `Resume`, `PipeTo`, `Read`, `ReadErr`, `Write`, `Wait`, `Kill`, `Destroy`.
*Hard*: Start fails after any of its pipes, its fork, and once the child runs; the reader
decides at its start what it reads; a child ends at any moment. *Correct when*: no pipe end leaks or is
closed twice, no signal goes to a reaped child, what the program asked for is left
to it, piped text keeps its order.

**The HTTP client** (`http.c`). *State*: a pool of connections for each host, with the
permits of CMUTIL_Pool; a client with its headers. *Operations*: a request and
the reading of its answer, the ping, `HttpInit` and `HttpClear`. *Hard*: connections
enter the pools without having been checked out; an answer comes late, in part, or
without a length; a peer closes a pooled connection. *Correct when*: a connection
has one owner and is kept only with nothing left to read on it.

**Network and datagram sockets** (`network.c`, `datagram.c`). *State*: a descriptor, a
TLS session with decrypted bytes of its own. *Operations*: connecting, creating,
accepting, pairing, passing on and closing; reading and writing with a timeout;
`Bind`, `Connect`, `Disconnect`, `Send`, `Recv` and their address forms. *Hard*: every
step of a connect or a handshake may fail while other threads get the same descriptor
numbers; polls, interrupts and TLS retries in the middle of a transfer. *Correct
when*: a descriptor has one holder, bytes arrive once and in order, the library's
record of an association is the kernel's.

**The recycling allocator and initialisation** (`memdebug.c`, `base.c`). *State*: free
lists and used sets per size class, guard bytes, a count of nested initialisations.
*Correct when*: a block is used, free or given up, never two of them, and the last
`CMUTIL_Clear` reports a leak exactly when there is one.

### Data

**Arrays, lists, maps** (`arrays.c`, `lists.c`, `maps.c`): sorted insertion and binary
search; a doubly linked list whose `MoveAll` is constant time; hash buckets with an array
in the order of insertion beside them, and a rehash - with arrays that cannot grow in
the middle. **Strings and byte buffers** (`strings.c`): capacities, and two
implementations of trimming and splitting. **JSON, XML** (`nanojson.c`, `nanoxml.c`):
trees, printers and recursive parsers with a depth limit. **Config** (`config.c`): items,
a map and a file that must agree. **Patterns** (`pattern.c`): a backtracking matcher.
*Correct when*: they are the sequence, the map, the inverse or the language that their
reference definition says, for whatever calls and inputs came before.

### Not modelled

**CMUTIL_FileLock** calls `flock` and keeps nothing. **Files and directories**
(`system.c`) are one system call per operation, **cryptography** (`crypto.c`) wraps OpenSSL,
the **call stack walker** (`callstack.c`) reads what the platform gives it: none has
state or order of its own for a model to follow. Of the parts above, the Windows and
GnuTLS builds, `Destroy` of Cond and RWLock, the socket appender, address
resolution, the DOS build of the patterns and the formatting of numbers and dates are left out; `PROJECT.json` lists
what is missing part by part.

### How they interact

The read/write lock and the thread pool wait on Cond objects; the timer runs its
tasks as jobs of a thread pool; the resource pool runs its ping as a task of a
timer; the HTTP client keeps sockets in resource pools pinged by one shared
timer; the logger and the memory debugger are called from everywhere. The models
are layered the same way: each uses of the layer below only what the layer's own
module shows. RWLock and ThreadPool treat `nordrs` and `idle_cond` as one-step
events because Cond implements `Event`; Timer treats its pool as a queue served
by workers that leave when it is destroyed, as ThreadPool shows; Pool assumes of
its timer that destroying it joins the ping and that a cancel may give up.

## 2. Modules

| Module | What it is |
|---|---|
| `Event` | abstract: a flag that threads wait for, release-one or release-all |
| `Cond` | the POSIX Cond, step by step, with its refinement of `Event` |
| `CondProofs` | the invariants and the safety refinement of `Cond` |
| `RWLock` | the read/write lock with its holder table |
| `RWLockProofs` | its invariants |
| `ThreadPool` | the thread pool |
| `ThreadPoolProofs` | its books, and what Wait and Destroy rest on; the registry of threads |
| `Timer` | the timer, with the ownership of tasks |
| `TimerProofs` | who owns a task's memory, where a task is, what Destroy leaves |
| `Pool` | the resource pool with the ping |
| `PoolProofs` | its owners and its books; the descriptors of sockets; the records of datagram sockets; the bytes of a socket; the pipes of processes |
| `LogAppender` | console, file and rolling appenders with the writer thread |
| `LogAppenderProofs` | where each message is, and in which order; the installed log system |
| `Arrays`, `Lists`, `Maps` | the containers' operations, as functions of the C records |
| `OrderedMap` | abstract: a sequence of key/value pairs, what a map promises |
| `Containers` | a client of one array, two lists or one map |
| `ContainersProofs` | the operations of all three one by one, their soundness, and that a map is an `OrderedMap`; the sorted array of a timer |
| `Counting` | lemmas that several proofs share: sizes of groups of threads, lists without repetition, induction, `FlattenSeq` |
| `Strings`, `Text` | string, string-array, buffer and text functions; a client of them |
| `Json`, `JsonDoc` | the JSON tree, printer and parser; trees built, texts damaged |
| `Xml`, `XmlDoc` | the same for XML, and XML to JSON |
| `Pattern` | both matchers and the validity test, and the reference language |
| `Config` | a configuration, its file, and an editor of that file |
| `LogPattern` | parsing of appender patterns and formatting of an event |
| `LogSystem` | configured loggers, resolution, dispatch, configuration from JSON |
| `LogGlobal` | the installed log system, its replacement, and the caching macro |
| `MemDebug` | the recycling allocator, `CMUTIL_Init` and `CMUTIL_Clear` |
| `Process` | processes, pipes, the reader threads, the environment |
| `Http` | clients, the pools of connections, answers as lines and bytes, the ping |
| `Threads` | the registry of threads |
| `TimerOrder` | times, the sorted array of tasks, and the next run |
| `Stream` | one direction of a plain or TLS socket, poll by poll |
| `Sockets` | who holds which descriptor, system call by system call |
| `Datagram` | two datagram sockets and the network between them |
| `MCLibrary` | all of these, from `Containers` on, for TLC |
| `MC*` | instances for TLC |

The modules from `Arrays` on are of two kinds. *Libraries* (`Arrays`, `Lists`, `Maps`,
`Strings`, `Json`, `Xml`) hold one operator per C function: it maps the record of the C
structure to the record afterwards, the value returned and what was passed to the free
callback, and takes as an argument whether an allocation inside it would succeed.
*Components* have one variable `st`, a record whose fields are the C members, and one
action per function or, where threads or the kernel can step in between, per step of
it. `MCLibrary` extends `Containers`, whose properties it checks as they are, and
instantiates every other component with a second variable, `lib`, for its `st`. A third
says which part runs; a step of the run is a step of that part, and while it is not the
containers `st` is an array that nobody uses.

**Granularity.** A section of code under a mutex is one step where nothing it does
can be observed before the mutex is released. Every access outside a mutex (`is_running`,
`canceled`, the size of the list in the ping) is a step of its own, and so is
each release of a semaphore. Cond and RWLock go further and model the mutexes
themselves, because the order of acquisitions is the subject there. In Cond, `Set`,
`Reset` and the probe are single steps: they take the mutex, do not wait, and
give it back.

**Reading an action.** `pc`, `worker`, `execute`, `wait`, `call` and `place` say
where a thread is; the comment at the declaration lists the places. Variables
carry the names of the C members. `reads`, `writes`, `submitted`, `done`,
`awaited`, `held`, `silenced` and `permits` do not exist in the code: they
record what has been granted, asked or promised
(in `LogAppender`: `files.written`, `accepted`, `dropped`), so that properties can be
stated, and no guard of the code's own steps depends on them. They do occur in
the guards of the callers' actions, as the callers' discipline:

- RWLock: release only what you hold; no write lock while holding a read lock
  (`libcmutils.h:1088-1094`).
- ThreadPool: `Destroy` is not called while another client is inside a call; a
  growing pool is not destroyed while its jobs still submit; only clients `Wait`.
- Timer: a handle is cancelled once; `Purge` and `Destroy` are not called while
  another `Cancel` or `Purge` is under way; with `QuietPurge` also not while a
  task that was cancelled is still running (the run `timer_self_cancel` drops that).
- Pool: a resource is released by who checked it out; `Destroy` comes last.
- Containers: `MoveAll` is given two lists, not one twice (`libcmutils.h:2698-2701`); a list
  that is moved onto itself is lost (`lists.c:241-253`).
- LogAppender: `Destroy` comes when nobody is inside `Append` or `Flush`; `Flush` is called
  from outside only on an asynchronous appender (section 6).

The same discipline in the later modules: a `LogSystem` is given one configured logger per
name; handing the installed log system to `Set` again does not race with another
replacement (`LogGlobal`); a process piped to is not destroyed while its source's reader
runs (`Process`); `HttpClear` comes when no request and no ping is under way.

**Small definitions marked "wrong variant"** stand in front of some actions. They
are plausible slips in that code (a forgotten reset, a swapped order, a dropped
check). No specification uses them; substituted for the definition they stand
beside, they break the property they are named for, which shows that the
property depends on that detail of the code.

## 3. Runs

| Run | Instance | What it shows |
|---|---|---|
| `cond` | 3 threads, both kinds of object | the mutex protocol, tests that still hold, no lost wakeup, refinement of `Event` with fairness |
| `rwlock` | 3 threads, recursion 2, table starts with 1 slot | exclusion, exact table, no reader/writer deadlock (deadlock of the whole system is checked too), every call returns |
| `rwlock_no_memory` | 2 threads, growth may fail | *violated*: see section 6 |
| `threadpool` | 2 clients, 2 jobs, pools of 1, of 2 and growing (up to 3 threads) | exact counters, permits and event; room in a growing pool; no use after free; Wait means done; every job runs; Wait and Destroy return |
| `timer` | 1 client, 2 workers, 2 tasks | one owner of every task's memory, no use after free, no leak, silence after Cancel, one place per task, calls return |
| `timer_self_cancel` | 1 client, 1 worker, 1 task | *violated*: see section 6 |
| `pool` | 2 clients, 2 resources, maxcnt 1, initcnt 0 or 2 | one owner, exact counter and permits, the maximum, safe Destroy with an own timer, CheckOut returns |
| `pool_slow_ping` | 1 client, caller's timer | *violated*: see section 6 |
| `log_appender` | 2 threads, 4 messages, 2 periods, buffer of 2, one failure to open a file | nothing lost, doubled or overwritten; one period per file; order of each thread; buffered is written; Destroy drains and returns |
| `log_cannot_open` | 1 thread, 1 message, rolling, 3 failures | *violated*: see section 6 |
| `library` | seventeen parts, one at a time; bounds below | what each part must be (table below) |
| `stream_read_byte` | one socket, reads of 1 and 3, messages of 1 and 3, records of 2 | *violated*: see section 6 |

Several invariants are conjunctions of named parts: `Books` (thread pool) of
`IdleCountExact`, `PermitsExact`, `IdleCondExact` and `GrowingPoolHasRoom`; `MemorySafe` (timer)
of the type, `NoUseAfterFree` and `NoDoubleFree`; `CountsExact` (pool) of the type, `TotcntExact`,
`WithinMaximum` and `PermitsExact`. The properties of `library`:

| Property | Parts | Bounds | What it says |
|---|---|---|---|
| `ContainersSound` | array, list, map | 3 items of 2 keys, 3 nodes, 3 keys with collisions, 3 values, buckets of 1, 4 puts | nothing overruns, leaks, is freed twice or cannot be found, whichever array cannot grow; what a rehash may lose is named |
| `MapImplements` | map | as above | a map refines `OrderedMap`, torn after a rehash that lost a pair |
| `TextSound` | strings, buffers | 3 characters of text | capacities hold, also where a string appended to itself takes what a freed block has; the text functions obey their laws |
| `DocumentsSound` | JSON, XML | trees to 11 atoms or 5 nodes, depth limit 4, one edit in 5 (3) seed texts | what is printed is what is parsed, exactly up to the limit, but for doubles printed with an exponent and no point; damaged texts too |
| `PatternSound` | patterns | 3 tokens, names of 3 | the matchers accept the reference language; a cut pattern is not read past its end |
| `ConfigSound` | config files | 2 items, buffers of 11, 4 and 6 | items and map agree; what a file can hold comes back |
| `LogsSound` | patterns, log system, installation | 3 conversions out of 23; 2 configured loggers and 2 appenders; 2 threads, 3 systems | lines, destinations, configurations as a whole, the installed system is live |
| `MemorySound` | allocator, init | sizes to 3, 9 blocks, 2 nested inits | blocks and counts exact, leaks reported |
| `ProcessesSound` | processes | 2 processes, one piped to the other, 2 starts, 2 characters | pipe ends at each step that Start fails, signals, who reads what, the order of piped text |
| `HttpSound` | HTTP | 2 clients of one host, 2 requests, 7 kinds of answer | one owner; clean connections and own answers but after answers in part, without a length or with a trailer |
| `ThreadsSound` | registry, timer order | 3 threads, 2 system ids, 3 ids; 2 tasks, times of 2 by 2, int of 8 | a thread finds itself; elapsed tasks are the first of the array |
| `NetworkSound` | streams, descriptors, datagrams | 4 bytes in messages of 1 and 3, records of 2; 2 threads, 2 sockets, 3 descriptors, 2 addresses; 2 sockets, 1 datagram | bytes once and in order, but for what OpenSSL swaps; one holder, whole datagrams |

**Bounds.** Three threads is what the chain of signals (setter, woken waiter,
sleeper) and the reader/writer/reader conflicts need; depth 2 is the first
reentrant lock, and one slot makes the table grow for the second and third
reader. Two jobs allow a nested submission and two workers that swap permits; a
growing pool then needs three threads at most, so `MaxWorkers` cuts nothing off.
Two tasks and two workers allow procedures that cancel each other, and one task queued
behind another. `Resources` bounds the resources that exist together: with
MaxCnt 1 and initcnt 2 there are fewer permits than resources, with initcnt 0
all are created on demand. Four messages
are the fewest that roll a file twice over the same period (times 1, 2, 1, 2, which takes
two threads, one of them late), and so need a suffix; one failure shows that what
it delays is not lost. Jobs and tasks are used once each, so the runs end:
ThreadPool, Timer, Pool and LogAppender may really stop (destroyed), hence
`CHECK_DEADLOCK FALSE` there; the liveness properties say that they do not
stop too early.

In `library`, buffer sizes and limits of the code (512 levels of JSON, 4096 characters of a
line, 1024 bytes of a read, a block class of a power of two) are constants, set so small
that a few characters reach and pass them. Three containers' items and keys give an
equal, a smaller and a larger neighbour, and keys chosen to share a bucket before and after
a rehash. Buckets have room for one item, so that a Put, and a rehash, need their arrays to grow; in
each call either all of them grow, or the bucket of the key does not, or keyset does not, or none in the rehash.
Records of two bytes make a message of three two records, of which a timeout may leave one
sent. The doubles of JSON are with and without a point, an exponent and a finite
value. Two threads that replace the log system and three systems are what an address
used again takes. Two system ids for three threads make an id come back while
others run; two descriptors besides 0 make the kernel hand one out again between two
steps of another call.

**Fairness.** Threads inside an object are scheduled (weak fairness), and a mutex
or a permit that is free again and again is eventually obtained (strong
fairness: POSIX leaves it open, every implementation's scheduler provides it
with probability one). Callers are never forced to call. Two assumptions are
made about the environment, and named: procedures and callbacks return, and in
Pool a client gives back what it holds. Without the second no CheckOut can be
promised anything. In RWLock it is part of the property (`ThreadsRelease`).

**Abstractions.** Time: a limit may expire at any moment, an elapsed task may be
dispatched at any moment. Cancel's 5000 polls become "finished" or "given up"
(`GiveUp`, switched by `SlowProcs`). Job and task payloads are names. Log output,
thread names and statistics are left out. A log message is its sender, a number and the
period it is formatted in; a rolled file's name is its period and suffix number, and `rename`
succeeds. Failing memory allocation is left out, too, outside
the holder table, the containers, strings and the allocator, where it is the
subject. In the containers it is the growth of an array, the only allocation whose
result the code looks at: in a Put, in keyset, in the buckets of a rehash and in every Put of a `PutAll`. A node, an
item, its key, a bucket or an array of buckets that cannot be allocated is used all the
same (`maps.c:107`, `:155`, `:176`, `:185`), and of a process that ends there nothing
is said. In the parts of `library`: characters are atoms, one for each class the code
distinguishes; a reference or an encoding name is one atom, and a number is its integer, its
fraction and its exponent, one each; a level's date is
its own text. What the allocator leaves in a freed block is any characters. The kernel
hands out the lowest free descriptor; TLS is the record layer -
a message goes out in records of a fixed size, a record yields its bytes once, the rest stays in the session, and a
write tried again is known by the address of its buffer and a length that covers the record in hand -
and `SSL_set_fd` does not fail; a message that passes a socket on carries a descriptor. In the run of `Http`
both clients speak to one host. A datagram may be lost, delayed, doubled and
overtaken. A log system is its number at an address.

## 4. Proofs

`PROJECT.json` lists the results, 41 theorems; 443 lemmas carry them. They hold for any
set of threads, any recursion depth and any initial table size (`CondProofs`,
`RWLockProofs`); any finite sets of clients and jobs and any number of worker threads
(`ThreadPoolProofs`); any clients, workers and tasks (`TimerProofs`); any clients, a finite
set of resources and any counts, any sockets, descriptors, datagrams, messages and reads, any processes and output
(`PoolProofs`); any threads, messages, periods and failures (`LogAppenderProofs`); and any items, nodes, keys and number of calls
(`ContainersProofs`) - from the named assumptions in the modules and the hypotheses
named here.

*Cond.* The inductive invariant is the type, `MutexOwned`, `TestHolds` and
`NoLostWakeup` together: that a signal finds somebody to pass it on (`NoLostWakeup`) follows
for the step that parks only because the thread tested the state under the mutex
(`TestHolds`), and that in turn because nobody else can own the mutex
(`MutexOwned`). `CondImplementsEvent` maps every step: granting is `Release`, giving up
is `GiveUp`, calling is `Enter`, everything else stutters.

*RWLock.* Types alone are not inductive (`rdcnt - 1` could leave Nat). The invariant
counts: `rdcnt` is the cardinality of a set of tokens, one per read lock held by
each thread, and the lemmas on tokens (added, removed, kept, none) give what
counting needs. Further parts relate `nordrs` to `rdcnt` except between a count
and its set or reset, and tie each place to the mutexes owned there. `TableInvariant`
adds that the table is exact when allocation succeeds; then a thread at "rd_want"
holds no read lock, which excludes the deadlock.

*ThreadPool.* The books (`ThreadPoolBooks`: `IdleCountExact`, `PermitsExact`, `IdleCondExact`,
`GrowingPoolHasRoom`) count threads in groups of places - running a job, about to
fetch one, about to post a permit, about to grow the pool - and
`CountMoved` says how a group's size changes when one thread moves; `WorkerMoved`
and `CallerMoved` apply it to the two kinds of moves. They are not inductive
alone. `Threads` adds where threads can be: workers `1 .. pool_size` exist and no
others, only a running job calls from a worker, nobody is inside once Destroy has
been called or the pool freed, and whatever is queued or carried was
submitted (so that `idle_cond` is clear when a job ends). `JobsCarried`, that a job
submitted and not done is queued or in a worker's hands, is what `WaitMeansDone`
needs on top: with the queue empty and nobody busy - which `AllDone` and the event
both imply by the books - nothing submitted is left undone (`AllJobsDone`).

*Timer.* The difficulty is who may free a task. Six parts are inductive together.
`Listing`: a task is in `alltasks` from Schedule until somebody takes over its memory, and is
meanwhile in an array or dispatched. `Carrying`: between the arrays it is in the queue or
with one worker, who frees it only if it is cancelled and no canceller has marked it.
`Handling`: a task is in the hands of one call at most (its own task and, for Purge and
Destroy, the rest of the snapshot) or its creator still has the handle. `Knowing`: what such a
call has found out and may rely on - a snapshot has marked its tasks, a waiting
canceller's task is cancelled and marked, one about to free finds the task unlisted,
and no worker frees what a call has in its hands. `Ordering`: Destroy is the last call.
`MemorySafe`, `SilentAfterCancel` and `OnePlace` follow from their conjunction.
`NoLeak` needs more (`Owning`: for every live task that is no longer listed there is
somebody who will free it) and only holds if no Purge meets a cancelled task that is
still running, the hypothesis `QuietPurge`; section 6 has what happens otherwise.

*Pool.* `Owned` is ownership pair by pair (list, clients, calls), and `Carrying` says that
a call has a resource exactly at the places where it works on one. `Books` counts: while
the pool lives `totcnt` is the list, what clients hold and the calls that work
on a resource or its replacement; every permit is in the semaphore, stands for what a client
holds or belongs to a call, and there are `maxcnt` of them at most. From these the maximum
follows: a call that creates a resource has found the list empty, so whatever is counted
has somebody with a permit, and one permit is its own. The hypothesis `PingAwaited`
(own timer, or a ping shorter than the five seconds a cancel waits) is exactly what keeps
the ping from outlasting the pool; without it `OneOwner` still holds, and `CountsExact` until
the pool is freed (`PoolCountsExactInLife`). `ResourcesAssumption` says that the resources the
model may create are finitely many and as many as `initcnt` asks for.

*LogAppender.* `Placed` says where each accepted message is: in the open file, in one
renamed file, in `flush_buffer`, in `buffer` or given up, never in two of them. `Dated`
and the freshness of a new file's name (`RolledNameFree`: there is one more suffix to try than
there are files) give one period per file and that nothing is overwritten. Order is
relational: `Ordered` compares what is written, `flush_buffer` and `buffer` as three
sequences that follow one another for each thread, and `Latest` and `Modes` say that
a thread that writes past the lists (a synchronous append) has nothing in them.

*Containers.* `ContainersAreSound` says of any sequence of calls, whichever
arrays cannot grow, what the run checks of small ones. The invariant is one of three.
An array (`IsArray`, `Arranged`) keeps within its allocation, without repetition, sorted if it
claims to be. Two lists (`Pair`) are the chains of two disjoint sequences of nodes that
make up the heap: `Linked`, `Unlinked` and `ChainsJoin` say what re-linking a node, taking one out
and `MoveAll` make of the sequences. A map (`IsMap`, `Whole`): each bucket sorted by key and
holding only items of keyset whose hash selects it, keyset sorted by order number, sizes and counts the
cardinalities of these; and the buckets hold all of keyset unless the map is `torn`.
That is a mark of the model's, set by a rehash in which a bucket could not take an item in (`maps.c:122`
does not ask), cleared when the map is emptied. A torn map still frees nothing twice and
overruns nothing; but a pair may be counted, listed and not found. Every function of the three
files has its lemma (`AddKeeps`, `MoveAllKeeps`, `RebuildKeeps`, `MapPutKeeps` ...). Three results are
theorems of their own because all else rests on them: `SearchFinds` (binary search
ends, and gives the index or the place to insert), `GrownEnough` (doubling ends with enough room),
and `MapPutKeeps` (whether or not the bucket, keyset, and any of the buckets in a rehash can grow).
The hypothesis `ContainerData` says of the constants what the C library gives the code (`Mem` may be any
set of such outcomes, and a new bucket may have room for any number of items):
NULL is no index, value, item, array or node; a hash is a natural number (the code's is 32 bits,
unsigned); folding to upper case twice is folding once (`toupper`); and keys are ordered as
integers are, which `strcmp` orders any finite set of strings like.

`ContainersImplementOrderedMap` maps every step of a map to one of the abstract
sequence of pairs. The pairs are read off the keyset, which rises by order number, and a
rising sequence is determined by its elements (`RisingSame`): so it is enough to know what a
function does to the *set* of items. `PutImplements`, `RemoveImplements` and
`PutAllImplements` show from `MapPutKeeps` and its kin that this is one pair added with
the highest number, one removed, both, or none, in whichever bucket the item lies and
whether or not the table was rebuilt. A Put whose keyset cannot grow has taken the key out again: the
abstract Remove. A `PutAll` is as many attempts (`Attempts`), each of which may fail and is then passed over.
`OrderedMap` has `Tear` for the step that loses a pair; a torn map promises nothing until it is
cleared, and is never torn while every bucket of a rehash can grow. The abstract keys are `MapKeys`, the folded ones included.

*Registry* (`RegistryOfThreads`, in `ThreadPoolProofs`). The sorted array is right only
because a thread has its system id to itself from Start to Join (`OwnSysId`): then Register
cannot find anybody under its id and Unregister takes out itself and no other
(`Registered`). Ids differ while the counter has counted every thread (`OwnIndex`). It holds
for any threads, system ids and width of the counter (`RegistryData`).

*Log system in force* (`GlobalSystemIsLive`, in `LogAppenderProofs`). `GlobalIsLive` is not
inductive: DestroyPrev could free what is in force or what another thread is about to
install. `InHand` says that a thread destroys under the mutex, and never what is in force;
`OneHand` that no system is in two threads' hands, and that a thread handing over the
system in force is the only one that sets any: the client's part of the contract, which
is the guard of `SetSame` and `Create`.

*Descriptors* (`NoDescriptorLeaks`, in `PoolProofs`). `SocketsSound` counts holders of a
descriptor, which is not inductive: a close takes a descriptor away from whoever has it.
`DescriptorsExact` says the same by a function from sockets and calls to the
descriptor each holds: open are exactly those in somebody's hands, and no two hands have
the same. That a step takes only its own needs what a call knows at each of its places
(`CallsSound`: whether the descriptor is still the call's, already the socket's, or not there
yet; that an `SSL_get_fd` answers the socket's own, as the close of a TLS socket relies on), and
that no two calls work on one socket (`CallsApart`). Every step passes the descriptors of one socket
and one call on (`Passes`), so one lemma serves all of them. Descriptor 0 is left out
throughout, because a TLS server that cannot be created closes it (section 6). The
hypothesis `SocketData`: threads are not sockets, NULL is no record, the bounds are numbers.

*Datagrams* (`DatagramRecordsAgree`, in `PoolProofs`). `Agree` states the agreement of the two
records of a socket, the addresses included; `Queued` that whatever is queued at a
socket was sent to it, from which `Got`, the receipt of the last receive, follows: a queue only grows
by `Arrive`, from what was sent, in any order and any number of times. The agreement has to
survive a Connect that fails after its Disconnect, and the kernel's taking back a port.

*Bytes of a socket* (`StreamInOrder`, in `PoolProofs`). `Carried` is everything between the two ends:
heard, decrypted, on the wire. That it is in order is not inductive: `Sent` adds that the
message OpenSSL is stuck with, and what the present write has left, are in order and newer than all
of it but for the records of that message that have left already (so that a message given up and tried again
cannot arrive twice), and that whatever a write has not left is carried (so that Ok may be returned
when nothing is left). Over TLS what is carried is what was acknowledged and whole records of the message in
hand. Bytes are excepted (`swapped`) whose message OpenSSL took for the one it was stuck with,
because it lay at the same address: they were acknowledged, and the old ones have left in
their place (section 6). The reader's part, `Asked`, is that heard and still wanted add up to what was
asked. Its steps leave `Carried` alone: taking packets off the wire is cutting and
rejoining sequences, for which `Counting` proves what `FlattenSeq` gives, by induction
(`FlattenConcat`, `FlattenOnes`). The hypothesis `StreamData` says that a read asks for a byte or
more; for none the code's loop is not entered.

*Pipes of processes* (`PipesAndStreams`, in `PoolProofs`). A process hears its source through
another's reader thread, so that it hears in order takes more than `ProcessSound` says of
the two. `KidsSound` adds that the output still in a pipe is the last of what was
written (`Counts`: what has been drawn is older, and so is what the reader has put by but not
passed on), and that whatever anybody was sent of a run is older than what its reader
has yet to send (`Before`). A process runs without a reader when its thread could not be made, the last thing
Start does (section 6). A process that is started again counts from one; so runs have
numbers, every reader's run another (`KidsSound`), and a process
piped from two runs in turn is told each in order. That nothing is taken from the client needs
what the reader closes (`Asks`); that the reader ends only when the child has and both pipes are empty,
why it closes (`Drains`). Every step changes one process and at most feeds one other
(`FeedKeeps`), except Destroy, which takes its process out of every link. For Start, at whichever
of its steps it fails, the ends made are those undone (`AllUndone`). The hypothesis `ProcessData`:
Start is called with a set of modes, and NULL is no process.

*Order of a timer's tasks* (`TimerTasksInOrder`, in `ContainersProofs`). The comparators subtract and
convert to `int`, and times are pairs, so nothing is sorted by itself. `TimeIs`, `DelayedIs`
and `MicroOrders` reduce the arithmetic to microseconds; `TasksCompare` says that the comparator
then is a total order (time, period, address), which binary search needs: it finds a
task that is there and the place of one that is not (`TaskSearched`, from `SearchFinds`). `InOrder` is the
array's invariant; `Due`, that what has been dispatched was due, keeps the next run within a
period of the clock. The main loop and the search for the next run (`RestIs`,
`NextRunIs`) are loops whose end the code does not say: the first ends with the array, the second because
a period is not zero. The hypothesis `OrderData` is where `int` overflows begin: the seconds of
the clock and of clock plus delay or period are below 2^31, and so are periods in milliseconds
(25 days) and distances of task addresses in tasks.

*Induction.* The library's induction rules take an operator as a parameter, which the
provers cannot be given. `Counting` therefore has `SetInduction` and `LeastElement`, where the
predicate is a set, from the theorem that `<` on Nat is well founded. The loops of the
containers are recursive functions over finite sets of numbers (probe, growth, walk, rehash,
`MapPutAll`): that a function satisfying its own equation exists for k steps if it does for
k - 1 is the induction, and `CHOOSE` then picks it. The same scheme gives
`LogAppender`'s writing of a whole list. For a loop of which nothing bounds the
domain (the timer's two), `LoopExists` gives the function directly: whatever the loop can reach
where it stops, if anything.

*Only model-checked*: all liveness and the fairness part of the refinement, which
the prover cannot treat; and of the other ten invariants of `library` whatever the seven
theorems above do not state: `RegistryOfThreads` and `TimerTasksInOrder` have parts of
`ThreadsSound`, `GlobalSystemIsLive` of `LogsSound`, `NoDescriptorLeaks`, `DatagramRecordsAgree` and
`StreamInOrder` all three of `NetworkSound`, and `PipesAndStreams` has `ProcessSound` of
`ProcessesSound` (its `EnvironSound` filters one list by another, whose
`SelectSeq` is recursive). `MCLibrary`, where the run's properties are named, instantiates texts and
documents too, whose `RECURSIVE` operators put a module out of the prover's reach. Of the state machines
among the rest, `MemDebug` is within it, and comes next (section 5).

## 5. Plan

Order: the core first, because everything else runs on it; then the parts that
use it; then data structures.

1. Cond, RWLock, ThreadPool, Timer, Pool, LogAppender with their runs, and the proofs of
   their safety properties (done).
2. The parts of the library around the core, with the run `library` (done).
3. Arrays, lists and maps proved sound, and a map to refine `OrderedMap`; the registry of
   threads and the replacement of the log system proved (done).
4. `Destroy` of RWLock; a process destroyed under its source's reader; Purge overlapping
   with a Cancel that gives up; the socket appender; Cond and RWLock composed, instead of
   the one-step event.
5. Descriptors, datagram sockets, the bytes of a socket, the pipes of processes and the order
   of a timer's tasks proved (done).
6. Proofs: that the memory debugger's lists hold each block once.

Abstract specifications worth stating besides `Event` and `OrderedMap`: a bag of jobs
executed exactly once for ThreadPool; a FIFO of messages for the logger.

## 6. Disagreements between the code and what it says of itself

- **A reader that could not be recorded deadlocks** (`concurrent.c:1151-1153`). The
  comment calls the holder table "only an optimization"; if it cannot grow, the
  unrecorded reader's next ReadLock queues for `wrmtx` behind a writer that waits for
  this reader.
- **A task that cancels itself leaks if the timer is purged meanwhile**
  (`concurrent.c:1544`, comment `:1408-1409`). Purge sets `waiter` on every task, so the worker
  leaves the cancelled task to a canceller that then finds it neither
  scheduled nor dispatched.
- **A pool on the caller's timer can be freed under its ping** (`pool.c:127-132`). The
  comment says Cancel waits; it waits five seconds.
- **Items that cannot be written are destroyed as strings** (`logger.c:1308`). When a rolling
  file cannot be opened the items stay in `flush_buffer`, which is right while the appender
  lives; when it is destroyed they go to a list destroyer that casts them to
  `CMUTIL_String`. The comment in the same loop (`:1318-1319`) wants every item consumed and
  released.

- **ReadByte of a TLS socket misses bytes that have arrived** (`network.c:1889`). It polls the
  descriptor without asking the session (`SSL_pending`, as `:1524` does for `Read`), so
  once a record is decrypted its remaining bytes are not seen: ReadByte times out.
  `libcmutils.h:4751` promises a byte of the socket.

Two properties are stated in their modules and known not to hold; no run lists them:
`LoggerIsLive` in `LogGlobal` (a thread that uses the cached logger, or compares `s__lsys`
before the other static is assigned, meets a system another has just destroyed:
`libcmutils.h:4117-4127`), and `AnswerWhole` in `Http` (a chunked body whose next size
line does not come in time is delivered as complete, `http.c:541`).

The properties of `library` name what they except, and these are the places where the code
does less than one would expect: a value with a bare `#` is cut when a configuration is
loaded again (`Storable` in `Config`); an attribute called `content` is replaced by the
text when XML becomes JSON; an answer without a length leaves a
connection in the pool that is not clean (`sound` in `Http`); a TLS server that cannot be
created closes descriptor 0 (`network.c:2469`, `SocketsSound`); thread ids repeat once the
counter has gone round; a connected socket that was not bound has a zero local
address (`datagram.c:159`); and:

- A rehash in which a bucket cannot grow loses a pair: it is counted and listed and cannot be
  found or removed, and the Put that set the rehash off may succeed (`maps.c:122`; `torn` in `Maps`,
  `Tear` in `OrderedMap`).
- A string appended to itself is copied from the block that making room for it may have freed: its second half
  is then whatever the block has (`strings.c:341-343`, `:232`; `AddSelf` in `Strings`). The insertion of a
  string into itself is alike.
- A double that is printed with an exponent and without a point comes back as a long, the digits
  before the exponent: `1e+20` as 1 (`nanojson.c:366`, `:1058-1076`); one that is printed `inf` does not come
  back (`JsonDoc`).
- A chunked answer with a trailer leaves the lines of the trailer but the first in a connection that goes back to the
  pool (`http.c:550-553`, `:568-570`), and the next request reads one as its status line (`ReadToEnd` in `Http`).
- A TLS write that times out leaves OpenSSL with a record in hand, and OpenSSL tells a write tried again by
  the address of its buffer. A WriteByte after a WriteByte that timed out, whose argument is
  likely to lie where the other lay, sends the old byte and answers Ok (`network.c:2003`; `swapped` in `Stream`). A
  message of more than one record may be cut by a timeout between two (`network.c:1736-1755`).
- `PipeTo` wants both processes running (`process.c:852-862`), where `libcmutils.h:6235-6242` wants neither
  started. If by then the reader of the first has looked for a target and found none, it leaves the output to the
  client, and nothing is passed on: a pipe takes effect only if made before that, or
  in an earlier run (`PipeTo`, `ReadProc` in `Process`).
- `Start` answers that it failed, and leaves the child running and its pipes open, when the
  reader thread cannot be made (`process.c:771-776`; `Start` in `Process`).

More were met while reading, and no run shows them: `Flush` on a file, rolling or
socket appender that is not asynchronous calls through lists that do not exist
(`logger.c:1176`; `libcmutils.h:4012-4019` states no such condition), and `UpdateEnv` rebuilds the
patterns (`logger.c:1879-1893`) where the README (`src/README.md:1070`) says it re-establishes the
logging threads after `fork()`; the text of a pattern behind its last conversion is not
printed; "useStderr" is looked up after keys were lower-cased (`logger.c:2056`); `%ex{n}` asks
for frames a shorter stack does not have (`logger.c:403`); an encoding named after the
version in an XML header is not recognised; the pattern matcher's `*` and `?` match a
path separator (`src/README.md:858` says they do not).

## 7. Running the checks

    tlc -config MCCond.cfg MCCond          (likewise the other MC modules)
    tlc -config MCLibrary.cfg MCLibrary    (about 1.85 million states)
    tlc -config Stream.cfg Stream          (and MCPoolSlowPing.cfg and the like: violated)
    tlapm Counting.tla
    tlapm CondProofs.tla
    tlapm RWLockProofs.tla
    tlapm ThreadPoolProofs.tla
    tlapm PoolProofs.tla
    tlapm TimerProofs.tla
    tlapm LogAppenderProofs.tla
    tlapm ContainersProofs.tla
