-------------------------- MODULE ThreadPoolProofs --------------------------
(***************************************************************************)
(* ThreadPool.tla for any number of clients, jobs and worker threads: the  *)
(* books of the pool balance, the event is exact, a growing pool keeps     *)
(* room, a freed pool is left alone, and Wait means what it says.  Then    *)
(* Threads.tla, the registry that the threads of a pool are entered in.    *)
(***************************************************************************)
EXTENDS ThreadPool, Counting, TLAPS

Lifecycle ==
  /\ is_running <=> destroy = "none"
  /\ destroy # "none" =>
       \A c \in Clients : execute[c] = "out" /\ wait[c] = "out"

\* Threads 1 .. pool_size have been started, and only a job that is running
\* calls from a worker.
WorkersExist ==
  \A w \in Workers :
    /\ worker[w] = "none" <=> w > pool_size
    /\ execute[w] # "out" => worker[w] = "run"

\* Everything the pool carries has been submitted.
JobsKnown ==
  /\ \A w \in Workers : worker[w] \in {"run", "finish"} => job[w] \in submitted
  /\ \A i \in 1 .. Len(jobq) : jobq[i] \in submitted
  /\ done \subseteq submitted
  /\ \A c \in Clients : awaited[c] \subseteq submitted

Carried(j) ==
  \/ \E i \in 1 .. Len(jobq) : jobq[i] = j
  \/ \E w \in Workers : worker[w] = "run" /\ job[w] = j

\* No job gets lost between the queue, a worker's hands and done.
JobsCarried ==
  destroy # "freed" => \A j \in submitted \ done : Carried(j)

\* The inductive invariant: what the books say rests on where the threads can
\* be, and that no job is lost on the way.
Threads == Lifecycle /\ WorkersExist /\ JobsKnown /\ NoUseAfterFree
IInv == TypeOK /\ Threads /\ JobsCarried /\ Books

------------------------------------------------------------------------------
\* There are finitely many threads to count.
LEMMA ThreadsFinite == IsFiniteSet(Workers) /\ IsFiniteSet(Callers)
<1>1. IsFiniteSet(Workers)
  BY SizeAssumption, FS_Interval DEF Workers
<1> QED BY <1>1, ClientsAssumption, FS_Union DEF Callers

\* The groups the books count are finite.
LEMMA GroupsFinite ==
  /\ IsFiniteSet(Busy) /\ IsFiniteSet(Fetching)
  /\ IsFiniteSet(Posting) /\ IsFiniteSet(Growing)
  /\ Cardinality(Busy) \in Nat /\ Cardinality(Fetching) \in Nat
  /\ Cardinality(Posting) \in Nat /\ Cardinality(Growing) \in Nat
  /\ Cardinality(Busy) = 0 <=> Busy = {}
<1>1. /\ IsFiniteSet(Busy) /\ IsFiniteSet(Fetching)
      /\ IsFiniteSet(Posting) /\ IsFiniteSet(Growing)
  BY ThreadsFinite, FS_Subset DEF Busy, Fetching, Posting, Growing
<1> QED BY <1>1, FS_CardinalityType, FS_EmptySet

\* How the counts change when a worker, or a caller inside Execute, moves.
Left(from, places) == IF from \in places THEN 1 ELSE 0
WorkerCounts(w, place) ==
  /\ Cardinality(Busy') = Cardinality(Busy) - Left(worker[w], {"run", "finish"})
                                            + Left(place, {"run", "finish"})
  /\ Cardinality(Fetching') = Cardinality(Fetching)
                              - Left(worker[w], {"recheck", "fetch"})
                              + Left(place, {"recheck", "fetch"})
  /\ Cardinality(Fetching') \in Nat
  /\ Busy' = {} <=> Cardinality(Busy') = 0
CallerCounts(c, place) ==
  /\ Cardinality(Posting') = Cardinality(Posting)
                             - Left(execute[c], {"post", "postgrow"})
                             + Left(place, {"post", "postgrow"})
  /\ Cardinality(Growing') = Cardinality(Growing)
                             - Left(execute[c], {"postgrow", "grow"})
                             + Left(place, {"postgrow", "grow"})

\* A worker that goes to a new place changes the counts of workers by it.
LEMMA WorkerMoved ==
  ASSUME TypeOK, NEW w \in Workers, NEW place,
         worker' = [worker EXCEPT ![w] = place]
  PROVE  WorkerCounts(w, place)
<1>1. /\ Busy' \ {w} = Busy \ {w}
      /\ w \in Busy <=> worker[w] \in {"run", "finish"}
      /\ w \in Busy' <=> place \in {"run", "finish"}
  BY DEF TypeOK, Busy
<1>2. /\ Fetching' \ {w} = Fetching \ {w}
      /\ w \in Fetching <=> worker[w] \in {"recheck", "fetch"}
      /\ w \in Fetching' <=> place \in {"recheck", "fetch"}
  BY DEF TypeOK, Fetching
<1>3. Cardinality(Busy') =
        Cardinality(Busy) - (IF w \in Busy THEN 1 ELSE 0)
                          + (IF w \in Busy' THEN 1 ELSE 0)
  BY <1>1, GroupsFinite, CountMoved
<1>4. Cardinality(Fetching') =
        Cardinality(Fetching) - (IF w \in Fetching THEN 1 ELSE 0)
                              + (IF w \in Fetching' THEN 1 ELSE 0)
  BY <1>2, GroupsFinite, CountMoved
<1>5. IsFiniteSet(Busy') /\ IsFiniteSet(Fetching')
  BY <1>1, <1>2, GroupsFinite, CountMoved
<1>6. /\ Cardinality(Busy') = 0 <=> Busy' = {}
      /\ Cardinality(Fetching') \in Nat
  BY <1>5, FS_EmptySet, FS_CardinalityType
<1> QED BY <1>1, <1>2, <1>3, <1>4, <1>6 DEF WorkerCounts, Left

\* So does a caller that goes on in Execute.
LEMMA CallerMoved ==
  ASSUME TypeOK, NEW c \in Callers, NEW place,
         execute' = [execute EXCEPT ![c] = place]
  PROVE  CallerCounts(c, place)
<1>1. /\ Posting' \ {c} = Posting \ {c}
      /\ c \in Posting <=> execute[c] \in {"post", "postgrow"}
      /\ c \in Posting' <=> place \in {"post", "postgrow"}
  BY DEF TypeOK, Posting
<1>2. /\ Growing' \ {c} = Growing \ {c}
      /\ c \in Growing <=> execute[c] \in {"postgrow", "grow"}
      /\ c \in Growing' <=> place \in {"postgrow", "grow"}
  BY DEF TypeOK, Growing
<1>3. Cardinality(Posting') =
        Cardinality(Posting) - (IF c \in Posting THEN 1 ELSE 0)
                             + (IF c \in Posting' THEN 1 ELSE 0)
  BY <1>1, GroupsFinite, CountMoved
<1>4. Cardinality(Growing') =
        Cardinality(Growing) - (IF c \in Growing THEN 1 ELSE 0)
                             + (IF c \in Growing' THEN 1 ELSE 0)
  BY <1>2, GroupsFinite, CountMoved, ZenonT(60)
<1> QED BY <1>1, <1>2, <1>3, <1>4 DEF CallerCounts, Left

\* Who does not move leaves the books as they are.
LEMMA BooksKept ==
  /\ worker' = worker => Busy' = Busy /\ Fetching' = Fetching
  /\ execute' = execute => Posting' = Posting /\ Growing' = Growing
BY DEF Busy, Fetching, Posting, Growing

\* With nothing queued and nobody busy, all that was submitted is done.
LEMMA AllJobsDone ==
  ASSUME IInv, destroy # "freed", jobq = << >>, Busy = {}
  PROVE  submitted \subseteq done
BY DEF IInv, JobsCarried, Carried, Busy

------------------------------------------------------------------------------
\* ThreadPoolCreate leaves a pool with balanced books.
LEMMA InitInvariant == Init => IInv
<1> SUFFICES ASSUME Init PROVE IInv
  OBVIOUS
<1> USE DEF Init
<1>1. pool_size \in Workers /\ MaxWorkers \in Nat
  BY SizeAssumption DEF Workers
<1>2. TypeOK
  <2>1. worker \in [Workers -> WorkerPlaces]
    BY DEF WorkerPlaces
  <2>2. execute \in [Callers -> ExecutePlaces]
    BY DEF ExecutePlaces
  <2>3. /\ job \in [Workers -> Jobs \cup {NoJob}]
        /\ wait \in [Clients -> {"out", "asked", "waiting"}]
        /\ awaited \in [Clients -> SUBSET Jobs]
    OBVIOUS
  <2>4. idle_count \in Int /\ idle_count <= MaxWorkers
    BY <1>1 DEF Workers
  <2>5. jobq \in Seq(Jobs)
    OBVIOUS
  <2> QED BY <1>1, <2>1, <2>2, <2>3, <2>4, <2>5 DEF TypeOK
<1>3. /\ \A w \in Workers : worker[w] \in {"check", "none"}
      /\ \A c \in Callers : execute[c] = "out"
  OBVIOUS
<1>4. Busy = {} /\ Fetching = {} /\ Posting = {} /\ Growing = {}
  BY <1>3 DEF Busy, Fetching, Posting, Growing
<1>5. Books
  BY <1>1, <1>4, FS_EmptySet
     DEF Books, IdleCountExact, PermitsExact, IdleCondExact,
         GrowingPoolHasRoom, Workers
<1>6. Threads /\ JobsCarried
  BY <1>1 DEF Threads, Lifecycle, WorkersExist, JobsKnown, JobsCarried,
              Carried, NoUseAfterFree, Workers, Callers
<1> QED BY <1>2, <1>5, <1>6 DEF IInv

\* Steps that neither take up nor lay down a job lose none.
LEMMA JobsCarriedKept ==
  ASSUME TypeOK, JobsCarried, UNCHANGED <<jobq, job, submitted, done>>,
         destroy = "freed" => destroy' = "freed",
         \A w \in Workers : worker[w] = "run" => worker'[w] = "run"
  PROVE  JobsCarried'
BY DEF JobsCarried, Carried

\* No section of the code, of whichever thread, unbalances them.
LEMMA NextInvariant == IInv /\ [Next]_vars => IInv'
<1> SUFFICES ASSUME IInv, [Next]_vars PROVE IInv'
  OBVIOUS
<1>0. TypeOK /\ Threads /\ JobsCarried /\ Books
  BY DEF IInv
<1> USE DEF poolvars, queue, idle, destroying, ghosts

<1>1. CASE UNCHANGED vars
  <2>1. Books'
    BY <1>0, <1>1, BooksKept
       DEF vars, Books, IdleCountExact, PermitsExact, IdleCondExact,
           GrowingPoolHasRoom
  <2>2. TypeOK' /\ Threads'
    BY <1>0, <1>1
       DEF vars, TypeOK, Threads, Lifecycle, WorkersExist, JobsKnown,
           NoUseAfterFree
  <2> QED BY <1>0, <1>1, <2>1, <2>2, JobsCarriedKept DEF vars, IInv

<1>2. ASSUME NEW w \in Workers, Check(w) PROVE IInv'
  <2> USE <1>0, <1>2
  <2>1. TypeOK'
    BY DEF TypeOK, Check, Goto, WorkerPlaces
  <2>2. Threads'
    BY DEF TypeOK, Check, Threads, Lifecycle, WorkersExist, JobsKnown,
           NoUseAfterFree, Goto
  <2>3. JobsCarried'
    BY JobsCarriedKept DEF TypeOK, Check, Goto
  <2>4. Books'
    <3>1. WorkerCounts(w, IF is_running THEN "acquire" ELSE "gone")
      <4>1. worker' = [worker EXCEPT ![w] = IF is_running THEN "acquire" ELSE "gone"]
        BY DEF Check, Goto
      <4> QED BY <4>1, WorkerMoved, Zenon
    <3>2. /\ Cardinality(Busy') = Cardinality(Busy)
          /\ Cardinality(Fetching') = Cardinality(Fetching)
          /\ Busy' = {} <=> Cardinality(Busy') = 0
      BY <3>1, GroupsFinite DEF Check, WorkerCounts, Left
    <3>3. Posting' = Posting /\ Growing' = Growing
      BY BooksKept DEF Check
    <3> QED
      BY <3>2, <3>3, GroupsFinite
         DEF TypeOK, Check, Books, IdleCountExact, PermitsExact, IdleCondExact,
             GrowingPoolHasRoom
  <2> QED BY <2>1, <2>2, <2>3, <2>4 DEF IInv

<1>3. ASSUME NEW w \in Workers, Acquire(w) PROVE IInv'
  <2> USE <1>0, <1>3
  <2>1. TypeOK'
    BY DEF TypeOK, Acquire, Goto, WorkerPlaces
  <2>2. Threads'
    BY DEF TypeOK, Acquire, Threads, Lifecycle, WorkersExist, JobsKnown,
           NoUseAfterFree, Goto
  <2>3. JobsCarried'
    BY JobsCarriedKept DEF TypeOK, Acquire, Goto
  <2>4. Books'
    <3>1. WorkerCounts(w, "recheck")
      <4>1. worker' = [worker EXCEPT ![w] = "recheck"]
        BY DEF Acquire, Goto
      <4> QED BY <4>1, WorkerMoved, Zenon
    <3>2. /\ Cardinality(Busy') = Cardinality(Busy)
          /\ Cardinality(Fetching') = Cardinality(Fetching) + 1
          /\ Busy' = {} <=> Cardinality(Busy') = 0
      BY <3>1, GroupsFinite DEF Acquire, WorkerCounts, Left
    <3>3. Posting' = Posting /\ Growing' = Growing
      BY BooksKept DEF Acquire
    <3> QED
      BY <3>2, <3>3, GroupsFinite
         DEF TypeOK, Acquire, Books, IdleCountExact, PermitsExact, IdleCondExact,
             GrowingPoolHasRoom
  <2> QED BY <2>1, <2>2, <2>3, <2>4 DEF IInv

<1>4. ASSUME NEW w \in Workers, AcquireTimeout(w) PROVE IInv'
  <2> USE <1>0, <1>4
  <2>1. TypeOK'
    BY DEF TypeOK, AcquireTimeout, Goto, WorkerPlaces
  <2>2. Threads'
    BY DEF TypeOK, AcquireTimeout, Threads, Lifecycle, WorkersExist, JobsKnown,
           NoUseAfterFree, Goto
  <2>3. JobsCarried'
    BY JobsCarriedKept DEF TypeOK, AcquireTimeout, Goto
  <2>4. Books'
    <3>1. WorkerCounts(w, "check")
      <4>1. worker' = [worker EXCEPT ![w] = "check"]
        BY DEF AcquireTimeout, Goto
      <4> QED BY <4>1, WorkerMoved, Zenon
    <3>2. /\ Cardinality(Busy') = Cardinality(Busy)
          /\ Cardinality(Fetching') = Cardinality(Fetching)
          /\ Busy' = {} <=> Cardinality(Busy') = 0
      BY <3>1, GroupsFinite DEF AcquireTimeout, WorkerCounts, Left
    <3>3. Posting' = Posting /\ Growing' = Growing
      BY BooksKept DEF AcquireTimeout
    <3> QED
      BY <3>2, <3>3, GroupsFinite
         DEF TypeOK, AcquireTimeout, Books, IdleCountExact, PermitsExact, IdleCondExact,
             GrowingPoolHasRoom
  <2> QED BY <2>1, <2>2, <2>3, <2>4 DEF IInv

<1>5. ASSUME NEW w \in Workers, Recheck(w) PROVE IInv'
  <2> USE <1>0, <1>5
  <2>1. TypeOK'
    BY DEF TypeOK, Recheck, Goto, WorkerPlaces
  <2>2. Threads'
    BY DEF TypeOK, Recheck, Threads, Lifecycle, WorkersExist, JobsKnown,
           NoUseAfterFree, Goto
  <2>3. JobsCarried'
    BY JobsCarriedKept DEF TypeOK, Recheck, Goto
  <2>4. Books'
    <3>1. WorkerCounts(w, IF is_running THEN "fetch" ELSE "gone")
      <4>1. worker' = [worker EXCEPT ![w] = IF is_running THEN "fetch" ELSE "gone"]
        BY DEF Recheck, Goto
      <4> QED BY <4>1, WorkerMoved, Zenon
    <3>2. /\ Cardinality(Busy') = Cardinality(Busy)
          /\ is_running => Cardinality(Fetching') = Cardinality(Fetching)
          /\ Busy' = {} <=> Cardinality(Busy') = 0
      BY <3>1, GroupsFinite DEF TypeOK, Recheck, WorkerCounts, Left
    <3>3. Posting' = Posting /\ Growing' = Growing
      BY BooksKept DEF Recheck
    <3> QED
      BY <3>2, <3>3, GroupsFinite
         DEF TypeOK, Recheck, Books, IdleCountExact, PermitsExact, IdleCondExact,
             GrowingPoolHasRoom
  <2> QED BY <2>1, <2>2, <2>3, <2>4 DEF IInv

<1>6. ASSUME NEW w \in Workers, Fetch(w) PROVE IInv'
  <2> USE <1>0, <1>6
  <2>0. jobq # << >> =>
          /\ Head(jobq) \in Jobs /\ Head(jobq) = jobq[1] /\ 1 \in 1 .. Len(jobq)
          /\ Tail(jobq) \in Seq(Jobs) /\ Len(Tail(jobq)) = Len(jobq) - 1
          /\ \A i \in 1 .. Len(Tail(jobq)) :
               i + 1 \in 1 .. Len(jobq) /\ Tail(jobq)[i] = jobq[i + 1]
    BY DEF TypeOK
  <2>1. TypeOK'
    <3>1. jobq' \in Seq(Jobs) /\ job' \in [Workers -> Jobs \cup {NoJob}]
      BY <2>0 DEF TypeOK, Fetch
    <3>2. worker' \in [Workers -> WorkerPlaces]
      BY DEF TypeOK, Fetch, Goto, WorkerPlaces
    <3> QED BY <3>1, <3>2 DEF TypeOK, Fetch
  <2>2. Threads'
    <3>1. Lifecycle' /\ WorkersExist'
      BY DEF TypeOK, Fetch, Goto, Threads, Lifecycle, WorkersExist
    <3>2. JobsKnown'
      <4>1. CASE jobq = << >>
        BY <4>1 DEF TypeOK, Fetch, Goto, Threads, JobsKnown
      <4>2. CASE jobq # << >>
        <5>1. /\ jobq' = Tail(jobq)
              /\ job' = [job EXCEPT ![w] = jobq[1]]
              /\ worker' = [worker EXCEPT ![w] = "run"]
          BY <2>0, <4>2 DEF Fetch, Goto
        <5>2. \A i \in 1 .. Len(jobq') : jobq'[i] \in submitted
          BY <2>0, <4>2, <5>1 DEF Threads, JobsKnown
        <5>3. \A v \in Workers :
                worker'[v] \in {"run", "finish"} => job'[v] \in submitted
          BY <2>0, <4>2, <5>1 DEF Threads, JobsKnown, TypeOK
        <5> QED BY <5>2, <5>3 DEF Threads, JobsKnown, Fetch
      <4> QED BY <4>1, <4>2
    <3>3. NoUseAfterFree'
      BY DEF TypeOK, Fetch, Goto, Threads, NoUseAfterFree
    <3> QED BY <3>1, <3>2, <3>3 DEF Threads
  <2>3. JobsCarried'
    <3>1. CASE jobq = << >>
      BY <3>1, JobsCarriedKept DEF TypeOK, Fetch, Goto
    <3>2. CASE jobq # << >>
      <4>1. jobq' = Tail(jobq) /\ job'[w] = Head(jobq) /\ worker'[w] = "run"
        BY <3>2 DEF TypeOK, Fetch, Goto
      <4>2. \A v \in Workers : worker[v] = "run" => worker'[v] = "run" /\ job'[v] = job[v]
        BY <3>2 DEF TypeOK, Fetch, Goto
      <4>3. \A i \in 1 .. Len(jobq) :
              \/ jobq[i] = Head(jobq)
              \/ i - 1 \in 1 .. Len(jobq') /\ jobq'[i - 1] = jobq[i]
        BY <3>2, <4>1 DEF TypeOK
      <4>4. ASSUME NEW j, Carried(j) PROVE Carried(j)'
        BY <4>1, <4>2, <4>3, <4>4 DEF Carried
      <4> QED BY <4>4 DEF JobsCarried, Fetch
    <3> QED BY <3>1, <3>2
  <2>4. Books'
    <3>1. CASE jobq = << >>
      <4>1. WorkerCounts(w, "check")
        <5>1. worker' = [worker EXCEPT ![w] = "check"]
          BY <3>1 DEF Fetch, Goto
        <5> QED BY <5>1, WorkerMoved, Zenon
      <4>2. /\ Cardinality(Busy') = Cardinality(Busy)
            /\ Cardinality(Fetching') = Cardinality(Fetching) - 1
            /\ Busy' = {} <=> Cardinality(Busy') = 0
        BY <4>1, GroupsFinite DEF Fetch, WorkerCounts, Left
      <4>3. Cardinality(Fetching') \in Nat /\ Posting' = Posting /\ Growing' = Growing
        BY <4>1, BooksKept DEF Fetch, WorkerCounts
      <4> QED
        BY <3>1, <4>2, <4>3, GroupsFinite
           DEF TypeOK, Fetch, Books, IdleCountExact, PermitsExact,
               IdleCondExact, GrowingPoolHasRoom
    <3>2. CASE jobq # << >>
      <4>1. WorkerCounts(w, "run")
        <5>1. worker' = [worker EXCEPT ![w] = "run"]
          BY <3>2 DEF Fetch, Goto
        <5> QED BY <5>1, WorkerMoved, Zenon
      <4>2. Len(jobq') = Len(jobq) - 1 /\ Len(jobq) \in Nat
        BY <3>2 DEF Fetch, TypeOK
      <4>3. /\ Cardinality(Busy') = Cardinality(Busy) + 1
            /\ Cardinality(Fetching') = Cardinality(Fetching) - 1
            /\ Busy' = {} <=> Cardinality(Busy') = 0
        BY <4>1, GroupsFinite DEF Fetch, WorkerCounts, Left
      <4>4. Posting' = Posting /\ Growing' = Growing
        BY BooksKept DEF Fetch
      <4>5. destroy # "freed" /\ ~idle_cond /\ Busy' # {}
        <5>1. destroy # "freed"
          BY DEF Fetch, Threads, NoUseAfterFree
        <5>2. ~idle_cond
          BY <3>2, <5>1 DEF Books, IdleCondExact, TypeOK
        <5>3. Busy' # {}
          BY <4>3, GroupsFinite
        <5> QED BY <5>1, <5>2, <5>3
      <4>6. IdleCountExact'
        BY <4>2, <4>3, <4>5, GroupsFinite DEF TypeOK, Fetch, Books, IdleCountExact
      <4>7. PermitsExact' /\ GrowingPoolHasRoom'
        BY <4>2, <4>3, <4>4, GroupsFinite, SMTT(60)
           DEF TypeOK, Fetch, Books, PermitsExact, GrowingPoolHasRoom
      <4>8. IdleCondExact'
        BY <4>5 DEF Fetch, IdleCondExact
      <4> QED BY <4>6, <4>7, <4>8 DEF Books
    <3> QED BY <3>1, <3>2
  <2> QED BY <2>1, <2>2, <2>3, <2>4 DEF IInv

<1>7. ASSUME NEW w \in Workers, Return(w) PROVE IInv'
  <2> USE <1>0, <1>7
  <2>1. TypeOK'
    <3>1. worker' \in [Workers -> WorkerPlaces]
      BY DEF TypeOK, Return, Goto, WorkerPlaces
    <3>2. done' \subseteq Jobs
      BY DEF TypeOK, Return, Threads, JobsKnown
    <3> QED BY <3>1, <3>2 DEF TypeOK, Return
  <2>2. Threads'
    BY DEF TypeOK, Return, Threads, Lifecycle, WorkersExist, JobsKnown,
           NoUseAfterFree, Goto
  <2>3. JobsCarried'
    <3>1. \A v \in Workers : worker[v] = "run" => v = w \/ worker'[v] = "run"
      BY DEF TypeOK, Return, Goto
    <3> QED BY <3>1 DEF TypeOK, Return, JobsCarried, Carried
  <2>4. Books'
    <3>1. WorkerCounts(w, "finish")
      <4>1. worker' = [worker EXCEPT ![w] = "finish"]
        BY DEF Return, Goto
      <4> QED BY <4>1, WorkerMoved, Zenon
    <3>2. /\ Cardinality(Busy') = Cardinality(Busy)
          /\ Cardinality(Fetching') = Cardinality(Fetching)
          /\ Busy' = {} <=> Cardinality(Busy') = 0
      BY <3>1, GroupsFinite DEF Return, WorkerCounts, Left
    <3>3. Posting' = Posting /\ Growing' = Growing
      BY BooksKept DEF Return
    <3> QED
      BY <3>2, <3>3, GroupsFinite
         DEF TypeOK, Return, Books, IdleCountExact, PermitsExact, IdleCondExact,
             GrowingPoolHasRoom
  <2> QED BY <2>1, <2>2, <2>3, <2>4 DEF IInv

<1>8. ASSUME NEW w \in Workers, Finish(w) PROVE IInv'
  <2> USE <1>0, <1>8
  <2>0. destroy # "freed" /\ submitted # {}
    BY DEF Finish, Threads, NoUseAfterFree, JobsKnown
  <2>1. TypeOK'
    <3>1. /\ worker' \in [Workers -> WorkerPlaces]
          /\ job' \in [Workers -> Jobs \cup {NoJob}]
      BY DEF TypeOK, Finish, Goto, WorkerPlaces
    <3>2. Cardinality(Busy) >= 1
      <4>1. w \in Busy
        BY DEF Finish, Busy
      <4> QED BY <4>1, GroupsFinite
    <3>3. idle_count' \in Int /\ idle_count' <= MaxWorkers
      <4>1. Len(jobq) \in Nat /\ pool_size <= MaxWorkers /\ MaxWorkers \in Nat
        BY SizeAssumption DEF TypeOK, Workers
      <4> QED
        BY <2>0, <3>2, <4>1, GroupsFinite
           DEF TypeOK, Workers, Finish, Books, IdleCountExact
    <3> QED BY <3>1, <3>3 DEF TypeOK, Finish
  <2>2. Threads'
    BY DEF TypeOK, Finish, Threads, Lifecycle, WorkersExist, JobsKnown,
           NoUseAfterFree, Goto
  <2>3. JobsCarried'
    BY DEF TypeOK, Finish, Goto, JobsCarried, Carried
  <2>4. Books'
    <3>1. WorkerCounts(w, "check")
      <4>1. worker' = [worker EXCEPT ![w] = "check"]
        BY DEF Finish, Goto
      <4> QED BY <4>1, WorkerMoved, Zenon
    <3>2. /\ Cardinality(Busy') = Cardinality(Busy) - 1
          /\ Cardinality(Fetching') = Cardinality(Fetching)
          /\ Busy' = {} <=> Cardinality(Busy') = 0
      BY <3>1, GroupsFinite DEF Finish, WorkerCounts, Left
    <3>3. Posting' = Posting /\ Growing' = Growing
      BY BooksKept DEF Finish
    <3>4. Len(jobq) \in Nat /\ (Len(jobq) = 0 <=> jobq = << >>)
      BY DEF TypeOK
    <3>5. Cardinality(Busy) >= 1 /\ Cardinality(Busy') \in Nat
      <4>1. w \in Busy
        BY DEF Finish, Busy
      <4> QED BY <3>2, <4>1, GroupsFinite
    <3>6. ~idle_cond
      BY <2>0, <3>5, GroupsFinite DEF TypeOK, Books, IdleCondExact
    <3>7. IdleCountExact'
      BY <2>0, <3>2, GroupsFinite DEF TypeOK, Finish, Books, IdleCountExact
    <3>8. idle_count + 1 = pool_size <=> jobq = << >> /\ Busy' = {}
      BY <2>0, <3>2, <3>4, <3>5, GroupsFinite
         DEF TypeOK, Workers, Books, IdleCountExact
    <3>9. IdleCondExact'
      BY <2>0, <3>6, <3>8 DEF Finish, IdleCondExact
    <3>10. PermitsExact' /\ GrowingPoolHasRoom'
      BY <3>2, <3>3, GroupsFinite
         DEF TypeOK, Finish, Books, PermitsExact, GrowingPoolHasRoom
    <3> QED BY <3>7, <3>9, <3>10 DEF Books
  <2> QED BY <2>1, <2>2, <2>3, <2>4 DEF IInv

<1>9. ASSUME NEW c \in Callers, Submit(c) PROVE IInv'
  <2> USE <1>0, <1>9
  <2>0. PICK j \in Jobs \ submitted :
          /\ jobq' = Append(jobq, j)
          /\ submitted' = submitted \cup {j}
          /\ awaited' = AwaitedWith(c, j)
    BY DEF Submit
  <2>1. /\ Len(jobq') = Len(jobq) + 1 /\ jobq'[Len(jobq) + 1] = j
        /\ \A i \in 1 .. Len(jobq) : jobq'[i] = jobq[i]
        /\ Len(jobq) \in Nat /\ jobq' # << >>
    BY <2>0 DEF TypeOK
  <2>2. TypeOK'
    <3>1. jobq' \in Seq(Jobs) /\ submitted' \subseteq Jobs
      BY <2>0 DEF TypeOK
    <3>2. awaited' \in [Clients -> SUBSET Jobs]
      BY <2>0 DEF TypeOK, AwaitedWith
    <3>3. execute' \in [Callers -> ExecutePlaces]
      BY DEF TypeOK, Submit, ExecutePlaces
    <3>4. idle_count' \in Int /\ idle_count' <= MaxWorkers
      BY SizeAssumption DEF TypeOK, Submit
    <3> QED BY <3>1, <3>2, <3>3, <3>4 DEF TypeOK, Submit, ResetIdle
  <2>3. Threads'
    <3>1. Lifecycle' /\ WorkersExist' /\ NoUseAfterFree'
      BY CallersAssumption
         DEF TypeOK, Submit, MayExecute, Callers, Threads, Lifecycle,
             WorkersExist, NoUseAfterFree
    <3>2. \A k \in Clients : awaited'[k] \subseteq submitted'
      BY <2>0 DEF TypeOK, AwaitedWith, Threads, JobsKnown
    <3>3. \A i \in 1 .. Len(jobq') : jobq'[i] \in submitted'
      BY <2>0, <2>1 DEF Threads, JobsKnown
    <3> QED
      BY <2>0, <3>1, <3>2, <3>3 DEF Threads, JobsKnown, Submit
  <2>4. JobsCarried'
    <3>1. Carried(j)'
      BY <2>1 DEF Carried
    <3>2. ASSUME NEW k, Carried(k) PROVE Carried(k)'
      BY <2>1, <3>2 DEF Carried, Submit
    <3> QED BY <2>0, <3>1, <3>2 DEF JobsCarried, Submit
  <2>5. Books'
    <3>1. CallerCounts(c, IF NeedsThread THEN "postgrow" ELSE "post")
      <4>1. execute' = [execute EXCEPT ![c] = IF NeedsThread THEN "postgrow" ELSE "post"]
        BY DEF Submit
      <4> QED BY <4>1, CallerMoved, Zenon
    <3>2. /\ execute[c] = "out" /\ execute[c] \notin {"post", "postgrow", "grow"}
          /\ Busy' = Busy /\ Fetching' = Fetching
      BY BooksKept DEF Submit, MayExecute
    <3>3. /\ Cardinality(Posting') = Cardinality(Posting) + 1
          /\ Cardinality(Growing') = Cardinality(Growing) + (IF NeedsThread THEN 1 ELSE 0)
      BY <3>1, <3>2, GroupsFinite DEF CallerCounts, Left
    <3>4. IdleCountExact' /\ PermitsExact'
      BY <2>1, <3>2, <3>3, GroupsFinite
         DEF TypeOK, Submit, Books, IdleCountExact, PermitsExact
    <3>5. IdleCondExact'
      BY <2>1 DEF Submit, ResetIdle, IdleCondExact
    <3>6. GrowingPoolHasRoom'
      BY <3>3, GroupsFinite
         DEF TypeOK, Submit, NeedsThread, Books, GrowingPoolHasRoom
    <3> QED BY <3>4, <3>5, <3>6 DEF Books
  <2> QED BY <2>2, <2>3, <2>4, <2>5 DEF IInv

<1>10. ASSUME NEW c \in Callers, Post(c) PROVE IInv'
  <2> USE <1>0, <1>10
  <2>1. TypeOK'
    BY DEF TypeOK, Post, ExecutePlaces
  <2>2. Threads'
    BY DEF TypeOK, Post, Threads, Lifecycle, WorkersExist, JobsKnown,
           NoUseAfterFree, Callers
  <2>3. JobsCarried'
    BY JobsCarriedKept DEF TypeOK, Post, Callers
  <2>4. Books'
    <3>1. CallerCounts(c, IF execute[c] = "post" THEN "out" ELSE "grow")
      <4>1. execute' = [execute EXCEPT ![c] = IF execute[c] = "post" THEN "out" ELSE "grow"]
        BY DEF Post
      <4> QED BY <4>1, CallerMoved, Zenon
    <3>2. /\ Cardinality(Posting') = Cardinality(Posting) - 1
          /\ Cardinality(Growing') = Cardinality(Growing)
      BY <3>1, GroupsFinite DEF Post, CallerCounts, Left
    <3>3. Busy' = Busy /\ Fetching' = Fetching
      BY BooksKept DEF Post
    <3> QED
      BY <3>2, <3>3, GroupsFinite, SMTT(60)
         DEF TypeOK, Post, Books, IdleCountExact, PermitsExact, IdleCondExact,
             GrowingPoolHasRoom
  <2> QED BY <2>1, <2>2, <2>3, <2>4 DEF IInv

<1>11. ASSUME NEW c \in Callers, Grow(c) PROVE IInv'
  <2> USE <1>0, <1>11
  <2>0. /\ pool_size + 1 \in Workers /\ worker[pool_size + 1] = "none"
        /\ pool_size \in Nat
        /\ worker' = [worker EXCEPT ![pool_size + 1] = "check"]
        /\ execute' = [execute EXCEPT ![c] = "out"]
        /\ destroy # "freed"
    BY SizeAssumption
       DEF Grow, Goto, TypeOK, Workers, Threads, WorkersExist, NoUseAfterFree
  <2>1. TypeOK'
    <3>1. worker' \in [Workers -> WorkerPlaces] /\ execute' \in [Callers -> ExecutePlaces]
      BY <2>0 DEF TypeOK, WorkerPlaces, ExecutePlaces
    <3>2. idle_count' \in Int /\ idle_count' <= MaxWorkers
      <4>1. Len(jobq) \in Nat /\ pool_size < MaxWorkers /\ MaxWorkers \in Nat
        BY SizeAssumption DEF TypeOK, Grow
      <4> QED
        BY <2>0, <4>1, GroupsFinite DEF TypeOK, Grow, Books, IdleCountExact
    <3> QED BY <2>0, <3>1, <3>2 DEF TypeOK, Grow
  <2>2. Threads'
    <3>1. WorkersExist'
      BY <2>0 DEF TypeOK, Grow, Threads, WorkersExist, Callers, Workers
    <3>2. Lifecycle' /\ JobsKnown' /\ NoUseAfterFree'
      BY <2>0 DEF TypeOK, Grow, Threads, Lifecycle, JobsKnown, NoUseAfterFree,
                  Callers
    <3> QED BY <3>1, <3>2 DEF Threads
  <2>3. JobsCarried'
    BY <2>0, JobsCarriedKept DEF TypeOK, Grow
  <2>4. Books'
    <3>1. CallerCounts(c, "out")
      BY <2>0, CallerMoved, Zenon
    <3>2. WorkerCounts(pool_size + 1, "check")
      BY <2>0, WorkerMoved, Zenon
    <3>3. /\ Cardinality(Posting') = Cardinality(Posting)
          /\ Cardinality(Growing') = Cardinality(Growing) - 1
      BY <3>1, GroupsFinite DEF Grow, CallerCounts, Left
    <3>4. /\ Cardinality(Busy') = Cardinality(Busy)
          /\ Cardinality(Fetching') = Cardinality(Fetching)
          /\ Busy' = {} <=> Cardinality(Busy') = 0
      BY <2>0, <3>2, GroupsFinite DEF WorkerCounts, Left
    <3> QED
      BY <2>0, <3>3, <3>4, GroupsFinite, SMTT(60)
         DEF TypeOK, Grow, Books, IdleCountExact, PermitsExact, IdleCondExact,
             GrowingPoolHasRoom
  <2> QED BY <2>1, <2>2, <2>3, <2>4 DEF IInv

<1>12. ASSUME NEW c \in Clients, WaitCall(c) PROVE IInv'
  <2> USE <1>0, <1>12
  <2>1. TypeOK'
    BY DEF TypeOK, WaitCall
  <2>2. Threads'
    BY DEF TypeOK, WaitCall, Threads, Lifecycle, WorkersExist, JobsKnown,
           NoUseAfterFree
  <2>3. JobsCarried'
    BY JobsCarriedKept DEF TypeOK, WaitCall
  <2>4. Books'
    BY GroupsFinite, BooksKept
       DEF TypeOK, WaitCall, Books, IdleCountExact, PermitsExact,
           IdleCondExact, GrowingPoolHasRoom
  <2> QED BY <2>1, <2>2, <2>3, <2>4 DEF IInv

<1>13. ASSUME NEW c \in Clients, WaitCheck(c) PROVE IInv'
  <2> USE <1>0, <1>13
  <2>1. TypeOK'
    BY DEF TypeOK, WaitCheck
  <2>2. Threads'
    BY DEF TypeOK, WaitCheck, Threads, Lifecycle, WorkersExist, JobsKnown,
           NoUseAfterFree
  <2>3. JobsCarried'
    BY JobsCarriedKept DEF TypeOK, WaitCheck
  <2>4. Books'
    BY GroupsFinite, BooksKept
       DEF TypeOK, WaitCheck, Books, IdleCountExact, PermitsExact,
           IdleCondExact, GrowingPoolHasRoom
  <2> QED BY <2>1, <2>2, <2>3, <2>4 DEF IInv

<1>14. ASSUME NEW c \in Clients, WaitReturn(c) PROVE IInv'
  <2> USE <1>0, <1>14
  <2>1. TypeOK'
    BY DEF TypeOK, WaitReturn
  <2>2. Threads'
    BY DEF TypeOK, WaitReturn, Threads, Lifecycle, WorkersExist, JobsKnown,
           NoUseAfterFree
  <2>3. JobsCarried'
    BY JobsCarriedKept DEF TypeOK, WaitReturn
  <2>4. Books'
    BY GroupsFinite, BooksKept
       DEF TypeOK, WaitReturn, Books, IdleCountExact, PermitsExact,
           IdleCondExact, GrowingPoolHasRoom
  <2> QED BY <2>1, <2>2, <2>3, <2>4 DEF IInv

<1>15. CASE DestroyCall
  <2> USE <1>0, <1>15
  <2>1. TypeOK'
    BY DEF TypeOK, DestroyCall
  <2>2. Threads'
    BY DEF TypeOK, DestroyCall, Threads, Lifecycle, WorkersExist, JobsKnown,
           NoUseAfterFree
  <2>3. JobsCarried'
    BY JobsCarriedKept DEF TypeOK, DestroyCall
  <2>4. Books'
    BY GroupsFinite, BooksKept
       DEF TypeOK, DestroyCall, Books, IdleCountExact, PermitsExact,
           IdleCondExact, GrowingPoolHasRoom
  <2> QED BY <2>1, <2>2, <2>3, <2>4 DEF IInv

<1>16. CASE DestroyPost
  <2> USE <1>0, <1>16
  <2>1. TypeOK'
    BY DEF TypeOK, DestroyPost
  <2>2. Threads'
    BY DEF TypeOK, DestroyPost, Threads, Lifecycle, WorkersExist, JobsKnown,
           NoUseAfterFree
  <2>3. JobsCarried'
    BY JobsCarriedKept DEF TypeOK, DestroyPost
  <2>4. Books'
    BY GroupsFinite, BooksKept
       DEF TypeOK, DestroyPost, Threads, Lifecycle, Books, IdleCountExact,
           PermitsExact, IdleCondExact, GrowingPoolHasRoom
  <2> QED BY <2>1, <2>2, <2>3, <2>4 DEF IInv

<1>17. CASE DestroyFree
  <2> USE <1>0, <1>17
  <2>1. TypeOK'
    BY DEF TypeOK, DestroyFree
  <2>2. Threads'
    BY DEF TypeOK, DestroyFree, Threads, Lifecycle, WorkersExist, JobsKnown,
           NoUseAfterFree, Joined, Callers
  <2>3. JobsCarried'
    BY DEF DestroyFree, JobsCarried
  <2>4. Books'
    BY GroupsFinite, BooksKept
       DEF TypeOK, DestroyFree, Books, IdleCountExact, PermitsExact,
           IdleCondExact, GrowingPoolHasRoom, Lifecycle, Threads
  <2> QED BY <2>1, <2>2, <2>3, <2>4 DEF IInv
<1> QED
  BY <1>1, <1>2, <1>3, <1>4, <1>5, <1>6, <1>7, <1>8, <1>9, <1>10, <1>11, <1>12,
     <1>13, <1>14, <1>15, <1>16, <1>17
     DEF Next, WorkerStep

\* So the invariant holds in every state.
LEMMA Invariance == Safety => []IInv
<1>1. Init => IInv
  BY InitInvariant
<1>2. IInv /\ [Next]_vars => IInv'
  BY NextInvariant
<1> QED BY <1>1, <1>2, PTL DEF Safety

------------------------------------------------------------------------------
\* Types: no counter leaves its range, whatever Execute, growth and the end of
\* jobs do in whatever order.
THEOREM ThreadPoolTypeOK == Spec => []TypeOK
<1>1. IInv => TypeOK
  BY DEF IInv
<1> QED BY <1>1, Invariance, PTL DEF Spec

\* idle_count accounts for exactly the jobs queued and in hand.
THEOREM ThreadPoolIdleCountExact == Spec => []IdleCountExact
<1>1. IInv => IdleCountExact
  BY DEF IInv, Books
<1> QED BY <1>1, Invariance, PTL DEF Spec

\* The semaphore holds a permit for every queued job and no other.
THEOREM ThreadPoolPermitsExact == Spec => []PermitsExact
<1>1. IInv => PermitsExact
  BY DEF IInv, Books
<1> QED BY <1>1, Invariance, PTL DEF Spec

\* idle_cond is set exactly when there has been a job and none is left.
THEOREM ThreadPoolIdleCondExact == Spec => []IdleCondExact
<1>1. IInv => IdleCondExact
  BY DEF IInv, Books
<1> QED BY <1>1, Invariance, PTL DEF Spec

\* A growing pool has an idle thread, or one on its way, for every job.
THEOREM ThreadPoolGrowingPoolHasRoom == Spec => []GrowingPoolHasRoom
<1>1. IInv => GrowingPoolHasRoom
  BY DEF IInv, Books
<1> QED BY <1>1, Invariance, PTL DEF Spec

\* The idle count, the permits and the idle event agree with what Execute, the
\* workers and Wait are doing, in every interleaving.
THEOREM ThreadPoolBooks == Spec => []Books
<1>1. IInv => Books
  BY DEF IInv
<1> QED BY <1>1, Invariance, PTL DEF Spec

\* Destroy frees the pool after its last use.
THEOREM ThreadPoolNoUseAfterFree == Spec => []NoUseAfterFree
<1>1. IInv => NoUseAfterFree
  BY DEF IInv, Threads
<1> QED BY <1>1, Invariance, PTL DEF Spec

\* Wait returns only when the jobs it was called for, and those they have
\* submitted, are done: by the check under both mutexes or by the event.
THEOREM ThreadPoolWaitMeansDone == Spec => WaitMeansDone
<1> DEFINE Means == \A c \in Clients :
      (wait[c] # "out" /\ wait'[c] = "out") => awaited[c] \subseteq done
<1>1. ASSUME IInv, [Next]_vars PROVE Means
  <2>1. ASSUME NEW c \in Clients, wait[c] # "out", wait'[c] = "out"
        PROVE  awaited[c] \subseteq done
    <3>0. destroy # "freed" /\ TypeOK /\ awaited[c] \subseteq submitted
      BY <1>1, <2>1 DEF IInv, Threads, Lifecycle, JobsKnown
    <3>1. jobq = << >> /\ Busy = {}
      <4>1. CASE WaitCheck(c)
        <5>1. idle_count >= pool_size /\ jobq = << >>
          BY <2>1, <3>0, <4>1 DEF WaitCheck, AllDone, TypeOK
        <5>2. Cardinality(Busy) = 0
          BY <1>1, <3>0, <5>1, GroupsFinite
             DEF IInv, Books, IdleCountExact, TypeOK, Workers
        <5> QED BY <5>1, <5>2, GroupsFinite
      <4>2. CASE WaitReturn(c)
        BY <1>1, <3>0, <4>2 DEF WaitReturn, IInv, Books, IdleCondExact, TypeOK
      <4>3. WaitCheck(c) \/ WaitReturn(c)
        BY <1>1, <2>1, <3>0
           DEF Next, vars, TypeOK, WorkerStep, Check, Acquire, AcquireTimeout,
               Recheck, Fetch, Return, Finish, Submit, Post, Grow, WaitCall,
               WaitCheck, WaitReturn, DestroyCall, DestroyPost, DestroyFree
      <4> QED BY <4>1, <4>2, <4>3
    <3>2. submitted \subseteq done
      BY <1>1, <3>0, <3>1, AllJobsDone
    <3> QED BY <3>0, <3>2
  <2> QED BY <2>1
<1>2. Spec => []IInv /\ [][Next]_vars
  BY Invariance, PTL DEF Spec, Safety
<1>3. IInv /\ [Next]_vars => [Means]_vars
  BY <1>1
<1> QED BY <1>2, <1>3, PTL DEF WaitMeansDone

------------------------------------------------------------------------------
(* The threads a pool consists of are CMUTIL_Threads, entered in the       *)
(* registry of Threads.tla.  What follows is about that registry, for any  *)
(* number of threads and of ids the system has.                            *)
CONSTANTS NULL, ThreadObj, SysId, MaxIndex
VARIABLE registry

R == INSTANCE Threads WITH st <- registry

\* The record of a thread that has been created.
ThreadRecord ==
  [pc : {"created", "starting", "entered", "running", "returned", "removed", "over"},
   id : 1 .. MaxIndex, thread : SysId \cup {NULL}, sysid : SysId \cup {NULL},
   isrunning : BOOLEAN]

\* What the code takes for granted of these: NULL is no thread and no id, and
\* the counter of ids can count (MaxIndex is UINT32_MAX).
RegistryData ==
  /\ NULL \notin ThreadObj \cup SysId \cup ThreadRecord
  /\ MaxIndex \in Nat \ {0}

Here(t) == registry.th[t] # NULL

\* What the array can be: a thread for each of some ids.
Arrays == UNION {[S -> ThreadObj] : S \in SUBSET SysId}

RegistryType ==
  /\ registry \in [th : [ThreadObj -> ThreadRecord \cup {NULL}],
                   threads : Arrays,
                   threadIndex : 0 .. MaxIndex, created : 0 .. MaxIndex + 1,
                   displaced : BOOLEAN]

\* A thread has the id the system gave it from Start to Join, and no other
\* thread has that id meanwhile.
OwnSysId ==
  /\ \A t \in ThreadObj : Here(t) =>
       IF registry.th[t].pc = "created" THEN registry.th[t].thread = NULL
       ELSE registry.th[t].thread \in SysId /\ registry.th[t].sysid = registry.th[t].thread
  /\ \A t, u \in ThreadObj :
       /\ Here(t) /\ Here(u) /\ t # u
       /\ registry.th[t].thread # NULL
       => registry.th[t].thread # registry.th[u].thread

\* The array holds the threads between their Register and their Unregister,
\* each under its id.
Entered(t) == Here(t) /\ registry.th[t].pc \in {"running", "returned"}
Registered ==
  /\ \A s \in DOMAIN registry.threads :
       Entered(registry.threads[s]) /\ registry.th[registry.threads[s]].sysid = s
  /\ \A t \in ThreadObj : Entered(t) =>
       /\ registry.th[t].sysid \in DOMAIN registry.threads
       /\ registry.threads[registry.th[t].sysid] = t
  /\ ~registry.displaced

\* Until the counter has gone round it has counted the threads created.
OwnIndex ==
  registry.created <= MaxIndex =>
    /\ registry.threadIndex = registry.created
    /\ \A t \in ThreadObj : Here(t) => registry.th[t].id <= registry.created
    /\ \A t, u \in ThreadObj : Here(t) /\ Here(u) /\ t # u => registry.th[t].id # registry.th[u].id

RegistryInv == RegistryType /\ OwnSysId /\ Registered /\ OwnIndex

\* Whoever is in the array is a thread.
LEMMA InArray ==
  ASSUME RegistryInv
  PROVE  \A s \in DOMAIN registry.threads : registry.threads[s] \in ThreadObj
<1>1. registry.threads \in Arrays
  BY DEF RegistryInv, RegistryType
<1>2. PICK S \in SUBSET SysId : registry.threads \in [S -> ThreadObj]
  BY <1>1 DEF Arrays
<1> QED BY <1>2

\* The registry starts empty.
LEMMA RegistryInit ==
  ASSUME RegistryData, R!Init
  PROVE  RegistryInv
<1> DEFINE none == [s \in {} |-> NULL]
<1>1. none \in [{} -> ThreadObj] /\ DOMAIN none = {}
  OBVIOUS
<1>2. none \in Arrays
  BY <1>1 DEF Arrays
<1>3. /\ registry.threads = none /\ registry.threadIndex = 0 /\ registry.created = 0
      /\ \A t \in ThreadObj : ~Here(t)
      /\ ~registry.displaced
  BY DEF R!Init, Here
<1>4. RegistryType
  <2>1. [t \in ThreadObj |-> NULL] \in [ThreadObj -> ThreadRecord \cup {NULL}]
    OBVIOUS
  <2>2. 0 \in 0 .. MaxIndex /\ 0 \in 0 .. MaxIndex + 1
    BY DEF RegistryData
  <2> HIDE DEF none
  <2>3. registry = [th |-> [t \in ThreadObj |-> NULL], threads |-> none,
                    threadIndex |-> 0, created |-> 0, displaced |-> FALSE]
    BY DEF R!Init, none
  <2> QED BY <1>2, <2>1, <2>2, <2>3 DEF RegistryType
<1> QED
  BY <1>1, <1>3, <1>4 DEF RegistryInv, OwnSysId, Registered, Entered, OwnIndex, RegistryData

\* Creating a thread gives it the next number, which nobody has before the
\* counter goes round (CMUTIL_ThreadCreateInternal).
LEMMA CreateKeeps ==
  ASSUME RegistryData, RegistryInv, NEW t \in ThreadObj, R!Create(t)
  PROVE  RegistryInv'
<1> DEFINE made == [pc |-> "created", id |-> R!NextIndex, thread |-> NULL,
                    sysid |-> NULL, isrunning |-> FALSE]
<1>1. R!NextIndex \in 1 .. MaxIndex
  BY DEF R!NextIndex, RegistryInv, RegistryType, RegistryData
<1>2. made \in ThreadRecord
  BY <1>1 DEF ThreadRecord
<1>3. /\ ~Here(t)
      /\ registry'.th = [registry.th EXCEPT ![t] = made]
      /\ registry'.threads = registry.threads
      /\ registry'.threadIndex = R!NextIndex
      /\ registry'.created = IF registry.created <= MaxIndex THEN registry.created + 1
                             ELSE registry.created
      /\ registry'.displaced = registry.displaced
  BY DEF R!Create, Here, RegistryInv, RegistryType
<1>4. RegistryType'
  <2> HIDE DEF made
  <2>1. registry'.th \in [ThreadObj -> ThreadRecord \cup {NULL}]
    BY <1>2, <1>3 DEF RegistryInv, RegistryType
  <2>2. registry'.threadIndex \in 0 .. MaxIndex /\ registry'.created \in 0 .. MaxIndex + 1
    BY <1>1, <1>3 DEF RegistryInv, RegistryType, RegistryData
  <2>3. registry' = [registry EXCEPT !.th = registry'.th, !.threadIndex = registry'.threadIndex,
                                     !.created = registry'.created]
    BY DEF R!Create, RegistryInv, RegistryType
  <2> QED BY <2>1, <2>2, <2>3 DEF RegistryInv, RegistryType
<1> HIDE DEF made
<1>5. /\ Here(t)' /\ registry'.th[t] = made
      /\ \A u \in ThreadObj \ {t} : registry'.th[u] = registry.th[u] /\ (Here(u)' <=> Here(u))
  BY <1>2, <1>3 DEF Here, RegistryInv, RegistryType, RegistryData
<1>6. made.pc = "created" /\ made.thread = NULL /\ made.id = R!NextIndex
  BY DEF made
<1>7. OwnSysId'
  BY <1>5, <1>6 DEF OwnSysId, RegistryInv
<1>8. Registered'
  <2>1. \A u \in ThreadObj : Entered(u)' <=> Entered(u)
    BY <1>3, <1>5, <1>6 DEF Entered
  <2>2. \A s \in DOMAIN registry.threads : registry.threads[s] \in ThreadObj \ {t}
    BY <1>3, InArray DEF RegistryInv, Registered, Entered
  <2> QED BY <1>3, <1>5, <2>1, <2>2 DEF RegistryInv, Registered, Entered
<1>9. OwnIndex'
  <2>1. SUFFICES ASSUME registry'.created <= MaxIndex
        PROVE  /\ registry.created < MaxIndex /\ registry'.created = registry.created + 1
               /\ R!NextIndex = registry.created + 1
    <3>1. registry.created \in Int /\ \A u \in ThreadObj : Here(u) => registry.th[u].id \in Int
      BY DEF RegistryInv, RegistryType, ThreadRecord, Here
    <3> QED BY <1>3, <1>5, <1>6, <2>1, <3>1 DEF RegistryInv, OwnIndex
  <2> QED BY <1>3, <2>1 DEF R!NextIndex, RegistryInv, OwnIndex, RegistryType, RegistryData
<1> QED BY <1>4, <1>7, <1>8, <1>9 DEF RegistryInv

\* The fields of one thread that is there change, not its number, and the
\* array may.
Turns(t, r, threads, displaced) ==
  /\ Here(t) /\ r \in ThreadRecord /\ r.id = registry.th[t].id
  /\ registry' = [registry EXCEPT !.th[t] = r, !.threads = threads, !.displaced = displaced]

\* Such a step touches no other thread and keeps types and numbers.
LEMMA TurnFacts ==
  ASSUME RegistryData, RegistryInv, NEW t \in ThreadObj, NEW r, NEW threads, NEW displaced,
         Turns(t, r, threads, displaced)
  PROVE  /\ threads \in Arrays /\ displaced \in BOOLEAN => RegistryType'
         /\ registry'.threads = threads /\ registry'.displaced = displaced
         /\ Here(t)' /\ registry'.th[t] = r
         /\ \A u \in ThreadObj \ {t} : registry'.th[u] = registry.th[u] /\ (Here(u)' <=> Here(u))
         /\ OwnIndex'
<1>1. /\ registry'.th = [registry.th EXCEPT ![t] = r]
      /\ registry'.threads = threads /\ registry'.displaced = displaced
      /\ registry'.threadIndex = registry.threadIndex
      /\ registry'.created = registry.created
  BY DEF Turns, RegistryInv, RegistryType
<1>2. /\ registry.th \in [ThreadObj -> ThreadRecord \cup {NULL}]
      /\ r \in ThreadRecord /\ r # NULL
      /\ Here(t) /\ r.id = registry.th[t].id
  BY DEF Turns, RegistryInv, RegistryType, RegistryData
<1>3. registry'.th[t] = r /\ \A u \in ThreadObj \ {t} : registry'.th[u] = registry.th[u]
  BY <1>1, <1>2
<1>4. Here(t)' /\ \A u \in ThreadObj \ {t} : (Here(u)' <=> Here(u))
  BY <1>2, <1>3 DEF Here
<1>5. ASSUME threads \in Arrays /\ displaced \in BOOLEAN PROVE RegistryType'
  <2>1. registry'.th \in [ThreadObj -> ThreadRecord \cup {NULL}]
    BY <1>1, <1>2
  <2> QED BY <1>1, <1>5, <2>1 DEF RegistryType, RegistryInv, Turns
<1>6. \A u \in ThreadObj : (Here(u)' <=> Here(u)) /\ registry'.th[u].id = registry.th[u].id
  BY <1>2, <1>3, <1>4
<1>7. OwnIndex'
  BY <1>1, <1>6 DEF OwnIndex, RegistryInv
<1> QED BY <1>1, <1>3, <1>4, <1>5, <1>7

\* A thread that has its id keeps it from one step to the next.
LEMMA TurnOwns ==
  ASSUME RegistryData, RegistryInv, NEW t \in ThreadObj, NEW r, NEW threads, NEW displaced,
         Turns(t, r, threads, displaced),
         registry.th[t].pc # "created", r.pc # "created",
         r.thread = registry.th[t].thread, r.sysid = r.thread
  PROVE  OwnSysId'
<1>1. /\ Here(t)' /\ Here(t) /\ registry'.th[t] = r
      /\ \A u \in ThreadObj \ {t} : registry'.th[u] = registry.th[u] /\ (Here(u)' <=> Here(u))
  BY TurnFacts DEF Turns
<1>2. r.thread \in SysId
  BY <1>1 DEF RegistryInv, OwnSysId
<1>3. \A u \in ThreadObj : (Here(u)' <=> Here(u)) /\ registry'.th[u].thread = registry.th[u].thread
  BY <1>1
<1>4. \A u \in ThreadObj : Here(u)' =>
         (IF registry.th[u].pc = "created" THEN registry.th[u].thread = NULL
         ELSE registry.th[u].thread \in SysId /\ registry.th[u].sysid = registry.th[u].thread)'
  BY <1>1, <1>2 DEF RegistryInv, OwnSysId
<1>5. (\A u, v \in ThreadObj :
         Here(u) /\ Here(v) /\ u # v /\ registry.th[u].thread # NULL
         => registry.th[u].thread # registry.th[v].thread)'
  BY <1>3 DEF RegistryInv, OwnSysId
<1> QED BY <1>4, <1>5 DEF OwnSysId

\* A step that neither enters a thread nor takes it out.
LEMMA TurnAside ==
  ASSUME RegistryData, RegistryInv, NEW t \in ThreadObj, NEW r,
         Turns(t, r, registry.threads, registry.displaced),
         r.pc \in {"running", "returned"} <=> Entered(t),
         Entered(t) => r.sysid = registry.th[t].sysid
  PROVE  RegistryType' /\ Registered'
<1>1. /\ Here(t)' /\ Here(t) /\ registry'.th[t] = r
      /\ \A u \in ThreadObj \ {t} : registry'.th[u] = registry.th[u] /\ (Here(u)' <=> Here(u))
      /\ registry'.threads = registry.threads /\ registry'.displaced = registry.displaced
  <2>1. Here(t)
    BY DEF Turns
  <2> QED BY <2>1, TurnFacts
<1>2. \A u \in ThreadObj :
        /\ Entered(u)' <=> Entered(u)
        /\ Entered(u) => registry'.th[u].sysid = registry.th[u].sysid
  BY <1>1 DEF Entered
<1>3. \A s \in DOMAIN registry.threads : registry.threads[s] \in ThreadObj
  BY InArray
<1>4. Registered'
  BY <1>1, <1>2, <1>3 DEF Registered, RegistryInv
<1>5. registry.threads \in Arrays /\ registry.displaced \in BOOLEAN
  BY DEF RegistryInv, RegistryType
<1> QED BY <1>4, <1>5, TurnFacts

\* Start: the thread gets an id no thread has that was not joined, or nothing
\* happens.
LEMMA StartKeeps ==
  ASSUME RegistryData, RegistryInv, NEW t \in ThreadObj, R!Start(t)
  PROVE  RegistryInv'
<1>1. CASE registry' = registry
  BY <1>1 DEF RegistryInv, RegistryType, OwnSysId, Registered, Entered, OwnIndex, Here
<1>2. CASE registry' # registry
  <2>1. PICK s \in SysId \ R!Taken :
          registry' = [registry EXCEPT !.th[t].pc = "starting", !.th[t].thread = s, !.th[t].sysid = s]
    BY <1>2 DEF R!Start
  <2> DEFINE r == [registry.th[t] EXCEPT !.pc = "starting", !.thread = s, !.sysid = s]
  <2>2. Here(t) /\ registry.th[t] \in ThreadRecord /\ registry.th[t].pc = "created"
    BY DEF R!Start, R!At, Here, RegistryInv, RegistryType
  <2>3. r \in ThreadRecord /\ r.id = registry.th[t].id /\ r.pc = "starting" /\ r.thread = s /\ r.sysid = s
    BY <2>2 DEF ThreadRecord
  <2>4. registry' = [registry EXCEPT !.th[t] = r, !.threads = registry.threads,
                                     !.displaced = registry.displaced]
    BY <2>1 DEF RegistryInv, RegistryType
  <2> HIDE DEF r
  <2>5. Turns(t, r, registry.threads, registry.displaced)
    BY <2>2, <2>3, <2>4 DEF Turns
  <2>6. RegistryType' /\ Registered'
    BY <2>2, <2>3, <2>5, TurnAside DEF Entered
  <2>7. OwnIndex' /\ Here(t)' /\ registry'.th[t] = r
        /\ \A u \in ThreadObj \ {t} : registry'.th[u] = registry.th[u] /\ (Here(u)' <=> Here(u))
    BY <2>5, TurnFacts
  <2>8. \A u \in ThreadObj : Here(u) /\ registry.th[u].thread # NULL => registry.th[u].thread # s
    BY DEF R!Taken, R!Started, Here
  <2>9. s # NULL
    BY DEF RegistryData
  <2>10. OwnSysId'
    BY <2>3, <2>7, <2>8, <2>9 DEF RegistryInv, OwnSysId
  <2> QED BY <2>6, <2>7, <2>10 DEF RegistryInv
<1> QED BY <1>1, <1>2

\* Enter, Return and Exit: the thread's own steps that leave the array alone.
LEMMA AsideKeeps ==
  ASSUME RegistryData, RegistryInv, NEW t \in ThreadObj,
         R!Enter(t) \/ R!Return(t) \/ R!Exit(t)
  PROVE  RegistryInv'
<1>1. Here(t) /\ registry.th[t] \in ThreadRecord /\ registry.th[t].pc \in {"starting", "running", "removed"}
  BY DEF R!Enter, R!Return, R!Exit, R!At, Here, RegistryInv, RegistryType
<1>2. registry.th[t].sysid = registry.th[t].thread
  BY <1>1, SMTT(60) DEF RegistryInv, OwnSysId
<1>3. PICK pc, running :
        /\ registry' = [registry EXCEPT !.th[t].pc = pc, !.th[t].isrunning = running]
        /\ running \in BOOLEAN
        /\ \/ registry.th[t].pc = "starting" /\ pc = "entered"
           \/ registry.th[t].pc = "running" /\ pc = "returned"
           \/ registry.th[t].pc = "removed" /\ pc = "over"
  <2>1. CASE R!Enter(t)
    <3> DEFINE q == [registry.th[t] EXCEPT !.pc = "entered", !.isrunning = TRUE]
    <3>1. q = [registry.th[t] EXCEPT !.pc = "entered", !.isrunning = TRUE,
                                     !.sysid = registry.th[t].thread]
      BY <1>1, <1>2 DEF ThreadRecord
    <3>2. registry' = [registry EXCEPT !.th[t] = q]
      BY <2>1, <3>1 DEF R!Enter, RegistryInv, RegistryType
    <3>3. registry' = [registry EXCEPT !.th[t].pc = "entered", !.th[t].isrunning = TRUE]
      BY <3>2 DEF RegistryInv, RegistryType
    <3> QED BY <2>1, <3>3 DEF R!Enter, R!At
  <2>2. CASE R!Return(t)
    <3> DEFINE q == [registry.th[t] EXCEPT !.pc = "returned"]
    <3>1. q = [registry.th[t] EXCEPT !.pc = "returned", !.isrunning = registry.th[t].isrunning]
          /\ registry.th[t].isrunning \in BOOLEAN
      BY <1>1 DEF ThreadRecord
    <3>2. registry' = [registry EXCEPT !.th[t] = q]
      BY <2>2 DEF R!Return, R!Go, RegistryInv, RegistryType
    <3>3. registry' = [registry EXCEPT !.th[t].pc = "returned",
                                       !.th[t].isrunning = registry.th[t].isrunning]
      BY <3>1, <3>2 DEF RegistryInv, RegistryType
    <3> QED BY <2>2, <3>1, <3>3 DEF R!Return, R!At
  <2>3. CASE R!Exit(t)
    BY <2>3 DEF R!Exit, R!At
  <2> QED BY <2>1, <2>2, <2>3
<1> DEFINE r == [registry.th[t] EXCEPT !.pc = pc, !.isrunning = running]
<1>4. /\ r \in ThreadRecord /\ r.id = registry.th[t].id /\ r.pc = pc
      /\ r.thread = registry.th[t].thread /\ r.sysid = registry.th[t].sysid
  BY <1>1, <1>3 DEF ThreadRecord
<1>5. registry' = [registry EXCEPT !.th[t] = r, !.threads = registry.threads,
                                   !.displaced = registry.displaced]
  BY <1>3 DEF RegistryInv, RegistryType
<1> HIDE DEF r
<1>6. Turns(t, r, registry.threads, registry.displaced)
  BY <1>1, <1>4, <1>5 DEF Turns
<1>7. RegistryType' /\ Registered'
  BY <1>1, <1>3, <1>4, <1>6, TurnAside DEF Entered
<1>8. OwnSysId'
  BY <1>1, <1>2, <1>3, <1>4, <1>6, TurnOwns
<1>9. OwnIndex'
  BY <1>6, TurnFacts
<1> QED BY <1>7, <1>8, <1>9 DEF RegistryInv

\* Register: the thread's id is not in the array, for whoever is there under
\* an id has it for its own; so nobody is displaced.
LEMMA RegisterKeeps ==
  ASSUME RegistryData, RegistryInv, NEW t \in ThreadObj, R!Register(t)
  PROVE  RegistryInv'
<1>1. Here(t) /\ registry.th[t] \in ThreadRecord /\ registry.th[t].pc = "entered"
  BY DEF R!Register, R!At, Here, RegistryInv, RegistryType
<1>2. registry.th[t].sysid \in SysId /\ registry.th[t].sysid = registry.th[t].thread
  BY <1>1 DEF RegistryInv, OwnSysId
<1>3. \A s \in DOMAIN registry.threads : registry.threads[s] \in ThreadObj
  BY InArray
<1>4. registry.th[t].sysid \notin DOMAIN registry.threads
  <2>1. SUFFICES ASSUME registry.th[t].sysid \in DOMAIN registry.threads PROVE FALSE
    OBVIOUS
  <2> DEFINE u == registry.threads[registry.th[t].sysid]
  <2>2. u \in ThreadObj /\ Entered(u) /\ registry.th[u].sysid = registry.th[t].sysid
    BY <1>3, <2>1 DEF RegistryInv, Registered
  <2>3. u # t /\ Here(u) /\ registry.th[u].thread = registry.th[u].sysid
    BY <1>1, <2>2 DEF Entered, RegistryInv, OwnSysId
  <2>4. registry.th[t].thread # NULL
    BY <1>2 DEF RegistryData
  <2> HIDE DEF u
  <2> QED BY <1>1, <1>2, <2>2, <2>3, <2>4 DEF RegistryInv, OwnSysId
<1> DEFINE r == [registry.th[t] EXCEPT !.pc = "running"]
<1>5. /\ r \in ThreadRecord /\ r.id = registry.th[t].id /\ r.pc = "running"
      /\ r.thread = registry.th[t].thread /\ r.sysid = registry.th[t].sysid
  BY <1>1 DEF ThreadRecord
<1>6. registry' = [registry EXCEPT !.th[t] = r, !.threads = R!Added(t), !.displaced = FALSE]
  BY <1>4 DEF R!Register, R!Go, RegistryInv, RegistryType, Registered
<1> HIDE DEF r
<1>7. Turns(t, r, R!Added(t), FALSE)
  BY <1>1, <1>5, <1>6 DEF Turns
<1>8. /\ DOMAIN R!Added(t) = DOMAIN registry.threads \cup {registry.th[t].sysid}
      /\ R!Added(t)[registry.th[t].sysid] = t
      /\ \A s \in DOMAIN registry.threads : R!Added(t)[s] = registry.threads[s]
  BY <1>4 DEF R!Added
<1>9. R!Added(t) \in Arrays
  <2>1. DOMAIN registry.threads \subseteq SysId
    BY DEF RegistryInv, RegistryType, Arrays
  <2>2. R!Added(t) \in [DOMAIN registry.threads \cup {registry.th[t].sysid} -> ThreadObj]
    BY <1>3 DEF R!Added
  <2> QED BY <1>2, <2>1, <2>2 DEF Arrays
<1>10. RegistryType' /\ OwnIndex'
  BY <1>7, <1>9, TurnFacts
<1>11. OwnSysId'
  BY <1>1, <1>2, <1>5, <1>7, TurnOwns
<1>12. /\ registry'.threads = R!Added(t) /\ ~registry'.displaced
       /\ Here(t)' /\ registry'.th[t] = r
       /\ \A u \in ThreadObj \ {t} : registry'.th[u] = registry.th[u] /\ (Here(u)' <=> Here(u))
  BY <1>7, TurnFacts
<1>13. Entered(t)' /\ ~Entered(t) /\ \A u \in ThreadObj \ {t} : Entered(u)' <=> Entered(u)
  BY <1>1, <1>5, <1>12 DEF Entered
<1>14. \A s \in DOMAIN registry.threads : registry.threads[s] \in ThreadObj \ {t}
  BY <1>3, <1>13 DEF RegistryInv, Registered
<1>15. \A s \in DOMAIN R!Added(t), u \in ThreadObj :
         R!Added(t)[s] = u => Entered(u)' /\ registry'.th[u].sysid = s
  BY <1>5, <1>8, <1>12, <1>13, <1>14 DEF RegistryInv, Registered
<1>16. \A u \in ThreadObj : Entered(u)' =>
         registry'.th[u].sysid \in DOMAIN R!Added(t) /\ R!Added(t)[registry'.th[u].sysid] = u
  BY <1>5, <1>8, <1>12, <1>13 DEF RegistryInv, Registered
<1>17. Registered'
  BY <1>8, <1>12, <1>14, <1>15, <1>16 DEF Registered
<1> QED BY <1>10, <1>11, <1>17 DEF RegistryInv

\* Unregister: what the thread takes out of the array is itself.
LEMMA UnregisterKeeps ==
  ASSUME RegistryData, RegistryInv, NEW t \in ThreadObj, R!Unregister(t)
  PROVE  RegistryInv'
<1> DEFINE left == [s \in DOMAIN registry.threads \ {registry.th[t].sysid} |-> registry.threads[s]]
<1>1. /\ Here(t) /\ registry.th[t] \in ThreadRecord /\ registry.th[t].pc = "returned"
      /\ Entered(t)
  BY DEF R!Unregister, R!At, Here, Entered, RegistryInv, RegistryType
<1>2. registry.th[t].sysid = registry.th[t].thread /\ registry.threads[registry.th[t].sysid] = t
  BY <1>1 DEF RegistryInv, OwnSysId, Registered
<1>3. \A s \in DOMAIN registry.threads : registry.threads[s] \in ThreadObj
  BY InArray
<1> DEFINE r == [registry.th[t] EXCEPT !.pc = "removed"]
<1>4. /\ r \in ThreadRecord /\ r.id = registry.th[t].id /\ r.pc = "removed"
      /\ r.thread = registry.th[t].thread /\ r.sysid = registry.th[t].sysid
  BY <1>1 DEF ThreadRecord
<1>5. registry' = [registry EXCEPT !.th[t] = r, !.threads = left, !.displaced = registry.displaced]
  BY DEF R!Unregister, R!Go, RegistryInv, RegistryType
<1>6. /\ DOMAIN left = DOMAIN registry.threads \ {registry.th[t].sysid}
      /\ \A s \in DOMAIN left : left[s] = registry.threads[s]
  OBVIOUS
<1>7. left \in Arrays
  <2>1. DOMAIN registry.threads \subseteq SysId
    BY DEF RegistryInv, RegistryType, Arrays
  <2>2. left \in [DOMAIN registry.threads \ {registry.th[t].sysid} -> ThreadObj]
    BY <1>3
  <2> QED BY <2>1, <2>2 DEF Arrays
<1> HIDE DEF r, left
<1>8. Turns(t, r, left, registry.displaced)
  BY <1>1, <1>4, <1>5 DEF Turns
<1>9. RegistryType' /\ OwnIndex'
  BY <1>7, <1>8, TurnFacts DEF RegistryInv, RegistryType
<1>10. OwnSysId'
  BY <1>1, <1>2, <1>4, <1>8, TurnOwns
<1>11. /\ registry'.threads = left /\ registry'.displaced = registry.displaced
       /\ registry'.th[t] = r
       /\ \A u \in ThreadObj \ {t} : registry'.th[u] = registry.th[u] /\ (Here(u)' <=> Here(u))
  BY <1>8, TurnFacts
<1>12. ~Entered(t)' /\ \A u \in ThreadObj \ {t} : Entered(u)' <=> Entered(u)
  BY <1>4, <1>11 DEF Entered
<1>13. \A s \in DOMAIN left : left[s] \in ThreadObj \ {t}
  BY <1>3, <1>6 DEF RegistryInv, Registered
<1>14. \A s \in DOMAIN left, u \in ThreadObj :
         left[s] = u => Entered(u)' /\ registry'.th[u].sysid = s
  BY <1>6, <1>11, <1>12, <1>13 DEF RegistryInv, Registered
<1>15. \A u \in ThreadObj : Entered(u)' =>
         registry'.th[u].sysid \in DOMAIN left /\ left[registry'.th[u].sysid] = u
  BY <1>2, <1>6, <1>11, <1>12 DEF RegistryInv, Registered
<1>16. Registered'
  BY <1>11, <1>13, <1>14, <1>15 DEF Registered, RegistryInv
<1> QED BY <1>9, <1>10, <1>16 DEF RegistryInv

\* Join frees a thread that is not in the array.
LEMMA JoinKeeps ==
  ASSUME RegistryData, RegistryInv, NEW t \in ThreadObj, R!Join(t)
  PROVE  RegistryInv'
<1>1. /\ registry'.th = [registry.th EXCEPT ![t] = NULL]
      /\ registry'.threads = registry.threads /\ registry'.displaced = registry.displaced
      /\ registry'.threadIndex = registry.threadIndex
      /\ registry'.created = registry.created
      /\ RegistryType'
  BY DEF R!Join, RegistryInv, RegistryType
<1>2. ~Here(t)' /\ \A u \in ThreadObj \ {t} : registry'.th[u] = registry.th[u] /\ (Here(u)' <=> Here(u))
  BY <1>1 DEF Here, RegistryInv, RegistryType
<1>3. ~Entered(t) /\ \A u \in ThreadObj :
        /\ Entered(u)' <=> Entered(u)
        /\ Entered(u) => registry'.th[u] = registry.th[u]
  BY <1>2 DEF Entered, R!Join, R!At
<1>4. Registered'
  BY <1>1, <1>3, InArray DEF Registered, RegistryInv
<1>5. OwnSysId'
  BY <1>2 DEF OwnSysId, RegistryInv
<1>6. OwnIndex'
  BY <1>1, <1>2 DEF OwnIndex, RegistryInv
<1> QED BY <1>1, <1>4, <1>5, <1>6 DEF RegistryInv

\* The invariant says what the threads and their users see.
LEMMA RegistrySound ==
  ASSUME RegistryData, RegistryInv
  PROVE  R!ThreadsSound
<1>1. \A t \in ThreadObj : R!At(t, "running") =>
        /\ R!ThreadSelf(registry.th[t].sysid) = t
        /\ R!ThreadSelfId(registry.th[t].sysid) = registry.th[t].id
  BY DEF R!At, R!ThreadSelf, R!ThreadSelfId, RegistryInv, Registered, Entered, Here, RegistryData
<1>2. \A s \in DOMAIN registry.threads :
        LET t == registry.threads[s]
        IN  registry.th[t] # NULL /\ registry.th[t].sysid = s /\ registry.th[t].pc \in {"running", "returned"}
  BY DEF RegistryInv, Registered, Entered, Here
<1>3. \A t \in ThreadObj : registry.th[t] # NULL => registry.th[t].id \in 1 .. MaxIndex
  BY DEF RegistryInv, RegistryType, ThreadRecord
<1>4. registry.created <= MaxIndex =>
        \A t, u \in ThreadObj : registry.th[t] # NULL /\ registry.th[u] # NULL /\ t # u
          => registry.th[t].id # registry.th[u].id
  BY DEF RegistryInv, OwnIndex, Here
<1> QED BY <1>1, <1>2, <1>3, <1>4 DEF R!ThreadsSound, RegistryInv, Registered

\* The registry of threads, for any number of threads, created, started and
\* joined in any order, and any number of ids the system has and hands out
\* again: a running thread finds itself, no entry outlives its thread, nobody
\* is displaced, and ids differ until their counter goes round.
THEOREM RegistryOfThreads ==
  ASSUME RegistryData
  PROVE  R!Spec => []R!ThreadsSound
<1>1. R!Init => RegistryInv
  BY RegistryInit
<1>2. RegistryInv /\ [R!Next]_(R!vars) => RegistryInv'
  <2>1. ASSUME RegistryInv, R!Next PROVE RegistryInv'
    <3>1. PICK t \in ThreadObj :
            \/ R!Create(t) \/ R!Start(t) \/ R!Enter(t) \/ R!Register(t) \/ R!Return(t)
            \/ R!Unregister(t) \/ R!Exit(t) \/ R!Join(t)
      BY <2>1 DEF R!Next
    <3> QED
      BY <2>1, <3>1, CreateKeeps, StartKeeps, AsideKeeps, RegisterKeeps, UnregisterKeeps, JoinKeeps
  <2>2. ASSUME RegistryInv, UNCHANGED R!vars PROVE RegistryInv'
    BY <2>2 DEF R!vars, RegistryInv, RegistryType, OwnSysId, Registered, Entered, OwnIndex, Here
  <2> QED BY <2>1, <2>2
<1>3. RegistryInv => R!ThreadsSound
  BY RegistrySound
<1> QED BY <1>1, <1>2, <1>3, PTL DEF R!Spec
=============================================================================
