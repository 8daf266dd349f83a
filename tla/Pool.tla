--------------------------------- MODULE Pool ---------------------------------
(***************************************************************************)
(* CMUTIL_Pool of src/pool.c: a list of available resources, a semaphore   *)
(* that limits how many are checked out, and a repeating timer task that   *)
(* tests the idle ones.  Every section of avlmtx is one step.  What the    *)
(* callbacks answer is free: createf may fail, testf may refuse.           *)
(*                                                                         *)
(* The ping task is a task of a timer that is the pool's own (intimer) or  *)
(* the caller's; of the timer only what Timer.tla shows is used: a         *)
(* destroyed timer runs nothing any more, and a cancel returns once the    *)
(* task has finished or after it has given up waiting.                     *)
(***************************************************************************)
EXTENDS Naturals, Sequences, SequencesExt, FiniteSets

CONSTANTS
  Clients,        \* threads that use the pool
  Ping,           \* the timer's worker, running PoolPingTester
  Resources,      \* resources that exist at the same time (bound of the model)
  InitCnts,       \* initcnt arguments
  MaxCnt,         \* maxcnt argument
  OwnTimer,       \* pool->intimer: no timer was given
  SlowPing        \* a ping may outlast CMUTIL_TIMER_CANCEL_WAIT

None == "none"
ASSUME NamesAssumption == Ping \notin Clients /\ None \notin Resources
ASSUME CountsAssumption == MaxCnt \in Nat \ {0} /\ InitCnts \subseteq Nat
ASSUME BooleanAssumption == {OwnTimer, SlowPing} \subseteq BOOLEAN
ASSUME ResourcesAssumption ==
  IsFiniteSet(Resources) /\ \A n \in InitCnts : n <= Cardinality(Resources)

Users == Clients \cup {Ping}

VARIABLES
  factory,        \* a createf was given
  testonb,        \* pool->testonb
  semp,           \* permits of pool->semp
  avail,          \* pool->avail
  totcnt,         \* pool->totcnt
  maxcnt,         \* pool->maxcnt
  place,          \* where each user is
  res,            \* the resource a call works on
  held,           \* what each client has checked out
  left,           \* what is left of the ping's loop
  pinging,        \* the ping task has not been cancelled
  pool,           \* "live", "cancel" inside Destroy, or "freed"
  permits         \* permits there have been, taken or not

options == <<factory, testonb>>
counts == <<totcnt, maxcnt>>
life == <<pinging, pool>>
vars == <<options, semp, avail, counts, place, res, held, left, life, permits>>

\* Resources that are checked out, those that exist, and one that does not yet.
Held == UNION {held[c] : c \in Clients}
Living == ToSet(avail) \cup Held \cup ({res[u] : u \in Users} \ {None})
CanCreate == Resources \ Living # {}
New == CHOOSE r \in Resources : r \notin Living

Init ==
  /\ factory \in BOOLEAN /\ testonb \in BOOLEAN
  /\ \E initcnt \in InitCnts :
       /\ \E n \in 0 .. (IF factory THEN initcnt ELSE 0) :
            /\ avail = SubSeq(SetToSeq(Resources), 1, n)
            /\ totcnt = n
       /\ maxcnt = IF initcnt > MaxCnt THEN initcnt ELSE MaxCnt
  /\ semp = MaxCnt
  /\ permits = MaxCnt
  /\ place = [u \in Users |-> "out"]
  /\ res = [u \in Users |-> None]
  /\ held = [c \in Clients |-> {}]
  /\ left = 0
  /\ pinging = TRUE
  /\ pool = "live"

------------------------------------------------------------------------------
Goto(u, p) == place' = [place EXCEPT ![u] = p]
Carry(u, r) == res' = [res EXCEPT ![u] = r]

(* CheckOut, called by a client or by the ping *)

\* "acquire" waits with a limit, "await" without; a client that waits without
\* limit holds nothing that others may be waiting for.
CheckOut(c) ==
  /\ pool = "live"
  /\ place[c] = "out"
  /\ \/ Goto(c, "acquire")
     \/ held[c] = {} /\ Goto(c, "await")
  /\ UNCHANGED <<options, semp, avail, counts, res, held, left, life, permits>>

Acquire(u) ==
  /\ place[u] \in {"acquire", "await"}
  /\ semp > 0
  /\ semp' = semp - 1
  /\ Goto(u, "take")
  /\ UNCHANGED <<options, avail, counts, res, held, left, life, permits>>

AcquireTimeout(u) ==
  /\ place[u] = "acquire"
  /\ semp = 0
  /\ Goto(u, IF u = Ping THEN "loop" ELSE "out")
  /\ UNCHANGED <<options, semp, avail, counts, res, held, left, life, permits>>

\* A wrong variant: a first resource that is handed out and stays in the list.
TakeShared == UNCHANGED avail
TakeFirst == avail' = Tail(avail)
CountCreated == totcnt' = totcnt + 1

\* The section of avlmtx: an available resource, or a new one.
Take(u) ==
  /\ place[u] = "take"
  /\ \/ /\ avail # << >>
        /\ TakeFirst
        /\ Carry(u, Head(avail))
        /\ Goto(u, "test")
        /\ UNCHANGED totcnt
     \/ /\ avail = << >> /\ factory /\ CanCreate
        /\ CountCreated
        /\ Carry(u, New)
        /\ Goto(u, "test")
        /\ UNCHANGED avail
     \/ /\ avail = << >>
        /\ Goto(u, "miss")
        /\ UNCHANGED <<avail, totcnt, res>>
  /\ UNCHANGED <<options, semp, maxcnt, held, left, life, permits>>

\* Where a successful CheckOut returns to.
Obtained(u, r) ==
  IF u = Ping
    THEN Goto(u, "pingtest") /\ Carry(u, r) /\ UNCHANGED held
    ELSE /\ Goto(u, "out")
         /\ Carry(u, None)
         /\ held' = [held EXCEPT ![u] = @ \cup {r}]

\* Test on borrow; a resource that fails is destroyed.
Test(u) ==
  /\ place[u] = "test"
  /\ \/ Obtained(u, res[u])
     \/ testonb /\ Goto(u, "recreate") /\ Carry(u, None) /\ UNCHANGED held
  /\ UNCHANGED <<options, semp, avail, counts, left, life, permits>>

Recreate(u) ==
  /\ place[u] = "recreate"
  /\ \/ factory /\ CanCreate /\ Obtained(u, New)
     \/ Goto(u, "uncount") /\ UNCHANGED <<res, held>>
  /\ UNCHANGED <<options, semp, avail, counts, left, life, permits>>

\* The section that forgets a resource that could not be replaced.
Uncount(u) ==
  /\ place[u] \in {"uncount", "pinguncount"}
  /\ totcnt' = IF totcnt > 0 THEN totcnt - 1 ELSE 0
  /\ Goto(u, "miss")
  /\ UNCHANGED <<options, semp, avail, maxcnt, res, held, left, life, permits>>

\* A wrong variant of Miss: the permit is not given back.
MissKeepsPermit(u) ==
  /\ place[u] = "miss"
  /\ Goto(u, IF u = Ping THEN "loop" ELSE "out")
  /\ UNCHANGED <<options, semp, avail, counts, res, held, left, life, permits>>

\* The permit of a call that ends with nothing is given back.
Miss(u) ==
  /\ place[u] = "miss"
  /\ semp' = semp + 1
  /\ Goto(u, IF u = Ping THEN "loop" ELSE "out")
  /\ UNCHANGED <<options, avail, counts, res, held, left, life, permits>>

------------------------------------------------------------------------------
(* Release and AddResource *)

Release(c) ==
  /\ pool = "live"
  /\ place[c] = "out"
  /\ \E r \in held[c] :
       /\ held' = [held EXCEPT ![c] = @ \ {r}]
       /\ avail' = Append(avail, r)
  /\ Goto(c, "post")
  /\ UNCHANGED <<options, semp, counts, res, left, life, permits>>

Post(u) ==
  /\ place[u] = "post"
  /\ semp' = semp + 1
  /\ Goto(u, IF u = Ping THEN "loop" ELSE "out")
  /\ UNCHANGED <<options, avail, counts, res, held, left, life, permits>>

Grows == totcnt + 1 > maxcnt

\* A resource from outside; one more than maxcnt raises maxcnt and the permits.
AddResource(c) ==
  /\ pool = "live"
  /\ place[c] = "out"
  /\ CanCreate
  /\ avail' = Append(avail, New)
  /\ totcnt' = totcnt + 1
  /\ IF Grows
       THEN maxcnt' = maxcnt + 1 /\ permits' = permits + 1 /\ Goto(c, "post")
       ELSE UNCHANGED <<maxcnt, permits, place>>
  /\ UNCHANGED <<options, semp, res, held, left, life>>

------------------------------------------------------------------------------
(* PoolPingTester; the size of the list is read without avlmtx *)

PingStart ==
  /\ pinging
  /\ place[Ping] = "out"
  /\ left' = Len(avail)
  /\ Goto(Ping, "loop")
  /\ UNCHANGED <<options, semp, avail, counts, res, held, life, permits>>

PingLoop ==
  /\ place[Ping] = "loop"
  /\ IF left > 0
       THEN left' = left - 1 /\ Goto(Ping, "acquire")
       ELSE Goto(Ping, "out") /\ UNCHANGED left
  /\ UNCHANGED <<options, semp, avail, counts, res, held, life, permits>>

\* The ping's own test, unless CheckOut has tested already.
PingTest ==
  /\ place[Ping] = "pingtest"
  /\ \/ Goto(Ping, "pingrelease") /\ UNCHANGED res
     \/ ~testonb /\ Goto(Ping, "pingrecreate") /\ Carry(Ping, None)
  /\ UNCHANGED <<options, semp, avail, counts, held, left, life, permits>>

PingRecreate ==
  /\ place[Ping] = "pingrecreate"
  /\ \/ factory /\ CanCreate /\ Carry(Ping, New) /\ Goto(Ping, "pingrelease")
     \/ Goto(Ping, "pinguncount") /\ UNCHANGED res
  /\ UNCHANGED <<options, semp, avail, counts, held, left, life, permits>>

\* A wrong variant of PingRelease: the permit is not posted.
PingReleaseOnly ==
  /\ place[Ping] = "pingrelease"
  /\ avail' = Append(avail, res[Ping])
  /\ Carry(Ping, None)
  /\ Goto(Ping, "loop")
  /\ UNCHANGED <<options, semp, counts, held, left, life, permits>>
PingRelease ==
  /\ place[Ping] = "pingrelease"
  /\ avail' = Append(avail, res[Ping])
  /\ Carry(Ping, None)
  /\ Goto(Ping, "post")
  /\ UNCHANGED <<options, semp, counts, held, left, life, permits>>

------------------------------------------------------------------------------
(* Destroy: no other call is under way, and none follows *)

\* The timer is destroyed, or the task cancelled: it does not start again.
DestroyCall ==
  /\ pool = "live"
  /\ \A c \in Clients : place[c] = "out"
  /\ pinging' = FALSE
  /\ pool' = "cancel"
  /\ UNCHANGED <<options, semp, avail, counts, place, res, held, left, permits>>

\* A wrong variant of PingOver: a timer that is the pool's own is not waited
\* for either.
PingNotAwaited == TRUE
PingOver == place[Ping] = "out" \/ (~OwnTimer /\ SlowPing)

\* Destroying a timer joins its workers; cancelling waits, and may give up.
DestroyFree ==
  /\ pool = "cancel"
  /\ PingOver
  /\ pool' = "freed"
  /\ avail' = << >>
  /\ UNCHANGED <<options, semp, counts, place, res, held, left, pinging, permits>>

------------------------------------------------------------------------------
CallStep(u) ==
  \/ Acquire(u) \/ AcquireTimeout(u) \/ Take(u) \/ Test(u) \/ Recreate(u)
  \/ Uncount(u) \/ Miss(u) \/ Post(u)

PingStep == PingLoop \/ PingTest \/ PingRecreate \/ PingRelease

Next ==
  \/ \E u \in Users : CallStep(u)
  \/ \E c \in Clients : CheckOut(c) \/ Release(c) \/ AddResource(c)
  \/ PingStart \/ PingStep
  \/ DestroyCall \/ DestroyFree

\* Calls and the ping proceed, callbacks return, and a thread that waits for
\* a permit is not passed over for ever.  Of the clients it is assumed that
\* they give back: without that no CheckOut could be promised a resource.
Fairness ==
  /\ \A u \in Users : WF_vars(CallStep(u))
  /\ \A c \in Clients : SF_vars(Acquire(c)) /\ SF_vars(Release(c))
  /\ WF_vars(PingStep) /\ WF_vars(DestroyFree)

Safety == Init /\ [][Next]_vars

Spec == Safety /\ Fairness

------------------------------------------------------------------------------
TypeOK ==
  /\ {factory, testonb, pinging} \subseteq BOOLEAN
  /\ semp \in Nat
  /\ avail \in Seq(Resources)
  /\ totcnt \in Nat /\ maxcnt \in Nat /\ left \in Nat /\ permits \in Nat
  /\ place \in [Users -> {"out", "acquire", "await", "take", "test", "recreate",
                          "uncount", "miss", "post", "loop", "pingtest",
                          "pingrecreate", "pinguncount", "pingrelease"}]
  /\ res \in [Users -> Resources \cup {None}]
  /\ held \in [Clients -> SUBSET Resources]
  /\ pool \in {"live", "cancel", "freed"}

\* A resource has one owner: the list, one client, or one call.
OneOwner ==
  /\ IsInjective(avail)
  /\ \A c, d \in Clients : c # d => held[c] \cap held[d] = {}
  /\ \A u, v \in Users :
       res[u] # None =>
         /\ u # v => res[u] # res[v]
         /\ res[u] \notin ToSet(avail) \cup Held
  /\ ToSet(avail) \cap Held = {}

\* Users whose resource is destroyed, still counted, and not replaced yet.
Replacing ==
  {u \in Users : place[u] \in {"recreate", "uncount", "pingrecreate", "pinguncount"}}

\* totcnt is the number of resources there are, wherever they are, plus those
\* that are just being replaced.
TotcntExact ==
  pool # "freed" => totcnt = Cardinality(Living) + Cardinality(Replacing)

\* The pool never holds more than maxcnt, although creation only looks at the
\* list: the permits see to it.
WithinMaximum == totcnt <= maxcnt

\* Users that own a permit or are about to give one back.
Permitted == {u \in Users : place[u] \notin {"out", "acquire", "await", "loop"}}

\* No permit is lost or made: every permit is in the semaphore, stands for a
\* resource that is checked out, or belongs to a call under way.
PermitsExact ==
  permits = semp + Cardinality(Held) + Cardinality(Permitted)

\* The counter, the maximum and the permits agree with where the resources
\* are, after every creation, test and replacement that fails half way.
CountsExact == TypeOK /\ TotcntExact /\ WithinMaximum /\ PermitsExact

\* Once the pool is freed nothing of the ping touches it.
NoUseAfterFree == pool = "freed" => place[Ping] = "out"

\* A CheckOut without a limit returns if clients give back what they hold:
\* neither failed creations nor the ping eat up the permits.
CheckOutReturns == \A c \in Clients : place[c] # "out" ~> place[c] = "out"
==============================================================================
