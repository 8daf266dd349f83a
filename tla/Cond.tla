-------------------------------- MODULE Cond --------------------------------
(***************************************************************************)
(* CMUTIL_Cond of src/concurrent.c, POSIX build: a boolean state guarded   *)
(* by a mutex, and a condition variable on which the waiters sleep.        *)
(* COND_SIGNAL wakes one sleeper only, so a manual-reset object releases   *)
(* its waiters in a chain: each one that gets through signals the next.    *)
(***************************************************************************)
EXTENDS Naturals, FiniteSets

CONSTANTS
  Threads,        \* the threads that share the object
  Nobody          \* the owner of a free mutex

ASSUME ThreadsAssumption == Nobody \notin Threads

VARIABLES
  manualrst,      \* icond->manualrst, fixed by CondCreate
  state,          \* icond->state
  mutex,          \* who owns icond->mutex
  pc,             \* where each thread is inside the object
  timed           \* the thread's current wait has a time limit

vars == <<manualrst, state, mutex, pc, timed>>

\* "out"     not inside the object
\* "test"    owns the mutex, is about to evaluate !icond->state
\* "park"    owns the mutex, found the state unset, is about to COND_WAIT
\* "asleep"  in COND_WAIT / COND_TIMEDWAIT, has released the mutex
\* "woken"   left the condition variable, has to own the mutex again
\* "expired" left it on COND_TIMEDOUT, has to own the mutex again
\* "late"    owns the mutex after COND_TIMEDOUT: the loop is over
\* "grant"   owns the mutex and found the state set
Places == {"out", "test", "park", "asleep", "woken", "expired", "late", "grant"}

Owning == {"test", "park", "late", "grant"}
Asleep == {t \in Threads : pc[t] = "asleep"}

Init ==
  /\ manualrst \in BOOLEAN
  /\ state = FALSE
  /\ mutex = Nobody
  /\ pc = [t \in Threads |-> "out"]
  /\ timed = [t \in Threads |-> FALSE]

------------------------------------------------------------------------------
Lock(t) == mutex = Nobody /\ mutex' = t
Unlock(t) == mutex = t /\ mutex' = Nobody

Goto(t, place) == pc' = [pc EXCEPT ![t] = place]

\* COND_SIGNAL together with t's own move to place: one sleeper, if there is
\* one, leaves the condition variable.
SignalAndGoto(t, place) ==
  IF Asleep = {}
    THEN Goto(t, place)
    ELSE \E s \in Asleep : pc' = [pc EXCEPT ![s] = "woken", ![t] = place]

\* Wrong variants: a Set that does not take the mutex, a time limit that wins
\* over a state set meanwhile, a failed wait that leaves the mutex locked, and
\* a manual-reset waiter that does not pass the signal on.
SetUnlocked(t) ==
  /\ pc[t] = "out"
  /\ state' = TRUE
  /\ SignalAndGoto(t, "out")
  /\ UNCHANGED <<manualrst, mutex, timed>>
LateIgnoresState(t) ==
  /\ pc[t] = "late"
  /\ Unlock(t)
  /\ Goto(t, "out")
  /\ UNCHANGED <<manualrst, state, timed>>
LateKeepsMutex(t) ==
  /\ pc[t] = "late"
  /\ Goto(t, IF state THEN "grant" ELSE "out")
  /\ UNCHANGED <<manualrst, state, mutex, timed>>
GrantNoChain(t) ==
  /\ pc[t] = "grant"
  /\ Unlock(t)
  /\ Goto(t, "out")
  /\ state' = manualrst
  /\ UNCHANGED <<manualrst, timed>>

\* Wait and TimedWait with a nonzero limit, up to the first test.
WaitCall(t) ==
  /\ pc[t] = "out"
  /\ Lock(t)
  /\ Goto(t, "test")
  /\ \E limit \in BOOLEAN : timed' = [timed EXCEPT ![t] = limit]
  /\ UNCHANGED <<manualrst, state>>

\* The condition of the waiting loop, evaluated while owning the mutex.
Test(t) ==
  /\ pc[t] = "test"
  /\ Goto(t, IF state THEN "grant" ELSE "park")
  /\ UNCHANGED <<manualrst, state, mutex, timed>>

\* COND_WAIT: release the mutex and sleep in one step.
Park(t) ==
  /\ pc[t] = "park"
  /\ Unlock(t)
  /\ Goto(t, "asleep")
  /\ UNCHANGED <<manualrst, state, timed>>

\* A condition variable may wake a sleeper without a signal.
SpuriousWakeup(t) ==
  /\ pc[t] = "asleep"
  /\ Goto(t, "woken")
  /\ UNCHANGED <<manualrst, state, mutex, timed>>

\* COND_TIMEDWAIT reaches its limit.
Expire(t) ==
  /\ pc[t] = "asleep"
  /\ timed[t]
  /\ Goto(t, "expired")
  /\ UNCHANGED <<manualrst, state, mutex, timed>>

\* The condition variable hands the mutex back to the caller.
Reacquire(t) ==
  /\ \/ pc[t] = "woken" /\ Goto(t, "test")
     \/ pc[t] = "expired" /\ Goto(t, "late")
  /\ Lock(t)
  /\ UNCHANGED <<manualrst, state, timed>>

\* After a timeout the state decides, not the return code of the wait.
Late(t) ==
  /\ pc[t] = "late"
  /\ \/ state /\ Goto(t, "grant") /\ UNCHANGED mutex
     \/ ~state /\ Goto(t, "out") /\ Unlock(t)
  /\ UNCHANGED <<manualrst, state, timed>>

\* A successful wait: pass the signal on, or consume the state, and leave.
Grant(t) ==
  /\ pc[t] = "grant"
  /\ Unlock(t)
  /\ IF manualrst
       THEN SignalAndGoto(t, "out") /\ UNCHANGED state
       ELSE Goto(t, "out") /\ state' = FALSE
  /\ UNCHANGED <<manualrst, timed>>

\* TimedWait with limit zero: never sleeps, only looks.
Poll(t) ==
  /\ pc[t] = "out"
  /\ mutex = Nobody
  /\ IF state /\ manualrst
       THEN SignalAndGoto(t, "out") /\ UNCHANGED state
       ELSE state' = FALSE /\ UNCHANGED pc
  /\ UNCHANGED <<manualrst, mutex, timed>>

\* Set: the state changes and the signal is sent under the mutex.
Set(t) ==
  /\ pc[t] = "out"
  /\ mutex = Nobody
  /\ state' = TRUE
  /\ SignalAndGoto(t, "out")
  /\ UNCHANGED <<manualrst, mutex, timed>>

Reset(t) ==
  /\ pc[t] = "out"
  /\ mutex = Nobody
  /\ state' = FALSE
  /\ UNCHANGED <<manualrst, mutex, pc, timed>>

\* The steps of a wait that is already under way.
WaitStep(t) ==
  \/ Test(t) \/ Park(t) \/ Reacquire(t) \/ Late(t) \/ Grant(t)

Next ==
  \E t \in Threads :
    \/ WaitCall(t) \/ WaitStep(t)
    \/ SpuriousWakeup(t) \/ Expire(t)
    \/ Poll(t) \/ Set(t) \/ Reset(t)

\* A thread inside a wait keeps running, and one that wants the mutex back is
\* not passed over for ever; callers are free to call, or not, at any time.
Fairness ==
  \A t \in Threads :
    /\ WF_vars(Test(t) \/ Park(t) \/ Late(t) \/ Grant(t))
    /\ SF_vars(Reacquire(t))

Safety == Init /\ [][Next]_vars

Spec == Safety /\ Fairness

------------------------------------------------------------------------------
TypeOK ==
  /\ manualrst \in BOOLEAN
  /\ state \in BOOLEAN
  /\ mutex \in Threads \cup {Nobody}
  /\ pc \in [Threads -> Places]
  /\ timed \in [Threads -> BOOLEAN]

\* The mutex is owned exactly by the one thread that is inside a critical
\* section of the object; COND_WAIT gives it up and takes it back.
MutexOwned ==
  \A t \in Threads : pc[t] \in Owning <=> mutex = t

\* The predicate a parked waiter tested is still false when it goes to sleep:
\* this is what changing the state under the mutex buys (CMUTIL_CondSet).
TestHolds ==
  \A t \in Threads :
    /\ pc[t] = "park" => ~state
    /\ pc[t] = "grant" => state

\* No lost wakeup: while the object is set and somebody sleeps on it, some
\* other thread is on its way to see the state and to pass the signal on.
NoLostWakeup ==
  (state /\ Asleep # {}) =>
    \E t \in Threads : pc[t] \in {"woken", "test", "grant"}

------------------------------------------------------------------------------
\* The wait a thread is inside of, as a caller sees it.
CallOf(t) ==
  IF pc[t] = "out" THEN "none" ELSE IF timed[t] THEN "timed" ELSE "wait"

Abstract ==
  INSTANCE Event WITH manual <- manualrst, isset <- state,
                      call <- [t \in Threads |-> CallOf(t)]

\* CMUTIL_Cond is an event object: a timed wait fails only while the object is
\* unset, an auto-reset object lets one waiter through per Set, and an object
\* that stays set releases its waiters although a signal wakes only one.
ImplementsEvent == Abstract!Spec
==============================================================================
