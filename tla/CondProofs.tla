----------------------------- MODULE CondProofs -----------------------------
(***************************************************************************)
(* What Cond.tla promises for any set of threads and either kind of        *)
(* object: the invariants its runs check, and that every step is a step of *)
(* the abstract event or invisible to it.                                  *)
(***************************************************************************)
EXTENDS Cond, TLAPS

\* Only a wait with a time limit leaves the condition variable on a timeout.
ExpiredIsTimed ==
  \A t \in Threads : pc[t] \in {"expired", "late"} => timed[t]

\* The inductive invariant.  NoLostWakeup needs TestHolds (a thread that goes
\* to sleep leaves no set state behind), which needs MutexOwned (nobody else
\* changes the state between a thread's test and the step that relies on it).
IInv ==
  /\ TypeOK
  /\ MutexOwned
  /\ TestHolds
  /\ NoLostWakeup
  /\ ExpiredIsTimed

------------------------------------------------------------------------------
\* A signal moves at most one sleeper, never the caller, and if anybody sleeps
\* it does wake somebody (COND_SIGNAL as CondSet, CondWait and CondTimedWait
\* use it).
LEMMA SignalFacts ==
  ASSUME TypeOK, NEW t \in Threads, pc[t] # "asleep",
         NEW place \in Places \ {"asleep"}, SignalAndGoto(t, place)
  PROVE  /\ pc' \in [Threads -> Places]
         /\ pc'[t] = place
         /\ \A u \in Threads \ {t} :
              pc'[u] = pc[u] \/ (pc[u] = "asleep" /\ pc'[u] = "woken")
         /\ Asleep' # {} => \E u \in Threads : pc'[u] = "woken"
<1>1. CASE Asleep = {}
  BY <1>1 DEF SignalAndGoto, Goto, Asleep, TypeOK, Places
<1>2. CASE Asleep # {}
  <2>1. PICK s \in Asleep : pc' = [pc EXCEPT ![s] = "woken", ![t] = place]
    BY <1>2 DEF SignalAndGoto
  <2>2. s \in Threads /\ s # t /\ pc[s] = "asleep"
    BY DEF Asleep
  <2> QED BY <2>1, <2>2 DEF TypeOK, Places
<1> QED BY <1>1, <1>2

\* The inductive invariant holds when the program starts.
LEMMA InitInvariant == Init => IInv
BY ThreadsAssumption
   DEF Init, IInv, TypeOK, MutexOwned, TestHolds, NoLostWakeup,
       ExpiredIsTimed, Places, Owning, Asleep

\* Every step keeps the inductive invariant.
LEMMA NextInvariant == IInv /\ [Next]_vars => IInv'
<1> SUFFICES ASSUME IInv, [Next]_vars PROVE IInv'
  OBVIOUS
<1> USE ThreadsAssumption
<1> USE DEF IInv, TypeOK, MutexOwned, TestHolds, NoLostWakeup,
            ExpiredIsTimed, Places, Owning
<1>0. CASE UNCHANGED vars
  BY <1>0 DEF vars, Asleep
<1>1. ASSUME NEW t \in Threads, WaitCall(t) PROVE IInv'
  BY <1>1 DEF WaitCall, Lock, Goto, Asleep
<1>2. ASSUME NEW t \in Threads, Test(t) PROVE IInv'
  BY <1>2 DEF Test, Goto, Asleep
<1>3. ASSUME NEW t \in Threads, Park(t) PROVE IInv'
  BY <1>3 DEF Park, Unlock, Goto, Asleep
<1>4. ASSUME NEW t \in Threads, SpuriousWakeup(t) PROVE IInv'
  BY <1>4 DEF SpuriousWakeup, Goto, Asleep
<1>5. ASSUME NEW t \in Threads, Expire(t) PROVE IInv'
  BY <1>5 DEF Expire, Goto, Asleep
<1>6. ASSUME NEW t \in Threads, Reacquire(t) PROVE IInv'
  BY <1>6 DEF Reacquire, Lock, Goto, Asleep
<1>7. ASSUME NEW t \in Threads, Late(t) PROVE IInv'
  BY <1>7 DEF Late, Unlock, Goto, Asleep
<1>8. ASSUME NEW t \in Threads, Grant(t) PROVE IInv'
  <2>1. CASE manualrst
    <3>1. /\ pc' \in [Threads -> Places]
          /\ pc'[t] = "out"
          /\ \A u \in Threads \ {t} :
               pc'[u] = pc[u] \/ (pc[u] = "asleep" /\ pc'[u] = "woken")
          /\ Asleep' # {} => \E u \in Threads : pc'[u] = "woken"
      BY <1>8, <2>1, SignalFacts DEF Grant
    <3> QED BY <3>1, <1>8, <2>1 DEF Grant, Unlock
  <2>2. CASE ~manualrst
    BY <1>8, <2>2 DEF Grant, Unlock, Goto, Asleep
  <2> QED BY <2>1, <2>2
<1>9. ASSUME NEW t \in Threads, Poll(t) PROVE IInv'
  <2>1. CASE state /\ manualrst
    <3>1. /\ pc' \in [Threads -> Places]
          /\ pc'[t] = "out"
          /\ \A u \in Threads \ {t} :
               pc'[u] = pc[u] \/ (pc[u] = "asleep" /\ pc'[u] = "woken")
          /\ Asleep' # {} => \E u \in Threads : pc'[u] = "woken"
      BY <1>9, <2>1, SignalFacts DEF Poll
    <3> QED BY <3>1, <1>9, <2>1 DEF Poll
  <2>2. CASE ~(state /\ manualrst)
    BY <1>9, <2>2 DEF Poll, Asleep
  <2> QED BY <2>1, <2>2
<1>10. ASSUME NEW t \in Threads, Set(t) PROVE IInv'
  <2>1. /\ pc' \in [Threads -> Places]
        /\ pc'[t] = "out"
        /\ \A u \in Threads \ {t} :
             pc'[u] = pc[u] \/ (pc[u] = "asleep" /\ pc'[u] = "woken")
        /\ Asleep' # {} => \E u \in Threads : pc'[u] = "woken"
    BY <1>10, SignalFacts DEF Set
  <2> QED BY <2>1, <1>10 DEF Set
<1>11. ASSUME NEW t \in Threads, Reset(t) PROVE IInv'
  BY <1>11 DEF Reset, Asleep
<1> QED
  BY <1>0, <1>1, <1>2, <1>3, <1>4, <1>5, <1>6, <1>7, <1>8, <1>9, <1>10, <1>11
     DEF Next, WaitStep

\* The inductive invariant holds in every state of every execution.
LEMMA Invariance == Safety => []IInv
BY InitInvariant, NextInvariant, PTL DEF Safety

------------------------------------------------------------------------------
\* Every variable keeps its type: the places a thread can be in are the ones
\* the two wait functions have.
THEOREM CondTypeOK == Spec => []TypeOK
BY Invariance, PTL DEF Spec, IInv

\* The predicate tested under icond->mutex still holds when the waiter acts on
\* it, because CondSet and CondReset change it under the same mutex.
THEOREM CondTestHolds == Spec => []TestHolds
BY Invariance, PTL DEF Spec, IInv

\* The object's mutex is owned exactly by the thread inside a critical section.
THEOREM CondMutexOwned == Spec => []MutexOwned
BY Invariance, PTL DEF Spec, IInv

\* No wakeup is lost, with any number of threads: while the object is set and
\* somebody sleeps, somebody is on the way who will pass the signal on.
THEOREM CondNoLostWakeup == Spec => []NoLostWakeup
BY Invariance, PTL DEF Spec, IInv

------------------------------------------------------------------------------
\* The initial states are initial states of the abstract condition.
LEMMA RefineInit == Init => Abstract!Init
BY DEF Init, Abstract!Init, CallOf

\* Under the inductive invariant every step is a step of the abstract
\* condition, or changes nothing that it sees.
LEMMA RefineNext ==
  IInv /\ IInv' /\ [Next]_vars => [Abstract!Next]_(Abstract!vars)
<1> SUFFICES ASSUME IInv, [Next]_vars
             PROVE  Abstract!Next \/ UNCHANGED Abstract!vars
  OBVIOUS
<1> USE ThreadsAssumption
<1> USE DEF IInv, TypeOK, MutexOwned, TestHolds, ExpiredIsTimed, Places,
            Owning, CallOf, Abstract!vars
<1>0. CASE UNCHANGED vars
  BY <1>0 DEF vars
<1>1. ASSUME NEW t \in Threads, WaitCall(t) PROVE Abstract!Enter(t)
  BY <1>1 DEF WaitCall, Goto, Abstract!Enter
<1>2. ASSUME NEW t \in Threads,
             Test(t) \/ Park(t) \/ SpuriousWakeup(t) \/ Expire(t) \/ Reacquire(t)
      PROVE  UNCHANGED Abstract!vars
  BY <1>2 DEF Test, Park, SpuriousWakeup, Expire, Reacquire, Goto
<1>3. ASSUME NEW t \in Threads, Late(t)
      PROVE  Abstract!GiveUp(t) \/ UNCHANGED Abstract!vars
  BY <1>3 DEF Late, Goto, Abstract!GiveUp
<1>4. ASSUME NEW t \in Threads, Grant(t) PROVE Abstract!Release(t)
  <2>1. CASE manualrst
    <3>1. /\ pc' \in [Threads -> Places]
          /\ pc'[t] = "out"
          /\ \A u \in Threads \ {t} :
               pc'[u] = pc[u] \/ (pc[u] = "asleep" /\ pc'[u] = "woken")
      BY <1>4, <2>1, SignalFacts DEF Grant
    <3> QED BY <3>1, <1>4, <2>1, ZenonT(60) DEF Grant, Abstract!Release
  <2>2. CASE ~manualrst
    BY <1>4, <2>2 DEF Grant, Goto, Abstract!Release
  <2> QED BY <2>1, <2>2
<1>5. ASSUME NEW t \in Threads, Poll(t)
      PROVE  Abstract!Probe \/ UNCHANGED Abstract!vars
  <2>1. pc[t] = "out"
    <3>1. pc[t] = "out"
      BY <1>5 DEF Poll
    <3> QED BY <3>1
  <2>2. CASE state /\ manualrst
    <3>1. /\ pc' \in [Threads -> Places]
          /\ pc'[t] = "out"
          /\ \A u \in Threads \ {t} :
               pc'[u] = pc[u] \/ (pc[u] = "asleep" /\ pc'[u] = "woken")
      BY <1>5, <2>2, SignalFacts DEF Poll
    <3> QED BY <2>1, <3>1, <1>5, <2>2 DEF Poll, Abstract!Probe
  <2>3. CASE ~(state /\ manualrst)
    BY <1>5, <2>3 DEF Poll, Abstract!Probe
  <2> QED BY <2>2, <2>3
<1>6. ASSUME NEW t \in Threads, Set(t) PROVE Abstract!Set
  <2>1. /\ pc' \in [Threads -> Places]
        /\ pc'[t] = "out"
        /\ \A u \in Threads \ {t} :
             pc'[u] = pc[u] \/ (pc[u] = "asleep" /\ pc'[u] = "woken")
    BY <1>6, SignalFacts DEF Set
  <2> QED BY <2>1, <1>6 DEF Set, Abstract!Set
<1>7. ASSUME NEW t \in Threads, Reset(t) PROVE Abstract!Reset
  BY <1>7 DEF Reset, Abstract!Reset
<1> QED
  BY <1>0, <1>1, <1>2, <1>3, <1>4, <1>5, <1>6, <1>7
     DEF Next, WaitStep, Abstract!Next

\* Every behaviour of the mutex-and-condition-variable implementation is, to
\* its callers, a behaviour of the abstract event: a timed wait fails only
\* while the event is unset, and an auto-reset event lets one wait through.
THEOREM CondImplementsEvent == Spec => Abstract!Safety
BY Invariance, RefineInit, RefineNext, PTL DEF Spec, Safety, Abstract!Safety
==============================================================================
