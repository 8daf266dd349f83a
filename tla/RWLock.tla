-------------------------------- MODULE RWLock --------------------------------
(***************************************************************************)
(* CMUTIL_RWLock of src/concurrent.c with RWLOCK_USE_INTERNAL: a recursive *)
(* reader/writer lock made of a counter mutex (rdcntmtx), a recursive      *)
(* writer mutex (wrmtx) and a manual-reset event that is set while nobody  *)
(* reads (nordrs, an Event: see Cond.tla).  Threads are the callers; each  *)
(* obeys the documented discipline: it releases only what it holds and     *)
(* does not ask for a write lock while it holds a read lock.               *)
(***************************************************************************)
EXTENDS Naturals, FiniteSets

CONSTANTS
  Threads,        \* the threads that share the lock
  Nobody,         \* the owner of a free mutex
  MaxDepth,       \* how often a thread locks recursively (bound of the model)
  InitCap,        \* RWLOCK_HOLDER_INITCAP
  AllocMayFail    \* the holder table may fail to grow

ASSUME ThreadsAssumption == Nobody \notin Threads
ASSUME MaxDepthAssumption == MaxDepth \in Nat \ {0}
ASSUME InitCapAssumption == InitCap \in Nat \ {0}
ASSUME AllocMayFailAssumption == AllocMayFail \in BOOLEAN

VARIABLES
  rdcnt,          \* irwlock->rdcnt
  rdmtx,          \* owner of irwlock->rdcntmtx
  wrmtx,          \* owner of irwlock->wrmtx
  wrdepth,        \* its lock count: the mutex is recursive
  nordrs,         \* irwlock->nordrs is set
  holder,         \* irwlock->holders: the depth recorded for each thread
  holdercap,      \* irwlock->holdercap: the slots of that table
  reads,          \* how many read locks each thread has been counted for
  writes,         \* how many write locks each thread has been granted
  pc              \* where each thread is inside the object

vars == <<rdcnt, rdmtx, wrmtx, wrdepth, nordrs, holder, holdercap, reads,
          writes, pc>>
locks == <<rdmtx, wrmtx, wrdepth>>
table == <<holder, holdercap>>

\* "out"      not inside the object
\* "rd_want"  ReadLock found no holder entry and wants wrmtx
\* "rd_add"   ReadLock owns wrmtx, wants rdcntmtx
\* "rd_reset" ReadLock owns both, has counted itself, nordrs not reset yet
\* "rd_leave" ReadLock has released rdcntmtx, still owns wrmtx
\* "ru_set"   ReadUnlock owns rdcntmtx, has uncounted itself
\* "wr_want"  WriteLock wants wrmtx
\* "wr_wait"  WriteLock owns wrmtx and waits for nordrs
Places == {"out", "rd_want", "rd_add", "rd_reset", "rd_leave", "ru_set",
           "wr_want", "wr_wait"}

Init ==
  /\ rdcnt = 0
  /\ rdmtx = Nobody
  /\ wrmtx = Nobody
  /\ wrdepth = 0
  /\ nordrs = TRUE
  /\ holder = [t \in Threads |-> 0]
  /\ holdercap = 0
  /\ reads = [t \in Threads |-> 0]
  /\ writes = [t \in Threads |-> 0]
  /\ pc = [t \in Threads |-> "out"]

------------------------------------------------------------------------------
Goto(t, place) == pc' = [pc EXCEPT ![t] = place]

LockWriterMutex(t) ==
  /\ wrmtx \in {t, Nobody}
  /\ wrmtx' = t
  /\ wrdepth' = wrdepth + 1

UnlockWriterMutex(t) ==
  /\ wrmtx = t
  /\ wrdepth' = wrdepth - 1
  /\ wrmtx' = IF wrdepth = 1 THEN Nobody ELSE t

\* A wrong variant of HolderAdd: the reader is not recorded.
HolderSkip(t) == UNCHANGED table

\* RWLockHolderAdd: a free slot of the table gets depth 1.  A full table has
\* to grow first, and if it cannot the thread is left without an entry.
TableFull == Cardinality({t \in Threads : holder[t] > 0}) = holdercap
HolderAdd(t) ==
  \/ /\ holder' = [holder EXCEPT ![t] = 1]
     /\ holdercap' = IF ~TableFull THEN holdercap
                     ELSE IF holdercap > 0 THEN 2 * holdercap ELSE InitCap
  \/ AllocMayFail /\ TableFull /\ UNCHANGED table

\* Wrong variants: a release that forgets the whole entry, an event that stays
\* as it is, and a reader that gives wrmtx back before it has reset the event.
HolderDrop(t) == [holder EXCEPT ![t] = 0]
EventUntouched == UNCHANGED nordrs
AddWithoutWriterMutex(t) ==
  /\ pc[t] = "rd_add"
  /\ rdmtx = Nobody
  /\ rdmtx' = t
  /\ UnlockWriterMutex(t)
  /\ HolderAdd(t)
  /\ rdcnt' = rdcnt + 1
  /\ reads' = [reads EXCEPT ![t] = @ + 1]
  /\ Goto(t, "rd_reset")
  /\ UNCHANGED <<nordrs, writes>>

\* The holder entry after one ReadUnlock of a thread that has one.
HolderRelease(t) ==
  IF holder[t] > 0 THEN [holder EXCEPT ![t] = @ - 1] ELSE holder

ResetIfFirst == nordrs' = (nordrs /\ rdcnt # 1)
SetIfLast == nordrs' = (nordrs \/ rdcnt = 0)

\* ReadLock, first section of rdcntmtx: a thread that reads already is
\* counted again without touching wrmtx.
ReadLock(t) ==
  /\ pc[t] = "out"
  /\ reads[t] < MaxDepth
  /\ rdmtx = Nobody
  /\ IF holder[t] > 0
       THEN /\ holder' = [holder EXCEPT ![t] = @ + 1]
            /\ rdcnt' = rdcnt + 1
            /\ reads' = [reads EXCEPT ![t] = @ + 1]
            /\ UNCHANGED pc
       ELSE Goto(t, "rd_want") /\ UNCHANGED <<holder, rdcnt, reads>>
  /\ UNCHANGED <<locks, holdercap, nordrs, writes>>

ReadWantsWriterMutex(t) ==
  /\ pc[t] = "rd_want"
  /\ LockWriterMutex(t)
  /\ Goto(t, "rd_add")
  /\ UNCHANGED <<rdcnt, rdmtx, nordrs, table, reads, writes>>

\* The second section of rdcntmtx, under wrmtx: record, count, ...
ReadAdd(t) ==
  /\ pc[t] = "rd_add"
  /\ rdmtx = Nobody
  /\ rdmtx' = t
  /\ HolderAdd(t)
  /\ rdcnt' = rdcnt + 1
  /\ reads' = [reads EXCEPT ![t] = @ + 1]
  /\ Goto(t, "rd_reset")
  /\ UNCHANGED <<wrmtx, wrdepth, nordrs, writes>>

\* ... and reset nordrs if this is the first reader.
ReadReset(t) ==
  /\ pc[t] = "rd_reset"
  /\ ResetIfFirst
  /\ rdmtx' = Nobody
  /\ Goto(t, "rd_leave")
  /\ UNCHANGED <<rdcnt, wrmtx, wrdepth, table, reads, writes>>

ReadLeave(t) ==
  /\ pc[t] = "rd_leave"
  /\ UnlockWriterMutex(t)
  /\ Goto(t, "out")
  /\ UNCHANGED <<rdcnt, rdmtx, nordrs, table, reads, writes>>

ReadUnlock(t) ==
  /\ pc[t] = "out"
  /\ reads[t] > 0
  /\ rdmtx = Nobody
  /\ rdmtx' = t
  /\ holder' = HolderRelease(t)
  /\ rdcnt' = rdcnt - 1
  /\ reads' = [reads EXCEPT ![t] = @ - 1]
  /\ Goto(t, "ru_set")
  /\ UNCHANGED <<wrmtx, wrdepth, holdercap, nordrs, writes>>

ReadUnlockSet(t) ==
  /\ pc[t] = "ru_set"
  /\ SetIfLast
  /\ rdmtx' = Nobody
  /\ Goto(t, "out")
  /\ UNCHANGED <<rdcnt, wrmtx, wrdepth, table, reads, writes>>

WriteLock(t) ==
  /\ pc[t] = "out"
  /\ reads[t] = 0
  /\ writes[t] < MaxDepth
  /\ Goto(t, "wr_want")
  /\ UNCHANGED <<locks, rdcnt, nordrs, table, reads, writes>>

WriteWantsWriterMutex(t) ==
  /\ pc[t] = "wr_want"
  /\ LockWriterMutex(t)
  /\ Goto(t, "wr_wait")
  /\ UNCHANGED <<rdcnt, rdmtx, nordrs, table, reads, writes>>

\* WriteLock returns once nordrs is set, and keeps wrmtx.
WriteGranted(t) ==
  /\ pc[t] = "wr_wait"
  /\ nordrs
  /\ writes' = [writes EXCEPT ![t] = @ + 1]
  /\ Goto(t, "out")
  /\ UNCHANGED <<locks, rdcnt, nordrs, table, reads>>

WriteUnlock(t) ==
  /\ pc[t] = "out"
  /\ writes[t] > 0
  /\ UnlockWriterMutex(t)
  /\ writes' = [writes EXCEPT ![t] = @ - 1]
  /\ UNCHANGED <<rdcnt, rdmtx, nordrs, table, reads, pc>>

\* The steps of a call that is under way, without those that take a mutex.
Onward(t) ==
  ReadReset(t) \/ ReadLeave(t) \/ ReadUnlockSet(t) \/ WriteGranted(t)

Call(t) == ReadLock(t) \/ ReadUnlock(t) \/ WriteLock(t) \/ WriteUnlock(t)

Next ==
  \E t \in Threads :
    \/ Call(t) \/ Onward(t)
    \/ ReadWantsWriterMutex(t) \/ ReadAdd(t) \/ WriteWantsWriterMutex(t)

\* A call under way proceeds, and a thread that wants a mutex which is free
\* again and again gets it.  Nothing makes a caller call or release.
Fairness ==
  \A t \in Threads :
    /\ WF_vars(Onward(t))
    /\ SF_vars(ReadWantsWriterMutex(t))
    /\ SF_vars(ReadAdd(t))
    /\ SF_vars(WriteWantsWriterMutex(t))

Safety == Init /\ [][Next]_vars

Spec == Safety /\ Fairness

------------------------------------------------------------------------------
TypeOK ==
  /\ rdcnt \in Nat
  /\ rdmtx \in Threads \cup {Nobody}
  /\ wrmtx \in Threads \cup {Nobody}
  /\ wrdepth \in Nat
  /\ nordrs \in BOOLEAN
  /\ holder \in [Threads -> Nat]
  /\ holdercap \in Nat
  /\ reads \in [Threads -> Nat]
  /\ writes \in [Threads -> Nat]
  /\ pc \in [Threads -> Places]

\* Nobody reads while another thread writes, and nobody else writes: the
\* event is reset before wrmtx is given back, so that no writer can slip in
\* between a first reader's count and its reset.
MutualExclusion ==
  \A w, t \in Threads :
    (writes[w] > 0 /\ t # w) => writes[t] = 0 /\ reads[t] = 0

\* The holder table knows every reader and how deep it is; ReadLock's
\* shortcut for reentrant readers rests on it.
HolderExact == \A t \in Threads : holder[t] = reads[t]

\* A writer that owns wrmtx and waits for the readers never waits for one
\* that itself waits for wrmtx: the deadlock ReadLock's comment describes.
NoReaderWriterDeadlock ==
  \A r, w \in Threads :
    ~ /\ r # w
      /\ pc[w] = "wr_wait" /\ pc[r] = "rd_want"
      /\ reads[r] > 0

\* If every thread that can act gives back, now and then, all that it holds,
\* every call returns: a waiting writer keeps new readers out, so readers
\* that overlap for ever cannot starve it.
ThreadsRelease ==
  \A t \in Threads :
    []<>(pc[t] = "out") => []<>(reads[t] = 0 /\ writes[t] = 0)

CallsReturn == ThreadsRelease => \A t \in Threads : []<>(pc[t] = "out")
==============================================================================
