---------------------------- MODULE RWLockProofs ----------------------------
(***************************************************************************)
(* RWLock.tla for any set of threads: writers exclude everybody, whether   *)
(* or not the holder table can grow; and as long as it can, it is exact    *)
(* and no reader waits for a writer that waits for it.                     *)
(***************************************************************************)
EXTENDS RWLock, FiniteSetTheorems, TLAPS

\* The calls that own wrmtx while they are under way, and those that own
\* rdcntmtx between two steps.
InWriterSection(t) == pc[t] \in {"rd_add", "rd_reset", "rd_leave", "wr_wait"}
InCountSection(t) == pc[t] \in {"rd_reset", "ru_set"}

\* One token for every read lock that is counted: rdcnt is their number.
ReadTokens == {k \in Threads \X Nat : 1 <= k[2] /\ k[2] <= reads[k[1]]}

WriterMutexOwned ==
  \A t \in Threads : (writes[t] > 0 \/ InWriterSection(t)) <=> wrmtx = t

WriterDepth ==
  /\ wrmtx = Nobody => wrdepth = 0
  /\ \A t \in Threads :
       wrmtx = t => wrdepth = writes[t] + (IF InWriterSection(t) THEN 1 ELSE 0)

CountMutexOwned == \A t \in Threads : InCountSection(t) <=> rdmtx = t

RdcntExact == IsFiniteSet(ReadTokens) /\ rdcnt = Cardinality(ReadTokens)

\* The event lags behind the counter only inside the first reader's section.
EventSound ==
  nordrs => \/ rdcnt = 0
            \/ rdcnt = 1 /\ \E t \in Threads : pc[t] = "rd_reset"

HolderSound == \A t \in Threads : holder[t] <= reads[t]

\* The inductive invariant: a writer is granted under wrmtx with the event
\* set, EventSound and RdcntExact turn the event into "nobody is counted",
\* and HolderSound keeps the reentrant shortcut to threads that do read.
IInv ==
  /\ TypeOK
  /\ WriterMutexOwned
  /\ WriterDepth
  /\ CountMutexOwned
  /\ RdcntExact
  /\ EventSound
  /\ HolderSound
  /\ MutualExclusion

------------------------------------------------------------------------------
\* A read lock counted by the thread and by the lock.
LEMMA TokenAdded ==
  ASSUME TypeOK, RdcntExact, NEW t \in Threads,
         reads' = [reads EXCEPT ![t] = @ + 1], rdcnt' = rdcnt + 1
  PROVE  RdcntExact'
<1> DEFINE k == <<t, reads[t] + 1>>
<1>1. ReadTokens' = ReadTokens \cup {k}
  BY DEF ReadTokens, TypeOK
<1>2. k \notin ReadTokens
  BY DEF ReadTokens, TypeOK
<1>3. /\ IsFiniteSet(ReadTokens \cup {k})
      /\ Cardinality(ReadTokens \cup {k}) = Cardinality(ReadTokens) + 1
  BY <1>2, FS_AddElement DEF RdcntExact
<1> QED BY <1>1, <1>3 DEF RdcntExact

\* A read lock given back by the thread and by the lock.
LEMMA TokenRemoved ==
  ASSUME TypeOK, RdcntExact, NEW t \in Threads, reads[t] > 0,
         reads' = [reads EXCEPT ![t] = @ - 1], rdcnt' = rdcnt - 1
  PROVE  RdcntExact'
<1> DEFINE k == <<t, reads[t]>>
<1>1. ReadTokens' = ReadTokens \ {k}
  BY DEF ReadTokens, TypeOK
<1>2. k \in ReadTokens
  BY DEF ReadTokens, TypeOK
<1>3. /\ IsFiniteSet(ReadTokens \ {k})
      /\ Cardinality(ReadTokens \ {k}) = Cardinality(ReadTokens) - 1
  BY <1>2, FS_RemoveElement DEF RdcntExact
<1> QED BY <1>1, <1>3 DEF RdcntExact

\* A step that touches neither count.
LEMMA TokensKept ==
  ASSUME RdcntExact, UNCHANGED <<reads, rdcnt>>
  PROVE  RdcntExact'
BY DEF RdcntExact, ReadTokens

\* Nobody is counted exactly when the counter is zero.
LEMMA NoReaders ==
  ASSUME TypeOK, RdcntExact
  PROVE  rdcnt = 0 <=> \A t \in Threads : reads[t] = 0
<1>1. rdcnt = 0 <=> ReadTokens = {}
  BY FS_EmptySet DEF RdcntExact
<1>2. ASSUME NEW t \in Threads, reads[t] # 0 PROVE ReadTokens # {}
  <2>1. <<t, reads[t]>> \in ReadTokens
    BY <1>2 DEF ReadTokens, TypeOK
  <2> QED BY <2>1
<1>3. (\A t \in Threads : reads[t] = 0) => ReadTokens = {}
  BY DEF ReadTokens, TypeOK
<1> QED BY <1>1, <1>2, <1>3

\* The inductive invariant holds when the program starts.
LEMMA InitInvariant == Init => IInv
<1> SUFFICES ASSUME Init PROVE IInv
  OBVIOUS
<1>1. ReadTokens = {}
  BY DEF Init, ReadTokens
<1>2. RdcntExact
  BY <1>1, FS_EmptySet DEF RdcntExact, Init
<1> QED
  BY <1>2, ThreadsAssumption
     DEF Init, IInv, TypeOK, Places, WriterMutexOwned, WriterDepth,
         CountMutexOwned, EventSound, HolderSound, MutualExclusion,
         InWriterSection, InCountSection

\* Every step keeps the inductive invariant.
LEMMA NextInvariant == IInv /\ [Next]_vars => IInv'
<1> SUFFICES ASSUME IInv, [Next]_vars PROVE IInv'
  OBVIOUS
<1> USE ThreadsAssumption, InitCapAssumption
<1> USE DEF IInv, TypeOK, Places, WriterMutexOwned, WriterDepth,
            CountMutexOwned, EventSound, HolderSound, MutualExclusion,
            InWriterSection, InCountSection
<1>0. CASE UNCHANGED vars
  <2>1. RdcntExact'
    BY <1>0, TokensKept DEF vars
  <2> QED BY <1>0, <2>1 DEF vars
<1>1. ASSUME NEW t \in Threads, ReadLock(t) PROVE IInv'
  <2>1. CASE holder[t] > 0
    <3>1. RdcntExact'
      BY <1>1, <2>1, TokenAdded DEF ReadLock
    <3>2. rdcnt # 0 /\ ~nordrs
      BY <1>1, <2>1, NoReaders DEF ReadLock
    <3> QED BY <1>1, <2>1, <3>1, <3>2 DEF ReadLock, locks
  <2>2. CASE ~(holder[t] > 0)
    <3>1. RdcntExact'
      BY <1>1, <2>2, TokensKept DEF ReadLock
    <3> QED BY <1>1, <2>2, <3>1 DEF ReadLock, locks, Goto
  <2> QED BY <2>1, <2>2
<1>2. ASSUME NEW t \in Threads, ReadWantsWriterMutex(t) PROVE IInv'
  <2>1. RdcntExact'
    BY <1>2, TokensKept DEF ReadWantsWriterMutex
  <2> QED BY <1>2, <2>1 DEF ReadWantsWriterMutex, LockWriterMutex, table, Goto
<1>3. ASSUME NEW t \in Threads, ReadAdd(t) PROVE IInv'
  <2>1. RdcntExact'
    BY <1>3, TokenAdded DEF ReadAdd
  <2>2. /\ holder' \in [Threads -> Nat]
        /\ holdercap' \in Nat
        /\ \A u \in Threads : holder'[u] = holder[u] \/ (u = t /\ holder'[u] = 1)
    BY <1>3 DEF ReadAdd, HolderAdd, table
  <2>3. TypeOK'
    <3>1. reads' \in [Threads -> Nat] /\ pc' \in [Threads -> Places]
      BY <1>3 DEF ReadAdd, Goto
    <3>2. /\ rdcnt' \in Nat
          /\ rdmtx' \in Threads \cup {Nobody} /\ wrmtx' \in Threads \cup {Nobody}
          /\ wrdepth' \in Nat /\ nordrs' \in BOOLEAN
          /\ writes' \in [Threads -> Nat]
      BY <1>3 DEF ReadAdd
    <3> QED BY <2>2, <3>1, <3>2
  <2>4. HolderSound'
    BY <1>3, <2>2 DEF ReadAdd
  <2>5. WriterMutexOwned' /\ WriterDepth' /\ CountMutexOwned'
    BY <1>3 DEF ReadAdd, Goto
  <2>6. EventSound'
    <3>1. pc'[t] = "rd_reset" /\ (nordrs => rdcnt = 0)
      BY <1>3 DEF ReadAdd, Goto
    <3> QED BY <1>3, <3>1 DEF ReadAdd
  <2>7. MutualExclusion'
    BY <1>3 DEF ReadAdd
  <2> QED BY <2>1, <2>3, <2>4, <2>5, <2>6, <2>7
<1>4. ASSUME NEW t \in Threads, ReadReset(t) PROVE IInv'
  <2>1. RdcntExact'
    BY <1>4, TokensKept DEF ReadReset
  <2> QED BY <1>4, <2>1 DEF ReadReset, ResetIfFirst, table, Goto
<1>5. ASSUME NEW t \in Threads, ReadLeave(t) PROVE IInv'
  <2>1. RdcntExact'
    BY <1>5, TokensKept DEF ReadLeave
  <2> QED BY <1>5, <2>1 DEF ReadLeave, UnlockWriterMutex, table, Goto
<1>6. ASSUME NEW t \in Threads, ReadUnlock(t) PROVE IInv'
  <2>1. RdcntExact'
    BY <1>6, TokenRemoved DEF ReadUnlock
  <2>2. rdcnt # 0 /\ ~nordrs
    BY <1>6, NoReaders DEF ReadUnlock
  <2>3. TypeOK' /\ HolderSound'
    BY <1>6, <2>2 DEF ReadUnlock, HolderRelease, Goto
  <2>4. WriterMutexOwned' /\ WriterDepth' /\ CountMutexOwned'
    BY <1>6 DEF ReadUnlock, Goto
  <2>5. EventSound'
    BY <1>6, <2>2 DEF ReadUnlock
  <2>6. MutualExclusion'
    BY <1>6 DEF ReadUnlock
  <2> QED BY <2>1, <2>3, <2>4, <2>5, <2>6
<1>7. ASSUME NEW t \in Threads, ReadUnlockSet(t) PROVE IInv'
  <2>1. RdcntExact'
    BY <1>7, TokensKept DEF ReadUnlockSet
  <2> QED BY <1>7, <2>1 DEF ReadUnlockSet, SetIfLast, table, Goto
<1>8. ASSUME NEW t \in Threads, WriteLock(t) PROVE IInv'
  <2>1. RdcntExact'
    BY <1>8, TokensKept DEF WriteLock
  <2> QED BY <1>8, <2>1 DEF WriteLock, locks, table, Goto
<1>9. ASSUME NEW t \in Threads, WriteWantsWriterMutex(t) PROVE IInv'
  <2>1. RdcntExact'
    BY <1>9, TokensKept DEF WriteWantsWriterMutex
  <2> QED BY <1>9, <2>1 DEF WriteWantsWriterMutex, LockWriterMutex, table, Goto
<1>10. ASSUME NEW t \in Threads, WriteGranted(t) PROVE IInv'
  <2>1. RdcntExact'
    BY <1>10, TokensKept DEF WriteGranted
  <2>2. \A u \in Threads : pc[u] # "rd_reset"
    BY <1>10 DEF WriteGranted
  <2>3. \A u \in Threads : reads[u] = 0
    BY <1>10, <2>2, NoReaders DEF WriteGranted
  <2> QED BY <1>10, <2>1, <2>3 DEF WriteGranted, locks, table, Goto
<1>11. ASSUME NEW t \in Threads, WriteUnlock(t) PROVE IInv'
  <2>1. RdcntExact'
    BY <1>11, TokensKept DEF WriteUnlock
  <2> QED BY <1>11, <2>1 DEF WriteUnlock, UnlockWriterMutex, table
<1> QED
  BY <1>0, <1>1, <1>2, <1>3, <1>4, <1>5, <1>6, <1>7, <1>8, <1>9, <1>10, <1>11
     DEF Next, Call, Onward

\* The inductive invariant holds in every state of every execution.
LEMMA Invariance == Safety => []IInv
BY InitInvariant, NextInvariant, PTL DEF Safety

\* The counter never goes below zero and every variable keeps its type.
THEOREM RWLockTypeOK == Spec => []TypeOK
BY Invariance, PTL DEF Spec, IInv

\* No thread reads or writes while another one writes, for any number of
\* threads and any depth of recursion, even if the holder table cannot grow.
THEOREM RWLockMutualExclusion == Spec => []MutualExclusion
BY Invariance, PTL DEF Spec, IInv

------------------------------------------------------------------------------
\* What the holder table adds, if it can always grow: only a thread without a
\* read lock ever gets to wait for wrmtx in ReadLock.
FirstReaderOnly ==
  \A t \in Threads : pc[t] \in {"rd_want", "rd_add"} => holder[t] = 0

\* While allocation succeeds the table of readers names the threads that hold the lock.
LEMMA TableInvariant ==
  ASSUME ~AllocMayFail
  PROVE  Safety => [](HolderExact /\ FirstReaderOnly)
<1> USE DEF HolderExact, FirstReaderOnly
<1>1. Init => HolderExact /\ FirstReaderOnly
  BY DEF Init
<1>2. IInv /\ HolderExact /\ FirstReaderOnly /\ [Next]_vars
        => (HolderExact /\ FirstReaderOnly)'
  <2> SUFFICES ASSUME IInv, HolderExact, FirstReaderOnly, [Next]_vars
               PROVE  (HolderExact /\ FirstReaderOnly)'
    OBVIOUS
  <2> USE DEF IInv, TypeOK
  <2>1. ASSUME NEW t \in Threads, ReadLock(t)
        PROVE  (HolderExact /\ FirstReaderOnly)'
    BY <2>1 DEF ReadLock, Goto
  <2>2. ASSUME NEW t \in Threads, ReadAdd(t)
        PROVE  (HolderExact /\ FirstReaderOnly)'
    BY <2>2 DEF ReadAdd, HolderAdd, Goto
  <2>3. ASSUME NEW t \in Threads, ReadUnlock(t)
        PROVE  (HolderExact /\ FirstReaderOnly)'
    BY <2>3 DEF ReadUnlock, HolderRelease, Goto
  <2>4. ASSUME NEW t \in Threads,
               \/ ReadWantsWriterMutex(t) \/ ReadReset(t) \/ ReadLeave(t)
               \/ ReadUnlockSet(t) \/ WriteLock(t) \/ WriteWantsWriterMutex(t)
               \/ WriteGranted(t) \/ WriteUnlock(t)
        PROVE  (HolderExact /\ FirstReaderOnly)'
    BY <2>4 DEF ReadWantsWriterMutex, ReadReset, ReadLeave, ReadUnlockSet,
                WriteLock, WriteWantsWriterMutex, WriteGranted, WriteUnlock,
                table, Goto
  <2>5. CASE UNCHANGED vars
    BY <2>5 DEF vars
  <2> QED BY <2>1, <2>2, <2>3, <2>4, <2>5 DEF Next, Call, Onward
<1> QED BY <1>1, <1>2, Invariance, PTL DEF Safety

\* The holder table records every read lock, if it can always grow.
THEOREM RWLockHolderExact ==
  ASSUME ~AllocMayFail PROVE Spec => []HolderExact
BY TableInvariant, PTL DEF Spec

\* A reader never waits for a writer that waits for it, if the holder table
\* can always grow: the promise of the comment in ReadLock.
THEOREM RWLockNoDeadlock ==
  ASSUME ~AllocMayFail PROVE Spec => []NoReaderWriterDeadlock
<1>1. HolderExact /\ FirstReaderOnly => NoReaderWriterDeadlock
  BY DEF HolderExact, FirstReaderOnly, NoReaderWriterDeadlock
<1> QED BY <1>1, TableInvariant, PTL DEF Spec
==============================================================================
