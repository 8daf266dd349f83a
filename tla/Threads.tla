------------------------------ MODULE Threads ------------------------------
(***************************************************************************)
(* CMUTIL_Thread and the registry of running threads (concurrent.c).  A    *)
(* thread enters itself in a sorted array under the id the system gives    *)
(* it, before it calls the user's procedure, and leaves the array when the *)
(* procedure is done.  The system hands an id out again once the thread    *)
(* that had it was joined.  CMUTIL_ThreadSelf looks the caller up there.   *)
(*                                                                         *)
(* threads is the array, as the function from system ids to threads that   *)
(* its comparator makes of it: Add under an id already there displaces the *)
(* thread that was, and Remove takes out whoever is there.                 *)
(***************************************************************************)
EXTENDS Integers, FiniteSets

CONSTANTS NULL, ThreadObj, SysId,
          MaxIndex         \* UINT32_MAX: the counter of ids starts again there

VARIABLE st
vars == <<st>>

(* created counts the threads created, up to the first that gets an id for *)
(* the second time; displaced says whether Add ever found a previous       *)
(* thread under the same id.                                               *)
Init ==
  st = [th |-> [t \in ThreadObj |-> NULL], threads |-> [s \in {} |-> NULL],
        threadIndex |-> 0, created |-> 0, displaced |-> FALSE]

At(t, where)  == st.th[t] # NULL /\ st.th[t].pc = where
Go(t, where)  == [st EXCEPT !.th[t].pc = where]
Started(t)    == st.th[t] # NULL /\ st.th[t].thread # NULL
Taken         == {st.th[t].thread : t \in {u \in ThreadObj : Started(u)}}
NextIndex     == (IF st.threadIndex = MaxIndex THEN 0 ELSE st.threadIndex) + 1

Create(t) ==
  /\ st.th[t] = NULL
  /\ st' = [st EXCEPT !.th[t] = [pc |-> "created", id |-> NextIndex, thread |-> NULL,
                                 sysid |-> NULL, isrunning |-> FALSE],
                      !.threadIndex = NextIndex,
                      !.created = IF @ <= MaxIndex THEN @ + 1 ELSE @]

(* pthread_create may fail and then leaves thread as it was.               *)
Start(t) ==
  /\ At(t, "created")
  /\ \/ \E s \in SysId \ Taken :
          st' = [st EXCEPT !.th[t].pc = "starting", !.th[t].thread = s, !.th[t].sysid = s]
     \/ st' = st

Enter(t) ==
  /\ At(t, "starting")
  /\ st' = [st EXCEPT !.th[t].pc = "entered", !.th[t].isrunning = TRUE, !.th[t].sysid = st.th[t].thread]

Added(t) ==
  [s \in DOMAIN st.threads \cup {st.th[t].sysid} |->
     IF s = st.th[t].sysid THEN t ELSE st.threads[s]]
Register(t) ==
  /\ At(t, "entered")
  /\ st' = [Go(t, "running") EXCEPT
              !.threads = Added(t),
              !.displaced = @ \/ st.th[t].sysid \in DOMAIN st.threads]

(* The procedure may return at any time.                                   *)
Return(t) == At(t, "running") /\ st' = Go(t, "returned")

\* A wrong variant of Unregister: the entry stays.
UnregisterForgets(t) == At(t, "returned") /\ st' = Go(t, "removed")
Unregister(t) ==
  /\ At(t, "returned")
  /\ st' = [Go(t, "removed") EXCEPT
              !.threads = [s \in DOMAIN @ \ {st.th[t].sysid} |-> @[s]]]

Exit(t) ==
  /\ At(t, "removed")
  /\ st' = [st EXCEPT !.th[t].pc = "over", !.th[t].isrunning = FALSE]

(* Join waits for the end of a thread that was started; it frees a thread  *)
(* that was not right away.                                                *)
Join(t) ==
  /\ At(t, "over") \/ At(t, "created")
  /\ st' = [st EXCEPT !.th[t] = NULL]

(* What the two lookups answer to the thread that has the system id s.     *)
ThreadSelf(s)   == IF s \in DOMAIN st.threads THEN st.threads[s] ELSE NULL
ThreadSelfId(s) == IF ThreadSelf(s) = NULL THEN 0 ELSE st.th[ThreadSelf(s)].id

Next ==
  \E t \in ThreadObj :
     \/ Create(t) \/ Start(t) \/ Enter(t) \/ Register(t) \/ Return(t)
     \/ Unregister(t) \/ Exit(t) \/ Join(t)

Spec == Init /\ [][Next]_vars

(* While its procedure runs, a thread finds itself and its own id; no      *)
(* entry outlives its thread, even when system ids come back; the          *)
(* situation Register reports as impossible is; and threads that exist     *)
(* together have ids of their own, none of them the 0 of a stranger, until *)
(* the counter has gone round.                                             *)
ThreadsSound ==
  /\ \A t \in ThreadObj : At(t, "running") =>
        ThreadSelf(st.th[t].sysid) = t /\ ThreadSelfId(st.th[t].sysid) = st.th[t].id
  /\ \A s \in DOMAIN st.threads :
        LET t == st.threads[s]
        IN  st.th[t] # NULL /\ st.th[t].sysid = s /\ st.th[t].pc \in {"running", "returned"}
  /\ ~st.displaced
  /\ \A t \in ThreadObj : st.th[t] # NULL => st.th[t].id \in 1..MaxIndex
  /\ st.created <= MaxIndex =>
        \A t, u \in ThreadObj : st.th[t] # NULL /\ st.th[u] # NULL /\ t # u => st.th[t].id # st.th[u].id
=============================================================================
