------------------------------ MODULE LogGlobal ------------------------------
(***************************************************************************)
(* The global log system (logger.c) and the logger that a source file keeps*)
(* with CMUTIL_LogDefine (libcmutils.h): threads that log, and replace the *)
(* log system.  A log system is at an address, which another may get once  *)
(* it is destroyed; `live' gives each address in use the number of its     *)
(* system.                                                                 *)
(***************************************************************************)
EXTENDS Integers, FiniteSets

CONSTANTS NULL, Thread, Address,
          MaxSystems            \* bound on the systems that are created

VARIABLE st
vars == <<st>>

Init == st = [cur |-> NULL, live |-> [a \in Address |-> 0], made |-> 0, initialized |-> FALSE,
              configured |-> 0, mutex |-> NULL, s__lsys |-> NULL, l___logger |-> NULL,
              pc |-> [t \in Thread |-> "out"], mine |-> [t \in Thread |-> NULL]]

At(t, where)   == st.pc[t] = where
Free           == {a \in Address : st.live[a] = 0}
Alloc(s, a)    == [s EXCEPT !.live[a] = s.made + 1, !.made = @ + 1]
GoTo(s, t, l)  == [s EXCEPT !.pc[t] = l]

(* LogSystemGet is asked for the first time; the mutex makes the others    *)
(* wait for the configuration.                                             *)
GetInternal(t, from, to) ==
  /\ At(t, from)
  /\ IF st.cur # NULL THEN st' = GoTo(st, t, to)
     ELSE /\ st.mutex = NULL
          /\ IF st.initialized THEN st' = GoTo(st, t, to)
             ELSE \E a \in Free : st' = GoTo([Alloc(st, a) EXCEPT !.initialized = TRUE, !.cur = a,
                                                !.configured = @ + 1], t, to)

(* Each test and assignment of the macro is a step.                        *)
Log(t) ==
  /\ At(t, "out")
  /\ st' = GoTo(st, t, IF st.l___logger = NULL THEN "get" ELSE "compare")
Compare(t) ==
  \/ GetInternal(t, "compare", "compared")
  \/ At(t, "compared") /\ st' = GoTo(st, t, IF st.s__lsys = st.cur THEN "use" ELSE "get")
Fetch(t) ==
  \/ GetInternal(t, "get", "got")
  \/ At(t, "got") /\ st' = GoTo([st EXCEPT !.s__lsys = st.cur], t, "find")
Find(t) ==
  /\ At(t, "find")
  /\ st' = GoTo([st EXCEPT !.l___logger =
                   IF st.s__lsys = NULL THEN NULL ELSE [at |-> st.s__lsys, of |-> st.live[st.s__lsys]]], t, "use")
(* With the logger, or the fallback when there is none.                    *)
LogEx(t) == At(t, "use") /\ st' = GoTo(st, t, "out")

(* LogSystemCreate, and LogSystemSet with the new system or with the       *)
(* installed one; handing over the installed one while another thread      *)
(* replaces it is left to the callers.                                     *)
Setting(u) == st.pc[u] = "set"
Create(t) ==
  /\ At(t, "out") /\ st.made < MaxSystems
  /\ \A u \in Thread : Setting(u) => st.mine[u] # st.cur
  /\ \E a \in Free : st' = GoTo([Alloc(st, a) EXCEPT !.mine[t] = a], t, "set")
SetSame(t) ==
  /\ At(t, "out") /\ st.cur # NULL /\ \A u \in Thread : ~Setting(u)
  /\ st' = GoTo([st EXCEPT !.mine[t] = st.cur], t, "set")
\* A wrong variant of Install: the installed one is installed again, and then
\* destroyed as the previous one.
InstallAgain(t) ==
  /\ At(t, "set") /\ st.mutex = NULL
  /\ st' = GoTo([st EXCEPT !.mutex = t, !.mine[t] = st.cur, !.cur = st.mine[t]], t, "destroy")
Install(t) ==
  /\ At(t, "set") /\ st.mutex = NULL
  /\ IF st.mine[t] = st.cur THEN st' = GoTo([st EXCEPT !.mine[t] = NULL], t, "out")
     ELSE st' = GoTo([st EXCEPT !.mutex = t, !.mine[t] = st.cur, !.cur = st.mine[t]], t, "destroy")
DestroyPrev(t) ==
  /\ At(t, "destroy")
  /\ st' = GoTo([st EXCEPT !.mutex = NULL, !.mine[t] = NULL,
                   !.live = [a \in Address |-> IF a = st.mine[t] THEN 0 ELSE @[a]]], t, "out")

Next == \E t \in Thread : \/ Log(t) \/ Compare(t) \/ Fetch(t) \/ Find(t) \/ LogEx(t)
                          \/ Create(t) \/ SetSame(t) \/ Install(t) \/ DestroyPrev(t)
Spec == Init /\ [][Next]_vars

----------------------------------------------------------------------------
(* What LogSystemGet returns is never a system that was destroyed, whoever *)
(* sets which system, and the default one is configured once; what is      *)
(* neither installed nor in the hands of a thread has been destroyed.      *)
GlobalIsLive ==
  /\ st.cur # NULL => st.live[st.cur] # 0
  /\ st.configured <= 1
  /\ \A a \in Address : st.live[a] # 0 => a = st.cur \/ \E t \in Thread : st.mine[t] = a

(* The macro returns a logger of a log system that is there: it fetches one*)
(* anew when the log system has changed (libcmutils.h:4112).               *)
LoggerIsLive ==
  \A t \in Thread : At(t, "use") /\ st.l___logger # NULL =>
    st.l___logger.of # 0 /\ st.live[st.l___logger.at] = st.l___logger.of
=============================================================================
