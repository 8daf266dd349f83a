-------------------------------- MODULE Event --------------------------------
(***************************************************************************)
(* What a CMUTIL_Cond promises its callers, with no mutex, no condition    *)
(* variable and no wakeups: an event object in the sense of the Windows    *)
(* build, where CMUTIL_Cond *is* an OS event.  The POSIX implementation is *)
(* specified in Cond.tla and shown to implement this module.               *)
(***************************************************************************)

CONSTANT
  Threads         \* the threads that use the object

VARIABLES
  manual,         \* stays set until Reset; otherwise a release resets it
  isset,          \* the event is signalled
  call            \* the wait each thread is inside of, if any

vars == <<manual, isset, call>>

Init ==
  /\ manual \in BOOLEAN
  /\ isset = FALSE
  /\ call = [t \in Threads |-> "none"]

\* A thread starts a Wait ("wait") or a TimedWait ("timed").
Enter(t) ==
  /\ call[t] = "none"
  /\ \E c \in {"wait", "timed"} : call' = [call EXCEPT ![t] = c]
  /\ UNCHANGED <<manual, isset>>

\* A wait ends because the event is set; an auto-reset event is consumed.
Release(t) ==
  /\ call[t] # "none"
  /\ isset
  /\ call' = [call EXCEPT ![t] = "none"]
  /\ isset' = manual
  /\ UNCHANGED manual

\* A timed wait gives up, and only while the event is not set.
GiveUp(t) ==
  /\ call[t] = "timed"
  /\ ~isset
  /\ call' = [call EXCEPT ![t] = "none"]
  /\ UNCHANGED <<manual, isset>>

\* A zero-timeout probe that finds the event set takes it without waiting.
Probe ==
  /\ isset
  /\ isset' = manual
  /\ UNCHANGED <<manual, call>>

Set ==
  /\ isset' = TRUE
  /\ UNCHANGED <<manual, call>>

Reset ==
  /\ isset' = FALSE
  /\ UNCHANGED <<manual, call>>

Next ==
  \/ \E t \in Threads : Enter(t) \/ Release(t) \/ GiveUp(t)
  \/ Probe \/ Set \/ Reset

\* An event that stays set releases every waiter (manual reset); an event
\* that stays set while somebody waits releases one of them (auto reset).
Fairness ==
  /\ \A t \in Threads : WF_vars(manual /\ Release(t))
  /\ WF_vars(\E t \in Threads : Release(t))

Safety == Init /\ [][Next]_vars

Spec == Safety /\ Fairness
==============================================================================
