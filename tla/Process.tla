------------------------------ MODULE Process ------------------------------
(***************************************************************************)
(* CMUTIL_Process (process.c, the POSIX branch): a program that starts     *)
(* children, reads and writes their streams, and connects one to another;  *)
(* and the reader thread of each process.  A pipe end is                   *)
(* <<process, stream, "r" or "w">>; st.open is what the parent has open.   *)
(* Blocking calls are steps that wait.  A character on the output of a     *)
(* child is its number, a count of those on its standard error is enough.  *)
(***************************************************************************)
EXTENDS Integers, Sequences, SequencesExt, FiniteSetsExt

CONSTANTS NULL, Proc,
          Types,            \* how Start is called: <<process, its streams out of "r", "w" and "e">>
          Environs, Overrides, \* sequences of [key, value], each key once
          LineEnd,          \* which characters are line ends, by number
          MaxOut,           \* bound on what the children write
          MaxStarts         \* bound on the runs of all processes

VARIABLE st
vars == <<st>>

NewProcess == [status |-> "idle", type |-> {}, pipe_from |-> NULL, pipe_to |-> NULL, ends |-> {},
               reader |-> "none", closed |-> {}, stdbuf |-> <<>>, child |-> "none",
               out |-> <<>>, err |-> 0, in |-> <<>>, wrote |-> 0, got |-> <<>>, gotErr |-> 0,
               wroteErr |-> 0, piped |-> FALSE, run |-> 0]

(* Main is where the program is: NULL, or in a call that joins a reader.   *)
Init == st = [p |-> [x \in Proc |-> NewProcess], open |-> {}, main |-> NULL, starts |-> 0]

P(x)            == st.p[x]
Idle            == st.main = NULL
Change(x, f, v) == st' = [st EXCEPT !.p[x][f] = v]
Running(x)      == P(x).status = "running"
Gone(x)         == P(x).child \in {"zombie", "reaped"}   \* its ends of the pipes are closed

----------------------------------------------------------------------------
(* The environment of a child: the program's, but for what env replaces.   *)
BuildEnviron(cur, env) ==
  SelectSeq(cur, LAMBDA c : \A i \in DOMAIN env : env[i].key # c.key)
    \o SelectSeq(env, LAMBDA e : e.key # NULL /\ e.value # NULL)

(* Pipes in the order they are made; "exec" tells the parent of a failing  *)
(* execvp.  A failure at a step undoes the ones before, in the order of the*)
(* labels.                                                                 *)
Pipes(type)   == (IF "w" \in type THEN <<"in">> ELSE <<>>) \o <<"out", "err", "exec">>
Steps(type)   == Pipes(type) \o <<"prepare", "fork", "execvp">>
Ends(x, names) == {<<x, n, e>> : n \in names, e \in {"r", "w"}}
Made(type, at)   == {Pipes(type)[i] : i \in {i \in DOMAIN Pipes(type) : i < at}}
\* A wrong variant of Undone: the pipe made last is forgotten.
UndoneTooFew(type, at) ==
  {Pipes(type)[i] : i \in 1 .. IF at > Len(Pipes(type)) THEN Len(Pipes(type)) ELSE at - 2}
Undone(type, at) ==
  LET from == IF at > Len(Pipes(type)) THEN Len(Pipes(type)) ELSE at - 1
  IN  {Pipes(type)[i] : i \in 1 .. from}
Kept(x, type) == {<<x, "out", "r">>, <<x, "err", "r">>} \cup (IF "w" \in type THEN {<<x, "in", "w">>} ELSE {})

(* Start, of a process that is not running; the remnants of its previous   *)
(* run are cleaned up.  With the child running, its reader may be missing  *)
(* still: ThreadCreate fails and Start returns CMFalse, or the thread does *)
(* not start and Start returns CMTrue.  Either leaves the process running  *)
(* with its pipes open, and nobody reads what the client did not ask for.  *)
Start(x, type) ==
  LET steps == Steps(type)
      clean == st.open \ P(x).ends
      fresh == [NewProcess EXCEPT !.type = type, !.pipe_from = P(x).pipe_from, !.pipe_to = P(x).pipe_to,
                                   !.piped = P(x).pipe_to # NULL]
  IN  /\ Idle /\ P(x).status \in {"idle", "exited"} /\ P(x).reader \in {"none", "done"}
      /\ st.starts < MaxStarts
      /\ \/ \E at \in DOMAIN steps :
              LET made == Ends(x, Made(type, at))
              IN  st' = [st EXCEPT !.p[x] = [fresh EXCEPT !.status = P(x).status, !.child = P(x).child],
                                   !.open = clean \cup (made \ Ends(x, Undone(type, at))),
                                   !.starts = @ + 1]
         \/ \E reader \in {"start", "none"} :
              st' = [st EXCEPT !.p[x] = [fresh EXCEPT !.status = "running", !.child = "running",
                                                      !.ends = Kept(x, type), !.reader = reader,
                                                      !.run = st.starts],
                               !.open = clean \cup Kept(x, type), !.starts = @ + 1]

(* The child writes, reads and ends; a stopped one does not.               *)
Written == MapThenSumSet(LAMBDA x : P(x).wrote + P(x).wroteErr, Proc)
Child(x) ==
  /\ P(x).child = "running"
  /\ \/ /\ Written < MaxOut
        /\ \/ st' = [st EXCEPT !.p[x].out = Append(@, P(x).wrote + 1), !.p[x].wrote = @ + 1]
           \/ st' = [st EXCEPT !.p[x].err = @ + 1, !.p[x].wroteErr = @ + 1]
     \/ Change(x, "child", "zombie")

Suspend(x) == Idle /\ Running(x) /\ st' = [st EXCEPT !.p[x].status = "suspended",
                                             !.p[x].child = IF @ = "zombie" THEN @ ELSE "stopped"]
Resume(x)  == Idle /\ P(x).status = "suspended" /\ st' = [st EXCEPT !.p[x].status = "running",
                                             !.p[x].child = IF @ = "zombie" THEN @ ELSE "running"]

(* Both processes must have been started.  (libcmutils.h asks for the      *)
(* contrary, that they are not; PipeTo refuses them then.)  A reader that  *)
(* began before has left the output to the client, and sends nothing on.   *)
PipeTo(x, y) ==
  /\ Idle /\ Running(x) /\ Running(y) /\ x # y
  /\ P(x).type \in {{"r"}, {"r", "w"}} /\ P(y).type \in {{"w"}, {"r", "w"}}
  /\ st' = [st EXCEPT !.p[y].pipe_from = x, !.p[x].pipe_to = y, !.p[x].piped = TRUE]

(* A client that reads the streams it asked for.                           *)
Read(x) ==
  /\ Idle /\ "r" \in P(x).type /\ ~P(x).piped /\ <<x, "out", "r">> \in st.open /\ P(x).out # <<>>
  /\ st' = [st EXCEPT !.p[x].out = Tail(@), !.p[x].got = Append(@, Head(P(x).out))]
ReadErr(x) ==
  /\ Idle /\ "e" \in P(x).type /\ <<x, "err", "r">> \in st.open /\ P(x).err > 0
  /\ st' = [st EXCEPT !.p[x].err = @ - 1, !.p[x].gotErr = @ + 1]

(* Wait finds the child ended, or gives up (no change).  Then it joins the *)
(* reader.                                                                 *)
Wait(x) ==
  /\ Idle /\ Running(x) /\ P(x).child = "zombie"
  /\ st' = [st EXCEPT !.p[x].child = "reaped", !.p[x].status = "exited", !.main = [call |-> "wait", of |-> x]]
Joined(x) == P(x).reader \in {"none", "done"}
WaitJoin(x) ==
  /\ st.main = [call |-> "wait", of |-> x] /\ Joined(x)
  /\ st' = [st EXCEPT !.p[x].reader = "none", !.main = NULL]

(* SIGTERM, and SIGKILL when the child is still there after a second.      *)
Killed(p) == [p EXCEPT !.status = "exited",
                       !.child = IF p.status \in {"running", "suspended"} THEN "reaped" ELSE @]
Kill(x) == Idle /\ P(x).status # "none" /\ st' = [st EXCEPT !.p[x] = Killed(@)]

(* Destroy, of a process that no running reader writes to.  It takes the   *)
(* process out of its chain first: the reader it joins afterwards finds no *)
(* process to write to.                                                    *)
Unlink(p, x) ==
  [y \in Proc |-> [p[y] EXCEPT !.pipe_to   = IF y = x \/ p[x].pipe_from = y THEN NULL ELSE @,
                               !.pipe_from = IF y = x \/ p[x].pipe_to = y THEN NULL ELSE @]]
Destroy(x) ==
  /\ Idle /\ P(x).status # "none"
  /\ \A y \in Proc : P(y).pipe_to = x => Joined(y)
  /\ LET p1 == Unlink(st.p, x)
     IN  st' = [st EXCEPT !.p = [p1 EXCEPT ![x] = Killed(@)], !.main = [call |-> "destroy", of |-> x]]
DestroyJoin(x) ==
  /\ st.main = [call |-> "destroy", of |-> x] /\ Joined(x)
  /\ st' = [st EXCEPT !.p[x] = [NewProcess EXCEPT !.status = "none"], !.open = @ \ P(x).ends, !.main = NULL]
Create(x) == Idle /\ P(x).status = "none" /\ Change(x, "status", "idle")

----------------------------------------------------------------------------
(* The reader.  It leaves to the client what the client asked for, as it   *)
(* finds it when it starts.                                                *)
ReadProc(x) ==
  /\ P(x).reader = "start"
  /\ st' = [st EXCEPT !.p[x].reader = "loop",
              !.p[x].closed = (IF "r" \in P(x).type /\ P(x).pipe_to = NULL THEN {"out"} ELSE {})
                              \cup (IF "e" \in P(x).type THEN {"err"} ELSE {})]

(* What is flushed goes to the next process, with no line end, or to the   *)
(* log.  A full pipe blocks; that of a child that ended takes nothing.     *)
(* (Destroy may clear pipe_to between the test and the call of the code,   *)
(* which take no lock; they are one step here.)                            *)
Flushed(p, x, data) ==
  IF P(x).pipe_to = NULL \/ data = <<>> THEN p
  ELSE [p EXCEPT ![P(x).pipe_to].in = IF Gone(P(x).pipe_to) THEN @ ELSE @ \o [i \in DOMAIN data |-> <<P(x).run, data[i]>>]]

ReadOut(x) ==
  LET c == Head(P(x).out)
      p1 == [st.p EXCEPT ![x].out = Tail(@), ![x].stdbuf = IF c \in LineEnd THEN <<>> ELSE Append(@, c)]
  IN  /\ P(x).reader = "loop" /\ "out" \notin P(x).closed
      /\ \/ /\ P(x).out # <<>>
            /\ st' = [st EXCEPT !.p = IF c \in LineEnd THEN Flushed(p1, x, P(x).stdbuf) ELSE p1]
         \/ /\ P(x).out = <<>> /\ Gone(x)
            /\ st' = [st EXCEPT !.p[x].closed = @ \cup {"out"}]
ReadErrOut(x) ==
  /\ P(x).reader = "loop" /\ "err" \notin P(x).closed
  /\ \/ P(x).err > 0 /\ st' = [st EXCEPT !.p[x].err = @ - 1]
     \/ P(x).err = 0 /\ Gone(x) /\ st' = [st EXCEPT !.p[x].closed = @ \cup {"err"}]

(* Nothing to read for now, or no more at all.                             *)
FlushRest(x) ==
  /\ P(x).reader = "loop" /\ P(x).stdbuf # <<>> /\ P(x).out = <<>>
  /\ st' = [st EXCEPT !.p = Flushed([@ EXCEPT ![x].stdbuf = <<>>], x, P(x).stdbuf)]
ReaderEnds(x) ==
  /\ P(x).reader = "loop" /\ P(x).closed = {"out", "err"}
  /\ st' = [st EXCEPT !.p = Flushed([@ EXCEPT ![x].stdbuf = <<>>, ![x].reader = "done"], x, P(x).stdbuf)]

Reader(x) == ReadProc(x) \/ ReadOut(x) \/ ReadErrOut(x) \/ FlushRest(x) \/ ReaderEnds(x)
Program(x) == \/ \E t \in Types : t[1] = x /\ Start(x, t[2])
              \/ \E y \in Proc : PipeTo(x, y)
              \/ Suspend(x) \/ Resume(x) \/ Read(x) \/ ReadErr(x) \/ Wait(x) \/ WaitJoin(x) \/ Kill(x)
              \/ Destroy(x) \/ DestroyJoin(x) \/ Create(x)
Next == \E x \in Proc : Program(x) \/ Child(x) \/ Reader(x)
Spec == Init /\ [][Next]_vars

----------------------------------------------------------------------------
(* The program has exactly the pipe ends of its processes open, however    *)
(* Start failed, and none that a reader still polls is closed; a child is  *)
(* reaped before its process counts as ended, and not signalled after; what*)
(* the client asked for is not taken by the reader, and comes in order; of *)
(* what the source wrote, what a target gets is in order and without line  *)
(* ends.  That it gets all of it is not claimed: see PipeTo.               *)
ProcessSound ==
  /\ st.open = UNION {P(x).ends : x \in Proc}
  /\ \A x \in Proc :
       /\ P(x).reader \in {"start", "loop"} => {<<x, "out", "r">>, <<x, "err", "r">>} \subseteq st.open
       /\ P(x).status \in {"running", "suspended"} <=> P(x).child \in {"running", "stopped", "zombie"}
       /\ "r" \in P(x).type /\ ~P(x).piped => P(x).got \o P(x).out = [i \in 1 .. P(x).wrote |-> i]
       /\ "e" \in P(x).type => P(x).gotErr + P(x).err = P(x).wroteErr
       /\ \A i \in DOMAIN P(x).in :
            /\ P(x).in[i][2] \notin LineEnd
            /\ \A j \in 1 .. i - 1 : P(x).in[j][1] = P(x).in[i][1] => P(x).in[j][2] < P(x).in[i][2]
       /\ P(x).reader = "done" /\ P(x).type = {"w"} => P(x).out = <<>> /\ P(x).err = 0

(* A child sees the environment with what the program overrides and what   *)
(* it unsets, every key once.                                              *)
EnvironSound ==
  \A cur \in Environs, env \in Overrides :
    LET all == BuildEnviron(cur, env)
        keys(s) == {s[i].key : i \in DOMAIN s}
    IN  /\ ToSet(all) = {c \in ToSet(cur) : c.key \notin keys(env)} \cup {e \in ToSet(env) : e.value # NULL}
        /\ Len(all) = Cardinality(keys(all))
=============================================================================
