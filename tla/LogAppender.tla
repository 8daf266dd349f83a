----------------------------- MODULE LogAppender -----------------------------
(***************************************************************************)
(* An appender of src/logger.c: Append, SetAsync, Flush and Destroy with   *)
(* the asynchronous writer thread, for the console, file and rolling-file  *)
(* kinds.  Everything done under the appender's (recursive) mutex is one   *)
(* step, but for the writer's Flush, which others may find half done: the  *)
(* size of the buffer and isasync are read without the mutex.              *)
(*                                                                         *)
(* The callers' discipline: Destroy comes when nobody else is inside, and  *)
(* Flush is called only where it is defined (see FlushCall).               *)
(***************************************************************************)
EXTENDS Integers, Sequences, FiniteSets, SequencesExt

CONSTANTS
  Threads,     \* threads that log
  Kinds,       \* kinds of appenders: some of "console", "file", "rolling"
  BufferSizes, \* the buffersz SetAsync may be called with
  MaxTime,     \* bound of the model: periods of the rolling file
  MaxSent,     \* bound of the model: messages in all
  MaxFailures  \* bound of the model: how often opening a file fails

ASSUME KindAssumption == Kinds \subseteq {"console", "file", "rolling"}
ASSUME BufferAssumption == BufferSizes \subseteq Nat \ {0}
ASSUME BoundAssumption == MaxTime \in Nat \ {0} /\ MaxSent \in Nat /\ MaxFailures \in Nat

VARIABLES
  kind,         \* which Write and Flush the appender has
  isasync,      \* iap->isasync
  buffersz,     \* iap->buffersz
  buffer,       \* iap->buffer
  flush_buffer, \* iap->flush_buffer
  writer,       \* where the writer thread is
  last,         \* the writer has left its loop
  files,        \* current: the open-ended file (or the console) at fpath;
                \* rolled: the renamed ones by <<period, suffix>>;
                \* lasttm: iap->lasttm; written: all messages in write order
  now,          \* the period the clock is in
  caller,       \* where each thread is in Append
  item,         \* the message a thread has formatted
  sent,         \* messages formatted so far
  accepted,     \* messages whose Append has returned
  destroy,      \* where Destroy is
  failures,     \* how often opening a file has failed
  dropped       \* messages given up because of that

lists == <<buffer, flush_buffer>>
mode == <<kind, isasync, buffersz>>
thewriter == <<writer, last>>
callers == <<caller, item, sent, accepted>>
failing == <<failures, dropped>>
vars == <<mode, lists, thewriter, files, now, callers, destroy, failing>>

Messages == [from : Threads, n : 1 .. MaxSent, tm : 1 .. MaxTime]
NoMessage == << >>

Init ==
  /\ kind \in Kinds
  /\ isasync = FALSE
  /\ buffersz = 0
  /\ buffer = << >>
  /\ flush_buffer = << >>
  /\ writer = "none"
  /\ last = FALSE
  /\ files = [current |-> << >>, rolled |-> << >>, lasttm |-> 1, written |-> << >>]
  /\ now = 1
  /\ caller = [c \in Threads |-> "out"]
  /\ item = [c \in Threads |-> NoMessage]
  /\ sent = 0
  /\ accepted = {}
  /\ destroy = "none"
  /\ failures = 0
  /\ dropped = {}

\* The writer is inside its section of the mutex.
Locked == writer = "write"

\* Opening fails, with the messages given up for it.
Fails(messages) ==
  /\ failures < MaxFailures
  /\ failures' = failures + 1
  /\ dropped' = dropped \cup messages

------------------------------------------------------------------------------
(* Files *)

\* Wrong variants: a test that takes only a later period for a change, a name
\* tried without a suffix, and a list put in front of what it is moved to.
IsLater(f, m) == m.tm > f.lasttm
NameTaken(f) == <<f.lasttm, 0>>
MovedInFront(b) == b \o flush_buffer

IsChanged(f, m) == m.tm # f.lasttm

\* The first free name: that of the period, then with suffixes -0, -1, ...
RolledName(f) ==
  LET Free(i) == <<f.lasttm, i>> \notin DOMAIN f.rolled
  IN <<f.lasttm, CHOOSE i \in 0 .. Cardinality(DOMAIN f.rolled) :
                   Free(i) /\ \A k \in 0 .. i - 1 : ~Free(k)>>

\* A file that is not there is not renamed, but the period changes.
Rolling(f, tm) ==
  [current |-> << >>,
   rolled |-> IF f.current = << >>
                THEN f.rolled
                ELSE [name \in DOMAIN f.rolled \cup {RolledName(f)} |->
                        IF name = RolledName(f) THEN f.current ELSE f.rolled[name]],
   lasttm |-> tm,
   written |-> f.written]

RollFor(f, m) ==
  IF kind = "rolling" /\ IsChanged(f, m) THEN Rolling(f, m.tm) ELSE f

Put(f, m) ==
  [current |-> Append(f.current, m), rolled |-> f.rolled, lasttm |-> f.lasttm,
   written |-> Append(f.written, m)]

\* The loop of Flush over the items: a rolling file is reopened when the period
\* changes.
WriteAll(f, items) ==
  LET g[i \in 0 .. Len(items)] ==
        IF i = 0 THEN f ELSE Put(RollFor(g[i - 1], items[i]), items[i])
  IN g[Len(items)]

\* The items at which the loop reopens the file.
Reopenings(items) ==
  {i \in 2 .. Len(items) : kind = "rolling" /\ items[i].tm # items[i - 1].tm}

------------------------------------------------------------------------------
(* Flush *)

MoveAll(b) == flush_buffer \o b

\* Flush of the items moved so far.  A file is opened before the items are
\* moved; a rolling one after that, so that they wait in flush_buffer.  When it
\* cannot be reopened no item from there on is written.
FlushItems(f, items) ==
  LET g == IF items = << >> THEN f ELSE RollFor(f, Head(items)) IN
  \/ /\ files' = WriteAll(g, items)
     /\ flush_buffer' = << >>
     /\ UNCHANGED failing
  \/ \E i \in Reopenings(items) :
       /\ files' = RollFor(WriteAll(g, SubSeq(items, 1, i - 1)), items[i])
       /\ flush_buffer' = << >>
       /\ Fails(ToSet(SubSeq(items, i, Len(items))))
  \/ /\ kind = "rolling" /\ items # << >>
     /\ files' = g
     /\ flush_buffer' = items
     /\ Fails({})

\* Flush in one piece, of a buffer that Append has just grown, say.
Flush(b) ==
  \/ /\ FlushItems(files, MoveAll(b))
     /\ buffer' = << >>
  \/ /\ kind = "file"
     /\ Fails({})
     /\ buffer' = b
     /\ UNCHANGED <<files, flush_buffer>>

------------------------------------------------------------------------------
(* Append *)

Tick ==
  /\ now < MaxTime
  /\ now' = now + 1
  /\ UNCHANGED <<mode, lists, thewriter, files, callers, destroy, failing>>

\* The message gets its time and is formatted.
Format(c) ==
  /\ destroy = "none"
  /\ caller[c] = "out"
  /\ sent < MaxSent
  /\ sent' = sent + 1
  /\ item' = [item EXCEPT ![c] = [from |-> c, n |-> sent + 1, tm |-> now]]
  /\ caller' = [caller EXCEPT ![c] = "formatted"]
  /\ UNCHANGED <<mode, lists, thewriter, files, now, accepted, destroy, failing>>

\* isasync is read before the mutex is taken.
Choose(c) ==
  /\ caller[c] = "formatted"
  /\ caller' = [caller EXCEPT ![c] = IF isasync THEN "async" ELSE "sync"]
  /\ UNCHANGED <<mode, lists, thewriter, files, now, item, sent, accepted,
                 destroy, failing>>

\* A wrong variant of IsFull: one message late.
IsFullLate(b) == Len(b) > buffersz

IsFull(b) == Len(b) >= buffersz

Accept(c) ==
  /\ accepted' = accepted \cup {item[c]}
  /\ item' = [item EXCEPT ![c] = NoMessage]
  /\ caller' = [caller EXCEPT ![c] = "out"]
  /\ UNCHANGED <<mode, thewriter, now, sent, destroy>>

StoreAsync(c) ==
  /\ caller[c] = "async"
  /\ ~Locked
  /\ LET b == Append(buffer, item[c])
     IN IF IsFull(b) THEN Flush(b)
                     ELSE buffer' = b /\ UNCHANGED <<flush_buffer, files, failing>>
  /\ Accept(c)

\* A console flushes what has been buffered since isasync was read; the
\* message itself has gone before it.
StoreSync(c) ==
  /\ caller[c] = "sync"
  /\ ~Locked
  /\ IF kind = "console"
       THEN /\ buffer' = << >>
            /\ FlushItems(Put(files, item[c]), IF isasync THEN MoveAll(buffer) ELSE << >>)
       ELSE /\ \/ /\ files' = Put(RollFor(files, item[c]), item[c])
                  /\ UNCHANGED failing
               \/ /\ files' = RollFor(files, item[c])
                  /\ Fails({item[c]})
            /\ UNCHANGED lists
  /\ Accept(c)

SetAsync(c) ==
  /\ destroy = "none"
  /\ caller[c] = "out"
  /\ ~isasync
  /\ isasync' = TRUE
  /\ buffersz' \in BufferSizes
  /\ writer' = "check"
  /\ UNCHANGED <<kind, lists, last, files, now, callers, destroy, failing>>

\* Flush called from outside.  In a file appender that is not asynchronous the
\* lists Flush moves between do not exist: the call is undefined.
FlushCall(c) ==
  /\ destroy = "none"
  /\ caller[c] = "out"
  /\ isasync
  /\ ~Locked
  /\ Flush(buffer)
  /\ UNCHANGED <<mode, thewriter, now, callers, destroy>>

------------------------------------------------------------------------------
(* AsyncWriter *)

GoTo(place) == writer' = place
AfterFlush == GoTo(IF last THEN "gone" ELSE "check")

\* A wrong variant of WriterCheck: Flush comes only when the loop is over.
WriterFlushesLast ==
  /\ writer = "check"
  /\ ~isasync
  /\ last' = TRUE
  /\ GoTo("flush")
  /\ UNCHANGED <<mode, lists, files, now, callers, destroy, failing>>

\* The loop condition, and the sleep before it.
WriterCheck ==
  /\ writer = "check"
  /\ last' = ~isasync
  /\ GoTo("flush")
  /\ UNCHANGED <<mode, lists, files, now, callers, destroy, failing>>

\* Flush of a console begins with a look at isasync.
WriterSkip ==
  /\ writer = "flush"
  /\ kind = "console" /\ ~isasync
  /\ AfterFlush
  /\ UNCHANGED <<mode, lists, last, files, now, callers, destroy, failing>>

WriterMove ==
  /\ writer = "flush"
  /\ kind = "console" => isasync
  /\ \/ /\ flush_buffer' = MoveAll(buffer)
        /\ buffer' = << >>
        /\ GoTo("write")
        /\ UNCHANGED failing
     \/ /\ kind = "file"
        /\ Fails({})
        /\ AfterFlush
        /\ UNCHANGED lists
  /\ UNCHANGED <<mode, last, files, now, callers, destroy>>

WriterWrite ==
  /\ writer = "write"
  /\ FlushItems(files, flush_buffer)
  /\ AfterFlush
  /\ UNCHANGED <<mode, buffer, last, now, callers, destroy>>

WriterStep == WriterCheck \/ WriterSkip \/ WriterMove \/ WriterWrite

------------------------------------------------------------------------------
(* Destroy, and the BaseClean it begins with *)

\* The size is read without the mutex.
CleanCheck ==
  /\ destroy = "none"
  /\ \A c \in Threads : caller[c] = "out"
  /\ destroy' = IF buffer # << >> THEN "flush" ELSE "stop"
  /\ UNCHANGED <<mode, lists, thewriter, files, now, callers, failing>>

CleanFlush ==
  /\ destroy = "flush"
  /\ ~Locked
  /\ Flush(buffer)
  /\ destroy' = "stop"
  /\ UNCHANGED <<mode, thewriter, now, callers>>

\* A wrong variant of CleanStop: the writer is not told.
CleanForgetsWriter ==
  /\ destroy = "stop"
  /\ destroy' = "join"
  /\ UNCHANGED <<mode, lists, thewriter, files, now, callers, failing>>

CleanStop ==
  /\ destroy = "stop"
  /\ isasync' = FALSE
  /\ destroy' = "join"
  /\ UNCHANGED <<kind, buffersz, lists, thewriter, files, now, callers, failing>>

CleanFree ==
  /\ destroy = "join"
  /\ writer \in {"none", "gone"}
  /\ destroy' = "freed"
  /\ UNCHANGED <<mode, lists, thewriter, files, now, callers, failing>>

DestroyStep == CleanFlush \/ CleanStop \/ CleanFree

------------------------------------------------------------------------------
Next ==
  \/ Tick
  \/ \E c \in Threads : Format(c) \/ Choose(c) \/ StoreAsync(c) \/ StoreSync(c)
                        \/ SetAsync(c) \/ FlushCall(c)
  \/ WriterStep
  \/ CleanCheck \/ DestroyStep

\* The writer runs, and the mutex, free again and again, is obtained.
Fairness == WF_vars(WriterStep) /\ SF_vars(DestroyStep)

Spec == Init /\ [][Next]_vars /\ Fairness

------------------------------------------------------------------------------
Unwritten == ToSet(buffer) \cup ToSet(flush_buffer)

FilesTyped(f) ==
  /\ f = [current |-> f.current, rolled |-> f.rolled, lasttm |-> f.lasttm,
          written |-> f.written]
  /\ f.current \in Seq(Messages) /\ f.written \in Seq(Messages)
  /\ f.lasttm \in 1 .. MaxTime
  /\ IsFiniteSet(DOMAIN f.rolled)
  /\ f.rolled \in [DOMAIN f.rolled -> Seq(Messages)]

\* A buffer never stays full: SetAsync's size bounds what a crash can lose.
TypeOK ==
  /\ kind \in Kinds
  /\ isasync \in BOOLEAN
  /\ buffersz \in BufferSizes \cup {0}
  /\ buffer \in Seq(Messages)
  /\ flush_buffer \in Seq(Messages)
  /\ writer \in {"none", "check", "flush", "write", "gone"}
  /\ last \in BOOLEAN
  /\ FilesTyped(files)
  /\ now \in 1 .. MaxTime
  /\ caller \in [Threads -> {"out", "formatted", "async", "sync"}]
  /\ item \in [Threads -> Messages \cup {NoMessage}]
  /\ sent \in 0 .. MaxSent
  /\ accepted \subseteq Messages
  /\ destroy \in {"none", "flush", "stop", "join", "freed"}
  /\ failures \in 0 .. MaxFailures
  /\ dropped \subseteq Messages
  /\ failures = 0 => buffer = << >> \/ Len(buffer) < buffersz

\* Every message handed over is in exactly one place, once: in one of the lists,
\* in one of the files, or dropped because a file could not be opened for it.
\* No rolled file is overwritten by a later one.
NothingLost ==
  LET Copies(s, m) == {i \in DOMAIN s : s[i] = m}
      Rolled(m) == UNION {{name} \X Copies(files.rolled[name], m) :
                            name \in DOMAIN files.rolled}
      Count(m) == Cardinality(Copies(buffer, m)) + Cardinality(Copies(flush_buffer, m))
                  + Cardinality(Copies(files.current, m)) + Cardinality(Rolled(m))
  IN \A m \in accepted : Count(m) = IF m \in dropped THEN 0 ELSE 1

\* A rolled file holds messages of the period it is named for, all of them, and
\* the open one those of lasttm, although messages get their time before they
\* queue for the mutex and so arrive out of order.
FilesOfOnePeriod ==
  kind = "rolling" =>
    /\ \A m \in ToSet(files.current) : m.tm = files.lasttm
    /\ \A name \in DOMAIN files.rolled :
         \A m \in ToSet(files.rolled[name]) : m.tm = name[1]

\* The messages of a thread are written in the order it sent them, across the
\* change to asynchronous mode and failures to open the file.
InOrder ==
  \A i, k \in DOMAIN files.written :
    (i < k /\ files.written[i].from = files.written[k].from)
      => files.written[i].n < files.written[k].n

\* What is buffered is written in the end, in spite of a failure to open the
\* file: it stays in its list for the next Flush.
BufferedIsWritten ==
  \A n \in 1 .. MaxSent :
    (\E m \in Unwritten : m.n = n) ~>
      \E m \in ToSet(files.written) \cup dropped : m.n = n

\* Destroy returns, and what was buffered when it was called has been written.
DestroyDrains ==
  destroy # "none" ~> destroy = "freed" /\ Unwritten = {}

\* Every item is consumed before Destroy releases the lists, whose destroyer
\* takes what is left in them for strings.
ItemsConsumed == destroy = "freed" => Unwritten = {}
==============================================================================
