-------------------------- MODULE LogAppenderProofs --------------------------
(***************************************************************************)
(* LogAppender.tla for any number of threads, messages, periods and        *)
(* failures: no message is lost or written twice, the files of a rolling   *)
(* appender are of one period, and each thread's messages are in order.    *)
(* Then LogGlobal.tla, the log system in force that appenders belong to.   *)
(***************************************************************************)
EXTENDS LogAppender, Counting, TLAPS

\* What has been written to files, in the open one or in a renamed one.
Contents(f) ==
  ToSet(f.current) \cup UNION {ToSet(f.rolled[name]) : name \in DOMAIN f.rolled}

\* Each message is in one file, once, and no file that something has been
\* written to disappears.
Filed(f) ==
  /\ FilesTyped(f)
  /\ IsInjective(f.current)
  /\ \A name \in DOMAIN f.rolled :
       /\ IsInjective(f.rolled[name])
       /\ ToSet(f.rolled[name]) \cap ToSet(f.current) = {}
       /\ \A other \in DOMAIN f.rolled \ {name} :
            ToSet(f.rolled[name]) \cap ToSet(f.rolled[other]) = {}
  /\ ToSet(f.written) = Contents(f)

\* The files of a rolling appender are of one period each.
Dated(f) ==
  kind = "rolling" =>
    /\ \A m \in ToSet(f.current) : m.tm = f.lasttm
    /\ \A name \in DOMAIN f.rolled : \A m \in ToSet(f.rolled[name]) : m.tm = name[1]

\* The accepted messages are in the files f, in the lists s and b, or in d, and
\* each in one place.
Placed(f, s, b, d, a) ==
  /\ Filed(f) /\ Dated(f)
  /\ s \in Seq(Messages) /\ b \in Seq(Messages)
  /\ IsInjective(s) /\ IsInjective(b)
  /\ ToSet(s) \cap ToSet(b) = {}
  /\ (ToSet(s) \cup ToSet(b)) \cap Contents(f) = {}
  /\ d \cap (ToSet(s) \cup ToSet(b) \cup Contents(f)) = {}
  /\ a = ToSet(s) \cup ToSet(b) \cup Contents(f) \cup d

\* The messages of a thread are in the order it sent them: within a list, and
\* from one list to the next.
Before(x, y) == x.from = y.from => x.n < y.n
Sorted(s) == \A i, k \in DOMAIN s : i < k => Before(s[i], s[k])
Precedes(s, t) == \A x \in ToSet(s), y \in ToSet(t) : Before(x, y)
Ordered(w, s, b) ==
  /\ Sorted(w) /\ Sorted(s) /\ Sorted(b)
  /\ Precedes(w, s) /\ Precedes(w, b) /\ Precedes(s, b)

\* A thread's message is the last it sent.
Carrying ==
  \A c \in Threads :
    IF caller[c] = "out"
      THEN item[c] = NoMessage
      ELSE item[c] \in Messages /\ item[c].from = c /\ item[c].n <= sent

Latest ==
  /\ \A m \in accepted : m.n <= sent
  /\ \A c \in Threads : caller[c] # "out" =>
       \A m \in accepted : m.from = c => m.n < item[c].n

\* A thread that writes past the lists has nothing in them.
Pending == ToSet(flush_buffer) \cup ToSet(buffer)
Modes ==
  /\ destroy # "none" => \A c \in Threads : caller[c] = "out"
  /\ ~isasync /\ destroy \in {"none", "flush", "stop"}
       => buffer = << >> /\ flush_buffer = << >>
  /\ \A c \in Threads : caller[c] = "async" => isasync
  /\ \A c \in Threads : caller[c] = "sync" => \A m \in Pending : m.from # c

Kept == Placed(files, flush_buffer, buffer, dropped, accepted)
InTurn == Ordered(files.written, flush_buffer, buffer)
IInv == TypeOK /\ Kept /\ InTurn /\ Carrying /\ Latest /\ Modes

------------------------------------------------------------------------------
(* The files *)

\* The name a file is renamed to is free: there are more suffixes to try than
\* files.
LEMMA RolledNameFree ==
  ASSUME NEW f, FilesTyped(f)
  PROVE  RolledName(f) \notin DOMAIN f.rolled /\ RolledName(f)[1] = f.lasttm
<1> DEFINE size == Cardinality(DOMAIN f.rolled)
           Free(i) == <<f.lasttm, i>> \notin DOMAIN f.rolled
           free == {i \in 0 .. size : Free(i)}
<1>1. size \in Nat
  BY FS_CardinalityType DEF FilesTyped
<1>2. free # {}
  <2> SUFFICES ASSUME free = {} PROVE FALSE
    OBVIOUS
  <2> DEFINE name == [i \in 0 .. size |-> <<f.lasttm, i>>]
  <2>1. name \in Injection(0 .. size, DOMAIN f.rolled)
    <3>1. \A i \in 0 .. size : <<f.lasttm, i>> \in DOMAIN f.rolled
      OBVIOUS
    <3>2. name \in [0 .. size -> DOMAIN f.rolled]
      BY <3>1
    <3>3. \A i, k \in 0 .. size : name[i] = name[k] => i = k
      OBVIOUS
    <3> QED BY <3>2, <3>3 DEF Injection, IsInjective
  <2>2. Cardinality(0 .. size) = size + 1
    BY <1>1, FS_Interval
  <2>3. Cardinality(0 .. size) <= size
    BY <2>1, FS_Injection DEF FilesTyped
  <2> QED BY <1>1, <2>2, <2>3
<1>3. PICK i \in free : \A k \in free : i <= k
  <2>1. free \in SUBSET Nat
    BY <1>1
  <2> HIDE DEF free
  <2> QED BY <1>2, <2>1, LeastElement
<1>4. i \in 0 .. size /\ Free(i) /\ \A k \in 0 .. i - 1 : ~Free(k)
  BY <1>1, <1>3
<1>5. \E k \in 0 .. size : RolledName(f) = <<f.lasttm, k>> /\ Free(k)
  BY <1>4 DEF RolledName
<1> QED BY <1>5

\* Rolling moves what is in the open file to a new one, and loses nothing.
LEMMA RollingKeeps ==
  ASSUME NEW f, Filed(f), Dated(f), NEW tm \in 1 .. MaxTime
  PROVE  LET r == Rolling(f, tm)
         IN /\ Filed(r) /\ Dated(r) /\ Contents(r) = Contents(f)
            /\ r.lasttm = tm /\ r.current = << >> /\ r.written = f.written
<1> DEFINE r == Rolling(f, tm)
           name == RolledName(f)
<1>t. FilesTyped(f)
  BY DEF Filed
<1>1. /\ r = [current |-> << >>, rolled |-> r.rolled, lasttm |-> tm, written |-> f.written]
      /\ r.rolled = IF f.current = << >>
                      THEN f.rolled
                      ELSE [n \in DOMAIN f.rolled \cup {name} |->
                              IF n = name THEN f.current ELSE f.rolled[n]]
  BY DEF Rolling
<1>2. name \notin DOMAIN f.rolled /\ name[1] = f.lasttm
  BY <1>t, RolledNameFree
<1>3. IsInjective(<< >>) /\ ToSet(<< >>) = {} /\ << >> \in Seq(Messages)
  BY DEF IsInjective, ToSet
<1> HIDE DEF r, name
<1>4. CASE f.current = << >>
  <2>1. r.rolled = f.rolled /\ r.current = f.current /\ r.written = f.written /\ r.lasttm = tm
    BY <1>1, <1>4
  <2>2. FilesTyped(r)
    BY <1>t, <1>1, <2>1 DEF FilesTyped
  <2>3. Contents(r) = Contents(f)
    BY <2>1 DEF Contents
  <2>4. Filed(r)
    BY <2>1, <2>2, <2>3 DEF Filed
  <2>5. Dated(r)
    BY <1>3, <1>4, <2>1 DEF Dated
  <2> QED BY <1>4, <2>1, <2>3, <2>4, <2>5 DEF r
<1>5. CASE f.current # << >>
  <2>1. /\ DOMAIN r.rolled = DOMAIN f.rolled \cup {name}
        /\ r.rolled[name] = f.current
        /\ \A n \in DOMAIN f.rolled : r.rolled[n] = f.rolled[n]
        /\ r.current = << >> /\ r.written = f.written /\ r.lasttm = tm
    BY <1>1, <1>2, <1>5
  <2>2. FilesTyped(r)
    <3>1. IsFiniteSet(DOMAIN r.rolled)
      BY <1>t, <2>1, FS_AddElement, ZenonT(60) DEF FilesTyped
    <3>2. r.rolled \in [DOMAIN r.rolled -> Seq(Messages)]
      BY <1>t, <1>1, <1>5, <2>1 DEF FilesTyped
    <3> QED BY <1>t, <1>1, <1>3, <2>1, <3>1, <3>2 DEF FilesTyped
  <2>3. Contents(r) = Contents(f)
    BY <1>3, <2>1 DEF Contents
  <2>4. Filed(r)
    <3>1. \A n \in DOMAIN r.rolled : IsInjective(r.rolled[n])
      BY <2>1 DEF Filed
    <3>2. \A n \in DOMAIN r.rolled : \A o \in DOMAIN r.rolled \ {n} :
            ToSet(r.rolled[n]) \cap ToSet(r.rolled[o]) = {}
      BY <2>1 DEF Filed
    <3>3. ToSet(r.written) = Contents(r)
      BY <2>1, <2>3 DEF Filed
    <3> QED BY <1>3, <2>1, <2>2, <3>1, <3>2, <3>3 DEF Filed
  <2>5. Dated(r)
    BY <1>2, <1>3, <2>1 DEF Dated
  <2> QED BY <2>1, <2>3, <2>4, <2>5 DEF r
<1> QED BY <1>4, <1>5

\* Before a message is written the file is of its period.
LEMMA RollForKeeps ==
  ASSUME NEW f, Filed(f), Dated(f), NEW m \in Messages
  PROVE  LET r == RollFor(f, m)
         IN /\ Filed(r) /\ Dated(r) /\ Contents(r) = Contents(f)
            /\ r.written = f.written
            /\ kind = "rolling" => r.lasttm = m.tm
<1>1. m.tm \in 1 .. MaxTime
  BY DEF Messages
<1> QED BY <1>1, RollingKeeps DEF RollFor, IsChanged

\* A message that is in no file yet is in one afterwards.
LEMMA PutKeeps ==
  ASSUME NEW f, Filed(f), Dated(f), NEW m \in Messages, m \notin Contents(f),
         kind = "rolling" => f.lasttm = m.tm
  PROVE  LET p == Put(f, m)
         IN /\ Filed(p) /\ Dated(p) /\ Contents(p) = Contents(f) \cup {m}
            /\ p.written = Append(f.written, m)
<1> DEFINE p == Put(f, m)
<1>t. FilesTyped(f)
  BY DEF Filed
<1>1. p = [current |-> Append(f.current, m), rolled |-> f.rolled, lasttm |-> f.lasttm,
           written |-> Append(f.written, m)]
  BY DEF Put
<1>2. /\ p.current = Append(f.current, m) /\ p.rolled = f.rolled
      /\ p.lasttm = f.lasttm /\ p.written = Append(f.written, m)
  BY <1>1
<1>3. m \notin ToSet(f.current) /\ \A n \in DOMAIN f.rolled : m \notin ToSet(f.rolled[n])
  BY DEF Contents
<1>4. /\ p.current \in Seq(Messages) /\ p.written \in Seq(Messages)
      /\ ToSet(p.current) = ToSet(f.current) \cup {m}
      /\ ToSet(p.written) = ToSet(f.written) \cup {m}
      /\ IsInjective(p.current)
  <2>1. f.current \in Seq(Messages) /\ f.written \in Seq(Messages) /\ IsInjective(f.current)
    BY <1>t DEF FilesTyped, Filed
  <2> QED BY <1>2, <1>3, <2>1, Appended
<1> HIDE DEF p
<1>5. FilesTyped(p)
  BY <1>t, <1>1, <1>2, <1>4 DEF FilesTyped
<1>6. Contents(p) = Contents(f) \cup {m}
  BY <1>2, <1>4 DEF Contents
<1>7. Filed(p)
  <2>1. ToSet(p.written) = Contents(p)
    BY <1>4, <1>6 DEF Filed
  <2>2. \A n \in DOMAIN p.rolled : ToSet(p.rolled[n]) \cap ToSet(p.current) = {}
    BY <1>2, <1>3, <1>4 DEF Filed
  <2> QED BY <1>2, <1>4, <1>5, <2>1, <2>2 DEF Filed
<1>8. Dated(p)
  BY <1>2, <1>4 DEF Dated
<1> QED BY <1>2, <1>6, <1>7, <1>8 DEF p

------------------------------------------------------------------------------
(* The order of a list *)

\* A message put behind those its thread sent before it.
LEMMA SortedAppend ==
  ASSUME NEW s \in Seq(Messages), NEW m \in Messages, Sorted(s),
         \A x \in ToSet(s) : Before(x, m)
  PROVE  Sorted(Append(s, m))
<1> DEFINE t == Append(s, m)
<1>1. /\ t \in Seq(Messages) /\ Len(t) = Len(s) + 1 /\ Len(s) \in Nat
      /\ \A i \in 1 .. Len(s) : t[i] = s[i]
      /\ t[Len(s) + 1] = m
  BY AppendProperties, LenProperties
<1>2. DOMAIN t = 1 .. Len(s) + 1 /\ DOMAIN s = 1 .. Len(s)
  BY <1>1, LenProperties
<1>3. \A i \in DOMAIN s : Before(s[i], m)
  BY DEF ToSet
<1> HIDE DEF t
<1>4. ASSUME NEW i \in DOMAIN t, NEW k \in DOMAIN t, i < k
      PROVE  Before(t[i], t[k])
  <2>1. CASE k <= Len(s)
    BY <1>1, <1>2, <1>4, <2>1 DEF Sorted
  <2>2. CASE k = Len(s) + 1
    BY <1>1, <1>2, <1>3, <1>4, <2>2
  <2> QED BY <1>1, <1>2, <2>1, <2>2
<1> QED BY <1>4 DEF Sorted, t

\* A list moved behind one that holds earlier messages.
LEMMA SortedConcat ==
  ASSUME NEW s \in Seq(Messages), NEW t \in Seq(Messages),
         Sorted(s), Sorted(t), Precedes(s, t)
  PROVE  Sorted(s \o t)
<1> DEFINE u == s \o t
<1>1. /\ u \in Seq(Messages) /\ Len(u) = Len(s) + Len(t) /\ Len(s) \in Nat /\ Len(t) \in Nat
      /\ \A i \in 1 .. Len(s) + Len(t) :
           u[i] = IF i <= Len(s) THEN s[i] ELSE t[i - Len(s)]
  BY ConcatProperties, LenProperties
<1>2. /\ DOMAIN u = 1 .. Len(s) + Len(t)
      /\ DOMAIN s = 1 .. Len(s) /\ DOMAIN t = 1 .. Len(t)
  BY <1>1, LenProperties
<1>3. \A i \in DOMAIN s, k \in DOMAIN t : Before(s[i], t[k])
  BY DEF Precedes, ToSet
<1> HIDE DEF u
<1>4. ASSUME NEW i \in DOMAIN u, NEW k \in DOMAIN u, i < k
      PROVE  Before(u[i], u[k])
  <2>1. CASE k <= Len(s)
    BY <1>1, <1>2, <1>4, <2>1 DEF Sorted
  <2>2. CASE i <= Len(s) /\ k > Len(s)
    <3>1. i \in DOMAIN s /\ k - Len(s) \in DOMAIN t /\ u[i] = s[i] /\ u[k] = t[k - Len(s)]
      BY <1>1, <1>2, <2>2
    <3> QED BY <1>3, <3>1
  <2>3. CASE i > Len(s)
    <3>1. /\ i - Len(s) \in DOMAIN t /\ k - Len(s) \in DOMAIN t /\ i - Len(s) < k - Len(s)
          /\ u[i] = t[i - Len(s)] /\ u[k] = t[k - Len(s)]
      BY <1>1, <1>2, <1>4, <2>3
    <3> QED BY <3>1 DEF Sorted
  <2> QED BY <1>1, <1>2, <2>1, <2>2, <2>3
<1> QED BY <1>4 DEF Sorted, u

\* The first messages of a list.
LEMMA SortedFirst ==
  ASSUME NEW s \in Seq(Messages), Sorted(s), NEW k \in 0 .. Len(s)
  PROVE  Sorted(SubSeq(s, 1, k))
<1> DEFINE t == SubSeq(s, 1, k)
<1>1. Len(t) = k /\ t \in Seq(Messages) /\ \A i \in 1 .. k : t[i] = s[i]
  BY Cut
<1>2. DOMAIN t = 1 .. k /\ DOMAIN s = 1 .. Len(s) /\ Len(s) \in Nat
  BY <1>1, LenProperties
<1> HIDE DEF t
<1>3. \A i \in DOMAIN t : i \in DOMAIN s /\ t[i] = s[i]
  BY <1>1, <1>2
<1> QED BY <1>3 DEF Sorted, t

\* Nothing is in the empty list.
LEMMA EmptyList ==
  /\ << >> \in Seq(Messages) /\ ToSet(<< >>) = {} /\ IsInjective(<< >>)
  /\ Sorted(<< >>)
  /\ \A s \in Seq(Messages) : Precedes(s, << >>) /\ Precedes(<< >>, s)
  /\ \A s \in Seq(Messages) : ToSet(s) = {} => s = << >>
<1>1. << >> \in Seq(Messages) /\ ToSet(<< >>) = {} /\ IsInjective(<< >>)
  BY DEF IsInjective, ToSet
<1>2. ASSUME NEW s \in Seq(Messages), ToSet(s) = {} PROVE s = << >>
  BY <1>2, EmptySeq, LenProperties DEF ToSet
<1> QED BY <1>1, <1>2 DEF Sorted, Precedes

------------------------------------------------------------------------------
(* The loop of Flush *)

\* The function WriteAll is defined by exists: the loop comes to item i with
\* what it has made of the items before.
LEMMA WriteAllSteps ==
  ASSUME NEW f, NEW items \in Seq(Messages)
  PROVE  \E g : /\ g[0] = f
                /\ \A i \in 1 .. Len(items) :
                     g[i] = Put(RollFor(g[i - 1], items[i]), items[i])
                /\ WriteAll(f, items) = g[Len(items)]
<1> DEFINE Step(x, i) == Put(RollFor(x, items[i]), items[i])
           Made(g, n) == g = [i \in 0 .. n |-> IF i = 0 THEN f ELSE Step(g[i - 1], i)]
           T == {n \in Nat : \E g : Made(g, n)}
           made == CHOOSE g : Made(g, Len(items))
<1>1. 0 \in T
  <2> DEFINE g == [i \in 0 .. 0 |-> f]
  <2> HIDE DEF Step
  <2>1. Made(g, 0)
    OBVIOUS
  <2> QED BY <2>1
<1>2. ASSUME NEW n \in Nat, n \in T PROVE n + 1 \in T
  <2>1. PICK g : Made(g, n)
    BY <1>2
  <2> DEFINE h == [i \in 0 .. n + 1 |-> IF i = n + 1 THEN Step(g[n], n + 1) ELSE g[i]]
  <2> HIDE DEF Step
  <2>2. \A i \in 0 .. n : g[i] = IF i = 0 THEN f ELSE Step(g[i - 1], i)
    BY <2>1
  <2>3. \A i \in 0 .. n : h[i] = g[i]
    OBVIOUS
  <2>4. h[n + 1] = Step(h[n], n + 1)
    BY <2>3
  <2>5. ASSUME NEW i \in 0 .. n + 1
        PROVE  h[i] = IF i = 0 THEN f ELSE Step(h[i - 1], i)
    <3>1. CASE i = n + 1
      BY <2>4, <3>1
    <3>2. CASE i \in 0 .. n
      <4>1. i # 0 => i - 1 \in 0 .. n
        BY <3>2
      <4> QED BY <2>2, <2>3, <3>2, <4>1
    <3> QED BY <3>1, <3>2
  <2>6. h = [i \in 0 .. n + 1 |-> h[i]]
    OBVIOUS
  <2> HIDE DEF h
  <2>7. Made(h, n + 1)
    BY <2>5, <2>6
  <2> HIDE DEF Made
  <2> QED BY <2>7
<1>3. Nat \subseteq T
  <2> HIDE DEF T
  <2> QED BY <1>1, <1>2, SetInduction
<1>4. Len(items) \in Nat
  BY LenProperties
<1>5. \E g : Made(g, Len(items))
  BY <1>3, <1>4
<1>6. Made(made, Len(items))
  <2> HIDE DEF Made
  <2> QED BY <1>5
<1>7. WriteAll(f, items) = made[Len(items)]
  BY DEF WriteAll
<1>8. made[0] = f /\ \A i \in 1 .. Len(items) : made[i] = Step(made[i - 1], i)
  <2> HIDE DEF Step, made
  <2> QED BY <1>4, <1>6
<1> QED BY <1>7, <1>8

\* What the loop writes is in the files, once, in order and by periods.
LEMMA WriteAllKeeps ==
  ASSUME NEW f, Filed(f), Dated(f), Sorted(f.written),
         NEW items \in Seq(Messages), IsInjective(items), Sorted(items),
         ToSet(items) \cap Contents(f) = {}, Precedes(f.written, items)
  PROVE  LET g == WriteAll(f, items)
         IN /\ Filed(g) /\ Dated(g) /\ Sorted(g.written)
            /\ Contents(g) = Contents(f) \cup ToSet(items)
<1>1. PICK g : /\ g[0] = f
               /\ \A i \in 1 .. Len(items) :
                    g[i] = Put(RollFor(g[i - 1], items[i]), items[i])
               /\ WriteAll(f, items) = g[Len(items)]
  BY WriteAllSteps
<1> DEFINE First(i) == {items[k] : k \in 1 .. i}
           Done(i) == /\ Filed(g[i]) /\ Dated(g[i]) /\ Sorted(g[i].written)
                      /\ Contents(g[i]) = Contents(f) \cup First(i)
           T == {n \in Nat : n <= Len(items) => Done(n)}
<1>2. /\ Len(items) \in Nat /\ DOMAIN items = 1 .. Len(items)
      /\ \A i \in 1 .. Len(items) : items[i] \in Messages
  BY LenProperties
<1>3. 0 \in T
  BY <1>1
<1>4. ASSUME NEW n \in Nat, n \in T PROVE n + 1 \in T
  <2> SUFFICES ASSUME n + 1 <= Len(items) PROVE Done(n + 1)
    OBVIOUS
  <2> DEFINE m == items[n + 1]
             r == RollFor(g[n], m)
             p == Put(r, m)
  <2>1. n + 1 \in 1 .. Len(items) /\ n \in 0 .. Len(items) /\ n <= Len(items)
    BY <1>2
  <2>2. /\ Filed(g[n]) /\ Dated(g[n]) /\ Sorted(g[n].written)
        /\ Contents(g[n]) = Contents(f) \cup First(n)
    BY <1>4, <2>1
  <2>3. m \in Messages /\ m \in ToSet(items) /\ m \notin First(n)
    <3>1. \A k \in 1 .. n : k \in DOMAIN items /\ k # n + 1
      BY <1>2, <2>1
    <3> QED BY <1>2, <2>1, <3>1 DEF IsInjective, ToSet
  <2>4. m \notin Contents(g[n])
    BY <2>2, <2>3
  <2>5. /\ Filed(r) /\ Dated(r) /\ Contents(r) = Contents(g[n])
        /\ r.written = g[n].written
        /\ kind = "rolling" => r.lasttm = m.tm
    <3> HIDE DEF First, m
    <3> QED BY <2>2, <2>3, RollForKeeps
  <2>6. /\ Filed(p) /\ Dated(p) /\ Contents(p) = Contents(r) \cup {m}
        /\ p.written = Append(r.written, m)
    <3> HIDE DEF First, m, r
    <3> QED BY <2>3, <2>4, <2>5, PutKeeps
  <2>7. g[n + 1] = p
    <3>1. (n + 1) - 1 = n
      OBVIOUS
    <3> QED BY <1>1, <2>1, <3>1
  <2>8. First(n + 1) = First(n) \cup {m}
    <3>1. 1 .. n + 1 = (1 .. n) \cup {n + 1}
      OBVIOUS
    <3> QED BY <3>1
  <2>9. Sorted(p.written)
    <3>1. g[n].written \in Seq(Messages) /\ ToSet(g[n].written) = Contents(g[n])
      BY <2>2 DEF Filed, FilesTyped
    <3>2. \A x \in Contents(f) : Before(x, m)
      BY <2>3 DEF Precedes, Filed
    <3>3. \A x \in First(n) : Before(x, m)
      <4>1. \A k \in 1 .. n : k \in DOMAIN items /\ n + 1 \in DOMAIN items /\ k < n + 1
        BY <1>2, <2>1
      <4> QED BY <4>1 DEF Sorted
    <3>4. \A x \in ToSet(g[n].written) : Before(x, m)
      BY <2>2, <3>1, <3>2, <3>3
    <3> HIDE DEF m, r, p
    <3> QED BY <2>2, <2>3, <2>5, <2>6, <3>1, <3>4, SortedAppend
  <2> HIDE DEF m, r, p, First
  <2> QED BY <2>2, <2>5, <2>6, <2>7, <2>8, <2>9
<1>5. Nat \subseteq T
  <2> HIDE DEF T
  <2> QED BY <1>3, <1>4, SetInduction
<1>6. Done(Len(items))
  BY <1>2, <1>5
<1>7. First(Len(items)) = ToSet(items)
  BY <1>2 DEF ToSet
<1> QED BY <1>1, <1>6, <1>7

------------------------------------------------------------------------------
(* Flush *)

\* Of the items a Flush has moved some are written, and the others stay or are
\* given up.
LEMMA FlushItemsKeeps ==
  ASSUME NEW f, NEW items, NEW b, NEW a,
         Placed(f, items, b, dropped, a), Ordered(f.written, items, b),
         FlushItems(f, items)
  PROVE  /\ Placed(files', flush_buffer', b, dropped', a)
         /\ Ordered(files'.written, flush_buffer', b)
         /\ flush_buffer' \in {<< >>, items}
         /\ \/ UNCHANGED failing
            \/ Fails(dropped' \ dropped)
<1> DEFINE g == IF items = << >> THEN f ELSE RollFor(f, Head(items))
<1>1. /\ Filed(f) /\ Dated(f) /\ items \in Seq(Messages) /\ IsInjective(items)
      /\ b \in Seq(Messages) /\ IsInjective(b)
      /\ ToSet(items) \cap ToSet(b) = {}
      /\ (ToSet(items) \cup ToSet(b)) \cap Contents(f) = {}
      /\ dropped \cap (ToSet(items) \cup ToSet(b) \cup Contents(f)) = {}
      /\ a = ToSet(items) \cup ToSet(b) \cup Contents(f) \cup dropped
  BY DEF Placed
<1>2. /\ Sorted(f.written) /\ Sorted(items) /\ Sorted(b)
      /\ Precedes(f.written, items) /\ Precedes(f.written, b) /\ Precedes(items, b)
  BY DEF Ordered
<1>3. /\ Filed(g) /\ Dated(g) /\ Contents(g) = Contents(f) /\ g.written = f.written
  <2>1. CASE items = << >>
    BY <1>1, <2>1
  <2>2. CASE items # << >>
    <3>1. Head(items) \in Messages
      BY <1>1, <2>2, HeadTailProperties
    <3> QED BY <1>1, <2>2, <3>1, RollForKeeps
  <2> QED BY <2>1, <2>2
\* What has been written is in order, and before the buffer.
<1>4. ASSUME NEW h, Filed(h), Sorted(h.written),
             Contents(h) \subseteq Contents(f) \cup ToSet(items)
      PROVE  Ordered(h.written, << >>, b)
  <2>1. h.written \in Seq(Messages) /\ ToSet(h.written) = Contents(h)
    BY <1>4 DEF Filed, FilesTyped
  <2>2. ToSet(f.written) = Contents(f)
    BY <1>1 DEF Filed
  <2>3. Precedes(h.written, b)
    BY <1>2, <1>4, <2>1, <2>2 DEF Precedes
  <2> HIDE DEF Sorted, Precedes
  <2> QED BY <1>1, <1>2, <1>4, <2>1, <2>3, EmptyList DEF Ordered
<1> HIDE DEF g
<1>6. CASE /\ files' = WriteAll(g, items)
           /\ flush_buffer' = << >>
           /\ UNCHANGED failing
  <2>1. /\ Filed(files') /\ Dated(files') /\ Sorted(files'.written)
        /\ Contents(files') = Contents(f) \cup ToSet(items)
    BY <1>1, <1>2, <1>3, <1>6, WriteAllKeeps
  <2>2. dropped' = dropped
    BY <1>6 DEF failing
  <2>3. Placed(files', flush_buffer', b, dropped', a)
    BY <1>1, <1>6, <2>1, <2>2, EmptyList DEF Placed
  <2> QED BY <1>4, <1>6, <2>1, <2>3
<1>7. ASSUME NEW i \in Reopenings(items),
             files' = RollFor(WriteAll(g, SubSeq(items, 1, i - 1)), items[i]),
             flush_buffer' = << >>,
             Fails(ToSet(SubSeq(items, i, Len(items))))
      PROVE  /\ Placed(files', flush_buffer', b, dropped', a)
             /\ Ordered(files'.written, flush_buffer', b)
             /\ Fails(dropped' \ dropped)
  <2> DEFINE written == SubSeq(items, 1, i - 1)
             lost == SubSeq(items, i, Len(items))
             w == WriteAll(g, written)
  <2>1. i \in 2 .. Len(items) /\ i - 1 \in 0 .. Len(items) /\ (i - 1) + 1 = i
        /\ items[i] \in Messages
    <3>1. Len(items) \in Nat /\ \A k \in 1 .. Len(items) : items[k] \in Messages
      BY <1>1, LenProperties
    <3>2. i \in 2 .. Len(items)
      BY <1>7 DEF Reopenings
    <3> QED BY <3>1, <3>2
  <2>2. /\ written \in Seq(Messages) /\ ToSet(written) \cup ToSet(lost) = ToSet(items)
        /\ IsInjective(written) /\ ToSet(written) \cap ToSet(lost) = {}
    <3>1. PICK k \in 0 .. Len(items) : k = i - 1 /\ k + 1 = i
      BY <2>1
    <3>2. /\ SubSeq(items, 1, k) \in Seq(Messages)
          /\ ToSet(SubSeq(items, 1, k)) \cup ToSet(SubSeq(items, k + 1, Len(items)))
               = ToSet(items)
          /\ IsInjective(SubSeq(items, 1, k))
          /\ ToSet(SubSeq(items, 1, k)) \cap ToSet(SubSeq(items, k + 1, Len(items))) = {}
      BY <1>1, Cut
    <3> QED BY <3>1, <3>2
  <2>3. Sorted(written)
    BY <1>1, <1>2, <2>1, SortedFirst
  <2> HIDE DEF written, lost, w
  <2>4. Precedes(f.written, written) /\ ToSet(written) \cap Contents(f) = {}
    BY <1>1, <1>2, <2>2 DEF Precedes
  <2>5. /\ Filed(w) /\ Dated(w) /\ Sorted(w.written)
        /\ Contents(w) = Contents(f) \cup ToSet(written)
    BY <1>2, <1>3, <2>2, <2>3, <2>4, WriteAllKeeps DEF w
  <2>6. files' = RollFor(w, items[i]) /\ Fails(ToSet(lost))
    BY <1>7 DEF w, written, lost
  <2>7. /\ Filed(files') /\ Dated(files') /\ files'.written = w.written
        /\ Contents(files') = Contents(f) \cup ToSet(written)
    BY <2>1, <2>5, <2>6, RollForKeeps
  <2>8. dropped' = dropped \cup ToSet(lost) /\ dropped' \ dropped = ToSet(lost)
    BY <1>1, <2>2, <2>6 DEF Fails
  <2>9. Placed(files', flush_buffer', b, dropped', a)
    BY <1>1, <1>7, <2>2, <2>7, <2>8, EmptyList DEF Placed
  <2>10. Ordered(files'.written, flush_buffer', b)
    BY <1>4, <1>7, <2>2, <2>5, <2>7
  <2> QED BY <2>6, <2>8, <2>9, <2>10
<1>8. CASE /\ kind = "rolling" /\ items # << >>
           /\ files' = g
           /\ flush_buffer' = items
           /\ Fails({})
  <2>1. dropped' = dropped /\ dropped' \ dropped = {}
    BY <1>8 DEF Fails
  <2>2. Placed(files', flush_buffer', b, dropped', a)
    BY <1>1, <1>3, <1>8, <2>1 DEF Placed
  <2>3. Ordered(files'.written, flush_buffer', b)
    BY <1>2, <1>3, <1>8 DEF Ordered
  <2> QED BY <1>8, <2>1, <2>2, <2>3
<1> QED BY <1>6, <1>7, <1>8 DEF FlushItems, g

\* Moving the buffer behind what is left of an earlier Flush.
LEMMA MovedKeeps ==
  ASSUME NEW f, NEW s, NEW b, NEW d, NEW a,
         Placed(f, s, b, d, a), Ordered(f.written, s, b)
  PROVE  Placed(f, s \o b, << >>, d, a) /\ Ordered(f.written, s \o b, << >>)
<1>1. s \in Seq(Messages) /\ b \in Seq(Messages)
  BY DEF Placed
<1>2. /\ s \o b \in Seq(Messages) /\ ToSet(s \o b) = ToSet(s) \cup ToSet(b)
      /\ IsInjective(s \o b)
  BY <1>1, Concatenated DEF Placed
<1>3. Sorted(s \o b)
  BY <1>1, SortedConcat DEF Ordered
<1>4. f.written \in Seq(Messages)
  BY DEF Placed, Filed, FilesTyped
<1>5. Precedes(f.written, s \o b)
  BY <1>2 DEF Ordered, Precedes
<1>6. Placed(f, s \o b, << >>, d, a)
  BY <1>2, EmptyList DEF Placed
<1> HIDE DEF Sorted, Precedes
<1>7. Ordered(f.written, s \o b, << >>)
  BY <1>2, <1>3, <1>4, <1>5, EmptyList DEF Ordered
<1> QED BY <1>6, <1>7

\* A Flush in one piece.
LEMMA FlushKeeps ==
  ASSUME NEW b, NEW a,
         Placed(files, flush_buffer, b, dropped, a),
         Ordered(files.written, flush_buffer, b),
         Flush(b)
  PROVE  /\ Placed(files', flush_buffer', buffer', dropped', a)
         /\ Ordered(files'.written, flush_buffer', buffer')
         /\ ToSet(flush_buffer') \cup ToSet(buffer') \subseteq ToSet(flush_buffer) \cup ToSet(b)
         /\ \/ buffer' = << >> /\ UNCHANGED failing
            \/ buffer' \in {<< >>, b} /\ Fails(dropped' \ dropped)
<1>1. CASE FlushItems(files, MoveAll(b)) /\ buffer' = << >>
  <2>1. /\ Placed(files, MoveAll(b), << >>, dropped, a)
        /\ Ordered(files.written, MoveAll(b), << >>)
    BY MovedKeeps DEF MoveAll
  <2>2. /\ Placed(files', flush_buffer', << >>, dropped', a)
        /\ Ordered(files'.written, flush_buffer', << >>)
        /\ flush_buffer' \in {<< >>, MoveAll(b)}
        /\ UNCHANGED failing \/ Fails(dropped' \ dropped)
    BY <1>1, <2>1, FlushItemsKeeps
  <2>3. ToSet(MoveAll(b)) = ToSet(flush_buffer) \cup ToSet(b)
    BY Concatenated DEF Placed, MoveAll
  <2> QED BY <1>1, <2>2, <2>3, EmptyList
<1>2. CASE /\ kind = "file"
           /\ Fails({})
           /\ buffer' = b
           /\ UNCHANGED <<files, flush_buffer>>
  <2>1. dropped' = dropped /\ dropped' \ dropped = {}
    BY <1>2 DEF Fails
  <2> QED BY <1>2, <2>1
<1> QED BY <1>1, <1>2 DEF Flush

------------------------------------------------------------------------------
(* Append *)

\* A message of an asynchronous appender goes behind those in the buffer.
LEMMA BufferedKeeps ==
  ASSUME NEW f, NEW s, NEW b, NEW d, NEW a, NEW m \in Messages,
         Placed(f, s, b, d, a), Ordered(f.written, s, b),
         m \notin a, \A x \in a : Before(x, m)
  PROVE  /\ Placed(f, s, Append(b, m), d, a \cup {m})
         /\ Ordered(f.written, s, Append(b, m))
<1>1. /\ s \in Seq(Messages) /\ b \in Seq(Messages) /\ IsInjective(b)
      /\ ToSet(b) \subseteq a /\ ToSet(s) \subseteq a /\ ToSet(f.written) \subseteq a
      /\ Contents(f) \subseteq a /\ d \subseteq a
  BY DEF Placed, Filed
<1>2. /\ Append(b, m) \in Seq(Messages) /\ ToSet(Append(b, m)) = ToSet(b) \cup {m}
      /\ IsInjective(Append(b, m))
  BY <1>1, Appended
<1>3. Sorted(Append(b, m))
  BY <1>1, SortedAppend DEF Ordered
<1>4. Placed(f, s, Append(b, m), d, a \cup {m})
  BY <1>1, <1>2 DEF Placed
<1>5. Precedes(f.written, Append(b, m)) /\ Precedes(s, Append(b, m))
  BY <1>1, <1>2 DEF Ordered, Precedes
<1> QED BY <1>3, <1>4, <1>5 DEF Ordered

\* A message written past the lists, where its thread has nothing.
LEMMA WrittenKeeps ==
  ASSUME NEW f, NEW s, NEW b, NEW d, NEW a, NEW m \in Messages,
         Placed(f, s, b, d, a), Ordered(f.written, s, b),
         m \notin a, \A x \in a : Before(x, m),
         \A x \in ToSet(s) \cup ToSet(b) : x.from # m.from
  PROVE  LET p == Put(RollFor(f, m), m)
         IN /\ Placed(p, s, b, d, a \cup {m})
            /\ Ordered(p.written, s, b)
<1> DEFINE r == RollFor(f, m)
           p == Put(r, m)
<1>1. /\ Filed(f) /\ Dated(f) /\ m \notin Contents(f)
      /\ ToSet(f.written) = Contents(f) /\ Contents(f) \subseteq a
      /\ m \notin ToSet(s) /\ m \notin ToSet(b) /\ m \notin d
      /\ f.written \in Seq(Messages)
  BY DEF Placed, Filed, FilesTyped
<1>2. /\ Filed(r) /\ Dated(r) /\ Contents(r) = Contents(f) /\ r.written = f.written
      /\ kind = "rolling" => r.lasttm = m.tm
  BY <1>1, RollForKeeps
<1> HIDE DEF r
<1>3. /\ Filed(p) /\ Dated(p) /\ Contents(p) = Contents(f) \cup {m}
      /\ p.written = Append(f.written, m)
  BY <1>1, <1>2, PutKeeps
<1> HIDE DEF p
<1>4. Placed(p, s, b, d, a \cup {m})
  BY <1>1, <1>3 DEF Placed
<1>5. ToSet(p.written) = ToSet(f.written) \cup {m}
  BY <1>1, <1>3, Appended
<1>6. Sorted(p.written)
  <2>1. \A x \in ToSet(f.written) : Before(x, m)
    BY <1>1
  <2> QED BY <1>1, <1>3, <2>1, SortedAppend DEF Ordered
<1>7. Precedes(p.written, s) /\ Precedes(p.written, b)
  BY <1>5 DEF Ordered, Precedes, Before
<1> QED BY <1>4, <1>6, <1>7 DEF Ordered, p, r

\* A message that is given up because the file could not be reopened for it.
LEMMA DroppedKeeps ==
  ASSUME NEW f, NEW s, NEW b, NEW d, NEW a, NEW m \in Messages,
         Placed(f, s, b, d, a), Ordered(f.written, s, b), m \notin a
  PROVE  LET r == RollFor(f, m)
         IN /\ Placed(r, s, b, d \cup {m}, a \cup {m})
            /\ Ordered(r.written, s, b)
<1> DEFINE r == RollFor(f, m)
<1>1. Filed(f) /\ Dated(f)
  BY DEF Placed
<1>2. /\ Filed(r) /\ Dated(r) /\ Contents(r) = Contents(f) /\ r.written = f.written
  BY <1>1, RollForKeeps
<1> HIDE DEF r
<1>3. Placed(r, s, b, d \cup {m}, a \cup {m})
  BY <1>2 DEF Placed
<1> QED BY <1>2, <1>3 DEF r

------------------------------------------------------------------------------
(* The inductive invariant *)

USE DEF lists, mode, thewriter, callers, failing

\* At the start nothing has been logged.
LEMMA InitInvariant == Init => IInv
<1> SUFFICES ASSUME Init PROVE IInv
  OBVIOUS
<1> USE DEF Init
<1>1. << >> \in Seq(Messages) /\ ToSet(<< >>) = {} /\ IsInjective(<< >>)
  BY EmptyList
<1>2. /\ files.current = << >> /\ files.rolled = << >> /\ files.lasttm = 1
      /\ files.written = << >>
      /\ files = [current |-> << >>, rolled |-> << >>, lasttm |-> 1, written |-> << >>]
  OBVIOUS
<1>3. DOMAIN files.rolled = {} /\ files.rolled \in [{} -> Seq(Messages)]
  BY <1>2
<1>4. FilesTyped(files)
  <2>1. 1 \in 1 .. MaxTime
    BY BoundAssumption
  <2>2. IsFiniteSet(DOMAIN files.rolled)
    BY <1>3, FS_EmptySet
  <2> HIDE DEF Init
  <2> QED BY <1>1, <1>2, <1>3, <2>1, <2>2 DEF FilesTyped
<1>5. Contents(files) = {}
  BY <1>1, <1>2, <1>3 DEF Contents
<1>6. Filed(files)
  BY <1>1, <1>2, <1>3, <1>4, <1>5 DEF Filed
<1>7. TypeOK
  <2>1. item \in [Threads -> Messages \cup {NoMessage}]
    OBVIOUS
  <2>2. caller \in [Threads -> {"out", "formatted", "async", "sync"}]
    OBVIOUS
  <2>3. /\ kind \in Kinds /\ isasync \in BOOLEAN /\ buffersz \in BufferSizes \cup {0}
        /\ writer \in {"none", "check", "flush", "write", "gone"} /\ last \in BOOLEAN
        /\ destroy \in {"none", "flush", "stop", "join", "freed"}
        /\ accepted \subseteq Messages /\ dropped \subseteq Messages
    OBVIOUS
  <2>4. /\ now \in 1 .. MaxTime /\ sent \in 0 .. MaxSent /\ failures \in 0 .. MaxFailures
    BY BoundAssumption
  <2>5. buffer = << >> /\ flush_buffer = << >>
    OBVIOUS
  <2> HIDE DEF Init
  <2> QED BY <1>1, <1>4, <2>1, <2>2, <2>3, <2>4, <2>5 DEF TypeOK
<1>8. Kept
  BY <1>1, <1>2, <1>3, <1>5, <1>6 DEF Kept, Placed, Dated
<1>9. InTurn
  BY <1>1, <1>2, EmptyList DEF InTurn, Ordered
<1>10. Carrying /\ Latest
  BY DEF Carrying, Latest
<1>11. Modes
  BY DEF Modes
<1> QED BY <1>7, <1>8, <1>9, <1>10, <1>11 DEF IInv

\* Every step keeps it.
LEMMA NextInvariant == IInv /\ [Next]_vars => IInv'
<1> SUFFICES ASSUME IInv, [Next]_vars PROVE IInv'
  OBVIOUS
<1> USE KindAssumption, BufferAssumption, BoundAssumption
<1>typed. TypeOK
  BY DEF IInv
<1>kept. Placed(files, flush_buffer, buffer, dropped, accepted)
  BY DEF IInv, Kept
<1>turn. Ordered(files.written, flush_buffer, buffer)
  BY DEF IInv, InTurn
<1>carrying. Carrying
  BY DEF IInv
<1>latest. Latest
  BY DEF IInv
<1>modes. Modes
  BY DEF IInv
<1>lists. /\ flush_buffer \in Seq(Messages) /\ buffer \in Seq(Messages)
          /\ flush_buffer \o buffer \in Seq(Messages)
          /\ ToSet(flush_buffer \o buffer) = ToSet(flush_buffer) \cup ToSet(buffer)
  BY <1>typed, Concatenated DEF TypeOK
\* What the parts of the invariant say of what an action leaves alone.
<1>placed. kind' = kind /\ Placed(files', flush_buffer', buffer', dropped', accepted') => Kept'
  BY DEF Kept, Placed, Dated
<1>filed. Kept' => /\ flush_buffer' \in Seq(Messages) /\ buffer' \in Seq(Messages)
                   /\ FilesTyped(files') /\ dropped' \subseteq accepted'
  BY DEF Kept, Placed, Filed
<1>same. UNCHANGED <<kind, lists, files, dropped, accepted>> => Kept' /\ InTurn'
  BY <1>placed, <1>kept, <1>turn DEF InTurn
<1>quiet. UNCHANGED callers => Carrying' /\ Latest'
  BY <1>carrying, <1>latest DEF Carrying, Latest
\* A thread in Append has a message that is later than all it has sent.
<1>mine. ASSUME NEW c \in Threads, caller[c] # "out"
         PROVE  /\ item[c] \in Messages /\ item[c].from = c /\ item[c].n <= sent
                /\ item[c] \notin accepted
                /\ \A x \in accepted : Before(x, item[c])
  <2>1. item[c] \in Messages /\ item[c].from = c /\ item[c].n <= sent
    BY <1>mine, <1>carrying DEF Carrying
  <2>2. \A x \in accepted : x.from = c => x.n < item[c].n
    BY <1>mine, <1>latest DEF Latest
  <2>3. item[c].n \in Nat
    BY <2>1 DEF Messages
  <2> QED BY <2>1, <2>2, <2>3 DEF Before
\* The end of Append.
<1>accept. ASSUME NEW c \in Threads, caller[c] # "out", Accept(c)
           PROVE  /\ Carrying' /\ Latest'
                  /\ caller' \in [Threads -> {"out", "formatted", "async", "sync"}]
                  /\ item' \in [Threads -> Messages \cup {NoMessage}]
                  /\ accepted' \subseteq Messages /\ accepted' = accepted \cup {item[c]}
                  /\ caller'[c] = "out"
                  /\ \A d \in Threads \ {c} : caller'[d] = caller[d]
                  /\ UNCHANGED <<mode, thewriter, now, sent, destroy>>
  <2>1. /\ caller \in [Threads -> {"out", "formatted", "async", "sync"}]
        /\ item \in [Threads -> Messages \cup {NoMessage}] /\ accepted \subseteq Messages
    BY <1>typed DEF TypeOK
  <2>2. /\ caller'[c] = "out" /\ item'[c] = NoMessage
        /\ \A d \in Threads \ {c} : caller'[d] = caller[d] /\ item'[d] = item[d]
        /\ accepted' = accepted \cup {item[c]}
        /\ UNCHANGED <<mode, thewriter, now, sent, destroy>>
    BY <1>accept, <2>1 DEF Accept
  <2>3. /\ caller' \in [Threads -> {"out", "formatted", "async", "sync"}]
        /\ item' \in [Threads -> Messages \cup {NoMessage}]
    BY <1>accept, <2>1 DEF Accept
  <2>4. item[c] \in Messages /\ item[c].from = c /\ item[c].n <= sent
    BY <1>accept, <1>mine
  <2>5. Carrying'
    BY <1>carrying, <2>2 DEF Carrying
  <2>6. Latest'
    BY <1>latest, <2>2, <2>4 DEF Latest
  <2> QED BY <2>1, <2>2, <2>3, <2>4, <2>5, <2>6
\* What Flush does to the type and to the lists.
<1>flush. ASSUME NEW b \in Seq(Messages), NEW a, Flush(b), kind' = kind, buffersz' = buffersz,
                 Placed(files, flush_buffer, b, dropped, a),
                 Ordered(files.written, flush_buffer, b), accepted' = a
          PROVE  /\ Kept' /\ InTurn' /\ failures' \in 0 .. MaxFailures
                 /\ failures' = 0 => buffer' = << >>
                 /\ Pending' \subseteq ToSet(flush_buffer) \cup ToSet(b)
  <2>1. /\ Placed(files', flush_buffer', buffer', dropped', a)
        /\ Ordered(files'.written, flush_buffer', buffer')
        /\ ToSet(flush_buffer') \cup ToSet(buffer') \subseteq ToSet(flush_buffer) \cup ToSet(b)
        /\ \/ buffer' = << >> /\ UNCHANGED failing
           \/ buffer' \in {<< >>, b} /\ Fails(dropped' \ dropped)
    BY <1>flush, FlushKeeps
  <2>2. failures \in 0 .. MaxFailures
    BY <1>typed DEF TypeOK
  <2>3. failures' \in 0 .. MaxFailures /\ (failures' = 0 => buffer' = << >>)
    BY <2>1, <2>2 DEF Fails
  <2> QED BY <1>flush, <1>placed, <2>1, <2>3 DEF InTurn, Pending
<1>1. CASE Tick
  <2> USE <1>1 DEF Tick
  <2>1. TypeOK'
    BY <1>typed DEF TypeOK
  <2>2. Modes'
    BY <1>modes DEF Modes, Pending
  <2> QED BY <1>same, <1>quiet, <2>1, <2>2 DEF IInv
<1>2. ASSUME NEW c \in Threads, Format(c)
      PROVE  IInv'
  <2> DEFINE m == [from |-> c, n |-> sent + 1, tm |-> now]
  <2>1. /\ destroy = "none" /\ caller[c] = "out" /\ sent < MaxSent /\ sent' = sent + 1
        /\ item' = [item EXCEPT ![c] = m] /\ caller' = [caller EXCEPT ![c] = "formatted"]
        /\ UNCHANGED <<mode, lists, thewriter, files, now, accepted, destroy, failing>>
    BY <1>2 DEF Format
  <2>2. /\ sent \in 0 .. MaxSent /\ now \in 1 .. MaxTime
        /\ caller \in [Threads -> {"out", "formatted", "async", "sync"}]
        /\ item \in [Threads -> Messages \cup {NoMessage}]
    BY <1>typed DEF TypeOK
  <2>3. m \in Messages /\ m.from = c /\ m.n = sent + 1
    BY <2>1, <2>2 DEF Messages
  <2> HIDE DEF m
  <2>4. /\ caller'[c] = "formatted" /\ item'[c] = m
        /\ \A d \in Threads \ {c} : caller'[d] = caller[d] /\ item'[d] = item[d]
    BY <2>1, <2>2
  <2>5. TypeOK'
    <3>1. /\ caller' \in [Threads -> {"out", "formatted", "async", "sync"}]
          /\ item' \in [Threads -> Messages \cup {NoMessage}]
          /\ sent' \in 0 .. MaxSent
      BY <2>1, <2>2, <2>3
    <3> QED BY <1>typed, <2>1, <3>1 DEF TypeOK
  <2>6. Carrying'
    <3>1. \A d \in Threads : item[d] \in Messages => item[d].n \in Nat
      BY DEF Messages
    <3> QED BY <1>carrying, <2>1, <2>2, <2>3, <2>4, <3>1 DEF Carrying
  <2>7. Latest'
    <3>1. \A x \in accepted : x.n \in Nat
      BY <1>typed DEF TypeOK, Messages
    <3> QED BY <1>latest, <2>1, <2>2, <2>3, <2>4, <3>1 DEF Latest
  <2>8. Modes'
    BY <1>modes, <2>1, <2>4 DEF Modes, Pending
  <2> QED BY <1>same, <2>1, <2>5, <2>6, <2>7, <2>8 DEF IInv
<1>3. ASSUME NEW c \in Threads, Choose(c)
      PROVE  IInv'
  <2>1. /\ caller[c] = "formatted"
        /\ caller' = [caller EXCEPT ![c] = IF isasync THEN "async" ELSE "sync"]
        /\ UNCHANGED <<mode, lists, thewriter, files, now, item, sent, accepted,
                       destroy, failing>>
    BY <1>3 DEF Choose
  <2>2. caller \in [Threads -> {"out", "formatted", "async", "sync"}]
    BY <1>typed DEF TypeOK
  <2>3. /\ caller'[c] = IF isasync THEN "async" ELSE "sync"
        /\ \A d \in Threads \ {c} : caller'[d] = caller[d]
        /\ caller' \in [Threads -> {"out", "formatted", "async", "sync"}]
    BY <2>1, <2>2
  <2>4. TypeOK'
    BY <1>typed, <2>1, <2>3 DEF TypeOK
  <2>5. Carrying'
    BY <1>carrying, <2>1, <2>3 DEF Carrying
  <2>6. Latest'
    BY <1>latest, <2>1, <2>3 DEF Latest
  <2>7. Modes'
    <3>1. destroy = "none"
      BY <1>modes, <2>1 DEF Modes
    <3>2. ~isasync => Pending = {}
      BY <1>modes, <3>1, EmptyList DEF Modes, Pending
    <3> QED BY <1>modes, <2>1, <2>3, <3>1, <3>2 DEF Modes, Pending
  <2> QED BY <1>same, <2>1, <2>4, <2>5, <2>6, <2>7 DEF IInv
<1>4. ASSUME NEW c \in Threads, StoreAsync(c)
      PROVE  IInv'
  <2> DEFINE b == Append(buffer, item[c])
  <2>1. /\ caller[c] = "async" /\ ~Locked /\ Accept(c)
        /\ IF IsFull(b) THEN Flush(b)
                        ELSE buffer' = b /\ UNCHANGED <<flush_buffer, files, failing>>
    BY <1>4 DEF StoreAsync
  <2>2. /\ item[c] \in Messages /\ item[c].from = c
        /\ item[c] \notin accepted
        /\ \A x \in accepted : Before(x, item[c])
    BY <1>mine, <2>1
  <2>3. /\ Placed(files, flush_buffer, b, dropped, accepted \cup {item[c]})
        /\ Ordered(files.written, flush_buffer, b)
    BY <1>kept, <1>turn, <2>2, BufferedKeeps
  <2>4. b \in Seq(Messages) /\ ToSet(b) = ToSet(buffer) \cup {item[c]}
    BY <1>lists, <2>2, Appended
  <2> HIDE DEF b
  <2>5. /\ Carrying' /\ Latest'
        /\ caller' \in [Threads -> {"out", "formatted", "async", "sync"}]
        /\ item' \in [Threads -> Messages \cup {NoMessage}]
        /\ accepted' \subseteq Messages /\ accepted' = accepted \cup {item[c]}
        /\ caller'[c] = "out"
        /\ \A d \in Threads \ {c} : caller'[d] = caller[d]
        /\ UNCHANGED <<mode, thewriter, now, sent, destroy>>
    BY <1>accept, <2>1
  <2>6. /\ Kept' /\ InTurn' /\ failures' \in 0 .. MaxFailures
        /\ failures' = 0 => buffer' = << >> \/ Len(buffer') < buffersz
        /\ Pending' \subseteq ToSet(flush_buffer) \cup ToSet(b)
    <3>1. CASE IsFull(b)
      BY <1>flush, <2>1, <2>3, <2>4, <2>5, <3>1
    <3>2. CASE ~IsFull(b)
      <4>1. buffer' = b /\ UNCHANGED <<flush_buffer, files, failing>>
        BY <2>1, <3>2
      <4>2. Kept' /\ InTurn'
        BY <1>placed, <2>3, <2>5, <4>1 DEF InTurn
      <4>3. Len(b) < buffersz
        <5>1. Len(b) \in Nat /\ buffersz \in Nat
          BY <1>typed, <2>4, LenProperties DEF TypeOK
        <5> QED BY <3>2, <5>1 DEF IsFull
      <4>4. failures' \in 0 .. MaxFailures
        BY <1>typed, <4>1 DEF TypeOK
      <4> QED BY <4>1, <4>2, <4>3, <4>4 DEF Pending
    <3> QED BY <3>1, <3>2
  <2>7. TypeOK'
    BY <1>typed, <1>filed, <2>5, <2>6 DEF TypeOK
  <2>8. Modes'
    <3>1. destroy = "none" /\ isasync
      BY <1>modes, <2>1 DEF Modes
    <3>2. ASSUME NEW d \in Threads, caller'[d] = "sync", NEW x \in Pending'
          PROVE  x.from # d
      <4>1. d # c /\ caller[d] = "sync"
        BY <2>5, <3>2
      <4>2. x \in Pending \/ x = item[c]
        BY <2>4, <2>6, <3>2 DEF Pending
      <4> QED BY <1>modes, <2>2, <4>1, <4>2 DEF Modes
    <3> QED BY <1>modes, <2>5, <3>1, <3>2 DEF Modes
  <2> QED BY <2>5, <2>6, <2>7, <2>8 DEF IInv
<1>5. ASSUME NEW c \in Threads, StoreSync(c)
      PROVE  IInv'
  <2> DEFINE m == item[c]
             p == Put(RollFor(files, m), m)
  <2>1. /\ caller[c] = "sync" /\ ~Locked /\ Accept(c)
    BY <1>5 DEF StoreSync
  <2>2. /\ m \in Messages /\ m.from = c
        /\ m \notin accepted
        /\ \A x \in accepted : Before(x, m)
    BY <1>mine, <2>1
  <2>3. \A x \in ToSet(flush_buffer) \cup ToSet(buffer) : x.from # m.from
    BY <1>modes, <2>1, <2>2 DEF Modes, Pending
  <2>4. /\ Carrying' /\ Latest'
        /\ caller' \in [Threads -> {"out", "formatted", "async", "sync"}]
        /\ item' \in [Threads -> Messages \cup {NoMessage}]
        /\ accepted' \subseteq Messages /\ accepted' = accepted \cup {m}
        /\ caller'[c] = "out"
        /\ \A d \in Threads \ {c} : caller'[d] = caller[d]
        /\ UNCHANGED <<mode, thewriter, now, sent, destroy>>
    BY <1>accept, <2>1
  <2>5. /\ Placed(p, flush_buffer, buffer, dropped, accepted')
        /\ Ordered(p.written, flush_buffer, buffer)
    <3> HIDE DEF m
    <3> QED BY <1>kept, <1>turn, <2>2, <2>3, <2>4, WrittenKeeps
  <2>6. destroy = "none"
    BY <1>modes, <2>1 DEF Modes
  <2>7. ~isasync => flush_buffer = << >> /\ buffer = << >>
    BY <1>modes, <2>6 DEF Modes
  <2>8. failures \in 0 .. MaxFailures
    BY <1>typed DEF TypeOK
  <2>9. /\ Kept' /\ InTurn' /\ failures' \in 0 .. MaxFailures
        /\ buffer' = << >> \/ buffer' = buffer
        /\ failures' = 0 => failures = 0
        /\ Pending' \subseteq Pending
    <3>1. CASE kind = "console"
      <4>1. /\ buffer' = << >>
            /\ FlushItems(Put(files, m), IF isasync THEN MoveAll(buffer) ELSE << >>)
        BY <1>5, <3>1 DEF StoreSync
      <4>2. Put(files, m) = p
        BY <3>1 DEF RollFor
      <4>3. (IF isasync THEN MoveAll(buffer) ELSE << >>) = flush_buffer \o buffer
        BY <1>lists, <2>7 DEF MoveAll
      <4> HIDE DEF p, m
      <4>4. FlushItems(p, flush_buffer \o buffer)
        BY <4>1, <4>2, <4>3
      <4>5. /\ Placed(p, flush_buffer \o buffer, << >>, dropped, accepted')
            /\ Ordered(p.written, flush_buffer \o buffer, << >>)
        BY <2>5, MovedKeeps
      <4>6. /\ Placed(files', flush_buffer', << >>, dropped', accepted')
            /\ Ordered(files'.written, flush_buffer', << >>)
            /\ flush_buffer' \in {<< >>, flush_buffer \o buffer}
            /\ UNCHANGED failing \/ Fails(dropped' \ dropped)
        BY <4>4, <4>5, FlushItemsKeeps
      <4>7. Kept' /\ InTurn'
        BY <1>placed, <2>4, <4>1, <4>6 DEF InTurn
      <4>8. failures' \in 0 .. MaxFailures /\ (failures' = 0 => failures = 0)
        BY <2>8, <4>6 DEF Fails
      <4> QED BY <1>lists, <4>1, <4>6, <4>7, <4>8, EmptyList DEF Pending
    <3>2. CASE kind # "console"
      <4>1. /\ \/ files' = p /\ UNCHANGED failing
               \/ files' = RollFor(files, m) /\ Fails({m})
            /\ UNCHANGED lists
        BY <1>5, <3>2 DEF StoreSync
      <4> HIDE DEF p, m
      <4>2. CASE files' = p /\ UNCHANGED failing
        <5>1. Kept' /\ InTurn'
          BY <1>placed, <2>4, <2>5, <4>1, <4>2 DEF InTurn
        <5> QED BY <2>8, <4>1, <4>2, <5>1 DEF Pending
      <4>3. CASE files' = RollFor(files, m) /\ Fails({m})
        <5>1. dropped' = dropped \cup {m}
          BY <4>3 DEF Fails
        <5>2. /\ Placed(files', flush_buffer, buffer, dropped', accepted')
              /\ Ordered(files'.written, flush_buffer, buffer)
          BY <1>kept, <1>turn, <2>2, <2>4, <4>3, <5>1, DroppedKeeps
        <5>3. Kept' /\ InTurn'
          BY <1>placed, <2>4, <4>1, <5>2 DEF InTurn
        <5>4. failures' \in 0 .. MaxFailures /\ failures' # 0
          BY <2>8, <4>3 DEF Fails
        <5> QED BY <4>1, <5>3, <5>4 DEF Pending
      <4> QED BY <4>1, <4>2, <4>3
    <3> QED BY <3>1, <3>2
  <2>10. TypeOK'
    BY <1>typed, <1>filed, <2>4, <2>9 DEF TypeOK
  <2>11. Modes'
    <3>1. ASSUME NEW d \in Threads, caller'[d] = "sync", NEW x \in Pending'
          PROVE  x.from # d
      <4>1. d # c /\ caller[d] = "sync"
        BY <2>4, <3>1
      <4> QED BY <1>modes, <2>9, <3>1, <4>1 DEF Modes
    <3>2. ~isasync => buffer' = << >> /\ flush_buffer' = << >>
      <4>1. ~isasync => Pending = {}
        BY <2>7, EmptyList DEF Pending
      <4>2. flush_buffer' \in Seq(Messages) /\ buffer' \in Seq(Messages)
        BY <1>filed, <2>9
      <4> QED BY <2>9, <4>1, <4>2, EmptyList DEF Pending
    <3> QED BY <1>modes, <2>4, <2>6, <3>1, <3>2 DEF Modes
  <2> QED BY <2>4, <2>9, <2>10, <2>11 DEF IInv
<1>6. ASSUME NEW c \in Threads, SetAsync(c)
      PROVE  IInv'
  <2>1. /\ destroy = "none" /\ ~isasync /\ isasync' = TRUE /\ buffersz' \in BufferSizes
        /\ writer' = "check"
        /\ UNCHANGED <<kind, lists, last, files, now, callers, destroy, failing>>
    BY <1>6 DEF SetAsync
  <2>2. buffer = << >>
    BY <1>modes, <2>1 DEF Modes
  <2>3. TypeOK'
    BY <1>typed, <2>1, <2>2 DEF TypeOK
  <2>4. Modes'
    BY <1>modes, <2>1 DEF Modes, Pending
  <2> QED BY <1>same, <1>quiet, <2>1, <2>3, <2>4 DEF IInv
<1>7. ASSUME Flush(buffer),
             UNCHANGED <<mode, thewriter, now, callers>>,
             UNCHANGED destroy \/ (destroy = "flush" /\ destroy' = "stop")
      PROVE  IInv'
  <2>1. /\ Kept' /\ InTurn' /\ failures' \in 0 .. MaxFailures
        /\ failures' = 0 => buffer' = << >>
        /\ Pending' \subseteq Pending
    BY <1>flush, <1>7, <1>kept, <1>turn, <1>lists DEF Pending
  <2>2. TypeOK'
    BY <1>7, <1>typed, <1>filed, <2>1 DEF TypeOK
  <2>3. flush_buffer' \in Seq(Messages) /\ buffer' \in Seq(Messages)
    BY <1>filed, <2>1
  <2>4. buffer = << >> /\ flush_buffer = << >> => buffer' = << >> /\ flush_buffer' = << >>
    BY <2>1, <2>3, EmptyList DEF Pending
  <2>5. Modes'
    BY <1>7, <1>modes, <2>1, <2>4 DEF Modes
  <2> QED BY <1>7, <1>quiet, <2>1, <2>2, <2>5 DEF IInv
<1>8. ASSUME NEW c \in Threads, FlushCall(c)
      PROVE  IInv'
  <2>1. Flush(buffer) /\ UNCHANGED <<mode, thewriter, now, callers>> /\ destroy' = destroy
    BY <1>8 DEF FlushCall
  <2> QED BY <1>7, <2>1
<1>9. CASE WriterCheck
  <2> USE <1>9 DEF WriterCheck, GoTo
  <2>1. TypeOK'
    BY <1>typed DEF TypeOK
  <2>2. Modes'
    BY <1>modes DEF Modes, Pending
  <2> QED BY <1>same, <1>quiet, <2>1, <2>2 DEF IInv
<1>10. CASE WriterSkip
  <2> USE <1>10 DEF WriterSkip, AfterFlush, GoTo
  <2>1. TypeOK'
    BY <1>typed DEF TypeOK
  <2>2. Modes'
    BY <1>modes DEF Modes, Pending
  <2> QED BY <1>same, <1>quiet, <2>1, <2>2 DEF IInv
<1>11. CASE WriterMove
  <2>1. /\ \/ /\ flush_buffer' = flush_buffer \o buffer
              /\ buffer' = << >>
              /\ UNCHANGED failing
           \/ Fails({}) /\ UNCHANGED lists
        /\ writer' \in {"write", "check", "gone"}
        /\ UNCHANGED <<mode, last, files, now, callers, destroy>>
    BY <1>11 DEF WriterMove, MoveAll, GoTo, AfterFlush
  <2>2. dropped' = dropped
    BY <2>1 DEF Fails
  <2>3. Kept' /\ InTurn' /\ Pending' = Pending
    <3>1. CASE flush_buffer' = flush_buffer \o buffer /\ buffer' = << >>
      <4>1. /\ Placed(files, flush_buffer \o buffer, << >>, dropped, accepted)
            /\ Ordered(files.written, flush_buffer \o buffer, << >>)
        BY <1>kept, <1>turn, MovedKeeps
      <4> QED BY <1>placed, <1>lists, <2>1, <2>2, <3>1, <4>1, EmptyList DEF InTurn, Pending
    <3>2. CASE UNCHANGED lists
      BY <1>same, <2>1, <2>2, <3>2 DEF Pending
    <3> QED BY <2>1, <3>1, <3>2
  <2>4. /\ failures' \in 0 .. MaxFailures
        /\ failures' = 0 => buffer' = << >> \/ Len(buffer') < buffersz
    BY <1>typed, <2>1 DEF TypeOK, Fails
  <2>5. TypeOK'
    BY <1>typed, <1>filed, <2>1, <2>3, <2>4 DEF TypeOK
  <2>6. buffer = << >> /\ flush_buffer = << >> => buffer' = << >> /\ flush_buffer' = << >>
    BY <1>filed, <2>3, EmptyList DEF Pending
  <2>7. Modes'
    BY <1>modes, <2>1, <2>3, <2>6 DEF Modes
  <2> QED BY <1>quiet, <2>1, <2>3, <2>5, <2>7 DEF IInv
<1>12. CASE WriterWrite
  <2>1. /\ FlushItems(files, flush_buffer)
        /\ writer' \in {"check", "gone"}
        /\ UNCHANGED <<mode, buffer, last, now, callers, destroy>>
    BY <1>12 DEF WriterWrite, AfterFlush, GoTo
  <2>2. /\ Placed(files', flush_buffer', buffer, dropped', accepted)
        /\ Ordered(files'.written, flush_buffer', buffer)
        /\ flush_buffer' \in {<< >>, flush_buffer}
        /\ UNCHANGED failing \/ Fails(dropped' \ dropped)
    BY <1>kept, <1>turn, <2>1, FlushItemsKeeps
  <2>3. Kept' /\ InTurn'
    BY <1>placed, <2>1, <2>2 DEF InTurn
  <2>4. failures' \in 0 .. MaxFailures /\ (failures' = 0 => failures = 0)
    BY <1>typed, <2>2 DEF TypeOK, Fails
  <2>5. TypeOK'
    BY <1>typed, <1>filed, <2>1, <2>3, <2>4 DEF TypeOK
  <2>6. Pending' \subseteq Pending
    BY <2>1, <2>2, EmptyList DEF Pending
  <2>7. Modes'
    BY <1>modes, <2>1, <2>2, <2>6 DEF Modes
  <2> QED BY <1>quiet, <2>1, <2>3, <2>5, <2>7 DEF IInv
<1>13. CASE CleanCheck
  <2>1. /\ \A c \in Threads : caller[c] = "out"
        /\ destroy = "none" /\ destroy' \in {"flush", "stop"}
        /\ UNCHANGED <<mode, lists, thewriter, files, now, callers, failing>>
    BY <1>13 DEF CleanCheck
  <2>2. TypeOK'
    BY <1>typed, <2>1 DEF TypeOK
  <2>3. Modes'
    BY <1>modes, <2>1 DEF Modes, Pending
  <2> QED BY <1>same, <1>quiet, <2>1, <2>2, <2>3 DEF IInv
<1>14. CASE CleanFlush
  BY <1>7, <1>14 DEF CleanFlush
<1>15. CASE CleanStop
  <2>1. /\ destroy = "stop" /\ destroy' = "join" /\ isasync' = FALSE
        /\ UNCHANGED <<kind, buffersz, lists, thewriter, files, now, callers, failing>>
    BY <1>15 DEF CleanStop
  <2>2. TypeOK'
    BY <1>typed, <2>1 DEF TypeOK
  <2>3. Modes'
    BY <1>modes, <2>1 DEF Modes, Pending
  <2> QED BY <1>same, <1>quiet, <2>1, <2>2, <2>3 DEF IInv
<1>16. CASE CleanFree
  <2>1. /\ destroy = "join" /\ destroy' = "freed"
        /\ UNCHANGED <<mode, lists, thewriter, files, now, callers, failing>>
    BY <1>16 DEF CleanFree
  <2>2. TypeOK'
    BY <1>typed, <2>1 DEF TypeOK
  <2>3. Modes'
    BY <1>modes, <2>1 DEF Modes, Pending
  <2> QED BY <1>same, <1>quiet, <2>1, <2>2, <2>3 DEF IInv
<1>17. CASE UNCHANGED vars
  <2> USE <1>17 DEF vars
  <2>1. TypeOK'
    BY <1>typed DEF TypeOK
  <2>2. Modes'
    BY <1>modes DEF Modes, Pending
  <2> QED BY <1>same, <1>quiet, <2>1, <2>2 DEF IInv
<1> QED BY <1>1, <1>2, <1>3, <1>4, <1>5, <1>6, <1>8, <1>9, <1>10, <1>11, <1>12, <1>13,
           <1>14, <1>15, <1>16, <1>17 DEF Next, WriterStep, DestroyStep

\* It holds in every state.
LEMMA Invariance == Spec => []IInv
BY InitInvariant, NextInvariant, PTL DEF Spec

------------------------------------------------------------------------------
(* Theorems *)

\* The variables are of their types, and while files can be opened the buffer
\* of an asynchronous appender is never left full.
THEOREM LogTypeOK == Spec => []TypeOK
<1>1. IInv => TypeOK
  BY DEF IInv
<1> QED BY <1>1, Invariance, PTL

\* A message is in a list of distinct messages once if it is in it at all.
LEMMA CopiesCounted ==
  ASSUME NEW s \in Seq(Messages), IsInjective(s), NEW m
  PROVE  LET copies == {i \in DOMAIN s : s[i] = m}
         IN /\ IsFiniteSet(copies)
            /\ Cardinality(copies) = IF m \in ToSet(s) THEN 1 ELSE 0
<1> DEFINE copies == {i \in DOMAIN s : s[i] = m}
<1>1. CASE m \in ToSet(s)
  <2>1. PICK i \in DOMAIN s : s[i] = m
    BY <1>1 DEF ToSet
  <2>2. copies = {i}
    BY <2>1 DEF IsInjective
  <2> QED BY <1>1, <2>2, FS_Singleton
<1>2. CASE m \notin ToSet(s)
  <2>1. copies = {}
    BY <1>2 DEF ToSet
  <2> QED BY <1>2, <2>1, FS_EmptySet
<1> QED BY <1>1, <1>2

\* Every accepted message is in exactly one place, once, unless it was given up
\* because its file could not be opened; no renamed file is overwritten.
THEOREM LogNothingLost == Spec => []NothingLost
<1>1. ASSUME IInv PROVE NothingLost
  <2> DEFINE Copies(s, m) == {i \in DOMAIN s : s[i] = m}
             Rolled(m) == UNION {{name} \X Copies(files.rolled[name], m) :
                                   name \in DOMAIN files.rolled}
  <2>1. Placed(files, flush_buffer, buffer, dropped, accepted)
    BY <1>1 DEF IInv, Kept
  <2>2. /\ Filed(files) /\ FilesTyped(files)
        /\ flush_buffer \in Seq(Messages) /\ IsInjective(flush_buffer)
        /\ buffer \in Seq(Messages) /\ IsInjective(buffer)
        /\ files.current \in Seq(Messages) /\ IsInjective(files.current)
        /\ \A name \in DOMAIN files.rolled :
             files.rolled[name] \in Seq(Messages) /\ IsInjective(files.rolled[name])
    BY <2>1 DEF Placed, Filed, FilesTyped
  <2>3. ASSUME NEW m \in accepted
        PROVE  /\ m \in ToSet(buffer) => m \notin ToSet(flush_buffer)
               /\ m \in ToSet(buffer) \cup ToSet(flush_buffer) => m \notin Contents(files)
               /\ m \in dropped <=> ~ (m \in ToSet(buffer) \cup ToSet(flush_buffer) \cup Contents(files))
    BY <2>1 DEF Placed
  <2>4. ASSUME NEW m
        PROVE  /\ m \in ToSet(files.current) =>
                    \A name \in DOMAIN files.rolled : m \notin ToSet(files.rolled[name])
               /\ Cardinality(Rolled(m)) =
                    IF \E name \in DOMAIN files.rolled : m \in ToSet(files.rolled[name])
                      THEN 1 ELSE 0
    <3>1. CASE \E name \in DOMAIN files.rolled : m \in ToSet(files.rolled[name])
      <4>1. PICK name \in DOMAIN files.rolled : m \in ToSet(files.rolled[name])
        BY <3>1
      <4>2. PICK i \in DOMAIN files.rolled[name] : files.rolled[name][i] = m
        BY <4>1 DEF ToSet
      <4>3. \A other \in DOMAIN files.rolled \ {name} : Copies(files.rolled[other], m) = {}
        <5>1. \A other \in DOMAIN files.rolled \ {name} : m \notin ToSet(files.rolled[other])
          BY <2>2, <4>1 DEF Filed
        <5> QED BY <5>1 DEF ToSet
      <4>4. Copies(files.rolled[name], m) = {i}
        BY <2>2, <4>2 DEF IsInjective
      <4>5. Rolled(m) = {<<name, i>>}
        <5> HIDE DEF Copies
        <5> QED BY <4>3, <4>4
      <4>6. m \notin ToSet(files.current)
        BY <2>2, <4>1 DEF Filed
      <4> QED BY <3>1, <4>5, <4>6, FS_Singleton
    <3>2. CASE ~ \E name \in DOMAIN files.rolled : m \in ToSet(files.rolled[name])
      <4>1. \A name \in DOMAIN files.rolled : Copies(files.rolled[name], m) = {}
        BY <3>2 DEF ToSet
      <4>2. Rolled(m) = {}
        <5> HIDE DEF Copies
        <5> QED BY <4>1
      <4> QED BY <3>2, <4>2, FS_EmptySet
    <3> QED BY <3>1, <3>2
  <2>5. ASSUME NEW m \in accepted
        PROVE  Cardinality(Copies(buffer, m)) + Cardinality(Copies(flush_buffer, m))
                 + Cardinality(Copies(files.current, m)) + Cardinality(Rolled(m))
                 = IF m \in dropped THEN 0 ELSE 1
    <3>1. /\ Cardinality(Copies(buffer, m)) = IF m \in ToSet(buffer) THEN 1 ELSE 0
          /\ Cardinality(Copies(flush_buffer, m)) = IF m \in ToSet(flush_buffer) THEN 1 ELSE 0
          /\ Cardinality(Copies(files.current, m)) = IF m \in ToSet(files.current) THEN 1 ELSE 0
      BY <2>2, CopiesCounted
    <3>2. m \in Contents(files) <=> \/ m \in ToSet(files.current)
                                    \/ \E name \in DOMAIN files.rolled :
                                         m \in ToSet(files.rolled[name])
      BY DEF Contents
    <3> HIDE DEF Copies, Rolled
    <3> QED BY <2>3, <2>4, <3>1, <3>2
  <2> QED BY <2>5 DEF NothingLost
<1> QED BY <1>1, Invariance, PTL

\* A renamed file holds messages of the period it is named for, the open file
\* those of the current one.
THEOREM LogFilesOfOnePeriod == Spec => []FilesOfOnePeriod
<1>1. IInv => FilesOfOnePeriod
  BY DEF IInv, Kept, Placed, Dated, FilesOfOnePeriod
<1> QED BY <1>1, Invariance, PTL

\* The messages of a thread are written in the order it sent them.
THEOREM LogInOrder == Spec => []InOrder
<1>1. IInv => InOrder
  BY DEF IInv, InTurn, Ordered, Sorted, Before, InOrder
<1> QED BY <1>1, Invariance, PTL

------------------------------------------------------------------------------
(* The appenders belong to a log system, and the log system in force is    *)
(* the one that LogGlobal.tla keeps.  What follows is about its            *)
(* replacement, for any number of threads and of addresses.                *)
CONSTANTS NULL, Thread, Address, MaxSystems
VARIABLE global

G == INSTANCE LogGlobal WITH st <- global

\* NULL is neither a thread nor an address.
GlobalData == NULL \notin Thread \cup Address

Places == {"out", "compare", "compared", "get", "got", "find", "use", "set", "destroy"}
GlobalType ==
  global \in [cur : Address \cup {NULL}, live : [Address -> Nat], made : Nat,
             initialized : BOOLEAN, configured : Nat, mutex : Thread \cup {NULL},
             s__lsys : Address \cup {NULL},
             l___logger : [at : Address, of : Nat] \cup {NULL},
             pc : [Thread -> Places], mine : [Thread -> Address \cup {NULL}]]

\* The default configuration is made by who finds initialized unset, and sets it.
ConfiguredOnce == global.configured = IF global.initialized THEN 1 ELSE 0

\* A thread has a system in its hands from Create to Install, and the previous
\* one while it destroys it, under the mutex.
Setting(t)    == global.pc[t] = "set"
Destroying(t) == global.pc[t] = "destroy"
InHand ==
  \A t \in Thread :
    /\ Setting(t) => global.mine[t] # NULL
    /\ Destroying(t) => global.mutex = t /\ global.mine[t] # global.cur
    /\ ~Setting(t) /\ ~Destroying(t) => global.mine[t] = NULL
    /\ global.mine[t] # NULL => global.live[global.mine[t]] # 0

\* No system is in two hands, and one that is in force and about to be set
\* again is the only one about to be set: nobody takes it from under the call.
OneHand ==
  \A t, u \in Thread : t # u =>
    /\ global.mine[t] # NULL => global.mine[t] # global.mine[u]
    /\ Setting(t) /\ global.mine[t] = global.cur => ~Setting(u)

GlobalInv == GlobalType /\ ConfiguredOnce /\ InHand /\ OneHand /\ G!GlobalIsLive

\* Nothing is in force or in hand at the start.
LEMMA GlobalInit ==
  ASSUME GlobalData, G!Init
  PROVE  GlobalInv
<1>1. GlobalType
  <2>1. /\ [t \in Thread |-> "out"] \in [Thread -> Places]
        /\ [t \in Thread |-> NULL] \in [Thread -> Address \cup {NULL}]
        /\ [a \in Address |-> 0] \in [Address -> Nat]
    BY DEF Places
  <2> QED BY <2>1 DEF GlobalType, G!Init
<1>2. /\ global.cur = NULL /\ global.live = [a \in Address |-> 0]
      /\ global.pc = [t \in Thread |-> "out"] /\ global.mine = [t \in Thread |-> NULL]
      /\ global.initialized = FALSE /\ global.configured = 0
  BY DEF G!Init
<1>3. InHand /\ OneHand
  BY <1>2 DEF InHand, OneHand, Setting, Destroying
<1> QED BY <1>1, <1>2, <1>3 DEF GlobalInv, ConfiguredOnce, G!GlobalIsLive

\* A step of the macro, or of LogSystemGet that configures nothing: the thread
\* goes on, and only the cached pointers may change.
Quiet(t, place, lsys, logger) ==
  /\ ~Setting(t) /\ ~Destroying(t) /\ place \in Places \ {"set", "destroy"}
  /\ lsys \in Address \cup {NULL} /\ logger \in [at : Address, of : Nat] \cup {NULL}
  /\ global' = [global EXCEPT !.pc[t] = place, !.s__lsys = lsys, !.l___logger = logger]

\* Such a step leaves the systems and who holds them alone.
LEMMA QuietKeeps ==
  ASSUME GlobalInv, NEW t \in Thread, NEW place, NEW lsys, NEW logger,
         Quiet(t, place, lsys, logger)
  PROVE  GlobalInv'
<1>1. /\ GlobalType'
      /\ global'.cur = global.cur /\ global'.live = global.live
      /\ global'.initialized = global.initialized /\ global'.configured = global.configured
      /\ global'.mutex = global.mutex /\ global'.mine = global.mine
      /\ global'.pc = [global.pc EXCEPT ![t] = place]
  BY DEF Quiet, GlobalInv, GlobalType
<1>2. \A u \in Thread : (Setting(u)' <=> Setting(u)) /\ (Destroying(u)' <=> Destroying(u))
  BY <1>1 DEF Quiet, Setting, Destroying, GlobalInv, GlobalType
<1>3. InHand'
  BY <1>1, <1>2 DEF GlobalInv, InHand
<1>4. OneHand'
  BY <1>1, <1>2 DEF GlobalInv, OneHand
<1>5. ConfiguredOnce' /\ G!GlobalIsLive'
  BY <1>1 DEF GlobalInv, ConfiguredOnce, G!GlobalIsLive
<1> QED BY <1>1, <1>3, <1>4, <1>5 DEF GlobalInv

\* LogSystemGet finds no system and makes the default one, at an address that
\* nobody has.
LEMMA ConfigureKeeps ==
  ASSUME GlobalData, GlobalInv, NEW t \in Thread, ~Setting(t), ~Destroying(t),
         NEW place \in Places \ {"set", "destroy"}, NEW a \in G!Free,
         global.cur = NULL, ~global.initialized,
         global' = G!GoTo([G!Alloc(global, a) EXCEPT !.initialized = TRUE, !.cur = a,
                                                     !.configured = @ + 1], t, place)
  PROVE  GlobalInv'
<1>1. a \in Address /\ global.live[a] = 0 /\ a # NULL
  BY DEF G!Free, GlobalData
<1>2. /\ GlobalType'
      /\ global'.cur = a /\ global'.live = [global.live EXCEPT ![a] = global.made + 1]
      /\ global'.initialized /\ global'.configured = global.configured + 1
      /\ global'.mutex = global.mutex /\ global'.mine = global.mine
      /\ global'.pc = [global.pc EXCEPT ![t] = place]
  <2> DEFINE live == [global.live EXCEPT ![a] = global.made + 1]
             pc == [global.pc EXCEPT ![t] = place]
  <2>1. live \in [Address -> Nat] /\ pc \in [Thread -> Places]
    BY <1>1 DEF GlobalInv, GlobalType
  <2>2. global' = [global EXCEPT !.cur = a, !.live = live, !.made = global.made + 1,
                     !.initialized = TRUE, !.configured = global.configured + 1, !.pc = pc]
    BY DEF G!GoTo, G!Alloc, GlobalInv, GlobalType
  <2> HIDE DEF live, pc
  <2>3. /\ global'.cur = a /\ global'.live = live /\ global'.pc = pc
        /\ global'.initialized /\ global'.configured = global.configured + 1
        /\ global'.mutex = global.mutex /\ global'.mine = global.mine
    BY <2>2 DEF GlobalInv, GlobalType
  <2>4. global.made + 1 \in Nat /\ global.configured + 1 \in Nat
    BY DEF GlobalInv, GlobalType
  <2> DEFINE made == global.made + 1
             configured == global.configured + 1
  <2>5. global' = [global EXCEPT !.cur = a, !.live = live, !.made = made,
                     !.initialized = TRUE, !.configured = configured, !.pc = pc]
        /\ made \in Nat /\ configured \in Nat
    BY <2>2, <2>4
  <2> HIDE DEF made, configured
  <2>6. GlobalType'
    BY <1>1, <2>1, <2>5, ZenonT(60) DEF GlobalInv, GlobalType
  <2> QED BY <2>3, <2>6 DEF live, pc
<1>3. \A u \in Thread : (Setting(u)' <=> Setting(u)) /\ (Destroying(u)' <=> Destroying(u))
  BY <1>2 DEF Setting, Destroying, GlobalInv, GlobalType
<1>4. \A b \in Address : global'.live[b] # 0 <=> b = a \/ global.live[b] # 0
  BY <1>1, <1>2 DEF GlobalInv, GlobalType
<1>5. \A u \in Thread : global.mine[u] # a /\ (global.mine[u] # NULL => global.mine[u] \in Address)
  BY <1>1 DEF GlobalInv, InHand, GlobalType
<1>6. InHand'
  BY <1>2, <1>3, <1>4, <1>5 DEF GlobalInv, InHand
<1>7. OneHand'
  BY <1>2, <1>3, <1>5 DEF GlobalInv, OneHand
<1>8. ConfiguredOnce'
  BY <1>2 DEF GlobalInv, ConfiguredOnce
<1>9. G!GlobalIsLive'
  <2>1. global'.live[global'.cur] # 0
    BY <1>1, <1>2, <1>4
  <2>2. global'.configured <= 1
    BY <1>2, <1>8 DEF ConfiguredOnce
  <2>3. \A b \in Address : global.live[b] # 0 => \E u \in Thread : global.mine[u] = b
    BY DEF GlobalInv, G!GlobalIsLive, GlobalData
  <2> QED BY <1>2, <1>4, <2>1, <2>2, <2>3 DEF G!GlobalIsLive
<1> QED BY <1>2, <1>6, <1>7, <1>8, <1>9 DEF GlobalInv

\* LogSystemGet, at either place of the macro that calls it.
LEMMA GetKeeps ==
  ASSUME GlobalData, GlobalInv, NEW t \in Thread,
         NEW from \in Places \ {"set", "destroy"}, NEW to \in Places \ {"set", "destroy"},
         G!GetInternal(t, from, to)
  PROVE  GlobalInv'
<1>1. ~Setting(t) /\ ~Destroying(t)
  BY DEF G!GetInternal, G!At, Setting, Destroying
<1>2. CASE global' = G!GoTo(global, t, to)
  <2>1. Quiet(t, to, global.s__lsys, global.l___logger)
    BY <1>1, <1>2 DEF G!GoTo, Quiet, GlobalInv, GlobalType
  <2> QED BY <2>1, QuietKeeps
<1>3. CASE /\ global.cur = NULL /\ ~global.initialized
           /\ \E a \in G!Free :
                global' = G!GoTo([G!Alloc(global, a) EXCEPT !.initialized = TRUE, !.cur = a,
                                                            !.configured = @ + 1], t, to)
  BY <1>1, <1>3, ConfigureKeeps
<1> QED BY <1>2, <1>3 DEF G!GetInternal

\* The steps of the macro CMUTIL_LogDefine.
LEMMA MacroKeeps ==
  ASSUME GlobalData, GlobalInv, NEW t \in Thread,
         G!Log(t) \/ G!Compare(t) \/ G!Fetch(t) \/ G!Find(t) \/ G!LogEx(t)
  PROVE  GlobalInv'
<1>1. CASE G!Log(t)
  <2>1. PICK place \in {"get", "compare"} : global' = G!GoTo(global, t, place)
    BY <1>1 DEF G!Log
  <2>2. Quiet(t, place, global.s__lsys, global.l___logger)
    BY <1>1, <2>1 DEF G!Log, G!At, G!GoTo, Quiet, Setting, Destroying, Places, GlobalInv, GlobalType
  <2> QED BY <2>2, QuietKeeps
<1>2. CASE G!Compare(t)
  <2>1. CASE G!GetInternal(t, "compare", "compared")
    BY <2>1, GetKeeps DEF Places
  <2>2. CASE ~G!GetInternal(t, "compare", "compared")
    <3>1. PICK place \in {"use", "get"} : global' = G!GoTo(global, t, place)
      BY <1>2, <2>2 DEF G!Compare
    <3>2. global.pc[t] = "compared"
      BY <1>2, <2>2 DEF G!Compare, G!At
    <3>3. Quiet(t, place, global.s__lsys, global.l___logger)
      BY <3>1, <3>2 DEF G!GoTo, Quiet, Setting, Destroying, Places, GlobalInv, GlobalType
    <3> QED BY <3>3, QuietKeeps
  <2> QED BY <2>1, <2>2
<1>3. CASE G!Fetch(t)
  <2>1. CASE G!GetInternal(t, "get", "got")
    BY <2>1, GetKeeps DEF Places
  <2>2. CASE ~G!GetInternal(t, "get", "got")
    <3>1. global.pc[t] = "got" /\ global' = G!GoTo([global EXCEPT !.s__lsys = global.cur], t, "find")
      BY <1>3, <2>2 DEF G!Fetch, G!At
    <3>2. Quiet(t, "find", global.cur, global.l___logger)
      BY <3>1 DEF G!GoTo, Quiet, Setting, Destroying, Places, GlobalInv, GlobalType
    <3> QED BY <3>2, QuietKeeps
  <2> QED BY <2>1, <2>2
<1>4. CASE G!Find(t)
  <2> DEFINE logger == IF global.s__lsys = NULL THEN NULL
                       ELSE [at |-> global.s__lsys, of |-> global.live[global.s__lsys]]
  <2>1. logger \in [at : Address, of : Nat] \cup {NULL}
    BY DEF GlobalInv, GlobalType
  <2>2. global.pc[t] = "find" /\ global' = G!GoTo([global EXCEPT !.l___logger = logger], t, "use")
    BY <1>4 DEF G!Find, G!At
  <2> HIDE DEF logger
  <2>3. Quiet(t, "use", global.s__lsys, logger)
    BY <2>1, <2>2 DEF G!GoTo, Quiet, Setting, Destroying, Places, GlobalInv, GlobalType
  <2> QED BY <2>3, QuietKeeps
<1>5. CASE G!LogEx(t)
  <2>1. Quiet(t, "out", global.s__lsys, global.l___logger)
    BY <1>5 DEF G!LogEx, G!At, G!GoTo, Quiet, Setting, Destroying, Places, GlobalInv, GlobalType
  <2> QED BY <2>1, QuietKeeps
<1> QED BY <1>1, <1>2, <1>3, <1>4, <1>5

\* LogSystemCreate gives a system at an address that nobody has.
LEMMA CreateKeeps ==
  ASSUME GlobalData, GlobalInv, NEW t \in Thread, G!Create(t)
  PROVE  GlobalInv'
<1>1. PICK a \in G!Free : global' = G!GoTo([G!Alloc(global, a) EXCEPT !.mine[t] = a], t, "set")
  BY DEF G!Create
<1>2. a \in Address /\ global.live[a] = 0 /\ a # NULL
  BY DEF G!Free, GlobalData
<1>3. /\ ~Setting(t) /\ ~Destroying(t)
      /\ \A u \in Thread : Setting(u) => global.mine[u] # global.cur
  BY DEF G!Create, G!At, G!Setting, Setting, Destroying
<1>4. /\ GlobalType'
      /\ global'.cur = global.cur /\ global'.live = [global.live EXCEPT ![a] = global.made + 1]
      /\ global'.initialized = global.initialized /\ global'.configured = global.configured
      /\ global'.mutex = global.mutex /\ global'.mine = [global.mine EXCEPT ![t] = a]
      /\ global'.pc = [global.pc EXCEPT ![t] = "set"]
  <2> DEFINE live == [global.live EXCEPT ![a] = global.made + 1]
             pc == [global.pc EXCEPT ![t] = "set"]
             mine == [global.mine EXCEPT ![t] = a]
  <2>1. live \in [Address -> Nat] /\ pc \in [Thread -> Places] /\ mine \in [Thread -> Address \cup {NULL}]
    BY <1>2 DEF GlobalInv, GlobalType, Places
  <2>2. global' = [global EXCEPT !.live = live, !.made = global.made + 1, !.pc = pc, !.mine = mine]
    BY <1>1 DEF G!GoTo, G!Alloc, GlobalInv, GlobalType
  <2> HIDE DEF live, pc, mine
  <2>3. /\ global'.live = live /\ global'.pc = pc /\ global'.mine = mine
        /\ global'.cur = global.cur /\ global'.mutex = global.mutex
        /\ global'.initialized = global.initialized /\ global'.configured = global.configured
    BY <2>2 DEF GlobalInv, GlobalType
  <2> DEFINE made == global.made + 1
  <2>4. /\ global' = [global EXCEPT !.live = live, !.made = made, !.pc = pc, !.mine = mine]
        /\ made \in Nat
    BY <2>2 DEF GlobalInv, GlobalType
  <2> HIDE DEF made
  <2>5. GlobalType'
    BY <2>1, <2>4 DEF GlobalInv, GlobalType
  <2> QED BY <2>3, <2>5 DEF live, pc, mine
<1>5. /\ Setting(t)' /\ ~Destroying(t)' /\ global'.mine[t] = a
      /\ \A u \in Thread \ {t} : /\ (Setting(u)' <=> Setting(u)) /\ (Destroying(u)' <=> Destroying(u))
                                /\ global'.mine[u] = global.mine[u]
  BY <1>4 DEF Setting, Destroying, GlobalInv, GlobalType
<1>6. \A b \in Address : global'.live[b] # 0 <=> b = a \/ global.live[b] # 0
  BY <1>2, <1>4 DEF GlobalInv, GlobalType
<1>7. \A u \in Thread : global.mine[u] # a /\ (global.mine[u] # NULL => global.mine[u] \in Address)
  BY <1>2 DEF GlobalInv, InHand, GlobalType
<1>8. a # global.cur
  BY <1>2 DEF GlobalInv, G!GlobalIsLive
<1>9. InHand'
  BY <1>2, <1>4, <1>5, <1>6, <1>7 DEF GlobalInv, InHand
<1>10. OneHand'
  BY <1>3, <1>4, <1>5, <1>7, <1>8 DEF GlobalInv, OneHand
<1>11. ConfiguredOnce' /\ G!GlobalIsLive'
  <2>1. \A b \in Address : global'.live[b] # 0 => b = global'.cur \/ \E u \in Thread : global'.mine[u] = b
    <3>1. global.mine[t] = NULL
      BY <1>3 DEF GlobalInv, InHand
    <3> SUFFICES ASSUME NEW b \in Address, global'.live[b] # 0, b # global.cur
                 PROVE  \E u \in Thread : global'.mine[u] = b
      BY <1>4
    <3>2. CASE b = a
      BY <1>5, <3>2
    <3>3. CASE b # a
      BY <1>5, <1>6, <3>1, <3>3 DEF GlobalInv, G!GlobalIsLive, GlobalData
    <3> QED BY <3>2, <3>3
  <2>2. global'.cur # NULL => global'.live[global'.cur] # 0
    BY <1>4, <1>6 DEF GlobalInv, GlobalType, G!GlobalIsLive
  <2> QED BY <1>4, <2>1, <2>2 DEF GlobalInv, ConfiguredOnce, G!GlobalIsLive
<1> QED BY <1>4, <1>9, <1>10, <1>11 DEF GlobalInv

\* LogSystemSet is about to be called with the system in force.
LEMMA SetSameKeeps ==
  ASSUME GlobalData, GlobalInv, NEW t \in Thread, G!SetSame(t)
  PROVE  GlobalInv'
<1>1. /\ ~Setting(t) /\ ~Destroying(t) /\ global.cur # NULL
      /\ \A u \in Thread : ~Setting(u)
  BY DEF G!SetSame, G!At, G!Setting, Setting, Destroying
<1>2. /\ GlobalType'
      /\ global'.cur = global.cur /\ global'.live = global.live
      /\ global'.initialized = global.initialized /\ global'.configured = global.configured
      /\ global'.mutex = global.mutex /\ global'.mine = [global.mine EXCEPT ![t] = global.cur]
      /\ global'.pc = [global.pc EXCEPT ![t] = "set"]
  BY DEF G!SetSame, G!GoTo, Places, GlobalInv, GlobalType
<1>3. /\ Setting(t)' /\ ~Destroying(t)' /\ global'.mine[t] = global.cur
      /\ \A u \in Thread \ {t} : /\ (Setting(u)' <=> Setting(u)) /\ (Destroying(u)' <=> Destroying(u))
                                /\ global'.mine[u] = global.mine[u]
  BY <1>2 DEF Setting, Destroying, GlobalInv, GlobalType
<1>4. \A u \in Thread : global.mine[u] # global.cur
  BY <1>1 DEF GlobalInv, InHand
<1>5. InHand'
  BY <1>1, <1>2, <1>3 DEF GlobalInv, InHand, G!GlobalIsLive
<1>6. OneHand'
  BY <1>1, <1>2, <1>3, <1>4 DEF GlobalInv, OneHand
<1>7. \A b \in Address : global.live[b] # 0 => b = global.cur \/ \E u \in Thread \ {t} : global.mine[u] = b
  BY <1>1 DEF GlobalInv, G!GlobalIsLive, InHand, GlobalData
<1>8. ConfiguredOnce' /\ G!GlobalIsLive'
  BY <1>2, <1>3, <1>7 DEF GlobalInv, ConfiguredOnce, G!GlobalIsLive
<1> QED BY <1>2, <1>5, <1>6, <1>8 DEF GlobalInv

\* LogSystemSet under the mutex: the same system is left in force, another one
\* takes its place, and what was in force is now the thread's to destroy.
LEMMA InstallKeeps ==
  ASSUME GlobalData, GlobalInv, NEW t \in Thread, G!Install(t)
  PROVE  GlobalInv'
<1>1. Setting(t) /\ global.mutex = NULL /\ global.mine[t] # NULL /\ global.live[global.mine[t]] # 0
  BY DEF G!Install, G!At, Setting, GlobalInv, InHand
<1>2. /\ \A u \in Thread : ~Destroying(u)
      /\ \A u \in Thread \ {t} : global.mine[u] # global.mine[t]
  BY <1>1 DEF GlobalInv, InHand, OneHand, GlobalData
<1>3. CASE global.mine[t] = global.cur
  <2>1. /\ GlobalType'
        /\ global'.cur = global.cur /\ global'.live = global.live
        /\ global'.initialized = global.initialized /\ global'.configured = global.configured
        /\ global'.mutex = global.mutex /\ global'.mine = [global.mine EXCEPT ![t] = NULL]
        /\ global'.pc = [global.pc EXCEPT ![t] = "out"]
    <3> DEFINE pc == [global.pc EXCEPT ![t] = "out"]
               mine == [global.mine EXCEPT ![t] = NULL]
    <3>1. pc \in [Thread -> Places] /\ mine \in [Thread -> Address \cup {NULL}]
      BY DEF Places, GlobalInv, GlobalType
    <3>2. global' = [global EXCEPT !.pc = pc, !.mine = mine]
      BY <1>3 DEF G!Install, G!GoTo, GlobalInv, GlobalType
    <3> HIDE DEF pc, mine
    <3>3. /\ GlobalType' /\ global'.pc = pc /\ global'.mine = mine
          /\ global'.cur = global.cur /\ global'.live = global.live
          /\ global'.initialized = global.initialized /\ global'.configured = global.configured
          /\ global'.mutex = global.mutex
      BY <3>1, <3>2 DEF GlobalInv, GlobalType
    <3> QED BY <3>3 DEF pc, mine
  <2>2. /\ ~Setting(t)' /\ ~Destroying(t)' /\ global'.mine[t] = NULL
        /\ \A u \in Thread \ {t} : /\ (Setting(u)' <=> Setting(u)) /\ (Destroying(u)' <=> Destroying(u))
                                  /\ global'.mine[u] = global.mine[u]
    BY <2>1 DEF Setting, Destroying, GlobalInv, GlobalType
  <2>3. InHand' /\ OneHand'
    BY <2>1, <2>2 DEF GlobalInv, InHand, OneHand
  <2>4. \A b \in Address : global.live[b] # 0 => b = global.cur \/ \E u \in Thread \ {t} : global.mine[u] = b
    BY <1>3 DEF GlobalInv, G!GlobalIsLive
  <2>5. ConfiguredOnce' /\ G!GlobalIsLive'
    BY <2>1, <2>2, <2>4 DEF GlobalInv, ConfiguredOnce, G!GlobalIsLive
  <2> QED BY <2>1, <2>3, <2>5 DEF GlobalInv
<1>4. CASE global.mine[t] # global.cur
  <2>1. /\ GlobalType'
        /\ global'.cur = global.mine[t] /\ global'.live = global.live
        /\ global'.initialized = global.initialized /\ global'.configured = global.configured
        /\ global'.mutex = t /\ global'.mine = [global.mine EXCEPT ![t] = global.cur]
        /\ global'.pc = [global.pc EXCEPT ![t] = "destroy"]
    <3> DEFINE pc == [global.pc EXCEPT ![t] = "destroy"]
               mine == [global.mine EXCEPT ![t] = global.cur]
               cur == global.mine[t]
    <3>1. /\ pc \in [Thread -> Places] /\ mine \in [Thread -> Address \cup {NULL}]
          /\ cur \in Address \cup {NULL}
      BY DEF Places, GlobalInv, GlobalType
    <3>2. global' = [global EXCEPT !.mutex = t, !.cur = cur, !.pc = pc, !.mine = mine]
      BY <1>4 DEF G!Install, G!GoTo, GlobalInv, GlobalType
    <3> HIDE DEF pc, mine, cur
    <3>3. /\ GlobalType' /\ global'.pc = pc /\ global'.mine = mine
          /\ global'.cur = cur /\ global'.live = global.live
          /\ global'.initialized = global.initialized /\ global'.configured = global.configured
          /\ global'.mutex = t
      BY <3>1, <3>2 DEF GlobalInv, GlobalType
    <3> QED BY <3>3 DEF pc, mine, cur
  <2>2. /\ ~Setting(t)' /\ Destroying(t)' /\ global'.mine[t] = global.cur
        /\ \A u \in Thread \ {t} : /\ (Setting(u)' <=> Setting(u)) /\ (Destroying(u)' <=> Destroying(u))
                                  /\ global'.mine[u] = global.mine[u]
    BY <2>1 DEF Setting, Destroying, GlobalInv, GlobalType
  <2>3. \A u \in Thread \ {t} : global.mine[u] # NULL => global.mine[u] # global.cur
    BY <1>1, <1>2 DEF GlobalInv, OneHand, InHand
  <2>4. InHand'
    BY <1>2, <1>4, <2>1, <2>2 DEF GlobalInv, InHand, G!GlobalIsLive
  <2>5. OneHand'
    BY <1>2, <2>1, <2>2, <2>3 DEF GlobalInv, OneHand
  <2>6. \A b \in Address : global.live[b] # 0 =>
          b = global.cur \/ b = global.mine[t] \/ \E u \in Thread \ {t} : global.mine[u] = b
    BY DEF GlobalInv, G!GlobalIsLive
  <2>7. ConfiguredOnce' /\ G!GlobalIsLive'
    BY <1>1, <2>1, <2>2, <2>6 DEF GlobalInv, ConfiguredOnce, G!GlobalIsLive
  <2> QED BY <2>1, <2>4, <2>5, <2>7 DEF GlobalInv
<1> QED BY <1>3, <1>4

\* The previous system is destroyed: it is in nobody else's hands and not in
\* force.
LEMMA DestroyKeeps ==
  ASSUME GlobalData, GlobalInv, NEW t \in Thread, G!DestroyPrev(t)
  PROVE  GlobalInv'
<1>1. Destroying(t) /\ global.mutex = t /\ global.mine[t] # global.cur
  BY DEF G!DestroyPrev, G!At, Destroying, GlobalInv, InHand
<1> DEFINE live == [a \in Address |-> IF a = global.mine[t] THEN 0 ELSE global.live[a]]
<1>2. live \in [Address -> Nat]
  BY DEF GlobalInv, GlobalType
<1>3. global' = [global EXCEPT !.mutex = NULL, !.mine[t] = NULL, !.live = live, !.pc[t] = "out"]
  BY DEF G!DestroyPrev, G!GoTo, GlobalInv, GlobalType
<1>4. \A b \in Address : live[b] # 0 <=> b # global.mine[t] /\ global.live[b] # 0
  OBVIOUS
<1> HIDE DEF live
<1>5. /\ GlobalType'
      /\ global'.cur = global.cur /\ global'.live = live
      /\ global'.initialized = global.initialized /\ global'.configured = global.configured
      /\ global'.mutex = NULL /\ global'.mine = [global.mine EXCEPT ![t] = NULL]
      /\ global'.pc = [global.pc EXCEPT ![t] = "out"]
  BY <1>2, <1>3 DEF Places, GlobalInv, GlobalType
<1>6. /\ ~Setting(t)' /\ ~Destroying(t)' /\ global'.mine[t] = NULL
      /\ \A u \in Thread \ {t} : /\ (Setting(u)' <=> Setting(u)) /\ (Destroying(u)' <=> Destroying(u))
                                /\ global'.mine[u] = global.mine[u]
  BY <1>5 DEF Setting, Destroying, GlobalInv, GlobalType
<1>7. \A u \in Thread \ {t} :
        /\ ~Destroying(u)
        /\ global.mine[u] # NULL => global.mine[u] \in Address /\ global.mine[u] # global.mine[t]
  BY <1>1 DEF GlobalInv, InHand, OneHand, GlobalType
<1>8. \A u \in Thread \ {t} : global'.mine[u] # NULL => global'.live[global'.mine[u]] # 0
  BY <1>4, <1>5, <1>6, <1>7 DEF GlobalInv, InHand
<1>9. InHand'
  BY <1>5, <1>6, <1>7, <1>8 DEF GlobalInv, InHand
<1>10. OneHand'
  BY <1>5, <1>6 DEF GlobalInv, OneHand
<1>11. ConfiguredOnce'
  BY <1>5 DEF GlobalInv, ConfiguredOnce
<1>12. G!GlobalIsLive'
  <2>1. global'.cur # NULL => global'.live[global'.cur] # 0
    BY <1>1, <1>4, <1>5 DEF GlobalInv, GlobalType, G!GlobalIsLive
  <2>2. \A b \in Address : global'.live[b] # 0 => b = global'.cur \/ \E u \in Thread : global'.mine[u] = b
    BY <1>4, <1>5, <1>6 DEF GlobalInv, G!GlobalIsLive
  <2> QED BY <1>5, <2>1, <2>2 DEF GlobalInv, G!GlobalIsLive
<1> QED BY <1>5, <1>9, <1>10, <1>11, <1>12 DEF GlobalInv

\* The log system in force, for any number of threads that log, fetch it and
\* replace it, and of systems made and destroyed at addresses that come back:
\* what LogSystemGet returns is there, the default one is configured once, and
\* what is neither in force nor in a thread's hands has been destroyed.
THEOREM GlobalSystemIsLive ==
  ASSUME GlobalData
  PROVE  G!Spec => []G!GlobalIsLive
<1>1. G!Init => GlobalInv
  BY GlobalInit
<1>2. GlobalInv /\ [G!Next]_(G!vars) => GlobalInv'
  <2>1. ASSUME GlobalInv, G!Next PROVE GlobalInv'
    <3>1. PICK t \in Thread :
            \/ G!Log(t) \/ G!Compare(t) \/ G!Fetch(t) \/ G!Find(t) \/ G!LogEx(t)
            \/ G!Create(t) \/ G!SetSame(t) \/ G!Install(t) \/ G!DestroyPrev(t)
      BY <2>1 DEF G!Next
    <3> QED
      BY <2>1, <3>1, MacroKeeps, CreateKeeps, SetSameKeeps, InstallKeeps, DestroyKeeps
  <2>2. ASSUME GlobalInv, UNCHANGED G!vars PROVE GlobalInv'
    BY <2>2 DEF G!vars, GlobalInv, GlobalType, ConfiguredOnce, InHand, OneHand, Setting,
                Destroying, G!GlobalIsLive
  <2> QED BY <2>1, <2>2
<1>3. GlobalInv => G!GlobalIsLive
  BY DEF GlobalInv
<1> QED BY <1>1, <1>2, <1>3, PTL DEF G!Spec
==============================================================================
