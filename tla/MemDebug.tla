------------------------------ MODULE MemDebug ------------------------------
(***************************************************************************)
(* The recycling allocator (memdebug.c) and CMUTIL_Init and CMUTIL_Clear   *)
(* (base.c), which set it up below the subsystems and take it down after   *)
(* them.  A block has room for 2^index bytes, and keeps its place in the   *)
(* heap when it is recycled.  The bytes before and after the client's part *)
(* are marked: front and tail say whether the mark is still there.         *)
(***************************************************************************)
EXTENDS Integers, Sequences, SequencesExt, FiniteSets

CONSTANTS NULL,
          MaxSize,         \* sizes are 0 .. MaxSize
          MEM_BLOCK_SZ,    \* the size classes
          MaxBlocks,       \* what malloc has, bound on the heap
          MaxInits         \* bound on nested CMUTIL_Init

(* The ceiling of the binary logarithm, 0 for 0.                           *)
MemRcyIndex(size) == CHOOSE i \in 0 .. MaxSize + 1 : 2 ^ i >= size /\ \A j \in 0 .. i - 1 : 2 ^ j < size

Classes == 0 .. MEM_BLOCK_SZ - 1
EmptyLists == [i \in Classes |-> [cnt |-> 0, avlcnt |-> 0, head |-> <<>>, used |-> {}]]

(* The allocator m: blocks and lists.  An operation returns m and ret.     *)
Give(m, b, i, size) ==
  [m EXCEPT !.lists[i].used = @ \cup {b},
            !.blocks = [x \in DOMAIN m.blocks \cup {b} |->
                          IF x # b THEN m.blocks[x]
                          ELSE [index |-> i, size |-> size, front |-> TRUE, tail |-> TRUE]]]

MemRcyAlloc(m, size) ==
  LET i    == MemRcyIndex(size)
      list == m.lists[i]
      new  == Len(m.blocks) + 1
  IN  IF i >= MEM_BLOCK_SZ THEN [m |-> m, ret |-> NULL]
      ELSE IF list.head # <<>>
      THEN [m |-> [Give(m, Head(list.head), i, size) EXCEPT !.lists[i].head = Tail(@),
                                                            !.lists[i].avlcnt = @ - 1],
            ret |-> Head(list.head)]
      ELSE IF new > MaxBlocks THEN [m |-> m, ret |-> NULL]
      ELSE [m |-> [Give(m, new, i, size) EXCEPT !.lists[i].cnt = @ + 1], ret |-> new]

MemRcyCalloc(m, nmem, size) ==
  IF nmem # 0 /\ size > MaxSize \div nmem THEN [m |-> m, ret |-> NULL]
  ELSE MemRcyAlloc(m, nmem * size)

MemRcyStrdup(m, len) == IF len = NULL THEN [m |-> m, ret |-> NULL] ELSE MemRcyAlloc(m, len + 1)

MemCheckFlow(block) == block.front /\ block.tail

\* A wrong variant of MemRcyFree: it does not look whether the block is in use.
FreeUnasked(m, b) ==
  LET i == m.blocks[b].index
  IN  IF b = NULL THEN m
      ELSE IF ~MemCheckFlow(m.blocks[b]) THEN [m EXCEPT !.lists[i].used = @ \ {b}]
      ELSE [m EXCEPT !.lists[i] = [@ EXCEPT !.used = @ \ {b}, !.head = <<b>> \o @, !.avlcnt = @ + 1]]

(* A damaged block is in use no more, and is not handed out again either.  *)
MemRcyFree(m, b) ==
  LET i == m.blocks[b].index
  IN  IF b = NULL THEN m
      ELSE IF b \notin m.lists[i].used THEN m
      ELSE IF ~MemCheckFlow(m.blocks[b]) THEN [m EXCEPT !.lists[i].used = @ \ {b}]
      ELSE [m EXCEPT !.lists[i] = [@ EXCEPT !.used = @ \ {b}, !.head = <<b>> \o @, !.avlcnt = @ + 1]]

(* A block of the right class stays, with its mark after the new size.     *)
MemRcyRealloc(m, b, size) ==
  LET i   == MemRcyIndex(size)
      new == MemRcyAlloc(m, size)
  IN  IF b = NULL THEN MemRcyAlloc(m, size)
      ELSE IF ~MemCheckFlow(m.blocks[b]) \/ i >= MEM_BLOCK_SZ THEN [m |-> m, ret |-> NULL]
      ELSE IF m.blocks[b].index = i
      THEN [m |-> [m EXCEPT !.blocks[b].size = size, !.blocks[b].tail = TRUE], ret |-> b]
      ELSE IF new.ret = NULL THEN new
      ELSE [m |-> MemRcyFree(new.m, b), ret |-> new.ret]

MemRcyInit == [blocks |-> <<>>, lists |-> EmptyLists]

(* TRUE when nothing is in use; everything goes back to malloc.            *)
MemDebugClear(m) == [m |-> MemRcyInit, ret |-> \A i \in Classes : m.lists[i].used = {}]

----------------------------------------------------------------------------
VARIABLE st
vars == <<st>>

(* The subsystems in the order they start; each keeps a block it allocates *)
(* then, and gives it back when it is cleared.                             *)
Subsystems == <<"Thread", "StringBase", "Xml", "Network", "Log", "Http">>

Init == st = [cnt |-> 0, m |-> NULL, up |-> <<>>, own |-> {}, lost |-> {}, damaged |-> {}, clean |-> NULL]

LibInit ==
  LET start(s, name) ==
        LET r == MemRcyAlloc(s.m, 1) IN [s EXCEPT !.m = r.m, !.up = Append(@, [sys |-> name, keeps |-> r.ret])]
  IN  /\ st.cnt < MaxInits
      /\ st' = [(IF st.cnt > 0 THEN st ELSE FoldLeft(start, [st EXCEPT !.m = MemRcyInit], Subsystems))
                  EXCEPT !.cnt = @ + 1, !.clean = NULL]

(* The last Clear takes the subsystems down in the reverse order, and says *)
(* whether anything was left allocated.                                    *)
LibClear ==
  LET stop(s, name) ==
        LET i == CHOOSE i \in DOMAIN s.up : s.up[i].sys = name
        IN  [s EXCEPT !.m = MemRcyFree(s.m, s.up[i].keeps), !.up = RemoveAt(@, i)]
      down == FoldLeft(stop, st, Reverse(Subsystems))
      end  == MemDebugClear(down.m)
  IN  /\ st.cnt > 0
      /\ IF st.cnt > 1 THEN st' = [st EXCEPT !.cnt = @ - 1]
         ELSE st' = [down EXCEPT !.cnt = 0, !.m = NULL, !.own = {}, !.lost = {}, !.damaged = {},
                                 !.clean = [ret |-> end.ret, leaked |-> st.own # {}]]

Alive == st.cnt > 0
Gets(r) == st' = [st EXCEPT !.m = r.m, !.own = IF r.ret = NULL THEN @ ELSE @ \cup {r.ret}]

Alloc == \E size \in 0 .. MaxSize :
           Alive /\ (Gets(MemRcyAlloc(st.m, size)) \/ Gets(MemRcyStrdup(st.m, size))
                     \/ Gets(MemRcyCalloc(st.m, size, 2)))
Free == \E b \in st.own :
           /\ Alive
           /\ st' = [st EXCEPT !.m = MemRcyFree(st.m, b), !.own = @ \ {b},
                               !.lost = IF MemCheckFlow(st.m.blocks[b]) THEN @ ELSE @ \cup {b}]
Realloc == \E b \in st.own \cup {NULL}, size \in 0 .. MaxSize :
             LET r == MemRcyRealloc(st.m, b, size)
             IN  /\ Alive
                 /\ st' = [st EXCEPT !.m = r.m,
                             !.own = IF r.ret = NULL THEN @ ELSE (@ \ {b}) \cup {r.ret}]
(* What the marks are for: a client that frees twice, and one that writes  *)
(* before its block or after it.                                           *)
FreeAgain == /\ Alive
             /\ \E b \in DOMAIN st.m.blocks :
                  b \notin st.own /\ (\A i \in DOMAIN st.up : st.up[i].keeps # b)
                    /\ st' = [st EXCEPT !.m = MemRcyFree(st.m, b)]
Smash == \E b \in st.own :
           /\ Alive
           /\ \/ st' = [st EXCEPT !.m.blocks[b].front = FALSE, !.damaged = @ \cup {b}]
              \/ st' = [st EXCEPT !.m.blocks[b].tail = FALSE, !.damaged = @ \cup {b}]

Next == LibInit \/ LibClear \/ Alloc \/ Free \/ Realloc \/ FreeAgain \/ Smash
Spec == Init /\ [][Next]_vars

----------------------------------------------------------------------------
(* A block is in use, free or given up as damaged, never two of them, and  *)
(* the counts of its class say so; whoever allocated has a block of its own*)
(* with room for what it asked for, and never one that was written past.   *)
(* The last Clear reports a leak exactly when the program has one.         *)
MemorySound ==
  /\ st.cnt = 0 => st.up = <<>> /\ (st.clean # NULL => (st.clean.ret <=> ~st.clean.leaked))
  /\ st.cnt > 0 =>
       LET kept == {st.up[i].keeps : i \in DOMAIN st.up} \ {NULL}
           used == UNION {st.m.lists[i].used : i \in Classes}
           of(i) == {b \in DOMAIN st.m.blocks : st.m.blocks[b].index = i}
       IN  /\ used = st.own \cup kept /\ st.own \cap kept = {}
           /\ Cardinality(kept) = Len(st.up)
           /\ \A i \in Classes :
                LET list == st.m.lists[i]
                IN  /\ list.cnt = Cardinality(of(i)) /\ list.avlcnt = Len(list.head)
                    /\ list.used \cap ToSet(list.head) = {}
                    /\ Cardinality(list.used) + Cardinality(ToSet(list.head))
                         + Cardinality(of(i) \cap st.lost) = list.cnt
                    /\ ToSet(list.head) \cap st.damaged = {}
           /\ \A b \in used : st.m.blocks[b].size <= 2 ^ st.m.blocks[b].index
=============================================================================
