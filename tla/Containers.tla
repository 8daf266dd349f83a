----------------------------- MODULE Containers -----------------------------
(***************************************************************************)
(* The containers in use: one array, two lists or one map (st.kind), and a *)
(* client that calls their operations in any order with items it owns.     *)
(* st.freed is what was passed to the free callback.                       *)
(***************************************************************************)
EXTENDS Maps

CONSTANTS Item,            \* the items (an item is a number; Item is an interval)
          KeyOf(_),        \* what the array's comparator looks at
          Node,            \* list nodes that can be allocated
          Key, Value,      \* of the map
          Mem,             \* what memory a Put may meet (see Maps)
          MaxPuts          \* bound on puts: order_seq only grows

VARIABLE st

L == INSTANCE Lists

vars == <<st>>

Init ==
  \/ \E sorted, freecb \in BOOLEAN, cap \in 0 .. 1 :
       st = [kind |-> "array", arr |-> ArrayCreateInternal(cap, sorted, freecb),
             freed |-> {}, iter |-> NULL]
  \/ st = [kind |-> "list", heap |-> <<>>, one |-> L!ListCreateInternal,
           two |-> L!ListCreateInternal, iter |-> NULL]
  \/ \E ucase, freecb \in BOOLEAN, n \in 1 .. 2, lf \in 1 .. 2 :
       st = [kind |-> "map", m |-> MapCreateInternal(n, ucase, freecb, lf), freed |-> {}]

----------------------------------------------------------------------------
(* Arrays.  The comparator compares keys.                                  *)
Comparing(k, a) == [i \in 1 .. Size(a) |-> Compare(k, KeyOf(a.data[i]))]
Fresh(x) == x \notin ToSet(st.arr.data) \cup st.freed
Array(r) == st' = [st EXCEPT !.arr = r.a, !.freed = @ \cup r.freed]

Add(x, wantret, ok) ==
  /\ Fresh(x) \/ (st.arr.sorted /\ x \notin st.freed)
  /\ Array(ArrayAdd(st.arr, x, wantret, ok, Comparing(KeyOf(x), st.arr)))
Insert(x, i, ok) == Fresh(x) /\ Array(ArrayInsertAt(st.arr, x, i, ok))
Set(x, i)        == Fresh(x) /\ Array(ArraySetAt(st.arr, x, i))
Push(x, ok)      == Fresh(x) /\ Array(ArrayPush(st.arr, x, ok, Comparing(KeyOf(x), st.arr)))
Pop              == Array(ArrayPop(st.arr))
Delete(k)        == Array(ArrayRemove(st.arr, Comparing(k, st.arr)))
DeleteAt(i)      == Array(ArrayRemoveAt(st.arr, i))
Clear            == Array(ArrayClear(st.arr))
Iterate ==
  st' = [st EXCEPT !.iter = IF @ = NULL THEN 0 ELSE IterNext(st.arr, @).index]

ArrayStep ==
  /\ st.kind = "array"
  /\ \/ \E x \in Item, ok \in BOOLEAN :
          \/ Push(x, ok)
          \/ \E want \in BOOLEAN : Add(x, want, ok)
          \/ \E i \in 0 .. Size(st.arr) + 1 : Insert(x, i, ok) \/ Set(x, i)
     \/ \E x \in Item : Delete(KeyOf(x))
     \/ \E i \in 0 .. Size(st.arr) : DeleteAt(i)
     \/ Pop \/ Clear \/ Iterate

----------------------------------------------------------------------------
(* Lists: list is "one" or "two".  An iterator stands on a node of list    *)
(* one, and the client removes nothing while it has one.                   *)
List(list, r) == st' = [st EXCEPT !.heap = r.heap, ![list] = r.list]
Free == Node \ DOMAIN st.heap

ListStep ==
  /\ st.kind = "list"
  /\ \/ \E list \in {"one", "two"} :
          \/ \E x \in Item :
               \/ Free # {} /\ LET n == CHOOSE n \in Free : TRUE
                               IN  \/ List(list, L!AddFront(st.heap, st[list], n, x))
                                   \/ List(list, L!AddTail(st.heap, st[list], n, x))
               \/ st.iter = NULL /\ List(list, L!ListRemove(st.heap, st[list], x))
          \/ st.iter = NULL /\ \/ List(list, L!RemoveFront(st.heap, st[list]))
                               \/ List(list, L!RemoveTail(st.heap, st[list]))
     \/ LET r == L!MoveAll(st.heap, st.one, st.two)
        IN  st' = [st EXCEPT !.heap = r.heap, !.one = r.dest, !.two = r.src]
     \/ st' = [st EXCEPT !.iter = IF @ = NULL THEN st.one.head
                                  ELSE L!IterNext(st.heap, @).curr]

----------------------------------------------------------------------------
(* Maps.  The client puts a value that is neither in the map nor freed;    *)
(* what a Put hands back through prev, or a Remove returns, is its own.    *)
Held     == {x.value : x \in ToSet(st.m.keyset.data)}
Own(v)   == v \notin Held \cup st.freed
MapTo(m) == st' = [st EXCEPT !.m = m]
Room(n)  == st.m.orderseq + n <= MaxPuts

PutKey(k, v, mem) == Room(1) /\ Own(v) /\ MapTo(MapPut(st.m, k, v, mem).m)
RemoveOf(k)       == MapTo(MapRemove(st.m, k).m)
RemoveNth(i)      == MapTo(MapRemoveAt(st.m, i).m)
Outcome(r) == st' = [st EXCEPT !.m = r.m, !.freed = @ \cup r.freed]
PutMap(k1, v1, k2, v2, mem) ==
  LET empty == MapCreateInternal(2, FALSE, FALSE, 2)
      first == MapPut(empty, k1, v1, Plenty).m
  IN  /\ Room(2) /\ Own(v1) /\ Own(v2) /\ v1 # v2
      /\ MapToUpper(st.m, k1) # MapToUpper(st.m, k2)
      /\ Outcome(MapPutAll(st.m, MapPut(first, k2, v2, Plenty).m, mem))
ClearMap(freedata) == Outcome(IF freedata THEN MapClear(st.m) ELSE MapClearLink(st.m))

MapStep ==
  /\ st.kind = "map"
  /\ \/ \E k \in Key :
          \/ RemoveOf(k)
          \/ \E v \in Value, mem \in Mem : PutKey(k, v, mem)
          \/ \E k2 \in Key, v, v2 \in Value, mem1, mem2 \in Mem :
               PutMap(k, v, k2, v2, <<mem1, mem2>>)
     \/ \E i \in 0 .. st.m.size : RemoveNth(i)
     \/ \E freedata \in BOOLEAN : ClearMap(freedata)

Next == ArrayStep \/ ListStep \/ MapStep
Spec == Init /\ [][Next]_vars

----------------------------------------------------------------------------
(* An array never overruns its allocation, holds no item twice and none    *)
(* that was freed; a sorted one has its keys in strictly rising order, so  *)
(* that the binary search finds exactly what a linear search would.        *)
ArraySound(a, freed) ==
  /\ Size(a) <= a.capacity
  /\ IsInjective(a.data)
  /\ ToSet(a.data) \cap freed = {}
  /\ a.sorted =>
       /\ \A i, j \in 1 .. Size(a) : i < j => KeyOf(a.data[i]) < KeyOf(a.data[j])
       /\ \A x \in Item :
            LET at == ArrayFind(a, Comparing(KeyOf(x), a))
            IN  IF at = NULL THEN \A y \in ToSet(a.data) : KeyOf(y) # KeyOf(x)
                ELSE KeyOf(ArrayGetAt(a, at)) = KeyOf(x)

(* Walking a list forwards from head and backwards from tail meets the     *)
(* same nodes in opposite orders, as many as size says; no node is in both *)
(* lists and none is leaked; an iterator stands on a live node.            *)
ListsSound ==
  LET fwd(l) == L!Walk(st.heap, l.head, "next")
      bwd(l) == L!Walk(st.heap, l.tail, "prev")
  IN  /\ \A l \in {st.one, st.two} : fwd(l) = Reverse(bwd(l)) /\ Len(fwd(l)) = l.size
      /\ ToSet(fwd(st.one)) \cap ToSet(fwd(st.two)) = {}
      /\ ToSet(fwd(st.one)) \cup ToSet(fwd(st.two)) = DOMAIN st.heap
      /\ st.iter \in DOMAIN st.heap \cup {NULL}

(* The buckets of a map hold items of keyset, each where its key hashes    *)
(* to, so that a look-up finds it; the counts are right and no held value  *)
(* was freed.  They hold all of keyset, unless the map was torn.           *)
MapSound(m, freed) ==
  LET kept == ToSet(m.keyset.data)
  IN  /\ Items(m) \subseteq kept
      /\ m.torn \/ Items(m) = kept
      /\ \A b \in 0 .. m.bucketsize - 1 : \A x \in ToSet(Bucket(m, b).data) :
            b = x.hash % m.bucketsize /\ MapGet(m, x.key) = x.value
      /\ m.size = Size(m.keyset)
      /\ m.usecount = Cardinality({b \in 0 .. m.bucketsize - 1 : m.buckets[b] # NULL})
      /\ {x.value : x \in kept} \cap freed = {}

(* Whatever sequence of calls was made, and whichever growth of an array   *)
(* (Realloc in CheckSize) failed in it: an array is within its allocation, *)
(* holds nothing that was freed, and when sorted is searched correctly;    *)
(* both directions of a list meet the same nodes, no node is lost by       *)
(* MoveAll of one list to another; a map finds every item of its buckets   *)
(* where its key hashes to, and its buckets and key order agree.  They     *)
(* disagree only after a rebuild in which a bucket could not grow          *)
(* (maps.c:122), and until the map is cleared: the buckets then lack items *)
(* that keyset has (arrays.c, lists.c, maps.c).                            *)
ContainersSound ==
  CASE st.kind = "array" -> ArraySound(st.arr, st.freed)
    [] st.kind = "list"  -> ListsSound
    [] st.kind = "map"   -> MapSound(st.m, st.freed)

MapTorn  == st.kind = "map" /\ st.m.torn
MapPairs == IF st.kind = "map" /\ ~st.m.torn THEN MapGetPairs(st.m) ELSE << >>
MapKeys  == Key \cup {Upper(k) : k \in Key}
OM == INSTANCE OrderedMap WITH pairs <- MapPairs, torn <- MapTorn, Key <- MapKeys

(* Rehashing, sorted buckets and the key array together implement the      *)
(* ordered map of OrderedMap: every step of maps.c is a put, a removal, a  *)
(* putting of all pairs or a clearing of a sequence of pairs, or leaves it *)
(* alone, also when an array cannot grow in Put or PutAll; when it is a    *)
(* bucket in a rebuild that cannot, the map is torn until it is cleared    *)
(* (maps.c:122, :213-222, :234).                                           *)
MapImplements == OM!Spec
=============================================================================
