-------------------------------- MODULE Maps --------------------------------
(***************************************************************************)
(* CMUTIL_Map (maps.c): a hash table whose buckets are sorted arrays of    *)
(* items, with a second array, keyset, of the same items in the order they *)
(* were put.  Keys are numbers, ordered as strcmp orders the strings; a    *)
(* map made with isucase folds keys with Upper before hashing and storing. *)
(* Operations map a map to [m, ret, freed] as in Arrays.                   *)
(*                                                                         *)
(* Memory: mem says which arrays Realloc would let grow, should a Put need *)
(* it: mem.b the bucket of the key, mem.k keyset, and mem.lack has the     *)
(* orders of the items whose bucket could not grow in a rebuild.  The      *)
(* other allocations of maps.c (an item, its key, a bucket, an array of    *)
(* buckets) are used unchecked: where one of those fails the process ends, *)
(* and nothing is said of it here.                                         *)
(***************************************************************************)
EXTENDS Arrays, FiniteSets

CONSTANTS HashOf(_),       \* the 32-bit hash of a key
          Upper(_),        \* the key in upper case
          BucketCapacity   \* items that a new bucket has room for (5 in maps.c)

Plenty == [b |-> TRUE, k |-> TRUE, lack |-> {}]

(* The hash and the stored form of a key.                                  *)
MapHash(m, key)    == HashOf(IF m.ucase THEN Upper(key) ELSE key)
MapToUpper(m, key) == IF m.ucase THEN Upper(key) ELSE key
BucketOf(m, key)   == MapHash(m, key) % m.bucketsize
Compare(x, y)      == IF x = y THEN 0 ELSE IF x < y THEN -1 ELSE 1

NewBucket == ArrayCreateInternal(BucketCapacity, TRUE, FALSE)
Bucket(m, b) == IF m.buckets[b] = NULL THEN NewBucket ELSE m.buckets[b]
Items(m) == UNION {ToSet(Bucket(m, b).data) : b \in 0 .. m.bucketsize - 1}

(* torn is no field of the code: it remembers that a rebuild left an item  *)
(* out of the buckets since the map was last emptied.                      *)
MapCreateInternal(bucketsize, ucase, freecb, loadfactor) ==
  [buckets |-> [b \in 0 .. bucketsize - 1 |-> NULL], bucketsize |-> bucketsize,
   keyset |-> ArrayCreateInternal(bucketsize, TRUE, FALSE), size |-> 0,
   ucase |-> ucase, freecb |-> freecb, usecount |-> 0, orderseq |-> 0,
   loadfactor |-> loadfactor, torn |-> FALSE]

ByKey(key, a)         == [i \in 1 .. Size(a) |-> Compare(key, a.data[i].key)]
ByOrder(order, a)     == [i \in 1 .. Size(a) |-> Compare(order, a.data[i].order)]
AddKey(a, item, ok)   == ArrayAdd(a, item, TRUE, ok, ByKey(item.key, a))
AddOrder(a, item, ok) == ArrayAdd(a, item, FALSE, ok, ByOrder(item.order, a))
FindKey(a, key)       == ArrayFind(a, ByKey(key, a))
RemoveKey(a, key)     == ArrayRemove(a, ByKey(key, a))
RemoveOrder(a, order) == ArrayRemove(a, ByOrder(order, a))

(* Twice the buckets, every item of keyset put into its new one; the hash  *)
(* stored in the item saves computing it again.  Nobody asks whether the   *)
(* bucket took the item in: one that could not grow is without it, while   *)
(* keyset still has it.                                                    *)
Rehashed(items, n, lack) ==
  LET placed(bs, x) ==
        [bs EXCEPT ![x.hash % n] =
           AddKey(IF @ = NULL THEN NewBucket ELSE @, x, x.order \notin lack).a]
      upto[i \in 0 .. Len(items)] ==
        IF i = 0 THEN [b \in 0 .. n - 1 |-> NULL] ELSE placed(upto[i - 1], items[i])
  IN  upto[Len(items)]
Rebuilt(m, bs, n) ==
  LET r == [m EXCEPT !.buckets = bs, !.bucketsize = n,
                     !.usecount = Cardinality({b \in 0 .. n - 1 : bs[b] # NULL})]
  IN  [r EXCEPT !.torn = @ \/ Items(r) # ToSet(r.keyset.data)]
MapRebuild(m, lack) ==
  Rebuilt(m, Rehashed(m.keyset.data, 2 * m.bucketsize, lack), 2 * m.bucketsize)

(* The map with a bucket for the key: an empty slot first rebuilds a map   *)
(* that is filled beyond its load factor (in halves here), and the rebuilt *)
(* map may have filled the slot.                                           *)
Filled(r, b) == IF r.buckets[b] # NULL THEN r
                ELSE [r EXCEPT !.buckets[b] = NewBucket, !.usecount = @ + 1]
Hooked(r, key) == Filled(r, BucketOf(r, key))
WithBucket(m, key, lack) ==
  LET full == 2 * (m.usecount + 1) > m.loadfactor * m.bucketsize
  IN  Hooked(IF m.buckets[BucketOf(m, key)] = NULL /\ full THEN MapRebuild(m, lack) ELSE m, key)

\* A wrong variant of PutItem: the item that is replaced stays in keyset.
PutItemKeepsOld(next, b, item, old, add) ==
  IF ~add.ret THEN [m |-> next, item |-> NULL, prev |-> NULL]
  ELSE [m |-> [next EXCEPT !.buckets[b] = add.a, !.size = IF old = NULL THEN @ + 1 ELSE @],
        item |-> item,
        prev |-> IF old = NULL THEN NULL ELSE ArrayGetAt(next.buckets[b], old).value]

(* The new item replaces the one of the same key, which leaves keyset too. *)
(* ret is the new item, NULL when the bucket could not grow (ok is FALSE). *)
PutItem(next, b, item, old, add) ==
  CASE ~add.ret -> [m |-> next, item |-> NULL, prev |-> NULL]
    [] add.ret /\ old = NULL ->
         [m |-> [next EXCEPT !.buckets[b] = add.a, !.size = @ + 1], item |-> item, prev |-> NULL]
    [] add.ret /\ old # NULL ->
         LET ires == ArrayGetAt(next.buckets[b], old)
         IN  [m |-> [next EXCEPT !.buckets[b] = add.a, !.keyset = RemoveOrder(@, ires.order).a],
              item |-> item, prev |-> ires.value]
PutInto(r, b, item, ok) ==
  PutItem([r EXCEPT !.orderseq = @ + 1], b, item, FindKey(r.buckets[b], item.key),
          AddKey(r.buckets[b], item, ok))
PutHashed(r, item, ok) == PutInto(r, item.hash % r.bucketsize, item, ok)
MapPutBase(m, key, value, mem) ==
  PutHashed(WithBucket(m, key, mem.lack),
          [key |-> MapToUpper(m, key), value |-> value, hash |-> MapHash(m, key), order |-> m.orderseq],
          mem.b)

\* A wrong variant of RemoveFrom: the item stays in keyset.
RemoveKeepsOrder(m, b, r) ==
  IF m.buckets[b] = NULL \/ r.ret = NULL THEN [m |-> m, ret |-> NULL]
  ELSE [m |-> [m EXCEPT !.buckets[b] = r.a, !.size = @ - 1], ret |-> r.ret.value]

(* Remove unhooks the item from its bucket and from keyset; size follows   *)
(* only when the value was not NULL.                                       *)
RemoveFrom(m, b, r) ==
  IF m.buckets[b] = NULL \/ r.ret = NULL THEN [m |-> m, ret |-> NULL]
  ELSE [m   |-> [m EXCEPT !.buckets[b] = r.a,
                          !.keyset = RemoveOrder(@, r.ret.order).a,
                          !.size = IF r.ret.value # NULL THEN @ - 1 ELSE @],
        ret |-> r.ret.value]
MapRemove(m, key) ==
  RemoveFrom(m, BucketOf(m, key), RemoveKey(Bucket(m, BucketOf(m, key)), MapToUpper(m, key)))

(* A Put that cannot enter keyset takes the key out again.                 *)
PutOrder(p, k, key) ==
  CASE p.item = NULL          -> [m |-> p.m, ret |-> FALSE, prev |-> p.prev]
    [] p.item # NULL /\ k.ret -> [m |-> [p.m EXCEPT !.keyset = k.a], ret |-> TRUE, prev |-> p.prev]
    [] OTHER                  -> [m |-> MapRemove(p.m, key).m, ret |-> FALSE, prev |-> p.prev]
Ordered(p, key, okk) == PutOrder(p, AddOrder(p.m.keyset, p.item, okk), key)
MapPut(m, key, value, mem) == Ordered(MapPutBase(m, key, value, mem), key, mem.k)

(* Every pair of src in its order, whether or not the Put of another one   *)
(* failed; what is displaced is freed.  mem[i] is for the i-th pair.       *)
MapPutAll(m, src, mem) ==
  LET displaced(acc, p) ==
        [m |-> p.m, freed |-> IF acc.m.freecb /\ p.prev # NULL THEN acc.freed \cup {p.prev} ELSE acc.freed]
      put(acc, i) ==
        LET item == src.keyset.data[i]
        IN  displaced(acc, MapPut(acc.m, item.key, item.value, mem[i]))
      upto[i \in 0 .. Size(src.keyset)] ==
        IF i = 0 THEN [m |-> m, freed |-> {}] ELSE put(upto[i - 1], i)
  IN  upto[Size(src.keyset)]

MapGet(m, key) ==
  LET bucket == Bucket(m, BucketOf(m, key))
      at     == FindKey(bucket, MapToUpper(m, key))
  IN  IF at = NULL THEN NULL ELSE ArrayGetAt(bucket, at).value

MapGetKeys(m) == [i \in 1 .. Size(m.keyset) |-> m.keyset.data[i].key]
MapPairGetKey(pair)   == pair.key
MapPairGetValue(pair) == pair.value

MapIterNext(m, index) ==
  LET item == ArrayGetAt(m.keyset, index)
  IN  IF item = NULL THEN [ret |-> NULL, index |-> index]
      ELSE [ret |-> item.value, index |-> index + 1]

(* The value of the index-th key, looked up again by that key.             *)
MapGetAt(m, index) ==
  IF index < m.size THEN MapGet(m, ArrayGetAt(m.keyset, index).key) ELSE NULL
MapRemoveAt(m, index) ==
  IF index < m.size THEN MapRemove(m, ArrayGetAt(m.keyset, index).key)
  ELSE [m |-> m, ret |-> NULL]

(* Clear empties the buckets and keeps them, so usecount stays.  What only *)
(* keyset had is left to nobody.                                           *)
MapClearBase(m, freedata) ==
  [m     |-> [m EXCEPT !.buckets = [b \in DOMAIN @ |-> IF @[b] = NULL THEN NULL
                                                       ELSE ArrayClear(@[b]).a],
                       !.keyset = ArrayClear(@).a, !.size = 0, !.torn = FALSE],
   freed |-> IF m.freecb /\ freedata THEN {x.value : x \in Items(m)} ELSE {}]
MapClear(m)     == MapClearBase(m, TRUE)
MapClearLink(m) == MapClearBase(m, FALSE)
MapDestroy(m)   == IF m.freecb THEN {x.value : x \in Items(m)} ELSE {}

(* The view of keyset that GetPairs hands out: all pairs in their order.   *)
MapGetPairs(m) ==
  [i \in 1 .. Size(m.keyset) |->
     <<MapPairGetKey(m.keyset.data[i]), MapPairGetValue(m.keyset.data[i])>>]
=============================================================================
