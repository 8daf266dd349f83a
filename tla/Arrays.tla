------------------------------- MODULE Arrays -------------------------------
(***************************************************************************)
(* CMUTIL_Array (arrays.c): a growing array of pointers, optionally kept   *)
(* sorted by a comparator.  An array is the record of the fields of        *)
(* CMUTIL_Array_Internal; an operation maps an array to the record         *)
(* [a: the array afterwards, ret: what the call returns, freed: the set of *)
(* items it passed to freecb].  Indices are the code's, from 0.  `ok' says *)
(* whether Realloc would succeed, should the call need it.                 *)
(***************************************************************************)
EXTENDS Integers, Sequences, SequencesExt

CONSTANT NULL              \* the null pointer

ArrayCreateInternal(initcapacity, sorted, freecb) ==
  [data |-> <<>>, capacity |-> initcapacity, sorted |-> sorted, freecb |-> freecb]

Size(a) == Len(a.data)
Same(a, ret) == [a |-> a, ret |-> ret, freed |-> {}]

(* The capacity that CheckSize reallocates to for one more item: doubled   *)
(* until it is enough, from 4 when there was none.                         *)
Grown(a) ==
  LET reqsz == Size(a) + 1
      start == IF a.capacity = 0 THEN 4 ELSE a.capacity * 2
      up[c \in Nat] == IF c < reqsz THEN up[c * 2] ELSE c
  IN  IF a.capacity < reqsz THEN up[start] ELSE a.capacity

CanHold(a, ok) == a.capacity > Size(a) \/ ok

(* Binary search.  A caller gives what the comparator says of what is      *)
(* sought and each item: cmps[i] is the sign of their comparison.  Found is*)
(* 1 with the index of the match, or 2 with the index at which to insert.  *)
(* A range r is searched from stpos, r[1], up to edpos, r[2].              *)
SearchPrivate(cmps) ==
  LET mid(r) == (r[2] + r[1]) \div 2
      cmp(r) == cmps[mid(r) + 1]
      probe[r \in {q \in (0 .. Len(cmps)) \X (0 .. Len(cmps)) : q[1] < q[2]}] ==
        CASE cmp(r) = 0                      -> [found |-> 1, idx |-> mid(r)]
          [] cmp(r) < 0 /\ mid(r) = r[1]     -> [found |-> 2, idx |-> mid(r)]
          [] cmp(r) < 0 /\ mid(r) # r[1]     -> probe[<<r[1], mid(r)>>]
          [] cmp(r) > 0 /\ mid(r) = r[2] - 1 -> [found |-> 2, idx |-> r[2]]
          [] OTHER                           -> probe[<<mid(r), r[2]>>]
  IN  IF cmps = <<>> THEN [found |-> 2, idx |-> 0] ELSE probe[<<0, Len(cmps)>>]

InsertAtPrivate(a, item, index, ok) ==
  IF ~CanHold(a, ok) THEN Same(a, NULL)
  ELSE LET b == [a EXCEPT !.capacity = Grown(a)]
       IN  IF index > Size(a) THEN Same(b, NULL)
           ELSE Same([b EXCEPT !.data = InsertAt(@, index + 1, item)], item)

ArrayInsertAt(a, item, index, ok) ==
  IF a.sorted THEN Same(a, NULL) ELSE InsertAtPrivate(a, item, index, ok)

ArraySetAt(a, item, index) ==
  IF a.sorted \/ index >= Size(a) THEN Same(a, NULL)
  ELSE Same([a EXCEPT !.data[index + 1] = item], a.data[index + 1])

(* ret is true when the item is in the array.  An equal item that Add      *)
(* displaces is handed out through *ret when the caller gave one (wantret),*)
(* and is freed otherwise, unless it is the very item added.               *)
ArrayAdd(a, item, wantret, ok, cmps) ==
  LET at == SearchPrivate(cmps)
      old == a.data[at.idx + 1]
  IN  CASE a.sorted /\ at.found = 1 ->
             [a     |-> [a EXCEPT !.data[at.idx + 1] = item],
              ret   |-> TRUE,
              freed |-> IF ~wantret /\ a.freecb /\ old # item THEN {old} ELSE {}]
        [] a.sorted /\ at.found = 2 ->
             LET r == InsertAtPrivate(a, item, at.idx, ok) IN Same(r.a, r.ret # NULL)
        [] ~a.sorted ->
             IF ~CanHold(a, ok) THEN Same(a, FALSE)
             ELSE Same([a EXCEPT !.capacity = Grown(a), !.data = Append(@, item)], TRUE)

ArrayRemoveAt(a, index) ==
  IF index >= Size(a) THEN Same(a, NULL)
  ELSE Same([a EXCEPT !.data = RemoveAt(@, index + 1)], a.data[index + 1])

ArrayGetAt(a, index) == IF index < Size(a) THEN a.data[index + 1] ELSE NULL

(* The index of the item that compares equal, NULL when there is none: by  *)
(* binary search in a sorted array, the first one otherwise.               *)
ArrayFind(a, cmps) ==
  IF a.sorted
  THEN LET at == SearchPrivate(cmps) IN IF at.found = 1 THEN at.idx ELSE NULL
  ELSE LET hits == {i \in 0 .. Size(a) - 1 : cmps[i + 1] = 0}
       IN  IF hits = {} THEN NULL ELSE CHOOSE i \in hits : \A j \in hits : i <= j

ArrayRemove(a, cmps) ==
  LET at == ArrayFind(a, cmps) IN IF at = NULL THEN Same(a, NULL) ELSE ArrayRemoveAt(a, at)

ArrayPush(a, item, ok, cmps) ==
  IF a.sorted THEN Same(a, FALSE) ELSE ArrayAdd(a, item, FALSE, ok, cmps)

ArrayPop(a)    == IF Size(a) > 0 THEN ArrayRemoveAt(a, Size(a) - 1) ELSE Same(a, NULL)
ArrayTop(a)    == IF Size(a) > 0 THEN ArrayGetAt(a, Size(a) - 1) ELSE NULL
ArrayBottom(a) == ArrayGetAt(a, 0)

(* The iterator is an index into the array it was made for.                *)
IterHasNext(a, index) == Size(a) > index
IterNext(a, index) ==
  IF IterHasNext(a, index) THEN [ret |-> ArrayGetAt(a, index), index |-> index + 1]
  ELSE [ret |-> NULL, index |-> index]

Freeable(a) == IF a.freecb THEN ToSet(a.data) ELSE {}
ArrayClear(a) == [a |-> [a EXCEPT !.data = <<>>], ret |-> NULL, freed |-> Freeable(a)]
ArrayDestroy(a) == [a |-> NULL, ret |-> NULL, freed |-> Freeable(a)]
=============================================================================
