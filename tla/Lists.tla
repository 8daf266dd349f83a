-------------------------------- MODULE Lists --------------------------------
(***************************************************************************)
(* CMUTIL_List (lists.c): a doubly linked list.  `heap' maps an allocated  *)
(* CMUTIL_ListItem to its prev, next and data; a list is its head, tail    *)
(* and size.  Operations map a [heap, list] pair to the pair afterwards    *)
(* and, where the call returns one, the data (ret).                        *)
(***************************************************************************)
EXTENDS Integers, Sequences, FiniteSets

CONSTANT NULL

ListCreateInternal == [head |-> NULL, tail |-> NULL, size |-> 0]

Alloc(heap, n, item) == [x \in DOMAIN heap \cup {n} |-> IF x = n THEN item ELSE heap[x]]
Free(heap, n)        == [x \in DOMAIN heap \ {n} |-> heap[x]]
Link(heap, n, field, to) ==
  IF n = NULL THEN heap
  ELSE IF field = "prev" THEN [heap EXCEPT ![n].prev = to] ELSE [heap EXCEPT ![n].next = to]

(* n is the node that Alloc returned.                                      *)
AddFront(heap, list, n, data) ==
  [heap |-> Link(Alloc(heap, n, [prev |-> NULL, next |-> list.head, data |-> data]),
                 list.head, "prev", n),
   list |-> [head |-> n, tail |-> IF list.tail = NULL THEN n ELSE list.tail,
             size |-> list.size + 1]]

AddTail(heap, list, n, data) ==
  [heap |-> Link(Alloc(heap, n, [prev |-> list.tail, next |-> NULL, data |-> data]),
                 list.tail, "next", n),
   list |-> [head |-> IF list.head = NULL THEN n ELSE list.head, tail |-> n,
             size |-> list.size + 1]]

GetFront(heap, list) == IF list.head = NULL THEN NULL ELSE heap[list.head].data
GetTail(heap, list)  == IF list.tail = NULL THEN NULL ELSE heap[list.tail].data

RemoveFront(heap, list) ==
  LET item == list.head IN
  IF item = NULL THEN [heap |-> heap, list |-> list, ret |-> NULL]
  ELSE [heap |-> Free(Link(heap, heap[item].next, "prev", NULL), item),
        list |-> [head |-> heap[item].next,
                  tail |-> IF list.size = 1 THEN NULL ELSE list.tail,
                  size |-> list.size - 1],
        ret  |-> heap[item].data]

RemoveTail(heap, list) ==
  LET item == list.tail IN
  IF item = NULL THEN [heap |-> heap, list |-> list, ret |-> NULL]
  ELSE [heap |-> Free(Link(heap, heap[item].prev, "next", NULL), item),
        list |-> [head |-> IF list.size = 1 THEN NULL ELSE list.head,
                  tail |-> heap[item].prev,
                  size |-> list.size - 1],
        ret  |-> heap[item].data]

(* The nodes met from `from' along next (prev): the way every loop of the  *)
(* file goes over a list.                                                  *)
Walk(heap, from, field) ==
  LET after(n) == IF field = "next" THEN heap[n].next ELSE heap[n].prev
      to(s)    == IF s = <<>> THEN from ELSE after(s[Len(s)])
      on(s)    == IF to(s) = NULL THEN s ELSE Append(s, to(s))
      go[i \in 0 .. Cardinality(DOMAIN heap) + 1] == IF i = 0 THEN <<>> ELSE on(go[i - 1])
  IN  go[Cardinality(DOMAIN heap) + 1]

ListRemove(heap, list, data) ==
  LET nodes == Walk(heap, list.head, "next")
      hits  == {i \in DOMAIN nodes : heap[nodes[i]].data = data}
      item  == nodes[CHOOSE i \in hits : \A j \in hits : i <= j]
  IN  CASE hits = {}        -> [heap |-> heap, list |-> list, ret |-> NULL]
        [] hits # {} /\ item = list.head -> RemoveFront(heap, list)
        [] hits # {} /\ item # list.head /\ item = list.tail -> RemoveTail(heap, list)
        [] OTHER ->
             [heap |-> Free(Link(Link(heap, heap[item].prev, "next", heap[item].next),
                                 heap[item].next, "prev", heap[item].prev), item),
              list |-> [list EXCEPT !.size = @ - 1],
              ret  |-> data]

(* The iterator is the node it will return next.  It stops at a node whose *)
(* data is NULL, where the code does not advance.                          *)
IterNext(heap, curr) ==
  IF curr = NULL \/ heap[curr].data = NULL THEN [ret |-> NULL, curr |-> curr]
  ELSE [ret |-> heap[curr].data, curr |-> heap[curr].next]

(* What Destroy hands to freecb, in order, and the heap it leaves.         *)
ListDestroy(heap, list) ==
  LET nodes == Walk(heap, list.head, "next")
      gone  == {nodes[i] : i \in DOMAIN nodes}
  IN  [heap  |-> [n \in DOMAIN heap \ gone |-> heap[n]],
       freed |-> [i \in DOMAIN nodes |-> heap[nodes[i]].data]]

(* All of src to the end of dest, by relinking its first node.             *)
MoveAll(heap, dest, src) ==
  IF src.head = NULL THEN [heap |-> heap, dest |-> dest, src |-> src]
  ELSE [heap |-> IF dest.tail = NULL THEN heap
                 ELSE Link(Link(heap, dest.tail, "next", src.head), src.head, "prev", dest.tail),
        dest |-> [head |-> IF dest.tail = NULL THEN src.head ELSE dest.head,
                  tail |-> src.tail, size |-> dest.size + src.size],
        src  |-> ListCreateInternal]
=============================================================================
