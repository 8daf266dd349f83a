------------------------------ MODULE JsonDoc ------------------------------
(***************************************************************************)
(* A JSON tree built with the calls of CMUTIL_JsonObject and _JsonArray, a *)
(* text that arrives with one atom lost, added or changed, or cut anywhere,*)
(* and a code point to encode.  What the printer writes, the parser has to *)
(* read back.                                                              *)
(***************************************************************************)
EXTENDS Json

CONSTANTS Keys,            \* object keys: sequences of atoms
          Data,            \* the data of string values: sequences of atoms
          Long,            \* the digits of a long
          Doubles,         \* doubles as they are printed
          Atom,            \* what an edit puts into a text
          Seed,            \* the texts that are edited
          CodePoint,
          MaxText          \* bound on the printed length of a tree

VARIABLE st
vars == <<st>>

Init ==
  \/ \E r \in {JsonObjectCreateInternal, JsonArrayCreateInternal} :
        st = [kind |-> "tree", root |-> r]
  \/ \E t \in Seed : st = [kind |-> "text", text |-> t, edited |-> FALSE]
  \/ \E cp \in CodePoint : st = [kind |-> "point", cp |-> cp]

Leaf == {JsonValueCreateInternal, SetBoolean(TRUE), SetBoolean(FALSE), SetNull,
         SetLong(Long)} \cup {SetDouble(d) : d \in Doubles} \cup {SetString(d) : d \in Data}

(* A root may be overwritten by one that holds it; trees past the bound    *)
(* are not built.                                                          *)
To(root) == /\ Len(JsonToString(root, FALSE)) <= MaxText
            /\ st' = [st EXCEPT !.root = root]

ObjectStep ==
  /\ st.kind = "tree" /\ st.root.t = "object"
  /\ \/ \E k \in Keys : \/ \E v \in Leaf : To(ObjectPutValue(st.root, k, v))
                        \/ To(ObjectPutNull(st.root, k))
                        \/ To(ObjectDelete(st.root, k))
                        \/ To(ObjectPut(JsonObjectCreateInternal, k, st.root))
     \/ To(ArrayAdd(JsonArrayCreateInternal, st.root))

ArrayStep ==
  /\ st.kind = "tree" /\ st.root.t = "array"
  /\ \/ \E v \in Leaf : To(ArrayAddValue(st.root, v))
     \/ To(ArrayAddNull(st.root))
     \/ \E i \in 0 .. Len(st.root.items) - 1 : To(ArrayDelete(st.root, i))
     \/ \E k \in Keys : To(ObjectPut(JsonObjectCreateInternal, k, st.root))
     \/ To(ArrayAdd(JsonArrayCreateInternal, st.root))

EditStep ==
  /\ st.kind = "text" /\ ~st.edited
  /\ \E i \in 1 .. Len(st.text), a \in Atom :
       \E t \in {RemoveAt(st.text, i), ReplaceAt(st.text, i, a), InsertAt(st.text, i, a),
                 SubSeq(st.text, 1, i - 1), SubSeq(st.text, 1, i - 1) \o <<a>>} :
         st' = [st EXCEPT !.text = t, !.edited = TRUE]

Idle == UNCHANGED st
Next == ObjectStep \/ ArrayStep \/ EditStep \/ Idle
Spec == Init /\ [][Next]_vars

----------------------------------------------------------------------------
RECURSIVE Depth(_), Alike(_, _), Indexed(_)
Depth(j) == LET sub == CASE j.t = "value"  -> {}
                         [] j.t = "object" -> {Depth(p[2]) : p \in ToSet(j.pairs)}
                         [] j.t = "array"  -> {Depth(x) : x \in ToSet(j.items)}
            IN  1 + IF sub = {} THEN 0 ELSE CHOOSE d \in sub : \A e \in sub : d >= e

(* The same tree, members in the same order.                               *)
Alike(j, k) ==
  /\ j.t = k.t
  /\ CASE j.t = "value"  -> j.data = k.data /\ j.type = k.type
       [] j.t = "array"  -> /\ Len(j.items) = Len(k.items)
                            /\ \A i \in DOMAIN j.items : Alike(j.items[i], k.items[i])
       [] j.t = "object" -> /\ ObjectGetKeys(j) = ObjectGetKeys(k)
                            /\ \A i \in DOMAIN j.pairs : Alike(j.pairs[i][2], k.pairs[i][2])

(* What a tree is after a round trip: itself, but that a double printed    *)
(* without a point becomes the long of the digits before its exponent (1e20*)
(* is printed as 1e+20 and comes back as the long 1).                      *)
AsLong(v) == SetLong(SelectSeq(v.data, LAMBDA x : ~IsExponent(x)))
Pointless(v) == v.type = "double" /\ ~\E i \in DOMAIN v.data : IsPoint(v.data[i])
RECURSIVE ReadForm(_)
ReadForm(j) ==
  CASE j.t = "value"  -> IF Pointless(j) THEN AsLong(j) ELSE j
    [] j.t = "array"  -> [j EXCEPT !.items = [i \in DOMAIN @ |-> ReadForm(@[i])]]
    [] j.t = "object" -> [j EXCEPT !.pairs = [i \in DOMAIN @ |-> <<@[i][1], ReadForm(@[i][2])>>]]

(* The keys array of every object has each key of its map once.            *)
Indexed(j) ==
  CASE j.t = "value"  -> TRUE
    [] j.t = "array"  -> \A x \in ToSet(j.items) : Indexed(x)
    [] j.t = "object" -> /\ ToSet(j.keys) = ToSet(ObjectGetKeys(j))
                         /\ Len(j.keys) = Len(j.pairs)
                         /\ \A p \in ToSet(j.pairs) : Indexed(p[2])

(* No value but a string prints as data: as nothing when it was never set, *)
(* as a word that the parser refuses when it is infinite.                  *)
RECURSIVE NonePrints(_, _)
NonePrints(j, data) ==
  CASE j.t = "value"  -> j.type = "string" \/ j.data # data
    [] j.t = "array"  -> \A x \in ToSet(j.items) : NonePrints(x, data)
    [] j.t = "object" -> \A p \in ToSet(j.pairs) : NonePrints(p[2], data)
NoEmpty(j) == NonePrints(j, <<>>)
Finite(j)  == NonePrints(j, <<"inf">>)

(* The reference decoder of UTF-8.                                         *)
Decode(b) ==
  LET tail(i) == b[i] % 64
  IN  CASE Len(b) = 1 -> b[1]
        [] Len(b) = 2 -> (b[1] % 32) * 64 + tail(2)
        [] Len(b) = 3 -> (b[1] % 16) * 4096 + tail(2) * 64 + tail(3)
        [] Len(b) = 4 -> (b[1] % 8) * 262144 + tail(2) * 4096 + tail(3) * 64 + tail(4)

ReadAs(j, k) ==
  IF Depth(j) <= MaxDepth /\ Finite(j) THEN k # NULL /\ Alike(ReadForm(j), k) ELSE k = NULL
ReadsBack(j) == \A pretty \in BOOLEAN : ReadAs(j, JsonParse(JsonToString(j, pretty)))
Survives(j)  == j # NULL => Depth(j) <= MaxDepth /\ Indexed(j) /\ ReadsBack(j)
Copied(j, k) == k.t = j.t /\ Alike(k, j) /\ Indexed(k)

Encoded(cp, b) ==
  /\ Decode(b) = cp
  /\ \A i \in DOMAIN b : b[i] \in 0 .. 255
  /\ Len(b) > 1 => cp >= <<128, 2048, 65536>>[Len(b) - 1]

(* A tree reads back from its own text, compact or pretty, exactly when its*)
(* depth is within the limit and no value is infinite (with a value never  *)
(* set, which prints as nothing, it is not claimed); and it reads back as  *)
(* itself, but for the doubles that print without a point (ReadForm).  Its *)
(* clone is its equal, and its key arrays agree with its maps.  Whatever a *)
(* damaged text is read as, if it is read at all, reads back in that sense.*)
(* Code points survive their encoding, in the shortest form.               *)
JsonSound ==
  CASE st.kind = "tree" ->
         /\ Indexed(st.root)
         /\ Copied(st.root, Clone(st.root))
         /\ NoEmpty(st.root) => ReadsBack(st.root)
         /\ st.root.t = "object" => \A k \in Keys :
              (ObjectGet(st.root, k) = NULL) = (k \notin ToSet(ObjectGetKeys(st.root)))
    [] st.kind = "text"  -> Survives(JsonParse(st.text))
    [] st.kind = "point" -> Encoded(st.cp, JsonAppendUTF8(st.cp))
=============================================================================
