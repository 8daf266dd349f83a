------------------------------ MODULE OrderedMap ------------------------------
(***************************************************************************)
(* What CMUTIL_Map promises its callers, without buckets, hashes or        *)
(* arrays: a sequence of <<key, value>> pairs, one for a key, in the order *)
(* in which the keys were last put.  A Put may fail for want of memory,    *)
(* and then leaves no pair with that key, or leaves the map alone.  It may *)
(* also lose pairs of other keys: the map is torn then, and nothing is     *)
(* promised of its pairs until it is cleared.                              *)
(***************************************************************************)
EXTENDS Integers, Sequences

CONSTANTS Key, Value
VARIABLES pairs, torn
vars == <<pairs, torn>>

(* s without the pair of the key, if it has one.                           *)
Has(s, key)   == \E i \in 1 .. Len(s) : s[i][1] = key
Place(s, key) == CHOOSE i \in 1 .. Len(s) : s[i][1] = key
Without(s, key) ==
  IF Has(s, key)
  THEN SubSeq(s, 1, Place(s, key) - 1) \o SubSeq(s, Place(s, key) + 1, Len(s))
  ELSE s

(* What may become of s by a put for the key, which succeeds or fails in   *)
(* one of two ways; what may become of any of ss by a put.                 *)
Attempts(s, key) ==
  LET rest == Without(s, key)
  IN  {s, rest} \cup {Append(rest, <<key, value>>) : value \in Value}
AfterPut(ss) == UNION {Attempts(s, key) : s \in ss, key \in Key}

Init == pairs = <<>> /\ torn = FALSE

Become(outcomes) == ~torn /\ torn' = FALSE /\ pairs' \in outcomes

Put    == Become(AfterPut({pairs}))
Remove == Become({Without(pairs, key) : key \in Key})

(* PutAll puts every pair of another map, one that has two here.           *)
PutAll == Become(AfterPut(AfterPut({pairs})))

Tear  == ~torn /\ torn' = TRUE /\ pairs' = <<>>
Clear == torn' = FALSE /\ pairs' = <<>>

Next == Clear \/ Put \/ Remove \/ PutAll \/ Tear

Spec == Init /\ [][Next]_vars
=============================================================================
