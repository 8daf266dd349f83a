-------------------------------- MODULE Json --------------------------------
(***************************************************************************)
(* CMUTIL_Json (nanojson.c): values, objects and arrays, their printed form*)
(* and the parser.  A text is a sequence of atoms: the punctuation of JSON,*)
(* the letters of escapes, and words such as "true" or "1.5" that the code *)
(* compares or converts as a whole.  An object keeps its map as a sequence *)
(* of <<key, json>> pairs (what OrderedMap promises) and its keys array.   *)
(***************************************************************************)
EXTENDS Integers, Sequences, SequencesExt

CONSTANTS NULL,
          MaxDepth,        \* CMUTIL_JSON_MAX_DEPTH
          CodeOf(_),       \* code unit of an atom of four hexadecimal digits, or -1
          CharOf(_),       \* the character of a code point
          IsPoint(_),      \* does the atom hold a decimal point?
          IsNumber(_),     \* can the atom go on a number?
          IsExponent(_),   \* is it the exponent of one?
          Printed(_)       \* what %.17g prints of the number that strtod reads from atoms

Spaces == {" ", "tab", "lf", "cr"}
Delims == {":", ",", "[", "]", "{", "}"}
Letters == [lf |-> "n", cr |-> "r", tab |-> "t", bs |-> "b", ff |-> "f",
            quote |-> "quote", bslash |-> "bslash"]

----------------------------------------------------------------------------
(* Values.  SetDouble gets the number as %.17g prints it: a whole one has  *)
(* no point, a large one may have an exponent and no point, and an infinite*)
(* one is inf.                                                             *)
ScalarValue(type, data) == [t |-> "value", type |-> type, data |-> data]
JsonValueCreateInternal == ScalarValue("long", <<>>)
SetLong(digits)   == ScalarValue("long", digits)
SetDouble(digits) == ScalarValue("double", digits)
SetString(text)   == ScalarValue("string", text)
SetBoolean(b)     == ScalarValue("boolean", IF b THEN <<"true">> ELSE <<"false">>)
SetNull           == ScalarValue("null", <<"null">>)

(* strchr finds the terminating 0, too: an empty value is true.            *)
ValueGetBoolean(v) == v.data = <<>> \/ v.data[1] \in {"1", "t", "T", "y", "Y", "true"}

(* Objects.  The item that a Put replaces is destroyed and the key stays   *)
(* where it is in keys; in the map the pair moves to the end.              *)
JsonObjectCreateInternal == [t |-> "object", pairs |-> <<>>, keys |-> <<>>]
Without(pairs, key) == SelectSeq(pairs, LAMBDA p : p[1] # key)
ObjectGetKeys(o)    == [i \in DOMAIN o.pairs |-> o.pairs[i][1]]
ObjectGet(o, key) ==
  LET at == {i \in DOMAIN o.pairs : o.pairs[i][1] = key}
  IN  IF at = {} THEN NULL ELSE o.pairs[CHOOSE i \in at : TRUE][2]

ObjectPut(o, key, json) ==
  [o EXCEPT !.pairs = Append(Without(@, key), <<key, json>>),
            !.keys  = IF ObjectGet(o, key) = NULL THEN Append(@, key) ELSE @]

ObjectRemove(o, key) ==
  LET at == {i \in DOMAIN o.keys : o.keys[i] = key}
  IN  [o   |-> [o EXCEPT !.pairs = Without(@, key),
                         !.keys  = IF at = {} THEN @
                                   ELSE RemoveAt(@, CHOOSE i \in at : \A j \in at : i <= j)],
       ret |-> ObjectGet(o, key)]

(* The typed accessors answer only for values; what the code returns       *)
(* otherwise is Default (0, CMFalse or NULL).                              *)
ValueOf(json, Get(_), default) ==
  IF json = NULL THEN default ELSE IF json.t # "value" THEN default ELSE Get(json)
ObjectGetData(o, key)    == ValueOf(ObjectGet(o, key), LAMBDA v : v.data, NULL)
ObjectGetBoolean(o, key) == ValueOf(ObjectGet(o, key), ValueGetBoolean, FALSE)
ObjectPutValue(o, key, value) == ObjectPut(o, key, value)
ObjectPutNull(o, key)         == ObjectPut(o, key, SetNull)
ObjectDelete(o, key)          == ObjectRemove(o, key).o

(* Arrays.  Delete destroys what Remove returns and so needs an index in   *)
(* range.                                                                  *)
JsonArrayCreateInternal == [t |-> "array", items |-> <<>>]
ArrayGet(a, index) == IF index < Len(a.items) THEN a.items[index + 1] ELSE NULL
ArrayGetData(a, index)    == ValueOf(ArrayGet(a, index), LAMBDA v : v.data, NULL)
ArrayGetBoolean(a, index) == ValueOf(ArrayGet(a, index), ValueGetBoolean, FALSE)
ArrayAdd(a, json)         == [a EXCEPT !.items = Append(@, json)]
ArrayAddValue(a, value)   == ArrayAdd(a, value)
ArrayAddNull(a)           == ArrayAdd(a, SetNull)
ArrayRemove(a, index) ==
  IF index >= Len(a.items) THEN [a |-> a, ret |-> NULL]
  ELSE [a |-> [a EXCEPT !.items = RemoveAt(@, index + 1)], ret |-> a.items[index + 1]]
ArrayDelete(a, index) == ArrayRemove(a, index).a

----------------------------------------------------------------------------
(* Printing.                                                               *)
StringToStr(data) ==
  LET esc(c) == IF c \in DOMAIN Letters THEN <<"bslash", Letters[c]>>
                ELSE IF c = "ctl" THEN <<"bslash", "u", "0001">> ELSE <<c>>
  IN  <<"quote">> \o FlattenSeq([i \in DOMAIN data |-> esc(data[i])]) \o <<"quote">>

JsonIndent(depth) == [i \in 1 .. depth |-> " "]
Listed(parts, sep) ==
  FlattenSeq([i \in DOMAIN parts |-> IF i = 1 THEN parts[1] ELSE sep \o parts[i]])

RECURSIVE ToStringInternal(_, _, _)
ObjectToString(o, pretty, depth) ==
  LET line(d) == IF pretty THEN <<"lf">> \o JsonIndent(d) ELSE <<>>
      pair(p) == line(depth + 1) \o StringToStr(p[1])
                 \o (IF pretty THEN <<":", " ">> ELSE <<":">>)
                 \o ToStringInternal(p[2], pretty, depth + 1)
  IN  <<"{">> \o Listed([i \in DOMAIN o.pairs |-> pair(o.pairs[i])], <<",">>)
      \o (IF o.pairs = <<>> THEN <<>> ELSE line(depth)) \o <<"}">>
ArrayToString(a, pretty, depth) ==
  <<"[">> \o Listed([i \in DOMAIN a.items |-> ToStringInternal(a.items[i], pretty, depth + 1)],
                    IF pretty THEN <<",", " ">> ELSE <<",">>) \o <<"]">>
ValueToString(v) == IF v.type = "string" THEN StringToStr(v.data) ELSE v.data
ToStringInternal(json, pretty, depth) ==
  CASE json.t = "value"  -> ValueToString(json)
    [] json.t = "object" -> ObjectToString(json, pretty, depth)
    [] json.t = "array"  -> ArrayToString(json, pretty, depth)
JsonToString(json, pretty) == ToStringInternal(json, pretty, 0)

(* Cloning puts or adds a clone of every element to a new container.       *)
RECURSIVE Clone(_)
ObjectClone(o) ==
  FoldLeft(LAMBDA r, p : ObjectPut(r, p[1], Clone(p[2])), JsonObjectCreateInternal, o.pairs)
ArrayClone(a) ==
  FoldLeft(LAMBDA r, x : ArrayAdd(r, Clone(x)), JsonArrayCreateInternal, a.items)
Clone(json) ==
  CASE json.t = "value"  -> json
    [] json.t = "object" -> ObjectClone(json)
    [] json.t = "array"  -> ArrayClone(json)

----------------------------------------------------------------------------
(* UTF-8 of a code point, as bytes.                                        *)
JsonAppendUTF8(cp) ==
  LET low(n) == 128 + ((cp \div n) % 64)
  IN  CASE cp < 128   -> <<cp>>
        [] cp \in 128 .. 2047     -> <<192 + (cp \div 64), low(1)>>
        [] cp \in 2048 .. 65535   -> <<224 + (cp \div 4096), low(64), low(1)>>
        [] cp > 65535 -> <<240 + (cp \div 262144), low(4096), low(64), low(1)>>

(* Parsing.  p is the position of the next atom; past the end is remain =  *)
(* 0.  A parse that fails has val = NULL.                                  *)
More(text, p) == p <= Len(text)
At(text, p)   == IF More(text, p) THEN text[p] ELSE "end"
Result(val, p) == [val |-> val, p |-> p]

(* White space, line comments and block comments; an unclosed comment runs *)
(* to the end.                                                             *)
RECURSIVE SkipSpaces(_, _)
SkipSpaces(text, p) ==
  LET from(S) == {q \in S : q <= Len(text)}
      lineend == from({q \in p + 2 .. Len(text) : text[q] \in {"lf", "cr"}})
      close   == from({q \in p + 2 .. Len(text) : text[q] = "*" /\ At(text, q + 1) = "/"})
      first(S) == IF S = {} THEN Len(text) + 1 ELSE CHOOSE q \in S : \A r \in S : q <= r
  IN  CASE At(text, p) \in Spaces -> SkipSpaces(text, p + 1)
        [] At(text, p) = "/" /\ At(text, p + 1) = "/" -> SkipSpaces(text, first(lineend))
        [] At(text, p) = "/" /\ At(text, p + 1) = "*" ->
             SkipSpaces(text, IF close = {} THEN Len(text) + 1 ELSE first(close) + 2)
        [] OTHER -> p

(* The escape whose backslash is at p: its character and the last position *)
(* it takes.  A high surrogate needs the escape of a low one after it.     *)
ParseEscape(text, p) ==
  LET c  == At(text, p + 1)
      hi == CodeOf(At(text, p + 2))
      lo == CodeOf(At(text, p + 5))
      high == hi \in 55296 .. 56319
  IN  CASE c = "end" -> Result(NULL, p)
        [] c \in {"n", "r", "t", "b", "f"} ->
             Result(CHOOSE x \in DOMAIN Letters : Letters[x] = c, p + 1)
        [] c = "u" /\ (hi < 0 \/ hi \in 56320 .. 57343) -> Result(NULL, p)
        [] c = "u" /\ high ->
             IF /\ At(text, p + 3) = "bslash" /\ At(text, p + 4) = "u"
                /\ lo \in 56320 .. 57343
             THEN Result(CharOf(65536 + (hi - 55296) * 1024 + (lo - 56320)), p + 5)
             ELSE Result(NULL, p)
        [] c = "u" /\ hi >= 0 /\ ~high /\ hi \notin 56320 .. 57343 -> Result(CharOf(hi), p + 2)
        [] OTHER -> Result(c, p + 1)

(* A quoted string up to its quote, or bare text up to a delimiter.  The   *)
(* end of the text ends either.                                            *)
ReadString(text, start, quoted) ==
  LET put(c, r) == IF r.val = NULL THEN r ELSE Result(<<c>> \o r.val, r.p)
      read[p \in Nat] ==
        LET escaped(e) == IF e.val = NULL THEN Result(NULL, p) ELSE put(e.val, read[e.p + 1])
        IN  CASE ~More(text, p)                    -> Result(<<>>, p)
              [] At(text, p) = "bslash"            -> escaped(ParseEscape(text, p))
              [] quoted /\ At(text, p) = "quote"   -> Result(<<>>, p + 1)
              [] ~quoted /\ At(text, p) \in Delims -> Result(<<>>, p)
              [] OTHER -> put(text[p], read[p + 1])
  IN  IF ~More(text, start) THEN Result(NULL, start) @@ [const |-> FALSE]
      ELSE read[IF quoted THEN start + 1 ELSE start] @@ [const |-> ~quoted]
StringAt(text, start)  == ReadString(text, start, At(text, start) = "quote")
ParseString(text, p)   == StringAt(text, SkipSpaces(text, p))

(* Bare text: a constant, else a number read from its front, a double if   *)
(* there is a point anywhere (strtod) and a long otherwise (strtoll, which *)
(* stops at an exponent); anything after the number is ignored.            *)
CString(s) == SubSeq(s, 1, CHOOSE n \in 0 .. Len(s) : /\ n = Len(s) \/ s[n + 1] = "nul"
                                                      /\ \A m \in 1 .. n : s[m] # "nul")
Trim(s) ==
  LET keep == {i \in DOMAIN s : s[i] \notin Spaces}
  IN  IF keep = {} THEN <<>>
      ELSE SubSeq(s, CHOOSE i \in keep : \A j \in keep : i <= j,
                     CHOOSE i \in keep : \A j \in keep : i >= j)
NumberPrefix(s) ==
  LET point(n) == \E i \in 1 .. n : IsPoint(s[i])
      ok(n) == /\ \A i \in 1 .. n : IsNumber(s[i])
               /\ \A i, j \in 1 .. n : IsPoint(s[i]) /\ IsPoint(s[j]) => i = j
  IN  SubSeq(s, 1, CHOOSE n \in 0 .. Len(s) : ok(n) /\ (n = Len(s) \/ ~ok(n + 1)))

DoublePrefix(s, num) ==
  LET n == Len(num) + 1
  IN  IF num # <<>> THEN IF n <= Len(s) /\ IsExponent(s[n]) THEN SubSeq(s, 1, n) ELSE num
      ELSE IF s # <<>> /\ s[1] = "inf" THEN <<"inf">> ELSE <<>>
NumberOf(s, num) ==
  LET point == \E i \in DOMAIN s : IsPoint(s[i])
      read  == IF point THEN DoublePrefix(s, num) ELSE num
  IN  IF read = <<>> THEN NULL ELSE IF point THEN SetDouble(Printed(read)) ELSE SetLong(read)
Constant(s) ==
  CASE s \in {<<"true">>, <<"false">>} -> SetBoolean(s = <<"true">>)
    [] s = <<"null">> -> SetNull
    [] OTHER -> NumberOf(s, NumberPrefix(s))
ParseConst(raw) == Constant(CString(Trim(raw)))

ValueFrom(s) ==
  CASE s.val = NULL             -> Result(NULL, s.p)
    [] s.val # NULL /\ s.const  -> Result(ParseConst(s.val), s.p)
    [] s.val # NULL /\ ~s.const -> Result(SetString(CString(s.val)), s.p)
ParseValue(text, p) == ValueFrom(ParseString(text, p))

RECURSIVE ParseBase(_, _, _), ParseObjectFrom(_, _, _, _), ParseArrayFrom(_, _, _, _)
(* The members of an object from p on.  Running out of text right after a  *)
(* brace or a comma ends the object and counts as success.                 *)
MemberEnd(text, next, depth, o) ==
  CASE At(text, next) = "}" -> Result(o, next + 1)
    [] At(text, next) = "," -> ParseObjectFrom(text, next + 1, depth, o)
    [] OTHER                -> Result(NULL, next)
MemberValue(text, key, value, depth, o) ==
  IF value.val = NULL THEN Result(NULL, value.p)
  ELSE MemberEnd(text, SkipSpaces(text, value.p), depth, ObjectPut(o, key, value.val))
MemberColon(text, name, colon, depth, o) ==
  IF name.val = NULL \/ At(text, colon) # ":" THEN Result(NULL, colon)
  ELSE MemberValue(text, CString(name.val), ParseBase(text, colon + 1, depth), depth, o)
MemberName(text, name, depth, o) ==
  MemberColon(text, name, SkipSpaces(text, name.p), depth, o)
Member(text, q, depth, o) ==
  CASE ~More(text, q)       -> Result(NULL, q)
    [] At(text, q) = "}"    -> Result(o, q + 1)
    [] OTHER                -> MemberName(text, ParseString(text, q), depth, o)
ParseObjectFrom(text, p, depth, o) ==
  IF ~More(text, p) THEN Result(o, p) ELSE Member(text, SkipSpaces(text, p), depth, o)
ParseObject(text, p, depth) == ParseObjectFrom(text, p + 1, depth, JsonObjectCreateInternal)

ItemEnd(text, next, depth, a) ==
  CASE At(text, next) = "]" -> Result(a, next + 1)
    [] At(text, next) = "," -> ParseArrayFrom(text, next + 1, depth, a)
    [] OTHER                -> Result(NULL, next)
ItemValue(text, item, depth, a) ==
  IF item.val = NULL THEN Result(NULL, item.p)
  ELSE ItemEnd(text, SkipSpaces(text, item.p), depth, ArrayAdd(a, item.val))
ArrayItem(text, q, depth, a) ==
  CASE ~More(text, q)       -> Result(NULL, q)
    [] At(text, q) = "]"    -> Result(a, q + 1)
    [] OTHER                -> ItemValue(text, ParseBase(text, q, depth), depth, a)
ParseArrayFrom(text, p, depth, a) ==
  IF ~More(text, p) THEN Result(a, p) ELSE ArrayItem(text, SkipSpaces(text, p), depth, a)
ParseArray(text, p, depth) == ParseArrayFrom(text, p + 1, depth, JsonArrayCreateInternal)

\* A wrong variant of ParseAt: one level too many.
ParseOneDeeper(text, q, depth) ==
  IF depth > MaxDepth \/ ~More(text, q) THEN Result(NULL, q)
  ELSE CASE text[q] = "{" -> ParseObject(text, q, depth + 1)
         [] text[q] = "[" -> ParseArray(text, q, depth + 1)
         [] OTHER         -> ParseValue(text, q)

(* depth counts the values being parsed around this one.                   *)
ParseAt(text, q, depth) ==
  IF depth >= MaxDepth \/ ~More(text, q) THEN Result(NULL, q)
  ELSE CASE text[q] = "{" -> ParseObject(text, q, depth + 1)
         [] text[q] = "[" -> ParseArray(text, q, depth + 1)
         [] OTHER         -> ParseValue(text, q)
ParseBase(text, p, depth) == ParseAt(text, SkipSpaces(text, p), depth)
(* What follows the first value is not looked at.                          *)
JsonParse(text) == ParseBase(text, 1, 0).val
=============================================================================
