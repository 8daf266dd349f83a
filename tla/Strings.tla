------------------------------- MODULE Strings -------------------------------
(***************************************************************************)
(* CMUTIL_String, CMUTIL_StringArray, CMUTIL_CSConv, CMUTIL_ByteBuffer and *)
(* the stand-alone text functions (strings.c).  A text is a sequence of    *)
(* characters; a string or byte buffer is the record of its text and the   *)
(* capacity of its allocation, which for a string includes the terminating *)
(* 0.  A call that fails returns the object unchanged with ret = -1 or     *)
(* NULL; ok says whether the allocator can serve the call.                 *)
(***************************************************************************)
EXTENDS Arrays

CONSTANTS Spaces,          \* the characters of SPACES
          UpperOf(_), LowerOf(_),   \* toupper and tolower
          HexOf(_)         \* value of a hexadecimal digit, -1 for another

Failed(s) == [s |-> s, ret |-> -1]
Min2(x, y) == IF x <= y THEN x ELSE y
Doubled(cap, reqsz) == LET up[c \in Nat] == IF c < reqsz THEN up[2 * c] ELSE c IN up[2 * cap]

----------------------------------------------------------------------------
(* Growing strings.                                                        *)
StringCreateInternal(initcapacity, content, ok) ==
  LET asked == IF initcapacity > 0 THEN initcapacity
               ELSE IF content = NULL THEN 0 ELSE Len(content)
      text  == IF content = NULL THEN <<>> ELSE content
  IN  IF ~ok \/ (initcapacity <= 0 /\ content = NULL) THEN NULL
      ELSE [data |-> text, capacity |-> IF asked + 1 < Len(text) + 1
                                        THEN Doubled(asked + 1, Len(text) + 1) ELSE asked + 1]

\* A wrong variant of CheckSize: no room for the terminating 0.
CheckSizeNoEnd(s, n, ok) ==
  LET reqsz == Len(s.data) + n
  IN  IF s.capacity >= reqsz THEN s.capacity
      ELSE IF ok THEN Doubled(s.capacity, reqsz) ELSE NULL

(* The capacity after making room for n more characters, NULL if Realloc   *)
(* was needed and failed.                                                  *)
CheckSize(s, n, ok) ==
  LET reqsz == Len(s.data) + n + 1
  IN  IF s.capacity >= reqsz THEN s.capacity
      ELSE IF ok THEN Doubled(s.capacity, reqsz) ELSE NULL

InsertText(s, text, at, ok) ==
  LET cap == CheckSize(s, Len(text), ok)
      new == SubSeq(s.data, 1, at) \o text \o SubSeq(s.data, at + 1, Len(s.data))
  IN  CASE text = <<>>                -> [s |-> s, ret |-> Len(s.data)]
        [] text # <<>> /\ cap = NULL  -> Failed(s)
        [] text # <<>> /\ cap # NULL  -> [s |-> [data |-> new, capacity |-> cap],
                                          ret |-> Len(new)]

AddNString(s, text, ok) ==
  IF text = NULL THEN Failed(s) ELSE InsertText(s, text, Len(s.data), ok)
AddString(s, text, ok)  == AddNString(s, text, ok)
AddChar(s, c, ok)       == InsertText(s, <<c>>, Len(s.data), ok)
AddVPrint(s, text, ok)  == IF ok THEN AddNString(s, text, ok) ELSE Failed(s)
AddAnother(s, other, ok) == IF other = NULL THEN Failed(s) ELSE AddNString(s, other.data, ok)

(* AddAnother of a string to itself takes the pointer to its text before   *)
(* it makes room: when the text has to move, what is copied is read from   *)
(* the freed block, which holds anything by then (stale: any characters of *)
(* the model; that a zero is among them, or that reading ends the process, *)
(* is left out).  InsertAnother of a string into itself does the same, and *)
(* its memcpy overlaps besides: undefined throughout, and not modelled.    *)
AddSelf(s, stale, ok) ==
  AddNString(s, IF CheckSize(s, Len(s.data), ok) = s.capacity THEN s.data ELSE stale, ok)

(* An index past the end fails even when there is nothing to insert.       *)
InsertNString(s, text, at, ok) ==
  IF text = NULL \/ at > Len(s.data) THEN Failed(s) ELSE InsertText(s, text, at, ok)
InsertString(s, text, at, ok)  == InsertNString(s, text, at, ok)
InsertVPrint(s, at, text, ok)  == IF ok THEN InsertNString(s, text, at, ok) ELSE Failed(s)
InsertAnother(s, at, other, ok) ==
  IF other = NULL THEN Failed(s) ELSE InsertNString(s, other.data, at, ok)

CutTailOff(s, length) ==
  [s EXCEPT !.data = IF Len(@) > length THEN SubSeq(@, 1, Len(@) - length) ELSE <<>>]
StringClear(s) == [s EXCEPT !.data = <<>>]

(* Substring and Clone ask for a capacity of at least 1; ToLower and       *)
(* ToUpper do not, and fail on the empty string.                           *)
Substring(s, offset, length, ok) ==
  LET len == Min2(length, Len(s.data) - offset)
      r   == StringCreateInternal(IF len > 0 THEN len ELSE 1, NULL, ok)
  IN  IF offset >= Len(s.data) \/ r = NULL THEN NULL
      ELSE [r EXCEPT !.data = SubSeq(s.data, offset + 1, offset + len)]
StringClone(s, ok) ==
  LET size == Len(s.data)
      r    == StringCreateInternal(IF size > 0 THEN size ELSE 1, NULL, ok)
  IN  IF r = NULL THEN NULL ELSE [r EXCEPT !.data = s.data]

SelfToLower(s) == [s EXCEPT !.data = [i \in DOMAIN @ |-> LowerOf(@[i])]]
SelfToUpper(s) == [s EXCEPT !.data = [i \in DOMAIN @ |-> UpperOf(@[i])]]
StringToLower(s, ok) ==
  LET r == StringCreateInternal(Len(s.data), NULL, ok)
  IN  IF r = NULL THEN NULL ELSE [r EXCEPT !.data = SelfToLower(s).data]
StringToUpper(s, ok) ==
  LET r == StringCreateInternal(Len(s.data), NULL, ok)
  IN  IF r = NULL THEN NULL ELSE [r EXCEPT !.data = SelfToUpper(s).data]

(* strstr: the index (from 1) of the first occurrence at or after i, 0 when*)
(* there is none.  The needle is not empty: with an empty one the loop of  *)
(* Replace never ends.                                                     *)
StrStr(text, needle, i) ==
  LET hits == {p \in i .. Len(text) - Len(needle) + 1 :
                 SubSeq(text, p, p + Len(needle) - 1) = needle}
  IN  IF hits = {} THEN 0 ELSE CHOOSE p \in hits : \A q \in hits : p <= q

StringReplace(s, needle, alter, ok) ==
  LET rest[prv \in Nat] ==
        LET cur == StrStr(s.data, needle, prv)
        IN  IF cur = 0 THEN SubSeq(s.data, prv, Len(s.data))
            ELSE SubSeq(s.data, prv, cur - 1) \o alter \o rest[cur + Len(needle)]
      r == StringCreateInternal(s.capacity, NULL, ok)
  IN  IF needle = NULL \/ alter = NULL \/ r = NULL THEN NULL
      ELSE AddNString(r, rest[1], TRUE).s

(* Trimming in place: from the right but never past the first character,   *)
(* then from the left.                                                     *)
StrRTrim(text) ==
  IF text = <<>> THEN text
  ELSE SubSeq(text, 1, CHOOSE n \in 1 .. Len(text) :
                         /\ n = 1 \/ text[n] \notin Spaces
                         /\ \A m \in n + 1 .. Len(text) : text[m] \in Spaces)
StrLTrim(text) ==
  SubSeq(text, 1 + CHOOSE n \in 0 .. Len(text) :
                     /\ n = Len(text) \/ text[n + 1] \notin Spaces
                     /\ \A m \in 1 .. n : text[m] \in Spaces, Len(text))
StrTrim(text) == StrLTrim(StrRTrim(text))

(* SelfTrim does the same, counting the length down along the way.         *)
SelfTrim(s) ==
  LET p[i \in Nat] == IF s.data[i] \in Spaces /\ i > 1 THEN p[i - 1] ELSE i
      right == p[Len(s.data)]
      q[i \in Nat] == IF i <= right /\ s.data[i] \in Spaces THEN q[i + 1] ELSE i
      left  == q[1]
      len   == right - (left - 1)
  IN  IF s.data = <<>> THEN s ELSE [s EXCEPT !.data = SubSeq(s.data, left, left + len - 1)]

(* Used by writers that fill the buffer themselves; `fill' is what the new *)
(* characters happen to be.                                                *)
SetSizeInternal(s, newsize, fill, ok) ==
  LET grown == newsize >= s.capacity
      text  == [i \in 1 .. newsize |-> IF i <= Len(s.data) THEN s.data[i] ELSE fill]
  IN  IF grown /\ ~ok THEN s
      ELSE [data |-> text, capacity |-> IF grown THEN newsize + 1 ELSE s.capacity]

----------------------------------------------------------------------------
(* Splitting: each token is trimmed, the last one too; an empty needle     *)
(* finds nothing.                                                          *)
StringSplitInternal(haystack, needle) ==
  LET from[p \in Nat] ==
        LET q == IF needle = <<>> THEN 0 ELSE StrStr(haystack, needle, p)
        IN  IF q = 0 THEN <<StrTrim(SubSeq(haystack, p, Len(haystack)))>>
            ELSE <<StrTrim(SubSeq(haystack, p, q - 1))>> \o from[q + Len(needle)]
  IN  IF haystack = NULL \/ needle = NULL THEN NULL ELSE from[1]

(* A token of at most buflen - 1 characters, and where the rest starts.    *)
StrNextToken(buflen, src, delim) ==
  LET stop == {n \in 0 .. Len(src) : n = Len(src) \/ src[n + 1] \in delim \/ n = buflen - 1}
      n    == CHOOSE n \in stop : \A m \in stop : n <= m
  IN  IF buflen = 0 \/ src = NULL THEN NULL
      ELSE [dest |-> SubSeq(src, 1, n), rest |-> SubSeq(src, n + 1, Len(src))]

StrSkipSpaces(line, spaces) ==
  LET stop == {n \in 0 .. Len(line) : n = Len(line) \/ line[n + 1] \notin spaces}
  IN  SubSeq(line, 1 + CHOOSE n \in stop : \A m \in stop : n <= m, Len(line))

(* The bytes of the first len characters of src; past the end of src the   *)
(* bytes are 255.  -1 when a character is no digit: the 0 that ends src is *)
(* none, so that an odd number of digits left fails.                       *)
StringHexToBytes(src, len) ==
  LET digit(i) == IF i <= Len(src) THEN HexOf(src[i]) ELSE -1
      odd == len % 2
      bytes[i \in Nat] ==                  \* the bytes from digit i on
        IF i > len THEN <<>>
        ELSE IF i > Len(src) THEN <<255>> \o bytes[i + 2]
        ELSE <<IF digit(i) < 0 \/ digit(i + 1) < 0 THEN -1
               ELSE 16 * digit(i) + digit(i + 1)>> \o bytes[i + 2]
      all == IF odd = 1 THEN <<digit(1)>> \o bytes[2] ELSE bytes[1]
  IN  IF -1 \in ToSet(all) THEN -1 ELSE all

(* Converting a character set: iconv, external, makes out of the text,     *)
(* which must fit in twice the length.  An empty string converts to NULL.  *)
CSConvConv(s, out, known, ok) ==
  LET r == StringCreateInternal(2 * Len(s.data), NULL, ok)
  IN  IF s = NULL \/ ~known \/ s.data = <<>> \/ r = NULL \/ Len(out) > 2 * Len(s.data)
      THEN NULL ELSE [r EXCEPT !.data = out]

----------------------------------------------------------------------------
(* Arrays of strings (texts here).  An index out of range destroys the     *)
(* string made for the call: lost says so.                                 *)
StringArrayCreate(cap) == ArrayCreateInternal(cap, FALSE, FALSE)
StringArrayAdd(a, text, ok) == ArrayAdd(a, text, FALSE, ok, <<>>)
StringArrayInsertAt(a, text, index, ok) ==
  LET r == ArrayInsertAt(a, text, index, ok) IN [a |-> r.a, ret |-> r.ret # NULL]
StringArrayInsertAtCString(a, text, index, ok) ==
  LET r == StringArrayInsertAt(a, text, index, ok)
  IN  [a |-> r.a, ret |-> r.ret, destroyed |-> ~r.ret]
StringArraySetAtCString(a, text, index) ==
  LET r == ArraySetAt(a, text, index)
  IN  [a |-> r.a, ret |-> r.ret, destroyed |-> r.ret = NULL]
StringArrayRemoveAt(a, index) == ArrayRemoveAt(a, index)
StringArrayGetCString(a, index) == ArrayGetAt(a, index)
StringArrayCreateWith(texts) ==
  FoldLeft(LAMBDA a, t : StringArrayAdd(a, t, TRUE).a, StringArrayCreate(5), texts)
(* Destroy pops until nothing is left and destroys each string popped.     *)
StringArrayDestroy(a) ==
  LET pop[n \in Nat] == IF n = 0 THEN <<>> ELSE <<a.data[n]>> \o pop[n - 1] IN pop[Size(a)]
StringArrayPrintTo(a, sep) ==
  FoldLeft(LAMBDA out, t : IF out = NULL THEN t ELSE out \o sep \o t, NULL, a.data)

----------------------------------------------------------------------------
(* Byte buffers: no terminating 0, and adding nothing is an error.         *)
ByteBufferCreate(initcapacity) == [data |-> <<>>, capacity |-> initcapacity]
BufferCheckSize(b, n, ok) ==
  LET reqsz == Len(b.data) + n
  IN  IF b.capacity >= reqsz THEN b.capacity ELSE IF ~ok THEN NULL
      ELSE IF b.capacity > 0 THEN Doubled(b.capacity, reqsz) ELSE Doubled(8, reqsz)

InsertBytesAt(b, index, bytes, ok) ==
  LET cap == BufferCheckSize(b, Len(bytes), ok)
      new == SubSeq(b.data, 1, index) \o bytes \o SubSeq(b.data, index + 1, Len(b.data))
  IN  IF bytes = <<>> \/ index > Len(b.data) \/ cap = NULL THEN [s |-> b, ret |-> NULL]
      ELSE [s |-> [data |-> new, capacity |-> cap], ret |-> TRUE]
InsertByteAt(b, index, byte, ok) == InsertBytesAt(b, index, <<byte>>, ok)
AddBytesPart(b, bytes, offset, length, ok) ==
  InsertBytesAt(b, Len(b.data), SubSeq(bytes, offset + 1, offset + length), ok)
AddBytes(b, bytes, ok) == AddBytesPart(b, bytes, 0, Len(bytes), ok)
AddByte(b, byte, ok)   == InsertBytesAt(b, Len(b.data), <<byte>>, ok)
BufferGetAt(b, index)  == IF index >= Len(b.data) THEN -1 ELSE b.data[index + 1]
(* Any size up to the capacity is accepted, a larger one than the buffer's *)
(* too: then bytes nobody wrote (fill) are part of it.                     *)
ShrinkTo(b, size, fill) ==
  IF b.capacity < size THEN [s |-> b, ret |-> FALSE]
  ELSE [s   |-> [b EXCEPT !.data = [i \in 1 .. size |-> IF i <= Len(@) THEN @[i] ELSE fill]],
        ret |-> TRUE]
BufferClear(b) == [b EXCEPT !.data = <<>>]
=============================================================================
