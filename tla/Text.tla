-------------------------------- MODULE Text --------------------------------
(***************************************************************************)
(* Strings and byte buffers in use: a client that calls the operations of  *)
(* one string (st.kind = "string") or one buffer ("bytes") in any order,   *)
(* allocations failing or not, and what the text functions then make of    *)
(* the contents.                                                           *)
(***************************************************************************)
EXTENDS Strings

CONSTANTS Char,            \* the characters
          Piece,           \* texts added, looked for or put in their place
          Digit,           \* characters of which some are hexadecimal digits
          Wide(_),         \* what a conversion makes of a character
          MaxText          \* bound on the length of the contents

VARIABLE st

vars == <<st>>

Init ==
  \/ \E cap \in 0 .. 1, content \in Piece \cup {NULL} :
       LET s == StringCreateInternal(cap, content, TRUE)
       IN  s # NULL /\ st = [kind |-> "string", s |-> s]
  \/ \E cap \in 0 .. 1 : st = [kind |-> "bytes", s |-> ByteBufferCreate(cap)]
  \/ st = [kind |-> "digits", s |-> ByteBufferCreate(1)]

(* Replace asks for one character more than the string it reads has: the   *)
(* capacity is bounded too.                                                *)
Fits(s)   == Len(s.data) <= MaxText /\ s.capacity <= 16
To(s)     == Fits(s) /\ st' = [st EXCEPT !.s = s]
\* What iconv makes of a text.
Widened(text) == FlattenSeq([i \in DOMAIN text |-> Wide(text[i])])
Become(s) == s # NULL /\ To(s)            \* the client goes on with a new string
Other(t)  == [data |-> t, capacity |-> Len(t) + 1]      \* another string

StringStep ==
  /\ st.kind = "string"
  /\ \E ok \in BOOLEAN :
       \/ \E c \in Char : To(AddChar(st.s, c, ok).s)
       \/ \E t \in Piece : \/ To(AddString(st.s, t, ok).s)
                           \/ To(AddVPrint(st.s, t, ok).s)
                           \/ \E at \in 0 .. MaxText :
                                \/ To(InsertString(st.s, t, at, ok).s)
                                \/ To(InsertAnother(st.s, at, Other(t), ok).s)
                           \/ To(AddAnother(st.s, Other(t), ok).s)
       \/ /\ 2 * Len(st.s.data) <= MaxText
          /\ \E stale \in [DOMAIN st.s.data -> Char] : To(AddSelf(st.s, stale, ok).s)
       \/ \E n \in 0 .. MaxText : To(SetSizeInternal(st.s, n, CHOOSE c \in Char : TRUE, ok))
  \/ /\ st.kind = "string"
     /\ \/ \E n \in 0 .. MaxText : \/ To(CutTailOff(st.s, n))
                                   \/ \E m \in 0 .. MaxText : Become(Substring(st.s, n, m, TRUE))
        \/ To(StringClear(st.s)) \/ To(SelfTrim(st.s))
        \/ To(SelfToLower(st.s)) \/ To(SelfToUpper(st.s))
        \/ Become(StringToLower(st.s, TRUE)) \/ Become(StringToUpper(st.s, TRUE))
        \/ Become(StringClone(st.s, TRUE))
        \/ \E needle \in Piece \ {<<>>}, alter \in Piece :
             Become(StringReplace(st.s, needle, alter, TRUE))
        \/ Become(CSConvConv(st.s, Widened(st.s.data), TRUE, TRUE))

BytesStep ==
  /\ st.kind = "bytes"
  /\ \/ \E c \in Char, at \in 0 .. MaxText, ok \in BOOLEAN :
          \/ To(AddByte(st.s, c, ok).s)
          \/ To(InsertByteAt(st.s, at, c, ok).s)
          \/ \E from \in 0 .. 1, n \in 0 .. 1 : To(AddBytesPart(st.s, <<c, c>>, from, n, ok).s)
          \/ To(AddBytes(st.s, <<c, c>>, ok).s)
          \/ To(ShrinkTo(st.s, at, c).s)
     \/ To(BufferClear(st.s))

DigitStep ==
  /\ st.kind = "digits"
  /\ To(BufferClear(st.s)) \/ \E c \in Digit : To(AddByte(st.s, c, TRUE).s)

Next == StringStep \/ BytesStep \/ DigitStep
Spec == Init /\ [][Next]_vars

----------------------------------------------------------------------------
RECURSIVE Joined(_, _)
Joined(parts, sep) ==
  IF Len(parts) = 1 THEN parts[1] ELSE parts[1] \o sep \o Joined(Tail(parts), sep)

(* The reference for trimming: the longest stretch that neither starts nor *)
(* ends with a space.                                                      *)
Trimmed(text) ==
  LET keep == {i \in DOMAIN text : text[i] \notin Spaces}
  IN  IF keep = {} THEN <<>>
      ELSE SubSeq(text, CHOOSE i \in keep : \A j \in keep : i <= j,
                        CHOOSE i \in keep : \A j \in keep : i >= j)

NoSpaces(text) == ToSet(text) \cap Spaces = {}

(* What the two implementations of trimming, splitting, tokens, Replace and*)
(* the conversion make of a text.                                          *)
TextLaws(s) ==
  LET text == s.data IN
  /\ StrTrim(text) = Trimmed(text) /\ SelfTrim(s).data = Trimmed(text)
  /\ \A needle \in Piece \ {<<>>} :
       LET parts == StringSplitInternal(text, needle)
           array == StringArrayCreateWith(parts)
       IN  /\ NoSpaces(text) => Joined(parts, needle) = text
           /\ \A i \in DOMAIN parts : parts[i] = Trimmed(parts[i])
           /\ StringArrayDestroy(array) = Reverse(parts)
           /\ StringArrayPrintTo(array, needle) = Joined(parts, needle)
           /\ \A alter \in Piece : NoSpaces(text) =>
                StringReplace(s, needle, alter, TRUE).data = Joined(parts, alter)
  /\ \A buflen \in 1 .. MaxText + 1, d \in Char :
       LET t == StrNextToken(buflen, text, {d})
       IN  /\ t.dest \o t.rest = text /\ d \notin ToSet(t.dest) /\ Len(t.dest) < buflen
           /\ t.rest # <<>> => t.rest[1] = d \/ Len(t.dest) = buflen - 1
  /\ StrSkipSpaces(text, Spaces) = StrLTrim(text)
  /\ LET there == CSConvConv(s, Widened(text), TRUE, TRUE)
     IN  there # NULL => Len(there.data) < there.capacity

(* A buffer never ends past its allocation (a string with its 0), however  *)
(* the calls before it failed; and the functions over a text obey their    *)
(* laws for every content the calls can produce (what a string appended to *)
(* itself holds is left open when it had to grow: AddSelf).  HexToBytes    *)
(* fails exactly on a character that is no digit, and else has one byte for*)
(* two of them.                                                            *)
TextSound ==
  CASE st.kind = "bytes"  -> Len(st.s.data) <= st.s.capacity
    [] st.kind = "string" -> Len(st.s.data) < st.s.capacity /\ TextLaws(st.s)
    [] st.kind = "digits" ->
         LET text == st.s.data
             r    == StringHexToBytes(text, Len(text))
             val(i) == HexOf(text[i])
         IN  IF \E i \in DOMAIN text : val(i) < 0 THEN r = -1
             ELSE /\ Len(r) = (Len(text) + 1) \div 2
                  /\ \A i \in DOMAIN r :
                       LET lo == Len(text) - 2 * (Len(r) - i)
                       IN  r[i] = val(lo) + IF lo > 1 THEN 16 * val(lo - 1) ELSE 0
=============================================================================
