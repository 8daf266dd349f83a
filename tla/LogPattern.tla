----------------------------- MODULE LogPattern -----------------------------
(***************************************************************************)
(* The pattern of a log appender (logger.c): how it is parsed into items   *)
(* and what each item writes of a log event.  A text is a sequence of      *)
(* atoms, a letter sequence that names a conversion being one of them.     *)
(* strftime is the identity on a format without %Q and %q.                 *)
(***************************************************************************)
EXTENDS Strings, FiniteSets

CONSTANTS Piece,        \* what patterns are put together from
          LogEvent,     \* events that are logged
          EnvOf(_),     \* getenv, NULL for a name that is not set
          ProcessId,    \* the digits of GETPID()
          MaxPieces     \* bound on the pieces of a pattern

TypeOf(token) ==
  LET Is(names) == token \in {<<name>> : name \in names}
  IN  CASE Is({"d", "date"})           -> "DateTime"   [] Is({"c", "logger"})         -> "LoggerName"
        [] Is({"t", "tid", "thread"})  -> "ThreadId"   [] Is({"P", "pid", "process"}) -> "ProcessId"
        [] Is({"F", "file"})           -> "FileName"   [] Is({"L", "line"})           -> "LineNumber"
        [] Is({"p", "level"})          -> "LogLevel"   [] Is({"m", "msg", "message"}) -> "Message"
        [] Is({"e", "env", "environment"}) -> "Environment" [] Is({"ex", "s", "stack"}) -> "Stack"
        [] Is({"n"}) -> "LineSeparator" [] OTHER -> NULL
DateFormat(name) ==
  CASE name = <<"DEFAULT">> -> <<"%F", " ", "%T", ".", "%Q">>
    [] name = <<"ISO8601">> -> <<"%F", "T", "%T", ".", "%Q">>
    [] name = <<"UNIX">>    -> <<"%s", "%Q">>
    [] OTHER -> NULL
Level == {<<"TRACE">>, <<"I", "N">>}   \* two of g_cmutil_log_levels
CRLF  == <<"\n">>

Digits  == <<"0", "1", "2", "3", "4", "5", "6", "7", "8", "9">>
Digit   == ToSet(Digits)
Delims  == {" ", "{", "}", "[", "]", ":", ",", ".", "%", "(", ")", "-", "+", "=", "/"}
(* strtol and atoi: of the digits at the start.                            *)
Number(s) ==
  LET n[i \in 0 .. Len(s)] ==
        IF i = 0 THEN 0 ELSE 10 * n[i - 1] + (CHOOSE d \in 0 .. 9 : Digits[d + 1] = s[i])
  IN  n[CHOOSE i \in 0 .. Len(s) : /\ \A j \in 1 .. i : s[j] \in Digit
                                   /\ i = Len(s) \/ s[i + 1] \notin Digit]
Upto(s, c)  == CHOOSE i \in 0 .. Len(s) : /\ \A j \in 1 .. i : s[j] # c
                                          /\ i = Len(s) \/ s[i + 1] = c
From(s, i)  == SubSeq(s, i, Len(s))
Fill(c, n)  == [i \in 1 .. n |-> c]
Max2(x, y)  == IF x >= y THEN x ELSE y

----------------------------------------------------------------------------
(* Items.                                                                  *)
ItemCreate(type, data) ==
  [type |-> type, data |-> data, precision |-> <<>>, levels |-> NULL, length |-> 0,
   limit |-> -1, padleft |-> FALSE, hasext |-> FALSE, zero |-> FALSE]
ItemString(text) == ItemCreate("String", text)

(* The quotes around a value.  A value of less than two characters that is *)
(* empty or starts with one has no such reading.                           *)
LogTokenPillOff(src) ==
  IF src # <<>> /\ src[1] \notin {"'"} THEN src
  ELSE IF Len(src) < 2 THEN NULL ELSE SubSeq(src, 2, Len(src) - 1)

(* The replacements of the level names: later ones win, but those of       *)
(* length and lowerCase only fill in what is not there yet.                *)
LogLevelParse(extra) ==
  LET short(map, n) ==
        [l \in Level |-> IF map[l] = NULL /\ n > 0 THEN Substring([data |-> l], 0, n, TRUE).data
                         ELSE map[l]]
      lower(map) ==
        [l \in Level |-> IF map[l] # NULL THEN map[l]
                         ELSE StringToLower([data |-> l, capacity |-> Len(l) + 1], TRUE).data]
      set(map, arr) ==
        IF Len(arr) # 2 THEN map
        ELSE CASE arr[1] = <<"length">>    -> short(map, Number(arr[2]))
               [] arr[1] = <<"lowerCase">> -> lower(map)
               [] OTHER -> [l \in Level |-> IF l = arr[1] THEN LogTokenPillOff(arr[2]) ELSE map[l]]
      put(map, arg) == set(map, StringSplitInternal(arg, <<"=">>))
  IN  FoldLeft(put, [l \in Level |-> NULL], StringSplitInternal(extra, <<",">>))

(* The format between two milliseconds is an item of its own unless empty. *)
DateParts(parts) ==
  LET item(i) == (IF parts[i] = <<>> THEN <<>> ELSE <<ItemCreate("DateTime", parts[i])>>)
                 \o IF i < Len(parts) THEN <<ItemCreate("Millisec", NULL)>> ELSE <<>>
  IN  FlattenSeq([i \in DOMAIN parts |-> item(i)])
DateItems(fmt) ==
  LET milli == IF "%q" \in ToSet(fmt) THEN "%q" ELSE "%Q"
  IN  IF milli \in ToSet(fmt) THEN DateParts(StringSplitInternal(fmt, <<milli>>))
      ELSE <<ItemCreate("DateTime", fmt)>>

(* {n} keeps the last n components, {n.} shortens all but the last to n.   *)
Precision(ext) ==
  LET dot == Upto(ext, ".")
      more == Cardinality({i \in DOMAIN ext : ext[i] = "."})
  IN  <<Number(SubSeq(ext, 1, dot))>> \o Fill(0, Min2(more, 9))

(* printf of a text with the width of an item; a "-" pads on the left.     *)
Printf(text, length, padleft, zero) ==
  LET pad == Fill(IF zero THEN "0" ELSE " ", Max2(0, length - Len(text)))
  IN  IF padleft \/ zero THEN pad \o text ELSE text \o pad

(* What is between a "%" and the name of the conversion.                   *)
Spec0(s) ==
  LET sign  == s # <<>> /\ s[1] \in {"+", "-"}
      t     == IF sign THEN Tail(s) ELSE s
      n     == CHOOSE i \in 0 .. Len(t) : /\ \A j \in 1 .. i : t[j] \in Digit \cup {"."}
                                          /\ i = Len(t) \/ t[i + 1] \notin Digit \cup {"."}
      width == SubSeq(t, 1, Upto(SubSeq(t, 1, n), "."))
      some  == s # <<>> /\ s[1] \in Digit \cup {"+", "-"}
  IN  IF ~some THEN [padleft |-> FALSE, length |-> 0, limit |-> -1, zero |-> FALSE, rest |-> s]
      ELSE [padleft |-> s[1] = "-", length |-> Number(width),
            limit |-> IF Len(width) < n THEN Number(SubSeq(t, Len(width) + 2, n)) ELSE -1,
            zero |-> width # <<>> /\ width[1] = "0", rest |-> From(t, n + 1)]

(* The items of a conversion of this type with ext in its braces, or NULL  *)
(* for no braces; NULL when the conversion is not understood.              *)
ItemsOf(type, ext, spec) ==
  LET with(item) == [item EXCEPT !.length = spec.length, !.limit = spec.limit,
                       !.padleft = spec.padleft, !.hasext = ext # NULL, !.zero = spec.zero]
      text(s) == <<with(ItemString(s))>>
      env == IF ext = NULL \/ EnvOf(ext) = NULL THEN <<>> ELSE EnvOf(ext)
      date(fmt) == IF fmt = NULL THEN NULL ELSE DateItems(fmt)
  IN  CASE type = "DateTime" ->
             date(CASE ext = NULL -> DateFormat(<<"DEFAULT">>)
                    [] ext # NULL /\ {"%", "%F", "%T", "%Q", "%q"} \cap ToSet(ext) = {} -> DateFormat(ext)
                    [] OTHER -> ext)
        [] type = "LoggerName" ->
             <<[with(ItemCreate(type, NULL)) EXCEPT !.precision = IF ext = NULL THEN <<>> ELSE Precision(ext)]>>
        [] type = "LogLevel" ->
             <<[with(ItemCreate(type, NULL)) EXCEPT !.levels = IF ext = NULL THEN NULL ELSE LogLevelParse(ext)]>>
        [] type = "Stack" ->
             <<[with(ItemCreate(type, NULL)) EXCEPT !.precision = IF ext = NULL THEN <<>> ELSE <<Number(ext)>>]>>
        [] type = "ProcessId"     -> text(Printf(ProcessId, spec.length, spec.padleft, spec.zero))
        [] type = "Environment"   ->
             IF ext = NULL THEN <<>> ELSE text(Printf(env, spec.length, spec.padleft, FALSE))
        [] type = "LineSeparator" -> text(CRLF)
        [] type \in {"ThreadId", "FileName", "LineNumber", "Message"} -> <<with(ItemCreate(type, NULL))>>

(* The items of a pattern, NULL when it is refused.  The text after the    *)
(* last conversion is dropped.                                             *)
RECURSIVE LogPatternParse(_)
And(head, now, more) == IF now = NULL \/ more = NULL THEN NULL ELSE head \o now \o more
Braced(head, type, name, close, spec) ==
  IF close = Len(name.rest) THEN NULL
  ELSE And(head, ItemsOf(type, SubSeq(name.rest, 2, close), spec),
           LogPatternParse(From(name.rest, close + 2)))
Typed(head, type, name, spec) ==
  IF type = NULL THEN NULL
  ELSE IF name.rest # <<>> /\ name.rest[1] = "{"
       THEN Braced(head, type, name, Upto(name.rest, "}"), spec)
       ELSE And(head, ItemsOf(type, NULL, spec), LogPatternParse(name.rest))
Called(head, name, spec)  == Typed(head, TypeOf(name.dest), name, spec)
Conversion(head, spec)    == Called(head, StrNextToken(20, spec.rest, Delims), spec)
ParseFrom(p, k, head) ==
  CASE k = Len(p) -> <<>>
    [] k + 1 < Len(p) /\ p[k + 2] = "%" ->
         And(head, <<ItemString(<<"%">>)>>, LogPatternParse(From(p, k + 3)))
    [] OTHER -> Conversion(head, Spec0(From(p, k + 2)))
FirstOf(p, k) == ParseFrom(p, k, IF k > 0 THEN <<ItemString(SubSeq(p, 1, k))>> ELSE <<>>)
LogPatternParse(p) == FirstOf(p, Upto(p, "%"))

----------------------------------------------------------------------------
(* What the items write.                                                   *)
AppendPadding(item, data) ==
  IF item.length > Len(data) THEN Printf(data, item.length, item.padleft, FALSE)
  ELSE IF item.limit > 0 /\ item.limit < Len(data)
       THEN IF item.padleft THEN From(data, Len(data) - item.limit + 1) ELSE SubSeq(data, 1, item.limit)
       ELSE data

Dotted(parts) == FlattenSeq([i \in DOMAIN parts |-> IF i = Len(parts) THEN parts[i] ELSE parts[i] \o <<".">>])

LoggerName(item, path) ==
  LET n == Len(path)
      prec == item.precision
  IN  CASE Len(prec) = 1 -> Dotted(IF prec[1] \in 1 .. n THEN From(path, n - prec[1] + 1) ELSE <<path[n]>>)
        [] Len(prec) = 2 -> Dotted([i \in 1 .. n |-> IF i = n THEN path[i]
                                                   ELSE SubSeq(path[i], 1, Min2(prec[1], Len(path[i])))])
        [] Len(prec) \notin {1, 2} -> Dotted(path)

(* A name without a directory loses its last character: the walk back ends *)
(* on the first one without counting it.                                   *)
FileName(fname) ==
  LET seps == {i \in DOMAIN fname : fname[i] = "/"}
  IN  IF seps = {} THEN SubSeq(fname, 1, Len(fname) - 1)
      ELSE From(fname, 1 + CHOOSE i \in seps : \A j \in seps : i >= j)

LineNumber(item, digits) == IF item.zero THEN Printf(digits, item.length, FALSE, TRUE) ELSE digits

LevelName(item, level) ==
  IF item.levels = NULL \/ item.levels[level] = NULL THEN level ELSE item.levels[level]

(* More lines asked for than the stack has: GetAt gives NULL, and AddAnother *)
(* ignores it.                                                             *)
StackLines(item, stack) ==
  LET n == IF item.hasext THEN item.precision[1] ELSE Len(stack)
  IN  IF stack = <<>> THEN <<>>
      ELSE FlattenSeq([i \in 1 .. n |-> CRLF \o IF i <= Len(stack) THEN stack[i] ELSE <<>>])

Written(item, ev) ==
  CASE item.type \in {"DateTime", "String"} -> AppendPadding(item, item.data)
    [] item.type = "Millisec"   -> ev.millis
    [] item.type = "LoggerName" -> AppendPadding(item, LoggerName(item, ev.path))
    [] item.type = "ThreadId"   -> AppendPadding(item, ev.thread)
    [] item.type = "FileName"   -> AppendPadding(item, FileName(ev.fname))
    [] item.type = "LineNumber" -> AppendPadding(item, LineNumber(item, ev.line))
    [] item.type = "LogLevel"   -> AppendPadding(item, LevelName(item, ev.level))
    [] item.type = "Message"    -> AppendPadding(item, ev.msg)
    [] item.type = "Stack"      -> StackLines(item, ev.stack)

Format(items, ev) == FlattenSeq([i \in DOMAIN items |-> Written(items[i], ev)])

----------------------------------------------------------------------------
VARIABLE st
vars == <<st>>

Init == st = <<>>
Extend == \E piece \in Piece : Len(st) < MaxPieces /\ st' = Append(st, piece)
Restart == st # <<>> /\ st' = <<>>
Next == Extend \/ Restart
Spec == Init /\ [][Next]_vars
----------------------------------------------------------------------------
IsConversion(piece) == piece[1] = "%"
Alone(piece) == IF IsConversion(piece) THEN LogPatternParse(piece) ELSE <<ItemString(piece)>>

(* The pieces up to the last conversion.                                   *)
Heard == SubSeq(st, 1, CHOOSE n \in 0 .. Len(st) : /\ n = 0 \/ IsConversion(st[n])
                                                  /\ \A i \in n + 1 .. Len(st) : ~IsConversion(st[i]))

(* The width and limit of printf, of a text that is written without them.  *)
Padded(item, plain, out, n, short) ==
  /\ Len(out) = n
  /\ IF item.padleft THEN From(out, n - short + 1) = From(plain, Len(plain) - short + 1)
     ELSE SubSeq(out, 1, short) = SubSeq(plain, 1, short)
FitsTo(item, plain, out, n) == Padded(item, plain, out, n, Min2(n, Len(plain)))
FitsAs(item, plain, out) ==
  FitsTo(item, plain, out, IF item.length > Len(plain) THEN item.length
                           ELSE IF item.limit > 0 THEN Min2(item.limit, Len(plain)) ELSE Len(plain))
Fits(item, ev) ==
  FitsAs(item, Written([item EXCEPT !.length = 0, !.limit = -1], ev), Written(item, ev))

(* A level's own replacement wins wherever it stands, the last one of them;*)
(* what is said for all levels comes in where there is none, the first one *)
(* of that.                                                                *)
ReplacementIn(args, level) ==
  LET latest(S) == CHOOSE i \in S : \A j \in S : i >= j
      one(a) == IF a[1] = <<"length">> THEN SubSeq(level, 1, Min2(Number(a[2]), Len(level)))
                ELSE [i \in DOMAIN level |-> LowerOf(level[i])]
      all == {i \in DOMAIN args : args[i][1] \in {<<"length">>, <<"lowerCase">>}}
  IN  IF \E i \in DOMAIN args : args[i][1] = level
      THEN LogTokenPillOff(args[latest({i \in DOMAIN args : args[i][1] = level})][2])
      ELSE IF all = {} THEN level ELSE one(args[CHOOSE i \in all : \A j \in all : i <= j])
Arguments(list) == [i \in DOMAIN list |-> StringSplitInternal(list[i], <<"=">>)]
Replacement(ext, level) ==
  ReplacementIn(Arguments(StringSplitInternal(ext, <<",">>)), level)

(* The file is shown without its directory; a shortened logger name keeps  *)
(* its number of components and the last one.                              *)
IsFileOf(name, fname) ==
  /\ "/" \notin ToSet(name)
  /\ SubSeq(fname, Len(fname) - Len(name), Len(fname)) = <<"/">> \o name
IsNameOf(shown, precision, path) ==
  /\ Last(shown) = Last(path)
  /\ Len(precision) # 1 => Len(shown) = Len(path)
SoundItem(item, ev) ==
  /\ item.type \notin {"Millisec", "Stack"} /\ ~item.zero => Fits(item, ev)
  /\ item.type = "FileName" /\ "/" \in ToSet(ev.fname) => IsFileOf(FileName(ev.fname), ev.fname)
  /\ item.type = "LoggerName" =>
       IsNameOf(StringSplitInternal(LoggerName(item, ev.path), <<".">>), item.precision, ev.path)
SoundLine(items, parts, ev) ==
  /\ Format(items, ev) = FlattenSeq([i \in DOMAIN Heard |-> Format(parts[i], ev)])
  /\ \A i \in DOMAIN items : SoundItem(items[i], ev)
Levels(piece) == IsConversion(piece) /\ Upto(piece, "{") < Len(piece) /\ "p" \in ToSet(piece)
SoundLevel(piece, part, ev) ==
  Levels(piece) => LevelName(part[1], ev.level)
                     = Replacement(SubSeq(piece, Upto(piece, "{") + 2, Len(piece) - 1), ev.level)
Understood(items, parts) ==
  /\ (\E i \in DOMAIN st : parts[i] = NULL) <=> items = NULL
  /\ items # NULL => \A ev \in LogEvent : SoundLine(items, parts, ev)
  /\ \A i \in DOMAIN st, ev \in LogEvent : SoundLevel(st[i], parts[i], ev)

(* A pattern is understood exactly when each of its conversions is, and a  *)
(* line is what its conversions and the text before each write one after   *)
(* the other; a width and a limit do to a text what they do in printf; a   *)
(* level gets its replacement; files and loggers are shown as above.       *)
LogPatternSound == Understood(LogPatternParse(FlattenSeq(st)), [i \in DOMAIN st |-> Alone(st[i])])
=============================================================================
