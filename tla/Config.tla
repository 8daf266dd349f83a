------------------------------- MODULE Config -------------------------------
(***************************************************************************)
(* CMUTIL_Config (config.c): items in the order of their file, a map of    *)
(* the values, and the file itself as lines of atoms.  Memory is assumed,  *)
(* so a Put never fails.                                                   *)
(***************************************************************************)
EXTENDS Integers, Sequences, SequencesExt, FiniteSets

CONSTANTS NULL,
          ConfKey, ConfValue,   \* what the program sets: sequences of atoms
          Line,                 \* lines that an editor adds to the file
          Numeral,              \* atoms that are decimal numbers
          MaxLine,              \* 4096 in ConfigLoad
          MaxKey, MaxValue,     \* 1024 and 2048 in ConfigLoad
          MaxItems              \* bound on the items and the lines of a file

Blank == {" "}

\* A wrong variant of NextTermBefore: a delimiter cannot be escaped.
NextTermUnescaped(line, delim, maxlen) ==
  LET stop(n) == n = Len(line) \/ n = maxlen \/ line[n + 1] \in delim
      n == CHOOSE n \in 0 .. Len(line) : stop(n) /\ \A m \in 0 .. n - 1 : ~stop(m)
  IN  [dest |-> SubSeq(line, 1, n), rest |-> SubSeq(line, n + 1, Len(line))]

(* What precedes the first delimiter that is not escaped, and the rest.    *)
NextTermBefore(line, delim, maxlen) ==
  LET stop(n) == \/ n = Len(line) \/ n = maxlen
                 \/ line[n + 1] \in delim /\ ~(n > 0 /\ line[n] = "\\")
      n == CHOOSE n \in 0 .. Len(line) : stop(n) /\ \A m \in 0 .. n - 1 : ~stop(m)
  IN  [dest |-> SubSeq(line, 1, n), rest |-> SubSeq(line, n + 1, Len(line))]

StripRight(s) == SubSeq(s, 1, CHOOSE n \in 0 .. Len(s) : /\ n = 0 \/ s[n] \notin Blank
                                                         /\ \A m \in n + 1 .. Len(s) : s[m] \in Blank)
SkipAny(s, set) == SubSeq(s, 1 + CHOOSE n \in 0 .. Len(s) : /\ n = Len(s) \/ s[n + 1] \notin set
                                                            /\ \A m \in 1 .. n : s[m] \in set, Len(s))

(* The line without the blanks at its end; a backslash there is taken off  *)
(* and means that the next line goes on.                                   *)
Joined(str, t) ==
  LET cont == t # <<>> /\ Last(t) = "\\"
  IN  [str |-> str \o (IF cont THEN Front(t) ELSE t), cont |-> cont]
AppendTrimmedLine(str, in) == Joined(str, StripRight(in))

----------------------------------------------------------------------------
ConfigCreate == [confs |-> <<>>, sequence |-> <<>>, maxkeylen |-> 0]
ConfigGet(c, key) == IF key \in DOMAIN c.confs THEN c.confs[key] ELSE NULL
SequenceItem(type, key, comment) == [type |-> type, key |-> key, comment |-> comment]
Longer(c, key) == IF c.maxkeylen < Len(key) THEN Len(key) ELSE c.maxkeylen
With(confs, key, value) == [k \in DOMAIN confs \cup {key} |-> IF k = key THEN value ELSE confs[k]]

ConfigSet(c, key, value) ==
  [confs     |-> With(c.confs, key, value),
   sequence  |-> IF key \in DOMAIN c.confs THEN c.sequence
                 ELSE Append(c.sequence, SequenceItem("pair", key, NULL)),
   maxkeylen |-> Longer(c, key)]

ConfigSetBoolean(c, key, b)   == ConfigSet(c, key, IF b THEN <<"True">> ELSE <<"False">>)
ConfigSetLong(c, key, n)      == ConfigSet(c, key, <<n>>)
ConfigGetBoolean(c, key) ==
  LET v == ConfigGet(c, key)
  IN  IF v = NULL THEN FALSE ELSE v # <<>> /\ v[1] \in {"Y", "y", "T", "t", "1", "True"}
ConfigGetLong(c, key) ==
  LET v == ConfigGet(c, key)
      t == IF v = NULL THEN <<>> ELSE SkipAny(v, Blank)
  IN  IF t = <<>> THEN "0" ELSE IF t[1] \in Numeral THEN t[1] ELSE "0"

ConfigSave(c) ==
  LET pad(key) == [i \in 1 .. c.maxkeylen - Len(key) |-> " "] \o key \o <<" ", "=", " ">>
      value(key) == IF ConfigGet(c, key) = NULL THEN <<>> ELSE ConfigGet(c, key)
      text(item) ==
        LET comment == IF item.comment = NULL THEN <<>> ELSE item.comment
        IN  CASE item.type = "comment" -> comment
              [] item.type = "pair" -> pad(item.key) \o value(item.key)
                                       \o (IF item.comment = NULL THEN <<>> ELSE <<" ">> \o comment)
  IN  [i \in DOMAIN c.sequence |-> text(c.sequence[i])]

(* A complete line of the file, without its newline.  Of two items of one  *)
(* key the first leaves the sequence.                                      *)
AddPair(c, key, value) ==
  [confs     |-> With(c.confs, key, StripRight(SkipAny(value.dest, Blank))),
   maxkeylen |-> Longer(c, key),
   sequence  |-> Append(SelectSeq(c.sequence, LAMBDA i : i.key # key),
                        SequenceItem("pair", key, IF value.rest # <<>> /\ value.rest[1] = "#"
                                          THEN StripRight(value.rest) ELSE NULL))]
AddNamed(c, name) ==
  AddPair(c, name.dest, NextTermBefore(SkipAny(name.rest, {" ", "="}), {"#"}, MaxValue))
AddTrimmed(c, p) ==
  CASE p = <<>> -> [c EXCEPT !.sequence = Append(@, SequenceItem("comment", NULL, NULL))]
    [] p # <<>> /\ p[1] = "#" ->
         [c EXCEPT !.sequence = Append(@, SequenceItem("comment", NULL, StripRight(p)))]
    [] p # <<>> /\ p[1] # "#" -> AddNamed(c, NextTermBefore(p, {" ", "="}, MaxKey))
AddLine(c, str) == AddTrimmed(c, SkipAny(str, Blank))

(* fgets splits a line that does not fit its buffer.                       *)
RECURSIVE Fgets(_)
Fgets(line) == IF Len(line) < MaxLine - 1 THEN <<line>>
               ELSE <<SubSeq(line, 1, MaxLine - 1)>> \o Fgets(SubSeq(line, MaxLine, Len(line)))

(* What is still to be continued at the end of the file is dropped.        *)
ConfigLoad(file) ==
  LET add(acc, t) ==
        IF t.cont THEN [acc EXCEPT !.str = t.str] ELSE [c |-> AddLine(acc.c, t.str), str |-> <<>>]
      read(acc, line) == add(acc, AppendTrimmedLine(acc.str, line))
  IN  FoldLeft(read, [c |-> ConfigCreate, str |-> <<>>], FlattenSeq([i \in DOMAIN file |-> Fgets(file[i])])).c

----------------------------------------------------------------------------
VARIABLE st
vars == <<st>>

(* Programs run one after the other: one saves its configuration and ends, *)
(* the file may be edited, and the next one loads it.                      *)
Init == st = [c |-> ConfigCreate, file |-> <<>>]

Set == \E key \in ConfKey :
         /\ Len(st.c.sequence) < MaxItems
         /\ \E v \in ConfValue : st' = [st EXCEPT !.c = ConfigSet(@, key, v)]
SetTyped == \E key \in ConfKey :
         /\ Len(st.c.sequence) < MaxItems
         /\ \/ \E b \in BOOLEAN : st' = [st EXCEPT !.c = ConfigSetBoolean(@, key, b)]
            \/ \E n \in Numeral : st' = [st EXCEPT !.c = ConfigSetLong(@, key, n)]
Save == st' = [c |-> ConfigCreate, file |-> ConfigSave(st.c)]
Load == /\ Len(st.file) <= MaxItems
        /\ st' = [c |-> ConfigLoad(st.file), file |-> <<>>]
EditFile == \E line \in Line : /\ Len(st.file) < MaxItems /\ st.c = ConfigCreate
                               /\ st' = [st EXCEPT !.file = Append(@, line)]

Next == Set \/ SetTyped \/ Save \/ Load \/ EditFile
Spec == Init /\ [][Next]_vars

----------------------------------------------------------------------------
(* What a line of the file can hold: no unescaped "#" in a value and no "="*)
(* before it, no blank around it, no backslash at the end of the line, and *)
(* not more than the buffers.                                              *)
Storable(c) ==
  /\ \A key \in DOMAIN c.confs :
       LET v == c.confs[key]
       IN  /\ \A i \in DOMAIN v : v[i] = "#" => i > 1 /\ v[i - 1] = "\\"
           /\ v # <<>> => v[1] \notin {" ", "="} /\ Last(v) # " "
           /\ Len(key) <= MaxKey /\ Len(v) < MaxValue
  /\ \A i \in DOMAIN c.sequence :
       LET s == StripRight(ConfigSave(c)[i])
       IN  (s # <<>> => Last(s) # "\\") /\ Len(s) < MaxLine - 1

Same(c, back) == back.confs = c.confs /\ back.sequence = c.sequence

(* The items and the map agree: one item per key, whatever was loaded; and *)
(* a configuration that a file can hold comes back from it with its values,*)
(* comments and order.                                                     *)
ConfigSound ==
  LET c     == st.c
      pairs == {i \in DOMAIN c.sequence : c.sequence[i].type = "pair"}
  IN  /\ {c.sequence[i].key : i \in pairs} = DOMAIN c.confs
      /\ Cardinality(pairs) = Cardinality(DOMAIN c.confs)
      /\ Storable(c) => Same(c, ConfigLoad(ConfigSave(c)))
      /\ \A key \in ConfKey :
           /\ ConfigGet(c, key) = <<"True">> => ConfigGetBoolean(c, key)
           /\ ConfigGet(c, key) = <<"False">> => ~ConfigGetBoolean(c, key)
           /\ \A n \in Numeral : ConfigGet(c, key) = <<n>> => ConfigGetLong(c, key) = n
=============================================================================
