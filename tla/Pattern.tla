------------------------------ MODULE Pattern ------------------------------
(***************************************************************************)
(* File name patterns (pattern.c, the UNIX build with DELIM 0).  Both      *)
(* strings end in the atom "nul", as in C: a function that reads past it   *)
(* has no value here.  The patterns checked are written from a list of     *)
(* tokens, and cut off anywhere.                                           *)
(***************************************************************************)
EXTENDS Integers, Sequences, SequencesExt

CONSTANTS Ord(_),          \* code of a character
          Chars,           \* the characters of names
          Token,           \* pieces of a pattern: records [k, ...], see Written
          MaxTokens, MaxName

RECURSIVE SetEnd(_, _), ValidFrom(_, _), PatternSubmatch(_, _)

(* Where the "]" of a set is, reading members from len on, or 0.           *)
Quoted(pat, len) == IF pat[len] = "\\" THEN len + 1 ELSE len
SetEnd(pat, len) ==
  LET lo == Quoted(pat, len)
      hi == Quoted(pat, lo + 2)
  IN  IF pat[len] = "]" THEN len
      ELSE IF pat[lo] = "nul" THEN 0
      ELSE IF pat[lo + 1] = "-"
           THEN IF pat[hi] = "nul" THEN 0 ELSE IF pat[hi + 1] = "nul" THEN 0 ELSE SetEnd(pat, hi + 1)
      ELSE IF pat[lo + 1] = "nul" THEN 0 ELSE SetEnd(pat, lo + 1)

(* The character after a negation is taken without a look at it.           *)
ValidFrom(pat, len) ==
  LET end == SetEnd(pat, IF pat[len + 1] = "!" THEN len + 2 ELSE len + 1)
  IN  CASE pat[len] = "nul" -> TRUE
        [] pat[len] = "["   -> IF end = 0 THEN FALSE ELSE ValidFrom(pat, end + 1)
        [] pat[len] \in {"\\", "!"} -> IF pat[len + 1] = "nul" THEN FALSE ELSE ValidFrom(pat, len + 2)
        [] OTHER -> ValidFrom(pat, len + 1)
PatternIsValid(pat) == ValidFrom(pat, 1)

\* A wrong variant of Within: the last character of a range is not in it.
WithinOpen(c, lo, hi) == Ord(c) >= Ord(lo) /\ Ord(c) < Ord(hi)
Within(c, lo, hi) == Ord(c) >= Ord(lo) /\ Ord(c) <= Ord(hi)

(* Does c match the set whose members start at pat?  p is then the position*)
(* of its "]", or of "nul" for one that is not closed.                     *)
SetMatch(pat, c, start) ==
  LET neg == pat[start] = "!"
      scan[p \in Nat, match \in BOOLEAN] ==
        LET lo == Quoted(pat, p)
            hi == IF pat[lo + 1] = "-" THEN Quoted(pat, lo + 2) ELSE lo
            in == Within(c, pat[lo], pat[hi])
        IN  IF pat[p] \in {"]", "nul"} THEN [p |-> p, match |-> match]
            ELSE IF pat[lo] = "nul" THEN [p |-> lo, match |-> match]
            ELSE IF pat[hi] = "nul" THEN [p |-> hi, match |-> match]
            ELSE IF pat[hi + 1] = "nul" THEN [p |-> hi + 1, match |-> match]
            ELSE scan[hi + 1, IF in THEN ~neg ELSE match]
  IN  scan[IF neg THEN start + 1 ELSE start, neg]

PatternSubmatch(pat, fname) ==
  LET pch  == pat[1]
      fch  == fname[1]
      from(s, n) == SubSeq(s, n, Len(s))
      set  == SetMatch(pat, fch, 2)
      next == PatternSubmatch(from(pat, 2), from(fname, 2))
      Starred(n) == \E i \in 1 .. n : PatternSubmatch(from(pat, 2), from(fname, i))
  IN  CASE pch = "nul" -> fch = "nul"
        [] pch = "?"   -> IF fch = "nul" THEN FALSE ELSE next
        [] pch = "*"   -> Starred(Len(fname))
        [] pch = "SUB" -> Starred(CHOOSE n \in DOMAIN fname :
                            /\ fname[n] \in {"nul", "."}
                            /\ \A m \in 1 .. n - 1 : fname[m] # ".")
        [] pch = "\\"  -> IF fch # pat[2] \/ pat[2] = "nul" THEN FALSE
                          ELSE PatternSubmatch(from(pat, 3), from(fname, 2))
        [] pch = "["   -> IF fch = "nul" THEN FALSE
                          ELSE IF ~set.match \/ pat[set.p] = "nul" THEN FALSE
                          ELSE PatternSubmatch(from(pat, set.p + 1), from(fname, 2))
        [] pch = "!"   -> pat[2] # "nul" /\ ~PatternSubmatch(from(pat, 2), fname)
        [] OTHER       -> IF fch # pch THEN FALSE ELSE next

(* Match checks the pattern and gives the empty name to the empty pattern  *)
(* only; MatchN does neither.                                              *)
PatternMatch(pat, fname) ==
  IF ~PatternIsValid(pat) THEN FALSE
  ELSE IF fname = <<"nul">> THEN pat = <<"nul">> ELSE PatternSubmatch(pat, fname)
PatternMatchN(pat, fname) == PatternSubmatch(pat, fname)

----------------------------------------------------------------------------
(* A pattern under construction, or the pattern cut after n characters.    *)
VARIABLE st
vars == <<st>>

Written(t) ==
  CASE t.k = "lit" -> <<t.c>>
    [] t.k = "quoted" -> <<"\\", t.c>>
    [] t.k \in {"?", "*", "SUB", "!"} -> <<t.k>>
    [] t.k = "set" -> <<"[">> \o (IF t.neg THEN <<"!">> ELSE <<>>) \o
         FlattenSeq([i \in DOMAIN t.members |->
            IF t.members[i][1] = t.members[i][2] THEN <<"\\", t.members[i][1]>>
            ELSE <<t.members[i][1], "-", t.members[i][2]>>]) \o <<"]">>
Pat(tokens) == FlattenSeq([i \in DOMAIN tokens |-> Written(tokens[i])]) \o <<"nul">>

Init == st = [tokens |-> <<>>, cut |-> -1]
Write == \E t \in Token : /\ st.cut < 0 /\ Len(st.tokens) < MaxTokens
                          /\ st' = [st EXCEPT !.tokens = Append(@, t)]
Cut == \E n \in 0 .. Len(Pat(st.tokens)) - 1 : st.cut < 0 /\ st' = [st EXCEPT !.cut = n]
Idle == UNCHANGED st
Next == Write \/ Cut \/ Idle
Spec == Init /\ [][Next]_vars

----------------------------------------------------------------------------
(* The reference: the ends that a list of tokens can reach in a name.      *)
Alone(t, c) ==
  CASE t.k = "?" -> TRUE
    [] t.k \in {"lit", "quoted"} -> c = t.c
    [] t.k = "set" -> t.neg # \E i \in DOMAIN t.members :
                                Ord(c) \in Ord(t.members[i][1]) .. Ord(t.members[i][2])
Ends(t, name, from) ==
  CASE t.k = "*"   -> {n \in 0 .. Len(name) : \E i \in from : i <= n}
    [] t.k = "SUB" -> {n \in 0 .. Len(name) : \E i \in from : i <= n /\ \A j \in i + 1 .. n : name[j] # "."}
    [] OTHER       -> {n \in 1 .. Len(name) : n - 1 \in from /\ Alone(t, name[n])}
RECURSIVE Reference(_, _)
Reference(tokens, name) ==
  LET nots == {i \in DOMAIN tokens : tokens[i].k = "!"}
      i    == CHOOSE i \in nots : \A j \in nots : i <= j
      reach(ts) == FoldLeft(LAMBDA from, t : Ends(t, name, from), {0}, ts)
  IN  IF nots = {} THEN Len(name) \in reach(tokens)
      ELSE \E n \in reach(SubSeq(tokens, 1, i - 1)) :
             /\ i < Len(tokens)
             /\ ~Reference(SubSeq(tokens, i + 1, Len(tokens)), SubSeq(name, n + 1, Len(name)))

Name == UNION {[1 .. n -> Chars] : n \in 0 .. MaxName}

(* A written pattern is valid, unless it ends in a negation, and matches   *)
(* exactly the names its tokens describe; a pattern cut short is read to   *)
(* its end at most, by either function, and one that is not valid matches  *)
(* nothing.                                                                *)
PatternSound ==
  LET pat    == Pat(st.tokens)
      short  == SubSeq(pat, 1, st.cut) \o <<"nul">>
      isnot(i) == st.tokens[i].k = "!"
      end == Len(st.tokens)
      nots == CHOOSE n \in 0 .. end : /\ \A i \in n + 1 .. end : isnot(i)
                                      /\ n = 0 \/ ~isnot(n)
  IN  IF st.cut < 0
      THEN /\ PatternIsValid(pat) = ((end - nots) % 2 = 0)
           /\ \A name \in Name :
                LET f == name \o <<"nul">>
                IN  /\ PatternMatchN(pat, f) = Reference(st.tokens, name)
                    /\ name # <<>> /\ PatternIsValid(pat) =>
                         PatternMatch(pat, f) = Reference(st.tokens, name)
      ELSE \A name \in Name :
             LET f == name \o <<"nul">>
             IN  /\ PatternMatchN(short, f) \in BOOLEAN
                 /\ ~PatternIsValid(short) => ~PatternMatch(short, f)
=============================================================================
