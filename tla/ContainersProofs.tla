--------------------------- MODULE ContainersProofs ---------------------------
(***************************************************************************)
(* arrays.c, lists.c and maps.c, for any number of items, nodes and keys,  *)
(* and any comparator that orders items by a number: ContainersSound holds *)
(* whatever calls are made, and whichever of their allocations fail.       *)
(* The last part is about a client of such arrays, the timer: the array of *)
(* its tasks stays sorted by their times.                                  *)
(* The recursive functions of the model (probing, growing, walking and     *)
(* rehashing) are reasoned about by SetInduction of Counting.tla: the set  *)
(* of the depths down to which the function is what its equation says has  *)
(* 0, and k + 1 if it has k.                                               *)
(***************************************************************************)
EXTENDS Containers, Counting, TLAPS

------------------------------------------------------------------------------
(* Sequences *)

\* A part of a sequence that may be empty.
LEMMA Part ==
  ASSUME NEW S, NEW s \in Seq(S), NEW m \in 1 .. Len(s) + 1, NEW n \in m - 1 .. Len(s)
  PROVE  /\ SubSeq(s, m, n) \in Seq(S)
         /\ Len(SubSeq(s, m, n)) = n - m + 1
         /\ \A i \in 1 .. n - m + 1 : SubSeq(s, m, n)[i] = s[m + i - 1]
<1>0. Len(s) \in Nat /\ m \in Nat /\ n \in Int /\ m <= Len(s) + 1 /\ n <= Len(s) /\ m - 1 <= n
  BY LenProperties
<1>1. \A i \in m .. n : s[i] \in S
  <2>1. \A i \in m .. n : i \in 1 .. Len(s)
    BY <1>0
  <2> QED BY <2>1, LenProperties
<1>2. /\ SubSeq(s, m, n) \in Seq(S)
      /\ Len(SubSeq(s, m, n)) = IF m <= n THEN n - m + 1 ELSE 0
      /\ \A i \in 1 .. n - m + 1 : SubSeq(s, m, n)[i] = s[m + i - 1]
  BY <1>0, <1>1, SubSeqProperties
<1> QED BY <1>0, <1>2

\* One more item at index i, and those from there on one further.
LEMMA Inserted ==
  ASSUME NEW S, NEW s \in Seq(S), NEW i \in 1 .. Len(s) + 1, NEW e \in S
  PROVE  LET t == InsertAt(s, i, e)
         IN /\ t \in Seq(S) /\ Len(t) = Len(s) + 1
            /\ \A j \in 1 .. i - 1 : t[j] = s[j]
            /\ t[i] = e
            /\ \A j \in i + 1 .. Len(s) + 1 : t[j] = s[j - 1]
<1> DEFINE x == SubSeq(s, 1, i - 1)
           y == SubSeq(s, i, Len(s))
           t == (x \o <<e>>) \o y
<1>0. Len(s) \in Nat /\ i \in Nat /\ 1 <= i /\ i <= Len(s) + 1
  BY LenProperties
<1>1. x \in Seq(S) /\ Len(x) = i - 1 /\ \A j \in 1 .. i - 1 : x[j] = s[j]
  <2>1. 1 \in 1 .. Len(s) + 1 /\ i - 1 \in 1 - 1 .. Len(s) /\ i - 1 - 1 + 1 = i - 1
    BY <1>0
  <2>2. /\ x \in Seq(S) /\ Len(x) = i - 1 - 1 + 1
        /\ \A j \in 1 .. i - 1 - 1 + 1 : x[j] = s[1 + j - 1]
    BY <2>1, Part
  <2>3. \A j \in 1 .. i - 1 : 1 + j - 1 = j
    OBVIOUS
  <2> HIDE DEF x
  <2> QED BY <2>1, <2>2, <2>3
<1>2. y \in Seq(S) /\ Len(y) = Len(s) - i + 1 /\ \A j \in 1 .. Len(s) - i + 1 : y[j] = s[i + j - 1]
  <2>1. Len(s) \in i - 1 .. Len(s)
    BY <1>0
  <2> QED BY <2>1, Part
<1>3. <<e>> \in Seq(S) /\ Len(<<e>>) = 1 /\ <<e>>[1] = e
  OBVIOUS
<1> HIDE DEF x, y
<1>4. /\ x \o <<e>> \in Seq(S) /\ Len(x \o <<e>>) = i
      /\ \A j \in 1 .. i : (x \o <<e>>)[j] = IF j <= i - 1 THEN s[j] ELSE e
  <2>1. /\ x \o <<e>> \in Seq(S) /\ Len(x \o <<e>>) = Len(x) + Len(<<e>>)
        /\ \A j \in 1 .. Len(x) + Len(<<e>>) :
             (x \o <<e>>)[j] = IF j <= Len(x) THEN x[j] ELSE <<e>>[j - Len(x)]
    BY <1>1, <1>3, ConcatProperties
  <2>2. Len(x) + Len(<<e>>) = i
    BY <1>0, <1>1, <1>3
  <2>3. ASSUME NEW j \in 1 .. i PROVE (x \o <<e>>)[j] = IF j <= i - 1 THEN s[j] ELSE e
    <3>1. CASE j <= i - 1
      BY <1>0, <1>1, <2>1, <2>2, <3>1
    <3>2. CASE j = i
      <4>1. j - Len(x) = 1 /\ ~(j <= Len(x))
        BY <1>0, <1>1, <3>2
      <4> QED BY <1>0, <1>3, <2>1, <2>2, <3>2, <4>1
    <3>3. j <= i - 1 \/ j = i
      BY <1>0
    <3> QED BY <3>1, <3>2, <3>3
  <2> QED BY <2>1, <2>2, <2>3
<1>5. /\ t \in Seq(S) /\ Len(t) = Len(s) + 1
      /\ \A j \in 1 .. Len(s) + 1 :
           t[j] = IF j <= i THEN (x \o <<e>>)[j] ELSE y[j - i]
  <2> DEFINE z == x \o <<e>>
  <2>1. z \in Seq(S) /\ Len(z) = i
    BY <1>4
  <2> HIDE DEF z
  <2>2. /\ z \o y \in Seq(S) /\ Len(z \o y) = Len(z) + Len(y)
        /\ \A j \in 1 .. Len(z) + Len(y) :
             (z \o y)[j] = IF j <= Len(z) THEN z[j] ELSE y[j - Len(z)]
    BY <1>2, <2>1, ConcatProperties
  <2>3. Len(z) + Len(y) = Len(s) + 1
    BY <1>0, <1>2, <2>1
  <2> QED BY <2>1, <2>2, <2>3 DEF z
<1>6. t = InsertAt(s, i, e)
  BY DEF InsertAt, x, y
<1> HIDE DEF t
<1>7. ASSUME NEW j \in i + 1 .. Len(s) + 1 PROVE t[j] = s[j - 1]
  <2>1. j \in 1 .. Len(s) + 1 /\ ~(j <= i) /\ j - i \in 1 .. Len(s) - i + 1 /\ i + (j - i) - 1 = j - 1
    BY <1>0
  <2>2. t[j] = y[j - i] /\ y[j - i] = s[i + (j - i) - 1]
    BY <1>2, <1>5, <2>1
  <2> QED BY <2>1, <2>2
<1>8. t[i] = e /\ \A j \in 1 .. i - 1 : t[j] = s[j]
  BY <1>0, <1>4, <1>5
<1> QED BY <1>5, <1>6, <1>7, <1>8

\* One item less, and those behind it one to the front.
LEMMA Removed ==
  ASSUME NEW S, NEW s \in Seq(S), NEW i \in 1 .. Len(s)
  PROVE  LET t == RemoveAt(s, i)
         IN /\ t \in Seq(S) /\ Len(t) = Len(s) - 1
            /\ \A j \in 1 .. i - 1 : t[j] = s[j]
            /\ \A j \in i .. Len(s) - 1 : t[j] = s[j + 1]
<1> DEFINE x == SubSeq(s, 1, i - 1)
           y == SubSeq(s, i + 1, Len(s))
           t == x \o y
<1>0. Len(s) \in Nat /\ i \in Nat /\ 1 <= i /\ i <= Len(s)
  BY LenProperties
<1>1. x \in Seq(S) /\ Len(x) = i - 1 /\ \A j \in 1 .. i - 1 : x[j] = s[j]
  <2>1. 1 \in 1 .. Len(s) + 1 /\ i - 1 \in 1 - 1 .. Len(s) /\ i - 1 - 1 + 1 = i - 1
    BY <1>0
  <2>2. /\ x \in Seq(S) /\ Len(x) = i - 1 - 1 + 1
        /\ \A j \in 1 .. i - 1 - 1 + 1 : x[j] = s[1 + j - 1]
    BY <2>1, Part
  <2>3. \A j \in 1 .. i - 1 : 1 + j - 1 = j
    OBVIOUS
  <2> HIDE DEF x
  <2> QED BY <2>1, <2>2, <2>3
<1>2. y \in Seq(S) /\ Len(y) = Len(s) - i /\ \A j \in 1 .. Len(s) - i : y[j] = s[i + j]
  <2>1. i + 1 \in 1 .. Len(s) + 1 /\ Len(s) \in (i + 1) - 1 .. Len(s)
        /\ Len(s) - (i + 1) + 1 = Len(s) - i
    BY <1>0, SMTT(60)
  <2>2. /\ y \in Seq(S) /\ Len(y) = Len(s) - (i + 1) + 1
        /\ \A j \in 1 .. Len(s) - (i + 1) + 1 : y[j] = s[(i + 1) + j - 1]
    BY <2>1, Part
  <2>3. \A j \in 1 .. Len(s) - i : (i + 1) + j - 1 = i + j
    BY <1>0
  <2> HIDE DEF y
  <2> QED BY <2>1, <2>2, <2>3
<1> HIDE DEF x, y
<1>3. /\ t \in Seq(S) /\ Len(t) = Len(s) - 1
      /\ \A j \in 1 .. Len(s) - 1 :
           t[j] = IF j <= i - 1 THEN x[j] ELSE y[j - (i - 1)]
  <2>1. /\ x \o y \in Seq(S) /\ Len(x \o y) = Len(x) + Len(y)
        /\ \A j \in 1 .. Len(x) + Len(y) :
             (x \o y)[j] = IF j <= Len(x) THEN x[j] ELSE y[j - Len(x)]
    BY <1>1, <1>2, ConcatProperties
  <2>2. Len(x) + Len(y) = Len(s) - 1
    BY <1>0, <1>1, <1>2
  <2> QED BY <1>1, <2>1, <2>2
<1>4. t = RemoveAt(s, i)
  BY DEF RemoveAt, x, y
<1> HIDE DEF t
<1>5. ASSUME NEW j \in i .. Len(s) - 1 PROVE t[j] = s[j + 1]
  <2>1. j \in 1 .. Len(s) - 1 /\ ~(j <= i - 1) /\ j - (i - 1) \in 1 .. Len(s) - i
        /\ i + (j - (i - 1)) = j + 1
    BY <1>0
  <2>2. t[j] = y[j - (i - 1)] /\ y[j - (i - 1)] = s[i + (j - (i - 1))]
    BY <1>2, <1>3, <2>1
  <2> QED BY <2>1, <2>2
<1>6. ASSUME NEW j \in 1 .. i - 1 PROVE t[j] = s[j]
  <2>1. j \in 1 .. Len(s) - 1 /\ j <= i - 1
    BY <1>0
  <2> QED BY <1>1, <1>3, <2>1
<1> QED BY <1>3, <1>4, <1>5, <1>6

------------------------------------------------------------------------------
(* Binary search *)

Signs(cmps) == \A i \in 1 .. Len(cmps) : cmps[i] \in Int

\* What is sought is behind the items it is greater than and in front of those
\* it is less than, and equal to one at most.
Sorting(cmps) ==
  \A i, j \in 1 .. Len(cmps) : i < j /\ cmps[i] <= 0 => cmps[j] < 0

\* The ranges that are searched: st and behind, up to ed and not that one.
Ranges(n) == {q \in (0 .. n) \X (0 .. n) : q[1] < q[2]}

\* The middle is in the range, and either half is shorter.
LEMMA Halves ==
  ASSUME NEW n \in Nat, NEW lo \in 0 .. n, NEW hi \in 0 .. n, lo < hi
  PROVE  LET mid == (hi + lo) \div 2
         IN /\ mid \in 0 .. n - 1 /\ lo <= mid /\ mid < hi
            /\ mid # lo => lo < mid /\ mid - lo < hi - lo
            /\ mid # hi - 1 => mid > lo /\ hi - mid < hi - lo
<1> DEFINE mid == (hi + lo) \div 2
<1>1. mid \in Int /\ 2 * mid <= hi + lo /\ hi + lo <= 2 * mid + 1
  OBVIOUS
<1> HIDE DEF mid
<1>2. /\ mid \in 0 .. n - 1 /\ lo <= mid /\ mid < hi
      /\ mid # lo => lo < mid /\ mid - lo < hi - lo
      /\ mid # hi - 1 => mid > lo /\ hi - mid < hi - lo
  BY <1>1
<1> QED BY <1>2 DEF mid

\* What the loop does with a range.
Probed(cmps, probe, lo, hi) ==
  LET mid == (hi + lo) \div 2
      cmp == cmps[mid + 1]
  IN /\ cmp = 0 => probe[<<lo, hi>>] = [found |-> 1, idx |-> mid]
     /\ cmp < 0 /\ mid = lo => probe[<<lo, hi>>] = [found |-> 2, idx |-> mid]
     /\ cmp < 0 /\ mid # lo => probe[<<lo, hi>>] = probe[<<lo, mid>>]
     /\ cmp > 0 /\ mid = hi - 1 => probe[<<lo, hi>>] = [found |-> 2, idx |-> hi]
     /\ cmp > 0 /\ mid # hi - 1 => probe[<<lo, hi>>] = probe[<<mid, hi>>]

\* The search is defined on every range: a half is searched before the whole.
LEMMA ProbeSteps ==
  ASSUME NEW cmps, Len(cmps) \in Nat, cmps # << >>, Signs(cmps)
  PROVE  \E probe :
           /\ SearchPrivate(cmps) = probe[<<0, Len(cmps)>>]
           /\ \A lo, hi \in 0 .. Len(cmps) : lo < hi => Probed(cmps, probe, lo, hi)
<1> DEFINE n == Len(cmps)
           Mid(r) == (r[2] + r[1]) \div 2
           Cmp(r) == cmps[Mid(r) + 1]
           Next1(g, r) ==
             CASE Cmp(r) = 0                      -> [found |-> 1, idx |-> Mid(r)]
               [] Cmp(r) < 0 /\ Mid(r) = r[1]     -> [found |-> 2, idx |-> Mid(r)]
               [] Cmp(r) < 0 /\ Mid(r) # r[1]     -> g[<<r[1], Mid(r)>>]
               [] Cmp(r) > 0 /\ Mid(r) = r[2] - 1 -> [found |-> 2, idx |-> r[2]]
               [] OTHER                           -> g[<<Mid(r), r[2]>>]
           Short(k) == {r \in Ranges(n) : r[2] - r[1] <= k}
           Made(g, k) == g = [r \in Short(k) |-> Next1(g, r)]
           T == {k \in Nat : \E g : Made(g, k)}
           made == CHOOSE g : g = [r \in Ranges(n) |-> Next1(g, r)]
<1>1. \A r \in Ranges(n) :
        /\ r[1] \in 0 .. n /\ r[2] \in 0 .. n /\ r[1] < r[2] /\ r = <<r[1], r[2]>>
        /\ Mid(r) \in 0 .. n - 1 /\ Cmp(r) \in Int
        /\ Mid(r) # r[1] => /\ <<r[1], Mid(r)>> \in Ranges(n)
                            /\ Mid(r) - r[1] < r[2] - r[1]
        /\ Mid(r) # r[2] - 1 => /\ <<Mid(r), r[2]>> \in Ranges(n)
                                /\ r[2] - Mid(r) < r[2] - r[1]
  <2> SUFFICES ASSUME NEW r \in Ranges(n)
               PROVE /\ r[1] \in 0 .. n /\ r[2] \in 0 .. n /\ r[1] < r[2] /\ r = <<r[1], r[2]>>
                     /\ Mid(r) \in 0 .. n - 1 /\ Cmp(r) \in Int
                     /\ Mid(r) # r[1] => /\ <<r[1], Mid(r)>> \in Ranges(n)
                                         /\ Mid(r) - r[1] < r[2] - r[1]
                     /\ Mid(r) # r[2] - 1 => /\ <<Mid(r), r[2]>> \in Ranges(n)
                                             /\ r[2] - Mid(r) < r[2] - r[1]
    OBVIOUS
  <2>1. r[1] \in 0 .. n /\ r[2] \in 0 .. n /\ r[1] < r[2] /\ r = <<r[1], r[2]>>
    BY DEF Ranges
  <2>2. /\ Mid(r) \in 0 .. n - 1 /\ r[1] <= Mid(r) /\ Mid(r) < r[2]
        /\ Mid(r) # r[1] => r[1] < Mid(r) /\ Mid(r) - r[1] < r[2] - r[1]
        /\ Mid(r) # r[2] - 1 => Mid(r) > r[1] /\ r[2] - Mid(r) < r[2] - r[1]
    BY <2>1, Halves
  <2>3. Mid(r) + 1 \in 1 .. Len(cmps)
    <3> HIDE DEF Mid
    <3> QED BY <2>2
  <2>4. Cmp(r) \in Int
    BY <2>3 DEF Signs
  <2> HIDE DEF Mid, Cmp
  <2> QED BY <2>1, <2>2, <2>4 DEF Ranges
<1> HIDE DEF Mid, Cmp
<1>r. \A r \in Ranges(n) : r[1] \in Int /\ r[2] \in Int /\ r[1] < r[2] /\ r[2] - r[1] <= n
  BY DEF Ranges
<1>2. 0 \in T
  <2>1. Short(0) = {}
    BY <1>r
  <2> DEFINE g == [r \in {} |-> 0]
  <2>2. g = [r \in Short(0) |-> Next1(g, r)]
    BY <2>1
  <2> HIDE DEF g, Short, Next1
  <2> QED BY <2>2
<1>3. ASSUME NEW k \in Nat, k \in T PROVE k + 1 \in T
  <2>1. PICK g : Made(g, k)
    BY <1>3
  <2> DEFINE h == [r \in Short(k + 1) |-> Next1(g, r)]
  <2>2. ASSUME NEW r \in Short(k) PROVE g[r] = Next1(g, r) /\ r \in Short(k + 1)
    <3>1. g[r] = Next1(g, r)
      <4> HIDE DEF Short, Next1
      <4> QED BY <2>1
    <3>2. r \in Short(k + 1)
      BY <1>r
    <3> QED BY <3>1, <3>2
  <2>3. ASSUME NEW r \in Short(k) PROVE h[r] = g[r]
    <3> HIDE DEF Short, Next1
    <3> QED BY <2>2
  <2>4. ASSUME NEW r \in Short(k + 1)
        PROVE  /\ Cmp(r) \in Int
               /\ Mid(r) # r[1] => <<r[1], Mid(r)>> \in Short(k)
               /\ Mid(r) # r[2] - 1 => <<Mid(r), r[2]>> \in Short(k)
    BY <1>1
  <2>5. ASSUME NEW r \in Short(k + 1) PROVE Next1(g, r) = Next1(h, r)
    <3> HIDE DEF h, Short
    <3> QED BY <2>3, <2>4
  <2>6. h = [r \in Short(k + 1) |-> Next1(h, r)]
    <3>1. h = [r \in Short(k + 1) |-> h[r]] /\ \A r \in Short(k + 1) : h[r] = Next1(g, r)
      <4> HIDE DEF Short, Next1
      <4> QED OBVIOUS
    <3> HIDE DEF Short, Next1, h
    <3> QED BY <2>5, <3>1
  <2> HIDE DEF h
  <2>7. Made(h, k + 1)
    BY <2>6
  <2> HIDE DEF Made
  <2> QED BY <2>7
<1>4. Nat \subseteq T
  <2> HIDE DEF T
  <2> QED BY <1>2, <1>3, SetInduction
<1>5. Short(n) = Ranges(n)
  BY <1>r
<1>6. \E g : g = [r \in Ranges(n) |-> Next1(g, r)]
  <2> HIDE DEF Short, Next1
  <2> QED BY <1>4, <1>5
<1>7. made = [r \in Ranges(n) |-> Next1(made, r)]
  <2> HIDE DEF Next1
  <2> QED BY <1>6
<1>8. SearchPrivate(cmps) = made[<<0, n>>]
  BY DEF SearchPrivate, Ranges, Mid, Cmp
<1>9. \A r \in Ranges(n) : made[r] = Next1(made, r)
  <2> HIDE DEF Next1, made
  <2> QED BY <1>7
<1>10. \A lo, hi \in 0 .. n : lo < hi => <<lo, hi>> \in Ranges(n)
  BY DEF Ranges
<1> HIDE DEF made
<1>11. \A lo, hi \in 0 .. n : lo < hi => made[<<lo, hi>>] = Next1(made, <<lo, hi>>)
  BY <1>9, <1>10
<1>12. ASSUME NEW lo \in 0 .. n, NEW hi \in 0 .. n, lo < hi
       PROVE  Probed(cmps, made, lo, hi)
  <2> DEFINE r == <<lo, hi>>
  <2>1. r \in Ranges(n) /\ r[1] = lo /\ r[2] = hi /\ made[r] = Next1(made, r)
    BY <1>10, <1>11, <1>12
  <2>2. Cmp(r) \in Int
    BY <1>1, <2>1
  <2>3. Mid(r) = (hi + lo) \div 2 /\ Cmp(r) = cmps[(hi + lo) \div 2 + 1]
    BY <2>1 DEF Mid, Cmp
  <2> HIDE DEF r
  <2>4. /\ Cmp(r) = 0 => made[r] = [found |-> 1, idx |-> Mid(r)]
        /\ Cmp(r) < 0 /\ Mid(r) = lo => made[r] = [found |-> 2, idx |-> Mid(r)]
        /\ Cmp(r) < 0 /\ Mid(r) # lo => made[r] = made[<<lo, Mid(r)>>]
        /\ Cmp(r) > 0 /\ Mid(r) = hi - 1 => made[r] = [found |-> 2, idx |-> hi]
        /\ Cmp(r) > 0 /\ Mid(r) # hi - 1 => made[r] = made[<<Mid(r), hi>>]
    BY <2>1, <2>2
  <2> QED BY <2>3, <2>4 DEF r, Probed
<1> HIDE DEF Next1
<1> QED BY <1>8, <1>12

\* What the binary search answers: the index of the item that is sought, or
\* where it belongs, with the smaller items before and the greater ones behind.
THEOREM SearchFinds ==
  ASSUME NEW cmps, Len(cmps) \in Nat, Signs(cmps), Sorting(cmps)
  PROVE  LET at == SearchPrivate(cmps)
         IN \/ /\ at.found = 1 /\ at.idx \in 0 .. Len(cmps) - 1
               /\ cmps[at.idx + 1] = 0
            \/ /\ at.found = 2 /\ at.idx \in 0 .. Len(cmps)
               /\ \A i \in 1 .. at.idx : cmps[i] > 0
               /\ \A i \in at.idx + 1 .. Len(cmps) : cmps[i] < 0
<1> DEFINE n == Len(cmps)
           Right(at) ==
             \/ /\ at.found = 1 /\ at.idx \in 0 .. n - 1
                /\ cmps[at.idx + 1] = 0
             \/ /\ at.found = 2 /\ at.idx \in 0 .. n
                /\ \A i \in 1 .. at.idx : cmps[i] > 0
                /\ \A i \in at.idx + 1 .. n : cmps[i] < 0
           \* The items outside of the range are not the one that is sought.
           Left(lo, hi) == /\ \A i \in 1 .. lo : cmps[i] > 0
                           /\ \A i \in hi + 1 .. n : cmps[i] < 0
<1>1. CASE cmps = << >>
  <2>1. SearchPrivate(cmps) = [found |-> 2, idx |-> 0] /\ n = 0
    BY <1>1 DEF SearchPrivate
  <2> QED BY <2>1
<1>2. CASE cmps # << >>
  <2>1. PICK probe : /\ SearchPrivate(cmps) = probe[<<0, n>>]
                     /\ \A lo, hi \in 0 .. n : lo < hi => Probed(cmps, probe, lo, hi)
    BY <1>2, ProbeSteps
  <2>0. \A r : Right([found |-> 1, idx |-> r]) <=> r \in 0 .. n - 1 /\ cmps[r + 1] = 0
    OBVIOUS
  <2>00. \A r : Right([found |-> 2, idx |-> r]) <=>
           /\ r \in 0 .. n
           /\ \A i \in 1 .. r : cmps[i] > 0
           /\ \A i \in r + 1 .. n : cmps[i] < 0
    OBVIOUS
  <2> DEFINE T == {k \in Nat : \A lo, hi \in 0 .. n :
                     lo < hi /\ hi - lo <= k /\ Left(lo, hi) => Right(probe[<<lo, hi>>])}
  <2>2. 0 \in T
    <3>1. \A lo, hi \in 0 .. n : ~(lo < hi /\ hi - lo <= 0)
      OBVIOUS
    <3> HIDE DEF Left, Right
    <3> QED BY <3>1
  <2>3. ASSUME NEW k \in Nat, k \in T PROVE k + 1 \in T
    <3> SUFFICES ASSUME NEW lo \in 0 .. n, NEW hi \in 0 .. n,
                        lo < hi, hi - lo <= k + 1, Left(lo, hi)
                 PROVE  Right(probe[<<lo, hi>>])
      BY SMTT(60)
    <3> DEFINE mid == (hi + lo) \div 2
               cmp == cmps[mid + 1]
    <3>1. /\ mid \in 0 .. n - 1 /\ lo <= mid /\ mid < hi
          /\ mid # lo => lo < mid /\ mid - lo < hi - lo
          /\ mid # hi - 1 => mid > lo /\ hi - mid < hi - lo
      BY Halves
    <3>2. /\ cmp = 0 => probe[<<lo, hi>>] = [found |-> 1, idx |-> mid]
          /\ cmp < 0 /\ mid = lo => probe[<<lo, hi>>] = [found |-> 2, idx |-> mid]
          /\ cmp < 0 /\ mid # lo => probe[<<lo, hi>>] = probe[<<lo, mid>>]
          /\ cmp > 0 /\ mid = hi - 1 => probe[<<lo, hi>>] = [found |-> 2, idx |-> hi]
          /\ cmp > 0 /\ mid # hi - 1 => probe[<<lo, hi>>] = probe[<<mid, hi>>]
      BY <2>1 DEF Probed
    <3> HIDE DEF mid
    <3>3. mid + 1 \in 1 .. n /\ cmp \in Int
      BY <3>1 DEF Signs
    <3>4. ASSUME cmp < 0
          PROVE  \A i \in mid + 1 .. n : cmps[i] < 0
      <4>1. \A i \in mid + 1 .. n : i = mid + 1 \/ (i \in 1 .. n /\ mid + 1 < i)
        BY <3>1
      <4> QED BY <3>3, <3>4, <4>1 DEF Sorting
    <3>5. ASSUME cmp > 0
          PROVE  \A i \in 1 .. mid + 1 : cmps[i] > 0
      <4> SUFFICES ASSUME NEW i \in 1 .. mid + 1 PROVE cmps[i] > 0
        OBVIOUS
      <4>1. i \in 1 .. n /\ (i = mid + 1 \/ i < mid + 1)
        BY <3>1
      <4>2. cmps[i] \in Int
        BY <4>1 DEF Signs
      <4>3. i < mid + 1 /\ cmps[i] <= 0 => cmp < 0
        BY <3>3, <4>1 DEF Sorting
      <4> QED BY <3>3, <3>5, <4>1, <4>2, <4>3
    <3> HIDE DEF cmp
    <3>6. CASE cmp = 0
      <4>1. Right([found |-> 1, idx |-> mid])
        BY <2>0, <3>1, <3>6 DEF cmp
      <4> QED BY <3>2, <3>6, <4>1
    <3>7. CASE cmp < 0 /\ mid = lo
      <4>1. Right([found |-> 2, idx |-> mid])
        BY <2>00, <3>1, <3>4, <3>7
      <4> QED BY <3>2, <3>7, <4>1
    <3>8. CASE cmp < 0 /\ mid # lo
      <4>1. mid \in 0 .. n /\ lo < mid /\ mid - lo <= k
        BY <3>1, <3>8
      <4>2. Left(lo, mid)
        BY <3>4, <3>8
      <4>3. Right(probe[<<lo, mid>>])
        <5> HIDE DEF Left, Right
        <5> QED BY <2>3, <4>1, <4>2
      <4> QED BY <3>2, <3>8, <4>3
    <3>9. CASE cmp > 0 /\ mid = hi - 1
      <4>1. hi = mid + 1
        BY <3>1, <3>9
      <4>2. Right([found |-> 2, idx |-> hi])
        BY <2>00, <3>5, <3>9, <4>1
      <4> QED BY <3>2, <3>9, <4>2
    <3>10. CASE cmp > 0 /\ mid # hi - 1
      <4>1. mid \in 0 .. n /\ mid < hi /\ hi - mid <= k
        BY <3>1, <3>10
      <4>2. \A i \in 1 .. mid : i \in 1 .. mid + 1
        BY <3>1
      <4>3. Left(mid, hi)
        BY <3>5, <3>10, <4>2
      <4>4. Right(probe[<<mid, hi>>])
        <5> HIDE DEF Left, Right
        <5> QED BY <2>3, <4>1, <4>3
      <4> QED BY <3>2, <3>10, <4>4
    <3> QED BY <3>3, <3>6, <3>7, <3>8, <3>9, <3>10, SMTT(60)
  <2>4. Nat \subseteq T
    <3> HIDE DEF T
    <3> QED BY <2>2, <2>3, SetInduction
  <2>5. Left(0, n)
    OBVIOUS
  <2>6. n > 0
    <3>1. n # 0
      BY <1>2
    <3> QED BY <3>1
  <2>7. Right(probe[<<0, n>>])
    <3> HIDE DEF Left, Right
    <3>1. n \in T
      BY <2>4
    <3> QED BY <2>5, <2>6, <3>1
  <2> QED BY <2>1, <2>7
<1> QED BY <1>1, <1>2

------------------------------------------------------------------------------
(* Growth *)

\* Doubling ends, with enough room for one more item.
THEOREM GrownEnough ==
  ASSUME NEW a, Size(a) \in Nat, a.capacity \in Nat
  PROVE  Grown(a) \in Nat /\ Grown(a) >= Size(a) + 1 /\ Grown(a) >= a.capacity
<1> DEFINE req == Size(a) + 1
           start == IF a.capacity = 0 THEN 4 ELSE a.capacity * 2
           Up(g, c) == IF c < req THEN g[c * 2] ELSE c
           Above(k) == {c \in Nat : c = 0 \/ c + k >= req}
           Made(g, k) == g = [c \in Above(k) |-> Up(g, c)]
           T == {k \in Nat : \E g : Made(g, k)}
           made == CHOOSE g : g = [c \in Nat |-> Up(g, c)]
<1>1. req \in Nat /\ req > 0
  OBVIOUS
<1>2. start \in Nat /\ start > 0 /\ start >= a.capacity
  OBVIOUS
<1> HIDE DEF req, start
<1>3. 0 \in T
  <2> DEFINE g == [c \in Above(0) |-> c]
  <2>1. \A c \in Above(0) : g[c] = Up(g, c)
    BY <1>1
  <2>2. g = [c \in Above(0) |-> g[c]]
    OBVIOUS
  <2> HIDE DEF g, Above, Up
  <2>3. Made(g, 0)
    BY <2>1, <2>2
  <2> HIDE DEF Made
  <2> QED BY <2>3
<1>4. ASSUME NEW k \in Nat, k \in T PROVE k + 1 \in T
  <2>1. PICK g : Made(g, k)
    BY <1>4
  <2> DEFINE h == [c \in Above(k + 1) |-> Up(g, c)]
  <2>2. ASSUME NEW c \in Above(k) PROVE c \in Above(k + 1) /\ g[c] = Up(g, c)
    <3>1. c \in Above(k + 1)
      BY <1>1
    <3>2. g[c] = Up(g, c)
      <4> HIDE DEF Up, Above
      <4> QED BY <2>1
    <3> QED BY <3>1, <3>2
  <2>3. ASSUME NEW c \in Above(k) PROVE h[c] = g[c]
    <3> HIDE DEF Up, Above
    <3> QED BY <2>2
  <2>4. ASSUME NEW c \in Above(k + 1), c < req PROVE c * 2 \in Above(k)
    BY <1>1, <2>4
  <2>5. ASSUME NEW c \in Above(k + 1) PROVE Up(g, c) = Up(h, c)
    <3> HIDE DEF Above, h
    <3> QED BY <2>3, <2>4
  <2>6. h = [c \in Above(k + 1) |-> h[c]] /\ \A c \in Above(k + 1) : h[c] = Up(g, c)
    <3> HIDE DEF Up, Above
    <3> QED OBVIOUS
  <2>7. Made(h, k + 1)
    <3> HIDE DEF Up, Above, h
    <3> QED BY <2>5, <2>6
  <2> HIDE DEF h, Made
  <2> QED BY <2>7
<1>5. Nat \subseteq T
  <2> HIDE DEF T
  <2> QED BY <1>3, <1>4, SetInduction
<1>6. Above(req) = Nat
  BY <1>1
<1>7. \E g : g = [c \in Nat |-> Up(g, c)]
  <2> HIDE DEF Above, Up
  <2> QED BY <1>1, <1>5, <1>6
<1>8. made = [c \in Nat |-> Up(made, c)]
  <2> HIDE DEF Up
  <2> QED BY <1>7
<1>9. \A c \in Nat : made[c] = Up(made, c)
  <2> HIDE DEF Up, made
  <2> QED BY <1>8
<1>10. Grown(a) = IF a.capacity < req THEN made[start] ELSE a.capacity
  BY DEF Grown, req, start
<1> HIDE DEF made
\* The answer is reached from every capacity that is not 0.
<1> DEFINE W == {k \in Nat : \A c \in Nat \ {0} :
                   c + k >= req => made[c] \in Nat /\ made[c] >= req /\ made[c] >= c}
<1>11. 0 \in W
  BY <1>1, <1>9
<1>12. ASSUME NEW k \in Nat, k \in W PROVE k + 1 \in W
  <2> SUFFICES ASSUME NEW c \in Nat \ {0}, c + (k + 1) >= req
               PROVE  made[c] \in Nat /\ made[c] >= req /\ made[c] >= c
    OBVIOUS
  <2>1. CASE c < req
    <3>1. c * 2 \in Nat \ {0} /\ c * 2 + k >= req /\ c * 2 >= c
      BY <1>1
    <3>2. made[c * 2] \in Nat /\ made[c * 2] >= req /\ made[c * 2] >= c * 2
      BY <1>12, <3>1
    <3>3. made[c] = made[c * 2]
      BY <1>9, <2>1
    <3> QED BY <1>1, <3>1, <3>2, <3>3
  <2>2. CASE ~(c < req)
    BY <1>1, <1>9, <2>2
  <2> QED BY <2>1, <2>2
<1>13. Nat \subseteq W
  <2> HIDE DEF W
  <2> QED BY <1>11, <1>12, SetInduction
<1>14. made[start] \in Nat /\ made[start] >= req /\ made[start] >= start
  BY <1>1, <1>2, <1>13, SMTT(60)
<1>15. Grown(a) \in Nat /\ Grown(a) >= req /\ Grown(a) >= a.capacity
  BY <1>1, <1>2, <1>10, <1>14
<1> QED BY <1>15 DEF req

------------------------------------------------------------------------------
(* Arrays *)

Fields == {"data", "capacity", "sorted", "freecb"}

\* An array of elements of S that has not overrun its allocation.
IsArray(a, S) ==
  /\ DOMAIN a = Fields /\ a = [x \in Fields |-> a[x]]
  /\ a.data \in Seq(S) /\ a.capacity \in Nat
  /\ a.sorted \in BOOLEAN /\ a.freecb \in BOOLEAN
  /\ Size(a) <= a.capacity

\* The elements are in the order of their keys k, one for a key.
Rising(s, k) == \A i, j \in 1 .. Len(s) : i < j => k[s[i]] < k[s[j]]

\* What a comparator says of a key and each element.
Comparisons(key, s, k) == [i \in 1 .. Len(s) |-> Compare(key, k[s[i]])]

\* In a sequence whose keys rise no element and no key occurs twice.
LEMMA RisingDistinct ==
  ASSUME NEW S, NEW k \in [S -> Int], NEW s \in Seq(S), Rising(s, k)
  PROVE  /\ IsInjective(s)
         /\ \A i, j \in 1 .. Len(s) : k[s[i]] = k[s[j]] => i = j
<1>1. Len(s) \in Nat /\ DOMAIN s = 1 .. Len(s) /\ \A i \in 1 .. Len(s) : s[i] \in S
  BY LenProperties
<1>2. ASSUME NEW i \in 1 .. Len(s), NEW j \in 1 .. Len(s), k[s[i]] = k[s[j]]
      PROVE  i = j
  <2>1. k[s[i]] \in Int /\ k[s[j]] \in Int
    BY <1>1
  <2>2. ~(i < j) /\ ~(j < i)
    BY <1>2, <2>1 DEF Rising
  <2> QED BY <2>2
<1> QED BY <1>1, <1>2 DEF IsInjective

\* A comparator that orders by a number lets a binary search work.
LEMMA ComparisonsSort ==
  ASSUME NEW S, NEW k \in [S -> Int], NEW s \in Seq(S), Rising(s, k), NEW key \in Int
  PROVE  LET cmps == Comparisons(key, s, k)
         IN /\ Len(cmps) = Len(s) /\ Len(cmps) \in Nat /\ Signs(cmps) /\ Sorting(cmps)
            /\ \A i \in 1 .. Len(s) : /\ k[s[i]] \in Int
                                      /\ cmps[i] = 0 => key = k[s[i]]
                                      /\ cmps[i] > 0 => key > k[s[i]]
                                      /\ cmps[i] < 0 => key < k[s[i]]
<1> DEFINE cmps == Comparisons(key, s, k)
<1>1. Len(s) \in Nat /\ \A i \in 1 .. Len(s) : s[i] \in S /\ k[s[i]] \in Int
  BY LenProperties
<1>2. DOMAIN cmps = 1 .. Len(s) /\ \A i \in 1 .. Len(s) : cmps[i] = Compare(key, k[s[i]])
  BY DEF Comparisons
<1>3. \A i \in 1 .. Len(s) : cmps[i] \in {0, -1, 1}
  BY <1>2 DEF Compare
<1>4. cmps \in Seq({0, -1, 1}) /\ Len(cmps) = Len(s)
  <2>1. cmps \in [1 .. Len(s) -> {0, -1, 1}]
    <3>1. cmps = [i \in 1 .. Len(s) |-> cmps[i]]
      BY DEF Comparisons
    <3> HIDE DEF cmps
    <3> QED BY <1>3, <3>1
  <2>2. cmps \in Seq({0, -1, 1})
    <3> HIDE DEF cmps
    <3> QED BY <1>1, <2>1, SeqDef, SMTT(60)
  <2>3. Len(cmps) \in Nat /\ DOMAIN cmps = 1 .. Len(cmps)
    BY <2>2, LenProperties
  <2>4. 1 .. Len(cmps) = 1 .. Len(s)
    BY <1>2, <2>3
  <2>5. Len(cmps) = Len(s)
    <3> HIDE DEF cmps
    <3> QED BY <1>1, <2>3, <2>4
  <2> QED BY <2>2, <2>5
<1> HIDE DEF cmps
<1>5. \A i \in 1 .. Len(s) : /\ cmps[i] = 0 => key = k[s[i]]
                             /\ cmps[i] > 0 => key > k[s[i]]
                             /\ cmps[i] < 0 => key < k[s[i]]
  BY <1>1, <1>2 DEF Compare
<1>6. Sorting(cmps)
  <2> SUFFICES ASSUME NEW i \in 1 .. Len(s), NEW j \in 1 .. Len(s), i < j, cmps[i] <= 0
               PROVE  cmps[j] < 0
    BY <1>4 DEF Sorting
  <2>1. k[s[i]] < k[s[j]]
    BY DEF Rising
  <2>2. key <= k[s[i]]
    BY <1>1, <1>3, <1>5, SMTT(60)
  <2>3. key < k[s[j]]
    BY <1>1, <2>1, <2>2
  <2> QED BY <1>1, <1>2, <2>3 DEF Compare
<1>7. Signs(cmps)
  BY <1>3, <1>4 DEF Signs
<1> QED BY <1>1, <1>4, <1>5, <1>6, <1>7 DEF cmps

\* What the search says of a key in a sorted array.
LEMMA KeySearched ==
  ASSUME NEW S, NEW k \in [S -> Int], NEW s \in Seq(S), Rising(s, k), NEW key \in Int
  PROVE  LET at == SearchPrivate(Comparisons(key, s, k))
         IN \/ /\ at.found = 1 /\ at.idx \in 0 .. Len(s) - 1
               /\ at.idx + 1 \in 1 .. Len(s) /\ k[s[at.idx + 1]] = key
            \/ /\ at.found = 2 /\ at.idx \in 0 .. Len(s)
               /\ \A i \in 1 .. at.idx : k[s[i]] < key
               /\ \A i \in at.idx + 1 .. Len(s) : key < k[s[i]]
<1> DEFINE cmps == Comparisons(key, s, k)
           at == SearchPrivate(cmps)
<1>1. /\ Len(cmps) = Len(s) /\ Len(cmps) \in Nat /\ Signs(cmps) /\ Sorting(cmps)
      /\ \A i \in 1 .. Len(s) : /\ k[s[i]] \in Int
                                /\ cmps[i] = 0 => key = k[s[i]]
                                /\ cmps[i] > 0 => key > k[s[i]]
                                /\ cmps[i] < 0 => key < k[s[i]]
  BY ComparisonsSort
<1> HIDE DEF cmps
<1>2. \/ /\ at.found = 1 /\ at.idx \in 0 .. Len(cmps) - 1
         /\ cmps[at.idx + 1] = 0
      \/ /\ at.found = 2 /\ at.idx \in 0 .. Len(cmps)
         /\ \A i \in 1 .. at.idx : cmps[i] > 0
         /\ \A i \in at.idx + 1 .. Len(cmps) : cmps[i] < 0
  BY <1>1, SearchFinds
<1> HIDE DEF at
<1>3. CASE at.found = 1 /\ at.idx \in 0 .. Len(cmps) - 1 /\ cmps[at.idx + 1] = 0
  <2>1. at.idx + 1 \in 1 .. Len(s)
    BY <1>1, <1>3
  <2> QED BY <1>1, <1>3, <2>1 DEF at, cmps
<1>4. CASE /\ at.found = 2 /\ at.idx \in 0 .. Len(cmps)
           /\ \A i \in 1 .. at.idx : cmps[i] > 0
           /\ \A i \in at.idx + 1 .. Len(cmps) : cmps[i] < 0
  <2>1. /\ \A i \in 1 .. at.idx : i \in 1 .. Len(s)
        /\ \A i \in at.idx + 1 .. Len(s) : i \in 1 .. Len(s)
    BY <1>1, <1>4
  <2>2. /\ \A i \in 1 .. at.idx : k[s[i]] < key
        /\ \A i \in at.idx + 1 .. Len(s) : key < k[s[i]]
    BY <1>1, <1>4, <2>1
  <2> QED BY <1>1, <1>4, <2>2 DEF at, cmps
<1> QED BY <1>2, <1>3, <1>4

\* Nothing occurs twice, and the elements of a sorted array are in order.
Arranged(a, k) == IsInjective(a.data) /\ (a.sorted => Rising(a.data, k))

\* What an operation that is given the elements of new leaves of an array: what
\* it frees it has taken out.
Keeps(r, a, S, k, new) ==
  /\ IsArray(r.a, S) /\ Arranged(r.a, k)
  /\ r.freed \subseteq ToSet(a.data)
  /\ r.freed \cap ToSet(r.a.data) = {}
  /\ ToSet(r.a.data) \subseteq ToSet(a.data) \cup new

\* A sequence and its elements.
LEMMA Elements ==
  ASSUME NEW S, NEW s \in Seq(S)
  PROVE  /\ Len(s) \in Nat /\ DOMAIN s = 1 .. Len(s)
         /\ \A i \in 1 .. Len(s) : s[i] \in S /\ s[i] \in ToSet(s)
         /\ \A e \in ToSet(s) : e \in S /\ \E i \in 1 .. Len(s) : e = s[i]
<1>1. Len(s) \in Nat /\ DOMAIN s = 1 .. Len(s) /\ \A i \in 1 .. Len(s) : s[i] \in S
  BY LenProperties
<1> QED BY <1>1 DEF ToSet

\* An element put in at i, in order when the others are.
LEMMA InsertedInOrder ==
  ASSUME NEW S, NEW k \in [S -> Int], NEW s \in Seq(S), NEW i \in 1 .. Len(s) + 1,
         NEW e \in S, e \notin ToSet(s), IsInjective(s)
  PROVE  LET t == InsertAt(s, i, e)
         IN /\ t \in Seq(S) /\ Len(t) = Len(s) + 1
            /\ IsInjective(t) /\ ToSet(t) = ToSet(s) \cup {e}
            /\ (/\ Rising(s, k)
                /\ \A j \in 1 .. i - 1 : k[s[j]] < k[e]
                /\ \A j \in i .. Len(s) : k[e] < k[s[j]]) => Rising(t, k)
<1> DEFINE t == InsertAt(s, i, e)
<1>1. /\ t \in Seq(S) /\ Len(t) = Len(s) + 1
      /\ \A j \in 1 .. i - 1 : t[j] = s[j]
      /\ t[i] = e
      /\ \A j \in i + 1 .. Len(s) + 1 : t[j] = s[j - 1]
  BY Inserted, SMTT(60)
<1> HIDE DEF t
<1>2. /\ Len(s) \in Nat /\ DOMAIN s = 1 .. Len(s)
      /\ \A j \in 1 .. Len(s) : s[j] \in S /\ s[j] \in ToSet(s)
      /\ \A x \in ToSet(s) : x \in S /\ \E j \in 1 .. Len(s) : x = s[j]
  BY Elements
<1>3. /\ DOMAIN t = 1 .. Len(s) + 1
      /\ \A j \in 1 .. Len(s) + 1 : t[j] \in S /\ t[j] \in ToSet(t)
      /\ \A x \in ToSet(t) : x \in S /\ \E j \in 1 .. Len(s) + 1 : x = t[j]
  BY <1>1, Elements
\* Where the elements come from.
<1> DEFINE From(j) == IF j < i THEN j ELSE j - 1
           To(j) == IF j < i THEN j ELSE j + 1
<1>4. ASSUME NEW j \in 1 .. Len(s) + 1, j # i
      PROVE  From(j) \in 1 .. Len(s) /\ t[j] = s[From(j)]
  <2>1. j < i \/ j > i
    BY <1>4
  <2> QED BY <1>1, <1>2, <2>1
<1>5. ASSUME NEW j \in 1 .. Len(s)
      PROVE  To(j) \in 1 .. Len(s) + 1 /\ To(j) # i /\ From(To(j)) = j
  BY <1>2
<1>6. ASSUME NEW j \in 1 .. Len(s) + 1, NEW l \in 1 .. Len(s) + 1, j # i, l # i
      PROVE  /\ j < l => From(j) < From(l)
             /\ From(j) = From(l) => j = l
  BY <1>2, <1>6
<1>7. \A j \in 1 .. Len(s) : t[To(j)] = s[j]
  <2> HIDE DEF From, To
  <2> QED BY <1>4, <1>5
<1>8. /\ \A j \in 1 .. Len(s) + 1 : j < i => From(j) \in 1 .. i - 1
      /\ \A j \in 1 .. Len(s) + 1 : j > i => From(j) \in i .. Len(s)
  BY <1>2
<1> HIDE DEF From, To
<1>9. ToSet(t) = ToSet(s) \cup {e}
  <2>1. ASSUME NEW x \in ToSet(t) PROVE x \in ToSet(s) \cup {e}
    <3>1. PICK j \in 1 .. Len(s) + 1 : x = t[j]
      BY <1>3
    <3> QED BY <1>1, <1>2, <1>4, <3>1
  <2>2. ASSUME NEW x \in ToSet(s) PROVE x \in ToSet(t)
    <3>1. PICK j \in 1 .. Len(s) : x = s[j]
      BY <1>2
    <3> QED BY <1>3, <1>5, <1>7, <3>1
  <2>3. e \in ToSet(t)
    <3>1. i \in 1 .. Len(s) + 1
      OBVIOUS
    <3> QED BY <1>1, <1>3, <3>1
  <2> QED BY <2>1, <2>2, <2>3
<1>10. IsInjective(t)
  <2> SUFFICES ASSUME NEW j \in 1 .. Len(s) + 1, NEW l \in 1 .. Len(s) + 1, t[j] = t[l]
               PROVE  j = l
    BY <1>3 DEF IsInjective
  <2>1. CASE j # i /\ l # i
    <3>1. s[From(j)] = s[From(l)] /\ From(j) \in DOMAIN s /\ From(l) \in DOMAIN s
      BY <1>2, <1>4, <2>1
    <3>2. From(j) = From(l)
      BY <3>1 DEF IsInjective
    <3> QED BY <1>6, <2>1, <3>2
  <2>2. CASE j = i /\ l # i
    BY <1>1, <1>2, <1>4, <2>2
  <2>3. CASE j # i /\ l = i
    BY <1>1, <1>2, <1>4, <2>3
  <2> QED BY <2>1, <2>2, <2>3
<1>11. ASSUME Rising(s, k),
              \A j \in 1 .. i - 1 : k[s[j]] < k[e],
              \A j \in i .. Len(s) : k[e] < k[s[j]]
       PROVE  Rising(t, k)
  <2> SUFFICES ASSUME NEW j \in 1 .. Len(s) + 1, NEW l \in 1 .. Len(s) + 1, j < l
               PROVE  k[t[j]] < k[t[l]]
    BY <1>1 DEF Rising
  <2>1. CASE j # i /\ l # i
    <3>1. From(j) \in 1 .. Len(s) /\ From(l) \in 1 .. Len(s) /\ From(j) < From(l)
      BY <1>4, <1>6, <2>1
    <3>2. k[s[From(j)]] < k[s[From(l)]]
      BY <1>11, <3>1 DEF Rising
    <3> QED BY <1>4, <2>1, <3>2
  <2>2. CASE j = i
    <3>1. l # i /\ l > i
      BY <2>2
    <3> QED BY <1>1, <1>4, <1>8, <1>11, <2>2, <3>1
  <2>3. CASE l = i
    <3>1. j # i /\ j < i
      BY <2>3
    <3> QED BY <1>1, <1>4, <1>8, <1>11, <2>3, <3>1
  <2> QED BY <2>1, <2>2, <2>3
<1> QED BY <1>1, <1>9, <1>10, <1>11 DEF t

\* What the sequence left by an element keeps of the sequence it was in.
Without(t, s, i, S, k) ==
  /\ t \in Seq(S) /\ Len(t) = Len(s) - 1
  /\ IsInjective(t) /\ ToSet(t) = ToSet(s) \ {s[i]}
  /\ Rising(s, k) => Rising(t, k)

\* An element taken out.
LEMMA RemovedInOrder ==
  ASSUME NEW S, NEW k \in [S -> Int], NEW s \in Seq(S), NEW i \in 1 .. Len(s), IsInjective(s)
  PROVE  Without(RemoveAt(s, i), s, i, S, k)
<1> DEFINE t == RemoveAt(s, i)
           From(j) == IF j < i THEN j ELSE j + 1
           To(j) == IF j < i THEN j ELSE j - 1
<1>1. /\ t \in Seq(S) /\ Len(t) = Len(s) - 1
      /\ \A j \in 1 .. i - 1 : t[j] = s[j]
      /\ \A j \in i .. Len(s) - 1 : t[j] = s[j + 1]
  BY Removed
<1> HIDE DEF t
<1>2. /\ Len(s) \in Nat /\ DOMAIN s = 1 .. Len(s)
      /\ \A j \in 1 .. Len(s) : s[j] \in S /\ s[j] \in ToSet(s)
      /\ \A x \in ToSet(s) : x \in S /\ \E j \in 1 .. Len(s) : x = s[j]
  BY Elements
<1>3. /\ DOMAIN t = 1 .. Len(s) - 1
      /\ \A j \in 1 .. Len(s) - 1 : t[j] \in S /\ t[j] \in ToSet(t)
      /\ \A x \in ToSet(t) : x \in S /\ \E j \in 1 .. Len(s) - 1 : x = t[j]
  BY <1>1, Elements, SMTT(60)
<1>4. ASSUME NEW j \in 1 .. Len(s) - 1
      PROVE  From(j) \in 1 .. Len(s) /\ From(j) # i /\ t[j] = s[From(j)]
  <2>1. CASE j \in 1 .. i - 1
    <3>1. t[j] = s[j]
      BY <1>1, <2>1
    <3> QED BY <1>2, <2>1, <3>1
  <2>2. CASE j \in i .. Len(s) - 1
    <3>1. t[j] = s[j + 1]
      BY <1>1, <2>2
    <3> QED BY <1>2, <2>2, <3>1, SMTT(60)
  <2> QED BY <1>2, <2>1, <2>2
<1>5. ASSUME NEW j \in 1 .. Len(s), j # i
      PROVE  To(j) \in 1 .. Len(s) - 1 /\ From(To(j)) = j
  BY <1>2, <1>5
<1>6. ASSUME NEW j \in 1 .. Len(s) - 1, NEW l \in 1 .. Len(s) - 1
      PROVE  /\ j < l => From(j) < From(l)
             /\ From(j) = From(l) => j = l
  BY <1>2
<1> HIDE DEF From, To
<1>7. ToSet(t) = ToSet(s) \ {s[i]}
  <2>1. ASSUME NEW x \in ToSet(t) PROVE x \in ToSet(s) /\ x # s[i]
    <3>1. PICK j \in 1 .. Len(s) - 1 : x = t[j]
      BY <1>3
    <3>2. x = s[From(j)] /\ From(j) \in DOMAIN s /\ i \in DOMAIN s /\ From(j) # i
      BY <1>2, <1>4, <3>1
    <3> QED BY <1>2, <3>2 DEF IsInjective
  <2>2. ASSUME NEW x \in ToSet(s), x # s[i] PROVE x \in ToSet(t)
    <3>1. PICK j \in 1 .. Len(s) : x = s[j]
      BY <1>2
    <3>2. j # i
      BY <2>2, <3>1
    <3> QED BY <1>3, <1>4, <1>5, <3>1, <3>2
  <2> QED BY <2>1, <2>2
<1>8. IsInjective(t)
  <2> SUFFICES ASSUME NEW j \in 1 .. Len(s) - 1, NEW l \in 1 .. Len(s) - 1, t[j] = t[l]
               PROVE  j = l
    BY <1>3 DEF IsInjective
  <2>1. s[From(j)] = s[From(l)] /\ From(j) \in DOMAIN s /\ From(l) \in DOMAIN s
    BY <1>2, <1>4
  <2>2. From(j) = From(l)
    BY <2>1 DEF IsInjective
  <2> QED BY <1>6, <2>2
<1>9. ASSUME Rising(s, k) PROVE Rising(t, k)
  <2> SUFFICES ASSUME NEW j \in 1 .. Len(s) - 1, NEW l \in 1 .. Len(s) - 1, j < l
               PROVE  k[t[j]] < k[t[l]]
    BY <1>1 DEF Rising
  <2>1. From(j) \in 1 .. Len(s) /\ From(l) \in 1 .. Len(s) /\ From(j) < From(l)
    BY <1>4, <1>6
  <2>2. k[s[From(j)]] < k[s[From(l)]]
    BY <1>9, <2>1 DEF Rising
  <2> QED BY <1>4, <2>2
<1> QED BY <1>1, <1>7, <1>8, <1>9 DEF t, Without

\* An element put in the place of another one, and of the same key if that
\* matters.
LEMMA Replaced ==
  ASSUME NEW S, NEW k \in [S -> Int], NEW s \in Seq(S), NEW i \in 1 .. Len(s), NEW e \in S,
         IsInjective(s), e \in ToSet(s) => e = s[i]
  PROVE  LET t == [s EXCEPT ![i] = e]
         IN /\ t \in Seq(S) /\ Len(t) = Len(s)
            /\ IsInjective(t) /\ ToSet(t) = (ToSet(s) \ {s[i]}) \cup {e}
            /\ Rising(s, k) /\ k[s[i]] = k[e] => Rising(t, k)
<1> DEFINE t == [s EXCEPT ![i] = e]
<1>1. /\ Len(s) \in Nat /\ DOMAIN s = 1 .. Len(s)
      /\ \A j \in 1 .. Len(s) : s[j] \in S /\ s[j] \in ToSet(s)
      /\ \A x \in ToSet(s) : x \in S /\ \E j \in 1 .. Len(s) : x = s[j]
  BY Elements
<1>2. t \in Seq(S) /\ Len(t) = Len(s)
      /\ \A j \in 1 .. Len(s) : t[j] = IF j = i THEN e ELSE s[j]
  BY ExceptSeq
<1> HIDE DEF t
<1>3. /\ DOMAIN t = 1 .. Len(s)
      /\ \A j \in 1 .. Len(s) : t[j] \in S /\ t[j] \in ToSet(t)
      /\ \A x \in ToSet(t) : x \in S /\ \E j \in 1 .. Len(s) : x = t[j]
  BY <1>2, Elements
<1>4. \A j, l \in 1 .. Len(s) : s[j] = s[l] => j = l
  BY <1>1 DEF IsInjective
<1>5. ToSet(t) = (ToSet(s) \ {s[i]}) \cup {e}
  <2>1. ASSUME NEW x \in ToSet(t) PROVE x \in (ToSet(s) \ {s[i]}) \cup {e}
    <3>1. PICK j \in 1 .. Len(s) : x = t[j]
      BY <1>3
    <3> QED BY <1>1, <1>2, <1>4, <3>1
  <2>2. ASSUME NEW x \in ToSet(s), x # s[i] PROVE x \in ToSet(t)
    <3>1. PICK j \in 1 .. Len(s) : x = s[j]
      BY <1>1
    <3> QED BY <1>2, <1>3, <2>2, <3>1
  <2>3. e \in ToSet(t)
    BY <1>2, <1>3
  <2> QED BY <2>1, <2>2, <2>3
<1>6. IsInjective(t)
  <2> SUFFICES ASSUME NEW j \in 1 .. Len(s), NEW l \in 1 .. Len(s), t[j] = t[l]
               PROVE  j = l
    BY <1>3 DEF IsInjective
  <2>1. t[j] = (IF j = i THEN e ELSE s[j]) /\ t[l] = (IF l = i THEN e ELSE s[l])
    BY <1>2
  <2>2. s[j] \in ToSet(s) /\ s[l] \in ToSet(s)
    BY <1>1
  <2>3. CASE j # i /\ l # i
    BY <1>4, <2>1, <2>3
  <2>4. CASE j = i /\ l # i
    BY <1>4, <2>1, <2>2, <2>4
  <2>5. CASE j # i /\ l = i
    BY <1>4, <2>1, <2>2, <2>5
  <2> QED BY <2>3, <2>4, <2>5
<1>7. ASSUME Rising(s, k), k[s[i]] = k[e] PROVE Rising(t, k)
  <2>1. \A j \in 1 .. Len(s) : k[t[j]] = k[s[j]]
    BY <1>2, <1>7
  <2> QED BY <1>2, <1>7, <2>1 DEF Rising
<1> QED BY <1>2, <1>5, <1>6, <1>7 DEF t

\* An array whose fields are known but for its elements and its capacity.
LEMMA ArrayMade ==
  ASSUME NEW S, NEW k \in [S -> Int], NEW a, IsArray(a, S),
         NEW c \in Nat, NEW s \in Seq(S), Len(s) <= c, IsInjective(s),
         a.sorted => Rising(s, k)
  PROVE  /\ LET b == [a EXCEPT !.capacity = c]
            IN  b.data = a.data /\ IsArray([b EXCEPT !.data = s], S)
                /\ [b EXCEPT !.data = s].data = s
                /\ Arranged([b EXCEPT !.data = s], k)
         /\ LET b == [a EXCEPT !.capacity = c, !.data = s]
            IN  IsArray(b, S) /\ Arranged(b, k) /\ b.data = s
<1>1. DOMAIN a = Fields /\ a = [x \in Fields |-> a[x]]
  BY DEF IsArray
<1>2. a.sorted \in BOOLEAN /\ a.freecb \in BOOLEAN
  BY DEF IsArray
<1> DEFINE b == [a EXCEPT !.capacity = c]
           d == [b EXCEPT !.data = s]
           e == [a EXCEPT !.capacity = c, !.data = s]
<1>3. /\ DOMAIN b = Fields /\ b = [x \in Fields |-> b[x]]
      /\ b.capacity = c /\ b.data = a.data /\ b.sorted = a.sorted /\ b.freecb = a.freecb
  BY <1>1 DEF Fields
<1> HIDE DEF b
<1>4. /\ DOMAIN d = Fields /\ d = [x \in Fields |-> d[x]]
      /\ d.capacity = c /\ d.data = s /\ d.sorted = a.sorted /\ d.freecb = a.freecb
  BY <1>3 DEF Fields
<1>5. /\ DOMAIN e = Fields /\ e = [x \in Fields |-> e[x]]
      /\ e.capacity = c /\ e.data = s /\ e.sorted = a.sorted /\ e.freecb = a.freecb
  BY <1>1 DEF Fields
<1> HIDE DEF d, e
<1>6. IsArray(d, S) /\ Arranged(d, k)
  BY <1>2, <1>4 DEF IsArray, Arranged, Size
<1>7. IsArray(e, S) /\ Arranged(e, k)
  BY <1>2, <1>5 DEF IsArray, Arranged, Size
<1> QED BY <1>3, <1>4, <1>5, <1>6, <1>7 DEF b, d, e

\* Only the elements change.
LEMMA DataSet ==
  ASSUME NEW S, NEW k \in [S -> Int], NEW a, IsArray(a, S),
         NEW s \in Seq(S), Len(s) <= a.capacity, IsInjective(s),
         a.sorted => Rising(s, k)
  PROVE  LET b == [a EXCEPT !.data = s]
         IN  IsArray(b, S) /\ Arranged(b, k) /\ b.data = s
<1> DEFINE b == [a EXCEPT !.data = s]
<1>1. DOMAIN a = Fields /\ a = [x \in Fields |-> a[x]]
  BY DEF IsArray
<1>2. /\ DOMAIN b = Fields /\ b = [x \in Fields |-> b[x]]
      /\ b.capacity = a.capacity /\ b.data = s /\ b.sorted = a.sorted /\ b.freecb = a.freecb
  BY <1>1 DEF Fields
<1> HIDE DEF b
<1>3. a.sorted \in BOOLEAN /\ a.freecb \in BOOLEAN /\ a.capacity \in Nat
  BY DEF IsArray
<1>4. IsArray(b, S) /\ Arranged(b, k)
  BY <1>2, <1>3 DEF IsArray, Arranged, Size
<1> QED BY <1>2, <1>4 DEF b

\* A call that leaves the array alone keeps everything.
LEMMA SameKeeps ==
  ASSUME NEW S, NEW k, NEW a, IsArray(a, S), Arranged(a, k), NEW ret, NEW new
  PROVE  Keeps(Same(a, ret), a, S, k, new)
BY DEF Keeps, Same

\* InsertAt, of an element that is not in the array, in order.
LEMMA InsertKeeps ==
  ASSUME NEW S, NEW k \in [S -> Int], NEW a, IsArray(a, S), Arranged(a, k),
         NEW e \in S, e \notin ToSet(a.data), NEW idx \in Nat, NEW ok \in BOOLEAN,
         a.sorted => /\ \A j \in 1 .. idx : k[a.data[j]] < k[e]
                     /\ \A j \in idx + 1 .. Len(a.data) : k[e] < k[a.data[j]]
  PROVE  Keeps(InsertAtPrivate(a, e, idx, ok), a, S, k, {e})
<1> DEFINE b == [a EXCEPT !.capacity = Grown(a)]
           r == InsertAtPrivate(a, e, idx, ok)
           t == InsertAt(a.data, idx + 1, e)
<1>1. /\ a.data \in Seq(S) /\ a.capacity \in Nat /\ a.sorted \in BOOLEAN
      /\ Len(a.data) <= a.capacity /\ Len(a.data) \in Nat
      /\ IsInjective(a.data) /\ (a.sorted => Rising(a.data, k))
  BY LenProperties DEF IsArray, Arranged, Size
<1>2. Grown(a) \in Nat /\ Grown(a) >= Len(a.data) + 1
  BY <1>1, GrownEnough DEF Size
<1>3. CASE ~CanHold(a, ok)
  <2>1. r = Same(a, NULL)
    BY <1>3 DEF InsertAtPrivate
  <2> HIDE DEF r
  <2> QED BY <2>1, SameKeeps DEF r
<1>4. CASE CanHold(a, ok) /\ idx > Len(a.data)
  <2>1. r = Same(b, NULL)
    BY <1>4 DEF InsertAtPrivate, Size
  <2>2. [b EXCEPT !.data = a.data] = b /\ b.data = a.data
    BY DEF IsArray, Fields
  <2>3. IsArray([b EXCEPT !.data = a.data], S) /\ Arranged([b EXCEPT !.data = a.data], k)
    <3>1. Len(a.data) <= Grown(a)
      BY <1>1, <1>2
    <3> QED BY <1>1, <1>2, <3>1, ArrayMade
  <2> HIDE DEF r, b
  <2>4. IsArray(b, S) /\ Arranged(b, k)
    BY <2>2, <2>3
  <2> QED BY <2>1, <2>2, <2>4 DEF Keeps, Same, r
<1>5. CASE CanHold(a, ok) /\ ~(idx > Len(a.data))
  <2>1. r = Same([b EXCEPT !.data = InsertAt(b.data, idx + 1, e)], e)
    BY <1>5 DEF InsertAtPrivate, Size
  <2>2. idx + 1 \in 1 .. Len(a.data) + 1 /\ idx + 1 - 1 = idx
    BY <1>1, <1>5
  <2>3. /\ t \in Seq(S) /\ Len(t) = Len(a.data) + 1
        /\ IsInjective(t) /\ ToSet(t) = ToSet(a.data) \cup {e}
        /\ (/\ Rising(a.data, k)
            /\ \A j \in 1 .. idx + 1 - 1 : k[a.data[j]] < k[e]
            /\ \A j \in idx + 1 .. Len(a.data) : k[e] < k[a.data[j]]) => Rising(t, k)
    <3> DEFINE p == idx + 1
               d == a.data
    <3>1. p \in 1 .. Len(d) + 1 /\ d \in Seq(S) /\ IsInjective(d) /\ e \notin ToSet(d)
      BY <1>1, <2>2
    <3> HIDE DEF p, d
    <3>2. LET u == InsertAt(d, p, e)
          IN /\ u \in Seq(S) /\ Len(u) = Len(d) + 1
             /\ IsInjective(u) /\ ToSet(u) = ToSet(d) \cup {e}
             /\ (/\ Rising(d, k)
                 /\ \A j \in 1 .. p - 1 : k[d[j]] < k[e]
                 /\ \A j \in p .. Len(d) : k[e] < k[d[j]]) => Rising(u, k)
      BY <3>1, InsertedInOrder
    <3> QED BY <3>2 DEF p, d
  <2>4. a.sorted => Rising(t, k)
    BY <1>1, <2>2, <2>3
  <2> HIDE DEF t
  <2>5. /\ b.data = a.data /\ IsArray([b EXCEPT !.data = t], S)
        /\ [b EXCEPT !.data = t].data = t
        /\ Arranged([b EXCEPT !.data = t], k)
    <3>1. Len(t) <= Grown(a)
      BY <1>1, <1>2, <2>3
    <3>2. IsArray([b EXCEPT !.data = t], S)
      BY <1>2, <2>3, <2>4, <3>1, ArrayMade
    <3>3. b.data = a.data /\ [b EXCEPT !.data = t].data = t
      BY DEF IsArray, Fields
    <3>4. Arranged([b EXCEPT !.data = t], k)
      BY <1>2, <2>3, <2>4, <3>1, ArrayMade
    <3> QED BY <3>2, <3>3, <3>4
  <2> HIDE DEF b
  <2>6. r.a = [b EXCEPT !.data = t] /\ r.freed = {}
    BY <2>1, <2>5 DEF Same, t
  <2> HIDE DEF r
  <2>7. Keeps(r, a, S, k, {e})
    BY <2>3, <2>5, <2>6 DEF Keeps
  <2> QED BY <2>7 DEF r
<1> QED BY <1>3, <1>4, <1>5

\* RemoveAt.
LEMMA RemoveAtKeeps ==
  ASSUME NEW S, NEW k \in [S -> Int], NEW a, IsArray(a, S), Arranged(a, k), NEW idx \in Nat
  PROVE  Keeps(ArrayRemoveAt(a, idx), a, S, k, {})
<1> DEFINE r == ArrayRemoveAt(a, idx)
           t == RemoveAt(a.data, idx + 1)
<1>1. /\ a.data \in Seq(S) /\ a.capacity \in Nat /\ a.sorted \in BOOLEAN
      /\ Len(a.data) <= a.capacity /\ Len(a.data) \in Nat
      /\ IsInjective(a.data) /\ (a.sorted => Rising(a.data, k))
  BY LenProperties DEF IsArray, Arranged, Size
<1>2. CASE idx >= Len(a.data)
  <2>1. r = Same(a, NULL)
    BY <1>2 DEF ArrayRemoveAt, Size
  <2> HIDE DEF r
  <2> QED BY <2>1, SameKeeps DEF r
<1>3. CASE ~(idx >= Len(a.data))
  <2>1. r = Same([a EXCEPT !.data = t], a.data[idx + 1])
    BY <1>3 DEF ArrayRemoveAt, Size
  <2>2. idx + 1 \in 1 .. Len(a.data)
    BY <1>1, <1>3
  <2>3. /\ t \in Seq(S) /\ Len(t) = Len(a.data) - 1
        /\ IsInjective(t) /\ ToSet(t) \subseteq ToSet(a.data)
        /\ Rising(a.data, k) => Rising(t, k)
    <3>1. Without(t, a.data, idx + 1, S, k)
      BY <1>1, <2>2, RemovedInOrder
    <3> QED BY <3>1 DEF Without
  <2> HIDE DEF t
  <2>4. /\ IsArray([a EXCEPT !.data = t], S) /\ Arranged([a EXCEPT !.data = t], k)
        /\ [a EXCEPT !.data = t].data = t
    <3>1. Len(t) <= a.capacity
      BY <1>1, <2>3
    <3> QED BY <1>1, <2>3, <3>1, DataSet, SMTT(60)
  <2> HIDE DEF r
  <2>5. Keeps(r, a, S, k, {})
    BY <2>1, <2>3, <2>4 DEF Keeps, Same
  <2> QED BY <2>5 DEF r
<1> QED BY <1>2, <1>3

\* SetAt, of an element that is not in the array.
LEMMA SetAtKeeps ==
  ASSUME NEW S, NEW k \in [S -> Int], NEW a, IsArray(a, S), Arranged(a, k),
         NEW e \in S, e \notin ToSet(a.data), NEW idx \in Nat
  PROVE  Keeps(ArraySetAt(a, e, idx), a, S, k, {e})
<1> DEFINE r == ArraySetAt(a, e, idx)
           t == [a.data EXCEPT ![idx + 1] = e]
<1>1. /\ a.data \in Seq(S) /\ a.capacity \in Nat /\ a.sorted \in BOOLEAN
      /\ Len(a.data) <= a.capacity /\ Len(a.data) \in Nat
      /\ IsInjective(a.data) /\ (a.sorted => Rising(a.data, k))
  BY LenProperties DEF IsArray, Arranged, Size
<1>2. CASE a.sorted \/ idx >= Len(a.data)
  <2>1. r = Same(a, NULL)
    BY <1>2 DEF ArraySetAt, Size
  <2> HIDE DEF r
  <2> QED BY <2>1, SameKeeps DEF r
<1>3. CASE ~(a.sorted \/ idx >= Len(a.data))
  <2>1. r = Same([a EXCEPT !.data[idx + 1] = e], a.data[idx + 1])
    BY <1>3 DEF ArraySetAt, Size
  <2>2. idx + 1 \in 1 .. Len(a.data)
    BY <1>1, <1>3
  <2>3. /\ t \in Seq(S) /\ Len(t) = Len(a.data) /\ IsInjective(t)
        /\ ToSet(t) \subseteq ToSet(a.data) \cup {e}
    BY <1>1, <2>2, Replaced, SMTT(60)
  <2>4. [a EXCEPT !.data[idx + 1] = e] = [a EXCEPT !.data = t]
    BY DEF IsArray, Fields
  <2> HIDE DEF t
  <2>5. /\ IsArray([a EXCEPT !.data = t], S) /\ Arranged([a EXCEPT !.data = t], k)
        /\ [a EXCEPT !.data = t].data = t
    <3>1. Len(t) <= a.capacity /\ (a.sorted => Rising(t, k))
      BY <1>1, <1>3, <2>3
    <3> QED BY <1>1, <2>3, <3>1, DataSet
  <2>6. r.a = [a EXCEPT !.data = t] /\ r.freed = {}
    BY <2>1, <2>4 DEF Same
  <2> HIDE DEF r
  <2>7. Keeps(r, a, S, k, {e})
    BY <2>3, <2>5, <2>6 DEF Keeps
  <2> QED BY <2>7 DEF r
<1> QED BY <1>2, <1>3

\* Clear.
LEMMA ClearKeeps ==
  ASSUME NEW S, NEW k \in [S -> Int], NEW a, IsArray(a, S), Arranged(a, k)
  PROVE  Keeps(ArrayClear(a), a, S, k, {})
<1> DEFINE r == ArrayClear(a)
<1>1. a.capacity \in Nat
  BY DEF IsArray
<1>2. << >> \in Seq(S) /\ Len(<< >>) = 0 /\ IsInjective(<< >>) /\ Rising(<< >>, k) /\ ToSet(<< >>) = {}
  BY DEF IsInjective, Rising, ToSet
<1>3. /\ IsArray([a EXCEPT !.data = << >>], S) /\ Arranged([a EXCEPT !.data = << >>], k)
      /\ [a EXCEPT !.data = << >>].data = << >>
  <2>1. Len(<< >>) <= a.capacity
    BY <1>1
  <2> QED BY <1>2, <2>1, DataSet, ZenonT(60)
<1>4. r.a = [a EXCEPT !.data = << >>] /\ r.freed \subseteq ToSet(a.data)
  BY DEF ArrayClear, Freeable
<1> HIDE DEF r
<1>5. Keeps(r, a, S, k, {})
  BY <1>2, <1>3, <1>4 DEF Keeps
<1> QED BY <1>5 DEF r

\* Add: in a sorted array an element takes the place of the one of its key,
\* which is freed unless it is handed out, or goes in where it belongs.
LEMMA AddKeeps ==
  ASSUME NEW S, NEW k \in [S -> Int], NEW a, IsArray(a, S), Arranged(a, k),
         NEW e \in S, e \notin ToSet(a.data) \/ a.sorted,
         NEW want \in BOOLEAN, NEW ok \in BOOLEAN
  PROVE  Keeps(ArrayAdd(a, e, want, ok, Comparisons(k[e], a.data, k)), a, S, k, {e})
<1> DEFINE cmps == Comparisons(k[e], a.data, k)
           at == SearchPrivate(cmps)
           old == a.data[at.idx + 1]
           r == ArrayAdd(a, e, want, ok, cmps)
<1>1. /\ a.data \in Seq(S) /\ a.capacity \in Nat /\ a.sorted \in BOOLEAN
      /\ Len(a.data) <= a.capacity /\ Len(a.data) \in Nat
      /\ IsInjective(a.data) /\ (a.sorted => Rising(a.data, k))
  BY LenProperties DEF IsArray, Arranged, Size
<1>2. k[e] \in Int
  OBVIOUS
<1>3. CASE a.sorted
  <2>1. \/ /\ at.found = 1 /\ at.idx \in 0 .. Len(a.data) - 1
           /\ at.idx + 1 \in 1 .. Len(a.data) /\ k[a.data[at.idx + 1]] = k[e]
        \/ /\ at.found = 2 /\ at.idx \in 0 .. Len(a.data)
           /\ \A i \in 1 .. at.idx : k[a.data[i]] < k[e]
           /\ \A i \in at.idx + 1 .. Len(a.data) : k[e] < k[a.data[i]]
    BY <1>1, <1>2, <1>3, KeySearched
  <2>2. /\ at.found = 1 =>
             r = [a |-> [a EXCEPT !.data[at.idx + 1] = e], ret |-> TRUE,
                  freed |-> IF ~want /\ a.freecb /\ old # e THEN {old} ELSE {}]
        /\ at.found = 2 =>
             r = Same(InsertAtPrivate(a, e, at.idx, ok).a, InsertAtPrivate(a, e, at.idx, ok).ret # NULL)
    BY <1>3 DEF ArrayAdd
  <2> HIDE DEF r, at, cmps
  <2>3. \A i \in 1 .. Len(a.data) : a.data[i] \in S /\ a.data[i] \in ToSet(a.data) /\ k[a.data[i]] \in Int
    BY <1>1, Elements
  <2>4. CASE /\ at.found = 1 /\ at.idx \in 0 .. Len(a.data) - 1
             /\ at.idx + 1 \in 1 .. Len(a.data) /\ k[old] = k[e]
    <3> DEFINE p == at.idx + 1
               t == [a.data EXCEPT ![p] = e]
    <3>1. e \in ToSet(a.data) => e = old
      <4> SUFFICES ASSUME e \in ToSet(a.data) PROVE e = old
        OBVIOUS
      <4>1. PICK i \in 1 .. Len(a.data) : e = a.data[i]
        BY <1>1, Elements
      <4>2. i = at.idx + 1
        BY <1>1, <1>3, <2>4, <4>1, RisingDistinct, SMTT(60)
      <4> QED BY <4>1, <4>2
    <3>2. [a EXCEPT !.data[p] = e] = [a EXCEPT !.data = t]
      BY DEF IsArray, Fields
    <3>3. p \in 1 .. Len(a.data) /\ a.data[p] = old
      BY <2>4
    <3> HIDE DEF p, old
    <3>4. /\ t \in Seq(S) /\ Len(t) = Len(a.data) /\ IsInjective(t)
          /\ ToSet(t) = (ToSet(a.data) \ {old}) \cup {e}
          /\ Rising(t, k)
      <4>1. k[a.data[p]] = k[e] /\ Rising(a.data, k) /\ IsInjective(a.data)
        BY <1>1, <1>3, <2>4 DEF p, old
      <4>2. t \in Seq(S) /\ Len(t) = Len(a.data)
        BY <1>1, <3>3, ExceptSeq
      <4>3. Rising(a.data, k) /\ k[a.data[p]] = k[e] => Rising(t, k)
        BY <1>1, <3>1, <3>3, Replaced
      <4>4. IsInjective(t)
        BY <1>1, <3>1, <3>3, Replaced
      <4>5. ToSet(t) = (ToSet(a.data) \ {a.data[p]}) \cup {e}
        BY <1>1, <3>1, <3>3, Replaced, SMTT(60)
      <4> QED BY <3>3, <4>1, <4>2, <4>3, <4>4, <4>5
    <3> HIDE DEF t
    <3>5. /\ IsArray([a EXCEPT !.data = t], S) /\ Arranged([a EXCEPT !.data = t], k)
          /\ [a EXCEPT !.data = t].data = t
      <4>1. Len(t) <= a.capacity
        BY <1>1, <3>4
      <4> QED BY <3>4, <4>1, DataSet
    <3>6. r.a = [a EXCEPT !.data = t] /\ r.freed \subseteq {old} \ {e}
      BY <2>2, <2>4, <3>2 DEF p
    <3>7. old \in ToSet(a.data)
      BY <2>3, <3>3
    <3>8. Keeps(r, a, S, k, {e})
      BY <3>4, <3>5, <3>6, <3>7 DEF Keeps
    <3> QED BY <3>8 DEF r, cmps
  <2>5. CASE /\ at.found = 2 /\ at.idx \in 0 .. Len(a.data)
             /\ \A i \in 1 .. at.idx : k[a.data[i]] < k[e]
             /\ \A i \in at.idx + 1 .. Len(a.data) : k[e] < k[a.data[i]]
    <3> DEFINE q == InsertAtPrivate(a, e, at.idx, ok)
    <3>1. e \notin ToSet(a.data)
      <4> SUFFICES ASSUME e \in ToSet(a.data) PROVE FALSE
        OBVIOUS
      <4>1. PICK i \in 1 .. Len(a.data) : e = a.data[i]
        BY <1>1, Elements
      <4>2. i \in 1 .. at.idx \/ i \in at.idx + 1 .. Len(a.data)
        BY <1>1, <2>5
      <4>3. k[e] < k[e]
        BY <2>5, <4>1, <4>2
      <4> QED BY <1>2, <4>3
    <3>2. at.idx \in Nat
      BY <1>1, <2>5
    <3>3. Keeps(q, a, S, k, {e})
      BY <2>5, <3>1, <3>2, InsertKeeps
    <3> HIDE DEF q
    <3>4. Keeps(Same(q.a, q.ret # NULL), a, S, k, {e})
      BY <3>3 DEF Keeps, Same
    <3>5. r = Same(q.a, q.ret # NULL)
      BY <2>2, <2>5 DEF q
    <3> QED BY <3>4, <3>5 DEF r, cmps
  <2> QED BY <2>1, <2>4, <2>5 DEF r, cmps
<1>4. CASE ~a.sorted /\ ~CanHold(a, ok)
  <2>1. r = Same(a, FALSE)
    BY <1>4 DEF ArrayAdd
  <2>2. Keeps(Same(a, FALSE), a, S, k, {e})
    BY SameKeeps
  <2> HIDE DEF r
  <2>3. Keeps(r, a, S, k, {e})
    BY <2>1, <2>2
  <2> QED BY <2>3 DEF r
<1>5. CASE ~a.sorted /\ CanHold(a, ok)
  <2> DEFINE t == Append(a.data, e)
  <2>1. r = Same([a EXCEPT !.capacity = Grown(a), !.data = Append(a.data, e)], TRUE)
    BY <1>5 DEF ArrayAdd
  <2>2. /\ t \in Seq(S) /\ Len(t) = Len(a.data) + 1
        /\ \A i \in 1 .. Len(a.data) : t[i] = a.data[i]
        /\ t[Len(a.data) + 1] = e
    BY <1>1, AppendProperties
  <2>3. ToSet(t) = ToSet(a.data) \cup {e} /\ IsInjective(t)
    <3> HIDE DEF t
    <3>1. /\ DOMAIN t = 1 .. Len(a.data) + 1 /\ DOMAIN a.data = 1 .. Len(a.data)
          /\ \A i \in 1 .. Len(a.data) : a.data[i] \in ToSet(a.data)
      BY <1>1, <2>2, Elements
    <3>2. \A i \in 1 .. Len(a.data) + 1 : i \in 1 .. Len(a.data) \/ i = Len(a.data) + 1
      BY <1>1
    <3>3. \A i \in 1 .. Len(a.data) : i \in 1 .. Len(a.data) + 1
      BY <1>1
    <3>4. Len(a.data) + 1 \in 1 .. Len(a.data) + 1
      BY <1>1
    <3>5. ToSet(t) = ToSet(a.data) \cup {e}
      BY <2>2, <3>1, <3>2, <3>3, <3>4 DEF ToSet
    <3>6. \A i, j \in 1 .. Len(a.data) : a.data[i] = a.data[j] => i = j
      BY <1>1, <3>1 DEF IsInjective
    <3>7. IsInjective(t)
      BY <1>5, <2>2, <3>1, <3>2, <3>6 DEF IsInjective
    <3> QED BY <3>5, <3>7
  <2>4. Grown(a) \in Nat /\ Len(t) <= Grown(a)
    BY <1>1, <2>2, GrownEnough DEF Size
  <2> DEFINE b == [a EXCEPT !.capacity = Grown(a), !.data = t]
  <2> HIDE DEF t
  <2>5. IsArray(b, S) /\ Arranged(b, k)
    BY <1>5, <2>2, <2>3, <2>4, ArrayMade
  <2>6. b.data = t
    BY DEF IsArray, Fields
  <2>7. r.a = b /\ r.freed = {}
    BY <2>1 DEF t, Same
  <2> HIDE DEF b, r
  <2>8. Keeps(r, a, S, k, {e})
    BY <2>3, <2>5, <2>6, <2>7 DEF Keeps
  <2> QED BY <2>8 DEF r
<1> QED BY <1>1, <1>3, <1>4, <1>5

\* What Find answers is an index, or that there is none.
LEMMA FindIndex ==
  ASSUME NEW S, NEW k \in [S -> Int], NEW a, IsArray(a, S), Arranged(a, k), NEW key \in Int
  PROVE  LET at == ArrayFind(a, Comparisons(key, a.data, k))
         IN at = NULL \/ at \in Nat
<1> DEFINE cmps == Comparisons(key, a.data, k)
           s == SearchPrivate(cmps)
           hits == {i \in 0 .. Size(a) - 1 : cmps[i + 1] = 0}
           at == ArrayFind(a, cmps)
<1>1. /\ a.data \in Seq(S) /\ a.sorted \in BOOLEAN
      /\ Len(a.data) \in Nat /\ (a.sorted => Rising(a.data, k))
  BY LenProperties DEF IsArray, Arranged, Size
<1>2. CASE a.sorted
  <2>1. (s.found = 1 /\ s.idx \in 0 .. Len(a.data) - 1) \/ s.found = 2
    BY <1>1, <1>2, KeySearched
  <2>2. at = IF s.found = 1 THEN s.idx ELSE NULL
    BY <1>2 DEF ArrayFind
  <2> HIDE DEF s, at
  <2>3. at = NULL \/ at \in Nat
    BY <1>1, <2>1, <2>2
  <2> QED BY <2>3 DEF at
<1>3. CASE ~a.sorted
  <2>1. at = IF hits = {} THEN NULL ELSE CHOOSE i \in hits : \A j \in hits : i <= j
    BY <1>3 DEF ArrayFind
  <2>2. hits \subseteq Nat
    BY <1>1 DEF Size
  <2> HIDE DEF hits, at
  <2>3. hits # {} => \E i \in hits : \A j \in hits : i <= j
    BY <2>2, LeastElement
  <2>4. at = NULL \/ at \in hits
    BY <2>1, <2>3
  <2>5. at = NULL \/ at \in Nat
    BY <2>2, <2>4
  <2> QED BY <2>5 DEF at
<1> QED BY <1>1, <1>2, <1>3

\* CMUTIL_ArrayRemove keeps the array, in order if it is sorted.
LEMMA RemoveKeeps ==
  ASSUME NEW S, NEW k \in [S -> Int], NEW a, IsArray(a, S), Arranged(a, k), NEW key \in Int
  PROVE  Keeps(ArrayRemove(a, Comparisons(key, a.data, k)), a, S, k, {})
<1> DEFINE cmps == Comparisons(key, a.data, k)
           at == ArrayFind(a, cmps)
<1>1. at = NULL \/ at \in Nat
  BY FindIndex
<1>2. ArrayRemove(a, cmps) = IF at = NULL THEN Same(a, NULL) ELSE ArrayRemoveAt(a, at)
  BY DEF ArrayRemove
<1> HIDE DEF at, cmps
<1>3. Keeps(ArrayRemove(a, cmps), a, S, k, {})
  BY <1>1, <1>2, SameKeeps, RemoveAtKeeps
<1> QED BY <1>3 DEF cmps

\* CMUTIL_ArrayPop keeps the array.
LEMMA PopKeeps ==
  ASSUME NEW S, NEW k \in [S -> Int], NEW a, IsArray(a, S), Arranged(a, k)
  PROVE  Keeps(ArrayPop(a), a, S, k, {})
<1>1. Len(a.data) \in Nat
  BY LenProperties DEF IsArray
<1>2. CASE Size(a) > 0
  <2>1. Size(a) - 1 \in Nat
    BY <1>1, <1>2 DEF Size
  <2> QED BY <1>2, <2>1, RemoveAtKeeps DEF ArrayPop
<1>3. CASE ~(Size(a) > 0)
  BY <1>3, SameKeeps DEF ArrayPop
<1> QED BY <1>2, <1>3

\* CMUTIL_ArrayPush keeps the array, whether or not its memory can grow.
LEMMA PushKeeps ==
  ASSUME NEW S, NEW k \in [S -> Int], NEW a, IsArray(a, S), Arranged(a, k),
         NEW e \in S, e \notin ToSet(a.data), NEW ok \in BOOLEAN
  PROVE  Keeps(ArrayPush(a, e, ok, Comparisons(k[e], a.data, k)), a, S, k, {e})
BY SameKeeps, AddKeeps DEF ArrayPush

\* InsertAt of the interface, which leaves a sorted array alone.
LEMMA InsertAtKeeps ==
  ASSUME NEW S, NEW k \in [S -> Int], NEW a, IsArray(a, S), Arranged(a, k),
         NEW e \in S, e \notin ToSet(a.data), NEW idx \in Nat, NEW ok \in BOOLEAN
  PROVE  Keeps(ArrayInsertAt(a, e, idx, ok), a, S, k, {e})
BY SameKeeps, InsertKeeps DEF ArrayInsertAt

------------------------------------------------------------------------------
(* Lists *)

NodeFields == {"prev", "next", "data"}

\* A heap of list items, none of which is at the null pointer.
IsHeap(heap) ==
  /\ heap = [n \in DOMAIN heap |-> heap[n]] /\ NULL \notin DOMAIN heap
  /\ \A n \in DOMAIN heap : /\ DOMAIN heap[n] = NodeFields
                            /\ heap[n] = [f \in NodeFields |-> heap[n][f]]

\* The i-th node of s, or the null pointer when there is none.
At(s, i) == IF i \in 1 .. Len(s) THEN s[i] ELSE NULL

\* What a list keeps of its nodes.
Ends(s) == [head |-> At(s, 1), tail |-> At(s, Len(s)), size |-> Len(s)]

\* The list consists of the nodes of s, which are linked in both directions.
Chain(heap, list, s) ==
  /\ s \in Seq(DOMAIN heap) /\ IsInjective(s)
  /\ list = Ends(s)
  /\ \A i \in 1 .. Len(s) : /\ heap[s[i]].prev = At(s, i - 1)
                            /\ heap[s[i]].next = At(s, i + 1)

\* The pointers of h are those of heap, but for prev of the node after and next
\* of the node before.
Relinked(h, heap, after, prev, before, next) ==
  \A m \in DOMAIN h \cap DOMAIN heap :
    /\ h[m].prev = IF m = after THEN prev ELSE heap[m].prev
    /\ h[m].next = IF m = before THEN next ELSE heap[m].next

\* An assignment to the prev of a node changes that field only, and nothing
\* when there is no node to assign to.
LEMMA LinkPrev ==
  ASSUME NEW heap, IsHeap(heap), NEW n \in DOMAIN heap \cup {NULL}, NEW to
  PROVE  LET h == L!Link(heap, n, "prev", to)
         IN /\ IsHeap(h) /\ DOMAIN h = DOMAIN heap
            /\ \A m \in DOMAIN heap : /\ h[m].prev = IF m = n THEN to ELSE heap[m].prev
                                      /\ h[m].next = heap[m].next
<1> DEFINE h == L!Link(heap, n, "prev", to)
<1>1. CASE n = NULL
  BY <1>1 DEF L!Link, IsHeap
<1>2. CASE n # NULL
  <2>1. h = [heap EXCEPT ![n].prev = to] /\ n \in DOMAIN heap
    BY <1>2 DEF L!Link
  <2>2. DOMAIN h = DOMAIN heap /\ h = [m \in DOMAIN h |-> h[m]]
    BY <2>1
  <2>3. \A m \in DOMAIN heap : h[m] = IF m = n THEN [heap[m] EXCEPT !.prev = to] ELSE heap[m]
    BY <2>1 DEF IsHeap
  <2> HIDE DEF h
  <2>4. ASSUME NEW m \in DOMAIN heap
        PROVE  /\ h[m].prev = IF m = n THEN to ELSE heap[m].prev
               /\ h[m].next = heap[m].next
               /\ DOMAIN h[m] = NodeFields /\ h[m] = [f \in NodeFields |-> h[m][f]]
    <3>1. DOMAIN heap[m] = NodeFields /\ heap[m] = [f \in NodeFields |-> heap[m][f]]
      BY DEF IsHeap
    <3>2. CASE m = n
      <4>1. h[m] = [heap[m] EXCEPT !.prev = to]
        BY <2>3, <3>2
      <4> QED BY <3>1, <3>2, <4>1 DEF NodeFields
    <3>3. CASE m # n
      BY <2>3, <3>1, <3>3
    <3> QED BY <3>2, <3>3
  <2> QED BY <2>2, <2>4 DEF IsHeap, h
<1> QED BY <1>1, <1>2

\* The same for the next of a node.
LEMMA LinkNext ==
  ASSUME NEW heap, IsHeap(heap), NEW n \in DOMAIN heap \cup {NULL}, NEW to
  PROVE  LET h == L!Link(heap, n, "next", to)
         IN /\ IsHeap(h) /\ DOMAIN h = DOMAIN heap
            /\ \A m \in DOMAIN heap : /\ h[m].prev = heap[m].prev
                                      /\ h[m].next = IF m = n THEN to ELSE heap[m].next
<1> DEFINE h == L!Link(heap, n, "next", to)
<1>1. CASE n = NULL
  BY <1>1 DEF L!Link, IsHeap
<1>2. CASE n # NULL
  <2>1. h = [heap EXCEPT ![n].next = to] /\ n \in DOMAIN heap
    BY <1>2 DEF L!Link
  <2>2. DOMAIN h = DOMAIN heap /\ h = [m \in DOMAIN h |-> h[m]]
    BY <2>1
  <2>3. \A m \in DOMAIN heap : h[m] = IF m = n THEN [heap[m] EXCEPT !.next = to] ELSE heap[m]
    BY <2>1 DEF IsHeap
  <2> HIDE DEF h
  <2>4. ASSUME NEW m \in DOMAIN heap
        PROVE  /\ h[m].prev = heap[m].prev
               /\ h[m].next = IF m = n THEN to ELSE heap[m].next
               /\ DOMAIN h[m] = NodeFields /\ h[m] = [f \in NodeFields |-> h[m][f]]
    <3>1. DOMAIN heap[m] = NodeFields /\ heap[m] = [f \in NodeFields |-> heap[m][f]]
      BY DEF IsHeap
    <3>2. CASE m = n
      <4>1. h[m] = [heap[m] EXCEPT !.next = to]
        BY <2>3, <3>2
      <4> QED BY <3>1, <3>2, <4>1 DEF NodeFields
    <3>3. CASE m # n
      BY <2>3, <3>1, <3>3
    <3> QED BY <3>2, <3>3
  <2> QED BY <2>2, <2>4 DEF IsHeap, h
<1> QED BY <1>1, <1>2

\* A node taken from malloc leaves the heap one of nodes.
LEMMA Allocated ==
  ASSUME NEW heap, IsHeap(heap), NEW n, n \notin DOMAIN heap, n # NULL,
         NEW item, DOMAIN item = NodeFields, item = [f \in NodeFields |-> item[f]]
  PROVE  IsHeap(L!Alloc(heap, n, item))
<1> DEFINE h == L!Alloc(heap, n, item)
<1>1. /\ DOMAIN h = DOMAIN heap \cup {n} /\ h = [m \in DOMAIN h |-> h[m]]
      /\ h[n] = item
      /\ \A m \in DOMAIN heap : h[m] = heap[m]
  BY DEF L!Alloc
<1> HIDE DEF h
<1>2. IsHeap(h)
  BY <1>1 DEF IsHeap
<1> QED BY <1>1, <1>2 DEF h

\* A node given back to free leaves the other nodes as they were.
LEMMA Freed ==
  ASSUME NEW heap, IsHeap(heap), NEW n
  PROVE  LET h == L!Free(heap, n)
         IN /\ IsHeap(h) /\ DOMAIN h = DOMAIN heap \ {n}
            /\ \A m \in DOMAIN h : h[m] = heap[m]
BY DEF L!Free, IsHeap

\* A list none of whose nodes is touched.
LEMMA ChainStays ==
  ASSUME NEW heap, NEW h, NEW list, NEW s, Chain(heap, list, s),
         \A m \in ToSet(s) : m \in DOMAIN h /\ h[m].prev = heap[m].prev /\ h[m].next = heap[m].next
  PROVE  Chain(h, list, s)
<1>1. s \in Seq(DOMAIN heap)
  BY DEF Chain
<1>2. \A i \in 1 .. Len(s) : s[i] \in ToSet(s)
  BY <1>1, Elements
<1>3. s \in Seq(DOMAIN h)
  <2>1. \A e \in ToSet(s) : e \in DOMAIN h
    OBVIOUS
  <2>2. s \in [1 .. Len(s) -> DOMAIN h] /\ Len(s) \in Nat
    BY <1>1, <1>2, <2>1, LenProperties
  <2> QED BY <2>2, SeqDef
<1> QED BY <1>2, <1>3 DEF Chain

\* A node put into the chain at i.
LEMMA ChainGrows ==
  ASSUME NEW heap, NEW h, NEW list, NEW s, Chain(heap, list, s), NULL \notin DOMAIN heap,
         NEW n, n \notin DOMAIN heap, NEW i \in 1 .. Len(s) + 1,
         DOMAIN h = DOMAIN heap \cup {n}, h[n].prev = At(s, i - 1), h[n].next = At(s, i),
         Relinked(h, heap, At(s, i), n, At(s, i - 1), n),
         NEW r,
         r = Ends(InsertAt(s, i, n))
  PROVE  Chain(h, r, InsertAt(s, i, n)) /\ ToSet(InsertAt(s, i, n)) = ToSet(s) \cup {n}
<1> DEFINE t == InsertAt(s, i, n)
           k == [x \in DOMAIN h |-> 0]
<1>1. s \in Seq(DOMAIN heap) /\ IsInjective(s) /\ n \notin ToSet(s) /\ Len(s) \in Nat
      /\ \A j \in 1 .. Len(s) : s[j] \in DOMAIN heap /\ s[j] \in ToSet(s)
  <2>1. s \in Seq(DOMAIN heap) /\ IsInjective(s)
    BY DEF Chain
  <2> QED BY <2>1, Elements
<1>2. s \in Seq(DOMAIN h)
  <2>1. s \in [1 .. Len(s) -> DOMAIN h]
    BY <1>1, LenProperties
  <2> QED BY <1>1, <2>1, SeqDef
<1>3. t \in Seq(DOMAIN h) /\ Len(t) = Len(s) + 1 /\ IsInjective(t) /\ ToSet(t) = ToSet(s) \cup {n}
  <2>1. k \in [DOMAIN h -> Int] /\ n \in DOMAIN h
    OBVIOUS
  <2> HIDE DEF k
  <2> QED BY <1>1, <1>2, <2>1, InsertedInOrder, SMTT(60)
<1>4. /\ \A j \in 1 .. i - 1 : t[j] = s[j]
      /\ t[i] = n
      /\ \A j \in i + 1 .. Len(s) + 1 : t[j] = s[j - 1]
  BY <1>2, Inserted, SMTT(120)
<1> HIDE DEF t, k
<1>5. \A j, l \in 1 .. Len(s) : s[j] = s[l] => j = l
  BY <1>1, Elements DEF IsInjective
<1>6. ASSUME NEW j \in 1 .. Len(t)
      PROVE  h[t[j]].prev = At(t, j - 1) /\ h[t[j]].next = At(t, j + 1)
  <2>1. CASE j = i
    <3>1. At(t, i - 1) = At(s, i - 1)
      BY <1>1, <1>3, <1>4 DEF At
    <3>2. At(t, i + 1) = At(s, i)
      <4>1. CASE i = Len(s) + 1
        BY <1>1, <1>3, <4>1 DEF At
      <4>2. CASE i # Len(s) + 1
        <5>1. i \in 1 .. Len(s) /\ i + 1 \in i + 1 .. Len(s) + 1 /\ i + 1 \in 1 .. Len(t)
          BY <1>1, <1>3, <4>2
        <5>2. t[i + 1] = s[i + 1 - 1]
          BY <1>4, <5>1
        <5> QED BY <5>1, <5>2 DEF At
      <4> QED BY <4>1, <4>2
    <3> QED BY <1>4, <2>1, <3>1, <3>2
  <2>2. CASE j < i
    <3>1. j \in 1 .. Len(s) /\ t[j] = s[j] /\ s[j] \in DOMAIN h \cap DOMAIN heap
      BY <1>1, <1>3, <1>4, <2>2
    <3>2. heap[s[j]].prev = At(s, j - 1) /\ heap[s[j]].next = At(s, j + 1)
      BY <3>1 DEF Chain
    <3>3. s[j] # At(s, i)
      BY <1>1, <1>5, <2>2, <3>1 DEF At
    <3>4. s[j] = At(s, i - 1) <=> j = i - 1
      BY <1>1, <1>5, <2>2, <3>1 DEF At
    <3>5. h[s[j]].prev = At(s, j - 1) /\ h[s[j]].next = IF j = i - 1 THEN n ELSE At(s, j + 1)
      BY <3>1, <3>2, <3>3, <3>4 DEF Relinked
    <3>6. At(s, j - 1) = At(t, j - 1)
      BY <1>1, <1>3, <1>4, <2>2 DEF At
    <3>7. At(t, j + 1) = IF j = i - 1 THEN n ELSE At(s, j + 1)
      BY <1>1, <1>3, <1>4, <2>2 DEF At
    <3> QED BY <3>1, <3>5, <3>6, <3>7
  <2>3. CASE j > i
    <3>1. j - 1 \in 1 .. Len(s) /\ t[j] = s[j - 1] /\ s[j - 1] \in DOMAIN h \cap DOMAIN heap
      BY <1>1, <1>3, <1>4, <2>3
    <3>2. heap[s[j - 1]].prev = At(s, j - 2) /\ heap[s[j - 1]].next = At(s, j)
      BY <3>1 DEF Chain
    <3>3. s[j - 1] # At(s, i - 1)
      BY <1>1, <1>5, <2>3, <3>1 DEF At
    <3>4. s[j - 1] = At(s, i) <=> j = i + 1
      BY <1>1, <1>5, <2>3, <3>1 DEF At
    <3>5. h[s[j - 1]].next = At(s, j) /\ h[s[j - 1]].prev = IF j = i + 1 THEN n ELSE At(s, j - 2)
      BY <3>1, <3>2, <3>3, <3>4 DEF Relinked
    <3>6. At(s, j) = At(t, j + 1)
      <4>1. /\ j + 1 \in 1 .. Len(t) <=> j \in 1 .. Len(s)
            /\ j \in 1 .. Len(s) => j + 1 \in i + 1 .. Len(s) + 1 /\ j + 1 - 1 = j
        BY <1>1, <1>3, <2>3
      <4>2. j \in 1 .. Len(s) => t[j + 1] = s[j]
        BY <1>4, <4>1
      <4> QED BY <4>1, <4>2 DEF At
    <3>7. At(t, j - 1) = IF j = i + 1 THEN n ELSE At(s, j - 2)
      BY <1>1, <1>3, <1>4, <2>3 DEF At
    <3> QED BY <3>1, <3>5, <3>6, <3>7
  <2> QED BY <1>1, <1>3, <2>1, <2>2, <2>3
<1>7. Chain(h, r, t)
  BY <1>3, <1>6 DEF Chain, t
<1> QED BY <1>3, <1>7 DEF t

\* The i-th node taken out of the chain.
LEMMA ChainShrinks ==
  ASSUME NEW heap, NEW h, NEW list, NEW s, Chain(heap, list, s), NULL \notin DOMAIN heap,
         NEW i \in 1 .. Len(s),
         DOMAIN h = DOMAIN heap \ {s[i]},
         Relinked(h, heap, At(s, i + 1), At(s, i - 1), At(s, i - 1), At(s, i + 1)),
         NEW r,
         r = Ends(RemoveAt(s, i))
  PROVE  Chain(h, r, RemoveAt(s, i)) /\ ToSet(RemoveAt(s, i)) = ToSet(s) \ {s[i]}
<1> DEFINE t == RemoveAt(s, i)
           k == [x \in DOMAIN heap |-> 0]
<1>1. s \in Seq(DOMAIN heap) /\ IsInjective(s) /\ Len(s) \in Nat
      /\ \A j \in 1 .. Len(s) : s[j] \in DOMAIN heap /\ s[j] \in ToSet(s)
  <2>1. s \in Seq(DOMAIN heap) /\ IsInjective(s)
    BY DEF Chain
  <2> QED BY <2>1, Elements
<1>2. t \in Seq(DOMAIN heap) /\ Len(t) = Len(s) - 1 /\ IsInjective(t) /\ ToSet(t) = ToSet(s) \ {s[i]}
  <2>1. k \in [DOMAIN heap -> Int]
    OBVIOUS
  <2> HIDE DEF k
  <2>2. Without(t, s, i, DOMAIN heap, k)
    BY <1>1, <2>1, RemovedInOrder
  <2> QED BY <2>2 DEF Without
<1>3. /\ \A j \in 1 .. i - 1 : t[j] = s[j]
      /\ \A j \in i .. Len(s) - 1 : t[j] = s[j + 1]
  BY <1>1, Removed, SMTT(60)
<1> HIDE DEF t, k
<1>4. \A j, l \in 1 .. Len(s) : s[j] = s[l] => j = l
  BY <1>1, Elements DEF IsInjective
<1>5. ASSUME NEW j \in 1 .. Len(t)
      PROVE  /\ t[j] \in DOMAIN h
             /\ h[t[j]].prev = At(t, j - 1) /\ h[t[j]].next = At(t, j + 1)
  <2>1. CASE j < i
    <3>1. j \in 1 .. Len(s) /\ t[j] = s[j] /\ j # i
      BY <1>1, <1>2, <1>3, <2>1
    <3>2. s[j] \in DOMAIN h \cap DOMAIN heap
      BY <1>1, <1>4, <3>1
    <3>3. heap[s[j]].prev = At(s, j - 1) /\ heap[s[j]].next = At(s, j + 1)
      BY <3>1 DEF Chain
    <3>4. s[j] # At(s, i + 1)
      BY <1>1, <1>4, <2>1, <3>1 DEF At
    <3>5. s[j] = At(s, i - 1) <=> j = i - 1
      BY <1>1, <1>4, <2>1, <3>1 DEF At
    <3>6. h[s[j]].prev = At(s, j - 1)
          /\ h[s[j]].next = IF j = i - 1 THEN At(s, i + 1) ELSE At(s, j + 1)
      BY <3>2, <3>3, <3>4, <3>5 DEF Relinked
    <3>7. At(s, j - 1) = At(t, j - 1)
      BY <1>1, <1>2, <1>3, <2>1 DEF At
    <3>8. At(t, j + 1) = IF j = i - 1 THEN At(s, i + 1) ELSE At(s, j + 1)
      BY <1>1, <1>2, <1>3, <2>1 DEF At
    <3> QED BY <3>1, <3>2, <3>6, <3>7, <3>8
  <2>2. CASE j >= i
    <3>1. j + 1 \in 1 .. Len(s) /\ t[j] = s[j + 1] /\ j + 1 # i
      BY <1>1, <1>2, <1>3, <2>2
    <3>2. s[j + 1] \in DOMAIN h \cap DOMAIN heap
      BY <1>1, <1>4, <3>1
    <3>3. heap[s[j + 1]].prev = At(s, j) /\ heap[s[j + 1]].next = At(s, j + 2)
      BY <3>1 DEF Chain
    <3>4. s[j + 1] # At(s, i - 1)
      BY <1>1, <1>4, <2>2, <3>1 DEF At
    <3>5. s[j + 1] = At(s, i + 1) <=> j = i
      BY <1>1, <1>4, <2>2, <3>1 DEF At
    <3>6. h[s[j + 1]].prev = (IF j = i THEN At(s, i - 1) ELSE At(s, j))
          /\ h[s[j + 1]].next = At(s, j + 2)
      BY <3>2, <3>3, <3>4, <3>5 DEF Relinked
    <3>7. At(t, j - 1) = IF j = i THEN At(s, i - 1) ELSE At(s, j)
      BY <1>1, <1>2, <1>3, <2>2 DEF At
    <3>8. At(t, j + 1) = At(s, j + 2)
      BY <1>1, <1>2, <1>3, <2>2 DEF At
    <3> QED BY <3>1, <3>2, <3>6, <3>7, <3>8
  <2> QED BY <1>1, <1>2, <2>1, <2>2
<1>6. t \in Seq(DOMAIN h)
  <2>1. t \in [1 .. Len(t) -> DOMAIN h] /\ Len(t) \in Nat
    BY <1>2, <1>5, LenProperties
  <2> QED BY <2>1, SeqDef
<1>7. Chain(h, r, t)
  BY <1>2, <1>5, <1>6 DEF Chain, t
<1> QED BY <1>2, <1>7 DEF t

\* Two chains that have no node in common made one.
LEMMA ChainsJoin ==
  ASSUME NEW heap, NEW h, NULL \notin DOMAIN heap,
         NEW d, NEW s, Chain(heap, d, s), NEW e, NEW u, Chain(heap, e, u),
         ToSet(s) \cap ToSet(u) = {}, s # << >>, u # << >>,
         DOMAIN h = DOMAIN heap,
         Relinked(h, heap, At(u, 1), At(s, Len(s)), At(s, Len(s)), At(u, 1)),
         NEW r, r = [head |-> d.head, tail |-> e.tail, size |-> d.size + e.size]
  PROVE  Chain(h, r, s \o u) /\ ToSet(s \o u) = ToSet(s) \cup ToSet(u)
<1> DEFINE t == s \o u
<1>1. s \in Seq(DOMAIN heap) /\ IsInjective(s) /\ Len(s) \in Nat
      /\ \A j \in 1 .. Len(s) : s[j] \in DOMAIN heap /\ s[j] \in ToSet(s)
  <2>1. s \in Seq(DOMAIN heap) /\ IsInjective(s)
    BY DEF Chain
  <2> QED BY <2>1, Elements
<1>2. u \in Seq(DOMAIN heap) /\ IsInjective(u) /\ Len(u) \in Nat
      /\ \A j \in 1 .. Len(u) : u[j] \in DOMAIN heap /\ u[j] \in ToSet(u)
  <2>1. u \in Seq(DOMAIN heap) /\ IsInjective(u)
    BY DEF Chain
  <2> QED BY <2>1, Elements
<1>3. Len(s) > 0 /\ Len(u) > 0
  <2>1. Len(s) # 0 /\ Len(u) # 0
    BY <1>1, <1>2, EmptySeq
  <2> QED BY <1>1, <1>2, <2>1
<1>4. /\ t \in Seq(DOMAIN heap) /\ Len(t) = Len(s) + Len(u)
      /\ \A j \in 1 .. Len(s) : t[j] = s[j]
      /\ \A j \in Len(s) + 1 .. Len(s) + Len(u) : t[j] = u[j - Len(s)]
  <2>1. /\ t \in Seq(DOMAIN heap) /\ Len(t) = Len(s) + Len(u)
        /\ \A j \in 1 .. Len(s) + Len(u) : t[j] = IF j <= Len(s) THEN s[j] ELSE u[j - Len(s)]
    BY <1>1, <1>2, ConcatProperties
  <2> HIDE DEF t
  <2> QED BY <1>1, <1>2, <2>1
<1>5. IsInjective(t) /\ ToSet(t) = ToSet(s) \cup ToSet(u)
  BY <1>1, <1>2, Concatenated
<1> HIDE DEF t
<1>6. /\ \A j, l \in 1 .. Len(s) : s[j] = s[l] => j = l
      /\ \A j, l \in 1 .. Len(u) : u[j] = u[l] => j = l
      /\ \A j \in 1 .. Len(s), l \in 1 .. Len(u) : s[j] # u[l]
  BY <1>1, <1>2, Elements DEF IsInjective
<1>7. ASSUME NEW j \in 1 .. Len(t)
      PROVE  h[t[j]].prev = At(t, j - 1) /\ h[t[j]].next = At(t, j + 1)
  <2>1. CASE j <= Len(s)
    <3>1. j \in 1 .. Len(s) /\ t[j] = s[j] /\ s[j] \in DOMAIN h \cap DOMAIN heap
      BY <1>1, <1>4, <2>1
    <3>2. heap[s[j]].prev = At(s, j - 1) /\ heap[s[j]].next = At(s, j + 1)
      BY <3>1 DEF Chain
    <3>3. s[j] # At(u, 1)
      BY <1>2, <1>3, <1>6, <3>1 DEF At
    <3>4. s[j] = At(s, Len(s)) <=> j = Len(s)
      BY <1>1, <1>3, <1>6, <3>1 DEF At
    <3>5. h[s[j]].prev = At(s, j - 1)
          /\ h[s[j]].next = IF j = Len(s) THEN At(u, 1) ELSE At(s, j + 1)
      BY <3>1, <3>2, <3>3, <3>4 DEF Relinked
    <3>6. At(s, j - 1) = At(t, j - 1)
      <4>1. j - 1 \in 1 .. Len(t) <=> j - 1 \in 1 .. Len(s)
        BY <1>1, <1>2, <1>4, <2>1
      <4> QED BY <1>4, <4>1 DEF At
    <3>7. At(t, j + 1) = IF j = Len(s) THEN At(u, 1) ELSE At(s, j + 1)
      BY <1>1, <1>2, <1>3, <1>4, <2>1 DEF At
    <3> QED BY <3>1, <3>5, <3>6, <3>7
  <2>2. CASE j > Len(s)
    <3> DEFINE l == j - Len(s)
    <3>1. l \in 1 .. Len(u) /\ t[j] = u[l] /\ u[l] \in DOMAIN h \cap DOMAIN heap
      <4>1. j \in Len(s) + 1 .. Len(s) + Len(u) /\ l \in 1 .. Len(u)
        BY <1>1, <1>2, <1>4, <2>2
      <4>2. t[j] = u[l]
        BY <1>4, <4>1
      <4> HIDE DEF l
      <4> QED BY <1>2, <4>1, <4>2
    <3>2. heap[u[l]].prev = At(u, l - 1) /\ heap[u[l]].next = At(u, l + 1)
      BY <3>1 DEF Chain
    <3>3. u[l] # At(s, Len(s))
      <4> HIDE DEF l
      <4> QED BY <1>1, <1>3, <1>6, <3>1 DEF At
    <3>4. u[l] = At(u, 1) <=> l = 1
      <4> HIDE DEF l
      <4> QED BY <1>2, <1>3, <1>6, <3>1 DEF At
    <3>5. h[u[l]].prev = (IF l = 1 THEN At(s, Len(s)) ELSE At(u, l - 1))
          /\ h[u[l]].next = At(u, l + 1)
      <4> HIDE DEF l
      <4> QED BY <3>1, <3>2, <3>3, <3>4 DEF Relinked
    <3>6. At(t, j - 1) = IF l = 1 THEN At(s, Len(s)) ELSE At(u, l - 1)
      <4>1. CASE l = 1
        <5>1. j - 1 = Len(s) /\ Len(s) \in 1 .. Len(s) /\ Len(s) \in 1 .. Len(t)
          BY <1>1, <1>2, <1>3, <1>4, <4>1
        <5> HIDE DEF l
        <5> QED BY <1>4, <4>1, <5>1 DEF At
      <4>2. CASE l # 1
        <5>1. /\ j - 1 \in Len(s) + 1 .. Len(s) + Len(u) /\ j - 1 \in 1 .. Len(t)
              /\ l - 1 \in 1 .. Len(u) /\ (j - 1) - Len(s) = l - 1
          BY <1>1, <1>2, <1>3, <1>4, <2>2, <4>2
        <5>2. t[j - 1] = u[(j - 1) - Len(s)]
          BY <1>4, <5>1
        <5> HIDE DEF l
        <5> QED BY <4>2, <5>1, <5>2 DEF At
      <4> HIDE DEF l
      <4> QED BY <4>1, <4>2
    <3>7. At(t, j + 1) = At(u, l + 1)
      <4>1. CASE j = Len(t)
        <5>1. l + 1 \notin 1 .. Len(u) /\ j + 1 \notin 1 .. Len(t)
          BY <1>1, <1>2, <1>4, <4>1
        <5> QED BY <5>1 DEF At
      <4>2. CASE j # Len(t)
        <5>1. /\ j + 1 \in Len(s) + 1 .. Len(s) + Len(u) /\ j + 1 \in 1 .. Len(t)
              /\ l + 1 \in 1 .. Len(u) /\ (j + 1) - Len(s) = l + 1
          <6>1. Len(s) \in Nat /\ Len(u) \in Nat /\ Len(t) = Len(s) + Len(u)
            BY <1>1, <1>2, <1>4
          <6>2. j < Len(s) + Len(u) /\ j > Len(s)
            BY <2>2, <4>2, <6>1
          <6> QED BY <6>1, <6>2
        <5>2. t[j + 1] = u[(j + 1) - Len(s)]
          BY <1>4, <5>1
        <5> HIDE DEF l
        <5> QED BY <4>2, <5>1, <5>2 DEF At
      <4> HIDE DEF l
      <4> QED BY <4>1, <4>2
    <3> HIDE DEF l
    <3> QED BY <3>1, <3>5, <3>6, <3>7
  <2> QED BY <1>1, <1>4, <2>1, <2>2
<1>8. r = Ends(t)
  <2>1. /\ d.head = At(s, 1) /\ d.size = Len(s)
        /\ e.tail = At(u, Len(u)) /\ e.size = Len(u)
    BY DEF Chain, Ends
  <2>2. At(t, 1) = At(s, 1)
    BY <1>1, <1>2, <1>3, <1>4 DEF At
  <2>3. At(t, Len(t)) = At(u, Len(u))
    <3>1. /\ Len(t) \in Len(s) + 1 .. Len(s) + Len(u) /\ Len(t) - Len(s) = Len(u)
          /\ Len(t) \in 1 .. Len(t) /\ Len(u) \in 1 .. Len(u)
      BY <1>1, <1>2, <1>3, <1>4
    <3>2. t[Len(t)] = u[Len(t) - Len(s)]
      BY <1>4, <3>1
    <3> QED BY <3>1, <3>2 DEF At
  <2> QED BY <1>4, <2>1, <2>2, <2>3 DEF Ends
<1>9. Chain(h, r, t)
  <2>1. t \in Seq(DOMAIN h)
    BY <1>4
  <2> QED BY <1>5, <1>7, <1>8, <2>1 DEF Chain
<1> QED BY <1>5, <1>9 DEF t

------------------------------------------------------------------------------
(* Going over a list *)

Pointer(heap, n, field) == IF field = "next" THEN heap[n].next ELSE heap[n].prev

\* A walk adds one node after another until it meets the null pointer.
LEMMA WalkSteps ==
  ASSUME NEW heap, NEW from, NEW field, Cardinality(DOMAIN heap) \in Nat
  PROVE  LET to(s) == IF s = << >> THEN from ELSE Pointer(heap, s[Len(s)], field)
             on(s) == IF to(s) = NULL THEN s ELSE Append(s, to(s))
             N == Cardinality(DOMAIN heap) + 1
         IN \E go : /\ L!Walk(heap, from, field) = go[N]
                    /\ go[0] = << >>
                    /\ \A i \in 1 .. N : go[i] = on(go[i - 1])
<1> DEFINE after(n) == IF field = "next" THEN heap[n].next ELSE heap[n].prev
           to(s) == IF s = << >> THEN from ELSE after(s[Len(s)])
           on(s) == IF to(s) = NULL THEN s ELSE Append(s, to(s))
           N == Cardinality(DOMAIN heap) + 1
           Made(g, n) == g = [i \in 0 .. n |-> IF i = 0 THEN << >> ELSE on(g[i - 1])]
           T == {n \in Nat : \E g : Made(g, n)}
           made == CHOOSE g : Made(g, N)
<1>1. L!Walk(heap, from, field) = made[N]
  <2>1. L!Cardinality(DOMAIN heap) = Cardinality(DOMAIN heap)
    BY DEF L!Cardinality, Cardinality
  <2> QED BY <2>1 DEF L!Walk
<1>2. N \in Nat
  OBVIOUS
<1> HIDE DEF N, on
<1>3. 0 \in T
  <2> DEFINE g == [i \in 0 .. 0 |-> << >>]
  <2>1. Made(g, 0)
    OBVIOUS
  <2> HIDE DEF Made, g
  <2> QED BY <2>1
<1>4. ASSUME NEW n \in Nat, n \in T PROVE n + 1 \in T
  <2>1. PICK g : Made(g, n)
    BY <1>4
  <2>2. \A i \in 0 .. n : g[i] = IF i = 0 THEN << >> ELSE on(g[i - 1])
    BY <2>1
  <2> DEFINE h == [i \in 0 .. n + 1 |-> IF i = n + 1 THEN on(g[n]) ELSE g[i]]
  <2>3. \A i \in 0 .. n : h[i] = g[i]
    OBVIOUS
  <2>4. h[n + 1] = on(g[n])
    OBVIOUS
  <2>5. h = [i \in 0 .. n + 1 |-> h[i]]
    OBVIOUS
  <2> HIDE DEF h
  <2>6. \A i \in 0 .. n + 1 : h[i] = IF i = 0 THEN << >> ELSE on(h[i - 1])
    <3> SUFFICES ASSUME NEW i \in 0 .. n + 1
                 PROVE  h[i] = IF i = 0 THEN << >> ELSE on(h[i - 1])
      OBVIOUS
    <3>1. CASE i = n + 1
      <4>1. h[n + 1 - 1] = g[n] /\ i # 0
        BY <2>3, <3>1
      <4> QED BY <2>4, <3>1, <4>1
    <3>2. CASE i # n + 1
      <4>1. i \in 0 .. n
        BY <3>2
      <4>2. i # 0 => i - 1 \in 0 .. n
        BY <4>1
      <4> QED BY <2>2, <2>3, <4>1, <4>2
    <3> QED BY <3>1, <3>2
  <2>7. Made(h, n + 1)
    BY <2>5, <2>6
  <2> HIDE DEF Made
  <2> QED BY <2>7
<1>5. N \in T
  <2> HIDE DEF T
  <2> QED BY <1>2, <1>3, <1>4, SetInduction
<1>6. Made(made, N)
  <2> HIDE DEF Made
  <2> QED BY <1>5
<1>7. \A i \in 0 .. N : made[i] = IF i = 0 THEN << >> ELSE on(made[i - 1])
  <2> HIDE DEF made
  <2> QED BY <1>6
<1> HIDE DEF made
<1>8. made[0] = << >> /\ \A i \in 1 .. N : made[i] = on(made[i - 1])
  BY <1>2, <1>7
<1> QED BY <1>1, <1>8 DEF N, on, Pointer

\* It meets the nodes of a chain, in order.
LEMMA WalkAlong ==
  ASSUME NEW heap, NEW field, IsFiniteSet(DOMAIN heap), NULL \notin DOMAIN heap,
         NEW s \in Seq(DOMAIN heap), IsInjective(s),
         \A i \in 1 .. Len(s) : Pointer(heap, s[i], field) = At(s, i + 1)
  PROVE  L!Walk(heap, At(s, 1), field) = s
<1> DEFINE D == DOMAIN heap
           N == Cardinality(D) + 1
           from == At(s, 1)
           to(t) == IF t = << >> THEN from ELSE Pointer(heap, t[Len(t)], field)
           on(t) == IF to(t) = NULL THEN t ELSE Append(t, to(t))
           Short(k) == IF k <= Len(s) THEN k ELSE Len(s)
           \* t is the first k nodes of s, or all when it has fewer.
           Prefix(t, k) == /\ t \in Seq(D) /\ Len(t) = Short(k)
                           /\ \A i \in 1 .. Short(k) : t[i] = s[i]
<1>1. /\ Len(s) \in Nat /\ DOMAIN s = 1 .. Len(s)
      /\ \A i \in 1 .. Len(s) : s[i] \in D /\ s[i] \in ToSet(s)
      /\ \A x \in ToSet(s) : x \in D
  BY Elements
<1>2. Cardinality(D) \in Nat /\ Len(s) <= Cardinality(D)
  <2>1. Cardinality(ToSet(s)) = Len(s)
    BY InjectiveCount
  <2>2. ToSet(s) \subseteq D
    BY <1>1
  <2> QED BY <2>1, <2>2, FS_Subset, FS_CardinalityType
<1>3. PICK go : /\ L!Walk(heap, from, field) = go[N]
                /\ go[0] = << >>
                /\ \A i \in 1 .. N : go[i] = on(go[i - 1])
  <2> HIDE DEF from
  <2> QED BY <1>2, WalkSteps
<1>4. ASSUME NEW k \in Nat, NEW t, Prefix(t, k)
      PROVE  Prefix(on(t), k + 1)
  <2>1. t = << >> <=> Short(k) = 0
    BY <1>4, EmptySeq
  <2>2. Short(k) \in Nat /\ Short(k) <= Len(s)
    BY <1>1
  <2>3. to(t) = At(s, Short(k) + 1)
    <3>1. CASE Short(k) = 0
      BY <2>1, <3>1
    <3>2. CASE Short(k) # 0
      <4>1. Short(k) \in 1 .. Len(s) /\ Short(k) \in 1 .. Short(k)
        BY <1>1, <2>2, <3>2
      <4>2. t[Len(t)] = s[Short(k)]
        BY <1>4, <4>1
      <4> HIDE DEF Short
      <4> QED BY <2>1, <3>2, <4>1, <4>2
    <3> QED BY <3>1, <3>2
  <2>4. CASE k < Len(s)
    <3>1. Short(k) = k /\ Short(k + 1) = k + 1 /\ k + 1 \in 1 .. Len(s)
      <4>1. Len(s) \in Nat
        BY <1>1, SMTT(60)
      <4> QED BY <2>4, <4>1
    <3>2. to(t) = s[k + 1] /\ s[k + 1] \in D
      BY <1>1, <2>3, <3>1 DEF At
    <3>3. on(t) = Append(t, s[k + 1])
      <4> HIDE DEF to
      <4> QED BY <3>2
    <3> HIDE DEF on, to, Short
    <3>4. /\ on(t) \in Seq(D) /\ Len(on(t)) = k + 1
          /\ \A i \in 1 .. k : on(t)[i] = t[i]
          /\ on(t)[k + 1] = s[k + 1]
      BY <1>4, <3>1, <3>2, <3>3, AppendProperties
    <3>5. \A i \in 1 .. k + 1 : i \in 1 .. k \/ i = k + 1
      OBVIOUS
    <3> QED BY <1>4, <3>1, <3>4, <3>5, SMTT(60)
  <2>5. CASE ~(k < Len(s))
    <3>1. Short(k) = Len(s) /\ Short(k + 1) = Len(s) /\ Len(s) + 1 \notin 1 .. Len(s)
      <4>1. Len(s) \in Nat
        BY <1>1
      <4> QED BY <2>5, <4>1
    <3>2. to(t) = NULL
      <4> HIDE DEF Short, to
      <4> QED BY <2>3, <3>1 DEF At
    <3>3. on(t) = t
      <4> HIDE DEF to
      <4> QED BY <3>2
    <3> HIDE DEF on, to, Short
    <3> QED BY <1>4, <3>1, <3>3
  <2> QED BY <2>4, <2>5
<1>5. Prefix(go[0], 0)
  BY <1>1, <1>3
<1> DEFINE T == {k \in Nat : k <= N => Prefix(go[k], k)}
<1>6. ASSUME NEW k \in Nat, k \in T PROVE k + 1 \in T
  <2> SUFFICES ASSUME k + 1 <= N PROVE Prefix(go[k + 1], k + 1)
    OBVIOUS
  <2>1. N \in Nat /\ k <= N /\ k + 1 \in 1 .. N
    BY <1>2
  <2> HIDE DEF N, Prefix, on
  <2>2. Prefix(go[k], k)
    BY <1>6, <2>1
  <2>3. go[k + 1] = on(go[k + 1 - 1]) /\ k + 1 - 1 = k
    BY <1>3, <2>1
  <2> QED BY <1>4, <2>2, <2>3
<1>7. N \in T
  <2>1. 0 \in T
    BY <1>5
  <2>2. N \in Nat
    BY <1>2
  <2> HIDE DEF T, N
  <2> QED BY <1>6, <2>1, <2>2, SetInduction
<1>8. Prefix(go[N], N) /\ Short(N) = Len(s)
  <2>1. N \in Nat /\ N <= N /\ ~(N <= Len(s))
    BY <1>1, <1>2
  <2> HIDE DEF N, Prefix
  <2> QED BY <1>7, <2>1
<1>9. go[N] = s
  <2> HIDE DEF N, Short
  <2> QED BY <1>8, SeqEqual
<1> QED BY <1>3, <1>9

\* A reversed sequence: its elements, and that reversing it again undoes it.
LEMMA ReverseSeq ==
  ASSUME NEW S, NEW s \in Seq(S), IsInjective(s)
  PROVE  /\ Reverse(s) \in Seq(S) /\ Len(Reverse(s)) = Len(s) /\ IsInjective(Reverse(s))
         /\ \A i \in 1 .. Len(s) : Reverse(s)[i] = s[Len(s) - i + 1]
         /\ Reverse(Reverse(s)) = s
<1> DEFINE t == Reverse(s)
<1>1. Len(s) \in Nat /\ DOMAIN s = 1 .. Len(s) /\ \A i \in 1 .. Len(s) : s[i] \in S
  BY LenProperties
<1>2. \A i \in 1 .. Len(s) : /\ Len(s) - i + 1 \in 1 .. Len(s)
                             /\ Len(s) - (Len(s) - i + 1) + 1 = i
  BY <1>1
<1>3. /\ t = [i \in 1 .. Len(s) |-> s[Len(s) - i + 1]]
      /\ \A i \in 1 .. Len(s) : t[i] = s[Len(s) - i + 1]
  BY DEF Reverse
<1> HIDE DEF t
<1>4. t \in Seq(S)
  <2>1. t \in [1 .. Len(s) -> S]
    BY <1>1, <1>2, <1>3
  <2> QED BY <1>1, <2>1, SeqDef
<1>5. Len(t) = Len(s)
  <2>1. DOMAIN t = 1 .. Len(s) /\ DOMAIN t = 1 .. Len(t) /\ Len(t) \in Nat
    BY <1>3, <1>4, LenProperties
  <2> QED BY <1>1, <2>1
<1>6. IsInjective(t)
  <2> SUFFICES ASSUME NEW i \in 1 .. Len(s), NEW j \in 1 .. Len(s), t[i] = t[j]
               PROVE  i = j
    BY <1>3 DEF IsInjective
  <2>1. s[Len(s) - i + 1] = s[Len(s) - j + 1]
    BY <1>3
  <2>2. Len(s) - i + 1 = Len(s) - j + 1
    BY <1>1, <1>2, <2>1 DEF IsInjective
  <2> QED BY <1>1, <2>2
<1>7. Reverse(t) = s
  <2>1. Reverse(t) = [i \in 1 .. Len(s) |-> t[Len(s) - i + 1]]
    BY <1>5 DEF Reverse
  <2>2. \A i \in 1 .. Len(s) : t[Len(s) - i + 1] = s[i]
    BY <1>2, <1>3
  <2>3. s = [i \in 1 .. Len(s) |-> s[i]]
    BY <1>1, LenProperties
  <2> QED BY <2>1, <2>2, <2>3
<1> QED BY <1>3, <1>4, <1>5, <1>6, <1>7 DEF t

\* Forwards and backwards.
LEMMA ChainWalked ==
  ASSUME NEW heap, NULL \notin DOMAIN heap, IsFiniteSet(DOMAIN heap),
         NEW list, NEW s, Chain(heap, list, s)
  PROVE  /\ L!Walk(heap, list.head, "next") = s
         /\ L!Walk(heap, list.tail, "prev") = Reverse(s)
         /\ Reverse(Reverse(s)) = s
<1> DEFINE t == Reverse(s)
<1>1. s \in Seq(DOMAIN heap) /\ IsInjective(s) /\ Len(s) \in Nat
  BY LenProperties DEF Chain
<1>2. list.head = At(s, 1) /\ list.tail = At(s, Len(s))
  BY DEF Chain, Ends
<1>3. L!Walk(heap, At(s, 1), "next") = s
  <2>1. \A i \in 1 .. Len(s) : Pointer(heap, s[i], "next") = At(s, i + 1)
    BY DEF Chain, Pointer
  <2> QED BY <1>1, <2>1, WalkAlong
<1>4. /\ t \in Seq(DOMAIN heap) /\ Len(t) = Len(s) /\ IsInjective(t)
      /\ \A i \in 1 .. Len(s) : t[i] = s[Len(s) - i + 1]
      /\ Reverse(t) = s
  BY <1>1, ReverseSeq
<1> HIDE DEF t
<1>5. At(t, 1) = At(s, Len(s))
  BY <1>1, <1>4 DEF At
<1>6. ASSUME NEW i \in 1 .. Len(t) PROVE Pointer(heap, t[i], "prev") = At(t, i + 1)
  <2> DEFINE j == Len(s) - i + 1
  <2>1. j \in 1 .. Len(s) /\ t[i] = s[j]
    BY <1>1, <1>4
  <2>2. heap[s[j]].prev = At(s, j - 1)
    <3> HIDE DEF j
    <3> QED BY <2>1 DEF Chain
  <2>3. At(s, j - 1) = At(t, i + 1)
    <3>1. CASE i = Len(s)
      <4>1. j - 1 \notin 1 .. Len(s) /\ i + 1 \notin 1 .. Len(t)
        BY <1>1, <1>4, <3>1
      <4> QED BY <4>1 DEF At
    <3>2. CASE i # Len(s)
      <4>1. i + 1 \in 1 .. Len(s) /\ j - 1 \in 1 .. Len(s) /\ Len(s) - (i + 1) + 1 = j - 1
        BY <1>1, <1>4, <3>2
      <4> HIDE DEF j
      <4> QED BY <1>4, <4>1 DEF At
    <3> QED BY <3>1, <3>2
  <2> HIDE DEF j
  <2> QED BY <2>1, <2>2, <2>3 DEF Pointer
<1>7. L!Walk(heap, At(t, 1), "prev") = t
  BY <1>4, <1>6, WalkAlong
<1> QED BY <1>2, <1>3, <1>4, <1>5, <1>7 DEF t

------------------------------------------------------------------------------
(* The operations of lists *)

\* Two lists that share the heap: the nodes of each are linked, and every node
\* belongs to one of them.
Pair(heap, one, two, s, u) ==
  /\ IsHeap(heap) /\ Chain(heap, one, s) /\ Chain(heap, two, u)
  /\ ToSet(s) \cap ToSet(u) = {} /\ ToSet(s) \cup ToSet(u) = DOMAIN heap

\* What the two lists of a heap say of one of them, and that they may be
\* exchanged.
LEMMA PairFacts ==
  ASSUME NEW heap, NEW one, NEW two, NEW s, NEW u, Pair(heap, one, two, s, u)
  PROVE  /\ IsHeap(heap) /\ NULL \notin DOMAIN heap /\ IsFiniteSet(DOMAIN heap)
         /\ s \in Seq(DOMAIN heap) /\ Len(s) \in Nat /\ IsInjective(s)
         /\ \A i \in 1 .. Len(s) : s[i] \in DOMAIN heap /\ s[i] \in ToSet(s)
         /\ \A i, j \in 1 .. Len(s) : s[i] = s[j] => i = j
         /\ one.head = At(s, 1) /\ one.tail = At(s, Len(s)) /\ one.size = Len(s)
         /\ \A i \in Int : At(s, i) \in ToSet(s) \cup {NULL}
         /\ Pair(heap, two, one, u, s)
<1>1. IsHeap(heap) /\ NULL \notin DOMAIN heap
  BY DEF Pair, IsHeap
<1>2. s \in Seq(DOMAIN heap) /\ IsInjective(s)
      /\ one = [head |-> At(s, 1), tail |-> At(s, Len(s)), size |-> Len(s)]
  BY DEF Pair, Chain, Ends
<1>3. /\ Len(s) \in Nat /\ DOMAIN s = 1 .. Len(s)
      /\ \A i \in 1 .. Len(s) : s[i] \in DOMAIN heap /\ s[i] \in ToSet(s)
  BY <1>2, Elements
<1>4. IsFiniteSet(DOMAIN heap)
  <2>1. u \in Seq(DOMAIN heap) /\ IsInjective(u)
    BY DEF Pair, Chain
  <2>2. IsFiniteSet(ToSet(s)) /\ IsFiniteSet(ToSet(u))
    BY <1>2, <2>1, InjectiveCount
  <2>3. IsFiniteSet(ToSet(s) \cup ToSet(u))
    BY <2>2, FS_Union
  <2> QED BY <2>3 DEF Pair
<1>5. \A i, j \in 1 .. Len(s) : s[i] = s[j] => i = j
  BY <1>2, <1>3 DEF IsInjective
<1>6. Pair(heap, two, one, u, s)
  BY DEF Pair
<1>7. \A i \in Int : At(s, i) \in ToSet(s) \cup {NULL}
  BY <1>3 DEF At
<1> QED BY <1>1, <1>2, <1>3, <1>4, <1>5, <1>6, <1>7

\* A node more at i, and the other list as it was.
LEMMA Linked ==
  ASSUME NEW heap, NEW one, NEW two, NEW s, NEW u, Pair(heap, one, two, s, u),
         NEW n, n \notin DOMAIN heap, n # NULL, NEW i \in 1 .. Len(s) + 1, NEW h,
         IsHeap(h), DOMAIN h = DOMAIN heap \cup {n}, h[n].prev = At(s, i - 1), h[n].next = At(s, i),
         Relinked(h, heap, At(s, i), n, At(s, i - 1), n),
         NEW r,
         r = Ends(InsertAt(s, i, n))
  PROVE  Pair(h, r, two, InsertAt(s, i, n), u)
<1> DEFINE t == InsertAt(s, i, n)
<1>1. /\ NULL \notin DOMAIN heap /\ Len(s) \in Nat
      /\ \A j \in Int : At(s, j) \in ToSet(s) \cup {NULL}
      /\ Chain(heap, one, s) /\ Chain(heap, two, u)
      /\ ToSet(s) \cap ToSet(u) = {} /\ ToSet(s) \cup ToSet(u) = DOMAIN heap
  BY PairFacts DEF Pair
<1>2. Chain(h, r, t) /\ ToSet(t) = ToSet(s) \cup {n}
  <2>1. Chain(h, r, t)
    BY <1>1, ChainGrows, SMTT(60)
  <2>2. ToSet(t) = ToSet(s) \cup {n}
    BY <1>1, ChainGrows, SMTT(60)
  <2> QED BY <2>1, <2>2
<1> HIDE DEF t
<1>3. Chain(h, two, u)
  <2>1. At(s, i) \in ToSet(s) \cup {NULL} /\ At(s, i - 1) \in ToSet(s) \cup {NULL}
    BY <1>1
  <2>2. \A m \in ToSet(u) : /\ m \in DOMAIN h \cap DOMAIN heap
                            /\ m # At(s, i) /\ m # At(s, i - 1)
    BY <1>1, <2>1
  <2>3. \A m \in ToSet(u) : /\ m \in DOMAIN h
                            /\ h[m].prev = heap[m].prev /\ h[m].next = heap[m].next
    BY <2>2 DEF Relinked
  <2> QED BY <1>1, <2>3, ChainStays
<1> QED BY <1>1, <1>2, <1>3 DEF Pair, t

\* The node at i less.
LEMMA Unlinked ==
  ASSUME NEW heap, NEW one, NEW two, NEW s, NEW u, Pair(heap, one, two, s, u),
         NEW i \in 1 .. Len(s), NEW h, IsHeap(h), DOMAIN h = DOMAIN heap \ {s[i]},
         Relinked(h, heap, At(s, i + 1), At(s, i - 1), At(s, i - 1), At(s, i + 1)),
         NEW r,
         r = Ends(RemoveAt(s, i))
  PROVE  Pair(h, r, two, RemoveAt(s, i), u)
<1> DEFINE t == RemoveAt(s, i)
<1>1. /\ NULL \notin DOMAIN heap /\ Len(s) \in Nat
      /\ \A j \in Int : At(s, j) \in ToSet(s) \cup {NULL}
      /\ Chain(heap, one, s) /\ Chain(heap, two, u)
      /\ ToSet(s) \cap ToSet(u) = {} /\ ToSet(s) \cup ToSet(u) = DOMAIN heap
      /\ s[i] \in ToSet(s)
  BY PairFacts DEF Pair
<1>2. Chain(h, r, t) /\ ToSet(t) = ToSet(s) \ {s[i]}
  BY <1>1, ChainShrinks
<1> HIDE DEF t
<1>3. Chain(h, two, u)
  <2>1. At(s, i + 1) \in ToSet(s) \cup {NULL} /\ At(s, i - 1) \in ToSet(s) \cup {NULL}
    BY <1>1
  <2>2. \A m \in ToSet(u) : /\ m \in DOMAIN h \cap DOMAIN heap
                            /\ m # At(s, i + 1) /\ m # At(s, i - 1)
    BY <1>1, <2>1
  <2>3. \A m \in ToSet(u) : /\ m \in DOMAIN h
                            /\ h[m].prev = heap[m].prev /\ h[m].next = heap[m].next
    BY <2>2 DEF Relinked
  <2> QED BY <1>1, <2>3, ChainStays
<1> QED BY <1>1, <1>2, <1>3 DEF Pair, t

\* What a list looks like with a node more at either end.
LEMMA EndsGrown ==
  ASSUME NEW heap, NEW one, NEW two, NEW s, NEW u, Pair(heap, one, two, s, u), NEW n
  PROVE  /\ LET t == InsertAt(s, 1, n)
            IN  /\ At(t, 1) = n /\ At(s, 0) = NULL /\ Len(t) = Len(s) + 1
                /\ At(t, Len(t)) = IF one.tail = NULL THEN n ELSE one.tail
         /\ LET t == InsertAt(s, Len(s) + 1, n)
            IN  /\ At(t, Len(t)) = n /\ At(s, Len(s) + 1) = NULL /\ Len(t) = Len(s) + 1
                /\ At(t, 1) = IF one.head = NULL THEN n ELSE one.head
<1> DEFINE S == DOMAIN heap \cup {n}
<1>1. /\ NULL \notin DOMAIN heap /\ Len(s) \in Nat /\ s \in Seq(DOMAIN heap)
      /\ \A i \in 1 .. Len(s) : s[i] \in DOMAIN heap
      /\ one.head = At(s, 1) /\ one.tail = At(s, Len(s))
  BY PairFacts
<1>2. s \in Seq(S)
  <2>1. s \in [1 .. Len(s) -> S]
    BY <1>1, LenProperties
  <2> QED BY <1>1, <2>1, SeqDef
<1>3. n \in S
  OBVIOUS
<1> HIDE DEF S
<1>4. one.head = NULL <=> Len(s) = 0
  BY <1>1 DEF At
<1>5. one.tail = NULL <=> Len(s) = 0
  BY <1>1 DEF At
<1>6. LET t == InsertAt(s, 1, n)
      IN  /\ At(t, 1) = n /\ At(s, 0) = NULL /\ Len(t) = Len(s) + 1
          /\ At(t, Len(t)) = IF one.tail = NULL THEN n ELSE one.tail
  <2> DEFINE t == InsertAt(s, 1, n)
  <2>1. 1 \in 1 .. Len(s) + 1
    BY <1>1
  <2>2. /\ Len(t) = Len(s) + 1 /\ t[1] = n
        /\ \A j \in 1 + 1 .. Len(s) + 1 : t[j] = s[j - 1]
    BY <1>2, <1>3, <2>1, Inserted, SMTT(60)
  <2> HIDE DEF t
  <2>3. At(t, 1) = n /\ At(s, 0) = NULL
    BY <2>1, <2>2 DEF At
  <2>4. ASSUME Len(s) = 0 PROVE At(t, Len(t)) = IF one.tail = NULL THEN n ELSE one.tail
    <3>1. Len(t) = 1 /\ one.tail = NULL
      BY <1>5, <2>2, <2>4
    <3> QED BY <2>3, <3>1
  <2>5. ASSUME Len(s) # 0 PROVE At(t, Len(t)) = IF one.tail = NULL THEN n ELSE one.tail
    <3>1. /\ Len(s) + 1 \in 1 + 1 .. Len(s) + 1 /\ Len(s) + 1 - 1 = Len(s)
          /\ Len(s) \in 1 .. Len(s) /\ Len(s) + 1 \in 1 .. Len(s) + 1
      BY <1>1, <2>5
    <3>2. t[Len(s) + 1] = s[Len(s)]
      BY <2>2, <3>1
    <3>3. At(t, Len(t)) = s[Len(s)]
      BY <2>2, <3>1, <3>2 DEF At
    <3>4. one.tail = s[Len(s)] /\ one.tail # NULL
      BY <1>1, <1>5, <2>5, <3>1 DEF At
    <3> QED BY <3>3, <3>4
  <2> QED BY <2>2, <2>3, <2>4, <2>5 DEF t
<1>7. LET t == InsertAt(s, Len(s) + 1, n)
      IN  /\ At(t, Len(t)) = n /\ At(s, Len(s) + 1) = NULL /\ Len(t) = Len(s) + 1
          /\ At(t, 1) = IF one.head = NULL THEN n ELSE one.head
  <2> DEFINE p == Len(s) + 1
             t == InsertAt(s, p, n)
  <2>1. p \in 1 .. Len(s) + 1 /\ p \notin 1 .. Len(s) /\ 1 \in 1 .. Len(s) + 1
    BY <1>1
  <2>2. /\ Len(t) = Len(s) + 1 /\ t[p] = n
        /\ \A j \in 1 .. p - 1 : t[j] = s[j]
    <3> HIDE DEF p
    <3> QED BY <1>2, <1>3, <2>1, Inserted, SMTT(60)
  <2> HIDE DEF t
  <2>3. At(t, Len(t)) = n /\ At(s, Len(s) + 1) = NULL
    BY <2>1, <2>2 DEF At
  <2>4. ASSUME Len(s) = 0 PROVE At(t, 1) = IF one.head = NULL THEN n ELSE one.head
    <3>1. p = 1 /\ one.head = NULL
      BY <1>4, <2>4
    <3>2. At(t, 1) = n
      BY <2>1, <2>2, <3>1 DEF At
    <3> QED BY <3>1, <3>2
  <2>5. ASSUME Len(s) # 0 PROVE At(t, 1) = IF one.head = NULL THEN n ELSE one.head
    <3>1. 1 \in 1 .. p - 1 /\ 1 \in 1 .. Len(s)
      BY <1>1, <2>5
    <3>2. At(t, 1) = s[1]
      BY <2>1, <2>2, <3>1 DEF At
    <3>3. one.head = s[1] /\ one.head # NULL
      BY <1>1, <1>4, <2>5, <3>1 DEF At
    <3> QED BY <3>2, <3>3
  <2> QED BY <2>2, <2>3, <2>4, <2>5 DEF t
<1> QED BY <1>6, <1>7

\* CMUTIL_ListAddFront keeps both lists.
LEMMA AddFrontKeeps ==
  ASSUME NEW heap, NEW one, NEW two, NEW s, NEW u, Pair(heap, one, two, s, u),
         NEW n, n \notin DOMAIN heap, n # NULL, NEW x
  PROVE  LET r == L!AddFront(heap, one, n, x)
         IN /\ \E t : Pair(r.heap, r.list, two, t, u)
            /\ DOMAIN heap \subseteq DOMAIN r.heap
<1> DEFINE item == [prev |-> NULL, next |-> one.head, data |-> x]
           g == L!Alloc(heap, n, item)
           h == L!Link(g, one.head, "prev", n)
           l == [head |-> n, tail |-> IF one.tail = NULL THEN n ELSE one.tail, size |-> one.size + 1]
           t == InsertAt(s, 1, n)
           r == L!AddFront(heap, one, n, x)
<1>1. /\ IsHeap(heap) /\ NULL \notin DOMAIN heap /\ Len(s) \in Nat
      /\ one.head = At(s, 1) /\ one.size = Len(s)
      /\ At(s, 1) \in ToSet(s) \cup {NULL} /\ ToSet(s) \subseteq DOMAIN heap
  <2>1. \A i \in Int : At(s, i) \in ToSet(s) \cup {NULL}
    BY PairFacts
  <2>2. At(s, 1) \in ToSet(s) \cup {NULL}
    BY <2>1
  <2>3. ToSet(s) \subseteq DOMAIN heap
    BY DEF Pair
  <2> QED BY <2>2, <2>3, PairFacts
<1>2. r.heap = h /\ r.list = l
  BY DEF L!AddFront
<1>3. /\ IsHeap(g) /\ DOMAIN g = DOMAIN heap \cup {n}
      /\ g[n].prev = NULL /\ g[n].next = one.head
      /\ \A m \in DOMAIN heap : g[m] = heap[m]
  <2>1. /\ DOMAIN item = NodeFields /\ item = [f \in NodeFields |-> item[f]]
        /\ item.prev = NULL /\ item.next = one.head
    BY DEF NodeFields
  <2> HIDE DEF item
  <2>2. IsHeap(g)
    BY <1>1, <2>1, Allocated
  <2>3. DOMAIN g = DOMAIN heap \cup {n} /\ g[n] = item
    BY DEF L!Alloc
  <2>4. \A m \in DOMAIN heap : g[m] = heap[m]
    BY DEF L!Alloc
  <2> HIDE DEF g
  <2> QED BY <2>1, <2>2, <2>3, <2>4
<1> HIDE DEF g, r
<1>4. /\ IsHeap(h) /\ DOMAIN h = DOMAIN g
      /\ \A m \in DOMAIN g : /\ h[m].prev = IF m = one.head THEN n ELSE g[m].prev
                             /\ h[m].next = g[m].next
  <2>1. one.head \in DOMAIN g \cup {NULL}
    BY <1>1, <1>3
  <2> QED BY <1>3, <2>1, LinkPrev
<1> HIDE DEF h
<1>5. At(t, 1) = n /\ At(s, 0) = NULL /\ Len(t) = Len(s) + 1 /\ At(t, Len(t)) = IF one.tail = NULL THEN n ELSE one.tail
  BY EndsGrown
<1>6. h[n].prev = At(s, 1 - 1) /\ h[n].next = At(s, 1)
  <2>1. n # one.head
    BY <1>1
  <2> QED BY <1>1, <1>3, <1>4, <1>5, <2>1
<1>7. Relinked(h, heap, At(s, 1), n, At(s, 1 - 1), n)
  BY <1>1, <1>3, <1>4, <1>5 DEF Relinked
<1>8. 1 \in 1 .. Len(s) + 1
  BY <1>1
<1>9. l = Ends(t)
  BY <1>1, <1>5 DEF Ends
<1> HIDE DEF l, t
<1>10. Pair(h, l, two, t, u)
  BY <1>3, <1>4, <1>6, <1>7, <1>8, <1>9, Linked, ZenonT(90) DEF t
<1> QED BY <1>2, <1>3, <1>4, <1>10 DEF r

\* CMUTIL_ListAddTail keeps both lists.
LEMMA AddTailKeeps ==
  ASSUME NEW heap, NEW one, NEW two, NEW s, NEW u, Pair(heap, one, two, s, u),
         NEW n, n \notin DOMAIN heap, n # NULL, NEW x
  PROVE  LET r == L!AddTail(heap, one, n, x)
         IN /\ \E t : Pair(r.heap, r.list, two, t, u)
            /\ DOMAIN heap \subseteq DOMAIN r.heap
<1> DEFINE item == [prev |-> one.tail, next |-> NULL, data |-> x]
           g == L!Alloc(heap, n, item)
           h == L!Link(g, one.tail, "next", n)
           l == [head |-> IF one.head = NULL THEN n ELSE one.head, tail |-> n, size |-> one.size + 1]
           p == Len(s) + 1
           t == InsertAt(s, p, n)
           r == L!AddTail(heap, one, n, x)
<1>1. /\ IsHeap(heap) /\ NULL \notin DOMAIN heap /\ Len(s) \in Nat
      /\ one.tail = At(s, Len(s)) /\ one.size = Len(s)
      /\ At(s, Len(s)) \in ToSet(s) \cup {NULL} /\ ToSet(s) \subseteq DOMAIN heap
  <2>1. Len(s) \in Int /\ \A i \in Int : At(s, i) \in ToSet(s) \cup {NULL}
    BY PairFacts
  <2>2. At(s, Len(s)) \in ToSet(s) \cup {NULL}
    BY <2>1
  <2>3. ToSet(s) \subseteq DOMAIN heap
    BY DEF Pair
  <2> QED BY <2>2, <2>3, PairFacts
<1>2. r.heap = h /\ r.list = l
  BY DEF L!AddTail
<1>3. /\ IsHeap(g) /\ DOMAIN g = DOMAIN heap \cup {n}
      /\ g[n].prev = one.tail /\ g[n].next = NULL
      /\ \A m \in DOMAIN heap : g[m] = heap[m]
  <2>1. /\ DOMAIN item = NodeFields /\ item = [f \in NodeFields |-> item[f]]
        /\ item.prev = one.tail /\ item.next = NULL
    BY DEF NodeFields
  <2> HIDE DEF item
  <2>2. IsHeap(g)
    BY <1>1, <2>1, Allocated
  <2>3. DOMAIN g = DOMAIN heap \cup {n} /\ g[n] = item
    BY DEF L!Alloc
  <2>4. \A m \in DOMAIN heap : g[m] = heap[m]
    BY DEF L!Alloc
  <2> HIDE DEF g
  <2> QED BY <2>1, <2>2, <2>3, <2>4
<1> HIDE DEF g, r
<1>4. /\ IsHeap(h) /\ DOMAIN h = DOMAIN g
      /\ \A m \in DOMAIN g : /\ h[m].prev = g[m].prev
                             /\ h[m].next = IF m = one.tail THEN n ELSE g[m].next
  <2>1. one.tail \in DOMAIN g \cup {NULL}
    BY <1>1, <1>3
  <2> QED BY <1>3, <2>1, LinkNext
<1> HIDE DEF h
<1>5. At(t, Len(t)) = n /\ At(s, p) = NULL /\ Len(t) = Len(s) + 1 /\ At(t, 1) = IF one.head = NULL THEN n ELSE one.head
  BY EndsGrown
<1>6. p \in 1 .. Len(s) + 1 /\ p - 1 = Len(s)
  BY <1>1
<1> HIDE DEF p
<1>7. h[n].prev = At(s, p - 1) /\ h[n].next = At(s, p)
  <2>1. n # one.tail
    BY <1>1
  <2> QED BY <1>1, <1>3, <1>4, <1>5, <1>6, <2>1
<1>8. Relinked(h, heap, At(s, p), n, At(s, p - 1), n)
  BY <1>1, <1>3, <1>4, <1>5, <1>6 DEF Relinked
<1>9. l = Ends(t)
  BY <1>1, <1>5 DEF Ends
<1> HIDE DEF l, t
<1>10. Pair(h, l, two, t, u)
  BY <1>3, <1>4, <1>6, <1>7, <1>8, <1>9, Linked, ZenonT(60) DEF t
<1> QED BY <1>2, <1>3, <1>4, <1>10 DEF r

\* The first and the last element of a sequence that lost one.
LEMMA EndsShrunk ==
  ASSUME NEW S, NEW s \in Seq(S), IsInjective(s), NEW i \in 1 .. Len(s)
  PROVE  LET t == RemoveAt(s, i)
         IN  /\ Len(t) = Len(s) - 1
             /\ At(t, 1) = IF i = 1 THEN At(s, 2) ELSE At(s, 1)
             /\ At(t, Len(t)) = IF i = Len(s) THEN At(s, Len(s) - 1) ELSE At(s, Len(s))
<1> DEFINE t == RemoveAt(s, i)
<1>1. Len(s) \in Nat /\ i \in Nat /\ 1 <= i /\ i <= Len(s)
  BY LenProperties
<1>2. /\ Len(t) = Len(s) - 1
      /\ \A j \in 1 .. i - 1 : t[j] = s[j]
      /\ \A j \in i .. Len(s) - 1 : t[j] = s[j + 1]
  BY Removed, ZenonT(60)
<1> HIDE DEF t
<1>3. CASE i = 1
  <2>1. ASSUME Len(s) = 1
        PROVE  At(t, 1) = NULL /\ At(t, Len(t)) = NULL /\ At(s, 2) = NULL /\ At(s, 0) = NULL
    BY <1>2, <2>1 DEF At
  <2>2. ASSUME Len(s) # 1
        PROVE  At(t, 1) = At(s, 2) /\ At(t, Len(t)) = At(s, Len(s))
    <3>1. /\ 1 \in 1 .. Len(s) - 1 /\ 1 \in i .. Len(s) - 1 /\ 2 \in 1 .. Len(s)
          /\ Len(s) - 1 \in 1 .. Len(s) - 1 /\ Len(s) - 1 \in i .. Len(s) - 1
          /\ Len(s) \in 1 .. Len(s) /\ Len(s) - 1 + 1 = Len(s) /\ 1 + 1 = 2
      <4>1. Len(s) \in Nat /\ Len(s) >= 2
        <5>1. \A n \in Nat : n # 0 /\ n # 1 => n >= 2
          OBVIOUS
        <5>2. Len(s) \in Nat /\ Len(s) # 0 /\ Len(s) # 1
          BY <1>1, <2>2
        <5> QED BY <5>1, <5>2
      <4> QED BY <1>3, <4>1
    <3>2. t[1] = s[1 + 1] /\ t[Len(s) - 1] = s[Len(s) - 1 + 1]
      BY <1>2, <3>1
    <3> QED BY <1>2, <3>1, <3>2 DEF At
  <2>3. At(t, 1) = At(s, 2)
        /\ At(t, Len(t)) = IF i = Len(s) THEN At(s, Len(s) - 1) ELSE At(s, Len(s))
    <3>1. CASE Len(s) = 1
      <4>1. Len(s) - 1 = 0
        BY <3>1
      <4> QED BY <1>3, <2>1, <3>1, <4>1
    <3>2. CASE Len(s) # 1
      BY <1>3, <2>2, <3>2
    <3> QED BY <3>1, <3>2
  <2> QED BY <1>2, <1>3, <2>3 DEF t
<1>4. CASE i # 1
  <2>1. At(t, 1) = At(s, 1)
    <3>1. 1 \in 1 .. i - 1 /\ 1 \in 1 .. Len(s) - 1 /\ 1 \in 1 .. Len(s)
      BY <1>1, <1>4
    <3> QED BY <1>2, <3>1 DEF At
  <2>2. CASE i = Len(s)
    <3>1. Len(s) - 1 \in 1 .. i - 1 /\ Len(s) - 1 \in 1 .. Len(s) - 1 /\ Len(s) - 1 \in 1 .. Len(s)
      BY <1>1, <1>4, <2>2
    <3>2. t[Len(s) - 1] = s[Len(s) - 1]
      BY <1>2, <3>1
    <3>3. At(t, Len(t)) = At(s, Len(s) - 1)
      BY <1>2, <3>1, <3>2 DEF At
    <3> QED BY <1>2, <1>4, <2>1, <2>2, <3>3 DEF t
  <2>3. CASE i # Len(s)
    <3>1. /\ Len(s) - 1 \in i .. Len(s) - 1 /\ Len(s) - 1 \in 1 .. Len(s) - 1
          /\ Len(s) \in 1 .. Len(s) /\ Len(s) - 1 + 1 = Len(s)
      BY <1>1, <1>4, <2>3
    <3>2. t[Len(s) - 1] = s[Len(s) - 1 + 1]
      BY <1>2, <3>1
    <3>3. At(t, Len(t)) = At(s, Len(s))
      BY <1>2, <3>1, <3>2 DEF At
    <3> QED BY <1>2, <1>4, <2>1, <2>3, <3>3 DEF t
  <2> QED BY <2>2, <2>3
<1> QED BY <1>3, <1>4

\* The nodes next to one of the list are of the heap, and are not the node.
LEMMA Neighbours ==
  ASSUME NEW heap, NEW one, NEW two, NEW s, NEW u, Pair(heap, one, two, s, u),
         NEW i \in 1 .. Len(s)
  PROVE  /\ heap[s[i]].prev = At(s, i - 1) /\ heap[s[i]].next = At(s, i + 1)
         /\ At(s, i - 1) \in DOMAIN heap \cup {NULL} /\ At(s, i + 1) \in DOMAIN heap \cup {NULL}
         /\ At(s, i - 1) # s[i] /\ At(s, i + 1) # s[i] /\ s[i] # NULL
<1>1. /\ NULL \notin DOMAIN heap /\ Len(s) \in Nat
      /\ \A j \in 1 .. Len(s) : s[j] \in DOMAIN heap
      /\ \A j, l \in 1 .. Len(s) : s[j] = s[l] => j = l
  BY PairFacts
<1>2. heap[s[i]].prev = At(s, i - 1) /\ heap[s[i]].next = At(s, i + 1)
  BY DEF Pair, Chain
<1>3. s[i] # NULL
  BY <1>1
<1>4. At(s, i - 1) \in DOMAIN heap \cup {NULL} /\ At(s, i - 1) # s[i]
  BY <1>1, <1>3 DEF At
<1>5. At(s, i + 1) \in DOMAIN heap \cup {NULL} /\ At(s, i + 1) # s[i]
  BY <1>1, <1>3 DEF At
<1> QED BY <1>2, <1>3, <1>4, <1>5

\* CMUTIL_ListRemoveFront keeps both lists.
LEMMA RemoveFrontKeeps ==
  ASSUME NEW heap, NEW one, NEW two, NEW s, NEW u, Pair(heap, one, two, s, u)
  PROVE  LET r == L!RemoveFront(heap, one) IN \E t : Pair(r.heap, r.list, two, t, u)
<1> DEFINE r == L!RemoveFront(heap, one)
           item == one.head
           g == L!Link(heap, heap[item].next, "prev", NULL)
           h == L!Free(g, item)
           l == [head |-> heap[item].next, tail |-> IF one.size = 1 THEN NULL ELSE one.tail,
                 size |-> one.size - 1]
           t == RemoveAt(s, 1)
<1>1. /\ IsHeap(heap) /\ NULL \notin DOMAIN heap /\ Len(s) \in Nat
      /\ s \in Seq(DOMAIN heap) /\ IsInjective(s)
      /\ one.head = At(s, 1) /\ one.tail = At(s, Len(s)) /\ one.size = Len(s)
      /\ \A i \in 1 .. Len(s) : s[i] \in DOMAIN heap
  BY PairFacts
<1>2. CASE item = NULL
  <2>1. r.heap = heap /\ r.list = one
    BY <1>2 DEF L!RemoveFront
  <2> HIDE DEF r
  <2> QED BY <2>1 DEF r
<1>3. CASE item # NULL
  <2>1. r.heap = h /\ r.list = l
    BY <1>3 DEF L!RemoveFront
  <2>2. 1 \in 1 .. Len(s) /\ item = s[1]
    BY <1>1, <1>3 DEF At
  <2>3. /\ heap[item].next = At(s, 2) /\ At(s, 2) \in DOMAIN heap \cup {NULL}
        /\ At(s, 2) # item /\ At(s, 0) = NULL
    <3>1. /\ heap[s[1]].next = At(s, 1 + 1) /\ At(s, 1 + 1) \in DOMAIN heap \cup {NULL}
          /\ At(s, 1 + 1) # s[1]
      BY <2>2, Neighbours
    <3> QED BY <2>2, <3>1 DEF At
  <2> HIDE DEF item
  <2>4. /\ IsHeap(g) /\ DOMAIN g = DOMAIN heap
        /\ \A m \in DOMAIN heap : /\ g[m].prev = IF m = At(s, 2) THEN NULL ELSE heap[m].prev
                                  /\ g[m].next = heap[m].next
    BY <1>1, <2>3, LinkPrev
  <2> HIDE DEF g
  <2>5. IsHeap(h) /\ DOMAIN h = DOMAIN heap \ {item} /\ \A m \in DOMAIN h : h[m] = g[m]
    BY <2>4, Freed
  <2> HIDE DEF h
  <2>6. Relinked(h, heap, At(s, 1 + 1), At(s, 1 - 1), At(s, 1 - 1), At(s, 1 + 1))
    BY <1>1, <2>3, <2>4, <2>5 DEF Relinked
  <2>7. /\ Len(t) = Len(s) - 1
        /\ At(t, 1) = At(s, 2)
        /\ At(t, Len(t)) = IF 1 = Len(s) THEN At(s, Len(s) - 1) ELSE At(s, Len(s))
    BY <1>1, <2>2, EndsShrunk
  <2> HIDE DEF t
  <2>8. l = Ends(t)
    <3>1. 1 = Len(s) => At(s, Len(s) - 1) = NULL
      <4>1. 1 = Len(s) => Len(s) - 1 = 0
        OBVIOUS
      <4> QED BY <2>3, <4>1
    <3> QED BY <1>1, <2>3, <2>7, <3>1 DEF Ends
  <2> HIDE DEF l
  <2>9. Pair(h, l, two, t, u)
    BY <2>2, <2>5, <2>6, <2>8, Unlinked DEF t
  <2> HIDE DEF r
  <2> QED BY <2>1, <2>9 DEF r
<1> QED BY <1>2, <1>3

\* CMUTIL_ListRemoveTail keeps both lists.
LEMMA RemoveTailKeeps ==
  ASSUME NEW heap, NEW one, NEW two, NEW s, NEW u, Pair(heap, one, two, s, u)
  PROVE  LET r == L!RemoveTail(heap, one) IN \E t : Pair(r.heap, r.list, two, t, u)
<1> DEFINE r == L!RemoveTail(heap, one)
           item == one.tail
           g == L!Link(heap, heap[item].prev, "next", NULL)
           h == L!Free(g, item)
           l == [head |-> IF one.size = 1 THEN NULL ELSE one.head, tail |-> heap[item].prev,
                 size |-> one.size - 1]
           p == Len(s)
           t == RemoveAt(s, p)
<1>1. /\ IsHeap(heap) /\ NULL \notin DOMAIN heap /\ p \in Nat
      /\ s \in Seq(DOMAIN heap) /\ IsInjective(s)
      /\ one.head = At(s, 1) /\ one.tail = At(s, p) /\ one.size = p
      /\ \A i \in 1 .. p : s[i] \in DOMAIN heap
  BY PairFacts
<1>2. CASE item = NULL
  <2>1. r.heap = heap /\ r.list = one
    BY <1>2 DEF L!RemoveTail
  <2> HIDE DEF r
  <2> QED BY <2>1 DEF r
<1>3. CASE item # NULL
  <2>1. r.heap = h /\ r.list = l
    BY <1>3 DEF L!RemoveTail
  <2>2. p \in 1 .. Len(s) /\ item = s[p]
    BY <1>1, <1>3 DEF At
  <2>3. /\ heap[item].prev = At(s, p - 1) /\ At(s, p - 1) \in DOMAIN heap \cup {NULL}
        /\ At(s, p - 1) # item
    <3> HIDE DEF p
    <3>1. /\ heap[s[p]].prev = At(s, p - 1) /\ At(s, p - 1) \in DOMAIN heap \cup {NULL}
          /\ At(s, p - 1) # s[p]
      BY <2>2, Neighbours
    <3> QED BY <2>2, <3>1
  <2>n. At(s, p + 1) = NULL
    BY <1>1 DEF At
  <2> HIDE DEF item
  <2>4. /\ IsHeap(g) /\ DOMAIN g = DOMAIN heap
        /\ \A m \in DOMAIN heap : /\ g[m].prev = heap[m].prev
                                  /\ g[m].next = IF m = At(s, p - 1) THEN NULL ELSE heap[m].next
    BY <1>1, <2>3, LinkNext
  <2> HIDE DEF g
  <2>5. IsHeap(h) /\ DOMAIN h = DOMAIN heap \ {item} /\ \A m \in DOMAIN h : h[m] = g[m]
    BY <2>4, Freed
  <2> HIDE DEF h
  <2>6. Relinked(h, heap, At(s, p + 1), At(s, p - 1), At(s, p - 1), At(s, p + 1))
    BY <1>1, <2>3, <2>n, <2>4, <2>5 DEF Relinked
  <2>7. /\ Len(t) = p - 1
        /\ At(t, 1) = IF p = 1 THEN At(s, 2) ELSE At(s, 1)
        /\ At(t, Len(t)) = At(s, p - 1)
    <3>1. LET q == RemoveAt(s, p)
          IN  /\ Len(q) = Len(s) - 1
              /\ At(q, 1) = IF p = 1 THEN At(s, 2) ELSE At(s, 1)
              /\ At(q, Len(q)) = IF p = Len(s) THEN At(s, Len(s) - 1) ELSE At(s, Len(s))
      BY <1>1, <2>2, EndsShrunk
    <3> QED BY <3>1
  <2> HIDE DEF t
  <2>8. l = Ends(t)
    <3>1. p = 1 => At(s, 2) = NULL
      BY <2>n
    <3> QED BY <1>1, <2>3, <2>7, <3>1 DEF Ends
  <2> HIDE DEF l
  <2>9. Pair(h, l, two, t, u)
    <3> HIDE DEF p
    <3> QED BY <2>2, <2>5, <2>6, <2>8, Unlinked DEF t
  <2> HIDE DEF r
  <2> QED BY <2>1, <2>9 DEF r
<1> QED BY <1>2, <1>3

\* A node in the middle: its neighbours are linked to each other.
LEMMA RemoveMiddleKeeps ==
  ASSUME NEW heap, NEW one, NEW two, NEW s, NEW u, Pair(heap, one, two, s, u),
         NEW i \in 1 .. Len(s), i # 1, i # Len(s)
  PROVE  LET g == L!Link(heap, heap[s[i]].prev, "next", heap[s[i]].next)
             h == L!Free(L!Link(g, heap[s[i]].next, "prev", heap[s[i]].prev), s[i])
         IN  \E t : Pair(h, [one EXCEPT !.size = @ - 1], two, t, u)
<1> DEFINE item == s[i]
           g == L!Link(heap, heap[item].prev, "next", heap[item].next)
           k == L!Link(g, heap[item].next, "prev", heap[item].prev)
           h == L!Free(k, item)
           l == [one EXCEPT !.size = @ - 1]
           t == RemoveAt(s, i)
<1>1. /\ IsHeap(heap) /\ NULL \notin DOMAIN heap /\ Len(s) \in Nat
      /\ s \in Seq(DOMAIN heap) /\ IsInjective(s)
  BY PairFacts
<1>2. one = [head |-> At(s, 1), tail |-> At(s, Len(s)), size |-> Len(s)]
  BY DEF Pair, Chain, Ends
<1>3. /\ heap[item].prev = At(s, i - 1) /\ heap[item].next = At(s, i + 1)
      /\ At(s, i - 1) \in DOMAIN heap \cup {NULL} /\ At(s, i + 1) \in DOMAIN heap \cup {NULL}
  BY Neighbours
<1> HIDE DEF item
<1>4. /\ IsHeap(g) /\ DOMAIN g = DOMAIN heap
      /\ \A m \in DOMAIN heap : /\ g[m].prev = heap[m].prev
                                /\ g[m].next = IF m = At(s, i - 1) THEN At(s, i + 1) ELSE heap[m].next
  BY <1>1, <1>3, LinkNext
<1> HIDE DEF g
<1>5. /\ IsHeap(k) /\ DOMAIN k = DOMAIN heap
      /\ \A m \in DOMAIN heap : /\ k[m].prev = IF m = At(s, i + 1) THEN At(s, i - 1) ELSE g[m].prev
                                /\ k[m].next = g[m].next
  BY <1>3, <1>4, LinkPrev
<1> HIDE DEF k
<1>6. IsHeap(h) /\ DOMAIN h = DOMAIN heap \ {item} /\ \A m \in DOMAIN h : h[m] = k[m]
  <2>1. IsHeap(h) /\ DOMAIN h = DOMAIN k \ {item} /\ \A m \in DOMAIN h : h[m] = k[m]
    BY <1>5, Freed
  <2> HIDE DEF h
  <2> QED BY <1>5, <2>1
<1> HIDE DEF h
<1>7. Relinked(h, heap, At(s, i + 1), At(s, i - 1), At(s, i - 1), At(s, i + 1))
  BY <1>4, <1>5, <1>6 DEF Relinked
<1>8. Len(t) = Len(s) - 1 /\ At(t, 1) = At(s, 1) /\ At(t, Len(t)) = At(s, Len(s))
  BY <1>1, EndsShrunk
<1> HIDE DEF t
<1>9. l = Ends(t)
  BY <1>2, <1>8 DEF Ends
<1> HIDE DEF l
<1>10. Pair(h, l, two, t, u)
  BY <1>6, <1>7, <1>9, Unlinked DEF t, item
<1> QED BY <1>10 DEF h, k, g, item, l

\* CMUTIL_ListRemove keeps both lists, wherever the node it finds stands.
LEMMA ListRemoveKeeps ==
  ASSUME NEW heap, NEW one, NEW two, NEW s, NEW u, Pair(heap, one, two, s, u), NEW x
  PROVE  LET r == L!ListRemove(heap, one, x) IN \E t : Pair(r.heap, r.list, two, t, u)
<1> DEFINE r == L!ListRemove(heap, one, x)
           hits == {i \in DOMAIN s : heap[s[i]].data = x}
           least == CHOOSE i \in hits : \A j \in hits : i <= j
           item == s[least]
           rest == L!Free(L!Link(L!Link(heap, heap[item].prev, "next", heap[item].next),
                                 heap[item].next, "prev", heap[item].prev), item)
<1>1. /\ NULL \notin DOMAIN heap /\ IsFiniteSet(DOMAIN heap)
      /\ s \in Seq(DOMAIN heap) /\ Len(s) \in Nat /\ Chain(heap, one, s)
      /\ one.head = At(s, 1) /\ one.tail = At(s, Len(s))
  BY PairFacts, ZenonT(60) DEF Pair
<1>2. L!Walk(heap, one.head, "next") = s
  BY <1>1, ChainWalked
<1>3. /\ hits = {} => r.heap = heap /\ r.list = one
      /\ hits # {} /\ item = one.head => r = L!RemoveFront(heap, one)
      /\ hits # {} /\ item # one.head /\ item = one.tail => r = L!RemoveTail(heap, one)
      /\ hits # {} /\ item # one.head /\ item # one.tail =>
           r.heap = rest /\ r.list = [one EXCEPT !.size = @ - 1]
  BY <1>2 DEF L!ListRemove
<1>4. hits # {} => least \in 1 .. Len(s)
  <2>1. hits \subseteq 1 .. Len(s) /\ hits \in SUBSET Nat
    BY <1>1, LenProperties
  <2> HIDE DEF hits
  <2>2. hits # {} => \E i \in hits : \A j \in hits : i <= j
    BY <2>1, LeastElement
  <2> QED BY <2>1, <2>2
<1> HIDE DEF hits, least, r
<1>5. CASE hits = {}
  BY <1>3, <1>5 DEF r
<1>6. CASE hits # {} /\ item = one.head
  BY <1>3, <1>6, RemoveFrontKeeps DEF r
<1>7. CASE hits # {} /\ item # one.head /\ item = one.tail
  BY <1>3, <1>7, RemoveTailKeeps DEF r
<1>8. CASE hits # {} /\ item # one.head /\ item # one.tail
  <2>1. least \in 1 .. Len(s) /\ least # 1 /\ least # Len(s)
    BY <1>1, <1>4, <1>8 DEF At
  <2>2. \E t : Pair(rest, [one EXCEPT !.size = @ - 1], two, t, u)
    BY <2>1, RemoveMiddleKeeps
  <2> HIDE DEF rest
  <2> QED BY <1>3, <1>8, <2>2 DEF r
<1> QED BY <1>5, <1>6, <1>7, <1>8

\* All of one list behind the other.
LEMMA MoveAllKeeps ==
  ASSUME NEW heap, NEW one, NEW two, NEW s, NEW u, Pair(heap, one, two, s, u)
  PROVE  LET r == L!MoveAll(heap, one, two)
         IN /\ \E t, v : Pair(r.heap, r.dest, r.src, t, v)
            /\ DOMAIN heap \subseteq DOMAIN r.heap
<1> DEFINE r == L!MoveAll(heap, one, two)
           g == L!Link(heap, one.tail, "next", two.head)
           h == L!Link(g, two.head, "prev", one.tail)
           l == [head |-> one.head, tail |-> two.tail, size |-> one.size + two.size]
           nil == L!ListCreateInternal
<1>1. /\ IsHeap(heap) /\ NULL \notin DOMAIN heap
      /\ s \in Seq(DOMAIN heap) /\ Len(s) \in Nat /\ \A i \in 1 .. Len(s) : s[i] \in DOMAIN heap
      /\ one.head = At(s, 1) /\ one.tail = At(s, Len(s)) /\ one.size = Len(s)
      /\ Pair(heap, two, one, u, s)
  BY PairFacts
<1>2. /\ u \in Seq(DOMAIN heap) /\ Len(u) \in Nat /\ \A i \in 1 .. Len(u) : u[i] \in DOMAIN heap
      /\ two.head = At(u, 1) /\ two.tail = At(u, Len(u)) /\ two.size = Len(u)
  BY <1>1, PairFacts
<1>3. /\ Chain(heap, one, s) /\ Chain(heap, two, u)
      /\ ToSet(s) \cap ToSet(u) = {} /\ ToSet(s) \cup ToSet(u) = DOMAIN heap
  BY DEF Pair
\* The list that is left has no node.
<1>4. ASSUME NEW a PROVE Chain(a, nil, << >>) /\ ToSet(<< >>) = {}
  <2>1. << >> \in Seq(DOMAIN a) /\ Len(<< >>) = 0 /\ IsInjective(<< >>) /\ ToSet(<< >>) = {}
    BY DEF IsInjective, ToSet
  <2>2. nil = Ends(<< >>)
    BY <2>1 DEF L!ListCreateInternal, Ends, At
  <2> HIDE DEF nil
  <2> QED BY <2>1, <2>2 DEF Chain
<1> HIDE DEF nil
<1>5. CASE two.head = NULL
  <2>1. r = [heap |-> heap, dest |-> one, src |-> two]
    BY <1>5 DEF L!MoveAll
  <2> HIDE DEF r
  <2> QED BY <2>1 DEF r
<1>6. CASE two.head # NULL /\ one.tail = NULL
  <2>1. r.heap = heap /\ r.dest = [head |-> two.head, tail |-> two.tail, size |-> one.size + two.size]
        /\ r.src = nil
    BY <1>6 DEF L!MoveAll, nil
  <2> HIDE DEF r
  <2>2. Len(s) = 0
    BY <1>1, <1>6 DEF At
  <2>3. s = << >> /\ ToSet(s) = {}
    BY <1>1, <1>4, <2>2, EmptySeq
  <2>4. r.dest = Ends(u)
    BY <1>1, <1>2, <2>1, <2>2 DEF Ends
  <2>5. Chain(heap, r.dest, u)
    BY <1>3, <2>4 DEF Chain
  <2>6. Pair(heap, r.dest, nil, u, << >>)
    BY <1>1, <1>3, <1>4, <2>3, <2>5 DEF Pair
  <2> QED BY <2>1, <2>6 DEF r
<1>7. CASE two.head # NULL /\ one.tail # NULL
  <2>1. r.heap = h /\ r.dest = l /\ r.src = nil
    <3>1. one.head = one.head
      OBVIOUS
    <3> QED BY <1>7 DEF L!MoveAll, nil
  <2>2. s # << >> /\ u # << >>
    <3>1. Len(s) # 0 /\ Len(u) # 0
      BY <1>1, <1>2, <1>7 DEF At
    <3> QED BY <3>1
  <2>3. one.tail \in DOMAIN heap \cup {NULL} /\ two.head \in DOMAIN heap \cup {NULL}
    BY <1>1, <1>2 DEF At
  <2>4. /\ IsHeap(g) /\ DOMAIN g = DOMAIN heap
        /\ \A m \in DOMAIN heap : /\ g[m].prev = heap[m].prev
                                  /\ g[m].next = IF m = one.tail THEN two.head ELSE heap[m].next
    BY <1>1, <2>3, LinkNext
  <2> HIDE DEF g
  <2>5. /\ IsHeap(h) /\ DOMAIN h = DOMAIN heap
        /\ \A m \in DOMAIN heap : /\ h[m].prev = IF m = two.head THEN one.tail ELSE g[m].prev
                                  /\ h[m].next = g[m].next
    BY <2>3, <2>4, LinkPrev, SMTT(60)
  <2> HIDE DEF h
  <2>6. Relinked(h, heap, At(u, 1), At(s, Len(s)), At(s, Len(s)), At(u, 1))
    BY <1>1, <1>2, <2>4, <2>5 DEF Relinked
  <2>7. Chain(h, l, s \o u) /\ ToSet(s \o u) = ToSet(s) \cup ToSet(u)
    <3>1. l = [head |-> one.head, tail |-> two.tail, size |-> one.size + two.size]
      OBVIOUS
    <3> HIDE DEF l
    <3> QED BY <1>1, <1>3, <2>2, <2>5, <2>6, <3>1, ChainsJoin
  <2> HIDE DEF l
  <2>8. Pair(h, l, nil, s \o u, << >>)
    BY <1>3, <1>4, <2>5, <2>7 DEF Pair
  <2> HIDE DEF r
  <2> QED BY <2>1, <2>5, <2>8 DEF r
<1> QED BY <1>5, <1>6, <1>7

------------------------------------------------------------------------------
(* Sorted arrays, as the map uses them *)

\* A sorted array of elements of S that does not free them.
SortedBy(a, S, k) ==
  IsArray(a, S) /\ Arranged(a, k) /\ a.sorted = TRUE /\ a.freecb = FALSE

\* What a sorted array says of the sequence it holds.
LEMMA SortedFacts ==
  ASSUME NEW S, NEW k \in [S -> Int], NEW a, SortedBy(a, S, k)
  PROVE  /\ a.data \in Seq(S) /\ Len(a.data) \in Nat /\ IsInjective(a.data) /\ Rising(a.data, k)
         /\ \A i \in 1 .. Len(a.data) : a.data[i] \in S /\ a.data[i] \in ToSet(a.data)
         /\ \A x \in ToSet(a.data) : x \in S /\ \E i \in 1 .. Len(a.data) : x = a.data[i]
         /\ \A x, y \in ToSet(a.data) : k[x] = k[y] => x = y
         /\ Cardinality(ToSet(a.data)) = Len(a.data) /\ IsFiniteSet(ToSet(a.data))
<1>1. a.data \in Seq(S) /\ IsInjective(a.data) /\ Rising(a.data, k)
  BY DEF SortedBy, IsArray, Arranged
<1>2. /\ Len(a.data) \in Nat
      /\ \A i \in 1 .. Len(a.data) : a.data[i] \in S /\ a.data[i] \in ToSet(a.data)
      /\ \A x \in ToSet(a.data) : x \in S /\ \E i \in 1 .. Len(a.data) : x = a.data[i]
  BY <1>1, Elements
<1>3. \A i, j \in 1 .. Len(a.data) : k[a.data[i]] = k[a.data[j]] => i = j
  BY <1>1, RisingDistinct
<1>4. ASSUME NEW x \in ToSet(a.data), NEW y \in ToSet(a.data), k[x] = k[y]
      PROVE  x = y
  <2>1. PICK i \in 1 .. Len(a.data) : x = a.data[i]
    BY <1>2
  <2>2. PICK j \in 1 .. Len(a.data) : y = a.data[j]
    BY <1>2
  <2> QED BY <1>3, <1>4, <2>1, <2>2
<1>5. Cardinality(ToSet(a.data)) = Len(a.data) /\ IsFiniteSet(ToSet(a.data))
  BY <1>1, InjectiveCount
<1> QED BY <1>1, <1>2, <1>4, <1>5

\* What Add makes of an element e of S that is not in the array: it takes the
\* place of the one of its key, goes in when there is none, or is refused.
Entered(r, a, S, k, e, ok) ==
  /\ SortedBy(r.a, S, k)
  /\ \/ /\ r.ret = TRUE
        /\ \E y \in ToSet(a.data) :
             k[y] = k[e] /\ ToSet(r.a.data) = (ToSet(a.data) \ {y}) \cup {e}
     \/ /\ \A y \in ToSet(a.data) : k[y] # k[e]
        /\ r.ret = TRUE /\ ToSet(r.a.data) = ToSet(a.data) \cup {e}
     \/ /\ \A y \in ToSet(a.data) : k[y] # k[e]
        /\ r.ret = FALSE /\ r.a = a /\ ok = FALSE

\* CMUTIL_ArrayAdd on a sorted array puts the item where its key belongs, in
\* the place of the one that had the key, or fails and changes nothing.
LEMMA AddSorted ==
  ASSUME NEW S, NEW k \in [S -> Int], NEW a, SortedBy(a, S, k), NULL \notin S,
         NEW e \in S, e \notin ToSet(a.data), NEW want \in BOOLEAN, NEW ok \in BOOLEAN,
         NEW r, r = ArrayAdd(a, e, want, ok, Comparisons(k[e], a.data, k))
  PROVE  Entered(r, a, S, k, e, ok)
<1> USE DEF Entered
<1> DEFINE cmps == Comparisons(k[e], a.data, k)
           at == SearchPrivate(cmps)
           p == at.idx + 1
           q == InsertAtPrivate(a, e, at.idx, ok)
<1>1. /\ a.data \in Seq(S) /\ Len(a.data) \in Nat /\ IsInjective(a.data) /\ Rising(a.data, k)
      /\ \A i \in 1 .. Len(a.data) : a.data[i] \in S /\ a.data[i] \in ToSet(a.data)
      /\ \A x \in ToSet(a.data) : x \in S /\ \E i \in 1 .. Len(a.data) : x = a.data[i]
  BY SortedFacts
<1>2. /\ IsArray(a, S) /\ Arranged(a, k) /\ a.sorted /\ a.freecb = FALSE
      /\ DOMAIN a = Fields /\ a = [x \in Fields |-> a[x]]
  BY DEF SortedBy, IsArray
<1>3. k[e] \in Int
  OBVIOUS
<1>4. \/ /\ at.found = 1 /\ at.idx \in 0 .. Len(a.data) - 1
         /\ at.idx + 1 \in 1 .. Len(a.data) /\ k[a.data[at.idx + 1]] = k[e]
      \/ /\ at.found = 2 /\ at.idx \in 0 .. Len(a.data)
         /\ \A i \in 1 .. at.idx : k[a.data[i]] < k[e]
         /\ \A i \in at.idx + 1 .. Len(a.data) : k[e] < k[a.data[i]]
  BY <1>1, <1>3, KeySearched
<1>5. /\ at.found = 1 => r.a = [a EXCEPT !.data[p] = e] /\ r.ret = TRUE
      /\ at.found = 2 => r.a = q.a /\ r.ret = (q.ret # NULL)
  <2> DEFINE old == a.data[at.idx + 1]
  <2>1. /\ at.found = 1 =>
             r = [a |-> [a EXCEPT !.data[at.idx + 1] = e], ret |-> TRUE,
                  freed |-> IF ~want /\ a.freecb /\ old # e THEN {old} ELSE {}]
        /\ at.found = 2 =>
             r = Same(InsertAtPrivate(a, e, at.idx, ok).a, InsertAtPrivate(a, e, at.idx, ok).ret # NULL)
    BY <1>2 DEF ArrayAdd
  <2> HIDE DEF at
  <2> QED BY <2>1 DEF Same
<1>6. IsArray(r.a, S) /\ Arranged(r.a, k)
  <2>1. Keeps(r, a, S, k, {e})
    BY <1>2, AddKeeps
  <2> QED BY <2>1 DEF Keeps
<1> HIDE DEF at, cmps
<1>7. CASE /\ at.found = 1 /\ at.idx \in 0 .. Len(a.data) - 1
           /\ at.idx + 1 \in 1 .. Len(a.data) /\ k[a.data[at.idx + 1]] = k[e]
  <2> DEFINE t == [a.data EXCEPT ![p] = e]
  <2>1. r.a.data = t /\ r.a.sorted = TRUE /\ r.a.freecb = FALSE
    <3> HIDE DEF p
    <3> QED BY <1>2, <1>5, <1>7 DEF Fields
  <2>2. p \in 1 .. Len(a.data) /\ k[a.data[p]] = k[e]
    BY <1>7
  <2> HIDE DEF p
  <2>3. ToSet(t) = (ToSet(a.data) \ {a.data[p]}) \cup {e}
    <3> DEFINE d == a.data
    <3>1. d \in Seq(S) /\ IsInjective(d) /\ e \notin ToSet(d) /\ p \in 1 .. Len(d)
      BY <1>1, <2>2
    <3> HIDE DEF d
    <3>2. ToSet([d EXCEPT ![p] = e]) = (ToSet(d) \ {d[p]}) \cup {e}
      BY <3>1, Replaced, SMTT(60)
    <3> QED BY <3>2 DEF d
  <2>4. a.data[p] \in ToSet(a.data)
    BY <1>1, <2>2
  <2> HIDE DEF t
  <2>5. SortedBy(r.a, S, k)
    BY <1>6, <2>1 DEF SortedBy
  <2>6. \E y \in ToSet(a.data) :
           k[y] = k[e] /\ ToSet(r.a.data) = (ToSet(a.data) \ {y}) \cup {e}
    BY <2>1, <2>2, <2>3, <2>4
  <2> QED BY <1>5, <1>7, <2>5, <2>6
<1>8. CASE /\ at.found = 2 /\ at.idx \in 0 .. Len(a.data)
           /\ \A i \in 1 .. at.idx : k[a.data[i]] < k[e]
           /\ \A i \in at.idx + 1 .. Len(a.data) : k[e] < k[a.data[i]]
  <2>1. \A y \in ToSet(a.data) : k[y] # k[e]
    <3> SUFFICES ASSUME NEW i \in 1 .. Len(a.data) PROVE k[a.data[i]] # k[e]
      BY <1>1, ZenonT(60)
    <3>1. i \in 1 .. at.idx \/ i \in at.idx + 1 .. Len(a.data)
      BY <1>1, <1>8, SMTT(60)
    <3>2. k[a.data[i]] \in Int
      BY <1>1
    <3> QED BY <1>3, <1>8, <3>1, <3>2
  <2>2. CASE ~CanHold(a, ok)
    <3>1. q.a = a /\ q.ret = NULL
      BY <2>2 DEF InsertAtPrivate, Same
    <3>2. r.a = a /\ r.ret = FALSE /\ ok = FALSE
      <4> HIDE DEF q
      <4> QED BY <1>5, <1>8, <2>2, <3>1 DEF CanHold
    <3>3. SortedBy(r.a, S, k)
      BY <3>2
    <3> QED BY <2>1, <3>2, <3>3
  <2>3. CASE CanHold(a, ok)
    <3> DEFINE b == [a EXCEPT !.capacity = Grown(a)]
               t == InsertAt(a.data, p, e)
    <3>1. ~(at.idx > Size(a))
      BY <1>1, <1>8 DEF Size
    <3>2. q.a = [b EXCEPT !.data = InsertAt(b.data, p, e)] /\ q.ret = e
      BY <2>3, <3>1 DEF InsertAtPrivate, Same
    <3>3. p \in 1 .. Len(a.data) + 1
      BY <1>1, <1>8
    <3> HIDE DEF p, q
    <3>4. q.a.data = t /\ q.a.sorted = TRUE /\ q.a.freecb = FALSE
      BY <1>2, <3>2 DEF Fields
    <3>5. ToSet(t) = ToSet(a.data) \cup {e}
      BY <1>1, <3>3, InsertedInOrder, SMTT(60)
    <3> HIDE DEF t
    <3>6. r.ret = TRUE /\ ToSet(r.a.data) = ToSet(a.data) \cup {e}
      BY <1>5, <1>8, <3>2, <3>4, <3>5
    <3>7. SortedBy(r.a, S, k)
      BY <1>5, <1>6, <1>8, <3>4 DEF SortedBy
    <3> QED BY <2>1, <3>6, <3>7
  <2> QED BY <2>2, <2>3
<1> QED BY <1>4, <1>7, <1>8

\* Find: the element of the key, when there is one.
LEMMA FindSorted ==
  ASSUME NEW S, NEW k \in [S -> Int], NEW a, IsArray(a, S), Arranged(a, k), a.sorted = TRUE,
         NULL \notin Nat, NEW key \in Int
  PROVE  LET at == ArrayFind(a, Comparisons(key, a.data, k))
         IN \/ at = NULL /\ \A y \in ToSet(a.data) : k[y] # key
            \/ /\ at # NULL /\ at \in Nat /\ at < Len(a.data)
               /\ at + 1 \in 1 .. Len(a.data) /\ k[a.data[at + 1]] = key
               /\ ArrayGetAt(a, at) = a.data[at + 1] /\ a.data[at + 1] \in ToSet(a.data)
<1> DEFINE cmps == Comparisons(key, a.data, k)
           s == SearchPrivate(cmps)
           at == ArrayFind(a, cmps)
<1>1. /\ a.data \in Seq(S) /\ Len(a.data) \in Nat /\ Rising(a.data, k)
      /\ \A i \in 1 .. Len(a.data) : a.data[i] \in S /\ a.data[i] \in ToSet(a.data)
      /\ \A x \in ToSet(a.data) : x \in S /\ \E i \in 1 .. Len(a.data) : x = a.data[i]
  <2>1. a.data \in Seq(S) /\ Rising(a.data, k)
    BY DEF IsArray, Arranged
  <2> QED BY <2>1, Elements
<1>2. \/ /\ s.found = 1 /\ s.idx \in 0 .. Len(a.data) - 1
         /\ s.idx + 1 \in 1 .. Len(a.data) /\ k[a.data[s.idx + 1]] = key
      \/ /\ s.found = 2 /\ s.idx \in 0 .. Len(a.data)
         /\ \A i \in 1 .. s.idx : k[a.data[i]] < key
         /\ \A i \in s.idx + 1 .. Len(a.data) : key < k[a.data[i]]
  BY <1>1, KeySearched
<1>3. at = IF s.found = 1 THEN s.idx ELSE NULL
  BY DEF ArrayFind
<1> HIDE DEF s, cmps, at
<1>4. CASE /\ s.found = 1 /\ s.idx \in 0 .. Len(a.data) - 1
           /\ s.idx + 1 \in 1 .. Len(a.data) /\ k[a.data[s.idx + 1]] = key
  <2>1. at = s.idx /\ at \in Nat /\ at < Len(a.data)
    BY <1>1, <1>3, <1>4
  <2>2. ArrayGetAt(a, at) = a.data[at + 1]
    BY <2>1 DEF ArrayGetAt, Size
  <2> QED BY <1>1, <1>4, <2>1, <2>2 DEF at, cmps
<1>5. CASE /\ s.found = 2 /\ s.idx \in 0 .. Len(a.data)
           /\ \A i \in 1 .. s.idx : k[a.data[i]] < key
           /\ \A i \in s.idx + 1 .. Len(a.data) : key < k[a.data[i]]
  <2>1. at = NULL
    BY <1>3, <1>5
  <2>2. \A y \in ToSet(a.data) : k[y] # key
    <3> SUFFICES ASSUME NEW i \in 1 .. Len(a.data) PROVE k[a.data[i]] # key
      BY <1>1
    <3>1. i \in 1 .. s.idx \/ i \in s.idx + 1 .. Len(a.data)
      BY <1>1, <1>5
    <3>2. k[a.data[i]] \in Int
      BY <1>1
    <3> QED BY <1>5, <3>1, <3>2
  <2> QED BY <2>1, <2>2 DEF at, cmps
<1> QED BY <1>2, <1>4, <1>5

\* What Remove of a key makes of an array: the element of the key is taken out,
\* when there is one.
TakenOut(r, a, S, k, key) ==
  /\ SortedBy(r.a, S, k)
  /\ \/ (\A y \in ToSet(a.data) : k[y] # key) /\ r.a = a /\ r.ret = NULL
     \/ /\ r.ret \in ToSet(a.data) /\ k[r.ret] = key
        /\ ToSet(r.a.data) = ToSet(a.data) \ {r.ret}

\* CMUTIL_ArrayRemove on a sorted array takes out the item of the key, if there
\* is one, and no other.
LEMMA RemoveSorted ==
  ASSUME NEW S, NEW k \in [S -> Int], NEW a, SortedBy(a, S, k), NULL \notin Nat, NEW key \in Int,
         NEW r, r = ArrayRemove(a, Comparisons(key, a.data, k))
  PROVE  TakenOut(r, a, S, k, key)
<1> USE DEF TakenOut
<1> DEFINE cmps == Comparisons(key, a.data, k)
           at == ArrayFind(a, cmps)
           t == RemoveAt(a.data, at + 1)
<1>1. \/ at = NULL /\ \A y \in ToSet(a.data) : k[y] # key
      \/ /\ at # NULL /\ at \in Nat /\ at < Len(a.data)
         /\ at + 1 \in 1 .. Len(a.data) /\ k[a.data[at + 1]] = key
         /\ a.data[at + 1] \in ToSet(a.data)
  <2>1. IsArray(a, S) /\ Arranged(a, k) /\ a.sorted = TRUE
    BY DEF SortedBy
  <2> QED BY <2>1, FindSorted, ZenonT(90)
<1>2. r = IF at = NULL THEN Same(a, NULL) ELSE ArrayRemoveAt(a, at)
  BY DEF ArrayRemove
<1>3. /\ IsArray(a, S) /\ Arranged(a, k) /\ a.sorted = TRUE /\ a.freecb = FALSE
      /\ DOMAIN a = Fields /\ a = [x \in Fields |-> a[x]]
      /\ a.data \in Seq(S) /\ IsInjective(a.data) /\ Len(a.data) \in Nat
  BY LenProperties DEF SortedBy, IsArray, Arranged
<1>4. IsArray(r.a, S) /\ Arranged(r.a, k)
  <2>1. Keeps(r, a, S, k, {})
    BY <1>3, RemoveKeeps
  <2> QED BY <2>1 DEF Keeps
<1> HIDE DEF at, cmps
<1>5. CASE at = NULL /\ \A y \in ToSet(a.data) : k[y] # key
  <2>1. r.a = a /\ r.ret = NULL
    BY <1>2, <1>5 DEF Same
  <2>2. SortedBy(r.a, S, k)
    BY <2>1
  <2> QED BY <1>5, <2>1, <2>2
<1>6. CASE /\ at # NULL /\ at \in Nat /\ at < Len(a.data)
           /\ at + 1 \in 1 .. Len(a.data) /\ k[a.data[at + 1]] = key
           /\ a.data[at + 1] \in ToSet(a.data)
  <2>1. r.a = [a EXCEPT !.data = t] /\ r.ret = a.data[at + 1]
    BY <1>2, <1>3, <1>6 DEF ArrayRemoveAt, Same, Size
  <2>2. ToSet(t) = ToSet(a.data) \ {a.data[at + 1]}
    <3> DEFINE p == at + 1
    <3>1. p \in 1 .. Len(a.data)
      BY <1>6
    <3> HIDE DEF p
    <3>2. Without(RemoveAt(a.data, p), a.data, p, S, k)
      BY <1>3, <3>1, RemovedInOrder
    <3> QED BY <3>2 DEF p, Without
  <2> HIDE DEF t
  <2>3. r.a.data = t /\ r.a.sorted = TRUE /\ r.a.freecb = FALSE
    BY <1>3, <2>1 DEF Fields
  <2>4. SortedBy(r.a, S, k)
    BY <1>4, <2>3 DEF SortedBy
  <2> QED BY <1>6, <2>1, <2>2, <2>3, <2>4
<1> QED BY <1>1, <1>5, <1>6

------------------------------------------------------------------------------
(* Maps *)

ItemFields == {"key", "value", "hash", "order"}
MapFields == {"buckets", "bucketsize", "keyset", "size", "ucase", "freecb",
              "usecount", "orderseq", "loadfactor", "torn"}
MapItem == [key : MapKeys, value : Value, hash : Nat, order : Nat]
KeyIn   == [x \in MapItem |-> x.key]
OrderIn == [x \in MapItem |-> x.order]

\* The null pointer is no index, value, array or item; the order of keys, their
\* hashes and upper case are what maps.c takes from strcmp, a 32-bit hash and
\* toupper.
MapData ==
  /\ NULL \notin Nat /\ NULL \notin Value
  /\ \A r : DOMAIN r \in {Fields, ItemFields} => r # NULL
  /\ MapKeys \subseteq Int
  /\ \A k \in MapKeys : HashOf(k) \in Nat
  /\ \A k \in Key : Upper(Upper(k)) = Upper(k)
  /\ BucketCapacity \in Nat

IsBucket(a) == SortedBy(a, MapItem, KeyIn)

\* The item belongs into bucket b.
Fits(m, b, x) ==
  x.hash = HashOf(x.key) /\ x.hash % m.bucketsize = b /\ MapToUpper(m, x.key) = x.key

UsedOf(m) == {b \in 0 .. m.bucketsize - 1 : m.buckets[b] # NULL}

\* A map whose buckets are in order; keyset is in order too, but is not yet said
\* to have the same items.
IsMap(m) ==
  /\ DOMAIN m = MapFields /\ m = [f \in MapFields |-> m[f]]
  /\ m.bucketsize \in Nat \ {0} /\ m.orderseq \in Nat
  /\ m.ucase \in BOOLEAN /\ m.freecb \in BOOLEAN /\ m.torn \in BOOLEAN
  /\ DOMAIN m.buckets = 0 .. m.bucketsize - 1
  /\ m.buckets = [b \in 0 .. m.bucketsize - 1 |-> m.buckets[b]]
  /\ \A b \in 0 .. m.bucketsize - 1 : m.buckets[b] = NULL \/ IsBucket(m.buckets[b])
  /\ SortedBy(m.keyset, MapItem, OrderIn)
  /\ \A b \in 0 .. m.bucketsize - 1 : \A x \in ToSet(Bucket(m, b).data) :
       Fits(m, b, x) /\ x.order < m.orderseq
  /\ m.usecount = Cardinality(UsedOf(m))

\* The fields that an operation on the buckets leaves alone.
Alike(r, m) ==
  r.keyset = m.keyset /\ r.size = m.size /\ r.ucase = m.ucase /\ r.freecb = m.freecb
  /\ r.orderseq = m.orderseq

\* What the hypotheses about keys and hashes say of an item of a map.
LEMMA DataFacts ==
  ASSUME MapData
  PROVE  /\ KeyIn \in [MapItem -> Int] /\ OrderIn \in [MapItem -> Int]
         /\ NULL \notin Nat /\ NULL \notin MapItem /\ NULL \notin Value
         /\ \A a, k, S : SortedBy(a, S, k) => a # NULL
         /\ \A x \in MapItem : /\ x.key \in MapKeys /\ x.key \in Int /\ x.value \in Value
                               /\ x.hash \in Nat /\ x.order \in Nat
                               /\ KeyIn[x] = x.key /\ OrderIn[x] = x.order
                               /\ x = [key |-> x.key, value |-> x.value, hash |-> x.hash,
                                       order |-> x.order]
<1>1. MapKeys \subseteq Int /\ NULL \notin Nat /\ NULL \notin Value
  BY DEF MapData
<1>2. \A x \in MapItem : /\ x.key \in MapKeys /\ x.key \in Int /\ x.value \in Value
                         /\ x.hash \in Nat /\ x.order \in Nat
                         /\ DOMAIN x = ItemFields
                         /\ x = [key |-> x.key, value |-> x.value, hash |-> x.hash,
                                 order |-> x.order]
  <2> SUFFICES ASSUME NEW x \in MapItem
               PROVE  /\ x.key \in MapKeys /\ x.key \in Int /\ x.value \in Value
                      /\ x.hash \in Nat /\ x.order \in Nat
                      /\ DOMAIN x = ItemFields
                      /\ x = [key |-> x.key, value |-> x.value, hash |-> x.hash,
                              order |-> x.order]
    OBVIOUS
  <2>1. PICK k \in MapKeys, v \in Value, h \in Nat, o \in Nat :
          x = [key |-> k, value |-> v, hash |-> h, order |-> o]
    BY DEF MapItem
  <2>2. x.key = k /\ x.value = v /\ x.hash = h /\ x.order = o
    BY <2>1
  <2>3. DOMAIN x = ItemFields
    BY <2>1 DEF ItemFields
  <2> QED BY <1>1, <2>1, <2>2, <2>3
<1>3. KeyIn \in [MapItem -> Int] /\ OrderIn \in [MapItem -> Int]
  BY <1>2 DEF KeyIn, OrderIn
<1>4. NULL \notin MapItem
  BY <1>2 DEF MapData
<1>5. \A a, k, S : SortedBy(a, S, k) => a # NULL
  BY DEF MapData, SortedBy, IsArray
<1> QED BY <1>1, <1>2, <1>3, <1>4, <1>5 DEF KeyIn, OrderIn

\* The comparators of the map.
LEMMA Comparators ==
  ASSUME NEW a, a.data \in Seq(MapItem), NEW key
  PROVE  /\ ByKey(key, a) = Comparisons(key, a.data, KeyIn)
         /\ ByOrder(key, a) = Comparisons(key, a.data, OrderIn)
<1>1. \A i \in 1 .. Len(a.data) : a.data[i] \in MapItem
  BY Elements
<1> QED BY <1>1 DEF ByKey, ByOrder, Comparisons, Size, KeyIn, OrderIn

\* A bucket that CMUTIL_MapPut just made is sorted and empty.
LEMMA NewBucketEmpty ==
  ASSUME MapData
  PROVE  IsBucket(NewBucket) /\ ToSet(NewBucket.data) = {} /\ NewBucket.data = << >>
<1> DEFINE a == [data |-> << >>, capacity |-> BucketCapacity, sorted |-> TRUE, freecb |-> FALSE]
<1>1. NewBucket = a
  BY DEF NewBucket, ArrayCreateInternal
<1>2. /\ << >> \in Seq(MapItem) /\ Len(<< >>) = 0 /\ IsInjective(<< >>) /\ Rising(<< >>, KeyIn)
      /\ ToSet(<< >>) = {}
  BY DEF IsInjective, Rising, ToSet
<1>3. /\ DOMAIN a = Fields /\ a = [x \in Fields |-> a[x]]
      /\ a.data = << >> /\ a.capacity = BucketCapacity /\ a.sorted = TRUE /\ a.freecb = FALSE
  BY DEF Fields
<1> HIDE DEF a
<1>4. IsBucket(a)
  <2>1. IsArray(a, MapItem)
    <3>1. Size(a) = 0 /\ a.data \in Seq(MapItem)
      BY <1>2, <1>3 DEF Size
    <3>2. Size(a) <= a.capacity
      BY <1>3, <3>1 DEF MapData
    <3>3. DOMAIN a = Fields /\ a = [x \in Fields |-> a[x]]
      BY <1>3
    <3>4. a.capacity \in Nat
      BY <1>3 DEF MapData
    <3>5. a.sorted \in BOOLEAN
      BY <1>3
    <3>6. a.freecb \in BOOLEAN
      BY <1>3
    <3> QED BY <3>1, <3>2, <3>3, <3>4, <3>5, <3>6 DEF IsArray
  <2>2. Arranged(a, KeyIn)
    BY <1>2, <1>3 DEF Arranged
  <2> QED BY <1>3, <2>1, <2>2 DEF IsBucket, SortedBy
<1> QED BY <1>1, <1>2, <1>3, <1>4

\* Where the items are.
LEMMA MapFacts ==
  ASSUME MapData, NEW m, IsMap(m)
  PROVE  /\ m.bucketsize \in Nat /\ m.bucketsize > 0
         /\ \A b \in 0 .. m.bucketsize - 1 :
              IsBucket(Bucket(m, b)) /\ ToSet(Bucket(m, b).data) \subseteq Items(m)
         /\ \A x \in Items(m) :
              /\ x \in MapItem /\ x.hash = HashOf(x.key) /\ MapToUpper(m, x.key) = x.key
              /\ x.order < m.orderseq
              /\ x.hash % m.bucketsize \in 0 .. m.bucketsize - 1
              /\ x \in ToSet(Bucket(m, x.hash % m.bucketsize).data)
         /\ \A x, y \in Items(m) : x.key = y.key => x = y
<1>1. m.bucketsize \in Nat /\ m.bucketsize > 0
  BY DEF IsMap
<1>2. ASSUME NEW b \in 0 .. m.bucketsize - 1 PROVE IsBucket(Bucket(m, b))
  BY NewBucketEmpty DEF IsMap, Bucket
<1>3. ASSUME NEW b \in 0 .. m.bucketsize - 1
      PROVE  ToSet(Bucket(m, b).data) \subseteq Items(m)
  BY DEF Items
<1>4. ASSUME NEW b \in 0 .. m.bucketsize - 1, NEW x \in ToSet(Bucket(m, b).data)
      PROVE  /\ x \in MapItem /\ Fits(m, b, x) /\ x.order < m.orderseq
  <2>1. Fits(m, b, x) /\ x.order < m.orderseq
    BY DEF IsMap
  <2>2. x \in MapItem
    BY <1>2, SortedFacts, DataFacts DEF IsBucket
  <2> QED BY <2>1, <2>2
<1>5. ASSUME NEW x \in Items(m)
      PROVE  /\ x \in MapItem /\ x.hash = HashOf(x.key) /\ MapToUpper(m, x.key) = x.key
             /\ x.order < m.orderseq
             /\ x.hash % m.bucketsize \in 0 .. m.bucketsize - 1
             /\ x \in ToSet(Bucket(m, x.hash % m.bucketsize).data)
  <2>1. PICK b \in 0 .. m.bucketsize - 1 : x \in ToSet(Bucket(m, b).data)
    BY DEF Items
  <2> QED BY <1>4, <2>1 DEF Fits
<1>6. ASSUME NEW x \in Items(m), NEW y \in Items(m), x.key = y.key
      PROVE  x = y
  <2> DEFINE b == x.hash % m.bucketsize
  <2>1. /\ b \in 0 .. m.bucketsize - 1 /\ x \in MapItem /\ y \in MapItem
        /\ x \in ToSet(Bucket(m, b).data) /\ y \in ToSet(Bucket(m, b).data)
    BY <1>5, <1>6
  <2> HIDE DEF b
  <2>2. KeyIn[x] = KeyIn[y] /\ KeyIn \in [MapItem -> Int]
    BY <1>6, <2>1, DataFacts
  <2>3. SortedBy(Bucket(m, b), MapItem, KeyIn)
    BY <1>2, <2>1 DEF IsBucket
  <2> QED BY <2>1, <2>2, <2>3, SortedFacts
<1> QED BY <1>1, <1>2, <1>3, <1>5, <1>6

\* A bucket takes in an item, in the place of the one of its key if there is one.
KeyEntered(r, a, x, ok) ==
  /\ IsBucket(r.a)
  /\ \/ /\ r.ret = TRUE
        /\ \E y \in ToSet(a.data) :
             y.key = x.key /\ ToSet(r.a.data) = (ToSet(a.data) \ {y}) \cup {x}
     \/ /\ \A y \in ToSet(a.data) : y.key # x.key
        /\ r.ret = TRUE /\ ToSet(r.a.data) = ToSet(a.data) \cup {x}
     \/ /\ \A y \in ToSet(a.data) : y.key # x.key
        /\ r.ret = FALSE /\ r.a = a /\ ok = FALSE

\* An item added to its bucket is found there, and every other item is kept
\* unless it has the same key.
LEMMA AddKeyFacts ==
  ASSUME MapData, NEW a, IsBucket(a), NEW x \in MapItem, x \notin ToSet(a.data),
         NEW ok \in BOOLEAN
  PROVE  KeyEntered(AddKey(a, x, ok), a, x, ok)
<1>1. /\ KeyIn \in [MapItem -> Int] /\ NULL \notin MapItem /\ KeyIn[x] = x.key
      /\ SortedBy(a, MapItem, KeyIn)
  BY DataFacts DEF IsBucket
<1>2. \A y \in ToSet(a.data) : KeyIn[y] = y.key
  BY <1>1, SortedFacts, DataFacts
<1>3. AddKey(a, x, ok) = ArrayAdd(a, x, TRUE, ok, Comparisons(KeyIn[x], a.data, KeyIn))
  BY <1>1, SortedFacts, Comparators DEF AddKey
<1> DEFINE r == AddKey(a, x, ok)
<1> HIDE DEF r
<1>4. /\ SortedBy(r.a, MapItem, KeyIn)
      /\ \/ /\ r.ret = TRUE
            /\ \E y \in ToSet(a.data) :
                 KeyIn[y] = KeyIn[x] /\ ToSet(r.a.data) = (ToSet(a.data) \ {y}) \cup {x}
         \/ /\ \A y \in ToSet(a.data) : KeyIn[y] # KeyIn[x]
            /\ r.ret = TRUE /\ ToSet(r.a.data) = ToSet(a.data) \cup {x}
         \/ /\ \A y \in ToSet(a.data) : KeyIn[y] # KeyIn[x]
            /\ r.ret = FALSE /\ r.a = a /\ ok = FALSE
  <2>1. r = ArrayAdd(a, x, TRUE, ok, Comparisons(KeyIn[x], a.data, KeyIn))
    BY <1>3 DEF r
  <2>2. Entered(r, a, MapItem, KeyIn, x, ok)
    BY <1>1, <2>1, AddSorted, ZenonT(60)
  <2> QED BY <2>2 DEF Entered
<1>5. \/ /\ r.ret = TRUE
         /\ \E y \in ToSet(a.data) :
              y.key = x.key /\ ToSet(r.a.data) = (ToSet(a.data) \ {y}) \cup {x}
      \/ /\ \A y \in ToSet(a.data) : y.key # x.key
         /\ r.ret = TRUE /\ ToSet(r.a.data) = ToSet(a.data) \cup {x}
      \/ /\ \A y \in ToSet(a.data) : y.key # x.key
         /\ r.ret = FALSE /\ r.a = a /\ ok = FALSE
  BY <1>1, <1>2, <1>4
<1> QED BY <1>4, <1>5 DEF IsBucket, KeyEntered, r

\* A look-up in a bucket.
LEMMA FindKeyFacts ==
  ASSUME MapData, NEW a, IsBucket(a), NEW key \in MapKeys
  PROVE  LET at == FindKey(a, key)
         IN \/ at = NULL /\ \A y \in ToSet(a.data) : y.key # key
            \/ /\ at # NULL /\ ArrayGetAt(a, at) \in ToSet(a.data)
               /\ ArrayGetAt(a, at).key = key
<1>1. /\ KeyIn \in [MapItem -> Int] /\ NULL \notin Nat /\ SortedBy(a, MapItem, KeyIn) /\ key \in Int
  BY DataFacts DEF IsBucket, MapData
<1>2. \A y \in ToSet(a.data) : KeyIn[y] = y.key
  BY <1>1, SortedFacts, DataFacts
<1>3. FindKey(a, key) = ArrayFind(a, Comparisons(key, a.data, KeyIn))
  BY <1>1, SortedFacts, Comparators DEF FindKey
<1> DEFINE at == ArrayFind(a, Comparisons(key, a.data, KeyIn))
<1>4. \/ at = NULL /\ \A y \in ToSet(a.data) : KeyIn[y] # key
      \/ /\ at # NULL /\ at \in Nat /\ at < Len(a.data)
         /\ at + 1 \in 1 .. Len(a.data) /\ KeyIn[a.data[at + 1]] = key
         /\ ArrayGetAt(a, at) = a.data[at + 1] /\ a.data[at + 1] \in ToSet(a.data)
  BY <1>1, FindSorted DEF SortedBy
<1> HIDE DEF at
<1>5. \/ at = NULL /\ \A y \in ToSet(a.data) : y.key # key
      \/ /\ at # NULL /\ ArrayGetAt(a, at) \in ToSet(a.data)
         /\ ArrayGetAt(a, at).key = key
  BY <1>2, <1>4
<1> QED BY <1>3, <1>5 DEF at

\* A bucket without the item of a key.
LEMMA RemoveKeyFacts ==
  ASSUME MapData, NEW a, IsBucket(a), NEW key \in MapKeys
  PROVE  LET r == RemoveKey(a, key)
         IN /\ IsBucket(r.a)
            /\ \/ (\A y \in ToSet(a.data) : y.key # key) /\ r.a = a /\ r.ret = NULL
               \/ /\ r.ret \in ToSet(a.data) /\ r.ret.key = key /\ r.ret # NULL
                  /\ ToSet(r.a.data) = ToSet(a.data) \ {r.ret}
<1>1. /\ KeyIn \in [MapItem -> Int] /\ NULL \notin Nat /\ SortedBy(a, MapItem, KeyIn) /\ key \in Int
  BY DataFacts DEF IsBucket, MapData
<1>2. \A y \in ToSet(a.data) : KeyIn[y] = y.key /\ y # NULL
  BY <1>1, SortedFacts, DataFacts
<1>3. RemoveKey(a, key) = ArrayRemove(a, Comparisons(key, a.data, KeyIn))
  BY <1>1, SortedFacts, Comparators DEF RemoveKey
<1> DEFINE r == RemoveKey(a, key)
<1> HIDE DEF r
<1>4. /\ SortedBy(r.a, MapItem, KeyIn)
      /\ \/ (\A y \in ToSet(a.data) : KeyIn[y] # key) /\ r.a = a /\ r.ret = NULL
         \/ /\ r.ret \in ToSet(a.data) /\ KeyIn[r.ret] = key
            /\ ToSet(r.a.data) = ToSet(a.data) \ {r.ret}
  <2>1. r = ArrayRemove(a, Comparisons(key, a.data, KeyIn))
    BY <1>3 DEF r
  <2>2. TakenOut(r, a, MapItem, KeyIn, key)
    BY <1>1, <2>1, RemoveSorted
  <2> QED BY <2>2 DEF TakenOut
<1>5. \/ (\A y \in ToSet(a.data) : y.key # key) /\ r.a = a /\ r.ret = NULL
      \/ /\ r.ret \in ToSet(a.data) /\ r.ret.key = key /\ r.ret # NULL
         /\ ToSet(r.a.data) = ToSet(a.data) \ {r.ret}
  BY <1>2, <1>4
<1> QED BY <1>4, <1>5 DEF IsBucket, r

\* keyset, the items in the order of their puts, without the item of an order.
LEMMA RemoveOrderFacts ==
  ASSUME MapData, NEW a, SortedBy(a, MapItem, OrderIn), NEW order \in Nat
  PROVE  LET r == RemoveOrder(a, order)
         IN /\ SortedBy(r.a, MapItem, OrderIn)
            /\ ToSet(r.a.data) = {y \in ToSet(a.data) : y.order # order}
<1>1. OrderIn \in [MapItem -> Int] /\ NULL \notin Nat /\ order \in Int
  BY DataFacts
<1>2. \A y \in ToSet(a.data) : OrderIn[y] = y.order
  BY <1>1, SortedFacts, DataFacts
<1>3. RemoveOrder(a, order) = ArrayRemove(a, Comparisons(order, a.data, OrderIn))
  BY <1>1, SortedFacts, Comparators DEF RemoveOrder
<1> DEFINE r == RemoveOrder(a, order)
<1> HIDE DEF r
<1>4. /\ SortedBy(r.a, MapItem, OrderIn)
      /\ \/ (\A y \in ToSet(a.data) : OrderIn[y] # order) /\ r.a = a /\ r.ret = NULL
         \/ /\ r.ret \in ToSet(a.data) /\ OrderIn[r.ret] = order
            /\ ToSet(r.a.data) = ToSet(a.data) \ {r.ret}
  <2>1. r = ArrayRemove(a, Comparisons(order, a.data, OrderIn))
    BY <1>3 DEF r
  <2>2. TakenOut(r, a, MapItem, OrderIn, order)
    BY <1>1, <2>1, RemoveSorted
  <2> QED BY <2>2 DEF TakenOut
<1>5. \A x, y \in ToSet(a.data) : OrderIn[x] = OrderIn[y] => x = y
  BY <1>1, SortedFacts
<1>6. ToSet(r.a.data) = {y \in ToSet(a.data) : y.order # order}
  BY <1>2, <1>4, <1>5
<1> QED BY <1>4, <1>6 DEF r

\* keyset with an item put after all of its own.
OrderEntered(r, a, x, ok) ==
  /\ SortedBy(r.a, MapItem, OrderIn)
  /\ \/ r.ret = TRUE /\ ToSet(r.a.data) = ToSet(a.data) \cup {x}
     \/ r.ret = FALSE /\ r.a = a /\ ok = FALSE

\* An item added to the key set stands behind all that are older.
LEMMA AddOrderFacts ==
  ASSUME MapData, NEW a, SortedBy(a, MapItem, OrderIn), NEW x \in MapItem,
         \A y \in ToSet(a.data) : y.order < x.order, NEW ok \in BOOLEAN
  PROVE  OrderEntered(AddOrder(a, x, ok), a, x, ok)
<1>1. /\ OrderIn \in [MapItem -> Int] /\ NULL \notin MapItem /\ OrderIn[x] = x.order
      /\ x.order \in Nat
  BY DataFacts
<1>2. \A y \in ToSet(a.data) : OrderIn[y] = y.order /\ y.order \in Nat
  BY <1>1, SortedFacts, DataFacts
<1>3. x \notin ToSet(a.data) /\ \A y \in ToSet(a.data) : OrderIn[y] # OrderIn[x]
  BY <1>1, <1>2
<1>4. AddOrder(a, x, ok) = ArrayAdd(a, x, FALSE, ok, Comparisons(OrderIn[x], a.data, OrderIn))
  BY <1>1, SortedFacts, Comparators DEF AddOrder
<1> DEFINE r == AddOrder(a, x, ok)
<1> HIDE DEF r
<1>5. /\ SortedBy(r.a, MapItem, OrderIn)
      /\ \/ /\ r.ret = TRUE
            /\ \E y \in ToSet(a.data) :
                 OrderIn[y] = OrderIn[x] /\ ToSet(r.a.data) = (ToSet(a.data) \ {y}) \cup {x}
         \/ /\ \A y \in ToSet(a.data) : OrderIn[y] # OrderIn[x]
            /\ r.ret = TRUE /\ ToSet(r.a.data) = ToSet(a.data) \cup {x}
         \/ /\ \A y \in ToSet(a.data) : OrderIn[y] # OrderIn[x]
            /\ r.ret = FALSE /\ r.a = a /\ ok = FALSE
  <2>1. r = ArrayAdd(a, x, FALSE, ok, Comparisons(OrderIn[x], a.data, OrderIn))
    BY <1>4 DEF r
  <2>2. Entered(r, a, MapItem, OrderIn, x, ok)
    BY <1>1, <1>3, <2>1, AddSorted
  <2> QED BY <2>2 DEF Entered
<1>6. \/ r.ret = TRUE /\ ToSet(r.a.data) = ToSet(a.data) \cup {x}
      \/ r.ret = FALSE /\ r.a = a /\ ok = FALSE
  BY <1>3, <1>5
<1> QED BY <1>5, <1>6 DEF OrderEntered, r

\* The bucket of a key.
LEMMA BucketFacts ==
  ASSUME MapData, NEW m, IsMap(m), NEW key, MapToUpper(m, key) \in MapKeys
  PROVE  /\ BucketOf(m, key) = HashOf(MapToUpper(m, key)) % m.bucketsize
         /\ BucketOf(m, key) \in 0 .. m.bucketsize - 1
         /\ IsBucket(Bucket(m, BucketOf(m, key)))
         /\ \A x \in Items(m) : x.key = MapToUpper(m, key)
                                  => x \in ToSet(Bucket(m, BucketOf(m, key)).data)
<1>1. BucketOf(m, key) = HashOf(MapToUpper(m, key)) % m.bucketsize
  BY DEF BucketOf, MapHash, MapToUpper
<1>2. m.bucketsize \in Nat /\ m.bucketsize > 0 /\ HashOf(MapToUpper(m, key)) \in Nat
  BY MapFacts DEF MapData
<1>3. BucketOf(m, key) \in 0 .. m.bucketsize - 1
  BY <1>1, <1>2
<1>4. \A x \in Items(m) : x.key = MapToUpper(m, key)
                            => x \in ToSet(Bucket(m, BucketOf(m, key)).data)
  <2> SUFFICES ASSUME NEW x \in Items(m), x.key = MapToUpper(m, key)
               PROVE  x \in ToSet(Bucket(m, BucketOf(m, key)).data)
    OBVIOUS
  <2>1. x.hash = HashOf(x.key) /\ x \in ToSet(Bucket(m, x.hash % m.bucketsize).data)
    BY MapFacts
  <2> QED BY <1>1, <2>1
<1> QED BY <1>1, <1>3, <1>4, MapFacts

\* Two buckets have no item in common.
LEMMA BucketsApart ==
  ASSUME MapData, NEW m, IsMap(m), NEW b \in 0 .. m.bucketsize - 1,
         NEW c \in 0 .. m.bucketsize - 1, NEW x \in ToSet(Bucket(m, b).data),
         x \in ToSet(Bucket(m, c).data)
  PROVE  b = c
<1>1. Fits(m, b, x) /\ Fits(m, c, x)
  BY DEF IsMap
<1> QED BY <1>1 DEF Fits

\* A map r that is m with another array for bucket b.
Rebucketed(r, m, b, a) ==
  /\ DOMAIN r = MapFields /\ r = [f \in MapFields |-> r[f]]
  /\ r.buckets = [m.buckets EXCEPT ![b] = a] /\ r.bucketsize = m.bucketsize
  /\ r.ucase = m.ucase /\ r.freecb = m.freecb /\ r.usecount = m.usecount
  /\ r.torn = m.torn /\ SortedBy(r.keyset, MapItem, OrderIn)
  /\ r.orderseq \in Nat /\ m.orderseq <= r.orderseq

\* One bucket exchanged for another whose items belong there: the map stays
\* a map, and its items change by those of the bucket.
LEMMA BucketChanged ==
  ASSUME MapData, NEW m, IsMap(m), NEW b \in 0 .. m.bucketsize - 1, m.buckets[b] # NULL,
         NEW a, IsBucket(a), NEW r, Rebucketed(r, m, b, a),
         \A x \in ToSet(a.data) : Fits(m, b, x) /\ x.order < r.orderseq
  PROVE  /\ IsMap(r) /\ Bucket(r, b) = a
         /\ Items(r) = (Items(m) \ ToSet(Bucket(m, b).data)) \cup ToSet(a.data)
<1> DEFINE B == 0 .. m.bucketsize - 1
<1>1. /\ m.bucketsize \in Nat \ {0} /\ DOMAIN m.buckets = B
      /\ m.buckets = [c \in B |-> m.buckets[c]]
      /\ \A c \in B : m.buckets[c] = NULL \/ IsBucket(m.buckets[c])
      /\ m.orderseq \in Nat /\ m.ucase \in BOOLEAN /\ m.freecb \in BOOLEAN
      /\ m.torn \in BOOLEAN /\ m.usecount = Cardinality(UsedOf(m))
  BY DEF IsMap
<1>2. a # NULL
  BY DataFacts DEF IsBucket
<1>3. /\ DOMAIN r.buckets = B /\ r.buckets = [c \in B |-> r.buckets[c]]
      /\ r.bucketsize = m.bucketsize
      /\ r.buckets[b] = a /\ \A c \in B : c # b => r.buckets[c] = m.buckets[c]
  BY <1>1 DEF Rebucketed
<1>4. Bucket(r, b) = a /\ \A c \in B : c # b => Bucket(r, c) = Bucket(m, c)
  BY <1>2, <1>3 DEF Bucket
<1>5. \A c \in B : r.buckets[c] = NULL \/ IsBucket(r.buckets[c])
  BY <1>1, <1>3
<1>6. UsedOf(r) = UsedOf(m)
  BY <1>2, <1>3 DEF UsedOf
<1>7. ASSUME NEW c \in B, NEW x \in ToSet(Bucket(r, c).data)
      PROVE  Fits(r, c, x) /\ x.order < r.orderseq
  <2>1. \A y : Fits(r, c, y) <=> Fits(m, c, y)
    BY <1>3 DEF Fits, Rebucketed, MapToUpper
  <2>2. CASE c = b
    BY <1>4, <2>1, <2>2
  <2>3. CASE c # b
    <3>1. x \in ToSet(Bucket(m, c).data)
      BY <1>4, <2>3
    <3>2. Fits(m, c, x) /\ x.order < m.orderseq
      BY <3>1 DEF IsMap
    <3>3. x.order \in Nat
      <4>1. x \in Items(m)
        BY <3>1, MapFacts
      <4> QED BY <4>1, MapFacts, DataFacts
    <3>4. m.orderseq \in Nat /\ r.orderseq \in Nat /\ m.orderseq <= r.orderseq
      BY <1>1 DEF Rebucketed
    <3> QED BY <2>1, <3>2, <3>3, <3>4
  <2> QED BY <2>2, <2>3
<1>8. IsMap(r)
  BY <1>1, <1>3, <1>5, <1>6, <1>7 DEF IsMap, Rebucketed
<1>9. Items(r) = (Items(m) \ ToSet(Bucket(m, b).data)) \cup ToSet(a.data)
  <2>1. ASSUME NEW x \in Items(r)
        PROVE  x \in (Items(m) \ ToSet(Bucket(m, b).data)) \cup ToSet(a.data)
    <3>1. PICK c \in B : x \in ToSet(Bucket(r, c).data)
      BY <1>3 DEF Items
    <3>2. CASE c = b
      BY <1>4, <3>1, <3>2
    <3>3. CASE c # b
      <4>1. x \in ToSet(Bucket(m, c).data)
        BY <1>4, <3>1, <3>3
      <4> QED BY <3>3, <4>1, BucketsApart, MapFacts
    <3> QED BY <3>2, <3>3
  <2>2. ASSUME NEW x \in Items(m), x \notin ToSet(Bucket(m, b).data)
        PROVE  x \in Items(r)
    <3>1. PICK c \in B : x \in ToSet(Bucket(m, c).data)
      BY DEF Items
    <3>2. x \in ToSet(Bucket(r, c).data)
      BY <1>4, <2>2, <3>1
    <3> QED BY <1>3, <3>2 DEF Items
  <2>3. ASSUME NEW x \in ToSet(a.data) PROVE x \in Items(r)
    BY <1>3, <1>4 DEF Items
  <2> QED BY <2>1, <2>2, <2>3
<1> QED BY <1>4, <1>8, <1>9

\* A look-up of the key of an item finds it.
LEMMA MapGetFacts ==
  ASSUME MapData, NEW m, IsMap(m), NEW x \in Items(m)
  PROVE  MapGet(m, x.key) = x.value
<1> DEFINE bucket == Bucket(m, BucketOf(m, x.key))
           at == FindKey(bucket, MapToUpper(m, x.key))
<1>1. MapToUpper(m, x.key) = x.key /\ x.key \in MapKeys
  BY MapFacts, DataFacts
<1>2. IsBucket(bucket) /\ x \in ToSet(bucket.data)
  BY <1>1, BucketFacts
<1>3. MapGet(m, x.key) = IF at = NULL THEN NULL ELSE ArrayGetAt(bucket, at).value
  BY DEF MapGet
<1>4. \A y \in ToSet(bucket.data) : y.key = x.key => y = x
  <2>1. \A y \in ToSet(bucket.data) : y \in Items(m)
    BY <1>1, BucketFacts, MapFacts
  <2> QED BY <2>1, MapFacts
<1> HIDE DEF bucket
<1>5. \/ at = NULL /\ \A y \in ToSet(bucket.data) : y.key # x.key
      \/ /\ at # NULL /\ ArrayGetAt(bucket, at) \in ToSet(bucket.data)
         /\ ArrayGetAt(bucket, at).key = x.key
  BY <1>1, <1>2, FindKeyFacts
<1> HIDE DEF at
<1> QED BY <1>2, <1>3, <1>4, <1>5

\* Remove takes the item of a key, if there is one, out of its bucket and what
\* has its order out of keyset.
Removal(r, m, key) ==
  /\ IsMap(r.m)
  /\ r.m.ucase = m.ucase /\ r.m.freecb = m.freecb /\ r.m.orderseq = m.orderseq
  /\ r.m.torn = m.torn
  /\ \/ /\ \A x \in Items(m) : x.key # MapToUpper(m, key)
        /\ r.m = m /\ r.ret = NULL
     \/ \E x \in Items(m) :
          /\ x.key = MapToUpper(m, key) /\ r.ret = x.value
          /\ Items(r.m) = Items(m) \ {x} /\ r.m.size = m.size - 1
          /\ ToSet(r.m.keyset.data) = {y \in ToSet(m.keyset.data) : y.order # x.order}

\* CMUTIL_MapRemove takes the item of the key out of its bucket and of the key
\* set, or does nothing when no item has the key.
LEMMA MapRemoveFacts ==
  ASSUME MapData, NEW m, IsMap(m), NEW key, MapToUpper(m, key) \in MapKeys
  PROVE  Removal(MapRemove(m, key), m, key)
<1> DEFINE b == BucketOf(m, key)
           k == MapToUpper(m, key)
           q == RemoveKey(Bucket(m, b), k)
           r == MapRemove(m, key)
           x == q.ret
           keys == RemoveOrder(m.keyset, x.order)
<1>1. /\ b \in 0 .. m.bucketsize - 1 /\ IsBucket(Bucket(m, b))
      /\ \A y \in Items(m) : y.key = k => y \in ToSet(Bucket(m, b).data)
      /\ ToSet(Bucket(m, b).data) \subseteq Items(m)
  BY BucketFacts, MapFacts
<1>2. r = RemoveFrom(m, b, q)
  BY DEF MapRemove
<1>3. DOMAIN m = MapFields /\ m = [f \in MapFields |-> m[f]] /\ DOMAIN m.buckets = 0 .. m.bucketsize - 1
  BY DEF IsMap
<1> HIDE DEF b, r
<1>4. /\ IsBucket(q.a)
      /\ \/ (\A y \in ToSet(Bucket(m, b).data) : y.key # k) /\ q.a = Bucket(m, b) /\ q.ret = NULL
         \/ /\ q.ret \in ToSet(Bucket(m, b).data) /\ q.ret.key = k /\ q.ret # NULL
            /\ ToSet(q.a.data) = ToSet(Bucket(m, b).data) \ {q.ret}
  <2> DEFINE a == Bucket(m, b)
  <2>1. IsBucket(a) /\ k \in MapKeys
    BY <1>1
  <2> HIDE DEF a, k
  <2> QED BY <2>1, RemoveKeyFacts DEF a
<1> HIDE DEF k, q
<1>5. CASE (\A y \in ToSet(Bucket(m, b).data) : y.key # k) /\ q.ret = NULL
  <2>1. r.m = m /\ r.ret = NULL
    BY <1>2, <1>5 DEF RemoveFrom
  <2>2. \A y \in Items(m) : y.key # k
    BY <1>1, <1>5
  <2> QED BY <2>1, <2>2 DEF Removal, r, k
<1>6. CASE /\ q.ret \in ToSet(Bucket(m, b).data) /\ q.ret.key = k /\ q.ret # NULL
           /\ ToSet(q.a.data) = ToSet(Bucket(m, b).data) \ {q.ret}
  <2>1. /\ x \in Items(m) /\ x \in MapItem /\ x.value # NULL /\ x.order \in Nat /\ x.key = k
    BY <1>1, <1>6, MapFacts, DataFacts
  <2>2. m.buckets[b] # NULL
    BY <1>6, NewBucketEmpty DEF Bucket
  <2>3. /\ r.m = [m EXCEPT !.buckets[b] = q.a, !.keyset = keys.a, !.size = m.size - 1]
        /\ r.ret = x.value
    BY <1>2, <1>6, <2>1, <2>2 DEF RemoveFrom
  <2>4. /\ SortedBy(keys.a, MapItem, OrderIn)
        /\ ToSet(keys.a.data) = {y \in ToSet(m.keyset.data) : y.order # x.order}
    <3> DEFINE a == m.keyset
               o == x.order
    <3>1. SortedBy(a, MapItem, OrderIn) /\ o \in Nat
      BY <2>1 DEF IsMap
    <3> HIDE DEF a, o
    <3> QED BY <3>1, RemoveOrderFacts DEF a, o
  <2> HIDE DEF keys, x
  <2>5. /\ DOMAIN r.m = MapFields /\ r.m = [f \in MapFields |-> r.m[f]]
        /\ r.m.buckets = [m.buckets EXCEPT ![b] = q.a]
        /\ r.m.keyset = keys.a /\ r.m.size = m.size - 1
        /\ r.m.bucketsize = m.bucketsize /\ r.m.ucase = m.ucase /\ r.m.freecb = m.freecb
        /\ r.m.usecount = m.usecount /\ r.m.orderseq = m.orderseq /\ r.m.torn = m.torn
    BY <1>3, <2>3 DEF MapFields
  <2>6. Rebucketed(r.m, m, b, q.a)
    BY <2>4, <2>5 DEF Rebucketed, IsMap
  <2>7. \A y \in ToSet(q.a.data) : Fits(m, b, y) /\ y.order < r.m.orderseq
    BY <1>1, <1>6, <2>5 DEF IsMap
  <2>8. /\ IsMap(r.m)
        /\ Items(r.m) = (Items(m) \ ToSet(Bucket(m, b).data)) \cup ToSet(q.a.data)
    BY <1>1, <1>4, <2>2, <2>6, <2>7, BucketChanged
  <2>9. Items(r.m) = Items(m) \ {x}
    BY <1>1, <1>6, <2>8 DEF x
  <2>10. ToSet(r.m.keyset.data) = {y \in ToSet(m.keyset.data) : y.order # x.order}
    BY <2>4, <2>5
  <2> HIDE DEF MapFields
  <2> QED BY <2>1, <2>3, <2>5, <2>8, <2>9, <2>10 DEF Removal, r, k
<1> QED BY <1>4, <1>5, <1>6

\* A map with the same items, and a bucket in use for b.
LEMMA FilledKeeps ==
  ASSUME MapData, NEW m, IsMap(m), NEW b \in 0 .. m.bucketsize - 1
  PROVE  LET r == Filled(m, b)
         IN /\ IsMap(r) /\ Items(r) = Items(m) /\ Alike(r, m) /\ r.torn = m.torn
            /\ r.bucketsize = m.bucketsize /\ r.buckets[b] # NULL
<1> DEFINE B == 0 .. m.bucketsize - 1
           r == [m EXCEPT !.buckets[b] = NewBucket, !.usecount = m.usecount + 1]
<1>1. CASE m.buckets[b] # NULL
  BY <1>1 DEF Filled, Alike
<1>2. CASE m.buckets[b] = NULL
  <2>1. Filled(m, b) = r
    BY <1>2 DEF Filled
  <2>2. /\ DOMAIN m = MapFields /\ m = [f \in MapFields |-> m[f]]
        /\ m.bucketsize \in Nat \ {0} /\ m.orderseq \in Nat
        /\ DOMAIN m.buckets = B /\ m.buckets = [c \in B |-> m.buckets[c]]
        /\ m.usecount = Cardinality(UsedOf(m))
        /\ \A c \in B : m.buckets[c] = NULL \/ IsBucket(m.buckets[c])
    BY DEF IsMap
  <2>3. /\ DOMAIN r = MapFields /\ r = [f \in MapFields |-> r[f]]
        /\ r.buckets = [m.buckets EXCEPT ![b] = NewBucket]
        /\ r.usecount = m.usecount + 1 /\ r.bucketsize = m.bucketsize
        /\ Alike(r, m) /\ r.torn = m.torn
    BY <2>2 DEF MapFields, Alike
  <2> HIDE DEF r
  <2>4. IsBucket(NewBucket) /\ NewBucket # NULL /\ ToSet(NewBucket.data) = {}
    BY NewBucketEmpty, DataFacts DEF IsBucket
  <2>5. /\ DOMAIN r.buckets = B /\ r.buckets = [c \in B |-> r.buckets[c]]
        /\ r.buckets[b] = NewBucket /\ \A c \in B : c # b => r.buckets[c] = m.buckets[c]
    BY <2>2, <2>3
  <2>6. \A c \in B : Bucket(r, c) = Bucket(m, c)
    BY <1>2, <2>5 DEF Bucket
  <2>7. Items(r) = Items(m)
    BY <2>3, <2>6 DEF Items
  <2>8. r.usecount = Cardinality(UsedOf(r))
    <3>1. UsedOf(r) = UsedOf(m) \cup {b} /\ b \notin UsedOf(m)
      BY <1>2, <2>3, <2>4, <2>5 DEF UsedOf
    <3>2. IsFiniteSet(UsedOf(m))
      <4>1. UsedOf(m) \subseteq 0 .. m.bucketsize - 1
        BY DEF UsedOf
      <4>2. IsFiniteSet(0 .. m.bucketsize - 1)
        <5>1. 0 \in Int /\ m.bucketsize - 1 \in Int
          BY <2>2
        <5> QED BY <5>1, FS_Interval
      <4> QED BY <4>1, <4>2, FS_Subset
    <3>3. Cardinality(UsedOf(m) \cup {b}) = Cardinality(UsedOf(m)) + 1
      BY <3>1, <3>2, FS_AddElement
    <3> QED BY <2>2, <2>3, <3>1, <3>3
  <2>9. \A c \in B : r.buckets[c] = NULL \/ IsBucket(r.buckets[c])
    BY <2>2, <2>4, <2>5
  <2>10. \A c \in B : \A x \in ToSet(Bucket(r, c).data) : Fits(r, c, x) /\ x.order < r.orderseq
    BY <2>3, <2>6, ZenonT(90) DEF IsMap, Fits, Alike, MapToUpper
  <2>11. IsMap(r)
    BY <2>2, <2>3, <2>5, <2>8, <2>9, <2>10 DEF IsMap, Alike
  <2> QED BY <2>1, <2>3, <2>4, <2>5, <2>7, <2>11
<1> QED BY <1>1, <1>2

NoBuckets(n) == [b \in 0 .. n - 1 |-> NULL]
BucketIn(bs, b) == IF bs[b] = NULL THEN NewBucket ELSE bs[b]
Placed(bs, x, n, lack) ==
  [bs EXCEPT ![x.hash % n] = AddKey(IF @ = NULL THEN NewBucket ELSE @, x, x.order \notin lack).a]

\* up has the buckets after each turn of the loop.
Way(up, items, n, lack) ==
  /\ Rehashed(items, n, lack) = up[Len(items)]
  /\ up[0] = NoBuckets(n)
  /\ \A i \in 1 .. Len(items) : up[i] = Placed(up[i - 1], items[i], n, lack)

\* Rehashed puts one item after another into its new bucket.
LEMMA RehashSteps ==
  ASSUME NEW items, Len(items) \in Nat, NEW n, NEW lack
  PROVE  \E up : Way(up, items, n, lack)
<1> DEFINE none == NoBuckets(n)
           on(bs, i) == Placed(bs, items[i], n, lack)
           N == Len(items)
           Made(g, j) == g = [i \in 0 .. j |-> IF i = 0 THEN none ELSE on(g[i - 1], i)]
           T == {j \in Nat : \E g : Made(g, j)}
           made == CHOOSE g : Made(g, N)
<1>1. Rehashed(items, n, lack) = made[N]
  BY DEF Rehashed, Placed, NoBuckets
<1>2. N \in Nat
  OBVIOUS
<1> HIDE DEF N, on, none
<1>3. 0 \in T
  <2> DEFINE g == [i \in 0 .. 0 |-> none]
  <2>1. Made(g, 0)
    OBVIOUS
  <2> HIDE DEF Made, g
  <2> QED BY <2>1
<1>4. ASSUME NEW j \in Nat, j \in T PROVE j + 1 \in T
  <2>1. PICK g : Made(g, j)
    BY <1>4
  <2>2. \A i \in 0 .. j : g[i] = IF i = 0 THEN none ELSE on(g[i - 1], i)
    BY <2>1
  <2> DEFINE h == [i \in 0 .. j + 1 |-> IF i = j + 1 THEN on(g[j], i) ELSE g[i]]
  <2>3. \A i \in 0 .. j : h[i] = g[i]
    OBVIOUS
  <2>4. h[j + 1] = on(g[j], j + 1)
    OBVIOUS
  <2>5. h = [i \in 0 .. j + 1 |-> h[i]]
    OBVIOUS
  <2> HIDE DEF h
  <2>6. \A i \in 0 .. j + 1 : h[i] = IF i = 0 THEN none ELSE on(h[i - 1], i)
    <3> SUFFICES ASSUME NEW i \in 0 .. j + 1
                 PROVE  h[i] = IF i = 0 THEN none ELSE on(h[i - 1], i)
      OBVIOUS
    <3>1. CASE i = j + 1
      <4>1. h[j + 1 - 1] = g[j] /\ i # 0
        BY <2>3, <3>1
      <4> QED BY <2>4, <3>1, <4>1
    <3>2. CASE i # j + 1
      <4>1. i \in 0 .. j
        BY <3>2
      <4>2. i # 0 => i - 1 \in 0 .. j
        BY <4>1
      <4> QED BY <2>2, <2>3, <4>1, <4>2
    <3> QED BY <3>1, <3>2
  <2>7. Made(h, j + 1)
    BY <2>5, <2>6
  <2> HIDE DEF Made
  <2> QED BY <2>7
<1>5. N \in T
  <2> HIDE DEF T
  <2> QED BY <1>2, <1>3, <1>4, SetInduction
<1>6. Made(made, N)
  <2> HIDE DEF Made
  <2> QED BY <1>5
<1>7. \A i \in 0 .. N : made[i] = IF i = 0 THEN none ELSE on(made[i - 1], i)
  <2> HIDE DEF made
  <2> QED BY <1>6
<1> HIDE DEF made
<1>8. made[0] = none /\ \A i \in 1 .. N : made[i] = on(made[i - 1], i)
  BY <1>2, <1>7
<1> QED BY <1>1, <1>8 DEF N, on, none, Way

\* The buckets bs, n of them, hold items of S, each in its own.
Bucketed(bs, n, S) ==
  /\ DOMAIN bs = 0 .. n - 1 /\ bs = [b \in 0 .. n - 1 |-> bs[b]]
  /\ \A b \in 0 .. n - 1 : bs[b] = NULL \/ IsBucket(bs[b])
  /\ \A b \in 0 .. n - 1 : \A x \in ToSet(BucketIn(bs, b).data) : x \in S /\ x.hash % n = b

\* They hold all of S.
Filed(bs, n, S) == \A x \in S : x \in ToSet(BucketIn(bs, x.hash % n).data)

\* One turn of the loop of CMUTIL_MapRebuildInternal puts one more item into
\* the new buckets, or replaces the one of its key, or leaves it out.
LEMMA PlacedKeeps ==
  ASSUME MapData, NEW n \in Nat \ {0}, NEW S, NEW bs, Bucketed(bs, n, S),
         NEW x \in MapItem, x \notin S, NEW lack
  PROVE  /\ Bucketed(Placed(bs, x, n, lack), n, S \cup {x})
         /\ lack = {} /\ Filed(bs, n, S) /\ (\A y \in S : y.key # x.key /\ y.hash \in Nat)
              => Filed(Placed(bs, x, n, lack), n, S \cup {x})
<1> DEFINE c == x.hash % n
           a == BucketIn(bs, c)
           ok == x.order \notin lack
           q == AddKey(a, x, ok)
           r == Placed(bs, x, n, lack)
<1>1. c \in 0 .. n - 1
  BY DataFacts
<1>2. r = [bs EXCEPT ![c] = q.a]
  BY DEF Placed, BucketIn
<1> HIDE DEF r
<1>3. IsBucket(a) /\ \A y \in ToSet(a.data) : y \in S /\ y.hash % n = c
  <2>1. IsBucket(a)
    BY <1>1, NewBucketEmpty DEF Bucketed, BucketIn
  <2>2. \A y \in ToSet(a.data) : y \in S /\ y.hash % n = c
    BY <1>1 DEF Bucketed
  <2> QED BY <2>1, <2>2
<1>4. x \notin ToSet(a.data) /\ ok \in BOOLEAN
  BY <1>3
<1> HIDE DEF a, c, ok
<1>5. KeyEntered(q, a, x, ok)
  BY <1>3, <1>4, AddKeyFacts
<1> HIDE DEF q
<1>6. IsBucket(q.a) /\ ToSet(q.a.data) \subseteq ToSet(a.data) \cup {x} /\ q.a # NULL
  <2>1. IsBucket(q.a) /\ ToSet(q.a.data) \subseteq ToSet(a.data) \cup {x}
    BY <1>5 DEF KeyEntered
  <2> QED BY <2>1, DataFacts DEF IsBucket
<1>7. /\ DOMAIN r = 0 .. n - 1 /\ r = [b \in 0 .. n - 1 |-> r[b]]
      /\ r[c] = q.a /\ \A b \in 0 .. n - 1 : b # c => r[b] = bs[b]
  BY <1>1, <1>2 DEF Bucketed
<1>8. \A b \in 0 .. n - 1 : r[b] = NULL \/ IsBucket(r[b])
  BY <1>6, <1>7 DEF Bucketed
<1>9. BucketIn(r, c) = q.a /\ \A b \in 0 .. n - 1 : b # c => BucketIn(r, b) = BucketIn(bs, b)
  BY <1>6, <1>7 DEF BucketIn
<1>10. ASSUME NEW b \in 0 .. n - 1, NEW y \in ToSet(BucketIn(r, b).data)
       PROVE  y \in S \cup {x} /\ y.hash % n = b
  <2>1. CASE b = c
    BY <1>3, <1>6, <1>9, <2>1 DEF c
  <2>2. CASE b # c
    BY <1>9, <2>2 DEF Bucketed
  <2> QED BY <2>1, <2>2
<1>11. Bucketed(r, n, S \cup {x})
  BY <1>7, <1>8, <1>10 DEF Bucketed
<1>12. ASSUME lack = {}, Filed(bs, n, S), \A y \in S : y.key # x.key /\ y.hash \in Nat
       PROVE  Filed(r, n, S \cup {x})
  <2>1. ToSet(q.a.data) = ToSet(a.data) \cup {x}
    BY <1>3, <1>5, <1>12 DEF KeyEntered, ok
  <2> SUFFICES ASSUME NEW y \in S \cup {x} PROVE y \in ToSet(BucketIn(r, y.hash % n).data)
    BY DEF Filed
  <2>2. CASE y = x
    BY <1>9, <2>1, <2>2 DEF c
  <2>3. CASE y \in S /\ y.hash % n = c
    <3>1. y \in ToSet(a.data)
      BY <1>12, <2>3 DEF Filed, a
    <3> QED BY <1>9, <2>1, <2>3, <3>1
  <2>4. CASE y \in S /\ y.hash % n # c
    <3> DEFINE b == y.hash % n
    <3>1. b \in 0 .. n - 1 /\ b # c
      BY <1>12, <2>4
    <3>2. y \in ToSet(BucketIn(bs, b).data)
      BY <1>12, <2>4 DEF Filed
    <3> HIDE DEF b
    <3>3. y \in ToSet(BucketIn(r, b).data)
      BY <1>9, <3>1, <3>2
    <3> QED BY <3>3 DEF b
  <2> QED BY <2>2, <2>3, <2>4
<1> QED BY <1>11, <1>12 DEF r

\* Rehashed puts every item into its bucket, unless that cannot grow.
LEMMA RehashKeeps ==
  ASSUME MapData, NEW n \in Nat \ {0}, NEW items \in Seq(MapItem), IsInjective(items), NEW lack
  PROVE  /\ Bucketed(Rehashed(items, n, lack), n, ToSet(items))
         /\ lack = {} /\ (\A i, j \in 1 .. Len(items) : items[i].key = items[j].key => i = j)
              => Filed(Rehashed(items, n, lack), n, ToSet(items))
<1> DEFINE N == Len(items)
           S(k) == {x \in MapItem : \E i \in 1 .. k : x = items[i]}
           Apart == lack = {} /\ \A i, j \in 1 .. N : items[i].key = items[j].key => i = j
<1>1. /\ N \in Nat /\ DOMAIN items = 1 .. N
      /\ \A i \in 1 .. N : items[i] \in MapItem /\ items[i] \in ToSet(items)
      /\ \A x \in ToSet(items) : x \in MapItem /\ \E i \in 1 .. N : x = items[i]
  <2>1. /\ Len(items) \in Nat /\ DOMAIN items = 1 .. Len(items)
        /\ \A i \in 1 .. Len(items) : items[i] \in MapItem /\ items[i] \in ToSet(items)
        /\ \A x \in ToSet(items) : x \in MapItem /\ \E i \in 1 .. Len(items) : x = items[i]
    BY Elements, Zenon
  <2> QED BY <2>1, Zenon
<1>2. PICK up : Way(up, items, n, lack)
  BY <1>1, RehashSteps
<1>3. /\ Rehashed(items, n, lack) = up[N]
      /\ up[0] = NoBuckets(n)
      /\ \A i \in 1 .. N : up[i] = Placed(up[i - 1], items[i], n, lack)
  BY <1>2, Zenon DEF Way
<1> DEFINE Good(k) == Bucketed(up[k], n, S(k)) /\ (Apart => Filed(up[k], n, S(k)))
           T == {k \in Nat : k <= N => Good(k)}
<1>4. 0 \in T
  <2>1. S(0) = {}
    OBVIOUS
  <2>2. up[0] = [b \in 0 .. n - 1 |-> NULL]
    BY <1>3 DEF NoBuckets
  <2>3. \A b \in 0 .. n - 1 : up[0][b] = NULL /\ BucketIn(up[0], b) = NewBucket
    BY <2>2 DEF BucketIn
  <2>4. DOMAIN up[0] = 0 .. n - 1 /\ up[0] = [b \in 0 .. n - 1 |-> up[0][b]]
    BY <2>2
  <2> HIDE DEF S
  <2>5. Bucketed(up[0], n, S(0))
    BY <2>1, <2>3, <2>4, NewBucketEmpty DEF Bucketed
  <2>6. Filed(up[0], n, S(0))
    BY <2>1 DEF Filed
  <2> QED BY <2>5, <2>6
<1>5. ASSUME NEW k \in Nat, k \in T PROVE k + 1 \in T
  <2> SUFFICES ASSUME k + 1 <= N PROVE Good(k + 1)
    OBVIOUS
  <2> DEFINE x == items[k + 1]
  <2>1. k + 1 \in 1 .. N /\ k <= N /\ x \in MapItem /\ k + 1 - 1 = k
    BY <1>1
  <2>2. S(k + 1) = S(k) \cup {x}
    <3>1. \A i : i \in 1 .. k + 1 <=> i \in 1 .. k \/ i = k + 1
      OBVIOUS
    <3> QED BY <2>1, <3>1
  <2>3. \A y \in S(k) : /\ y # x /\ y.hash \in Nat
                        /\ Apart => y.key # x.key
    <3> SUFFICES ASSUME NEW y \in S(k)
                 PROVE  /\ y # x /\ y.hash \in Nat
                        /\ Apart => y.key # x.key
      OBVIOUS
    <3>1. PICK i \in 1 .. k : y = items[i]
      OBVIOUS
    <3>2. i \in 1 .. N /\ i # k + 1
      BY <1>1, <2>1
    <3>3. y \in MapItem
      BY <1>1, <3>1, <3>2
    <3>4. y # x
      BY <1>1, <2>1, <3>1, <3>2 DEF IsInjective
    <3>5. y.hash \in Nat
      BY <3>3, DataFacts
    <3> QED BY <2>1, <3>1, <3>2, <3>4, <3>5
  <2>4. up[k + 1] = Placed(up[k], x, n, lack)
    BY <1>3, <2>1
  <2>5. Good(k)
    BY <1>5, <2>1
  <2>6. Apart => lack = {}
    OBVIOUS
  <2> DEFINE bs == up[k]
             R == S(k)
  <2>7. Bucketed(bs, n, R) /\ x \notin R /\ x \in MapItem
    BY <2>1, <2>3, <2>5
  <2> HIDE DEF S, x, N, Apart, R, bs
  <2>8. /\ Bucketed(Placed(bs, x, n, lack), n, R \cup {x})
        /\ lack = {} /\ Filed(bs, n, R) /\ (\A y \in R : y.key # x.key /\ y.hash \in Nat)
             => Filed(Placed(bs, x, n, lack), n, R \cup {x})
    BY <2>7, PlacedKeeps
  <2>9. Apart => \A y \in R : y.key # x.key /\ y.hash \in Nat
    BY <2>3 DEF R
  <2>10. Apart => Filed(bs, n, R)
    BY <2>5 DEF R, bs
  <2>11. up[k + 1] = Placed(bs, x, n, lack) /\ S(k + 1) = R \cup {x}
    BY <2>2, <2>4 DEF R, bs
  <2> QED BY <2>6, <2>8, <2>9, <2>10, <2>11
<1>6. N \in T
  <2> HIDE DEF T, N
  <2> QED BY <1>1, <1>4, <1>5, SetInduction
<1>7. S(N) = ToSet(items)
  BY <1>1
<1>8. Good(N)
  <2> HIDE DEF Good
  <2> QED BY <1>1, <1>6
<1> HIDE DEF S
<1> QED BY <1>3, <1>7, <1>8

\* The items that the map shows its callers: those of keyset.
Entries(m) == ToSet(m.keyset.data)
Values(m)  == {x.value : x \in Entries(m)}

\* A map between two calls: its buckets have no item that keyset has not, and
\* all of keyset unless it is torn; size counts keyset; no value is there twice,
\* and every item is where a look-up of its key goes.
Whole(m) ==
  /\ IsMap(m) /\ Items(m) \subseteq Entries(m) /\ (m.torn \/ Items(m) = Entries(m))
  /\ m.size = Cardinality(Entries(m))
  /\ \A x, y \in Entries(m) : x.value = y.value => x = y
  /\ \A x \in Entries(m) :
       x.hash = HashOf(x.key) /\ MapToUpper(m, x.key) = x.key /\ x.order < m.orderseq

\* What a map between two calls says of its items.
LEMMA WholeFacts ==
  ASSUME MapData, NEW m, Whole(m)
  PROVE  /\ IsFiniteSet(Entries(m)) /\ m.size \in Nat /\ m.size = Len(m.keyset.data)
         /\ \A x, y \in Entries(m) : x.order = y.order => x = y
         /\ \A x \in Entries(m) : x \in MapItem
         /\ SortedBy(m.keyset, MapItem, OrderIn) /\ m.keyset.data \in Seq(MapItem)
<1> DEFINE a == m.keyset
<1>1. SortedBy(a, MapItem, OrderIn) /\ OrderIn \in [MapItem -> Int] /\ Entries(m) = ToSet(a.data)
  BY DataFacts DEF Whole, IsMap, Entries
<1> HIDE DEF a
<1>2. /\ a.data \in Seq(MapItem) /\ Len(a.data) \in Nat
      /\ \A x, y \in ToSet(a.data) : OrderIn[x] = OrderIn[y] => x = y
      /\ Cardinality(ToSet(a.data)) = Len(a.data) /\ IsFiniteSet(ToSet(a.data))
  BY <1>1, SortedFacts
<1>3. \A x \in Entries(m) : x \in MapItem /\ OrderIn[x] = x.order
  <2>1. \A x \in Entries(m) : x \in MapItem
    BY <1>1, <1>2, Elements
  <2> QED BY <2>1, DataFacts
<1> QED BY <1>1, <1>2, <1>3 DEF Whole, a

\* A map whose buckets were made anew, or which has one bucket more: what the
\* callers see is the same, and it is torn only if it was or if a bucket was short
\* of memory.
Kept(r, m, lack) ==
  /\ Whole(r) /\ Alike(r, m)
  /\ m.torn => r.torn
  /\ lack = {} /\ ~m.torn => ~r.torn

\* A map with other buckets of the same items.
LEMMA KeptWhole ==
  ASSUME NEW m, Whole(m), NEW r, IsMap(r), Alike(r, m), Items(r) \subseteq Entries(m),
         r.torn \/ Items(r) = Entries(m)
  PROVE  Whole(r)
<1>1. Entries(r) = Entries(m) /\ r.size = m.size /\ r.orderseq = m.orderseq
      /\ \A k : MapToUpper(r, k) = MapToUpper(m, k)
  BY DEF Alike, Entries, MapToUpper
<1> QED BY <1>1 DEF Whole

\* Rebuild loses no item of keyset; the buckets lack some only when they cannot
\* grow.
LEMMA RebuildKeeps ==
  ASSUME MapData, NEW m, Whole(m), NEW lack
  PROVE  Kept(MapRebuild(m, lack), m, lack)
<1> DEFINE n == 2 * m.bucketsize
           items == m.keyset.data
           bs == Rehashed(items, n, lack)
           u == Cardinality({b \in 0 .. n - 1 : bs[b] # NULL})
           q == [m EXCEPT !.buckets = bs, !.bucketsize = n, !.usecount = u]
           r == MapRebuild(m, lack)
<1>0. IsMap(m)
  BY DEF Whole
<1>1. /\ DOMAIN m = MapFields /\ m = [f \in MapFields |-> m[f]]
      /\ SortedBy(m.keyset, MapItem, OrderIn) /\ m.bucketsize \in Nat \ {0}
      /\ m.orderseq \in Nat /\ m.ucase \in BOOLEAN /\ m.freecb \in BOOLEAN /\ m.torn \in BOOLEAN
  BY <1>0 DEF IsMap
<1>2. n \in Nat \ {0}
  BY <1>1
<1>3. /\ items \in Seq(MapItem) /\ IsInjective(items)
      /\ DOMAIN items = 1 .. Len(items) /\ ToSet(items) = Entries(m)
      /\ \A i \in 1 .. Len(items) : items[i] \in Entries(m)
  <2>1. items \in Seq(MapItem) /\ IsInjective(items)
    BY <1>1, SortedFacts, DataFacts
  <2>2. ToSet(items) = Entries(m)
    BY DEF Entries
  <2> HIDE DEF items
  <2> QED BY <2>1, <2>2, Elements
<1>4. r = [q EXCEPT !.torn = m.torn \/ Items(q) # ToSet(q.keyset.data)]
  <2>1. q.torn = m.torn
    BY <1>1 DEF MapFields
  <2>2. r = [q EXCEPT !.torn = q.torn \/ Items(q) # ToSet(q.keyset.data)]
    BY DEF MapRebuild, Rebuilt
  <2> HIDE DEF q, r
  <2> QED BY <2>1, <2>2
<1> HIDE DEF n, items, r, bs, u
<1>5. /\ Bucketed(bs, n, Entries(m))
      /\ lack = {} /\ (\A i, j \in 1 .. Len(items) : items[i].key = items[j].key => i = j)
           => Filed(bs, n, Entries(m))
  BY <1>2, <1>3, RehashKeeps DEF bs
<1>6. /\ DOMAIN q = MapFields /\ q = [f \in MapFields |-> q[f]]
      /\ q.buckets = bs /\ q.bucketsize = n /\ q.usecount = u /\ Alike(q, m) /\ q.keyset = m.keyset
  BY <1>1 DEF MapFields, Alike
<1> HIDE DEF q
<1> DEFINE torn == m.torn \/ Items(q) # Entries(m)
<1>7. /\ DOMAIN r = MapFields /\ r = [f \in MapFields |-> r[f]]
      /\ r.buckets = bs /\ r.bucketsize = n /\ r.usecount = u /\ Alike(r, m)
      /\ r.torn = torn
  <2>1. ToSet(q.keyset.data) = Entries(m)
    BY <1>6 DEF Entries
  <2>2. r = [q EXCEPT !.torn = torn]
    BY <1>4, <2>1
  <2> HIDE DEF torn
  <2> QED BY <1>6, <2>2 DEF MapFields, Alike
<1>8. Items(r) = Items(q)
  BY <1>6, <1>7 DEF Items, Bucket
<1>9. ASSUME NEW b \in 0 .. n - 1, NEW x \in ToSet(Bucket(r, b).data)
      PROVE  x \in Entries(m) /\ x.hash % n = b
  BY <1>5, <1>7, <1>9 DEF Bucketed, Bucket, BucketIn
<1>10. Items(r) \subseteq Entries(m)
  <2> SUFFICES ASSUME NEW x \in Items(r) PROVE x \in Entries(m)
    OBVIOUS
  <2>1. PICK b \in 0 .. n - 1 : x \in ToSet(Bucket(r, b).data)
    BY <1>7 DEF Items
  <2> QED BY <1>9, <2>1
<1>11. ASSUME NEW b \in 0 .. n - 1, NEW x \in ToSet(Bucket(r, b).data)
       PROVE  Fits(r, b, x) /\ x.order < r.orderseq
  <2>1. x \in Entries(m) /\ x.hash % n = b
    BY <1>9
  <2>2. x.hash = HashOf(x.key) /\ MapToUpper(m, x.key) = x.key /\ x.order < m.orderseq
    BY <2>1 DEF Whole
  <2> QED BY <1>7, <2>1, <2>2 DEF Fits, Alike, MapToUpper
<1>12. r.usecount = Cardinality(UsedOf(r))
  BY <1>7 DEF UsedOf, u
<1>13. IsMap(r)
  <2>1. r.torn \in BOOLEAN
    BY <1>7
  <2> HIDE DEF torn
  <2> QED BY <1>1, <1>2, <1>5, <1>7, <1>11, <1>12, <2>1 DEF IsMap, Bucketed, Alike
<1>14. r.torn \/ Items(r) = Entries(m)
  BY <1>7, <1>8
<1>15. Whole(r)
  BY <1>7, <1>10, <1>13, <1>14, KeptWhole
<1>16. ASSUME lack = {}, ~m.torn PROVE ~r.torn
  <2>1. Items(m) = Entries(m)
    BY <1>16 DEF Whole
  <2>2. \A i, j \in 1 .. Len(items) : items[i].key = items[j].key => i = j
    BY <1>0, <1>3, <2>1, MapFacts DEF IsInjective
  <2>3. Filed(bs, n, Entries(m))
    BY <1>5, <1>16, <2>2
  <2>4. ASSUME NEW x \in Entries(m) PROVE x \in Items(r)
    <3> DEFINE b == x.hash % n
    <3>1. x.hash \in Nat
      BY <1>0, <2>1, MapFacts, DataFacts
    <3>2. b \in 0 .. n - 1
      BY <1>2, <3>1
    <3>3. x \in ToSet(BucketIn(bs, b).data)
      BY <2>3 DEF Filed
    <3> HIDE DEF b
    <3>4. BucketIn(bs, b) = Bucket(r, b)
      BY <1>7 DEF BucketIn, Bucket
    <3> QED BY <1>7, <3>2, <3>3, <3>4 DEF Items
  <2>5. Items(r) = Entries(m)
    BY <1>10, <2>4
  <2> QED BY <1>7, <1>8, <1>16, <2>5
<1>17. m.torn => r.torn
  BY <1>7
<1> HIDE DEF torn
<1> QED BY <1>7, <1>15, <1>16, <1>17 DEF Kept, r

\* The map that Put puts into.
LEMMA WithBucketKeeps ==
  ASSUME MapData, NEW m, Whole(m), NEW key, MapToUpper(m, key) \in MapKeys, NEW lack
  PROVE  LET r == WithBucket(m, key, lack)
         IN Kept(r, m, lack) /\ r.buckets[BucketOf(r, key)] # NULL
<1> DEFINE full == 2 * (m.usecount + 1) > m.loadfactor * m.bucketsize
           n == IF m.buckets[BucketOf(m, key)] = NULL /\ full THEN MapRebuild(m, lack) ELSE m
           b == BucketOf(n, key)
           r == Filled(n, b)
<1>1. WithBucket(m, key, lack) = r
  BY DEF WithBucket, Hooked
<1>2. Kept(n, m, lack)
  <2>1. Kept(MapRebuild(m, lack), m, lack)
    BY RebuildKeeps
  <2>2. Kept(m, m, lack)
    BY DEF Kept, Alike
  <2> QED BY <2>1, <2>2
<1> HIDE DEF n
<1>3. MapToUpper(n, key) \in MapKeys /\ IsMap(n) /\ Whole(n) /\ Alike(n, m)
  BY <1>2 DEF MapToUpper, Alike, Kept, Whole
<1>4. b \in 0 .. n.bucketsize - 1
  BY <1>3, BucketFacts
<1>5. /\ IsMap(r) /\ Items(r) = Items(n) /\ Alike(r, n) /\ r.torn = n.torn
      /\ r.bucketsize = n.bucketsize /\ r.buckets[b] # NULL
  <2> HIDE DEF b
  <2> QED BY <1>3, <1>4, FilledKeeps
<1> HIDE DEF r
<1>6. BucketOf(r, key) = b
  BY <1>5 DEF BucketOf, MapHash, Alike
<1>7. Whole(r)
  <2>1. Items(r) \subseteq Entries(n) /\ (r.torn \/ Items(r) = Entries(n))
    BY <1>3, <1>5 DEF Whole
  <2> QED BY <1>3, <1>5, <2>1, KeptWhole
<1>8. Kept(r, m, lack)
  BY <1>2, <1>5, <1>7 DEF Kept, Alike
<1> QED BY <1>1, <1>5, <1>6, <1>8

\* What a Put into the bucket of item x leaves, before x enters keyset: the map
\* as it was, with x, or with x instead of the item of its key.
PutDone(p, m, x, ok) ==
  /\ IsMap(p.m) /\ p.m.orderseq = m.orderseq + 1
  /\ p.m.ucase = m.ucase /\ p.m.freecb = m.freecb /\ p.m.torn = m.torn
  /\ \/ /\ p.item = NULL /\ p.prev = NULL /\ ok = FALSE
        /\ Items(p.m) = Items(m) /\ p.m.keyset = m.keyset /\ p.m.size = m.size
     \/ /\ p.item = x /\ p.prev = NULL /\ \A y \in Items(m) : y.key # x.key
        /\ Items(p.m) = Items(m) \cup {x} /\ p.m.keyset = m.keyset /\ p.m.size = m.size + 1
     \/ /\ p.item = x
        /\ \E y \in Items(m) :
             /\ y.key = x.key /\ p.prev = y.value
             /\ Items(p.m) = (Items(m) \ {y}) \cup {x} /\ p.m.size = m.size
             /\ ToSet(p.m.keyset.data) = {z \in ToSet(m.keyset.data) : z.order # y.order}

\* The bucket's half of CMUTIL_MapPut: the item enters its bucket, the one of
\* the same key leaves bucket and key set, or memory runs out and nothing changes.
LEMMA PutIntoFacts ==
  ASSUME MapData, NEW m, IsMap(m), NEW x \in MapItem, x.order = m.orderseq,
         x.hash = HashOf(x.key), MapToUpper(m, x.key) = x.key,
         NEW b, b = x.hash % m.bucketsize, m.buckets[b] # NULL, NEW ok \in BOOLEAN
  PROVE  PutDone(PutInto(m, b, x, ok), m, x, ok)
<1> DEFINE a == m.buckets[b]
           n == [m EXCEPT !.orderseq = m.orderseq + 1]
           old == FindKey(a, x.key)
           add == AddKey(a, x, ok)
           p == PutInto(m, b, x, ok)
           ires == ArrayGetAt(a, old)
           keys == RemoveOrder(m.keyset, ires.order)
<1>1. /\ DOMAIN m = MapFields /\ m = [f \in MapFields |-> m[f]]
      /\ SortedBy(m.keyset, MapItem, OrderIn) /\ m.bucketsize \in Nat \ {0}
      /\ m.orderseq \in Nat
      /\ DOMAIN m.buckets = 0 .. m.bucketsize - 1
      /\ m.buckets = [c \in 0 .. m.bucketsize - 1 |-> m.buckets[c]]
  BY DEF IsMap
<1>2. b \in 0 .. m.bucketsize - 1
  BY <1>1, DataFacts
<1>3. /\ a = Bucket(m, b) /\ IsBucket(a) /\ ToSet(a.data) \subseteq Items(m)
      /\ \A y \in Items(m) : y.key = x.key => y \in ToSet(a.data)
  <2>1. a = Bucket(m, b)
    BY DEF Bucket
  <2>2. \A y \in Items(m) : y.key = x.key => y \in ToSet(a.data)
    BY <2>1, MapFacts
  <2> QED BY <1>2, <2>1, <2>2, MapFacts
<1>4. \A y \in ToSet(a.data) : y.order < m.orderseq /\ y.order \in Nat /\ Fits(m, b, y)
                               /\ y \in MapItem /\ y.value # NULL
  <2> SUFFICES ASSUME NEW y \in ToSet(a.data)
               PROVE  /\ y.order < m.orderseq /\ y.order \in Nat /\ Fits(m, b, y)
                      /\ y \in MapItem /\ y.value # NULL
    OBVIOUS
  <2>1. y \in Items(m) /\ y \in ToSet(Bucket(m, b).data)
    BY <1>3
  <2>2. y \in MapItem /\ y.order < m.orderseq
    BY <2>1, MapFacts
  <2>3. Fits(m, b, y)
    BY <1>2, <2>1 DEF IsMap
  <2> QED BY <2>2, <2>3, DataFacts
<1>5. x \notin ToSet(a.data) /\ Fits(m, b, x) /\ x # NULL
  BY <1>1, <1>4, DataFacts, SMTT(60) DEF Fits
<1>6. p = PutItem(n, b, x, old, add)
  BY <1>1 DEF PutInto, MapFields
<1>7. /\ DOMAIN n = MapFields /\ n = [f \in MapFields |-> n[f]]
      /\ n.buckets = m.buckets /\ n.bucketsize = m.bucketsize /\ n.ucase = m.ucase
      /\ n.freecb = m.freecb /\ n.usecount = m.usecount /\ n.keyset = m.keyset
      /\ n.size = m.size /\ n.orderseq = m.orderseq + 1 /\ n.torn = m.torn
  BY <1>1 DEF MapFields
<1> HIDE DEF n, p
<1>8. KeyEntered(add, a, x, ok)
  <2> HIDE DEF a
  <2> QED BY <1>3, <1>5, AddKeyFacts
<1>9. \/ old = NULL /\ \A y \in ToSet(a.data) : y.key # x.key
      \/ /\ old # NULL /\ ires \in ToSet(a.data) /\ ires.key = x.key
  <2>1. x.key \in MapKeys
    BY DataFacts
  <2> HIDE DEF a
  <2> QED BY <1>3, <2>1, FindKeyFacts
<1> HIDE DEF a, old, add
<1>10. ASSUME NEW r, NEW c, Rebucketed(r, m, b, c), IsBucket(c), r.orderseq = m.orderseq + 1,
              ToSet(c.data) \subseteq ToSet(a.data) \cup {x}
       PROVE  /\ IsMap(r) /\ r.ucase = m.ucase /\ r.freecb = m.freecb /\ r.torn = m.torn
              /\ Items(r) = (Items(m) \ ToSet(a.data)) \cup ToSet(c.data)
  <2>1. \A y \in ToSet(c.data) : Fits(m, b, y) /\ y.order < r.orderseq
    BY <1>1, <1>4, <1>5, <1>10
  <2>2. IsMap(r) /\ Items(r) = (Items(m) \ ToSet(Bucket(m, b).data)) \cup ToSet(c.data)
    <3>1. m.buckets[b] # NULL
      OBVIOUS
    <3> QED BY <1>2, <1>10, <2>1, <3>1, BucketChanged
  <2> QED BY <1>3, <1>10, <2>2 DEF Rebucketed
<1>11. CASE /\ \A y \in ToSet(a.data) : y.key # x.key
            /\ add.ret = FALSE /\ add.a = a /\ ok = FALSE
  <2>1. p.m = n /\ p.item = NULL /\ p.prev = NULL
    BY <1>6, <1>11 DEF PutItem
  <2>2. n.buckets = [m.buckets EXCEPT ![b] = a]
    BY <1>1, <1>2, <1>7 DEF a
  <2>3. Rebucketed(n, m, b, a)
    BY <1>1, <1>7, <2>2 DEF Rebucketed
  <2>4. /\ IsMap(n) /\ n.ucase = m.ucase /\ n.freecb = m.freecb /\ n.torn = m.torn
        /\ Items(n) = (Items(m) \ ToSet(a.data)) \cup ToSet(a.data)
    BY <1>3, <1>7, <1>10, <2>3
  <2>5. Items(n) = Items(m)
    BY <1>3, <2>4, SMTT(60)
  <2> QED BY <1>7, <1>11, <2>1, <2>4, <2>5 DEF PutDone, p
<1>12. CASE /\ \A y \in ToSet(a.data) : y.key # x.key
            /\ add.ret = TRUE /\ ToSet(add.a.data) = ToSet(a.data) \cup {x}
  <2>1. old = NULL
    BY <1>9, <1>12
  <2>2. /\ p.m = [n EXCEPT !.buckets[b] = add.a, !.size = n.size + 1]
        /\ p.item = x /\ p.prev = NULL
    BY <1>6, <1>12, <2>1 DEF PutItem
  <2>3. /\ DOMAIN p.m = MapFields /\ p.m = [f \in MapFields |-> p.m[f]]
        /\ p.m.buckets = [n.buckets EXCEPT ![b] = add.a] /\ p.m.size = n.size + 1
        /\ p.m.bucketsize = n.bucketsize /\ p.m.ucase = n.ucase /\ p.m.freecb = n.freecb
        /\ p.m.usecount = n.usecount /\ p.m.keyset = n.keyset /\ p.m.orderseq = n.orderseq
        /\ p.m.torn = n.torn
    BY <1>7, <2>2 DEF MapFields
  <2>4. Rebucketed(p.m, m, b, add.a)
    <3>1. p.m.buckets = [m.buckets EXCEPT ![b] = add.a]
      BY <1>7, <2>3
    <3>2. p.m.orderseq \in Nat /\ m.orderseq <= p.m.orderseq
      BY <1>1, <1>7, <2>3
    <3>3. SortedBy(p.m.keyset, MapItem, OrderIn)
      BY <1>1, <1>7, <2>3
    <3> QED BY <1>7, <2>3, <3>1, <3>2, <3>3 DEF Rebucketed
  <2>5. IsBucket(add.a) /\ p.m.orderseq = m.orderseq + 1
    BY <1>7, <1>8, <2>3 DEF KeyEntered
  <2>6. /\ IsMap(p.m) /\ p.m.ucase = m.ucase /\ p.m.freecb = m.freecb /\ p.m.torn = m.torn
        /\ Items(p.m) = (Items(m) \ ToSet(a.data)) \cup ToSet(add.a.data)
    BY <1>10, <1>12, <2>4, <2>5
  <2>7. Items(p.m) = Items(m) \cup {x} /\ \A y \in Items(m) : y.key # x.key
    BY <1>3, <1>12, <2>6, SMTT(60)
  <2> QED BY <1>7, <2>2, <2>3, <2>5, <2>6, <2>7 DEF PutDone, p
<1>13. CASE /\ add.ret = TRUE
            /\ \E y \in ToSet(a.data) :
                 y.key = x.key /\ ToSet(add.a.data) = (ToSet(a.data) \ {y}) \cup {x}
  <2>1. PICK y \in ToSet(a.data) :
               y.key = x.key /\ ToSet(add.a.data) = (ToSet(a.data) \ {y}) \cup {x}
    BY <1>13
  <2>2. old # NULL /\ ires = y
    <3>1. old # NULL /\ ires \in ToSet(a.data) /\ ires.key = x.key
      BY <1>9, <2>1
    <3> HIDE DEF ires
    <3> QED BY <1>3, <2>1, <3>1, MapFacts
  <2>3. /\ p.m = [n EXCEPT !.buckets[b] = add.a, !.keyset = RemoveOrder(n.keyset, y.order).a]
        /\ p.item = x /\ p.prev = y.value
    <3>1. ArrayGetAt(n.buckets[b], old) = y
      BY <1>7, <2>2 DEF a
    <3> QED BY <1>6, <1>13, <2>2, <3>1 DEF PutItem
  <2>4. /\ DOMAIN p.m = MapFields /\ p.m = [f \in MapFields |-> p.m[f]]
        /\ p.m.buckets = [n.buckets EXCEPT ![b] = add.a] /\ p.m.size = n.size
        /\ p.m.bucketsize = n.bucketsize /\ p.m.ucase = n.ucase /\ p.m.freecb = n.freecb
        /\ p.m.usecount = n.usecount /\ p.m.keyset = RemoveOrder(n.keyset, y.order).a
        /\ p.m.orderseq = n.orderseq /\ p.m.torn = n.torn
    BY <1>7, <2>3 DEF MapFields
  <2>5. /\ SortedBy(p.m.keyset, MapItem, OrderIn)
        /\ ToSet(p.m.keyset.data) = {z \in ToSet(m.keyset.data) : z.order # y.order}
    <3> DEFINE c == m.keyset
               o == y.order
    <3>1. SortedBy(c, MapItem, OrderIn) /\ o \in Nat
      BY <1>1, <1>4
    <3>2. p.m.keyset = RemoveOrder(c, o).a
      BY <1>7, <2>4
    <3> HIDE DEF c, o
    <3> QED BY <3>1, <3>2, RemoveOrderFacts DEF c, o
  <2>6. Rebucketed(p.m, m, b, add.a)
    <3>1. p.m.buckets = [m.buckets EXCEPT ![b] = add.a]
      BY <1>7, <2>4
    <3>2. p.m.orderseq \in Nat /\ m.orderseq <= p.m.orderseq
      BY <1>1, <1>7, <2>4
    <3> QED BY <1>7, <2>4, <2>5, <3>1, <3>2 DEF Rebucketed
  <2>7. IsBucket(add.a) /\ p.m.orderseq = m.orderseq + 1
    BY <1>7, <1>8, <2>4 DEF KeyEntered
  <2>8. /\ IsMap(p.m) /\ p.m.ucase = m.ucase /\ p.m.freecb = m.freecb /\ p.m.torn = m.torn
        /\ Items(p.m) = (Items(m) \ ToSet(a.data)) \cup ToSet(add.a.data)
    BY <1>10, <2>1, <2>6, <2>7
  <2>9. Items(p.m) = (Items(m) \ {y}) \cup {x} /\ y \in Items(m)
    BY <1>3, <2>1, <2>8
  <2> QED BY <1>7, <2>1, <2>3, <2>4, <2>5, <2>7, <2>8, <2>9 DEF PutDone, p
<1> QED BY <1>8, <1>11, <1>12, <1>13 DEF KeyEntered

\* A key that the map folds to one that it leaves alone.
Foldable(m, key) ==
  MapToUpper(m, key) \in MapKeys /\ MapToUpper(m, MapToUpper(m, key)) = MapToUpper(m, key)

\* A key folded to upper case, once or twice, is the same key.
LEMMA KeysFold ==
  ASSUME MapData, NEW m, NEW key \in Key
  PROVE  Foldable(m, key)
BY DEF MapData, MapKeys, Foldable, MapToUpper

\* A map with another keyset.
LEMMA KeysetChanged ==
  ASSUME NEW m, IsMap(m), NEW a, SortedBy(a, MapItem, OrderIn)
  PROVE  LET r == [m EXCEPT !.keyset = a]
         IN /\ IsMap(r) /\ Items(r) = Items(m) /\ r.keyset = a /\ r.size = m.size
            /\ r.ucase = m.ucase /\ r.freecb = m.freecb /\ r.torn = m.torn
            /\ r.orderseq = m.orderseq
<1> DEFINE r == [m EXCEPT !.keyset = a]
<1>1. DOMAIN m = MapFields /\ m = [f \in MapFields |-> m[f]]
  BY DEF IsMap
<1>2. /\ DOMAIN r = MapFields /\ r = [f \in MapFields |-> r[f]] /\ r.keyset = a
      /\ r.size = m.size /\ r.ucase = m.ucase /\ r.freecb = m.freecb
      /\ r.buckets = m.buckets /\ r.bucketsize = m.bucketsize
      /\ r.usecount = m.usecount /\ r.orderseq = m.orderseq /\ r.torn = m.torn
  BY <1>1 DEF MapFields
<1> HIDE DEF r
<1>3. Items(r) = Items(m) /\ UsedOf(r) = UsedOf(m) /\ \A b : Bucket(r, b) = Bucket(m, b)
  BY <1>2 DEF Items, UsedOf, Bucket
<1>4. \A b, x : Fits(r, b, x) <=> Fits(m, b, x)
  BY <1>2 DEF Fits, MapToUpper
<1>5. IsMap(r)
  BY <1>2, <1>3, <1>4 DEF IsMap
<1> QED BY <1>2, <1>3, <1>5 DEF r

\* What memory a Put meets, as Maps.tla has it.
Memory == [b : BOOLEAN, k : BOOLEAN, lack : SUBSET Nat]
Ample(mem) == mem.b /\ mem.k /\ mem.lack = {}

\* Put up to where the item enters keyset: n is the map that it puts into.
PutBegun(p, n, m, x, mem) == Kept(n, m, mem.lack) /\ PutDone(p, n, x, mem.b)

LEMMA PutBaseFacts ==
  ASSUME MapData, NEW m, Whole(m), NEW key, Foldable(m, key), NEW v \in Value,
         NEW mem, mem.b \in BOOLEAN, NEW x,
         x = [key |-> MapToUpper(m, key), value |-> v, hash |-> MapHash(m, key),
              order |-> m.orderseq]
  PROVE  \E n : PutBegun(MapPutBase(m, key, v, mem), n, m, x, mem) /\ x \in MapItem
<1> DEFINE lack == mem.lack
           n == WithBucket(m, key, lack)
           b == x.hash % n.bucketsize
           ok == mem.b
           p == PutInto(n, b, x, ok)
<1>1. MapPutBase(m, key, v, mem) = p
  BY DEF MapPutBase, PutHashed
<1>2. Kept(n, m, lack) /\ n.buckets[BucketOf(n, key)] # NULL
  <2>1. MapToUpper(m, key) \in MapKeys
    BY DEF Foldable
  <2> HIDE DEF lack
  <2> QED BY <2>1, WithBucketKeeps
<1> HIDE DEF n
<1>3. IsMap(n) /\ Alike(n, m)
  BY <1>2 DEF Kept, Whole
<1>4. /\ x.key = MapToUpper(m, key) /\ x.order = n.orderseq /\ x.hash = MapHash(m, key)
      /\ x.hash = HashOf(x.key) /\ MapToUpper(n, x.key) = x.key
  BY <1>3 DEF Alike, MapHash, MapToUpper, Foldable
<1>5. x \in MapItem
  <2>1. MapToUpper(m, key) \in MapKeys /\ MapHash(m, key) \in Nat /\ m.orderseq \in Nat
    BY <1>4 DEF Foldable, MapData, Whole, IsMap
  <2> QED BY <2>1 DEF MapItem
<1>6. b = BucketOf(n, key)
  BY <1>3, <1>4 DEF BucketOf, MapHash, Alike
<1>7. n.buckets[b] # NULL /\ ok \in BOOLEAN
  BY <1>2, <1>6
<1> HIDE DEF b, ok
<1>8. PutDone(p, n, x, ok)
  BY <1>3, <1>4, <1>5, <1>7, PutIntoFacts DEF b
<1> HIDE DEF p
<1>9. PutBegun(p, n, m, x, mem)
  BY <1>2, <1>8 DEF PutBegun, ok
<1> QED BY <1>1, <1>5, <1>9

\* The items of m but for the one of key k.
Others(m, k) == {y \in Items(m) : y.key # k}

\* The items that Put of value v for key k may leave: with the new one, ordered
\* last, in the place of what had the key, and only so when no allocation fails.
ItemsPut(n, m, k, v, ok) ==
  \/ Items(n) = Items(m) /\ ~ok
  \/ Items(n) = Others(m, k) /\ ~ok
  \/ \E x \in MapItem : /\ x.key = k /\ x.value = v /\ \A y \in Items(m) : y.order < x.order
                        /\ Items(n) = Others(m, k) \cup {x}

\* What Put of value v for key k leaves.  That it tears the map takes a bucket
\* that cannot grow.
PutOutcome(r, m, k, v, ok) ==
  /\ Whole(r.m) /\ r.m.ucase = m.ucase /\ r.m.freecb = m.freecb
  /\ m.torn => r.m.torn
  /\ ok /\ ~m.torn => ~r.m.torn
  /\ r.m.torn \/ ItemsPut(r.m, m, k, v, ok)
  /\ \A x \in Entries(r.m) : x \in Entries(m) \/ (x.key = k /\ x.value = v)
  /\ r.prev = NULL \/ (r.prev \in Values(m) /\ r.prev \notin Values(r.m))

\* The second half of CMUTIL_MapPut: the item enters keyset or leaves its bucket.
LEMMA PutOrderKeeps ==
  ASSUME MapData, NEW m, Whole(m), NEW key, Foldable(m, key), NEW v \in Value,
         v \notin Values(m), NEW okb \in BOOLEAN, NEW okk \in BOOLEAN,
         NEW x \in MapItem, x.key = MapToUpper(m, key), x.value = v, x.order = m.orderseq,
         x.hash = HashOf(x.key), NEW p, PutDone(p, m, x, okb)
  PROVE  PutOutcome(Ordered(p, key, okk), m, MapToUpper(m, key), v, okb /\ okk)
<1> DEFINE k == MapToUpper(m, key)
           add == AddOrder(p.m.keyset, p.item, okk)
           r == Ordered(p, key, okk)
           K == ToSet(p.m.keyset.data)
           ok == okb /\ okk
<1>1. r = PutOrder(p, add, key)
  BY DEF Ordered
<1>2. x.key = k /\ MapToUpper(m, x.key) = x.key
  BY DEF Foldable
<1> HIDE DEF r
<1>3. m.orderseq \in Nat /\ m.torn \in BOOLEAN
  BY DEF Whole, IsMap
<1>4. /\ IsMap(m) /\ Items(m) \subseteq Entries(m) /\ (m.torn \/ Items(m) = Entries(m))
      /\ m.size = Cardinality(Entries(m)) /\ IsFiniteSet(Entries(m)) /\ m.size \in Nat
      /\ \A y, z \in Entries(m) : (y.order = z.order => y = z) /\ (y.value = z.value => y = z)
      /\ \A y \in Entries(m) : y.hash = HashOf(y.key) /\ MapToUpper(m, y.key) = y.key
  BY WholeFacts DEF Whole
<1>5. \A y \in Entries(m) : y.order < x.order /\ y.order \in Nat /\ y.value # v
  <2>1. \A y \in Entries(m) : y.order < m.orderseq /\ y \in MapItem
    BY WholeFacts DEF Whole
  <2>2. \A y \in Entries(m) : y.value # v
    BY DEF Values
  <2> QED BY <2>1, <2>2, DataFacts
<1>6. x \notin Entries(m) /\ x # NULL /\ x.order \in Nat
  BY <1>5, DataFacts
<1>7. /\ IsMap(p.m) /\ p.m.ucase = m.ucase /\ p.m.freecb = m.freecb /\ p.m.torn = m.torn
      /\ p.m.orderseq = m.orderseq + 1
  BY DEF PutDone
<1>8. \A y : MapToUpper(p.m, y) = MapToUpper(m, y)
  BY <1>7 DEF MapToUpper
<1>9. \A y \in Entries(m) \cup {x} :
        /\ y.hash = HashOf(y.key) /\ MapToUpper(p.m, y.key) = y.key
        /\ y.order < p.m.orderseq /\ y.order \in Nat
  BY <1>2, <1>3, <1>4, <1>5, <1>6, <1>7, <1>8
<1> HIDE DEF k, add
<1>10. CASE /\ p.item = NULL /\ p.prev = NULL /\ okb = FALSE
            /\ Items(p.m) = Items(m) /\ p.m.keyset = m.keyset /\ p.m.size = m.size
  <2>1. r.m = p.m /\ r.prev = NULL
    BY <1>1, <1>10 DEF PutOrder
  <2>2. Entries(r.m) = Entries(m)
    BY <1>10, <2>1 DEF Entries
  <2>3. Whole(r.m)
    BY <1>4, <1>7, <1>9, <1>10, <2>1, <2>2 DEF Whole
  <2>4. ItemsPut(r.m, m, k, v, ok)
    BY <1>10, <2>1 DEF ItemsPut
  <2> QED BY <1>7, <1>10, <2>1, <2>2, <2>3, <2>4 DEF PutOutcome, r, k
<1>11. ASSUME p.item = x, K \subseteq Entries(m), x \in Items(p.m), Items(p.m) \subseteq K \cup {x},
              m.torn \/ (K = Others(m, k) /\ Items(p.m) = K \cup {x}),
              p.m.size = Cardinality(K) + 1,
              p.prev = NULL \/ (p.prev \in Values(m) /\ p.prev # v
                                 /\ \A y \in K : y.value # p.prev)
       PROVE  PutOutcome(r, m, k, v, ok)
  <2>1. IsFiniteSet(K) /\ x \notin K /\ Cardinality(K) \in Nat
    BY <1>4, <1>6, <1>11, FS_Subset, FS_CardinalityType
  <2>2. \A y, z \in K \cup {x} : y.value = z.value => y = z
    BY <1>4, <1>5, <1>11
  <2>3. r.prev = p.prev
    BY <1>1, <1>6, <1>11 DEF PutOrder
  <2>4. OrderEntered(add, p.m.keyset, x, okk)
    <3> DEFINE c == p.m.keyset
    <3>1. SortedBy(c, MapItem, OrderIn) /\ \A y \in ToSet(c.data) : y.order < x.order
      BY <1>5, <1>7, <1>11 DEF IsMap
    <3>2. add = AddOrder(c, x, okk)
      BY <1>11 DEF add
    <3> HIDE DEF c, add
    <3>3. OrderEntered(AddOrder(c, x, okk), c, x, okk)
      BY <3>1, AddOrderFacts
    <3> QED BY <3>2, <3>3 DEF c
  <2> HIDE DEF add, K
  <2>5. CASE add.ret = TRUE /\ ToSet(add.a.data) = ToSet(p.m.keyset.data) \cup {x}
    <3>1. r.m = [p.m EXCEPT !.keyset = add.a]
      BY <1>1, <1>6, <1>11, <2>5 DEF PutOrder
    <3>2. SortedBy(add.a, MapItem, OrderIn)
      BY <2>4 DEF OrderEntered
    <3>3. /\ IsMap(r.m) /\ Items(r.m) = Items(p.m) /\ r.m.keyset = add.a /\ r.m.size = p.m.size
          /\ r.m.ucase = p.m.ucase /\ r.m.freecb = p.m.freecb /\ r.m.torn = p.m.torn
          /\ r.m.orderseq = p.m.orderseq
      BY <1>7, <3>1, <3>2, KeysetChanged
    <3>4. Entries(r.m) = K \cup {x}
      BY <2>5, <3>3 DEF Entries, K
    <3>5. Cardinality(Entries(r.m)) = r.m.size
      <4>1. Cardinality(K \cup {x}) = Cardinality(K) + 1
        BY <2>1, FS_AddElement
      <4> QED BY <1>11, <3>3, <3>4, <4>1
    <3>6. \A y : MapToUpper(r.m, y) = MapToUpper(p.m, y)
      BY <3>3 DEF MapToUpper
    <3>7. r.m.torn \/ (Items(r.m) = K \cup {x} /\ K = Others(m, k))
      BY <1>7, <1>11, <3>3
    <3>8. Whole(r.m)
      <4>1. \A y \in Entries(r.m) : /\ y.hash = HashOf(y.key) /\ MapToUpper(r.m, y.key) = y.key
                                    /\ y.order < r.m.orderseq
        BY <1>9, <1>11, <3>3, <3>4, <3>6
      <4>2. \A y, z \in Entries(r.m) : y.value = z.value => y = z
        BY <2>2, <3>4
      <4>3. Items(r.m) \subseteq Entries(r.m) /\ (r.m.torn \/ Items(r.m) = Entries(r.m))
        BY <1>11, <3>3, <3>4, <3>7
      <4> QED BY <3>3, <3>5, <4>1, <4>2, <4>3 DEF Whole
    <3>9. \A y \in Entries(r.m) : y \in Entries(m) \/ (y.key = k /\ y.value = v)
      BY <1>2, <1>11, <3>4
    <3>10. r.prev = NULL \/ (r.prev \in Values(m) /\ r.prev \notin Values(r.m))
      BY <1>11, <2>3, <3>4 DEF Values
    <3>11. r.m.torn \/ ItemsPut(r.m, m, k, v, ok)
      <4> SUFFICES ASSUME ~r.m.torn PROVE ItemsPut(r.m, m, k, v, ok)
        OBVIOUS
      <4>1. Items(r.m) = Others(m, k) \cup {x} /\ \A y \in Items(m) : y.order < x.order
        BY <1>4, <1>5, <3>7
      <4> QED BY <1>2, <4>1 DEF ItemsPut
    <3> QED BY <1>7, <3>3, <3>8, <3>9, <3>10, <3>11 DEF PutOutcome
  <2>6. CASE add.ret = FALSE /\ okk = FALSE
    <3> DEFINE q == MapRemove(p.m, key)
    <3>1. r.m = q.m
      BY <1>1, <1>6, <1>11, <2>6 DEF PutOrder
    <3>2. MapToUpper(p.m, key) = k /\ k \in MapKeys
      BY <1>8 DEF k, Foldable
    <3>3. Removal(q, p.m, key)
      BY <1>7, <3>2, MapRemoveFacts
    <3> HIDE DEF q
    <3>4. /\ IsMap(q.m) /\ q.m.ucase = p.m.ucase /\ q.m.freecb = p.m.freecb
          /\ q.m.torn = p.m.torn /\ q.m.orderseq = p.m.orderseq
          /\ Items(q.m) = Items(p.m) \ {x} /\ q.m.size = p.m.size - 1
          /\ Entries(q.m) = {y \in K : y.order # x.order}
      <4>1. PICK y \in Items(p.m) :
              /\ y.key = MapToUpper(p.m, key)
              /\ Items(q.m) = Items(p.m) \ {y} /\ q.m.size = p.m.size - 1
              /\ ToSet(q.m.keyset.data) = {z \in ToSet(p.m.keyset.data) : z.order # y.order}
        BY <1>2, <1>11, <3>2, <3>3 DEF Removal
      <4>2. y = x
        BY <1>2, <1>7, <1>11, <3>2, <4>1, MapFacts
      <4> QED BY <3>3, <4>1, <4>2 DEF Removal, K, Entries
    <3>5. Entries(q.m) = K
      <4>1. \A y \in K : y.order # x.order
        BY <1>5, <1>6, <1>11
      <4> QED BY <3>4, <4>1
    <3>6. Items(q.m) \subseteq K
      BY <1>11, <3>4
    <3>7. q.m.size = Cardinality(K)
      BY <1>11, <2>1, <3>4
    <3>8. q.m.torn \/ (Items(q.m) = K /\ K = Others(m, k))
      BY <1>7, <1>11, <2>1, <3>4
    <3>9. \A y : MapToUpper(q.m, y) = MapToUpper(p.m, y)
      BY <3>4 DEF MapToUpper
    <3>10. Whole(q.m)
      <4>1. \A y \in Entries(q.m) : /\ y.hash = HashOf(y.key) /\ MapToUpper(q.m, y.key) = y.key
                                    /\ y.order < q.m.orderseq
        BY <1>9, <1>11, <3>4, <3>5, <3>9
      <4>2. \A y, z \in Entries(q.m) : y.value = z.value => y = z
        BY <2>2, <3>5
      <4>3. Items(q.m) \subseteq Entries(q.m) /\ (q.m.torn \/ Items(q.m) = Entries(q.m))
        BY <3>5, <3>6, <3>8
      <4> QED BY <3>4, <3>5, <3>7, <4>1, <4>2, <4>3 DEF Whole
    <3>11. r.prev = NULL \/ (r.prev \in Values(m) /\ r.prev \notin Values(q.m))
      BY <1>11, <2>3, <3>5 DEF Values
    <3>12. r.m.torn \/ ItemsPut(r.m, m, k, v, ok)
      BY <2>6, <3>1, <3>8 DEF ItemsPut
    <3>13. \A y \in Entries(q.m) : y \in Entries(m)
      BY <1>11, <3>5
    <3> QED BY <1>7, <2>6, <3>1, <3>4, <3>10, <3>11, <3>12, <3>13 DEF PutOutcome
  <2> QED BY <2>4, <2>5, <2>6 DEF OrderEntered
<1>12. CASE /\ p.item = x /\ p.prev = NULL /\ \A y \in Items(m) : y.key # x.key
            /\ Items(p.m) = Items(m) \cup {x} /\ p.m.keyset = m.keyset /\ p.m.size = m.size + 1
  <2>1. K = Entries(m) /\ Items(m) = Others(m, k)
    BY <1>2, <1>12 DEF Others, Entries
  <2> HIDE DEF K
  <2> QED BY <1>4, <1>11, <1>12, <2>1 DEF r, k
<1>13. CASE /\ p.item = x
            /\ \E y \in Items(m) :
                 /\ y.key = x.key /\ p.prev = y.value
                 /\ Items(p.m) = (Items(m) \ {y}) \cup {x} /\ p.m.size = m.size
                 /\ ToSet(p.m.keyset.data) = {z \in ToSet(m.keyset.data) : z.order # y.order}
  <2>1. PICK y \in Items(m) :
               /\ y.key = x.key /\ p.prev = y.value
               /\ Items(p.m) = (Items(m) \ {y}) \cup {x} /\ p.m.size = m.size
               /\ ToSet(p.m.keyset.data) = {z \in ToSet(m.keyset.data) : z.order # y.order}
    BY <1>13
  <2>2. K = Entries(m) \ {y} /\ y \in Entries(m)
    BY <1>4, <2>1 DEF Entries
  <2>3. Items(m) \ {y} = Others(m, k)
    BY <1>2, <1>4, <2>1, MapFacts DEF Others
  <2> HIDE DEF K
  <2>4. p.m.size = Cardinality(K) + 1
    <3>1. Cardinality(Entries(m) \ {y}) = Cardinality(Entries(m)) - 1
      BY <1>4, <2>2, FS_RemoveElement
    <3> QED BY <1>4, <2>1, <2>2, <3>1
  <2>5. p.prev \in Values(m) /\ p.prev # v /\ \A z \in K : z.value # p.prev
    BY <1>4, <1>5, <2>1, <2>2 DEF Values
  <2>6. x \in Items(p.m) /\ Items(p.m) \subseteq K \cup {x} /\ K \subseteq Entries(m)
    BY <1>4, <2>1, <2>2
  <2>7. m.torn \/ (K = Others(m, k) /\ Items(p.m) = K \cup {x})
    BY <1>4, <2>1, <2>2, <2>3
  <2> QED BY <1>11, <1>13, <2>1, <2>4, <2>5, <2>6, <2>7 DEF r, k
<1> QED BY <1>10, <1>12, <1>13 DEF PutDone, r, k

\* A Put into n is one into m, when n is m with its buckets made anew.
LEMMA KeptOutcome ==
  ASSUME NEW m, Whole(m), NEW n, NEW lack, Kept(n, m, lack), NEW k, NEW v, NEW oks \in BOOLEAN,
         NEW ok \in BOOLEAN, ok => oks /\ lack = {}, oks => ok \/ lack # {},
         NEW r, PutOutcome(r, n, k, v, oks)
  PROVE  PutOutcome(r, m, k, v, ok)
<1>1. n.keyset = m.keyset /\ n.ucase = m.ucase /\ n.freecb = m.freecb /\ Whole(n)
  BY DEF Kept, Alike
<1>2. Entries(n) = Entries(m) /\ Values(n) = Values(m)
  BY <1>1 DEF Entries, Values
<1>3. m.torn => r.m.torn
  BY DEF Kept, PutOutcome
<1>4. ok /\ ~m.torn => ~r.m.torn
  BY DEF Kept, PutOutcome
<1>5. r.m.torn \/ ItemsPut(r.m, m, k, v, ok)
  <2> SUFFICES ASSUME ~r.m.torn PROVE ItemsPut(r.m, m, k, v, ok)
    OBVIOUS
  <2>1. ~n.torn /\ ~m.torn /\ ItemsPut(r.m, n, k, v, oks)
    BY <1>3 DEF PutOutcome
  <2>2. Items(n) = Items(m)
    BY <1>1, <1>2, <2>1 DEF Whole
  <2>3. Others(n, k) = Others(m, k)
    BY <2>2 DEF Others
  <2> QED BY <2>1, <2>2, <2>3 DEF ItemsPut
<1> QED BY <1>1, <1>2, <1>3, <1>4, <1>5 DEF PutOutcome

\* CMUTIL_MapPut: whichever growth of an array fails in it, size, use count and
\* keyset agree afterwards, the buckets hold no item but those of keyset, each
\* where it is looked up, the map has no pair but those it had and the new one, and
\* the value it hands back, which the caller may free, is in no pair.  The buckets
\* lack an item of keyset only when one of them could not grow in a rebuild, or
\* did so before; else the pair is put, or, when memory runs out, the map is as it
\* was or without the key.
THEOREM MapPutKeeps ==
  ASSUME MapData, NEW m, Whole(m), NEW key, Foldable(m, key), NEW v \in Value,
         v \notin Values(m), NEW mem \in Memory
  PROVE  PutOutcome(MapPut(m, key, v, mem), m, MapToUpper(m, key), v, Ample(mem))
<1> DEFINE x == [key |-> MapToUpper(m, key), value |-> v, hash |-> MapHash(m, key),
                 order |-> m.orderseq]
           p == MapPutBase(m, key, v, mem)
           k == MapToUpper(m, key)
           r == MapPut(m, key, v, mem)
<1>1. mem.b \in BOOLEAN /\ mem.k \in BOOLEAN
  BY DEF Memory
<1>2. PICK n : PutBegun(p, n, m, x, mem) /\ x \in MapItem
  BY <1>1, PutBaseFacts
<1>3. x.key = k /\ x.value = v /\ x.order = m.orderseq /\ x.hash = HashOf(x.key)
  BY DEF MapHash, MapToUpper
<1>4. r = Ordered(p, key, mem.k)
  BY DEF MapPut
<1> HIDE DEF x, p, r
<1>5. Whole(n) /\ Alike(n, m) /\ PutDone(p, n, x, mem.b)
  BY <1>2 DEF PutBegun, Kept
<1>6. /\ MapToUpper(n, key) = k /\ Foldable(n, key) /\ v \notin Values(n)
      /\ x.order = n.orderseq
  <2>1. \A y : MapToUpper(n, y) = MapToUpper(m, y)
    BY <1>5 DEF Alike, MapToUpper
  <2> QED BY <1>3, <1>5, <2>1 DEF Foldable, Alike, Values, Entries
<1> DEFINE okb == mem.b
           okk == mem.k
           oks == okb /\ okk
           ok == Ample(mem)
<1>7. PutOutcome(r, n, k, v, oks)
  <2>1. x.key = MapToUpper(n, key)
    BY <1>3, <1>6
  <2>2. okb \in BOOLEAN /\ okk \in BOOLEAN /\ PutDone(p, n, x, okb) /\ r = Ordered(p, key, okk)
    BY <1>1, <1>4, <1>5
  <2> HIDE DEF okb, okk, k
  <2>3. PutOutcome(Ordered(p, key, okk), n, MapToUpper(n, key), v, okb /\ okk)
    BY <1>2, <1>3, <1>5, <1>6, <2>1, <2>2, PutOrderKeeps
  <2> QED BY <1>6, <2>2, <2>3
<1>8. oks \in BOOLEAN /\ ok \in BOOLEAN /\ (ok => oks /\ mem.lack = {}) /\ (oks => ok \/ mem.lack # {})
  BY <1>1 DEF Ample
<1>9. Kept(n, m, mem.lack)
  BY <1>2 DEF PutBegun
<1> DEFINE lack == mem.lack
<1> HIDE DEF oks, ok, k, lack
<1>10. PutOutcome(r, m, k, v, ok)
  BY <1>7, <1>8, <1>9, KeptOutcome DEF lack
<1> QED BY <1>10 DEF r, k, ok

\* Remove keeps a map whole.
LEMMA MapRemoveKeeps ==
  ASSUME MapData, NEW m, Whole(m), NEW key, MapToUpper(m, key) \in MapKeys
  PROVE  LET r == MapRemove(m, key)
         IN  Whole(r.m) /\ Values(r.m) \subseteq Values(m) /\ r.m.torn = m.torn
<1> DEFINE r == MapRemove(m, key)
<1>1. Removal(r, m, key)
  BY MapRemoveFacts DEF Whole
<1> HIDE DEF r
<1>2. /\ IsMap(m) /\ Items(m) \subseteq Entries(m) /\ (m.torn \/ Items(m) = Entries(m))
      /\ m.size = Cardinality(Entries(m)) /\ IsFiniteSet(Entries(m)) /\ m.size \in Nat
      /\ \A x, y \in Entries(m) : (x.order = y.order => x = y) /\ (x.value = y.value => x = y)
      /\ \A x \in Entries(m) : /\ x.hash = HashOf(x.key) /\ MapToUpper(m, x.key) = x.key
                               /\ x.order < m.orderseq
  BY WholeFacts DEF Whole
<1>3. CASE r.m = m
  BY <1>3 DEF r
<1>4. CASE \E x \in Items(m) :
             /\ x.key = MapToUpper(m, key) /\ r.ret = x.value
             /\ Items(r.m) = Items(m) \ {x} /\ r.m.size = m.size - 1
             /\ ToSet(r.m.keyset.data) = {y \in ToSet(m.keyset.data) : y.order # x.order}
  <2>1. PICK x \in Items(m) :
               /\ Items(r.m) = Items(m) \ {x} /\ r.m.size = m.size - 1
               /\ ToSet(r.m.keyset.data) = {y \in ToSet(m.keyset.data) : y.order # x.order}
    BY <1>4
  <2>2. Entries(r.m) = Entries(m) \ {x} /\ x \in Entries(m)
    BY <1>2, <2>1 DEF Entries
  <2>3. Cardinality(Entries(r.m)) = r.m.size
    <3>1. Cardinality(Entries(m) \ {x}) = Cardinality(Entries(m)) - 1
      BY <1>2, <2>2, FS_RemoveElement
    <3> QED BY <1>2, <2>1, <2>2, <3>1
  <2>4. /\ IsMap(r.m) /\ r.m.torn = m.torn /\ r.m.orderseq = m.orderseq
        /\ \A y : MapToUpper(r.m, y) = MapToUpper(m, y)
    BY <1>1 DEF Removal, MapToUpper
  <2>5. Items(r.m) \subseteq Entries(r.m) /\ (r.m.torn \/ Items(r.m) = Entries(r.m))
    BY <1>2, <2>1, <2>2, <2>4
  <2>6. \A y \in Entries(r.m) : /\ y.hash = HashOf(y.key) /\ MapToUpper(r.m, y.key) = y.key
                                /\ y.order < r.m.orderseq
    BY <1>2, <2>2, <2>4
  <2>7. \A y, z \in Entries(r.m) : y.value = z.value => y = z
    BY <1>2, <2>2
  <2>8. Whole(r.m)
    BY <2>3, <2>4, <2>5, <2>6, <2>7 DEF Whole
  <2>9. Values(r.m) \subseteq Values(m)
    BY <2>2 DEF Values
  <2> QED BY <2>4, <2>8, <2>9 DEF r
<1> QED BY <1>1, <1>3, <1>4 DEF Removal

\* The item that keyset has at an index.
LEMMA NthItem ==
  ASSUME MapData, NEW m, Whole(m), NEW i \in 0 .. m.size, i < m.size
  PROVE  /\ ArrayGetAt(m.keyset, i) \in Entries(m)
         /\ MapToUpper(m, ArrayGetAt(m.keyset, i).key) \in MapKeys
<1>1. i \in Nat /\ i + 1 \in 1 .. Len(m.keyset.data) /\ i < Len(m.keyset.data)
  BY WholeFacts
<1>2. ArrayGetAt(m.keyset, i) = m.keyset.data[i + 1]
  BY <1>1 DEF ArrayGetAt, Size
<1>3. Entries(m) = ToSet(m.keyset.data) /\ m.keyset.data \in Seq(MapItem)
  BY WholeFacts DEF Entries
<1>4. ArrayGetAt(m.keyset, i) \in Entries(m)
  BY <1>1, <1>2, <1>3, Elements
<1>5. \A x \in Entries(m) : MapToUpper(m, x.key) \in MapKeys
  <2>1. \A x \in Entries(m) : x \in MapItem /\ MapToUpper(m, x.key) = x.key
    BY WholeFacts DEF Whole
  <2> QED BY <2>1, DataFacts
<1> QED BY <1>4, <1>5

\* RemoveAt asks for the key of an item that keyset has.
LEMMA MapRemoveAtKeeps ==
  ASSUME MapData, NEW m, Whole(m), NEW i \in 0 .. m.size
  PROVE  LET r == MapRemoveAt(m, i)
         IN  Whole(r.m) /\ Values(r.m) \subseteq Values(m) /\ r.m.torn = m.torn
<1>1. CASE ~(i < m.size)
  BY <1>1 DEF MapRemoveAt
<1>2. CASE i < m.size
  <2> DEFINE x == ArrayGetAt(m.keyset, i)
  <2>1. MapToUpper(m, x.key) \in MapKeys
    BY <1>2, NthItem
  <2>2. MapRemoveAt(m, i) = MapRemove(m, x.key)
    BY <1>2 DEF MapRemoveAt
  <2> HIDE DEF x
  <2> QED BY <2>1, <2>2, MapRemoveKeeps
<1> QED BY <1>1, <1>2

\* A map without items.
Blank(m, ucase, freecb) ==
  Whole(m) /\ Entries(m) = {} /\ m.ucase = ucase /\ m.freecb = freecb /\ m.torn = FALSE

\* An empty map.
LEMMA MapMade ==
  ASSUME MapData, NEW n \in Nat \ {0}, NEW ucase \in BOOLEAN, NEW freecb \in BOOLEAN, NEW lf
  PROVE  Blank(MapCreateInternal(n, ucase, freecb, lf), ucase, freecb)
<1> DEFINE m == MapCreateInternal(n, ucase, freecb, lf)
           a == ArrayCreateInternal(n, TRUE, FALSE)
<1>1. /\ DOMAIN m = MapFields /\ m = [f \in MapFields |-> m[f]]
      /\ m.buckets = [b \in 0 .. n - 1 |-> NULL] /\ m.bucketsize = n /\ m.keyset = a
      /\ m.size = 0 /\ m.ucase = ucase /\ m.freecb = freecb /\ m.usecount = 0
      /\ m.orderseq = 0 /\ m.torn = FALSE
  BY DEF MapCreateInternal, MapFields
<1>2. a.data = << >> /\ a.capacity = n /\ a.sorted = TRUE /\ a.freecb = FALSE
      /\ DOMAIN a = Fields /\ a = [x \in Fields |-> a[x]]
  BY DEF ArrayCreateInternal, Fields
<1> HIDE DEF m, a
<1>3. /\ a.data \in Seq(MapItem) /\ Len(a.data) = 0 /\ IsInjective(a.data)
      /\ Rising(a.data, OrderIn) /\ ToSet(a.data) = {}
  BY <1>2 DEF IsInjective, Rising, ToSet
<1>4. SortedBy(a, MapItem, OrderIn)
  <2>1. Size(a) <= a.capacity
    BY <1>2, <1>3 DEF Size
  <2>2. a.capacity \in Nat
    BY <1>2
  <2>3. a.sorted \in BOOLEAN
    BY <1>2
  <2>4. a.freecb \in BOOLEAN
    BY <1>2
  <2>5. IsArray(a, MapItem)
    BY <1>2, <1>3, <2>1, <2>2, <2>3, <2>4 DEF IsArray
  <2>6. Arranged(a, OrderIn)
    BY <1>3 DEF Arranged
  <2> QED BY <1>2, <2>5, <2>6 DEF SortedBy
<1>5. \A b \in 0 .. n - 1 : m.buckets[b] = NULL /\ ToSet(Bucket(m, b).data) = {}
  BY <1>1, NewBucketEmpty DEF Bucket
<1>6. Items(m) = {} /\ UsedOf(m) = {} /\ Entries(m) = {}
  <2>1. ASSUME NEW x \in Items(m) PROVE FALSE
    <3>1. PICK b \in 0 .. n - 1 : x \in ToSet(Bucket(m, b).data)
      BY <1>1 DEF Items
    <3> QED BY <1>5, <3>1
  <2>2. ASSUME NEW b \in UsedOf(m) PROVE FALSE
    <3>1. b \in 0 .. n - 1 /\ m.buckets[b] # NULL
      BY <1>1 DEF UsedOf
    <3> QED BY <1>5, <3>1
  <2> QED BY <1>1, <1>3, <2>1, <2>2 DEF Entries
<1>7. Cardinality({}) = 0
  BY FS_EmptySet
<1>8. DOMAIN m.buckets = 0 .. n - 1 /\ m.buckets = [b \in 0 .. n - 1 |-> m.buckets[b]]
  BY <1>1
<1>9. m.usecount = Cardinality(UsedOf(m)) /\ m.size = Cardinality(Entries(m))
  BY <1>1, <1>6, <1>7
<1>10. IsMap(m)
  <2>1. m.bucketsize \in Nat \ {0} /\ m.orderseq \in Nat
    BY <1>1
  <2>2. m.ucase \in BOOLEAN /\ m.freecb \in BOOLEAN /\ m.torn \in BOOLEAN
    BY <1>1
  <2>3. SortedBy(m.keyset, MapItem, OrderIn)
    BY <1>1, <1>4
  <2>4. /\ DOMAIN m.buckets = 0 .. m.bucketsize - 1
        /\ m.buckets = [b \in 0 .. m.bucketsize - 1 |-> m.buckets[b]]
    BY <1>1, <1>8
  <2>5. \A b \in 0 .. m.bucketsize - 1 :
          m.buckets[b] = NULL /\ \A x \in ToSet(Bucket(m, b).data) : FALSE
    BY <1>1, <1>5
  <2> QED BY <1>1, <1>9, <2>1, <2>2, <2>3, <2>4, <2>5 DEF IsMap
<1> QED BY <1>1, <1>6, <1>9, <1>10 DEF Whole, Blank, m

\* Clear keeps the buckets and empties them.
LEMMA MapClearKeeps ==
  ASSUME MapData, NEW m, Whole(m), NEW freedata \in BOOLEAN
  PROVE  LET r == MapClearBase(m, freedata)
         IN Whole(r.m) /\ Entries(r.m) = {} /\ r.m.torn = FALSE /\ r.freed \subseteq Values(m)
<1> DEFINE q == MapClearBase(m, freedata)
           r == q.m
           B == 0 .. m.bucketsize - 1
           cleared(a) == ArrayClear(a).a
<1>1. /\ DOMAIN m = MapFields /\ m = [f \in MapFields |-> m[f]]
      /\ m.bucketsize \in Nat \ {0} /\ m.orderseq \in Nat
      /\ m.ucase \in BOOLEAN /\ m.freecb \in BOOLEAN
      /\ DOMAIN m.buckets = B
      /\ \A b \in B : m.buckets[b] = NULL \/ IsBucket(m.buckets[b])
      /\ SortedBy(m.keyset, MapItem, OrderIn)
      /\ m.usecount = Cardinality(UsedOf(m))
  BY DEF Whole, IsMap
<1>2. ASSUME NEW a, NEW k \in [MapItem -> Int], SortedBy(a, MapItem, k)
      PROVE  SortedBy(cleared(a), MapItem, k) /\ ToSet(cleared(a).data) = {}
  <2>1. /\ DOMAIN a = Fields /\ a = [x \in Fields |-> a[x]]
        /\ a.sorted = TRUE /\ a.freecb = FALSE /\ a.capacity \in Nat
    BY <1>2 DEF SortedBy, IsArray
  <2>2. cleared(a) = [a EXCEPT !.data = << >>]
    BY DEF ArrayClear
  <2> DEFINE c == cleared(a)
  <2>3. /\ DOMAIN c = Fields /\ c = [x \in Fields |-> c[x]] /\ c.data = << >>
        /\ c.sorted = TRUE /\ c.freecb = FALSE /\ c.capacity = a.capacity
    BY <2>1, <2>2 DEF Fields
  <2> HIDE DEF c
  <2>4. /\ c.data \in Seq(MapItem) /\ Len(c.data) = 0 /\ IsInjective(c.data)
        /\ Rising(c.data, k) /\ ToSet(c.data) = {}
    <3>1. c.data = << >>
      BY <2>3
    <3>2. Len(c.data) = 0 /\ c.data \in Seq(MapItem) /\ ToSet(c.data) = {}
      BY <3>1 DEF ToSet
    <3>3. IsInjective(c.data)
      BY <3>1 DEF IsInjective
    <3>4. Rising(c.data, k)
      BY <3>2 DEF Rising
    <3> QED BY <3>2, <3>3, <3>4
  <2>5. Size(c) <= c.capacity /\ c.capacity \in Nat
    BY <2>1, <2>3, <2>4 DEF Size
  <2>6. c.sorted \in BOOLEAN
    BY <2>3
  <2>7. c.freecb \in BOOLEAN
    BY <2>3
  <2>8. IsArray(c, MapItem)
    BY <2>3, <2>4, <2>5, <2>6, <2>7 DEF IsArray
  <2>9. Arranged(c, k)
    BY <2>4 DEF Arranged
  <2>10. SortedBy(c, MapItem, k)
    BY <2>3, <2>8, <2>9 DEF SortedBy
  <2> QED BY <2>4, <2>10 DEF c
<1>3. /\ r = [m EXCEPT !.buckets = [b \in DOMAIN m.buckets |->
                                      IF m.buckets[b] = NULL THEN NULL ELSE cleared(m.buckets[b])],
                       !.keyset = cleared(m.keyset), !.size = 0, !.torn = FALSE]
      /\ q.freed \subseteq {x.value : x \in Items(m)}
  BY DEF MapClearBase
<1> HIDE DEF q, cleared
<1>4. /\ DOMAIN r = MapFields /\ r = [f \in MapFields |-> r[f]]
      /\ r.buckets = [b \in B |-> IF m.buckets[b] = NULL THEN NULL ELSE cleared(m.buckets[b])]
      /\ r.keyset = cleared(m.keyset) /\ r.size = 0 /\ r.bucketsize = m.bucketsize
      /\ r.ucase = m.ucase /\ r.freecb = m.freecb /\ r.usecount = m.usecount
      /\ r.orderseq = m.orderseq /\ r.torn = FALSE
  BY <1>1, <1>3 DEF MapFields
<1> HIDE DEF r
<1>5. SortedBy(r.keyset, MapItem, OrderIn) /\ ToSet(r.keyset.data) = {}
  <2>1. SortedBy(m.keyset, MapItem, OrderIn) /\ OrderIn \in [MapItem -> Int]
    BY <1>1, DataFacts
  <2>2. r.keyset = cleared(m.keyset)
    BY <1>4
  <2> QED BY <1>2, <2>1, <2>2
<1>6. ASSUME NEW b \in B
      PROVE  /\ r.buckets[b] = NULL \/ IsBucket(r.buckets[b])
             /\ r.buckets[b] # NULL <=> m.buckets[b] # NULL
             /\ ToSet(Bucket(r, b).data) = {}
  <2>1. CASE m.buckets[b] = NULL
    BY <1>4, <2>1, NewBucketEmpty DEF Bucket
  <2>2. CASE m.buckets[b] # NULL
    <3>1. SortedBy(m.buckets[b], MapItem, KeyIn) /\ KeyIn \in [MapItem -> Int]
      BY <1>1, <2>2, DataFacts DEF IsBucket
    <3>2. r.buckets[b] = cleared(m.buckets[b])
      BY <1>4, <2>2
    <3>3. SortedBy(r.buckets[b], MapItem, KeyIn) /\ ToSet(r.buckets[b].data) = {}
      BY <1>2, <3>1, <3>2
    <3>4. r.buckets[b] # NULL
      BY <3>3, DataFacts
    <3> QED BY <2>2, <3>3, <3>4 DEF Bucket, IsBucket
  <2> QED BY <2>1, <2>2
<1>7. Items(r) = {} /\ UsedOf(r) = UsedOf(m)
  <2>1. ASSUME NEW x \in Items(r) PROVE FALSE
    <3>1. PICK b \in B : x \in ToSet(Bucket(r, b).data)
      BY <1>4 DEF Items
    <3> QED BY <1>6, <3>1
  <2>2. UsedOf(r) = UsedOf(m)
    BY <1>4, <1>6 DEF UsedOf
  <2> QED BY <2>1, <2>2
<1>8. Cardinality({}) = 0
  BY FS_EmptySet
<1>9. /\ Entries(r) = {} /\ r.size = Cardinality(Entries(r))
      /\ r.usecount = Cardinality(UsedOf(r))
  BY <1>1, <1>4, <1>5, <1>7, <1>8 DEF Entries
<1>10. DOMAIN r.buckets = B /\ r.buckets = [b \in B |-> r.buckets[b]]
  BY <1>4
<1>11. IsMap(r)
  BY <1>1, <1>4, <1>5, <1>6, <1>9, <1>10 DEF IsMap
<1>12. q.freed \subseteq Values(m)
  BY <1>3 DEF Whole, Values
<1> QED BY <1>4, <1>7, <1>9, <1>11, <1>12 DEF Whole, q, r

\* A whole map is sound.
LEMMA WholeIsSound ==
  ASSUME MapData, NEW m, Whole(m), NEW freed, Values(m) \cap freed = {}
  PROVE  MapSound(m, freed)
<1>1. /\ Items(m) \subseteq ToSet(m.keyset.data) /\ (m.torn \/ Items(m) = ToSet(m.keyset.data))
      /\ m.usecount = Cardinality(UsedOf(m)) /\ IsMap(m)
  BY DEF Whole, IsMap, Entries
<1>2. ASSUME NEW b \in 0 .. m.bucketsize - 1, NEW x \in ToSet(Bucket(m, b).data)
      PROVE  b = x.hash % m.bucketsize /\ MapGet(m, x.key) = x.value
  <2>1. x \in Items(m)
    BY <1>1, MapFacts
  <2>2. Fits(m, b, x)
    BY <1>1 DEF IsMap
  <2> QED BY <1>1, <2>1, <2>2, MapGetFacts DEF Fits
<1>3. m.size = Size(m.keyset)
  BY WholeFacts DEF Size
<1>4. {x.value : x \in ToSet(m.keyset.data)} \cap freed = {}
  BY DEF Values, Entries
<1> QED BY <1>1, <1>2, <1>3, <1>4 DEF MapSound, UsedOf

PutNext(acc, x, mem) ==
  LET p == MapPut(acc.m, x.key, x.value, mem)
  IN  [m |-> p.m, freed |-> IF acc.m.freecb /\ p.prev # NULL THEN acc.freed \cup {p.prev} ELSE acc.freed]

\* PutAll puts one item after another.
LEMMA PutAllSteps ==
  ASSUME NEW m, NEW src, NEW mem, Size(src.keyset) \in Nat
  PROVE  \E up : /\ MapPutAll(m, src, mem) = up[Size(src.keyset)]
                 /\ up[0] = [m |-> m, freed |-> {}]
                 /\ \A i \in 1 .. Size(src.keyset) :
                      up[i] = PutNext(up[i - 1], src.keyset.data[i], mem[i])
<1> DEFINE none == [m |-> m, freed |-> {}]
           on(acc, i) == PutNext(acc, src.keyset.data[i], mem[i])
           N == Size(src.keyset)
           Made(g, j) == g = [i \in 0 .. j |-> IF i = 0 THEN none ELSE on(g[i - 1], i)]
           T == {j \in Nat : \E g : Made(g, j)}
           made == CHOOSE g : Made(g, N)
<1>1. MapPutAll(m, src, mem) = made[N]
  BY DEF MapPutAll, PutNext
<1>2. N \in Nat
  OBVIOUS
<1> HIDE DEF N, on, none
<1>3. 0 \in T
  <2> DEFINE g == [i \in 0 .. 0 |-> none]
  <2>1. Made(g, 0)
    OBVIOUS
  <2> HIDE DEF Made, g
  <2> QED BY <2>1
<1>4. ASSUME NEW j \in Nat, j \in T PROVE j + 1 \in T
  <2>1. PICK g : Made(g, j)
    BY <1>4
  <2>2. \A i \in 0 .. j : g[i] = IF i = 0 THEN none ELSE on(g[i - 1], i)
    BY <2>1
  <2> DEFINE h == [i \in 0 .. j + 1 |-> IF i = j + 1 THEN on(g[j], i) ELSE g[i]]
  <2>3. \A i \in 0 .. j : h[i] = g[i]
    OBVIOUS
  <2>4. h[j + 1] = on(g[j], j + 1)
    OBVIOUS
  <2>5. h = [i \in 0 .. j + 1 |-> h[i]]
    OBVIOUS
  <2> HIDE DEF h
  <2>6. \A i \in 0 .. j + 1 : h[i] = IF i = 0 THEN none ELSE on(h[i - 1], i)
    <3> SUFFICES ASSUME NEW i \in 0 .. j + 1
                 PROVE  h[i] = IF i = 0 THEN none ELSE on(h[i - 1], i)
      OBVIOUS
    <3>1. CASE i = j + 1
      <4>1. h[j + 1 - 1] = g[j] /\ i # 0
        BY <2>3, <3>1
      <4> QED BY <2>4, <3>1, <4>1
    <3>2. CASE i # j + 1
      <4>1. i \in 0 .. j
        BY <3>2
      <4>2. i # 0 => i - 1 \in 0 .. j
        BY <4>1
      <4> QED BY <2>2, <2>3, <4>1, <4>2
    <3> QED BY <3>1, <3>2
  <2>7. Made(h, j + 1)
    BY <2>5, <2>6
  <2> HIDE DEF Made
  <2> QED BY <2>7
<1>5. N \in T
  <2> HIDE DEF T
  <2> QED BY <1>2, <1>3, <1>4, SetInduction
<1>6. Made(made, N)
  <2> HIDE DEF Made
  <2> QED BY <1>5
<1>7. \A i \in 0 .. N : made[i] = IF i = 0 THEN none ELSE on(made[i - 1], i)
  <2> HIDE DEF made
  <2> QED BY <1>6
<1> HIDE DEF made
<1>8. made[0] = none /\ \A i \in 1 .. N : made[i] = on(made[i - 1], i)
  BY <1>2, <1>7
<1> QED BY <1>1, <1>8 DEF N, on, none

\* PutAll of a map of other values: the map stays whole, and what was freed has
\* left it.
LEMMA PutAllKeeps ==
  ASSUME MapData, NEW m, Whole(m), NEW src, Whole(src),
         NEW mem, \A i \in 1 .. Len(src.keyset.data) : mem[i] \in Memory,
         \A x \in Entries(src) : x.key \in Key /\ x.value \notin Values(m)
  PROVE  LET r == MapPutAll(m, src, mem)
         IN /\ Whole(r.m) /\ Values(r.m) \subseteq Values(m) \cup Values(src)
            /\ r.freed \cap Values(r.m) = {} /\ (m.torn => r.m.torn)
<1> DEFINE items == src.keyset.data
           N == Len(items)
           V(k) == {items[i].value : i \in 1 .. k}
           After(acc, k) ==
             /\ Whole(acc.m) /\ Values(acc.m) \subseteq Values(m) \cup V(k)
             /\ acc.freed \subseteq Values(m) \cup V(k)
             /\ acc.freed \cap Values(acc.m) = {} /\ (m.torn => acc.m.torn)
<1>1. items \in Seq(MapItem) /\ IsInjective(items) /\ Entries(src) = ToSet(items)
  BY WholeFacts, SortedFacts, DataFacts DEF Entries
<1>0. \A i \in 1 .. N : mem[i] \in Memory
  OBVIOUS
<1> HIDE DEF items
<1>2. /\ N \in Nat /\ DOMAIN items = 1 .. N
      /\ \A i \in 1 .. N : items[i] \in MapItem /\ items[i] \in Entries(src)
  BY <1>1, Elements
<1>3. \A i \in 1 .. N : /\ items[i].key \in Key /\ items[i].value \notin Values(m)
                        /\ items[i].value \in Value /\ items[i].value \in Values(src)
  BY <1>2, DataFacts DEF Values
<1>4. \A i, j \in 1 .. N : items[i].value = items[j].value => i = j
  BY <1>1, <1>2 DEF Whole, IsInjective
<1>5. PICK up : /\ MapPutAll(m, src, mem) = up[N]
                /\ up[0] = [m |-> m, freed |-> {}]
                /\ \A i \in 1 .. N : up[i] = PutNext(up[i - 1], items[i], mem[i])
  BY <1>2, PutAllSteps DEF Size, items
<1> DEFINE T == {k \in Nat : k <= N => After(up[k], k)}
<1>6. 0 \in T
  BY <1>5
<1>7. ASSUME NEW k \in Nat, k \in T PROVE k + 1 \in T
  <2> SUFFICES ASSUME k + 1 <= N PROVE After(up[k + 1], k + 1)
    OBVIOUS
  <2> DEFINE x == items[k + 1]
             acc == up[k]
             one == mem[k + 1]
             p == MapPut(acc.m, x.key, x.value, one)
             f == IF acc.m.freecb /\ p.prev # NULL THEN acc.freed \cup {p.prev} ELSE acc.freed
  <2>1. k + 1 \in 1 .. N /\ k <= N /\ k + 1 - 1 = k
    BY <1>2
  <2>2. After(acc, k)
    BY <1>7, <2>1
  <2>3. up[k + 1] = [m |-> p.m, freed |-> f]
    <3>1. up[k + 1] = PutNext(up[k + 1 - 1], items[k + 1], mem[k + 1])
      BY <1>5, <2>1
    <3>2. up[k + 1] = PutNext(acc, x, one)
      BY <2>1, <3>1
    <3> HIDE DEF acc, x, one
    <3> QED BY <3>2 DEF PutNext
  <2>4. V(k + 1) = V(k) \cup {x.value} /\ x.value \notin V(k)
    <3>1. \A i : i \in 1 .. k + 1 <=> i \in 1 .. k \/ i = k + 1
      OBVIOUS
    <3>2. \A i \in 1 .. k : i \in 1 .. N /\ i # k + 1
      BY <1>2, <2>1
    <3> QED BY <1>4, <2>1, <3>1, <3>2
  <2>5. x.key \in Key /\ x.value \in Value /\ x.value \notin Values(m) /\ one \in Memory
    BY <1>0, <1>3, <2>1
  <2> HIDE DEF V, x, acc, one
  <2>6. x.value \notin Values(acc.m) /\ x.value \notin acc.freed
    BY <2>2, <2>4, <2>5
  <2>7. PutOutcome(p, acc.m, MapToUpper(acc.m, x.key), x.value, Ample(one))
    <3>1. Foldable(acc.m, x.key)
      BY <2>5, KeysFold
    <3> QED BY <2>2, <2>5, <2>6, <3>1, MapPutKeeps
  <2> HIDE DEF p
  <2>8. Values(p.m) \subseteq Values(acc.m) \cup {x.value}
    BY <2>7 DEF PutOutcome, Values
  <2>9. f \subseteq Values(m) \cup V(k) /\ f \cap Values(p.m) = {}
    BY <2>2, <2>6, <2>7, <2>8 DEF PutOutcome
  <2> HIDE DEF f
  <2>10. Whole(p.m) /\ Values(p.m) \subseteq Values(m) \cup V(k + 1) /\ (m.torn => p.m.torn)
    BY <2>2, <2>4, <2>7, <2>8 DEF PutOutcome
  <2>11. up[k + 1].m = p.m /\ up[k + 1].freed = f
    BY <2>3
  <2> QED BY <2>4, <2>9, <2>10, <2>11
<1>8. N \in T
  <2> HIDE DEF T, N
  <2> QED BY <1>2, <1>6, <1>7, SetInduction
<1>9. After(up[N], N)
  <2> HIDE DEF After
  <2> QED BY <1>2, <1>8
<1>10. V(N) \subseteq Values(src)
  BY <1>3
<1> HIDE DEF V
<1> QED BY <1>5, <1>9, <1>10

------------------------------------------------------------------------------
(* Maps as the ordered maps of OrderedMap *)

\* A sequence that rises is determined by its elements.
LEMMA RisingSame ==
  ASSUME NEW S, NEW k \in [S -> Int], NEW s \in Seq(S), NEW t \in Seq(S),
         Rising(s, k), Rising(t, k), ToSet(s) = ToSet(t)
  PROVE  s = t
<1>1. /\ Len(s) \in Nat /\ DOMAIN s = 1 .. Len(s) /\ s = [i \in 1 .. Len(s) |-> s[i]]
      /\ \A i \in 1 .. Len(s) : s[i] \in S /\ s[i] \in ToSet(s)
      /\ \A x \in ToSet(s) : x \in S /\ \E i \in 1 .. Len(s) : x = s[i]
  BY Elements
<1>2. /\ Len(t) \in Nat /\ DOMAIN t = 1 .. Len(t) /\ t = [i \in 1 .. Len(t) |-> t[i]]
      /\ \A i \in 1 .. Len(t) : t[i] \in S /\ t[i] \in ToSet(t)
      /\ \A x \in ToSet(t) : x \in S /\ \E i \in 1 .. Len(t) : x = t[i]
  BY Elements
<1>3. /\ IsInjective(s) /\ \A i, j \in 1 .. Len(s) : k[s[i]] = k[s[j]] => i = j
      /\ IsInjective(t) /\ \A i, j \in 1 .. Len(t) : k[t[i]] = k[t[j]] => i = j
  <2>1. IsInjective(s) /\ \A i, j \in 1 .. Len(s) : k[s[i]] = k[s[j]] => i = j
    BY RisingDistinct
  <2>2. IsInjective(t) /\ \A i, j \in 1 .. Len(t) : k[t[i]] = k[t[j]] => i = j
    BY RisingDistinct, SMTT(60)
  <2> QED BY <2>1, <2>2
<1>4. Len(s) = Len(t)
  <2>1. Cardinality(ToSet(s)) = Len(s) /\ Cardinality(ToSet(t)) = Len(t)
    BY <1>3, InjectiveCount
  <2> QED BY <2>1
<1> DEFINE T == {n \in Nat : \A j \in 1 .. n : j <= Len(s) => s[j] = t[j]}
<1>5. 0 \in T
  OBVIOUS
<1>6. ASSUME NEW n \in Nat, n \in T PROVE n + 1 \in T
  <2> DEFINE m == n + 1
  <2> SUFFICES ASSUME m <= Len(s) PROVE s[m] = t[m]
    BY <1>6
  <2>1. \A j \in 1 .. n : s[j] = t[j] /\ j \in 1 .. Len(s) /\ j # m
    BY <1>6
  <2>2. m \in 1 .. Len(s) /\ m \in 1 .. Len(t) /\ n < m
    BY <1>4
  <2>3. \A j \in 1 .. Len(s) : j <= n => j \in 1 .. n
    OBVIOUS
  <2>4. \A j \in 1 .. Len(s) : ~(j <= n) => j = m \/ m < j
    OBVIOUS
  <2> HIDE DEF m
  <2>5. PICK a \in 1 .. Len(t) : s[m] = t[a]
    BY <1>1, <1>2, <2>2
  <2>6. PICK b \in 1 .. Len(s) : t[m] = s[b]
    BY <1>1, <1>2, <2>2
  <2>7. ~(a <= n)
    BY <1>3, <1>4, <2>1, <2>2, <2>3, <2>5
  <2>8. ~(b <= n)
    BY <1>3, <1>4, <2>1, <2>2, <2>3, <2>6
  <2>9. a = m \/ k[t[m]] < k[s[m]]
    BY <1>4, <2>2, <2>4, <2>5, <2>7 DEF Rising
  <2>10. b = m \/ k[s[m]] < k[t[m]]
    BY <2>2, <2>4, <2>6, <2>8 DEF Rising
  <2>11. k[s[m]] \in Int /\ k[t[m]] \in Int
    BY <1>1, <1>2, <2>2
  <2>12. a = m \/ b = m
    BY <2>9, <2>10, <2>11
  <2> QED BY <2>5, <2>6, <2>12
<1>7. Len(s) \in T
  <2> HIDE DEF T
  <2> QED BY <1>1, <1>5, <1>6, SetInduction
<1>8. \A j \in 1 .. Len(s) : s[j] = t[j]
  BY <1>1, <1>7
<1> QED BY <1>1, <1>2, <1>4, <1>8

\* e is greater than every element of s.
Above(e, s, k) == \A x \in ToSet(s) : k[x] < k[e]

\* What the sequence with e put last keeps of s.
PutLast(t, s, e, S, k) ==
  t \in Seq(S) /\ Rising(t, k) /\ ToSet(t) = ToSet(s) \cup {e}

\* A greatest element put last.
LEMMA AppendedInOrder ==
  ASSUME NEW S, NEW k \in [S -> Int], NEW s \in Seq(S), Rising(s, k), NEW e \in S,
         Above(e, s, k)
  PROVE  PutLast(Append(s, e), s, e, S, k)
<1> DEFINE t == Append(s, e)
<1>1. /\ t \in Seq(S) /\ Len(t) = Len(s) + 1 /\ t[Len(s) + 1] = e
      /\ \A i \in 1 .. Len(s) : t[i] = s[i]
  BY AppendProperties
<1> HIDE DEF t
<1>2. /\ Len(s) \in Nat
      /\ \A i \in 1 .. Len(s) : s[i] \in S /\ s[i] \in ToSet(s)
      /\ \A x \in ToSet(s) : x \in S /\ \E i \in 1 .. Len(s) : x = s[i]
  BY Elements
<1>3. /\ \A i \in 1 .. Len(t) : t[i] \in S /\ t[i] \in ToSet(t)
      /\ \A x \in ToSet(t) : x \in S /\ \E i \in 1 .. Len(t) : x = t[i]
  BY <1>1, Elements
<1>4. \A i \in 1 .. Len(t) : i \in 1 .. Len(s) \/ i = Len(s) + 1
  BY <1>1, <1>2
<1>5. \A i \in 1 .. Len(s) : i \in 1 .. Len(t) /\ i < Len(s) + 1
  BY <1>1, <1>2
<1>6. Len(s) + 1 \in 1 .. Len(t)
  BY <1>1, <1>2
<1>7. ToSet(t) = ToSet(s) \cup {e}
  <2>1. ASSUME NEW x \in ToSet(t) PROVE x \in ToSet(s) \cup {e}
    <3>1. PICK i \in 1 .. Len(t) : x = t[i]
      BY <1>3
    <3> QED BY <1>1, <1>2, <1>4, <3>1
  <2>2. ASSUME NEW x \in ToSet(s) PROVE x \in ToSet(t)
    <3>1. PICK i \in 1 .. Len(s) : x = s[i]
      BY <1>2
    <3> QED BY <1>1, <1>3, <1>5, <3>1
  <2>3. e \in ToSet(t)
    BY <1>1, <1>3, <1>6
  <2> QED BY <2>1, <2>2, <2>3
<1>8. Rising(t, k)
  <2> SUFFICES ASSUME NEW i \in 1 .. Len(t), NEW j \in 1 .. Len(t), i < j
               PROVE  k[t[i]] < k[t[j]]
    BY DEF Rising
  <2>1. i \in 1 .. Len(s)
    BY <1>1, <1>2
  <2>2. CASE j \in 1 .. Len(s)
    BY <1>1, <2>1, <2>2 DEF Rising
  <2>3. CASE j = Len(s) + 1
    BY <1>1, <1>2, <2>1, <2>3 DEF Above
  <2> QED BY <1>4, <2>2, <2>3
<1> QED BY <1>1, <1>7, <1>8 DEF PutLast, t

\* The pairs that GetPairs shows of a sequence of items.
Shown(s) == [i \in 1 .. Len(s) |-> <<s[i].key, s[i].value>>]

\* What is shown is one pair for an item.
LEMMA ShownFacts ==
  ASSUME MapData, NEW s \in Seq(MapItem)
  PROVE  /\ Shown(s) \in Seq(MapKeys \X Value) /\ Len(Shown(s)) = Len(s)
         /\ \A i \in 1 .. Len(s) : /\ Shown(s)[i] = <<s[i].key, s[i].value>>
                                   /\ Shown(s)[i][1] = s[i].key
<1>1. Len(s) \in Nat /\ \A i \in 1 .. Len(s) : s[i] \in MapItem
  BY Elements
<1>2. \A i \in 1 .. Len(s) : <<s[i].key, s[i].value>> \in MapKeys \X Value
  BY <1>1, DataFacts
<1> QED BY <1>1, <1>2 DEF Shown

\* An item put last is a pair put last.
LEMMA ShownAppend ==
  ASSUME MapData, NEW s \in Seq(MapItem), NEW x \in MapItem
  PROVE  Shown(Append(s, x)) = Append(Shown(s), <<x.key, x.value>>)
<1> DEFINE t == Append(s, x)
           p == <<x.key, x.value>>
           u == Append(Shown(s), p)
<1>1. Len(s) \in Nat
  BY Elements
<1>2. /\ t \in Seq(MapItem) /\ Len(t) = Len(s) + 1 /\ t[Len(s) + 1] = x
      /\ \A i \in 1 .. Len(s) : t[i] = s[i]
  BY AppendProperties
<1> HIDE DEF t
<1>3. p \in MapKeys \X Value
  BY DataFacts
<1>4. /\ Shown(s) \in Seq(MapKeys \X Value) /\ Len(Shown(s)) = Len(s)
      /\ \A i \in 1 .. Len(s) : Shown(s)[i] = <<s[i].key, s[i].value>>
  BY ShownFacts
<1>5. /\ Shown(t) \in Seq(MapKeys \X Value) /\ Len(Shown(t)) = Len(t)
      /\ \A i \in 1 .. Len(t) : Shown(t)[i] = <<t[i].key, t[i].value>>
  BY <1>2, ShownFacts
<1> HIDE DEF p
<1>6. /\ u \in Seq(MapKeys \X Value) /\ Len(u) = Len(s) + 1 /\ u[Len(s) + 1] = p
      /\ \A i \in 1 .. Len(s) : u[i] = Shown(s)[i]
  BY <1>3, <1>4, AppendProperties
<1> HIDE DEF u
<1>7. \A i \in 1 .. Len(s) + 1 : i \in 1 .. Len(s) \/ i = Len(s) + 1
  BY <1>1
<1>8. \A i \in 1 .. Len(t) : u[i] = Shown(t)[i]
  BY <1>2, <1>4, <1>5, <1>6, <1>7 DEF p
<1>9. u = Shown(t)
  <2>1. u = [i \in 1 .. Len(u) |-> u[i]] /\ Shown(t) = [i \in 1 .. Len(Shown(t)) |-> Shown(t)[i]]
    BY <1>5, <1>6
  <2> QED BY <1>2, <1>5, <1>6, <1>8, <2>1
<1> QED BY <1>9 DEF t, u, p

\* An item taken out is the pair of its key taken out.
LEMMA ShownWithout ==
  ASSUME MapData, NEW s \in Seq(MapItem), NEW i \in 1 .. Len(s),
         \A j \in 1 .. Len(s) : s[j].key = s[i].key => j = i
  PROVE  Shown(RemoveAt(s, i)) = OM!Without(Shown(s), s[i].key)
<1> DEFINE t == RemoveAt(s, i)
           p == Shown(s)
           u == RemoveAt(p, i)
           key == s[i].key
<1>1. Len(s) \in Nat
  BY Elements
<1>2. /\ t \in Seq(MapItem) /\ Len(t) = Len(s) - 1
      /\ \A j \in 1 .. i - 1 : t[j] = s[j]
      /\ \A j \in i .. Len(s) - 1 : t[j] = s[j + 1]
  BY Removed
<1> HIDE DEF t
<1>3. /\ p \in Seq(MapKeys \X Value) /\ Len(p) = Len(s)
      /\ \A j \in 1 .. Len(s) : p[j] = <<s[j].key, s[j].value>> /\ p[j][1] = s[j].key
  BY ShownFacts
<1>4. /\ Shown(t) \in Seq(MapKeys \X Value) /\ Len(Shown(t)) = Len(t)
      /\ \A j \in 1 .. Len(t) : Shown(t)[j] = <<t[j].key, t[j].value>>
  BY <1>2, ShownFacts
<1> HIDE DEF p
<1>5. /\ u \in Seq(MapKeys \X Value) /\ Len(u) = Len(s) - 1
      /\ \A j \in 1 .. i - 1 : u[j] = p[j]
      /\ \A j \in i .. Len(s) - 1 : u[j] = p[j + 1]
  <2>1. i \in 1 .. Len(p)
    BY <1>3
  <2> QED BY <1>3, <2>1, Removed
<1>6. OM!Has(p, key) /\ OM!Place(p, key) = i
  <2>1. i \in 1 .. Len(p) /\ p[i][1] = key
    BY <1>3
  <2>2. \A j \in 1 .. Len(p) : p[j][1] = key => j = i
    BY <1>3
  <2>3. OM!Place(p, key) \in 1 .. Len(p) /\ p[OM!Place(p, key)][1] = key
    BY <2>1 DEF OM!Place
  <2> QED BY <2>1, <2>2, <2>3 DEF OM!Has
<1>7. OM!Without(p, key) = u
  BY <1>6 DEF OM!Without, RemoveAt
<1> HIDE DEF u, key
<1>8. \A j \in 1 .. Len(t) : u[j] = Shown(t)[j]
  <2> SUFFICES ASSUME NEW j \in 1 .. Len(t) PROVE u[j] = Shown(t)[j]
    OBVIOUS
  <2>1. CASE j \in 1 .. i - 1
    <3>1. j \in 1 .. Len(s)
      BY <1>1, <2>1
    <3>2. u[j] = p[j] /\ t[j] = s[j]
      BY <1>2, <1>5, <2>1
    <3>3. p[j] = <<s[j].key, s[j].value>>
      BY <1>3, <3>1
    <3>4. Shown(t)[j] = <<t[j].key, t[j].value>>
      BY <1>4
    <3> QED BY <3>2, <3>3, <3>4
  <2>2. CASE j \in i .. Len(s) - 1
    <3>1. j + 1 \in 1 .. Len(s)
      BY <1>1, <2>2
    <3>2. u[j] = p[j + 1] /\ t[j] = s[j + 1]
      BY <1>2, <1>5, <2>2
    <3>3. p[j + 1] = <<s[j + 1].key, s[j + 1].value>>
      BY <1>3, <3>1
    <3>4. Shown(t)[j] = <<t[j].key, t[j].value>>
      BY <1>4
    <3> QED BY <3>2, <3>3, <3>4
  <2> QED BY <1>1, <1>2, <2>1, <2>2
<1>9. u = Shown(t)
  <2>1. u = [j \in 1 .. Len(u) |-> u[j]] /\ Shown(t) = [j \in 1 .. Len(Shown(t)) |-> Shown(t)[j]]
    BY <1>4, <1>5
  <2> QED BY <1>2, <1>4, <1>5, <1>8, <2>1
<1> QED BY <1>7, <1>9 DEF t, p, key

\* The map without the pair of k, and with the pair put last.
EnteredIn(s, k, v) == Append(OM!Without(s, k), <<k, v>>)

\* The view of keyset has those pairs.
LEMMA MapShown ==
  ASSUME NEW m
  PROVE  MapGetPairs(m) = Shown(m.keyset.data)
BY DEF MapGetPairs, MapPairGetKey, MapPairGetValue, Shown, Size

\* What a map that is not torn says of its items.
LEMMA UntornFacts ==
  ASSUME MapData, NEW m, Whole(m), ~m.torn
  PROVE  /\ m.keyset.data \in Seq(MapItem) /\ Rising(m.keyset.data, OrderIn)
         /\ IsInjective(m.keyset.data) /\ Items(m) = ToSet(m.keyset.data) /\ IsMap(m)
         /\ OrderIn \in [MapItem -> Int]
BY WholeFacts, SortedFacts, DataFacts DEF Whole, Entries

\* keyset without the item of key k shows what the ordered map is without k.
LEMMA OthersShown ==
  ASSUME MapData, NEW m, Whole(m), ~m.torn, NEW k \in MapKeys
  PROVE  \E u \in Seq(MapItem) : /\ Rising(u, OrderIn) /\ ToSet(u) = Others(m, k)
                                 /\ Shown(u) = OM!Without(Shown(m.keyset.data), k)
<1> DEFINE s == m.keyset.data
<1>1. /\ s \in Seq(MapItem) /\ Rising(s, OrderIn) /\ IsInjective(s) /\ Items(m) = ToSet(s)
      /\ OrderIn \in [MapItem -> Int]
  BY UntornFacts
<1>2. IsMap(m)
  BY UntornFacts
<1> HIDE DEF s
<1>3. \A i \in 1 .. Len(s) : s[i] \in Items(m)
  BY <1>1, Elements
<1>4. \A x \in Items(m) : \E i \in 1 .. Len(s) : x = s[i]
  BY <1>1, Elements
<1>5. CASE \A x \in Items(m) : x.key # k
  <2>1. Others(m, k) = ToSet(s)
    BY <1>1, <1>5 DEF Others
  <2>2. ~OM!Has(Shown(s), k)
    <3>1. \A i \in 1 .. Len(s) : Shown(s)[i][1] # k
      BY <1>1, <1>3, <1>5, ShownFacts
    <3> QED BY <1>1, <3>1, ShownFacts DEF OM!Has
  <2>3. OM!Without(Shown(s), k) = Shown(s)
    BY <2>2 DEF OM!Without
  <2> QED BY <1>1, <2>1, <2>3 DEF s
<1>6. CASE \E x \in Items(m) : x.key = k
  <2>1. PICK i \in 1 .. Len(s) : s[i].key = k
    BY <1>4, <1>6
  <2>2. \A x \in Items(m) : x.key = k => x = s[i]
    BY <1>2, <1>3, <2>1, MapFacts
  <2>3. \A j \in 1 .. Len(s) : s[j].key = s[i].key => j = i
    <3>1. DOMAIN s = 1 .. Len(s)
      BY <1>1, Elements
    <3> QED BY <1>1, <1>3, <2>1, <2>2, <3>1 DEF IsInjective
  <2> DEFINE u == RemoveAt(s, i)
  <2>4. Without(u, s, i, MapItem, OrderIn)
    BY <1>1, RemovedInOrder
  <2>5. Shown(u) = OM!Without(Shown(s), k)
    BY <1>1, <2>1, <2>3, ShownWithout
  <2> HIDE DEF u
  <2>6. u \in Seq(MapItem) /\ Rising(u, OrderIn) /\ ToSet(u) = ToSet(s) \ {s[i]}
    BY <1>1, <2>4 DEF Without
  <2>7. ToSet(u) = Others(m, k)
    BY <1>1, <2>1, <2>2, <2>6 DEF Others
  <2> QED BY <2>5, <2>6, <2>7 DEF s
<1> QED BY <1>5, <1>6

\* A map of which only the item of key k was taken out.
LEMMA RemovalShown ==
  ASSUME MapData, NEW m, Whole(m), NEW n, Whole(n), ~m.torn, ~n.torn, NEW k \in MapKeys,
         Items(n) = Others(m, k)
  PROVE  Shown(n.keyset.data) = OM!Without(Shown(m.keyset.data), k)
<1> DEFINE t == n.keyset.data
<1>1. /\ t \in Seq(MapItem) /\ Rising(t, OrderIn) /\ Items(n) = ToSet(t)
      /\ OrderIn \in [MapItem -> Int]
  BY UntornFacts
<1> HIDE DEF t
<1>2. PICK u \in Seq(MapItem) : /\ Rising(u, OrderIn) /\ ToSet(u) = Others(m, k)
                                /\ Shown(u) = OM!Without(Shown(m.keyset.data), k)
  BY OthersShown
<1>3. t = u
  BY <1>1, <1>2, RisingSame
<1> QED BY <1>2, <1>3 DEF t

\* A map into which x was put.
LEMMA PutShown ==
  ASSUME MapData, NEW m, Whole(m), NEW n, Whole(n), ~m.torn, ~n.torn, NEW k \in MapKeys,
         NEW x \in MapItem, x.key = k, \A y \in Items(m) : y.order < x.order,
         Items(n) = Others(m, k) \cup {x}
  PROVE  Shown(n.keyset.data) = EnteredIn(Shown(m.keyset.data), k, x.value)
<1> DEFINE t == n.keyset.data
<1>1. /\ t \in Seq(MapItem) /\ Rising(t, OrderIn) /\ Items(n) = ToSet(t)
      /\ OrderIn \in [MapItem -> Int]
  BY UntornFacts
<1> HIDE DEF t
<1>2. PICK u \in Seq(MapItem) : /\ Rising(u, OrderIn) /\ ToSet(u) = Others(m, k)
                                /\ Shown(u) = OM!Without(Shown(m.keyset.data), k)
  BY OthersShown
<1>3. Above(x, u, OrderIn)
  <2> SUFFICES ASSUME NEW y \in ToSet(u) PROVE OrderIn[y] < OrderIn[x]
    BY DEF Above
  <2>1. y \in MapItem /\ y \in Items(m)
    BY <1>2, Elements DEF Others
  <2> QED BY <2>1, DataFacts
<1> DEFINE v == Append(u, x)
<1>4. PutLast(v, u, x, MapItem, OrderIn)
  BY <1>1, <1>2, <1>3, AppendedInOrder
<1> HIDE DEF v
<1>5. v \in Seq(MapItem) /\ Rising(v, OrderIn) /\ ToSet(v) = ToSet(u) \cup {x}
  BY <1>4 DEF PutLast
<1>6. t = v
  BY <1>1, <1>2, <1>5, RisingSame
<1>7. Shown(Append(u, x)) = Append(Shown(u), <<k, x.value>>)
  BY ShownAppend
<1> QED BY <1>2, <1>6, <1>7 DEF t, v, EnteredIn

\* Two maps of the same items.
LEMMA SameShown ==
  ASSUME MapData, NEW m, Whole(m), NEW n, Whole(n), ~m.torn, ~n.torn, Items(n) = Items(m)
  PROVE  n.keyset.data = m.keyset.data
<1> DEFINE s == m.keyset.data
           t == n.keyset.data
<1>1. /\ s \in Seq(MapItem) /\ Rising(s, OrderIn) /\ Items(m) = ToSet(s)
      /\ OrderIn \in [MapItem -> Int]
  BY UntornFacts
<1>2. /\ t \in Seq(MapItem) /\ Rising(t, OrderIn) /\ Items(n) = ToSet(t)
  BY UntornFacts
<1> HIDE DEF s, t
<1>3. s = t
  BY <1>1, <1>2, RisingSame
<1> QED BY <1>3 DEF s, t

\* What Put does to the pairs, when it has the memory and when it has not.
LEMMA PutImplements ==
  ASSUME MapData, NEW m, Whole(m), NEW k \in MapKeys, NEW v, NEW ok \in BOOLEAN,
         NEW r, PutOutcome(r, m, k, v, ok), ~r.m.torn
  PROVE  LET s == Shown(m.keyset.data)
             t == Shown(r.m.keyset.data)
         IN  \/ t = EnteredIn(s, k, v)
             \/ ~ok /\ (t = s \/ t = OM!Without(s, k))
<1> DEFINE n == r.m
<1>1. Whole(n) /\ ItemsPut(n, m, k, v, ok) /\ ~m.torn /\ ~n.torn
  BY DEF PutOutcome
<1> HIDE DEF n
<1>2. CASE Items(n) = Items(m) /\ ~ok
  <2>1. n.keyset.data = m.keyset.data
    BY <1>1, <1>2, SameShown
  <2> QED BY <1>2, <2>1 DEF n
<1>3. CASE Items(n) = Others(m, k) /\ ~ok
  <2>1. Shown(n.keyset.data) = OM!Without(Shown(m.keyset.data), k)
    BY <1>1, <1>3, RemovalShown
  <2> QED BY <1>3, <2>1 DEF n
<1>4. ASSUME NEW x \in MapItem, x.key = k, x.value = v, \A y \in Items(m) : y.order < x.order,
             Items(n) = Others(m, k) \cup {x}
      PROVE  Shown(n.keyset.data) = EnteredIn(Shown(m.keyset.data), k, v)
  BY <1>1, <1>4, PutShown
<1> QED BY <1>1, <1>2, <1>3, <1>4 DEF ItemsPut, n

\* A Put is one of the attempts of the ordered map.
LEMMA PutAttempts ==
  ASSUME MapData, NEW m, Whole(m), NEW k \in MapKeys, NEW v \in Value, NEW ok \in BOOLEAN,
         NEW r, PutOutcome(r, m, k, v, ok), ~r.m.torn
  PROVE  /\ ~m.torn
         /\ Shown(r.m.keyset.data) \in OM!Attempts(Shown(m.keyset.data), k)
<1> DEFINE s == Shown(m.keyset.data)
           t == Shown(r.m.keyset.data)
<1>1. t = EnteredIn(s, k, v) \/ t = s \/ t = OM!Without(s, k)
  BY PutImplements
<1>2. ~m.torn
  BY DEF PutOutcome
<1> HIDE DEF s, t
<1> DEFINE rest == OM!Without(s, k)
<1>3. t = Append(rest, <<k, v>>) \/ t = s \/ t = rest
  BY <1>1 DEF EnteredIn
<1>4. OM!Attempts(s, k) = {s, rest} \cup {Append(rest, <<k, value>>) : value \in Value}
  BY DEF OM!Attempts
<1> HIDE DEF rest
<1>5. t \in OM!Attempts(s, k)
  BY <1>3, <1>4
<1> QED BY <1>2, <1>5 DEF s, t

\* Remove, whether the key is there or not.
LEMMA RemoveImplements ==
  ASSUME MapData, NEW m, Whole(m), ~m.torn, NEW key, MapToUpper(m, key) \in MapKeys
  PROVE  Shown(MapRemove(m, key).m.keyset.data)
           = OM!Without(Shown(m.keyset.data), MapToUpper(m, key))
<1> DEFINE r == MapRemove(m, key)
           k == MapToUpper(m, key)
           n == r.m
<1>1. Removal(r, m, key) /\ Whole(n) /\ IsMap(m) /\ n.torn = m.torn
  BY MapRemoveFacts, MapRemoveKeeps DEF Whole
<1> HIDE DEF r
<1>2. Items(n) = Others(m, k)
  <2>1. CASE (\A x \in Items(m) : x.key # k) /\ r.m = m
    BY <2>1 DEF Others
  <2>2. ASSUME NEW x \in Items(m), x.key = k, Items(n) = Items(m) \ {x}
        PROVE  Items(n) = Others(m, k)
    BY <1>1, <2>2, MapFacts DEF Others
  <2> QED BY <1>1, <2>1, <2>2 DEF Removal
<1> HIDE DEF k, n
<1>3. k \in MapKeys
  BY DEF k
<1>4. Shown(n.keyset.data) = OM!Without(Shown(m.keyset.data), k)
  BY <1>1, <1>2, <1>3, RemovalShown
<1> QED BY <1>4 DEF r, k, n

\* A map without items shows nothing.
LEMMA EmptyShown ==
  ASSUME MapData, NEW m, Whole(m), Entries(m) = {}
  PROVE  Shown(m.keyset.data) = << >>
<1>1. m.size = Len(m.keyset.data) /\ m.size = Cardinality(Entries(m))
  BY WholeFacts DEF Whole
<1>2. Len(m.keyset.data) = 0
  BY <1>1, FS_EmptySet
<1> QED BY <1>2 DEF Shown

\* A second element put behind a first.
LEMMA TwoAppended ==
  ASSUME NEW S, NEW a \in S, NEW b \in S, NEW s \in Seq(S), Len(s) = 1, s[1] = a
  PROVE  Append(s, b) = <<a, b>>
<1> DEFINE t == Append(s, b)
           u == <<a, b>>
<1>1. /\ t \in Seq(S) /\ Len(t) = Len(s) + 1 /\ t[Len(s) + 1] = b
      /\ \A i \in 1 .. Len(s) : t[i] = s[i]
  <2>1. t \in Seq(S) /\ Len(t) = Len(s) + 1
    BY AppendProperties, ZenonT(60)
  <2>2. t[Len(s) + 1] = b
    BY AppendProperties, ZenonT(60)
  <2>3. \A i \in 1 .. Len(s) : t[i] = s[i]
    BY AppendProperties
  <2> HIDE DEF t
  <2> QED BY <2>1, <2>2, <2>3
<1> HIDE DEF t
<1>2. u \in Seq(S) /\ Len(u) = 2 /\ u[1] = a /\ u[2] = b
  <2>1. u[1] = a /\ u[2] = b /\ Len(u) = 2
    OBVIOUS
  <2>2. u \in Seq(S)
    BY SMTT(60)
  <2> QED BY <2>1, <2>2
<1> HIDE DEF u
<1>3. Len(t) = 2 /\ t[1] = a /\ t[2] = b
  <2>1. 1 \in 1 .. Len(s) /\ Len(s) + 1 = 2
    OBVIOUS
  <2> QED BY <1>1, <2>1
<1>4. \A i \in 1 .. 2 : t[i] = u[i]
  BY <1>2, <1>3
<1>5. t = [i \in 1 .. 2 |-> t[i]] /\ u = [i \in 1 .. 2 |-> u[i]]
  BY <1>1, <1>2, <1>3
<1> QED BY <1>4, <1>5 DEF t, u

TwoPairs(k1, v1, k2, v2) == << <<k1, v1>>, <<k2, v2>> >>

\* A map of two pairs.
HasTwo(m, k1, v1, k2, v2) ==
  /\ Whole(m) /\ \A x \in Entries(m) : x.key \in Key /\ x.value \in {v1, v2}
  /\ Shown(m.keyset.data) = TwoPairs(k1, v1, k2, v2)

\* The map of two pairs that a client makes for PutAll.
LEMMA SourceMade ==
  ASSUME MapData, NEW k1 \in Key, NEW k2 \in Key, NEW v1 \in Value, NEW v2 \in Value,
         k1 # k2, v1 # v2
  PROVE  LET empty == MapCreateInternal(2, FALSE, FALSE, 2)
             src == MapPut(MapPut(empty, k1, v1, Plenty).m, k2, v2, Plenty).m
         IN  HasTwo(src, k1, v1, k2, v2)
<1> DEFINE empty == MapCreateInternal(2, FALSE, FALSE, 2)
           p == MapPut(empty, k1, v1, Plenty)
           n == p.m
           q == MapPut(n, k2, v2, Plenty)
<1>1. Whole(empty) /\ Entries(empty) = {} /\ empty.ucase = FALSE /\ ~empty.torn
  <2> DEFINE two == 2
             no == FALSE
  <2>1. two \in Nat \ {0} /\ no \in BOOLEAN
    OBVIOUS
  <2>2. empty = MapCreateInternal(two, no, no, two)
    OBVIOUS
  <2> HIDE DEF two, no, empty
  <2>3. Blank(empty, no, no)
    BY <2>1, <2>2, MapMade
  <2> QED BY <2>3 DEF no, Blank
<1>2. Values(empty) = {} /\ Foldable(empty, k1) /\ MapToUpper(empty, k1) = k1
  BY <1>1, KeysFold DEF Values, Entries, MapToUpper
<1>3. Shown(empty.keyset.data) = << >>
  BY <1>1, EmptyShown
<1> HIDE DEF empty
<1>4. k1 \in MapKeys /\ k2 \in MapKeys /\ Plenty \in Memory /\ Ample(Plenty) = TRUE
  BY DEF MapKeys, Plenty, Memory, Ample
<1>5. PutOutcome(p, empty, k1, v1, Ample(Plenty))
  <2>1. PutOutcome(p, empty, MapToUpper(empty, k1), v1, Ample(Plenty))
    BY <1>1, <1>2, <1>4, MapPutKeeps
  <2> QED BY <1>2, <2>1
<1> HIDE DEF p
<1>6. Whole(n) /\ n.ucase = FALSE /\ ~n.torn /\ \A x \in Entries(n) : x.key = k1 /\ x.value = v1
  BY <1>1, <1>4, <1>5 DEF PutOutcome
<1>7. Shown(n.keyset.data) = EnteredIn(<< >>, k1, v1)
  BY <1>1, <1>3, <1>4, <1>5, <1>6, PutImplements
<1> HIDE DEF n
<1>8. v2 \notin Values(n) /\ Foldable(n, k2) /\ MapToUpper(n, k2) = k2
  BY <1>6, KeysFold DEF Values, Entries, MapToUpper
<1>9. PutOutcome(q, n, k2, v2, Ample(Plenty))
  <2>1. PutOutcome(q, n, MapToUpper(n, k2), v2, Ample(Plenty))
    BY <1>4, <1>6, <1>8, MapPutKeeps
  <2> QED BY <1>8, <2>1
<1> HIDE DEF q
<1>10. Whole(q.m) /\ ~q.m.torn /\ \A x \in Entries(q.m) : x.key \in Key /\ x.value \in {v1, v2}
  BY <1>4, <1>6, <1>9 DEF PutOutcome
<1>11. Shown(q.m.keyset.data) = EnteredIn(Shown(n.keyset.data), k2, v2)
  BY <1>4, <1>6, <1>9, <1>10, PutImplements
<1>12. EnteredIn(<< >>, k1, v1) = << <<k1, v1>> >>
  <2>1. ~OM!Has(<< >>, k1)
    BY DEF OM!Has
  <2> QED BY <2>1 DEF EnteredIn, OM!Without
<1>13. EnteredIn(<< <<k1, v1>> >>, k2, v2) = << <<k1, v1>>, <<k2, v2>> >>
  <2> DEFINE a == <<k1, v1>>
             b == <<k2, v2>>
  <2>1. ~OM!Has(<<a>>, k2)
    BY DEF OM!Has
  <2> HIDE DEF a, b
  <2>2. Append(<<a>>, b) = <<a, b>>
    <3> DEFINE S == {a, b}
               t == <<a>>
    <3>1. t \in Seq(S) /\ Len(t) = 1 /\ t[1] = a /\ a \in S /\ b \in S
      OBVIOUS
    <3> HIDE DEF S, t
    <3>2. Append(t, b) = <<a, b>>
      BY <3>1, TwoAppended
    <3> QED BY <3>2 DEF t
  <2>3. EnteredIn(<<a>>, k2, v2) = Append(<<a>>, b)
    BY <2>1 DEF EnteredIn, OM!Without, b
  <2> QED BY <2>2, <2>3 DEF a, b
<1> QED BY <1>7, <1>10, <1>11, <1>12, <1>13 DEF q, n, p, empty, TwoPairs, HasTwo

\* A put for a key of what is among ss is among what a put may leave of them.
LEMMA AfterPutHas ==
  ASSUME NEW ss, NEW s \in ss, NEW k \in MapKeys, NEW t \in OM!Attempts(s, k)
  PROVE  t \in OM!AfterPut(ss)
<1> DEFINE tries(u, key) == OM!Attempts(u, key)
<1>1. OM!AfterPut(ss) = UNION {tries(u, key) : u \in ss, key \in MapKeys}
  BY DEF OM!AfterPut
<1> HIDE DEF tries
<1>2. tries(s, k) \subseteq OM!AfterPut(ss)
  BY <1>1
<1> QED BY <1>2 DEF tries

\* PutAll of a map of two pairs puts the one and then the other, as far as there
\* is memory for each.
LEMMA PutAllImplements ==
  ASSUME MapData, NEW m, Whole(m), NEW src, Whole(src),
         NEW k1 \in Key, NEW k2 \in Key, NEW v1 \in Value, NEW v2 \in Value,
         Shown(src.keyset.data) = TwoPairs(k1, v1, k2, v2),
         v1 \notin Values(m), v2 \notin Values(m), v1 # v2,
         NEW mem, mem[1] \in Memory, mem[2] \in Memory,
         ~MapPutAll(m, src, mem).m.torn
  PROVE  Shown(MapPutAll(m, src, mem).m.keyset.data)
           \in OM!AfterPut(OM!AfterPut({Shown(m.keyset.data)}))
<1> DEFINE items == src.keyset.data
           mem1 == mem[1]
           mem2 == mem[2]
           p == MapPut(m, k1, v1, mem1)
           n == p.m
           q == MapPut(n, k2, v2, mem2)
<1>1. items \in Seq(MapItem)
  BY WholeFacts
<1>2. Len(items) = 2 /\ items[1].key = k1 /\ items[1].value = v1
      /\ items[2].key = k2 /\ items[2].value = v2
  <2>1. Len(Shown(items)) = 2 /\ Shown(items)[1] = <<k1, v1>> /\ Shown(items)[2] = <<k2, v2>>
    BY DEF TwoPairs
  <2> HIDE DEF items
  <2>2. Len(items) = 2
    BY <1>1, <2>1, ShownFacts
  <2>3. 1 \in 1 .. Len(items) /\ 2 \in 1 .. Len(items)
    BY <2>2
  <2>4. Shown(items)[1] = <<items[1].key, items[1].value>>
        /\ Shown(items)[2] = <<items[2].key, items[2].value>>
    BY <1>1, <2>3, ShownFacts
  <2> QED BY <2>1, <2>2, <2>4
<1> HIDE DEF items
<1>3. PICK up : /\ MapPutAll(m, src, mem) = up[Len(items)]
                /\ up[0] = [m |-> m, freed |-> {}]
                /\ \A i \in 1 .. Len(items) : up[i] = PutNext(up[i - 1], items[i], mem[i])
  <2>1. Size(src.keyset) = Len(items) /\ Len(items) \in Nat
    BY <1>2 DEF Size, items
  <2> QED BY <2>1, PutAllSteps DEF items
<1>4. up[1].m = p.m
  <2>1. up[1] = PutNext(up[1 - 1], items[1], mem[1])
    BY <1>2, <1>3
  <2>2. up[1] = PutNext(up[0], items[1], mem1) /\ up[0].m = m
    BY <1>3, <2>1
  <2> HIDE DEF mem1
  <2> QED BY <1>2, <2>2 DEF PutNext
<1>5. MapPutAll(m, src, mem).m = q.m
  <2>1. up[2] = PutNext(up[2 - 1], items[2], mem[2])
    BY <1>2, <1>3
  <2>2. up[2] = PutNext(up[1], items[2], mem2)
    BY <2>1
  <2> HIDE DEF mem1, mem2, p
  <2> QED BY <1>2, <1>3, <1>4, <2>2 DEF PutNext
<1> HIDE DEF mem1, mem2
<1>6. MapToUpper(m, k1) \in MapKeys /\ MapToUpper(m, k2) \in MapKeys
      /\ Foldable(m, k1) /\ mem1 \in Memory /\ mem2 \in Memory
      /\ Ample(mem1) \in BOOLEAN /\ Ample(mem2) \in BOOLEAN
  BY KeysFold DEF Foldable, mem1, mem2, Ample, Memory
<1>7. PutOutcome(p, m, MapToUpper(m, k1), v1, Ample(mem1))
  BY <1>6, MapPutKeeps
<1> HIDE DEF p
<1>8. Whole(n) /\ n.ucase = m.ucase /\ \A x \in Entries(n) : x \in Entries(m) \/ x.value = v1
  BY <1>7 DEF PutOutcome
<1> HIDE DEF n
<1>9. v2 \notin Values(n) /\ Foldable(n, k2) /\ MapToUpper(n, k2) = MapToUpper(m, k2)
  BY <1>8, KeysFold DEF Values, MapToUpper
<1>10. PutOutcome(q, n, MapToUpper(m, k2), v2, Ample(mem2))
  <2>1. PutOutcome(q, n, MapToUpper(n, k2), v2, Ample(mem2))
    BY <1>6, <1>8, <1>9, MapPutKeeps
  <2> QED BY <1>9, <2>1
<1> HIDE DEF q
<1> DEFINE s == Shown(m.keyset.data)
           t == Shown(n.keyset.data)
           u == Shown(q.m.keyset.data)
<1>11. ~n.torn /\ u \in OM!Attempts(t, MapToUpper(m, k2))
  <2>1. ~q.m.torn
    BY <1>5
  <2> QED BY <1>6, <1>8, <1>10, <2>1, PutAttempts
<1>12. t \in OM!Attempts(s, MapToUpper(m, k1))
  BY <1>6, <1>7, <1>11, PutAttempts DEF n
<1> HIDE DEF s, t, u
<1>13. t \in OM!AfterPut({s})
  BY <1>6, <1>12, AfterPutHas
<1>14. u \in OM!AfterPut(OM!AfterPut({s}))
  BY <1>6, <1>11, <1>13, AfterPutHas
<1> QED BY <1>5, <1>14 DEF s, u

------------------------------------------------------------------------------
(* The containers in use *)

ArrayState == {"kind", "arr", "freed", "iter"}
ListState == {"kind", "heap", "one", "two", "iter"}
MapState == {"kind", "m", "freed"}
KeysOf == [x \in Item |-> KeyOf(x)]

\* What the client's constants are: an array's comparator orders its keys, and a
\* node is not the null pointer.
ContainerData ==
  MapData /\ NULL \notin Node /\ (\A x \in Item : KeyOf(x) \in Int) /\ Mem \subseteq Memory

ArrayInv(s) ==
  /\ s.kind = "array" /\ DOMAIN s = ArrayState /\ s = [f \in ArrayState |-> s[f]]
  /\ IsArray(s.arr, Item) /\ Arranged(s.arr, KeysOf)
  /\ ToSet(s.arr.data) \cap s.freed = {}

ListInv(s) ==
  /\ s.kind = "list" /\ DOMAIN s = ListState /\ s = [f \in ListState |-> s[f]]
  /\ \E t, u : Pair(s.heap, s.one, s.two, t, u)
  /\ s.iter \in DOMAIN s.heap \cup {NULL}

MapInv(s) ==
  /\ s.kind = "map" /\ DOMAIN s = MapState /\ s = [f \in MapState |-> s[f]]
  /\ Whole(s.m) /\ Values(s.m) \cap s.freed = {}

Inv == ArrayInv(st) \/ ListInv(st) \/ MapInv(st)

\* The keys of the items of an array are numbers.
LEMMA KeysAreInts ==
  ASSUME ContainerData
  PROVE  KeysOf \in [Item -> Int] /\ \A x \in Item : KeysOf[x] = KeyOf(x)
BY DEF ContainerData, KeysOf

\* The comparator given to an array compares the keys of its items.
LEMMA ComparingKeys ==
  ASSUME NEW a, IsArray(a, Item), NEW key
  PROVE  Comparing(key, a) = Comparisons(key, a.data, KeysOf)
<1>1. a.data \in Seq(Item)
  BY DEF IsArray
<1>2. \A i \in 1 .. Len(a.data) : a.data[i] \in Item
  BY <1>1, Elements
<1> QED BY <1>2 DEF Comparing, Comparisons, KeysOf, Size

\* An array after an operation that was given the elements of new.
LEMMA ArrayKept ==
  ASSUME NEW s, ArrayInv(s), NEW r, NEW new, Keeps(r, s.arr, Item, KeysOf, new),
         new \cap s.freed = {}, NEW t, t = [s EXCEPT !.arr = r.a, !.freed = s.freed \cup r.freed]
  PROVE  ArrayInv(t)
<1>1. DOMAIN s = ArrayState /\ s = [f \in ArrayState |-> s[f]] /\ s.kind = "array"
  BY DEF ArrayInv
<1>2. /\ t.kind = "array" /\ DOMAIN t = ArrayState /\ t = [f \in ArrayState |-> t[f]]
      /\ t.arr = r.a /\ t.freed = s.freed \cup r.freed
  BY <1>1 DEF ArrayState
<1>3. ToSet(r.a.data) \cap (s.freed \cup r.freed) = {}
  BY DEF ArrayInv, Keeps
<1> QED BY <1>2, <1>3 DEF ArrayInv, Keeps

\* Every call on an array keeps the invariant of arrays.
LEMMA ArrayStepKeeps ==
  ASSUME ContainerData, ArrayInv(st), ArrayStep
  PROVE  ArrayInv(st')
<1> DEFINE a == st.arr
           k == KeysOf
<1>1. k \in [Item -> Int] /\ \A x \in Item : k[x] = KeyOf(x)
  BY KeysAreInts
<1>2. IsArray(a, Item) /\ Arranged(a, k) /\ Len(a.data) \in Nat
  <2>1. IsArray(a, Item) /\ Arranged(a, k)
    BY DEF ArrayInv
  <2> HIDE DEF a
  <2> QED BY <2>1, LenProperties DEF IsArray
<1>3. ASSUME NEW r, NEW new, Keeps(r, a, Item, k, new), new \cap st.freed = {}, Array(r)
      PROVE  ArrayInv(st')
  <2>1. st' = [st EXCEPT !.arr = r.a, !.freed = st.freed \cup r.freed]
    BY <1>3 DEF Array
  <2> QED BY <1>3, <2>1, ArrayKept
<1>4. \A key : Comparing(key, a) = Comparisons(key, a.data, k)
  BY <1>2, ComparingKeys
<1>5. \A x : Fresh(x) <=> x \notin ToSet(a.data) \cup st.freed
  BY DEF Fresh
<1>6. a.sorted \in BOOLEAN
  BY <1>2 DEF IsArray
<1>7. ASSUME NEW x \in Item, NEW ok \in BOOLEAN, Push(x, ok)
      PROVE  ArrayInv(st')
  <2> DEFINE r == ArrayPush(a, x, ok, Comparisons(k[x], a.data, k))
  <2>1. x \notin ToSet(a.data) /\ {x} \cap st.freed = {} /\ Array(r)
    BY <1>1, <1>4, <1>5, <1>7 DEF Push
  <2> HIDE DEF a, k
  <2>2. Keeps(r, a, Item, k, {x})
    BY <1>1, <1>2, <2>1, PushKeeps
  <2> HIDE DEF r
  <2> QED BY <1>3, <2>1, <2>2
<1>8. ASSUME NEW x \in Item, NEW want \in BOOLEAN, NEW ok \in BOOLEAN, Add(x, want, ok)
      PROVE  ArrayInv(st')
  <2> DEFINE r == ArrayAdd(a, x, want, ok, Comparisons(k[x], a.data, k))
  <2>1. (x \notin ToSet(a.data) \/ a.sorted) /\ {x} \cap st.freed = {} /\ Array(r)
    BY <1>1, <1>4, <1>5, <1>8 DEF Add
  <2> HIDE DEF a, k
  <2>2. Keeps(r, a, Item, k, {x})
    BY <1>1, <1>2, <2>1, AddKeeps
  <2> HIDE DEF r
  <2> QED BY <1>3, <2>1, <2>2
<1>9. ASSUME NEW x \in Item, NEW i \in 0 .. Size(a) + 1, NEW ok \in BOOLEAN, Insert(x, i, ok)
      PROVE  ArrayInv(st')
  <2> DEFINE r == ArrayInsertAt(a, x, i, ok)
  <2>1. x \notin ToSet(a.data) /\ {x} \cap st.freed = {} /\ Array(r)
    BY <1>5, <1>9 DEF Insert
  <2>2. i \in Nat
    BY <1>2 DEF Size
  <2> HIDE DEF a, k
  <2>3. Keeps(r, a, Item, k, {x})
    BY <1>1, <1>2, <2>1, <2>2, InsertAtKeeps
  <2> HIDE DEF r
  <2> QED BY <1>3, <2>1, <2>3
<1>10. ASSUME NEW x \in Item, NEW i \in 0 .. Size(a) + 1, Set(x, i)
       PROVE  ArrayInv(st')
  <2> DEFINE r == ArraySetAt(a, x, i)
  <2>1. x \notin ToSet(a.data) /\ {x} \cap st.freed = {} /\ Array(r)
    BY <1>5, <1>10 DEF Set
  <2>2. i \in Nat
    BY <1>2 DEF Size
  <2> HIDE DEF a, k
  <2>3. Keeps(r, a, Item, k, {x})
    BY <1>1, <1>2, <2>1, <2>2, SetAtKeeps
  <2> HIDE DEF r
  <2> QED BY <1>3, <2>1, <2>3
<1>11. ASSUME NEW x \in Item, Delete(KeyOf(x))
       PROVE  ArrayInv(st')
  <2> DEFINE r == ArrayRemove(a, Comparisons(k[x], a.data, k))
  <2>1. Array(r) /\ k[x] \in Int
    BY <1>1, <1>4, <1>11 DEF Delete
  <2> HIDE DEF a, k
  <2>2. Keeps(r, a, Item, k, {})
    BY <1>1, <1>2, <2>1, RemoveKeeps
  <2> HIDE DEF r
  <2> QED BY <1>3, <2>1, <2>2
<1>12. ASSUME NEW i \in 0 .. Size(a), DeleteAt(i)
       PROVE  ArrayInv(st')
  <2> DEFINE r == ArrayRemoveAt(a, i)
  <2>1. Array(r) /\ i \in Nat
    BY <1>2, <1>12 DEF DeleteAt, Size
  <2> HIDE DEF a, k
  <2>2. Keeps(r, a, Item, k, {})
    BY <1>1, <1>2, <2>1, RemoveAtKeeps
  <2> HIDE DEF r
  <2> QED BY <1>3, <2>1, <2>2
<1>13. ASSUME Pop PROVE ArrayInv(st')
  <2> DEFINE r == ArrayPop(a)
  <2>1. Array(r)
    BY <1>13 DEF Pop
  <2> HIDE DEF a, k
  <2>2. Keeps(r, a, Item, k, {})
    BY <1>1, <1>2, PopKeeps
  <2> HIDE DEF r
  <2> QED BY <1>3, <2>1, <2>2
<1>14. ASSUME Clear PROVE ArrayInv(st')
  <2> DEFINE r == ArrayClear(a)
  <2>1. Array(r)
    BY <1>14 DEF Clear
  <2> HIDE DEF a, k
  <2>2. Keeps(r, a, Item, k, {})
    BY <1>1, <1>2, ClearKeeps
  <2> HIDE DEF r
  <2> QED BY <1>3, <2>1, <2>2
<1>15. ASSUME Iterate PROVE ArrayInv(st')
  <2>1. DOMAIN st = ArrayState /\ st = [f \in ArrayState |-> st[f]] /\ st.kind = "array"
    BY DEF ArrayInv
  <2> DEFINE j == IF st.iter = NULL THEN 0 ELSE IterNext(st.arr, st.iter).index
  <2>2. st' = [st EXCEPT !.iter = j]
    BY <1>15 DEF Iterate
  <2> HIDE DEF j
  <2>3. /\ st'.kind = "array" /\ DOMAIN st' = ArrayState /\ st' = [f \in ArrayState |-> st'[f]]
        /\ st'.arr = st.arr /\ st'.freed = st.freed
    BY <2>1, <2>2 DEF ArrayState
  <2> QED BY <2>3 DEF ArrayInv
<1> HIDE DEF k
<1> QED BY <1>7, <1>8, <1>9, <1>10, <1>11, <1>12, <1>13, <1>14, <1>15 DEF ArrayStep

\* The checked property of an array.
LEMMA ArrayIsSound ==
  ASSUME ContainerData, NEW s, ArrayInv(s)
  PROVE  ArraySound(s.arr, s.freed)
<1> DEFINE a == s.arr
           k == KeysOf
<1>1. k \in [Item -> Int] /\ \A x \in Item : k[x] = KeyOf(x)
  BY KeysAreInts
<1>2. /\ IsArray(a, Item) /\ Arranged(a, k) /\ NULL \notin Nat
      /\ ToSet(a.data) \cap s.freed = {}
  BY DEF ArrayInv, ContainerData, MapData
<1> HIDE DEF a, k
<1>3. a.data \in Seq(Item) /\ Size(a) <= a.capacity /\ Size(a) = Len(a.data)
  BY <1>2 DEF IsArray, Size
<1>4. /\ \A i \in 1 .. Len(a.data) : a.data[i] \in Item
      /\ \A x \in ToSet(a.data) : x \in Item
  BY <1>3, Elements
<1>5. ASSUME a.sorted
      PROVE  \A i, j \in 1 .. Size(a) : i < j => KeyOf(a.data[i]) < KeyOf(a.data[j])
  BY <1>1, <1>2, <1>3, <1>4, <1>5 DEF Arranged, Rising
<1>6. ASSUME a.sorted, NEW x \in Item
      PROVE  LET at == ArrayFind(a, Comparing(KeyOf(x), a))
             IN  IF at = NULL THEN \A y \in ToSet(a.data) : KeyOf(y) # KeyOf(x)
                 ELSE KeyOf(ArrayGetAt(a, at)) = KeyOf(x)
  <2> DEFINE at == ArrayFind(a, Comparisons(k[x], a.data, k))
  <2>1. ArrayFind(a, Comparing(KeyOf(x), a)) = at
    BY <1>1, <1>2, ComparingKeys DEF k
  <2>2. k[x] \in Int /\ a.sorted = TRUE
    BY <1>1, <1>2, <1>6 DEF IsArray
  <2>3. \/ at = NULL /\ \A y \in ToSet(a.data) : k[y] # k[x]
        \/ /\ at # NULL /\ at \in Nat /\ at < Len(a.data)
           /\ at + 1 \in 1 .. Len(a.data) /\ k[a.data[at + 1]] = k[x]
           /\ ArrayGetAt(a, at) = a.data[at + 1] /\ a.data[at + 1] \in ToSet(a.data)
    BY <1>1, <1>2, <2>2, FindSorted
  <2> HIDE DEF at
  <2> QED BY <1>1, <1>4, <2>1, <2>3
<1> QED BY <1>2, <1>3, <1>5, <1>6 DEF ArraySound, Arranged, a

\* The lists after an operation on the first of them.
LEMMA ListKept ==
  ASSUME NEW s, ListInv(s), NEW heap, NEW one, NEW two,
         \E t, u : Pair(heap, one, two, t, u), s.iter \in DOMAIN heap \cup {NULL}, NEW r,
         \/ r = [s EXCEPT !.heap = heap, !.one = one, !.two = two]
         \/ r = [s EXCEPT !.heap = heap, !.one = one] /\ two = s.two
         \/ r = [s EXCEPT !.heap = heap, !.two = two] /\ one = s.one
  PROVE  ListInv(r)
<1>1. DOMAIN s = ListState /\ s = [f \in ListState |-> s[f]] /\ s.kind = "list"
  BY DEF ListInv
<1>2. /\ r.kind = "list" /\ DOMAIN r = ListState /\ r = [f \in ListState |-> r[f]]
      /\ r.heap = heap /\ r.one = one /\ r.two = two /\ r.iter = s.iter
  BY <1>1 DEF ListState
<1> QED BY <1>2 DEF ListInv

\* The two lists of a heap may be exchanged.
LEMMA PairSwapped ==
  ASSUME NEW heap, NEW one, NEW two, \E s, u : Pair(heap, one, two, s, u)
  PROVE  \E s, u : Pair(heap, two, one, s, u)
BY PairFacts

\* Every call on a list keeps the invariant of lists.
LEMMA ListStepKeeps ==
  ASSUME ContainerData, ListInv(st), ListStep
  PROVE  ListInv(st')
<1> DEFINE heap == st.heap
<1>1. PICK s, u : Pair(heap, st.one, st.two, s, u)
  BY DEF ListInv
<1>2. /\ Pair(heap, st.two, st.one, u, s)
      /\ st.iter \in DOMAIN heap \cup {NULL}
      /\ NULL \notin Node /\ NULL \notin DOMAIN heap
  BY <1>1, PairFacts DEF ListInv, ContainerData
<1>3. DOMAIN st = ListState /\ st = [f \in ListState |-> st[f]] /\ st.kind = "list"
  BY DEF ListInv
\* An operation on either list, which leaves the other one alone.
<1>4. ASSUME NEW list \in {"one", "two"}, NEW r, List(list, r),
             list = "one" => \E t : Pair(r.heap, r.list, st.two, t, u),
             list = "two" => \E t : Pair(r.heap, r.list, st.one, t, s),
             st.iter \in DOMAIN r.heap \cup {NULL}
      PROVE  ListInv(st')
  <2>1. CASE list = "one"
    <3>1. st' = [st EXCEPT !.heap = r.heap, !.one = r.list]
      BY <1>4, <2>1 DEF List
    <3> QED BY <1>4, <2>1, <3>1, ListKept
  <2>2. CASE list = "two"
    <3>1. st' = [st EXCEPT !.heap = r.heap, !.two = r.list]
      BY <1>4, <2>2 DEF List
    <3>2. \E t, v : Pair(r.heap, st.one, r.list, t, v)
      BY <1>4, <2>2, PairSwapped
    <3> QED BY <1>4, <3>1, <3>2, ListKept
  <2> QED BY <1>4, <2>1, <2>2
<1> HIDE DEF heap
<1>5. ASSUME NEW list \in {"one", "two"}, NEW x, Free # {},
             LET n == CHOOSE n \in Free : TRUE
             IN  \/ List(list, L!AddFront(st.heap, st[list], n, x))
                 \/ List(list, L!AddTail(st.heap, st[list], n, x))
      PROVE  ListInv(st')
  <2> DEFINE n == CHOOSE n \in Free : TRUE
             f == L!AddFront(heap, st[list], n, x)
             l == L!AddTail(heap, st[list], n, x)
  <2>1. n \notin DOMAIN heap /\ n # NULL
    BY <1>2, <1>5 DEF Free, heap
  <2>2. List(list, f) \/ List(list, l)
    BY <1>5 DEF heap
  <2> HIDE DEF n
  <2>3. /\ list = "one" => \E t : Pair(f.heap, f.list, st.two, t, u)
        /\ list = "two" => \E t : Pair(f.heap, f.list, st.one, t, s)
        /\ DOMAIN heap \subseteq DOMAIN f.heap
    <3>1. CASE list = "one"
      BY <1>1, <2>1, <3>1, AddFrontKeeps
    <3>2. CASE list = "two"
      BY <1>2, <2>1, <3>2, AddFrontKeeps
    <3> QED BY <3>1, <3>2
  <2>4. /\ list = "one" => \E t : Pair(l.heap, l.list, st.two, t, u)
        /\ list = "two" => \E t : Pair(l.heap, l.list, st.one, t, s)
        /\ DOMAIN heap \subseteq DOMAIN l.heap
    <3>1. CASE list = "one"
      BY <1>1, <2>1, <3>1, AddTailKeeps
    <3>2. CASE list = "two"
      BY <1>2, <2>1, <3>2, AddTailKeeps
    <3> QED BY <3>1, <3>2
  <2> HIDE DEF f, l
  <2> QED BY <1>2, <1>4, <2>2, <2>3, <2>4
<1>6. ASSUME NEW list \in {"one", "two"}, st.iter = NULL, NEW x,
             \/ List(list, L!ListRemove(st.heap, st[list], x))
             \/ List(list, L!RemoveFront(st.heap, st[list]))
             \/ List(list, L!RemoveTail(st.heap, st[list]))
      PROVE  ListInv(st')
  <2>1. ASSUME NEW r, List(list, r), \/ r = L!ListRemove(heap, st[list], x)
                                     \/ r = L!RemoveFront(heap, st[list])
                                     \/ r = L!RemoveTail(heap, st[list])
        PROVE  ListInv(st')
    <3>1. ASSUME list = "one" PROVE \E t : Pair(r.heap, r.list, st.two, t, u)
      BY <1>1, <2>1, <3>1, ListRemoveKeeps, RemoveFrontKeeps, RemoveTailKeeps
    <3>2. ASSUME list = "two" PROVE \E t : Pair(r.heap, r.list, st.one, t, s)
      BY <1>2, <2>1, <3>2, ListRemoveKeeps, RemoveFrontKeeps, RemoveTailKeeps
    <3> QED BY <1>4, <1>6, <2>1, <3>1, <3>2
  <2> QED BY <1>6, <2>1 DEF heap
<1>7. ASSUME LET r == L!MoveAll(st.heap, st.one, st.two)
             IN  st' = [st EXCEPT !.heap = r.heap, !.one = r.dest, !.two = r.src]
      PROVE  ListInv(st')
  <2> DEFINE r == L!MoveAll(heap, st.one, st.two)
  <2>1. st' = [st EXCEPT !.heap = r.heap, !.one = r.dest, !.two = r.src]
    BY <1>7 DEF heap
  <2>2. (\E t, v : Pair(r.heap, r.dest, r.src, t, v)) /\ DOMAIN heap \subseteq DOMAIN r.heap
    BY <1>1, MoveAllKeeps
  <2> HIDE DEF r
  <2>3. st.iter \in DOMAIN r.heap \cup {NULL}
    BY <1>2, <2>2
  <2> QED BY <2>1, <2>2, <2>3, ListKept
<1>8. ASSUME st' = [st EXCEPT !.iter = IF st.iter = NULL THEN st.one.head
                                       ELSE L!IterNext(st.heap, st.iter).curr]
      PROVE  ListInv(st')
  <2> DEFINE j == IF st.iter = NULL THEN st.one.head ELSE L!IterNext(heap, st.iter).curr
  <2>1. j \in DOMAIN heap \cup {NULL}
    <3>1. CASE st.iter = NULL
      <4>1. st.one.head = At(s, 1) /\ At(s, 1) \in ToSet(s) \cup {NULL} /\ ToSet(s) \subseteq DOMAIN heap
        <5>1. st.one.head = At(s, 1) /\ At(s, 1) \in ToSet(s) \cup {NULL} /\ s \in Seq(DOMAIN heap)
          BY <1>1, PairFacts
        <5> QED BY <5>1, Elements
      <4> QED BY <3>1, <4>1
    <3>2. CASE st.iter # NULL /\ heap[st.iter].data = NULL
      <4>1. j = st.iter
        BY <3>2 DEF L!IterNext
      <4> QED BY <1>2, <4>1
    <3>3. CASE st.iter # NULL /\ heap[st.iter].data # NULL
      <4>1. j = heap[st.iter].next /\ st.iter \in DOMAIN heap
        BY <1>2, <3>3 DEF L!IterNext
      <4>2. ASSUME NEW t, NEW v, NEW one, NEW two, Pair(heap, one, two, t, v),
                   st.iter \in ToSet(t)
            PROVE  heap[st.iter].next \in DOMAIN heap \cup {NULL}
        <5>1. t \in Seq(DOMAIN heap)
          BY <4>2, PairFacts
        <5>2. PICK i \in 1 .. Len(t) : st.iter = t[i]
          BY <4>2, <5>1, Elements
        <5>3. heap[t[i]].next = At(t, i + 1) /\ At(t, i + 1) \in DOMAIN heap \cup {NULL}
          BY <4>2, Neighbours
        <5> QED BY <5>2, <5>3
      <4>3. st.iter \in ToSet(s) \/ st.iter \in ToSet(u)
        BY <1>1, <4>1 DEF Pair
      <4> QED BY <1>1, <1>2, <4>1, <4>2, <4>3
    <3> QED BY <3>1, <3>2, <3>3
  <2>2. st' = [st EXCEPT !.iter = j]
    BY <1>8 DEF heap
  <2> HIDE DEF j
  <2>3. /\ st'.kind = "list" /\ DOMAIN st' = ListState /\ st' = [f \in ListState |-> st'[f]]
        /\ st'.heap = st.heap /\ st'.one = st.one /\ st'.two = st.two /\ st'.iter = j
    BY <1>3, <2>2 DEF ListState
  <2> QED BY <1>1, <2>1, <2>3 DEF ListInv, heap
<1> QED BY <1>5, <1>6, <1>7, <1>8 DEF ListStep

\* The checked property of the lists.
LEMMA ListsAreSound ==
  ASSUME ListInv(st)
  PROVE  ListsSound
<1>1. PICK s, u : Pair(st.heap, st.one, st.two, s, u)
  BY DEF ListInv
<1> DEFINE fwd(l) == L!Walk(st.heap, l.head, "next")
           bwd(l) == L!Walk(st.heap, l.tail, "prev")
<1>2. ASSUME NEW one, NEW two, NEW t, NEW v, Pair(st.heap, one, two, t, v)
      PROVE  fwd(one) = t /\ fwd(one) = Reverse(bwd(one)) /\ Len(fwd(one)) = one.size
  <2> DEFINE heap == st.heap
  <2>1. NULL \notin DOMAIN heap /\ IsFiniteSet(DOMAIN heap) /\ one.size = Len(t)
    BY <1>2, PairFacts
  <2>2. Chain(heap, one, t)
    BY <1>2 DEF Pair
  <2> HIDE DEF heap
  <2>3. /\ L!Walk(heap, one.head, "next") = t
        /\ L!Walk(heap, one.tail, "prev") = Reverse(t)
        /\ Reverse(Reverse(t)) = t
    BY <2>1, <2>2, ChainWalked
  <2> QED BY <2>1, <2>3 DEF heap
<1>3. fwd(st.one) = s /\ fwd(st.one) = Reverse(bwd(st.one)) /\ Len(fwd(st.one)) = st.one.size
  BY <1>1, <1>2
<1>4. fwd(st.two) = u /\ fwd(st.two) = Reverse(bwd(st.two)) /\ Len(fwd(st.two)) = st.two.size
  BY <1>1, <1>2, PairFacts
<1>5. ToSet(s) \cap ToSet(u) = {} /\ ToSet(s) \cup ToSet(u) = DOMAIN st.heap
  BY <1>1 DEF Pair
<1>6. st.iter \in DOMAIN st.heap \cup {NULL}
  BY DEF ListInv
<1> QED BY <1>3, <1>4, <1>5, <1>6 DEF ListsSound

\* A map after an operation, and what that freed.
LEMMA MapKept ==
  ASSUME NEW s, MapInv(s), NEW m, NEW freed, Whole(m), Values(m) \cap (s.freed \cup freed) = {},
         NEW t, \/ t = [s EXCEPT !.m = m, !.freed = s.freed \cup freed]
                \/ t = [s EXCEPT !.m = m]
  PROVE  MapInv(t)
<1>1. DOMAIN s = MapState /\ s = [f \in MapState |-> s[f]] /\ s.kind = "map"
  BY DEF MapInv
<1>2. /\ t.kind = "map" /\ DOMAIN t = MapState /\ t = [f \in MapState |-> t[f]] /\ t.m = m
      /\ t.freed = s.freed \cup freed \/ t.freed = s.freed
  BY <1>1 DEF MapState
<1>3. Values(m) \cap t.freed = {}
  BY <1>2
<1> QED BY <1>2, <1>3 DEF MapInv

\* Every call on a map keeps the invariant of maps.
LEMMA MapStepKeeps ==
  ASSUME ContainerData, MapInv(st), MapStep
  PROVE  MapInv(st')
<1> DEFINE m == st.m
<1>1. MapData /\ Whole(m) /\ Values(m) \cap st.freed = {} /\ m.ucase \in BOOLEAN
  BY DEF ContainerData, MapInv, Whole, IsMap
<1>2. Held = Values(m)
  BY DEF Held, Values, Entries, m
<1>3. \A v : Own(v) <=> v \notin Values(m) \cup st.freed
  BY <1>2 DEF Own
<1> HIDE DEF m
<1>4. ASSUME NEW k \in Key, RemoveOf(k) PROVE MapInv(st')
  <2> DEFINE r == MapRemove(m, k)
  <2>1. st' = [st EXCEPT !.m = r.m]
    BY <1>4 DEF RemoveOf, MapTo, m
  <2>2. MapToUpper(m, k) \in MapKeys
    BY <1>1, KeysFold DEF Foldable
  <2>3. Whole(r.m) /\ Values(r.m) \subseteq Values(m)
    BY <1>1, <2>2, MapRemoveKeeps
  <2> HIDE DEF r
  <2>4. Values(r.m) \cap (st.freed \cup {}) = {}
    BY <1>1, <2>3
  <2> QED BY <2>1, <2>3, <2>4, MapKept
<1>5. ASSUME NEW k \in Key, NEW v \in Value, NEW mem \in Mem, PutKey(k, v, mem)
      PROVE  MapInv(st')
  <2> DEFINE r == MapPut(m, k, v, mem)
  <2>1. st' = [st EXCEPT !.m = r.m] /\ v \notin Values(m) \cup st.freed
    BY <1>3, <1>5 DEF PutKey, MapTo, m
  <2>2. Foldable(m, k) /\ mem \in Memory
    BY <1>1, KeysFold DEF ContainerData
  <2>3. PutOutcome(r, m, MapToUpper(m, k), v, Ample(mem))
    BY <1>1, <2>1, <2>2, MapPutKeeps
  <2> HIDE DEF r
  <2>4. Whole(r.m) /\ Values(r.m) \subseteq Values(m) \cup {v}
    BY <2>3 DEF PutOutcome, Values
  <2>5. Values(r.m) \cap (st.freed \cup {}) = {}
    BY <1>1, <2>1, <2>4
  <2> QED BY <2>1, <2>4, <2>5, MapKept
<1>6. ASSUME NEW k1 \in Key, NEW k2 \in Key, NEW v1 \in Value, NEW v2 \in Value,
             NEW mem1 \in Mem, NEW mem2 \in Mem, PutMap(k1, v1, k2, v2, <<mem1, mem2>>)
      PROVE  MapInv(st')
  <2> DEFINE mem == <<mem1, mem2>>
             empty == MapCreateInternal(2, FALSE, FALSE, 2)
             q == MapPut(MapPut(empty, k1, v1, Plenty).m, k2, v2, Plenty)
             r == MapPutAll(m, q.m, mem)
  <2>1. /\ st' = [st EXCEPT !.m = r.m, !.freed = st.freed \cup r.freed]
        /\ v1 \notin Values(m) \cup st.freed /\ v2 \notin Values(m) \cup st.freed
        /\ v1 # v2 /\ k1 # k2
    BY <1>3, <1>6 DEF PutMap, Outcome, m
  <2>2. /\ Whole(q.m) /\ \A x \in Entries(q.m) : x.key \in Key /\ x.value \in {v1, v2}
        /\ Len(q.m.keyset.data) = 2
    <3>1. HasTwo(q.m, k1, v1, k2, v2)
      BY <1>1, <2>1, SourceMade
    <3> DEFINE src == q.m
    <3> HIDE DEF q, src
    <3>2. Whole(src) /\ Len(Shown(src.keyset.data)) = 2
      BY <3>1 DEF HasTwo, TwoPairs, src
    <3>3. Len(src.keyset.data) = 2
      BY <1>1, <3>2, WholeFacts, ShownFacts
    <3> QED BY <3>1, <3>3 DEF HasTwo, src
  <2>3. \A i \in 1 .. 2 : mem[i] \in Memory
    <3>1. mem1 \in Memory /\ mem2 \in Memory
      BY DEF ContainerData
    <3> QED BY <3>1
  <2> HIDE DEF q, mem
  <2>4. Values(q.m) \subseteq {v1, v2} /\ \A x \in Entries(q.m) : x.value \notin Values(m)
    BY <2>1, <2>2 DEF Values
  <2>5. /\ Whole(r.m) /\ Values(r.m) \subseteq Values(m) \cup Values(q.m)
        /\ r.freed \cap Values(r.m) = {}
    <3> DEFINE src == q.m
    <3>1. /\ Whole(src) /\ \A x \in Entries(src) : x.key \in Key /\ x.value \notin Values(m)
          /\ \A i \in 1 .. Len(src.keyset.data) : mem[i] \in Memory
      BY <2>2, <2>3, <2>4
    <3> HIDE DEF src
    <3>2. LET f == MapPutAll(m, src, mem)
          IN  /\ Whole(f.m) /\ Values(f.m) \subseteq Values(m) \cup Values(src)
              /\ f.freed \cap Values(f.m) = {}
      BY <1>1, <3>1, PutAllKeeps
    <3> QED BY <3>2 DEF src
  <2> HIDE DEF r
  <2>6. Values(r.m) \cap (st.freed \cup r.freed) = {}
    BY <1>1, <2>1, <2>4, <2>5
  <2> QED BY <2>1, <2>5, <2>6, MapKept
<1>7. ASSUME NEW i \in 0 .. st.m.size, RemoveNth(i) PROVE MapInv(st')
  <2> DEFINE r == MapRemoveAt(m, i)
  <2>1. st' = [st EXCEPT !.m = r.m] /\ i \in 0 .. m.size
    BY <1>7 DEF RemoveNth, MapTo, m
  <2>2. Whole(r.m) /\ Values(r.m) \subseteq Values(m)
    BY <1>1, <2>1, MapRemoveAtKeeps
  <2> HIDE DEF r
  <2>3. Values(r.m) \cap (st.freed \cup {}) = {}
    BY <1>1, <2>2
  <2> QED BY <2>1, <2>2, <2>3, MapKept
<1>8. ASSUME NEW freedata \in BOOLEAN, ClearMap(freedata) PROVE MapInv(st')
  <2> DEFINE r == MapClearBase(m, freedata)
  <2>1. st' = [st EXCEPT !.m = r.m, !.freed = st.freed \cup r.freed]
    BY <1>8 DEF ClearMap, MapClear, MapClearLink, Outcome, m
  <2>2. Whole(r.m) /\ Entries(r.m) = {}
    BY <1>1, MapClearKeeps
  <2> HIDE DEF r
  <2>3. Values(r.m) = {}
    BY <2>2 DEF Values
  <2> QED BY <2>1, <2>2, <2>3, MapKept
<1> QED BY <1>4, <1>5, <1>6, <1>7, <1>8 DEF MapStep

\* A container just made satisfies the inductive invariant.
LEMMA InitInv ==
  ASSUME ContainerData, Init
  PROVE  Inv
<1>1. ASSUME NEW sorted \in BOOLEAN, NEW freecb \in BOOLEAN, NEW cap \in 0 .. 1,
             st = [kind |-> "array", arr |-> ArrayCreateInternal(cap, sorted, freecb),
                   freed |-> {}, iter |-> NULL]
      PROVE  ArrayInv(st)
  <2> DEFINE a == ArrayCreateInternal(cap, sorted, freecb)
  <2>1. /\ DOMAIN a = Fields /\ a = [x \in Fields |-> a[x]] /\ a.data = << >>
        /\ a.capacity = cap /\ a.sorted = sorted /\ a.freecb = freecb
    BY DEF ArrayCreateInternal, Fields
  <2>2. /\ st.kind = "array" /\ DOMAIN st = ArrayState /\ st = [f \in ArrayState |-> st[f]]
        /\ st.arr = a /\ st.freed = {}
    BY <1>1 DEF ArrayState
  <2> HIDE DEF a
  <2>3. a.data \in Seq(Item) /\ Len(a.data) = 0
    <3>1. a.data = << >>
      BY <2>1
    <3> QED BY <3>1
  <2>4. Size(a) <= a.capacity /\ a.capacity \in Nat
    BY <2>1, <2>3 DEF Size
  <2>5. a.sorted \in BOOLEAN
    BY <2>1
  <2>6. a.freecb \in BOOLEAN
    BY <2>1
  <2>7. IsArray(a, Item)
    BY <2>1, <2>3, <2>4, <2>5, <2>6 DEF IsArray
  <2>8. Arranged(a, KeysOf)
    <3>1. IsInjective(a.data)
      BY <2>1 DEF IsInjective
    <3>2. Rising(a.data, KeysOf)
      BY <2>3 DEF Rising
    <3> QED BY <3>1, <3>2 DEF Arranged
  <2> QED BY <2>2, <2>7, <2>8 DEF ArrayInv
<1>2. ASSUME st = [kind |-> "list", heap |-> << >>, one |-> L!ListCreateInternal,
                   two |-> L!ListCreateInternal, iter |-> NULL]
      PROVE  ListInv(st)
  <2> DEFINE none == << >>
             list == L!ListCreateInternal
             h == << >>
  <2>1. /\ st.kind = "list" /\ DOMAIN st = ListState /\ st = [f \in ListState |-> st[f]]
        /\ st.heap = h /\ st.one = list /\ st.two = list /\ st.iter = NULL
    BY <1>2 DEF ListState
  <2>2. h = [n \in {} |-> n] /\ DOMAIN h = {}
    OBVIOUS
  <2>3. IsHeap(h)
    BY <2>2 DEF IsHeap
  <2>4. none \in Seq(DOMAIN h) /\ Len(none) = 0 /\ IsInjective(none) /\ ToSet(none) = {}
    BY DEF IsInjective, ToSet
  <2>5. list = Ends(none)
    <3>1. At(none, 1) = NULL /\ At(none, Len(none)) = NULL
      BY <2>4 DEF At
    <3> QED BY <2>4, <3>1 DEF Ends, L!ListCreateInternal
  <2> HIDE DEF none, list, h
  <2>6. Chain(h, list, none)
    BY <2>4, <2>5 DEF Chain
  <2>7. Pair(h, list, list, none, none)
    BY <2>2, <2>3, <2>4, <2>6 DEF Pair
  <2> QED BY <2>1, <2>7 DEF ListInv
<1>3. ASSUME NEW ucase \in BOOLEAN, NEW freecb \in BOOLEAN, NEW n \in 1 .. 2, NEW lf \in 1 .. 2,
             st = [kind |-> "map", m |-> MapCreateInternal(n, ucase, freecb, lf), freed |-> {}]
      PROVE  MapInv(st)
  <2> DEFINE m == MapCreateInternal(n, ucase, freecb, lf)
  <2>1. Whole(m)
    <3>1. n \in Nat \ {0} /\ MapData
      BY DEF ContainerData
    <3> QED BY <3>1, MapMade DEF Blank
  <2> HIDE DEF m
  <2>2. /\ st.kind = "map" /\ DOMAIN st = MapState /\ st = [f \in MapState |-> st[f]]
        /\ st.m = m /\ st.freed = {}
    BY <1>3 DEF MapState, m
  <2> QED BY <2>1, <2>2 DEF MapInv
<1> QED BY <1>1, <1>2, <1>3 DEF Init, Inv

\* Every call keeps the inductive invariant.
LEMMA StepInv ==
  ASSUME ContainerData, Inv, [Next]_vars
  PROVE  Inv'
<1>1. CASE ArrayInv(st) /\ ArrayStep
  BY <1>1, ArrayStepKeeps DEF Inv
<1>2. CASE ListInv(st) /\ ListStep
  BY <1>2, ListStepKeeps DEF Inv
<1>3. CASE MapInv(st) /\ MapStep
  BY <1>3, MapStepKeeps DEF Inv
<1>4. CASE UNCHANGED vars
  BY <1>4 DEF Inv, vars
<1>5. /\ ArrayStep => ArrayInv(st)
      /\ ListStep => ListInv(st)
      /\ MapStep => MapInv(st)
  BY DEF Inv, ArrayInv, ListInv, MapInv, ArrayStep, ListStep, MapStep
<1> QED BY <1>1, <1>2, <1>3, <1>4, <1>5 DEF Next

\* arrays.c, lists.c, maps.c: whatever is called in whichever order, and whichever
\* growth of an array fails, an array stays in its allocation and in order and finds
\* what it has, the links of two lists agree in both directions and no node is lost,
\* every item of the buckets of a map is in keyset and found by its key, buckets and
\* keyset have the same items unless a bucket could not grow in a rebuild since the
\* map was last empty (maps.c:122), and nothing that was freed is still held.
THEOREM ContainersAreSound ==
  ASSUME ContainerData
  PROVE  Spec => []ContainersSound
<1>1. Inv => ContainersSound
  <2>1. ASSUME ArrayInv(st) PROVE ContainersSound
    BY <2>1, ArrayIsSound DEF ContainersSound, ArrayInv
  <2>2. ASSUME ListInv(st) PROVE ContainersSound
    BY <2>2, ListsAreSound DEF ContainersSound, ListInv
  <2>3. ASSUME MapInv(st) PROVE ContainersSound
    BY <2>3, WholeIsSound DEF ContainersSound, MapInv, ContainerData
  <2> QED BY <2>1, <2>2, <2>3 DEF Inv
<1> QED BY <1>1, InitInv, StepInv, PTL DEF Spec

\* A container just made has no pairs.
LEMMA InitImplements ==
  ASSUME ContainerData, Init
  PROVE  OM!Init
<1>1. CASE st.kind = "map"
  <2>1. PICK ucase \in BOOLEAN, freecb \in BOOLEAN, n \in 1 .. 2, lf \in 1 .. 2 :
          st = [kind |-> "map", m |-> MapCreateInternal(n, ucase, freecb, lf), freed |-> {}]
    BY <1>1 DEF Init
  <2> DEFINE m == MapCreateInternal(n, ucase, freecb, lf)
  <2>2. Whole(m) /\ Entries(m) = {} /\ m.torn = FALSE
    <3>1. n \in Nat \ {0} /\ MapData
      BY DEF ContainerData
    <3>2. Blank(m, ucase, freecb)
      BY <3>1, MapMade, Zenon
    <3> HIDE DEF m
    <3> QED BY <3>2 DEF Blank
  <2>3. st.m = m
    BY <2>1
  <2> HIDE DEF m
  <2>4. MapGetPairs(m) = << >>
    BY <2>2, MapShown, EmptyShown DEF ContainerData
  <2> QED BY <1>1, <2>2, <2>3, <2>4 DEF OM!Init, MapPairs, MapTorn
<1>2. CASE st.kind # "map"
  BY <1>2 DEF OM!Init, MapPairs, MapTorn
<1> QED BY <1>1, <1>2

\* A step of the ordered map, or none.
Implements == OM!Next \/ (MapPairs' = MapPairs /\ MapTorn' = MapTorn)

\* Every call on a map puts, removes, puts all of, or clears pairs, tears the map,
\* or leaves the pairs alone.
LEMMA MapStepImplements ==
  ASSUME ContainerData, MapInv(st), MapStep
  PROVE  Implements
<1> DEFINE m == st.m
           n == st'.m
           s == Shown(m.keyset.data)
           t == Shown(n.keyset.data)
<1>1. MapData /\ Whole(m) /\ m.ucase \in BOOLEAN /\ m.torn \in BOOLEAN
  BY DEF ContainerData, MapInv, Whole, IsMap
<1>2. MapInv(st') /\ Whole(n) /\ n.torn \in BOOLEAN
  BY MapStepKeeps DEF MapInv, Whole, IsMap
<1>3. MapTorn = m.torn /\ MapPairs = IF m.torn THEN << >> ELSE s
  BY <1>1, MapShown DEF MapPairs, MapTorn, MapInv
<1>4. MapTorn' = n.torn /\ MapPairs' = IF n.torn THEN << >> ELSE t
  <2>1. st'.kind = "map"
    BY <1>2 DEF MapInv
  <2>2. MapGetPairs(n) = t
    BY MapShown
  <2>3. /\ MapTorn' = (st'.kind = "map" /\ n.torn)
        /\ MapPairs' = IF st'.kind = "map" /\ ~n.torn THEN MapGetPairs(n) ELSE << >>
    BY DEF MapPairs, MapTorn
  <2> HIDE DEF n, t
  <2> QED BY <1>2, <2>1, <2>2, <2>3
<1>5. \A v : Own(v) => v \notin Values(m)
  BY DEF Own, Held, Values, Entries
<1>6. DOMAIN st = MapState /\ st = [f \in MapState |-> st[f]]
  BY DEF MapInv
<1> HIDE DEF m, n, s, t
<1>7. ASSUME n.torn PROVE Implements
  <2>1. CASE m.torn
    BY <1>1, <1>2, <1>3, <1>4, <1>7, <2>1 DEF Implements
  <2>2. CASE ~m.torn
    <3>1. OM!Tear
      BY <1>2, <1>3, <1>4, <1>7, <2>2 DEF OM!Tear
    <3> QED BY <3>1 DEF OM!Next, Implements
  <2> QED BY <2>1, <2>2
<1>8. ASSUME ~m.torn, ~n.torn PROVE MapPairs = s /\ MapPairs' = t /\ ~MapTorn /\ MapTorn' = FALSE
  BY <1>2, <1>3, <1>4, <1>8
<1>9. ASSUME NEW k \in MapKeys, t = OM!Without(s, k), n.torn = m.torn PROVE Implements
  <2>1. CASE n.torn
    BY <1>7, <2>1
  <2>2. CASE ~n.torn
    <3>1. MapPairs = s /\ MapPairs' = t /\ ~MapTorn /\ MapTorn' = FALSE
      BY <1>8, <1>9, <2>2
    <3>2. t \in {OM!Without(s, key) : key \in MapKeys}
      BY <1>9
    <3>3. OM!Remove
      BY <3>1, <3>2 DEF OM!Remove, OM!Become
    <3> QED BY <3>3 DEF OM!Next, Implements
  <2> QED BY <2>1, <2>2
<1>10. ASSUME NEW k \in MapKeys, n = MapRemove(m, k).m PROVE Implements
  <2> DEFINE r == MapRemove(m, k)
  <2>1. ASSUME MapToUpper(m, k) \in MapKeys PROVE Implements
    <3>1. n.torn = m.torn
      BY <1>1, <1>10, <2>1, MapRemoveKeeps
    <3>2. CASE m.torn
      BY <1>7, <3>1, <3>2
    <3>3. CASE ~m.torn
      <4>1. t = OM!Without(s, MapToUpper(m, k))
        BY <1>1, <1>10, <2>1, <3>3, RemoveImplements DEF s, t
      <4> QED BY <1>9, <2>1, <3>1, <4>1
    <3> QED BY <3>2, <3>3
  <2>2. MapToUpper(m, k) \in MapKeys
    <3>1. \A u \in MapKeys : u \in Key \/ \E w \in Key : u = Upper(w)
      BY DEF MapKeys
    <3>2. \A w \in Key : Upper(Upper(w)) = Upper(w) /\ w \in MapKeys /\ Upper(w) \in MapKeys
      BY <1>1 DEF MapData, MapKeys
    <3> QED BY <3>1, <3>2 DEF MapToUpper
  <2> QED BY <2>1, <2>2
<1>11. ASSUME NEW k \in Key, RemoveOf(k) PROVE Implements
  <2> DEFINE r == MapRemove(m, k)
  <2>1. n = r.m
    <3>1. st' = [st EXCEPT !.m = r.m]
      BY <1>11 DEF RemoveOf, MapTo, m
    <3> HIDE DEF r
    <3> QED BY <1>6, <3>1 DEF n, MapState
  <2>2. k \in MapKeys
    BY DEF MapKeys
  <2> QED BY <1>10, <2>1, <2>2
<1>12. ASSUME NEW k \in Key, NEW v \in Value, NEW mem \in Mem, PutKey(k, v, mem)
       PROVE  Implements
  <2> DEFINE r == MapPut(m, k, v, mem)
             up == MapToUpper(m, k)
             ok == Ample(mem)
  <2>1. n = r.m
    <3>1. st' = [st EXCEPT !.m = r.m]
      BY <1>12 DEF PutKey, MapTo, m
    <3> HIDE DEF r
    <3> QED BY <1>6, <3>1 DEF n, MapState
  <2>2. up \in MapKeys /\ Foldable(m, k) /\ v \notin Values(m) /\ mem \in Memory
    BY <1>1, <1>5, <1>12, KeysFold DEF Foldable, PutKey, ContainerData
  <2>3. PutOutcome(r, m, up, v, ok) /\ ok \in BOOLEAN
    BY <1>1, <2>2, MapPutKeeps DEF Ample, Memory
  <2> HIDE DEF r, up, ok
  <2>4. CASE n.torn
    BY <1>7, <2>4
  <2>5. CASE ~n.torn
    <3>1. ~m.torn /\ t \in OM!Attempts(s, up)
      BY <1>1, <2>1, <2>2, <2>3, <2>5, PutAttempts DEF s, t
    <3>2. t \in OM!AfterPut({s})
      BY <2>2, <3>1, AfterPutHas
    <3>3. MapPairs = s /\ MapPairs' = t /\ ~MapTorn /\ MapTorn' = FALSE
      BY <1>8, <2>5, <3>1
    <3>4. OM!Put
      BY <3>2, <3>3 DEF OM!Put, OM!Become
    <3> QED BY <3>4 DEF OM!Next, Implements
  <2> QED BY <2>4, <2>5
<1>13. ASSUME NEW k1 \in Key, NEW k2 \in Key, NEW v1 \in Value, NEW v2 \in Value,
              NEW mem1 \in Mem, NEW mem2 \in Mem, PutMap(k1, v1, k2, v2, <<mem1, mem2>>)
       PROVE  Implements
  <2> DEFINE mem == <<mem1, mem2>>
             empty == MapCreateInternal(2, FALSE, FALSE, 2)
             q == MapPut(MapPut(empty, k1, v1, Plenty).m, k2, v2, Plenty)
             src == q.m
             r == MapPutAll(m, src, mem)
  <2>1. /\ st' = [st EXCEPT !.m = r.m, !.freed = st.freed \cup r.freed]
        /\ Own(v1) /\ Own(v2) /\ v1 # v2 /\ k1 # k2
    BY <1>13 DEF PutMap, Outcome, m
  <2>2. HasTwo(src, k1, v1, k2, v2)
    BY <1>1, <2>1, SourceMade
  <2>3. mem[1] \in Memory /\ mem[2] \in Memory
    BY DEF ContainerData
  <2> HIDE DEF q, src, mem
  <2>4. /\ Whole(src) /\ Shown(src.keyset.data) = TwoPairs(k1, v1, k2, v2)
        /\ \A x \in Entries(src) : x.key \in Key /\ x.value \in {v1, v2}
    BY <2>2 DEF HasTwo
  <2>5. v1 \notin Values(m) /\ v2 \notin Values(m)
    BY <1>5, <2>1
  <2>6. n = r.m
    <3> HIDE DEF r
    <3> QED BY <1>6, <2>1 DEF n, MapState
  <2>7. CASE n.torn
    BY <1>7, <2>7
  <2>8. CASE ~n.torn
    <3>1. Shown(r.m.keyset.data) \in OM!AfterPut(OM!AfterPut({s}))
      BY <1>1, <2>1, <2>3, <2>4, <2>5, <2>6, <2>8, PutAllImplements DEF s
    <3>2. m.torn => r.m.torn
      <4>1. Len(src.keyset.data) = 2
        <5>1. Len(Shown(src.keyset.data)) = 2
          BY <2>4 DEF TwoPairs
        <5> QED BY <1>1, <2>4, <5>1, WholeFacts, ShownFacts
      <4>2. \A i \in 1 .. Len(src.keyset.data) : mem[i] \in Memory
        BY <2>3, <4>1
      <4>3. \A x \in Entries(src) : x.key \in Key /\ x.value \notin Values(m)
        BY <2>4, <2>5
      <4> QED BY <1>1, <2>4, <4>2, <4>3, PutAllKeeps
    <3> HIDE DEF r
    <3>3. MapPairs = s /\ MapPairs' = t /\ ~MapTorn /\ MapTorn' = FALSE
      BY <1>8, <2>6, <2>8, <3>2
    <3>4. t = Shown(r.m.keyset.data)
      BY <2>6 DEF t
    <3>5. OM!PutAll
      BY <3>1, <3>3, <3>4 DEF OM!PutAll, OM!Become
    <3> QED BY <3>5 DEF OM!Next, Implements
  <2> QED BY <2>7, <2>8
<1>14. ASSUME NEW i \in 0 .. st.m.size, RemoveNth(i) PROVE Implements
  <2> DEFINE r == MapRemoveAt(m, i)
  <2>1. n = r.m /\ i \in 0 .. m.size
    <3>1. st' = [st EXCEPT !.m = r.m]
      BY <1>14 DEF RemoveNth, MapTo, m
    <3> HIDE DEF r
    <3> QED BY <1>6, <3>1 DEF n, MapState, m
  <2>2. CASE ~(i < m.size)
    <3>1. n = m
      BY <2>1, <2>2 DEF MapRemoveAt
    <3> QED BY <1>3, <1>4, <3>1 DEF s, t, Implements
  <2>3. CASE i < m.size
    <3> DEFINE x == ArrayGetAt(m.keyset, i)
    <3>1. x \in Entries(m)
      BY <1>1, <2>1, <2>3, NthItem
    <3>2. n = MapRemove(m, x.key).m
      BY <2>1, <2>3 DEF MapRemoveAt
    <3> HIDE DEF x
    <3>3. x.key \in MapKeys
      BY <1>1, <3>1, WholeFacts, DataFacts
    <3> QED BY <1>10, <3>2, <3>3
  <2> QED BY <2>2, <2>3
<1>15. ASSUME NEW freedata \in BOOLEAN, ClearMap(freedata) PROVE Implements
  <2> DEFINE r == MapClearBase(m, freedata)
  <2>1. st' = [st EXCEPT !.m = r.m, !.freed = st.freed \cup r.freed]
    BY <1>15 DEF ClearMap, MapClear, MapClearLink, Outcome, m
  <2>2. Whole(r.m) /\ Entries(r.m) = {} /\ r.m.torn = FALSE
    BY <1>1, MapClearKeeps
  <2> HIDE DEF r
  <2>3. n = r.m
    BY <1>6, <2>1 DEF n, MapState
  <2>4. t = << >>
    BY <1>1, <2>2, <2>3, EmptyShown DEF t
  <2>5. OM!Clear
    BY <1>4, <2>2, <2>3, <2>4 DEF OM!Clear
  <2> QED BY <2>5 DEF OM!Next, Implements
<1> QED BY <1>11, <1>12, <1>13, <1>14, <1>15 DEF MapStep

\* Every call implements a step of the ordered map or none.
LEMMA StepImplements ==
  ASSUME ContainerData, Inv, [Next]_vars
  PROVE  [OM!Next]_(OM!vars)
<1>1. CASE ArrayInv(st) /\ ArrayStep
  <2>1. ArrayInv(st')
    BY <1>1, ArrayStepKeeps
  <2> QED BY <1>1, <2>1 DEF MapPairs, MapTorn, ArrayInv, OM!vars
<1>2. CASE ListInv(st) /\ ListStep
  <2>1. ListInv(st')
    BY <1>2, ListStepKeeps
  <2> QED BY <1>2, <2>1 DEF MapPairs, MapTorn, ListInv, OM!vars
<1>3. CASE MapInv(st) /\ MapStep
  BY <1>3, MapStepImplements DEF Implements, OM!vars
<1>4. CASE UNCHANGED vars
  BY <1>4 DEF vars, MapPairs, MapTorn, OM!vars
<1>5. /\ ArrayStep => ArrayInv(st)
      /\ ListStep => ListInv(st)
      /\ MapStep => MapInv(st)
  BY DEF Inv, ArrayInv, ListInv, MapInv, ArrayStep, ListStep, MapStep
<1> QED BY <1>1, <1>2, <1>3, <1>4, <1>5 DEF Next

\* maps.c implements the ordered map: whatever its hash function, its buckets and
\* its rehashing, what a caller sees of a map is a sequence of pairs in the order
\* of their last puts, and each call changes that as the ordered map says, also a
\* Put or PutAll that displaces values or in which arrays cannot grow.  Only where a
\* bucket cannot grow in a rebuild (maps.c:122) is the map torn, and says nothing
\* more of its pairs until it is cleared.
THEOREM ContainersImplementOrderedMap ==
  ASSUME ContainerData
  PROVE  Spec => MapImplements
<1>1. Init => Inv /\ OM!Init
  BY InitInv, InitImplements
<1>2. Inv /\ [Next]_vars => Inv' /\ [OM!Next]_(OM!vars)
  BY StepInv, StepImplements
<1> QED BY <1>1, <1>2, PTL DEF Spec, MapImplements, OM!Spec

------------------------------------------------------------------------------
(* The array of a timer: its comparator orders tasks by number too, but by *)
(* times that wrap around as ints.  What follows is about TimerOrder.tla,  *)
(* for any tasks, delays and periods.                                      *)
CONSTANTS Millis, Micros, HalfInt, Task, Delay, Period, MaxNow
VARIABLE order

O == INSTANCE TimerOrder WITH st <- order

\* A smaller multiple is smaller by one multiple at least.
LEMMA Multiples ==
  ASSUME NEW P \in Nat, NEW a \in Int, NEW b \in Int, a < b
  PROVE  a * P + P <= b * P
<1> DEFINE d == b - a - 1
<1>1. d \in Nat
  OBVIOUS
<1>2. d * P >= 0
  <2> HIDE DEF d
  <2> QED BY <1>1
<1>3. d * P = b * P - a * P - P
  OBVIOUS
<1>4. a * P \in Int /\ b * P \in Int
  OBVIOUS
<1> HIDE DEF d
<1> QED BY <1>2, <1>3, <1>4

\* Division with a rest.
LEMMA Divided ==
  ASSUME NEW P \in Nat \ {0}, NEW x \in Int
  PROVE  /\ x \div P \in Int /\ x % P \in 0 .. P - 1
         /\ x = (x \div P) * P + (x % P)
<1>1. x \div P \in Int
  OBVIOUS
<1>2. x % P \in 0 .. P - 1
  OBVIOUS
<1>3. x = P * (x \div P) + (x % P)
  OBVIOUS
<1> QED BY <1>1, <1>2, <1>3

\* Quotient and rest are what they have to be.
LEMMA QuotientIs ==
  ASSUME NEW P \in Nat \ {0}, NEW q \in Int, NEW r \in 0 .. P - 1
  PROVE  (q * P + r) \div P = q /\ (q * P + r) % P = r
<1> DEFINE x == q * P + r
           d == x \div P
           m == x % P
<1>1. x \in Int /\ q * P \in Int
  OBVIOUS
<1>2. d \in Int /\ m \in 0 .. P - 1 /\ x = d * P + m
  <2> HIDE DEF x
  <2> QED BY <1>1, Divided
<1>3. d * P \in Int
  BY <1>2
<1> HIDE DEF d, m
<1>4. ~(d < q)
  <2> SUFFICES ASSUME d < q PROVE FALSE
    OBVIOUS
  <2>1. d * P + P <= q * P
    BY <1>2, Multiples
  <2> QED BY <1>1, <1>2, <1>3, <2>1
<1>5. ~(q < d)
  <2> SUFFICES ASSUME q < d PROVE FALSE
    OBVIOUS
  <2>1. q * P + P <= d * P
    BY <1>2, Multiples
  <2> QED BY <1>1, <1>2, <1>3, <2>1
<1>6. d = q
  BY <1>2, <1>4, <1>5
<1>7. m = r
  BY <1>1, <1>2, <1>6
<1> QED BY <1>6, <1>7 DEF d, m

------------------------------------------------------------------------------
\* Times with less than a second of microseconds, and those of them whose
\* seconds are an int.
Normal == Nat \X (0 .. O!Second - 1)
Short  == {tv \in Normal : tv[1] < HalfInt}

TaskRec == [nextrun : Short, period : Period, elapse_skip : BOOLEAN, dispatched : BOOLEAN]

\* Times.  A second has at least a microsecond; times of day in the model's
\* bounds, and the latest time a task can be given, have seconds that fit into
\* an int, and so have the differences between periods and between addresses.
OrderData ==
  /\ Millis \in Nat \ {0} /\ Micros \in Nat \ {0} /\ HalfInt \in Nat /\ MaxNow \in Nat
  /\ Delay \subseteq Nat /\ Period \subseteq Nat /\ Task \subseteq Int
  /\ O!Second <= HalfInt
  /\ MaxNow < HalfInt * O!Second
  /\ \A d \in Delay \cup Period : MaxNow + d * Micros < HalfInt * O!Second
  /\ \A p \in Period : p < HalfInt
  /\ \A a, b \in Task : a - b < HalfInt
  /\ NULL \notin TaskRec

\* A second has microseconds.
LEMMA SecondIs ==
  ASSUME OrderData PROVE O!Second \in Nat \ {0} /\ O!Second = Millis * Micros
BY DEF OrderData, O!Second

\* The time of a reading of the clock.
LEMMA TimeIs ==
  ASSUME OrderData, NEW us \in Nat
  PROVE  O!Time(us) \in Normal /\ O!Micro(O!Time(us)) = us
<1> DEFINE P == O!Second
           q == us \div P
           r == us % P
<1>1. P \in Nat \ {0}
  BY SecondIs
<1> HIDE DEF P
<1>2. q \in Int /\ r \in 0 .. P - 1 /\ us = q * P + r
  BY <1>1, Divided
<1>3. q * P \in Int
  BY <1>1, <1>2
<1> HIDE DEF q, r
<1>4. q \in Nat
  <2> SUFFICES ASSUME q < 0 PROVE FALSE
    BY <1>2
  <2>1. q * P + P <= 0 * P
    BY <1>1, <1>2, Multiples
  <2> QED BY <1>1, <1>2, <1>3, <2>1
<1>5. O!Time(us) = <<q, r>>
  BY DEF O!Time, P, q, r
<1> QED BY <1>2, <1>4, <1>5 DEF Normal, O!Micro, P

\* Microseconds order times as the pair does, and tell normal times apart.
LEMMA MicroOrders ==
  ASSUME OrderData, NEW a \in Normal, NEW b \in Normal
  PROVE  /\ O!Micro(a) \in Nat
         /\ O!Micro(a) < O!Micro(b) <=> a[1] < b[1] \/ (a[1] = b[1] /\ a[2] < b[2])
<1> DEFINE P == O!Second
<1>1. P \in Nat \ {0}
  BY SecondIs
<1>2. /\ a[1] \in Nat /\ a[2] \in 0 .. P - 1 /\ b[1] \in Nat /\ b[2] \in 0 .. P - 1
      /\ O!Micro(a) = a[1] * P + a[2] /\ O!Micro(b) = b[1] * P + b[2]
  BY DEF Normal, O!Micro
<1> HIDE DEF P
<1>3. a[1] * P \in Nat /\ b[1] * P \in Nat
  BY <1>1, <1>2
<1>4. a[1] < b[1] => a[1] * P + P <= b[1] * P
  BY <1>1, <1>2, Multiples
<1>5. b[1] < a[1] => b[1] * P + P <= a[1] * P
  BY <1>1, <1>2, Multiples
<1>6. a[1] = b[1] => a[1] * P = b[1] * P
  OBVIOUS
<1> QED BY <1>1, <1>2, <1>3, <1>4, <1>5, <1>6

\* A time is short when it is early enough.
LEMMA ShortIs ==
  ASSUME OrderData, NEW a \in Normal, O!Micro(a) < HalfInt * O!Second
  PROVE  a \in Short
<1> DEFINE P == O!Second
<1>1. P \in Nat \ {0}
  BY SecondIs
<1>2. /\ a[1] \in Nat /\ a[2] \in 0 .. P - 1 /\ HalfInt \in Nat
      /\ O!Micro(a) = a[1] * P + a[2] /\ O!Micro(a) < HalfInt * P
  BY DEF Normal, O!Micro, OrderData
<1> HIDE DEF P
<1>3. HalfInt * P \in Nat /\ a[1] * P \in Nat
  BY <1>1, <1>2
<1>4. ~(HalfInt <= a[1])
  <2> SUFFICES ASSUME HalfInt <= a[1] PROVE FALSE
    OBVIOUS
  <2>1. CASE HalfInt = a[1]
    BY <1>2, <1>3, <2>1
  <2>2. CASE HalfInt < a[1]
    <3>1. HalfInt * P + P <= a[1] * P
      BY <1>1, <1>2, <2>2, Multiples
    <3> QED BY <1>1, <1>2, <1>3, <3>1
  <2> QED BY <1>2, <2>1, <2>2
<1> QED BY <1>2, <1>4 DEF Short

\* A conversion to int keeps what fits.
LEMMA CastKeeps ==
  ASSUME HalfInt \in Nat, NEW x \in Int, -HalfInt < x, x < HalfInt
  PROVE  O!Cast(x) = x
<1> DEFINE P == 2 * HalfInt
<1>1. P \in Nat \ {0} /\ x + HalfInt \in 0 .. P - 1 /\ 0 \in Int
  OBVIOUS
<1>2. 0 * P + (x + HalfInt) = x + HalfInt
  BY <1>1
<1>3. (0 * P + (x + HalfInt)) % P = x + HalfInt
  <2> HIDE DEF P
  <2> QED BY <1>1, QuotientIs
<1>4. (x + HalfInt) % P = x + HalfInt
  BY <1>2, <1>3
<1> QED BY <1>4 DEF O!Cast

\* So comparing times, as ints, compares them.
LEMMA TimesCompare ==
  ASSUME OrderData, NEW a \in Short, NEW b \in Short
  PROVE  LET c == O!TimerTVCompare(a, b)
         IN /\ c \in Int
            /\ c < 0 <=> O!Micro(a) < O!Micro(b)
            /\ c > 0 <=> O!Micro(b) < O!Micro(a)
<1> DEFINE P == O!Second
<1>1. P \in Nat \ {0} /\ P <= HalfInt /\ HalfInt \in Nat
  BY SecondIs DEF OrderData
<1>2. /\ a \in Normal /\ b \in Normal
      /\ a[1] \in 0 .. HalfInt - 1 /\ a[2] \in 0 .. P - 1
      /\ b[1] \in 0 .. HalfInt - 1 /\ b[2] \in 0 .. P - 1
  BY <1>1 DEF Short, Normal
<1> HIDE DEF P
<1>3. O!Cast(a[1] - b[1]) = a[1] - b[1] /\ O!Cast(a[2] - b[2]) = a[2] - b[2]
  <2>1. /\ a[1] - b[1] \in Int /\ -HalfInt < a[1] - b[1] /\ a[1] - b[1] < HalfInt
        /\ a[2] - b[2] \in Int /\ -HalfInt < a[2] - b[2] /\ a[2] - b[2] < HalfInt
    BY <1>1, <1>2
  <2> QED BY <1>1, <2>1, CastKeeps
<1>4. O!TimerTVCompare(a, b) = IF a[1] - b[1] = 0 THEN a[2] - b[2] ELSE a[1] - b[1]
  BY <1>3 DEF O!TimerTVCompare
<1>5. /\ O!Micro(a) < O!Micro(b) <=> a[1] < b[1] \/ (a[1] = b[1] /\ a[2] < b[2])
      /\ O!Micro(b) < O!Micro(a) <=> b[1] < a[1] \/ (b[1] = a[1] /\ b[2] < a[2])
  BY <1>2, MicroOrders
<1> QED BY <1>2, <1>4, <1>5

\* A number of milliseconds later is that much later.
LEMMA DelayedIs ==
  ASSUME OrderData, NEW tv \in Normal, NEW delay \in Nat
  PROVE  /\ O!TimerGetDelayed(tv, delay) \in Normal
         /\ O!Micro(O!TimerGetDelayed(tv, delay)) = O!Micro(tv) + delay * Micros
<1> DEFINE P == O!Second
           q == delay \div Millis
           r == delay % Millis
           sec == tv[1] + q
           usec == tv[2] + r * Micros
<1>1. /\ P \in Nat \ {0} /\ P = Millis * Micros
      /\ Millis \in Nat \ {0} /\ Micros \in Nat \ {0}
  BY SecondIs DEF OrderData
<1>2. tv[1] \in Nat /\ tv[2] \in 0 .. P - 1 /\ O!Micro(tv) = tv[1] * P + tv[2]
  BY DEF Normal, O!Micro
<1>3. q \in Int /\ r \in 0 .. Millis - 1 /\ delay = q * Millis + r
  BY <1>1, Divided
<1>4. O!TimerGetDelayed(tv, delay) = IF usec >= P THEN <<sec + 1, usec - P>> ELSE <<sec, usec>>
  BY DEF O!TimerGetDelayed
<1> HIDE DEF P, q, r
<1>5. q \in Nat
  <2> SUFFICES ASSUME q < 0 PROVE FALSE
    BY <1>3
  <2>1. q * Millis + Millis <= 0 * Millis
    BY <1>1, <1>3, Multiples
  <2>2. q * Millis \in Int
    BY <1>1, <1>3
  <2> QED BY <1>1, <1>3, <2>1, <2>2
<1>6. r * Micros \in Nat /\ r * Micros < P
  <2>1. r < Millis /\ r \in Nat
    BY <1>1, <1>3
  <2>2. r * Micros + Micros <= Millis * Micros
    BY <1>1, <2>1, Multiples
  <2>3. r * Micros \in Nat
    BY <1>1, <2>1
  <2> QED BY <1>1, <2>2, <2>3
<1>7. delay * Micros = q * P + r * Micros /\ q * P \in Nat
  <2>1. delay * Micros = (q * Millis + r) * Micros
    BY <1>3
  <2>2. (q * Millis + r) * Micros = q * (Millis * Micros) + r * Micros
    BY <1>1, <1>3
  <2> QED BY <1>1, <1>5, <2>1, <2>2
<1>8. tv[1] * P \in Nat /\ sec * P = tv[1] * P + q * P /\ (sec + 1) * P = tv[1] * P + q * P + P
  BY <1>1, <1>2, <1>5
<1>9. sec \in Nat /\ usec \in Nat /\ usec < P + P
  BY <1>1, <1>2, <1>5, <1>6
<1>10. CASE usec >= P
  <2>1. <<sec + 1, usec - P>> \in Normal
    BY <1>1, <1>9, <1>10 DEF Normal, P
  <2>2. O!Micro(<<sec + 1, usec - P>>) = (sec + 1) * P + (usec - P)
    BY DEF O!Micro, P
  <2> HIDE DEF sec
  <2>3. (sec + 1) * P + (usec - P) = tv[1] * P + q * P + (tv[2] + r * Micros)
    BY <1>1, <1>2, <1>6, <1>7, <1>8
  <2> QED BY <1>2, <1>4, <1>6, <1>7, <1>8, <1>10, <2>1, <2>2, <2>3
<1>11. CASE ~(usec >= P)
  <2>1. <<sec, usec>> \in Normal
    BY <1>1, <1>9, <1>11 DEF Normal, P
  <2>2. O!Micro(<<sec, usec>>) = sec * P + usec
    BY DEF O!Micro, P
  <2> HIDE DEF sec
  <2>3. sec * P + usec = tv[1] * P + q * P + (tv[2] + r * Micros)
    BY <1>1, <1>2, <1>6, <1>7, <1>8
  <2> QED BY <1>2, <1>4, <1>6, <1>7, <1>8, <1>11, <2>1, <2>2, <2>3
<1> QED BY <1>10, <1>11

------------------------------------------------------------------------------
\* The order of tasks: by the time of the next run, the period, the address.
Goes(task, a, b) ==
  LET x == O!Micro(task[a].nextrun)
      y == O!Micro(task[b].nextrun)
  IN  x < y \/ (x = y /\ (task[a].period < task[b].period \/
                          (task[a].period = task[b].period /\ a < b)))

\* It is a total order, and one of times in particular.
LEMMA GoesOrders ==
  ASSUME OrderData, NEW task, NEW a \in Task, NEW b \in Task,
         task[a] \in TaskRec, task[b] \in TaskRec
  PROVE  /\ O!Micro(task[a].nextrun) \in Nat
         /\ Goes(task, a, b) => O!Micro(task[a].nextrun) <= O!Micro(task[b].nextrun)
         /\ ~Goes(task, a, a)
         /\ a = b \/ Goes(task, a, b) \/ Goes(task, b, a)
         /\ ~(Goes(task, a, b) /\ Goes(task, b, a))
         /\ \A c \in Task : task[c] \in TaskRec /\ Goes(task, a, b) /\ Goes(task, b, c)
              => Goes(task, a, c)
<1>1. ASSUME NEW x \in Task, task[x] \in TaskRec
      PROVE  O!Micro(task[x].nextrun) \in Nat /\ task[x].period \in Nat /\ x \in Int
  <2>1. task[x].nextrun \in Normal /\ task[x].period \in Period
    BY <1>1 DEF TaskRec, Short
  <2> QED BY <2>1, MicroOrders DEF OrderData
<1> QED BY <1>1 DEF Goes

\* TimerTaskComp compares by it.
LEMMA TasksCompare ==
  ASSUME OrderData, NEW task, NEW a \in Task, NEW b \in Task,
         task[a] \in TaskRec, task[b] \in TaskRec
  PROVE  LET c == O!TimerTaskComp(task, a, b)
         IN /\ c \in Int
            /\ c < 0 <=> Goes(task, a, b)
            /\ c > 0 <=> Goes(task, b, a)
<1> DEFINE x == O!Micro(task[a].nextrun)
           y == O!Micro(task[b].nextrun)
           byTime == O!TimerTVCompare(task[a].nextrun, task[b].nextrun)
           p == task[a].period
           q == task[b].period
<1>1. /\ task[a].nextrun \in Short /\ task[b].nextrun \in Short
      /\ p \in Period /\ q \in Period
  BY DEF TaskRec
<1>2. byTime \in Int /\ (byTime < 0 <=> x < y) /\ (byTime > 0 <=> y < x)
  BY <1>1, TimesCompare
<1>3. x \in Nat /\ y \in Nat
  BY <1>1, MicroOrders DEF Short
<1>4. /\ HalfInt \in Nat /\ p \in Nat /\ q \in Nat /\ p < HalfInt /\ q < HalfInt
      /\ a \in Int /\ b \in Int /\ a - b < HalfInt /\ b - a < HalfInt
  BY <1>1 DEF OrderData
<1> HIDE DEF p, q
<1>5. O!Cast(p - q) = p - q /\ O!Cast(a - b) = a - b
  <2>1. /\ p - q \in Int /\ -HalfInt < p - q /\ p - q < HalfInt
        /\ a - b \in Int /\ -HalfInt < a - b /\ a - b < HalfInt
    BY <1>4
  <2> QED BY <1>4, <2>1, CastKeeps
<1>6. O!TimerTaskComp(task, a, b) =
        IF byTime # 0 THEN byTime ELSE IF p - q # 0 THEN p - q ELSE a - b
  BY <1>5 DEF O!TimerTaskComp, p, q
<1>7. /\ Goes(task, a, b) <=> x < y \/ (x = y /\ (p < q \/ (p = q /\ a < b)))
      /\ Goes(task, b, a) <=> y < x \/ (y = x /\ (q < p \/ (q = p /\ b < a)))
  BY DEF Goes, p, q
<1> HIDE DEF byTime, x, y
<1> QED BY <1>2, <1>3, <1>4, <1>6, <1>7

------------------------------------------------------------------------------
\* The array of scheduled tasks: each task of a set once, in that order.
Waiting(task) == {t \in Task : task[t] # NULL /\ ~task[t].dispatched}
Ascending(task, s) == \A i, j \in 1 .. Len(s) : i < j => Goes(task, s[i], s[j])
InOrder(task, s, W) ==
  /\ s \in Seq(Task)
  /\ \A i \in 1 .. Len(s) : s[i] \in W
  /\ \A w \in W : \E i \in 1 .. Len(s) : s[i] = w
  /\ Ascending(task, s)

\* The instance's operators on arrays are these modules' own.
LEMMA SameArrays ==
  /\ \A cmps : O!SearchPrivate(cmps) = SearchPrivate(cmps)
  /\ \A s, i, e : O!InsertAt(s, i, e) = InsertAt(s, i, e)
  /\ \A s, i : O!RemoveAt(s, i) = RemoveAt(s, i)
BY DEF O!SearchPrivate, SearchPrivate, O!InsertAt, InsertAt, O!RemoveAt, RemoveAt

\* Where the search for a task ends in such an array.
LEMMA TaskSearched ==
  ASSUME OrderData, NEW task, NEW s, NEW W \in SUBSET Task, NEW t \in Task,
         InOrder(task, s, W), task[t] \in TaskRec, \A w \in W : task[w] \in TaskRec
  PROVE  LET at == O!SearchPrivate(O!Compared(s, task, t))
         IN \/ /\ at.found = 1 /\ at.idx \in 0 .. Len(s) - 1
               /\ s[at.idx + 1] = t
            \/ /\ at.found = 2 /\ at.idx \in 0 .. Len(s)
               /\ \A i \in 1 .. at.idx : Goes(task, s[i], t)
               /\ \A i \in at.idx + 1 .. Len(s) : Goes(task, t, s[i])
<1> DEFINE cmps == O!Compared(s, task, t)
<1>1. Len(s) \in Nat /\ \A i \in 1 .. Len(s) : s[i] \in Task /\ task[s[i]] \in TaskRec
  BY LenProperties DEF InOrder
<1>2. cmps = [i \in 1 .. Len(s) |-> O!TimerTaskComp(task, t, s[i])]
  BY DEF O!Compared
<1>3. ASSUME NEW i \in 1 .. Len(s)
      PROVE  /\ cmps[i] \in Int
             /\ cmps[i] < 0 <=> Goes(task, t, s[i])
             /\ cmps[i] > 0 <=> Goes(task, s[i], t)
             /\ cmps[i] = 0 => s[i] = t
  <2>1. cmps[i] = O!TimerTaskComp(task, t, s[i])
    BY <1>2
  <2>2. s[i] \in Task /\ task[s[i]] \in TaskRec
    BY <1>1
  <2> HIDE DEF cmps
  <2>3. /\ cmps[i] \in Int
        /\ cmps[i] < 0 <=> Goes(task, t, s[i])
        /\ cmps[i] > 0 <=> Goes(task, s[i], t)
    BY <2>1, <2>2, TasksCompare
  <2>4. t = s[i] \/ Goes(task, t, s[i]) \/ Goes(task, s[i], t)
    BY <2>2, GoesOrders
  <2> QED BY <2>3, <2>4
<1>4. Len(cmps) = Len(s)
  <2>1. cmps \in [1 .. Len(s) -> Int]
    BY <1>2, <1>3
  <2> HIDE DEF cmps
  <2> QED BY <1>1, <2>1, SeqDef, LenProperties
<1> HIDE DEF cmps
<1>5. Signs(cmps)
  BY <1>3, <1>4 DEF Signs
<1>6. ASSUME NEW i \in 1 .. Len(s), NEW j \in 1 .. Len(s), i < j, cmps[i] <= 0
      PROVE  cmps[j] < 0
  <2>1. Goes(task, s[i], s[j])
    BY <1>6 DEF InOrder, Ascending
  <2>2. t = s[i] \/ Goes(task, t, s[i])
    <3>1. cmps[i] < 0 \/ cmps[i] = 0
      BY <1>3, <1>6
    <3> QED BY <1>3, <3>1
  <2>3. Goes(task, t, s[j])
    BY <1>1, <2>1, <2>2, GoesOrders
  <2> QED BY <1>3, <2>3
<1>7. Sorting(cmps)
  BY <1>4, <1>6 DEF Sorting
<1>8. LET at == SearchPrivate(cmps)
      IN \/ /\ at.found = 1 /\ at.idx \in 0 .. Len(cmps) - 1
            /\ cmps[at.idx + 1] = 0
         \/ /\ at.found = 2 /\ at.idx \in 0 .. Len(cmps)
            /\ \A i \in 1 .. at.idx : cmps[i] > 0
            /\ \A i \in at.idx + 1 .. Len(cmps) : cmps[i] < 0
  BY <1>1, <1>4, <1>5, <1>7, SearchFinds
<1> DEFINE at == SearchPrivate(cmps)
<1>9. O!SearchPrivate(O!Compared(s, task, t)) = at
  BY SameArrays DEF cmps
<1> HIDE DEF at
<1>10. CASE /\ at.found = 1 /\ at.idx \in 0 .. Len(s) - 1
            /\ cmps[at.idx + 1] = 0
  <2>1. at.idx + 1 \in 1 .. Len(s)
    BY <1>1, <1>10
  <2>2. s[at.idx + 1] = t
    BY <1>3, <1>10, <2>1
  <2> QED BY <1>9, <1>10, <2>2
<1>11. CASE /\ at.found = 2 /\ at.idx \in 0 .. Len(s)
            /\ \A i \in 1 .. at.idx : cmps[i] > 0
            /\ \A i \in at.idx + 1 .. Len(s) : cmps[i] < 0
  <2>1. /\ \A i \in 1 .. at.idx : i \in 1 .. Len(s)
        /\ \A i \in at.idx + 1 .. Len(s) : i \in 1 .. Len(s)
    BY <1>1, <1>11
  <2>2. /\ \A i \in 1 .. at.idx : Goes(task, s[i], t)
        /\ \A i \in at.idx + 1 .. Len(s) : Goes(task, t, s[i])
    BY <1>3, <1>11, <2>1
  <2> QED BY <1>9, <1>11, <2>2
<1> QED BY <1>4, <1>8, <1>10, <1>11 DEF at

\* A task that is not there comes to its place.
LEMMA AddedKeeps ==
  ASSUME OrderData, NEW task, NEW s, NEW W \in SUBSET Task, NEW t \in Task, t \notin W,
         InOrder(task, s, W), task[t] \in TaskRec, \A w \in W : task[w] \in TaskRec
  PROVE  InOrder(task, O!Added(s, task, t), W \cup {t})
<1> DEFINE at == O!SearchPrivate(O!Compared(s, task, t))
           k == at.idx + 1
           r == InsertAt(s, k, t)
<1>1. s \in Seq(Task) /\ Len(s) \in Nat /\ \A i \in 1 .. Len(s) : s[i] \in W
  BY LenProperties DEF InOrder
<1>2. /\ at.found = 2 /\ at.idx \in 0 .. Len(s)
      /\ \A i \in 1 .. at.idx : Goes(task, s[i], t)
      /\ \A i \in at.idx + 1 .. Len(s) : Goes(task, t, s[i])
  <2>1. ~(at.found = 1 /\ at.idx \in 0 .. Len(s) - 1 /\ s[at.idx + 1] = t)
    <3> HIDE DEF at
    <3> QED BY <1>1
  <2> QED BY <2>1, TaskSearched
<1>3. O!Added(s, task, t) = r
  BY <1>2, SameArrays DEF O!Added
<1> HIDE DEF at
<1>4. /\ k \in 1 .. Len(s) + 1
      /\ \A i \in 1 .. k - 1 : i \in 1 .. Len(s) /\ Goes(task, s[i], t)
      /\ \A i \in k .. Len(s) : i \in 1 .. Len(s) /\ Goes(task, t, s[i])
  BY <1>1, <1>2
<1> HIDE DEF k
<1>5. /\ r \in Seq(Task) /\ Len(r) = Len(s) + 1
      /\ \A j \in 1 .. k - 1 : r[j] = s[j]
      /\ r[k] = t
      /\ \A j \in k + 1 .. Len(s) + 1 : r[j] = s[j - 1]
  <2>1. s \in Seq(Task) /\ k \in 1 .. Len(s) + 1
    BY <1>1, <1>4
  <2> QED BY <2>1, Inserted
<1> HIDE DEF r
<1>6. ASSUME NEW i \in 1 .. Len(r) PROVE r[i] \in W \cup {t}
  <2>1. \/ i \in 1 .. k - 1 /\ i \in 1 .. Len(s)
        \/ i = k
        \/ i \in k + 1 .. Len(s) + 1 /\ i - 1 \in 1 .. Len(s)
    BY <1>1, <1>4, <1>5
  <2> QED BY <1>1, <1>5, <2>1
<1>7. ASSUME NEW w \in W \cup {t} PROVE \E i \in 1 .. Len(r) : r[i] = w
  <2>1. CASE w = t
    <3>1. k \in 1 .. Len(r)
      BY <1>1, <1>4, <1>5
    <3> QED BY <1>5, <2>1, <3>1
  <2>2. CASE w \in W
    <3>1. PICK i \in 1 .. Len(s) : s[i] = w
      BY <2>2 DEF InOrder
    <3>2. CASE i < k
      <4>1. i \in 1 .. k - 1 /\ i \in 1 .. Len(r)
        BY <1>1, <1>4, <1>5, <3>2
      <4> QED BY <1>5, <3>1, <4>1
    <3>3. CASE ~(i < k)
      <4>1. i + 1 \in k + 1 .. Len(s) + 1 /\ i + 1 \in 1 .. Len(r) /\ (i + 1) - 1 = i
        BY <1>1, <1>4, <1>5, <3>3
      <4>2. r[i + 1] = s[(i + 1) - 1]
        BY <1>5, <4>1
      <4> QED BY <3>1, <4>1, <4>2
    <3> QED BY <3>2, <3>3
  <2> QED BY <2>1, <2>2
<1>8. ASSUME NEW i \in 1 .. Len(r), NEW j \in 1 .. Len(r), i < j
      PROVE  Goes(task, r[i], r[j])
  <2>1. i \in Int /\ j \in Int /\ k \in Int /\ i < j /\ 1 <= i /\ j <= Len(s) + 1
    BY <1>1, <1>4, <1>5, <1>8
  <2>2. CASE j < k
    <3>1. i \in 1 .. k - 1 /\ j \in 1 .. k - 1 /\ i \in 1 .. Len(s) /\ j \in 1 .. Len(s)
      BY <1>4, <2>1, <2>2
    <3> QED BY <1>5, <1>8, <3>1 DEF InOrder, Ascending
  <2>3. CASE j = k
    <3>1. i \in 1 .. k - 1
      BY <2>1, <2>3
    <3> QED BY <1>4, <1>5, <2>3, <3>1
  <2>4. CASE k < j /\ i < k
    <3>1. i \in 1 .. k - 1 /\ i \in 1 .. Len(s) /\ j \in k + 1 .. Len(s) + 1
          /\ j - 1 \in 1 .. Len(s) /\ i < j - 1
      BY <1>1, <1>4, <2>1, <2>4
    <3>2. r[i] = s[i] /\ r[j] = s[j - 1]
      BY <1>5, <3>1
    <3>3. Goes(task, s[i], s[j - 1])
      BY <3>1 DEF InOrder, Ascending
    <3> QED BY <3>2, <3>3
  <2>5. CASE k < j /\ i = k
    <3>1. j \in k + 1 .. Len(s) + 1 /\ j - 1 \in k .. Len(s)
      BY <1>1, <2>1, <2>5
    <3>2. r[i] = t /\ r[j] = s[j - 1]
      BY <1>5, <2>5, <3>1
    <3> QED BY <1>4, <3>1, <3>2
  <2>6. CASE k < i
    <3>1. /\ i \in k + 1 .. Len(s) + 1 /\ j \in k + 1 .. Len(s) + 1
          /\ i - 1 \in 1 .. Len(s) /\ j - 1 \in 1 .. Len(s) /\ i - 1 < j - 1
      BY <1>1, <1>4, <2>1, <2>6
    <3>2. r[i] = s[i - 1] /\ r[j] = s[j - 1]
      BY <1>5, <3>1
    <3>3. Goes(task, s[i - 1], s[j - 1])
      BY <3>1 DEF InOrder, Ascending
    <3> QED BY <3>2, <3>3
  <2> QED BY <2>1, <2>2, <2>3, <2>4, <2>5, <2>6
<1> QED BY <1>3, <1>5, <1>6, <1>7, <1>8 DEF InOrder, Ascending

\* What the order of two tasks is does not depend on others.
LEMMA OthersOrder ==
  ASSUME NEW task, NEW new, NEW s, NEW W, InOrder(task, s, W),
         \A w \in W : new[w].nextrun = task[w].nextrun /\ new[w].period = task[w].period
  PROVE  InOrder(new, s, W)
<1>1. ASSUME NEW a \in W, NEW b \in W PROVE Goes(new, a, b) <=> Goes(task, a, b)
  BY DEF Goes
<1>2. Ascending(new, s)
  <2> SUFFICES ASSUME NEW i \in 1 .. Len(s), NEW j \in 1 .. Len(s), i < j
               PROVE  Goes(new, s[i], s[j])
    BY DEF Ascending
  <2>1. s[i] \in W /\ s[j] \in W /\ Goes(task, s[i], s[j])
    BY DEF InOrder, Ascending
  <2> QED BY <1>1, <2>1
<1> QED BY <1>2 DEF InOrder

\* A task that is there is found and taken out.
LEMMA RemovedKeeps ==
  ASSUME OrderData, NEW task, NEW s, NEW W \in SUBSET Task, NEW t \in W,
         InOrder(task, s, W), \A w \in W : task[w] \in TaskRec
  PROVE  InOrder(task, O!Removed(s, task, t), W \ {t})
<1> DEFINE at == O!SearchPrivate(O!Compared(s, task, t))
           k == at.idx + 1
           r == RemoveAt(s, k)
<1>1. /\ s \in Seq(Task) /\ Len(s) \in Nat /\ t \in Task
      /\ \A i \in 1 .. Len(s) : s[i] \in W /\ s[i] \in Task /\ task[s[i]] \in TaskRec
  BY LenProperties DEF InOrder
<1>2. /\ at.found = 1 /\ at.idx \in 0 .. Len(s) - 1
      /\ s[at.idx + 1] = t
  <2>1. ~(/\ at.found = 2 /\ at.idx \in 0 .. Len(s)
          /\ \A i \in 1 .. at.idx : Goes(task, s[i], t)
          /\ \A i \in at.idx + 1 .. Len(s) : Goes(task, t, s[i]))
    <3> HIDE DEF at
    <3>1. PICK i \in 1 .. Len(s) : s[i] = t
      BY DEF InOrder
    <3>2. ~Goes(task, t, t)
      BY <1>1, GoesOrders
    <3>3. at.idx \in 0 .. Len(s) => i \in 1 .. at.idx \/ i \in at.idx + 1 .. Len(s)
      BY <1>1
    <3> QED BY <3>1, <3>2, <3>3
  <2> QED BY <1>1, <2>1, TaskSearched
<1>3. O!Removed(s, task, t) = r
  BY <1>2, SameArrays DEF O!Removed
<1> HIDE DEF at
<1>4. k \in 1 .. Len(s) /\ s[k] = t
  BY <1>1, <1>2
<1> HIDE DEF k
<1>5. /\ r \in Seq(Task) /\ Len(r) = Len(s) - 1
      /\ \A j \in 1 .. k - 1 : r[j] = s[j]
      /\ \A j \in k .. Len(s) - 1 : r[j] = s[j + 1]
  BY <1>1, <1>4, Removed
<1> HIDE DEF r
\* Where an item of the result was.
<1> DEFINE Was(i) == IF i < k THEN i ELSE i + 1
<1>6. ASSUME NEW i \in 1 .. Len(r)
      PROVE  /\ r[i] = s[Was(i)] /\ Was(i) \in 1 .. Len(s) /\ Was(i) # k
             /\ i \in Int /\ Was(i) \in Int
  <2>1. i \in Int /\ k \in Int /\ 1 <= i /\ i <= Len(s) - 1
    BY <1>1, <1>4, <1>5
  <2>2. CASE i < k
    <3>1. i \in 1 .. k - 1 /\ i \in 1 .. Len(s)
      BY <1>1, <2>1, <2>2
    <3> QED BY <1>5, <2>1, <2>2, <3>1
  <2>3. CASE ~(i < k)
    <3>1. i \in k .. Len(s) - 1 /\ i + 1 \in 1 .. Len(s) /\ i + 1 # k
      BY <1>1, <2>1, <2>3
    <3> QED BY <1>5, <2>1, <2>3, <3>1
  <2> QED BY <2>2, <2>3
<1>7. \A i \in 1 .. Len(s) : i # k => s[i] # t
  <2> SUFFICES ASSUME NEW i \in 1 .. Len(s), i # k, s[i] = t PROVE FALSE
    OBVIOUS
  <2>1. i < k \/ k < i
    BY <1>4
  <2>2. Goes(task, t, t)
    BY <1>4, <2>1 DEF InOrder, Ascending
  <2> QED BY <1>1, <2>2, GoesOrders
<1>8. ASSUME NEW i \in 1 .. Len(r) PROVE r[i] \in W \ {t}
  BY <1>1, <1>6, <1>7
<1>9. ASSUME NEW w \in W \ {t} PROVE \E i \in 1 .. Len(r) : r[i] = w
  <2>1. PICK i \in 1 .. Len(s) : s[i] = w
    BY DEF InOrder
  <2>2. i # k /\ i \in Int /\ k \in Int
    BY <1>4, <2>1
  <2>3. CASE i < k
    <3>1. i \in 1 .. k - 1 /\ i \in 1 .. Len(r)
      BY <1>1, <1>4, <1>5, <2>3
    <3> QED BY <1>5, <2>1, <3>1
  <2>4. CASE k < i
    <3>1. i - 1 \in k .. Len(s) - 1 /\ i - 1 \in 1 .. Len(r) /\ (i - 1) + 1 = i
      BY <1>1, <1>4, <1>5, <2>4
    <3>2. r[i - 1] = s[(i - 1) + 1]
      BY <1>5, <3>1
    <3> QED BY <2>1, <3>1, <3>2
  <2> QED BY <2>2, <2>3, <2>4
<1>10. ASSUME NEW i \in 1 .. Len(r), NEW j \in 1 .. Len(r), i < j
       PROVE  Goes(task, r[i], r[j])
  <2>1. Was(i) < Was(j)
    BY <1>4, <1>6, <1>10
  <2>2. /\ r[i] = s[Was(i)] /\ Was(i) \in 1 .. Len(s)
        /\ r[j] = s[Was(j)] /\ Was(j) \in 1 .. Len(s)
    BY <1>6
  <2> HIDE DEF Was
  <2> QED BY <2>1, <2>2 DEF InOrder, Ascending
<1> QED BY <1>3, <1>5, <1>8, <1>9, <1>10 DEF InOrder, Ascending

\* The main loop stops at the first task that is not due, and those behind it
\* are not due either.
LEMMA RestIs ==
  ASSUME OrderData, NEW task, NEW s, NEW W \in SUBSET Task, NEW curr \in Short,
         InOrder(task, s, W), \A w \in W : task[w] \in TaskRec
  PROVE  \E due \in 0 .. Len(s) :
           /\ O!Rest(s, task, curr) = SubSeq(s, due + 1, Len(s))
           /\ \A i \in 1 .. Len(s) :
                O!Micro(task[s[i]].nextrun) <= O!Micro(curr) <=> i <= due
<1> DEFINE E(k) == O!TimerIsElapsed(task[s[k + 1]].nextrun, curr)
           C == {k \in Nat : ~(k = Len(s) \/ ~E(k))}
           nx == [k \in Nat |-> k + 1]
           Loop(f) == f = [k \in Nat |-> IF k = Len(s) \/ ~E(k) THEN k ELSE f[k + 1]]
           skip == CHOOSE f : Loop(f)
           due == skip[0]
<1>1. /\ s \in Seq(Task) /\ Len(s) \in Nat
      /\ \A i \in 1 .. Len(s) : s[i] \in Task /\ task[s[i]] \in TaskRec
  BY LenProperties DEF InOrder
<1>2. O!Rest(s, task, curr) = SubSeq(s, due + 1, Len(s))
  BY DEF O!Rest
<1>3. Loop(skip)
  <2>1. Stays(Nat, C, nx)
    BY DEF Stays
  <2>2. PICK f : IsLoop(f, Nat, C, nx)
    <3> HIDE DEF C, nx
    <3> QED BY <2>1, LoopExists
  <2>3. ASSUME NEW x \in Nat
        PROVE  (IF x \in C THEN f[nx[x]] ELSE x) = IF x = Len(s) \/ ~E(x) THEN x ELSE f[x + 1]
    <3> HIDE DEF E
    <3> QED OBVIOUS
  <2>4. Loop(f)
    <3> HIDE DEF C, nx, E
    <3> QED BY <2>2, <2>3 DEF IsLoop
  <2> HIDE DEF Loop
  <2> QED BY <2>4
<1>4. \A k \in Nat : skip[k] = IF k = Len(s) \/ ~E(k) THEN k ELSE skip[k + 1]
  <2> HIDE DEF skip, E
  <2> QED BY <1>3
<1> HIDE DEF skip
<1>5. ASSUME NEW k \in 0 .. Len(s) - 1
      PROVE  E(k) <=> O!Micro(task[s[k + 1]].nextrun) <= O!Micro(curr)
  <2> DEFINE tv == task[s[k + 1]].nextrun
  <2>1. k + 1 \in 1 .. Len(s)
    BY <1>1
  <2>2. tv \in Short
    BY <1>1, <2>1 DEF TaskRec
  <2> HIDE DEF tv
  <2>3. /\ O!TimerTVCompare(tv, curr) \in Int
        /\ O!TimerTVCompare(tv, curr) > 0 <=> O!Micro(curr) < O!Micro(tv)
    BY <2>2, TimesCompare
  <2>4. O!Micro(tv) \in Nat /\ O!Micro(curr) \in Nat
    BY <2>2, MicroOrders DEF Short
  <2>5. O!TimerIsElapsed(tv, curr) <=> O!Micro(tv) <= O!Micro(curr)
    BY <2>3, <2>4 DEF O!TimerIsElapsed
  <2> QED BY <2>5 DEF tv
<1> HIDE DEF E
<1> DEFINE Stops(k) == /\ skip[k] \in k .. Len(s)
                       /\ \A i \in k .. skip[k] - 1 : E(i)
                       /\ skip[k] < Len(s) => ~E(skip[k])
           T == {m \in Nat : \A k \in 0 .. Len(s) : Len(s) - k <= m => Stops(k)}
<1>6. ASSUME NEW k \in 0 .. Len(s), k = Len(s) \/ ~E(k) PROVE Stops(k)
  <2>1. skip[k] = k
    BY <1>4, <1>6
  <2> QED BY <1>1, <1>6, <2>1
<1>7. ASSUME NEW k \in 0 .. Len(s), k # Len(s), E(k), Stops(k + 1) PROVE Stops(k)
  <2>1. skip[k] = skip[k + 1]
    BY <1>4, <1>7
  <2>2. /\ skip[k] \in k .. Len(s)
        /\ \A i \in k .. skip[k] - 1 : i = k \/ i \in k + 1 .. skip[k + 1] - 1
    BY <1>1, <1>7, <2>1
  <2> QED BY <1>7, <2>1, <2>2
<1>8. 0 \in T
  <2>1. \A k \in 0 .. Len(s) : Len(s) - k <= 0 => k = Len(s)
    BY <1>1
  <2> HIDE DEF Stops
  <2> QED BY <1>6, <2>1
<1>9. ASSUME NEW m \in Nat, m \in T PROVE m + 1 \in T
  <2>1. SUFFICES ASSUME NEW k \in 0 .. Len(s), Len(s) - k <= m + 1 PROVE Stops(k)
    <3> HIDE DEF Stops
    <3> QED BY <2>1
  <2>2. k # Len(s) => k + 1 \in 0 .. Len(s) /\ Len(s) - (k + 1) <= m
    BY <1>1, <2>1
  <2>3. k # Len(s) => Stops(k + 1)
    <3> HIDE DEF Stops
    <3> QED BY <1>9, <2>2
  <2> HIDE DEF Stops
  <2> QED BY <1>6, <1>7, <2>3
<1>10. Nat \subseteq T
  <2> HIDE DEF T
  <2> QED BY <1>8, <1>9, SetInduction
<1>11. Stops(0)
  <2>1. Len(s) \in T
    <3> HIDE DEF T
    <3> QED BY <1>1, <1>10
  <2>2. 0 \in 0 .. Len(s) /\ Len(s) - 0 <= Len(s)
    BY <1>1
  <2> HIDE DEF Stops
  <2> QED BY <2>1, <2>2
<1>12. /\ due \in 0 .. Len(s)
       /\ \A i \in 0 .. due - 1 : E(i)
       /\ due < Len(s) => ~E(due)
  BY <1>11
<1> HIDE DEF due
<1>13. ASSUME NEW i \in 1 .. Len(s)
       PROVE  O!Micro(task[s[i]].nextrun) <= O!Micro(curr) <=> i <= due
  <2>1. CASE i <= due
    <3>1. i - 1 \in 0 .. due - 1 /\ i - 1 \in 0 .. Len(s) - 1 /\ (i - 1) + 1 = i
      BY <1>1, <1>12, <2>1
    <3>2. O!Micro(task[s[(i - 1) + 1]].nextrun) <= O!Micro(curr)
      BY <1>5, <1>12, <3>1
    <3> QED BY <2>1, <3>1, <3>2
  <2>2. CASE ~(i <= due)
    <3>1. due < Len(s) /\ due \in 0 .. Len(s) - 1 /\ due + 1 \in 1 .. Len(s)
          /\ (due + 1 = i \/ due + 1 < i)
      BY <1>1, <1>12, <2>2
    <3> DEFINE x == O!Micro(task[s[due + 1]].nextrun)
               y == O!Micro(task[s[i]].nextrun)
               c == O!Micro(curr)
    <3>2. ~(x <= c)
      BY <1>5, <1>12, <3>1
    <3>3. x \in Nat /\ y \in Nat /\ c \in Nat
      <4>1. c \in Nat
        BY MicroOrders DEF Short
      <4>2. s[due + 1] \in Task /\ task[s[due + 1]] \in TaskRec /\ s[i] \in Task /\ task[s[i]] \in TaskRec
        BY <1>1, <3>1
      <4> QED BY <4>1, <4>2, GoesOrders
    <3>4. x <= y
      <4>1. CASE due + 1 = i
        BY <3>3, <4>1
      <4>2. CASE due + 1 < i
        <5>1. Goes(task, s[due + 1], s[i])
          BY <3>1, <4>2 DEF InOrder, Ascending
        <5> QED BY <1>1, <3>1, <5>1, GoesOrders
      <4> QED BY <3>1, <4>1, <4>2
    <3> HIDE DEF x, y, c
    <3>5. ~(y <= c)
      BY <3>2, <3>3, <3>4
    <3> QED BY <2>2, <3>5 DEF y, c
  <2> QED BY <2>1, <2>2
<1> QED BY <1>2, <1>12, <1>13

------------------------------------------------------------------------------
\* What a run of a repeating task leaves of it: before and after are the times of
\* this run and the next one, step its period, in microseconds.
Steps(before, after, step, skip, now) ==
  /\ \E k \in Nat : after = before + (k + 1) * step
  /\ after - before > step => skip /\ after - step < now
  /\ skip => after >= now

\* Adding a period to any pair of numbers gives such a pair.
LEMMA DelayedPair ==
  ASSUME OrderData, NEW tv \in Nat \X Nat, NEW delay \in Nat
  PROVE  O!TimerGetDelayed(tv, delay) \in Nat \X Nat
<1> DEFINE q == delay \div Millis
           r == delay % Millis
           m == r * Micros
           sec == tv[1] + q
           usec == tv[2] + m
<1>1. O!Second \in Nat \ {0} /\ Millis \in Nat \ {0} /\ Micros \in Nat
  BY SecondIs DEF OrderData
<1>2. q \in Nat /\ r \in Nat
  BY <1>1
<1>4. O!TimerGetDelayed(tv, delay) =
        IF usec >= O!Second THEN <<sec + 1, usec - O!Second>> ELSE <<sec, usec>>
  BY DEF O!TimerGetDelayed
<1> HIDE DEF q, r
<1>3. m \in Nat
  BY <1>1, <1>2
<1> HIDE DEF m
<1> QED BY <1>1, <1>2, <1>3, <1>4

\* The loop that looks for the next run ends, with the first one that will do.
LEMMA NextRunIs ==
  ASSUME OrderData, NEW rec \in TaskRec, order.now \in 0 .. MaxNow, rec.period # 0,
         O!Micro(rec.nextrun) <= order.now
  PROVE  /\ O!NextRun(rec) \in Short
         /\ Steps(O!Micro(rec.nextrun), O!Micro(O!NextRun(rec)), rec.period * Micros,
                  rec.elapse_skip, order.now)
<1> DEFINE now == order.now
           p == rec.period
           step == p * Micros
           more == rec.elapse_skip
           Late(tv) == more /\ O!TimerTVCompare(O!Time(now), tv) > 0
           X == Nat \X Nat
           C == {tv \in X : Late(tv)}
           nx == [tv \in X |-> O!TimerGetDelayed(tv, p)]
           Loop(f) == f = [tv \in X |-> IF Late(tv) THEN f[O!TimerGetDelayed(tv, p)] ELSE tv]
           next == CHOOSE f : Loop(f)
           first == O!TimerGetDelayed(rec.nextrun, p)
<1>1. /\ p \in Period /\ p \in Nat \ {0} /\ Micros \in Nat \ {0} /\ more \in BOOLEAN
      /\ rec.nextrun \in Short /\ now \in Nat /\ now <= MaxNow /\ MaxNow \in Nat
      /\ MaxNow + step < HalfInt * O!Second
  <2>1. p \in Period /\ more \in BOOLEAN /\ rec.nextrun \in Short
    BY DEF TaskRec
  <2>2. p \in Nat \ {0}
    BY <2>1 DEF OrderData
  <2>3. MaxNow + step < HalfInt * O!Second
    <3> HIDE DEF p
    <3> QED BY <2>1 DEF OrderData
  <2> QED BY <2>1, <2>2, <2>3 DEF OrderData
<1>2. O!NextRun(rec) = next[first]
  BY DEF O!NextRun
<1> HIDE DEF now, p, more
<1>3. step \in Nat /\ step > 0
  <2>1. p * Micros >= 1 * Micros
    <3>1. CASE p = 1
      BY <1>1, <3>1
    <3>2. CASE 1 < p
      <4>1. 1 * Micros + Micros <= p * Micros
        BY <1>1, <3>2, Multiples
      <4>2. p * Micros \in Int
        BY <1>1
      <4> QED BY <1>1, <4>1, <4>2
    <3> QED BY <1>1, <3>1, <3>2
  <2>2. p * Micros \in Nat
    BY <1>1
  <2> QED BY <1>1, <2>1, <2>2
<1>4. Loop(next)
  <2>1. Stays(X, C, nx)
    <3> HIDE DEF Late
    <3> QED BY <1>1, DelayedPair DEF Stays
  <2>2. PICK f : IsLoop(f, X, C, nx)
    <3> HIDE DEF C, nx, X
    <3> QED BY <2>1, LoopExists
  <2>3. ASSUME NEW x \in X
        PROVE  (IF x \in C THEN f[nx[x]] ELSE x) = IF Late(x) THEN f[O!TimerGetDelayed(x, p)] ELSE x
    <3> HIDE DEF Late, X
    <3> QED OBVIOUS
  <2>4. Loop(f)
    <3> HIDE DEF C, nx, Late, X
    <3> QED BY <2>2, <2>3 DEF IsLoop
  <2> HIDE DEF Loop
  <2> QED BY <2>4
<1>5. \A tv \in X : next[tv] = IF Late(tv) THEN next[O!TimerGetDelayed(tv, p)] ELSE tv
  <2> HIDE DEF next, Late, X
  <2> QED BY <1>4
<1> HIDE DEF next
<1>6. ASSUME NEW tv \in Short
      PROVE  tv \in X /\ O!Micro(tv) \in Nat /\ (Late(tv) <=> more /\ O!Micro(tv) < now)
  <2>1. tv \in Normal /\ tv \in X
    BY DEF Short, Normal
  <2>2. O!Time(now) \in Short /\ O!Micro(O!Time(now)) = now
    <3>1. O!Time(now) \in Normal /\ O!Micro(O!Time(now)) = now
      BY <1>1, TimeIs
    <3>2. HalfInt * O!Second \in Int /\ MaxNow < HalfInt * O!Second
      BY SecondIs DEF OrderData
    <3>3. O!Micro(O!Time(now)) < HalfInt * O!Second
      BY <1>1, <3>1, <3>2
    <3> QED BY <3>1, <3>3, ShortIs
  <2>3. O!TimerTVCompare(O!Time(now), tv) > 0 <=> O!Micro(tv) < O!Micro(O!Time(now))
    BY <2>2, TimesCompare
  <2> QED BY <2>1, <2>2, <2>3, MicroOrders
<1> HIDE DEF Late
<1>7. ASSUME NEW tv \in Short, O!Micro(tv) <= now
      PROVE  /\ O!TimerGetDelayed(tv, p) \in Short
             /\ O!Micro(O!TimerGetDelayed(tv, p)) = O!Micro(tv) + step
  <2>1. /\ O!TimerGetDelayed(tv, p) \in Normal
        /\ O!Micro(O!TimerGetDelayed(tv, p)) = O!Micro(tv) + step
    BY <1>1, DelayedIs DEF Short
  <2>2. HalfInt * O!Second \in Int /\ O!Micro(tv) \in Nat
    BY <1>6, SecondIs DEF OrderData
  <2> HIDE DEF step
  <2>3. O!Micro(O!TimerGetDelayed(tv, p)) < HalfInt * O!Second
    BY <1>1, <1>3, <1>7, <2>1, <2>2
  <2> QED BY <2>1, <2>3, ShortIs
\* Where the loop gets to from tv, that many periods on.
<1> DEFINE Gets(tv, k) ==
             /\ O!Micro(next[tv]) = O!Micro(tv) + k * step
             /\ k > 0 => more /\ O!Micro(next[tv]) - step < now
             /\ more => O!Micro(next[tv]) >= now
           GetsThere(tv) == next[tv] \in Short /\ \E k \in Nat : Gets(tv, k)
           T == {m \in Nat : \A tv \in Short : now - O!Micro(tv) <= m => GetsThere(tv)}
<1> HIDE DEF step
<1>8. ASSUME NEW tv \in Short, ~Late(tv) PROVE GetsThere(tv)
  <2>1. next[tv] = tv
    BY <1>5, <1>6, <1>8
  <2>2. 0 * step = 0
    BY <1>3
  <2>3. Gets(tv, 0)
    BY <1>1, <1>6, <1>8, <2>1, <2>2
  <2> HIDE DEF Gets
  <2> QED BY <2>1, <2>3
<1>9. ASSUME NEW tv \in Short, Late(tv), GetsThere(O!TimerGetDelayed(tv, p)) PROVE GetsThere(tv)
  <2> DEFINE tw == O!TimerGetDelayed(tv, p)
  <2>1. next[tv] = next[tw] /\ more /\ O!Micro(tv) < now /\ O!Micro(tv) \in Nat
    BY <1>5, <1>6, <1>9
  <2>2. tw \in Short /\ O!Micro(tw) = O!Micro(tv) + step
    BY <1>1, <1>7, <2>1
  <2>3. PICK k \in Nat : Gets(tw, k)
    BY <1>9
  <2>4. next[tw] \in Short
    BY <1>9
  <2> HIDE DEF tw
  <2>5. (k + 1) * step = k * step + step /\ k * step \in Nat
    BY <1>3
  <2>6. k = 0 => k * step = 0
    BY <1>3
  <2> DEFINE e == O!Micro(next[tw])
  <2>7. e \in Nat /\ e = O!Micro(tv) + step + k * step /\ (k > 0 => e - step < now) /\ (more => e >= now)
    <3>1. e \in Nat
      BY <1>6, <2>4
    <3> HIDE DEF e
    <3> QED BY <2>2, <2>3, <3>1 DEF e
  <2> HIDE DEF e
  <2>8. e - step < now
    <3>1. CASE k = 0
      BY <1>1, <1>3, <2>1, <2>6, <2>7, <3>1
    <3>2. CASE k > 0
      BY <2>7, <3>2
    <3> QED BY <3>1, <3>2
  <2>9. e = O!Micro(tv) + (k + 1) * step
    BY <1>3, <2>1, <2>5, <2>7
  <2>10. Gets(tv, k + 1)
    BY <2>1, <2>7, <2>8, <2>9 DEF e
  <2> HIDE DEF Gets
  <2> QED BY <2>1, <2>4, <2>10
<1>10. 0 \in T
  <2>1. ASSUME NEW tv \in Short, now - O!Micro(tv) <= 0 PROVE GetsThere(tv)
    <3>1. ~Late(tv)
      BY <1>1, <1>6, <2>1
    <3> HIDE DEF GetsThere
    <3> QED BY <1>8, <3>1
  <2> HIDE DEF GetsThere
  <2> QED BY <2>1
<1>11. ASSUME NEW m \in Nat, m \in T PROVE m + 1 \in T
  <2>1. ASSUME NEW tv \in Short, now - O!Micro(tv) <= m + 1, Late(tv) PROVE GetsThere(tv)
    <3>1. O!Micro(tv) < now /\ O!Micro(tv) \in Nat
      BY <1>6, <2>1
    <3>2. /\ O!TimerGetDelayed(tv, p) \in Short
          /\ O!Micro(O!TimerGetDelayed(tv, p)) = O!Micro(tv) + step
      BY <1>1, <1>7, <3>1
    <3>3. now - O!Micro(O!TimerGetDelayed(tv, p)) <= m
      BY <1>1, <1>3, <2>1, <3>1, <3>2
    <3> HIDE DEF GetsThere
    <3>4. GetsThere(O!TimerGetDelayed(tv, p))
      BY <1>11, <3>2, <3>3
    <3> QED BY <1>9, <2>1, <3>4
  <2>2. ASSUME NEW tv \in Short, now - O!Micro(tv) <= m + 1 PROVE GetsThere(tv)
    <3> HIDE DEF GetsThere
    <3> QED BY <1>8, <2>1, <2>2
  <2> HIDE DEF GetsThere
  <2> QED BY <2>2
<1>12. Nat \subseteq T
  <2> HIDE DEF T
  <2> QED BY <1>10, <1>11, SetInduction
<1> DEFINE before == O!Micro(rec.nextrun)
<1>13. before \in Nat /\ first \in Short /\ O!Micro(first) = before + step
  BY <1>1, <1>6, <1>7 DEF now
<1>14. GetsThere(first)
  <2>1. now \in T /\ O!Micro(first) \in Nat
    BY <1>1, <1>6, <1>12, <1>13
  <2>2. now - O!Micro(first) <= now
    BY <1>1, <2>1
  <2> HIDE DEF GetsThere
  <2> QED BY <1>13, <2>1, <2>2
<1>15. PICK k \in Nat : Gets(first, k)
  BY <1>14
<1> DEFINE e == O!Micro(next[first])
<1>16. next[first] \in Short /\ e \in Nat
  BY <1>6, <1>14
<1>17. /\ e = before + step + k * step
       /\ k > 0 => more /\ e - step < now
       /\ more => e >= now
  BY <1>13, <1>15
<1> HIDE DEF e, before, first
<1>18. e = before + (k + 1) * step
  <2>1. (k + 1) * step = k * step + step /\ k * step \in Nat
    BY <1>3
  <2> QED BY <1>3, <1>13, <1>17, <2>1
<1>19. e - before > step => k > 0
  <2>1. k = 0 => k * step = 0
    BY <1>3
  <2> QED BY <1>3, <1>13, <1>17, <2>1
<1>20. Steps(before, e, step, more, now)
  BY <1>17, <1>18, <1>19 DEF Steps
<1> QED BY <1>2, <1>16, <1>20 DEF before, e, step, more, now, p

\* What the last run of a repeating task has left.
LastRec == [before : Int, after : Int, period : Int, skip : BOOLEAN, now : Int]

OrderType ==
  order \in [now : 0 .. MaxNow, curr : Short, scheduled : Seq(Task),
             task : [Task -> TaskRec \cup {NULL}], last : LastRec \cup {NULL}]

LastOK(last) ==
  last # NULL =>
    last.period > 0 /\ Steps(last.before, last.after, last.period, last.skip, last.now)

\* The reading of the clock is an old one at most; what is dispatched was due.
Clocked(now, curr)    == \E us \in 0 .. now : curr = O!Time(us)
Due(now, task) ==
  \A t \in Task : task[t] # NULL /\ task[t].dispatched => O!Micro(task[t].nextrun) <= now

OrderInv ==
  /\ OrderType
  /\ Clocked(order.now, order.curr)
  /\ Due(order.now, order.task)
  /\ InOrder(order.task, order.scheduled, Waiting(order.task))
  /\ LastOK(order.last)

\* A reading of the clock, as a time, and its use as one.
LEMMA ClockIs ==
  ASSUME OrderData, NEW us \in 0 .. MaxNow
  PROVE  O!Time(us) \in Short /\ O!Micro(O!Time(us)) = us
<1>1. us \in Nat /\ us <= MaxNow /\ MaxNow \in Nat
  BY DEF OrderData
<1>2. O!Time(us) \in Normal /\ O!Micro(O!Time(us)) = us
  BY <1>1, TimeIs
<1>3. HalfInt * O!Second \in Int /\ MaxNow < HalfInt * O!Second
  BY SecondIs DEF OrderData
<1>4. O!Micro(O!Time(us)) < HalfInt * O!Second
  BY <1>1, <1>2, <1>3
<1> QED BY <1>2, <1>4, ShortIs

\* The tasks that wait are whole.
LEMMA WaitingTasks ==
  ASSUME NEW task \in [Task -> TaskRec \cup {NULL}]
  PROVE  /\ Waiting(task) \in SUBSET Task
         /\ \A w \in Waiting(task) : task[w] \in TaskRec /\ ~task[w].dispatched
BY DEF Waiting

\* A new timer has no tasks.
LEMMA OrderInit == OrderData /\ O!Init => OrderInv
<1> SUFFICES ASSUME OrderData, O!Init PROVE OrderInv
  OBVIOUS
<1>1. /\ order.now = 0 /\ order.curr = O!Time(0) /\ order.scheduled = << >>
      /\ order.task = [t \in Task |-> NULL] /\ order.last = NULL
      /\ order = [now |-> 0, curr |-> O!Time(0), scheduled |-> <<>>,
                  task |-> [t \in Task |-> NULL], last |-> NULL]
  BY DEF O!Init
<1>2. 0 \in 0 .. MaxNow /\ 0 \in 0 .. 0
  BY DEF OrderData
<1>3. O!Time(0) \in Short
  BY <1>2, ClockIs
<1>4. OrderType
  <2>1. << >> \in Seq(Task) /\ [t \in Task |-> NULL] \in [Task -> TaskRec \cup {NULL}]
    OBVIOUS
  <2> QED BY <1>1, <1>2, <1>3, <2>1 DEF OrderType
<1>5. Waiting(order.task) = {}
  BY <1>1 DEF Waiting
<1>6. InOrder(order.task, order.scheduled, {})
  BY <1>1 DEF InOrder, Ascending
<1>7. Clocked(order.now, order.curr) /\ Due(order.now, order.task) /\ LastOK(order.last)
  BY <1>1, <1>2 DEF Clocked, Due, LastOK
<1> QED BY <1>4, <1>5, <1>6, <1>7 DEF OrderInv

\* A task that is new or was dispatched comes into the array.
LEMMA EntersKeeps ==
  ASSUME OrderData, OrderInv, NEW t \in Task, t \notin Waiting(order.task),
         NEW rec \in TaskRec, ~rec.dispatched,
         NEW last \in LastRec \cup {NULL}, LastOK(last), O!Enters(t, rec, last)
  PROVE  OrderInv'
<1> DEFINE new == [order.task EXCEPT ![t] = rec]
           W == Waiting(order.task)
           s == order.scheduled
           r == O!Added(s, new, t)
<1>1. /\ order.task \in [Task -> TaskRec \cup {NULL}] /\ s \in Seq(Task)
      /\ order.now \in 0 .. MaxNow /\ order.curr \in Short /\ InOrder(order.task, s, W)
      /\ order \in [now : 0 .. MaxNow, curr : Short, scheduled : Seq(Task),
                    task : [Task -> TaskRec \cup {NULL}], last : LastRec \cup {NULL}]
  BY DEF OrderInv, OrderType
<1>2. order' = [order EXCEPT !.task = new, !.last = last, !.scheduled = r]
  BY DEF O!Enters
<1>3. /\ new \in [Task -> TaskRec \cup {NULL}] /\ new[t] = rec
      /\ \A u \in Task : u # t => new[u] = order.task[u]
  BY <1>1
<1>4. W \in SUBSET Task /\ \A w \in W : order.task[w] \in TaskRec /\ w # t
  BY <1>1, WaitingTasks
<1> HIDE DEF new, r
<1>5. Waiting(new) = W \cup {t}
  <2>1. rec # NULL
    BY DEF OrderData
  <2>2. \A u \in Task : u \in Waiting(new) <=> u \in W \cup {t}
    BY <1>3, <1>4, <2>1 DEF Waiting
  <2> QED BY <1>4, <2>2 DEF Waiting
<1> HIDE DEF W, s
<1>6. InOrder(new, s, W)
  BY <1>1, <1>3, <1>4, OthersOrder
<1>7. InOrder(new, r, W \cup {t})
  <2>1. \A w \in W : new[w] \in TaskRec
    BY <1>3, <1>4
  <2>2. t \notin W /\ new[t] \in TaskRec
    BY <1>3 DEF W
  <2> QED BY <1>4, <1>6, <2>1, <2>2, AddedKeeps DEF r
<1>8. r \in Seq(Task)
  BY <1>7 DEF InOrder
<1>9. /\ order'.now = order.now /\ order'.curr = order.curr /\ order'.scheduled = r
      /\ order'.task = new /\ order'.last = last
  BY <1>1, <1>2
<1>10. OrderType'
  BY <1>1, <1>2, <1>3, <1>8 DEF OrderType
<1>11. Due(order.now, new)
  <2>1. ASSUME NEW u \in Task, new[u] # NULL, new[u].dispatched
        PROVE  O!Micro(new[u].nextrun) <= order.now
    <3>1. u # t
      BY <1>3, <2>1
    <3> QED BY <1>3, <2>1, <3>1 DEF OrderInv, Due
  <2> QED BY <2>1 DEF Due
<1>12. Clocked(order.now, order.curr)
  BY DEF OrderInv
<1> QED BY <1>5, <1>7, <1>9, <1>10, <1>11, <1>12 DEF OrderInv

\* Time passes, and the main loop looks at it.
LEMMA ClockKeeps ==
  ASSUME OrderData, OrderInv, O!Tick \/ O!Stop \/ O!ReadClock
  PROVE  OrderInv'
<1>1. /\ order \in [now : 0 .. MaxNow, curr : Short, scheduled : Seq(Task),
                    task : [Task -> TaskRec \cup {NULL}], last : LastRec \cup {NULL}]
      /\ order.now \in 0 .. MaxNow /\ MaxNow \in Nat
  BY DEF OrderInv, OrderType, OrderData
<1>2. ASSUME NEW now \in 0 .. MaxNow, order.now <= now, NEW curr \in Short, Clocked(now, curr),
             order'.now = now, order'.curr = curr, order'.scheduled = order.scheduled,
             order'.task = order.task, order'.last = order.last, OrderType'
      PROVE  OrderInv'
  <2>1. Due(now, order.task)
    <3>1. ASSUME NEW u \in Task, order.task[u] # NULL, order.task[u].dispatched
          PROVE  O!Micro(order.task[u].nextrun) <= now
      <4>1. O!Micro(order.task[u].nextrun) <= order.now
        BY <3>1 DEF OrderInv, Due
      <4>2. order.task[u].nextrun \in Normal
        BY <1>1, <3>1 DEF TaskRec, Short
      <4>3. O!Micro(order.task[u].nextrun) \in Nat
        BY <4>2, MicroOrders
      <4> QED BY <1>1, <1>2, <4>1, <4>3
    <3> QED BY <3>1 DEF Due
  <2> QED BY <1>2, <2>1 DEF OrderInv
<1>3. CASE O!Tick
  <2> DEFINE n == order.now + 1
  <2>1. n \in 0 .. MaxNow /\ order.now <= n /\ order' = [order EXCEPT !.now = n]
    BY <1>1, <1>3 DEF O!Tick
  <2>2. Clocked(n, order.curr)
    <3>1. PICK us \in 0 .. order.now : order.curr = O!Time(us)
      BY DEF OrderInv, Clocked
    <3>2. us \in 0 .. n
      BY <1>1
    <3> QED BY <3>1, <3>2 DEF Clocked
  <2> HIDE DEF n
  <2>3. /\ order'.now = n /\ order'.curr = order.curr /\ order'.scheduled = order.scheduled
        /\ order'.task = order.task /\ order'.last = order.last /\ order.curr \in Short
    BY <1>1, <2>1
  <2>4. OrderType'
    BY <1>1, <2>1 DEF OrderType
  <2> QED BY <1>2, <2>1, <2>2, <2>3, <2>4
<1>4. CASE O!Stop
  BY <1>4 DEF O!Stop, OrderInv, OrderType
<1>5. CASE O!ReadClock
  <2> DEFINE c == O!Time(order.now)
  <2>1. order' = [order EXCEPT !.curr = c]
    BY <1>5 DEF O!ReadClock
  <2>2. c \in Short
    BY <1>1, ClockIs
  <2>3. Clocked(order.now, c)
    <3>1. order.now \in 0 .. order.now
      BY <1>1
    <3> QED BY <3>1 DEF Clocked
  <2> HIDE DEF c
  <2>4. /\ order'.now = order.now /\ order'.curr = c /\ order'.scheduled = order.scheduled
        /\ order'.task = order.task /\ order'.last = order.last /\ order.now <= order.now
    BY <1>1, <2>1
  <2>5. OrderType'
    BY <1>1, <2>1, <2>2 DEF OrderType
  <2> QED BY <1>1, <1>2, <2>2, <2>3, <2>4, <2>5
<1> QED BY <1>3, <1>4, <1>5

\* A task is scheduled.
LEMMA ScheduleKeeps ==
  ASSUME OrderData, OrderInv, NEW t \in Task, O!Schedule(t)
  PROVE  OrderInv'
<1>1. PICK delay \in Delay, from \in {0, order.now}, period \in Period, skip \in BOOLEAN :
        O!Enters(t, [nextrun |-> O!TimerGetDelayed(O!Time(from), delay), period |-> period,
                     elapse_skip |-> skip, dispatched |-> FALSE], NULL)
  BY DEF O!Schedule
<1> DEFINE tv == O!TimerGetDelayed(O!Time(from), delay)
<1>2. /\ order.now \in 0 .. MaxNow /\ MaxNow \in Nat /\ from \in 0 .. MaxNow /\ delay \in Nat
      /\ Micros \in Nat /\ MaxNow + delay * Micros < HalfInt * O!Second
  BY DEF OrderInv, OrderType, OrderData
<1>3. tv \in Normal /\ O!Micro(tv) = from + delay * Micros
  <2>1. O!Time(from) \in Normal /\ O!Micro(O!Time(from)) = from
    BY <1>2, ClockIs DEF Short
  <2> QED BY <1>2, <2>1, DelayedIs
<1>4. tv \in Short
  <2>1. HalfInt * O!Second \in Int /\ delay * Micros \in Int
    BY <1>2, SecondIs DEF OrderData
  <2> HIDE DEF tv
  <2>2. O!Micro(tv) < HalfInt * O!Second
    BY <1>2, <1>3, <2>1
  <2> QED BY <1>3, <2>2, ShortIs
<1> HIDE DEF tv
<1>5. ASSUME NEW d \in BOOLEAN
      PROVE [nextrun |-> tv, period |-> period, elapse_skip |-> skip, dispatched |-> d] \in TaskRec
  BY <1>4 DEF TaskRec
<1> DEFINE rec == [nextrun |-> tv, period |-> period, elapse_skip |-> skip, dispatched |-> FALSE]
<1>6. rec \in TaskRec /\ ~rec.dispatched
  <2>1. FALSE \in BOOLEAN
    OBVIOUS
  <2>2. rec \in TaskRec
    BY <1>5, <2>1
  <2> QED BY <2>2
<1>7. t \notin Waiting(order.task) /\ LastOK(NULL)
  BY DEF O!Schedule, Waiting, LastOK
<1>8. O!Enters(t, rec, NULL)
  BY <1>1 DEF tv
<1> HIDE DEF rec
<1> QED BY <1>6, <1>7, <1>8, EntersKeeps

\* A waiting task is cancelled, or one that was dispatched has run for the last time.
LEMMA DropKeeps ==
  ASSUME OrderData, OrderInv, NEW t \in Task, NEW s \in Seq(Task),
         InOrder(order.task, s, Waiting(order.task) \ {t}),
         order' = [order EXCEPT !.task[t] = NULL, !.scheduled = s]
  PROVE  OrderInv'
<1> DEFINE new == [order.task EXCEPT ![t] = NULL]
           W == Waiting(order.task)
<1>1. /\ order.task \in [Task -> TaskRec \cup {NULL}]
      /\ order \in [now : 0 .. MaxNow, curr : Short, scheduled : Seq(Task),
                    task : [Task -> TaskRec \cup {NULL}], last : LastRec \cup {NULL}]
  BY DEF OrderInv, OrderType
<1>2. order' = [order EXCEPT !.task = new, !.scheduled = s]
  BY <1>1
<1>3. /\ new \in [Task -> TaskRec \cup {NULL}] /\ new[t] = NULL
      /\ \A u \in Task : u # t => new[u] = order.task[u]
  BY <1>1
<1> HIDE DEF new
<1>4. Waiting(new) = W \ {t}
  <2>1. \A u \in Task : u \in Waiting(new) <=> u \in W \ {t}
    BY <1>3 DEF Waiting
  <2> QED BY <2>1 DEF Waiting
<1>5. InOrder(new, s, W \ {t})
  <2>1. \A w \in W \ {t} : w \in Task /\ new[w] = order.task[w]
    BY <1>3 DEF Waiting
  <2> HIDE DEF W
  <2> QED BY <2>1, OthersOrder DEF W
<1>6. /\ order'.now = order.now /\ order'.curr = order.curr /\ order'.scheduled = s
      /\ order'.task = new /\ order'.last = order.last
  BY <1>1, <1>2
<1>7. OrderType'
  BY <1>1, <1>2, <1>3 DEF OrderType
<1>8. Due(order.now, new)
  BY <1>3 DEF OrderInv, Due
<1> QED BY <1>4, <1>5, <1>6, <1>7, <1>8 DEF OrderInv

\* A task that waits is cancelled.
LEMMA CancelKeeps ==
  ASSUME OrderData, OrderInv, NEW t \in Task, O!Cancel(t)
  PROVE  OrderInv'
<1> DEFINE s == O!Removed(order.scheduled, order.task, t)
           W == Waiting(order.task)
<1>1. order.task \in [Task -> TaskRec \cup {NULL}] /\ InOrder(order.task, order.scheduled, W)
  BY DEF OrderInv, OrderType
<1>2. t \in W
  BY DEF O!Cancel, Waiting
<1>3. W \in SUBSET Task /\ \A w \in W : order.task[w] \in TaskRec
  BY <1>1, WaitingTasks
<1> HIDE DEF W
<1>4. InOrder(order.task, s, W \ {t})
  BY <1>1, <1>2, <1>3, RemovedKeeps
<1>5. order' = [order EXCEPT !.task[t] = NULL, !.scheduled = s]
  BY DEF O!Cancel
<1> HIDE DEF s
<1>6. s \in Seq(Task)
  BY <1>4 DEF InOrder
<1> QED BY <1>4, <1>5, <1>6, DropKeeps DEF W

\* The main loop takes what is due off the front.
LEMMA MainLoopKeeps ==
  ASSUME OrderData, OrderInv, O!MainLoop
  PROVE  OrderInv'
<1> DEFINE s == order.scheduled
           W == Waiting(order.task)
           rest == O!Rest(s, order.task, order.curr)
           taken == {s[i] : i \in 1 .. (Len(s) - Len(rest))}
           Marked(d) == [t \in Task |-> IF t \in taken THEN [order.task[t] EXCEPT !.dispatched = d]
                                                       ELSE order.task[t]]
           new == Marked(TRUE)
<1>1. /\ order.task \in [Task -> TaskRec \cup {NULL}] /\ InOrder(order.task, s, W)
      /\ order.curr \in Short /\ s \in Seq(Task) /\ Len(s) \in Nat /\ order.now \in Nat
      /\ order \in [now : 0 .. MaxNow, curr : Short, scheduled : Seq(Task),
                    task : [Task -> TaskRec \cup {NULL}], last : LastRec \cup {NULL}]
  BY LenProperties DEF OrderInv, OrderType
<1>2. W \in SUBSET Task /\ \A w \in W : order.task[w] \in TaskRec /\ ~order.task[w].dispatched
  BY <1>1, WaitingTasks
<1>3. order' = [order EXCEPT !.scheduled = rest, !.task = new]
  BY DEF O!MainLoop
<1>4. PICK due \in 0 .. Len(s) :
        /\ rest = SubSeq(s, due + 1, Len(s))
        /\ \A i \in 1 .. Len(s) :
             O!Micro(order.task[s[i]].nextrun) <= O!Micro(order.curr) <=> i <= due
  <2> HIDE DEF W, s
  <2> QED BY <1>1, <1>2, RestIs
<1>5. /\ rest \in Seq(Task) /\ Len(rest) = Len(s) - due
      /\ \A i \in 1 .. Len(s) - due : rest[i] = s[due + i]
  <2>1. due + 1 \in 1 .. Len(s) + 1 /\ Len(s) \in (due + 1) - 1 .. Len(s)
    BY <1>1
  <2>2. Len(s) - (due + 1) + 1 = Len(s) - due
    BY <1>1
  <2>3. \A i \in 1 .. Len(s) - due : (due + 1) + i - 1 = due + i
    BY <1>1
  <2> HIDE DEF rest, s
  <2>4. /\ rest \in Seq(Task) /\ Len(rest) = Len(s) - (due + 1) + 1
        /\ \A i \in 1 .. Len(s) - (due + 1) + 1 : rest[i] = s[(due + 1) + i - 1]
    BY <1>1, <1>4, <2>1, Part
  <2> QED BY <2>2, <2>3, <2>4
<1>6. taken = {s[i] : i \in 1 .. due}
  <2>1. Len(s) - Len(rest) = due
    <3> HIDE DEF rest
    <3> QED BY <1>1, <1>5
  <2> QED BY <2>1
<1> HIDE DEF rest, taken, Marked
<1>7. /\ taken \subseteq W
      /\ \A i \in 1 .. Len(s) : s[i] \in W /\ (s[i] \in taken <=> i <= due)
  <2>1. \A i, j \in 1 .. Len(s) : s[i] = s[j] => i = j
    <3> SUFFICES ASSUME NEW i \in 1 .. Len(s), NEW j \in 1 .. Len(s), s[i] = s[j], i # j PROVE FALSE
      OBVIOUS
    <3>1. s[i] \in W /\ s[i] \in Task /\ order.task[s[i]] \in TaskRec
      BY <1>1, <1>2 DEF InOrder
    <3>2. Goes(order.task, s[i], s[i])
      <4>1. i < j \/ j < i
        OBVIOUS
      <4> QED BY <1>1, <3>1, <4>1 DEF InOrder, Ascending
    <3> QED BY <3>1, <3>2, GoesOrders
  <2>2. \A i \in 1 .. due : i \in 1 .. Len(s)
    BY <1>1
  <2>3. \A i \in 1 .. Len(s) : s[i] \in W
    BY <1>1 DEF InOrder
  <2> HIDE DEF s, W
  <2>4. ASSUME NEW i \in 1 .. Len(s) PROVE s[i] \in taken <=> i <= due
    <3>1. i <= due => i \in 1 .. due
      OBVIOUS
    <3>2. s[i] \in taken => i <= due
      BY <1>6, <2>1, <2>2
    <3> QED BY <1>6, <3>1, <3>2
  <2> QED BY <1>6, <2>2, <2>3, <2>4
<1>8. ASSUME NEW d \in BOOLEAN
      PROVE  /\ Marked(d) \in [Task -> TaskRec \cup {NULL}]
             /\ \A u \in Task : u \notin taken => Marked(d)[u] = order.task[u]
             /\ \A u \in taken : /\ u \in Task /\ Marked(d)[u] \in TaskRec
                                 /\ Marked(d)[u].nextrun = order.task[u].nextrun
                                 /\ Marked(d)[u].dispatched = d
  <2>1. ASSUME NEW u \in taken
        PROVE  LET v == [order.task[u] EXCEPT !.dispatched = d]
               IN u \in Task /\ v \in TaskRec /\ v.nextrun = order.task[u].nextrun /\ v.dispatched = d
    BY <1>2, <1>7 DEF TaskRec
  <2>2. \A u \in Task : Marked(d)[u] = IF u \in taken THEN [order.task[u] EXCEPT !.dispatched = d]
                                                    ELSE order.task[u]
    BY DEF Marked
  <2>3. \A u \in Task : Marked(d)[u] \in TaskRec \cup {NULL}
    BY <1>1, <2>1, <2>2
  <2>4. Marked(d) \in [Task -> TaskRec \cup {NULL}]
    BY <2>3 DEF Marked
  <2> QED BY <2>1, <2>2, <2>4
<1>9. /\ new \in [Task -> TaskRec \cup {NULL}]
      /\ \A u \in Task : u \notin taken => new[u] = order.task[u]
      /\ \A u \in taken : /\ u \in Task /\ new[u] \in TaskRec
                          /\ new[u].nextrun = order.task[u].nextrun
                          /\ new[u].dispatched
  <2>1. TRUE \in BOOLEAN
    OBVIOUS
  <2> QED BY <1>8, <2>1
<1> HIDE DEF new
<1>10. Waiting(new) = W \ taken
  <2>1. \A u \in taken : new[u].dispatched /\ u \in Task
    BY <1>9
  <2>2. \A u \in Task : u \in Waiting(new) <=> u \in W \ taken
    BY <1>9, <2>1 DEF Waiting
  <2> QED BY <2>2 DEF Waiting
<1>11. InOrder(order.task, rest, W \ taken)
  <2>1. ASSUME NEW i \in 1 .. Len(rest)
        PROVE  rest[i] = s[due + i] /\ due + i \in 1 .. Len(s) /\ ~(due + i <= due) /\ i \in Int
    BY <1>1, <1>5
  <2>2. ASSUME NEW i \in 1 .. Len(rest) PROVE rest[i] \in W \ taken
    BY <1>7, <2>1
  <2>3. ASSUME NEW w \in W \ taken PROVE \E i \in 1 .. Len(rest) : rest[i] = w
    <3>1. PICK i \in 1 .. Len(s) : s[i] = w
      BY <1>1 DEF InOrder
    <3>2. ~(i <= due)
      BY <1>7, <3>1
    <3>3. i - due \in 1 .. Len(s) - due /\ due + (i - due) = i
      BY <1>1, <3>2
    <3> QED BY <1>5, <3>1, <3>3
  <2>4. Ascending(order.task, rest)
    <3>1. ASSUME NEW i \in 1 .. Len(rest), NEW j \in 1 .. Len(rest), i < j
          PROVE  Goes(order.task, rest[i], rest[j])
      <4>1. due + i < due + j
        BY <3>1
      <4> QED BY <1>1, <2>1, <4>1 DEF InOrder, Ascending
    <3> QED BY <3>1 DEF Ascending
  <2> QED BY <1>5, <2>2, <2>3, <2>4 DEF InOrder
<1>12. InOrder(new, rest, W \ taken)
  <2>1. \A w \in W \ taken : new[w] = order.task[w]
    BY <1>2, <1>9
  <2> HIDE DEF W
  <2> QED BY <1>11, <2>1, OthersOrder
<1>13. Due(order.now, new)
  <2>1. PICK us \in 0 .. order.now : order.curr = O!Time(us)
    BY DEF OrderInv, Clocked
  <2>2. us \in 0 .. MaxNow /\ us \in Nat /\ us <= order.now
    <3>1. order.now \in 0 .. MaxNow /\ MaxNow \in Nat
      BY DEF OrderInv, OrderType, OrderData
    <3> QED BY <2>1, <3>1
  <2>3. O!Micro(order.curr) = us
    BY <2>1, <2>2, ClockIs
  <2>4. ASSUME NEW u \in Task, new[u] # NULL, new[u].dispatched
        PROVE  O!Micro(new[u].nextrun) <= order.now
    <3>1. CASE u \in taken
      <4>1. PICK i \in 1 .. Len(s) : s[i] = u
        BY <1>1, <1>7, <3>1 DEF InOrder
      <4>2. O!Micro(order.task[u].nextrun) <= O!Micro(order.curr)
        BY <1>4, <1>7, <3>1, <4>1
      <4>3. order.task[u].nextrun \in Normal
        BY <1>2, <1>7, <3>1 DEF TaskRec, Short
      <4>4. O!Micro(order.task[u].nextrun) \in Nat
        BY <4>3, MicroOrders
      <4>5. O!Micro(order.task[u].nextrun) <= order.now
        BY <1>1, <2>2, <2>3, <4>2, <4>4
      <4> QED BY <1>9, <3>1, <4>5
    <3>2. CASE u \notin taken
      BY <1>9, <2>4, <3>2 DEF OrderInv, Due
    <3> QED BY <3>1, <3>2
  <2> QED BY <2>4 DEF Due
<1>14. /\ order'.now = order.now /\ order'.curr = order.curr /\ order'.scheduled = rest
       /\ order'.task = new /\ order'.last = order.last
  BY <1>1, <1>3
<1>15. OrderType'
  BY <1>1, <1>3, <1>5, <1>9 DEF OrderType
<1> QED BY <1>10, <1>12, <1>13, <1>14, <1>15 DEF OrderInv

\* A task has run: it is freed, or waits for its next run.
LEMMA WorkerKeeps ==
  ASSUME OrderData, OrderInv, NEW t \in Task, O!TimerWorker(t)
  PROVE  OrderInv'
<1> DEFINE rec == order.task[t]
<1>1. /\ order.task \in [Task -> TaskRec \cup {NULL}] /\ rec \in TaskRec /\ rec.dispatched
      /\ order \in [now : 0 .. MaxNow, curr : Short, scheduled : Seq(Task),
                    task : [Task -> TaskRec \cup {NULL}], last : LastRec \cup {NULL}]
      /\ O!Micro(rec.nextrun) <= order.now /\ t \notin Waiting(order.task)
  BY DEF OrderInv, OrderType, O!TimerWorker, Due, Waiting
<1>2. CASE rec.period = 0
  <2>1. order' = [order EXCEPT !.task[t] = NULL]
    BY <1>2 DEF O!TimerWorker
  <2>2. order' = [order EXCEPT !.task[t] = NULL, !.scheduled = order.scheduled]
    BY <1>1, <2>1
  <2>3. Waiting(order.task) \ {t} = Waiting(order.task)
    BY <1>1
  <2>4. InOrder(order.task, order.scheduled, Waiting(order.task) \ {t}) /\ order.scheduled \in Seq(Task)
    BY <2>3 DEF OrderInv, OrderType
  <2> QED BY <2>2, <2>4, DropKeeps
<1>3. CASE rec.period # 0
  <2> DEFINE nextrun == O!NextRun(rec)
             step == rec.period * Micros
             last == [before |-> O!Micro(rec.nextrun), after |-> O!Micro(nextrun),
                      period |-> step, skip |-> rec.elapse_skip, now |-> order.now]
             Again(d) == [rec EXCEPT !.nextrun = nextrun, !.dispatched = d]
  <2>1. O!Enters(t, Again(FALSE), last)
    BY <1>3 DEF O!TimerWorker
  <2>2. /\ order.now \in 0 .. MaxNow /\ rec.nextrun \in Short /\ rec.period \in Nat /\ Micros \in Nat \ {0}
        /\ rec.period > 0 /\ rec.elapse_skip \in BOOLEAN /\ rec.period \in Period
    <3>1. /\ order.now \in 0 .. MaxNow /\ rec.nextrun \in Short /\ rec.period \in Period
          /\ rec.elapse_skip \in BOOLEAN
      BY <1>1 DEF TaskRec
    <3>2. rec.period \in Nat /\ Micros \in Nat \ {0}
      BY <3>1 DEF OrderData
    <3>3. rec.period > 0
      <4> DEFINE p == rec.period
      <4>1. p \in Nat /\ p # 0
        BY <1>3, <3>2
      <4> HIDE DEF p
      <4>2. p > 0
        BY <4>1
      <4> QED BY <4>2 DEF p
    <3> QED BY <3>1, <3>2, <3>3
  <2>3. /\ nextrun \in Short
        /\ Steps(O!Micro(rec.nextrun), O!Micro(nextrun), step, rec.elapse_skip, order.now)
    <3> HIDE DEF rec
    <3> QED BY <1>1, <1>3, <2>2, NextRunIs
  <2>4. step \in Nat /\ step > 0
    <3> DEFINE p == rec.period
    <3>1. p \in Nat /\ p > 0 /\ Micros \in Nat \ {0}
      BY <2>2
    <3> HIDE DEF p
    <3>2. p * Micros \in Nat /\ p * Micros > 0
      BY <3>1
    <3> QED BY <3>2 DEF p
  <2> HIDE DEF nextrun, step
  <2>5. ASSUME NEW d \in BOOLEAN PROVE Again(d) \in TaskRec /\ Again(d).dispatched = d
    BY <1>1, <2>3 DEF TaskRec
  <2> HIDE DEF Again
  <2>6. Again(FALSE) \in TaskRec /\ ~Again(FALSE).dispatched
    <3>1. FALSE \in BOOLEAN
      OBVIOUS
    <3> QED BY <2>5, <3>1
  <2>7. last \in LastRec
    <3>1. O!Micro(rec.nextrun) \in Int /\ O!Micro(nextrun) \in Int /\ order.now \in Int
      BY <2>2, <2>3, MicroOrders DEF Short
    <3> HIDE DEF rec
    <3> QED BY <2>2, <2>4, <3>1 DEF LastRec
  <2>8. LastOK(last)
    BY <2>3, <2>4 DEF LastOK
  <2> HIDE DEF last
  <2> QED BY <1>1, <2>1, <2>6, <2>7, <2>8, EntersKeeps
<1> QED BY <1>2, <1>3

\* What the run checks follows from the invariant.
LEMMA OrderInvIsSound == OrderData /\ OrderInv => O!OrderSound
<1> SUFFICES ASSUME OrderData, OrderInv PROVE O!OrderSound
  OBVIOUS
<1> DEFINE s == order.scheduled
           W == Waiting(order.task)
<1>1. /\ order.task \in [Task -> TaskRec \cup {NULL}] /\ InOrder(order.task, s, W)
      /\ s \in Seq(Task) /\ Len(s) \in Nat /\ DOMAIN s = 1 .. Len(s)
  BY LenProperties DEF OrderInv, OrderType
<1>2. W \in SUBSET Task /\ \A w \in W : order.task[w] \in TaskRec
  BY <1>1, WaitingTasks
<1>3. {s[i] : i \in DOMAIN s} = {t \in Task : order.task[t] # NULL /\ ~order.task[t].dispatched}
  <2>1. {s[i] : i \in DOMAIN s} = W
    <3> HIDE DEF W, s
    <3> QED BY <1>1 DEF InOrder
  <2> QED BY <2>1 DEF Waiting
<1>4. ASSUME NEW i \in DOMAIN s, NEW j \in DOMAIN s, i < j
      PROVE  /\ s[i] # s[j]
             /\ O!Micro(order.task[s[i]].nextrun) <= O!Micro(order.task[s[j]].nextrun)
  <2>1. /\ Goes(order.task, s[i], s[j]) /\ s[i] \in Task /\ s[j] \in Task
        /\ order.task[s[i]] \in TaskRec /\ order.task[s[j]] \in TaskRec
    BY <1>1, <1>2, <1>4 DEF InOrder, Ascending
  <2> QED BY <2>1, GoesOrders
<1>5. ASSUME NEW us \in 0 .. MaxNow
      PROVE  \E due \in 0 .. Len(s) :
               /\ O!Rest(s, order.task, O!Time(us)) = SubSeq(s, due + 1, Len(s))
               /\ \A i \in DOMAIN s : O!Micro(order.task[s[i]].nextrun) <= us <=> i <= due
  <2>1. O!Time(us) \in Short /\ O!Micro(O!Time(us)) = us
    BY ClockIs
  <2>2. PICK due \in 0 .. Len(s) :
           /\ O!Rest(s, order.task, O!Time(us)) = SubSeq(s, due + 1, Len(s))
           /\ \A i \in 1 .. Len(s) :
                O!Micro(order.task[s[i]].nextrun) <= O!Micro(O!Time(us)) <=> i <= due
    <3> HIDE DEF W, s
    <3> QED BY <1>1, <1>2, <2>1, RestIs
  <2> QED BY <1>1, <2>1, <2>2
<1>6. ASSUME order.last # NULL
      PROVE  /\ (order.last.after - order.last.before) % order.last.period = 0
             /\ order.last.after > order.last.before
             /\ order.last.after - order.last.before > order.last.period =>
                  order.last.skip /\ order.last.after - order.last.period < order.last.now
             /\ order.last.skip => order.last.after >= order.last.now
  <2> DEFINE b == order.last.before
             a == order.last.after
             p == order.last.period
  <2>1. /\ b \in Int /\ a \in Int /\ p \in Int /\ p > 0
        /\ Steps(b, a, p, order.last.skip, order.last.now)
    BY <1>6 DEF OrderInv, OrderType, LastRec, LastOK
  <2> HIDE DEF a, b, p
  <2>2. PICK k \in Nat : a = b + (k + 1) * p
    BY <2>1 DEF Steps
  <2>3. (k + 1) * p \in Int /\ (k + 1) * p > 0 /\ (k + 1) * p + 0 = (k + 1) * p
    <3>1. k * p \in Int /\ k * p >= 0 /\ (k + 1) * p = k * p + p
      BY <2>1
    <3> QED BY <2>1, <3>1
  <2>4. a - b = (k + 1) * p /\ a > b
    <3> DEFINE m == (k + 1) * p
    <3>1. m \in Int /\ m > 0 /\ a = b + m
      BY <2>2, <2>3
    <3> HIDE DEF m
    <3>2. a - b = m /\ a > b
      BY <2>1, <3>1
    <3> QED BY <3>2 DEF m
  <2>5. ((k + 1) * p + 0) % p = 0
    <3>1. p \in Nat \ {0} /\ k + 1 \in Int /\ 0 \in 0 .. p - 1
      BY <2>1
    <3> QED BY <3>1, QuotientIs
  <2>6. (a - b) % p = 0
    BY <2>3, <2>4, <2>5
  <2>7. /\ a - b > p => order.last.skip /\ a - p < order.last.now
        /\ order.last.skip => a >= order.last.now
    BY <2>1 DEF Steps
  <2> QED BY <2>4, <2>6, <2>7 DEF a, b, p
<1>7. \A us \in 0 .. MaxNow : \E due \in 0 .. Len(s) :
        /\ O!Rest(s, order.task, O!Time(us)) = SubSeq(s, due + 1, Len(s))
        /\ \A i \in DOMAIN s : O!Micro(order.task[s[i]].nextrun) <= us <=> i <= due
  BY <1>5
<1> QED BY <1>3, <1>4, <1>6, <1>7 DEF O!OrderSound

\* The array of scheduled tasks holds each task that waits, once, in the order of
\* their times, so that the main loop takes just those that are due, however old
\* its reading of the clock; and a repeating task keeps its phase: whatever the
\* delays and periods, as long as no difference overflows an int.
THEOREM TimerTasksInOrder ==
  ASSUME OrderData
  PROVE  O!Spec => []O!OrderSound
<1>1. O!Init => OrderInv
  BY OrderInit
<1>2. OrderInv /\ [O!Next]_(O!vars) => OrderInv'
  <2>1. ASSUME OrderInv, O!Tick \/ O!Stop \/ O!ReadClock PROVE OrderInv'
    BY <2>1, ClockKeeps
  <2>2. ASSUME OrderInv, O!MainLoop PROVE OrderInv'
    BY <2>2, MainLoopKeeps
  <2>3. ASSUME OrderInv, NEW t \in Task, O!Schedule(t) \/ O!Cancel(t) \/ O!TimerWorker(t)
        PROVE  OrderInv'
    BY <2>3, ScheduleKeeps, CancelKeeps, WorkerKeeps
  <2>4. ASSUME OrderInv, UNCHANGED O!vars PROVE OrderInv'
    BY <2>4 DEF O!vars, OrderInv, OrderType
  <2> QED BY <2>1, <2>2, <2>3, <2>4 DEF O!Next
<1>3. OrderInv => O!OrderSound
  BY OrderInvIsSound
<1> QED BY <1>1, <1>2, <1>3, PTL DEF O!Spec
==============================================================================
