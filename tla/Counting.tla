-------------------------------- MODULE Counting --------------------------------
(***************************************************************************)
(* Lemmas the proofs about several components share: how the size of a     *)
(* group of threads changes when one of them moves, what a list of         *)
(* distinct elements contains after elements are appended, taken or moved  *)
(* to another list, induction through a set of numbers, that a loop        *)
(* written as a recursive function has one, and what FlattenSeq gives.     *)
(***************************************************************************)
EXTENDS SequencesExt, FiniteSetTheorems, SequenceTheorems,
        WellFoundedInduction, TLAPS

\* A thread that moves is counted where it arrives and no longer where it was:
\* S and T are a group of threads before and after a step of thread x.
LEMMA CountMoved ==
  ASSUME NEW S, IsFiniteSet(S), NEW T, NEW x, T \ {x} = S \ {x}
  PROVE  /\ IsFiniteSet(T)
         /\ Cardinality(S) \in Nat
         /\ Cardinality(T) = Cardinality(S) - (IF x \in S THEN 1 ELSE 0)
                                            + (IF x \in T THEN 1 ELSE 0)
<1>1. IsFiniteSet(S \ {x}) /\ Cardinality(S \ {x}) \in Nat /\ Cardinality(S) \in Nat
  BY FS_RemoveElement, FS_CardinalityType
<1>2. Cardinality(S \ {x}) = Cardinality(S) - (IF x \in S THEN 1 ELSE 0)
  BY <1>1, FS_RemoveElement
<1>3. T = IF x \in T THEN (S \ {x}) \cup {x} ELSE S \ {x}
  OBVIOUS
<1>4. /\ IsFiniteSet((S \ {x}) \cup {x})
      /\ Cardinality((S \ {x}) \cup {x}) = Cardinality(S \ {x}) + 1
  BY <1>1, FS_AddElement
<1>5. CASE x \in T
  BY <1>1, <1>2, <1>3, <1>4, <1>5
<1>6. CASE x \notin T
  <2>1. T = S \ {x}
    BY <1>3, <1>6
  <2> QED BY <1>1, <1>2, <1>6, <2>1
<1> QED BY <1>5, <1>6

\* Groups that have nobody in common.
LEMMA DisjointCount ==
  ASSUME NEW S, IsFiniteSet(S), NEW T, IsFiniteSet(T), S \cap T = {}
  PROVE  /\ IsFiniteSet(S \cup T)
         /\ Cardinality(S) \in Nat /\ Cardinality(T) \in Nat
         /\ Cardinality(S \cup T) = Cardinality(S) + Cardinality(T)
<1>1. Cardinality(S \cap T) = 0
  BY FS_EmptySet
<1>2. Cardinality(S) \in Nat /\ Cardinality(T) \in Nat
  BY FS_CardinalityType
<1>3. /\ IsFiniteSet(S \cup T)
      /\ Cardinality(S \cup T)
           = Cardinality(S) + Cardinality(T) - Cardinality(S \cap T)
  BY FS_Union
<1> QED BY <1>1, <1>2, <1>3

------------------------------------------------------------------------------
\* Sequences that hold each of their elements once, like a list of resources:
\* one more element, one less, and the number of them.

\* A sequence with an element appended.
LEMMA Appended ==
  ASSUME NEW S, NEW s \in Seq(S), NEW e \in S
  PROVE  /\ Append(s, e) \in Seq(S)
         /\ Len(Append(s, e)) = Len(s) + 1
         /\ ToSet(Append(s, e)) = ToSet(s) \cup {e}
         /\ IsInjective(s) /\ e \notin ToSet(s) => IsInjective(Append(s, e))
<1> DEFINE t == Append(s, e)
<1>1. /\ t \in Seq(S) /\ Len(t) = Len(s) + 1 /\ Len(s) \in Nat
      /\ \A i \in 1 .. Len(s) : t[i] = s[i]
      /\ t[Len(s) + 1] = e
  BY AppendProperties, LenProperties
<1>2. DOMAIN t = 1 .. Len(s) + 1 /\ DOMAIN s = 1 .. Len(s)
  BY <1>1, LenProperties
<1> HIDE DEF t
<1>3. ToSet(t) = ToSet(s) \cup {e}
  BY <1>1, <1>2 DEF ToSet
<1>4. IsInjective(s) /\ e \notin ToSet(s) => IsInjective(t)
  BY <1>1, <1>2 DEF ToSet, IsInjective
<1> QED BY <1>1, <1>3, <1>4 DEF t

\* A sequence without repetition whose first element was taken.
LEMMA FirstTaken ==
  ASSUME NEW S, NEW s \in Seq(S), s # << >>, IsInjective(s)
  PROVE  /\ Head(s) \in S /\ Tail(s) \in Seq(S)
         /\ Len(s) = Len(Tail(s)) + 1
         /\ Head(s) \in ToSet(s)
         /\ ToSet(Tail(s)) = ToSet(s) \ {Head(s)}
         /\ IsInjective(Tail(s))
<1> DEFINE t == Tail(s)
<1>1. /\ Head(s) \in S /\ t \in Seq(S)
      /\ Len(s) \in Nat \ {0} /\ Len(t) = Len(s) - 1
      /\ \A i \in 1 .. Len(t) : t[i] = s[i + 1]
  BY HeadTailProperties, EmptySeq
<1>2. DOMAIN t = 1 .. Len(s) - 1 /\ DOMAIN s = 1 .. Len(s)
  BY <1>1, LenProperties
<1>3. Head(s) = s[1]
  OBVIOUS
<1> HIDE DEF t
<1>4. ToSet(t) = ToSet(s) \ {Head(s)}
  <2>1. ASSUME NEW i \in DOMAIN t PROVE t[i] \in ToSet(s) \ {s[1]}
    BY <1>1, <1>2, SMTT(60) DEF ToSet, IsInjective
  <2>2. ASSUME NEW i \in DOMAIN s, s[i] # s[1] PROVE s[i] \in ToSet(t)
    <3>1. i - 1 \in DOMAIN t /\ t[i - 1] = s[i]
      BY <1>1, <1>2, <2>2
    <3> QED BY <3>1 DEF ToSet
  <2> QED BY <1>3, <2>1, <2>2 DEF ToSet
<1>5. IsInjective(t)
  BY <1>1, <1>2, SMTT(60) DEF IsInjective
<1>6. Head(s) \in ToSet(s)
  BY <1>1, <1>2, <1>3 DEF ToSet
<1> QED BY <1>1, <1>4, <1>5, <1>6 DEF t

\* A sequence without repetition is as long as the set of its elements is large.
LEMMA InjectiveCount ==
  ASSUME NEW S, NEW s \in Seq(S), IsInjective(s)
  PROVE  IsFiniteSet(ToSet(s)) /\ Cardinality(ToSet(s)) = Len(s)
<1>1. /\ Len(s) \in Nat /\ DOMAIN s = 1 .. Len(s) /\ s \in [1 .. Len(s) -> S]
  BY LenProperties
<1>2. s \in Bijection(1 .. Len(s), ToSet(s))
  BY <1>1 DEF Bijection, Injection, Surjection, ToSet
<1>3. IsFiniteSet(1 .. Len(s)) /\ Cardinality(1 .. Len(s)) = Len(s)
  BY <1>1, FS_Interval, SMTT(60)
<1> QED BY <1>2, <1>3, FS_Bijection DEF ExistsBijection

\* One list moved behind another, as MoveAll does.
LEMMA Concatenated ==
  ASSUME NEW S, NEW s \in Seq(S), NEW t \in Seq(S)
  PROVE  /\ s \o t \in Seq(S)
         /\ ToSet(s \o t) = ToSet(s) \cup ToSet(t)
         /\ IsInjective(s) /\ IsInjective(t) /\ ToSet(s) \cap ToSet(t) = {}
              => IsInjective(s \o t)
<1> DEFINE u == s \o t
<1>1. /\ u \in Seq(S) /\ Len(u) = Len(s) + Len(t) /\ Len(s) \in Nat /\ Len(t) \in Nat
      /\ \A i \in 1 .. Len(s) + Len(t) :
           u[i] = IF i <= Len(s) THEN s[i] ELSE t[i - Len(s)]
  BY ConcatProperties, LenProperties
<1>2. /\ DOMAIN u = 1 .. Len(s) + Len(t)
      /\ DOMAIN s = 1 .. Len(s) /\ DOMAIN t = 1 .. Len(t)
  BY <1>1, LenProperties
<1> HIDE DEF u
<1>3. ToSet(u) = ToSet(s) \cup ToSet(t)
  <2>1. ASSUME NEW i \in DOMAIN u PROVE u[i] \in ToSet(s) \cup ToSet(t)
    <3>1. CASE i <= Len(s)
      BY <1>1, <1>2, <3>1 DEF ToSet
    <3>2. CASE i > Len(s)
      <4>1. i - Len(s) \in DOMAIN t /\ u[i] = t[i - Len(s)]
        BY <1>1, <1>2, <3>2
      <4> QED BY <4>1 DEF ToSet
    <3> QED BY <1>1, <1>2, <3>1, <3>2
  <2>2. ASSUME NEW i \in DOMAIN s PROVE s[i] \in ToSet(u)
    BY <1>1, <1>2 DEF ToSet
  <2>3. ASSUME NEW i \in DOMAIN t PROVE t[i] \in ToSet(u)
    <3>1. Len(s) + i \in DOMAIN u /\ u[Len(s) + i] = t[i]
      BY <1>1, <1>2
    <3> QED BY <3>1 DEF ToSet
  <2> QED BY <2>1, <2>2, <2>3 DEF ToSet
<1>4. ASSUME IsInjective(s), IsInjective(t), ToSet(s) \cap ToSet(t) = {}
      PROVE  IsInjective(u)
  <2>1. \A i \in DOMAIN s, k \in DOMAIN t : s[i] # t[k]
    BY <1>4 DEF ToSet
  <2>2. SUFFICES ASSUME NEW i \in DOMAIN u, NEW k \in DOMAIN u, u[i] = u[k]
                 PROVE  i = k
    BY DEF IsInjective
  <2>3. \A j \in DOMAIN u : \/ j <= Len(s) /\ j \in DOMAIN s /\ u[j] = s[j]
                            \/ j > Len(s) /\ j - Len(s) \in DOMAIN t /\ u[j] = t[j - Len(s)]
    BY <1>1, <1>2
  <2>4. CASE i <= Len(s) /\ k <= Len(s)
    BY <1>1, <1>2, <1>4, <2>2, <2>3, <2>4 DEF IsInjective
  <2>5. CASE i > Len(s) /\ k > Len(s)
    <3>1. i - Len(s) = k - Len(s)
      BY <1>1, <1>2, <1>4, <2>2, <2>3, <2>5 DEF IsInjective
    <3> QED BY <1>1, <1>2, <3>1
  <2> QED BY <1>1, <1>2, <2>1, <2>2, <2>3, <2>4, <2>5
<1> QED BY <1>1, <1>3, <1>4 DEF u

\* A list of distinct elements cut in two.
LEMMA Cut ==
  ASSUME NEW S, NEW s \in Seq(S), NEW k \in 0 .. Len(s)
  PROVE  /\ SubSeq(s, 1, k) \in Seq(S) /\ Len(SubSeq(s, 1, k)) = k
         /\ \A i \in 1 .. k : SubSeq(s, 1, k)[i] = s[i]
         /\ ToSet(SubSeq(s, 1, k)) \cup ToSet(SubSeq(s, k + 1, Len(s))) = ToSet(s)
         /\ IsInjective(s) =>
              /\ IsInjective(SubSeq(s, 1, k))
              /\ ToSet(SubSeq(s, 1, k)) \cap ToSet(SubSeq(s, k + 1, Len(s))) = {}
<1> DEFINE t == SubSeq(s, 1, k)
           u == SubSeq(s, k + 1, Len(s))
<1>0. Len(s) \in Nat /\ k \in Nat /\ k <= Len(s)
  BY LenProperties
<1>1. /\ Len(s) \in Nat /\ k \in Int /\ DOMAIN s = 1 .. Len(s)
      /\ \A i \in 1 .. Len(s) : s[i] \in S
  BY LenProperties
<1>2. /\ t \in Seq(S) /\ Len(t) = k /\ \A i \in 1 .. k : t[i] = s[i]
  BY <1>1, SubSeqProperties, SMTT(60)
<1>3. /\ u \in Seq(S) /\ Len(u) = Len(s) - k
      /\ \A i \in 1 .. Len(s) - k : u[i] = s[k + i]
  <2>1. \A i \in k + 1 .. Len(s) : s[i] \in S
    BY <1>1
  <2>2. /\ u \in Seq(S) /\ Len(u) = IF k + 1 <= Len(s) THEN Len(s) - (k + 1) + 1 ELSE 0
        /\ \A i \in 1 .. Len(s) - (k + 1) + 1 : u[i] = s[(k + 1) + i - 1]
    BY <1>1, <2>1, SubSeqProperties
  <2>3. Len(s) - (k + 1) + 1 = Len(s) - k /\ (k + 1 <= Len(s) \/ Len(s) - k = 0)
    BY <1>0
  <2>4. ASSUME NEW i \in 1 .. Len(s) - k PROVE u[i] = s[k + i]
    <3>1. (k + 1) + i - 1 = k + i /\ i \in 1 .. Len(s) - (k + 1) + 1
      BY <1>0
    <3> QED BY <2>2, <3>1
  <2>5. \A i \in 1 .. Len(s) - k : u[i] = s[k + i]
    BY <2>4
  <2> HIDE DEF u
  <2> QED BY <2>2, <2>3, <2>5
<1>4. DOMAIN t = 1 .. k /\ DOMAIN u = 1 .. Len(s) - k
  BY <1>2, <1>3, LenProperties
<1> HIDE DEF t, u
<1>5. ToSet(t) \cup ToSet(u) = ToSet(s)
  <2>1. ASSUME NEW i \in DOMAIN s PROVE s[i] \in ToSet(t) \cup ToSet(u)
    <3>1. CASE i <= k
      BY <1>1, <1>2, <1>4, <3>1 DEF ToSet
    <3>2. CASE i > k
      <4>1. i - k \in DOMAIN u /\ u[i - k] = s[i]
        BY <1>1, <1>3, <1>4, <3>2
      <4> QED BY <4>1 DEF ToSet
    <3> QED BY <1>1, <3>1, <3>2
  <2>2. /\ \A i \in DOMAIN t : t[i] \in ToSet(s)
        /\ \A i \in DOMAIN u : u[i] \in ToSet(s)
    <3>1. /\ \A i \in DOMAIN t : i \in DOMAIN s /\ t[i] = s[i]
          /\ \A i \in DOMAIN u : k + i \in DOMAIN s /\ u[i] = s[k + i]
      BY <1>1, <1>2, <1>3, <1>4
    <3> QED BY <3>1 DEF ToSet
  <2> QED BY <2>1, <2>2 DEF ToSet
<1>6. ASSUME IsInjective(s) PROVE IsInjective(t) /\ ToSet(t) \cap ToSet(u) = {}
  <2>1. \A i \in DOMAIN t, j \in DOMAIN u : t[i] # u[j]
    <3>1. ASSUME NEW i \in DOMAIN t, NEW j \in DOMAIN u PROVE t[i] # u[j]
      <4>1. i \in DOMAIN s /\ k + j \in DOMAIN s /\ i # k + j
        BY <1>1, <1>4
      <4>2. s[i] # s[k + j]
        BY <1>6, <4>1 DEF IsInjective
      <4> QED BY <1>2, <1>3, <1>4, <4>2
    <3> QED BY <3>1
  <2> QED BY <1>1, <1>2, <1>4, <1>6, <2>1 DEF IsInjective, ToSet
<1> QED BY <1>2, <1>5, <1>6 DEF t, u

------------------------------------------------------------------------------
\* Numbers: a set of them that is not empty has a least element, and so contains
\* all of them if it contains 0 and the successor of each of its elements.

\* A set of natural numbers that is not empty has a least element.
LEMMA LeastElement ==
  ASSUME NEW T \in SUBSET Nat, T # {}
  PROVE  \E n \in T : \A m \in T : n <= m
<1> DEFINE below == {1 .. n : n \in T}
           Smaller == StrictSubsetOrdering(Nat)
<1>1. below \subseteq FiniteSubsetsOf(Nat) /\ below # {}
  <2>1. ASSUME NEW n \in T PROVE 1 .. n \in SUBSET Nat /\ IsFiniteSet(1 .. n)
    <3>1. n \in Int /\ 1 \in Int
      OBVIOUS
    <3> QED BY <3>1, FS_Interval
  <2> QED BY <2>1 DEF FiniteSubsetsOf
<1>2. \E x \in below : \A y \in below : ~ (<<y, x>> \in Smaller)
  <2> HIDE DEF below, Smaller
  <2> QED BY <1>1, WFMin, FS_StrictSubsetOrderingWellFounded DEF Smaller
<1>3. PICK n \in T : \A m \in T : ~ (<<1 .. m, 1 .. n>> \in Smaller)
  BY <1>2
<1>4. ASSUME NEW m \in T, m < n
      PROVE  FALSE
  <2>1. 1 .. m \subseteq 1 .. n /\ n \in 1 .. n /\ n \notin 1 .. m
    BY <1>4
  <2>2. <<1 .. m, 1 .. n>> \in Smaller
    BY <2>1 DEF StrictSubsetOrdering
  <2> QED BY <1>3, <2>2
<1> QED BY <1>4

\* Induction over the natural numbers, for a set instead of a predicate: the
\* set is a constant, so that any prover can be given this lemma.
LEMMA SetInduction ==
  ASSUME NEW T, 0 \in T, \A n \in Nat : n \in T => n + 1 \in T
  PROVE  Nat \subseteq T
<1> SUFFICES ASSUME Nat \ T # {} PROVE FALSE
  OBVIOUS
<1>1. PICK n \in Nat \ T : \A m \in Nat \ T : n <= m
  BY LeastElement
<1>2. n - 1 \in Nat /\ n - 1 \in T
  BY <1>1
<1> QED BY <1>1, <1>2

------------------------------------------------------------------------------
\* A loop as a recursive function: x is what the loop has, C where it goes on,
\* nx[x] what it has then.
IsLoop(f, X, C, nx) == f = [x \in X |-> IF x \in C THEN f[nx[x]] ELSE x]
Stays(X, C, nx)     == \A x \in X : x \in C => nx[x] \in X

\* Whether the loop ends or not, there is a function that is what its equation
\* says: of what can be reached from x, something where the loop ends.
LEMMA LoopExists ==
  ASSUME NEW X, NEW C, NEW nx, Stays(X, C, nx)
  PROVE  \E f : IsLoop(f, X, C, nx)
<1> DEFINE Closed(R) == \A x \in R : x \in C => nx[x] \in R
           Ends(x) == {e \in X \ C : \A R \in SUBSET X : x \in R /\ Closed(R) => e \in R}
           f == [x \in X |-> CHOOSE e : e \in Ends(x)]
<1>0. \A x \in X : x \in C => nx[x] \in X
  BY DEF Stays
<1>1. ASSUME NEW x \in X, x \in C PROVE Ends(x) = Ends(nx[x])
  <2>1. ASSUME NEW e \in Ends(x) PROVE e \in Ends(nx[x])
    <3> SUFFICES ASSUME NEW R \in SUBSET X, nx[x] \in R, Closed(R) PROVE e \in R
      BY <2>1
    <3>1. R \cup {x} \in SUBSET X /\ x \in R \cup {x} /\ Closed(R \cup {x})
      BY <1>0
    <3>2. e \in R \cup {x} /\ e \notin C
      <4> HIDE DEF Closed
      <4> QED BY <2>1, <3>1
    <3> QED BY <1>1, <3>2
  <2>2. ASSUME NEW e \in Ends(nx[x]) PROVE e \in Ends(x)
    <3> SUFFICES ASSUME NEW R \in SUBSET X, x \in R, Closed(R) PROVE e \in R
      BY <2>2
    <3>1. nx[x] \in R
      BY <1>0, <1>1
    <3> QED BY <2>2, <3>1
  <2> QED BY <2>1, <2>2
<1>2. ASSUME NEW x \in X, x \notin C PROVE Ends(x) = {x}
  <2>1. x \in Ends(x)
    BY <1>2
  <2>2. {x} \in SUBSET X /\ Closed({x})
    BY <1>2
  <2>3. \A e \in Ends(x) : e \in {x}
    <3> HIDE DEF Closed
    <3> QED BY <2>2
  <2> QED BY <2>1, <2>3
<1>3. ASSUME NEW x \in X PROVE f[x] = IF x \in C THEN f[nx[x]] ELSE x
  <2> HIDE DEF Ends
  <2>1. CASE x \in C
    <3>1. nx[x] \in X
      BY <1>0, <2>1
    <3> QED BY <1>1, <2>1, <3>1
  <2>2. CASE x \notin C
    BY <1>2, <2>2
  <2> QED BY <2>1, <2>2
<1>4. f = [x \in X |-> f[x]]
  OBVIOUS
<1> HIDE DEF f
<1>5. IsLoop(f, X, C, nx)
  BY <1>3, <1>4 DEF IsLoop
<1> QED BY <1>5

------------------------------------------------------------------------------
\* FlattenSeq, which puts the sequences of a sequence together: what it gives for
\* a concatenation, for one sequence and for sequences of one element.

\* The function by which FlattenSeq flattens: f[i] is what the first i elements of
\* s are together.
IsFlatten(f, s) ==
  f = [i \in 1 .. Len(s) |-> IF i = 1 THEN s[i] ELSE f[i - 1] \o s[i]]

\* What such a function is at each of its arguments.
LEMMA FlattenAt ==
  ASSUME NEW f, NEW s, IsFlatten(f, s)
  PROVE  \A i \in 1 .. Len(s) : f[i] = IF i = 1 THEN s[i] ELSE f[i - 1] \o s[i]
BY DEF IsFlatten

\* A sequence of n + 1 elements is one of n and an element behind it.
IsFrontAndLast(s, n, S) ==
  /\ Front(s) \in Seq(S) /\ Len(Front(s)) = n /\ s[n + 1] \in S
  /\ s = Append(Front(s), s[n + 1])

\* Every sequence of n + 1 elements is: cut it before its last element.
LEMMA FrontAndLast ==
  ASSUME NEW S, NEW n \in Nat, NEW s \in Seq(S), Len(s) = n + 1
  PROVE  IsFrontAndLast(s, n, S)
<1> DEFINE t == SubSeq(s, 1, n)
           x == s[n + 1]
<1>1. /\ t \in Seq(S) /\ Len(t) = n /\ \A i \in 1 .. n : t[i] = s[i]
  BY Cut
<1>2. x \in S
  BY LenProperties
<1>0. Front(s) = t
  <2>1. Len(s) - 1 = n
    OBVIOUS
  <2> QED BY <2>1 DEF Front
<1> HIDE DEF t
<1>3. s = Append(t, x)
  <2>1. Append(t, x) \in Seq(S) /\ Len(Append(t, x)) = n + 1
    BY <1>1, <1>2, AppendProperties
  <2>2. ASSUME NEW i \in 1 .. n + 1 PROVE s[i] = Append(t, x)[i]
    BY <1>1, <1>2, AppendProperties
  <2> HIDE DEF x
  <2> QED BY <2>1, <2>2, SeqEqual
<1> QED BY <1>0, <1>1, <1>2, <1>3 DEF IsFrontAndLast

\* There is such a function for a sequence and an element behind it if there is one
\* for the sequence.
LEMMA FlattenGrows ==
  ASSUME NEW S, NEW s \in Seq(S), NEW x \in S, NEW f, IsFlatten(f, s)
  PROVE  \E g : IsFlatten(g, Append(s, x))
<1> DEFINE n == Len(s)
           u == Append(s, x)
           g == [i \in 1 .. n + 1 |-> IF i \in 1 .. n THEN f[i]
                                      ELSE IF n = 0 THEN x ELSE f[n] \o x]
<1>1. /\ n \in Nat /\ Len(u) = n + 1 /\ u[n + 1] = x
      /\ \A i \in 1 .. n : u[i] = s[i]
  BY AppendProperties, LenProperties
<1>2. \A i \in 1 .. n : f[i] = IF i = 1 THEN s[i] ELSE f[i - 1] \o s[i]
  BY FlattenAt
<1>3. /\ \A i \in 1 .. n : g[i] = f[i]
      /\ g[n + 1] = IF n = 0 THEN x ELSE f[n] \o x
      /\ g = [i \in 1 .. n + 1 |-> g[i]]
  BY <1>1
<1> HIDE DEF n, u, g
<1>4. ASSUME NEW i \in 1 .. n + 1
      PROVE  g[i] = IF i = 1 THEN u[i] ELSE g[i - 1] \o u[i]
  <2>1. CASE i = n + 1
    <3>1. CASE n = 0
      BY <1>1, <1>3, <2>1, <3>1
    <3>2. CASE n # 0
      <4>1. n \in 1 .. n /\ i - 1 = n /\ i # 1
        BY <1>1, <2>1, <3>2
      <4> QED BY <1>1, <1>3, <2>1, <3>2, <4>1
    <3> QED BY <3>1, <3>2
  <2>2. CASE i # n + 1
    <3>1. i \in 1 .. n /\ (i # 1 => i - 1 \in 1 .. n)
      BY <1>1, <2>2
    <3> QED BY <1>1, <1>2, <1>3, <3>1
  <2> QED BY <2>1, <2>2
<1>5. g = [i \in 1 .. n + 1 |-> IF i = 1 THEN u[i] ELSE g[i - 1] \o u[i]]
  BY <1>3, <1>4
<1>6. IsFlatten(g, u)
  BY <1>1, <1>5 DEF IsFlatten
<1> QED BY <1>6 DEF u

\* Every sequence has one.
LEMMA FlattenExists ==
  ASSUME NEW S
  PROVE  \A s \in Seq(S) : \E f : IsFlatten(f, s)
<1> DEFINE T == {n \in Nat : \A s \in Seq(S) : Len(s) = n => \E f : IsFlatten(f, s)}
<1>1. 0 \in T
  <2> SUFFICES ASSUME NEW s \in Seq(S), Len(s) = 0 PROVE \E f : IsFlatten(f, s)
    OBVIOUS
  <2>1. 1 .. Len(s) = {}
    OBVIOUS
  <2> DEFINE e == [i \in {} |-> i]
  <2>2. e = [i \in 1 .. Len(s) |-> IF i = 1 THEN s[i] ELSE e[i - 1] \o s[i]]
    BY <2>1
  <2> QED BY <2>2 DEF IsFlatten
<1>2. ASSUME NEW n \in Nat, n \in T PROVE n + 1 \in T
  <2> SUFFICES ASSUME NEW s \in Seq(S), Len(s) = n + 1 PROVE \E f : IsFlatten(f, s)
    OBVIOUS
  <2> DEFINE t == Front(s)
             x == s[n + 1]
  <2>1. t \in Seq(S) /\ x \in S /\ Len(t) = n /\ s = Append(t, x)
    BY FrontAndLast DEF IsFrontAndLast
  <2> HIDE DEF t, x
  <2>2. PICK f : IsFlatten(f, t)
    BY <1>2, <2>1
  <2> QED BY <2>1, <2>2, FlattenGrows
<1> HIDE DEF T
<1>3. Nat \subseteq T
  BY <1>1, <1>2, SetInduction
<1> SUFFICES ASSUME NEW s \in Seq(S) PROVE \E f : IsFlatten(f, s)
  OBVIOUS
<1>4. Len(s) \in T
  BY <1>3, LenProperties
<1> QED BY <1>4 DEF T

\* FlattenSeq by such a function.
LEMMA FlattenBy ==
  ASSUME NEW S, NEW s \in Seq(S), s # << >>
  PROVE  \E f : IsFlatten(f, s) /\ FlattenSeq(s) = f[Len(s)]
<1> DEFINE f == CHOOSE f : IsFlatten(f, s)
<1>1. IsFlatten(f, s)
  BY FlattenExists
<1>2. Len(s) # 0
  BY EmptySeq, LenProperties
<1>3. FlattenSeq(s) = f[Len(s)]
  BY <1>2 DEF FlattenSeq, IsFlatten
<1> QED BY <1>1, <1>3

\* Two sequences flattened: what they begin with alike, is alike.
LEMMA FlattenAgrees ==
  ASSUME NEW S, NEW s \in Seq(S), NEW u \in Seq(S), Len(s) <= Len(u),
         \A i \in 1 .. Len(s) : u[i] = s[i],
         NEW f, IsFlatten(f, s), NEW g, IsFlatten(g, u)
  PROVE  \A i \in 1 .. Len(s) : g[i] = f[i]
<1> DEFINE n == Len(s)
           T == {i \in Nat : i + 1 \in 1 .. n => g[i + 1] = f[i + 1]}
<1>1. n \in Nat /\ Len(u) \in Nat /\ n <= Len(u)
  BY LenProperties
<1>2. \A i \in 1 .. n : f[i] = IF i = 1 THEN s[i] ELSE f[i - 1] \o s[i]
  BY FlattenAt
<1>3. \A i \in 1 .. n : g[i] = IF i = 1 THEN s[i] ELSE g[i - 1] \o s[i]
  BY <1>1, FlattenAt
<1> HIDE DEF n
<1>4. 0 \in T
  BY <1>1, <1>2, <1>3
<1>5. ASSUME NEW i \in Nat, i \in T PROVE i + 1 \in T
  <2> SUFFICES ASSUME i + 1 + 1 \in 1 .. n PROVE g[i + 1 + 1] = f[i + 1 + 1]
    OBVIOUS
  <2>1. i + 1 \in 1 .. n /\ i + 1 + 1 - 1 = i + 1 /\ i + 1 + 1 # 1
    BY <1>1
  <2>2. g[i + 1] = f[i + 1]
    BY <1>5, <2>1
  <2> QED BY <1>2, <1>3, <2>1, <2>2
<1>6. Nat \subseteq T
  <2> HIDE DEF T
  <2> QED BY <1>4, <1>5, SetInduction
<1>7. ASSUME NEW i \in 1 .. n PROVE g[i] = f[i]
  <2>1. i - 1 \in Nat /\ i - 1 + 1 = i
    BY <1>1
  <2>2. i - 1 \in T
    BY <1>6, <2>1
  <2> QED BY <2>1, <2>2
<1> QED BY <1>7 DEF n

\* The last step of it.
LEMMA FlattenLast ==
  ASSUME NEW g, NEW u, IsFlatten(g, u), NEW n \in Nat, n # 0, Len(u) = n + 1
  PROVE  g[n + 1] = g[n] \o u[n + 1]
<1> DEFINE Cat(a, b) == a \o b
<1>1. \A i \in 1 .. Len(u) : g[i] = IF i = 1 THEN u[i] ELSE Cat(g[i - 1], u[i])
  BY FlattenAt
<1> HIDE DEF Cat
<1>2. n + 1 \in 1 .. Len(u) /\ n + 1 # 1 /\ n + 1 - 1 = n
  OBVIOUS
<1>3. g[n + 1] = Cat(g[n], u[n + 1])
  BY <1>1, <1>2
<1> QED BY <1>3 DEF Cat

\* Q are the sequences over S, without the provers' seeing it.
AreLists(Q, S) == Q = Seq(S)

\* A sequence and another one with an element behind it.
LEMMA ConcatAppend ==
  ASSUME NEW Q, NEW s \in Seq(Q), NEW u \in Seq(Q), NEW x \in Q
  PROVE  s \o Append(u, x) = Append(s \o u, x)
<1> DEFINE t == Append(u, x)
           n == Len(u)
<1>0. t \in Seq(Q) /\ Len(t) = n + 1 /\ n \in Nat
  BY AppendProperties, LenProperties
<1>1. s \o u \in Seq(Q) /\ s \o t \in Seq(Q) /\ Append(s \o u, x) \in Seq(Q)
  BY <1>0, ConcatProperties, AppendProperties
<1>2. /\ Len(s \o u) = Len(s) + n /\ Len(s \o t) = Len(s) + (n + 1)
      /\ Len(Append(s \o u, x)) = Len(s) + n + 1
      /\ Len(s) \in Nat
  <2>1. Len(s \o u) = Len(s) + n /\ Len(s \o t) = Len(s) + (n + 1)
    BY <1>0, ConcatProperties
  <2>2. Len(Append(s \o u, x)) = Len(s \o u) + 1
    BY <1>1, AppendProperties
  <2> QED BY <2>1, <2>2, LenProperties
<1>3. \A i \in 1 .. Len(s) + (n + 1) :
        (s \o t)[i] = IF i <= Len(s) THEN s[i] ELSE t[i - Len(s)]
  BY ConcatProperties
<1>4. \A i \in 1 .. Len(s) + n :
        (s \o u)[i] = IF i <= Len(s) THEN s[i] ELSE u[i - Len(s)]
  BY <1>0, ConcatProperties
<1>5. /\ \A i \in 1 .. Len(s) + n : Append(s \o u, x)[i] = (s \o u)[i]
      /\ Append(s \o u, x)[Len(s) + n + 1] = x
  BY <1>1, <1>2, AppendProperties
<1>6. /\ \A i \in 1 .. n : t[i] = u[i]
      /\ t[n + 1] = x
  BY <1>0, AppendProperties
<1>7. ASSUME NEW i \in 1 .. Len(s) + n + 1 PROVE (s \o t)[i] = Append(s \o u, x)[i]
  <2>1. CASE i <= Len(s)
    BY <1>2, <1>3, <1>4, <1>5, <2>1
  <2>2. CASE i > Len(s) /\ i <= Len(s) + n
    <3>1. i - Len(s) \in 1 .. n /\ i \in 1 .. Len(s) + n /\ ~(i <= Len(s))
      BY <1>2, <2>2
    <3>2. (s \o t)[i] = t[i - Len(s)]
      BY <1>2, <1>3, <3>1
    <3> QED BY <1>4, <1>5, <1>6, <3>1, <3>2
  <2>3. CASE i = Len(s) + n + 1
    <3>1. i - Len(s) = n + 1 /\ i \in 1 .. Len(s) + (n + 1) /\ ~(i <= Len(s))
      BY <1>2, <2>3
    <3> QED BY <1>3, <1>5, <1>6, <2>3, <3>1
  <2> QED BY <1>2, <2>1, <2>2, <2>3
<1>8. Len(s \o t) = Len(s) + n + 1
  BY <1>2
<1> QED BY <1>1, <1>2, <1>7, <1>8, SeqEqual

\* A sequence of sequences flattened, with one more behind it.
LEMMA FlattenAppend ==
  ASSUME NEW S, NEW Q, AreLists(Q, S), NEW s \in Seq(Q), NEW x \in Q
  PROVE  FlattenSeq(Append(s, x)) = FlattenSeq(s) \o x
<1> DEFINE n == Len(s)
           u == Append(s, x)
<1>1. /\ n \in Nat /\ u \in Seq(Q) /\ Len(u) = n + 1 /\ u[n + 1] = x
      /\ \A i \in 1 .. n : u[i] = s[i]
  BY AppendProperties, LenProperties
<1>2. u # << >>
  BY <1>1, EmptySeq
<1>3. PICK g : IsFlatten(g, u) /\ FlattenSeq(u) = g[Len(u)]
  BY <1>1, <1>2, FlattenBy
<1>4. \A i \in 1 .. Len(u) : g[i] = IF i = 1 THEN u[i] ELSE g[i - 1] \o u[i]
  BY <1>3, FlattenAt, ZenonT(60)
<1>5. CASE s = << >>
  <2>1. n = 0
    BY <1>5
  <2>2. FlattenSeq(s) = << >>
    BY <1>5 DEF FlattenSeq
  <2>3. FlattenSeq(u) = x
    <3> HIDE DEF u
    <3> QED BY <1>1, <1>3, <1>4, <2>1
  <2> QED BY <2>2, <2>3, ConcatEmptySeq DEF AreLists
<1>6. CASE s # << >>
  <2>1. n # 0
    BY <1>6, EmptySeq
  <2>2. PICK f : IsFlatten(f, s) /\ FlattenSeq(s) = f[n]
    BY <1>6, FlattenBy
  <2>3. g[n] = f[n]
    <3> HIDE DEF u
    <3>1. \A i \in 1 .. n : g[i] = f[i]
      BY <1>1, <1>3, <2>2, FlattenAgrees
    <3> QED BY <1>1, <2>1, <3>1
  <2>4. g[n + 1] = g[n] \o x
    <3> HIDE DEF u, n
    <3> QED BY <1>1, <1>3, <2>1, FlattenLast
  <2> QED BY <1>1, <1>3, <2>2, <2>3, <2>4
<1> QED BY <1>5, <1>6

\* A sequence of sequences flattened is a sequence.
LEMMA FlattenType ==
  ASSUME NEW S, NEW Q, AreLists(Q, S)
  PROVE  \A s \in Seq(Q) : FlattenSeq(s) \in Seq(S)
<1> DEFINE T == {n \in Nat : \A s \in Seq(Q) : Len(s) = n => FlattenSeq(s) \in Seq(S)}
<1>1. 0 \in T
  <2> SUFFICES ASSUME NEW s \in Seq(Q), Len(s) = 0 PROVE FlattenSeq(s) \in Seq(S)
    OBVIOUS
  <2>1. s = << >>
    BY EmptySeq
  <2> QED BY <2>1 DEF FlattenSeq
<1>2. ASSUME NEW n \in Nat, n \in T PROVE n + 1 \in T
  <2> SUFFICES ASSUME NEW s \in Seq(Q), Len(s) = n + 1 PROVE FlattenSeq(s) \in Seq(S)
    OBVIOUS
  <2> DEFINE t == Front(s)
             x == s[n + 1]
  <2>1. t \in Seq(Q) /\ x \in Q /\ Len(t) = n /\ s = Append(t, x)
    <3>1. IsFrontAndLast(s, n, Q)
      BY FrontAndLast
    <3> QED BY <3>1 DEF IsFrontAndLast
  <2> HIDE DEF t, x
  <2>2. FlattenSeq(t) \in Seq(S)
    BY <1>2, <2>1
  <2>3. FlattenSeq(s) = FlattenSeq(t) \o x
    BY <2>1, FlattenAppend
  <2> QED BY <2>1, <2>2, <2>3, ConcatProperties DEF AreLists
<1> HIDE DEF T
<1>3. Nat \subseteq T
  BY <1>1, <1>2, SetInduction
<1> SUFFICES ASSUME NEW s \in Seq(Q) PROVE FlattenSeq(s) \in Seq(S)
  OBVIOUS
<1>4. Len(s) \in T
  BY <1>3, LenProperties
<1> QED BY <1>4 DEF T

\* Flattening goes through a concatenation.
LEMMA FlattenConcat ==
  ASSUME NEW S, NEW Q, AreLists(Q, S), NEW s \in Seq(Q)
  PROVE  \A t \in Seq(Q) : FlattenSeq(s \o t) = FlattenSeq(s) \o FlattenSeq(t)
<1> DEFINE Good(t) == FlattenSeq(s \o t) = FlattenSeq(s) \o FlattenSeq(t)
           T == {n \in Nat : \A t \in Seq(Q) : Len(t) = n => Good(t)}
<1>1. 0 \in T
  <2> SUFFICES ASSUME NEW t \in Seq(Q), Len(t) = 0 PROVE Good(t)
    OBVIOUS
  <2>1. t = << >>
    BY EmptySeq
  <2>2. s \o t = s
    BY <2>1, ConcatEmptySeq
  <2>3. FlattenSeq(t) = << >>
    BY <2>1 DEF FlattenSeq
  <2>4. FlattenSeq(s) \o << >> = FlattenSeq(s)
    BY FlattenType, ConcatEmptySeq
  <2> QED BY <2>2, <2>3, <2>4
<1>2. ASSUME NEW n \in Nat, n \in T PROVE n + 1 \in T
  <2> SUFFICES ASSUME NEW t \in Seq(Q), Len(t) = n + 1 PROVE Good(t)
    OBVIOUS
  <2> DEFINE u == Front(t)
             x == t[n + 1]
  <2>1. u \in Seq(Q) /\ x \in Q /\ Len(u) = n /\ t = Append(u, x)
    <3>1. IsFrontAndLast(t, n, Q)
      BY FrontAndLast
    <3> QED BY <3>1 DEF IsFrontAndLast
  <2> HIDE DEF u, x
  <2>2. FlattenSeq(s \o u) = FlattenSeq(s) \o FlattenSeq(u)
    BY <1>2, <2>1
  <2>3. s \o u \in Seq(Q) /\ s \o t = Append(s \o u, x)
    BY <2>1, ConcatAppend, ConcatProperties
  <2>4. FlattenSeq(s \o t) = (FlattenSeq(s) \o FlattenSeq(u)) \o x
    <3> DEFINE v == s \o u
    <3>1. v \in Seq(Q)
      BY <2>3
    <3> HIDE DEF v
    <3>2. FlattenSeq(Append(v, x)) = FlattenSeq(v) \o x
      BY <2>1, <3>1, FlattenAppend
    <3> QED BY <2>2, <2>3, <3>2 DEF v
  <2>5. FlattenSeq(t) = FlattenSeq(u) \o x
    BY <2>1, FlattenAppend
  <2>6. (FlattenSeq(s) \o FlattenSeq(u)) \o x = FlattenSeq(s) \o (FlattenSeq(u) \o x)
    <3>1. FlattenSeq(s) \in Seq(S) /\ FlattenSeq(u) \in Seq(S) /\ x \in Seq(S)
      BY <2>1, FlattenType DEF AreLists
    <3> QED BY <3>1, ConcatAssociative, SMTT(60)
  <2> QED BY <2>4, <2>5, <2>6
<1> HIDE DEF T
<1>3. Nat \subseteq T
  BY <1>1, <1>2, SetInduction
<1> SUFFICES ASSUME NEW t \in Seq(Q) PROVE Good(t)
  OBVIOUS
<1>4. Len(t) \in T
  BY <1>3, LenProperties
<1> QED BY <1>4 DEF T

\* Each element of s is a sequence of one element.
Ones(s) == \A i \in DOMAIN s : Len(s[i]) = 1
\* r is what these elements are.
AreThose(r, s) == Len(r) = Len(s) /\ \A i \in 1 .. Len(s) : r[i] = s[i][1]

\* One element more on both sides.
LEMMA OnesGrow ==
  ASSUME NEW S, NEW r \in Seq(S), NEW y \in Seq(S), Len(y) = 1,
         NEW Q, NEW t \in Seq(Q), y \in Q, AreThose(r, t)
  PROVE  AreThose(r \o y, Append(t, y))
<1> DEFINE n == Len(t)
           u == Append(t, y)
           v == r \o y
<1>1. Len(r) = n /\ n \in Nat /\ \A i \in 1 .. n : r[i] = t[i][1]
  BY LenProperties DEF AreThose
<1>2. Len(u) = n + 1 /\ u[n + 1] = y /\ \A i \in 1 .. n : u[i] = t[i]
  BY AppendProperties
<1>3. Len(v) = n + 1 /\ \A i \in 1 .. n + 1 : v[i] = IF i <= n THEN r[i] ELSE y[i - n]
  <2>1. /\ Len(v) = Len(r) + Len(y)
        /\ \A i \in 1 .. Len(r) + Len(y) : v[i] = IF i <= Len(r) THEN r[i] ELSE y[i - Len(r)]
    BY ConcatProperties
  <2> HIDE DEF v, n
  <2> QED BY <1>1, <2>1
<1> HIDE DEF n, u, v
<1>4. ASSUME NEW i \in 1 .. n + 1 PROVE v[i] = u[i][1]
  <2>1. CASE i <= n
    BY <1>1, <1>2, <1>3, <2>1
  <2>2. CASE i > n
    <3>1. i = n + 1 /\ i - n = 1 /\ ~(i <= n)
      BY <1>1, <2>2
    <3> QED BY <1>2, <1>3, <3>1
  <2> QED BY <1>1, <2>1, <2>2
<1> QED BY <1>2, <1>3, <1>4 DEF AreThose, u, v

\* A sequence of sequences of one element, flattened.
LEMMA FlattenOnes ==
  ASSUME NEW S, NEW Q, AreLists(Q, S)
  PROVE  \A s \in Seq(Q) : Ones(s) => AreThose(FlattenSeq(s), s)
<1> DEFINE T == {n \in Nat : \A s \in Seq(Q) : Len(s) = n /\ Ones(s) => AreThose(FlattenSeq(s), s)}
<1>1. 0 \in T
  <2> SUFFICES ASSUME NEW s \in Seq(Q), Len(s) = 0 PROVE AreThose(FlattenSeq(s), s)
    OBVIOUS
  <2>1. s = << >>
    BY EmptySeq
  <2>2. FlattenSeq(s) = << >>
    BY <2>1 DEF FlattenSeq
  <2> QED BY <2>1, <2>2 DEF AreThose
<1>2. ASSUME NEW n \in Nat, n \in T PROVE n + 1 \in T
  <2> SUFFICES ASSUME NEW s \in Seq(Q), Len(s) = n + 1, Ones(s)
               PROVE  AreThose(FlattenSeq(s), s)
    OBVIOUS
  <2> DEFINE t == Front(s)
             x == s[n + 1]
  <2>1. t \in Seq(Q) /\ x \in Q /\ Len(t) = n /\ s = Append(t, x)
    <3>1. IsFrontAndLast(s, n, Q)
      BY FrontAndLast
    <3> QED BY <3>1 DEF IsFrontAndLast
  <2> HIDE DEF t
  <2>2. Ones(t) /\ Len(x) = 1
    <3>1. DOMAIN s = 1 .. n + 1 /\ DOMAIN t = 1 .. n
      BY <2>1, LenProperties
    <3>2. \A i \in 1 .. n : s[i] = t[i]
      BY <2>1, AppendProperties
    <3> QED BY <3>1, <3>2 DEF Ones
  <2> HIDE DEF x
  <2>3. AreThose(FlattenSeq(t), t)
    BY <1>2, <2>1, <2>2
  <2>4. FlattenSeq(s) = FlattenSeq(t) \o x
    BY <2>1, FlattenAppend
  <2>5. FlattenSeq(t) \in Seq(S) /\ x \in Seq(S)
    BY <2>1, FlattenType DEF AreLists
  <2>6. AreThose(FlattenSeq(t) \o x, Append(t, x))
    <3> DEFINE r == FlattenSeq(t)
    <3>1. r \in Seq(S) /\ AreThose(r, t)
      BY <2>3, <2>5
    <3> HIDE DEF r
    <3>2. AreThose(r \o x, Append(t, x))
      BY <2>1, <2>2, <2>5, <3>1, OnesGrow
    <3> QED BY <3>2 DEF r
  <2> QED BY <2>1, <2>4, <2>6
<1> HIDE DEF T
<1>3. Nat \subseteq T
  BY <1>1, <1>2, SetInduction
<1> SUFFICES ASSUME NEW s \in Seq(Q), Ones(s) PROVE AreThose(FlattenSeq(s), s)
  OBVIOUS
<1>4. Len(s) \in T
  BY <1>3, LenProperties
<1> QED BY <1>4 DEF T

\* All that together, for sequences of sequences over S.
Flattens(s, t, S) ==
  /\ FlattenSeq(s) \in Seq(S)
  /\ FlattenSeq(s \o t) = FlattenSeq(s) \o FlattenSeq(t)
  /\ Ones(s) => AreThose(FlattenSeq(s), s)

\* Any two of them, from the lemmas above for Q.
LEMMA FlattenSeqs ==
  ASSUME NEW S, NEW s \in Seq(Seq(S)), NEW t \in Seq(Seq(S))
  PROVE  Flattens(s, t, S)
<1> DEFINE Q == Seq(S)
<1>1. AreLists(Q, S) /\ s \in Seq(Q) /\ t \in Seq(Q)
  BY DEF AreLists
<1> HIDE DEF Q
<1>2. FlattenSeq(s) \in Seq(S)
  BY <1>1, FlattenType
<1>3. FlattenSeq(s \o t) = FlattenSeq(s) \o FlattenSeq(t)
  BY <1>1, FlattenConcat
<1>4. Ones(s) => AreThose(FlattenSeq(s), s)
  BY <1>1, FlattenOnes
<1> QED BY <1>2, <1>3, <1>4 DEF Flattens

\* A sequence as the only element.
LEMMA FlattenOne ==
  ASSUME NEW S, NEW x \in Seq(S)
  PROVE  FlattenSeq(<< x >>) = x
<1> DEFINE Q == Seq(S)
<1>1. AreLists(Q, S) /\ x \in Q /\ << >> \in Seq(Q)
  BY DEF AreLists
<1>2. << x >> = Append(<< >>, x)
  OBVIOUS
<1>3. FlattenSeq(<< >>) = << >>
  BY DEF FlattenSeq
<1> HIDE DEF Q
<1>4. FlattenSeq(Append(<< >>, x)) = FlattenSeq(<< >>) \o x
  BY <1>1, FlattenAppend
<1> QED BY <1>2, <1>3, <1>4, ConcatEmptySeq
==============================================================================
