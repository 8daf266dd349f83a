------------------------------ MODULE PoolProofs ------------------------------
(***************************************************************************)
(* Pool.tla for any number of clients, resources and permits: a resource   *)
(* has one owner, the counter and the permits are exact, the maximum       *)
(* holds, and a ping that is waited for never meets a freed pool.          *)
(*                                                                         *)
(* Then the sockets that the library's own pools hold, for any number of   *)
(* threads, sockets, descriptors and addresses: the descriptors of         *)
(* Sockets.tla, the two records of a socket in Datagram.tla, and the bytes *)
(* of one, for any messages and reads, in Stream.tla.  Last, the pipes of  *)
(* the child processes, which are descriptors too, in Process.tla.         *)
(***************************************************************************)
EXTENDS Pool, Counting, TLAPS

\* DestroyFree comes after the last step of the ping.
PingAwaited == OwnTimer \/ ~SlowPing

Carriers == {"test", "pingtest", "pingrelease"}
Replacers == {"recreate", "uncount", "pingrecreate", "pinguncount"}

\* Users that stand for one of totcnt: each works on a resource, or on the
\* replacement of one.
Busy == {u \in Users : place[u] \in Carriers \cup Replacers}

Carrying == \A u \in Users : res[u] # None <=> place[u] \in Carriers

\* OneOwner, pair of owners by pair of owners.
Owned ==
  /\ IsInjective(avail)
  /\ \A c, d \in Clients : c # d => held[c] \cap held[d] = {}
  /\ \A u, v \in Users : res[u] # None /\ u # v => res[u] # res[v]
  /\ \A u \in Users : res[u] # None => res[u] \notin ToSet(avail)
  /\ \A u \in Users, c \in Clients : res[u] # None => res[u] \notin held[c]
  /\ \A c \in Clients : ToSet(avail) \cap held[c] = {}

\* Destroy comes when no client is inside, and none comes in after it.
Lifecycle ==
  /\ pool # "live" => ~pinging /\ \A c \in Clients : place[c] = "out"
  /\ PingAwaited => NoUseAfterFree

\* A ping that outlasts the pool still counts, but no longer what there is.
Counted ==
  pool # "freed" => totcnt = Len(avail) + Cardinality(Held) + Cardinality(Busy)

Bounded ==
  /\ permits <= maxcnt
  /\ (pool = "freed" => PingAwaited) => WithinMaximum

\* The inductive invariant.  A user that creates a resource has a permit and
\* no resource, and finds the list empty: what is counted then are resources
\* for which somebody else has a permit, and there are maxcnt permits at most.
Books == IsFiniteSet(Permitted) /\ Counted /\ PermitsExact /\ Bounded
IInv == TypeOK /\ Carrying /\ Owned /\ Lifecycle /\ Books

------------------------------------------------------------------------------
\* Static facts of a state.

\* The inductive form of ownership gives the property.
LEMMA OwnedIsOneOwner == Owned => OneOwner
BY DEF Owned, OneOwner, Held

\* The set of all resources held is finite, so it has a size.
LEMMA HeldFinite ==
  ASSUME TypeOK
  PROVE  IsFiniteSet(Held) /\ Cardinality(Held) \in Nat
<1>1. Held \subseteq Resources
  BY DEF TypeOK, Held
<1> QED BY <1>1, ResourcesAssumption, FS_Subset, FS_CardinalityType

\* Everybody who stands for a resource has a permit for it.
LEMMA BusyArePermitted ==
  ASSUME IsFiniteSet(Permitted)
  PROVE  /\ IsFiniteSet(Busy)
         /\ Cardinality(Busy) \in Nat /\ Cardinality(Permitted) \in Nat
         /\ \A u \in Permitted \ Busy : Cardinality(Busy) + 1 <= Cardinality(Permitted)
<1>1. Busy \subseteq Permitted
  BY DEF Busy, Permitted, Carriers, Replacers
<1>2. IsFiniteSet(Busy)
  BY <1>1, FS_Subset
<1>3. Cardinality(Busy) \in Nat /\ Cardinality(Permitted) \in Nat
  BY <1>2, FS_CardinalityType
<1>4. ASSUME NEW u \in Permitted \ Busy
      PROVE  Cardinality(Busy) + 1 <= Cardinality(Permitted)
  <2>1. Cardinality(Busy \cup {u}) = Cardinality(Busy) + 1
    BY <1>2, FS_AddElement
  <2>2. Busy \cup {u} \subseteq Permitted
    BY <1>1
  <2>3. Cardinality(Busy \cup {u}) <= Cardinality(Permitted)
    BY <2>2, FS_Subset
  <2> QED BY <2>1, <2>3
<1> QED BY <1>2, <1>3, <1>4

\* What createf returns is nobody's.
LEMMA NewIsNew ==
  ASSUME CanCreate
  PROVE  /\ New \in Resources
         /\ New # None
         /\ New \notin ToSet(avail)
         /\ \A c \in Clients : New \notin held[c]
         /\ \A u \in Users : New # res[u]
<1>1. New \in Resources /\ New \notin Living
  BY DEF CanCreate, New
<1> QED BY <1>1, NamesAssumption DEF Living, Held

\* Counting the resources, wherever they are, gives what Counted counts.
LEMMA LivingCounted ==
  ASSUME TypeOK, Carrying, Owned, IsFiniteSet(Permitted)
  PROVE  Cardinality(Living) + Cardinality(Replacing)
           = Len(avail) + Cardinality(Held) + Cardinality(Busy)
<1> DEFINE Working == {u \in Users : res[u] # None}
           Carried == {res[u] : u \in Users} \ {None}
           Listed == ToSet(avail)
<1>1. IsFiniteSet(Listed) /\ Cardinality(Listed) = Len(avail)
  BY InjectiveCount DEF TypeOK, Owned
<1>2. IsFiniteSet(Held) /\ Cardinality(Held) \in Nat
  BY HeldFinite
<1>3. Busy = Working \cup Replacing /\ Working \cap Replacing = {}
  BY DEF Busy, Replacing, Carrying, Carriers, Replacers
<1>4. IsFiniteSet(Working) /\ IsFiniteSet(Replacing)
  BY <1>3, BusyArePermitted, FS_Subset
<1>5. Cardinality(Busy) = Cardinality(Working) + Cardinality(Replacing)
  BY <1>3, <1>4, DisjointCount
<1>6. IsFiniteSet(Carried) /\ Cardinality(Carried) = Cardinality(Working)
  <2> DEFINE f == [u \in Working |-> res[u]]
  <2>1. f \in Bijection(Working, Carried)
    BY DEF Owned, Bijection, Injection, Surjection, IsInjective
  <2> QED BY <1>4, <2>1, FS_Bijection DEF ExistsBijection
<1>7. Living = (Listed \cup Held) \cup Carried
  BY DEF Living
<1>8. Listed \cap Held = {}
  BY DEF Owned, Held
<1>9. (Listed \cup Held) \cap Carried = {}
  BY DEF Owned, Held
<1>10. /\ IsFiniteSet(Listed \cup Held)
       /\ Cardinality(Listed \cup Held) = Cardinality(Listed) + Cardinality(Held)
  BY <1>1, <1>2, <1>8, DisjointCount
<1>11. Cardinality(Living) = Cardinality(Listed \cup Held) + Cardinality(Carried)
  BY <1>6, <1>7, <1>9, <1>10, DisjointCount
<1>12. /\ Cardinality(Listed) \in Nat /\ Cardinality(Held) \in Nat
       /\ Cardinality(Working) \in Nat /\ Cardinality(Replacing) \in Nat
  BY <1>1, <1>2, <1>4, FS_CardinalityType
<1> HIDE DEF Working, Carried, Listed
<1> QED BY <1>1, <1>5, <1>6, <1>10, <1>11, <1>12

\* The inductive invariant gives the three properties.
LEMMA IInvImplies ==
  IInv => OneOwner /\ (PingAwaited => CountsExact /\ NoUseAfterFree)
<1> SUFFICES ASSUME IInv PROVE OneOwner /\ (PingAwaited => CountsExact /\ NoUseAfterFree)
  OBVIOUS
<1>1. OneOwner
  BY OwnedIsOneOwner DEF IInv
<1>2. TotcntExact
  BY LivingCounted DEF IInv, Books, Counted, TotcntExact
<1>3. PermitsExact /\ (PingAwaited => WithinMaximum /\ NoUseAfterFree)
  BY DEF IInv, Books, Bounded, Lifecycle
<1> QED BY <1>1, <1>2, <1>3 DEF CountsExact, IInv

------------------------------------------------------------------------------
\* How a step moves the counts.

Is(p, places) == IF p \in places THEN 1 ELSE 0
Resting == {"out", "acquire", "await", "loop"}

\* Only user u moves.
CountsMoved(u) ==
  /\ IsFiniteSet(Permitted')
  /\ Cardinality(Permitted') = Cardinality(Permitted)
                               + Is(place[u], Resting) - Is(place'[u], Resting)
  /\ Cardinality(Busy') = Cardinality(Busy)
                          - Is(place[u], Carriers \cup Replacers)
                          + Is(place'[u], Carriers \cup Replacers)
  /\ Cardinality(Permitted') \in Nat /\ Cardinality(Busy') \in Nat

\* The same in numbers, for a step between two known places.
Shift(dp, db) ==
  /\ IsFiniteSet(Permitted')
  /\ Cardinality(Permitted') = Cardinality(Permitted) + dp
  /\ Cardinality(Busy') = Cardinality(Busy) + db
  /\ Cardinality(Permitted') \in Nat /\ Cardinality(Busy') \in Nat

\* How the counts change when one user of the pool goes from a place to another.
LEMMA UserMoved ==
  ASSUME IsFiniteSet(Permitted), NEW u \in Users,
         \A v \in Users \ {u} : place'[v] = place[v]
  PROVE  CountsMoved(u)
<1>1. Permitted' \ {u} = Permitted \ {u} /\ Busy' \ {u} = Busy \ {u}
  BY DEF Permitted, Busy
<1>2. /\ u \in Permitted <=> place[u] \notin Resting
      /\ u \in Permitted' <=> place'[u] \notin Resting
      /\ u \in Busy <=> place[u] \in Carriers \cup Replacers
      /\ u \in Busy' <=> place'[u] \in Carriers \cup Replacers
  BY DEF Permitted, Busy, Resting
<1>3. IsFiniteSet(Busy) /\ Cardinality(Busy) \in Nat /\ Cardinality(Permitted) \in Nat
  BY BusyArePermitted
<1>4. /\ IsFiniteSet(Permitted')
      /\ Cardinality(Permitted') = Cardinality(Permitted)
           - (IF u \in Permitted THEN 1 ELSE 0) + (IF u \in Permitted' THEN 1 ELSE 0)
  BY <1>1, CountMoved
<1>5. Cardinality(Busy') = Cardinality(Busy)
        - (IF u \in Busy THEN 1 ELSE 0) + (IF u \in Busy' THEN 1 ELSE 0)
  BY <1>1, <1>3, CountMoved
<1>6. Cardinality(Permitted') \in Nat /\ Cardinality(Busy') \in Nat
  BY <1>1, <1>3, <1>4, CountMoved, FS_CardinalityType, ZenonT(60)
<1> QED BY <1>2, <1>3, <1>4, <1>5, <1>6 DEF Is, CountsMoved

\* A client that gets a resource makes one more of those held.
LEMMA HeldMore ==
  ASSUME TypeOK, NEW c \in Clients, NEW r, \A d \in Clients : r \notin held[d],
         held' = [held EXCEPT ![c] = @ \cup {r}]
  PROVE  Cardinality(Held') = Cardinality(Held) + 1
<1>1. Held' = Held \cup {r} /\ r \notin Held
  BY DEF Held, TypeOK
<1> QED BY <1>1, HeldFinite, FS_AddElement

\* A client that gives one back makes one less.
LEMMA HeldLess ==
  ASSUME TypeOK, Owned, NEW c \in Clients, NEW r \in held[c],
         held' = [held EXCEPT ![c] = @ \ {r}]
  PROVE  Cardinality(Held') = Cardinality(Held) - 1
<1>1. Held' = Held \ {r} /\ r \in Held
  BY DEF Held, TypeOK, Owned
<1> QED BY <1>1, HeldFinite, FS_RemoveElement

\* Nothing held changes when no client takes or gives back.
LEMMA HeldKept == UNCHANGED held => Held' = Held
BY DEF Held

------------------------------------------------------------------------------
\* The inductive invariant holds when the program starts.
LEMMA InitInvariant == Init => IInv
<1> SUFFICES ASSUME Init PROVE IInv
  OBVIOUS
<1> DEFINE all == SetToSeq(Resources)
<1>1. /\ Cardinality(Resources) \in Nat
      /\ all \in [1 .. Cardinality(Resources) -> Resources] /\ IsInjective(all)
  BY ResourcesAssumption, FS_CardinalityType
     DEF SetToSeq, ExistsBijection, Bijection, Injection
<1>2. PICK initcnt \in InitCnts : \E n \in 0 .. (IF factory THEN initcnt ELSE 0) :
        /\ avail = SubSeq(all, 1, n) /\ totcnt = n
        /\ maxcnt = IF initcnt > MaxCnt THEN initcnt ELSE MaxCnt
  BY DEF Init
<1>3. initcnt \in Nat /\ initcnt <= Cardinality(Resources)
  BY CountsAssumption, ResourcesAssumption
<1>4. PICK n \in 0 .. initcnt : avail = SubSeq(all, 1, n) /\ totcnt = n
  BY <1>2, <1>3
<1>5. /\ avail \in Seq(Resources) /\ Len(avail) = n
      /\ \A i \in 1 .. n : avail[i] = all[i]
  BY <1>1, <1>3, <1>4, SubSeqProperties, SMTT(60)
<1> HIDE DEF all
<1>6. IsInjective(avail)
  BY <1>1, <1>3, <1>4, <1>5, LenProperties DEF IsInjective
<1>7. TypeOK
  BY <1>2, <1>3, <1>4, <1>5, CountsAssumption DEF Init, TypeOK, Users
<1>8. Held = {} /\ Permitted = {} /\ Busy = {}
  BY DEF Init, Held, Permitted, Busy, Carriers, Replacers
<1>9. Carrying /\ Owned /\ Lifecycle
  BY <1>6, NamesAssumption
     DEF Init, Carrying, Carriers, Owned, Lifecycle, NoUseAfterFree
<1>10. Books
  BY <1>2, <1>3, <1>4, <1>5, <1>8, FS_EmptySet, CountsAssumption
     DEF Init, Books, Counted, PermitsExact, Bounded, WithinMaximum
<1> QED BY <1>7, <1>9, <1>10 DEF IInv

\* Every step keeps the inductive invariant.
LEMMA NextInvariant == IInv /\ [Next]_vars => IInv'
<1> SUFFICES ASSUME IInv, [Next]_vars PROVE IInv'
  OBVIOUS
<1>0. /\ Len(avail) \in Nat /\ Cardinality(Held) \in Nat
      /\ Cardinality(Busy) \in Nat /\ Cardinality(Permitted) \in Nat
      /\ semp \in Nat /\ totcnt \in Nat /\ maxcnt \in Nat /\ permits \in Nat
  BY HeldFinite, BusyArePermitted, LenProperties DEF IInv, Books, TypeOK
<1>inv. TypeOK /\ Carrying /\ Owned /\ Lifecycle
  BY DEF IInv
<1>books. Books
  BY DEF IInv
<1> USE <1>0, NamesAssumption
<1> USE DEF Users, options, counts, life, Carriers, Replacers
<1>1. ASSUME NEW c \in Clients, CheckOut(c) PROVE IInv'
  <2>1. TypeOK' /\ Carrying' /\ Lifecycle'
    BY <1>1, <1>inv DEF TypeOK, Carrying, Lifecycle, NoUseAfterFree, CheckOut, Goto
  <2>2. Owned'
    BY <1>1, <1>inv DEF TypeOK, Owned, CheckOut
  <2>3. Held' = Held
    BY <1>1, HeldKept DEF CheckOut
  <2>4. CountsMoved(c)
    BY <1>1, <1>inv, <1>books, UserMoved DEF TypeOK, Books, CheckOut, Goto
  <2>5. Shift(0, 0)
    BY <1>1, <1>inv, <2>4 DEF TypeOK, CheckOut, Goto, Shift, CountsMoved, Is, Resting
  <2>6. Books'
    BY <1>1, <1>books, <2>3, <2>5
       DEF CheckOut, Books, Counted, PermitsExact, Bounded, WithinMaximum, Shift
  <2> QED BY <2>1, <2>2, <2>6 DEF IInv
<1>2. ASSUME NEW u \in Users, Acquire(u) PROVE IInv'
  <2>1. TypeOK' /\ Carrying' /\ Lifecycle'
    BY <1>2, <1>inv DEF TypeOK, Carrying, Lifecycle, NoUseAfterFree, Acquire, Goto
  <2>2. Owned'
    BY <1>2, <1>inv DEF TypeOK, Owned, Acquire
  <2>3. Held' = Held
    BY <1>2, HeldKept DEF Acquire
  <2>4. CountsMoved(u)
    BY <1>2, <1>inv, <1>books, UserMoved DEF TypeOK, Books, Acquire, Goto
  <2>5. Shift(1, 0)
    BY <1>2, <1>inv, <2>4 DEF TypeOK, Acquire, Goto, Shift, CountsMoved, Is, Resting
  <2>6. Books'
    BY <1>2, <1>books, <2>3, <2>5
       DEF Acquire, Books, Counted, PermitsExact, Bounded, WithinMaximum, Shift
  <2> QED BY <2>1, <2>2, <2>6 DEF IInv
<1>3. ASSUME NEW u \in Users, AcquireTimeout(u) PROVE IInv'
  <2>1. TypeOK' /\ Carrying' /\ Lifecycle'
    BY <1>3, <1>inv DEF TypeOK, Carrying, Lifecycle, NoUseAfterFree, AcquireTimeout, Goto
  <2>2. Owned'
    BY <1>3, <1>inv DEF TypeOK, Owned, AcquireTimeout
  <2>3. Held' = Held
    BY <1>3, HeldKept DEF AcquireTimeout
  <2>4. CountsMoved(u)
    BY <1>3, <1>inv, <1>books, UserMoved DEF TypeOK, Books, AcquireTimeout, Goto
  <2>5. Shift(0, 0)
    BY <1>3, <1>inv, <2>4 DEF TypeOK, AcquireTimeout, Goto, Shift, CountsMoved, Is, Resting
  <2>6. Books'
    BY <1>3, <1>books, <2>3, <2>5
       DEF AcquireTimeout, Books, Counted, PermitsExact, Bounded, WithinMaximum, Shift
  <2> QED BY <2>1, <2>2, <2>6 DEF IInv
<1>4. ASSUME NEW u \in Users, Uncount(u) PROVE IInv'
  <2>1. TypeOK' /\ Carrying' /\ Lifecycle'
    BY <1>4, <1>inv DEF TypeOK, Carrying, Lifecycle, NoUseAfterFree, Uncount, Goto
  <2>2. Owned'
    BY <1>4, <1>inv DEF TypeOK, Owned, Uncount
  <2>3. Held' = Held
    BY <1>4, HeldKept DEF Uncount
  <2>4. CountsMoved(u)
    BY <1>4, <1>inv, <1>books, UserMoved DEF TypeOK, Books, Uncount, Goto
  <2>5. Shift(0, -1)
    BY <1>4, <1>inv, <2>4 DEF TypeOK, Uncount, Goto, Shift, CountsMoved, Is, Resting
  <2>6. totcnt' <= totcnt /\ (pool # "freed" => totcnt' = totcnt - 1)
    BY <1>4, <1>books, <2>5 DEF Uncount, Books, Counted, Shift
  <2>7. Books'
    BY <1>4, <1>books, <2>3, <2>5, <2>6, SMTT(60)
       DEF Uncount, Books, Counted, PermitsExact, Bounded, WithinMaximum, Shift
  <2> QED BY <2>1, <2>2, <2>7 DEF IInv
<1>5. ASSUME NEW u \in Users, Miss(u) PROVE IInv'
  <2>1. TypeOK' /\ Carrying' /\ Lifecycle'
    BY <1>5, <1>inv DEF TypeOK, Carrying, Lifecycle, NoUseAfterFree, Miss, Goto
  <2>2. Owned'
    BY <1>5, <1>inv DEF TypeOK, Owned, Miss
  <2>3. Held' = Held
    BY <1>5, HeldKept DEF Miss
  <2>4. CountsMoved(u)
    BY <1>5, <1>inv, <1>books, UserMoved DEF TypeOK, Books, Miss, Goto
  <2>5. Shift(-1, 0)
    BY <1>5, <1>inv, <2>4 DEF TypeOK, Miss, Goto, Shift, CountsMoved, Is, Resting
  <2>6. Books'
    BY <1>5, <1>books, <2>3, <2>5
       DEF Miss, Books, Counted, PermitsExact, Bounded, WithinMaximum, Shift
  <2> QED BY <2>1, <2>2, <2>6 DEF IInv
<1>6. ASSUME NEW u \in Users, Post(u) PROVE IInv'
  <2>1. TypeOK' /\ Carrying' /\ Lifecycle'
    BY <1>6, <1>inv DEF TypeOK, Carrying, Lifecycle, NoUseAfterFree, Post, Goto
  <2>2. Owned'
    BY <1>6, <1>inv DEF TypeOK, Owned, Post
  <2>3. Held' = Held
    BY <1>6, HeldKept DEF Post
  <2>4. CountsMoved(u)
    BY <1>6, <1>inv, <1>books, UserMoved DEF TypeOK, Books, Post, Goto
  <2>5. Shift(-1, 0)
    BY <1>6, <1>inv, <2>4 DEF TypeOK, Post, Goto, Shift, CountsMoved, Is, Resting
  <2>6. Books'
    BY <1>6, <1>books, <2>3, <2>5
       DEF Post, Books, Counted, PermitsExact, Bounded, WithinMaximum, Shift
  <2> QED BY <2>1, <2>2, <2>6 DEF IInv
<1>7. ASSUME PingStart PROVE IInv'
  <2>1. TypeOK' /\ Carrying' /\ Lifecycle'
    BY <1>7, <1>inv DEF TypeOK, Carrying, Lifecycle, NoUseAfterFree, PingStart, Goto
  <2>2. Owned'
    BY <1>7, <1>inv DEF TypeOK, Owned, PingStart
  <2>3. Held' = Held
    BY <1>7, HeldKept DEF PingStart
  <2>4. CountsMoved(Ping)
    BY <1>7, <1>inv, <1>books, UserMoved DEF TypeOK, Books, PingStart, Goto
  <2>5. Shift(0, 0)
    BY <1>7, <1>inv, <2>4 DEF TypeOK, PingStart, Goto, Shift, CountsMoved, Is, Resting
  <2>6. Books'
    BY <1>7, <1>books, <2>3, <2>5
       DEF PingStart, Books, Counted, PermitsExact, Bounded, WithinMaximum, Shift
  <2> QED BY <2>1, <2>2, <2>6 DEF IInv
<1>8. ASSUME PingLoop PROVE IInv'
  <2>1. TypeOK' /\ Carrying' /\ Lifecycle'
    BY <1>8, <1>inv DEF TypeOK, Carrying, Lifecycle, NoUseAfterFree, PingLoop, Goto
  <2>2. Owned'
    BY <1>8, <1>inv DEF TypeOK, Owned, PingLoop
  <2>3. Held' = Held
    BY <1>8, HeldKept DEF PingLoop
  <2>4. CountsMoved(Ping)
    BY <1>8, <1>inv, <1>books, UserMoved DEF TypeOK, Books, PingLoop, Goto
  <2>5. Shift(0, 0)
    BY <1>8, <1>inv, <2>4 DEF TypeOK, PingLoop, Goto, Shift, CountsMoved, Is, Resting
  <2>6. Books'
    BY <1>8, <1>books, <2>3, <2>5
       DEF PingLoop, Books, Counted, PermitsExact, Bounded, WithinMaximum, Shift
  <2> QED BY <2>1, <2>2, <2>6 DEF IInv
<1>9. ASSUME NEW u \in Users, Take(u) PROVE IInv'
  <2>0. /\ place[u] = "take"
        /\ UNCHANGED <<options, semp, maxcnt, held, left, life, permits>>
    BY <1>9 DEF Take
  <2>1. CASE /\ avail # << >> /\ avail' = Tail(avail) /\ Carry(u, Head(avail))
             /\ Goto(u, "test") /\ UNCHANGED totcnt
    <3>0. /\ Head(avail) \in Resources /\ Tail(avail) \in Seq(Resources)
          /\ Len(avail) = Len(Tail(avail)) + 1 /\ Len(Tail(avail)) \in Nat
          /\ Head(avail) \in ToSet(avail)
          /\ ToSet(Tail(avail)) = ToSet(avail) \ {Head(avail)}
          /\ IsInjective(Tail(avail))
      BY <1>inv, <2>1, FirstTaken, LenProperties DEF TypeOK, Owned
    <3>1. TypeOK' /\ Carrying' /\ Lifecycle'
      BY <2>0, <2>1, <1>inv, <3>0
         DEF TypeOK, Carrying, Lifecycle, NoUseAfterFree, Carry, Goto
    <3>2. Owned'
      BY <2>0, <2>1, <1>inv, <3>0 DEF TypeOK, Carrying, Owned, Carry
    <3>3. Held' = Held
      BY <2>0, <2>1, HeldKept DEF Carry
    <3>4. CountsMoved(u)
      BY <2>0, <2>1, <1>inv, <1>books, UserMoved DEF TypeOK, Books, Carry, Goto
    <3>5. Shift(0, 1)
      BY <2>0, <2>1, <1>inv, <3>4
         DEF TypeOK, Carry, Goto, Shift, CountsMoved, Is, Resting
    <3>6. Books'
      BY <2>0, <2>1, <1>books, <3>3, <3>5, <3>0
         DEF Carry, Books, Counted, PermitsExact, Bounded, WithinMaximum, Shift
    <3> QED BY <3>1, <3>2, <3>6 DEF IInv
  <2>2. CASE /\ avail = << >> /\ CanCreate /\ CountCreated /\ Carry(u, New)
             /\ Goto(u, "test") /\ UNCHANGED avail
    <3>0. /\ New \in Resources /\ New # None /\ New \notin ToSet(avail)
          /\ \A c \in Clients : New \notin held[c]
          /\ \A v \in Users : New # res[v]
          /\ Len(avail) = 0
      BY <2>2, NewIsNew
    <3>1. TypeOK' /\ Carrying' /\ Lifecycle'
      BY <2>0, <2>2, <1>inv, <3>0
         DEF TypeOK, Carrying, Lifecycle, NoUseAfterFree, Carry, CountCreated, Goto
    <3>2. Owned'
      BY <2>0, <2>2, <1>inv, <3>0 DEF TypeOK, Carrying, Owned, Carry, CountCreated
    <3>3. Held' = Held
      BY <2>0, <2>2, HeldKept DEF Carry, CountCreated
    <3>4. CountsMoved(u)
      BY <2>0, <2>2, <1>inv, <1>books, UserMoved
         DEF TypeOK, Books, Carry, CountCreated, Goto
    <3>5. Shift(0, 1)
      BY <2>0, <2>2, <1>inv, <3>4
         DEF TypeOK, Carry, CountCreated, Goto, Shift, CountsMoved, Is, Resting
    <3>6. totcnt + 1 <= maxcnt \/ (pool = "freed" /\ ~PingAwaited)
      <4>1. u \in Permitted \ Busy
        BY <2>0 DEF Permitted, Busy
      <4> QED
        BY <1>inv, <1>books, <2>0, <3>0, <4>1, BusyArePermitted
           DEF Books, Counted, PermitsExact, Bounded, Lifecycle, NoUseAfterFree
    <3>7. Books'
      BY <2>0, <2>2, <1>books, <3>3, <3>5, <3>6, <3>0
         DEF Carry, CountCreated, Books, Counted, PermitsExact, Bounded, WithinMaximum,
             Shift
    <3> QED BY <3>1, <3>2, <3>7 DEF IInv
  <2>3. CASE avail = << >> /\ Goto(u, "miss") /\ UNCHANGED <<avail, totcnt, res>>
    <3>1. TypeOK' /\ Carrying' /\ Lifecycle'
      BY <2>0, <2>3, <1>inv DEF TypeOK, Carrying, Lifecycle, NoUseAfterFree, Goto
    <3>2. Owned'
      BY <2>0, <2>3, <1>inv DEF TypeOK, Owned
    <3>3. Held' = Held
      BY <2>0, <2>3, HeldKept
    <3>4. CountsMoved(u)
      BY <2>0, <2>3, <1>inv, <1>books, UserMoved DEF TypeOK, Books, Goto
    <3>5. Shift(0, 0)
      BY <2>0, <2>3, <1>inv, <3>4 DEF TypeOK, Goto, Shift, CountsMoved, Is, Resting
    <3>6. Books'
      BY <2>0, <2>3, <1>books, <3>3, <3>5
         DEF Books, Counted, PermitsExact, Bounded, WithinMaximum, Shift
    <3> QED BY <3>1, <3>2, <3>6 DEF IInv
  <2> QED BY <1>9, <2>0, <2>1, <2>2, <2>3 DEF Take, TakeFirst
<1>10. ASSUME NEW u \in Users, Test(u) PROVE IInv'
  <2>0. /\ place[u] = "test" /\ res[u] # None
        /\ UNCHANGED <<options, semp, avail, counts, left, life, permits>>
    BY <1>10, <1>inv DEF Test, Carrying
  <2>1. CASE Obtained(u, res[u]) /\ u = Ping
    <3>1. TypeOK' /\ Carrying' /\ Lifecycle'
      BY <2>0, <2>1, <1>inv
         DEF TypeOK, Carrying, Lifecycle, NoUseAfterFree, Obtained, Carry, Goto
    <3>2. Owned'
      BY <2>0, <2>1, <1>inv DEF TypeOK, Carrying, Owned, Obtained, Carry
    <3>3. Held' = Held
      BY <2>0, <2>1, HeldKept DEF Obtained, Carry
    <3>4. CountsMoved(u)
      BY <2>0, <2>1, <1>inv, <1>books, UserMoved DEF TypeOK, Books, Obtained, Carry, Goto
    <3>5. Shift(0, 0)
      BY <2>0, <2>1, <1>inv, <3>4
         DEF TypeOK, Obtained, Carry, Goto, Shift, CountsMoved, Is, Resting
    <3>6. Books'
      BY <2>0, <2>1, <1>books, <3>3, <3>5
         DEF Obtained, Carry, Books, Counted, PermitsExact, Bounded, WithinMaximum,
             Shift
    <3> QED BY <3>1, <3>2, <3>6 DEF IInv
  <2>2. CASE Obtained(u, res[u]) /\ u # Ping
    <3>1. TypeOK' /\ Carrying' /\ Lifecycle'
      BY <2>0, <2>2, <1>inv
         DEF TypeOK, Carrying, Lifecycle, NoUseAfterFree, Obtained, Carry, Goto
    <3>2. Owned'
      BY <2>0, <2>2, <1>inv, SMTT(60) DEF TypeOK, Carrying, Owned, Obtained, Carry
    <3>3. Cardinality(Held') = Cardinality(Held) + 1
      <4>1. /\ u \in Clients
            /\ held' = [held EXCEPT ![u] = @ \cup {res[u]}]
            /\ \A d \in Clients : res[u] \notin held[d]
        BY <1>inv, <2>0, <2>2 DEF Obtained, Owned
      <4> QED BY <1>inv, <4>1, HeldMore
    <3>4. CountsMoved(u)
      BY <2>0, <2>2, <1>inv, <1>books, UserMoved DEF TypeOK, Books, Obtained, Carry, Goto
    <3>5. Shift(-1, -1)
      BY <2>0, <2>2, <1>inv, <3>4
         DEF TypeOK, Obtained, Carry, Goto, Shift, CountsMoved, Is, Resting
    <3>6. Counted'
      BY <2>0, <2>2, <1>books, <3>3, <3>5
         DEF Books, Counted, Shift
    <3>7. PermitsExact'
      BY <2>0, <2>2, <1>books, <3>3, <3>5
         DEF Books, PermitsExact, Shift
    <3>8. Bounded' /\ IsFiniteSet(Permitted')
      BY <2>0, <2>2, <1>books, <3>3, <3>5
         DEF Books, Bounded, WithinMaximum, Shift
    <3> QED BY <3>1, <3>2, <3>6, <3>7, <3>8 DEF IInv, Books
  <2>3. CASE Goto(u, "recreate") /\ Carry(u, None) /\ UNCHANGED held
    <3>1. TypeOK' /\ Carrying' /\ Lifecycle'
      BY <2>0, <2>3, <1>inv DEF TypeOK, Carrying, Lifecycle, NoUseAfterFree, Carry, Goto
    <3>2. Owned'
      BY <2>0, <2>3, <1>inv DEF TypeOK, Owned, Carry
    <3>3. Held' = Held
      BY <2>0, <2>3, HeldKept DEF Carry
    <3>4. CountsMoved(u)
      BY <2>0, <2>3, <1>inv, <1>books, UserMoved DEF TypeOK, Books, Carry, Goto
    <3>5. Shift(0, 0)
      BY <2>0, <2>3, <1>inv, <3>4
         DEF TypeOK, Carry, Goto, Shift, CountsMoved, Is, Resting
    <3>6. Books'
      BY <2>0, <2>3, <1>books, <3>3, <3>5
         DEF Carry, Books, Counted, PermitsExact, Bounded, WithinMaximum, Shift
    <3> QED BY <3>1, <3>2, <3>6 DEF IInv
  <2> QED BY <1>10, <2>1, <2>2, <2>3 DEF Test
<1>11. ASSUME NEW u \in Users, Recreate(u) PROVE IInv'
  <2>0. /\ place[u] = "recreate" /\ res[u] = None
        /\ UNCHANGED <<options, semp, avail, counts, left, life, permits>>
    BY <1>11, <1>inv DEF Recreate, Carrying
  <2>1. CASE CanCreate /\ Obtained(u, New) /\ u = Ping
    <3>0. /\ New \in Resources /\ New # None /\ New \notin ToSet(avail)
          /\ \A c \in Clients : New \notin held[c]
          /\ \A v \in Users : New # res[v]
      BY <2>1, NewIsNew
    <3>1. TypeOK' /\ Carrying' /\ Lifecycle'
      BY <2>0, <2>1, <1>inv, <3>0
         DEF TypeOK, Carrying, Lifecycle, NoUseAfterFree, Obtained, Carry, Goto
    <3>2. Owned'
      BY <2>0, <2>1, <1>inv, <3>0 DEF TypeOK, Carrying, Owned, Obtained, Carry
    <3>3. Held' = Held
      BY <2>0, <2>1, HeldKept DEF Obtained, Carry
    <3>4. CountsMoved(u)
      BY <2>0, <2>1, <1>inv, <1>books, UserMoved DEF TypeOK, Books, Obtained, Carry, Goto
    <3>5. Shift(0, 0)
      BY <2>0, <2>1, <1>inv, <3>4
         DEF TypeOK, Obtained, Carry, Goto, Shift, CountsMoved, Is, Resting
    <3>6. Books'
      BY <2>0, <2>1, <1>books, <3>3, <3>5
         DEF Obtained, Carry, Books, Counted, PermitsExact, Bounded, WithinMaximum,
             Shift
    <3> QED BY <3>1, <3>2, <3>6 DEF IInv
  <2>2. CASE CanCreate /\ Obtained(u, New) /\ u # Ping
    <3>0. /\ New \in Resources /\ New # None /\ New \notin ToSet(avail)
          /\ \A c \in Clients : New \notin held[c]
          /\ \A v \in Users : New # res[v]
      BY <2>2, NewIsNew
    <3>1. TypeOK' /\ Carrying' /\ Lifecycle'
      BY <2>0, <2>2, <1>inv, <3>0
         DEF TypeOK, Carrying, Lifecycle, NoUseAfterFree, Obtained, Carry, Goto
    <3>2. Owned'
      BY <2>0, <2>2, <1>inv, <3>0 DEF TypeOK, Carrying, Owned, Obtained, Carry
    <3>3. Cardinality(Held') = Cardinality(Held) + 1
      <4>1. /\ u \in Clients
            /\ held' = [held EXCEPT ![u] = @ \cup {New}]
            /\ \A d \in Clients : New \notin held[d]
        BY <2>0, <2>2, <3>0 DEF Obtained
      <4> QED BY <1>inv, <4>1, HeldMore
    <3>4. CountsMoved(u)
      BY <2>0, <2>2, <1>inv, <1>books, UserMoved DEF TypeOK, Books, Obtained, Carry, Goto
    <3>5. Shift(-1, -1)
      BY <2>0, <2>2, <1>inv, <3>4
         DEF TypeOK, Obtained, Carry, Goto, Shift, CountsMoved, Is, Resting
    <3>6. Counted'
      BY <2>0, <2>2, <1>books, <3>3, <3>5
         DEF Books, Counted, Shift
    <3>7. PermitsExact'
      BY <2>0, <2>2, <1>books, <3>3, <3>5
         DEF Books, PermitsExact, Shift
    <3>8. Bounded' /\ IsFiniteSet(Permitted')
      BY <2>0, <2>2, <1>books, <3>3, <3>5
         DEF Books, Bounded, WithinMaximum, Shift
    <3> QED BY <3>1, <3>2, <3>6, <3>7, <3>8 DEF IInv, Books
  <2>3. CASE Goto(u, "uncount") /\ UNCHANGED <<res, held>>
    <3>1. TypeOK' /\ Carrying' /\ Lifecycle'
      BY <2>0, <2>3, <1>inv DEF TypeOK, Carrying, Lifecycle, NoUseAfterFree, Goto
    <3>2. Owned'
      BY <2>0, <2>3, <1>inv DEF TypeOK, Owned
    <3>3. Held' = Held
      BY <2>0, <2>3, HeldKept
    <3>4. CountsMoved(u)
      BY <2>0, <2>3, <1>inv, <1>books, UserMoved DEF TypeOK, Books, Goto
    <3>5. Shift(0, 0)
      BY <2>0, <2>3, <1>inv, <3>4 DEF TypeOK, Goto, Shift, CountsMoved, Is, Resting
    <3>6. Books'
      BY <2>0, <2>3, <1>books, <3>3, <3>5
         DEF Books, Counted, PermitsExact, Bounded, WithinMaximum, Shift
    <3> QED BY <3>1, <3>2, <3>6 DEF IInv
  <2> QED BY <1>11, <2>1, <2>2, <2>3 DEF Recreate
<1>12. ASSUME PingTest PROVE IInv'
  <2>1. TypeOK' /\ Carrying' /\ Lifecycle'
    BY <1>12, <1>inv
       DEF TypeOK, Carrying, Lifecycle, NoUseAfterFree, PingTest, Carry, Goto
  <2>2. Owned'
    BY <1>12, <1>inv DEF TypeOK, Owned, PingTest, Carry
  <2>3. Held' = Held
    BY <1>12, HeldKept DEF PingTest, Carry
  <2>4. CountsMoved(Ping)
    BY <1>12, <1>inv, <1>books, UserMoved DEF TypeOK, Books, PingTest, Carry, Goto
  <2>5. Shift(0, 0)
    BY <1>12, <1>inv, <2>4
       DEF TypeOK, PingTest, Carry, Goto, Shift, CountsMoved, Is, Resting
  <2>6. Books'
    BY <1>12, <1>books, <2>3, <2>5
       DEF PingTest, Carry, Books, Counted, PermitsExact, Bounded, WithinMaximum, Shift
  <2> QED BY <2>1, <2>2, <2>6 DEF IInv
<1>13. ASSUME PingRecreate PROVE IInv'
  <2>0. /\ place[Ping] = "pingrecreate"
        /\ UNCHANGED <<options, semp, avail, counts, held, left, life, permits>>
    BY <1>13 DEF PingRecreate
  <2>1. CASE CanCreate /\ Carry(Ping, New) /\ Goto(Ping, "pingrelease")
    <3>0. /\ New \in Resources /\ New # None /\ New \notin ToSet(avail)
          /\ \A c \in Clients : New \notin held[c]
          /\ \A v \in Users : New # res[v]
      BY <2>1, NewIsNew
    <3>1. TypeOK' /\ Carrying' /\ Lifecycle'
      BY <2>0, <2>1, <1>inv, <3>0
         DEF TypeOK, Carrying, Lifecycle, NoUseAfterFree, Carry, Goto
    <3>2. Owned'
      BY <2>0, <2>1, <1>inv, <3>0 DEF TypeOK, Carrying, Owned, Carry
    <3>3. Held' = Held
      BY <2>0, <2>1, HeldKept DEF Carry
    <3>4. CountsMoved(Ping)
      BY <2>0, <2>1, <1>inv, <1>books, UserMoved DEF TypeOK, Books, Carry, Goto
    <3>5. Shift(0, 0)
      BY <2>0, <2>1, <1>inv, <3>4
         DEF TypeOK, Carry, Goto, Shift, CountsMoved, Is, Resting
    <3>6. Books'
      BY <2>0, <2>1, <1>books, <3>3, <3>5
         DEF Carry, Books, Counted, PermitsExact, Bounded, WithinMaximum, Shift
    <3> QED BY <3>1, <3>2, <3>6 DEF IInv
  <2>2. CASE Goto(Ping, "pinguncount") /\ UNCHANGED res
    <3>1. TypeOK' /\ Carrying' /\ Lifecycle'
      BY <2>0, <2>2, <1>inv DEF TypeOK, Carrying, Lifecycle, NoUseAfterFree, Goto
    <3>2. Owned'
      BY <2>0, <2>2, <1>inv DEF TypeOK, Owned
    <3>3. Held' = Held
      BY <2>0, <2>2, HeldKept
    <3>4. CountsMoved(Ping)
      BY <2>0, <2>2, <1>inv, <1>books, UserMoved DEF TypeOK, Books, Goto
    <3>5. Shift(0, 0)
      BY <2>0, <2>2, <1>inv, <3>4 DEF TypeOK, Goto, Shift, CountsMoved, Is, Resting
    <3>6. Books'
      BY <2>0, <2>2, <1>books, <3>3, <3>5
         DEF Books, Counted, PermitsExact, Bounded, WithinMaximum, Shift
    <3> QED BY <3>1, <3>2, <3>6 DEF IInv
  <2> QED BY <1>13, <2>1, <2>2 DEF PingRecreate
<1>14. ASSUME PingRelease PROVE IInv'
  <2>r. res[Ping] \in Resources /\ res[Ping] # None
    BY <1>14, <1>inv DEF PingRelease, Carrying, TypeOK
  <2>0. /\ Append(avail, res[Ping]) \in Seq(Resources)
        /\ Len(Append(avail, res[Ping])) = Len(avail) + 1
        /\ ToSet(Append(avail, res[Ping])) = ToSet(avail) \cup {res[Ping]}
        /\ IsInjective(Append(avail, res[Ping]))
    BY <1>inv, <2>r, Appended DEF TypeOK, Owned
  <2>1. TypeOK' /\ Carrying' /\ Lifecycle'
    BY <1>14, <2>0, <1>inv
       DEF TypeOK, Carrying, Lifecycle, NoUseAfterFree, PingRelease, Carry, Goto
  <2>2. Owned'
    BY <1>14, <2>0, <1>inv, <2>r DEF TypeOK, Carrying, Owned, PingRelease, Carry
  <2>3. Held' = Held
    BY <1>14, <2>0, HeldKept DEF PingRelease, Carry
  <2>4. CountsMoved(Ping)
    BY <1>14, <2>0, <1>inv, <1>books, UserMoved
       DEF TypeOK, Books, PingRelease, Carry, Goto
  <2>5. Shift(0, -1)
    BY <1>14, <2>0, <1>inv, <2>4
       DEF TypeOK, PingRelease, Carry, Goto, Shift, CountsMoved, Is, Resting
  <2>6. Counted'
    BY <1>14, <2>0, <1>books, <2>3, <2>5
       DEF PingRelease, Books, Counted, Shift
  <2>7. PermitsExact'
    BY <1>14, <2>0, <1>books, <2>3, <2>5
       DEF PingRelease, Books, PermitsExact, Shift
  <2>8. Bounded' /\ IsFiniteSet(Permitted')
    BY <1>14, <2>0, <1>books, <2>3, <2>5
       DEF PingRelease, Books, Bounded, WithinMaximum, Shift
  <2> QED BY <2>1, <2>2, <2>6, <2>7, <2>8 DEF IInv, Books
<1>15. ASSUME NEW c \in Clients, Release(c) PROVE IInv'
  <2>r. PICK r \in held[c] : /\ held' = [held EXCEPT ![c] = @ \ {r}]
                           /\ avail' = Append(avail, r)
    BY <1>15 DEF Release
  <2>p. /\ pool = "live" /\ place[c] = "out" /\ Goto(c, "post")
        /\ UNCHANGED <<options, semp, counts, res, left, life, permits>>
    BY <1>15 DEF Release
  <2>t. r \in Resources /\ \A v \in Users : res[v] # None => res[v] # r
    BY <1>inv, <2>r DEF TypeOK, Owned
  <2>0. /\ Append(avail, r) \in Seq(Resources)
        /\ Len(Append(avail, r)) = Len(avail) + 1
        /\ ToSet(Append(avail, r)) = ToSet(avail) \cup {r}
        /\ IsInjective(Append(avail, r))
    BY <1>inv, <2>r, <2>t, Appended DEF TypeOK, Owned
  <2>1. TypeOK' /\ Carrying' /\ Lifecycle'
    BY <2>p, <2>r, <2>0, <1>inv, <2>t
       DEF TypeOK, Carrying, Lifecycle, NoUseAfterFree, Goto
  <2>2. Owned'
    BY <2>p, <2>r, <2>0, <1>inv, <2>t DEF TypeOK, Carrying, Owned
  <2>3. Cardinality(Held') = Cardinality(Held) - 1
    BY <1>inv, <2>r, HeldLess
  <2>4. CountsMoved(c)
    BY <2>p, <2>r, <2>0, <1>inv, <1>books, UserMoved DEF TypeOK, Books, Goto
  <2>5. Shift(1, 0)
    BY <2>p, <2>r, <2>0, <1>inv, <2>4 DEF TypeOK, Goto, Shift, CountsMoved, Is, Resting
  <2>6. Books'
    BY <2>p, <2>r, <2>0, <1>books, <2>3, <2>5, SMTT(60)
       DEF Books, Counted, PermitsExact, Bounded, WithinMaximum, Shift
  <2> QED BY <2>1, <2>2, <2>6 DEF IInv
<1>16. ASSUME NEW c \in Clients, AddResource(c) PROVE IInv'
  <2>n. /\ New \in Resources /\ New # None /\ New \notin ToSet(avail)
        /\ \A d \in Clients : New \notin held[d]
        /\ \A v \in Users : New # res[v]
    BY <1>16, NewIsNew DEF AddResource
  <2>0. /\ Append(avail, New) \in Seq(Resources)
        /\ Len(Append(avail, New)) = Len(avail) + 1
        /\ ToSet(Append(avail, New)) = ToSet(avail) \cup {New}
        /\ IsInjective(Append(avail, New))
    BY <1>inv, <2>n, Appended DEF TypeOK, Owned
  <2>p. /\ pool = "live" /\ place[c] = "out" /\ avail' = Append(avail, New)
        /\ totcnt' = totcnt + 1
        /\ UNCHANGED <<options, semp, res, held, left, life>>
    BY <1>16 DEF AddResource
  <2>1. CASE Grows
    <3>0. maxcnt' = maxcnt + 1 /\ permits' = permits + 1 /\ Goto(c, "post")
      BY <1>16, <2>1 DEF AddResource
    <3>1. TypeOK' /\ Carrying' /\ Lifecycle'
      BY <2>p, <2>0, <3>0, <1>inv, <2>n
         DEF TypeOK, Carrying, Lifecycle, NoUseAfterFree, Goto
    <3>2. Owned'
      BY <2>p, <2>0, <3>0, <1>inv, <2>n DEF TypeOK, Carrying, Owned
    <3>3. Held' = Held
      BY <2>p, <2>0, <3>0, HeldKept
    <3>4. CountsMoved(c)
      BY <2>p, <2>0, <3>0, <1>inv, <1>books, UserMoved DEF TypeOK, Books, Goto
    <3>5. Shift(1, 0)
      BY <2>p, <2>0, <3>0, <1>inv, <3>4 DEF TypeOK, Goto, Shift, CountsMoved, Is, Resting
    <3>6. Counted'
      BY <2>p, <2>0, <3>0, <1>books, <3>3, <3>5
         DEF Books, Counted, Shift
    <3>7. PermitsExact'
      BY <2>p, <2>0, <3>0, <1>books, <3>3, <3>5, SMTT(60)
         DEF Books, PermitsExact, Shift
    <3>8. Bounded' /\ IsFiniteSet(Permitted')
      BY <2>p, <2>0, <3>0, <1>books, <3>3, <3>5
         DEF Books, Bounded, WithinMaximum, Shift
    <3> QED BY <3>1, <3>2, <3>6, <3>7, <3>8 DEF IInv, Books
  <2>2. CASE ~Grows
    <3>0. UNCHANGED <<maxcnt, permits, place>>
      BY <1>16, <2>2 DEF AddResource
    <3>1. TypeOK' /\ Carrying' /\ Lifecycle'
      BY <2>p, <2>0, <3>0, <1>inv, <2>n
         DEF TypeOK, Carrying, Lifecycle, NoUseAfterFree, Goto
    <3>2. Owned'
      BY <2>p, <2>0, <3>0, <1>inv, <2>n DEF TypeOK, Carrying, Owned
    <3>3. Held' = Held
      BY <2>p, <2>0, <3>0, HeldKept
    <3>4. CountsMoved(c)
      BY <2>p, <2>0, <3>0, <1>inv, <1>books, UserMoved DEF TypeOK, Books, Goto
    <3>5. Shift(0, 0)
      BY <2>p, <2>0, <3>0, <1>inv, <3>4 DEF TypeOK, Goto, Shift, CountsMoved, Is, Resting
    <3>6. Books'
      BY <2>p, <2>0, <3>0, <1>books, <3>3, <3>5, <2>2, SMTT(60)
         DEF Grows, Books, Counted, PermitsExact, Bounded, WithinMaximum, Shift
    <3> QED BY <3>1, <3>2, <3>6 DEF IInv
  <2> QED BY <2>1, <2>2
<1>17. ASSUME DestroyCall PROVE IInv'
  <2>1. TypeOK' /\ Carrying' /\ Owned' /\ Lifecycle'
    BY <1>17, <1>inv DEF TypeOK, Carrying, Owned, Lifecycle, NoUseAfterFree, DestroyCall
  <2>2. Held' = Held /\ Permitted' = Permitted /\ Busy' = Busy
    BY <1>17 DEF DestroyCall, Held, Permitted, Busy
  <2>3. Books'
    BY <1>17, <1>books, <2>2
       DEF DestroyCall, Books, Counted, PermitsExact, Bounded, WithinMaximum
  <2> QED BY <2>1, <2>3 DEF IInv
<1>18. ASSUME DestroyFree PROVE IInv'
  <2>0. << >> \in Seq(Resources) /\ ToSet(<< >>) = {} /\ IsInjective(<< >>)
    BY EmptySeq DEF ToSet, IsInjective
  <2>1. TypeOK' /\ Carrying' /\ Owned' /\ Lifecycle'
    BY <1>18, <1>inv, <2>0
       DEF TypeOK, Carrying, Owned, Lifecycle, NoUseAfterFree, DestroyFree,
           PingOver, PingAwaited
  <2>2. Held' = Held /\ Permitted' = Permitted /\ Busy' = Busy
    BY <1>18 DEF DestroyFree, Held, Permitted, Busy
  <2>3. Books'
    BY <1>18, <1>books, <2>2
       DEF DestroyFree, Books, Counted, PermitsExact, Bounded, WithinMaximum
  <2> QED BY <2>1, <2>3 DEF IInv
<1>19. CASE UNCHANGED vars
  <2>1. TypeOK' /\ Carrying' /\ Owned' /\ Lifecycle'
    BY <1>19, <1>inv DEF TypeOK, Carrying, Owned, Lifecycle, NoUseAfterFree, vars
  <2>2. Held' = Held /\ Permitted' = Permitted /\ Busy' = Busy
    BY <1>19 DEF vars, Held, Permitted, Busy
  <2>3. Books'
    BY <1>19, <1>books, <2>2
       DEF vars, Books, Counted, PermitsExact, Bounded, WithinMaximum
  <2> QED BY <2>1, <2>3 DEF IInv
<1> QED
  BY <1>1, <1>2, <1>3, <1>4, <1>5, <1>6, <1>7, <1>8, <1>9, <1>10,
     <1>11, <1>12, <1>13, <1>14, <1>15, <1>16, <1>17, <1>18, <1>19
     DEF Next, CallStep, PingStep

\* The inductive invariant holds in every state of every execution.
LEMMA Invariance == Safety => []IInv
BY InitInvariant, NextInvariant, PTL DEF Safety

------------------------------------------------------------------------------
\* A resource is in the list, with one client or in one call, never two of
\* them: CheckOut, Release, AddResource and the ping pass it on whole, also
\* when a Destroy has given up waiting for the ping.
THEOREM PoolOneOwner == Spec => []OneOwner
BY Invariance, IInvImplies, PTL DEF Spec

\* totcnt, maxcnt and the permits agree with where the resources are after
\* every creation, test and replacement, whichever of them fails.  Only a ping
\* that Destroy does not wait for could count on in a freed pool.
THEOREM PoolCountsExact ==
  ASSUME PingAwaited PROVE Spec => []CountsExact
BY Invariance, IInvImplies, PTL DEF Spec

\* Without that condition they agree as long as there is a pool.
THEOREM PoolCountsExactInLife == Spec => [](pool # "freed" => CountsExact)
<1>1. IInv => (pool # "freed" => CountsExact)
  <2> SUFFICES ASSUME IInv, pool # "freed" PROVE CountsExact
    OBVIOUS
  <2>1. TotcntExact
    BY LivingCounted DEF IInv, Books, Counted, TotcntExact
  <2> QED BY <2>1 DEF IInv, Books, Bounded, CountsExact
<1> QED BY <1>1, Invariance, PTL DEF Spec

\* A ping that Destroy waits for is over when the pool is freed.
THEOREM PoolNoUseAfterFree ==
  ASSUME PingAwaited PROVE Spec => []NoUseAfterFree
BY Invariance, IInvImplies, PTL DEF Spec

------------------------------------------------------------------------------
(* What the pools of the library itself keep are sockets: HTTP connections *)
(* to a host.  Sockets.tla is about their descriptors; what follows is     *)
(* about it for any number of threads, sockets, descriptors and addresses. *)
CONSTANTS NULL, Thread, Obj, MaxFd, MaxAddrs
VARIABLE net

U == INSTANCE Sockets WITH st <- net

FD   == 0 .. MaxFd
Pos  == 1 .. MaxFd
Fds  == FD \cup {-1}
Kind == {"socket", "sslsocket", "server", "sslserver", "dgram"}

SockRec == [kind : Kind, sock : Fds, session : BOOLEAN, fd : Fds, live : BOOLEAN]
CallPc  == {"context", "resolve", "socket", "connect", "handshake", "listener", "bind",
            "failed", "listening", "accept", "accepted", "dgram", "dbind"}
CallRec == [pc : CallPc, o : Obj, s : Fds, addrs : Int]

\* Threads are not sockets, and NULL is neither a socket's record nor a call's.
SocketData ==
  /\ NULL \notin SockRec /\ NULL \notin CallRec
  /\ Obj \cap Thread = {}
  /\ MaxFd \in Nat /\ MaxAddrs \in Nat

NetType ==
  net \in [open : SUBSET FD, obj : [Obj -> SockRec \cup {NULL}],
           call : [Thread -> CallRec \cup {NULL}], passed : BOOLEAN]

\* A TLS session is on the socket's own descriptor; a socket that the user
\* has been given has one.
RecordOK(r) == (r.session => r.fd = r.sock) /\ (r.live => r.sock # -1)

\* What a call has so far: where it is in the code says whether the
\* descriptor is the call's own, the socket's, or not there yet.
Opening(c, r) ==
  /\ c.pc \in {"context", "resolve", "socket", "connect"}
  /\ r.sock = -1 /\ r.fd = -1
  /\ r.kind \in {"socket", "sslsocket"}
  /\ r.session \/ c.pc = "context" => r.kind = "sslsocket"
  /\ c.s # -1 <=> c.pc = "connect"
Shaking(c, r)   == c.pc = "handshake" /\ r.sock # -1 /\ c.s = -1
Listening(c, r) ==
  /\ c.pc \in {"listener", "bind", "failed"}
  /\ r.sock \in {-1, 0} /\ ~r.session
  /\ r.kind \in {"server", "sslserver"}
  /\ c.s # -1 <=> c.pc = "bind"
Listens(c, r)   == c.pc = "listening" /\ r.sock # -1 /\ c.s = -1
Taking(c, r)    ==
  /\ c.pc \in {"accept", "dgram"}
  /\ r.sock = -1 /\ ~r.session /\ c.s = -1
Taken(c, r)     ==
  /\ c.pc \in {"accepted", "dbind"}
  /\ r.sock # -1 /\ ~r.session /\ c.s = -1
CallOK(c, r) ==
  /\ ~r.live
  /\ \/ Opening(c, r) \/ Shaking(c, r) \/ Listening(c, r)
     \/ Listens(c, r) \/ Taking(c, r) \/ Taken(c, r)

RecordsSound == \A o \in Obj : net.obj[o] # NULL => RecordOK(net.obj[o])
CallsSound ==
  \A t \in Thread : net.call[t] # NULL =>
    net.obj[net.call[t].o] # NULL /\ CallOK(net.call[t], net.obj[net.call[t].o])
CallsApart ==
  \A t, u \in Thread : net.call[t] # NULL /\ net.call[u] # NULL /\ t # u =>
    net.call[t].o # net.call[u].o

\* The descriptor in the hands of a socket or of a call, -1 when there is none.
SockOf(r) == IF r = NULL THEN -1 ELSE r.sock
FdOf(c)   == IF c = NULL THEN -1 ELSE c.s
Hands(obj, call) ==
  [x \in Obj \cup Thread |-> IF x \in Obj THEN SockOf(obj[x]) ELSE FdOf(call[x])]

\* A descriptor but 0 is open exactly while it is in one's hands, and it is in
\* one's hands only.
Exact(open, h) ==
  /\ \A fd \in Pos : fd \in open <=> \E x \in Obj \cup Thread : h[x] = fd
  /\ \A x, y \in Obj \cup Thread : h[x] = h[y] /\ h[x] \in Pos => x = y
DescriptorsExact == Exact(net.open, Hands(net.obj, net.call))

NetInv == NetType /\ RecordsSound /\ CallsSound /\ CallsApart /\ DescriptorsExact

\* What becomes of the descriptors a and b of a step's socket and call: they
\* become a2 and b2, each of them kept, new or none, and what is dropped is
\* closed.
Passes(open, open2, a, b, a2, b2) ==
  /\ \A fd \in Pos : fd \in open2 <=> (fd \in open /\ fd # a /\ fd # b) \/ fd = a2 \/ fd = b2
  /\ a2 \in Pos => a2 \in {a, b} \/ a2 \notin open
  /\ b2 \in Pos => b2 \in {a, b} \/ b2 \notin open
  /\ a2 = b2 => a2 \notin Pos

\* The descriptors stay exact when the two holders of a step, x and y, pass
\* theirs on in this way and the others keep theirs.
LEMMA PassesKeeps ==
  ASSUME NEW open, NEW open2, NEW h, NEW h2, Exact(open, h),
         NEW x \in Obj \cup Thread, NEW y \in Obj \cup Thread,
         Passes(open, open2, h[x], h[y], h2[x], h2[y]),
         \A z \in Obj \cup Thread : z # x /\ z # y => h2[z] = h[z]
  PROVE  Exact(open2, h2)
<1> DEFINE All == Obj \cup Thread
<1>1. \A z \in All : z # x /\ z # y /\ h[z] \in Pos => h[z] # h[x] /\ h[z] # h[y] /\ h[z] \in open
  BY DEF Exact
<1>2. \A z \in All : z # x /\ z # y /\ h[z] \in Pos => h[z] # h2[x] /\ h[z] # h2[y]
  BY <1>1 DEF Passes
<1>3. ASSUME NEW fd \in Pos
      PROVE  fd \in open2 <=> \E z \in All : h2[z] = fd
  <2>1. ASSUME fd \in open2 PROVE \E z \in All : h2[z] = fd
    <3>1. CASE fd = h2[x] \/ fd = h2[y]
      BY <3>1
    <3>2. CASE fd \in open /\ fd # h[x] /\ fd # h[y]
      <4>1. PICK z \in All : h[z] = fd
        BY <3>2 DEF Exact
      <4> QED BY <3>2, <4>1
    <3> QED BY <2>1, <3>1, <3>2 DEF Passes
  <2>2. ASSUME NEW z \in All, h2[z] = fd PROVE fd \in open2
    <3>1. CASE z = x \/ z = y
      BY <2>2, <3>1 DEF Passes
    <3>2. CASE z # x /\ z # y
      BY <1>1, <2>2, <3>2 DEF Passes
    <3> QED BY <3>1, <3>2
  <2> QED BY <2>1, <2>2
<1>4. ASSUME NEW v \in All, NEW w \in All, h2[v] = h2[w], h2[v] \in Pos PROVE v = w
  <2>1. CASE v \in {x, y} /\ w \in {x, y}
    BY <1>4, <2>1 DEF Passes
  <2>2. CASE v \in {x, y} /\ w \notin {x, y}
    BY <1>2, <1>4, <2>2
  <2>3. CASE v \notin {x, y} /\ w \in {x, y}
    BY <1>2, <1>4, <2>3
  <2>4. CASE v \notin {x, y} /\ w \notin {x, y}
    BY <1>4, <2>4 DEF Exact
  <2> QED BY <2>1, <2>2, <2>3, <2>4
<1> QED BY <1>3, <1>4 DEF Exact

\* The step of one thread on one socket: their records become r and c.
StepTo(t, o, r, c, open2) ==
  /\ net'.open = open2
  /\ net'.obj = [net.obj EXCEPT ![o] = r]
  /\ net'.call = [net.call EXCEPT ![t] = c]
  /\ net' = [open |-> net'.open, obj |-> net'.obj, call |-> net'.call, passed |-> net'.passed]
  /\ net'.passed \in BOOLEAN

\* The socket o is t's: the one of its call, or a new one, or a live one that
\* no call works on.
Works(t, o) ==
  /\ net.call[t] # NULL => net.call[t].o = o
  /\ net.call[t] = NULL => \A u \in Thread : net.call[u] # NULL => net.call[u].o # o

\* A step of one call on one socket keeps the invariant when what they become
\* fits together and the descriptors pass from hand to hand.
LEMMA StepKeeps ==
  ASSUME SocketData, NetInv, NEW t \in Thread, NEW o \in Obj, Works(t, o),
         NEW r \in SockRec \cup {NULL}, NEW c \in CallRec \cup {NULL},
         NEW open2 \in SUBSET FD, StepTo(t, o, r, c, open2),
         r # NULL => RecordOK(r),
         c # NULL => c.o = o /\ r # NULL /\ CallOK(c, r),
         Passes(net.open, open2, SockOf(net.obj[o]), FdOf(net.call[t]), SockOf(r), FdOf(c))
  PROVE  NetInv'
<1> DEFINE obj2 == [net.obj EXCEPT ![o] = r]
           call2 == [net.call EXCEPT ![t] = c]
<1>1. obj2 \in [Obj -> SockRec \cup {NULL}] /\ call2 \in [Thread -> CallRec \cup {NULL}]
  BY DEF NetInv, NetType
<1>2. /\ net'.obj = obj2 /\ net'.call = call2 /\ net'.open = open2
      /\ NetType'
  BY <1>1 DEF StepTo, NetType
<1>3. /\ obj2[o] = r /\ call2[t] = c
      /\ \A p \in Obj : p # o => obj2[p] = net.obj[p]
      /\ \A u \in Thread : u # t => call2[u] = net.call[u]
  BY DEF NetInv, NetType
<1>4. \A u \in Thread : u # t /\ net.call[u] # NULL => net.call[u].o # o /\ net.call[u].o \in Obj
  BY DEF NetInv, NetType, Works, CallsApart, CallRec
<1> HIDE DEF obj2, call2
<1>5. \A p \in Obj : obj2[p] # NULL => RecordOK(obj2[p])
  BY <1>3 DEF NetInv, RecordsSound
<1>6. ASSUME NEW u \in Thread, call2[u] # NULL
      PROVE  obj2[call2[u].o] # NULL /\ CallOK(call2[u], obj2[call2[u].o])
  <2>1. CASE u = t
    BY <1>3, <1>6, <2>1
  <2>2. CASE u # t
    BY <1>3, <1>4, <1>6, <2>2 DEF NetInv, CallsSound
  <2> QED BY <2>1, <2>2
<1>7. ASSUME NEW u \in Thread, NEW v \in Thread, call2[u] # NULL, call2[v] # NULL, u # v
      PROVE  call2[u].o # call2[v].o
  BY <1>3, <1>4, <1>7 DEF NetInv, CallsApart
<1>8. Exact(open2, Hands(obj2, call2))
  <2> DEFINE h == Hands(net.obj, net.call)
             h2 == Hands(obj2, call2)
  <2>1. t \notin Obj /\ o # t
    BY DEF SocketData
  <2>2. h[o] = SockOf(net.obj[o]) /\ h[t] = FdOf(net.call[t]) /\ h2[o] = SockOf(r) /\ h2[t] = FdOf(c)
    BY <1>3, <2>1 DEF Hands
  <2>3. \A z \in Obj \cup Thread : z # o /\ z # t => h2[z] = h[z]
    BY <1>3 DEF Hands
  <2>4. Exact(net.open, h)
    BY DEF NetInv, DescriptorsExact
  <2> HIDE DEF h, h2
  <2>5. Exact(open2, h2)
    BY <2>1, <2>2, <2>3, <2>4, PassesKeeps
  <2> QED BY <2>5 DEF h2
<1> QED
  BY <1>2, <1>5, <1>6, <1>7, <1>8 DEF NetInv, RecordsSound, CallsSound, CallsApart, DescriptorsExact

\* The lowest free descriptor is one that nobody has.
LEMMA NewFdIsFree ==
  ASSUME SocketData, NetInv, NEW S \in SUBSET FD, S # {}
  PROVE  U!Min(S) \in S
<1>1. S \in SUBSET Nat
  BY DEF SocketData, FD
<1>2. \E n \in S : \A m \in S : n <= m
  BY <1>1, LeastElement
<1> QED BY <1>2 DEF U!Min

\* A state with its parts spelled out, and what the operators of the model
\* make of one.
State(open, obj, call, passed) == [open |-> open, obj |-> obj, call |-> call, passed |-> passed]

\* A state is the one with its own parts.
LEMMA NetIsState ==
  ASSUME NetInv
  PROVE  net = State(net.open, net.obj, net.call, net.passed)
BY DEF NetInv, NetType, State

Closed(open, obj, call, passed, o) ==
  State(open \ {obj[o].sock}, [obj EXCEPT ![o] = NULL], call, passed)
Failed(open, obj, call, passed, t, o) ==
  State(open \ {obj[o].sock}, [obj EXCEPT ![o] = NULL], [call EXCEPT ![t] = NULL], passed)
Finished(open, obj, call, passed, t, o) ==
  State(open, [obj EXCEPT ![o] = [obj[o] EXCEPT !.live = TRUE]], [call EXCEPT ![t] = NULL], passed)

\* Closing a socket, plain or TLS, closes its one descriptor.
LEMMA ClosesIs ==
  ASSUME NEW open, NEW obj \in [Obj -> SockRec \cup {NULL}],
         NEW call \in [Thread -> CallRec \cup {NULL}], NEW passed,
         NEW o \in Obj, obj[o] # NULL, RecordOK(obj[o])
  PROVE  U!CloseOf(State(open, obj, call, passed), o) = Closed(open, obj, call, passed, o)
<1> DEFINE s == State(open, obj, call, passed)
<1>1. s.open = open /\ s.obj = obj /\ s.call = call /\ s.passed = passed
  BY DEF State
<1>2. U!SocketClose(s, o) = Closed(open, obj, call, passed, o)
  <2>1. U!SocketClose(s, o) = [s EXCEPT !.open = s.open \ {s.obj[o].sock}, !.obj = [s.obj EXCEPT ![o] = NULL]]
    BY <1>1 DEF U!SocketClose, State
  <2>2. U!SocketClose(s, o) = [s EXCEPT !.open = open \ {obj[o].sock}, !.obj = [obj EXCEPT ![o] = NULL]]
    BY <1>1, <2>1
  <2> QED BY <2>2 DEF State, Closed
<1>3. CASE obj[o].kind = "sslsocket"
  <2> DEFINE r == [obj[o] EXCEPT !.sock = IF obj[o].session THEN obj[o].fd ELSE @]
             obj2 == [obj EXCEPT ![o] = r]
             s2 == State(open, obj2, call, passed)
  <2>1. obj[o] \in SockRec
    OBVIOUS
  <2>2. r = obj[o]
    BY <2>1 DEF SockRec, RecordOK
  <2>3. obj2 = obj
    BY <2>2
  <2>4. [s EXCEPT !.obj[o].sock = IF s.obj[o].session THEN s.obj[o].fd ELSE @] = s2
    BY <1>1 DEF State
  <2> HIDE DEF r, obj2, s
  <2>5. s2 = s
    BY <2>3 DEF s
  <2>6. U!SSLSocketClose(s, o) = U!SocketClose(s, o)
    BY <2>4, <2>5 DEF U!SSLSocketClose
  <2>7. U!CloseOf(s, o) = U!SocketClose(s, o)
    BY <1>1, <1>3, <2>6 DEF U!CloseOf
  <2> QED BY <1>2, <2>7 DEF s
<1>4. CASE obj[o].kind # "sslsocket"
  BY <1>1, <1>2, <1>4 DEF U!CloseOf
<1> QED BY <1>3, <1>4

\* A call that fails closes its socket and is over.
LEMMA FailsIs ==
  ASSUME NEW open, NEW obj \in [Obj -> SockRec \cup {NULL}],
         NEW call \in [Thread -> CallRec \cup {NULL}], NEW passed,
         NEW t \in Thread, NEW o \in Obj, call[t] # NULL, call[t].o = o,
         obj[o] # NULL, RecordOK(obj[o])
  PROVE  U!Fails(State(open, obj, call, passed), t) = Failed(open, obj, call, passed, t, o)
<1> DEFINE s == State(open, obj, call, passed)
<1>1. s.call = call
  BY DEF State
<1>2. U!CloseOf(s, o) = State(open \ {obj[o].sock}, [obj EXCEPT ![o] = NULL], call, passed)
  <2>1. U!CloseOf(State(open, obj, call, passed), o) = Closed(open, obj, call, passed, o)
    BY ClosesIs
  <2> QED BY <2>1 DEF Closed
<1> QED BY <1>1, <1>2 DEF U!Fails, State, Failed

\* A call that is done makes its socket live and is over.
LEMMA DoneIs ==
  ASSUME NEW open, NEW obj \in [Obj -> SockRec \cup {NULL}],
         NEW call \in [Thread -> CallRec \cup {NULL}], NEW passed,
         NEW t \in Thread, NEW o \in Obj, call[t] # NULL, call[t].o = o
  PROVE  U!Done(State(open, obj, call, passed), t) = Finished(open, obj, call, passed, t, o)
<1> DEFINE s == State(open, obj, call, passed)
           r == [obj[o] EXCEPT !.live = TRUE]
<1>1. s.open = open /\ s.obj = obj /\ s.call = call /\ s.passed = passed
  BY DEF State
<1>2. U!Done(s, t) = [s EXCEPT !.obj[o].live = TRUE, !.call[t] = NULL]
  BY <1>1 DEF U!Done
<1>3. U!Done(s, t) = [s EXCEPT !.obj = [s.obj EXCEPT ![o] = [s.obj[o] EXCEPT !.live = TRUE]],
                               !.call = [s.call EXCEPT ![t] = NULL]]
  BY <1>2 DEF State
<1>4. U!Done(s, t) = [s EXCEPT !.obj = [obj EXCEPT ![o] = r], !.call = [call EXCEPT ![t] = NULL]]
  BY <1>1, <1>3
<1> HIDE DEF r
<1>5. U!Done(s, t) = State(open, [obj EXCEPT ![o] = r], [call EXCEPT ![t] = NULL], passed)
  BY <1>4 DEF State
<1> QED BY <1>5 DEF r, Finished

\* Where a call is: its socket, and what the invariant says of the two.
LEMMA InCall ==
  ASSUME SocketData, NetInv, NEW t \in Thread, NEW pc, U!At(t, pc)
  PROVE  LET c == net.call[t]
             r == net.obj[c.o]
         IN  /\ c # NULL /\ c \in CallRec /\ c.o \in Obj /\ c.pc = pc
             /\ r # NULL /\ r \in SockRec /\ RecordOK(r) /\ CallOK(c, r)
             /\ Works(t, c.o)
<1>1. net.call[t] # NULL /\ net.call[t].pc = pc
  BY DEF U!At
<1>2. net.call[t] \in CallRec
  BY <1>1 DEF NetInv, NetType
<1>3. net.call[t].o \in Obj
  BY <1>2 DEF CallRec
<1>4. net.obj[net.call[t].o] # NULL /\ CallOK(net.call[t], net.obj[net.call[t].o])
  BY <1>1 DEF NetInv, CallsSound
<1>5. net.obj[net.call[t].o] \in SockRec
  BY <1>3, <1>4 DEF NetInv, NetType
<1>6. RecordOK(net.obj[net.call[t].o])
  BY <1>3, <1>4 DEF NetInv, RecordsSound
<1>7. Works(t, net.call[t].o)
  BY <1>1 DEF Works
<1> QED BY <1>1, <1>2, <1>3, <1>4, <1>5, <1>6, <1>7

\* A new state with its parts spelled out is a step on one socket.
LEMMA StateSteps ==
  ASSUME NetInv, NEW t \in Thread, NEW o \in Obj, NEW r, NEW c, NEW open2,
         net' = State(open2, [net.obj EXCEPT ![o] = r], [net.call EXCEPT ![t] = c], net.passed)
  PROVE  StepTo(t, o, r, c, open2)
<1>1. net.passed \in BOOLEAN
  BY DEF NetInv, NetType
<1> QED BY <1>1 DEF StepTo, State

\* The state in which the records of the thread t and its socket o have
\* become c and r.
Mid(t, o, r, c, open2) ==
  State(open2, [net.obj EXCEPT ![o] = r], [net.call EXCEPT ![t] = c], net.passed)

\* A state is the one in which a call and a socket have the records they have.
LEMMA MidIsNet ==
  ASSUME NetInv, NEW t \in Thread, NEW o \in Obj
  PROVE  net = Mid(t, o, net.obj[o], net.call[t], net.open)
<1>1. [net.obj EXCEPT ![o] = net.obj[o]] = net.obj /\ [net.call EXCEPT ![t] = net.call[t]] = net.call
  BY DEF NetInv, NetType
<1> QED BY <1>1, NetIsState DEF Mid

\* The parts of such a state.
LEMMA MidFields ==
  ASSUME NetInv, NEW t \in Thread, NEW o \in Obj, NEW r, NEW c, NEW open2
  PROVE  LET m == Mid(t, o, r, c, open2)
         IN  m.open = open2 /\ m.obj[o] = r /\ m.call[t] = c
BY DEF NetInv, NetType, Mid, State

\* The call of such a state goes on.
LEMMA MidGo ==
  ASSUME NetInv, NEW t \in Thread, NEW o \in Obj, NEW r, NEW c, NEW open2, NEW pc
  PROVE  U!Go(Mid(t, o, r, c, open2), t, pc) = Mid(t, o, r, [c EXCEPT !.pc = pc], open2)
<1>1. net.call \in [Thread -> CallRec \cup {NULL}]
  BY DEF NetInv, NetType
<1>2. [[net.call EXCEPT ![t] = c] EXCEPT ![t] = [[net.call EXCEPT ![t] = c][t] EXCEPT !.pc = pc]]
        = [net.call EXCEPT ![t] = [c EXCEPT !.pc = pc]]
  BY <1>1
<1> QED BY <1>2 DEF U!Go, Mid, State

\* A call opens or closes a descriptor of its own.
Hands2(m, t, open2, fd) == [m EXCEPT !.open = open2, !.call[t].s = fd]

\* The call of such a state gets another descriptor.
LEMMA MidTakes ==
  ASSUME NetInv, NEW t \in Thread, NEW o \in Obj, NEW r, NEW c, NEW open1, NEW open2, NEW fd
  PROVE  Hands2(Mid(t, o, r, c, open1), t, open2, fd) = Mid(t, o, r, [c EXCEPT !.s = fd], open2)
<1> DEFINE m == Mid(t, o, r, c, open1)
           call2 == [net.call EXCEPT ![t] = c]
           c2 == [c EXCEPT !.s = fd]
<1>1. m = State(open1, [net.obj EXCEPT ![o] = r], call2, net.passed)
  BY DEF Mid
<1>2. call2[t] = c /\ [call2 EXCEPT ![t] = [call2[t] EXCEPT !.s = fd]] = [net.call EXCEPT ![t] = c2]
  BY DEF NetInv, NetType
<1> HIDE DEF m, call2, c2
<1>3. Hands2(m, t, open2, fd) = State(open2, [net.obj EXCEPT ![o] = r], [call2 EXCEPT ![t] = [call2[t] EXCEPT !.s = fd]], net.passed)
  <2> DEFINE call3 == [call2 EXCEPT ![t] = [call2[t] EXCEPT !.s = fd]]
  <2>1. m.call = call2
    BY <1>1 DEF State
  <2>2. Hands2(m, t, open2, fd) = [m EXCEPT !.open = open2, !.call = [m.call EXCEPT ![t] = [m.call[t] EXCEPT !.s = fd]]]
    BY <1>1 DEF State, Hands2
  <2>3. Hands2(m, t, open2, fd) = [m EXCEPT !.open = open2, !.call = call3]
    BY <2>1, <2>2
  <2> HIDE DEF call3
  <2>4. Hands2(m, t, open2, fd) = State(open2, [net.obj EXCEPT ![o] = r], call3, net.passed)
    BY <1>1, <2>3 DEF State
  <2> QED BY <2>4 DEF call3
<1>4. Hands2(m, t, open2, fd) = Mid(t, o, r, c2, open2)
  BY <1>2, <1>3 DEF Mid
<1> QED BY <1>4 DEF m, c2

\* A call that fails closes what it has and forgets its socket.
LEMMA MidFails ==
  ASSUME SocketData, NetInv, NEW t \in Thread, NEW o \in Obj, Works(t, o),
         NEW r \in SockRec, NEW c \in CallRec, c.o = o, RecordOK(r),
         NEW open2 \in SUBSET FD,
         net' = U!Fails(Mid(t, o, r, c, open2), t),
         Passes(net.open, open2 \ {r.sock}, SockOf(net.obj[o]), FdOf(net.call[t]), -1, -1)
  PROVE  NetInv'
<1> DEFINE obj2 == [net.obj EXCEPT ![o] = r]
           call2 == [net.call EXCEPT ![t] = c]
<1>1. /\ obj2 \in [Obj -> SockRec \cup {NULL}] /\ obj2[o] = r /\ r # NULL
      /\ call2 \in [Thread -> CallRec \cup {NULL}] /\ call2[t] = c /\ c # NULL
  BY DEF NetInv, NetType, SocketData
<1>2. [obj2 EXCEPT ![o] = NULL] = [net.obj EXCEPT ![o] = NULL] /\ [call2 EXCEPT ![t] = NULL] = [net.call EXCEPT ![t] = NULL]
  BY DEF NetInv, NetType
<1>3. net' = U!Fails(State(open2, obj2, call2, net.passed), t)
  BY DEF Mid
<1> HIDE DEF obj2, call2
<1>4. net' = State(open2 \ {r.sock}, [net.obj EXCEPT ![o] = NULL], [net.call EXCEPT ![t] = NULL], net.passed)
  <2>1. call2[t] # NULL /\ call2[t].o = o /\ obj2[o] # NULL /\ RecordOK(obj2[o])
    BY <1>1
  <2>2. U!Fails(State(open2, obj2, call2, net.passed), t) = Failed(open2, obj2, call2, net.passed, t, o)
    BY <1>1, <2>1, FailsIs
  <2> QED BY <1>1, <1>2, <1>3, <2>2 DEF Failed
<1>5. StepTo(t, o, NULL, NULL, open2 \ {r.sock})
  BY <1>4, StateSteps
<1>6. SockOf(NULL) = -1 /\ FdOf(NULL) = -1 /\ open2 \ {r.sock} \in SUBSET FD
  BY DEF SockOf, FdOf
<1> QED BY <1>5, <1>6, StepKeeps

\* A call that is done hands its socket to the user.
LEMMA MidDone ==
  ASSUME SocketData, NetInv, NEW t \in Thread, NEW o \in Obj, Works(t, o),
         NEW r \in SockRec, NEW c \in CallRec, c.o = o, RecordOK(r), r.sock # -1,
         NEW open2 \in SUBSET FD,
         net' = U!Done(Mid(t, o, r, c, open2), t),
         Passes(net.open, open2, SockOf(net.obj[o]), FdOf(net.call[t]), r.sock, -1)
  PROVE  NetInv'
<1> DEFINE obj2 == [net.obj EXCEPT ![o] = r]
           call2 == [net.call EXCEPT ![t] = c]
           r2 == [r EXCEPT !.live = TRUE]
<1>1. /\ obj2 \in [Obj -> SockRec \cup {NULL}] /\ obj2[o] = r
      /\ call2 \in [Thread -> CallRec \cup {NULL}] /\ call2[t] = c /\ c # NULL
  BY DEF NetInv, NetType, SocketData
<1>2. [obj2 EXCEPT ![o] = r2] = [net.obj EXCEPT ![o] = r2] /\ [call2 EXCEPT ![t] = NULL] = [net.call EXCEPT ![t] = NULL]
  BY DEF NetInv, NetType
<1>3. net' = U!Done(State(open2, obj2, call2, net.passed), t)
  BY DEF Mid
<1>4. r2 \in SockRec /\ r2 # NULL /\ RecordOK(r2) /\ r2.sock = r.sock
  BY DEF SockRec, RecordOK, SocketData
<1> HIDE DEF obj2, call2
<1>5. net' = State(open2, [obj2 EXCEPT ![o] = [obj2[o] EXCEPT !.live = TRUE]], [call2 EXCEPT ![t] = NULL], net.passed)
  <2>1. call2[t] # NULL /\ call2[t].o = o
    BY <1>1
  <2>2. U!Done(State(open2, obj2, call2, net.passed), t) = Finished(open2, obj2, call2, net.passed, t, o)
    BY <1>1, <2>1, DoneIs
  <2> QED BY <1>3, <2>2 DEF Finished
<1>6. [obj2[o] EXCEPT !.live = TRUE] = r2
  BY <1>1
<1> HIDE DEF r2
<1>7. net' = State(open2, [net.obj EXCEPT ![o] = r2], [net.call EXCEPT ![t] = NULL], net.passed)
  BY <1>2, <1>5, <1>6
<1>8. StepTo(t, o, r2, NULL, open2)
  BY <1>7, StateSteps
<1>9. SockOf(r2) = r.sock /\ FdOf(NULL) = -1
  BY <1>4 DEF SockOf, FdOf
<1> QED BY <1>4, <1>8, <1>9, StepKeeps

\* A call that goes on.
LEMMA MidKeeps ==
  ASSUME SocketData, NetInv, NEW t \in Thread, NEW o \in Obj, Works(t, o),
         NEW r \in SockRec, NEW c \in CallRec, c.o = o, RecordOK(r), CallOK(c, r),
         NEW open2 \in SUBSET FD,
         net' = Mid(t, o, r, c, open2),
         Passes(net.open, open2, SockOf(net.obj[o]), FdOf(net.call[t]), r.sock, c.s)
  PROVE  NetInv'
<1>1. StepTo(t, o, r, c, open2)
  BY StateSteps DEF Mid
<1>2. r # NULL /\ c # NULL
  BY DEF SocketData
<1>3. SockOf(r) = r.sock /\ FdOf(c) = c.s
  BY <1>2 DEF SockOf, FdOf
<1> QED BY <1>1, <1>2, <1>3, StepKeeps

\* A call begins with a record nobody has.
LEMMA BeginKeeps ==
  ASSUME SocketData, NetInv, NEW t \in Thread, NEW r \in SockRec, NEW pc \in CallPc, NEW addrs \in Int,
         RecordOK(r), r.sock \notin Pos,
         \A o \in Obj : CallOK([pc |-> pc, o |-> o, s |-> -1, addrs |-> addrs], r),
         U!Begin(t, r, pc, addrs)
  PROVE  NetInv'
<1> DEFINE o == U!Fresh
           c == [pc |-> pc, o |-> o, s |-> -1, addrs |-> addrs]
<1>1. o \in Obj /\ net.obj[o] = NULL /\ net.call[t] = NULL
  BY DEF U!Begin, U!Spare, U!Fresh
<1>2. net' = [net EXCEPT !.obj[o] = r, !.call[t] = c]
  BY DEF U!Begin, U!INVALID
<1>3. c \in CallRec /\ c.o = o /\ c.s = -1
  BY <1>1 DEF CallRec, Fds
<1>4. Works(t, o)
  BY <1>1 DEF Works, NetInv, CallsSound
<1>5. CallOK(c, r)
  BY <1>1
<1> HIDE DEF o, c
<1>6. net' = Mid(t, o, r, c, net.open)
  BY <1>2, NetIsState DEF Mid, State
<1>7. SockOf(net.obj[o]) = -1 /\ FdOf(net.call[t]) = -1
  BY <1>1 DEF SockOf, FdOf
<1>8. Passes(net.open, net.open, -1, -1, r.sock, c.s)
  BY <1>3, SocketData DEF Passes, Pos, SocketData
<1>9. net.open \in SUBSET FD
  BY DEF NetInv, NetType
<1> QED BY <1>1, <1>3, <1>4, <1>5, <1>6, <1>7, <1>8, <1>9, MidKeeps

\* At first nothing but descriptor 0 is open and nobody has any.
LEMMA NetInit == SocketData /\ U!Init => NetInv
<1> SUFFICES ASSUME SocketData, U!Init PROVE NetInv
  OBVIOUS
<1>1. /\ net.open = {0} /\ net.obj = [o \in Obj |-> NULL] /\ net.call = [t \in Thread |-> NULL]
      /\ NetType
  BY DEF U!Init, SocketData, NetType, FD
<1>2. \A x \in Obj \cup Thread : Hands(net.obj, net.call)[x] = -1
  BY <1>1 DEF Hands, SockOf, FdOf
<1>3. DescriptorsExact
  BY <1>1, <1>2 DEF DescriptorsExact, Exact, Pos, SocketData
<1> QED BY <1>1, <1>3 DEF NetInv, RecordsSound, CallsSound, CallsApart

\* The parts of a state the lemmas on calls ask for.
LEMMA NetParts ==
  ASSUME SocketData, NetInv, NEW t \in Thread, NEW pc, U!At(t, pc)
  PROVE  LET c == net.call[t]
             o == c.o
             r == net.obj[o]
         IN  /\ net = Mid(t, o, r, c, net.open)
             /\ SockOf(r) = r.sock /\ FdOf(c) = c.s
             /\ net.open \in SUBSET FD
             /\ r.sock \in Fds /\ c.s \in Fds /\ r.fd \in Fds
<1>1. net.call[t] # NULL /\ net.call[t] \in CallRec /\ net.call[t].o \in Obj
      /\ net.obj[net.call[t].o] # NULL /\ net.obj[net.call[t].o] \in SockRec
  BY InCall
<1>2. net.open \in SUBSET FD
  BY DEF NetInv, NetType
<1> QED BY <1>1, <1>2, MidIsNet DEF SockOf, FdOf, CallRec, SockRec

\* A descriptor in a call's hands, or a socket's, is open.
LEMMA HandsOpen ==
  ASSUME NetInv
  PROVE  /\ \A o \in Obj : SockOf(net.obj[o]) \in Pos => SockOf(net.obj[o]) \in net.open
         /\ SocketData => \A t \in Thread : FdOf(net.call[t]) \in Pos => FdOf(net.call[t]) \in net.open
<1>1. \A o \in Obj : Hands(net.obj, net.call)[o] = SockOf(net.obj[o])
  BY DEF Hands
<1>2. SocketData => \A t \in Thread : Hands(net.obj, net.call)[t] = FdOf(net.call[t])
  BY DEF Hands, SocketData
<1> QED BY <1>1, <1>2 DEF NetInv, DescriptorsExact, Exact

\* A call that has no descriptor of its own fails.
LEMMA FailsKeeps ==
  ASSUME SocketData, NetInv, NEW t \in Thread, NEW pc, U!At(t, pc),
         net.call[t].s = -1, net' = U!Fails(net, t)
  PROVE  NetInv'
<1> DEFINE c == net.call[t]
           o == c.o
           r == net.obj[o]
<1>1. /\ c \in CallRec /\ o \in Obj /\ r \in SockRec /\ RecordOK(r) /\ Works(t, o)
      /\ net = Mid(t, o, r, c, net.open) /\ SockOf(r) = r.sock /\ FdOf(c) = -1
      /\ net.open \in SUBSET FD
  BY InCall, NetParts
<1>2. net' = U!Fails(Mid(t, o, r, c, net.open), t)
  BY <1>1
<1> HIDE DEF c, o, r
<1>3. Passes(net.open, net.open \ {r.sock}, r.sock, -1, -1, -1)
  BY DEF Passes, Pos, SocketData
<1>4. c.o = o
  BY DEF o
<1>5. SockOf(net.obj[o]) = r.sock /\ FdOf(net.call[t]) = -1
  BY <1>1 DEF r, c
<1> QED BY <1>1, <1>2, <1>3, <1>4, <1>5, MidFails

\* A call that has no descriptor of its own is done.
LEMMA DoneKeeps ==
  ASSUME SocketData, NetInv, NEW t \in Thread, NEW pc, U!At(t, pc),
         net.call[t].s = -1, net.obj[net.call[t].o].sock # -1, net' = U!Done(net, t)
  PROVE  NetInv'
<1> DEFINE c == net.call[t]
           o == c.o
           r == net.obj[o]
<1>1. /\ c \in CallRec /\ o \in Obj /\ r \in SockRec /\ RecordOK(r) /\ Works(t, o)
      /\ net = Mid(t, o, r, c, net.open) /\ SockOf(r) = r.sock /\ FdOf(c) = -1
      /\ net.open \in SUBSET FD /\ r.sock \in Fds
  BY InCall, NetParts
<1>2. net' = U!Done(Mid(t, o, r, c, net.open), t)
  BY <1>1
<1>3. r.sock # -1
  OBVIOUS
<1>4. c.o = o
  OBVIOUS
<1>5. SockOf(net.obj[o]) = r.sock /\ FdOf(net.call[t]) = -1
  BY <1>1
<1> HIDE DEF c, o, r
<1>6. Passes(net.open, net.open, r.sock, -1, r.sock, -1)
  <2>1. r.sock \in Pos => (r.sock \in net.open)
    BY <1>1, <1>5, HandsOpen
  <2> QED BY <2>1 DEF Passes, Pos, SocketData
<1> QED BY <1>1, <1>2, <1>3, <1>4, <1>5, <1>6, MidDone

\* A call goes on, and only its place changes.
LEMMA GoKeeps ==
  ASSUME SocketData, NetInv, NEW t \in Thread, NEW pc, U!At(t, pc),
         NEW r \in SockRec, NEW c \in CallRec, c.o = net.call[t].o,
         RecordOK(r), CallOK(c, r),
         r.sock = net.obj[net.call[t].o].sock, c.s = net.call[t].s,
         net' = Mid(t, net.call[t].o, r, c, net.open)
  PROVE  NetInv'
<1> DEFINE o == net.call[t].o
<1>1. /\ o \in Obj /\ Works(t, o) /\ net.open \in SUBSET FD
      /\ SockOf(net.obj[o]) = r.sock /\ FdOf(net.call[t]) = c.s /\ c.o = o
      /\ net' = Mid(t, o, r, c, net.open)
  BY InCall, NetParts
<1> HIDE DEF o
<1>2. r.sock = c.s => r.sock \notin Pos
  <2>1. Hands(net.obj, net.call)[o] = r.sock
    BY <1>1 DEF Hands
  <2>2. t \notin Obj /\ t # o
    BY <1>1 DEF SocketData
  <2>3. Hands(net.obj, net.call)[t] = c.s
    BY <1>1, <2>2 DEF Hands
  <2> QED BY <1>1, <2>1, <2>2, <2>3 DEF NetInv, DescriptorsExact, Exact
<1>3. /\ r.sock \in Pos => r.sock \in net.open
      /\ c.s \in Pos => c.s \in net.open
  BY <1>1, HandsOpen
<1>4. Passes(net.open, net.open, r.sock, c.s, r.sock, c.s)
  BY <1>2, <1>3 DEF Passes
<1> QED BY <1>1, <1>4, MidKeeps

\* Calls that begin.
LEMMA BeginsKeep ==
  ASSUME SocketData, NetInv, NEW t \in Thread,
         \/ U!SocketConnectInternal(t) \/ U!SocketConnectWithAddr(t) \/ U!SSLSocketConnect(t)
         \/ U!ServerSocketCreate(t) \/ U!SSLServerSocketCreate(t) \/ U!DGramSocketCreate(t)
         \/ U!ServerSocketAccept(t)
  PROVE  NetInv'
<1> DEFINE rec(kind, sock) == [kind |-> kind, sock |-> sock, session |-> FALSE, fd |-> -1, live |-> FALSE]
<1>1. \A k \in Kind, s \in {-1, 0} :
        rec(k, s) \in SockRec /\ RecordOK(rec(k, s)) /\ rec(k, s).sock \notin Pos
  BY DEF SockRec, RecordOK, Fds, FD, Pos, SocketData
<1>2. /\ U!SocketCreate = rec("socket", -1) /\ U!SSLSocketCreate = rec("sslsocket", -1)
      /\ U!ServerSocketRecord = rec("server", -1) /\ U!SSLServerSocketRecord = rec("sslserver", 0)
      /\ U!DGramSocketRecord = rec("dgram", -1)
  BY DEF U!SocketCreate, U!SSLSocketCreate, U!ServerSocketRecord, U!SSLServerSocketRecord,
         U!DGramSocketRecord, U!Record, U!INVALID
<1> DEFINE Ok(pc, addrs, r) ==
      \A o \in Obj : CallOK([pc |-> pc, o |-> o, s |-> -1, addrs |-> addrs], r)
<1>3. /\ Ok("resolve", 0, rec("socket", -1)) /\ Ok("socket", 1, rec("socket", -1))
      /\ Ok("context", 0, rec("sslsocket", -1))
  BY DEF CallOK, Opening
<1>4. Ok("listener", 0, rec("server", -1)) /\ Ok("listener", 0, rec("sslserver", 0))
  BY DEF CallOK, Listening
<1>5. /\ Ok("dgram", 0, rec("dgram", -1)) /\ Ok("accept", 0, rec("socket", -1))
      /\ Ok("accept", 0, rec("sslsocket", -1))
  BY DEF CallOK, Taking
<1>6. PICK pc \in CallPc, addrs \in {0, 1}, k \in Kind, s \in {-1, 0} :
        U!Begin(t, rec(k, s), pc, addrs) /\ Ok(pc, addrs, rec(k, s))
  <2>1. CASE U!SocketConnectInternal(t)
    BY <1>2, <1>3, <2>1 DEF U!SocketConnectInternal, CallPc, Kind
  <2>2. CASE U!SocketConnectWithAddr(t)
    BY <1>2, <1>3, <2>2 DEF U!SocketConnectWithAddr, CallPc, Kind
  <2>3. CASE U!SSLSocketConnect(t)
    BY <1>2, <1>3, <2>3 DEF U!SSLSocketConnect, CallPc, Kind
  <2>4. CASE U!ServerSocketCreate(t)
    BY <1>2, <1>4, <2>4 DEF U!ServerSocketCreate, CallPc, Kind
  <2>5. CASE U!SSLServerSocketCreate(t)
    BY <1>2, <1>4, <2>5 DEF U!SSLServerSocketCreate, CallPc, Kind
  <2>6. CASE U!DGramSocketCreate(t)
    BY <1>2, <1>5, <2>6 DEF U!DGramSocketCreate, CallPc, Kind
  <2>7. CASE U!ServerSocketAccept(t)
    BY <1>2, <1>5, <2>7 DEF U!ServerSocketAccept, CallPc, Kind
  <2> QED BY <2>1, <2>2, <2>3, <2>4, <2>5, <2>6, <2>7
<1> DEFINE r == rec(k, s)
<1>7. r \in SockRec /\ RecordOK(r) /\ r.sock \notin Pos
  BY <1>1
<1>8. U!Begin(t, r, pc, addrs) /\ Ok(pc, addrs, r)
  BY <1>6
<1> HIDE DEF r
<1> QED BY <1>7, <1>8, BeginKeeps

\* The TLS context and the session of a client that connects.
LEMMA ContextKeeps ==
  ASSUME SocketData, NetInv, NEW t \in Thread, U!SSLContext(t)
  PROVE  NetInv'
<1> DEFINE c == net.call[t]
           o == c.o
           r == net.obj[o]
           r2 == [r EXCEPT !.session = TRUE]
           c2 == [c EXCEPT !.pc = "resolve"]
           made == [net EXCEPT !.obj[o].session = TRUE]
<1>1. U!At(t, "context") /\ net' \in {U!Fails(net, t), U!Fails(made, t), U!Go(made, t, "resolve")}
  BY SMTT(60) DEF U!SSLContext
<1>2. /\ c \in CallRec /\ o \in Obj /\ c.pc = "context" /\ r \in SockRec /\ RecordOK(r)
      /\ CallOK(c, r) /\ Works(t, o)
      /\ net.open \in SUBSET FD /\ SockOf(r) = r.sock /\ FdOf(c) = c.s
  BY <1>1, InCall, NetParts
<1>3. c.s = -1 /\ r.sock = -1 /\ r.fd = -1 /\ Opening(c, r)
  <2> HIDE DEF c, o, r
  <2> QED BY <1>2 DEF CallOK, Opening, Shaking, Listening, Listens, Taking, Taken
<1>4. /\ r2 \in SockRec /\ RecordOK(r2) /\ r2.sock = -1
      /\ c2 \in CallRec /\ c2.o = o /\ c2.s = -1 /\ CallOK(c2, r2)
  BY <1>2, <1>3 DEF SockRec, CallRec, RecordOK, CallOK, Opening, CallPc
<1>5. made = Mid(t, o, r2, c, net.open)
  <2>1. [net.call EXCEPT ![t] = c] = net.call
    BY DEF NetInv, NetType
  <2> QED BY <2>1, NetIsState DEF Mid, State
<1>6. CASE net' = U!Fails(net, t)
  BY <1>1, <1>3, <1>6, FailsKeeps
<1>7. CASE net' = U!Fails(made, t)
  <2>1. net' = U!Fails(Mid(t, o, r2, c, net.open), t)
    BY <1>5, <1>7
  <2>2. Passes(net.open, net.open \ {r2.sock}, SockOf(net.obj[o]), FdOf(net.call[t]), -1, -1)
    <3>1. SockOf(net.obj[o]) = -1 /\ FdOf(net.call[t]) = -1 /\ r2.sock = -1
      BY <1>2, <1>3, <1>4
    <3>2. Passes(net.open, net.open \ {-1}, -1, -1, -1, -1)
      BY DEF Passes, Pos, SocketData
    <3> HIDE DEF o, c, r2
    <3> QED BY <3>1, <3>2, SMTT(60)
  <2>3. c.o = o
    OBVIOUS
  <2> HIDE DEF o, c, r2
  <2> QED BY <1>2, <1>4, <2>1, <2>2, <2>3, MidFails
<1>8. CASE net' = U!Go(made, t, "resolve")
  <2>1. net' = Mid(t, o, r2, c2, net.open)
    <3> HIDE DEF o, c, r2, made
    <3>1. U!Go(Mid(t, o, r2, c, net.open), t, "resolve") = Mid(t, o, r2, [c EXCEPT !.pc = "resolve"], net.open)
      BY <1>2, MidGo, SMTT(60)
    <3> QED BY <1>5, <1>8, <3>1
  <2>2. c2.o = net.call[t].o /\ r2.sock = net.obj[net.call[t].o].sock /\ c2.s = net.call[t].s
    BY <1>2, <1>3, <1>4
  <2>3. net' = Mid(t, net.call[t].o, r2, c2, net.open)
    BY <2>1
  <2> HIDE DEF r2, c2
  <2> QED BY <1>1, <1>4, <2>2, <2>3, GoKeeps
<1> QED BY <1>1, <1>6, <1>7, <1>8

\* A client resolves the name of the host.
LEMMA ConnectBaseKeeps ==
  ASSUME SocketData, NetInv, NEW t \in Thread, U!SocketConnectBase(t)
  PROVE  NetInv'
<1> DEFINE c == net.call[t]
           o == c.o
           r == net.obj[o]
<1>1. U!At(t, "resolve")
  BY DEF U!SocketConnectBase
<1>2. /\ c \in CallRec /\ o \in Obj /\ c.pc = "resolve" /\ r \in SockRec /\ RecordOK(r)
      /\ CallOK(c, r) /\ net = Mid(t, o, r, c, net.open)
  BY <1>1, InCall, NetParts
<1>3. c.s = -1 /\ Opening(c, r)
  BY <1>2 DEF CallOK, Opening, Shaking, Listening, Listens, Taking, Taken
<1>4. CASE net' = U!Fails(net, t)
  BY <1>1, <1>3, <1>4, FailsKeeps, SMTT(60)
<1>5. ASSUME NEW n \in 1 .. MaxAddrs, net' = [U!Go(net, t, "socket") EXCEPT !.call[t].addrs = n]
      PROVE  NetInv'
  <2> DEFINE c2 == [[c EXCEPT !.pc = "socket"] EXCEPT !.addrs = n]
  <2>1. c2 \in CallRec /\ c2.o = o /\ c2.s = c.s /\ CallOK(c2, r)
    <3> DEFINE c1 == [c EXCEPT !.pc = "socket"]
    <3>1. c1 \in CallRec /\ c1.pc = "socket" /\ c1.o = o /\ c1.s = c.s
      BY <1>2 DEF CallRec, CallPc
    <3>2. n \in Int
      BY DEF SocketData
    <3> HIDE DEF c1, o, c, r
    <3>3. [c1 EXCEPT !.addrs = n] \in CallRec /\ [c1 EXCEPT !.addrs = n].pc = "socket"
          /\ [c1 EXCEPT !.addrs = n].o = o /\ [c1 EXCEPT !.addrs = n].s = c.s
      BY <3>1, <3>2 DEF CallRec
    <3>4. CallOK([c1 EXCEPT !.addrs = n], r)
      BY <1>2, <1>3, <3>3 DEF CallOK, Opening
    <3> QED BY <3>3, <3>4 DEF c1
  <2>2. net' = Mid(t, o, r, c2, net.open)
    <3> DEFINE c1 == [c EXCEPT !.pc = "socket"]
    <3> HIDE DEF o, c, r
    <3>1. U!Go(Mid(t, o, r, c, net.open), t, "socket") = Mid(t, o, r, c1, net.open)
      BY <1>2, MidGo
    <3> HIDE DEF c1
    <3>2. [Mid(t, o, r, c1, net.open) EXCEPT !.call[t].addrs = n] = Mid(t, o, r, [c1 EXCEPT !.addrs = n], net.open)
      BY DEF Mid, State, NetInv, NetType
    <3> QED BY <1>2, <1>5, <3>1, <3>2 DEF c1
  <2> HIDE DEF c2
  <2> QED BY <1>1, <1>2, <2>1, <2>2, GoKeeps
<1> QED BY <1>4, <1>5 DEF U!SocketConnectBase

\* The next address is tried, or there is none: the call has no descriptor of
\* its own any more.
LEMMA NextAddrKeeps ==
  ASSUME SocketData, NetInv, NEW t \in Thread, NEW pc, U!At(t, pc), pc \in {"socket", "connect"},
         NEW open2 \in SUBSET FD, NEW c \in CallRec,
         c.o = net.call[t].o, c.s = -1,
         \A fd \in Pos : fd \in open2 <=> fd \in net.open /\ fd # net.call[t].s,
         net' = U!NextAddr(Mid(t, net.call[t].o, net.obj[net.call[t].o], c, open2), t)
  PROVE  NetInv'
<1> DEFINE b == net.call[t]
           o == b.o
           r == net.obj[o]
           m == Mid(t, o, r, c, open2)
           c1 == [c EXCEPT !.pc = "socket"]
           c2 == [c1 EXCEPT !.addrs = c1.addrs - 1]
<1>1. /\ b \in CallRec /\ o \in Obj /\ b.pc = pc /\ r \in SockRec /\ RecordOK(r)
      /\ CallOK(b, r) /\ Works(t, o)
      /\ SockOf(r) = r.sock /\ FdOf(b) = b.s
  <2>1. b \in CallRec /\ o \in Obj /\ b.pc = pc /\ r \in SockRec /\ RecordOK(r)
        /\ CallOK(b, r) /\ Works(t, o)
    BY InCall
  <2>2. SockOf(r) = r.sock /\ FdOf(b) = b.s
    BY NetParts
  <2> HIDE DEF b, o, r
  <2> QED BY <2>1, <2>2
<1>2. r.sock = -1 /\ Opening(b, r)
  BY <1>1 DEF CallOK, Opening, Shaking, Listening, Listens, Taking, Taken
<1>3. m.call[t] = c
  <2> HIDE DEF o, r
  <2> QED BY <1>1, MidFields, SMTT(60) DEF m
<1>4. Passes(net.open, open2, -1, b.s, -1, -1)
  BY DEF Passes, Pos, SocketData
<1>5. SockOf(net.obj[o]) = -1 /\ FdOf(net.call[t]) = b.s
  BY <1>1, <1>2
<1>6. CASE c.addrs = 1
  <2>1. net' = U!Fails(m, t)
    BY <1>3, <1>6 DEF U!NextAddr
  <2>2. Passes(net.open, open2 \ {r.sock}, SockOf(net.obj[o]), FdOf(net.call[t]), -1, -1)
    <3>1. open2 \ {r.sock} = open2
      BY <1>2 DEF FD, SocketData
    <3> QED BY <1>4, <1>5, <3>1
  <2>3. c.o = o
    OBVIOUS
  <2> HIDE DEF b, o, r
  <2> QED BY <1>1, <2>1, <2>2, <2>3, MidFails
<1>7. CASE c.addrs # 1
  <2>1. net' = [U!Go(m, t, "socket") EXCEPT !.call[t].addrs = @ - 1]
    BY <1>3, <1>7 DEF U!NextAddr
  <2>2. /\ c2 \in CallRec /\ c2.o = o /\ c2.s = -1 /\ CallOK(c2, r)
    <3>1. c1 \in CallRec /\ c1.pc = "socket" /\ c1.o = o /\ c1.s = -1
      BY <1>1 DEF CallRec, CallPc
    <3> HIDE DEF c1, o, b, r
    <3>2. c2 \in CallRec /\ c2.pc = "socket" /\ c2.o = o /\ c2.s = -1
      BY <3>1 DEF CallRec
    <3> HIDE DEF c2
    <3>3. CallOK(c2, r)
      BY <1>1, <1>2, <3>2 DEF CallOK, Opening
    <3> QED BY <3>2, <3>3
  <2>3. net' = Mid(t, o, r, c2, open2)
    <3> HIDE DEF b, o, r
    <3>1. U!Go(m, t, "socket") = Mid(t, o, r, c1, open2)
      BY <1>1, MidGo
    <3> HIDE DEF c1
    <3>2. [Mid(t, o, r, c1, open2) EXCEPT !.call[t].addrs = @ - 1] = Mid(t, o, r, c2, open2)
      BY DEF Mid, State, NetInv, NetType
    <3> QED BY <2>1, <3>1, <3>2
  <2>4. Passes(net.open, open2, SockOf(net.obj[o]), FdOf(net.call[t]), r.sock, c2.s)
    <3> HIDE DEF b, o, r, c2
    <3> QED BY <1>2, <1>4, <1>5, <2>2
  <2> HIDE DEF b, o, r, c2
  <2> QED BY <1>1, <2>2, <2>3, <2>4, MidKeeps, SMTT(60)
<1> QED BY <1>6, <1>7

\* A descriptor the kernel has just given is nobody's, and not INVALID.
LEMMA FreshFd ==
  ASSUME SocketData, NetInv, U!FreeFds # {}
  PROVE  U!NewFd \in FD /\ U!NewFd \notin net.open /\ U!NewFd \in Fds /\ U!NewFd # -1
<1>1. U!FreeFds = FD \ net.open
  BY DEF U!FreeFds, U!FD, FD
<1>2. U!FreeFds \in SUBSET FD
  BY <1>1
<1>3. U!NewFd \in U!FreeFds
  BY <1>2, NewFdIsFree DEF U!NewFd
<1> QED BY <1>1, <1>3 DEF FD, Fds, SocketData

\* A call makes its descriptor its socket's, and goes on.
LEMMA MoveKeeps ==
  ASSUME SocketData, NetInv, NEW t \in Thread, NEW pc, U!At(t, pc),
         NEW r \in SockRec, NEW c \in CallRec, c.o = net.call[t].o,
         RecordOK(r), CallOK(c, r),
         net.obj[net.call[t].o].sock \notin Pos, r.sock = net.call[t].s, c.s = -1,
         net' = Mid(t, net.call[t].o, r, c, net.open)
  PROVE  NetInv'
<1> DEFINE o == net.call[t].o
           a == net.obj[o].sock
<1>1. /\ o \in Obj /\ Works(t, o) /\ net.open \in SUBSET FD
      /\ SockOf(net.obj[o]) = a /\ FdOf(net.call[t]) = r.sock /\ c.o = o
      /\ a \notin Pos /\ net' = Mid(t, o, r, c, net.open)
  BY InCall, NetParts
<1> HIDE DEF o, a
<1>2. r.sock \in Pos => r.sock \in net.open
  BY <1>1, HandsOpen
<1>3. Passes(net.open, net.open, a, r.sock, r.sock, -1)
  BY <1>1, <1>2 DEF Passes, Pos, SocketData
<1>4. Passes(net.open, net.open, SockOf(net.obj[o]), FdOf(net.call[t]), r.sock, c.s)
  BY <1>1, <1>3
<1> QED BY <1>1, <1>4, MidKeeps

\* The socket's descriptor and the call's record are replaced at once.
Replaced(n, t, o, open2, fd, c) == [n EXCEPT !.open = open2, !.obj[o].sock = fd, !.call[t] = c]

Set3(n, open, obj, call) == [n EXCEPT !.open = open, !.obj = obj, !.call = call]

\* Three parts of a state replaced at once.
LEMMA StateSet ==
  ASSUME NEW open, NEW obj, NEW call, NEW passed, NEW open2, NEW obj2, NEW call2
  PROVE  Set3(State(open, obj, call, passed), open2, obj2, call2) = State(open2, obj2, call2, passed)
<1>1. [State(open, obj, call, passed) EXCEPT !.open = open2] = State(open2, obj, call, passed)
  BY DEF State
<1>2. [State(open2, obj, call, passed) EXCEPT !.obj = obj2] = State(open2, obj2, call, passed)
  BY DEF State
<1>3. [State(open2, obj2, call, passed) EXCEPT !.call = call2] = State(open2, obj2, call2, passed)
  BY DEF State
<1> DEFINE s == State(open, obj, call, passed)
           s2 == [s EXCEPT !.open = open2]
           s3 == [s2 EXCEPT !.obj = obj2]
<1>4. Set3(s, open2, obj2, call2) = [s3 EXCEPT !.call = call2]
  BY DEF Set3
<1> QED BY <1>1, <1>2, <1>3, <1>4

\* The socket of such a state gets the descriptor and the call a new record.
LEMMA MidMoves ==
  ASSUME NetInv, NEW t \in Thread, NEW o \in Obj, NEW r, NEW c, NEW fd, NEW c2, NEW open1, NEW open2
  PROVE  Replaced(Mid(t, o, r, c, open1), t, o, open2, fd, c2) = Mid(t, o, [r EXCEPT !.sock = fd], c2, open2)
<1> DEFINE m == Mid(t, o, r, c, open1)
           r2 == [r EXCEPT !.sock = fd]
           obj2 == [m.obj EXCEPT ![o] = [m.obj[o] EXCEPT !.sock = fd]]
           call3 == [m.call EXCEPT ![t] = c2]
<1>1. /\ m = State(open1, m.obj, m.call, net.passed)
      /\ m.obj = [net.obj EXCEPT ![o] = r] /\ m.call = [net.call EXCEPT ![t] = c]
  BY DEF Mid, State
<1>2. m.obj[o] = r
  BY MidFields
<1> HIDE DEF r2
<1>3. [m.obj EXCEPT ![o] = r2] = [net.obj EXCEPT ![o] = r2] /\ call3 = [net.call EXCEPT ![t] = c2]
  BY <1>1 DEF NetInv, NetType
<1> HIDE DEF m
<1>4. obj2 = [net.obj EXCEPT ![o] = r2]
  BY <1>2, <1>3 DEF r2
<1>5. Replaced(m, t, o, open2, fd, c2) = Set3(m, open2, obj2, call3)
  BY <1>1, ZenonT(60) DEF Replaced, Set3, State
<1> HIDE DEF obj2, call3
<1>6. Replaced(m, t, o, open2, fd, c2) = State(open2, obj2, call3, net.passed)
  BY <1>1, <1>5, StateSet
<1>7. Replaced(m, t, o, open2, fd, c2) = Mid(t, o, r2, c2, open2)
  BY <1>3, <1>4, <1>6, SMTT(60) DEF Mid
<1> QED BY <1>7 DEF m, r2

\* A client connects to one address, or goes to the next.
LEMMA ConnectByIPKeeps ==
  ASSUME SocketData, NetInv, NEW t \in Thread, U!SocketConnectByIP(t)
  PROVE  NetInv'
<1> DEFINE c == net.call[t]
           o == c.o
           r == net.obj[o]
           s == c.s
           c1 == [c EXCEPT !.s = -1]
           r1 == [r EXCEPT !.sock = s]
           on == [net EXCEPT !.obj[o].sock = s, !.call[t].s = -1]
           shut == [net EXCEPT !.open = @ \ {s}, !.call[t].s = -1]
<1>1. /\ U!At(t, "connect")
      /\ \/ net' = U!NextAddr(shut, t)
         \/ net' = IF U!IsSSL(o) THEN [U!Go(on, t, "handshake") EXCEPT !.obj[o].fd = s] ELSE U!Done(on, t)
  BY ZenonT(60) DEF U!SocketConnectByIP, U!INVALID
<1>2. /\ c \in CallRec /\ o \in Obj /\ c.pc = "connect" /\ r \in SockRec /\ RecordOK(r) /\ c # NULL
      /\ CallOK(c, r) /\ Works(t, o) /\ net = Mid(t, o, r, c, net.open)
      /\ SockOf(r) = r.sock /\ FdOf(c) = c.s /\ net.open \in SUBSET FD /\ s \in Fds
  BY <1>1, InCall, NetParts, ZenonT(60)
<1>3. s # -1 /\ r.sock = -1 /\ Opening(c, r)
  BY <1>2 DEF CallOK, Opening, Shaking, Listening, Listens, Taking, Taken
<1>4. c1 \in CallRec /\ c1.o = o /\ c1.s = -1 /\ c1.pc = "connect"
  BY <1>2, SMTT(60) DEF CallRec, Fds
<1>5. r1 \in SockRec /\ r1.sock = s /\ r1.kind = r.kind /\ r1.session = r.session /\ ~r1.live
  BY <1>2, <1>3 DEF SockRec, CallOK
<1>6. on = Mid(t, o, r1, c1, net.open)
  <2>1. on = Replaced(net, t, o, net.open, s, c1)
    BY NetIsState DEF State, Replaced
  <2> HIDE DEF c1, on, s, r, o, c
  <2> QED BY <1>2, <2>1, MidMoves DEF r1
<1>7. CASE net' = U!NextAddr(shut, t)
  <2>1. shut = Mid(t, o, r, c1, net.open \ {s})
    <3>1. shut = Hands2(net, t, net.open \ {s}, -1)
      BY DEF Hands2
    <3> HIDE DEF c, o, r, s, shut
    <3> QED BY <1>2, <3>1, MidTakes DEF c1
  <2>2. \A fd \in Pos : fd \in net.open \ {s} <=> fd \in net.open /\ fd # net.call[t].s
    OBVIOUS
  <2>3. net.open \ {s} \in SUBSET FD
    BY <1>2
  <2>4. net' = U!NextAddr(Mid(t, net.call[t].o, net.obj[net.call[t].o], c1, net.open \ {s}), t)
    BY <1>7, <2>1
  <2>5. c1.o = net.call[t].o
    BY <1>4
  <2> HIDE DEF c1
  <2> QED BY <1>1, <1>4, <2>2, <2>3, <2>4, <2>5, NextAddrKeeps
<1>8. CASE net' = U!Done(on, t) /\ ~U!IsSSL(o)
  <2>1. r.kind = "socket" /\ ~r.session
    BY <1>3, <1>8 DEF U!IsSSL, Opening
  <2>2. RecordOK(r1) /\ r1.sock # -1
    BY <1>3, <1>5, <2>1 DEF RecordOK
  <2>3. net' = U!Done(Mid(t, o, r1, c1, net.open), t)
    BY <1>6, <1>8
  <2>4. s \in Pos => s \in net.open
    BY <1>2, HandsOpen
  <2>5. Passes(net.open, net.open, -1, s, s, -1)
    BY <1>3, <2>4 DEF Passes, Pos, SocketData
  <2>6. SockOf(net.obj[o]) = -1 /\ FdOf(net.call[t]) = s /\ r1.sock = s
    BY <1>2, <1>3, <1>5
  <2>7. c1.o = o
    BY <1>4
  <2> HIDE DEF c, o, r, s, r1, c1
  <2>8. Passes(net.open, net.open, SockOf(net.obj[o]), FdOf(net.call[t]), r1.sock, -1)
    BY <2>5, <2>6, SMTT(60)
  <2> QED BY <1>2, <1>4, <1>5, <2>2, <2>3, <2>7, <2>8, MidDone
<1>9. CASE net' = [U!Go(on, t, "handshake") EXCEPT !.obj[o].fd = s] /\ U!IsSSL(o)
  <2> DEFINE c2 == [c1 EXCEPT !.pc = "handshake"]
             r2 == [r1 EXCEPT !.fd = s]
  <2>1. c2 \in CallRec /\ c2.o = o /\ c2.s = -1 /\ c2.pc = "handshake"
    <3> HIDE DEF c1
    <3> QED BY <1>4, SMTT(60) DEF CallRec, CallPc
  <2>2. r2 \in SockRec /\ r2.sock = s /\ r2.fd = s /\ ~r2.live
    <3> HIDE DEF r1, s
    <3> QED BY <1>2, <1>5 DEF SockRec
  <2>3. RecordOK(r2) /\ CallOK(c2, r2)
    <3> HIDE DEF c2, r2
    <3> QED BY <1>3, <2>1, <2>2, SMTT(60) DEF RecordOK, CallOK, Shaking
  <2>4. net' = Mid(t, o, r2, c2, net.open)
    <3> HIDE DEF c1, r1, on, s
    <3>1. U!Go(Mid(t, o, r1, c1, net.open), t, "handshake") = Mid(t, o, r1, c2, net.open)
      BY <1>2, MidGo
    <3> HIDE DEF c2
    <3>2. [Mid(t, o, r1, c2, net.open) EXCEPT !.obj[o].fd = s] = Mid(t, o, r2, c2, net.open)
      BY <1>2 DEF Mid, State, NetInv, NetType
    <3> QED BY <1>6, <1>9, <3>1, <3>2
  <2>5. c2.o = net.call[t].o /\ net.obj[net.call[t].o].sock \notin Pos /\ r2.sock = net.call[t].s
        /\ net' = Mid(t, net.call[t].o, r2, c2, net.open)
    BY <1>3, <2>1, <2>2, <2>4 DEF Pos, SocketData
  <2> HIDE DEF c2, r2
  <2> QED BY <1>1, <2>1, <2>2, <2>3, <2>5, MoveKeeps
<1> QED BY <1>1, <1>7, <1>8, <1>9

\* The TLS handshake of a client or of an accepted socket.
LEMMA HandshakeKeeps ==
  ASSUME SocketData, NetInv, NEW t \in Thread, U!Handshake(t)
  PROVE  NetInv'
<1>1. U!At(t, "handshake")
  BY DEF U!Handshake
<1>2. net.call[t].s = -1 /\ net.obj[net.call[t].o].sock # -1
  <2> DEFINE c == net.call[t]
             r == net.obj[net.call[t].o]
  <2>1. CallOK(c, r) /\ c.pc = "handshake"
    BY <1>1, InCall
  <2> HIDE DEF c, r
  <2>2. c.s = -1 /\ r.sock # -1
    BY <2>1 DEF CallOK, Opening, Shaking, Listening, Listens, Taking, Taken
  <2> QED BY <2>2 DEF c, r
<1> QED BY <1>1, <1>2, FailsKeeps, DoneKeeps DEF U!Handshake

CallAt(c, pc, fd) == [[c EXCEPT !.pc = pc] EXCEPT !.s = fd]

\* The place of a call, and whose descriptor changes, at once.
LEMMA MidTakesAt ==
  ASSUME NetInv, NEW t \in Thread, NEW o \in Obj, NEW pc, NEW open2, NEW fd
  PROVE  Hands2(U!Go(net, t, pc), t, open2, fd)
           = Mid(t, o, net.obj[o], CallAt(net.call[t], pc, fd), open2)
<1> DEFINE c1 == [net.call[t] EXCEPT !.pc = pc]
<1>1. U!Go(Mid(t, o, net.obj[o], net.call[t], net.open), t, pc) = Mid(t, o, net.obj[o], c1, net.open)
  BY MidGo
<1>2. net = Mid(t, o, net.obj[o], net.call[t], net.open)
  BY MidIsNet
<1> HIDE DEF c1
<1>3. U!Go(net, t, pc) = Mid(t, o, net.obj[o], c1, net.open)
  BY <1>1, <1>2
<1>4. Hands2(Mid(t, o, net.obj[o], c1, net.open), t, open2, fd) = Mid(t, o, net.obj[o], [c1 EXCEPT !.s = fd], open2)
  BY MidTakes
<1> QED BY <1>3, <1>4 DEF c1, CallAt

MovedAt(t, o, pc, open2, s, fd) ==
  [U!Go(net, t, pc) EXCEPT !.open = open2, !.obj[o].sock = s, !.call[t].s = fd]

\* The same, of a call that also goes on to another place.
LEMMA MidMovesAt ==
  ASSUME NetInv, NEW t \in Thread, NEW o \in Obj, NEW pc, NEW open2, NEW s, NEW fd
  PROVE  MovedAt(t, o, pc, open2, s, fd)
           = Mid(t, o, [net.obj[o] EXCEPT !.sock = s], CallAt(net.call[t], pc, fd), open2)
<1> DEFINE c1 == [net.call[t] EXCEPT !.pc = pc]
           r == net.obj[o]
           g == U!Go(net, t, pc)
           c2 == [c1 EXCEPT !.s = fd]
<1>1. U!Go(Mid(t, o, net.obj[o], net.call[t], net.open), t, pc) = Mid(t, o, net.obj[o], c1, net.open)
  BY MidGo
<1>2. net = Mid(t, o, net.obj[o], net.call[t], net.open)
  BY MidIsNet
<1> HIDE DEF c1, r, g
<1>3. g = Mid(t, o, r, c1, net.open)
  BY <1>1, <1>2 DEF r, g
<1>4. g.call[t] = c1
  BY <1>3, MidFields
<1>5. [g EXCEPT !.open = open2, !.obj[o].sock = s, !.call[t].s = fd] = [g EXCEPT !.open = open2, !.obj[o].sock = s, !.call[t] = c2]
  BY <1>3, <1>4 DEF Mid, State
<1> HIDE DEF c2
<1>6. Replaced(g, t, o, open2, s, c2) = Mid(t, o, [r EXCEPT !.sock = s], c2, open2)
  BY <1>3, MidMoves
<1> QED BY <1>5, <1>6 DEF Replaced, MovedAt, g, r, c1, c2, CallAt

\* A call gets a descriptor of its own.
LEMMA TakesKeeps ==
  ASSUME SocketData, NetInv, NEW t \in Thread, NEW pc, U!At(t, pc), NEW pc2 \in CallPc,
         net.call[t].s = -1, net.obj[net.call[t].o].sock \notin Pos, U!FreeFds # {},
         \A c \in CallRec : c.pc = pc2 /\ c.s # -1 => CallOK(c, net.obj[net.call[t].o]),
         net' = [U!Go(net, t, pc2) EXCEPT !.open = @ \cup {U!NewFd}, !.call[t].s = U!NewFd]
  PROVE  NetInv'
<1> DEFINE c == net.call[t]
           o == c.o
           r == net.obj[o]
           n == U!NewFd
           c1 == [c EXCEPT !.pc = pc2]
           c2 == [c1 EXCEPT !.s = n]
           g == U!Go(net, t, pc2)
<1>1. /\ c \in CallRec /\ o \in Obj /\ r \in SockRec /\ RecordOK(r)
      /\ Works(t, o) /\ net = Mid(t, o, r, c, net.open)
      /\ SockOf(r) = r.sock /\ FdOf(c) = -1 /\ net.open \in SUBSET FD
  BY InCall, NetParts
<1>2. n \in FD /\ n \notin net.open /\ n \in Fds /\ n # -1
  BY FreshFd
<1> HIDE DEF n
<1>3. c2 \in CallRec /\ c2.o = o /\ c2.s = n /\ c2.pc = pc2
  BY <1>1, <1>2 DEF CallRec
<1>4. CallOK(c2, r)
  <2> HIDE DEF c2
  <2> QED BY <1>2, <1>3
<1>5. g.open = net.open
  <2>1. g = [net EXCEPT !.call[t].pc = pc2]
    BY DEF U!Go
  <2> QED BY <2>1, NetIsState DEF State
<1>6. net' = Hands2(g, t, net.open \cup {n}, n)
  BY <1>5 DEF Hands2, n
<1> HIDE DEF g
<1>7. net' = Mid(t, o, r, c2, net.open \cup {n})
  <2>1. Hands2(g, t, net.open \cup {n}, n)
          = Mid(t, o, net.obj[o], CallAt(net.call[t], pc2, n), net.open \cup {n})
    <3> HIDE DEF o, r, c
    <3> QED BY <1>1, MidTakesAt DEF g
  <2> QED BY <1>6, <2>1 DEF CallAt
<1>8. Passes(net.open, net.open \cup {n}, r.sock, -1, r.sock, n)
  <2>1. r.sock \notin Pos
    OBVIOUS
  <2> HIDE DEF c, o, r
  <2> QED BY <1>2, <2>1, SMTT(60) DEF Passes, Pos, SocketData
<1>9. net.open \cup {n} \in SUBSET FD
  BY <1>1, <1>2
<1>10. SockOf(net.obj[o]) = r.sock /\ FdOf(net.call[t]) = -1
  BY <1>1
<1> HIDE DEF c2, o, r, c
<1>11. Passes(net.open, net.open \cup {n}, SockOf(net.obj[o]), FdOf(net.call[t]), r.sock, c2.s)
  BY <1>3, <1>8, <1>10
<1> QED BY <1>1, <1>3, <1>4, <1>7, <1>9, <1>11, MidKeeps

\* A socket with its descriptor replaced.
Given(m, o, open2, fd) == [m EXCEPT !.open = open2, !.obj[o].sock = fd]

\* The socket of such a state gets a descriptor.
LEMMA MidGives ==
  ASSUME NetInv, NEW t \in Thread, NEW o \in Obj, NEW r, NEW c, NEW open1, NEW open2, NEW fd
  PROVE  Given(Mid(t, o, r, c, open1), o, open2, fd) = Mid(t, o, [r EXCEPT !.sock = fd], c, open2)
<1> DEFINE m == Mid(t, o, r, c, open1)
           c2 == m.call[t]
<1>1. m.call[t] = c /\ m.call = [m.call EXCEPT ![t] = c]
  BY DEF NetInv, NetType, Mid, State
<1>2. Given(m, o, open2, fd) = Replaced(m, t, o, open2, fd, c)
  <2>1. m = [m EXCEPT !.call[t] = c]
    BY <1>1 DEF Mid, State
  <2> HIDE DEF m
  <2> QED BY <1>1, <2>1 DEF Given, Replaced
<1> HIDE DEF m
<1>3. Replaced(m, t, o, open2, fd, c) = Mid(t, o, [r EXCEPT !.sock = fd], c, open2)
  BY MidMoves DEF m
<1> QED BY <1>2, <1>3 DEF m

\* A call's socket gets a new descriptor, that of accept or of a datagram socket.
LEMMA GivesKeeps ==
  ASSUME SocketData, NetInv, NEW t \in Thread, NEW pc, U!At(t, pc), NEW pc1 \in {"accepted", "dbind"},
         net.call[t].s = -1, net.obj[net.call[t].o].sock = -1, ~net.obj[net.call[t].o].session,
         U!FreeFds # {},
         net' = [U!Go(net, t, pc1) EXCEPT !.open = @ \cup {U!NewFd}, !.obj[net.call[t].o].sock = U!NewFd]
  PROVE  NetInv'
<1> DEFINE c == net.call[t]
           o == c.o
           r == net.obj[o]
           n == U!NewFd
           c1 == [c EXCEPT !.pc = pc1]
           r2 == [r EXCEPT !.sock = n]
           g == U!Go(net, t, pc1)
<1>1. /\ c \in CallRec /\ o \in Obj /\ r \in SockRec /\ RecordOK(r) /\ CallOK(c, r)
      /\ Works(t, o) /\ net = Mid(t, o, r, c, net.open)
      /\ SockOf(r) = -1 /\ FdOf(c) = -1 /\ net.open \in SUBSET FD
  BY InCall, NetParts
<1>2. n \in FD /\ n \notin net.open /\ n \in Fds /\ n # -1
  BY FreshFd
<1>3. c1 \in CallRec /\ c1.o = o /\ c1.s = -1 /\ c1.pc = pc1
  BY <1>1, SMTT(60) DEF CallRec, CallPc, Fds
<1>4. r2 \in SockRec /\ r2.sock = n /\ ~r2.session /\ ~r2.live
  <2> HIDE DEF n
  <2> QED BY <1>1, <1>2 DEF SockRec, CallOK
<1>5. RecordOK(r2) /\ CallOK(c1, r2)
  <2> HIDE DEF c1, r2, n
  <2> QED BY <1>2, <1>3, <1>4 DEF RecordOK, CallOK, Taken
<1>6. g = Mid(t, o, r, c1, net.open)
  <2> HIDE DEF o, r, c
  <2> QED BY <1>1, MidGo
<1>7. net' = Mid(t, o, r2, c1, net.open \cup {n})
  <2> HIDE DEF o, r, c, c1, g, n
  <2>1. g.open = net.open
    BY <1>1, <1>6, MidFields
  <2>2. net' = Given(g, o, net.open \cup {n}, n)
    BY <2>1 DEF Given, o, c, g, n
  <2>3. Given(Mid(t, o, r, c1, net.open), o, net.open \cup {n}, n) = Mid(t, o, [r EXCEPT !.sock = n], c1, net.open \cup {n})
    BY <1>1, MidGives
  <2> QED BY <1>6, <2>2, <2>3 DEF r2
<1> HIDE DEF n
<1>10. Passes(net.open, net.open \cup {n}, -1, -1, n, -1)
  BY <1>2 DEF Passes, Pos, SocketData
<1>11. net.open \cup {n} \in SUBSET FD
  BY <1>1, <1>2
<1>12. SockOf(net.obj[o]) = -1 /\ FdOf(net.call[t]) = -1
  BY <1>1
<1> HIDE DEF c1, r2, o, r, c
<1>13. Passes(net.open, net.open \cup {n}, SockOf(net.obj[o]), FdOf(net.call[t]), r2.sock, c1.s)
  BY <1>3, <1>4, <1>10, <1>12
<1> QED BY <1>1, <1>3, <1>4, <1>5, <1>7, <1>11, <1>13, MidKeeps

\* A client makes a descriptor for one address, or goes to the next.
LEMMA ConnectSocketKeeps ==
  ASSUME SocketData, NetInv, NEW t \in Thread, U!ConnectSocket(t)
  PROVE  NetInv'
<1> DEFINE c == net.call[t]
           r == net.obj[c.o]
<1>1. U!At(t, "socket")
  BY DEF U!ConnectSocket
<1>2. /\ c \in CallRec /\ c.pc = "socket" /\ CallOK(c, r) /\ net = Mid(t, c.o, r, c, net.open)
      /\ net.open \in SUBSET FD
  BY <1>1, InCall, NetParts
<1>3. c.s = -1 /\ r.sock = -1 /\ Opening(c, r) /\ ~r.live
  BY <1>2 DEF CallOK, Opening, Shaking, Listening, Listens, Taking, Taken
<1>4. CASE net' = U!NextAddr(net, t)
  <2>1. net' = U!NextAddr(Mid(t, net.call[t].o, net.obj[net.call[t].o], c, net.open), t)
    BY <1>2, <1>4
  <2>2. \A fd \in Pos : fd \in net.open <=> fd \in net.open /\ fd # net.call[t].s
    BY <1>3, SMTT(60) DEF Pos, SocketData
  <2> QED BY <1>1, <1>2, <1>3, <2>1, <2>2, NextAddrKeeps
<1>5. CASE U!FreeFds # {}
           /\ net' = [U!Go(net, t, "connect") EXCEPT !.open = @ \cup {U!NewFd}, !.call[t].s = U!NewFd]
  <2>1. \A d \in CallRec : d.pc = "connect" /\ d.s # -1 => CallOK(d, r)
    BY <1>2, <1>3 DEF CallOK, Opening
  <2>2. r.sock \notin Pos /\ "connect" \in CallPc
    BY <1>3 DEF Pos, SocketData, CallPc
  <2> QED BY <1>1, <1>3, <1>5, <2>1, <2>2, TakesKeeps
<1> QED BY <1>4, <1>5 DEF U!ConnectSocket

\* A server's descriptor is made and bound.
LEMMA ListenerKeeps ==
  ASSUME SocketData, NetInv, NEW t \in Thread, U!ServerSocketCreateBase(t)
  PROVE  NetInv'
<1> DEFINE c == net.call[t]
           o == c.o
           r == net.obj[o]
<1>1. CASE U!At(t, "listener")
  <2>1. c \in CallRec /\ c.pc = "listener" /\ CallOK(c, r)
    BY <1>1, InCall
  <2>2. c.s = -1 /\ r.sock \in {-1, 0} /\ Listening(c, r) /\ ~r.live
    BY <2>1 DEF CallOK, Opening, Shaking, Listening, Listens, Taking, Taken
  <2>3. CASE net' = U!Fails(net, t)
    BY <1>1, <2>2, <2>3, FailsKeeps, SMTT(60)
  <2>4. CASE U!FreeFds # {}
             /\ net' = [U!Go(net, t, "bind") EXCEPT !.open = @ \cup {U!NewFd}, !.call[t].s = U!NewFd]
    <3>1. \A d \in CallRec : d.pc = "bind" /\ d.s # -1 => CallOK(d, r)
      BY <2>1, <2>2 DEF CallOK, Listening
    <3>2. r.sock \notin Pos /\ "bind" \in CallPc
      BY <2>2 DEF Pos, SocketData, CallPc
    <3> QED BY <1>1, <2>2, <2>4, <3>1, <3>2, TakesKeeps
  <2>5. ~U!At(t, "bind")
    BY <1>1 DEF U!At
  <2> QED BY <2>3, <2>4, <2>5 DEF U!ServerSocketCreateBase
<1>2. CASE U!At(t, "bind")
  <2> DEFINE s == c.s
             f == CallAt(c, "failed", -1)
             l == CallAt(c, "listening", -1)
             r2 == [r EXCEPT !.sock = s]
  <2>1. /\ c \in CallRec /\ o \in Obj /\ c.pc = "bind" /\ r \in SockRec /\ RecordOK(r)
        /\ CallOK(c, r) /\ Works(t, o)
        /\ SockOf(r) = r.sock /\ FdOf(c) = s /\ net.open \in SUBSET FD /\ s \in Fds
    BY <1>2, InCall, NetParts
  <2>2. s # -1 /\ r.sock \in {-1, 0} /\ Listening(c, r) /\ ~r.session /\ ~r.live
    BY <2>1 DEF CallOK, Opening, Shaking, Listening, Listens, Taking, Taken
  <2>3. \/ net' = [U!Go(net, t, "failed") EXCEPT !.open = @ \ {s}, !.call[t].s = -1]
        \/ net' = [U!Go(net, t, "listening") EXCEPT !.obj[o].sock = s, !.call[t].s = -1]
    <3>1. ~U!At(t, "listener")
      BY <1>2 DEF U!At
    <3> QED BY <3>1 DEF U!ServerSocketCreateBase, U!INVALID
  <2>4. \A pc : U!Go(net, t, pc).open = net.open
    BY NetIsState DEF U!Go, State
  <2>5. CASE net' = [U!Go(net, t, "failed") EXCEPT !.open = @ \ {s}, !.call[t].s = -1]
    <3>1. f \in CallRec /\ f.o = o /\ f.s = -1 /\ f.pc = "failed"
      BY <2>1 DEF CallAt, CallRec, CallPc, Fds
    <3>2. CallOK(f, r)
      <4> HIDE DEF f
      <4> QED BY <2>2, <3>1 DEF CallOK, Listening
    <3>3. net' = Hands2(U!Go(net, t, "failed"), t, net.open \ {s}, -1)
      BY <2>4, <2>5 DEF Hands2
    <3>4. net' = Mid(t, o, r, f, net.open \ {s})
      <4> HIDE DEF o, s
      <4> QED BY <2>1, <3>3, MidTakesAt
    <3>5. Passes(net.open, net.open \ {s}, r.sock, s, r.sock, -1)
      <4> HIDE DEF c, o, r, s
      <4> QED BY <2>2, SMTT(60) DEF Passes, Pos, SocketData
    <3>6. net.open \ {s} \in SUBSET FD
      BY <2>1, SMTT(60)
    <3> HIDE DEF f
    <3>7. Passes(net.open, net.open \ {s}, SockOf(net.obj[o]), FdOf(net.call[t]), r.sock, f.s)
      BY <2>1, <3>1, <3>5
    <3> HIDE DEF o, r, c, s
    <3> QED BY <2>1, <3>1, <3>2, <3>4, <3>6, <3>7, MidKeeps
  <2>6. CASE net' = [U!Go(net, t, "listening") EXCEPT !.obj[o].sock = s, !.call[t].s = -1]
    <3>1. l \in CallRec /\ l.o = o /\ l.s = -1 /\ l.pc = "listening"
      BY <2>1 DEF CallAt, CallRec, CallPc, Fds
    <3>2. r2 \in SockRec /\ r2.sock = s /\ ~r2.session /\ ~r2.live
      BY <2>1, <2>2 DEF SockRec
    <3>3. RecordOK(r2) /\ CallOK(l, r2)
      <4> HIDE DEF l, r2
      <4> QED BY <2>2, <3>1, <3>2 DEF RecordOK, CallOK, Listens
    <3>4. net' = [U!Go(net, t, "listening") EXCEPT !.open = net.open, !.obj[o].sock = s, !.call[t].s = -1]
      <4>1. U!Go(net, t, "listening") = [U!Go(net, t, "listening") EXCEPT !.open = net.open]
        BY <2>4, NetIsState DEF U!Go, State
      <4> QED BY <2>6, <4>1
    <3>5. net' = Mid(t, o, r2, l, net.open)
      <4> HIDE DEF o, s
      <4>1. net' = MovedAt(t, o, "listening", net.open, s, -1)
        BY <3>4 DEF MovedAt
      <4>2. MovedAt(t, o, "listening", net.open, s, -1)
              = Mid(t, o, [net.obj[o] EXCEPT !.sock = s], CallAt(net.call[t], "listening", -1), net.open)
        BY <2>1, MidMovesAt
      <4> QED BY <4>1, <4>2
    <3>6. r.sock \notin Pos
      BY <2>2 DEF Pos, SocketData
    <3> HIDE DEF l, r2
    <3> QED BY <1>2, <3>1, <3>2, <3>3, <3>5, <3>6, MoveKeeps
  <2> QED BY <2>3, <2>5, <2>6
<1> QED BY <1>1, <1>2 DEF U!ServerSocketCreateBase

\* The creation of a server fails or is done.
LEMMA ListenerEndsKeeps ==
  ASSUME SocketData, NetInv, NEW t \in Thread, U!ServerSocketCreateEnds(t)
  PROVE  NetInv'
<1>1. ASSUME NEW pc, U!At(t, pc), pc \in {"failed", "listening"}
      PROVE  net.call[t].s = -1 /\ (pc = "listening" => net.obj[net.call[t].o].sock # -1)
  BY <1>1, InCall DEF CallOK, Opening, Shaking, Listening, Listens, Taking, Taken
<1> QED BY <1>1, FailsKeeps, DoneKeeps DEF U!ServerSocketCreateEnds

\* A connection is accepted, or a datagram socket bound.
LEMMA AcceptKeeps ==
  ASSUME SocketData, NetInv, NEW t \in Thread,
         U!ServerSocketAcceptInternal(t) \/ U!DGramSocketCreateInternal(t)
  PROVE  NetInv'
<1>1. ASSUME NEW pc \in {"accept", "dgram"}, U!At(t, pc)
      PROVE  /\ net.call[t].s = -1 /\ net.obj[net.call[t].o].sock = -1
             /\ ~net.obj[net.call[t].o].session
  BY <1>1, InCall DEF CallOK, Opening, Shaking, Listening, Listens, Taking, Taken
<1>2. ASSUME NEW pc \in {"accepted", "dbind"}, U!At(t, pc)
      PROVE  net.call[t].s = -1 /\ net.obj[net.call[t].o].sock # -1
  BY <1>2, InCall DEF CallOK, Opening, Shaking, Listening, Listens, Taking, Taken
<1>3. CASE U!ServerSocketAcceptInternal(t)
  <2>1. CASE U!At(t, "accept")
             /\ \/ net' = U!Fails(net, t)
                \/ /\ U!FreeFds # {}
                   /\ net' = [U!Go(net, t, "accepted") EXCEPT !.open = @ \cup {U!NewFd},
                                                          !.obj[net.call[t].o].sock = U!NewFd]
    BY <1>1, <2>1, FailsKeeps, GivesKeeps
  <2>2. CASE U!At(t, "accepted") /\ (net' = U!Fails(net, t) \/ net' = U!Done(net, t))
    BY <1>2, <2>2, FailsKeeps, DoneKeeps
  <2> QED BY <1>3, <2>1, <2>2, SMTT(60) DEF U!ServerSocketAcceptInternal
<1>4. CASE U!DGramSocketCreateInternal(t)
  <2>1. CASE U!At(t, "dgram")
             /\ \/ net' = U!Fails(net, t)
                \/ /\ U!FreeFds # {}
                   /\ net' = [U!Go(net, t, "dbind") EXCEPT !.open = @ \cup {U!NewFd},
                                                          !.obj[net.call[t].o].sock = U!NewFd]
    BY <1>1, <2>1, FailsKeeps, GivesKeeps
  <2>2. CASE U!At(t, "dbind") /\ (net' = U!Fails(net, t) \/ net' = U!Done(net, t))
    BY <1>2, <2>2, FailsKeeps, DoneKeeps, SMTT(60)
  <2> QED BY <1>4, <2>1, <2>2, SMTT(60) DEF U!DGramSocketCreateInternal
<1> QED BY <1>3, <1>4

\* An accepted connection gets its TLS session.
LEMMA SSLAcceptKeeps ==
  ASSUME SocketData, NetInv, NEW t \in Thread, U!SSLServerSocketAccept(t)
  PROVE  NetInv'
<1> DEFINE c == net.call[t]
           o == c.o
           r == net.obj[o]
           c2 == [c EXCEPT !.pc = "handshake"]
           r1 == [r EXCEPT !.session = TRUE]
           r2 == [r1 EXCEPT !.fd = r.sock]
           g == U!Go(net, t, "handshake")
<1>1. /\ U!At(t, "accepted")
      /\ net' = [g EXCEPT !.obj[o].session = TRUE, !.obj[o].fd = net.obj[o].sock]
  BY SMTT(60) DEF U!SSLServerSocketAccept
<1>2. /\ c \in CallRec /\ o \in Obj /\ c.pc = "accepted" /\ r \in SockRec /\ CallOK(c, r)
      /\ net = Mid(t, o, r, c, net.open)
  BY <1>1, InCall, NetParts
<1>3. c.s = -1 /\ r.sock # -1 /\ ~r.live
  BY <1>2 DEF CallOK, Opening, Shaking, Listening, Listens, Taking, Taken
<1>4. c2 \in CallRec /\ c2.o = o /\ c2.s = c.s /\ c2.pc = "handshake"
  BY <1>2 DEF CallRec, CallPc
<1>5. r2 \in SockRec /\ r2.sock = r.sock /\ r2.fd = r.sock /\ r2.live = r.live
  BY <1>2 DEF SockRec
<1>6. RecordOK(r2) /\ CallOK(c2, r2)
  <2> HIDE DEF c2, r2
  <2> QED BY <1>3, <1>4, <1>5 DEF RecordOK, CallOK, Shaking
<1>7. net' = Mid(t, o, r2, c2, net.open)
  <2> HIDE DEF o, r, c
  <2>1. g = Mid(t, o, r, c2, net.open)
    BY <1>2, MidGo
  <2> HIDE DEF g, c2
  <2>2. [Mid(t, o, r, c2, net.open) EXCEPT !.obj[o].session = TRUE] = Mid(t, o, r1, c2, net.open)
    <3>1. ASSUME NEW yes
          PROVE  [Mid(t, o, r, c2, net.open) EXCEPT !.obj[o].session = yes]
                   = Mid(t, o, [r EXCEPT !.session = yes], c2, net.open)
      BY <1>2 DEF Mid, State, NetInv, NetType
    <3> QED BY <3>1
  <2> HIDE DEF r1
  <2>3. [Mid(t, o, r1, c2, net.open) EXCEPT !.obj[o].fd = r.sock] = Mid(t, o, r2, c2, net.open)
    BY <1>2 DEF Mid, State, NetInv, NetType
  <2>4. net.obj[o].sock = r.sock
    BY DEF r
  <2> QED BY <1>1, <2>1, <2>2, <2>3, <2>4
<1>8. c2.o = net.call[t].o /\ r2.sock = net.obj[net.call[t].o].sock /\ c2.s = net.call[t].s
  BY <1>4, <1>5
<1>9. net' = Mid(t, net.call[t].o, r2, c2, net.open)
  BY <1>7
<1> HIDE DEF c2, r2
<1> QED BY <1>1, <1>4, <1>5, <1>6, <1>8, <1>9, GoKeeps

\* The library module that Sockets.tla instantiates counts as this one does.
LEMMA SameSize == \A S : U!Cardinality(S) = Cardinality(S)
BY DEF U!Cardinality, Cardinality

\* The step of the user's on the sockets o and p, one or two, that no call
\* works on.
LEMMA ObjectsKeep ==
  ASSUME SocketData, NetInv, NEW o \in Obj, NEW p \in Obj,
         \A u \in Thread : net.call[u] # NULL => net.call[u].o \notin {o, p},
         NEW obj2 \in [Obj -> SockRec \cup {NULL}], NEW open2 \in SUBSET FD,
         \A q \in Obj : q \notin {o, p} => obj2[q] = net.obj[q],
         \A q \in {o, p} : obj2[q] # NULL => RecordOK(obj2[q]),
         net' = State(open2, obj2, net.call, net.passed),
         Passes(net.open, open2, SockOf(net.obj[o]), SockOf(net.obj[p]), SockOf(obj2[o]), SockOf(obj2[p]))
  PROVE  NetInv'
<1>1. net'.open = open2 /\ net'.obj = obj2 /\ net'.call = net.call /\ net'.passed = net.passed
  BY DEF State
<1>2. NetType'
  BY <1>1 DEF NetInv, NetType, State
<1>3. RecordsSound'
  BY <1>1 DEF NetInv, RecordsSound
<1>4. \A u \in Thread : net.call[u] # NULL => net.call[u].o \in Obj
  BY DEF NetInv, NetType, CallRec
<1>5. CallsSound' /\ CallsApart'
  BY <1>1, <1>4 DEF NetInv, CallsSound, CallsApart
<1>6. Exact(open2, Hands(obj2, net.call))
  <2> DEFINE h == Hands(net.obj, net.call)
             h2 == Hands(obj2, net.call)
  <2>1. /\ h[o] = SockOf(net.obj[o]) /\ h[p] = SockOf(net.obj[p])
        /\ h2[o] = SockOf(obj2[o]) /\ h2[p] = SockOf(obj2[p])
    BY DEF Hands
  <2>2. \A z \in Obj \cup Thread : z # o /\ z # p => h2[z] = h[z]
    BY DEF Hands
  <2>3. Exact(net.open, h)
    BY DEF NetInv, DescriptorsExact
  <2> HIDE DEF h, h2
  <2>4. Exact(open2, h2)
    BY <2>1, <2>2, <2>3, PassesKeeps
  <2> QED BY <2>4 DEF h2
<1> QED BY <1>1, <1>2, <1>3, <1>5, <1>6 DEF NetInv, DescriptorsExact

\* A socket that is the user's is no call's, and neither is a record not made.
LEMMA NoCallHas ==
  ASSUME NetInv, NEW o \in Obj, net.obj[o] = NULL \/ net.obj[o].live
  PROVE  \A u \in Thread : net.call[u] # NULL => net.call[u].o # o
BY DEF NetInv, CallsSound, CallOK

\* The user closes a socket.
LEMMA CloseKeeps ==
  ASSUME SocketData, NetInv, NEW o \in Obj, U!Close(o)
  PROVE  NetInv'
<1> DEFINE r == net.obj[o]
           obj2 == [net.obj EXCEPT ![o] = NULL]
<1>0. PICK p \in Obj : p = o
  OBVIOUS
<1>1. r # NULL /\ r.live /\ net' = U!CloseOf(net, o)
  BY DEF U!Close, U!Live
<1>2. /\ net.obj \in [Obj -> SockRec \cup {NULL}] /\ net.call \in [Thread -> CallRec \cup {NULL}]
      /\ net.open \in SUBSET FD
  BY DEF NetInv, NetType
<1>3. RecordOK(r) /\ r \in SockRec /\ SockOf(r) = r.sock
  BY <1>1, <1>2 DEF NetInv, RecordsSound, SockOf
<1>4. net' = State(net.open \ {r.sock}, obj2, net.call, net.passed)
  <2>1. U!CloseOf(State(net.open, net.obj, net.call, net.passed), o)
          = Closed(net.open, net.obj, net.call, net.passed, o)
    BY <1>1, <1>2, <1>3, ClosesIs
  <2> QED BY <1>1, <2>1, NetIsState DEF Closed
<1>5. obj2 \in [Obj -> SockRec \cup {NULL}] /\ obj2[o] = NULL
      /\ \A q \in Obj : q \notin {o, p} => obj2[q] = net.obj[q]
  BY <1>2
<1>6. \A u \in Thread : net.call[u] # NULL => net.call[u].o \notin {o, p}
  BY <1>0, <1>1, NoCallHas
<1>7. net.open \ {r.sock} \in SUBSET FD /\ \A q \in {o, p} : obj2[q] # NULL => RecordOK(obj2[q])
  BY <1>0, <1>2, <1>5
<1>8. SockOf(obj2[o]) = -1 /\ SockOf(net.obj[o]) = r.sock
  BY <1>3, <1>5 DEF SockOf
<1> HIDE DEF obj2, r
<1>9. Passes(net.open, net.open \ {r.sock}, r.sock, r.sock, -1, -1)
  BY DEF Passes, Pos, SocketData
<1>10. Passes(net.open, net.open \ {r.sock}, SockOf(net.obj[o]), SockOf(net.obj[p]), SockOf(obj2[o]), SockOf(obj2[p]))
  BY <1>0, <1>8, <1>9
<1> DEFINE open2 == net.open \ {r.sock}
<1>11. /\ net' = State(open2, obj2, net.call, net.passed) /\ open2 \in SUBSET FD
       /\ Passes(net.open, open2, SockOf(net.obj[o]), SockOf(net.obj[p]), SockOf(obj2[o]), SockOf(obj2[p]))
  BY <1>4, <1>7, <1>10
<1> HIDE DEF open2
<1> QED BY <1>5, <1>6, <1>7, <1>11, ObjectsKeep

\* The record of a socket as the user gets it.
Made(fd) == [U!SocketCreate EXCEPT !.sock = fd, !.live = TRUE]

\* Such a record.
LEMMA MadeIs ==
  ASSUME SocketData, NEW fd \in FD
  PROVE  Made(fd) \in SockRec /\ Made(fd) # NULL /\ Made(fd).sock = fd /\ RecordOK(Made(fd)) /\ SockOf(Made(fd)) = fd
<1>1. fd \in Fds /\ fd # -1 /\ -1 \in Fds
  BY DEF Fds, FD, SocketData
<1> DEFINE r == U!SocketCreate
<1>2. r = [kind |-> "socket", sock |-> -1, session |-> FALSE, fd |-> -1, live |-> FALSE]
  BY DEF U!SocketCreate, U!Record, U!INVALID
<1>3. r \in SockRec /\ ~r.session
  BY <1>1, <1>2 DEF SockRec, Kind
<1>4. Made(fd) = [[r EXCEPT !.sock = fd] EXCEPT !.live = TRUE]
  BY DEF Made
<1> HIDE DEF r
<1>5. Made(fd) \in SockRec /\ Made(fd).sock = fd /\ ~Made(fd).session
  BY <1>1, <1>3, <1>4 DEF SockRec
<1> HIDE DEF Made
<1> QED BY <1>1, <1>5 DEF RecordOK, SockOf, SocketData

\* Both ends of a pair are made.
LEMMA PairKeeps ==
  ASSUME SocketData, NetInv, NEW t \in Thread, U!SocketPair(t)
  PROVE  NetInv'
<1> DEFINE o == U!Fresh
           p == CHOOSE q \in U!Spare \ {o} : TRUE
           s == U!NewFd
           r == U!Min(U!FreeFds \ {s})
           obj1 == [net.obj EXCEPT ![o] = Made(s)]
           obj2 == [obj1 EXCEPT ![p] = Made(r)]
           open2 == net.open \cup {s, r}
<1>1. Cardinality(U!Spare) >= 2 /\ Cardinality(U!FreeFds) >= 2
  BY SameSize DEF U!SocketPair
<1>2. net' = [net EXCEPT !.open = @ \cup {s, r}, !.obj[o] = Made(s), !.obj[p] = Made(r)]
  BY DEF U!SocketPair, Made
<1>3. \A S, x : Cardinality(S) >= 2 => S # {} /\ S \ {x} # {}
  <2>1. ASSUME NEW S, NEW x, Cardinality(S) >= 2, S \ {x} = {} PROVE FALSE
    <3>1. S = {} \/ S = {x}
      BY <2>1
    <3> QED BY <2>1, <3>1, FS_EmptySet, FS_Singleton
  <2>2. Cardinality({}) = 0
    BY FS_EmptySet
  <2> QED BY <2>1, <2>2
<1>4. o \in U!Spare /\ p \in U!Spare \ {o}
  <2>1. U!Spare # {} /\ U!Spare \ {o} # {}
    BY <1>1, <1>3
  <2> QED BY <2>1 DEF U!Fresh
<1>5. o \in Obj /\ p \in Obj /\ o # p /\ net.obj[o] = NULL /\ net.obj[p] = NULL
  BY <1>4 DEF U!Spare
<1>6. /\ s \in FD /\ s \notin net.open /\ r \in FD /\ r \notin net.open /\ r # s
      /\ s # -1 /\ r # -1
  <2>1. U!FreeFds # {} /\ U!FreeFds \ {s} # {}
    BY <1>1, <1>3
  <2>2. U!FreeFds = FD \ net.open
    BY DEF U!FreeFds, U!FD, FD
  <2>3. s \in FD /\ s \notin net.open
    BY <2>1, FreshFd
  <2>4. U!FreeFds \ {s} \in SUBSET FD
    BY <2>2
  <2>5. r \in U!FreeFds \ {s}
    BY <2>1, <2>4, NewFdIsFree
  <2> QED BY <2>2, <2>3, <2>5 DEF FD, SocketData
<1>7. /\ net.obj \in [Obj -> SockRec \cup {NULL}] /\ net.open \in SUBSET FD
      /\ net = State(net.open, net.obj, net.call, net.passed)
  BY NetIsState DEF NetInv, NetType
<1> HIDE DEF s, r, o, p
<1>8. Made(s) \in SockRec /\ RecordOK(Made(s)) /\ SockOf(Made(s)) = s
      /\ Made(r) \in SockRec /\ RecordOK(Made(r)) /\ SockOf(Made(r)) = r
  BY <1>6, MadeIs
<1>9. /\ obj2 \in [Obj -> SockRec \cup {NULL}] /\ obj2[o] = Made(s) /\ obj2[p] = Made(r)
      /\ \A q \in Obj : q \notin {o, p} => obj2[q] = net.obj[q]
  BY <1>5, <1>7, <1>8
<1>10. net' = State(open2, obj2, net.call, net.passed)
  <2>1. net' = Set3(net, open2, obj2, net.call)
    BY <1>2, <1>7 DEF Set3, State
  <2> HIDE DEF obj2, open2
  <2> QED BY <1>7, <2>1, StateSet
<1>11. \A u \in Thread : net.call[u] # NULL => net.call[u].o \notin {o, p}
  BY <1>5, NoCallHas
<1>12. open2 \in SUBSET FD
  BY <1>6, <1>7
<1>13. Passes(net.open, open2, -1, -1, s, r)
  BY <1>6 DEF Passes, Pos, SocketData
<1> HIDE DEF obj2, open2
<1>14. SockOf(net.obj[o]) = -1 /\ SockOf(net.obj[p]) = -1 /\ SockOf(obj2[o]) = s /\ SockOf(obj2[p]) = r
  BY <1>5, <1>8, <1>9 DEF SockOf
<1>15. Passes(net.open, open2, SockOf(net.obj[o]), SockOf(net.obj[p]), SockOf(obj2[o]), SockOf(obj2[p]))
  BY <1>13, <1>14
<1>16. \A q \in {o, p} : obj2[q] # NULL => RecordOK(obj2[q])
  BY <1>8, <1>9
<1> QED BY <1>5, <1>9, <1>10, <1>11, <1>12, <1>15, <1>16, ObjectsKeep

\* A descriptor that was passed on arrives.
LEMMA ReadKeeps ==
  ASSUME SocketData, NetInv, NEW t \in Thread, U!ReadSocket(t)
  PROVE  NetInv'
<1> DEFINE o == U!Fresh
           n == U!NewFd
<1>1. net.call[t] = NULL /\ U!Spare # {} /\ U!FreeFds # {}
  BY DEF U!ReadSocket
<1>2. CASE net' = [net EXCEPT !.passed = FALSE]
  BY <1>2, NetIsState DEF NetInv, NetType, RecordsSound, CallsSound, CallsApart, DescriptorsExact, State
<1>3. CASE net' = [net EXCEPT !.passed = FALSE, !.open = @ \cup {n}, !.obj[o] = Made(n)]
  <2>1. o \in Obj /\ net.obj[o] = NULL
    BY <1>1 DEF U!Spare, U!Fresh
  <2>2. n \in FD /\ n \notin net.open /\ n # -1
    BY <1>1, FreshFd
  <2> HIDE DEF n, o
  <2>3. Made(n) \in SockRec /\ RecordOK(Made(n)) /\ SockOf(Made(n)) = n
    BY <2>2, MadeIs
  <2>4. StepTo(t, o, Made(n), NULL, net.open \cup {n})
    <3>1. [net.call EXCEPT ![t] = NULL] = net.call
      BY <1>1 DEF NetInv, NetType
    <3> QED BY <1>3, <3>1, NetIsState DEF StepTo, State
  <2>5. Works(t, o)
    BY <1>1, <2>1, NoCallHas DEF Works
  <2>6. net.open \cup {n} \in SUBSET FD
    BY <2>2 DEF NetInv, NetType
  <2>7. Passes(net.open, net.open \cup {n}, -1, -1, n, -1)
    BY <2>2 DEF Passes, Pos, SocketData
  <2>8. SockOf(net.obj[o]) = -1 /\ FdOf(net.call[t]) = -1 /\ FdOf(NULL) = -1
    BY <1>1, <2>1 DEF SockOf, FdOf
  <2>9. Passes(net.open, net.open \cup {n}, SockOf(net.obj[o]), FdOf(net.call[t]), SockOf(Made(n)), FdOf(NULL))
    BY <2>3, <2>7, <2>8
  <2> QED BY <2>1, <2>3, <2>4, <2>5, <2>6, <2>9, StepKeeps
<1> QED BY <1>2, <1>3 DEF U!ReadSocket, Made

\* A descriptor is passed on.
LEMMA WriteKeeps ==
  ASSUME NetInv, NEW o \in Obj, U!WriteSocket(o)
  PROVE  NetInv'
BY NetIsState DEF U!WriteSocket, NetInv, NetType, RecordsSound, CallsSound, CallsApart, DescriptorsExact, State

\* A step that changes nothing.
LEMMA NetStutters ==
  ASSUME NetInv, UNCHANGED U!vars
  PROVE  NetInv'
BY DEF U!vars, NetInv, NetType, RecordsSound, CallsSound, CallsApart, DescriptorsExact

\* What the invariant says of the users of a descriptor.
LEMMA NetInvIsSound == SocketData /\ NetInv => U!SocketsSound
<1> SUFFICES ASSUME SocketData, NetInv PROVE U!SocketsSound
  OBVIOUS
<1> DEFINE h == Hands(net.obj, net.call)
<1>1. \A o \in Obj : net.obj[o] # NULL => net.obj[o].sock # -1 \/ ~net.obj[o].live
  BY DEF NetInv, RecordsSound, RecordOK
<1>2. ASSUME NEW fd \in Pos
      PROVE  Cardinality(U!Holders(fd)) = IF fd \in net.open THEN 1 ELSE 0
  <2>1. \A x \in Obj \cup Thread : x \in U!Holders(fd) <=> h[x] = fd
    <3>1. fd # -1
      BY DEF Pos, SocketData
    <3> QED BY <3>1 DEF U!Holders, Hands, SockOf, FdOf, SocketData
  <2>2. U!Holders(fd) \subseteq Obj \cup Thread
    BY DEF U!Holders
  <2>3. CASE fd \in net.open
    <3>1. PICK x \in Obj \cup Thread : h[x] = fd
      BY <2>3 DEF NetInv, DescriptorsExact, Exact
    <3>2. U!Holders(fd) = {x}
      BY <2>1, <2>2, <3>1 DEF NetInv, DescriptorsExact, Exact
    <3> QED BY <2>3, <3>2, FS_Singleton
  <2>4. CASE fd \notin net.open
    <3>1. U!Holders(fd) = {}
      BY <2>1, <2>2, <2>4 DEF NetInv, DescriptorsExact, Exact
    <3> QED BY <2>4, <3>1, FS_EmptySet
  <2> QED BY <2>3, <2>4
<1>3. U!FD \ {0} = Pos
  BY DEF U!FD, Pos, SocketData
<1>4. \A fd \in U!FD \ {0} : U!Cardinality(U!Holders(fd)) = IF fd \in net.open THEN 1 ELSE 0
  BY <1>2, <1>3, SameSize
<1>5. \A o \in Obj : U!Live(o) => net.obj[o].sock # U!INVALID
  BY <1>1 DEF U!Live, U!INVALID
<1> QED BY <1>4, <1>5 DEF U!SocketsSound

\* No socket leaks and none is closed for somebody else, for any number of
\* threads, sockets and descriptors: however calls fail and interleave, each
\* descriptor but 0 is open exactly while one socket or one call has it.
THEOREM NoDescriptorLeaks ==
  ASSUME SocketData
  PROVE  U!Spec => []U!SocketsSound
<1>1. U!Init => NetInv
  BY NetInit
<1>2. NetInv /\ [U!Next]_(U!vars) => NetInv'
  <2>1. ASSUME NetInv, NEW t \in Thread,
               \/ U!SocketConnectInternal(t) \/ U!SocketConnectWithAddr(t) \/ U!SSLSocketConnect(t)
               \/ U!SSLContext(t) \/ U!SocketConnectBase(t) \/ U!ConnectSocket(t) \/ U!SocketConnectByIP(t)
               \/ U!Handshake(t) \/ U!ServerSocketCreate(t) \/ U!SSLServerSocketCreate(t)
               \/ U!ServerSocketCreateBase(t) \/ U!ServerSocketCreateEnds(t)
               \/ U!ServerSocketAccept(t) \/ U!ServerSocketAcceptInternal(t) \/ U!SSLServerSocketAccept(t)
               \/ U!SocketPair(t) \/ U!ReadSocket(t) \/ U!DGramSocketCreate(t) \/ U!DGramSocketCreateInternal(t)
        PROVE  NetInv'
    BY <2>1, BeginsKeep, ContextKeeps, ConnectBaseKeeps, ConnectSocketKeeps, ConnectByIPKeeps,
       HandshakeKeeps, ListenerKeeps, ListenerEndsKeeps, AcceptKeeps, SSLAcceptKeeps, PairKeeps, ReadKeeps
  <2>2. ASSUME NetInv, NEW o \in Obj, U!WriteSocket(o) \/ U!Close(o)
        PROVE  NetInv'
    BY <2>2, WriteKeeps, CloseKeeps
  <2>3. NetInv /\ UNCHANGED U!vars => NetInv'
    BY NetStutters
  <2> QED BY <2>1, <2>2, <2>3 DEF U!Next
<1>3. NetInv => U!SocketsSound
  BY NetInvIsSound
<1> QED BY <1>1, <1>2, <1>3, PTL DEF U!Spec

------------------------------------------------------------------------------
(* Datagram.tla, for any number of sockets, datagrams and buffers: what    *)
(* the library has on record of a socket is what the kernel has.           *)
CONSTANTS Sock, Other, Sizes, Capacity, MaxQueue, MaxSent
VARIABLE udp

D == INSTANCE Datagram WITH st <- udp

Dgram   == [from : Sock, to : Sock, size : Sizes]
KernelRec  == [port : Sock \cup {NULL}, asked : BOOLEAN, peer : Sock \cup {NULL}, queue : Seq(Dgram)]
LibraryRec == [binded : BOOLEAN, laddr : Sock \cup {NULL}, connected : BOOLEAN, raddr : Sock \cup {NULL}]
Receipt == [by : Sock, cap : Capacity, from : Sock \cup {NULL}, size : Int]

\* NULL is neither a socket nor a receipt; sizes are numbers.
DatagramData ==
  /\ NULL \notin Sock /\ NULL \notin Receipt
  /\ Sizes \subseteq Int /\ Capacity \subseteq Int

DatagramType ==
  udp \in [k : [Sock -> KernelRec], d : [Sock -> LibraryRec], sent : SUBSET Dgram,
           last : Receipt \cup {NULL}]

\* The library's record d of the socket x agrees with the kernel's, k.
Agree(x, k, d) ==
  /\ d.connected <=> k.peer # NULL
  /\ d.connected => d.raddr = k.peer
  /\ d.binded => d.laddr = x
  /\ k.port \in {x, NULL}

\* A socket's queue has what was sent to it.
Queued(x, queue, sent) == \A i \in 1 .. Len(queue) : queue[i] \in sent /\ queue[i].to = x

\* What a receive gave is one datagram that was sent to the socket.
Got(last, sent) ==
  last # NULL => \E dgram \in sent :
    /\ dgram.to = last.by /\ last.from \in {NULL, dgram.from}
    /\ last.size = dgram.size \/ (last.size = last.cap /\ last.cap < dgram.size)

DatagramInv ==
  /\ DatagramType
  /\ \A x \in Sock : Agree(x, udp.k[x], udp.d[x]) /\ Queued(x, udp.k[x].queue, udp.sent)
  /\ Got(udp.last, udp.sent)

\* The state in which the two records of the socket x are k and d.
Udp(x, k, d, sent, last) ==
  [k |-> [udp.k EXCEPT ![x] = k], d |-> [udp.d EXCEPT ![x] = d], sent |-> sent, last |-> last]

\* A step on one socket keeps the invariant when its two records still agree.
LEMMA UdpKeeps ==
  ASSUME DatagramInv, NEW x \in Sock, NEW k \in KernelRec, NEW d \in LibraryRec,
         NEW sent \in SUBSET Dgram, udp.sent \subseteq sent,
         NEW last \in Receipt \cup {NULL}, Got(last, sent),
         Agree(x, k, d), Queued(x, k.queue, sent),
         udp' = Udp(x, k, d, sent, last)
  PROVE  DatagramInv'
<1>1. /\ udp'.k = [udp.k EXCEPT ![x] = k] /\ udp'.d = [udp.d EXCEPT ![x] = d]
      /\ udp'.sent = sent /\ udp'.last = last
  BY DEF Udp
<1>2. DatagramType'
  <2> DEFINE k2 == [udp.k EXCEPT ![x] = k]
             d2 == [udp.d EXCEPT ![x] = d]
  <2>1. k2 \in [Sock -> KernelRec] /\ d2 \in [Sock -> LibraryRec]
    BY DEF DatagramInv, DatagramType
  <2>2. udp' = [k |-> k2, d |-> d2, sent |-> sent, last |-> last]
    BY DEF Udp
  <2> HIDE DEF k2, d2
  <2> QED BY <2>1, <2>2 DEF DatagramType
<1>3. udp'.k[x] = k /\ udp'.d[x] = d
      /\ \A y \in Sock : y # x => udp'.k[y] = udp.k[y] /\ udp'.d[y] = udp.d[y]
  BY <1>1 DEF DatagramInv, DatagramType
<1>4. ASSUME NEW y \in Sock
      PROVE  Agree(y, udp'.k[y], udp'.d[y]) /\ Queued(y, udp'.k[y].queue, udp'.sent)
  <2>1. CASE y = x
    BY <1>1, <1>3, <2>1
  <2>2. CASE y # x
    BY <1>1, <1>3, <2>2 DEF DatagramInv, Queued
  <2> QED BY <2>1, <2>2
<1> QED BY <1>1, <1>2, <1>4 DEF DatagramInv

\* A state is the one with each of its own parts.
LEMMA UdpIs ==
  ASSUME DatagramInv, NEW x \in Sock
  PROVE  /\ udp = Udp(x, udp.k[x], udp.d[x], udp.sent, udp.last)
         /\ udp.k[x] \in KernelRec /\ udp.d[x] \in LibraryRec /\ udp.sent \in SUBSET Dgram
         /\ udp.last \in Receipt \cup {NULL}
         /\ Agree(x, udp.k[x], udp.d[x]) /\ Queued(x, udp.k[x].queue, udp.sent)
         /\ Got(udp.last, udp.sent)
<1>1. [udp.k EXCEPT ![x] = udp.k[x]] = udp.k /\ [udp.d EXCEPT ![x] = udp.d[x]] = udp.d
  BY DEF DatagramInv, DatagramType
<1> QED BY <1>1 DEF Udp, DatagramInv, DatagramType

\* One field of a state replaced.
SetPort(u, x, v)      == [u EXCEPT !.k[x].port = v]
SetAsked(u, x, v)     == [u EXCEPT !.k[x].asked = v]
SetPeer(u, x, v)      == [u EXCEPT !.k[x].peer = v]
SetQueue(u, x, v)     == [u EXCEPT !.k[x].queue = v]
SetLaddr(u, x, v)     == [u EXCEPT !.d[x].laddr = v]
Binds(u, x)        == [u EXCEPT !.d[x].binded = TRUE]
SetRaddr(u, x, v)     == [u EXCEPT !.d[x].raddr = v]
Connects(u, x)     == [u EXCEPT !.d[x].connected = TRUE]
Disconnects(u, x)  == [u EXCEPT !.d[x].connected = FALSE]
SetSent(u, v) == [u EXCEPT !.sent = v]
SetLast(u, v) == [u EXCEPT !.last = v]
Binded(d)       == [d EXCEPT !.binded = TRUE]
Connected(d)    == [d EXCEPT !.connected = TRUE]
Disconnected(d) == [d EXCEPT !.connected = FALSE]

\* The socket's port replaced, in a state of that form.
LEMMA SetPortIs ==
  ASSUME DatagramInv, NEW x \in Sock, NEW k, NEW d, NEW sent, NEW last, NEW v
  PROVE  SetPort(Udp(x, k, d, sent, last), x, v) = Udp(x, [k EXCEPT !.port = v], d, sent, last)
BY DEF DatagramInv, DatagramType, Udp, SetPort

\* Whether the port was asked for, likewise.
LEMMA SetAskedIs ==
  ASSUME DatagramInv, NEW x \in Sock, NEW k, NEW d, NEW sent, NEW last, NEW v
  PROVE  SetAsked(Udp(x, k, d, sent, last), x, v) = Udp(x, [k EXCEPT !.asked = v], d, sent, last)
BY DEF DatagramInv, DatagramType, Udp, SetAsked

\* The kernel's peer, likewise.
LEMMA SetPeerIs ==
  ASSUME DatagramInv, NEW x \in Sock, NEW k, NEW d, NEW sent, NEW last, NEW v
  PROVE  SetPeer(Udp(x, k, d, sent, last), x, v) = Udp(x, [k EXCEPT !.peer = v], d, sent, last)
BY DEF DatagramInv, DatagramType, Udp, SetPeer

\* The queue, likewise.
LEMMA SetQueueIs ==
  ASSUME DatagramInv, NEW x \in Sock, NEW k, NEW d, NEW sent, NEW last, NEW v
  PROVE  SetQueue(Udp(x, k, d, sent, last), x, v) = Udp(x, [k EXCEPT !.queue = v], d, sent, last)
BY DEF DatagramInv, DatagramType, Udp, SetQueue

\* The library's record of the socket's own address, likewise.
LEMMA SetLaddrIs ==
  ASSUME DatagramInv, NEW x \in Sock, NEW k, NEW d, NEW sent, NEW last, NEW v
  PROVE  SetLaddr(Udp(x, k, d, sent, last), x, v) = Udp(x, k, [d EXCEPT !.laddr = v], sent, last)
BY DEF DatagramInv, DatagramType, Udp, SetLaddr

\* The library's flag for a bound socket, likewise.
LEMMA BindsIs ==
  ASSUME DatagramInv, NEW x \in Sock, NEW k, NEW d, NEW sent, NEW last
  PROVE  Binds(Udp(x, k, d, sent, last), x) = Udp(x, k, Binded(d), sent, last)
<1>1. ASSUME NEW v
      PROVE  [Udp(x, k, d, sent, last) EXCEPT !.d[x].binded = v] = Udp(x, k, [d EXCEPT !.binded = v], sent, last)
  BY DEF DatagramInv, DatagramType, Udp
<1> QED BY <1>1 DEF Binds, Binded

\* The library's record of the peer's address, likewise.
LEMMA SetRaddrIs ==
  ASSUME DatagramInv, NEW x \in Sock, NEW k, NEW d, NEW sent, NEW last, NEW v
  PROVE  SetRaddr(Udp(x, k, d, sent, last), x, v) = Udp(x, k, [d EXCEPT !.raddr = v], sent, last)
BY DEF DatagramInv, DatagramType, Udp, SetRaddr

\* The library's flag for a connected socket, likewise.
LEMMA ConnectsIs ==
  ASSUME DatagramInv, NEW x \in Sock, NEW k, NEW d, NEW sent, NEW last
  PROVE  Connects(Udp(x, k, d, sent, last), x) = Udp(x, k, Connected(d), sent, last)
<1>1. ASSUME NEW v
      PROVE  [Udp(x, k, d, sent, last) EXCEPT !.d[x].connected = v] = Udp(x, k, [d EXCEPT !.connected = v], sent, last)
  BY DEF DatagramInv, DatagramType, Udp
<1> QED BY <1>1 DEF Connects, Connected

\* The same flag cleared.
LEMMA DisconnectsIs ==
  ASSUME DatagramInv, NEW x \in Sock, NEW k, NEW d, NEW sent, NEW last
  PROVE  Disconnects(Udp(x, k, d, sent, last), x) = Udp(x, k, Disconnected(d), sent, last)
<1>1. ASSUME NEW v
      PROVE  [Udp(x, k, d, sent, last) EXCEPT !.d[x].connected = v] = Udp(x, k, [d EXCEPT !.connected = v], sent, last)
  BY DEF DatagramInv, DatagramType, Udp
<1> QED BY <1>1 DEF Disconnects, Disconnected

\* What was sent, and what the last receive gave.
LEMMA SetSentIs ==
  ASSUME NEW x, NEW k, NEW d, NEW sent, NEW last, NEW v
  PROVE  /\ SetSent(Udp(x, k, d, sent, last), v) = Udp(x, k, d, v, last)
         /\ SetLast(Udp(x, k, d, sent, last), v) = Udp(x, k, d, sent, v)
BY DEF Udp, SetSent, SetLast

\* Binding a socket, whether it fails or not.
LEMMA BindKeeps ==
  ASSUME DatagramData, DatagramInv, NEW x \in Sock, NEW saddr, D!Bind(x, saddr)
  PROVE  DatagramInv'
<1> DEFINE k == udp.k[x]
           d == udp.d[x]
           u1 == SetPort(udp, x, x)
           k1 == [k EXCEPT !.port = x]
           d1 == [d EXCEPT !.laddr = x]
<1>1. CASE UNCHANGED udp
  BY <1>1 DEF DatagramInv, DatagramType
<1>2. CASE udp' = Binds(SetLaddr(SetAsked(u1, x, saddr # NULL), x, x), x)
  <2> DEFINE asked == saddr # NULL
             k2 == [k1 EXCEPT !.asked = asked]
             d2 == Binded(d1)
  <2>1. /\ udp = Udp(x, k, d, udp.sent, udp.last)
        /\ k \in KernelRec /\ d \in LibraryRec /\ udp.sent \in SUBSET Dgram
        /\ udp.last \in Receipt \cup {NULL}
        /\ Agree(x, k, d) /\ Queued(x, k.queue, udp.sent) /\ Got(udp.last, udp.sent)
    BY UdpIs
  <2> HIDE DEF k, d
  <2>2. asked \in BOOLEAN
    OBVIOUS
  <2> HIDE DEF asked
  <2>3. /\ k2 \in KernelRec /\ k2.port = x /\ k2.peer = k.peer /\ k2.queue = k.queue
    BY <2>1, <2>2 DEF KernelRec
  <2>4. /\ d2 \in LibraryRec /\ d2.laddr = x /\ d2.connected = d.connected /\ d2.raddr = d.raddr
    BY <2>1 DEF LibraryRec, Binded
  <2>5. u1 = Udp(x, k1, d, udp.sent, udp.last)
    BY <2>1, SetPortIs
  <2> HIDE DEF k1, u1
  <2>6. SetAsked(u1, x, asked) = Udp(x, k2, d, udp.sent, udp.last)
    BY <2>5, SetAskedIs
  <2> HIDE DEF k2
  <2>7. SetLaddr(SetAsked(u1, x, asked), x, x) = Udp(x, k2, d1, udp.sent, udp.last)
    BY <2>6, SetLaddrIs
  <2> HIDE DEF d1
  <2>8. udp' = Udp(x, k2, d2, udp.sent, udp.last)
    BY <1>2, <2>7, BindsIs DEF asked
  <2> HIDE DEF d2
  <2>9. Agree(x, k2, d2) /\ Queued(x, k2.queue, udp.sent)
    BY <2>1, <2>3, <2>4 DEF Agree
  <2> QED BY <2>1, <2>3, <2>4, <2>8, <2>9, UdpKeeps
<1> QED BY <1>1, <1>2 DEF D!Bind, SetPort, SetAsked, SetLaddr, Binds

\* A socket after it has been dissolved from its peer, or was never connected.
LEMMA DisconnectIs ==
  ASSUME DatagramData, DatagramInv, NEW x \in Sock, NEW u \in D!Disconnect(udp, x)
  PROVE  \E k \in KernelRec, d \in LibraryRec :
           /\ u = Udp(x, k, d, udp.sent, udp.last)
           /\ Agree(x, k, d) /\ Queued(x, k.queue, udp.sent)
<1> DEFINE k == udp.k[x]
           d == udp.d[x]
<1>1. /\ udp = Udp(x, k, d, udp.sent, udp.last)
      /\ k \in KernelRec /\ d \in LibraryRec /\ udp.sent \in SUBSET Dgram
      /\ Agree(x, k, d) /\ Queued(x, k.queue, udp.sent)
  BY UdpIs
<1>2. CASE ~d.connected
  BY <1>1, <1>2 DEF D!Disconnect
<1>3. CASE d.connected
  <2>1. PICK port \in {x, NULL} :
          u = [udp EXCEPT !.k[x].peer = NULL, !.k[x].port = port, !.d[x].raddr = NULL, !.d[x].connected = FALSE]
    BY <1>3 DEF D!Disconnect
  <2> DEFINE u1 == SetPeer(udp, x, NULL)
             k1 == [k EXCEPT !.peer = NULL]
             k2 == [k1 EXCEPT !.port = port]
             d1 == [d EXCEPT !.raddr = NULL]
             d2 == Disconnected(d1)
             u2 == SetPort(u1, x, port)
             u3 == SetRaddr(u2, x, NULL)
  <2>2. u = Disconnects(u3, x)
    BY <2>1 DEF SetPeer, SetPort, SetRaddr, Disconnects
  <2> HIDE DEF k, d
  <2>3. k2 \in KernelRec /\ k2.port = port /\ k2.peer = NULL /\ k2.queue = k.queue
    BY <1>1 DEF KernelRec
  <2>4. d2 \in LibraryRec /\ ~d2.connected /\ d2.binded = d.binded /\ d2.laddr = d.laddr
    BY <1>1 DEF LibraryRec, Disconnected
  <2>5. u1 = Udp(x, k1, d, udp.sent, udp.last)
    BY <1>1, SetPeerIs
  <2> HIDE DEF u1, k1
  <2>6. u2 = Udp(x, k2, d, udp.sent, udp.last)
    BY <2>5, SetPortIs
  <2> HIDE DEF u2, k2
  <2>7. u3 = Udp(x, k2, d1, udp.sent, udp.last)
    BY <2>6, SetRaddrIs
  <2> HIDE DEF u3, d1
  <2>8. u = Udp(x, k2, d2, udp.sent, udp.last)
    BY <2>2, <2>7, DisconnectsIs
  <2> HIDE DEF d2
  <2>9. Agree(x, k2, d2) /\ Queued(x, k2.queue, udp.sent)
    BY <1>1, <2>3, <2>4 DEF Agree
  <2> QED BY <2>3, <2>4, <2>8, <2>9
<1> QED BY <1>2, <1>3

\* Connecting a socket, with what it dissolves first, or dissolving it only.
LEMMA UdpConnectKeeps ==
  ASSUME DatagramData, DatagramInv, NEW x \in Sock, NEW saddr \in Sock \cup {Other},
         D!Connect(x, saddr) \/ udp' \in D!Disconnect(udp, x)
  PROVE  DatagramInv'
<1>1. /\ udp.sent \in SUBSET Dgram /\ udp.last \in Receipt \cup {NULL} /\ Got(udp.last, udp.sent)
  BY UdpIs
<1>2. CASE udp' \in D!Disconnect(udp, x)
  <2>1. PICK k \in KernelRec, d \in LibraryRec :
          /\ udp' = Udp(x, k, d, udp.sent, udp.last)
          /\ Agree(x, k, d) /\ Queued(x, k.queue, udp.sent)
    <3> DEFINE u == udp'
    <3>1. \A v \in D!Disconnect(udp, x) : \E k \in KernelRec, d \in LibraryRec :
            /\ v = Udp(x, k, d, udp.sent, udp.last)
            /\ Agree(x, k, d) /\ Queued(x, k.queue, udp.sent)
      BY DisconnectIs
    <3> QED BY <1>2, <3>1
  <2> QED BY <1>1, <2>1, UdpKeeps
<1>3. ASSUME NEW free \in D!Disconnect(udp, x), saddr # Other,
             udp' = [D!Named(free, x) EXCEPT !.k[x].peer = saddr, !.d[x].raddr = saddr, !.d[x].connected = TRUE]
      PROVE  DatagramInv'
  <2>1. PICK k \in KernelRec, d \in LibraryRec :
          /\ free = Udp(x, k, d, udp.sent, udp.last)
          /\ Agree(x, k, d) /\ Queued(x, k.queue, udp.sent)
    BY DisconnectIs
  <2> DEFINE u1 == SetPort(free, x, x)
             u2 == SetPeer(u1, x, saddr)
             u3 == SetRaddr(u2, x, saddr)
             k1 == [k EXCEPT !.port = x]
             k2 == [k1 EXCEPT !.peer = saddr]
             d1 == [d EXCEPT !.raddr = saddr]
             d2 == Connected(d1)
  <2>2. udp' = Connects(u3, x)
    BY <1>3 DEF D!Named, SetPeer, SetPort, SetRaddr, Connects
  <2>3. k2 \in KernelRec /\ k2.port = x /\ k2.peer = saddr /\ k2.queue = k.queue
    BY <1>3 DEF KernelRec
  <2>4. d2 \in LibraryRec /\ d2.connected /\ d2.raddr = saddr /\ d2.binded = d.binded /\ d2.laddr = d.laddr
    BY <1>3 DEF LibraryRec, Connected
  <2>5. u1 = Udp(x, k1, d, udp.sent, udp.last)
    BY <2>1, SetPortIs
  <2> HIDE DEF u1, k1
  <2>6. u2 = Udp(x, k2, d, udp.sent, udp.last)
    BY <2>5, SetPeerIs
  <2> HIDE DEF u2, k2
  <2>7. u3 = Udp(x, k2, d1, udp.sent, udp.last)
    BY <2>6, SetRaddrIs
  <2> HIDE DEF u3, d1
  <2>8. udp' = Udp(x, k2, d2, udp.sent, udp.last)
    BY <2>2, <2>7, ConnectsIs
  <2> HIDE DEF d2
  <2>9. Agree(x, k2, d2) /\ Queued(x, k2.queue, udp.sent)
    BY <1>3, <2>1, <2>3, <2>4 DEF Agree, DatagramData
  <2> QED BY <1>1, <2>3, <2>4, <2>8, <2>9, UdpKeeps
<1> QED BY <1>2, <1>3 DEF D!Connect

\* A datagram is sent: it may arrive from now on.
LEMMA PostedKeeps ==
  ASSUME DatagramData, DatagramInv, NEW x \in Sock, NEW to \in Sock, NEW size \in Sizes,
         D!Posted(x, to, size)
  PROVE  DatagramInv'
<1> DEFINE k == udp.k[x]
           d == udp.d[x]
           dgram == [from |-> x, to |-> to, size |-> size]
           sent2 == udp.sent \cup {dgram}
           k1 == [k EXCEPT !.port = x]
           u1 == SetPort(udp, x, x)
<1>1. /\ udp = Udp(x, k, d, udp.sent, udp.last)
      /\ k \in KernelRec /\ d \in LibraryRec /\ udp.sent \in SUBSET Dgram
      /\ udp.last \in Receipt \cup {NULL}
      /\ Agree(x, k, d) /\ Queued(x, k.queue, udp.sent) /\ Got(udp.last, udp.sent)
  BY UdpIs
<1>2. dgram \in Dgram
  BY DEF Dgram
<1> HIDE DEF dgram, k, d
<1>3. sent2 \in SUBSET Dgram /\ udp.sent \subseteq sent2
  BY <1>1, <1>2
<1>4. udp' = SetSent(u1, sent2)
  <2>1. udp' = [u1 EXCEPT !.sent = u1.sent \cup {dgram}]
    BY DEF D!Posted, D!Named, SetPort, dgram
  <2>2. u1.sent = udp.sent
    BY <1>1 DEF SetPort, Udp
  <2> QED BY <2>1, <2>2 DEF SetSent
<1>5. k1 \in KernelRec /\ k1.port = x /\ k1.peer = k.peer /\ k1.queue = k.queue
  BY <1>1 DEF KernelRec
<1> HIDE DEF sent2
<1>6. u1 = Udp(x, k1, d, udp.sent, udp.last)
  BY <1>1, SetPortIs
<1> HIDE DEF u1, k1
<1>7. udp' = Udp(x, k1, d, sent2, udp.last)
  BY <1>4, <1>6, SetSentIs
<1>8. Agree(x, k1, d) /\ Queued(x, k1.queue, sent2)
  BY <1>1, <1>3, <1>5 DEF Agree, Queued
<1>9. Got(udp.last, sent2)
  BY <1>1, <1>3 DEF Got
<1> QED BY <1>1, <1>3, <1>5, <1>7, <1>8, <1>9, UdpKeeps

\* Sending to the peer, or to anybody.
LEMMA SendKeeps ==
  ASSUME DatagramData, DatagramInv, NEW x \in Sock, NEW size \in Sizes,
         D!Send(x, size) \/ \E saddr \in Sock \cup {Other} : D!SendTo(x, saddr, size)
  PROVE  DatagramInv'
<1>1. CASE D!Send(x, size)
  <2>1. udp.k[x].peer \in Sock
    BY <1>1, UdpIs DEF D!Send, Agree, KernelRec
  <2> QED BY <1>1, <2>1, PostedKeeps DEF D!Send
<1>2. CASE \E saddr \in Sock \cup {Other} : D!SendTo(x, saddr, size)
  BY <1>2, PostedKeeps DEF D!SendTo
<1> QED BY <1>1, <1>2

\* A datagram arrives, as often and as late as it likes.
LEMMA ArriveKeeps ==
  ASSUME DatagramData, DatagramInv, NEW dgram \in udp.sent, D!Arrive(dgram)
  PROVE  DatagramInv'
<1> DEFINE x == dgram.to
           k == udp.k[x]
           d == udp.d[x]
           q == Append(k.queue, dgram)
           k1 == [k EXCEPT !.queue = q]
<1>1. dgram \in Dgram /\ x \in Sock
  BY DEF DatagramInv, DatagramType, Dgram
<1>2. /\ udp = Udp(x, k, d, udp.sent, udp.last)
      /\ k \in KernelRec /\ d \in LibraryRec /\ udp.sent \in SUBSET Dgram
      /\ udp.last \in Receipt \cup {NULL}
      /\ Agree(x, k, d) /\ Queued(x, k.queue, udp.sent) /\ Got(udp.last, udp.sent)
  BY <1>1, UdpIs
<1>3. udp' = SetQueue(udp, x, q)
  BY DEF D!Arrive, SetQueue
<1>4. q \in Seq(Dgram) /\ Len(q) = Len(k.queue) + 1 /\ q[Len(q)] = dgram
      /\ \A i \in 1 .. Len(k.queue) : q[i] = k.queue[i]
  BY <1>1, <1>2 DEF KernelRec
<1>5. Queued(x, q, udp.sent)
  <2>1. Len(k.queue) \in Nat
    BY <1>2 DEF KernelRec
  <2> HIDE DEF q, k
  <2> QED BY <1>2, <1>4, <2>1 DEF Queued
<1> HIDE DEF q, k, d, x
<1>6. k1 \in KernelRec /\ k1.queue = q /\ k1.peer = k.peer /\ k1.port = k.port
  BY <1>2, <1>4 DEF KernelRec
<1>7. udp' = Udp(x, k1, d, udp.sent, udp.last)
  BY <1>1, <1>2, <1>3, SetQueueIs
<1> HIDE DEF k1
<1>8. Agree(x, k1, d) /\ Queued(x, k1.queue, udp.sent)
  BY <1>2, <1>5, <1>6 DEF Agree
<1> QED BY <1>1, <1>2, <1>6, <1>7, <1>8, UdpKeeps

\* A receive takes the first datagram of the queue, or as much of it as fits.
LEMMA ReceivedKeeps ==
  ASSUME DatagramData, DatagramInv, NEW x \in Sock, NEW cap \in Capacity, NEW saddr \in BOOLEAN,
         D!Received(x, cap, saddr)
  PROVE  DatagramInv'
<1> DEFINE k == udp.k[x]
           d == udp.d[x]
           dgram == Head(k.queue)
           q == Tail(k.queue)
           k1 == [k EXCEPT !.queue = q]
           from == IF saddr THEN dgram.from ELSE NULL
           size == IF dgram.size < cap THEN dgram.size ELSE cap
           last2 == [by |-> x, cap |-> cap, from |-> from, size |-> size]
           u1 == SetQueue(udp, x, q)
<1>1. /\ udp = Udp(x, k, d, udp.sent, udp.last)
      /\ k \in KernelRec /\ d \in LibraryRec /\ udp.sent \in SUBSET Dgram
      /\ Agree(x, k, d) /\ Queued(x, k.queue, udp.sent) /\ k.queue # << >>
  BY UdpIs DEF D!Received
<1>2. udp' = SetLast(u1, last2)
  BY DEF D!Received, SetQueue, SetLast
<1>3. k.queue \in Seq(Dgram) /\ 1 \in 1 .. Len(k.queue) /\ dgram = k.queue[1]
      /\ q \in Seq(Dgram) /\ Len(q) = Len(k.queue) - 1 /\ \A i \in 1 .. Len(q) : q[i] = k.queue[i + 1]
  BY <1>1 DEF KernelRec
<1>4. dgram \in udp.sent /\ dgram.to = x /\ dgram \in Dgram
  <2> HIDE DEF dgram
  <2> QED BY <1>1, <1>3 DEF Queued
<1>5. Queued(x, q, udp.sent)
  <2> HIDE DEF q, k
  <2> QED BY <1>1, <1>3 DEF Queued
<1> HIDE DEF dgram, q
<1>6. dgram.from \in Sock /\ dgram.size \in Int /\ cap \in Int
  BY <1>4 DEF Dgram, DatagramData
<1>7. last2 \in Receipt
  BY <1>6 DEF Receipt
<1>8. Got(last2, udp.sent)
  <2>1. last2.by = x /\ last2.cap = cap /\ last2.from \in {NULL, dgram.from}
        /\ (last2.size = dgram.size \/ (last2.size = cap /\ cap < dgram.size))
    BY <1>6
  <2> HIDE DEF last2
  <2> QED BY <1>4, <2>1 DEF Got
<1> HIDE DEF last2, k, d
<1>9. k1 \in KernelRec /\ k1.queue = q /\ k1.peer = k.peer /\ k1.port = k.port
  BY <1>1, <1>3 DEF KernelRec
<1>10. u1 = Udp(x, k1, d, udp.sent, udp.last)
  BY <1>1, SetQueueIs
<1> HIDE DEF u1, k1
<1>11. udp' = Udp(x, k1, d, udp.sent, last2)
  BY <1>2, <1>10, SetSentIs
<1>12. Agree(x, k1, d) /\ Queued(x, k1.queue, udp.sent)
  BY <1>1, <1>5, <1>9 DEF Agree
<1> QED BY <1>1, <1>7, <1>8, <1>9, <1>11, <1>12, UdpKeeps

\* At first no socket is bound, connected or has received anything.
LEMMA DatagramInit == DatagramData /\ D!Init => DatagramInv
<1> SUFFICES ASSUME DatagramData, D!Init PROVE DatagramInv
  OBVIOUS
<1>1. udp.sent = {} /\ udp.last = NULL /\ DatagramType
  BY DEF D!Init, DatagramType, KernelRec, LibraryRec
<1>2. \A x \in Sock : Agree(x, udp.k[x], udp.d[x]) /\ Queued(x, udp.k[x].queue, udp.sent)
  BY DEF D!Init, Agree, Queued
<1> QED BY <1>1, <1>2 DEF DatagramInv, Got

\* What the library says of a socket is what the kernel has, for any number of
\* sockets, of datagrams under way and of sizes: whatever fails, a socket is
\* connected to whom the library says, its own address is right while it has a
\* port, and a receive gives one datagram that was sent to it.
THEOREM DatagramRecordsAgree ==
  ASSUME DatagramData
  PROVE  D!Spec => []D!DatagramSound
<1>1. D!Init => DatagramInv
  BY DatagramInit
<1>2. DatagramInv /\ [D!Next]_(D!vars) => DatagramInv'
  <2>1. ASSUME DatagramInv, NEW x \in Sock,
               \/ \E saddr \in {NULL, x, Other} : D!Bind(x, saddr)
               \/ \E saddr \in Sock \cup {Other} : D!Connect(x, saddr)
               \/ udp' \in D!Disconnect(udp, x)
               \/ \E size \in Sizes : D!Send(x, size) \/ \E saddr \in Sock \cup {Other} : D!SendTo(x, saddr, size)
               \/ \E cap \in Capacity : D!Recv(x, cap) \/ D!RecvFrom(x, cap)
        PROVE  DatagramInv'
    BY <2>1, BindKeeps, UdpConnectKeeps, SendKeeps, ReceivedKeeps DEF D!Recv, D!RecvFrom
  <2>2. ASSUME DatagramInv, NEW dgram \in udp.sent, D!Arrive(dgram) PROVE DatagramInv'
    BY <2>2, ArriveKeeps
  <2>3. DatagramInv /\ UNCHANGED D!vars => DatagramInv'
    BY DEF D!vars, DatagramInv, DatagramType
  <2> QED BY <2>1, <2>2, <2>3 DEF D!Next
<1>3. DatagramInv => D!DatagramSound
  <2>1. ASSUME DatagramInv, NEW x \in Sock
        PROVE  /\ udp.d[x].connected <=> udp.k[x].peer # NULL
               /\ D!GetRemoteAddr(x) = udp.k[x].peer
               /\ udp.d[x].binded /\ udp.k[x].port # NULL => D!GetLocalAddr(x) = udp.k[x].port
    BY <2>1 DEF DatagramInv, Agree, D!GetRemoteAddr, D!GetLocalAddr
  <2> QED BY <2>1 DEF DatagramInv, Got, D!DatagramSound
<1> QED BY <1>1, <1>2, <1>3, PTL DEF D!Spec

------------------------------------------------------------------------------
(* Stream.tla, for any messages, reads and sizes of the buffer and the     *)
(* wire: what a socket's reader has heard, what OpenSSL has decrypted and  *)
(* what is on the wire are the bytes the writer sent, in their order.      *)
CONSTANTS Wants, RbufLen, RecordLen, WireRoom, MaxByte
VARIABLE line

B == INSTANCE Stream WITH st <- line

WriterRec == [pc : {"check", "send", "wants"}, all : Seq(Nat), left : Seq(Nat), byte : BOOLEAN,
              same : BOOLEAN]
ReaderRec == [pc : {"check", "recv", "wants"}, size : Nat, left : Nat, had : Nat, byte : BOOLEAN]
Results   == {"Ok", "Timeout", "PollFailed", "ReceiveFailed"}
ResultRec == [res : Results, byte : BOOLEAN, want : Nat, heard : Int, unheard : Nat]
Session == [out : Seq(Nat), done : Nat, swapped : SUBSET Nat]
LineState ==
  [tls : BOOLEAN, wire : Seq(Seq(Nat)), pending : Seq(Nat), ssl : Session, next : Nat,
   acked : SUBSET Nat, got : Seq(Nat), down : BOOLEAN, gone : BOOLEAN,
   w : WriterRec \cup {NULL}, r : ReaderRec \cup {NULL}, last : ResultRec \cup {NULL}]

\* A read asks for a byte or more and a write hands over one or more (for none, both
\* return at once); NULL is none of the records.
StreamData ==
  /\ Wants \subseteq Nat \ {0} /\ Sizes \subseteq Nat \ {0}
  /\ RbufLen \in Nat /\ RecordLen \in Nat \ {0}
  /\ NULL \notin WriterRec /\ NULL \notin ReaderRec /\ NULL \notin ResultRec

\* Bytes in the order they were handed over; none as new as n; all newer than
\* those of another sequence.
Rising(q)    == \A i, j \in DOMAIN q : i < j => q[i] < q[j]
Under(q, n)  == \A x \in ToSet(q) : x < n
Beyond(q, p) == \A x \in ToSet(q), y \in ToSet(p) : y < x

\* The message in hand of a TLS socket: what has left of it is among the bytes c that
\* were sent, or swapped, and the rest comes after them.
InHand(tls, c, n, ssl) ==
  /\ Rising(ssl.out) /\ Under(ssl.out, n)
  /\ Beyond(B!From(ssl.out, ssl.done), c)
  /\ ToSet(B!Upto(ssl.out, ssl.done)) \subseteq ToSet(c) \cup ssl.swapped
  /\ IF ssl.out = << >> THEN ssl.done = 0 ELSE tls /\ ssl.done < Len(ssl.out)
  /\ ~tls => ssl.swapped = {}

\* The writer w has that message, or one that comes after everything sent; on a plain
\* socket, what it still has comes after what was sent of it.
Holds(tls, c, n, ssl, w) ==
  w # NULL => /\ w.all # << >> /\ Rising(w.all) /\ Under(w.all, n)
              /\ tls => w.all = ssl.out \/ (Beyond(w.all, c) /\ Beyond(w.all, ssl.out))
              /\ ~tls => /\ Rising(w.left) /\ Under(w.left, n) /\ Beyond(w.left, c)
                         /\ ToSet(w.all) \subseteq ToSet(c) \cup ToSet(w.left)

\* A write that returned left its own with the bytes sent, but for the swapped; and
\* where none are, a TLS socket has sent no others but of the message in hand.
Settled(tls, c, ssl, acked) ==
  /\ acked \ ssl.swapped \subseteq ToSet(c)
  /\ tls /\ ssl.swapped = {} => ToSet(c) = acked \cup ToSet(B!Upto(ssl.out, ssl.done))

\* The bytes c that have left the writer, n the next one.
Sent(tls, c, n, ssl, w, acked) ==
  /\ Rising(c) /\ Under(c, n)
  /\ InHand(tls, c, n, ssl) /\ Holds(tls, c, n, ssl, w) /\ Settled(tls, c, ssl, acked)

\* The packets of a plain socket are single bytes.
Singles(tls, wire, pending) == ~tls => Ones(wire) /\ pending = << >>

\* What the reader r has heard and what it still wants is what it asked for.
Asked(r, got) == r # NULL => r.left > 0 /\ r.size = r.left + (Len(got) - r.had)
Told(last)    == last # NULL => (last.res = "Ok" <=> last.heard = last.want)

Carries(s) == (s.got \o s.pending) \o FlattenSeq(s.wire)

\* The inductive invariant, of a state s.
Sound(s) ==
  /\ s \in LineState
  /\ Sent(s.tls, Carries(s), s.next, s.ssl, s.w, s.acked)
  /\ Singles(s.tls, s.wire, s.pending)
  /\ Asked(s.r, s.got)
  /\ Told(s.last)

\* Two sequences in order, one beyond the other, are in order together.
LEMMA RisingConcat ==
  ASSUME NEW p \in Seq(Nat), NEW q \in Seq(Nat), Rising(p), Rising(q), Beyond(q, p)
  PROVE  Rising(p \o q)
<1> DEFINE u == p \o q
           n == Len(p)
           m == Len(q)
<1>1. /\ n \in Nat /\ m \in Nat /\ DOMAIN p = 1 .. n /\ DOMAIN q = 1 .. m
      /\ DOMAIN u = 1 .. n + m
      /\ \A i \in 1 .. n + m : u[i] = IF i <= n THEN p[i] ELSE q[i - n]
  <2>1. /\ u \in Seq(Nat) /\ Len(u) = n + m
        /\ \A i \in 1 .. n + m : u[i] = IF i <= n THEN p[i] ELSE q[i - n]
    BY ConcatProperties
  <2> QED BY <2>1, LenProperties
<1>2. \A x \in ToSet(q), y \in ToSet(p) : y < x
  BY DEF Beyond
<1>3. /\ \A i \in 1 .. n : p[i] \in ToSet(p)
      /\ \A i \in 1 .. m : q[i] \in ToSet(q)
  BY <1>1 DEF ToSet
<1>4. /\ \A i, j \in 1 .. n : i < j => p[i] < p[j]
      /\ \A i, j \in 1 .. m : i < j => q[i] < q[j]
  BY <1>1 DEF Rising
<1> HIDE DEF u, n, m
<1>5. ASSUME NEW i \in 1 .. n + m, NEW j \in 1 .. n + m, i < j
      PROVE  u[i] < u[j]
  <2>1. CASE j <= n
    <3>1. i \in 1 .. n /\ j \in 1 .. n
      BY <1>1, <1>5, <2>1
    <3> QED BY <1>1, <1>4, <1>5, <3>1
  <2>2. CASE i <= n /\ ~(j <= n)
    <3>1. i \in 1 .. n /\ j - n \in 1 .. m
      BY <1>1, <2>2
    <3> QED BY <1>1, <1>2, <1>3, <2>2, <3>1
  <2>3. CASE ~(i <= n)
    <3>1. i - n \in 1 .. m /\ j - n \in 1 .. m /\ i - n < j - n /\ ~(j <= n)
      BY <1>1, <1>5, <2>3
    <3> QED BY <1>1, <1>4, <2>3, <3>1
  <2> QED BY <1>1, <1>5, <2>1, <2>2, <2>3
<1> QED BY <1>1, <1>5 DEF Rising, u

\* A sequence in order, cut in two.
LEMMA RisingCut ==
  ASSUME NEW a \in Seq(Nat), NEW b \in Seq(Nat), Rising(a \o b)
  PROVE  Rising(a) /\ Rising(b) /\ Beyond(b, a)
<1> DEFINE u == a \o b
           n == Len(a)
           m == Len(b)
<1>1. /\ n \in Nat /\ m \in Nat /\ DOMAIN a = 1 .. n /\ DOMAIN b = 1 .. m
      /\ DOMAIN u = 1 .. n + m
      /\ \A i \in 1 .. n + m : u[i] = IF i <= n THEN a[i] ELSE b[i - n]
  <2>1. /\ u \in Seq(Nat) /\ Len(u) = n + m
        /\ \A i \in 1 .. n + m : u[i] = IF i <= n THEN a[i] ELSE b[i - n]
    BY ConcatProperties
  <2> QED BY <2>1, LenProperties
<1>2. \A i, j \in 1 .. n + m : i < j => u[i] < u[j]
  BY <1>1 DEF Rising
<1> HIDE DEF u, n, m
<1>3. \A i \in 1 .. n : i \in 1 .. n + m /\ u[i] = a[i]
  BY <1>1
<1>4. ASSUME NEW i \in 1 .. m PROVE n + i \in 1 .. n + m /\ u[n + i] = b[i]
  <2>1. n + i \in 1 .. n + m /\ ~(n + i <= n) /\ (n + i) - n = i
    BY <1>1
  <2> QED BY <1>1, <2>1
<1>5. Rising(a)
  BY <1>1, <1>2, <1>3 DEF Rising
<1>6. Rising(b)
  <2> SUFFICES ASSUME NEW i \in 1 .. m, NEW j \in 1 .. m, i < j PROVE b[i] < b[j]
    BY <1>1 DEF Rising
  <2>1. n + i < n + j
    BY <1>1
  <2> QED BY <1>2, <1>4, <2>1
<1>7. Beyond(b, a)
  <2> SUFFICES ASSUME NEW i \in 1 .. m, NEW j \in 1 .. n PROVE a[j] < b[i]
    BY <1>1 DEF Beyond, ToSet
  <2>1. j < n + i
    BY <1>1
  <2> QED BY <1>2, <1>3, <1>4, <2>1
<1> QED BY <1>5, <1>6, <1>7

\* The first n elements of a sequence and the rest.
IsCut(s, n, S) ==
  /\ B!Upto(s, n) \in Seq(S) /\ B!From(s, n) \in Seq(S)
  /\ Len(B!Upto(s, n)) = (IF n < Len(s) THEN n ELSE Len(s))
  /\ Len(B!From(s, n)) = (IF n < Len(s) THEN Len(s) - n ELSE 0)
  /\ B!Upto(s, n) \o B!From(s, n) = s

\* They are the sequence together.
LEMMA UptoAndFrom ==
  ASSUME NEW S, NEW s \in Seq(S), NEW n \in Nat
  PROVE  IsCut(s, n, S)
<1> DEFINE m == IF n < Len(s) THEN n ELSE Len(s)
           a == B!Upto(s, n)
           b == B!From(s, n)
           k == Len(s)
<1>1. k \in Nat /\ m \in 0 .. k /\ m \in Nat /\ \A i \in 1 .. k : s[i] \in S
  BY LenProperties
<1>2. a \in Seq(S) /\ Len(a) = m /\ \A i \in 1 .. m : a[i] = s[i]
  <2>1. /\ SubSeq(s, 1, m) \in Seq(S) /\ Len(SubSeq(s, 1, m)) = m
        /\ \A i \in 1 .. m : SubSeq(s, 1, m)[i] = s[i]
    BY <1>1, Cut
  <2> HIDE DEF m
  <2>2. a = SubSeq(s, 1, m)
    BY DEF B!Upto, m
  <2> QED BY <2>1, <2>2
<1>3. b \in Seq(S) /\ Len(b) = k - m /\ \A i \in 1 .. k - m : b[i] = s[m + i]
  <2>1. \A i \in n + 1 .. k : s[i] \in S
    BY <1>1
  <2>2. n + 1 \in Int /\ k \in Int
    BY <1>1
  <2>3. /\ b \in Seq(S) /\ Len(b) = IF n + 1 <= k THEN k - (n + 1) + 1 ELSE 0
        /\ \A i \in 1 .. k - (n + 1) + 1 : b[i] = s[(n + 1) + i - 1]
    BY <2>1, <2>2, SubSeqProperties DEF B!From
  <2> HIDE DEF b, k
  <2>4. CASE n < k
    <3>1. m = n /\ n + 1 <= k /\ k - (n + 1) + 1 = k - m
      BY <1>1, <2>4 DEF k
    <3>2. ASSUME NEW i \in 1 .. k - m PROVE b[i] = s[m + i]
      <4>1. (n + 1) + i - 1 = m + i
        BY <1>1, <3>1
      <4> QED BY <2>3, <3>1, <4>1
    <3> QED BY <2>3, <3>1, <3>2
  <2>5. CASE ~(n < k)
    <3>1. m = k /\ ~(n + 1 <= k) /\ k - m = 0
      BY <1>1, <2>5 DEF k
    <3> QED BY <2>3, <3>1
  <2> QED BY <2>4, <2>5
<1> HIDE DEF a, b, m
<1>4. a \o b = s
  <2>1. /\ a \o b \in Seq(S) /\ Len(a \o b) = Len(a) + Len(b)
        /\ \A i \in 1 .. Len(a) + Len(b) : (a \o b)[i] = IF i <= Len(a) THEN a[i] ELSE b[i - Len(a)]
    BY <1>2, <1>3, ConcatProperties
  <2> DEFINE u == a \o b
  <2> HIDE DEF u, k
  <2>2. Len(u) = k
    BY <1>1, <1>2, <1>3, <2>1 DEF u
  <2>3. ASSUME NEW i \in 1 .. k PROVE u[i] = s[i]
    <3>1. i \in 1 .. Len(a) + Len(b)
      BY <1>1, <1>2, <1>3
    <3>2. CASE i <= m
      <4>1. i \in 1 .. m
        BY <1>1, <3>2
      <4>2. u[i] = a[i]
        BY <1>2, <2>1, <3>1, <3>2 DEF u
      <4> QED BY <1>2, <4>1, <4>2
    <3>3. CASE ~(i <= m)
      <4>1. i - m \in 1 .. k - m /\ m + (i - m) = i
        BY <1>1, <3>3
      <4>2. u[i] = b[i - m]
        BY <1>2, <2>1, <3>1, <3>3 DEF u
      <4> QED BY <1>3, <4>1, <4>2
    <3> QED BY <3>2, <3>3
  <2>4. u \in Seq(S)
    BY <2>1 DEF u
  <2>5. u = s
    BY <2>2, <2>3, <2>4, SeqEqual DEF k
  <2> QED BY <2>5 DEF u
<1>5. Len(a) = (IF n < Len(s) THEN n ELSE Len(s)) /\ Len(b) = (IF n < Len(s) THEN Len(s) - n ELSE 0)
  BY <1>1, <1>2, <1>3 DEF m, k
<1> QED BY <1>2, <1>3, <1>4, <1>5 DEF IsCut, a, b

\* The elements of both: those up to n and those from there on.
LEMMA CutElements ==
  ASSUME NEW s \in Seq(Nat), NEW n \in Nat
  PROVE  /\ \A x : x \in ToSet(B!Upto(s, n)) <=> \E i \in 1 .. Len(s) : i <= n /\ x = s[i]
         /\ \A x : x \in ToSet(B!From(s, n)) <=> \E i \in 1 .. Len(s) : n < i /\ x = s[i]
         /\ \A i \in 1 .. Len(s) - n : B!From(s, n)[i] = s[n + i]
<1> DEFINE a == B!Upto(s, n)
           b == B!From(s, n)
           k == Len(s)
           u == a \o b
<1>1. IsCut(s, n, Nat) /\ k \in Nat
  BY UptoAndFrom, LenProperties
<1>2. a \in Seq(Nat) /\ b \in Seq(Nat) /\ u = s
      /\ Len(a) = (IF n < k THEN n ELSE k) /\ Len(b) = (IF n < k THEN k - n ELSE 0)
  BY <1>1 DEF IsCut
<1>3. DOMAIN a = 1 .. Len(a) /\ DOMAIN b = 1 .. Len(b)
  BY <1>2, LenProperties
<1>4. \A i \in 1 .. Len(a) + Len(b) : u[i] = IF i <= Len(a) THEN a[i] ELSE b[i - Len(a)]
  BY <1>2, ConcatProperties
<1> HIDE DEF a, b, k, u
<1>5. \A i \in 1 .. k : i <= n => i \in DOMAIN a /\ s[i] = a[i]
  <2> SUFFICES ASSUME NEW i \in 1 .. k, i <= n PROVE i \in DOMAIN a /\ s[i] = a[i]
    OBVIOUS
  <2>1. i \in 1 .. Len(a) /\ i <= Len(a) /\ i \in 1 .. Len(a) + Len(b)
    BY <1>1, <1>2
  <2> QED BY <1>2, <1>3, <1>4, <2>1
<1>6. \A i \in 1 .. k : n < i => i - n \in DOMAIN b /\ s[i] = b[i - n]
  <2> SUFFICES ASSUME NEW i \in 1 .. k, n < i PROVE i - n \in DOMAIN b /\ s[i] = b[i - n]
    OBVIOUS
  <2>1. n < k /\ Len(a) = n /\ Len(b) = k - n
    BY <1>1, <1>2
  <2>2. i - n \in 1 .. Len(b) /\ ~(i <= Len(a)) /\ i \in 1 .. Len(a) + Len(b)
    BY <1>1, <2>1
  <2> QED BY <1>2, <1>3, <1>4, <2>1, <2>2
<1>7. \A i \in DOMAIN a : i \in 1 .. k /\ i <= n
  BY <1>1, <1>2, <1>3
<1>8. \A i \in DOMAIN b : n + i \in 1 .. k /\ n < n + i /\ (n + i) - n = i
  BY <1>1, <1>2, <1>3
<1>9. \A x : x \in ToSet(a) <=> \E i \in 1 .. k : i <= n /\ x = s[i]
  BY <1>5, <1>7 DEF ToSet
<1>10. \A x : x \in ToSet(b) <=> \E i \in 1 .. k : n < i /\ x = s[i]
  BY <1>6, <1>8 DEF ToSet
<1>11. \A i \in 1 .. k - n : b[i] = s[n + i]
  <2> SUFFICES ASSUME NEW i \in 1 .. k - n PROVE b[i] = s[n + i]
    OBVIOUS
  <2>1. n + i \in 1 .. k /\ n < n + i /\ (n + i) - n = i
    BY <1>1
  <2> QED BY <1>6, <2>1
<1> QED BY <1>9, <1>10, <1>11 DEF a, b, k

\* What the wire carries, of one packet or one byte each.
LEMMA SinglyFlattened ==
  ASSUME NEW s \in Seq(Nat)
  PROVE  /\ B!Singly(s) \in Seq(Seq(Nat)) /\ Ones(B!Singly(s))
         /\ FlattenSeq(B!Singly(s)) = s
<1> DEFINE u == B!Singly(s)
           n == Len(s)
<1>1. n \in Nat /\ DOMAIN s = 1 .. n /\ \A i \in 1 .. n : s[i] \in Nat
  BY LenProperties
<1>2. u = [i \in 1 .. n |-> << s[i] >>]
  BY <1>1 DEF B!Singly
<1> HIDE DEF n
<1>3. ASSUME NEW i \in 1 .. n PROVE << s[i] >> \in Seq(Nat) /\ Len(<< s[i] >>) = 1 /\ << s[i] >>[1] = s[i]
  BY <1>1
<1> HIDE DEF u
<1>4. u \in Seq(Seq(Nat)) /\ Len(u) = n /\ DOMAIN u = 1 .. n
  BY <1>1, <1>2, <1>3
<1>5. \A i \in 1 .. n : Len(u[i]) = 1 /\ u[i][1] = s[i]
  BY <1>2, <1>3
<1>6. Ones(u)
  BY <1>4, <1>5 DEF Ones
<1>7. FlattenSeq(u) \in Seq(Nat) /\ AreThose(FlattenSeq(u), u)
  BY <1>4, <1>6, FlattenSeqs DEF Flattens
<1>8. FlattenSeq(u) = s
  <2> DEFINE f == FlattenSeq(u)
  <2>1. f \in Seq(Nat) /\ Len(f) = n /\ \A i \in 1 .. n : f[i] = u[i][1]
    BY <1>4, <1>7 DEF AreThose
  <2> HIDE DEF f
  <2>2. f = s
    BY <1>5, <2>1, SeqEqual DEF n
  <2> QED BY <2>2 DEF f
<1> QED BY <1>4, <1>6, <1>8 DEF u

\* The instance's copies of the library's operators are the library's.
LEMMA SameFlatten == \A s : B!FlattenSeq(s) = FlattenSeq(s)
BY DEF B!FlattenSeq, FlattenSeq

\* Likewise.
LEMMA SameRange == \A s : B!Range(s) = ToSet(s)
BY DEF B!Range, ToSet

\* The empty sequence.
LEMMA NothingRises ==
  /\ << >> \in Seq(Nat) /\ Rising(<< >>) /\ ToSet(<< >>) = {}
  /\ \A n : Under(<< >>, n)
  /\ \A c : Beyond(<< >>, c)
<1>1. DOMAIN << >> = {} /\ << >> \in Seq(Nat)
  OBVIOUS
<1>2. ToSet(<< >>) = {}
  BY <1>1 DEF ToSet
<1> QED BY <1>1, <1>2 DEF Rising, Under, Beyond

\* The writer has returned.
LEMMA SentReturned ==
  ASSUME NEW tls, NEW c, NEW n, NEW ssl, NEW w, NEW acked, Sent(tls, c, n, ssl, w, acked)
  PROVE  Sent(tls, c, n, ssl, NULL, acked)
BY DEF Sent, Holds

\* The writer goes on with what it has.
LEMMA SentGoesOn ==
  ASSUME NEW tls, NEW c, NEW n, NEW ssl, NEW w, NEW acked, Sent(tls, c, n, ssl, w, acked),
         w # NULL, NEW w2, w2.all = w.all, w2.left = w.left
  PROVE  Sent(tls, c, n, ssl, w2, acked)
BY DEF Sent, Holds

\* A message tried again is the one in hand.
LEMMA SentAgain ==
  ASSUME NEW tls, NEW c, NEW n, NEW ssl, NEW w, NEW acked, Sent(tls, c, n, ssl, w, acked),
         ssl.out # << >>, NEW w2, w2.all = ssl.out
  PROVE  Sent(tls, c, n, ssl, w2, acked)
<1>1. tls /\ Rising(ssl.out) /\ Under(ssl.out, n)
  BY DEF Sent, InHand
<1>2. Holds(tls, c, n, ssl, w2)
  BY <1>1 DEF Holds
<1> QED BY <1>2 DEF Sent

\* A new message is as long as it was asked to be, of the next bytes.
LEMMA NewMessage ==
  ASSUME NEW n \in Nat, NEW k \in Nat, NEW all, all = [i \in 1 .. k |-> n + i - 1]
  PROVE  /\ all \in Seq(Nat) /\ Rising(all) /\ Under(all, n + k)
         /\ \A x \in ToSet(all) : n <= x
<1>1. ASSUME NEW i \in 1 .. k PROVE n + i - 1 \in Nat /\ n <= n + i - 1 /\ n + i - 1 < n + k
  OBVIOUS
<1>2. all \in Seq(Nat) /\ DOMAIN all = 1 .. k /\ \A i \in 1 .. k : all[i] = n + i - 1
  BY <1>1
<1>3. Rising(all)
  <2> SUFFICES ASSUME NEW i \in 1 .. k, NEW j \in 1 .. k, i < j PROVE all[i] < all[j]
    BY <1>2 DEF Rising
  <2>1. n + i - 1 < n + j - 1
    OBVIOUS
  <2> QED BY <1>2, <2>1
<1>4. \A x \in ToSet(all) : n <= x /\ x < n + k
  BY <1>1, <1>2 DEF ToSet
<1> QED BY <1>2, <1>3, <1>4 DEF Under

\* What a sequence of numbers has.
LEMMA ElementsOf ==
  ASSUME NEW s \in Seq(Nat)
  PROVE  \A x \in ToSet(s) : x \in Nat
<1>1. DOMAIN s = 1 .. Len(s) /\ \A i \in 1 .. Len(s) : s[i] \in Nat
  BY LenProperties
<1> QED BY <1>1 DEF ToSet

\* A number under n is under a later one.
LEMMA UnderMore ==
  ASSUME NEW q \in Seq(Nat), NEW n \in Nat, NEW k \in Nat, Under(q, n)
  PROVE  Under(q, n + k)
<1>1. \A x \in ToSet(q) : x \in Nat /\ x < n
  BY ElementsOf DEF Under
<1> QED BY <1>1 DEF Under

\* It is the last one then: the writer has it, or gave it up at once.
LEMMA SentNew ==
  ASSUME NEW tls, NEW c \in Seq(Nat), NEW n \in Nat, NEW ssl \in Session, NEW w, NEW acked,
         Sent(tls, c, n, ssl, w, acked),
         NEW k \in Nat \ {0}, NEW all, all = [i \in 1 .. k |-> n + i - 1],
         NEW w2, w2 # NULL => w2.all = all /\ w2.left = all
  PROVE  Sent(tls, c, n + k, ssl, w2, acked)
<1>1. all \in Seq(Nat) /\ Rising(all) /\ Under(all, n + k) /\ \A x \in ToSet(all) : n <= x
  BY NewMessage
<1>2. all # << >>
  <2>1. 1 \in DOMAIN all
    OBVIOUS
  <2>2. DOMAIN << >> = {}
    OBVIOUS
  <2> QED BY <2>1, <2>2
<1>3. Under(c, n) /\ Under(ssl.out, n) /\ ssl.out \in Seq(Nat)
  BY DEF Sent, InHand, Session
<1>4. Under(c, n + k) /\ Under(ssl.out, n + k)
  BY <1>3, UnderMore
<1>5. ASSUME NEW q \in Seq(Nat), Under(q, n) PROVE Beyond(all, q)
  <2> SUFFICES ASSUME NEW x \in ToSet(all), NEW y \in ToSet(q) PROVE y < x
    BY DEF Beyond
  <2>1. y < n /\ n <= x /\ x \in Nat /\ y \in Nat
    BY <1>1, <1>5, ElementsOf DEF Under
  <2> QED BY <2>1
<1>6. Beyond(all, c) /\ Beyond(all, ssl.out)
  BY <1>3, <1>5
<1>7. Holds(tls, c, n + k, ssl, w2)
  BY <1>1, <1>2, <1>6 DEF Holds
<1>8. InHand(tls, c, n + k, ssl)
  BY <1>4 DEF Sent, InHand
<1> QED BY <1>4, <1>7, <1>8 DEF Sent

\* Nothing of an empty message.
LEMMA CutNothing ==
  ASSUME NEW n \in Nat
  PROVE  B!Upto(<< >>, n) = << >> /\ B!From(<< >>, n) = << >>
<1>1. << >> \in Seq(Nat) /\ Len(<< >>) = 0
  OBVIOUS
<1>2. IsCut(<< >>, n, Nat)
  BY <1>1, UptoAndFrom
<1>3. Len(B!Upto(<< >>, n)) = 0 /\ Len(B!From(<< >>, n)) = 0
  BY <1>1, <1>2 DEF IsCut
<1> QED BY <1>2, <1>3, EmptySeq DEF IsCut

\* A part of the message leaves the writer of a plain socket.
LEMMA SentPart ==
  ASSUME NEW c \in Seq(Nat), NEW n \in Nat, NEW ssl \in Session, NEW w, w # NULL, NEW acked,
         Sent(FALSE, c, n, ssl, w, acked),
         NEW a \in Seq(Nat), NEW b \in Seq(Nat), w.left = a \o b,
         NEW w2, w2.all = w.all, w2.left = b
  PROVE  Sent(FALSE, c \o a, n, ssl, w2, acked)
<1>0. /\ w.all # << >> /\ Rising(w.all) /\ Under(w.all, n)
      /\ Rising(w.left) /\ Under(w.left, n) /\ Beyond(w.left, c)
      /\ ToSet(w.all) \subseteq ToSet(c) \cup ToSet(w.left)
  BY DEF Sent, Holds
<1>1. Rising(a) /\ Rising(b) /\ Beyond(b, a)
  BY <1>0, RisingCut
<1>2. ToSet(w.left) = ToSet(a) \cup ToSet(b) /\ ToSet(c \o a) = ToSet(c) \cup ToSet(a)
  BY Concatenated
<1>3. Beyond(a, c) /\ Beyond(b, c \o a)
  BY <1>0, <1>1, <1>2 DEF Beyond
<1>4. Rising(c \o a)
  BY <1>1, <1>3, RisingConcat DEF Sent
<1>5. Under(c \o a, n) /\ Under(b, n)
  BY <1>0, <1>2 DEF Sent, Under
<1>6. ToSet(w.all) \subseteq ToSet(c \o a) \cup ToSet(b)
  BY <1>0, <1>2
<1>7. /\ ssl.out = << >> /\ ssl.done = 0 /\ ssl.swapped = {}
      /\ B!From(ssl.out, ssl.done) = << >> /\ B!Upto(ssl.out, ssl.done) = << >>
  BY CutNothing DEF Sent, InHand
<1> DEFINE d == c \o a
<1>8. InHand(FALSE, d, n, ssl)
  <2> HIDE DEF d
  <2> QED BY <1>7, NothingRises DEF InHand
<1>9. Holds(FALSE, d, n, ssl, w2)
  <2> HIDE DEF d
  <2> QED BY <1>0, <1>1, <1>3, <1>5, <1>6 DEF Holds, d
<1>10. Settled(FALSE, d, ssl, acked)
  BY <1>2 DEF Sent, Settled
<1> QED BY <1>4, <1>5, <1>8, <1>9, <1>10 DEF Sent

\* All of it has left.
LEMMA SentAll ==
  ASSUME NEW c, NEW n, NEW ssl, NEW w, w # NULL, NEW acked,
         Sent(FALSE, c, n, ssl, w, acked), w.left = << >>
  PROVE  Sent(FALSE, c, n, ssl, NULL, acked \cup ToSet(w.all))
<1>1. ToSet(w.all) \subseteq ToSet(c)
  BY NothingRises DEF Sent, Holds
<1>2. Settled(FALSE, c, ssl, acked \cup ToSet(w.all))
  BY <1>1 DEF Sent, Settled
<1>3. Holds(FALSE, c, n, ssl, NULL)
  BY DEF Holds
<1> QED BY <1>2, <1>3 DEF Sent

\* The record a TLS socket sends of the message out, m bytes of which have left.
Record(out, m) == B!Upto(B!From(out, m), RecordLen)

\* The bytes of a record, and how many they are.
LEMMA RecordIs ==
  ASSUME NEW out \in Seq(Nat), NEW m \in Nat, m < Len(out), RecordLen \in Nat \ {0}
  PROVE  /\ Record(out, m) \in Seq(Nat) /\ Len(Record(out, m)) \in Nat \ {0}
         /\ m + Len(Record(out, m)) <= Len(out)
         /\ \A x : x \in ToSet(Record(out, m)) <=>
              \E i \in 1 .. Len(out) : m < i /\ i <= m + Len(Record(out, m)) /\ x = out[i]
<1> DEFINE f == B!From(out, m)
           a == Record(out, m)
           k == Len(out)
<1>1. k \in Nat /\ IsCut(out, m, Nat)
  BY UptoAndFrom, LenProperties
<1>2. f \in Seq(Nat) /\ Len(f) = k - m
  BY <1>1 DEF IsCut
<1>3. \A i \in 1 .. k - m : f[i] = out[m + i]
  BY CutElements
<1> HIDE DEF f
<1>4. IsCut(f, RecordLen, Nat) /\ a = B!Upto(f, RecordLen)
  BY <1>2, UptoAndFrom DEF Record, f
<1>5. a \in Seq(Nat) /\ Len(a) = IF RecordLen < k - m THEN RecordLen ELSE k - m
  BY <1>2, <1>4 DEF IsCut
<1>6. \A x : x \in ToSet(a) <=> \E i \in 1 .. k - m : i <= RecordLen /\ x = f[i]
  BY <1>2, <1>4, CutElements
<1> HIDE DEF a, k
<1>7. m < k
  BY DEF k
<1>8. Len(a) \in Nat \ {0} /\ m + Len(a) <= k
  BY <1>1, <1>5, <1>7
<1>9. ASSUME NEW x
      PROVE  x \in ToSet(a) <=> \E i \in 1 .. k : m < i /\ i <= m + Len(a) /\ x = out[i]
  <2>1. ASSUME NEW i \in 1 .. k - m, i <= RecordLen, x = f[i]
        PROVE  m + i \in 1 .. k /\ m < m + i /\ m + i <= m + Len(a) /\ x = out[m + i]
    <3>1. m + i \in 1 .. k /\ m < m + i /\ m + i <= m + Len(a)
      BY <1>1, <1>5, <2>1
    <3> QED BY <1>3, <2>1, <3>1
  <2>2. ASSUME NEW i \in 1 .. k, m < i, i <= m + Len(a), x = out[i]
        PROVE  i - m \in 1 .. k - m /\ i - m <= RecordLen /\ x = f[i - m]
    <3>1. i - m \in 1 .. k - m /\ i - m <= RecordLen /\ m + (i - m) = i
      BY <1>1, <1>5, <1>7, <2>2
    <3> QED BY <1>3, <2>2, <3>1
  <2> QED BY <1>6, <2>1, <2>2
<1> QED BY <1>5, <1>8, <1>9 DEF a, k

\* Parts of a message are in order; from its start it is whole.
LEMMA PartsRise ==
  ASSUME NEW s \in Seq(Nat), NEW n \in Nat
  PROVE  /\ Rising(s) => Rising(B!Upto(s, n)) /\ Rising(B!From(s, n))
         /\ B!From(s, 0) = s
<1>1. IsCut(s, n, Nat) /\ IsCut(s, 0, Nat) /\ Len(s) \in Nat
  BY UptoAndFrom, LenProperties
<1>2. Rising(s) => Rising(B!Upto(s, n)) /\ Rising(B!From(s, n))
  <2> DEFINE a == B!Upto(s, n)
             b == B!From(s, n)
  <2>1. a \in Seq(Nat) /\ b \in Seq(Nat) /\ a \o b = s
    BY <1>1 DEF IsCut
  <2> HIDE DEF a, b
  <2>2. Rising(s) => Rising(a) /\ Rising(b)
    BY <2>1, RisingCut
  <2> QED BY <2>2 DEF a, b
<1>3. B!From(s, 0) = s
  <2> DEFINE a == B!Upto(s, 0)
             b == B!From(s, 0)
  <2>0. /\ a \in Seq(Nat) /\ b \in Seq(Nat) /\ a \o b = s
        /\ Len(a) = (IF 0 < Len(s) THEN 0 ELSE Len(s))
    BY <1>1 DEF IsCut
  <2>1. a \in Seq(Nat) /\ b \in Seq(Nat) /\ a \o b = s /\ Len(a) = 0
    <3> HIDE DEF a, b
    <3> QED BY <1>1, <2>0
  <2> HIDE DEF a, b
  <2>2. a = << >>
    BY <2>1, EmptySeq
  <2>3. << >> \o b = b
    BY <2>1, ConcatEmptySeq
  <2> QED BY <2>1, <2>2, <2>3 DEF b
<1> QED BY <1>2, <1>3

\* The bytes d sent, and what has left of the writer's message all: it is in hand until
\* all has left, and acknowledged then.
LEMMA Advanced ==
  ASSUME NEW n, NEW all \in Seq(Nat), all # << >>, Rising(all), Under(all, n),
         NEW gone \in Nat, gone <= Len(all), NEW swapped, NEW acked, NEW d,
         Rising(d), Under(d, n), Beyond(B!From(all, gone), d),
         ToSet(B!Upto(all, gone)) \subseteq ToSet(d) \cup swapped,
         acked \ swapped \subseteq ToSet(d),
         swapped = {} => ToSet(d) = acked \cup ToSet(B!Upto(all, gone)),
         NEW w, w.all = all,
         NEW sent, sent.out = all, sent.done = gone, sent.swapped = swapped,
         NEW ended, ended.out = << >>, ended.done = 0, ended.swapped = swapped
  PROVE  /\ gone < Len(all) => Sent(TRUE, d, n, sent, w, acked)
         /\ ~(gone < Len(all)) => Sent(TRUE, d, n, ended, NULL, acked \cup ToSet(all))
<1>1. ASSUME gone < Len(all) PROVE Sent(TRUE, d, n, sent, w, acked)
  <2>1. InHand(TRUE, d, n, sent)
    BY <1>1 DEF InHand
  <2>2. Holds(TRUE, d, n, sent, w)
    BY DEF Holds
  <2>3. Settled(TRUE, d, sent, acked)
    BY DEF Settled
  <2> QED BY <2>1, <2>2, <2>3 DEF Sent
<1>2. ASSUME ~(gone < Len(all)) PROVE Sent(TRUE, d, n, ended, NULL, acked \cup ToSet(all))
  <2>1. Len(all) \in Nat /\ gone = Len(all) /\ DOMAIN all = 1 .. Len(all)
    BY <1>2, LenProperties
  <2>2. ToSet(B!Upto(all, gone)) = ToSet(all)
    <3>1. \A x : x \in ToSet(B!Upto(all, gone)) <=> \E i \in 1 .. Len(all) : i <= gone /\ x = all[i]
      BY CutElements
    <3>2. \A i \in 1 .. Len(all) : i <= gone
      BY <2>1
    <3>3. \A x : x \in ToSet(all) <=> \E i \in 1 .. Len(all) : x = all[i]
      BY <2>1 DEF ToSet
    <3>4. \A x : x \in ToSet(B!Upto(all, gone)) <=> x \in ToSet(all)
      BY <3>1, <3>2, <3>3
    <3> QED BY <3>4
  <2>3. B!Upto(<< >>, 0) = << >> /\ B!From(<< >>, 0) = << >>
    BY CutNothing
  <2>4. InHand(TRUE, d, n, ended)
    BY <2>3, NothingRises DEF InHand
  <2>5. Settled(TRUE, d, ended, acked \cup ToSet(all))
    BY <2>2, <2>3, NothingRises DEF Settled
  <2>6. Holds(TRUE, d, n, ended, NULL)
    BY DEF Holds
  <2> QED BY <2>4, <2>5, <2>6 DEF Sent
<1> QED BY <1>1, <1>2

\* The bytes c sent and the record a of the message all behind them, k bytes gone.
IsNext(c, all, m, a, k) ==
  /\ Rising(c \o a) /\ ToSet(c \o a) = ToSet(c) \cup ToSet(a)
  /\ ToSet(a) \subseteq ToSet(all)
  /\ Beyond(B!From(all, k), c \o a)
  /\ ToSet(B!Upto(all, k)) = ToSet(B!Upto(all, m)) \cup ToSet(a)

\* The next record of the message the writer has leaves it.
LEMMA NextRecord ==
  ASSUME RecordLen \in Nat \ {0}, NEW c \in Seq(Nat), NEW all \in Seq(Nat), NEW m \in Nat,
         m < Len(all), Rising(c), Rising(all), Beyond(B!From(all, m), c),
         NEW a, a = Record(all, m), NEW k, k = m + Len(a)
  PROVE  IsNext(c, all, m, a, k)
<1> DEFINE N == Len(all)
<1>1. /\ a \in Seq(Nat) /\ Len(a) \in Nat \ {0} /\ k <= N
      /\ \A x : x \in ToSet(a) <=> \E i \in 1 .. N : m < i /\ i <= k /\ x = all[i]
  BY RecordIs
<1>2. Rising(a)
  <2> DEFINE f == B!From(all, m)
  <2>1. f \in Seq(Nat) /\ Rising(f)
    BY UptoAndFrom, PartsRise DEF IsCut
  <2> HIDE DEF f
  <2>2. Rising(B!Upto(f, RecordLen))
    BY <2>1, PartsRise
  <2> QED BY <2>2 DEF Record, f
<1>3. k \in Nat /\ N \in Nat /\ DOMAIN all = 1 .. N
  BY <1>1, LenProperties
<1>4. /\ \A x : x \in ToSet(B!From(all, m)) <=> \E i \in 1 .. N : m < i /\ x = all[i]
      /\ \A x : x \in ToSet(B!From(all, k)) <=> \E i \in 1 .. N : k < i /\ x = all[i]
      /\ \A x : x \in ToSet(B!Upto(all, m)) <=> \E i \in 1 .. N : i <= m /\ x = all[i]
      /\ \A x : x \in ToSet(B!Upto(all, k)) <=> \E i \in 1 .. N : i <= k /\ x = all[i]
  BY <1>3, CutElements
<1>5. ToSet(c \o a) = ToSet(c) \cup ToSet(a)
  BY <1>1, Concatenated
<1>6. \A i, j \in 1 .. N : i < j => all[i] < all[j]
  BY <1>3 DEF Rising
<1>7. m < k /\ \A i \in 1 .. N : (k < i => m < i) /\ (i <= m => i <= k)
  BY <1>1, <1>3
<1>8. \A i \in 1 .. N, j \in 1 .. N : i <= k /\ k < j => i < j
  BY <1>3
<1> HIDE DEF N
<1>9. Beyond(a, c)
  BY <1>1, <1>4 DEF Beyond
<1>10. Rising(c \o a)
  BY <1>1, <1>2, <1>9, RisingConcat
<1>11. Beyond(B!From(all, k), c)
  BY <1>4, <1>7 DEF Beyond
<1>12. Beyond(B!From(all, k), a)
  <2> SUFFICES ASSUME NEW x \in ToSet(B!From(all, k)), NEW y \in ToSet(a) PROVE y < x
    BY DEF Beyond
  <2>1. PICK j \in 1 .. N : k < j /\ x = all[j]
    BY <1>4
  <2>2. PICK i \in 1 .. N : i <= k /\ y = all[i]
    BY <1>1
  <2>3. i < j
    BY <1>8, <2>1, <2>2
  <2> QED BY <1>6, <2>1, <2>2, <2>3
<1>13. Beyond(B!From(all, k), c \o a)
  BY <1>5, <1>11, <1>12 DEF Beyond
<1>14. ToSet(B!Upto(all, k)) = ToSet(B!Upto(all, m)) \cup ToSet(a)
  <2>1. \A i \in 1 .. N : i <= k <=> i <= m \/ (m < i /\ i <= k)
    BY <1>3, <1>7
  <2> QED BY <1>1, <1>4, <2>1
<1>15. ToSet(a) \subseteq ToSet(all)
  BY <1>1, <1>3 DEF ToSet
<1> QED BY <1>5, <1>10, <1>13, <1>14, <1>15 DEF IsNext

\* The record a is sent: what is left of all is in hand, or nothing is and it is
\* acknowledged.
IsGone(c, n, all, w, acked, a, gone, sent, ended) ==
  /\ a \in Seq(Nat) /\ gone \in Nat
  /\ gone < Len(all) => Sent(TRUE, c \o a, n, sent, w, acked)
  /\ ~(gone < Len(all)) => Sent(TRUE, c \o a, n, ended, NULL, acked \cup ToSet(all))

\* A record leaves a TLS socket: of the message the writer has, or of another one whose
\* place it took.
LEMMA SentRecord ==
  ASSUME RecordLen \in Nat \ {0}, NEW c \in Seq(Nat), NEW n \in Nat, NEW ssl \in Session,
         NEW all \in Seq(Nat), NEW w, w # NULL, w.all = all, NEW acked,
         Sent(TRUE, c, n, ssl, w, acked),
         NEW a, a = Record(IF ssl.out = << >> THEN all ELSE ssl.out, ssl.done),
         NEW gone, gone = ssl.done + Len(a), gone <= Len(all),
         NEW sent, sent.out = all, sent.done = gone,
         sent.swapped = ssl.swapped \cup (IF ssl.out \in {<< >>, all} THEN {}
                                          ELSE ToSet(B!Upto(all, gone))),
         NEW ended, ended.out = << >>, ended.done = 0, ended.swapped = sent.swapped
  PROVE  IsGone(c, n, all, w, acked, a, gone, sent, ended)
<1> DEFINE out == ssl.out
           m == ssl.done
           d == c \o a
<1>1. out \in Seq(Nat) /\ m \in Nat /\ all \in Seq(Nat) /\ Len(all) \in Nat
  BY LenProperties DEF Session
<1>2. /\ Rising(c) /\ Under(c, n)
      /\ Rising(out) /\ Under(out, n) /\ Beyond(B!From(out, m), c)
      /\ ToSet(B!Upto(out, m)) \subseteq ToSet(c) \cup ssl.swapped
      /\ (out = << >> => m = 0) /\ (out # << >> => m < Len(out))
      /\ all # << >> /\ Rising(all) /\ Under(all, n)
      /\ all = out \/ (Beyond(all, c) /\ Beyond(all, out))
      /\ acked \ ssl.swapped \subseteq ToSet(c)
      /\ ssl.swapped = {} => ToSet(c) = acked \cup ToSet(B!Upto(out, m))
  BY DEF Sent, InHand, Holds, Settled
<1>3. Len(all) # 0
  BY <1>1, <1>2, EmptySeq
<1>4. CASE out \in {<< >>, all}
  <2>1. a = Record(all, m) /\ sent.swapped = ssl.swapped
    BY <1>4
  <2>2. m < Len(all)
    BY <1>1, <1>2, <1>3, <1>4
  <2>3. Beyond(B!From(all, m), c) /\ ToSet(B!Upto(all, m)) = ToSet(B!Upto(out, m))
    <3>1. CASE out = all
      BY <1>2, <3>1
    <3>2. CASE out = << >> /\ out # all
      <4>1. m = 0 /\ Beyond(all, c) /\ B!From(all, 0) = all
        BY <1>1, <1>2, <3>2, PartsRise
      <4>2. B!Upto(out, m) = << >>
        BY <1>1, <3>2, CutNothing
      <4>3. ToSet(B!Upto(all, m)) = {}
        <5>1. \A x : x \in ToSet(B!Upto(all, 0)) <=> \E i \in 1 .. Len(all) : i <= 0 /\ x = all[i]
          BY <1>1, CutElements
        <5>2. \A i \in 1 .. Len(all) : ~(i <= 0)
          BY <1>1
        <5> QED BY <4>1, <5>1, <5>2
      <4> QED BY <4>1, <4>2, <4>3, NothingRises
    <3> QED BY <1>4, <3>1, <3>2
  <2>4. a \in Seq(Nat) /\ gone \in Nat
    <3> HIDE DEF m
    <3>1. Record(all, m) \in Seq(Nat) /\ Len(Record(all, m)) \in Nat
      BY <1>1, <2>2, RecordIs
    <3> QED BY <1>1, <2>1, <3>1 DEF m
  <2> HIDE DEF out, m, d
  <2>5. gone = m + Len(a)
    BY DEF m
  <2>6. /\ Rising(d) /\ ToSet(d) = ToSet(c) \cup ToSet(a) /\ ToSet(a) \subseteq ToSet(all)
        /\ Beyond(B!From(all, gone), d)
        /\ ToSet(B!Upto(all, gone)) = ToSet(B!Upto(all, m)) \cup ToSet(a)
    <3>1. IsNext(c, all, m, a, gone)
      BY <1>1, <1>2, <2>1, <2>2, <2>3, <2>5, NextRecord
    <3> QED BY <3>1 DEF d, IsNext
  <2>7. Under(d, n)
    BY <1>2, <2>6 DEF Under
  <2>8. /\ ToSet(B!Upto(all, gone)) \subseteq ToSet(d) \cup ssl.swapped
        /\ acked \ ssl.swapped \subseteq ToSet(d)
        /\ ssl.swapped = {} => ToSet(d) = acked \cup ToSet(B!Upto(all, gone))
    BY <1>2, <2>3, <2>6
  <2>10. /\ gone < Len(all) => Sent(TRUE, d, n, sent, w, acked)
         /\ ~(gone < Len(all)) => Sent(TRUE, d, n, ended, NULL, acked \cup ToSet(all))
    BY <1>1, <1>2, <2>1, <2>4, <2>6, <2>7, <2>8, Advanced
  <2> QED BY <2>4, <2>10 DEF IsGone, d
<1>5. CASE out \notin {<< >>, all}
  <2>1. /\ a = Record(out, m)
        /\ sent.swapped = ssl.swapped \cup ToSet(B!Upto(all, gone))
    BY <1>5
  <2>2. m < Len(out) /\ Beyond(all, c) /\ Beyond(all, out)
    BY <1>2, <1>5
  <2> HIDE DEF out, m, d
  <2>3. a \in Seq(Nat) /\ Len(a) \in Nat \ {0}
    BY <1>1, <2>1, <2>2, RecordIs
  <2>4. gone \in Nat \ {0} /\ gone <= Len(all)
    BY <1>1, <2>3 DEF m
  <2>5. /\ Rising(d) /\ ToSet(d) = ToSet(c) \cup ToSet(a) /\ ToSet(a) \subseteq ToSet(out)
    <3>1. Beyond(B!From(out, m), c) /\ Rising(out) /\ gone = m + Len(a)
      BY <1>2 DEF m
    <3>2. IsNext(c, out, m, a, gone)
      BY <1>1, <1>2, <2>1, <2>2, <3>1, NextRecord
    <3> QED BY <3>2 DEF d, IsNext
  <2>6. Under(d, n)
    BY <1>2, <2>5 DEF Under
  <2>7. /\ \A x : x \in ToSet(B!From(all, gone)) <=> \E i \in 1 .. Len(all) : gone < i /\ x = all[i]
        /\ \A x : x \in ToSet(B!Upto(all, gone)) <=> \E i \in 1 .. Len(all) : i <= gone /\ x = all[i]
    BY <1>1, <2>4, CutElements
  <2>8. ToSet(B!From(all, gone)) \subseteq ToSet(all)
    <3>1. DOMAIN all = 1 .. Len(all)
      BY <1>1, LenProperties
    <3>2. \A i \in 1 .. Len(all) : all[i] \in ToSet(all)
      BY <3>1 DEF ToSet
    <3> QED BY <2>7, <3>2
  <2>9. Beyond(B!From(all, gone), d)
    BY <2>2, <2>5, <2>8 DEF Beyond
  <2>10. sent.swapped # {}
    <3>1. 1 \in 1 .. Len(all) /\ 1 <= gone
      BY <1>1, <2>4
    <3>2. all[1] \in ToSet(B!Upto(all, gone))
      BY <2>7, <3>1
    <3> QED BY <2>1, <3>2
  <2>11. /\ ToSet(B!Upto(all, gone)) \subseteq ToSet(d) \cup sent.swapped
         /\ acked \ sent.swapped \subseteq ToSet(d)
    BY <1>2, <2>1, <2>5
  <2>13. /\ gone < Len(all) => Sent(TRUE, d, n, sent, w, acked)
         /\ ~(gone < Len(all)) => Sent(TRUE, d, n, ended, NULL, acked \cup ToSet(all))
    BY <1>1, <1>2, <2>4, <2>5, <2>6, <2>9, <2>10, <2>11, Advanced
  <2> QED BY <2>3, <2>4, <2>13 DEF IsGone, d
<1> QED BY <1>4, <1>5

\* Or waits, to be called again with the same message.
LEMMA SentStuck ==
  ASSUME NEW c, NEW n, NEW ssl \in Session, NEW w, w # NULL, w.all \in Seq(Nat), NEW acked,
         Sent(TRUE, c, n, ssl, w, acked), NEW w2, w2.all = w.all, w2.left = w.left,
         NEW kept, kept.out = (IF ssl.out = << >> THEN w.all ELSE ssl.out),
         kept.done = ssl.done, kept.swapped = ssl.swapped
  PROVE  Sent(TRUE, c, n, kept, w2, acked)
<1>1. CASE ssl.out # << >>
  <2>1. InHand(TRUE, c, n, kept) /\ Holds(TRUE, c, n, kept, w2) /\ Settled(TRUE, c, kept, acked)
    BY <1>1 DEF Sent, InHand, Holds, Settled
  <2> QED BY <2>1 DEF Sent
<1>2. CASE ssl.out = << >>
  <2> DEFINE all == w.all
  <2>1. /\ ssl.done = 0 /\ all # << >> /\ Rising(all) /\ Under(all, n)
        /\ Beyond(all, c)
    BY <1>2 DEF Sent, InHand, Holds
  <2>2. B!From(all, 0) = all /\ B!Upto(<< >>, 0) = << >> /\ Len(all) \in Nat
    BY PartsRise, CutNothing, LenProperties
  <2>3. Len(all) # 0
    BY <2>1, EmptySeq
  <2>4. ToSet(B!Upto(all, 0)) = {}
    <3>1. \A x : x \in ToSet(B!Upto(all, 0)) <=> \E i \in 1 .. Len(all) : i <= 0 /\ x = all[i]
      BY CutElements
    <3>2. \A i \in 1 .. Len(all) : ~(i <= 0)
      BY <2>2
    <3> QED BY <3>1, <3>2
  <2>5. kept.out = all /\ kept.done = 0 /\ kept.swapped = ssl.swapped /\ w2.all = all
    BY <1>2, <2>1
  <2>6. 0 < Len(all)
    BY <2>2, <2>3
  <2> HIDE DEF all
  <2>7. InHand(TRUE, c, n, kept)
    BY <2>1, <2>2, <2>4, <2>5, <2>6 DEF InHand
  <2>8. Holds(TRUE, c, n, kept, w2)
    BY <2>1, <2>5 DEF Holds
  <2>9. Settled(TRUE, c, kept, acked)
    BY <1>2, <2>1, <2>2, <2>4, <2>5, NothingRises DEF Sent, Settled
  <2> QED BY <2>7, <2>8, <2>9 DEF Sent
<1> QED BY <1>1, <1>2

\* Three sequences in a row, put together in either order.
InARow(a, b, c) == (a \o b) \o c = a \o (b \o c)

\* It makes no difference.
LEMMA ThreeInARow ==
  ASSUME NEW S, NEW a \in Seq(S), NEW b \in Seq(S), NEW c \in Seq(S)
  PROVE  InARow(a, b, c)
<1>1. (a \o b) \o c = a \o (b \o c)
  BY ConcatAssociative, SMTT(60)
<1> QED BY <1>1 DEF InARow

\* More on the wire is more carried.
LEMMA CarriesMore ==
  ASSUME NEW s, NEW t, NEW x \in Seq(Seq(Nat)),
         s.got \in Seq(Nat), s.pending \in Seq(Nat), s.wire \in Seq(Seq(Nat)),
         t.got = s.got, t.pending = s.pending, t.wire = s.wire \o x
  PROVE  Carries(t) = Carries(s) \o FlattenSeq(x)
<1> DEFINE f == FlattenSeq(s.wire)
           g == FlattenSeq(x)
           h == s.got \o s.pending
<1>1. FlattenSeq(s.wire \o x) = f \o g /\ f \in Seq(Nat)
  BY FlattenSeqs DEF Flattens
<1>2. g \in Seq(Nat)
  BY FlattenSeqs DEF Flattens
<1>3. h \in Seq(Nat)
  BY ConcatProperties
<1> HIDE DEF f, g, h
<1>4. InARow(h, f, g)
  BY <1>1, <1>2, <1>3, ThreeInARow
<1> QED BY <1>1, <1>4 DEF InARow, Carries, f, g, h

\* What is carried, is a sequence of bytes.
LEMMA CarryType ==
  ASSUME NEW s \in LineState
  PROVE  Carries(s) \in Seq(Nat)
<1> DEFINE f == FlattenSeq(s.wire)
           h == s.got \o s.pending
<1>0. s.got \in Seq(Nat) /\ s.pending \in Seq(Nat) /\ s.wire \in Seq(Seq(Nat))
  BY DEF LineState
<1>1. f \in Seq(Nat)
  BY <1>0, FlattenSeqs DEF Flattens
<1>2. h \in Seq(Nat)
  BY <1>0, ConcatProperties
<1> HIDE DEF f, h
<1>3. h \o f \in Seq(Nat)
  BY <1>1, <1>2, ConcatProperties
<1> QED BY <1>3 DEF Carries, f, h

\* The reader's side is as it was; so is what is carried.
SameReader(s, t) == t.tls = s.tls /\ t.got = s.got /\ t.r = s.r /\ t.last = s.last
SameBytes(s, t)  == t.wire = s.wire /\ t.pending = s.pending

\* A state of the same reader is sound when what was sent is.
LEMMA SoundWriter ==
  ASSUME NEW s, Sound(s), NEW t \in LineState, SameReader(s, t),
         Sent(t.tls, Carries(t), t.next, t.ssl, t.w, t.acked),
         Singles(t.tls, t.wire, t.pending)
  PROVE  Sound(t)
BY DEF Sound, SameReader

\* Likewise, when nothing was sent.
LEMMA SoundKept ==
  ASSUME NEW s, Sound(s), NEW t \in LineState, SameReader(s, t), SameBytes(s, t),
         Sent(t.tls, Carries(s), t.next, t.ssl, t.w, t.acked)
  PROVE  Sound(t)
<1>1. Carries(t) = Carries(s)
  BY DEF Carries, SameReader, SameBytes
<1>2. Singles(t.tls, t.wire, t.pending)
  BY DEF Sound, SameReader, SameBytes
<1> QED BY <1>1, <1>2, SoundWriter

\* A record of a line with the writer replaced.
SetW(s, w) == [s EXCEPT !.w = w]

\* Only that is different.
LEMMA SetWIs ==
  ASSUME NEW s \in LineState, NEW w \in WriterRec \cup {NULL}
  PROVE  /\ SetW(s, w) \in LineState
         /\ SetW(s, w).w = w /\ SameReader(s, SetW(s, w)) /\ SameBytes(s, SetW(s, w))
         /\ SetW(s, w).next = s.next /\ SetW(s, w).ssl = s.ssl /\ SetW(s, w).acked = s.acked
BY DEF LineState, SetW, SameReader, SameBytes

\* The writer at another place of its loop.
LEMMA WriterMoves ==
  ASSUME NEW s, Sound(s), s.w \in WriterRec, s.w # NULL, NEW pc \in {"check", "send", "wants"}
  PROVE  Sound([s EXCEPT !.w.pc = pc])
<1> DEFINE w == [s.w EXCEPT !.pc = pc]
           t == SetW(s, w)
<1>1. w \in WriterRec /\ w.all = s.w.all /\ w.left = s.w.left
  BY DEF WriterRec
<1>2. s \in LineState
  BY DEF Sound
<1>3. [s EXCEPT !.w.pc = pc] = t
  BY <1>2 DEF SetW, LineState
<1> HIDE DEF w
<1>4. /\ t \in LineState
      /\ t.w = w /\ SameReader(s, t) /\ SameBytes(s, t)
      /\ t.next = s.next /\ t.ssl = s.ssl /\ t.acked = s.acked
  BY <1>1, <1>2, SetWIs
<1> HIDE DEF t
<1>5. Sent(s.tls, Carries(s), s.next, s.ssl, s.w, s.acked)
  BY DEF Sound
<1>6. Sent(s.tls, Carries(s), s.next, s.ssl, w, s.acked)
  BY <1>1, <1>5, SentGoesOn
<1>7. Sound(t)
  BY <1>4, <1>6, SoundKept DEF SameReader
<1> QED BY <1>3, <1>7

\* What a write's return leaves.
LEMMA WriteEndsIs ==
  ASSUME NEW s \in LineState, s.w \in WriterRec, NEW result
  PROVE  /\ B!WriteEnds(s, result) \in LineState
         /\ B!WriteEnds(s, result).w = NULL
         /\ SameReader(s, B!WriteEnds(s, result)) /\ SameBytes(s, B!WriteEnds(s, result))
         /\ B!WriteEnds(s, result).next = s.next /\ B!WriteEnds(s, result).ssl = s.ssl
         /\ B!WriteEnds(s, result).acked = IF result = "Ok" THEN s.acked \cup ToSet(s.w.all) ELSE s.acked
<1> DEFINE acked == IF result = "Ok" THEN s.acked \cup ToSet(s.w.all) ELSE s.acked
           t == B!WriteEnds(s, result)
<1>1. s.w.all \in Seq(Nat) /\ s.acked \in SUBSET Nat
  BY DEF WriterRec, LineState
<1>2. acked \in SUBSET Nat
  BY <1>1, ElementsOf
<1>3. t = [s EXCEPT !.w = NULL, !.acked = acked]
  BY SameRange DEF B!WriteEnds, LineState
<1> HIDE DEF acked, t
<1>4. t \in LineState /\ t.w = NULL /\ t.acked = acked
  BY <1>2, <1>3 DEF LineState
<1>5. /\ t.tls = s.tls /\ t.got = s.got /\ t.r = s.r /\ t.last = s.last
      /\ t.wire = s.wire /\ t.pending = s.pending
      /\ t.next = s.next /\ t.ssl = s.ssl
  BY <1>3 DEF LineState
<1> QED BY <1>4, <1>5 DEF t, acked, SameReader, SameBytes

\* A write that fails.
LEMMA WriteFails ==
  ASSUME NEW s, Sound(s), s.w \in WriterRec, NEW result, result # "Ok"
  PROVE  Sound(B!WriteEnds(s, result))
<1> DEFINE t == B!WriteEnds(s, result)
<1>1. s \in LineState
  BY DEF Sound
<1>2. /\ t \in LineState
      /\ t.w = NULL /\ SameReader(s, t) /\ SameBytes(s, t)
      /\ t.next = s.next /\ t.ssl = s.ssl /\ t.acked = s.acked
  BY <1>1, WriteEndsIs
<1> HIDE DEF t
<1>3. Sent(s.tls, Carries(s), s.next, s.ssl, s.w, s.acked)
  BY DEF Sound
<1>4. Sent(s.tls, Carries(s), s.next, s.ssl, NULL, s.acked)
  BY <1>3, SentReturned
<1>5. Sound(t)
  BY <1>2, <1>4, SoundKept DEF SameReader
<1> QED BY <1>5 DEF t

\* A write of a plain socket that has sent all.
LEMMA WriteDone ==
  ASSUME NEW s, Sound(s), s.tls = FALSE, s.w \in WriterRec, s.w # NULL, s.w.left = << >>
  PROVE  Sound(B!WriteEnds(s, "Ok"))
<1> DEFINE t == B!WriteEnds(s, "Ok")
<1>1. s \in LineState
  BY DEF Sound
<1>2. /\ t \in LineState
      /\ t.w = NULL /\ SameReader(s, t) /\ SameBytes(s, t)
      /\ t.next = s.next /\ t.ssl = s.ssl /\ t.acked = s.acked \cup ToSet(s.w.all)
  BY <1>1, WriteEndsIs
<1> HIDE DEF t
<1>3. Sent(FALSE, Carries(s), s.next, s.ssl, s.w, s.acked)
  BY DEF Sound
<1>4. Sent(FALSE, Carries(s), s.next, s.ssl, NULL, s.acked \cup ToSet(s.w.all))
  BY <1>3, SentAll
<1>5. Sound(t)
  BY <1>2, <1>4, SoundKept DEF SameReader
<1> QED BY <1>5 DEF t

\* A record of a line with the writer, the next byte and the sent packets replaced.
Sends(s, x, ssl, next, w) ==
  [s EXCEPT !.wire = x, !.ssl = ssl, !.next = next, !.w = w]

\* t is s with only these different.
HasSent(s, t, x, ssl, next, w) ==
  /\ t \in LineState /\ SameReader(s, t) /\ t.wire = x /\ t.pending = s.pending
  /\ t.ssl = ssl /\ t.next = next /\ t.w = w /\ t.acked = s.acked

\* So it is.
LEMMA SendsIs ==
  ASSUME NEW s \in LineState, NEW x \in Seq(Seq(Nat)), NEW ssl \in Session, NEW next \in Nat,
         NEW w \in WriterRec \cup {NULL}
  PROVE  HasSent(s, Sends(s, x, ssl, next, w), x, ssl, next, w)
<1>1. Sends(s, x, ssl, next, w) \in LineState
  BY DEF LineState, Sends
<1>2. SameReader(s, Sends(s, x, ssl, next, w))
  BY DEF LineState, Sends, SameReader
<1>3. /\ Sends(s, x, ssl, next, w).wire = x
      /\ Sends(s, x, ssl, next, w).pending = s.pending
      /\ Sends(s, x, ssl, next, w).ssl = ssl
  BY DEF LineState, Sends
<1>4. /\ Sends(s, x, ssl, next, w).next = next
      /\ Sends(s, x, ssl, next, w).w = w
      /\ Sends(s, x, ssl, next, w).acked = s.acked
  BY DEF LineState, Sends
<1> QED BY <1>1, <1>2, <1>3, <1>4 DEF HasSent

\* A message is begun.
LEMMA WriteKeepsOrder ==
  ASSUME StreamData, Sound(line), NEW byte \in BOOLEAN, NEW tooShort \in BOOLEAN,
         B!Write(byte, tooShort)
  PROVE  Sound(line')
<1>0. line \in LineState /\ line.w = NULL
  BY DEF Sound, B!Write
<1>1. line.next \in Nat /\ line.ssl \in Session /\ Carries(line) \in Seq(Nat) /\ line.wire \in Seq(Seq(Nat))
  BY <1>0, CarryType DEF LineState
<1>2. Sent(line.tls, Carries(line), line.next, line.ssl, line.w, line.acked)
  BY DEF Sound
<1>3. ASSUME NEW k \in Sizes, NEW all, all = [i \in 1 .. k |-> line.next + i - 1],
             NEW same \in BOOLEAN, NEW w,
             w \in {NULL, [pc |-> "check", all |-> all, left |-> all, byte |-> byte, same |-> same]},
             line' = [line EXCEPT !.next = @ + k, !.w = w]
      PROVE  Sound(line')
  <2>1. k \in Nat \ {0} /\ all \in Seq(Nat)
    BY <1>1, <1>3, NewMessage DEF StreamData
  <2>2. w \in WriterRec \cup {NULL} /\ (w # NULL => w.all = all /\ w.left = all)
    <3>1. w = NULL \/ w = [pc |-> "check", all |-> all, left |-> all, byte |-> byte, same |-> same]
      BY <1>3
    <3> QED BY <2>1, <3>1 DEF WriterRec
  <2> DEFINE n == line.next + k
             t == Sends(line, line.wire, line.ssl, n, w)
  <2>3. line' = t
    BY <1>0, <1>3 DEF LineState, Sends
  <2>4. n \in Nat
    BY <1>1, <2>1
  <2>5. Sent(line.tls, Carries(line), n, line.ssl, w, line.acked)
    BY <1>1, <1>2, <1>3, <2>1, <2>2, SentNew
  <2> HIDE DEF n
  <2>6. /\ t \in LineState /\ SameReader(line, t) /\ t.wire = line.wire /\ t.pending = line.pending
        /\ t.ssl = line.ssl /\ t.next = n /\ t.w = w /\ t.acked = line.acked
    <3>1. HasSent(line, t, line.wire, line.ssl, n, w)
      BY <1>0, <1>1, <2>2, <2>4, SendsIs
    <3> HIDE DEF t
    <3> QED BY <3>1 DEF HasSent
  <2> HIDE DEF t
  <2>7. SameBytes(line, t) /\ t.tls = line.tls
    BY <2>6 DEF SameBytes, SameReader
  <2>8. Sound(t)
    BY <2>5, <2>6, <2>7, SoundKept
  <2> QED BY <2>3, <2>8
<1>4. ASSUME NEW same \in BOOLEAN, line.ssl.out # << >>, NEW w,
             w = [pc |-> "check", all |-> line.ssl.out, left |-> line.ssl.out, byte |-> byte,
                  same |-> same],
             line' = [line EXCEPT !.w = w]
      PROVE  Sound(line')
  <2>1. w \in WriterRec /\ w.all = line.ssl.out
    BY <1>1, <1>4 DEF WriterRec, Session
  <2> DEFINE t == SetW(line, w)
  <2>2. line' = t
    BY <1>4 DEF SetW
  <2>3. /\ t \in LineState /\ t.w = w /\ SameReader(line, t) /\ SameBytes(line, t)
        /\ t.next = line.next /\ t.ssl = line.ssl /\ t.acked = line.acked
    BY <1>0, <2>1, SetWIs
  <2>4. Sent(line.tls, Carries(line), line.next, line.ssl, w, line.acked)
    BY <1>2, <1>4, <2>1, SentAgain
  <2> HIDE DEF t
  <2>5. t.tls = line.tls
    BY <2>3 DEF SameReader
  <2>6. Sound(t)
    BY <2>3, <2>4, <2>5, SoundKept
  <2> QED BY <2>2, <2>6
<1>5. PICK same \in BOOLEAN :
        \/ \E n \in Sizes :
             LET all == [i \in 1 .. n |-> line.next + i - 1]
             IN  line' = [line EXCEPT !.next = @ + n,
                            !.w = IF line.tls /\ tooShort /\ ~byte THEN NULL
                                  ELSE [pc |-> "check", all |-> all, left |-> all, byte |-> byte,
                                        same |-> same]]
        \/ /\ line.ssl.out # << >>
           /\ line' = [line EXCEPT !.w = [pc |-> "check", all |-> line.ssl.out,
                                          left |-> line.ssl.out, byte |-> byte, same |-> same]]
  BY DEF B!Write
<1>6. ASSUME NEW k \in Sizes,
             line' = [line EXCEPT !.next = @ + k,
                        !.w = IF line.tls /\ tooShort /\ ~byte THEN NULL
                              ELSE [pc |-> "check", all |-> [i \in 1 .. k |-> line.next + i - 1],
                                    left |-> [i \in 1 .. k |-> line.next + i - 1], byte |-> byte,
                                    same |-> same]]
      PROVE  Sound(line')
  <2> DEFINE all == [i \in 1 .. k |-> line.next + i - 1]
             w == IF line.tls /\ tooShort /\ ~byte THEN NULL
                  ELSE [pc |-> "check", all |-> all, left |-> all, byte |-> byte, same |-> same]
  <2>2. line' = [line EXCEPT !.next = @ + k, !.w = w]
    BY <1>6
  <2>3. w \in {NULL, [pc |-> "check", all |-> all, left |-> all, byte |-> byte, same |-> same]}
    OBVIOUS
  <2>4. all = [i \in 1 .. k |-> line.next + i - 1]
    OBVIOUS
  <2> HIDE DEF w, all
  <2> QED BY <1>3, <2>2, <2>3, <2>4, ZenonT(60)
<1>7. CASE \E n \in Sizes :
             LET all == [i \in 1 .. n |-> line.next + i - 1]
             IN  line' = [line EXCEPT !.next = @ + n,
                            !.w = IF line.tls /\ tooShort /\ ~byte THEN NULL
                                  ELSE [pc |-> "check", all |-> all, left |-> all, byte |-> byte,
                                        same |-> same]]
  BY <1>6, <1>7
<1> QED BY <1>4, <1>5, <1>7

\* A writer has a record.
LEMMA WriterIs ==
  ASSUME Sound(line), NEW pc, B!Writing(pc)
  PROVE  /\ line \in LineState /\ line.w \in WriterRec /\ line.w # NULL /\ line.w.pc = pc
         /\ line.w.all \in Seq(Nat) /\ line.w.left \in Seq(Nat)
         /\ line.next \in Nat /\ line.ssl \in Session /\ line.wire \in Seq(Seq(Nat))
         /\ line.got \in Seq(Nat) /\ line.pending \in Seq(Nat)
         /\ Carries(line) \in Seq(Nat)
         /\ Sent(line.tls, Carries(line), line.next, line.ssl, line.w, line.acked)
<1>1. line \in LineState
  BY DEF Sound
<1>2. Carries(line) \in Seq(Nat)
  BY <1>1, CarryType
<1>3. line.w \in WriterRec \cup {NULL}
  BY <1>1 DEF LineState
<1>4. line.w # NULL /\ line.w.pc = pc
  BY DEF B!Writing
<1>5. /\ line.next \in Nat /\ line.ssl \in Session /\ line.wire \in Seq(Seq(Nat))
      /\ line.got \in Seq(Nat) /\ line.pending \in Seq(Nat)
  BY <1>1 DEF LineState
<1>6. Sent(line.tls, Carries(line), line.next, line.ssl, line.w, line.acked)
  BY DEF Sound
<1>7. line.w.all \in Seq(Nat) /\ line.w.left \in Seq(Nat)
  BY <1>3, <1>4 DEF WriterRec
<1> QED BY <1>1, <1>2, <1>3, <1>4, <1>5, <1>6, <1>7

\* Single bytes behind single bytes.
LEMMA OnesConcat ==
  ASSUME NEW s \in Seq(Seq(Nat)), NEW t \in Seq(Seq(Nat)), Ones(s), Ones(t)
  PROVE  s \o t \in Seq(Seq(Nat)) /\ Ones(s \o t)
<1> DEFINE Q == Seq(Nat)
           u == s \o t
           n == Len(s)
           m == Len(t)
<1>0. s \in Seq(Q) /\ t \in Seq(Q)
  OBVIOUS
<1>1. DOMAIN s = 1 .. n /\ DOMAIN t = 1 .. m /\ n \in Nat /\ m \in Nat
  BY LenProperties
<1> HIDE DEF Q
<1>2. /\ u \in Seq(Q) /\ Len(u) = n + m
      /\ \A i \in 1 .. n + m : u[i] = IF i <= n THEN s[i] ELSE t[i - n]
  BY <1>0, ConcatProperties
<1>3. DOMAIN u = 1 .. n + m
  BY <1>2, LenProperties
<1> HIDE DEF u, n, m
<1>4. ASSUME NEW i \in 1 .. n + m PROVE Len(u[i]) = 1
  <2>1. CASE i <= n
    <3>1. i \in DOMAIN s /\ u[i] = s[i]
      BY <1>1, <1>2, <2>1
    <3> QED BY <3>1 DEF Ones
  <2>2. CASE ~(i <= n)
    <3>1. i - n \in DOMAIN t /\ u[i] = t[i - n]
      BY <1>1, <1>2, <2>2
    <3> QED BY <3>1 DEF Ones
  <2> QED BY <2>1, <2>2
<1> QED BY <1>2, <1>3, <1>4 DEF Ones, Q, u

\* The poll for room, and the one while a TLS message waits to be called again.
LEMMA WriteChecksKeep ==
  ASSUME StreamData, Sound(line), B!WriteChecks \/ B!SSLWriteWants
  PROVE  Sound(line')
<1>1. ASSUME B!WriteChecks PROVE Sound(line')
  <2>1. line.w \in WriterRec /\ line.w # NULL
    BY <1>1, WriterIs DEF B!WriteChecks
  <2>2. PICK sr : \/ line' = [line EXCEPT !.w.pc = "send"]
                  \/ sr # "Ok" /\ line' = B!WriteEnds(line, sr)
    BY <1>1 DEF B!WriteChecks, B!WriteAt
  <2> QED BY <2>1, <2>2, WriterMoves, WriteFails
<1>2. ASSUME B!SSLWriteWants PROVE Sound(line')
  <2>1. line.w \in WriterRec /\ line.w # NULL
    BY <1>2, WriterIs DEF B!SSLWriteWants
  <2>2. PICK sr : \/ line' = [line EXCEPT !.w.pc = "check"]
                  \/ sr # "Ok" /\ line' = B!WriteEnds(line, IF line.w.byte THEN sr ELSE "SendFailed")
    BY <1>2 DEF B!SSLWriteWants, B!WriteAt
  <2> DEFINE result == IF line.w.byte THEN sr ELSE "SendFailed"
  <2>3. sr # "Ok" => result # "Ok"
    OBVIOUS
  <2> HIDE DEF result
  <2>4. CASE sr # "Ok" /\ line' = B!WriteEnds(line, result)
    BY <2>1, <2>3, <2>4, WriteFails, SMTT(60)
  <2> QED BY <2>1, <2>2, <2>4, WriterMoves DEF result
<1> QED BY <1>1, <1>2

\* A turn of a plain socket's loop.
LEMMA WritePartKeeps ==
  ASSUME StreamData, Sound(line), B!SocketWritePart
  PROVE  Sound(line')
<1>0. /\ B!Writing("send") /\ ~line.tls
  BY DEF B!SocketWritePart
<1>1. /\ line \in LineState /\ line.w \in WriterRec /\ line.w # NULL
      /\ line.next \in Nat /\ line.ssl \in Session /\ line.wire \in Seq(Seq(Nat))
      /\ line.got \in Seq(Nat) /\ line.pending \in Seq(Nat)
      /\ Carries(line) \in Seq(Nat)
      /\ Sent(line.tls, Carries(line), line.next, line.ssl, line.w, line.acked)
  BY <1>0, WriterIs
<1>2. line.tls = FALSE /\ Ones(line.wire) /\ line.w.left \in Seq(Nat)
  BY <1>0, <1>1 DEF Sound, Singles, LineState, WriterRec
<1>3. ASSUME NEW rc \in 1 .. Len(line.w.left), NEW sent,
             sent = [line EXCEPT !.wire = @ \o B!Singly(B!Upto(line.w.left, rc)),
                                 !.w.left = B!From(@, rc)]
      PROVE  Sound(sent) /\ sent.tls = FALSE /\ sent.w \in WriterRec /\ sent.w # NULL
  <2> DEFINE a == B!Upto(line.w.left, rc)
             b == B!From(line.w.left, rc)
             x == B!Singly(a)
             w == [line.w EXCEPT !.left = b]
             y == line.wire \o x
             t == Sends(line, y, line.ssl, line.next, w)
  <2>1. rc \in Nat
    OBVIOUS
  <2>2. IsCut(line.w.left, rc, Nat)
    BY <1>2, <2>1, UptoAndFrom
  <2>3. a \in Seq(Nat) /\ b \in Seq(Nat) /\ line.w.left = a \o b
    BY <2>2 DEF IsCut
  <2>4. sent = t
    BY <1>1, <1>3 DEF LineState, Sends
  <2> HIDE DEF a, b
  <2>5. x \in Seq(Seq(Nat)) /\ Ones(x) /\ FlattenSeq(x) = a
    BY <2>3, SinglyFlattened
  <2>6. w \in WriterRec /\ w.all = line.w.all /\ w.left = b
    BY <1>1, <2>3 DEF WriterRec
  <2> HIDE DEF x, w
  <2>7. y \in Seq(Seq(Nat)) /\ Ones(y)
    BY <1>1, <1>2, <2>5, OnesConcat
  <2> HIDE DEF y
  <2>8. /\ t \in LineState /\ SameReader(line, t) /\ t.wire = y /\ t.pending = line.pending
        /\ t.ssl = line.ssl /\ t.next = line.next /\ t.w = w /\ t.acked = line.acked
    <3>1. HasSent(line, t, y, line.ssl, line.next, w)
      BY <1>1, <2>6, <2>7, SendsIs
    <3> QED BY <3>1 DEF HasSent
  <2> HIDE DEF t
  <2>9. t.got = line.got /\ t.tls = FALSE
    BY <1>2, <2>8 DEF SameReader
  <2>10. Carries(t) = Carries(line) \o a
    BY <1>1, <2>5, <2>8, <2>9, CarriesMore DEF y
  <2>11. Sent(FALSE, Carries(line) \o a, line.next, line.ssl, w, line.acked)
    BY <1>1, <1>2, <2>3, <2>6, SentPart
  <2>12. Singles(t.tls, t.wire, t.pending)
    BY <1>2, <2>7, <2>8, <2>9 DEF Singles, Sound
  <2>13. Sound(t)
    BY <2>8, <2>9, <2>10, <2>11, <2>12, SoundWriter
  <2>14. w # NULL
    BY <2>6 DEF StreamData
  <2> QED BY <2>4, <2>6, <2>8, <2>9, <2>13, <2>14
<1>4. CASE line' = B!WriteEnds(line, "SendFailed")
  BY <1>1, <1>4, WriteFails
<1>5. CASE B!WriteAt("check")
  BY <1>1, <1>5, WriterMoves DEF B!WriteAt
<1>6. CASE \E rc \in 1 .. Len(line.w.left) :
             LET sent == [line EXCEPT !.wire = @ \o B!Singly(B!Upto(line.w.left, rc)),
                                      !.w.left = B!From(@, rc)]
             IN  line' = IF sent.w.left = << >> THEN B!WriteEnds(sent, "Ok")
                         ELSE [sent EXCEPT !.w.pc = "check"]
  <2>1. PICK rc \in 1 .. Len(line.w.left) :
          LET sent == [line EXCEPT !.wire = @ \o B!Singly(B!Upto(line.w.left, rc)),
                                   !.w.left = B!From(@, rc)]
          IN  line' = IF sent.w.left = << >> THEN B!WriteEnds(sent, "Ok")
                      ELSE [sent EXCEPT !.w.pc = "check"]
    BY <1>6
  <2> DEFINE sent == [line EXCEPT !.wire = @ \o B!Singly(B!Upto(line.w.left, rc)),
                                  !.w.left = B!From(@, rc)]
  <2>2. line' = IF sent.w.left = << >> THEN B!WriteEnds(sent, "Ok")
                ELSE [sent EXCEPT !.w.pc = "check"]
    BY <2>1
  <2>3. Sound(sent) /\ sent.tls = FALSE /\ sent.w \in WriterRec /\ sent.w # NULL
    BY <1>3
  <2> HIDE DEF sent
  <2>4. CASE sent.w.left = << >>
    BY <2>2, <2>3, <2>4, WriteDone
  <2>5. CASE sent.w.left # << >>
    BY <2>2, <2>3, <2>5, WriterMoves
  <2> QED BY <2>4, <2>5
<1> QED BY <1>4, <1>5, <1>6, ZenonT(60) DEF B!SocketWritePart

\* One packet more on the wire.
LEMMA OneMore ==
  ASSUME NEW s \in LineState, NEW x \in Seq(Nat), NEW t, t.got = s.got, t.pending = s.pending,
         t.wire = Append(s.wire, x)
  PROVE  t.wire \in Seq(Seq(Nat)) /\ Carries(t) = Carries(s) \o x
<1> DEFINE y == << x >>
<1>0. s.got \in Seq(Nat) /\ s.pending \in Seq(Nat) /\ s.wire \in Seq(Seq(Nat))
  BY DEF LineState
<1>1. y \in Seq(Seq(Nat)) /\ Append(s.wire, x) = s.wire \o y /\ Append(s.wire, x) \in Seq(Seq(Nat))
  BY <1>0
<1>2. FlattenSeq(y) = x
  BY FlattenOne
<1> HIDE DEF y
<1>3. t.wire = s.wire \o y
  BY <1>1
<1>4. Carries(t) = Carries(s) \o FlattenSeq(y)
  BY <1>0, <1>1, <1>3, CarriesMore
<1> QED BY <1>1, <1>2, <1>4

\* t is s with the record a more on the wire and another session.
OnTheWire(s, t, a, ssl) ==
  /\ t \in LineState /\ t.w = s.w /\ t.acked = s.acked /\ t.next = s.next /\ t.ssl = ssl
  /\ SameReader(s, t) /\ t.tls = TRUE /\ Singles(t.tls, t.wire, t.pending)
  /\ Carries(t) = Carries(s) \o a

\* The record on the wire and the session changed, as SSL_write leaves them.
LEMMA RecordSent ==
  ASSUME NEW s \in LineState, s.tls = TRUE, NEW a \in Seq(Nat), NEW ssl \in Session,
         s.w \in WriterRec, Sound(s),
         NEW t, t = Sends(s, Append(s.wire, a), ssl, s.next, s.w)
  PROVE  OnTheWire(s, t, a, ssl)
<1> DEFINE y == Append(s.wire, a)
<1>1. y \in Seq(Seq(Nat)) /\ s.next \in Nat
  BY DEF LineState
<1>2. HasSent(s, t, y, ssl, s.next, s.w)
  <2> HIDE DEF y
  <2>1. t = Sends(s, y, ssl, s.next, s.w)
    BY DEF y
  <2> QED BY <1>1, <2>1, SendsIs
<1>3. /\ t \in LineState /\ SameReader(s, t) /\ t.wire = y /\ t.pending = s.pending
      /\ t.ssl = ssl /\ t.next = s.next /\ t.w = s.w /\ t.acked = s.acked
  BY <1>2 DEF HasSent
<1>4. t.got = s.got /\ t.tls = TRUE
  BY <1>3 DEF SameReader
<1>5. Carries(t) = Carries(s) \o a
  BY <1>3, <1>4, OneMore
<1> QED BY <1>3, <1>4, <1>5 DEF Singles, OnTheWire

\* A turn of a TLS socket's SSL_write: a record, the last one perhaps, or none yet.
LEMMA SSLWritePartKeeps ==
  ASSUME StreamData, Sound(line), B!SSLSocketWritePart
  PROVE  Sound(line')
<1>0. B!Writing("send") /\ line.tls
  BY DEF B!SSLSocketWritePart, B!Turn
<1>1. /\ line \in LineState /\ line.w \in WriterRec /\ line.w # NULL
      /\ line.w.all \in Seq(Nat) /\ line.next \in Nat /\ line.ssl \in Session
      /\ line.wire \in Seq(Seq(Nat)) /\ line.got \in Seq(Nat) /\ line.pending \in Seq(Nat)
      /\ Carries(line) \in Seq(Nat)
      /\ Sent(line.tls, Carries(line), line.next, line.ssl, line.w, line.acked)
  BY <1>0, WriterIs
<1>2. line.tls = TRUE /\ RecordLen \in Nat \ {0}
  BY <1>0, <1>1 DEF LineState, StreamData
<1>3. Sent(TRUE, Carries(line), line.next, line.ssl, line.w, line.acked)
  BY <1>1, <1>2
<1> DEFINE all == line.w.all
           out == line.ssl.out
           done == line.ssl.done
           a == B!Upto(IF out = << >> THEN all ELSE B!From(out, done), RecordLen)
           gone == done + Len(a)
           swapped == line.ssl.swapped \cup
                        (IF out \in {<< >>, all} THEN {} ELSE B!Range(B!Upto(all, gone)))
           rest == [out |-> all, done |-> gone, swapped |-> swapped]
           sent == [line EXCEPT !.wire = Append(@, a), !.ssl = rest]
           over == [out |-> << >>, done |-> 0, swapped |-> swapped]
           ended == [line EXCEPT !.wire = Append(@, a), !.ssl = over]
<1>4. a = Record(IF out = << >> THEN all ELSE out, done)
  <2>1. out = << >> => done = 0
    BY <1>3 DEF Sent, InHand
  <2>2. B!From(all, 0) = all
    BY <1>1, PartsRise
  <2> QED BY <2>1, <2>2 DEF Record
<1>5. CASE line' = B!WriteEnds(line, "SendFailed")
  BY <1>1, <1>5, WriteFails
<1>6. ASSUME out = << >> \/ gone <= Len(all) PROVE gone <= Len(all)
  <2>1. CASE out = << >>
    <3>1. done = 0 /\ all # << >> /\ Len(all) \in Nat
      BY <1>1, <1>3, <2>1, LenProperties DEF Sent, InHand, Holds
    <3>2. Len(all) # 0
      BY <1>1, <3>1, EmptySeq
    <3> HIDE DEF all
    <3>3. 0 + Len(Record(all, 0)) <= Len(all) /\ Len(Record(all, 0)) \in Nat
      BY <1>1, <1>2, <3>1, <3>2, RecordIs DEF all
    <3> QED BY <1>4, <2>1, <3>1, <3>3
  <2> QED BY <1>6, <2>1
<1>7. CASE /\ out = << >> \/ gone <= Len(all)
           /\ line' = IF gone < Len(all) THEN sent ELSE B!WriteEnds(ended, "Ok")
  <2>1. gone <= Len(all)
    BY <1>6, <1>7
  <2> DEFINE c == Carries(line)
  <2>2. sent = Sends(line, Append(line.wire, a), rest, line.next, line.w)
    BY <1>1 DEF LineState, Sends
  <2>3. ended = Sends(line, Append(line.wire, a), over, line.next, line.w)
    BY <1>1 DEF LineState, Sends
  <2>4. line' = IF gone < Len(all) THEN sent ELSE B!WriteEnds(ended, "Ok")
    BY <1>7
  <2>5. swapped = line.ssl.swapped \cup (IF out \in {<< >>, all} THEN {} ELSE ToSet(B!Upto(all, gone)))
    BY SameRange
  <2>6. /\ rest.out = all /\ rest.done = gone /\ rest.swapped = swapped
        /\ over.out = << >> /\ over.done = 0 /\ over.swapped = swapped
    OBVIOUS
  <2> HIDE DEF a, swapped, sent, ended
  <2>7. gone = done + Len(a)
    OBVIOUS
  <2>8. rest = [out |-> all, done |-> gone, swapped |-> swapped]
        /\ over = [out |-> << >>, done |-> 0, swapped |-> swapped]
    OBVIOUS
  <2> HIDE DEF gone, rest, over
  <2>9. /\ a \in Seq(Nat) /\ gone \in Nat
        /\ gone < Len(all) => Sent(TRUE, c \o a, line.next, rest, line.w, line.acked)
        /\ ~(gone < Len(all)) => Sent(TRUE, c \o a, line.next, over, NULL, line.acked \cup ToSet(all))
    <3>1. IsGone(c, line.next, all, line.w, line.acked, a, gone, rest, over)
      BY <1>1, <1>2, <1>3, <1>4, <2>1, <2>5, <2>6, <2>7, SentRecord
    <3> QED BY <3>1 DEF IsGone
  <2>10. swapped \in SUBSET Nat
    <3>1. line.ssl.swapped \in SUBSET Nat
      BY <1>1 DEF Session
    <3>2. B!Upto(all, gone) \in Seq(Nat)
      BY <1>1, <2>9, UptoAndFrom DEF IsCut
    <3> HIDE DEF all
    <3>3. ToSet(B!Upto(all, gone)) \in SUBSET Nat
      BY <3>2, ElementsOf
    <3> QED BY <2>5, <3>1, <3>3
  <2>11. rest \in Session /\ over \in Session
    BY <1>1, <2>8, <2>9, <2>10 DEF Session
  <2>12. CASE gone < Len(all)
    <3>1. /\ sent \in LineState /\ sent.w = line.w /\ sent.acked = line.acked
          /\ sent.next = line.next /\ sent.ssl = rest
          /\ SameReader(line, sent) /\ sent.tls = TRUE /\ Singles(sent.tls, sent.wire, sent.pending)
          /\ Carries(sent) = Carries(line) \o a
      <4>1. OnTheWire(line, sent, a, rest)
        BY <1>1, <1>2, <2>2, <2>9, <2>11, RecordSent
      <4> QED BY <4>1 DEF OnTheWire
    <3>2. Sent(sent.tls, Carries(sent), sent.next, sent.ssl, sent.w, sent.acked)
      BY <2>9, <2>12, <3>1
    <3>3. Sound(sent)
      BY <3>1, <3>2, SoundWriter
    <3> QED BY <2>4, <2>12, <3>3
  <2>13. CASE ~(gone < Len(all))
    <3> DEFINE t == B!WriteEnds(ended, "Ok")
    <3>1. /\ ended \in LineState /\ ended.w = line.w /\ ended.acked = line.acked
          /\ ended.next = line.next /\ ended.ssl = over
          /\ SameReader(line, ended) /\ ended.tls = TRUE
          /\ Singles(ended.tls, ended.wire, ended.pending)
          /\ Carries(ended) = Carries(line) \o a
      <4>1. OnTheWire(line, ended, a, over)
        BY <1>1, <1>2, <2>3, <2>9, <2>11, RecordSent
      <4> QED BY <4>1 DEF OnTheWire
    <3>2. /\ t \in LineState /\ t.w = NULL /\ SameReader(ended, t) /\ SameBytes(ended, t)
          /\ t.next = ended.next /\ t.ssl = ended.ssl
          /\ t.acked = ended.acked \cup ToSet(ended.w.all)
      BY <1>1, <3>1, WriteEndsIs
    <3> HIDE DEF t
    <3>3. /\ SameReader(line, t) /\ Carries(t) = Carries(ended) /\ t.tls = TRUE
          /\ Singles(t.tls, t.wire, t.pending)
      BY <3>1, <3>2 DEF SameReader, SameBytes, Carries, Singles
    <3>4. Sent(t.tls, Carries(t), t.next, t.ssl, t.w, t.acked)
      BY <2>9, <2>13, <3>1, <3>2, <3>3
    <3>5. Sound(t)
      BY <3>2, <3>3, <3>4, SoundWriter
    <3> QED BY <2>4, <2>13, <3>5 DEF t
  <2> QED BY <2>12, <2>13
<1>8. ASSUME NEW part \in {<< >>, << << >> >>},
             line' = [line EXCEPT !.wire = @ \o part, !.w.pc = "wants",
                                  !.ssl.out = IF out = << >> THEN all ELSE out]
      PROVE  Sound(line')
  <2> DEFINE w == [line.w EXCEPT !.pc = "wants"]
             y == line.wire \o part
             kept == [line.ssl EXCEPT !.out = IF out = << >> THEN all ELSE out]
             t == Sends(line, y, kept, line.next, w)
  <2>1. line' = t
    BY <1>1, <1>8 DEF LineState, Sends
  <2>2. part \in Seq(Seq(Nat)) /\ y \in Seq(Seq(Nat))
    <3> DEFINE Q == Seq(Nat)
    <3>1. << >> \in Seq(Q) /\ << << >> >> \in Seq(Q)
      OBVIOUS
    <3>2. part \in Seq(Q)
      BY <1>8, <3>1
    <3>3. line.wire \in Seq(Q)
      BY <1>1
    <3> HIDE DEF Q
    <3>4. y \in Seq(Q)
      BY <3>2, <3>3, ConcatProperties
    <3> QED BY <3>2, <3>4 DEF Q
  <2>3. FlattenSeq(part) = << >>
    <3>1. << >> \in Seq(Nat)
      OBVIOUS
    <3>2. FlattenSeq(<< << >> >>) = << >>
      BY <3>1, FlattenOne
    <3>3. FlattenSeq(<< >>) = << >>
      BY DEF FlattenSeq
    <3> QED BY <1>8, <3>2, <3>3
  <2>4. w \in WriterRec /\ w.all = line.w.all /\ w.left = line.w.left
    BY <1>1 DEF WriterRec
  <2>5. /\ kept \in Session /\ kept.done = line.ssl.done /\ kept.swapped = line.ssl.swapped
        /\ kept.out = IF line.ssl.out = << >> THEN line.w.all ELSE line.ssl.out
    BY <1>1 DEF Session
  <2>6. HasSent(line, t, y, kept, line.next, w)
    <3> HIDE DEF y, w, kept
    <3> QED BY <1>1, <2>2, <2>4, <2>5, SendsIs
  <2> HIDE DEF t, w, kept
  <2>7. /\ t \in LineState /\ SameReader(line, t) /\ t.wire = y /\ t.pending = line.pending
        /\ t.ssl = kept /\ t.next = line.next /\ t.w = w /\ t.acked = line.acked
    BY <2>6 DEF HasSent
  <2>8. t.got = line.got /\ t.tls = TRUE
    BY <1>2, <2>7 DEF SameReader
  <2>9. Carries(t) = Carries(line) \o FlattenSeq(part)
    <3>1. t.wire = line.wire \o part
      BY <2>7
    <3> QED BY <1>1, <2>2, <2>7, <2>8, <3>1, CarriesMore
  <2>10. Carries(t) = Carries(line)
    BY <1>1, <2>3, <2>9, ConcatEmptySeq
  <2>11. Sent(TRUE, Carries(line), line.next, kept, w, line.acked)
    BY <1>1, <1>3, <2>4, <2>5, SentStuck
  <2>12. Singles(t.tls, t.wire, t.pending)
    BY <2>8 DEF Singles
  <2>13. Sound(t)
    BY <2>7, <2>8, <2>10, <2>11, <2>12, SoundWriter
  <2> QED BY <2>1, <2>13
<1>9. \/ line' = B!WriteEnds(line, "SendFailed")
      \/ /\ out = << >> \/ gone <= Len(all)
         /\ line' = IF gone < Len(all) THEN sent ELSE B!WriteEnds(ended, "Ok")
      \/ \E part \in {<< >>, << << >> >>} :
           line' = [line EXCEPT !.wire = @ \o part, !.w.pc = "wants",
                                !.ssl.out = IF out = << >> THEN all ELSE out]
  BY DEF B!SSLSocketWritePart, B!Turn
<1> HIDE DEF a, gone, swapped, rest, over, sent, ended
<1> QED BY <1>5, <1>7, <1>8, <1>9

\* A record of a line closed at one end.
LEMMA CloseEndKeeps ==
  ASSUME StreamData, Sound(line), B!CloseWriter \/ B!CloseReader \/ B!Idle
  PROVE  Sound(line')
<1>1. line \in LineState
  BY DEF Sound
<1>2. ASSUME NEW t, t \in {[line EXCEPT !.down = TRUE], [line EXCEPT !.gone = TRUE]}
      PROVE  Sound(t)
  <2>1. t \in LineState
    BY <1>1, <1>2 DEF LineState
  <2>2. /\ t.tls = line.tls /\ t.got = line.got /\ t.r = line.r /\ t.last = line.last
        /\ t.wire = line.wire /\ t.pending = line.pending
    BY <1>1, <1>2 DEF LineState
  <2>3. t.next = line.next /\ t.ssl = line.ssl /\ t.w = line.w /\ t.acked = line.acked
    BY <1>1, <1>2 DEF LineState
  <2>4. Sent(line.tls, Carries(line), line.next, line.ssl, line.w, line.acked)
    BY DEF Sound
  <2> QED BY <2>1, <2>2, <2>3, <2>4, SoundKept DEF SameReader, SameBytes
<1> QED BY <1>2 DEF B!CloseWriter, B!CloseReader, B!Idle

\* The writer's side is as it was.
SameWriter(s, t) ==
  t.tls = s.tls /\ t.next = s.next /\ t.ssl = s.ssl /\ t.w = s.w /\ t.acked = s.acked

\* A line whose reader has heard what it has, even if that is all it wanted.
Hearing(s) ==
  /\ s \in LineState
  /\ Sent(s.tls, Carries(s), s.next, s.ssl, s.w, s.acked)
  /\ Singles(s.tls, s.wire, s.pending) /\ Told(s.last)
  /\ s.r \in ReaderRec /\ s.r # NULL
  /\ s.r.size = s.r.left + (Len(s.got) - s.r.had)

\* A reader that wants more is one.
LEMMA ReaderHears ==
  ASSUME NEW s, Sound(s), s.r # NULL
  PROVE  Hearing(s) /\ s.r.left > 0
BY DEF Sound, Hearing, Asked, LineState

\* A record of a line with the reader, and what it takes, replaced.
Takes(s, x, p, got, r) == [s EXCEPT !.wire = x, !.pending = p, !.got = got, !.r = r]

\* t is s with only these different.
HasTaken(s, t, x, p, got, r) ==
  /\ t \in LineState /\ SameWriter(s, t) /\ t.wire = x /\ t.pending = p
  /\ t.got = got /\ t.r = r /\ t.last = s.last

\* So it is.
LEMMA TakesIs ==
  ASSUME NEW s \in LineState, NEW x \in Seq(Seq(Nat)), NEW p \in Seq(Nat), NEW got \in Seq(Nat),
         NEW r \in ReaderRec \cup {NULL}
  PROVE  HasTaken(s, Takes(s, x, p, got, r), x, p, got, r)
<1>1. Takes(s, x, p, got, r) \in LineState
  BY DEF LineState, Takes
<1>2. SameWriter(s, Takes(s, x, p, got, r))
  BY DEF LineState, Takes, SameWriter
<1>3. /\ Takes(s, x, p, got, r).wire = x
      /\ Takes(s, x, p, got, r).pending = p
      /\ Takes(s, x, p, got, r).got = got
  BY DEF LineState, Takes
<1>4. /\ Takes(s, x, p, got, r).r = r
      /\ Takes(s, x, p, got, r).last = s.last
  BY DEF LineState, Takes
<1> QED BY <1>1, <1>2, <1>3, <1>4 DEF HasTaken

\* A line of the same writer that carries the same, read further.
LEMMA SoundReader ==
  ASSUME NEW s \in LineState, Sent(s.tls, Carries(s), s.next, s.ssl, s.w, s.acked),
         NEW t \in LineState, SameWriter(s, t), Carries(t) = Carries(s),
         Singles(t.tls, t.wire, t.pending), Asked(t.r, t.got), Told(t.last)
  PROVE  Sound(t)
BY DEF Sound, SameWriter

\* The reader at another place of its loop.
LEMMA ReaderMoves ==
  ASSUME NEW s, Hearing(s), s.r.left > 0, NEW pc \in {"check", "recv", "wants"}
  PROVE  Sound([s EXCEPT !.r.pc = pc])
<1> DEFINE r == [s.r EXCEPT !.pc = pc]
           t == Takes(s, s.wire, s.pending, s.got, r)
<1>1. /\ s \in LineState /\ s.r \in ReaderRec
      /\ s.wire \in Seq(Seq(Nat)) /\ s.pending \in Seq(Nat) /\ s.got \in Seq(Nat)
  BY DEF Hearing, LineState
<1>2. r \in ReaderRec /\ r.size = s.r.size /\ r.left = s.r.left /\ r.had = s.r.had
  BY <1>1 DEF ReaderRec
<1>3. [s EXCEPT !.r.pc = pc] = t
  BY <1>1 DEF Takes, LineState
<1> HIDE DEF r
<1>4. HasTaken(s, t, s.wire, s.pending, s.got, r)
  BY <1>1, <1>2, TakesIs
<1> HIDE DEF t
<1>5. Carries(t) = Carries(s) /\ SameWriter(s, t) /\ t \in LineState
  BY <1>4 DEF HasTaken, Carries
<1>6. Singles(t.tls, t.wire, t.pending) /\ Told(t.last)
  BY <1>4 DEF HasTaken, SameWriter, Hearing
<1>7. Asked(t.r, t.got)
  BY <1>2, <1>4 DEF HasTaken, Asked, Hearing
<1>8. Sent(s.tls, Carries(s), s.next, s.ssl, s.w, s.acked)
  BY DEF Hearing
<1>9. Sound(t)
  BY <1>1, <1>5, <1>6, <1>7, <1>8, SoundReader
<1> QED BY <1>3, <1>9

\* A read returns Ok when it has heard all, and something else when not.
LEMMA ReadReturns ==
  ASSUME StreamData, NEW s, Hearing(s), NEW result \in Results, result = "Ok" <=> s.r.left = 0
  PROVE  Sound(B!ReadEnds(s, result))
<1> DEFINE last == [res |-> result, byte |-> s.r.byte, want |-> s.r.size, heard |-> Len(s.got) - s.r.had,
                    unheard |-> Len(s.pending)]
           t == B!ReadEnds(s, result)
<1>1. /\ s \in LineState /\ s.r \in ReaderRec /\ s.got \in Seq(Nat) /\ s.pending \in Seq(Nat)
      /\ s.r.size = s.r.left + (Len(s.got) - s.r.had)
  BY DEF Hearing, LineState
<1>2. /\ Len(s.got) \in Nat /\ Len(s.pending) \in Nat
      /\ s.r.size \in Nat /\ s.r.left \in Nat /\ s.r.had \in Nat /\ s.r.byte \in BOOLEAN
  BY <1>1 DEF ReaderRec
<1>3. last \in ResultRec
  BY <1>2 DEF ResultRec
<1>4. Told(last)
  BY <1>1, <1>2 DEF Told
<1>5. t = [s EXCEPT !.r = NULL, !.last = last]
  BY DEF B!ReadEnds
<1> HIDE DEF last, t
<1>6. t \in LineState
  BY <1>1, <1>3, <1>5 DEF LineState
<1>7. t.r = NULL /\ t.last = last /\ t.wire = s.wire /\ t.pending = s.pending /\ t.got = s.got
  BY <1>1, <1>5 DEF LineState
<1>8. SameWriter(s, t)
  BY <1>1, <1>5 DEF LineState, SameWriter
<1>9. Carries(t) = Carries(s)
  BY <1>7 DEF Carries
<1>10. Singles(t.tls, t.wire, t.pending) /\ Asked(t.r, t.got)
  BY <1>7, <1>8 DEF Hearing, SameWriter, Asked
<1>11. Sent(s.tls, Carries(s), s.next, s.ssl, s.w, s.acked)
  BY DEF Hearing
<1>12. Sound(t)
  BY <1>1, <1>4, <1>6, <1>7, <1>8, <1>9, <1>10, <1>11, SoundReader
<1> QED BY <1>12 DEF t

\* A read is begun.
LEMMA StreamReadKeeps ==
  ASSUME StreamData, Sound(line), NEW byte \in BOOLEAN, NEW tooShort \in BOOLEAN,
         B!Read(byte, tooShort)
  PROVE  Sound(line')
<1>1. /\ line \in LineState
      /\ line.wire \in Seq(Seq(Nat)) /\ line.pending \in Seq(Nat) /\ line.got \in Seq(Nat)
  BY DEF Sound, LineState
<1>2. PICK size \in Wants :
        LET begun == [line EXCEPT !.r = [pc |-> "check", size |-> size, left |-> size,
                                         had |-> Len(line.got), byte |-> byte]]
        IN  line' = IF line.tls /\ tooShort /\ ~byte THEN B!ReadEnds(begun, "Timeout") ELSE begun
  BY DEF B!Read
<1> DEFINE r == [pc |-> "check", size |-> size, left |-> size, had |-> Len(line.got), byte |-> byte]
           t == Takes(line, line.wire, line.pending, line.got, r)
<1>3. line' = B!ReadEnds(t, "Timeout") \/ line' = t
  <2>1. [line EXCEPT !.r = r] = t
    BY <1>1 DEF Takes, LineState
  <2> HIDE DEF t
  <2> QED BY <1>2, <2>1
<1>4. size \in Nat /\ size > 0 /\ Len(line.got) \in Nat
  BY <1>1 DEF StreamData
<1>5. r \in ReaderRec /\ r.size = r.left + (Len(line.got) - r.had) /\ r.left > 0
  BY <1>4 DEF ReaderRec
<1> HIDE DEF r
<1>6. HasTaken(line, t, line.wire, line.pending, line.got, r)
  BY <1>1, <1>5, TakesIs
<1>7. r # NULL
  BY <1>5 DEF StreamData
<1> HIDE DEF t
<1>8. t \in LineState /\ SameWriter(line, t) /\ Carries(t) = Carries(line) /\ t.r = r /\ t.got = line.got
  BY <1>6 DEF HasTaken, Carries
<1>9. Singles(t.tls, t.wire, t.pending) /\ Told(t.last)
  BY <1>6 DEF HasTaken, SameWriter, Sound
<1>10. Sent(line.tls, Carries(line), line.next, line.ssl, line.w, line.acked)
  BY DEF Sound
<1>11. Sent(t.tls, Carries(t), t.next, t.ssl, t.w, t.acked)
  BY <1>8, <1>10 DEF SameWriter
<1>12. Hearing(t) /\ t.r.left > 0
  BY <1>5, <1>7, <1>8, <1>9, <1>11 DEF Hearing
<1>13. Sound(t)
  BY <1>5, <1>8, <1>9, <1>11 DEF Sound, Asked
<1>14. Sound(B!ReadEnds(t, "Timeout"))
  <2>1. t.r.left # 0
    BY <1>4, <1>12
  <2>2. "Timeout" \in Results /\ "Timeout" # "Ok"
    BY DEF Results
  <2> QED BY <1>12, <2>1, <2>2, ReadReturns
<1> QED BY <1>3, <1>13, <1>14

\* What a poll may return.
LEMMA PollResults ==
  B!CheckReadBuffer \subseteq Results /\ B!SSLCheckReadBuffer \subseteq Results
BY DEF Results, B!CheckReadBuffer, B!SSLCheckReadBuffer, B!CheckBase

\* The poll for bytes, and the one while a TLS record is not there whole.
LEMMA ReadChecksKeep ==
  ASSUME StreamData, Sound(line), B!ReadChecks \/ B!SSLReadWants
  PROVE  Sound(line')
<1>1. Hearing(line) /\ line.r.left > 0
  BY ReaderHears DEF B!ReadChecks, B!SSLReadWants, B!Reading
<1>2. line.r.left # 0
  BY <1>1
<1>3. ASSUME B!ReadChecks PROVE Sound(line')
  <2>1. PICK sr \in IF line.tls /\ ~line.r.byte THEN B!SSLCheckReadBuffer ELSE B!CheckReadBuffer :
          IF sr = "Ok" THEN B!ReadAt("recv") ELSE line' = B!ReadEnds(line, sr)
    BY <1>3 DEF B!ReadChecks
  <2>2. sr \in Results
    BY <2>1, PollResults
  <2>3. CASE sr = "Ok"
    BY <1>1, <2>1, <2>3, ReaderMoves DEF B!ReadAt
  <2>4. CASE sr # "Ok"
    BY <1>1, <1>2, <2>1, <2>2, <2>4, ReadReturns
  <2> QED BY <2>3, <2>4
<1>4. ASSUME B!SSLReadWants PROVE Sound(line')
  <2>1. \/ line' = [line EXCEPT !.r.pc = "check"]
        \/ line' = B!ReadEnds(line, "ReceiveFailed")
    BY <1>4 DEF B!SSLReadWants, B!ReadAt
  <2>2. "ReceiveFailed" \in Results /\ "ReceiveFailed" # "Ok"
    BY DEF Results
  <2> QED BY <1>1, <1>2, <2>1, <2>2, ReaderMoves, ReadReturns
<1> QED BY <1>3, <1>4

\* Bytes heard: what was taken off the wire is heard or pending, in its order.
LEMMA HeardKeeps ==
  ASSUME StreamData, Hearing(line),
         NEW x \in Seq(Seq(Nat)), NEW p \in Seq(Nat), NEW bytes \in Seq(Nat),
         Len(bytes) <= line.r.left, Singles(line.tls, x, p),
         ((line.got \o bytes) \o p) \o FlattenSeq(x) = Carries(line),
         NEW s, s = [line EXCEPT !.wire = x, !.pending = p]
  PROVE  Sound(B!Heard(s, bytes))
<1> DEFINE got == line.got \o bytes
           r == [line.r EXCEPT !.left = @ - Len(bytes), !.pc = "check"]
           more == [s EXCEPT !.got = @ \o bytes, !.r.left = @ - Len(bytes), !.r.pc = "check"]
           t == Takes(line, x, p, got, r)
<1>1. /\ line \in LineState /\ line.got \in Seq(Nat) /\ line.r \in ReaderRec
      /\ line.r.size = line.r.left + (Len(line.got) - line.r.had)
  BY DEF Hearing, LineState
<1>2. /\ line.r.size \in Nat /\ line.r.left \in Nat /\ line.r.had \in Nat
      /\ Len(line.got) \in Nat /\ Len(bytes) \in Nat
  BY <1>1 DEF ReaderRec
<1>3. got \in Seq(Nat) /\ Len(got) = Len(line.got) + Len(bytes)
  BY <1>1, ConcatProperties
<1>4. more = t
  <2>1. s.got = line.got /\ s.r = line.r
    BY <1>1 DEF LineState
  <2>2. more = [s EXCEPT !.got = got, !.r = r]
    BY <1>1, <2>1 DEF LineState, ReaderRec
  <2> HIDE DEF more, got, r
  <2> QED BY <1>1, <2>2 DEF Takes, LineState
<1>5. B!Heard(s, bytes) = IF more.r.left = 0 THEN B!ReadEnds(more, "Ok") ELSE more
  BY DEF B!Heard
<1> DEFINE n == Len(bytes)
<1>6. /\ r \in ReaderRec /\ r.left = line.r.left - n
      /\ r.size = line.r.size /\ r.had = line.r.had
  <2> HIDE DEF n
  <2>1. line.r.left - n \in Nat
    BY <1>2 DEF n
  <2>2. r = [line.r EXCEPT !.left = line.r.left - n, !.pc = "check"]
    BY <1>1 DEF n, ReaderRec
  <2> HIDE DEF r
  <2> QED BY <1>1, <2>1, <2>2 DEF ReaderRec
<1> HIDE DEF more, got, r, n
<1>7. HasTaken(line, t, x, p, got, r)
  BY <1>1, <1>3, <1>6, TakesIs
<1> HIDE DEF t
<1>8. /\ t \in LineState /\ SameWriter(line, t) /\ t.wire = x /\ t.pending = p
      /\ t.got = got /\ t.r = r /\ t.last = line.last
  BY <1>7 DEF HasTaken
<1>9. Carries(t) = Carries(line)
  BY <1>8 DEF Carries, got
<1>10. Sent(line.tls, Carries(line), line.next, line.ssl, line.w, line.acked) /\ Told(line.last)
  BY DEF Hearing
<1>11. Sent(t.tls, Carries(t), t.next, t.ssl, t.w, t.acked)
  BY <1>8, <1>9, <1>10 DEF SameWriter
<1>12. Singles(t.tls, t.wire, t.pending) /\ Told(t.last)
  BY <1>8, <1>10 DEF SameWriter
<1>13. r.size = r.left + (Len(got) - r.had)
  BY <1>1, <1>2, <1>3, <1>6, SMTT(60) DEF n
<1>14. r # NULL
  BY <1>6 DEF StreamData
<1>15. Hearing(t)
  BY <1>6, <1>8, <1>11, <1>12, <1>13, <1>14 DEF Hearing
<1>16. CASE t.r.left = 0
  <2>1. Sound(B!ReadEnds(t, "Ok"))
    BY <1>15, <1>16, ReadReturns DEF Results
  <2> QED BY <1>4, <1>5, <1>16, <2>1
<1>17. CASE t.r.left # 0
  <2>1. r.left \in Nat
    BY <1>6 DEF ReaderRec
  <2>2. r.left > 0
    BY <1>8, <1>17, <2>1
  <2>3. Asked(t.r, t.got)
    BY <1>8, <1>13, <2>2 DEF Asked
  <2>4. Sound(t)
    BY <1>8, <1>11, <1>12, <2>3 DEF Sound
  <2> QED BY <1>4, <1>5, <1>17, <2>4
<1> QED BY <1>16, <1>17

\* Four sequences in a row, what is in the middle taken to one side or the other.
FourInARow(a, b, c, d) ==
  /\ ((a \o b) \o c) \o d = (a \o (b \o c)) \o d
  /\ ((a \o b) \o << >>) \o d = (a \o << >>) \o (b \o d)
  /\ ((a \o b) \o c) \o d = (a \o << >>) \o ((b \o c) \o d)

\* It makes no difference either.
LEMMA FourTogether ==
  ASSUME NEW S, NEW a \in Seq(S), NEW b \in Seq(S), NEW c \in Seq(S), NEW d \in Seq(S)
  PROVE  FourInARow(a, b, c, d)
<1>1. (a \o b) \o c = a \o (b \o c)
  BY ThreeInARow, SMTT(60) DEF InARow
<1>2. a \o b \in Seq(S) /\ b \o c \in Seq(S)
  BY ConcatProperties
<1>3. (a \o b) \o << >> = a \o b /\ a \o << >> = a
  BY <1>2, ConcatEmptySeq
<1>4. InARow(a, b, d)
  BY ThreeInARow
<1> DEFINE u == b \o c
<1> HIDE DEF u
<1>5. InARow(a, u, d)
  BY <1>2, ThreeInARow DEF u
<1> QED BY <1>1, <1>3, <1>4, <1>5 DEF InARow, FourInARow, u

\* The parts of a sequence of single bytes.
LEMMA OnesParts ==
  ASSUME NEW Q, NEW s \in Seq(Q), NEW t \in Seq(Q), Ones(s \o t)
  PROVE  Ones(s) /\ Ones(t)
<1> DEFINE u == s \o t
           n == Len(s)
           m == Len(t)
<1>1. DOMAIN s = 1 .. n /\ DOMAIN t = 1 .. m /\ n \in Nat /\ m \in Nat
  BY LenProperties
<1>2. /\ u \in Seq(Q) /\ Len(u) = n + m
      /\ \A i \in 1 .. n + m : u[i] = IF i <= n THEN s[i] ELSE t[i - n]
  BY ConcatProperties
<1>3. DOMAIN u = 1 .. n + m
  BY <1>2, LenProperties
<1>4. \A i \in 1 .. n + m : Len(u[i]) = 1
  BY <1>3 DEF Ones
<1> HIDE DEF u, n, m
<1>5. ASSUME NEW i \in 1 .. n PROVE Len(s[i]) = 1
  <2>1. i \in 1 .. n + m /\ u[i] = s[i]
    BY <1>1, <1>2
  <2> QED BY <1>4, <2>1
<1>6. ASSUME NEW i \in 1 .. m PROVE Len(t[i]) = 1
  <2>1. n + i \in 1 .. n + m /\ ~(n + i <= n) /\ (n + i) - n = i
    BY <1>1
  <2>2. u[n + i] = t[i]
    BY <1>2, <2>1
  <2> QED BY <1>4, <2>1, <2>2
<1> QED BY <1>1, <1>5, <1>6 DEF Ones

\* Bytes received by a plain socket.
LEMMA SocketReadKeeps ==
  ASSUME StreamData, Sound(line), B!SocketRead
  PROVE  Sound(line')
<1>1. Hearing(line) /\ line.r.left > 0 /\ ~line.tls
  BY ReaderHears DEF B!SocketRead, B!Reading
<1>2. /\ line \in LineState /\ line.wire \in Seq(Seq(Nat)) /\ line.pending \in Seq(Nat)
      /\ line.got \in Seq(Nat) /\ line.r.left \in Nat
  BY <1>1 DEF Hearing, LineState, ReaderRec
<1>3. Ones(line.wire) /\ line.pending = << >>
  BY <1>1 DEF Hearing, Singles
<1>4. ASSUME line' = [line EXCEPT !.r.pc = "check"] \/ line' = B!ReadEnds(line, "ReceiveFailed")
      PROVE  Sound(line')
  <2>1. "ReceiveFailed" \in Results /\ "ReceiveFailed" # "Ok" /\ line.r.left # 0
    BY <1>1 DEF Results
  <2> QED BY <1>1, <1>4, <2>1, ReaderMoves, ReadReturns
<1>5. ASSUME NEW rc \in 1 .. Len(line.wire), rc <= line.r.left,
             line' = B!Heard([line EXCEPT !.wire = B!From(@, rc)], B!FlattenSeq(B!Upto(line.wire, rc)))
      PROVE  Sound(line')
  <2> DEFINE a == B!Upto(line.wire, rc)
             x == B!From(line.wire, rc)
             s == [line EXCEPT !.wire = x, !.pending = << >>]
             f == FlattenSeq(a)
             g == FlattenSeq(x)
             Q == Seq(Nat)
  <2>1. line' = B!Heard(s, f)
    <3>1. [line EXCEPT !.wire = B!From(@, rc)] = s
      BY <1>2, <1>3 DEF LineState
    <3>2. B!FlattenSeq(a) = f
      BY SameFlatten
    <3> HIDE DEF s, f
    <3> QED BY <1>5, <3>1, <3>2
  <2>2. IsCut(line.wire, rc, Q)
    <3>1. rc \in Nat /\ line.wire \in Seq(Q)
      BY <1>2
    <3> HIDE DEF Q
    <3> QED BY <3>1, UptoAndFrom
  <2>3. Len(line.wire) \in Nat
    BY <1>2, LenProperties
  <2>4. a \in Seq(Q) /\ x \in Seq(Q) /\ a \o x = line.wire /\ Len(a) = rc
    <3> HIDE DEF Q
    <3>1. (IF rc < Len(line.wire) THEN rc ELSE Len(line.wire)) = rc
      BY <2>3
    <3> QED BY <2>2, <3>1 DEF IsCut
  <2> HIDE DEF a, x
  <2>5. FlattenSeq(line.wire) = f \o g /\ f \in Seq(Nat) /\ (Ones(a) => AreThose(f, a))
    BY <2>4, FlattenSeqs DEF Flattens
  <2>6. g \in Seq(Nat)
    BY <2>4, FlattenSeqs DEF Flattens
  <2>7. Ones(a) /\ Ones(x)
    BY <1>3, <2>4, OnesParts, ZenonT(60)
  <2> HIDE DEF f, g, Q, s
  <2>8. Len(f) = rc
    BY <2>4, <2>5, <2>7 DEF AreThose
  <2>9. FourInARow(line.got, f, << >>, g)
    <3>1. << >> \in Seq(Nat)
      OBVIOUS
    <3> QED BY <1>2, <2>5, <2>6, <3>1, FourTogether
  <2>10. ((line.got \o f) \o << >>) \o FlattenSeq(x) = Carries(line)
    BY <1>3, <2>5, <2>9 DEF Carries, FourInARow, g
  <2>11. Singles(line.tls, x, << >>)
    BY <2>7 DEF Singles
  <2>12. << >> \in Seq(Nat) /\ x \in Seq(Seq(Nat)) /\ Len(f) <= line.r.left
    BY <1>5, <2>4, <2>8 DEF Q
  <2>13. Sound(B!Heard(s, f))
    BY <1>1, <2>5, <2>10, <2>11, <2>12, HeardKeeps DEF s
  <2> QED BY <2>1, <2>13
<1> QED BY <1>4, <1>5 DEF B!SocketRead, B!ReadAt

\* The first element of a sequence and the others.
HeadThenTail(s, Q) ==
  /\ Head(s) \in Q /\ Tail(s) \in Seq(Q) /\ << Head(s) >> \in Seq(Q)
  /\ << Head(s) >> \o Tail(s) = s

\* They are the sequence together.
LEMMA HeadAndTail ==
  ASSUME NEW Q, NEW s \in Seq(Q), s # << >>
  PROVE  HeadThenTail(s, Q)
<1> DEFINE h == Head(s)
           t == Tail(s)
           y == << h >>
<1>1. /\ h \in Q /\ t \in Seq(Q) /\ Len(s) \in Nat /\ Len(t) = Len(s) - 1 /\ Len(s) > 0
      /\ \A i \in 1 .. Len(t) : t[i] = s[i + 1]
  BY HeadTailProperties, EmptySeq, LenProperties
<1>2. h = s[1]
  OBVIOUS
<1> HIDE DEF h, t
<1>3. y \in Seq(Q) /\ Len(y) = 1 /\ y[1] = h
  BY <1>1
<1> HIDE DEF y
<1> DEFINE u == y \o t
<1>4. /\ u \in Seq(Q) /\ Len(u) = Len(y) + Len(t)
      /\ \A i \in 1 .. Len(y) + Len(t) : u[i] = IF i <= Len(y) THEN y[i] ELSE t[i - Len(y)]
  <2>1. y \in Seq(Q) /\ t \in Seq(Q)
    BY <1>1, <1>3
  <2> QED BY <2>1, ConcatProperties
<1> HIDE DEF u
<1>5. Len(u) = Len(s)
  BY <1>1, <1>3, <1>4
<1>6. ASSUME NEW i \in 1 .. Len(s) PROVE u[i] = s[i]
  <2>1. CASE i = 1
    BY <1>1, <1>2, <1>3, <1>4, <2>1
  <2>2. CASE i # 1
    <3>1. i - 1 \in 1 .. Len(t) /\ ~(i <= 1) /\ i \in 1 .. Len(y) + Len(t) /\ i - 1 + 1 = i
      BY <1>1, <1>3, <2>2
    <3>2. u[i] = t[i - 1]
      BY <1>3, <1>4, <3>1
    <3> QED BY <1>1, <3>1, <3>2
  <2> QED BY <2>1, <2>2
<1>7. u = s
  BY <1>4, <1>5, <1>6, SeqEqual
<1> QED BY <1>1, <1>3, <1>7 DEF HeadThenTail, u, y, h, t

\* A wire that is not empty is its first packet and the others.
LEMMA FirstPacket ==
  ASSUME NEW s \in Seq(Seq(Nat)), s # << >>
  PROVE  /\ Head(s) \in Seq(Nat) /\ Tail(s) \in Seq(Seq(Nat)) /\ FlattenSeq(Tail(s)) \in Seq(Nat)
         /\ FlattenSeq(s) = Head(s) \o FlattenSeq(Tail(s))
<1> DEFINE Q == Seq(Nat)
           h == Head(s)
           t == Tail(s)
           y == << h >>
<1>0. s \in Seq(Q)
  OBVIOUS
<1> HIDE DEF Q
<1>1. h \in Q /\ t \in Seq(Q) /\ s = y \o t /\ y \in Seq(Q)
  <2> HIDE DEF h, t, y
  <2>1. HeadThenTail(s, Q)
    BY <1>0, HeadAndTail
  <2> QED BY <2>1 DEF HeadThenTail, h, t, y
<1>2. FlattenSeq(y) = h
  BY <1>1, FlattenOne DEF Q
<1> HIDE DEF h, t, y
<1>3. FlattenSeq(y \o t) = FlattenSeq(y) \o FlattenSeq(t)
  BY <1>1, FlattenSeqs DEF Q, Flattens
<1>4. FlattenSeq(t) \in Seq(Nat)
  BY <1>1, FlattenSeqs DEF Q, Flattens
<1> QED BY <1>1, <1>2, <1>3, <1>4 DEF Q, h, t

\* A record of a TLS socket that yields no byte.
LEMMA EmptyRecordKeeps ==
  ASSUME StreamData, Hearing(line), line.r.left > 0, line.tls,
         line.pending = << >>, line.wire # << >>, Head(line.wire) = << >>, NEW n \in Nat,
         line' = [[line EXCEPT !.wire = Tail(@), !.pending = B!From(Head(line.wire), n)]
                    EXCEPT !.r.pc = "wants"]
  PROVE  Sound(line')
<1> DEFINE x == Tail(line.wire)
           g == FlattenSeq(x)
           t == Takes(line, x, << >>, line.got, line.r)
<1>1. /\ line \in LineState /\ line.wire \in Seq(Seq(Nat)) /\ line.got \in Seq(Nat)
      /\ line.r \in ReaderRec /\ line.r # NULL /\ line.r.size = line.r.left + (Len(line.got) - line.r.had)
      /\ Sent(line.tls, Carries(line), line.next, line.ssl, line.w, line.acked) /\ Told(line.last)
  BY DEF Hearing, LineState
<1>2. x \in Seq(Seq(Nat)) /\ g \in Seq(Nat) /\ FlattenSeq(line.wire) = << >> \o g
  BY <1>1, FirstPacket
<1>3. B!From(Head(line.wire), n) = << >>
  <2>1. SubSeq(<< >>, n + 1, 0) = << >>
    OBVIOUS
  <2> QED BY <2>1 DEF B!From
<1>4. line' = [t EXCEPT !.r.pc = "wants"]
  <2>1. [line EXCEPT !.wire = Tail(@), !.pending = B!From(Head(line.wire), n)] = t
    BY <1>1, <1>3 DEF LineState, Takes
  <2> HIDE DEF t
  <2> QED BY <2>1
<1>5. HasTaken(line, t, x, << >>, line.got, line.r)
  <2>1. << >> \in Seq(Nat)
    OBVIOUS
  <2> HIDE DEF x
  <2> QED BY <1>1, <1>2, <2>1, TakesIs
<1> HIDE DEF t
<1>6. /\ t \in LineState /\ SameWriter(line, t) /\ t.wire = x /\ t.pending = << >>
      /\ t.got = line.got /\ t.r = line.r /\ t.last = line.last
  BY <1>5 DEF HasTaken
<1>7. Carries(t) = Carries(line)
  <2>1. FlattenSeq(line.wire) = g
    BY <1>2, ConcatEmptySeq
  <2> QED BY <1>6, <2>1 DEF Carries
<1>8. Sent(t.tls, Carries(t), t.next, t.ssl, t.w, t.acked) /\ Singles(t.tls, t.wire, t.pending)
  BY <1>1, <1>6, <1>7 DEF SameWriter, Singles
<1>9. Hearing(t) /\ t.r.left > 0
  BY <1>1, <1>6, <1>8 DEF Hearing
<1>10. Sound([t EXCEPT !.r.pc = "wants"])
  BY <1>9, ReaderMoves
<1> QED BY <1>4, <1>10

\* Bytes given by SSL_read.
LEMMA SSLSocketReadKeeps ==
  ASSUME StreamData, Sound(line), B!SSLSocketRead
  PROVE  Sound(line')
<1>1. Hearing(line) /\ line.r.left > 0 /\ line.tls
  BY ReaderHears DEF B!SSLSocketRead, B!Reading
<1>2. /\ line \in LineState /\ line.wire \in Seq(Seq(Nat)) /\ line.pending \in Seq(Nat)
      /\ line.got \in Seq(Nat) /\ line.r.left \in Nat
  BY <1>1 DEF Hearing, LineState, ReaderRec
<1> DEFINE n == IF line.r.left < RbufLen THEN line.r.left ELSE RbufLen
<1>3. n \in Nat /\ n <= line.r.left
  BY <1>2 DEF StreamData
<1>4. ASSUME NEW s \in Seq(Nat)
      PROVE  /\ B!Upto(s, n) \in Seq(Nat) /\ B!From(s, n) \in Seq(Nat)
             /\ B!Upto(s, n) \o B!From(s, n) = s /\ Len(B!Upto(s, n)) <= line.r.left
  <2> HIDE DEF n
  <2>1. IsCut(s, n, Nat)
    BY <1>3, UptoAndFrom
  <2>2. Len(s) \in Nat
    BY LenProperties
  <2>3. (IF n < Len(s) THEN n ELSE Len(s)) <= line.r.left
    BY <1>2, <1>3, <2>2
  <2> QED BY <2>1, <2>3 DEF IsCut
<1>5. CASE /\ line.pending # << >>
           /\ line' = B!Heard([line EXCEPT !.pending = B!From(@, n)], B!Upto(line.pending, n))
  <2> DEFINE a == B!Upto(line.pending, n)
             p == B!From(line.pending, n)
             s == [line EXCEPT !.wire = line.wire, !.pending = p]
             g == FlattenSeq(line.wire)
  <2>1. a \in Seq(Nat) /\ p \in Seq(Nat) /\ a \o p = line.pending /\ Len(a) <= line.r.left
    BY <1>2, <1>4
  <2>2. line' = B!Heard(s, a)
    <3>1. [line EXCEPT !.pending = B!From(@, n)] = s
      BY <1>2 DEF LineState
    <3> HIDE DEF s
    <3> QED BY <1>5, <3>1
  <2> HIDE DEF a, p, s
  <2>3. g \in Seq(Nat)
    BY <1>2, FlattenSeqs DEF Flattens
  <2> HIDE DEF g
  <2>4. FourInARow(line.got, a, p, g)
    BY <1>2, <2>1, <2>3, FourTogether
  <2>5. ((line.got \o a) \o p) \o FlattenSeq(line.wire) = Carries(line)
    BY <2>1, <2>4 DEF Carries, FourInARow, g
  <2>6. Singles(line.tls, line.wire, p)
    BY <1>1, SMTT(60) DEF Singles
  <2>7. Sound(B!Heard(s, a))
    BY <1>1, <1>2, <2>1, <2>5, <2>6, HeardKeeps DEF s
  <2> QED BY <2>2, <2>7
<1>6. CASE /\ line.pending = << >> /\ line.wire # << >>
           /\ LET rest == [line EXCEPT !.wire = Tail(@), !.pending = B!From(Head(line.wire), n)]
              IN  line' = IF Head(line.wire) = << >> THEN [rest EXCEPT !.r.pc = "wants"]
                          ELSE B!Heard(rest, B!Upto(Head(line.wire), n))
  <2>1. CASE Head(line.wire) = << >>
    <3>1. line' = [[line EXCEPT !.wire = Tail(@), !.pending = B!From(Head(line.wire), n)]
                     EXCEPT !.r.pc = "wants"]
      BY <1>6, <2>1
    <3> HIDE DEF n
    <3> QED BY <1>1, <1>3, <1>6, <2>1, <3>1, EmptyRecordKeeps
  <2>2. CASE Head(line.wire) # << >>
    <3> DEFINE h == Head(line.wire)
               x == Tail(line.wire)
               a == B!Upto(h, n)
               p == B!From(h, n)
               s == [line EXCEPT !.wire = x, !.pending = p]
               g == FlattenSeq(x)
    <3>1. h \in Seq(Nat) /\ x \in Seq(Seq(Nat)) /\ g \in Seq(Nat) /\ FlattenSeq(line.wire) = h \o g
      BY <1>2, <1>6, FirstPacket
    <3>2. a \in Seq(Nat) /\ p \in Seq(Nat) /\ a \o p = h /\ Len(a) <= line.r.left
      BY <1>4, <3>1
    <3>3. line' = B!Heard(s, a)
      <4>1. [line EXCEPT !.wire = Tail(@), !.pending = B!From(Head(line.wire), n)] = s
        BY <1>2 DEF LineState
      <4> HIDE DEF s
      <4> QED BY <1>6, <2>2, <4>1
    <3> HIDE DEF a, p, s, g, h, x
    <3>4. FourInARow(line.got, a, p, g)
      BY <1>2, <3>1, <3>2, FourTogether
    <3>5. ((line.got \o a) \o p) \o FlattenSeq(x) = Carries(line)
      BY <1>6, <3>1, <3>2, <3>4 DEF Carries, FourInARow, g
    <3>6. Singles(line.tls, x, p)
      BY <1>1, SMTT(60) DEF Singles
    <3>7. Sound(B!Heard(s, a))
      BY <1>1, <3>1, <3>2, <3>5, <3>6, HeardKeeps DEF s
    <3> QED BY <3>3, <3>7
  <2> QED BY <2>1, <2>2
<1>7. CASE line' = B!ReadEnds(line, "ReceiveFailed") \/ line' = [line EXCEPT !.r.pc = "wants"]
  <2>1. "ReceiveFailed" \in Results /\ "ReceiveFailed" # "Ok" /\ line.r.left # 0
    BY <1>1 DEF Results
  <2> QED BY <1>1, <1>7, <2>1, ReaderMoves, ReadReturns
<1> QED BY <1>5, <1>6, <1>7 DEF B!SSLSocketRead, B!ReadAt

\* It holds before anything was sent.
LEMMA StreamInit ==
  ASSUME StreamData, B!Init
  PROVE  Sound(line)
<1>1. PICK tls \in BOOLEAN, first \in {<< >>, << << >> >>} :
        /\ ~tls => first = << >>
        /\ line = [tls |-> tls, wire |-> first, pending |-> << >>, next |-> 1,
                   ssl |-> [out |-> << >>, done |-> 0, swapped |-> {}],
                   acked |-> {}, got |-> << >>, down |-> FALSE, gone |-> FALSE,
                   w |-> NULL, r |-> NULL, last |-> NULL]
  BY DEF B!Init
<1>2. << >> \in Seq(Nat) /\ << >> \in Seq(Seq(Nat)) /\ << << >> >> \in Seq(Seq(Nat))
  OBVIOUS
<1>3. first \in Seq(Seq(Nat)) /\ FlattenSeq(first) = << >>
  <2>1. FlattenSeq(<< << >> >>) = << >>
    BY <1>2, FlattenOne
  <2>2. FlattenSeq(<< >>) = << >>
    BY DEF FlattenSeq
  <2> HIDE <1>1
  <2>3. first = << >> \/ first = << << >> >>
    OBVIOUS
  <2> QED BY <1>2, <2>1, <2>2, <2>3
<1>4. line \in LineState
  BY <1>1, <1>2, <1>3 DEF LineState, Session
<1>5. /\ line.tls = tls /\ line.wire = first /\ line.pending = << >>
      /\ line.ssl = [out |-> << >>, done |-> 0, swapped |-> {}]
      /\ line.acked = {} /\ line.got = << >>
      /\ line.w = NULL /\ line.r = NULL /\ line.last = NULL
  BY <1>1
<1>6. Carries(line) = << >>
  <2>1. (<< >> \o << >>) \o << >> = << >>
    BY <1>2, ConcatEmptySeq
  <2> QED BY <1>3, <1>5, <2>1 DEF Carries
<1>7. Sent(line.tls, Carries(line), line.next, line.ssl, line.w, line.acked)
  <2>1. B!Upto(<< >>, 0) = << >> /\ B!From(<< >>, 0) = << >>
    BY CutNothing
  <2> QED BY <1>5, <1>6, <2>1, NothingRises DEF Sent, InHand, Holds, Settled
<1>8. Singles(line.tls, line.wire, line.pending)
  <2>1. Ones(<< >>)
    BY DEF Ones
  <2>2. ~tls => first = << >>
    BY <1>1
  <2> QED BY <1>5, <2>1, <2>2 DEF Singles
<1> QED BY <1>4, <1>5, <1>7, <1>8 DEF Sound, Asked, Told

\* Every step of the stream keeps it.
LEMMA StreamStep ==
  ASSUME StreamData, Sound(line), [B!Next]_(B!vars)
  PROVE  Sound(line')
<1>1. CASE \E byte, tooShort \in BOOLEAN : B!Write(byte, tooShort) \/ B!Read(byte, tooShort)
  BY <1>1, WriteKeepsOrder, StreamReadKeeps
<1>2. CASE B!WriteChecks \/ B!SocketWritePart \/ B!SSLSocketWritePart \/ B!SSLWriteWants
  BY <1>2, WriteChecksKeep, WritePartKeeps, SSLWritePartKeeps
<1>3. CASE B!ReadChecks \/ B!SocketRead \/ B!SSLSocketRead \/ B!SSLReadWants
  BY <1>3, ReadChecksKeep, SocketReadKeeps, SSLSocketReadKeeps
<1>4. CASE B!CloseWriter \/ B!CloseReader \/ B!Idle
  BY <1>4, CloseEndKeeps
<1>5. CASE UNCHANGED B!vars
  BY <1>5 DEF B!vars
<1> QED BY <1>1, <1>2, <1>3, <1>4, <1>5 DEF B!Next

\* It gives the property.
LEMMA SoundIsStreamSound == Sound(line) => B!StreamSound
<1> SUFFICES ASSUME Sound(line) PROVE B!StreamSound
  OBVIOUS
<1>1. B!Carried = Carries(line)
  BY SameFlatten DEF B!Carried, Carries
<1>2. /\ Rising(Carries(line)) /\ line.acked \ line.ssl.swapped \subseteq ToSet(Carries(line))
      /\ line.tls /\ line.ssl.swapped = {} =>
           ToSet(Carries(line)) = line.acked \cup ToSet(B!Upto(line.ssl.out, line.ssl.done))
  BY DEF Sound, Sent, Settled
<1>3. line.last # NULL => (line.last.res = "Ok" <=> line.last.heard = line.last.want)
  BY DEF Sound, Told
<1> QED BY <1>1, <1>2, <1>3, SameRange DEF B!StreamSound, Rising

\* The bytes of a socket, plain or over TLS, for any messages, records, reads and buffer
\* sizes, however polls time out, transfers stop part way and calls are tried again:
\* none comes twice or out of order; a write that returned Ok left all of its bytes with
\* the peer's system, but for those of a TLS message that found its buffer where the one
\* OpenSSL was stuck with had been; until that happens a TLS socket has sent what it
\* acknowledged and whole records of one message more, none of it where the message is
\* one record; and a read returned Ok exactly when it heard all it was asked for.
THEOREM StreamInOrder ==
  ASSUME StreamData
  PROVE  B!Spec => []B!StreamSound
<1>1. B!Init => Sound(line)
  BY StreamInit
<1>2. Sound(line) /\ [B!Next]_(B!vars) => Sound(line)'
  BY StreamStep
<1>3. Sound(line) => B!StreamSound
  BY SoundIsStreamSound
<1> QED BY <1>1, <1>2, <1>3, PTL DEF B!Spec

------------------------------------------------------------------------------
(* Process.tla, for any processes, pipes between them, line ends and       *)
(* output: what a Start that fails leaves open, who reaps a child, and     *)
(* what the clients and the processes that are piped to are sent.          *)
CONSTANTS Proc, Types, Environs, Overrides, LineEnd, MaxOut, MaxStarts
VARIABLE kids

K == INSTANCE Process WITH st <- kids

Modes == {"r", "w", "e"}
PipeEnds   == Proc \X {"in", "out", "err", "exec"} \X {"r", "w"}
ProcRec ==
  [status : {"none", "idle", "running", "suspended", "exited"}, type : SUBSET Modes,
   pipe_from : Proc \cup {NULL}, pipe_to : Proc \cup {NULL}, ends : SUBSET PipeEnds,
   reader : {"none", "start", "loop", "done"}, closed : SUBSET {"out", "err"}, stdbuf : Seq(Nat),
   child : {"none", "running", "stopped", "zombie", "reaped"},
   out : Seq(Nat), err : Nat, in : Seq(Nat \X Nat), wrote : Nat, got : Seq(Nat), gotErr : Nat,
   wroteErr : Nat, piped : BOOLEAN, run : Nat]

\* How Start is called; NULL is no process.
ProcessData == Types \subseteq Proc \X SUBSET Modes /\ NULL \notin Proc

Active(q) == q.reader \in {"start", "loop"}
Over(q)   == q.child \in {"zombie", "reaped"}
Drawn(q)  == q.wrote - Len(q.out)

\* The pipes of the process x, whose record is q.
HasEnds(q, x) ==
  /\ \A f \in q.ends : f[1] = x
  /\ Active(q) => {<<x, "out", "r">>, <<x, "err", "r">>} \subseteq q.ends

\* What is not the reader's is closed for it; a client asks for it, and nothing is
\* taken from it that the client does not get.
Asks(q) ==
  /\ q.piped \/ q.pipe_to = NULL
  /\ "r" \in q.type /\ ~q.piped =>
       /\ q.reader = "loop" => "out" \in q.closed
       /\ Len(q.got) = Drawn(q) /\ \A i \in 1 .. Len(q.got) : q.got[i] = i
  /\ "e" \in q.type =>
       /\ q.reader = "loop" => "err" \in q.closed
       /\ q.gotErr + q.err = q.wroteErr

\* The reader of a process nobody reads closes an output when it has come to its end.
Drains(q) ==
  q.type = {"w"} =>
    /\ q.reader = "loop" /\ "out" \in q.closed => Over(q) /\ q.out = << >>
    /\ q.reader = "loop" /\ "err" \in q.closed => Over(q) /\ q.err = 0
    /\ q.reader = "done" => Over(q) /\ q.out = << >> /\ q.err = 0

\* The characters of the output: the last ones are there still, older ones the reader
\* has put by.
Counts(q) ==
  /\ Len(q.out) <= q.wrote
  /\ \A i \in 1 .. Len(q.out) : q.out[i] = Drawn(q) + i
  /\ \A i, j \in DOMAIN q.stdbuf : i < j => q.stdbuf[i] < q.stdbuf[j]
  /\ \A d \in ToSet(q.stdbuf) : d <= Drawn(q) /\ d \notin LineEnd

\* The characters of one run are in order among what a process was sent.
Heard(q) ==
  /\ \A e \in ToSet(q.in) : e[2] \notin LineEnd
  /\ \A i, j \in DOMAIN q.in : j < i /\ q.in[j][1] = q.in[i][1] => q.in[j][2] < q.in[i][2]

Own(q, x) ==
  /\ q \in ProcRec
  /\ HasEnds(q, x) /\ Asks(q) /\ Drains(q) /\ Counts(q) /\ Heard(q)
  /\ q.status \in {"running", "suspended"} <=> q.child \in {"running", "stopped", "zombie"}

\* What r was sent of the run of q comes before all that q's reader has yet to send.
Before(q, r) ==
  Active(q) => \A e \in ToSet(r.in) : e[1] = q.run =>
                 e[2] <= Drawn(q) /\ \A d \in ToSet(q.stdbuf) : e[2] < d

KidsState == [p : [Proc -> ProcRec], open : SUBSET PipeEnds, starts : Nat,
              main : [call : {"wait", "destroy"}, of : Proc] \cup {NULL}]

\* The inductive invariant, of a state s: a run has a number of its own, and the
\* program has open what its processes say.
KidsSound(s) ==
  /\ s \in KidsState
  /\ s.open = UNION {s.p[x].ends : x \in Proc}
  /\ \A x \in Proc :
       /\ Own(s.p[x], x)
       /\ \A e \in ToSet(s.p[x].in) : e[1] < s.starts
       /\ Active(s.p[x]) => s.p[x].run < s.starts
  /\ \A x, y \in Proc :
       /\ Before(s.p[x], s.p[y])
       /\ x # y /\ Active(s.p[x]) /\ Active(s.p[y]) => s.p[x].run # s.p[y].run

\* The process q becomes r: the same run with no older character to send, or none.
\* Or a new run, of the number n.
Continues(q, r) ==
  /\ ToSet(r.in) \subseteq ToSet(q.in)
  /\ Active(r) => /\ Active(q) /\ r.run = q.run /\ Drawn(q) <= Drawn(r)
                  /\ \A d \in ToSet(r.stdbuf) : d \in ToSet(q.stdbuf) \/ Drawn(q) < d
Fresh(r, n) == ToSet(r.in) = {} /\ r.run = n

\* The numbers of a process's record, for the provers.
LEMMA DrawnType ==
  ASSUME NEW q \in ProcRec
  PROVE  /\ Drawn(q) \in Int /\ q.run \in Nat /\ ToSet(q.stdbuf) \subseteq Nat
         /\ \A e \in ToSet(q.in) : e[1] \in Nat /\ e[2] \in Nat
<1>1. /\ q.out \in Seq(Nat) /\ q.stdbuf \in Seq(Nat) /\ q.in \in Seq(Nat \X Nat)
      /\ q.wrote \in Nat /\ q.run \in Nat
  BY DEF ProcRec
<1>2. Len(q.out) \in Nat
  BY <1>1, LenProperties
<1>3. /\ \A i \in DOMAIN q.stdbuf : q.stdbuf[i] \in Nat
      /\ \A i \in DOMAIN q.in : q.in[i] \in Nat \X Nat
  BY <1>1, LenProperties
<1> QED BY <1>1, <1>2, <1>3 DEF Drawn, ToSet

\* What is in order stays so.
LEMMA BeforeContinues ==
  ASSUME NEW q \in ProcRec, NEW q2 \in ProcRec, NEW r \in ProcRec, NEW r2 \in ProcRec,
         Before(q, r), Continues(q, q2), ToSet(r2.in) \subseteq ToSet(r.in)
  PROVE  Before(q2, r2)
<1> SUFFICES ASSUME Active(q2), NEW e \in ToSet(r2.in), e[1] = q2.run
             PROVE  e[2] <= Drawn(q2) /\ \A d \in ToSet(q2.stdbuf) : e[2] < d
  BY DEF Before
<1>1. e \in ToSet(r.in) /\ e[1] = q.run /\ Drawn(q) <= Drawn(q2)
  BY DEF Continues
<1>2. e[2] <= Drawn(q) /\ \A d \in ToSet(q.stdbuf) : e[2] < d
  BY <1>1 DEF Before, Continues
<1>3. Drawn(q) \in Int /\ Drawn(q2) \in Int /\ e[2] \in Nat /\ ToSet(q2.stdbuf) \subseteq Nat
  BY <1>1, DrawnType
<1>4. \A d \in ToSet(q2.stdbuf) : d \in ToSet(q.stdbuf) \/ Drawn(q) < d
  BY DEF Continues
<1> QED BY <1>1, <1>2, <1>3, <1>4

\* A step keeps the invariant when every process stays sound and continues, but that
\* one may start.
LEMMA KidsKeep ==
  ASSUME NEW s, NEW t, KidsSound(s), t \in KidsState, s.starts <= t.starts,
         t.open = UNION {t.p[y].ends : y \in Proc},
         NEW x \in Proc,
         \A y \in Proc : Own(t.p[y], y),
         \A y \in Proc \ {x} : Continues(s.p[y], t.p[y]),
         Continues(s.p[x], t.p[x]) \/ (Fresh(t.p[x], s.starts) /\ s.starts < t.starts)
  PROVE  KidsSound(t)
<1>1. /\ s.starts \in Nat /\ t.starts \in Nat
      /\ \A y \in Proc : s.p[y] \in ProcRec /\ t.p[y] \in ProcRec
  BY DEF KidsSound, KidsState
<1>2. \A y \in Proc : /\ \A e \in ToSet(s.p[y].in) : e[1] \in Nat /\ e[1] < s.starts
                      /\ s.p[y].run \in Nat /\ t.p[y].run \in Nat
                      /\ Active(s.p[y]) => s.p[y].run < s.starts
  BY <1>1, DrawnType DEF KidsSound
<1>3. \A y \in Proc : ToSet(t.p[y].in) \subseteq ToSet(s.p[y].in)
  BY DEF Continues, Fresh
<1>4. \A y \in Proc : Active(t.p[y]) =>
        \/ Active(s.p[y]) /\ t.p[y].run = s.p[y].run
        \/ y = x /\ t.p[y].run = s.starts /\ s.starts < t.starts
  BY DEF Continues, Fresh
<1>5. ASSUME NEW y \in Proc
      PROVE  /\ \A e \in ToSet(t.p[y].in) : e[1] < t.starts
             /\ Active(t.p[y]) => t.p[y].run < t.starts
  BY <1>1, <1>2, <1>3, <1>4
<1>6. ASSUME NEW y \in Proc, NEW z \in Proc, y # z, Active(t.p[y]), Active(t.p[z])
      PROVE  t.p[y].run # t.p[z].run
  <2>1. Active(s.p[y]) /\ Active(s.p[z]) => s.p[y].run # s.p[z].run
    BY <1>6 DEF KidsSound
  <2> QED BY <1>1, <1>2, <1>4, <1>6, <2>1
<1>7. ASSUME NEW y \in Proc, NEW z \in Proc
      PROVE  Before(t.p[y], t.p[z])
  <2>1. CASE Continues(s.p[y], t.p[y])
    <3>1. Before(s.p[y], s.p[z])
      BY DEF KidsSound
    <3> QED BY <1>1, <1>3, <2>1, <3>1, BeforeContinues
  <2>2. CASE Fresh(t.p[y], s.starts)
    <3>1. \A e \in ToSet(t.p[z].in) : e[1] # t.p[y].run
      BY <1>1, <1>2, <1>3, <2>2 DEF Fresh
    <3> QED BY <3>1 DEF Before
  <2> QED BY <2>1, <2>2
<1> QED BY <1>5, <1>6, <1>7 DEF KidsSound

\* A process continues when nothing of it changes.
LEMMA SameContinues == ASSUME NEW q \in ProcRec PROVE Continues(q, q)
BY DrawnType DEF Continues

\* A step that changes one process, which continues, and where the program is.
LEMMA OneKeeps ==
  ASSUME NEW s, KidsSound(s), NEW x \in Proc, NEW q, Own(q, x), Continues(s.p[x], q),
         q.ends = s.p[x].ends,
         NEW m \in [call : {"wait", "destroy"}, of : Proc] \cup {NULL}
  PROVE  KidsSound([s EXCEPT !.p = [s.p EXCEPT ![x] = q], !.main = m])
<1> DEFINE t == [s EXCEPT !.p = [s.p EXCEPT ![x] = q], !.main = m]
<1>1. /\ s \in KidsState /\ s.p \in [Proc -> ProcRec] /\ q \in ProcRec /\ s.starts \in Nat
      /\ s.open = UNION {s.p[y].ends : y \in Proc} /\ \A y \in Proc : Own(s.p[y], y)
  BY DEF KidsSound, KidsState, Own
<1>2. t \in KidsState /\ t.p = [s.p EXCEPT ![x] = q] /\ t.open = s.open /\ t.starts = s.starts
  BY <1>1 DEF KidsState
<1>3. t.p[x] = q /\ \A y \in Proc \ {x} : t.p[y] = s.p[y]
  BY <1>1, <1>2
<1> HIDE DEF t
<1>4. t.open = UNION {t.p[y].ends : y \in Proc}
  BY <1>1, <1>2, <1>3
<1>5. /\ \A y \in Proc : Own(t.p[y], y) /\ Continues(s.p[y], t.p[y])
  BY <1>1, <1>3, SameContinues
<1>6. KidsSound(t)
  BY <1>1, <1>2, <1>4, <1>5, KidsKeep
<1> QED BY <1>6 DEF t

\* What every step has of the process it is about.
LEMMA KidIs ==
  ASSUME KidsSound(kids), NEW x \in Proc
  PROVE  /\ K!P(x) = kids.p[x] /\ kids.p[x] \in ProcRec /\ Own(kids.p[x], x)
         /\ kids.main \in [call : {"wait", "destroy"}, of : Proc] \cup {NULL}
         /\ kids \in KidsState /\ kids.p \in [Proc -> ProcRec]
BY DEF KidsSound, KidsState, Own, K!P

\* The program stops a child, lets it run on, signals it or waits for it, or takes a
\* process that was destroyed for a new one.
LEMMA QuietKeeps ==
  ASSUME KidsSound(kids), NEW x \in Proc,
         K!Suspend(x) \/ K!Resume(x) \/ K!Kill(x) \/ K!Wait(x) \/ K!WaitJoin(x) \/ K!Create(x)
  PROVE  KidsSound(kids')
<1> DEFINE p == kids.p[x]
           q(a, c, r) == [p EXCEPT !.status = a, !.child = c, !.reader = r]
           to(a, c, r, m) == [kids EXCEPT !.p = [kids.p EXCEPT ![x] = q(a, c, r)], !.main = m]
<1>1. p \in ProcRec /\ Own(p, x) /\ K!P(x) = p /\ kids \in KidsState /\ kids.p \in [Proc -> ProcRec]
  BY KidIs
<1>2. ASSUME NEW a \in {"none", "idle", "running", "suspended", "exited"},
             NEW c \in {"none", "running", "stopped", "zombie", "reaped"},
             a \in {"running", "suspended"} <=> c \in {"running", "stopped", "zombie"},
             Over(p) => c \in {"zombie", "reaped"},
             NEW r \in {p.reader} \cup {"none"}, r = "none" => ~Active(p),
             NEW m \in [call : {"wait", "destroy"}, of : Proc] \cup {NULL}
      PROVE  KidsSound(to(a, c, r, m))
  <2>1. q(a, c, r) \in ProcRec
    BY <1>1, ZenonT(60) DEF ProcRec
  <2>2. /\ q(a, c, r).status = a /\ q(a, c, r).child = c /\ q(a, c, r).reader = r
        /\ q(a, c, r).type = p.type /\ q(a, c, r).pipe_to = p.pipe_to /\ q(a, c, r).ends = p.ends
        /\ q(a, c, r).closed = p.closed /\ q(a, c, r).stdbuf = p.stdbuf /\ q(a, c, r).out = p.out
        /\ q(a, c, r).err = p.err /\ q(a, c, r).in = p.in /\ q(a, c, r).wrote = p.wrote
        /\ q(a, c, r).got = p.got /\ q(a, c, r).gotErr = p.gotErr /\ q(a, c, r).run = p.run
        /\ q(a, c, r).wroteErr = p.wroteErr /\ q(a, c, r).piped = p.piped
    BY <1>1 DEF ProcRec
  <2> HIDE DEF q
  <2>3. HasEnds(q(a, c, r), x) /\ Asks(q(a, c, r))
    BY <1>1, <1>2, <2>2 DEF Own, HasEnds, Asks, Active, Drawn
  <2>4. Drains(q(a, c, r)) /\ Counts(q(a, c, r)) /\ Heard(q(a, c, r))
    BY <1>1, <1>2, <2>2 DEF Own, Drains, Counts, Heard, Over, Drawn
  <2>5. Own(q(a, c, r), x)
    BY <1>2, <2>1, <2>2, <2>3, <2>4 DEF Own
  <2>6. Continues(p, q(a, c, r))
    BY <1>1, <1>2, <2>2, DrawnType DEF Continues, Active, Drawn
  <2> QED BY <1>2, <2>2, <2>5, <2>6, OneKeeps
<1>3. /\ p.status \in {"running", "suspended"} <=> p.child \in {"running", "stopped", "zombie"}
      /\ p.status \in {"none", "idle", "running", "suspended", "exited"}
      /\ p.child \in {"none", "running", "stopped", "zombie", "reaped"}
      /\ kids.main \in [call : {"wait", "destroy"}, of : Proc] \cup {NULL}
      /\ p.reader = "none" => ~Active(p)
  BY <1>1, KidIs DEF Own, ProcRec, Active
<1> DEFINE at(a, c, r) == [kids EXCEPT !.p = [kids.p EXCEPT ![x] = q(a, c, r)]]
<1>4. \A a, c, r : at(a, c, r) = to(a, c, r, kids.main)
  BY <1>1 DEF KidsState
<1> DEFINE u(a, c) == [p EXCEPT !.status = a, !.child = c]
<1>5. \A a, c : u(a, c) = q(a, c, p.reader)
  BY <1>1 DEF ProcRec
<1>6. ASSUME K!Suspend(x) PROVE KidsSound(kids')
  <2> DEFINE c == IF p.child = "zombie" THEN "zombie" ELSE "stopped"
  <2>1. p.status = "running" /\ kids' = at("suspended", c, p.reader)
    <3>1. kids' = [kids EXCEPT !.p = [kids.p EXCEPT ![x] = u("suspended", c)]]
      BY <1>1, <1>6 DEF K!Suspend, K!Running, KidsState
    <3>2. p.status = "running"
      BY <1>1, <1>6 DEF K!Suspend, K!Running
    <3> HIDE DEF u, q, c
    <3> QED BY <1>5, <3>1, <3>2
  <2>2. KidsSound(to("suspended", c, p.reader, kids.main))
    <3>1. /\ c \in {"running", "stopped", "zombie"} /\ (Over(p) => c \in {"zombie", "reaped"})
          /\ kids.main \in [call : {"wait", "destroy"}, of : Proc] \cup {NULL}
      BY <1>3, <2>1 DEF Over
    <3> HIDE DEF c, to
    <3> QED BY <1>2, <1>3, <3>1
  <2> HIDE DEF at, to
  <2> QED BY <1>4, <2>1, <2>2
<1>7. ASSUME K!Resume(x) PROVE KidsSound(kids')
  <2> DEFINE c == IF p.child = "zombie" THEN "zombie" ELSE "running"
  <2>1. p.status = "suspended" /\ kids' = at("running", c, p.reader)
    <3>1. kids' = [kids EXCEPT !.p = [kids.p EXCEPT ![x] = u("running", c)]]
      BY <1>1, <1>7 DEF K!Resume, KidsState
    <3>2. p.status = "suspended"
      BY <1>1, <1>7 DEF K!Resume
    <3> HIDE DEF u, q, c
    <3> QED BY <1>5, <3>1, <3>2
  <2>2. KidsSound(to("running", c, p.reader, kids.main))
    <3>1. /\ c \in {"running", "stopped", "zombie"} /\ (Over(p) => c \in {"zombie", "reaped"})
          /\ kids.main \in [call : {"wait", "destroy"}, of : Proc] \cup {NULL}
      BY <1>3, <2>1 DEF Over
    <3> HIDE DEF c, to
    <3> QED BY <1>2, <1>3, <3>1
  <2> HIDE DEF at, to
  <2> QED BY <1>4, <2>1, <2>2
<1>8. ASSUME K!Kill(x) PROVE KidsSound(kids')
  <2> DEFINE c == IF p.status \in {"running", "suspended"} THEN "reaped" ELSE p.child
  <2>1. kids' = at("exited", c, p.reader)
    BY <1>1, <1>8, ZenonT(60) DEF K!Kill, K!Killed, KidsState, ProcRec
  <2>2. KidsSound(to("exited", c, p.reader, kids.main))
    <3>1. /\ c \in {"none", "running", "stopped", "zombie", "reaped"} \ {"running", "stopped", "zombie"}
          /\ (Over(p) => c \in {"zombie", "reaped"})
          /\ kids.main \in [call : {"wait", "destroy"}, of : Proc] \cup {NULL}
      BY <1>3 DEF Over
    <3> HIDE DEF c, to
    <3> QED BY <1>2, <1>3, <3>1
  <2> HIDE DEF at, to
  <2> QED BY <1>4, <2>1, <2>2
<1>9. ASSUME K!Wait(x) PROVE KidsSound(kids')
  <2> DEFINE m == [call |-> "wait", of |-> x]
  <2>1. kids' = to("exited", "reaped", p.reader, m)
    <3>1. kids' = [kids EXCEPT !.p = [kids.p EXCEPT ![x] = u("exited", "reaped")], !.main = m]
      BY <1>1, <1>9 DEF K!Wait, KidsState
    <3> HIDE DEF u, q, m
    <3> QED BY <1>5, <3>1
  <2>2. m \in [call : {"wait", "destroy"}, of : Proc] \cup {NULL}
    OBVIOUS
  <2> HIDE DEF m, to
  <2> QED BY <1>2, <1>3, <2>1, <2>2
<1>10. ASSUME K!WaitJoin(x) PROVE KidsSound(kids')
  <2>1. ~Active(p) /\ kids' = to(p.status, p.child, "none", NULL)
    BY <1>1, <1>10 DEF K!WaitJoin, K!Joined, KidsState, ProcRec, Active
  <2>2. (Over(p) => p.child \in {"zombie", "reaped"}) /\ "none" \in {p.reader} \cup {"none"}
    BY DEF Over
  <2> HIDE DEF to
  <2> QED BY <1>2, <1>3, <2>1, <2>2
<1>11. ASSUME K!Create(x) PROVE KidsSound(kids')
  <2>1. p.status = "none" /\ kids' = at("idle", p.child, p.reader)
    BY <1>1, <1>11 DEF K!Create, K!Change, KidsState, ProcRec
  <2>2. KidsSound(to("idle", p.child, p.reader, kids.main))
    <3>1. /\ p.child \in {"none", "running", "stopped", "zombie", "reaped"} \ {"running", "stopped", "zombie"}
          /\ (Over(p) => p.child \in {"zombie", "reaped"})
          /\ p.reader = "none" => ~Active(p)
      BY <1>3, <2>1 DEF Over, Active
    <3> HIDE DEF to
    <3> QED BY <1>2, <1>3, <3>1
  <2> HIDE DEF at, to
  <2> QED BY <1>4, <2>1, <2>2
<1> QED BY <1>6, <1>7, <1>8, <1>9, <1>10, <1>11

\* The process p with other streams, and another state of its reader and its child.
Flows(p, child, reader, closed, out, wrote, got, stdbuf, err, wroteErr, gotErr) ==
  [p EXCEPT !.child = child, !.reader = reader, !.closed = closed, !.out = out, !.wrote = wrote,
            !.got = got, !.stdbuf = stdbuf, !.err = err, !.wroteErr = wroteErr, !.gotErr = gotErr]

\* q is p with only the streams and the states different.
SameKid(p, q) ==
  /\ q.status = p.status /\ q.type = p.type /\ q.pipe_from = p.pipe_from /\ q.pipe_to = p.pipe_to
  /\ q.ends = p.ends /\ q.in = p.in /\ q.piped = p.piped /\ q.run = p.run

\* q is p with these streams and states.
HasFlows(q, p, child, reader, closed, out, wrote, got, stdbuf, err, wroteErr, gotErr) ==
  /\ q \in ProcRec /\ SameKid(p, q)
  /\ q.child = child /\ q.reader = reader /\ q.closed = closed /\ q.out = out
  /\ q.wrote = wrote /\ q.got = got /\ q.stdbuf = stdbuf /\ q.err = err
  /\ q.wroteErr = wroteErr /\ q.gotErr = gotErr

\* What they may be.
AreFlows(child, reader, closed, out, wrote, got, stdbuf, err, wroteErr, gotErr) ==
  /\ child \in {"none", "running", "stopped", "zombie", "reaped"}
  /\ reader \in {"none", "start", "loop", "done"} /\ closed \subseteq {"out", "err"}
  /\ out \in Seq(Nat) /\ wrote \in Nat /\ got \in Seq(Nat) /\ stdbuf \in Seq(Nat)
  /\ err \in Nat /\ wroteErr \in Nat /\ gotErr \in Nat

\* So it is.
LEMMA FlowsIs ==
  ASSUME NEW p \in ProcRec, NEW child, NEW reader, NEW closed, NEW out, NEW wrote, NEW got, NEW stdbuf,
         NEW err, NEW wroteErr, NEW gotErr,
         AreFlows(child, reader, closed, out, wrote, got, stdbuf, err, wroteErr, gotErr)
  PROVE  HasFlows(Flows(p, child, reader, closed, out, wrote, got, stdbuf, err, wroteErr, gotErr),
                  p, child, reader, closed, out, wrote, got, stdbuf, err, wroteErr, gotErr)
<1> DEFINE q == Flows(p, child, reader, closed, out, wrote, got, stdbuf, err, wroteErr, gotErr)
<1>1. q \in ProcRec
  BY ZenonT(60) DEF Flows, ProcRec, AreFlows
<1>2. SameKid(p, q)
  BY DEF Flows, ProcRec, AreFlows, SameKid
<1>3. /\ q.child = child /\ q.reader = reader /\ q.closed = closed /\ q.out = out
      /\ q.wrote = wrote /\ q.got = got /\ q.stdbuf = stdbuf /\ q.err = err
      /\ q.wroteErr = wroteErr /\ q.gotErr = gotErr
  BY DEF Flows, ProcRec, AreFlows
<1> QED BY <1>1, <1>2, <1>3 DEF HasFlows

\* The types of a process's streams and states.
FlowsTypes(p) ==
  /\ p.child \in {"none", "running", "stopped", "zombie", "reaped"}
  /\ p.reader \in {"none", "start", "loop", "done"} /\ p.closed \in SUBSET {"out", "err"}
  /\ p.out \in Seq(Nat) /\ Len(p.out) \in Nat /\ p.wrote \in Nat /\ p.got \in Seq(Nat)
  /\ Len(p.got) \in Nat /\ p.stdbuf \in Seq(Nat) /\ p.err \in Nat /\ p.wroteErr \in Nat
  /\ p.gotErr \in Nat /\ p.run \in Nat /\ p.in \in Seq(Nat \X Nat)

\* So they are.
LEMMA FlowTypes == ASSUME NEW p \in ProcRec PROVE FlowsTypes(p)
<1>1. p.out \in Seq(Nat) /\ p.got \in Seq(Nat)
  BY DEF ProcRec
<1>2. Len(p.out) \in Nat /\ Len(p.got) \in Nat
  BY <1>1, LenProperties
<1> QED BY <1>1, <1>2 DEF ProcRec, FlowsTypes

\* The process p becomes q by a step of its streams that keeps the invariant.
Flowing(p, q) ==
  /\ q \in ProcRec /\ SameKid(p, q)
  /\ Active(q) => Active(p)
  /\ q.child = p.child \/ (q.child = "zombie" /\ p.child = "running")
  /\ Asks(q) /\ Drains(q) /\ Counts(q) /\ Continues(p, q)

\* So it does.
LEMMA FlowsKeep ==
  ASSUME NEW s, KidsSound(s), NEW x \in Proc, NEW q, Flowing(s.p[x], q)
  PROVE  KidsSound([s EXCEPT !.p = [s.p EXCEPT ![x] = q]])
<1> DEFINE p == s.p[x]
<1>1. s \in KidsState /\ Own(p, x) /\ s.main \in [call : {"wait", "destroy"}, of : Proc] \cup {NULL}
  BY DEF KidsSound, KidsState
<1>2. HasEnds(q, x) /\ Heard(q)
  BY <1>1 DEF Own, HasEnds, Heard, SameKid, Flowing
<1>3. q.status \in {"running", "suspended"} <=> q.child \in {"running", "stopped", "zombie"}
  BY <1>1 DEF Own, SameKid, Flowing
<1>4. Own(q, x) /\ q.ends = p.ends /\ Continues(p, q)
  BY <1>2, <1>3 DEF Own, SameKid, Flowing
<1>5. KidsSound([s EXCEPT !.p = [s.p EXCEPT ![x] = q], !.main = s.main])
  BY <1>1, <1>4, OneKeeps
<1>6. [s EXCEPT !.p = [s.p EXCEPT ![x] = q], !.main = s.main] = [s EXCEPT !.p = [s.p EXCEPT ![x] = q]]
  BY <1>1 DEF KidsState
<1> QED BY <1>5, <1>6

\* The first character of an output, and those behind it.
LEMMA FirstOut ==
  ASSUME NEW q \in ProcRec, Counts(q), q.out # << >>
  PROVE  /\ Head(q.out) \in Nat /\ Tail(q.out) \in Seq(Nat)
         /\ Head(q.out) = Drawn(q) + 1
         /\ Len(Tail(q.out)) = Len(q.out) - 1 /\ Len(q.out) \in Nat \ {0}
         /\ \A i \in 1 .. Len(q.out) - 1 : Tail(q.out)[i] = Drawn(q) + (i + 1)
<1>1. q.out \in Seq(Nat) /\ q.wrote \in Nat /\ Drawn(q) \in Int
  BY DrawnType DEF ProcRec
<1>2. Len(q.out) \in Nat \ {0} /\ \A i \in 1 .. Len(q.out) : q.out[i] \in Nat
  BY <1>1, EmptySeq, LenProperties
<1>3. /\ Tail(q.out) \in Seq(Nat) /\ Len(Tail(q.out)) = Len(q.out) - 1
      /\ \A i \in 1 .. Len(q.out) - 1 : Tail(q.out)[i] = q.out[i + 1]
  BY <1>1, HeadTailProperties
<1>4. Head(q.out) = q.out[1] /\ 1 \in 1 .. Len(q.out)
  BY <1>2
<1>5. \A i \in 1 .. Len(q.out) - 1 : i + 1 \in 1 .. Len(q.out)
  BY <1>2
<1>6. \A i \in 1 .. Len(q.out) : q.out[i] = Drawn(q) + i
  BY DEF Counts
<1> QED BY <1>2, <1>3, <1>4, <1>5, <1>6

\* The child writes to its output.
LEMMA OutFlows ==
  ASSUME NEW p, NEW x, Own(p, x), p.child = "running"
  PROVE  Flowing(p, Flows(p, p.child, p.reader, p.closed, Append(p.out, p.wrote + 1), p.wrote + 1, p.got,
                          p.stdbuf, p.err, p.wroteErr, p.gotErr))
<1> DEFINE o == Append(p.out, p.wrote + 1)
           n == Len(p.out)
           w == p.wrote
           q == Flows(p, p.child, p.reader, p.closed, o, w + 1, p.got, p.stdbuf,
                      p.err, p.wroteErr, p.gotErr)
<1>1. p \in ProcRec /\ FlowsTypes(p)
  BY FlowTypes DEF Own
<1>2. n \in Nat /\ w \in Nat /\ p.out \in Seq(Nat) /\ w + 1 \in Nat
  BY <1>1 DEF FlowsTypes
<1>3. /\ o \in Seq(Nat) /\ Len(o) = n + 1
      /\ \A i \in 1 .. n : o[i] = p.out[i]
      /\ o[n + 1] = w + 1
  BY <1>2, AppendProperties
<1>4. Drawn(p) = w - n
  BY DEF Drawn
<1> HIDE DEF o, n, w
<1>5. HasFlows(q, p, p.child, p.reader, p.closed, o, w + 1, p.got, p.stdbuf, p.err, p.wroteErr, p.gotErr)
  <2>1. AreFlows(p.child, p.reader, p.closed, o, w + 1, p.got, p.stdbuf, p.err, p.wroteErr, p.gotErr)
    BY <1>1, <1>2, <1>3 DEF FlowsTypes, AreFlows
  <2> QED BY <1>1, <2>1, FlowsIs
<1> HIDE DEF q
<1>6. Drawn(q) = Drawn(p) /\ Drawn(p) \in Int
  BY <1>2, <1>3, <1>4, <1>5, SMTT(60) DEF Drawn, HasFlows
<1>7. Asks(q)
  BY <1>5, <1>6 DEF Own, Asks, SameKid, HasFlows
<1>8. Drains(q)
  BY <1>5 DEF Own, Drains, SameKid, Over, HasFlows
<1>9. Counts(q)
  <2>1. n <= w /\ \A i \in 1 .. n : p.out[i] = Drawn(p) + i
    BY DEF Own, Counts, n, w
  <2>2. \A i \in 1 .. n + 1 : o[i] = Drawn(p) + i
    <3>1. \A i \in 1 .. n + 1 : i \in 1 .. n \/ i = n + 1
      BY <1>2
    <3>2. (w - n) + (n + 1) = w + 1
      BY <1>2
    <3> QED BY <1>3, <1>4, <2>1, <3>1, <3>2
  <2>3. Len(o) <= w + 1
    BY <1>2, <1>3, <2>1
  <2> QED BY <1>3, <1>5, <1>6, <2>2, <2>3 DEF Own, Counts, HasFlows
<1>10. Continues(p, q)
  BY <1>5, <1>6 DEF Continues, SameKid, Active, HasFlows
<1>11. Flowing(p, q)
  BY <1>5, <1>7, <1>8, <1>9, <1>10 DEF Flowing, HasFlows, Active
<1> QED BY <1>11 DEF q, o, w

\* A client reads what it asked for.
LEMMA GotFlows ==
  ASSUME NEW p, NEW x, Own(p, x), p.out # << >>
  PROVE  /\ p.type # {"w"} =>
              Flowing(p, Flows(p, p.child, p.reader, p.closed, Tail(p.out), p.wrote,
                               Append(p.got, Head(p.out)), p.stdbuf, p.err, p.wroteErr, p.gotErr))
<1> DEFINE o == Tail(p.out)
           g == Append(p.got, Head(p.out))
           n == Len(p.out)
           k == Len(p.got)
           w == p.wrote
           q == Flows(p, p.child, p.reader, p.closed, o, w, g, p.stdbuf, p.err, p.wroteErr, p.gotErr)
<1>1. p \in ProcRec /\ FlowsTypes(p) /\ Counts(p)
  BY FlowTypes DEF Own
<1>2. w \in Nat /\ k \in Nat /\ p.got \in Seq(Nat)
  BY <1>1 DEF FlowsTypes
<1>3. /\ Head(p.out) \in Nat /\ o \in Seq(Nat) /\ Head(p.out) = Drawn(p) + 1
      /\ Len(o) = n - 1 /\ n \in Nat \ {0}
      /\ \A i \in 1 .. n - 1 : o[i] = Drawn(p) + (i + 1)
  BY <1>1, FirstOut
<1>4. Drawn(p) = w - n
  BY DEF Drawn
<1>5. /\ g \in Seq(Nat) /\ Len(g) = k + 1
      /\ \A i \in 1 .. k : g[i] = p.got[i]
      /\ g[k + 1] = Head(p.out)
  BY <1>2, <1>3, AppendProperties
<1> HIDE DEF o, g, n, k, w
<1>6. HasFlows(q, p, p.child, p.reader, p.closed, o, w, g, p.stdbuf, p.err, p.wroteErr, p.gotErr)
  <2>1. AreFlows(p.child, p.reader, p.closed, o, w, g, p.stdbuf, p.err, p.wroteErr, p.gotErr)
    BY <1>1, <1>2, <1>3, <1>5 DEF FlowsTypes, AreFlows
  <2> QED BY <1>1, <2>1, FlowsIs
<1> HIDE DEF q
<1>7. Drawn(q) = Drawn(p) + 1 /\ Drawn(p) \in Int
  BY <1>2, <1>3, <1>4, <1>6 DEF Drawn, HasFlows
<1>8. Asks(q)
  <2>1. ASSUME k = Drawn(p), \A i \in 1 .. k : p.got[i] = i
        PROVE  Len(g) = Drawn(q) /\ \A i \in 1 .. Len(g) : g[i] = i
    <3>1. \A i \in 1 .. k + 1 : i \in 1 .. k \/ i = k + 1
      BY <1>2
    <3> QED BY <1>3, <1>5, <1>7, <2>1, <3>1
  <2> QED BY <1>6, <2>1 DEF Own, Asks, SameKid, HasFlows, k
<1>9. p.type # {"w"} => Drains(q)
  BY <1>6 DEF Drains, SameKid, HasFlows
<1>10. Counts(q)
  <2>1. n <= w
    BY <1>1 DEF Counts, n, w
  <2>2. \A i \in 1 .. n - 1 : o[i] = (Drawn(p) + 1) + i
    BY <1>2, <1>3, <1>4
  <2>3. \A d \in ToSet(p.stdbuf) : d \in Nat /\ d <= Drawn(p) /\ d \notin LineEnd
    BY <1>1, DrawnType DEF Counts
  <2>4. \A d \in ToSet(p.stdbuf) : d <= Drawn(p) + 1 /\ d \notin LineEnd
    BY <1>7, <2>3
  <2>5. Len(o) <= w
    BY <1>2, <1>3, <2>1
  <2> QED BY <1>1, <1>3, <1>6, <1>7, <2>2, <2>4, <2>5 DEF Counts, HasFlows
<1>11. Continues(p, q)
  BY <1>6, <1>7 DEF Continues, SameKid, Active, HasFlows
<1>12. p.type # {"w"} => Flowing(p, q)
  BY <1>6, <1>8, <1>9, <1>10, <1>11 DEF Flowing, HasFlows, Active
<1> QED BY <1>12 DEF q, o, g, w

\* A step that leaves the output alone.
StillFlows(p, child, reader, closed, err, wroteErr, gotErr) ==
  Flows(p, child, reader, closed, p.out, p.wrote, p.got, p.stdbuf, err, wroteErr, gotErr)

\* What it has to show.
LEMMA StillFlowing ==
  ASSUME NEW p, NEW x, Own(p, x),
         NEW child, child = p.child \/ (child = "zombie" /\ p.child = "running"),
         NEW reader \in {"none", "start", "loop", "done"},
         reader \in {"start", "loop"} => Active(p),
         NEW closed, closed \subseteq {"out", "err"},
         NEW err \in Nat, NEW wroteErr \in Nat, NEW gotErr \in Nat,
         "r" \in p.type /\ ~p.piped => (reader = "loop" => "out" \in closed),
         "e" \in p.type => (reader = "loop" => "err" \in closed) /\ gotErr + err = wroteErr,
         p.type = {"w"} =>
           /\ reader = "loop" /\ "out" \in closed => Over(p) /\ p.out = << >>
           /\ reader = "loop" /\ "err" \in closed => Over(p) /\ err = 0
           /\ reader = "done" => Over(p) /\ p.out = << >> /\ err = 0
  PROVE  Flowing(p, StillFlows(p, child, reader, closed, err, wroteErr, gotErr))
<1> DEFINE q == Flows(p, child, reader, closed, p.out, p.wrote, p.got, p.stdbuf, err, wroteErr, gotErr)
<1>1. p \in ProcRec /\ FlowsTypes(p)
  BY FlowTypes DEF Own
<1>2. HasFlows(q, p, child, reader, closed, p.out, p.wrote, p.got, p.stdbuf, err, wroteErr, gotErr)
  <2>1. AreFlows(child, reader, closed, p.out, p.wrote, p.got, p.stdbuf, err, wroteErr, gotErr)
    BY <1>1 DEF FlowsTypes, AreFlows
  <2> QED BY <1>1, <2>1, FlowsIs
<1> HIDE DEF q
<1>3. Drawn(q) = Drawn(p) /\ Drawn(p) \in Int
  BY <1>1, <1>2, DrawnType DEF Drawn, HasFlows
<1>4. Asks(q)
  BY <1>2, <1>3 DEF Own, Asks, SameKid, HasFlows
<1>5. Drains(q)
  BY <1>2 DEF Own, Drains, SameKid, Over, HasFlows
<1>6. Counts(q)
  BY <1>2, <1>3 DEF Own, Counts, HasFlows
<1>7. Continues(p, q)
  BY <1>2, <1>3 DEF Continues, SameKid, Active, HasFlows
<1>8. Flowing(p, q)
  BY <1>2, <1>4, <1>5, <1>6, <1>7 DEF Flowing, HasFlows, Active
<1> QED BY <1>8 DEF q, StillFlows

\* The child writes to its standard error, or ends.
LEMMA ErrFlows ==
  ASSUME NEW p, NEW x, Own(p, x), p.child = "running"
  PROVE  /\ Flowing(p, StillFlows(p, p.child, p.reader, p.closed, p.err + 1, p.wroteErr + 1, p.gotErr))
         /\ Flowing(p, StillFlows(p, "zombie", p.reader, p.closed, p.err, p.wroteErr, p.gotErr))
<1>1. /\ p \in ProcRec /\ FlowsTypes(p) /\ Asks(p) /\ Drains(p) /\ ~Over(p)
  BY FlowTypes DEF Own, Over
<1>2. /\ p.reader \in {"none", "start", "loop", "done"} /\ p.closed \subseteq {"out", "err"}
      /\ p.err \in Nat /\ p.wroteErr \in Nat /\ p.gotErr \in Nat
      /\ p.err + 1 \in Nat /\ p.wroteErr + 1 \in Nat
      /\ p.reader \in {"start", "loop"} => Active(p)
  BY <1>1 DEF FlowsTypes, Active
<1>3. /\ "r" \in p.type /\ ~p.piped => (p.reader = "loop" => "out" \in p.closed)
      /\ "e" \in p.type => /\ p.reader = "loop" => "err" \in p.closed
                           /\ p.gotErr + p.err = p.wroteErr
                           /\ p.gotErr + (p.err + 1) = p.wroteErr + 1
  BY <1>1, <1>2, SMTT(60) DEF Asks
<1>4. p.type = {"w"} => /\ p.reader = "loop" => "out" \notin p.closed /\ "err" \notin p.closed
                        /\ p.reader # "done"
  BY <1>1 DEF Drains
<1>5. Flowing(p, StillFlows(p, p.child, p.reader, p.closed, p.err + 1, p.wroteErr + 1, p.gotErr))
  BY <1>2, <1>3, <1>4, StillFlowing, ZenonT(60)
<1>6. Flowing(p, StillFlows(p, "zombie", p.reader, p.closed, p.err, p.wroteErr, p.gotErr))
  BY <1>2, <1>3, <1>4, StillFlowing, ZenonT(60)
<1> QED BY <1>5, <1>6

\* A client reads what it asked for of it, the reader what no client asked for.
LEMMA ErrTakenFlows ==
  ASSUME NEW p, NEW x, Own(p, x), p.err > 0
  PROVE  /\ "e" \in p.type =>
              Flowing(p, StillFlows(p, p.child, p.reader, p.closed, p.err - 1, p.wroteErr, p.gotErr + 1))
         /\ p.reader = "loop" /\ "err" \notin p.closed =>
              Flowing(p, StillFlows(p, p.child, p.reader, p.closed, p.err - 1, p.wroteErr, p.gotErr))
<1>1. /\ p \in ProcRec /\ FlowsTypes(p) /\ Asks(p) /\ Drains(p)
  BY FlowTypes DEF Own
<1>2. /\ p.reader \in {"none", "start", "loop", "done"} /\ p.closed \subseteq {"out", "err"}
      /\ p.err \in Nat /\ p.wroteErr \in Nat /\ p.gotErr \in Nat
      /\ p.err - 1 \in Nat /\ p.gotErr + 1 \in Nat
      /\ p.reader \in {"start", "loop"} => Active(p)
  BY <1>1, SMTT(60) DEF FlowsTypes, Active
<1>3. /\ "r" \in p.type /\ ~p.piped => (p.reader = "loop" => "out" \in p.closed)
      /\ "e" \in p.type => /\ p.reader = "loop" => "err" \in p.closed
                           /\ (p.gotErr + 1) + (p.err - 1) = p.wroteErr
  BY <1>1, <1>2, SMTT(60) DEF Asks
<1>4. p.type = {"w"} => /\ p.reader = "loop" /\ "out" \in p.closed => Over(p) /\ p.out = << >>
                        /\ p.reader = "loop" => "err" \notin p.closed
                        /\ p.reader # "done"
  BY <1>1 DEF Drains
<1>5. ASSUME "e" \in p.type
      PROVE  Flowing(p, StillFlows(p, p.child, p.reader, p.closed, p.err - 1, p.wroteErr, p.gotErr + 1))
  <2>1. p.type # {"w"}
    BY <1>5
  <2> QED BY <1>2, <1>3, <1>5, <2>1, StillFlowing
<1>6. ASSUME p.reader = "loop", "err" \notin p.closed
      PROVE  Flowing(p, StillFlows(p, p.child, p.reader, p.closed, p.err - 1, p.wroteErr, p.gotErr))
  <2>1. "e" \notin p.type
    BY <1>3, <1>6
  <2> QED BY <1>2, <1>3, <1>4, <1>6, <2>1, StillFlowing
<1> QED BY <1>5, <1>6

\* The reader starts, and leaves to the client what is the client's.
LEMMA StartFlows ==
  ASSUME NEW p, NEW x, Own(p, x), p.reader = "start",
         NEW closed,
         closed = (IF "r" \in p.type /\ p.pipe_to = NULL THEN {"out"} ELSE {})
                    \cup (IF "e" \in p.type THEN {"err"} ELSE {})
  PROVE  Flowing(p, StillFlows(p, p.child, "loop", closed, p.err, p.wroteErr, p.gotErr))
<1>1. p \in ProcRec /\ FlowsTypes(p) /\ Asks(p) /\ Active(p)
  BY FlowTypes DEF Own, Active
<1>2. /\ closed \subseteq {"out", "err"}
      /\ p.err \in Nat /\ p.wroteErr \in Nat /\ p.gotErr \in Nat
  BY <1>1 DEF FlowsTypes
<1>3. /\ "r" \in p.type /\ ~p.piped => "out" \in closed
      /\ "e" \in p.type => "err" \in closed /\ p.gotErr + p.err = p.wroteErr
      /\ p.type = {"w"} => closed = {}
  BY <1>1 DEF Asks
<1> QED BY <1>1, <1>2, <1>3, StillFlowing

\* The reader closes an output that has come to its end.
LEMMA CloseFlows ==
  ASSUME NEW p, NEW x, Own(p, x), p.reader = "loop", Over(p)
  PROVE  /\ p.out = << >> =>
              Flowing(p, StillFlows(p, p.child, p.reader, p.closed \cup {"out"}, p.err, p.wroteErr, p.gotErr))
         /\ p.err = 0 =>
              Flowing(p, StillFlows(p, p.child, p.reader, p.closed \cup {"err"}, p.err, p.wroteErr, p.gotErr))
<1>1. p \in ProcRec /\ FlowsTypes(p) /\ Asks(p) /\ Drains(p) /\ Active(p)
  BY FlowTypes DEF Own, Active
<1>2. /\ p.closed \cup {"out"} \subseteq {"out", "err"} /\ p.closed \cup {"err"} \subseteq {"out", "err"}
      /\ p.reader \in {"none", "start", "loop", "done"}
      /\ p.err \in Nat /\ p.wroteErr \in Nat /\ p.gotErr \in Nat
  BY <1>1 DEF FlowsTypes
<1>3. /\ "r" \in p.type /\ ~p.piped => "out" \in p.closed
      /\ "e" \in p.type => "err" \in p.closed /\ p.gotErr + p.err = p.wroteErr
      /\ p.type = {"w"} => /\ "out" \in p.closed => Over(p) /\ p.out = << >>
                           /\ "err" \in p.closed => Over(p) /\ p.err = 0
  BY <1>1 DEF Asks, Drains
<1>4. ASSUME NEW name \in {"out", "err"}, name = "out" => p.out = << >>, name = "err" => p.err = 0
      PROVE  Flowing(p, StillFlows(p, p.child, p.reader, p.closed \cup {name}, p.err, p.wroteErr, p.gotErr))
  <2>1. p.type = {"w"} => /\ "out" \in p.closed \cup {name} => Over(p) /\ p.out = << >>
                          /\ "err" \in p.closed \cup {name} => Over(p) /\ p.err = 0
    BY <1>3, <1>4
  <2>2. /\ "r" \in p.type /\ ~p.piped => "out" \in p.closed \cup {name}
        /\ "e" \in p.type => "err" \in p.closed \cup {name}
        /\ p.closed \cup {name} \subseteq {"out", "err"}
    BY <1>2, <1>3
  <2> QED BY <1>1, <1>2, <1>3, <2>1, <2>2, StillFlowing
<1> QED BY <1>4

\* The reader puts a character by, or empties what it has put by.
LEMMA ReaderFlows ==
  ASSUME NEW p, NEW x, Own(p, x), p.reader = "loop",
         NEW o, o = p.out \/ (o = Tail(p.out) /\ p.out # << >> /\ "out" \notin p.closed),
         NEW b, b = << >> \/ (o # p.out /\ b = Append(p.stdbuf, Head(p.out)) /\ Head(p.out) \notin LineEnd),
         NEW reader, reader = "loop" \/ (reader = "done" /\ p.closed = {"out", "err"})
  PROVE  Flowing(p, Flows(p, p.child, reader, p.closed, o, p.wrote, p.got, b, p.err, p.wroteErr, p.gotErr))
<1> DEFINE q == Flows(p, p.child, reader, p.closed, o, p.wrote, p.got, b, p.err, p.wroteErr, p.gotErr)
           n == Len(p.out)
           w == p.wrote
           c == Head(p.out)
<1>1. p \in ProcRec /\ FlowsTypes(p) /\ Counts(p) /\ Asks(p) /\ Drains(p) /\ Active(p)
  BY FlowTypes DEF Own, Active
<1>2. /\ n \in Nat /\ w \in Nat /\ p.out \in Seq(Nat) /\ p.stdbuf \in Seq(Nat)
      /\ Drawn(p) \in Int /\ Drawn(p) = w - n
      /\ \A d \in ToSet(p.stdbuf) : d \in Nat
  BY <1>1, DrawnType DEF FlowsTypes, Drawn
<1>3. ASSUME p.out # << >>
      PROVE  /\ c \in Nat /\ Tail(p.out) \in Seq(Nat) /\ c = Drawn(p) + 1
             /\ Len(Tail(p.out)) = n - 1 /\ n \in Nat \ {0}
             /\ \A i \in 1 .. n - 1 : Tail(p.out)[i] = Drawn(p) + (i + 1)
  BY <1>1, <1>3, FirstOut
<1>4. o \in Seq(Nat)
  BY <1>2, <1>3
<1>5. b \in Seq(Nat)
  <2>1. CASE b = << >>
    BY <2>1, EmptySeq
  <2>2. CASE b # << >>
    <3>1. b = Append(p.stdbuf, c) /\ c \in Nat
      BY <1>3, <2>2
    <3> HIDE DEF c
    <3> QED BY <1>2, <3>1, AppendProperties
  <2> QED BY <2>1, <2>2
<1>6. HasFlows(q, p, p.child, reader, p.closed, o, w, p.got, b, p.err, p.wroteErr, p.gotErr)
  <2>1. AreFlows(p.child, reader, p.closed, o, w, p.got, b, p.err, p.wroteErr, p.gotErr)
    BY <1>1, <1>4, <1>5 DEF FlowsTypes, AreFlows
  <2> QED BY <1>1, <2>1, FlowsIs
<1> HIDE DEF q, n, w, c
<1>7. /\ Len(o) \in Nat /\ Len(o) <= w
      /\ Drawn(q) = w - Len(o) /\ \A i \in 1 .. Len(o) : o[i] = Drawn(q) + i
      /\ Drawn(q) = Drawn(p) \/ (Drawn(q) = Drawn(p) + 1 /\ o # p.out /\ p.out # << >>)
      /\ o = p.out => Drawn(q) = Drawn(p)
  <2>1. Drawn(q) = w - Len(o)
    BY <1>6 DEF Drawn, HasFlows
  <2>2. n <= w /\ \A i \in 1 .. n : p.out[i] = Drawn(p) + i
    BY <1>1 DEF Counts, n, w
  <2>3. CASE o = p.out
    BY <1>2, <2>1, <2>2, <2>3 DEF n
  <2>4. CASE o # p.out
    <3>1. /\ o = Tail(p.out) /\ p.out # << >>
      BY <2>4
    <3>2. Len(o) = n - 1 /\ \A i \in 1 .. n - 1 : o[i] = Drawn(p) + (i + 1)
      BY <1>3, <3>1
    <3>3. n \in Nat \ {0} /\ Drawn(q) = Drawn(p) + 1
      <4>1. n \in Nat \ {0}
        BY <1>3, <3>1
      <4>2. Drawn(q) = w - (n - 1)
        BY <2>1, <3>2
      <4> QED BY <1>2, <4>1, <4>2
    <3>4. \A i \in 1 .. n - 1 : o[i] = (Drawn(p) + 1) + i
      BY <1>2, <3>2, <3>3
    <3>5. n - 1 \in Nat /\ n - 1 <= w
      BY <1>2, <2>2, <3>3
    <3>6. \A i \in 1 .. Len(o) : o[i] = Drawn(q) + i
      BY <3>2, <3>3, <3>4
    <3> QED BY <2>1, <2>4, <3>1, <3>2, <3>3, <3>5, <3>6
  <2> QED BY <2>3, <2>4
<1>8. Asks(q)
  <2>1. "r" \in p.type /\ ~p.piped => "out" \in p.closed
    BY <1>1 DEF Asks
  <2>2. "r" \in p.type /\ ~p.piped => o = p.out
    BY <2>1
  <2> QED BY <1>1, <1>6, <1>7, <2>1, <2>2 DEF Asks, SameKid, HasFlows
<1>9. Drains(q)
  <2>1. o # p.out => "out" \notin p.closed
    OBVIOUS
  <2> QED BY <1>1, <1>6, <2>1 DEF Drains, SameKid, HasFlows, Over
<1>10. /\ \A i, j \in DOMAIN b : i < j => b[i] < b[j]
       /\ \A d \in ToSet(b) : d <= Drawn(q) /\ d \notin LineEnd
       /\ \A d \in ToSet(b) : d \in ToSet(p.stdbuf) \/ Drawn(p) < d
  <2>1. CASE b = << >>
    <3>1. DOMAIN b = {}
      BY <2>1
    <3> QED BY <3>1 DEF ToSet
  <2>2. CASE b # << >>
    <3> DEFINE m == Len(p.stdbuf)
    <3>1. /\ b = Append(p.stdbuf, c) /\ c \in Nat /\ c \notin LineEnd /\ c = Drawn(p) + 1
          /\ Drawn(q) = Drawn(p) + 1
      <4>1. o # p.out /\ b = Append(p.stdbuf, c) /\ c \notin LineEnd /\ p.out # << >>
        BY <2>2 DEF c
      <4>2. Len(o) = n - 1 /\ c \in Nat /\ c = Drawn(p) + 1
        BY <1>3, <4>1
      <4> QED BY <1>2, <1>7, <4>1, <4>2
    <3>2. /\ m \in Nat /\ DOMAIN p.stdbuf = 1 .. m /\ DOMAIN b = 1 .. m + 1
          /\ \A i \in 1 .. m : b[i] = p.stdbuf[i]
          /\ b[m + 1] = c
      <4>1. m \in Nat /\ DOMAIN p.stdbuf = 1 .. m
        BY <1>2, LenProperties
      <4>2. Len(b) = m + 1 /\ \A i \in 1 .. m : b[i] = p.stdbuf[i]
        BY <1>2, <3>1, AppendProperties
      <4>3. b[m + 1] = c
        BY <1>2, <3>1, AppendProperties
      <4>4. DOMAIN b = 1 .. m + 1
        BY <1>5, <4>2, LenProperties
      <4> QED BY <4>1, <4>2, <4>3, <4>4
    <3>3. ToSet(b) = ToSet(p.stdbuf) \cup {c}
      BY <1>2, <3>1, Appended
    <3>4. /\ \A i, j \in 1 .. m : i < j => p.stdbuf[i] < p.stdbuf[j]
          /\ \A d \in ToSet(p.stdbuf) : d <= Drawn(p) /\ d \notin LineEnd
          /\ \A i \in 1 .. m : p.stdbuf[i] \in ToSet(p.stdbuf)
      BY <1>1, <3>2 DEF Counts, ToSet
    <3> HIDE DEF m
    <3>5. \A i, j \in 1 .. m + 1 : i < j => b[i] < b[j]
      <4>1. \A i \in 1 .. m + 1 : i \in 1 .. m \/ i = m + 1
        BY <3>2
      <4>2. \A i \in 1 .. m : p.stdbuf[i] < c
        BY <1>2, <3>1, <3>4
      <4>3. ASSUME NEW i \in 1 .. m + 1, NEW j \in 1 .. m + 1, i < j
            PROVE  b[i] < b[j]
        <5>1. i \in 1 .. m
          BY <3>2, <4>3
        <5>2. CASE j \in 1 .. m
          BY <3>2, <3>4, <4>3, <5>1, <5>2
        <5>3. CASE j = m + 1
          BY <3>2, <4>2, <5>1, <5>3
        <5> QED BY <4>1, <5>2, <5>3
      <4> QED BY <4>3
    <3>6. \A d \in ToSet(b) : d <= Drawn(q) /\ d \notin LineEnd
      BY <1>2, <3>1, <3>3, <3>4
    <3>7. \A d \in ToSet(b) : d \in ToSet(p.stdbuf) \/ Drawn(p) < d
      BY <1>2, <3>1, <3>3
    <3> QED BY <3>2, <3>5, <3>6, <3>7
  <2> QED BY <2>1, <2>2
<1>11. Counts(q)
  BY <1>6, <1>7, <1>10 DEF Counts, HasFlows, w
<1>12. Continues(p, q)
  <2>1. Drawn(p) <= Drawn(q)
    BY <1>2, <1>7
  <2> QED BY <1>1, <1>6, <1>10, <2>1 DEF Continues, SameKid, HasFlows
<1>13. Flowing(p, q)
  BY <1>1, <1>6, <1>8, <1>9, <1>11, <1>12 DEF Flowing, HasFlows
<1> QED BY <1>13 DEF q, w

\* What a process is sent of a run, n, after what it was sent before.
Fed(r, n, data) == [r EXCEPT !.in = r.in \o [i \in DOMAIN data |-> <<n, data[i]>>]]

\* It stays sound, when the new characters are in order and none of the run is newer.
LEMMA FedIs ==
  ASSUME NEW r, NEW x, Own(r, x), NEW n \in Nat, NEW data \in Seq(Nat),
         \A i, j \in DOMAIN data : i < j => data[i] < data[j],
         \A d \in ToSet(data) : d \notin LineEnd,
         \A e \in ToSet(r.in) : e[1] = n => \A d \in ToSet(data) : e[2] < d
  PROVE  /\ Own(Fed(r, n, data), x) /\ Fed(r, n, data).ends = r.ends
         /\ Active(Fed(r, n, data)) <=> Active(r)
         /\ Fed(r, n, data).run = r.run /\ Drawn(Fed(r, n, data)) = Drawn(r)
         /\ Fed(r, n, data).stdbuf = r.stdbuf
         /\ \A e \in ToSet(Fed(r, n, data).in) :
              e \in ToSet(r.in) \/ (e[1] = n /\ e[2] \in ToSet(data))
<1> DEFINE new == [i \in DOMAIN data |-> <<n, data[i]>>]
           in == r.in \o new
           q == [r EXCEPT !.in = in]
           k == Len(r.in)
           m == Len(data)
<1>1. r \in ProcRec /\ FlowsTypes(r) /\ r.in \in Seq(Nat \X Nat)
  BY FlowTypes DEF Own, FlowsTypes
<1>2. k \in Nat /\ m \in Nat /\ DOMAIN data = 1 .. m /\ DOMAIN r.in = 1 .. k
      /\ \A i \in 1 .. m : data[i] \in Nat
  BY <1>1, LenProperties
<1>3. new \in Seq(Nat \X Nat) /\ Len(new) = m /\ \A i \in 1 .. m : new[i] = <<n, data[i]>>
  <2>1. new = [i \in 1 .. m |-> <<n, data[i]>>]
    BY <1>2
  <2>2. new \in [1 .. m -> Nat \X Nat]
    BY <1>2, <2>1
  <2> HIDE DEF new, m
  <2>3. new \in Seq(Nat \X Nat) /\ DOMAIN new = 1 .. m
    BY <1>2, <2>2, IsASeq
  <2> QED BY <1>2, <2>1, <2>3, LenProperties
<1> HIDE DEF new, m
<1>4. /\ in \in Seq(Nat \X Nat) /\ Len(in) = k + m
      /\ \A i \in 1 .. k + m : in[i] = IF i <= k THEN r.in[i] ELSE new[i - k]
  <2> DEFINE a   == r.in
             All == Nat \X Nat
  <2>1. a \in Seq(All) /\ new \in Seq(All)
    BY <1>1, <1>3
  <2>2. /\ a \o new \in Seq(All) /\ Len(a \o new) = Len(a) + Len(new)
        /\ \A i \in 1 .. Len(a) + Len(new) :
             (a \o new)[i] = IF i <= Len(a) THEN a[i] ELSE new[i - Len(a)]
    <3> HIDE DEF a, All
    <3> QED BY <2>1, ConcatProperties
  <2>3. in = a \o new
    OBVIOUS
  <2> HIDE DEF in
  <2> QED BY <1>3, <2>2, <2>3
<1>5. DOMAIN in = 1 .. k + m
  BY <1>4, LenProperties
<1> HIDE DEF in, k
<1>6. /\ q \in ProcRec /\ q.in = in
      /\ q.status = r.status /\ q.type = r.type /\ q.pipe_to = r.pipe_to /\ q.ends = r.ends
      /\ q.reader = r.reader /\ q.closed = r.closed /\ q.stdbuf = r.stdbuf /\ q.child = r.child
      /\ q.out = r.out /\ q.err = r.err /\ q.wrote = r.wrote /\ q.got = r.got
      /\ q.gotErr = r.gotErr /\ q.wroteErr = r.wroteErr /\ q.piped = r.piped /\ q.run = r.run
  BY <1>1, <1>4 DEF ProcRec
<1> HIDE DEF q
<1>7. ASSUME NEW i \in 1 .. k + m
      PROVE  \/ i \in 1 .. k /\ in[i] = r.in[i] /\ in[i] \in ToSet(r.in)
             \/ i - k \in 1 .. m /\ in[i] = <<n, data[i - k]>> /\ data[i - k] \in ToSet(data)
  <2>1. CASE i <= k
    <3>1. i \in 1 .. k /\ in[i] = r.in[i]
      BY <1>2, <1>4, <2>1
    <3> QED BY <1>2, <3>1 DEF ToSet
  <2>2. CASE ~(i <= k)
    <3>1. i - k \in 1 .. m
      BY <1>2, <2>2
    <3>2. in[i] = new[i - k]
      BY <1>4, <2>2
    <3> QED BY <1>2, <1>3, <3>1, <3>2 DEF ToSet
  <2> QED BY <1>2, <2>1, <2>2
<1>8. \A e \in ToSet(in) : e \in ToSet(r.in) \/ (e[1] = n /\ e[2] \in ToSet(data))
  <2> SUFFICES ASSUME NEW e \in ToSet(in)
               PROVE  e \in ToSet(r.in) \/ (e[1] = n /\ e[2] \in ToSet(data))
    OBVIOUS
  <2>1. PICK i \in 1 .. k + m : e = in[i]
    BY <1>5 DEF ToSet
  <2> QED BY <1>7, <2>1
<1>9. Heard(q)
  <2>1. /\ \A e \in ToSet(r.in) : e[2] \notin LineEnd
        /\ \A i, j \in 1 .. k : j < i /\ r.in[j][1] = r.in[i][1] => r.in[j][2] < r.in[i][2]
    BY <1>2 DEF Own, Heard
  <2>2. \A e \in ToSet(in) : e[2] \notin LineEnd
    BY <1>8, <2>1
  <2>3. ASSUME NEW i \in 1 .. k + m, NEW j \in 1 .. k + m, j < i, in[j][1] = in[i][1]
        PROVE  in[j][2] < in[i][2]
    <3>1. CASE i \in 1 .. k /\ in[i] = r.in[i]
      <4>1. j \in 1 .. k /\ in[j] = r.in[j]
        BY <1>2, <1>4, <2>3, <3>1
      <4> QED BY <2>1, <2>3, <3>1, <4>1
    <3>2. CASE i - k \in 1 .. m /\ in[i] = <<n, data[i - k]>> /\ data[i - k] \in ToSet(data)
      <4>1. CASE in[j] \in ToSet(r.in)
        BY <2>3, <3>2, <4>1
      <4>2. CASE j - k \in 1 .. m /\ in[j] = <<n, data[j - k]>>
        <5>1. j - k < i - k
          BY <1>2, <2>3
        <5>2. data[j - k] < data[i - k]
          BY <1>2, <3>2, <4>2, <5>1
        <5>3. in[j][2] = data[j - k] /\ in[i][2] = data[i - k]
          BY <3>2, <4>2
        <5> QED BY <5>2, <5>3
      <4> QED BY <1>7, <4>1, <4>2
    <3> QED BY <1>7, <3>1, <3>2
  <2> QED BY <1>5, <1>6, <2>2, <2>3 DEF Heard
<1>10. HasEnds(q, x) /\ Asks(q) /\ Drains(q) /\ Counts(q)
  BY <1>6 DEF Own, HasEnds, Asks, Drains, Counts, Active, Drawn, Over
<1>11. Own(q, x)
  BY <1>6, <1>9, <1>10 DEF Own
<1>12. q = Fed(r, n, data)
  BY DEF q, Fed, in, new
<1>13. (Active(q) <=> Active(r)) /\ Drawn(q) = Drawn(r)
  BY <1>6 DEF Active, Drawn
<1> QED BY <1>6, <1>8, <1>11, <1>12, <1>13

\* A step of a reader that sends on what it had put by.
LEMMA FeedKeeps ==
  ASSUME NEW s, KidsSound(s), NEW x \in Proc, NEW q, Flowing(s.p[x], q), q.stdbuf = << >>,
         Active(s.p[x]), NEW z \in Proc, NEW p1, p1 = [s.p EXCEPT ![x] = q]
  PROVE  KidsSound([s EXCEPT !.p = [p1 EXCEPT ![z] = Fed(@, s.p[x].run, s.p[x].stdbuf)]])
<1> DEFINE s1 == [s EXCEPT !.p = p1]
           n == s.p[x].run
           data == s.p[x].stdbuf
           r == p1[z]
           f == Fed(r, n, data)
           t == [s EXCEPT !.p = [p1 EXCEPT ![z] = f]]
<1>1. KidsSound(s1)
  BY FlowsKeep
<1>2. /\ s \in KidsState /\ s.p \in [Proc -> ProcRec] /\ q \in ProcRec /\ p1 \in [Proc -> ProcRec]
      /\ s1.p = p1 /\ s1.starts = s.starts /\ s1.open = s.open /\ s.starts \in Nat
  BY DEF KidsSound, KidsState, Flowing
<1>3. /\ p1[x] = q /\ \A y \in Proc \ {x} : p1[y] = s.p[y]
      /\ \A y \in Proc : p1[y].in = s.p[y].in
  BY <1>2 DEF Flowing, SameKid
<1>4. /\ n \in Nat /\ n < s.starts /\ data \in Seq(Nat) /\ Drawn(s.p[x]) \in Int /\ Drawn(q) \in Int
      /\ ToSet(data) \subseteq Nat
  BY <1>2, DrawnType DEF KidsSound, ProcRec
<1>5. /\ \A i, j \in DOMAIN data : i < j => data[i] < data[j]
      /\ \A d \in ToSet(data) : d \notin LineEnd /\ d <= Drawn(s.p[x])
  BY DEF KidsSound, Own, Counts
<1>6. /\ \A e \in ToSet(r.in) : e[1] = n => \A d \in ToSet(data) : e[2] < d
  BY <1>3 DEF KidsSound, Before
<1>7. Own(r, z)
  BY <1>1, <1>2 DEF KidsSound
<1>8. /\ Own(f, z) /\ f.ends = r.ends /\ (Active(f) <=> Active(r)) /\ f.run = r.run
      /\ Drawn(f) = Drawn(r) /\ f.stdbuf = r.stdbuf
      /\ \A e \in ToSet(f.in) : e \in ToSet(r.in) \/ (e[1] = n /\ e[2] \in ToSet(data))
  <2> HIDE DEF n, data, r
  <2> QED BY <1>4, <1>5, <1>6, <1>7, FedIs
<1>9. t \in KidsState /\ t.starts = s.starts /\ t.open = s.open /\ t.p = [p1 EXCEPT ![z] = f]
  <2>1. f \in ProcRec
    BY <1>8 DEF Own
  <2> HIDE DEF f
  <2> QED BY <1>2, <2>1 DEF KidsState
<1>10. t.p[z] = f /\ \A y \in Proc \ {z} : t.p[y] = p1[y]
  <2> HIDE DEF t, f
  <2> QED BY <1>2, <1>9
<1> HIDE DEF t, f, r, s1, n, data
<1>11. \A y \in Proc : /\ Own(t.p[y], y) /\ t.p[y].ends = p1[y].ends
                       /\ Active(t.p[y]) <=> Active(p1[y])
                       /\ t.p[y].run = p1[y].run /\ Drawn(t.p[y]) = Drawn(p1[y])
                       /\ t.p[y].stdbuf = p1[y].stdbuf
                       /\ \A e \in ToSet(t.p[y].in) :
                            e \in ToSet(p1[y].in) \/ (e[1] = n /\ e[2] \in ToSet(data))
  <2>1. \A y \in Proc : Own(p1[y], y)
    BY <1>1, <1>2 DEF KidsSound
  <2> QED BY <1>8, <1>10, <2>1 DEF r
<1>12. t.open = UNION {t.p[y].ends : y \in Proc}
  <2>1. s1.open = UNION {p1[y].ends : y \in Proc}
    BY <1>1, <1>2 DEF KidsSound
  <2> QED BY <1>2, <1>9, <1>11, <2>1
<1>13. ASSUME NEW y \in Proc
       PROVE  /\ \A e \in ToSet(t.p[y].in) : e[1] < t.starts
              /\ Active(t.p[y]) => t.p[y].run < t.starts
  <2>1. /\ \A e \in ToSet(p1[y].in) : e[1] < s.starts
        /\ Active(p1[y]) => p1[y].run < s.starts
    BY <1>1, <1>2 DEF KidsSound
  <2> QED BY <1>4, <1>9, <1>11, <2>1
<1>14. ASSUME NEW y \in Proc, NEW v \in Proc
       PROVE  /\ Before(t.p[y], t.p[v])
              /\ y # v /\ Active(t.p[y]) /\ Active(t.p[v]) => t.p[y].run # t.p[v].run
  <2>1. /\ Before(p1[y], p1[v])
        /\ y # v /\ Active(p1[y]) /\ Active(p1[v]) => p1[y].run # p1[v].run
    BY <1>1, <1>2 DEF KidsSound
  <2>2. ASSUME Active(t.p[y]), NEW e \in ToSet(t.p[v].in), e[1] = t.p[y].run
        PROVE  e[2] <= Drawn(t.p[y]) /\ \A d \in ToSet(t.p[y].stdbuf) : e[2] < d
    <3>1. CASE e \in ToSet(p1[v].in)
      BY <1>11, <2>1, <2>2, <3>1 DEF Before
    <3>2. CASE e[1] = n /\ e[2] \in ToSet(data)
      <4>1. y = x
        <5>1. y # x => Active(s.p[y]) /\ s.p[y].run = n
          BY <1>3, <1>11, <2>2, <3>2
        <5>2. y # x /\ Active(s.p[y]) => s.p[y].run # n
          BY DEF KidsSound, n
        <5> QED BY <5>1, <5>2
      <4>2. /\ Drawn(t.p[y]) = Drawn(q) /\ ToSet(t.p[y].stdbuf) = {}
        BY <1>3, <1>11, <4>1 DEF ToSet
      <4>3. Active(q)
        BY <1>3, <1>11, <2>2, <4>1
      <4>4. Drawn(s.p[x]) <= Drawn(q)
        BY <4>3 DEF Flowing, Continues
      <4>5. e[2] \in Nat /\ e[2] <= Drawn(s.p[x])
        BY <1>4, <1>5, <3>2
      <4> QED BY <1>4, <4>2, <4>4, <4>5
    <3> QED BY <1>11, <2>2, <3>1, <3>2
  <2> QED BY <1>11, <2>1, <2>2 DEF Before
<1>15. KidsSound(t)
  BY <1>9, <1>11, <1>12, <1>13, <1>14 DEF KidsSound
<1>16. t = [s EXCEPT !.p = [p1 EXCEPT ![z] = Fed(@, s.p[x].run, s.p[x].stdbuf)]]
  BY <1>2 DEF t, f, r, n, data
<1> QED BY <1>15, <1>16

\* A flush, to no process, to one that ended or to one that hears it.
LEMMA FlushedKeeps ==
  ASSUME KidsSound(kids), NEW x \in Proc, NEW q, Flowing(kids.p[x], q), q.stdbuf = << >>,
         Active(kids.p[x]), NEW p1, p1 = [kids.p EXCEPT ![x] = q]
  PROVE  KidsSound([kids EXCEPT !.p = K!Flushed(p1, x, kids.p[x].stdbuf)])
<1> DEFINE z == kids.p[x].pipe_to
           data == kids.p[x].stdbuf
           n == kids.p[x].run
<1>1. kids.p \in [Proc -> ProcRec] /\ kids.p[x] \in ProcRec /\ K!P(x) = kids.p[x]
  BY KidIs
<1>2. q \in ProcRec /\ p1 \in [Proc -> ProcRec]
  BY <1>1 DEF Flowing
<1>3. CASE K!Flushed(p1, x, data) = p1
  BY <1>3, FlowsKeep
<1>4. CASE K!Flushed(p1, x, data) # p1
  <2>1. z # NULL /\ data # << >>
    BY <1>1, <1>4 DEF K!Flushed
  <2>2. z \in Proc
    BY <1>1, <2>1 DEF ProcRec
  <2>3. p1[z] \in ProcRec /\ p1[z] = [p1[z] EXCEPT !.in = p1[z].in]
    BY <1>2, <2>2 DEF ProcRec
  <2>4. ~K!Gone(z)
    <3>1. K!Gone(z) => K!Flushed(p1, x, data) = [p1 EXCEPT ![z] = [p1[z] EXCEPT !.in = p1[z].in]]
      BY <1>1, <1>2, <2>1, <2>2 DEF K!Flushed
    <3>2. [p1 EXCEPT ![z] = p1[z]] = p1
      BY <1>2, SMTT(60)
    <3> QED BY <1>4, <2>3, <3>1, <3>2
  <2>5. K!Flushed(p1, x, data) = [p1 EXCEPT ![z] = Fed(@, n, data)]
    BY <1>1, <1>2, <2>1, <2>2, <2>4 DEF K!Flushed, Fed
  <2> HIDE DEF z
  <2> QED BY <2>2, <2>5, FeedKeeps, SMTT(60)
<1> QED BY <1>3, <1>4

\* The child's steps.
LEMMA ChildKeeps ==
  ASSUME KidsSound(kids), NEW x \in Proc, K!Child(x)
  PROVE  KidsSound(kids')
<1> DEFINE p == kids.p[x]
           to(q) == [kids EXCEPT !.p = [kids.p EXCEPT ![x] = q]]
<1>1. p \in ProcRec /\ Own(p, x) /\ K!P(x) = p /\ kids \in KidsState /\ kids.p \in [Proc -> ProcRec]
  BY KidIs
<1>2. p.child = "running"
  BY <1>1 DEF K!Child
<1>3. \A q : Flowing(p, q) => KidsSound(to(q))
  BY FlowsKeep
<1>4. \/ kids' = to([p EXCEPT !.out = Append(p.out, p.wrote + 1), !.wrote = p.wrote + 1])
      \/ kids' = to([p EXCEPT !.err = p.err + 1, !.wroteErr = p.wroteErr + 1])
      \/ kids' = to([p EXCEPT !.child = "zombie"])
  BY <1>1, ZenonT(60) DEF K!Child, K!Change, KidsState
<1>5. Flowing(p, [p EXCEPT !.out = Append(p.out, p.wrote + 1), !.wrote = p.wrote + 1])
  <2>1. Flowing(p, Flows(p, p.child, p.reader, p.closed, Append(p.out, p.wrote + 1), p.wrote + 1, p.got,
                  p.stdbuf, p.err, p.wroteErr, p.gotErr))
    BY <1>1, <1>2, OutFlows
  <2>2. [p EXCEPT !.out = Append(p.out, p.wrote + 1), !.wrote = p.wrote + 1]
          = Flows(p, p.child, p.reader, p.closed, Append(p.out, p.wrote + 1), p.wrote + 1, p.got,
                  p.stdbuf, p.err, p.wroteErr, p.gotErr)
    BY <1>1 DEF ProcRec, Flows, StillFlows
  <2> QED BY <2>1, <2>2
<1>6. Flowing(p, [p EXCEPT !.err = p.err + 1, !.wroteErr = p.wroteErr + 1])
  <2>1. Flowing(p, StillFlows(p, p.child, p.reader, p.closed, p.err + 1, p.wroteErr + 1, p.gotErr))
    BY <1>1, <1>2, ErrFlows
  <2>2. [p EXCEPT !.err = p.err + 1, !.wroteErr = p.wroteErr + 1]
          = StillFlows(p, p.child, p.reader, p.closed, p.err + 1, p.wroteErr + 1, p.gotErr)
    BY <1>1 DEF ProcRec, Flows, StillFlows
  <2> QED BY <2>1, <2>2
<1>7. Flowing(p, [p EXCEPT !.child = "zombie"])
  <2>1. Flowing(p, StillFlows(p, "zombie", p.reader, p.closed, p.err, p.wroteErr, p.gotErr))
    BY <1>1, <1>2, ErrFlows
  <2>2. [p EXCEPT !.child = "zombie"]
          = StillFlows(p, "zombie", p.reader, p.closed, p.err, p.wroteErr, p.gotErr)
    BY <1>1 DEF ProcRec, Flows, StillFlows
  <2> QED BY <2>1, <2>2
<1> HIDE DEF to
<1> QED BY <1>3, <1>4, <1>5, <1>6, <1>7

\* The client's reads.
LEMMA ReadsKeep ==
  ASSUME KidsSound(kids), NEW x \in Proc, K!Read(x) \/ K!ReadErr(x)
  PROVE  KidsSound(kids')
<1> DEFINE p == kids.p[x]
           to(q) == [kids EXCEPT !.p = [kids.p EXCEPT ![x] = q]]
<1>1. p \in ProcRec /\ Own(p, x) /\ K!P(x) = p /\ kids \in KidsState /\ kids.p \in [Proc -> ProcRec]
  BY KidIs
<1>2. \A q : Flowing(p, q) => KidsSound(to(q))
  BY FlowsKeep
<1>3. CASE K!Read(x)
  <2>1. /\ "r" \in p.type /\ p.out # << >>
        /\ kids' = to([p EXCEPT !.out = Tail(p.out), !.got = Append(p.got, Head(p.out))])
    BY <1>1, <1>3 DEF K!Read, KidsState
  <2>2. p.type # {"w"}
    BY <2>1
  <2>3. Flowing(p, Flows(p, p.child, p.reader, p.closed, Tail(p.out), p.wrote,
                         Append(p.got, Head(p.out)), p.stdbuf, p.err, p.wroteErr, p.gotErr))
    BY <1>1, <2>1, <2>2, GotFlows
  <2>4. Flowing(p, [p EXCEPT !.out = Tail(p.out), !.got = Append(p.got, Head(p.out))])
    <3>1. [p EXCEPT !.out = Tail(p.out), !.got = Append(p.got, Head(p.out))]
            = Flows(p, p.child, p.reader, p.closed, Tail(p.out), p.wrote, Append(p.got, Head(p.out)),
                    p.stdbuf, p.err, p.wroteErr, p.gotErr)
      BY <1>1 DEF ProcRec, Flows, StillFlows
    <3> QED BY <2>3, <3>1
  <2> HIDE DEF to
  <2> QED BY <1>2, <2>1, <2>4
<1>4. CASE K!ReadErr(x)
  <2>1. /\ "e" \in p.type /\ p.err > 0
        /\ kids' = to([p EXCEPT !.err = p.err - 1, !.gotErr = p.gotErr + 1])
    BY <1>1, <1>4 DEF K!ReadErr, KidsState
  <2>2. Flowing(p, StillFlows(p, p.child, p.reader, p.closed, p.err - 1, p.wroteErr, p.gotErr + 1))
    BY <1>1, <2>1, ErrTakenFlows
  <2>3. Flowing(p, [p EXCEPT !.err = p.err - 1, !.gotErr = p.gotErr + 1])
    <3>1. [p EXCEPT !.err = p.err - 1, !.gotErr = p.gotErr + 1]
            = StillFlows(p, p.child, p.reader, p.closed, p.err - 1, p.wroteErr, p.gotErr + 1)
      BY <1>1 DEF ProcRec, Flows, StillFlows
    <3> QED BY <2>2, <3>1
  <2> HIDE DEF to
  <2> QED BY <1>2, <2>1, <2>3
<1> QED BY <1>3, <1>4

\* The reader's steps.
LEMMA ReaderKeeps ==
  ASSUME KidsSound(kids), NEW x \in Proc, K!Reader(x)
  PROVE  KidsSound(kids')
<1> DEFINE p == kids.p[x]
           to(q) == [kids EXCEPT !.p = [kids.p EXCEPT ![x] = q]]
           on(q) == [kids EXCEPT !.p = K!Flushed([kids.p EXCEPT ![x] = q], x, p.stdbuf)]
           c == Head(p.out)
<1>1. p \in ProcRec /\ Own(p, x) /\ K!P(x) = p /\ kids \in KidsState /\ kids.p \in [Proc -> ProcRec]
  BY KidIs
<1>2. \A q : Flowing(p, q) => KidsSound(to(q))
  BY FlowsKeep
<1>3. \A q : Flowing(p, q) /\ q.stdbuf = << >> /\ p.reader = "loop" => KidsSound(on(q))
  BY FlushedKeeps DEF Active
<1>4. K!Gone(x) <=> Over(p)
  BY <1>1 DEF K!Gone, Over
<1>5. CASE K!ReadProc(x)
  <2> DEFINE closed == (IF "r" \in p.type /\ p.pipe_to = NULL THEN {"out"} ELSE {})
                         \cup (IF "e" \in p.type THEN {"err"} ELSE {})
  <2>1. p.reader = "start" /\ kids' = to([p EXCEPT !.reader = "loop", !.closed = closed])
    BY <1>1, <1>5 DEF K!ReadProc, KidsState
  <2>2. Flowing(p, StillFlows(p, p.child, "loop", closed, p.err, p.wroteErr, p.gotErr))
    BY <1>1, <2>1, StartFlows
  <2> HIDE DEF closed
  <2>3. [p EXCEPT !.reader = "loop", !.closed = closed]
          = StillFlows(p, p.child, "loop", closed, p.err, p.wroteErr, p.gotErr)
    BY <1>1 DEF ProcRec, Flows, StillFlows
  <2> HIDE DEF to
  <2> QED BY <1>2, <2>1, <2>2, <2>3
<1>6. CASE K!ReadErrOut(x)
  <2>1. /\ p.reader = "loop" /\ "err" \notin p.closed
        /\ \/ p.err > 0 /\ kids' = to([p EXCEPT !.err = p.err - 1])
           \/ p.err = 0 /\ Over(p) /\ kids' = to([p EXCEPT !.closed = p.closed \cup {"err"}])
    BY <1>1, <1>4, <1>6 DEF K!ReadErrOut, KidsState
  <2>2. p.err > 0 =>
          Flowing(p, StillFlows(p, p.child, p.reader, p.closed, p.err - 1, p.wroteErr, p.gotErr))
    BY <1>1, <2>1, ErrTakenFlows
  <2>3. p.err = 0 /\ Over(p) =>
          Flowing(p, StillFlows(p, p.child, p.reader, p.closed \cup {"err"}, p.err, p.wroteErr, p.gotErr))
    BY <1>1, <2>1, CloseFlows
  <2>4. [p EXCEPT !.err = p.err - 1]
          = StillFlows(p, p.child, p.reader, p.closed, p.err - 1, p.wroteErr, p.gotErr)
    BY <1>1 DEF ProcRec, Flows, StillFlows
  <2>5. [p EXCEPT !.closed = p.closed \cup {"err"}]
          = StillFlows(p, p.child, p.reader, p.closed \cup {"err"}, p.err, p.wroteErr, p.gotErr)
    BY <1>1 DEF ProcRec, Flows, StillFlows
  <2> HIDE DEF to
  <2> QED BY <1>2, <2>1, <2>2, <2>3, <2>4, <2>5
<1>7. CASE K!ReadOut(x)
  <2> DEFINE b == IF c \in LineEnd THEN << >> ELSE Append(p.stdbuf, c)
             q == [p EXCEPT !.out = Tail(p.out), !.stdbuf = b]
  <2>1. /\ p.reader = "loop" /\ "out" \notin p.closed
        /\ \/ p.out # << >> /\ kids' = IF c \in LineEnd THEN on(q) ELSE to(q)
           \/ p.out = << >> /\ Over(p) /\ kids' = to([p EXCEPT !.closed = p.closed \cup {"out"}])
    BY <1>1, <1>4, <1>7 DEF K!ReadOut, KidsState
  <2>2. ASSUME p.out # << >> PROVE Flowing(p, q)
    <3>1. Tail(p.out) # p.out
      <4>1. Len(Tail(p.out)) = Len(p.out) - 1 /\ Len(p.out) \in Nat \ {0}
        <5>1. Counts(p)
          BY <1>1 DEF Own
        <5> QED BY <1>1, <2>2, <5>1, FirstOut
      <4>2. Len(p.out) - 1 # Len(p.out)
        BY <4>1
      <4>3. Tail(p.out) = p.out => Len(Tail(p.out)) = Len(p.out)
        OBVIOUS
      <4> QED BY <4>1, <4>2, <4>3
    <3>2. b = << >> \/ (b = Append(p.stdbuf, c) /\ c \notin LineEnd)
      OBVIOUS
    <3> HIDE DEF b
    <3>3. Flowing(p, Flows(p, p.child, p.reader, p.closed, Tail(p.out), p.wrote, p.got, b,
                           p.err, p.wroteErr, p.gotErr))
      BY <1>1, <2>1, <2>2, <3>1, <3>2, ReaderFlows
    <3>4. q = Flows(p, p.child, p.reader, p.closed, Tail(p.out), p.wrote, p.got, b,
                    p.err, p.wroteErr, p.gotErr)
      BY <1>1 DEF ProcRec, Flows
    <3> QED BY <3>3, <3>4
  <2>3. q.stdbuf = b
    <3> HIDE DEF b
    <3> QED BY <1>1 DEF ProcRec
  <2>4. p.out = << >> /\ Over(p) => Flowing(p, [p EXCEPT !.closed = p.closed \cup {"out"}])
    <3>1. [p EXCEPT !.closed = p.closed \cup {"out"}]
            = StillFlows(p, p.child, p.reader, p.closed \cup {"out"}, p.err, p.wroteErr, p.gotErr)
      BY <1>1 DEF ProcRec, Flows, StillFlows
    <3> QED BY <1>1, <2>1, <3>1, CloseFlows, ZenonT(60)
  <2>5. c \in LineEnd => b = << >>
    OBVIOUS
  <2> HIDE DEF to, on, b, q
  <2> QED BY <1>2, <1>3, <2>1, <2>2, <2>3, <2>4, <2>5
<1>8. CASE K!FlushRest(x)
  <2> DEFINE q == [p EXCEPT !.stdbuf = << >>]
  <2>1. p.reader = "loop" /\ kids' = on(q)
    BY <1>1, <1>8 DEF K!FlushRest, KidsState
  <2>2. q = Flows(p, p.child, p.reader, p.closed, p.out, p.wrote, p.got, << >>,
                  p.err, p.wroteErr, p.gotErr)
    BY <1>1 DEF ProcRec, Flows
  <2>3. Flowing(p, Flows(p, p.child, p.reader, p.closed, p.out, p.wrote, p.got, << >>,
                         p.err, p.wroteErr, p.gotErr))
    BY <1>1, <2>1, ReaderFlows
  <2>4. Flowing(p, q)
    BY <2>2, <2>3
  <2>5. q.stdbuf = << >>
    BY <1>1 DEF ProcRec
  <2> HIDE DEF on, q
  <2> QED BY <1>3, <2>1, <2>4, <2>5
<1>9. CASE K!ReaderEnds(x)
  <2> DEFINE q == [p EXCEPT !.stdbuf = << >>, !.reader = "done"]
  <2>1. p.reader = "loop" /\ p.closed = {"out", "err"} /\ kids' = on(q)
    BY <1>1, <1>9 DEF K!ReaderEnds, KidsState
  <2>2. q = Flows(p, p.child, "done", p.closed, p.out, p.wrote, p.got, << >>,
                  p.err, p.wroteErr, p.gotErr)
    BY <1>1 DEF ProcRec, Flows
  <2>3. Flowing(p, Flows(p, p.child, "done", p.closed, p.out, p.wrote, p.got, << >>,
                         p.err, p.wroteErr, p.gotErr))
    BY <1>1, <2>1, ReaderFlows
  <2>4. Flowing(p, q)
    BY <2>2, <2>3
  <2>5. q.stdbuf = << >>
    BY <1>1 DEF ProcRec
  <2> HIDE DEF on, q
  <2> QED BY <1>3, <2>1, <2>4, <2>5
<1> QED BY <1>5, <1>6, <1>7, <1>8, <1>9 DEF K!Reader

\* One process piped to another.
LEMMA PipeToKeeps ==
  ASSUME KidsSound(kids), NEW x \in Proc, NEW y \in Proc, K!PipeTo(x, y)
  PROVE  KidsSound(kids')
<1> DEFINE p == kids.p[x]
           r == kids.p[y]
           q == [p EXCEPT !.pipe_to = y, !.piped = TRUE]
           u == [r EXCEPT !.pipe_from = x]
           t == [kids EXCEPT !.p = [kids.p EXCEPT ![y] = u, ![x] = q]]
<1>1. /\ p \in ProcRec /\ Own(p, x) /\ r \in ProcRec /\ Own(r, y)
      /\ kids \in KidsState /\ kids.p \in [Proc -> ProcRec]
  BY KidIs
<1>2. x # y /\ kids' = t
  BY <1>1 DEF K!PipeTo, KidsState
<1>3. /\ q \in ProcRec /\ q.pipe_to = y /\ q.piped = TRUE /\ q.status = p.status /\ q.type = p.type
      /\ q.ends = p.ends /\ q.reader = p.reader /\ q.closed = p.closed /\ q.stdbuf = p.stdbuf
      /\ q.child = p.child /\ q.out = p.out /\ q.err = p.err /\ q.in = p.in /\ q.wrote = p.wrote
      /\ q.got = p.got /\ q.gotErr = p.gotErr /\ q.wroteErr = p.wroteErr /\ q.run = p.run
  BY <1>1, ZenonT(60) DEF ProcRec
<1>4. /\ u \in ProcRec /\ u.pipe_to = r.pipe_to /\ u.piped = r.piped /\ u.status = r.status
      /\ u.type = r.type /\ u.ends = r.ends /\ u.reader = r.reader /\ u.closed = r.closed
      /\ u.stdbuf = r.stdbuf /\ u.child = r.child /\ u.out = r.out /\ u.err = r.err /\ u.in = r.in
      /\ u.wrote = r.wrote /\ u.got = r.got /\ u.gotErr = r.gotErr /\ u.wroteErr = r.wroteErr
      /\ u.run = r.run
  BY <1>1, ZenonT(60) DEF ProcRec
<1> HIDE DEF q, u
<1>5. Own(q, x) /\ Continues(p, q)
  <2>1. HasEnds(q, x) /\ Asks(q) /\ Drains(q) /\ Counts(q) /\ Heard(q)
    <3> HIDE DEF p
    <3> QED BY <1>1, <1>3 DEF Own, HasEnds, Asks, Drains, Counts, Heard, Active, Drawn, Over
  <2>2. Drawn(q) = Drawn(p) /\ Drawn(p) \in Int
    BY <1>1, <1>3, DrawnType DEF Drawn
  <2> QED BY <1>1, <1>3, <2>1, <2>2 DEF Own, Continues, Active
<1>6. Own(u, y) /\ Continues(r, u)
  <2>1. HasEnds(u, y) /\ Asks(u) /\ Drains(u) /\ Counts(u) /\ Heard(u)
    <3> HIDE DEF r
    <3> QED BY <1>1, <1>4 DEF Own, HasEnds, Asks, Drains, Counts, Heard, Active, Drawn, Over
  <2>2. Drawn(u) = Drawn(r) /\ Drawn(r) \in Int
    BY <1>1, <1>4, DrawnType DEF Drawn
  <2> QED BY <1>1, <1>4, <2>1, <2>2, SMTT(60) DEF Own, Continues, Active
<1>7. t \in KidsState /\ t.starts = kids.starts /\ t.open = kids.open /\ kids.starts \in Nat
  BY <1>1, <1>3, <1>4 DEF KidsState
<1>8. t.p[x] = q /\ t.p[y] = u /\ \A z \in Proc \ {x, y} : t.p[z] = kids.p[z]
  <2>1. t.p = [kids.p EXCEPT ![y] = u, ![x] = q]
    BY <1>1 DEF KidsState
  <2> HIDE DEF t
  <2> QED BY <1>1, <1>2, <2>1
<1> HIDE DEF t
<1>9. \A z \in Proc : /\ Own(t.p[z], z) /\ Continues(kids.p[z], t.p[z])
                      /\ t.p[z].ends = kids.p[z].ends
  <2>1. \A z \in Proc : kids.p[z] \in ProcRec /\ Own(kids.p[z], z)
    BY <1>1 DEF KidsSound
  <2> QED BY <1>3, <1>4, <1>5, <1>6, <1>8, <2>1, SameContinues
<1>10. t.open = UNION {t.p[z].ends : z \in Proc}
  <2>1. kids.open = UNION {kids.p[z].ends : z \in Proc}
    BY DEF KidsSound
  <2> QED BY <1>7, <1>9, <2>1
<1> QED BY <1>2, <1>7, <1>9, <1>10, KidsKeep

\* Two steps of a process that continues are one.
LEMMA ContinuesOn ==
  ASSUME NEW q \in ProcRec, NEW r \in ProcRec, NEW u \in ProcRec, Continues(q, r), Continues(r, u)
  PROVE  Continues(q, u)
<1>1. Drawn(q) \in Int /\ Drawn(r) \in Int /\ Drawn(u) \in Int /\ ToSet(u.stdbuf) \subseteq Nat
  BY DrawnType
<1>2. ToSet(u.in) \subseteq ToSet(q.in)
  BY DEF Continues
<1>3. ASSUME Active(u)
      PROVE  /\ Active(q) /\ u.run = q.run /\ Drawn(q) <= Drawn(u)
             /\ \A d \in ToSet(u.stdbuf) : d \in ToSet(q.stdbuf) \/ Drawn(q) < d
  BY <1>1, <1>3 DEF Continues
<1> QED BY <1>2, <1>3 DEF Continues

\* A process with other links.
Linked(r, to, from) == [r EXCEPT !.pipe_to = to, !.pipe_from = from]

\* It continues.
LEMMA LinksIs ==
  ASSUME NEW r, NEW y, Own(r, y), NEW to \in {NULL, r.pipe_to}, NEW from \in {NULL, r.pipe_from}
  PROVE  /\ Own(Linked(r, to, from), y) /\ Continues(r, Linked(r, to, from))
         /\ Linked(r, to, from).ends = r.ends
<1> DEFINE u == [r EXCEPT !.pipe_to = to, !.pipe_from = from]
<1>1. r \in ProcRec
  BY DEF Own
<1>2. /\ u \in ProcRec /\ u.pipe_to = to /\ u.piped = r.piped /\ u.status = r.status
      /\ u.type = r.type /\ u.ends = r.ends /\ u.reader = r.reader /\ u.closed = r.closed
      /\ u.stdbuf = r.stdbuf /\ u.child = r.child /\ u.out = r.out /\ u.err = r.err /\ u.in = r.in
      /\ u.wrote = r.wrote /\ u.got = r.got /\ u.gotErr = r.gotErr /\ u.wroteErr = r.wroteErr
      /\ u.run = r.run
  BY <1>1 DEF ProcRec
<1> HIDE DEF u
<1>3. HasEnds(u, y) /\ Asks(u) /\ Drains(u) /\ Counts(u) /\ Heard(u)
  BY <1>2 DEF Own, HasEnds, Asks, Drains, Counts, Heard, Active, Drawn, Over
<1>4. Drawn(u) = Drawn(r) /\ Drawn(r) \in Int
  BY <1>1, <1>2, DrawnType DEF Drawn
<1>5. Own(u, y) /\ Continues(r, u)
  BY <1>2, <1>3, <1>4 DEF Own, Continues, Active
<1> QED BY <1>2, <1>5 DEF u, Linked

\* A process whose child is signalled and reaped.
LEMMA KilledIs ==
  ASSUME NEW r, NEW y, Own(r, y)
  PROVE  Own(K!Killed(r), y) /\ Continues(r, K!Killed(r)) /\ K!Killed(r).ends = r.ends
<1> DEFINE c == IF r.status \in {"running", "suspended"} THEN "reaped" ELSE r.child
           u == [r EXCEPT !.status = "exited", !.child = c]
<1>1. r \in ProcRec /\ (r.status \in {"running", "suspended"} <=> r.child \in {"running", "stopped", "zombie"})
  BY DEF Own
<1>2. c \in {"none", "reaped"} /\ (Over(r) => c = "reaped")
  <2>1. r.child \in {"none", "running", "stopped", "zombie", "reaped"}
    BY <1>1 DEF ProcRec
  <2> QED BY <1>1, <2>1 DEF Over
<1> HIDE DEF c
<1>3. /\ u \in ProcRec /\ u.pipe_to = r.pipe_to /\ u.piped = r.piped /\ u.status = "exited"
      /\ u.type = r.type /\ u.ends = r.ends /\ u.reader = r.reader /\ u.closed = r.closed
      /\ u.stdbuf = r.stdbuf /\ u.child = c /\ u.out = r.out /\ u.err = r.err /\ u.in = r.in
      /\ u.wrote = r.wrote /\ u.got = r.got /\ u.gotErr = r.gotErr /\ u.wroteErr = r.wroteErr
      /\ u.run = r.run
  BY <1>1, <1>2, ZenonT(60) DEF ProcRec
<1>4. K!Killed(r) = u
  BY <1>1 DEF K!Killed, ProcRec, c
<1> HIDE DEF u
<1>5. HasEnds(u, y) /\ Asks(u) /\ Drains(u) /\ Counts(u) /\ Heard(u)
  BY <1>2, <1>3 DEF Own, HasEnds, Asks, Drains, Counts, Heard, Active, Drawn, Over
<1>6. Drawn(u) = Drawn(r) /\ Drawn(r) \in Int
  BY <1>1, <1>3, DrawnType DEF Drawn
<1>7. Own(u, y) /\ Continues(r, u)
  BY <1>2, <1>3, <1>5, <1>6 DEF Own, Continues, Active
<1> QED BY <1>3, <1>4, <1>7

\* Destroy unlinks the process and ends its child.
LEMMA DestroyKeeps ==
  ASSUME KidsSound(kids), NEW x \in Proc, K!Destroy(x)
  PROVE  KidsSound(kids')
<1> DEFINE m  == [call |-> "destroy", of |-> x]
           un == K!Unlink(kids.p, x)
           p2 == [un EXCEPT ![x] = K!Killed(un[x])]
           t  == [kids EXCEPT !.p = p2, !.main = m]
<1>1. /\ kids \in KidsState /\ kids.p \in [Proc -> ProcRec] /\ \A y \in Proc : Own(kids.p[y], y)
      /\ kids.starts \in Nat /\ kids.open = UNION {kids.p[y].ends : y \in Proc}
  BY DEF KidsSound, KidsState
<1>2. kids' = t
  BY <1>1 DEF K!Destroy
<1>3. ASSUME NEW y \in Proc
      PROVE  Own(un[y], y) /\ Continues(kids.p[y], un[y]) /\ un[y].ends = kids.p[y].ends
  <2> DEFINE r    == kids.p[y]
             to   == IF y = x \/ kids.p[x].pipe_from = y THEN NULL ELSE r.pipe_to
             from == IF y = x \/ kids.p[x].pipe_to = y THEN NULL ELSE r.pipe_from
  <2>1. un[y] = Linked(r, to, from)
    BY <1>1 DEF K!Unlink, ProcRec, Linked
  <2>2. to \in {NULL, r.pipe_to} /\ from \in {NULL, r.pipe_from}
    OBVIOUS
  <2> HIDE DEF to, from, un
  <2> QED BY <1>1, <2>1, <2>2, LinksIs
<1>4. un = [y \in Proc |-> un[y]]
  BY DEF K!Unlink
<1> HIDE DEF un
<1>5. ASSUME NEW y \in Proc
      PROVE  Own(p2[y], y) /\ Continues(kids.p[y], p2[y]) /\ p2[y].ends = kids.p[y].ends
  <2>1. CASE y # x
    <3>1. p2[y] = un[y]
      BY <1>4, <2>1
    <3> QED BY <1>3, <3>1
  <2>2. CASE y = x
    <3>1. p2[y] = K!Killed(un[y])
      BY <1>4, <2>2
    <3>2. Own(p2[y], y) /\ Continues(un[y], p2[y]) /\ p2[y].ends = un[y].ends
      BY <1>3, <3>1, KilledIs
    <3>3. Own(un[y], y) /\ Continues(kids.p[y], un[y]) /\ un[y].ends = kids.p[y].ends
      BY <1>3
    <3>4. /\ kids.p[y] \in ProcRec /\ un[y] \in ProcRec /\ p2[y] \in ProcRec
      BY <1>1, <3>2, <3>3 DEF Own
    <3> QED BY <3>2, <3>3, <3>4, ContinuesOn
  <2> QED BY <2>1, <2>2
<1>6. p2 \in [Proc -> ProcRec]
  <2>1. p2 = [y \in Proc |-> p2[y]]
    BY <1>4
  <2> HIDE DEF p2
  <2> QED BY <1>5, <2>1 DEF Own
<1> HIDE DEF p2
<1>7. t \in KidsState /\ t.p = p2 /\ t.starts = kids.starts /\ t.open = kids.open
  BY <1>1, <1>6 DEF KidsState
<1>8. t.open = UNION {t.p[y].ends : y \in Proc}
  <2> HIDE DEF t
  <2> QED BY <1>1, <1>5, <1>7
<1> HIDE DEF t
<1> QED BY <1>1, <1>2, <1>5, <1>7, <1>8, KidsKeep

\* A process of which nothing has run yet, or nothing is left.
Blank(status, type, from, to, piped, ends, reader, child, run) ==
  [K!NewProcess EXCEPT !.status = status, !.type = type, !.pipe_from = from, !.pipe_to = to,
                       !.piped = piped, !.ends = ends, !.reader = reader, !.child = child, !.run = run]

\* The record of a new process.
LEMMA NewIs ==
  /\ K!NewProcess \in ProcRec
  /\ K!NewProcess.status = "idle" /\ K!NewProcess.type = {} /\ K!NewProcess.pipe_from = NULL
  /\ K!NewProcess.pipe_to = NULL /\ K!NewProcess.ends = {} /\ K!NewProcess.reader = "none"
  /\ K!NewProcess.child = "none" /\ K!NewProcess.piped = FALSE /\ K!NewProcess.run = 0
  /\ K!NewProcess.closed = {} /\ K!NewProcess.stdbuf = << >> /\ K!NewProcess.out = << >>
  /\ K!NewProcess.err = 0 /\ K!NewProcess.in = << >> /\ K!NewProcess.wrote = 0
  /\ K!NewProcess.got = << >> /\ K!NewProcess.gotErr = 0 /\ K!NewProcess.wroteErr = 0
<1>1. << >> \in Seq(Nat) /\ << >> \in Seq(Nat \X Nat)
  BY EmptySeq
<1>2. K!NewProcess \in ProcRec
  BY <1>1 DEF K!NewProcess, ProcRec
<1>3. /\ K!NewProcess.status = "idle" /\ K!NewProcess.type = {} /\ K!NewProcess.pipe_from = NULL
      /\ K!NewProcess.pipe_to = NULL /\ K!NewProcess.ends = {} /\ K!NewProcess.reader = "none"
      /\ K!NewProcess.child = "none" /\ K!NewProcess.piped = FALSE /\ K!NewProcess.run = 0
  BY DEF K!NewProcess
<1>4. /\ K!NewProcess.closed = {} /\ K!NewProcess.stdbuf = << >> /\ K!NewProcess.out = << >>
      /\ K!NewProcess.err = 0 /\ K!NewProcess.in = << >> /\ K!NewProcess.wrote = 0
      /\ K!NewProcess.got = << >> /\ K!NewProcess.gotErr = 0 /\ K!NewProcess.wroteErr = 0
  BY DEF K!NewProcess
<1> QED BY <1>2, <1>3, <1>4

\* What there is of it.
IsBlank(q, x, ends, reader, run) ==
  /\ Own(q, x) /\ ToSet(q.in) = {} /\ q.ends = ends /\ q.run = run
  /\ Active(q) <=> reader = "start"

\* The state of a process and that of its child.
Agreed(status, child) ==
  /\ status \in {"none", "idle", "running", "suspended", "exited"}
  /\ child \in {"none", "running", "stopped", "zombie", "reaped"}
  /\ status \in {"running", "suspended"} <=> child \in {"running", "stopped", "zombie"}

\* It is sound.
LEMMA BlankIs ==
  ASSUME NEW x \in Proc, NEW status, NEW child, Agreed(status, child), NEW type \in SUBSET Modes,
         NEW from \in Proc \cup {NULL}, NEW to \in Proc \cup {NULL}, NEW piped \in BOOLEAN,
         NEW ends \in SUBSET PipeEnds, NEW reader \in {"none", "start"}, NEW run \in Nat,
         piped \/ to = NULL, \A f \in ends : f[1] = x,
         reader = "start" => {<<x, "out", "r">>, <<x, "err", "r">>} \subseteq ends
  PROVE  IsBlank(Blank(status, type, from, to, piped, ends, reader, child, run), x, ends, reader, run)
<1> DEFINE n == K!NewProcess
           q == [n EXCEPT !.status = status, !.type = type, !.pipe_from = from, !.pipe_to = to,
                          !.piped = piped, !.ends = ends, !.reader = reader, !.child = child, !.run = run]
<1>1. /\ << >> \in Seq(Nat) /\ << >> \in Seq(Nat \X Nat) /\ Len(<< >>) = 0
      /\ DOMAIN << >> = {} /\ ToSet(<< >>) = {}
  <2>1. DOMAIN << >> = {}
    OBVIOUS
  <2>2. << >> \in Seq(Nat) /\ << >> \in Seq(Nat \X Nat) /\ Len(<< >>) = 0
    BY EmptySeq
  <2> QED BY <2>1, <2>2 DEF ToSet
<1>2. /\ n \in ProcRec
      /\ n.closed = {} /\ n.stdbuf = << >> /\ n.out = << >> /\ n.err = 0 /\ n.in = << >>
      /\ n.wrote = 0 /\ n.got = << >> /\ n.gotErr = 0 /\ n.wroteErr = 0
  BY NewIs
<1> HIDE DEF n
<1>3. q \in ProcRec
  <2> DEFINE a == [n EXCEPT !.status = status, !.type = type, !.pipe_from = from]
             b == [a EXCEPT !.pipe_to = to, !.piped = piped, !.ends = ends]
             c == [b EXCEPT !.reader = reader, !.child = child, !.run = run]
  <2>1. a \in ProcRec
    BY <1>2, ZenonT(60) DEF ProcRec, Agreed
  <2> HIDE DEF a
  <2>2. b \in ProcRec
    BY <2>1, ZenonT(60) DEF ProcRec
  <2> HIDE DEF b
  <2>3. c \in ProcRec
    BY <2>2, ZenonT(60) DEF ProcRec, Agreed
  <2>4. q = c
    BY DEF a, b
  <2> HIDE DEF c, q
  <2> QED BY <2>3, <2>4
<1>4. /\ q.status = status /\ q.type = type /\ q.pipe_to = to /\ q.piped = piped /\ q.ends = ends
      /\ q.reader = reader /\ q.child = child /\ q.run = run
  BY <1>2 DEF ProcRec, Agreed
<1>5. /\ q.closed = {} /\ q.stdbuf = << >> /\ q.out = << >> /\ q.err = 0 /\ q.in = << >>
      /\ q.wrote = 0 /\ q.got = << >> /\ q.gotErr = 0 /\ q.wroteErr = 0
  BY <1>2 DEF ProcRec, Agreed
<1> HIDE DEF q
<1>6. ToSet(q.in) = {} /\ ToSet(q.stdbuf) = {}
  BY <1>1, <1>5
<1>7. Drawn(q) = 0 /\ Len(q.out) = 0 /\ Len(q.got) = 0 /\ DOMAIN q.stdbuf = {} /\ DOMAIN q.in = {}
  <2>1. Len(q.out) = 0 /\ q.wrote = 0 /\ Len(q.got) = 0 /\ DOMAIN q.stdbuf = {} /\ DOMAIN q.in = {}
    BY <1>1, <1>5
  <2> QED BY <2>1 DEF Drawn
<1>8. HasEnds(q, x) /\ (Active(q) <=> reader = "start")
  BY <1>4 DEF HasEnds, Active
<1>9. Asks(q) /\ Drains(q) /\ Counts(q) /\ Heard(q)
  BY <1>4, <1>5, <1>6, <1>7 DEF Asks, Drains, Counts, Heard
<1>10. Own(q, x)
  BY <1>3, <1>4, <1>8, <1>9 DEF Own, Agreed
<1>11. IsBlank(q, x, ends, reader, run)
  BY <1>4, <1>6, <1>8, <1>10 DEF IsBlank
<1> QED BY <1>11 DEF q, n, Blank

\* A step that leaves nothing of a process but its pipe ends, closes those it had and
\* opens these: it starts with a new number or it does not run.
LEMMA BlankKeeps ==
  ASSUME NEW s, KidsSound(s), NEW x \in Proc, NEW q, Own(q, x), ToSet(q.in) = {},
         ~Active(q) \/ q.run = s.starts,
         NEW starts \in Nat, NEW m \in [call : {"wait", "destroy"}, of : Proc] \cup {NULL},
         s.starts <= starts, Active(q) => s.starts < starts
  PROVE  KidsSound([p |-> [s.p EXCEPT ![x] = q], open |-> (s.open \ s.p[x].ends) \cup q.ends,
                    main |-> m, starts |-> starts])
<1> DEFINE t == [p |-> [s.p EXCEPT ![x] = q], open |-> (s.open \ s.p[x].ends) \cup q.ends,
                 main |-> m, starts |-> starts]
<1>1. /\ s.p \in [Proc -> ProcRec] /\ q \in ProcRec /\ s.open \in SUBSET PipeEnds
      /\ s.open = UNION {s.p[y].ends : y \in Proc} /\ s.starts \in Nat
      /\ \A y \in Proc : Own(s.p[y], y) /\ s.p[y] \in ProcRec
  BY DEF KidsSound, KidsState, Own
<1>2. q.ends \in SUBSET PipeEnds
  BY <1>1 DEF ProcRec
<1>3. t \in KidsState
  BY <1>1, <1>2 DEF KidsState
<1>4. t.p = [s.p EXCEPT ![x] = q] /\ t.open = (s.open \ s.p[x].ends) \cup q.ends /\ t.starts = starts
  OBVIOUS
<1> HIDE DEF t
<1>5. t.p[x] = q /\ \A y \in Proc \ {x} : t.p[y] = s.p[y]
  BY <1>1, <1>4
<1>6. t.open = UNION {t.p[y].ends : y \in Proc}
  <2>1. \A y \in Proc : \A f \in s.p[y].ends : f[1] = y
    BY <1>1 DEF Own, HasEnds
  <2>2. \A f : f \in s.open \ s.p[x].ends <=> \E y \in Proc \ {x} : f \in s.p[y].ends
    BY <1>1, <2>1
  <2> QED BY <1>4, <1>5, <2>2
<1>7. \A y \in Proc : Own(t.p[y], y)
  BY <1>1, <1>5
<1>8. \A y \in Proc \ {x} : Continues(s.p[y], t.p[y])
  BY <1>1, <1>5, SameContinues
<1>9. Continues(s.p[x], t.p[x]) \/ (Fresh(t.p[x], s.starts) /\ s.starts < t.starts)
  BY <1>4, <1>5 DEF Continues, Fresh
<1>10. s.starts <= t.starts
  BY <1>4
<1>11. KidsSound(t)
  BY <1>3, <1>6, <1>7, <1>8, <1>9, <1>10, KidsKeep
<1> QED BY <1>11 DEF t

\* Destroy ends: the pipes of the process are closed, and it can be made anew.
LEMMA DestroyJoinKeeps ==
  ASSUME KidsSound(kids), NEW x \in Proc, K!DestroyJoin(x)
  PROVE  KidsSound(kids')
<1> DEFINE q == [K!NewProcess EXCEPT !.status = "none"]
<1>1. /\ K!P(x) = kids.p[x] /\ kids \in KidsState /\ kids.starts \in Nat
  BY KidIs DEF KidsState
<1>2. q = Blank("none", {}, NULL, NULL, FALSE, {}, "none", "none", 0)
  BY NewIs DEF Blank, ProcRec
<1>3. Own(q, x) /\ ToSet(q.in) = {} /\ q.ends = {} /\ ~Active(q)
  <2>1. IsBlank(Blank("none", {}, NULL, NULL, FALSE, {}, "none", "none", 0), x, {}, "none", 0)
    <3>1. /\ {} \in SUBSET Modes /\ {} \in SUBSET PipeEnds /\ NULL \in Proc \cup {NULL} /\ 0 \in Nat
          /\ Agreed("none", "none")
      BY DEF Agreed
    <3> QED BY <3>1, BlankIs
  <2> HIDE DEF q
  <2> QED BY <1>2, <2>1 DEF IsBlank
<1>4. kids' = [p |-> [kids.p EXCEPT ![x] = q], open |-> kids.open \ kids.p[x].ends, main |-> NULL,
               starts |-> kids.starts]
  BY <1>1 DEF K!DestroyJoin, KidsState
<1> HIDE DEF q
<1>5. kids.open \ kids.p[x].ends = (kids.open \ kids.p[x].ends) \cup q.ends
  BY <1>3
<1> QED BY <1>1, <1>3, <1>4, <1>5, BlankKeeps

\* A sequence of three.
LEMMA ThreeOf == ASSUME NEW S, NEW a \in S, NEW b \in S, NEW c \in S PROVE <<a, b, c>> \in Seq(S)
OBVIOUS

\* The pipes that a failing Start has made are those it closes.
LEMMA AllUndone ==
  ASSUME NEW type, NEW at \in DOMAIN K!Steps(type), NEW x
  PROVE  K!Ends(x, K!Made(type, at)) \ K!Ends(x, K!Undone(type, at)) = {}
<1> DEFINE pipes == K!Pipes(type)
<1>1. Len(pipes) \in Nat /\ DOMAIN pipes = 1 .. Len(pipes)
  BY LenProperties DEF K!Pipes
<1>2. at \in Int
  <2> DEFINE Labels == {"in", "out", "err", "exec", "prepare", "fork", "execvp"}
  <2>1. K!Steps(type) \in Seq(Labels)
    <3>1. /\ (IF "w" \in type THEN <<"in">> ELSE << >>) \in Seq(Labels)
          /\ <<"out", "err", "exec">> \in Seq(Labels) /\ <<"prepare", "fork", "execvp">> \in Seq(Labels)
      <4>1. /\ "in" \in Labels /\ "out" \in Labels /\ "err" \in Labels /\ "exec" \in Labels
            /\ "prepare" \in Labels /\ "fork" \in Labels /\ "execvp" \in Labels
        OBVIOUS
      <4> HIDE DEF Labels
      <4>2. << >> \in Seq(Labels) /\ <<"in">> \in Seq(Labels)
        BY <4>1
      <4> QED BY <4>1, <4>2, ThreeOf
    <3>2. pipes \in Seq(Labels)
      BY <3>1, ConcatProperties DEF K!Pipes
    <3> HIDE DEF pipes
    <3>3. pipes \o <<"prepare", "fork", "execvp">> \in Seq(Labels)
      BY <3>1, <3>2, ConcatProperties
    <3> QED BY <3>3 DEF K!Steps, pipes
  <2> QED BY <2>1, LenProperties
<1> HIDE DEF pipes
<1>3. K!Made(type, at) \subseteq K!Undone(type, at)
  <2> SUFFICES ASSUME NEW i \in DOMAIN pipes, i < at PROVE pipes[i] \in K!Undone(type, at)
    BY DEF K!Made, pipes
  <2>1. i \in 1 .. IF at > Len(pipes) THEN Len(pipes) ELSE at - 1
    BY <1>1, <1>2
  <2> QED BY <2>1 DEF K!Undone, pipes
<1> QED BY <1>3 DEF K!Ends

\* A Start that fails leaves no pipe open; one that succeeds leaves its own ends.
LEMMA StartKeeps ==
  ASSUME ProcessData, KidsSound(kids), NEW x \in Proc, NEW type \in SUBSET Modes, K!Start(x, type)
  PROVE  KidsSound(kids')
<1> DEFINE p     == kids.p[x]
           fresh == [K!NewProcess EXCEPT !.type = type, !.pipe_from = p.pipe_from, !.pipe_to = p.pipe_to,
                                         !.piped = p.pipe_to # NULL]
           linked == p.pipe_to # NULL
           fails == [fresh EXCEPT !.status = p.status, !.child = p.child]
           runs(reader) ==
             [fresh EXCEPT !.status = "running", !.child = "running", !.ends = K!Kept(x, type),
                           !.reader = reader, !.run = kids.starts]
           clean == kids.open \ p.ends
           to(q) == [p |-> [kids.p EXCEPT ![x] = q], open |-> clean \cup q.ends, main |-> kids.main,
                     starts |-> kids.starts + 1]
<1>1. /\ p \in ProcRec /\ Own(p, x) /\ K!P(x) = p /\ kids \in KidsState /\ kids.p \in [Proc -> ProcRec]
      /\ kids.main \in [call : {"wait", "destroy"}, of : Proc] \cup {NULL}
      /\ kids.starts \in Nat /\ kids.starts + 1 \in Nat
  <2>1. kids.starts \in Nat
    BY KidIs DEF KidsState
  <2> QED BY <2>1, KidIs
<1>2. /\ p.pipe_from \in Proc \cup {NULL} /\ p.pipe_to \in Proc \cup {NULL}
      /\ Agreed(p.status, p.child) /\ Agreed("running", "running")
  BY <1>1 DEF ProcRec, Own, Agreed
<1>3. fails = Blank(p.status, type, p.pipe_from, p.pipe_to, linked, {}, "none", p.child, 0)
  BY NewIs, ZenonT(60) DEF Blank, ProcRec
<1>4. ASSUME NEW reader \in {"start", "none"}
      PROVE  runs(reader) = Blank("running", type, p.pipe_from, p.pipe_to, linked, K!Kept(x, type), reader,
                                  "running", kids.starts)
  <2> DEFINE kept == K!Kept(x, type)
  <2> HIDE DEF kept
  <2>1. [fresh EXCEPT !.status = "running", !.child = "running", !.ends = kept,
                      !.reader = reader, !.run = kids.starts]
          = Blank("running", type, p.pipe_from, p.pipe_to, linked, kept, reader, "running", kids.starts)
    BY NewIs, ZenonT(60) DEF Blank, ProcRec
  <2> QED BY <2>1 DEF kept
<1>5. /\ K!Kept(x, type) \in SUBSET PipeEnds /\ \A f \in K!Kept(x, type) : f[1] = x
      /\ {<<x, "out", "r">>, <<x, "err", "r">>} \subseteq K!Kept(x, type)
  BY DEF K!Kept, PipeEnds
<1>6. linked \in BOOLEAN /\ (linked \/ p.pipe_to = NULL)
  OBVIOUS
<1> HIDE DEF fresh, linked
<1>7. IsBlank(fails, x, {}, "none", 0)
  <2>1. /\ {} \in SUBSET PipeEnds /\ 0 \in Nat /\ "none" \in {"none", "start"}
        /\ \A f \in {} : f[1] = x
        /\ "none" = "start" => {<<x, "out", "r">>, <<x, "err", "r">>} \subseteq {}
    OBVIOUS
  <2>2. IsBlank(Blank(p.status, type, p.pipe_from, p.pipe_to, linked, {}, "none", p.child, 0),
                x, {}, "none", 0)
    BY <1>2, <1>6, <2>1, BlankIs
  <2> HIDE DEF fails
  <2> QED BY <1>3, <2>2
<1>8. ASSUME NEW reader \in {"start", "none"}
      PROVE  IsBlank(runs(reader), x, K!Kept(x, type), reader, kids.starts)
  <2> DEFINE kept == K!Kept(x, type)
             n == kids.starts
  <2>1. /\ kept \in SUBSET PipeEnds /\ \A f \in kept : f[1] = x
        /\ reader \in {"none", "start"} /\ n \in Nat
        /\ reader = "start" => {<<x, "out", "r">>, <<x, "err", "r">>} \subseteq kept
    BY <1>1, <1>5
  <2> HIDE DEF runs, kept, n
  <2>2. IsBlank(Blank("running", type, p.pipe_from, p.pipe_to, linked, kept, reader, "running", n),
                x, kept, reader, n)
    BY <1>2, <1>6, <2>1, BlankIs, ZenonT(60)
  <2>3. runs(reader) = Blank("running", type, p.pipe_from, p.pipe_to, linked, kept, reader, "running", n)
    BY <1>4 DEF kept, n
  <2> QED BY <2>2, <2>3 DEF kept, n
<1> HIDE DEF fails, runs
<1>9. kids.starts <= kids.starts + 1 /\ kids.starts < kids.starts + 1
  BY <1>1
<1>10. KidsSound(to(fails)) /\ \A reader \in {"start", "none"} : KidsSound(to(runs(reader)))
  <2>1. Own(fails, x) /\ ToSet(fails.in) = {} /\ ~Active(fails)
    BY <1>7 DEF IsBlank
  <2>2. \A reader \in {"start", "none"} :
          Own(runs(reader), x) /\ ToSet(runs(reader).in) = {} /\ runs(reader).run = kids.starts
    BY <1>8 DEF IsBlank
  <2> QED BY <1>1, <1>9, <2>1, <2>2, BlankKeeps
<1>11. kids' = to(fails) \/ \E reader \in {"start", "none"} : kids' = to(runs(reader))
  <2> DEFINE next(q, open) == [kids EXCEPT !.p[x] = q, !.open = open, !.starts = @ + 1]
  <2>1. \/ \E at \in DOMAIN K!Steps(type) :
             kids' = next(fails, clean \cup (K!Ends(x, K!Made(type, at)) \ K!Ends(x, K!Undone(type, at))))
        \/ \E reader \in {"start", "none"} : kids' = next(runs(reader), clean \cup K!Kept(x, type))
    BY <1>1 DEF K!Start, fails, runs, fresh
  <2>2. fails.ends = {} /\ \A reader \in {"start", "none"} : runs(reader).ends = K!Kept(x, type)
    BY <1>7, <1>8 DEF IsBlank
  <2>3. \A q, open : next(q, open) = [p |-> [kids.p EXCEPT ![x] = q], open |-> open, main |-> kids.main,
                                      starts |-> kids.starts + 1]
    <3> SUFFICES ASSUME NEW q, NEW open
                 PROVE  next(q, open) = [p |-> [kids.p EXCEPT ![x] = q], open |-> open, main |-> kids.main,
                                         starts |-> kids.starts + 1]
      OBVIOUS
    <3> DEFINE f    == [kids.p EXCEPT ![x] = q]
               n    == kids.starts + 1
               t    == [kids EXCEPT !.p = f, !.open = open, !.starts = n]
               r    == [p |-> f, open |-> open, main |-> kids.main, starts |-> n]
               both == [p : {f}, open : {open}, starts : {n}, main : {kids.main}]
    <3>1. next(q, open) = t
      BY <1>1 DEF KidsState
    <3> HIDE DEF next, f, n
    <3>2. t \in both /\ t.p = f /\ t.open = open /\ t.main = kids.main /\ t.starts = n
      BY <1>1 DEF KidsState
    <3>3. r \in both /\ r.p = f /\ r.open = open /\ r.main = kids.main /\ r.starts = n
      OBVIOUS
    <3>4. t = r
      <4> HIDE DEF t, r
      <4> QED BY <3>2, <3>3
    <3> QED BY <3>1, <3>4 DEF f, n
  <2> HIDE DEF next
  <2>4. ASSUME NEW at \in DOMAIN K!Steps(type),
               kids' = next(fails, clean \cup (K!Ends(x, K!Made(type, at)) \ K!Ends(x, K!Undone(type, at))))
        PROVE  kids' = to(fails)
    BY <2>2, <2>3, <2>4, AllUndone
  <2>5. ASSUME NEW reader \in {"start", "none"}, kids' = next(runs(reader), clean \cup K!Kept(x, type))
        PROVE  kids' = to(runs(reader))
    BY <2>2, <2>3, <2>5
  <2> QED BY <2>1, <2>4, <2>5
<1> HIDE DEF to
<1> QED BY <1>10, <1>11

\* Nothing has run at the beginning.
LEMMA KidsInit == K!Init => KidsSound(kids)
<1> SUFFICES ASSUME K!Init PROVE KidsSound(kids)
  OBVIOUS
<1> DEFINE n == K!NewProcess
<1>1. kids = [p |-> [x \in Proc |-> n], open |-> {}, main |-> NULL, starts |-> 0]
  BY DEF K!Init
<1>2. n = Blank("idle", {}, NULL, NULL, FALSE, {}, "none", "none", 0) /\ n \in ProcRec
  BY NewIs DEF Blank, ProcRec
<1>3. \A x \in Proc : IsBlank(n, x, {}, "none", 0)
  <2>1. /\ {} \in SUBSET Modes /\ {} \in SUBSET PipeEnds /\ NULL \in Proc \cup {NULL} /\ 0 \in Nat
        /\ Agreed("idle", "none")
    BY DEF Agreed
  <2>2. \A x \in Proc :
          IsBlank(Blank("idle", {}, NULL, NULL, FALSE, {}, "none", "none", 0), x, {}, "none", 0)
    BY <2>1, BlankIs
  <2> HIDE DEF n
  <2> QED BY <1>2, <2>2
<1> HIDE DEF n
<1>4. \A x \in Proc : kids.p[x] = n /\ Own(n, x) /\ ToSet(n.in) = {} /\ n.ends = {} /\ ~Active(n)
  BY <1>1, <1>3 DEF IsBlank
<1>5. kids \in KidsState
  BY <1>1, <1>2 DEF KidsState
<1>6. kids.open = UNION {kids.p[x].ends : x \in Proc}
  <2>1. kids.open = {}
    BY <1>1
  <2> QED BY <1>4, <2>1
<1> QED BY <1>4, <1>5, <1>6 DEF KidsSound, Before

\* Every step of the processes keeps it.
LEMMA KidsStep ==
  ASSUME ProcessData, KidsSound(kids), [K!Next]_(K!vars)
  PROVE  KidsSound(kids')
<1>1. ASSUME NEW x \in Proc, K!Program(x) PROVE KidsSound(kids')
  <2>1. ASSUME NEW t \in Types, t[1] = x, K!Start(x, t[2]) PROVE KidsSound(kids')
    <3>1. t[2] \in SUBSET Modes
      BY <2>1 DEF ProcessData
    <3> QED BY <2>1, <3>1, StartKeeps
  <2>2. ASSUME NEW y \in Proc, K!PipeTo(x, y) PROVE KidsSound(kids')
    BY <2>2, PipeToKeeps
  <2>3. CASE K!Suspend(x) \/ K!Resume(x) \/ K!Wait(x) \/ K!WaitJoin(x) \/ K!Kill(x) \/ K!Create(x)
    BY <2>3, QuietKeeps
  <2>4. CASE K!Read(x) \/ K!ReadErr(x)
    BY <2>4, ReadsKeep
  <2>5. CASE K!Destroy(x) \/ K!DestroyJoin(x)
    BY <2>5, DestroyKeeps, DestroyJoinKeeps
  <2> QED BY <1>1, <2>1, <2>2, <2>3, <2>4, <2>5 DEF K!Program
<1>2. ASSUME NEW x \in Proc, K!Child(x) \/ K!Reader(x) PROVE KidsSound(kids')
  BY <1>2, ChildKeeps, ReaderKeeps
<1>3. CASE UNCHANGED K!vars
  BY <1>3 DEF K!vars
<1> QED BY <1>1, <1>2, <1>3 DEF K!Next

\* It gives the property.
LEMMA SoundIsProcessSound == KidsSound(kids) => K!ProcessSound
<1> SUFFICES ASSUME KidsSound(kids) PROVE K!ProcessSound
  OBVIOUS
<1>1. kids.open = UNION {K!P(x).ends : x \in Proc}
  BY DEF KidsSound, K!P
<1>2. ASSUME NEW x \in Proc
      PROVE  LET p == K!P(x)
             IN  /\ p.reader \in {"start", "loop"} =>
                      {<<x, "out", "r">>, <<x, "err", "r">>} \subseteq kids.open
                 /\ p.status \in {"running", "suspended"} <=> p.child \in {"running", "stopped", "zombie"}
                 /\ "r" \in p.type /\ ~p.piped => p.got \o p.out = [i \in 1 .. p.wrote |-> i]
                 /\ "e" \in p.type => p.gotErr + p.err = p.wroteErr
                 /\ \A i \in DOMAIN p.in :
                      /\ p.in[i][2] \notin LineEnd
                      /\ \A j \in 1 .. i - 1 : p.in[j][1] = p.in[i][1] => p.in[j][2] < p.in[i][2]
                 /\ p.reader = "done" /\ p.type = {"w"} => p.out = << >> /\ p.err = 0
  <2> DEFINE p == kids.p[x]
  <2>1. p \in ProcRec /\ Own(p, x) /\ K!P(x) = p /\ FlowsTypes(p)
    BY KidIs, FlowTypes
  <2>2. p.reader \in {"start", "loop"} => {<<x, "out", "r">>, <<x, "err", "r">>} \subseteq kids.open
    <3>1. p.ends \subseteq kids.open
      BY <1>1, <2>1
    <3> QED BY <2>1, <3>1 DEF Own, HasEnds, Active
  <2>3. ASSUME "r" \in p.type, ~p.piped PROVE p.got \o p.out = [i \in 1 .. p.wrote |-> i]
    <3> DEFINE all == p.got \o p.out
               k == Len(p.got)
               n == Len(p.out)
    <3>1. /\ k \in Nat /\ n \in Nat /\ p.wrote \in Nat /\ p.got \in Seq(Nat) /\ p.out \in Seq(Nat)
      BY <2>1 DEF FlowsTypes
    <3>2. /\ k = Drawn(p) /\ \A i \in 1 .. k : p.got[i] = i
          /\ \A i \in 1 .. n : p.out[i] = Drawn(p) + i
      BY <2>1, <2>3 DEF Own, Asks, Counts
    <3>3. k + n = p.wrote
      BY <3>1, <3>2 DEF Drawn
    <3>4. /\ all \in Seq(Nat) /\ Len(all) = k + n
          /\ \A i \in 1 .. k + n : all[i] = IF i <= k THEN p.got[i] ELSE p.out[i - k]
      <4>1. all \in Seq(Nat) /\ Len(all) = Len(p.got) + Len(p.out)
        BY <3>1, ConcatProperties
      <4>2. \A i \in 1 .. Len(p.got) + Len(p.out) :
              all[i] = IF i <= Len(p.got) THEN p.got[i] ELSE p.out[i - Len(p.got)]
        BY <3>1, ConcatProperties
      <4> HIDE DEF all
      <4> QED BY <4>1, <4>2
    <3>5. DOMAIN all = 1 .. k + n
      BY <3>4, LenProperties
    <3> HIDE DEF all, k, n
    <3>6. ASSUME NEW i \in 1 .. k + n PROVE all[i] = i
      <4>1. CASE i <= k
        <5>1. i \in 1 .. k
          BY <3>1, <4>1
        <5> QED BY <3>2, <3>4, <4>1, <5>1
      <4>2. CASE ~(i <= k)
        <5>1. i - k \in 1 .. n /\ k + (i - k) = i
          BY <3>1, <4>2
        <5> QED BY <3>2, <3>4, <4>2, <5>1
      <4> QED BY <4>1, <4>2
    <3>7. all = [i \in 1 .. k + n |-> all[i]]
      BY <3>4, <3>5
    <3>8. all = [i \in 1 .. k + n |-> i]
      BY <3>6, <3>7
    <3> QED BY <3>3, <3>8 DEF all
  <2>4. \A i \in DOMAIN p.in :
          /\ p.in[i][2] \notin LineEnd
          /\ \A j \in 1 .. i - 1 : p.in[j][1] = p.in[i][1] => p.in[j][2] < p.in[i][2]
    <3>1. DOMAIN p.in = 1 .. Len(p.in) /\ Len(p.in) \in Nat
      BY <2>1, LenProperties DEF FlowsTypes
    <3>2. Heard(p)
      BY <2>1 DEF Own
    <3> SUFFICES ASSUME NEW i \in DOMAIN p.in
                 PROVE  /\ p.in[i][2] \notin LineEnd
                        /\ \A j \in 1 .. i - 1 : p.in[j][1] = p.in[i][1] => p.in[j][2] < p.in[i][2]
      OBVIOUS
    <3>3. p.in[i] \in ToSet(p.in)
      BY DEF ToSet
    <3>4. \A j \in 1 .. i - 1 : j \in DOMAIN p.in /\ j < i
      BY <3>1
    <3> QED BY <3>2, <3>3, <3>4 DEF Heard
  <2>5. /\ p.status \in {"running", "suspended"} <=> p.child \in {"running", "stopped", "zombie"}
        /\ "e" \in p.type => p.gotErr + p.err = p.wroteErr
        /\ p.reader = "done" /\ p.type = {"w"} => p.out = << >> /\ p.err = 0
    BY <2>1 DEF Own, Asks, Drains
  <2> QED BY <2>1, <2>2, <2>3, <2>4, <2>5
<1> QED BY <1>1, <1>2 DEF K!ProcessSound

\* The processes and their pipes, for any number of each, any pipes between them,
\* any line ends and any output: at whichever step Start fails, up to the reader thread
\* that is missing after the fork, the program has open exactly the pipe ends its processes
\* hold, and none that a reader polls is closed; a child is reaped before its process
\* counts as ended; the client that asked for an output gets all of it in order, though a
\* reader thread runs beside it; and of each run piped to a process, the characters it gets
\* come in order and without the line ends (that it gets all of them is not claimed).
THEOREM PipesAndStreams ==
  ASSUME ProcessData
  PROVE  K!Spec => []K!ProcessSound
<1>1. K!Init => KidsSound(kids)
  BY KidsInit
<1>2. KidsSound(kids) /\ [K!Next]_(K!vars) => KidsSound(kids)'
  BY KidsStep
<1>3. KidsSound(kids) => K!ProcessSound
  BY SoundIsProcessSound
<1> QED BY <1>1, <1>2, <1>3, PTL DEF K!Spec

==============================================================================
