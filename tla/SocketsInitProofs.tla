------------------------- MODULE SocketsInitProofs --------------------------
(***************************************************************************)
(* Proofs about SocketsInit for any list of pools, any addresses and any   *)
(* of them broken.  What pmf_array_push does to the second entry decides   *)
(* everything: behind its first entry sockets_list holds zeroed ones only, *)
(* so a search that does not end at the first entry meets a null key.      *)
(***************************************************************************)
EXTENDS SocketsInit, FiniteSetTheorems, SequenceTheorems, TLAPS

\* sockets_list: an entry with a key, whose socket listens on that address or
\* could not be opened because the address is broken, then zeroed entries.
ListShape ==
  /\ \A k \in 2..Len(list) : list[k] = Zero
  /\ list # <<>> =>
       /\ list[1].key \in Addresses /\ list[1].refcount >= 1
       /\ IF list[1].sock >= 0
            THEN list[1].sock \in DOMAIN bound /\ bound[list[1].sock] = list[1].key
            ELSE list[1].key \in broken

\* The descriptors, which are handed out from 3 on while the pools are opened;
\* each is some pool's, and no two are bound to addresses that overlap.
Descriptors ==
  /\ DOMAIN bound \subseteq {3, 4}
  /\ \A d \in DOMAIN bound : bound[d] \notin broken
  /\ \A d, e \in DOMAIN bound : <<bound[d], bound[e]>> \notin Overlaps
  /\ \A d \in DOMAIN bound : \E v \in DOMAIN fds : fds[v] = d
  /\ pc = "open" =>
       /\ stdio = {0, 1, 2}
       /\ list = <<>> => DOMAIN bound = {}
       /\ Len(list) = 1 => DOMAIN bound \subseteq {3} \cap {list[1].sock}

\* The pool cannot have the addresses that have been passed over.
Tried ==
  pc = "open" =>
    wp <= Len(layout) /\ \A k \in 1..(candidate - 1) : Unusable(wp, layout[wp][k])

IInv ==
  /\ TypeOK /\ ListShape /\ Descriptors /\ Tried
  /\ EveryPoolServed /\ RefusedOnlyUnusable /\ RefcountCountsUsers

-----------------------------------------------------------------------------
LEMMA LeastIsMin ==
  ASSUME NEW S \in SUBSET Int, NEW m \in S, \A x \in S : m <= x
  PROVE  Min(S) = m
<1>1. m \in S /\ \A y \in S : m <= y
  OBVIOUS
<1>2. ASSUME NEW x \in S, \A y \in S : x <= y
      PROVE  x = m
  <2>1. x <= m /\ m <= x /\ x \in Int /\ m \in Int
    BY <1>1, <1>2
  <2> QED
    BY <2>1
<1> QED
  BY <1>1, <1>2, Zenon DEF Min

LEMMA NextIndex ==
  ASSUME NEW n \in Nat, NEW k \in 1..n, k # n
  PROVE  k + 1 \in 1..n
OBVIOUS

\* What is known of the variables' shapes, for the steps that need no more.
LEMMA Typing ==
  ASSUME IInv
  PROVE  /\ layout \in Seq(Seq(Addresses) \ {<<>>}) /\ Len(layout) \in Nat
         /\ DOMAIN layout = 1..Len(layout)
         /\ \A w \in DOMAIN layout : /\ layout[w] \in Seq(Addresses) /\ layout[w] # <<>>
                                     /\ DOMAIN layout[w] = 1..Len(layout[w])
                                     /\ Len(layout[w]) \in Nat \ {0}
         /\ list \in Seq(Entry) /\ Len(list) \in Nat /\ DOMAIN list = 1..Len(list)
         /\ fds \in Seq(0..MaxFd) /\ Len(fds) \in Nat /\ DOMAIN fds = 1..Len(fds)
         /\ wp \in Nat \ {0} /\ Len(fds) = wp - 1
<1>1. layout \in Seq(Seq(Addresses) \ {<<>>})
  BY LayoutsAssumption DEF IInv, TypeOK
<1>2. /\ list \in Seq(Entry) /\ fds \in Seq(0..MaxFd)
      /\ wp \in 1..(Len(layout) + 1) /\ Len(fds) = wp - 1
  BY DEF IInv, TypeOK
<1>3. Len(layout) \in Nat /\ DOMAIN layout = 1..Len(layout)
  BY <1>1, LenProperties
<1>4. ASSUME NEW w \in DOMAIN layout
      PROVE  /\ layout[w] \in Seq(Addresses) /\ layout[w] # <<>>
             /\ DOMAIN layout[w] = 1..Len(layout[w])
             /\ Len(layout[w]) \in Nat \ {0}
  <2>1. layout[w] \in Seq(Addresses) /\ layout[w] # <<>>
    BY <1>1, <1>3, ElementOfSeq
  <2> QED
    BY <2>1, LenProperties, EmptySeq
<1>5. /\ Len(list) \in Nat /\ DOMAIN list = 1..Len(list)
      /\ Len(fds) \in Nat /\ DOMAIN fds = 1..Len(fds)
  BY <1>2, LenProperties
<1> QED
  BY <1>1, <1>2, <1>3, <1>4, <1>5

\* pmf_array_push finds the slot of the first entry and of no other.
LEMMA OnlyFirstPushed ==
  ASSUME NEW l \in Seq(Entry), NEW entry
  PROVE  Push(l, entry) = IF l = <<>> THEN Append(l, entry) ELSE Append(l, Zero)
<1>1. Len(l) \in Nat /\ (Len(l) = 0 <=> l = <<>>)
  BY LenProperties, EmptySeq
<1>2. ASSUME NEW n \in Nat
      PROVE  ItemIsNull(n, n) <=> n # 0
  <2>1. CASE n = 0
    <3>1. (-1) % SizeModulus \in Nat
      BY SizesAssumption
    <3> QED
      BY <2>1, <3>1 DEF ItemIsNull
  <2>2. CASE n # 0
    <3>1. n - 1 \in Nat
      BY <2>2
    <3>2. (n - 1) % SizeModulus <= n - 1
      BY <3>1, SizesAssumption
    <3> QED
      BY <2>2, <3>1, <3>2, SizesAssumption DEF ItemIsNull
  <2> QED
    BY <2>1, <2>2
<1> QED
  BY <1>1, <1>2 DEF Push

\* The search ends at the first entry or meets a null key.
LEMMA SearchResult ==
  ASSUME IInv, pc = "open"
  PROVE  /\ Address \in Addresses
         /\ Known <=> list # <<>> /\ list[1].key = Address
         /\ Known => Found = 1
         /\ NullFirst <=> Len(list) >= 2 /\ ~Known
<1>1. Address \in Addresses /\ Address # NoKey
  <2>1. wp \in DOMAIN layout /\ candidate \in DOMAIN layout[wp]
    BY Typing DEF IInv, TypeOK, Tried
  <2> QED
    BY <2>1, Typing, ElementOfSeq, NoKeyAssumption DEF Address
<1>2. Matches = {k \in 1..Len(list) : list[k].key \in {Address, NoKey}}
  BY Typing DEF Matches
<1>3. \A k \in 2..Len(list) : list[k].key = NoKey
  BY DEF IInv, ListShape, Zero
<1>4. list # <<>> => Len(list) >= 1 /\ list[1].key # NoKey
  BY Typing, EmptySeq, NoKeyAssumption DEF IInv, ListShape
<1>5. CASE list = <<>>
  <2>1. Matches = {} /\ Len(list) = 0
    BY <1>2, <1>5
  <2> QED
    BY <1>1, <1>5, <2>1 DEF Known, NullFirst
<1>6. CASE list # <<>> /\ list[1].key = Address
  <2>1. 1 \in Matches /\ Matches \in SUBSET Int /\ \A k \in Matches : 1 <= k
    BY <1>2, <1>4, <1>6, Typing
  <2>2. Found = 1
    BY <2>1, LeastIsMin DEF Found
  <2> QED
    BY <1>1, <1>4, <1>6, <2>1, <2>2 DEF Known, NullFirst
<1>7. CASE list # <<>> /\ list[1].key # Address
  <2>1. 1 \notin Matches
    BY <1>2, <1>4, <1>7
  <2>2. CASE Len(list) < 2
    <3>1. Matches = {}
      BY <1>2, <2>1, <2>2, Typing
    <3> QED
      BY <1>1, <1>7, <2>2, <3>1 DEF Known, NullFirst
  <2>3. CASE Len(list) >= 2
    <3>1. 2 \in Matches /\ Matches \in SUBSET Int /\ \A k \in Matches : 2 <= k
      BY <1>2, <1>3, <2>1, <2>3, Typing
    <3>2. Found = 2
      BY <3>1, LeastIsMin DEF Found
    <3> QED
      BY <1>1, <1>3, <1>7, <2>3, <3>1, <3>2 DEF Known, NullFirst
  <2> QED
    BY <2>2, <2>3, Typing
<1> QED
  BY <1>1, <1>5, <1>6, <1>7

-----------------------------------------------------------------------------
LEMMA InitIInv == Init => IInv
<1> SUFFICES ASSUME Init PROVE IInv
  OBVIOUS
<1>1. /\ layout \in Seq(Seq(Addresses) \ {<<>>})
      /\ Len(layout) \in Nat /\ DOMAIN layout = 1..Len(layout)
      /\ (Len(layout) = 0 <=> layout = <<>>)
  BY LayoutsAssumption, LenProperties, EmptySeq DEF Init
<1>2. layout # <<>> => 1 \in DOMAIN layout[1]
  <2> SUFFICES ASSUME layout # <<>> PROVE 1 \in DOMAIN layout[1]
    OBVIOUS
  <2>1. layout[1] \in Seq(Addresses) /\ layout[1] # <<>>
    BY <1>1, ElementOfSeq
  <2> QED
    BY <2>1, LenProperties, EmptySeq
<1>3. Len(<<>>) = 0 /\ DOMAIN <<>> = {} /\ <<>> \in Seq(Entry) /\ <<>> \in Seq(0..MaxFd)
  BY EmptySeq
<1>4. list = <<>> /\ fds = <<>> /\ bound = <<>> /\ pc # "failed"
  BY DEF Init
<1>5. TypeOK
  BY <1>1, <1>2, <1>3 DEF Init, TypeOK
<1>6. ListShape /\ RefcountCountsUsers
  BY <1>3, <1>4 DEF ListShape, RefcountCountsUsers
<1>7. Descriptors
  BY <1>3 DEF Init, Descriptors
<1>8. Tried
  BY <1>1 DEF Init, Tried
<1>9. EveryPoolServed /\ RefusedOnlyUnusable
  BY <1>3, <1>4 DEF EveryPoolServed, RefusedOnlyUnusable
<1> QED
  BY <1>5, <1>6, <1>7, <1>8, <1>9 DEF IInv

\* What GoOn keeps when an address that the pool cannot have is passed over.
LEMMA AddressPassedOver ==
  ASSUME IInv, pc = "open", Unusable(wp, Address),
         NEW fd \in Int, fd < 0, GoOn(fd), UNCHANGED <<layout, broken, bound>>
  PROVE  /\ UNCHANGED <<fds, wp>> /\ pc' \in {"open", "failed"}
         /\ pc' = "open" => candidate' \in DOMAIN layout[wp]
         /\ Tried' /\ RefusedOnlyUnusable'
<1>1. /\ UNCHANGED <<fds, wp>> /\ candidate' = candidate + 1
      /\ pc' = IF candidate = Len(layout[wp]) THEN "failed" ELSE "open"
  BY DEF GoOn
<1>2. /\ wp \in DOMAIN layout /\ candidate \in 1..Len(layout[wp])
      /\ wp <= Len(layout) /\ Len(layout[wp]) \in Nat
      /\ DOMAIN layout[wp] = 1..Len(layout[wp])
  BY Typing DEF IInv, TypeOK, Tried
<1>3. \A k \in 1..candidate : Unusable(wp, layout[wp][k])
  <2>1. \A k \in 1..(candidate - 1) : Unusable(wp, layout[wp][k])
    BY DEF IInv, Tried
  <2>2. Unusable(wp, layout[wp][candidate])
    BY DEF Address
  <2> QED
    BY <1>2, <2>1, <2>2
<1>4. layout' = layout /\ broken' = broken /\ wp' = wp /\ bound' = bound /\ fds' = fds
  BY <1>1
<1>5. candidate \in Int /\ candidate' - 1 = candidate
  <2>1. candidate' = candidate + 1
    BY <1>1
  <2>2. candidate \in Int
    BY <1>2
  <2> QED
    BY <2>1, <2>2
<1>6. Tried'
  <2>1. 1..(candidate' - 1) = 1..candidate
    BY <1>5
  <2>2. \A k \in 1..(candidate' - 1) : Unusable(wp, layout[wp][k])
    BY <1>3, <2>1
  <2> QED
    BY <1>2, <1>4, <2>2 DEF Tried, Unusable
<1>7. RefusedOnlyUnusable'
  <2>1. pc' = "failed" => \A k \in DOMAIN layout[wp] : Unusable(wp, layout[wp][k])
    BY <1>1, <1>2, <1>3
  <2> QED
    BY <1>4, <2>1 DEF RefusedOnlyUnusable, Usable, Unusable
<1>8. pc' = "open" => candidate' \in DOMAIN layout[wp]
  <2> HAVE pc' = "open"
  <2>1. candidate # Len(layout[wp])
    BY <1>1
  <2>2. candidate' = candidate + 1
    BY <1>1
  <2>3. candidate' \in 1..Len(layout[wp])
    BY <1>2, <2>1, <2>2, NextIndex
  <2> QED
    BY <1>2, <2>3
<1>9. pc' \in {"open", "failed"}
  BY <1>1
<1> QED
  BY <1>1, <1>6, <1>7, <1>8, <1>9

\* What it keeps when the pool listens on descriptor fd.
LEMMA PoolListens ==
  ASSUME IInv, pc = "open", ~Unusable(wp, Address),
         NEW fd \in 0..MaxFd, GoOn(fd), UNCHANGED <<layout, broken>>,
         fd \in DOMAIN bound', bound'[fd] = Address,
         \A d \in DOMAIN bound : d \in DOMAIN bound' /\ bound'[d] = bound[d]
  PROVE  /\ fds' = Append(fds, fd) /\ fds' \in Seq(0..MaxFd)
         /\ wp' \in 1..(Len(layout) + 1) /\ Len(fds') = wp' - 1
         /\ pc' \in {"open", "close"}
         /\ pc' = "open" => candidate' \in DOMAIN layout[wp']
         /\ Tried' /\ RefusedOnlyUnusable' /\ EveryPoolServed'
         /\ \A d : d = fd \/ (\E v \in DOMAIN fds : fds[v] = d)
                    => \E v \in DOMAIN fds' : fds'[v] = d
<1>1. /\ fds' = Append(fds, fd) /\ wp' = wp + 1 /\ candidate' = 1
      /\ pc' = IF wp = Len(layout) THEN "close" ELSE "open"
  BY SizesAssumption DEF GoOn
<1>2. /\ wp \in DOMAIN layout /\ candidate \in 1..Len(layout[wp])
      /\ wp <= Len(layout) /\ Len(layout[wp]) \in Nat
      /\ DOMAIN layout[wp] = 1..Len(layout[wp])
  BY Typing DEF IInv, TypeOK, Tried
<1>3. /\ fds' \in Seq(0..MaxFd) /\ Len(fds') = Len(fds) + 1 /\ fds'[Len(fds) + 1] = fd
      /\ \A w \in 1..Len(fds) : fds'[w] = fds[w]
      /\ DOMAIN fds' = 1..(Len(fds) + 1)
  BY <1>1, Typing, AppendProperties, LenProperties
<1>4. pc' = "open" => candidate' \in DOMAIN layout[wp']
  BY <1>1, <1>2, Typing
<1>5. Tried'
  BY <1>1, <1>2, Typing DEF Tried
<1>6. RefusedOnlyUnusable'
  BY <1>1 DEF RefusedOnlyUnusable
<1>7. EveryPoolServed'
  <2>0. ASSUME NEW w \in 1..(Len(fds) + 1)
        PROVE  Usable(w) = {k \in DOMAIN layout[w] :
                 ~(\/ layout[w][k] \in broken
                   \/ \E v \in 1..(w - 1) : <<bound'[fds'[v]], layout[w][k]>> \in Overlaps)}
    <3>0. \A v \in 1..(w - 1) : v \in 1..Len(fds)
      BY Typing
    <3>1. \A v \in 1..(w - 1) : bound'[fds'[v]] = bound[fds[v]]
      <4> SUFFICES ASSUME NEW v \in 1..(w - 1)
                   PROVE  bound'[fds'[v]] = bound[fds[v]]
        OBVIOUS
      <4>1. v \in DOMAIN fds /\ fds'[v] = fds[v]
        BY <1>3, <3>0, Typing
      <4>2. fds[v] \in DOMAIN bound
        BY <4>1 DEF IInv, EveryPoolServed
      <4> QED
        BY <4>1, <4>2
    <3> QED
      BY <3>1 DEF Usable, Unusable
  <2>1. ASSUME NEW w \in 1..Len(fds)
        PROVE  /\ fds'[w] \in DOMAIN bound' /\ Usable(w) # {}
               /\ bound'[fds'[w]] = layout[w][Min(Usable(w))]
    BY <1>3, Typing DEF IInv, EveryPoolServed
  <2>2. Usable(wp) # {} /\ Min(Usable(wp)) = candidate
    <3>1. candidate \in Usable(wp) /\ Usable(wp) \in SUBSET Int
      BY <1>2 DEF Address, Usable
    <3>2. \A k \in 1..(candidate - 1) : Unusable(wp, layout[wp][k])
      BY DEF IInv, Tried
    <3>3. \A k \in Usable(wp) : candidate <= k
      BY <1>2, <3>2 DEF Usable
    <3> QED
      BY <3>1, <3>3, LeastIsMin
  <2>3. bound'[fd] = layout[wp][Min(Usable(wp))]
    BY <2>2 DEF Address
  <2>4. wp = Len(fds) + 1
    BY Typing
  <2>5. ASSUME NEW w \in DOMAIN fds'
        PROVE  /\ fds'[w] \in DOMAIN bound' /\ Usable(w) # {}
               /\ bound'[fds'[w]] = layout[w][Min(Usable(w))]
    <3>1. w \in 1..Len(fds) \/ w = wp
      BY <1>3, <2>4, Typing
    <3> QED
      BY <1>3, <2>1, <2>2, <2>3, <2>4, <3>1
  <2>6. layout' = layout /\ broken' = broken
    OBVIOUS
  <2>7. ASSUME NEW w \in DOMAIN fds'
        PROVE  Usable(w)' = Usable(w)
    <3>1. Usable(w)' = {k \in DOMAIN layout[w] :
             ~(\/ layout[w][k] \in broken
               \/ \E v \in 1..(w - 1) : <<bound'[fds'[v]], layout[w][k]>> \in Overlaps)}
      BY ONLY <2>6 DEF Usable, Unusable
    <3>2. w \in 1..(Len(fds) + 1)
      BY ONLY <1>3
    <3> QED
      BY ONLY <2>0, <3>1, <3>2
  <2> QED
    BY <2>5, <2>6, <2>7 DEF EveryPoolServed
<1>8. ASSUME NEW d, d = fd \/ \E v \in DOMAIN fds : fds[v] = d
      PROVE  \E v \in DOMAIN fds' : fds'[v] = d
  BY <1>3, <1>8, Typing
<1>9. wp' \in 1..(Len(layout) + 1) /\ Len(fds') = wp' - 1 /\ pc' \in {"open", "close"}
  BY ONLY <1>1, <1>2, <1>3, Typing, IInv
<1> QED
  BY ONLY <1>1, <1>3, <1>4, <1>5, <1>6, <1>7, <1>8, <1>9

\* When no open socket and no null key is found, sockets_list is empty, or
\* holds one other address, or the address of an attempt that failed.
LEMMA CreateCases ==
  ASSUME IInv, pc = "open", ~NullFirst, ~Shared
  PROVE  \/ list = <<>> /\ ~Known
         \/ Len(list) = 1 /\ list[1].key # Address /\ ~Known
         \/ list # <<>> /\ list[1].key = Address /\ list[1].sock < 0 /\ Address \in broken
            /\ Known /\ Found = 1
<1>1. CASE Known
  <2>1. /\ list # <<>> /\ list[1].key = Address /\ Found = 1 /\ 1 \in DOMAIN list
        /\ list[1].sock \in Int
    <3>1. list # <<>> /\ list[1].key = Address /\ Found = 1
      BY <1>1, SearchResult
    <3>2. 1 \in DOMAIN list
      BY <3>1, Typing, EmptySeq
    <3>3. list[1] \in Entry
      BY <3>2, Typing, ElementOfSeq
    <3> QED
      BY <3>1, <3>2, <3>3, SizesAssumption DEF Entry
  <2>2. list[1].sock < 0
    BY <1>1, <2>1 DEF Shared
  <2>3. Address \in broken
    BY <2>1, <2>2 DEF IInv, ListShape
  <2> QED
    BY <1>1, <2>1, <2>2, <2>3
<1>2. CASE ~Known
  <2>1. list = <<>> \/ Len(list) = 1
    BY <1>2, SearchResult, Typing, EmptySeq
  <2>2. list # <<>> => list[1].key # Address
    BY <1>2, SearchResult
  <2>3. Len(list) = 1 => list # <<>>
    BY EmptySeq
  <2> QED
    BY <1>2, <2>1, <2>2, <2>3
<1> QED
  BY <1>1, <1>2

\* The descriptor the next socket gets.
LEMMA NextDescriptor ==
  ASSUME NEW D, D \subseteq {3}
  PROVE  Min((0..MaxFd) \ ({0, 1, 2} \cup D)) = IF D = {} THEN 3 ELSE 4
<1>1. ASSUME D = {}
      PROVE  Min((0..MaxFd) \ ({0, 1, 2} \cup D)) = 3
  <2> DEFINE S == (0..MaxFd) \ ({0, 1, 2} \cup D)
  <2>1. S \in SUBSET Int /\ 3 \in S /\ \A x \in S : 3 <= x
    BY <1>1, SizesAssumption
  <2> HIDE DEF S
  <2>2. Min(S) = 3
    BY <2>1, LeastIsMin
  <2> QED
    BY <2>2 DEF S
<1>2. ASSUME D # {}
      PROVE  Min((0..MaxFd) \ ({0, 1, 2} \cup D)) = 4
  <2> DEFINE S == (0..MaxFd) \ ({0, 1, 2} \cup D)
  <2>1. D = {3}
    BY <1>2
  <2>2. S \in SUBSET Int /\ 4 \in S /\ \A x \in S : 4 <= x
    BY <2>1, SizesAssumption
  <2> HIDE DEF S
  <2>3. Min(S) = 4
    BY <2>2, LeastIsMin
  <2> QED
    BY <2>3 DEF S
<1> QED
  BY <1>1, <1>2

\* The pools of the list f that use descriptor d.
Users(f, d) == {w \in DOMAIN f : f[w] = d}

\* One more pool uses descriptor fd.
LEMMA OneMoreUser ==
  ASSUME NEW fd \in 0..MaxFd, NEW d, fds \in Seq(0..MaxFd)
  PROVE  /\ Cardinality(Users(Append(fds, fd), d))
               = Cardinality(Users(fds, d)) + (IF d = fd THEN 1 ELSE 0)
         /\ Cardinality(Users(fds, d)) \in Nat
         /\ fds = <<>> => Cardinality(Users(fds, d)) = 0
<1> DEFINE more == Append(fds, fd)
<1>1. /\ Len(fds) \in Nat /\ DOMAIN fds = 1..Len(fds)
      /\ DOMAIN more = 1..(Len(fds) + 1) /\ more[Len(fds) + 1] = fd
      /\ \A w \in 1..Len(fds) : more[w] = fds[w]
  BY AppendProperties, LenProperties
<1>2. IsFiniteSet(Users(fds, d)) /\ Cardinality(Users(fds, d)) \in Nat
  <2>1. IsFiniteSet(1..Len(fds))
    BY <1>1, FS_Interval
  <2>2. Users(fds, d) \subseteq 1..Len(fds)
    BY <1>1 DEF Users
  <2> QED
    BY <2>1, <2>2, FS_Subset, FS_CardinalityType
<1>3. Users(more, d) = IF d = fd THEN Users(fds, d) \cup {Len(fds) + 1} ELSE Users(fds, d)
  <2> HIDE DEF more
  <2> QED
    BY <1>1 DEF Users
<1>4. Len(fds) + 1 \notin Users(fds, d)
  BY <1>1 DEF Users
<1>5. fds = <<>> => Users(fds, d) = {}
  BY EmptySeq DEF Users
<1>6. Cardinality(Users(more, d)) = Cardinality(Users(fds, d)) + (IF d = fd THEN 1 ELSE 0)
  <2> HIDE DEF more
  <2>1. CASE d = fd
    <3>1. Cardinality(Users(fds, d) \cup {Len(fds) + 1}) = Cardinality(Users(fds, d)) + 1
      BY <1>2, <1>4, FS_AddElement
    <3> QED
      BY <1>3, <2>1, <3>1
  <2>2. CASE d # fd
    BY <1>2, <1>3, <2>2
  <2> QED
    BY <2>1, <2>2
<1>7. fds = <<>> => Cardinality(Users(fds, d)) = 0
  BY <1>5, FS_EmptySet
<1> QED
  BY <1>2, <1>6, <1>7

-----------------------------------------------------------------------------
\* The steps that leave the list and the descriptors alone.
LEMMA QuietStep ==
  ASSUME IInv, UNCHANGED <<layout, broken, list, fds, bound, stdio>>,
         pc' = "open" => pc = "open"
  PROVE  ListShape' /\ Descriptors'
<1>1. ListShape'
  BY DEF IInv, ListShape
<1>2. Descriptors'
  BY DEF IInv, Descriptors
<1> QED
  BY <1>1, <1>2

LEMMA UnresolvedStep == IInv /\ Unresolved => IInv'
<1> SUFFICES ASSUME IInv, Unresolved PROVE IInv'
  OBVIOUS
<1> DEFINE fd == -1
<1>1. /\ pc = "open" /\ Address \in broken /\ GoOn(fd) /\ fd \in Int /\ fd < 0
      /\ UNCHANGED <<layout, broken, list, i, bound, stdio>>
  BY DEF Unresolved
<1> HIDE DEF fd
<1>2. /\ UNCHANGED <<fds, wp>> /\ pc' \in {"open", "failed"}
      /\ pc' = "open" => candidate' \in DOMAIN layout[wp]
      /\ Tried' /\ RefusedOnlyUnusable'
  BY <1>1, AddressPassedOver DEF Unusable
<1>3. TypeOK'
  BY <1>1, <1>2 DEF IInv, TypeOK
<1>4. ListShape' /\ Descriptors'
  BY <1>1, <1>2, QuietStep
<1>5. EveryPoolServed' /\ RefcountCountsUsers'
  BY <1>1, <1>2 DEF IInv, EveryPoolServed, Usable, Unusable, RefcountCountsUsers
<1> QED
  BY <1>2, <1>3, <1>4, <1>5 DEF IInv

LEMMA CompareWithNullStep == IInv /\ CompareWithNull => IInv'
<1> SUFFICES ASSUME IInv, CompareWithNull PROVE IInv'
  OBVIOUS
<1>1. /\ pc' = "crashed"
      /\ UNCHANGED <<layout, broken, wp, candidate, list, i, fds, bound, stdio>>
  BY DEF CompareWithNull
<1>2. TypeOK'
  BY <1>1 DEF IInv, TypeOK
<1>3. ListShape' /\ Descriptors'
  BY <1>1, QuietStep
<1>4. Tried' /\ RefusedOnlyUnusable'
  BY <1>1 DEF Tried, RefusedOnlyUnusable
<1>5. EveryPoolServed' /\ RefcountCountsUsers'
  BY <1>1 DEF IInv, EveryPoolServed, Usable, Unusable, RefcountCountsUsers
<1> QED
  BY <1>2, <1>3, <1>4, <1>5 DEF IInv

LEMMA ShareStep == IInv /\ Share => IInv'
<1> SUFFICES ASSUME IInv, Share PROVE IInv'
  OBVIOUS
<1>1. /\ pc = "open" /\ Shared
      /\ list' = [list EXCEPT ![Found].refcount = @ + 1] /\ GoOn(list[Found].sock)
      /\ UNCHANGED <<layout, broken, i, bound, stdio>>
  BY DEF Share
<1>2. Found = 1 /\ list # <<>> /\ list[1].key = Address /\ list[1].sock >= 0
  BY <1>1, SearchResult DEF Shared
<1>3. 1 \in DOMAIN list /\ list[1] \in Entry
  BY <1>2, Typing, EmptySeq, ElementOfSeq
<1>4. list[1].sock \in DOMAIN bound /\ bound[list[1].sock] = list[1].key
  BY <1>2 DEF IInv, ListShape
<1>5. list[1].sock \in 0..MaxFd /\ ~Unusable(wp, Address)
  <2>1. list[1].sock \in 0..MaxFd /\ Address \notin broken
    BY <1>2, <1>4 DEF IInv, TypeOK, Descriptors
  <2>2. \A v \in 1..(wp - 1) : fds[v] \in DOMAIN bound
    BY Typing DEF IInv, EveryPoolServed
  <2>3. \A v \in 1..(wp - 1) : <<bound[fds[v]], Address>> \notin Overlaps
    BY <1>2, <1>4, <2>2 DEF IInv, Descriptors
  <2> QED
    BY <2>1, <2>3 DEF Unusable
<1> DEFINE fd == list[1].sock
<1>6. /\ fds' = Append(fds, fd) /\ fds' \in Seq(0..MaxFd)
      /\ wp' \in 1..(Len(layout) + 1) /\ Len(fds') = wp' - 1
      /\ pc' \in {"open", "close"}
      /\ pc' = "open" => candidate' \in DOMAIN layout[wp']
      /\ Tried' /\ RefusedOnlyUnusable' /\ EveryPoolServed'
      /\ \A d : (\E v \in DOMAIN fds : fds[v] = d) => \E v \in DOMAIN fds' : fds'[v] = d
  <2>1. /\ fd \in 0..MaxFd /\ GoOn(fd) /\ fd \in DOMAIN bound' /\ bound'[fd] = Address
        /\ \A d \in DOMAIN bound : d \in DOMAIN bound' /\ bound'[d] = bound[d]
    BY <1>1, <1>2, <1>4, <1>5
  <2> HIDE DEF fd
  <2> QED
    BY <1>1, <1>5, <2>1, PoolListens
<1>7. /\ list' \in Seq(Entry) /\ Len(list') = Len(list) /\ DOMAIN list' = DOMAIN list
      /\ list'[1] = [key |-> list[1].key, refcount |-> list[1].refcount + 1,
                     sock |-> list[1].sock]
      /\ \A k \in 2..Len(list) : list'[k] = list[k]
      /\ list' # <<>>
  <2> DEFINE e == [list[1] EXCEPT !.refcount = @ + 1]
  <2>1. e = [key |-> list[1].key, refcount |-> list[1].refcount + 1, sock |-> list[1].sock]
    BY <1>3 DEF Entry
  <2>2. e \in Entry
    BY <1>3 DEF Entry
  <2>3. list' = [list EXCEPT ![1] = e]
    BY <1>1, <1>2, <1>3
  <2> HIDE DEF e
  <2>4. list' \in Seq(Entry) /\ Len(list') = Len(list) /\ DOMAIN list' = DOMAIN list
    BY <1>3, <2>2, <2>3, Typing, ExceptSeq
  <2>5. list'[1] = e /\ \A k \in 2..Len(list) : list'[k] = list[k]
    BY <1>3, <2>3, Typing
  <2>6. list' # <<>>
    BY <1>3, <2>4, EmptySeq
  <2> QED
    BY <2>1, <2>4, <2>5, <2>6
<1>8. TypeOK'
  BY <1>1, <1>6, <1>7 DEF IInv, TypeOK
<1>9. ListShape'
  <2>1. list[1].refcount >= 1 /\ list[1].refcount \in Nat
    BY <1>2, <1>3 DEF IInv, ListShape, Entry
  <2> QED
    BY <1>1, <1>2, <1>4, <1>7, <2>1 DEF IInv, ListShape
<1>10. Descriptors'
  <2>1. \A d \in DOMAIN bound : \E v \in DOMAIN fds' : fds'[v] = d
    BY <1>6 DEF IInv, Descriptors
  <2>2. Len(list') = 1 => Len(list) = 1
    BY <1>7
  <2> QED
    BY <1>1, <1>2, <1>6, <1>7, <2>1, <2>2 DEF IInv, Descriptors
<1>11. RefcountCountsUsers'
  <2>1. Cardinality(Users(fds', fd)) = Cardinality(Users(fds, fd)) + 1
    BY <1>5, <1>6, OneMoreUser, Typing
  <2>2. list[1].refcount = Cardinality(Users(fds, fd))
    BY <1>2, <1>3, NoKeyAssumption DEF IInv, RefcountCountsUsers, ListShape, Users
  <2>3. \A k \in 2..Len(list) : list'[k].key = NoKey
    BY <1>7 DEF IInv, ListShape, Zero
  <2>4. list'[1].refcount = Cardinality({w \in DOMAIN fds' : fds'[w] = list'[1].sock})
    BY <1>7, <2>1, <2>2 DEF Users
  <2>5. \A k \in DOMAIN list' : k = 1 \/ k \in 2..Len(list)
    BY <1>7, Typing
  <2> QED
    BY <2>3, <2>4, <2>5 DEF RefcountCountsUsers
<1> QED
  BY <1>6, <1>8, <1>9, <1>10, <1>11 DEF IInv

\* The descriptor of Create, and what an attempt appends to the list.
NewFd ==
  IF Address \in broken \/ InUse
    THEN -1
    ELSE Min((0..MaxFd) \ (stdio \cup DOMAIN bound))
NewEntry == [key |-> Address, refcount |-> 1, sock |-> NewFd]

\* An attempt fails only over an address the pool cannot have, the first one
\* only over a broken address, and a second listening socket is opened next to
\* the first one at most.
LEMMA Opened ==
  ASSUME IInv, pc = "open", ~NullFirst, ~Shared
  PROVE  /\ Address \in broken \/ InUse =>
              /\ NewFd = -1 /\ Unusable(wp, Address)
              /\ list = <<>> => Address \in broken
         /\ ~(Address \in broken \/ InUse) =>
              /\ NewFd \in {3, 4} \ DOMAIN bound
              /\ DOMAIN bound = {} => NewFd = 3
              /\ list # <<>> => Len(list) = 1
              /\ ~Unusable(wp, Address)
              /\ \A d \in DOMAIN bound : /\ <<bound[d], Address>> \notin Overlaps
                                        /\ <<Address, bound[d]>> \notin Overlaps
              /\ <<Address, Address>> \notin Overlaps
<1>2. ASSUME Address \notin broken
      PROVE  DOMAIN bound \subseteq {3} /\ (list # <<>> => Len(list) = 1)
             /\ \A d \in DOMAIN bound : bound[d] # Address
  <2>1. CASE list = <<>>
    BY <2>1 DEF IInv, Descriptors
  <2>2. CASE Len(list) = 1 /\ list[1].key # Address
    <3>1. list # <<>>
      BY <2>2, EmptySeq
    <3>2. DOMAIN bound \subseteq {3} \cap {list[1].sock}
      BY <2>2 DEF IInv, Descriptors
    <3>3. ASSUME NEW d \in DOMAIN bound
          PROVE  bound[d] # Address
      <4>1. d = 3 /\ list[1].sock = 3
        BY <3>2
      <4> QED
        BY <2>2, <3>1, <4>1 DEF IInv, ListShape
    <3> QED
      BY <2>2, <3>2, <3>3
  <2> QED
    BY <1>2, <2>1, <2>2, CreateCases
<1>1. ASSUME Address \in broken \/ InUse
      PROVE  NewFd = -1 /\ Unusable(wp, Address) /\ (list = <<>> => Address \in broken)
  <2>1. NewFd = -1
    BY <1>1 DEF NewFd
  <2>2. CASE Address \in broken
    BY <2>1, <2>2 DEF Unusable
  <2>3. CASE Address \notin broken
    <3>1. PICK d \in DOMAIN bound : <<bound[d], Address>> \in Overlaps
      BY <1>1, <1>2, <2>3 DEF InUse
    <3>2. PICK v \in DOMAIN fds : fds[v] = d
      BY DEF IInv, Descriptors
    <3>3. v \in 1..(wp - 1)
      BY Typing
    <3>4. list # <<>>
      BY <3>1 DEF IInv, Descriptors
    <3> QED
      BY <2>1, <3>1, <3>2, <3>3, <3>4 DEF Unusable
  <2> QED
    BY <2>2, <2>3
<1>4. ASSUME ~(Address \in broken \/ InUse)
      PROVE  /\ ~Unusable(wp, Address)
             /\ \A d \in DOMAIN bound : /\ <<bound[d], Address>> \notin Overlaps
                                       /\ <<Address, bound[d]>> \notin Overlaps
             /\ <<Address, Address>> \notin Overlaps
  <2>1. \A d \in DOMAIN bound : <<bound[d], Address>> \notin Overlaps /\ bound[d] \in Addresses
    BY <1>4 DEF InUse, IInv, TypeOK
  <2>2. Address \in Addresses
    BY SearchResult
  <2>3. \A v \in 1..(wp - 1) : fds[v] \in DOMAIN bound
    BY Typing DEF IInv, EveryPoolServed
  <2>4. \A v \in 1..(wp - 1) : <<bound[fds[v]], Address>> \notin Overlaps
    BY <2>1, <2>3
  <2>5. ~Unusable(wp, Address)
    BY <1>4, <2>4 DEF Unusable
  <2> QED
    BY <2>1, <2>2, <2>5, OverlapsAssumption
<1>3. ASSUME ~(Address \in broken \/ InUse)
      PROVE  NewFd = IF DOMAIN bound = {} THEN 3 ELSE 4
  <2>1. stdio = {0, 1, 2}
    BY DEF IInv, Descriptors
  <2>2. NewFd = Min((0..MaxFd) \ (stdio \cup DOMAIN bound))
    BY <1>3 DEF NewFd
  <2> QED
    BY <1>2, <1>3, <2>1, <2>2, NextDescriptor
<1> QED
  BY <1>1, <1>2, <1>3, <1>4

\* The list after an attempt: the first entry is new, or keeps its key and
\* its socket, and its count too unless the socket could not be opened.
LEMMA Pushed ==
  ASSUME IInv, Create
  PROVE  /\ list' \in Seq(Entry) /\ Len(list') = Len(list) + 1
         /\ \A k \in 2..Len(list') : list'[k] = Zero
         /\ list = <<>> => list'[1] = NewEntry
         /\ list # <<>> => /\ list'[1].key = list[1].key /\ list'[1].sock = list[1].sock
                           /\ list'[1].refcount >= 1
                           /\ list[1].sock >= 0 => list'[1] = list[1]
<1> DEFINE counted == [list[1] EXCEPT !.refcount = @ + 1]
           seen == IF Known THEN [list EXCEPT ![Found].refcount = @ + 1] ELSE list
<1>1. pc = "open" /\ ~NullFirst /\ ~Shared /\ list' = Push(seen, NewEntry)
  BY DEF Create, NewEntry, NewFd
<1>2. NewEntry \in Entry /\ Zero \in Entry
  <2>1. Address \in Addresses
    BY <1>1, SearchResult
  <2>2. NewFd \in -1..MaxFd
    BY <1>1, Opened, SizesAssumption
  <2> QED
    BY <2>1, <2>2, SizesAssumption DEF NewEntry, Zero, Entry
<1>3. list # <<>> => 1 \in DOMAIN list /\ list[1] \in Entry
                     /\ list[1].refcount \in Nat /\ list[1].refcount >= 1
  <2> HAVE list # <<>>
  <2>1. 1 \in DOMAIN list /\ list[1] \in Entry
    BY Typing, EmptySeq, ElementOfSeq
  <2> QED
    BY <2>1 DEF IInv, ListShape, Entry
<1>4. /\ seen \in Seq(Entry) /\ Len(seen) = Len(list)
      /\ \A k \in 2..Len(seen) : seen[k] = Zero
      /\ list # <<>> => seen[1] = IF Known THEN counted ELSE list[1]
      /\ list # <<>> /\ Known => list[1].sock < 0
  <2>0. \A k \in 2..Len(list) : list[k] = Zero
    BY DEF IInv, ListShape
  <2>1. CASE Known
    <3>1. list # <<>> /\ list[1].sock < 0 /\ Found = 1
      BY <1>1, <2>1, CreateCases
    <3>2. counted \in Entry
      BY <1>3, <3>1 DEF Entry
    <3>3. seen = [list EXCEPT ![1] = counted]
      BY <1>3, <2>1, <3>1
    <3> HIDE DEF counted, seen
    <3> QED
      BY <1>3, <2>0, <2>1, <3>1, <3>2, <3>3, Typing, ExceptSeq
  <2>2. CASE ~Known
    BY <2>0, <2>2, Typing
  <2> QED
    BY <2>1, <2>2
<1>5. seen = <<>> <=> list = <<>>
  BY <1>4, Typing, EmptySeq
<1>6. list # <<>> => /\ seen[1].key = list[1].key /\ seen[1].sock = list[1].sock
                     /\ seen[1].refcount >= 1
                     /\ list[1].sock >= 0 => seen[1] = list[1]
  <2> HAVE list # <<>>
  <2>1. CASE Known
    <3>1. /\ counted.key = list[1].key /\ counted.sock = list[1].sock
          /\ counted.refcount = list[1].refcount + 1 /\ list[1].sock \in Int
      BY <1>3, SizesAssumption DEF Entry
    <3>2. seen[1] = counted /\ list[1].sock < 0
      BY <1>4, <2>1
    <3> HIDE DEF counted, seen
    <3> QED
      BY <1>3, <3>1, <3>2
  <2>2. CASE ~Known
    BY <1>3, <1>4, <2>2
  <2> QED
    BY <2>1, <2>2
<1> HIDE DEF seen
<1>7. list' = Append(seen, IF list = <<>> THEN NewEntry ELSE Zero)
  BY <1>1, <1>4, <1>5, OnlyFirstPushed
<1> DEFINE last == IF list = <<>> THEN NewEntry ELSE Zero
<1>8. /\ list' \in Seq(Entry) /\ Len(list') = Len(list) + 1
      /\ list'[Len(list) + 1] = last
      /\ \A k \in 1..Len(list) : list'[k] = seen[k]
  <2>1. last \in Entry
    BY <1>2
  <2> HIDE DEF last
  <2> QED
    BY <1>4, <1>7, <2>1, AppendProperties DEF last
<1>9. CASE list = <<>>
  <2>1. Len(list) = 0
    BY <1>9
  <2> QED
    BY <1>8, <1>9, <2>1
<1>10. CASE list # <<>>
  <2>1. Len(list) \in Nat /\ Len(list) >= 1 /\ last = Zero
    BY <1>10, Typing, EmptySeq
  <2>2. \A k \in 2..Len(list') : list'[k] = Zero
    BY <1>4, <1>8, <2>1
  <2>3. list'[1] = seen[1]
    BY <1>8, <2>1
  <2> QED
    BY <1>6, <1>8, <1>10, <2>2, <2>3
<1> QED
  BY <1>9, <1>10

\* What the two outcomes of an attempt have in common.
LEMMA AttemptKeepsList ==
  ASSUME IInv, Create,
         \A d \in DOMAIN bound : d \in DOMAIN bound' /\ bound'[d] = bound[d],
         IF NewFd < 0 THEN list = <<>> => Address \in broken
                      ELSE NewFd \in DOMAIN bound' /\ bound'[NewFd] = Address
  PROVE  /\ list' \in Seq(Entry) /\ i \in 1..(Len(list') + 1) /\ list' # <<>>
         /\ Len(list') = 1 => list = <<>>
         /\ ListShape'
<1>1. /\ pc = "open" /\ UNCHANGED broken /\ i \in 1..(Len(list) + 1)
  BY DEF Create, IInv, TypeOK
<1>2. /\ list' \in Seq(Entry) /\ i \in 1..(Len(list') + 1) /\ list' # <<>>
      /\ Len(list') = 1 => list = <<>>
  <2>1. list' \in Seq(Entry) /\ Len(list') = Len(list) + 1 /\ Len(list) \in Nat
    BY Pushed, Typing
  <2> QED
    BY <1>1, <2>1, Typing, EmptySeq
<1>3. CASE list = <<>>
  <2>1. /\ list'[1].key = Address /\ list'[1].refcount = 1 /\ list'[1].sock = NewFd
    BY <1>3, Pushed DEF NewEntry
  <2>2. Address \in Addresses /\ NewFd \in Int
    <3>1. ~NullFirst /\ ~Shared
      BY DEF Create
    <3> QED
      BY <1>1, <3>1, SearchResult, Opened
  <2> QED
    BY <1>1, <1>2, <1>3, <2>1, <2>2, Pushed DEF ListShape
<1>4. CASE list # <<>>
  <2>1. /\ list'[1].key = list[1].key /\ list'[1].sock = list[1].sock
        /\ list'[1].refcount >= 1
    BY <1>4, Pushed
  <2>2. /\ list[1].key \in Addresses
        /\ IF list[1].sock >= 0
             THEN list[1].sock \in DOMAIN bound /\ bound[list[1].sock] = list[1].key
             ELSE list[1].key \in broken
    BY <1>4 DEF IInv, ListShape
  <2> QED
    BY <1>1, <1>2, <2>1, <2>2, Pushed DEF ListShape
<1> QED
  BY <1>2, <1>3, <1>4

LEMMA CreateFails ==
  ASSUME IInv, Create, Address \in broken \/ InUse
  PROVE  IInv'
<1>1. /\ pc = "open" /\ ~NullFirst /\ ~Shared /\ GoOn(NewFd)
      /\ bound' = IF NewFd < 0 THEN bound
                  ELSE [d \in DOMAIN bound \cup {NewFd} |->
                          IF d = NewFd THEN Address ELSE bound[d]]
      /\ UNCHANGED <<layout, broken, i, stdio>>
  BY DEF Create, NewFd
<1>2. /\ NewFd \in Int /\ NewFd < 0 /\ NewFd = -1
      /\ Unusable(wp, Address) /\ (list = <<>> => Address \in broken)
  BY <1>1, Opened
<1>3. bound' = bound
  BY <1>1, <1>2
<1>4. /\ UNCHANGED <<fds, wp>> /\ pc' \in {"open", "failed"}
      /\ pc' = "open" => candidate' \in DOMAIN layout[wp]
      /\ Tried' /\ RefusedOnlyUnusable'
  BY <1>1, <1>2, AddressPassedOver
<1>5. /\ list' \in Seq(Entry) /\ i \in 1..(Len(list') + 1) /\ list' # <<>>
      /\ Len(list') = 1 => list = <<>>
      /\ ListShape'
  <2>1. /\ \A d \in DOMAIN bound : d \in DOMAIN bound' /\ bound'[d] = bound[d]
        /\ IF NewFd < 0 THEN list = <<>> => Address \in broken
                         ELSE NewFd \in DOMAIN bound' /\ bound'[NewFd] = Address
    BY <1>2, <1>3
  <2> QED
    BY <2>1, AttemptKeepsList
<1>6. TypeOK'
  BY <1>1, <1>3, <1>4, <1>5 DEF IInv, TypeOK
<1>7. Descriptors'
  BY <1>1, <1>3, <1>4, <1>5 DEF IInv, Descriptors
<1>8. EveryPoolServed'
  BY <1>1, <1>3, <1>4 DEF IInv, EveryPoolServed, Usable, Unusable
<1>9. RefcountCountsUsers'
  <2>1. ASSUME NEW k \in DOMAIN list', list'[k].key # NoKey, list'[k].sock >= 0
        PROVE  list'[k].refcount = Cardinality({w \in DOMAIN fds : fds[w] = list'[k].sock})
    <3>1. k = 1
      BY <1>5, <2>1, Pushed, LenProperties DEF Zero
    <3>2. list # <<>>
      BY <1>2, <2>1, <3>1, Pushed DEF NewEntry
    <3>3. list'[1] = list[1] /\ 1 \in DOMAIN list
      BY <2>1, <3>1, <3>2, Pushed, Typing, EmptySeq
    <3> QED
      BY <2>1, <3>1, <3>3 DEF IInv, RefcountCountsUsers
  <2> QED
    BY <1>4, <2>1 DEF RefcountCountsUsers
<1> QED
  BY <1>4, <1>5, <1>6, <1>7, <1>8, <1>9 DEF IInv

LEMMA CreateOpens ==
  ASSUME IInv, Create, ~(Address \in broken \/ InUse)
  PROVE  IInv'
<1>1. /\ pc = "open" /\ ~NullFirst /\ ~Shared /\ GoOn(NewFd)
      /\ bound' = IF NewFd < 0 THEN bound
                  ELSE [d \in DOMAIN bound \cup {NewFd} |->
                          IF d = NewFd THEN Address ELSE bound[d]]
      /\ UNCHANGED <<layout, broken, i, stdio>>
  BY DEF Create, NewFd
<1>2. /\ NewFd \in {3, 4} /\ NewFd \notin DOMAIN bound /\ Address \in Addresses
      /\ DOMAIN bound = {} => NewFd = 3
      /\ list # <<>> => Len(list) = 1
      /\ ~Unusable(wp, Address)
  BY <1>1, Opened, SearchResult
<1>3. /\ DOMAIN bound' = DOMAIN bound \cup {NewFd} /\ bound'[NewFd] = Address
      /\ \A d \in DOMAIN bound : bound'[d] = bound[d]
  BY <1>1, <1>2
<1>4. NewFd \in 0..MaxFd /\ NewFd >= 0
  BY <1>2, SizesAssumption
<1>5. /\ fds' = Append(fds, NewFd) /\ fds' \in Seq(0..MaxFd)
      /\ wp' \in 1..(Len(layout) + 1) /\ Len(fds') = wp' - 1
      /\ pc' \in {"open", "close"}
      /\ pc' = "open" => candidate' \in DOMAIN layout[wp']
      /\ Tried' /\ RefusedOnlyUnusable' /\ EveryPoolServed'
      /\ \A d : d = NewFd \/ (\E v \in DOMAIN fds : fds[v] = d)
                 => \E v \in DOMAIN fds' : fds'[v] = d
  BY <1>1, <1>2, <1>3, <1>4, PoolListens
<1>6. /\ list' \in Seq(Entry) /\ i \in 1..(Len(list') + 1) /\ list' # <<>>
      /\ Len(list') = 1 => list = <<>>
      /\ ListShape'
  BY <1>3, <1>4, AttemptKeepsList
<1>7. TypeOK'
  <2>1. \A d \in DOMAIN bound' : d \in 0..MaxFd /\ bound'[d] \in Addresses
    BY <1>2, <1>3, <1>4 DEF IInv, TypeOK
  <2> QED
    BY <1>1, <1>5, <1>6, <2>1 DEF IInv, TypeOK
<1>8. Descriptors'
  <2>1. DOMAIN bound' \subseteq {3, 4} /\ \A d \in DOMAIN bound' : bound'[d] \notin broken'
    BY <1>1, <1>2, <1>3 DEF IInv, Descriptors
  <2>2. Len(list') = 1 => DOMAIN bound' \subseteq {3} \cap {list'[1].sock}
    <3> HAVE Len(list') = 1
    <3>1. list = <<>> /\ DOMAIN bound = {}
      BY <1>1, <1>6 DEF IInv, Descriptors
    <3>2. list'[1].sock = NewFd /\ NewFd = 3
      BY <1>2, <3>1, Pushed DEF NewEntry
    <3> QED
      BY <1>3, <3>1, <3>2
  <2>3. stdio' = {0, 1, 2}
    BY <1>1 DEF IInv, Descriptors
  <2>4. \A d, e \in DOMAIN bound' : <<bound'[d], bound'[e]>> \notin Overlaps
    <3>1. /\ \A d \in DOMAIN bound : /\ <<bound[d], Address>> \notin Overlaps
                                    /\ <<Address, bound[d]>> \notin Overlaps
          /\ <<Address, Address>> \notin Overlaps
      BY <1>1, Opened
    <3>2. \A d, e \in DOMAIN bound : <<bound[d], bound[e]>> \notin Overlaps
      BY DEF IInv, Descriptors
    <3>3. ASSUME NEW d \in DOMAIN bound', NEW e \in DOMAIN bound'
          PROVE  <<bound'[d], bound'[e]>> \notin Overlaps
      <4>1. /\ bound'[d] = Address \/ (d \in DOMAIN bound /\ bound'[d] = bound[d])
            /\ bound'[e] = Address \/ (e \in DOMAIN bound /\ bound'[e] = bound[e])
        BY <1>3
      <4> QED
        BY <3>1, <3>2, <4>1
    <3> QED
      BY <3>3
  <2>5. \A d \in DOMAIN bound' : \E v \in DOMAIN fds' : fds'[v] = d
    BY <1>3, <1>5 DEF IInv, Descriptors
  <2> QED
    BY <1>6, <2>1, <2>2, <2>3, <2>4, <2>5 DEF Descriptors
<1>9. RefcountCountsUsers'
  <2>1. ASSUME NEW k \in DOMAIN list', list'[k].key # NoKey, list'[k].sock >= 0
        PROVE  list'[k].refcount = Cardinality(Users(fds', list'[k].sock))
    <3>1. k = 1
      BY <1>6, <2>1, Pushed, LenProperties DEF Zero
    <3>2. CASE list = <<>>
      <4>1. list'[1].refcount = 1 /\ list'[1].sock = NewFd
        BY <3>2, Pushed DEF NewEntry
      <4>2. fds = <<>>
        <5>1. DOMAIN bound = {}
          BY <1>1, <3>2 DEF IInv, Descriptors
        <5>2. DOMAIN fds = {}
          BY <5>1 DEF IInv, EveryPoolServed
        <5> QED
          BY <5>2, Typing, EmptySeq
      <4>3. /\ Cardinality(Users(fds', NewFd)) = Cardinality(Users(fds, NewFd)) + 1
            /\ Cardinality(Users(fds, NewFd)) = 0
        BY <1>4, <1>5, <4>2, OneMoreUser, Typing
      <4> QED
        BY <3>1, <4>1, <4>3
    <3>3. CASE list # <<>>
      <4>1. list[1].sock = list'[1].sock /\ list'[1] = list[1] /\ 1 \in DOMAIN list
        BY <2>1, <3>1, <3>3, Pushed, Typing, EmptySeq
      <4>2. list[1].refcount = Cardinality(Users(fds, list[1].sock))
        BY <2>1, <3>1, <4>1 DEF IInv, RefcountCountsUsers, Users
      <4>3. list[1].sock # NewFd
        BY <1>2, <2>1, <3>1, <3>3, <4>1 DEF IInv, ListShape
      <4>4. /\ Cardinality(Users(fds', list[1].sock)) = Cardinality(Users(fds, list[1].sock)) + 0
            /\ Cardinality(Users(fds, list[1].sock)) \in Nat
        BY <1>4, <1>5, <4>3, OneMoreUser, Typing
      <4> QED
        BY <3>1, <4>1, <4>2, <4>4
    <3> QED
      BY <3>2, <3>3
  <2> QED
    BY <2>1 DEF RefcountCountsUsers, Users
<1> QED
  BY <1>5, <1>6, <1>7, <1>8, <1>9 DEF IInv

\* The closing loop finds no count at 0 but in the zeroed entries: nothing
\* is closed but descriptor 0, once, and the first entry stays.
LEMMA CloseUnusedStep == IInv /\ CloseUnused => IInv'
<1> SUFFICES ASSUME IInv, CloseUnused PROVE IInv'
  OBVIOUS
<1>1. /\ pc = "close" /\ i \in 1..Len(list) /\ list[i].refcount = 0
      /\ stdio' = stdio \ {list[i].sock}
      /\ bound' = [d \in DOMAIN bound \ {list[i].sock} |-> bound[d]]
      /\ list' = RemoveItem(list, i)
      /\ UNCHANGED <<layout, broken, pc, wp, candidate, i, fds>>
  BY Typing DEF CloseUnused, IInv, TypeOK
<1>2. i \in 2..Len(list) /\ list[i] = Zero
  <2>1. list # <<>> /\ list[1].refcount >= 1
    <3>1. list # <<>>
      BY <1>1, Typing, EmptySeq
    <3> QED
      BY <3>1 DEF IInv, ListShape
  <2>2. i # 1
    BY <1>1, <2>1
  <2> QED
    BY <1>1, <2>2 DEF IInv, ListShape
<1>3. DOMAIN bound' = DOMAIN bound /\ \A d \in DOMAIN bound : bound'[d] = bound[d]
  <2>1. list[i].sock = 0 /\ 0 \notin DOMAIN bound
    BY <1>2 DEF Zero, IInv, Descriptors
  <2> QED
    BY <1>1, <2>1
<1>4. /\ list' \in Seq(Entry) /\ Len(list') = Len(list) - 1 /\ list # <<>>
      /\ list'[1] = list[1] /\ \A k \in 2..Len(list') : list'[k] = Zero
      /\ DOMAIN list' = 1..Len(list')
  <2> DEFINE n == Len(list) - 1
  <2>1. n \in Nat /\ n >= 1 /\ list' = [k \in 1..n |-> IF k = i THEN list[Len(list)] ELSE list[k]]
    BY <1>1, <1>2, Typing DEF RemoveItem
  <2>2. \A k \in 1..n : list'[k] \in Entry
    BY <1>1, <2>1, Typing, ElementOfSeq
  <2>3. list' \in Seq(Entry) /\ Len(list') = n
    <3> HIDE DEF n
    <3> QED
      BY <2>1, <2>2, IsASeq, LenProperties
  <2>4. list'[1] = list[1]
    BY <1>2, <2>1
  <2>5. \A k \in 2..n : list'[k] = Zero
    BY <1>2, <2>1, Typing DEF IInv, ListShape
  <2>6. DOMAIN list' = 1..n
    BY <2>1
  <2>7. list # <<>>
    BY <1>2, Typing, EmptySeq
  <2> QED
    BY <2>3, <2>4, <2>5, <2>6, <2>7
<1>5. TypeOK'
  <2>1. i' \in 1..(Len(list') + 1)
    BY <1>1, <1>4, Typing
  <2>2. \A d \in DOMAIN bound' : d \in 0..MaxFd /\ bound'[d] \in Addresses
    BY <1>3 DEF IInv, TypeOK
  <2>3. stdio' \subseteq {0, 1, 2}
    BY <1>1 DEF IInv, TypeOK
  <2> QED
    BY <1>1, <1>4, <2>1, <2>2, <2>3 DEF IInv, TypeOK
<1>6. ListShape'
  BY <1>1, <1>3, <1>4 DEF IInv, ListShape
<1>7. Descriptors' /\ Tried' /\ RefusedOnlyUnusable'
  BY <1>1, <1>3 DEF IInv, Descriptors, Tried, RefusedOnlyUnusable
<1>8. EveryPoolServed'
  <2>1. \A w \in DOMAIN fds : fds[w] \in DOMAIN bound' /\ bound'[fds[w]] = bound[fds[w]]
    BY <1>3 DEF IInv, EveryPoolServed
  <2>2. layout' = layout /\ broken' = broken /\ fds' = fds
    BY <1>1
  <2>3. ASSUME NEW w \in DOMAIN fds
        PROVE  Usable(w)' = Usable(w)
    <3>1. \A v \in 1..(w - 1) : v \in DOMAIN fds
      BY <2>3, Typing
    <3>2. \A v \in 1..(w - 1) : bound'[fds'[v]] = bound[fds[v]]
      BY <2>1, <2>2, <3>1
    <3> QED
      BY <2>2, <3>2 DEF Usable, Unusable
  <2> QED
    BY <2>1, <2>2, <2>3 DEF IInv, EveryPoolServed
<1>9. RefcountCountsUsers'
  <2>1. ASSUME NEW k \in DOMAIN list', list'[k].key # NoKey, list'[k].sock >= 0
        PROVE  list'[k].refcount = Cardinality({w \in DOMAIN fds : fds[w] = list'[k].sock})
    <3>1. k = 1
      BY <1>4, <2>1 DEF Zero
    <3>2. list'[1] = list[1] /\ 1 \in DOMAIN list
      BY <1>1, <1>4, Typing
    <3> QED
      BY <2>1, <3>1, <3>2 DEF IInv, RefcountCountsUsers
  <2> QED
    BY <1>1, <2>1 DEF RefcountCountsUsers
<1> QED
  BY <1>5, <1>6, <1>7, <1>8, <1>9 DEF IInv

LEMMA LoopStep == IInv /\ (KeepUsed \/ Finish \/ UNCHANGED vars) => IInv'
<1> SUFFICES ASSUME IInv, KeepUsed \/ Finish \/ UNCHANGED vars PROVE IInv'
  OBVIOUS
<1>1. /\ UNCHANGED <<layout, broken, wp, candidate, list, fds, bound, stdio>>
      /\ pc' = "open" => pc = "open"
      /\ pc' # "failed" \/ pc = "failed"
      /\ pc' \in {pc, "done"} /\ i' \in 1..(Len(list) + 1)
  BY Typing DEF KeepUsed, Finish, vars, IInv, TypeOK
<1>2. TypeOK'
  BY <1>1 DEF IInv, TypeOK
<1>3. ListShape' /\ Descriptors'
  BY <1>1, QuietStep
<1>4. Tried' /\ RefusedOnlyUnusable'
  <2>1. \A w, x : Unusable(w, x)' = Unusable(w, x)
    BY <1>1 DEF Unusable
  <2> QED
    BY <1>1 DEF IInv, Tried, RefusedOnlyUnusable, Usable, Unusable
<1>5. EveryPoolServed' /\ RefcountCountsUsers'
  BY <1>1 DEF IInv, EveryPoolServed, Usable, Unusable, RefcountCountsUsers
<1> QED
  BY <1>2, <1>3, <1>4, <1>5 DEF IInv

LEMMA NextIInv == IInv /\ [Next]_vars => IInv'
BY UnresolvedStep, CompareWithNullStep, ShareStep, CreateFails, CreateOpens,
   CloseUnusedStep, LoopStep DEF Next

THEOREM Invariance == Spec => []IInv
BY InitIInv, NextIInv, PTL DEF Spec

-----------------------------------------------------------------------------
\* For any list of pools: the pool loop (pmf_sockets.c:351-371) stays within
\* the pools and their addresses, and has a descriptor for each it has left.
THEOREM TypeCorrect == Spec => []TypeOK
<1>1. IInv => TypeOK
  BY DEF IInv
<1> QED
  BY <1>1, Invariance, PTL

\* Every pool the loop has left listens on the first of its addresses that
\* can be bound, and the closing loop (pmf_sockets.c:376-388) takes no
\* descriptor from it, although pmf_array_push zeroed all entries but one.
THEOREM PoolsListen == Spec => []EveryPoolServed
<1>1. IInv => EveryPoolServed
  BY DEF IInv
<1> QED
  BY <1>1, Invariance, PTL

\* pmf_sockets_init_main returns -1 only over a pool each of whose addresses is
\* broken, or overlaps a different one that an earlier pool listens on: pools
\* with the same printed address never make bind() or the connect test fail.
THEOREM OnlyUnusableRefused == Spec => []RefusedOnlyUnusable
<1>1. IInv => RefusedOnlyUnusable
  BY DEF IInv
<1> QED
  BY <1>1, Invariance, PTL

\* The count PMF_GET_USE_SOCKET and PMF_STORE_USE_SOCKET keep of an open
\* socket is the number of pools that use it, through both loops.
THEOREM CountsAreUsers == Spec => []RefcountCountsUsers
<1>1. IInv => RefcountCountsUsers
  BY DEF IInv
<1> QED
  BY <1>1, Invariance, PTL
=============================================================================
