--------------------------- MODULE EventLoopProofs --------------------------
(***************************************************************************)
(* Proofs about EventLoop for any finite set of events, whichever are      *)
(* edge-triggered or beyond the set of select, any pools and any width of  *)
(* an int: the types, and that both modules implement Dispatcher.          *)
(***************************************************************************)
EXTENDS EventLoop, FiniteSetTheorems, SequenceTheorems, TLAPS

\* A list without repetitions.
Distinct(list) == \A m, n \in DOMAIN list : list[m] = list[n] => m = n
Lists == {list \in Seq(Events) : Distinct(list)}

\* The positions of a part of a list can be numbered in their order, so what
\* is kept of a list is a list of those entries.
LEMMA KeptIsAList ==
  ASSUME NEW list \in Lists, NEW set
  PROVE  Kept(list, set) \in Lists /\ Range(Kept(list, set)) = Range(list) \cap set
<1> DEFINE at == {k \in DOMAIN list : list[k] \in set}
           upto(k) == {j \in at : j <= k}
           Nth(n) == CHOOSE k \in at : Cardinality(upto(k)) = n
<1>1. at \subseteq 1..Len(list) /\ Len(list) \in Nat
  BY DEF Lists
<1>2. IsFiniteSet(at) /\ Cardinality(at) \in Nat
  <2>1. IsFiniteSet(1..Len(list)) /\ at \in SUBSET (1..Len(list))
    BY <1>1, FS_Interval
  <2> QED
    BY <2>1, FS_Subset, FS_CardinalityType
<1>3. \A k \in at : Cardinality(upto(k)) \in 1..Cardinality(at)
  <2> TAKE k \in at
  <2>1. IsFiniteSet(upto(k)) /\ Cardinality(upto(k)) <= Cardinality(at)
    BY <1>2, FS_Subset
  <2>2. k \in upto(k)
    BY <1>1
  <2> QED
    BY <1>2, <2>1, <2>2, FS_CardinalityType, FS_EmptySet
<1>4. \A j, k \in at : j < k => Cardinality(upto(j)) # Cardinality(upto(k))
  <2> TAKE j, k \in at
  <2> HAVE j < k
  <2>1. upto(j) \subseteq upto(k) /\ k \in upto(k) /\ k \notin upto(j)
    BY <1>1
  <2>2. IsFiniteSet(upto(k))
    BY <1>2, FS_Subset
  <2> QED
    BY <2>1, <2>2, FS_Subset
<1>5. \A n \in 1..Cardinality(at) : \E k \in at : Cardinality(upto(k)) = n
  <2> DEFINE rank == [k \in at |-> Cardinality(upto(k))]
  <2>1. rank \in Injection(at, 1..Cardinality(at))
    <3>1. \A j, k \in at : j # k => j < k \/ k < j
      BY <1>1
    <3>2. \A j, k \in at : rank[j] = rank[k] => j = k
      BY <1>4, <3>1
    <3> QED
      BY <1>3, <3>2 DEF Injection, IsInjective
  <2>2. Cardinality(1..Cardinality(at)) = Cardinality(at) /\ IsFiniteSet(1..Cardinality(at))
    BY <1>2, FS_Interval
  <2>3. rank \in Surjection(at, 1..Cardinality(at))
    BY <2>1, <2>2, FS_Injection
  <2> QED
    BY <2>3 DEF Surjection
<1>6. \A n \in 1..Cardinality(at) : Nth(n) \in at /\ Cardinality(upto(Nth(n))) = n
  BY <1>5
<1> DEFINE size == Cardinality(at)
<1>7. Kept(list, set) = [n \in 1..size |-> list[Nth(n)]]
  BY DEF Kept
<1>8. /\ \A n \in 1..size : Nth(n) \in 1..Len(list) /\ list[Nth(n)] \in Events \cap set
      /\ \A m, n \in 1..size : Nth(m) = Nth(n) => m = n
      /\ size \in Nat
  <2>1. \A k \in at : k \in 1..Len(list) /\ list[k] \in Events \cap set
    BY <1>1 DEF Lists
  <2> HIDE DEF at, upto, Nth
  <2> QED
    BY <1>2, <1>6, <2>1
<1>12. \A k \in at : \E n \in 1..size : Nth(n) = k
  <2> TAKE k \in at
  <2>1. PICK n \in 1..size : n = Cardinality(upto(k))
    BY <1>3
  <2>2. Nth(n) \in at /\ Cardinality(upto(Nth(n))) = Cardinality(upto(k))
    BY <1>6, <2>1
  <2>3. \A i, j \in at : i < j \/ j < i \/ i = j
    BY <1>1
  <2> HIDE DEF Nth, at, upto, size
  <2>4. Nth(n) = k
    BY <1>4, <2>2, <2>3
  <2> QED
    BY <2>1, <2>4
<1> HIDE DEF Nth, size
<1>9. Kept(list, set) \in Seq(Events) /\ DOMAIN Kept(list, set) = 1..size
  BY <1>7, <1>8
<1>10. Distinct(Kept(list, set))
  BY <1>7, <1>8, <1>9 DEF Lists, Distinct
<1>11. Range(Kept(list, set)) \subseteq Range(list) \cap set
  BY <1>7, <1>8, <1>9 DEF Range, Lists
<1>13. Range(list) \cap set \subseteq Range(Kept(list, set))
  <2> SUFFICES ASSUME NEW k \in DOMAIN list, list[k] \in set
               PROVE  list[k] \in Range(Kept(list, set))
    BY DEF Range
  <2>1. k \in at
    OBVIOUS
  <2> HIDE DEF at
  <2>2. PICK n \in 1..size : Nth(n) = k
    BY <1>12, <2>1
  <2>3. Kept(list, set)[n] = list[k] /\ n \in DOMAIN Kept(list, set)
    BY <1>7, <1>9, <2>2
  <2> QED
    BY <2>3 DEF Range
<1> QED
  BY <1>9, <1>10, <1>11, <1>13 DEF Lists

\* A descriptor is on the ready list once.
LEMMA QueuedIsAList ==
  ASSUME NEW list \in Lists, NEW e \in Events
  PROVE  Queued(list, e) \in Lists /\ Range(Queued(list, e)) = Range(list) \cup {e}
<1>1. CASE e \in Range(list)
  BY <1>1 DEF Queued
<1>2. CASE e \notin Range(list)
  <2>1. \A k \in 1..Len(list) : list[k] # e
    BY <1>2 DEF Range, Lists
  <2>2. /\ Append(list, e) \in Seq(Events) /\ Len(Append(list, e)) = Len(list) + 1
        /\ \A k \in 1..Len(list) : Append(list, e)[k] = list[k]
        /\ Append(list, e)[Len(list) + 1] = e
    BY AppendProperties DEF Lists
  <2>3. DOMAIN Append(list, e) = 1..(Len(list) + 1) /\ DOMAIN list = 1..Len(list)
        /\ Len(list) \in Nat
    BY <2>2 DEF Lists
  <2> DEFINE longer == Append(list, e)
  <2> HIDE DEF longer
  <2>4. Distinct(longer) /\ Range(longer) = Range(list) \cup {e}
    BY <2>1, <2>2, <2>3 DEF Lists, Distinct, Range, longer
  <2> QED
    BY <1>2, <2>2, <2>4 DEF Queued, Lists, longer
<1> QED
  BY <1>1, <1>2

\* A list cut in two.
LEMMA SplitLists ==
  ASSUME NEW list \in Lists, NEW n \in 0..Len(list)
  PROVE  LET front == SubSeq(list, 1, n)
             back  == SubSeq(list, n + 1, Len(list))
         IN /\ front \in Lists /\ back \in Lists
            /\ Len(front) = n
            /\ Range(front) \subseteq Range(list) /\ Range(back) \subseteq Range(list)
            /\ Range(front) \cap Range(back) = {}
<1> DEFINE front == SubSeq(list, 1, n)
           back  == SubSeq(list, n + 1, Len(list))
<1>1. /\ list \in Seq(Events) /\ Len(list) \in Nat /\ DOMAIN list = 1..Len(list)
      /\ n \in Nat /\ n <= Len(list)
      /\ \A j, k \in 1..Len(list) : list[j] = list[k] => j = k
  BY DEF Lists, Distinct
<1>2. /\ front \in Seq(Events) /\ Len(front) = n
      /\ \A k \in 1..n : front[k] = list[k]
  BY <1>1, SubSeqProperties
<1>3. /\ back \in Seq(Events) /\ Len(back) = Len(list) - n
      /\ \A k \in 1..(Len(list) - n) : back[k] = list[n + k]
  <2>1. n + 1 \in Int /\ \A k \in (n + 1)..Len(list) : list[k] \in Events
    BY <1>1
  <2>2. /\ back \in Seq(Events)
        /\ Len(back) = IF n + 1 <= Len(list) THEN Len(list) - (n + 1) + 1 ELSE 0
        /\ \A k \in 1..(Len(list) - (n + 1) + 1) : back[k] = list[n + 1 + k - 1]
    BY <1>1, <2>1, SubSeqProperties
  <2> HIDE DEF back
  <2>3. \A k \in 1..(Len(list) - n) : k \in 1..(Len(list) - (n + 1) + 1) /\ n + 1 + k - 1 = n + k
    BY <1>1
  <2>4. Len(back) = Len(list) - n
    <3>1. n \in Nat /\ Len(list) \in Nat /\ n <= Len(list)
      BY <1>1
    <3>2. Len(back) = IF n + 1 <= Len(list) THEN Len(list) - (n + 1) + 1 ELSE 0
      BY <2>2
    <3> QED
      BY <3>1, <3>2
  <2>5. \A k \in 1..(Len(list) - n) : back[k] = list[n + k]
    BY <2>2, <2>3
  <2> QED
    BY <2>2, <2>4, <2>5
<1>4. DOMAIN front = 1..n /\ DOMAIN back = 1..(Len(list) - n)
  <2> HIDE DEF front, back
  <2> QED
    BY <1>1, <1>2, <1>3, LenProperties
<1> HIDE DEF front, back
<1>5. Distinct(front) /\ Distinct(back)
  <2>1. \A k \in 1..n : k \in 1..Len(list)
    BY <1>1
  <2>2. \A k \in 1..(Len(list) - n) : n + k \in 1..Len(list)
    BY <1>1
  <2>3. \A j, k \in 1..(Len(list) - n) : n + j = n + k => j = k
    BY <1>1
  <2>4. Distinct(front)
    BY <1>1, <1>2, <1>4, <2>1 DEF Distinct
  <2>5. Distinct(back)
    <3> SUFFICES ASSUME NEW j \in 1..(Len(list) - n), NEW k \in 1..(Len(list) - n),
                        back[j] = back[k]
                 PROVE  j = k
      BY <1>4 DEF Distinct
    <3>1. list[n + j] = list[n + k] /\ n + j \in 1..Len(list) /\ n + k \in 1..Len(list)
      BY <1>3, <2>2
    <3>2. n + j = n + k
      BY <1>1, <3>1
    <3> QED
      BY <2>3, <3>2
  <2> QED
    BY <2>4, <2>5
<1>6. Range(front) \subseteq Range(list) /\ Range(back) \subseteq Range(list)
  <2>1. ASSUME NEW k \in DOMAIN front
        PROVE  front[k] \in Range(list)
    <3>1. k \in DOMAIN list /\ front[k] = list[k]
      BY <1>1, <1>2, <1>4
    <3> QED
      BY <3>1 DEF Range
  <2>2. ASSUME NEW k \in DOMAIN back
        PROVE  back[k] \in Range(list)
    <3>1. n + k \in DOMAIN list /\ back[k] = list[n + k]
      BY <1>1, <1>3, <1>4
    <3> QED
      BY <3>1 DEF Range
  <2> QED
    BY <2>1, <2>2 DEF Range
<1>7. Range(front) \cap Range(back) = {}
  <2> SUFFICES ASSUME NEW j \in 1..n, NEW k \in 1..(Len(list) - n), front[j] = back[k]
               PROVE  FALSE
    BY <1>4 DEF Range
  <2> QED
    BY <1>1, <1>2, <1>3
<1> QED
  BY <1>2, <1>3, <1>5, <1>6, <1>7 DEF Lists, front, back

\* Two lists with nothing in common.
LEMMA JoinedLists ==
  ASSUME NEW a \in Lists, NEW b \in Lists, Range(a) \cap Range(b) = {}
  PROVE  a \o b \in Lists /\ Range(a \o b) = Range(a) \cup Range(b)
<1>1. /\ a \in Seq(Events) /\ Len(a) \in Nat /\ DOMAIN a = 1..Len(a)
      /\ b \in Seq(Events) /\ Len(b) \in Nat /\ DOMAIN b = 1..Len(b)
  BY DEF Lists
<1>2. /\ a \o b \in Seq(Events) /\ Len(a \o b) = Len(a) + Len(b)
      /\ \A k \in 1..(Len(a) + Len(b)) :
           (a \o b)[k] = IF k <= Len(a) THEN a[k] ELSE b[k - Len(a)]
  BY <1>1, ConcatProperties
<1> DEFINE c == a \o b
<1>3. DOMAIN c = 1..(Len(a) + Len(b))
  BY <1>1, <1>2
<1>4. Range(c) = Range(a) \cup Range(b)
  BY <1>1, RangeConcatenation
<1>5. \A j \in 1..Len(a), k \in 1..Len(b) : a[j] # b[k]
  BY <1>1 DEF Range
<1> HIDE DEF c
<1>6. Distinct(c)
  <2> SUFFICES ASSUME NEW j \in 1..(Len(a) + Len(b)), NEW k \in 1..(Len(a) + Len(b)),
                      c[j] = c[k], j <= k
               PROVE  j = k
    <3>1. \A j, k \in 1..(Len(a) + Len(b)) : j <= k \/ k <= j
      BY <1>1
    <3> QED
      BY <1>3, <3>1 DEF Distinct
  <2>1. CASE k <= Len(a)
    BY <1>1, <1>2, <2>1 DEF Lists, Distinct, c
  <2>2. CASE j > Len(a)
    <3>1. j - Len(a) \in 1..Len(b) /\ k - Len(a) \in 1..Len(b)
      BY <1>1, <2>2
    <3>2. b[j - Len(a)] = b[k - Len(a)]
      BY <1>1, <1>2, <2>2 DEF c
    <3>3. j - Len(a) = k - Len(a)
      BY <1>1, <3>1, <3>2 DEF Lists, Distinct
    <3> QED
      BY <1>1, <3>3
  <2>3. CASE j <= Len(a) /\ k > Len(a)
    <3>1. j \in 1..Len(a) /\ k - Len(a) \in 1..Len(b)
      BY <1>1, <2>3
    <3> QED
      BY <1>1, <1>2, <1>5, <2>3, <3>1 DEF c
  <2> QED
    BY <1>1, <2>1, <2>2, <2>3
<1> QED
  BY <1>2, <1>4, <1>6 DEF Lists, c

LEMMA TailLists ==
  ASSUME NEW list \in Lists, list # <<>>
  PROVE  /\ Tail(list) \in Lists /\ Head(list) \in Range(list)
         /\ Range(Tail(list)) = Range(list) \ {Head(list)}
<1>1. /\ list \in Seq(Events) /\ Len(list) \in Nat \ {0} /\ DOMAIN list = 1..Len(list)
      /\ \A j, k \in 1..Len(list) : list[j] = list[k] => j = k
  BY EmptySeq DEF Lists, Distinct
<1>2. /\ Tail(list) \in Seq(Events) /\ Len(Tail(list)) = Len(list) - 1
      /\ \A k \in 1..(Len(list) - 1) : Tail(list)[k] = list[k + 1]
      /\ Head(list) = list[1]
  BY <1>1, HeadTailProperties
<1>3. DOMAIN Tail(list) = 1..(Len(list) - 1)
  BY <1>1, <1>2
<1> DEFINE tail == Tail(list)
<1> HIDE DEF tail
<1>4. Distinct(tail)
  BY <1>1, <1>2, <1>3 DEF Distinct, tail
<1>5. Range(tail) \subseteq Range(list) \ {list[1]}
  BY <1>1, <1>2, <1>3 DEF Range, tail
<1>6. ASSUME NEW k \in 1..Len(list), k # 1
      PROVE  list[k] \in Range(tail)
  <2>1. k - 1 \in 1..(Len(list) - 1) /\ tail[k - 1] = list[k]
    BY <1>1, <1>2, <1>6 DEF tail
  <2> QED
    BY <1>3, <2>1 DEF Range, tail
<1>7. Range(tail) = Range(list) \ {list[1]} /\ list[1] \in Range(list)
  <2>1. Range(list) = {list[k] : k \in 1..Len(list)}
    BY <1>1 DEF Range
  <2>2. Range(list) \ {list[1]} \subseteq Range(tail)
    BY <1>6, <2>1
  <2> QED
    BY <1>1, <1>5, <2>1, <2>2
<1> QED
  BY <1>2, <1>4, <1>7 DEF Lists, tail

-----------------------------------------------------------------------------
\* The lists have no repetitions, a round that is over has left nothing in the
\* buffer, and a descriptor of epoll that can be waited on has a buffer.
IInv ==
  /\ TypeOK
  /\ ready \in Lists /\ batch \in Lists
  /\ phase # "wait" => batch = <<>> /\ current = {}
  /\ phase = "off" => ~epfd
  /\ epfd /\ phase \in {"idle", "wait"} => cap >= 1

\* The numbers an int can hold.
LEMMA IntRange ==
  LET ints == -1..(IntModulus \div 2 - 1)
  IN /\ {-1, 0} \subseteq ints /\ Usable \subseteq ints /\ ints \subseteq Int
     /\ \A n \in Usable : n >= 1
<1> DEFINE half == IntModulus \div 2
<1>1. half \in Nat \ {0}
  BY CountsAssumption
<1> HIDE DEF half
<1>2. {-1, 0} \subseteq -1..(half - 1) /\ 1..(half - 1) \subseteq -1..(half - 1)
  BY <1>1
<1> QED
  BY <1>1, <1>2 DEF Usable, half

LEMMA EmptyLists == <<>> \in Lists /\ Range(<<>>) = {}
BY DEF Lists, Distinct, Range

LEMMA EmptyRange ==
  ASSUME NEW list \in Lists, Range(list) = {}
  PROVE  list = <<>>
<1>1. list \in Seq(Events) /\ DOMAIN list = 1..Len(list) /\ Len(list) \in Nat
  BY DEF Lists
<1>2. ~(1 \in DOMAIN list)
  BY DEF Range
<1>3. Len(list) = 0
  BY <1>1, <1>2
<1> QED
  BY <1>1, <1>3, EmptySeq

LEMMA InitIInv == Init => IInv
BY EmptyLists, IntRange DEF Init, IInv, TypeOK

\* What wait takes from the ready list and what it puts back.
LEMMA Rounding ==
  ASSUME IInv, phase = "idle"
  PROVE  /\ Reported \in Lists /\ Range(Reported) \subseteq interest
         /\ Reported # <<>> =>
              LET list == Rest \o Kept(Reported, Events \ Edge)
              IN list \in Lists /\ Range(list) \subseteq interest
<1>1. Live \in Lists /\ Range(Live) \subseteq interest
  BY KeptIsAList DEF Live, IInv, TypeOK
<1>2. CASE ~epfd
  BY <1>2, EmptyLists DEF Reported
<1>3. CASE epfd
  <2> DEFINE n == IF cap < Len(Live) THEN cap ELSE Len(Live)
  <2>1. n \in 0..Len(Live)
    <3>1. Len(Live) \in Nat
      BY <1>1 DEF Lists
    <3>2. cap \in Int /\ cap >= 1
      BY <1>3, IntRange DEF IInv, TypeOK
    <3> QED
      BY <3>1, <3>2
  <2>2. Reported = SubSeq(Live, 1, n)
    BY <1>3 DEF Reported
  <2> HIDE DEF n
  <2>3. Len(Reported) = n /\ Rest = SubSeq(Live, n + 1, Len(Live))
    BY <1>1, <2>1, <2>2, SplitLists DEF Rest
  <2>4. /\ Reported \in Lists /\ Rest \in Lists
        /\ Range(Reported) \subseteq Range(Live) /\ Range(Rest) \subseteq Range(Live)
        /\ Range(Reported) \cap Range(Rest) = {}
    BY <1>1, <2>1, <2>2, <2>3, SplitLists
  <2>5. /\ Kept(Reported, Events \ Edge) \in Lists
        /\ Range(Kept(Reported, Events \ Edge)) \subseteq Range(Reported)
    BY <2>4, KeptIsAList
  <2>6. Rest \o Kept(Reported, Events \ Edge) \in Lists
        /\ Range(Rest \o Kept(Reported, Events \ Edge)) \subseteq Range(Live)
    BY <2>4, <2>5, JoinedLists
  <2> QED
    BY <1>1, <2>4, <2>6
<1> QED
  BY <1>2, <1>3

\* The queue of select in the caller's order.
LEMMA QueueIsAList ==
  ASSUME NEW set \in SUBSET Events, NEW order \in SetToSeqs(set)
  PROVE  order \in Lists /\ Range(order) = set
<1>1. IsFiniteSet(set) /\ Cardinality(set) \in Nat
  BY EventsAssumption, FS_Subset, FS_CardinalityType
<1>2. order \in [1..Cardinality(set) -> set] /\ Distinct(order)
  BY DEF SetToSeqs, Distinct
<1> DEFINE size == Cardinality(set)
<1>3. order \in Injection(1..size, set)
  BY <1>2 DEF Distinct, Injection, IsInjective
<1>4. IsFiniteSet(1..size) /\ Cardinality(1..size) = Cardinality(set)
  BY <1>1, FS_Interval
<1>5. order \in Surjection(1..size, set)
  BY <1>1, <1>3, <1>4, FS_Injection
<1>6. set \subseteq Range(order)
  BY <1>2, <1>5 DEF Surjection, Range
<1> QED
  BY <1>1, <1>2, <1>6 DEF Lists, Range

LEMMA NextIInv == IInv /\ [Next]_vars => IInv'
<1> SUFFICES ASSUME IInv, [Next]_vars
             PROVE  IInv'
  OBVIOUS
<1>1. CASE InitMain
  <2>1. epfd' \in BOOLEAN /\ cap' \in -1..(IntModulus \div 2 - 1)
    BY <1>1, IntRange DEF InitMain, IInv, TypeOK
  <2>2. epfd' /\ phase' \in {"idle", "wait"} => cap' >= 1
    BY <1>1, IntRange DEF InitMain, IInv, TypeOK
  <2> QED
    BY <1>1, <2>1, <2>2 DEF InitMain, IInv, TypeOK
<1>2. ASSUME NEW e \in Events, Arrive(e)
      PROVE  IInv'
  <2>1. ready' \in Lists /\ Range(ready') \subseteq interest'
    BY <1>2, QueuedIsAList DEF Arrive, IInv, TypeOK
  <2> QED
    BY <1>2, <2>1 DEF Arrive, IInv, TypeOK
<1>3. ASSUME NEW e \in Events, AddEvent(e)
      PROVE  IInv'
  <2>1. ready' \in Lists /\ Range(ready') \subseteq interest'
    BY <1>3, QueuedIsAList DEF AddEvent, IInv, TypeOK
  <2>2. /\ batch' \in Lists
        /\ Range(batch') \subseteq IF mech = "select" THEN interest' ELSE current
    <3>1. CASE UNCHANGED batch
      BY <1>3, <3>1 DEF AddEvent, IInv, TypeOK
    <3>2. CASE mech = "select" /\ e \notin interest /\ batch' = Append(batch, e)
      <4>1. batch' = Queued(batch, e)
        BY <3>2 DEF Queued, IInv, TypeOK
      <4>2. batch' \in Lists /\ Range(batch') = Range(batch) \cup {e}
        BY <4>1, QueuedIsAList DEF IInv
      <4> QED
        BY <1>3, <3>2, <4>2 DEF AddEvent, IInv, TypeOK
    <3> QED
      BY <1>3, <3>1, <3>2 DEF AddEvent
  <2>3. phase # "wait" => batch' = <<>>
    BY <1>3 DEF AddEvent, IInv
  <2> QED
    BY <1>3, <2>1, <2>2, <2>3 DEF AddEvent, IInv, TypeOK
<1>4. ASSUME NEW e \in Events, RemoveEvent(e)
      PROVE  IInv'
  <2>1. ready' \in Lists /\ Range(ready') \subseteq interest'
    BY <1>4, KeptIsAList DEF RemoveEvent, IInv, TypeOK
  <2>2. /\ batch' \in Lists
        /\ Range(batch') \subseteq IF mech = "select" THEN interest' ELSE current
    BY <1>4, KeptIsAList DEF RemoveEvent, IInv, TypeOK
  <2>3. phase # "wait" => batch' = <<>>
    <3>1. ASSUME phase # "wait"
          PROVE  batch = <<>> /\ Range(Kept(batch, Events \ {e})) = {} /\ Kept(batch, Events \ {e}) \in Lists
      BY <3>1, KeptIsAList, EmptyLists DEF IInv
    <3> QED
      BY <1>4, <3>1, EmptyRange DEF RemoveEvent
  <2> QED
    BY <1>4, <2>1, <2>2, <2>3 DEF RemoveEvent, IInv, TypeOK
<1>5. CASE EpollWait
  <2>1. /\ batch' \in Lists /\ Range(batch') \subseteq interest
        /\ ready' \in Lists /\ Range(ready') \subseteq interest
    BY <1>5, Rounding DEF EpollWait
  <2> QED
    BY <1>5, <2>1 DEF EpollWait, IInv, TypeOK
<1>6. CASE SelectWait
  <2>1. batch' \in Lists /\ Range(batch') = interest
    BY <1>6, QueueIsAList DEF SelectWait, IInv, TypeOK
  <2> QED
    BY <1>6, <2>1 DEF SelectWait, IInv, TypeOK
<1>7. CASE Call
  <2>1. batch' \in Lists /\ Range(batch') \subseteq Range(batch) /\ last' \in Events
    BY <1>7, TailLists DEF Call, IInv, TypeOK
  <2> QED
    BY <1>7, <2>1 DEF Call, IInv, TypeOK
<1>8. CASE Pass
  <2>1. batch' \in Lists /\ Range(batch') \subseteq Range(batch)
    BY <1>8, TailLists DEF Pass, IInv, TypeOK
  <2> QED
    BY <1>8, <2>1 DEF Pass, IInv, TypeOK
<1>9. CASE Return
  BY <1>9, EmptyLists DEF Return, IInv, TypeOK
<1>10. CASE Clean
  <2>1. cap' \in -1..(IntModulus \div 2 - 1)
    BY <1>10, IntRange DEF Clean, IInv, TypeOK
  <2> QED
    BY <1>10, <2>1, EmptyLists DEF Clean, IInv, TypeOK
<1>11. CASE UNCHANGED vars
  BY <1>11 DEF vars, IInv, TypeOK
<1> QED
  BY <1>1, <1>2, <1>3, <1>4, <1>5, <1>6, <1>7, <1>8, <1>9, <1>10, <1>11 DEF Next, Wait

LEMMA Invariance == Spec => []IInv
BY InitIInv, NextIInv, PTL DEF Spec

\* The types of the variables; what is ready is registered.
THEOREM TypeCorrect == Spec => []TypeOK
BY Invariance, PTL DEF IInv

-----------------------------------------------------------------------------
\* An initial state of Dispatcher.
LEMMA InitRefines == Init => Rounds!Init
BY EmptyLists DEF Init, Rounds!Init

\* Every step is one of Dispatcher or changes nothing it speaks of.
LEMMA NextRefines == IInv /\ [Next]_vars => [Rounds!Next]_(Rounds!vars)
<1> SUFFICES ASSUME IInv, [Next]_vars
             PROVE  Rounds!Next \/ UNCHANGED Rounds!vars
  OBVIOUS
<1>1. ASSUME InitMain \/ UNCHANGED vars \/ \E e \in Events : Arrive(e)
      PROVE  UNCHANGED Rounds!vars
  BY <1>1 DEF InitMain, Arrive, vars, Rounds!vars
<1>2. ASSUME NEW e \in Events, AddEvent(e)
      PROVE  Rounds!Add(e)
  <2>1. interest' = interest \cup {e} /\ UNCHANGED <<current, last>>
    BY <1>2 DEF AddEvent
  <2>2. CASE UNCHANGED batch
    BY <2>1, <2>2 DEF Rounds!Add
  <2>3. CASE mech = "select" /\ e \notin interest /\ batch' = Append(batch, e)
    <3>1. batch' = Queued(batch, e)
      BY <2>3 DEF Queued, IInv, TypeOK
    <3>2. Range(batch') = Range(batch) \cup {e}
      BY <3>1, QueuedIsAList DEF IInv
    <3>3. Range(batch') \cap current
            = (Range(batch) \cap current) \cup (({e} \cap current) \ interest)
      BY <2>3, <3>2
    <3> QED
      BY <2>1, <3>3 DEF Rounds!Add
  <2> QED
    BY <1>2, <2>2, <2>3 DEF AddEvent
<1>3. ASSUME NEW e \in Events, RemoveEvent(e)
      PROVE  Rounds!Remove(e)
  <2>1. Range(batch') = Range(batch) \/ Range(batch') = Range(batch) \cap (Events \ {e})
    BY <1>3, KeptIsAList DEF RemoveEvent, IInv
  <2>2. current \subseteq Events
    BY DEF IInv, TypeOK
  <2>3. \/ Range(batch') \cap current = Range(batch) \cap current
        \/ Range(batch') \cap current = (Range(batch) \cap current) \ {e}
    BY <2>1, <2>2
  <2> QED
    BY <1>3, <2>3 DEF RemoveEvent, Rounds!Remove
<1>4. CASE Wait
  <2>1. current = {}
    BY <1>4 DEF Wait, EpollWait, SelectWait, IInv
  <2>2. current' \subseteq interest /\ Range(batch') \cap current' = current'
    BY <1>4, Rounding, QueueIsAList DEF Wait, EpollWait, SelectWait, IInv, TypeOK
  <2>3. last' = Nobody /\ interest' = interest
    BY <1>4 DEF Wait, EpollWait, SelectWait
  <2>4. Rounds!BeginRound
    BY <2>1, <2>2, <2>3 DEF Rounds!BeginRound
  <2> QED
    BY <2>4 DEF Rounds!Next
<1>5. CASE Call
  <2>1. /\ Head(batch) \in Range(batch) /\ Range(batch') = Range(batch) \ {Head(batch)}
        /\ Head(batch) \in current
        /\ last' = Head(batch) /\ UNCHANGED <<interest, current>>
    BY <1>5, TailLists DEF Call, IInv
  <2>2. Head(batch) \in Events
    BY <2>1 DEF IInv, TypeOK
  <2>3. Range(batch') \cap current = (Range(batch) \cap current) \ {Head(batch)}
    BY <2>1
  <2>4. Rounds!Call(Head(batch))
    BY <2>1, <2>3 DEF Rounds!Call
  <2> QED
    BY <2>2, <2>4 DEF Rounds!Next
<1>6. CASE Pass
  <2>1. /\ Range(batch') = Range(batch) \ {Head(batch)}
        /\ Head(batch) \notin current /\ UNCHANGED <<last, interest, current>>
    BY <1>6, TailLists DEF Pass, IInv
  <2>2. Range(batch') \cap current' = Range(batch) \cap current
    BY <2>1
  <2> QED
    BY <2>1, <2>2 DEF Rounds!vars
<1>7. CASE Return
  BY <1>7, EmptyLists DEF Return, Rounds!EndRound, Rounds!Next
<1>8. CASE Clean
  BY <1>8, EmptyLists DEF Clean, Rounds!Close, Rounds!Next
<1> QED
  BY <1>1, <1>2, <1>3, <1>4, <1>5, <1>6, <1>7, <1>8 DEF Next, Rounds!Next

\* epoll's buffer and select's copy of the set keep what Dispatcher promises a
\* caller whose callbacks add, remove and close: no callback of a round that is
\* over, none of an event that was not registered when the round began, and not
\* two in one round, unless a callback of the round has added the event anew.
THEOREM RoundsAreKept == Spec => ImplementsDispatcher
<1>1. Spec => Rounds!Init /\ [][Rounds!Next]_(Rounds!vars)
  BY InitRefines, NextRefines, Invariance, PTL DEF Spec
<1> QED
  BY <1>1 DEF ImplementsDispatcher, Rounds!Spec
=============================================================================
