-------------------------- MODULE ScoreboardProofs --------------------------
(***************************************************************************)
(* Proofs about Scoreboard, for any number of processes, any calls and any *)
(* width of the unsigned counters.  The invariant says how far the holder  *)
(* of the lock has come: the counters it has passed have their new value,  *)
(* the others the value of the last release.                               *)
(***************************************************************************)
EXTENDS Scoreboard, TLAPS

\* The counter f is behind process p in the visiting order of its call.
Passed(p, f) ==
  \E i \in 1..Len(Order(call[p])) :
    Order(call[p])[i] = f /\ (i < pos[p] \/ pc[p] = "unlock")

\* Where each process stands in its call.
CallInv ==
  \A p \in Procs :
    /\ pc[p] # "out" => call[p] \in Calls
    /\ InCriticalSection(p) => pos[p] \in 1..Len(Order(call[p]))

\* The registers of the process about to store are not stale.
RegInv ==
  \A p \in Procs : pc[p] = "store" =>
    /\ reg[p].own = board[Field(p)]
    /\ reg[p].src = board[Source(Field(p))]

\* What shared memory holds.
BoardInv ==
  /\ lock = 0 => board = committed
  /\ \A p \in Procs : InCriticalSection(p) =>
       \A f \in Fields :
         board[f] = IF Passed(p, f) THEN Atomic!Result(call[p], committed)[f]
                                    ELSE committed[f]

\* A scoreboard nobody is updating.
Settled(b) ==
  /\ b["active"] <= b["active_max"]
  /\ b["lq"] <= b["lq_max"]
  /\ \A f \in {"idle", "active", "lq"} : b[f] >= 0

IInv ==
  /\ TypeOK
  /\ MutualExclusion
  /\ CallInv
  /\ RegInv
  /\ BoardInv
  /\ Settled(committed)

-----------------------------------------------------------------------------
\* One call: what the code stores in a counter is what the call promises
\* (pmf_scoreboard.c:20-83 against AtomicScoreboard's Result).

\* Each branch visits at most nine counters, every one of them a counter.
LEMMA OrderType ==
  ASSUME NEW c \in Call
  PROVE  /\ Len(Order(c)) \in 1..9
         /\ 1 \in 1..Len(Order(c))
         /\ \A i \in 1..Len(Order(c)) : Order(c)[i] \in Fields
BY DEF Call, Order, SetOrder, IncOrder, Fields

\* No counter is visited twice, and a high-water mark is visited after the
\* counter it tracks.
LEMMA OrderSound ==
  ASSUME NEW c \in Call, NEW i \in 1..Len(Order(c))
  PROVE  /\ \A j \in 1..Len(Order(c)) : Order(c)[j] = Order(c)[i] => j = i
         /\ Order(c)[i] \in ArgFields => Source(Order(c)[i]) = Order(c)[i]
         /\ Order(c)[i] \notin ArgFields =>
              \E j \in 1..Len(Order(c)) : j < i /\ Order(c)[j] = Source(Order(c)[i])
<1>1. CASE c.action = "SET"
  <2>1. Order(c) = SetOrder /\ Len(Order(c)) = 9
    BY <1>1 DEF Order, SetOrder
  <2>2. i \in 1..9
    BY <2>1
  <2> QED
    BY <2>1, <2>2 DEF SetOrder, ArgFields, Fields, Source
<1>2. CASE c.action # "SET"
  <2>1. Order(c) = IncOrder /\ Len(Order(c)) = 6
    BY <1>2 DEF Order, IncOrder
  <2>2. i \in 1..6
    BY <2>1
  <2> QED
    BY <2>1, <2>2 DEF IncOrder, ArgFields, Fields, Source
<1> QED
  BY <1>1, <1>2

\* A counter the code does not visit keeps its value in the promise too.
LEMMA UnvisitedKept ==
  ASSUME NEW c \in Call, NEW b \in [Fields -> Int], NEW f \in Fields,
         \A i \in 1..Len(Order(c)) : Order(c)[i] # f
  PROVE  Atomic!Result(c, b)[f] = b[f]
<1>1. CASE c.action = "SET"
  <2>1. Order(c) = SetOrder /\ Len(Order(c)) = 9
    BY <1>1 DEF Order, SetOrder
  <2> QED
    BY <2>1 DEF SetOrder, Fields
<1>2. CASE c.action # "SET"
  <2>1. Order(c) = IncOrder /\ Len(Order(c)) = 6
    BY <1>2 DEF Order, IncOrder
  <2>2. f \in {"lq", "lq_len", "lq_max"}
    BY <2>1 DEF IncOrder, Fields
  <2> QED
    BY <1>2, <2>2 DEF Atomic!Result, Atomic!NewArgument, Atomic!ArgFields, Atomic!Fields, Fields
<1> QED
  BY <1>1, <1>2

\* Conversion to a counter's type yields an integer, never a negative one
\* for an unsigned counter.
LEMMA ConvertedType ==
  ASSUME NEW f \in Fields, NEW n \in Int
  PROVE  /\ Converted(f, n) \in Int
         /\ n % UModulus \in Nat
<1>1. n % UModulus \in 0..(UModulus - 1)
  BY UModulusAssumption
<1> QED
  BY <1>1, UModulusAssumption DEF Converted

\* The clamp of ACTION_INC is the larger of zero and the sum for a signed
\* counter, and does nothing for an unsigned one.
LEMMA IncrementedIs ==
  ASSUME NEW f \in Fields, NEW x \in Int, NEW d \in Int
  PROVE  Incremented(f, x, d) = IF f \in UnsignedFields THEN (x + d) % UModulus
                                ELSE Atomic!Larger(0, x + d)
<1>1. (x + d) % UModulus \in Nat
  BY ConvertedType
<1> QED
  BY <1>1 DEF Incremented, Converted, Atomic!Larger

\* A counter that arrives as an argument ends as NewArgument says.
LEMMA ArgumentStore ==
  ASSUME NEW c \in Call, NEW i \in 1..Len(Order(c)), NEW x \in Int, NEW y \in Int,
         Order(c)[i] \in ArgFields
  PROVE  (IF Stores(c, Order(c)[i], x, y) THEN Stored(c, Order(c)[i], x, y) ELSE x)
           = Atomic!NewArgument(c, Order(c)[i], x)
<1> DEFINE f == Order(c)[i]
<1>1. f \in Fields /\ c.arg[f] \in Int
  BY DEF Call, ArgFields
<1>2. CASE c.action = "SET"
  BY <1>1, <1>2
     DEF Stores, Stored, SetsField, Atomic!SetsField, Converted, Atomic!Converted,
         UnsignedFields, Atomic!UnsignedFields, Atomic!NewArgument
<1>3. CASE c.action # "SET"
  <2>1. c.action = "INC"
    BY <1>3 DEF Call
  <2>2. f \notin {"lq", "lq_len"}
    BY <2>1 DEF Order, IncOrder
  <2>3. f \in UnsignedFields <=> f \notin {"idle", "active"}
    BY <1>1, <2>2 DEF ArgFields, Fields, UnsignedFields
  <2>4. Stores(c, f, x, y) /\ Stored(c, f, x, y) = Incremented(f, x, c.arg[f])
    BY <1>3, <2>1 DEF Stores, Stored
  <2>5. Incremented(f, x, c.arg[f]) =
          IF f \in {"idle", "active"} THEN Atomic!Larger(0, x + c.arg[f])
                                      ELSE (x + c.arg[f]) % UModulus
    BY <1>1, <2>3, IncrementedIs
  <2> QED
    BY <1>3, <2>2, <2>4, <2>5 DEF Atomic!NewArgument
<1> QED
  BY <1>2, <1>3

\* The promise is again a scoreboard, and a settled one if the old one was.
LEMMA ResultSettled ==
  ASSUME NEW c \in Call, NEW b \in [Fields -> Int], Settled(b)
  PROVE  /\ Atomic!Result(c, b) \in [Fields -> Int]
         /\ Settled(Atomic!Result(c, b))
<1> DEFINE r == Atomic!Result(c, b)
<1>1. \A f \in ArgFields : Atomic!NewArgument(c, f, b[f]) \in Int
  <2> TAKE f \in ArgFields
  <2>1. c.arg[f] \in Int /\ b[f] \in Int /\ f \in Fields
    BY DEF Call, ArgFields
  <2>2. Converted(f, c.arg[f]) \in Int /\ (b[f] + c.arg[f]) % UModulus \in Nat
    BY <2>1, ConvertedType
  <2> QED
    BY <2>1, <2>2
       DEF Atomic!NewArgument, Atomic!Larger, Converted, Atomic!Converted,
           UnsignedFields, Atomic!UnsignedFields
<1>2. \A f \in {"idle", "active", "lq"} : Atomic!NewArgument(c, f, b[f]) >= 0
  <2> TAKE f \in {"idle", "active", "lq"}
  <2>1. c.arg[f] \in Int /\ b[f] \in Int /\ b[f] >= 0
    BY DEF Call, ArgFields, Fields, Settled
  <2> QED
    BY <2>1
       DEF Atomic!NewArgument, Atomic!Larger, Atomic!Converted,
           Atomic!UnsignedFields, Atomic!SetsField
<1>3. r["active_max"] = Atomic!Larger(b["active_max"], r["active"])
  BY DEF Atomic!Result, Atomic!Source, Fields, Atomic!Fields, Atomic!ArgFields
<1>4. r["lq_max"] = Atomic!Larger(b["lq_max"], r["lq"])
  BY DEF Atomic!Result, Atomic!NewArgument, Atomic!Larger, Atomic!Source, Settled,
         Fields, Atomic!Fields, Atomic!ArgFields
<1>5. \A f \in ArgFields : r[f] = Atomic!NewArgument(c, f, b[f])
  BY DEF Atomic!Result, ArgFields, Fields, Atomic!Fields, Atomic!ArgFields
<1>6. \A f \in Fields : r[f] \in Int
  BY <1>1, <1>3, <1>4, <1>5 DEF Atomic!Larger, ArgFields, Fields
<1>7. r \in [Fields -> Int]
  BY <1>6 DEF Atomic!Result, Fields, Atomic!Fields
<1>8. Settled(r)
  <2> HIDE DEF r
  <2> QED
    BY <1>2, <1>3, <1>4, <1>5, <1>6 DEF Settled, Atomic!Larger, ArgFields, Fields
<1> QED
  BY <1>7, <1>8

-----------------------------------------------------------------------------
\* The invariant of the processes' steps.

LEMMA CallType == \A c \in Calls : c \in Call
BY CallsAssumption

LEMMA InitInv == Init => IInv
<1> SUFFICES ASSUME Init PROVE IInv
  OBVIOUS
<1> USE DEF Init
<1>1. ZeroBoard \in [Fields -> Int] /\ Settled(ZeroBoard)
  BY DEF ZeroBoard, Settled, Fields
<1>2. TypeOK
  BY <1>1, MaxCallsAssumption DEF TypeOK, Registers
<1>3. MutualExclusion /\ CallInv /\ RegInv /\ BoardInv
  BY DEF MutualExclusion, CallInv, RegInv, BoardInv, InCriticalSection
<1> QED
  BY <1>1, <1>2, <1>3 DEF IInv

LEMMA BeginInv ==
  ASSUME IInv, NEW p \in Procs, Begin(p)
  PROVE  IInv'
<1> USE DEF Begin, IInv
<1>1. TypeOK'
  <2>1. left'[p] \in 0..MaxCalls /\ left' \in [Procs -> 0..MaxCalls]
    BY MaxCallsAssumption DEF TypeOK
  <2>2. call' \in [Procs -> Calls \cup {NoCall}]
    BY DEF TypeOK
  <2>3. pc' \in [Procs -> {"out", "spin", "load", "store", "unlock"}]
    BY DEF TypeOK
  <2> QED
    BY <2>1, <2>2, <2>3 DEF TypeOK
<1>2. \A q \in Procs : q # p => pc'[q] = pc[q] /\ call'[q] = call[q]
  BY DEF TypeOK
<1>3. pc'[p] = "spin" /\ call'[p] \in Calls /\ ~InCriticalSection(p)
  BY DEF TypeOK, InCriticalSection
<1>4. MutualExclusion'
  BY <1>2, <1>3 DEF MutualExclusion, InCriticalSection
<1>5. CallInv'
  BY <1>2, <1>3 DEF CallInv, InCriticalSection
<1>6. RegInv'
  BY <1>2, <1>3 DEF RegInv, Field
<1>7. BoardInv'
  <2>1. (lock = 0 => board = committed)'
    BY DEF BoardInv
  <2>2. ASSUME NEW q \in Procs, InCriticalSection(q)', NEW f \in Fields
        PROVE  (board[f] = IF Passed(q, f) THEN Atomic!Result(call[q], committed)[f]
                                           ELSE committed[f])'
    <3>1. q # p /\ InCriticalSection(q)
      BY <1>2, <1>3, <2>2 DEF InCriticalSection
    <3>2. Passed(q, f)' = Passed(q, f)
      BY <1>2, <3>1 DEF Passed
    <3> QED
      BY <1>2, <3>1, <3>2 DEF BoardInv
  <2> QED
    BY <2>1, <2>2 DEF BoardInv
<1> QED
  BY <1>1, <1>4, <1>5, <1>6, <1>7

LEMMA TryLockInv ==
  ASSUME IInv, NEW p \in Procs, TryLock(p)
  PROVE  IInv'
<1> USE DEF TryLock, IInv
<1>1. TypeOK'
  BY DEF TypeOK
<1>2. \A q \in Procs : ~InCriticalSection(q)
  BY DEF MutualExclusion
<1>3. \A q \in Procs : q # p => pc'[q] = pc[q] /\ pos'[q] = pos[q]
  BY DEF TypeOK
<1>4. pc'[p] = "load" /\ pos'[p] = 1 /\ call[p] \in Calls
  BY DEF TypeOK, CallInv
<1>5. MutualExclusion'
  BY <1>2, <1>3, <1>4 DEF MutualExclusion, InCriticalSection
<1>6. CallInv'
  <2>1. 1 \in 1..Len(Order(call[p]))
    <3>1. call[p] \in Call
      BY <1>4, CallType
    <3> QED
      BY <3>1, OrderType
  <2> QED
    BY <1>2, <1>3, <1>4, <2>1 DEF CallInv, InCriticalSection
<1>7. RegInv'
  BY <1>2, <1>3, <1>4 DEF RegInv, Field, InCriticalSection
<1>8. BoardInv'
  <2>1. board = committed
    BY DEF BoardInv
  <2>2. \A f \in Fields : ~Passed(p, f)'
    BY <1>4, CallType, OrderType DEF Passed
  <2>3. \A q \in Procs : InCriticalSection(q)' => q = p
    BY <1>2, <1>3 DEF InCriticalSection
  <2> QED
    BY <2>1, <2>2, <2>3 DEF BoardInv
<1> QED
  BY <1>1, <1>5, <1>6, <1>7, <1>8

LEMMA LoadInv ==
  ASSUME IInv, NEW p \in Procs, Load(p)
  PROVE  IInv'
<1> USE DEF Load, IInv
<1>1. Field(p) \in Fields /\ Source(Field(p)) \in Fields
  BY CallType, OrderType DEF Field, CallInv, InCriticalSection, Source, Fields
<1>2. TypeOK'
  BY <1>1 DEF TypeOK, Registers
<1>3. \A q \in Procs : InCriticalSection(q)' <=> InCriticalSection(q)
  BY DEF TypeOK, InCriticalSection
<1>4. \A q \in Procs : q # p => pc'[q] = pc[q] /\ reg'[q] = reg[q]
  BY DEF TypeOK
<1>5. pc'[p] = "store" /\ reg'[p] = [own |-> board[Field(p)],
                                     src |-> board[Source(Field(p))]]
  BY DEF TypeOK
<1>6. MutualExclusion'
  BY <1>3 DEF MutualExclusion
<1>7. CallInv'
  BY <1>3, <1>4 DEF CallInv, InCriticalSection
<1>8. RegInv'
  BY <1>4, <1>5 DEF RegInv, Field
<1>9. BoardInv'
  <2>1. \A q \in Procs, f \in Fields :
          InCriticalSection(q) => (Passed(q, f)' <=> Passed(q, f))
    BY <1>4, <1>5 DEF Passed
  <2> QED
    BY <1>3, <2>1 DEF BoardInv
<1> QED
  BY <1>2, <1>6, <1>7, <1>8, <1>9

\* The store is the step that needs all of the invariant: what it writes is
\* the promised value because the counter it writes still holds the committed
\* one and the counter it was compared with already holds the promised one.
LEMMA StoreValue ==
  ASSUME IInv, NEW p \in Procs, Store(p)
  PROVE  LET f == Field(p)
             new == Atomic!Result(call[p], committed)[f]
         IN  /\ f \in Fields
             /\ new \in Int
             /\ board' = [board EXCEPT ![f] = new]
             /\ f \notin ArgFields => new >= board[f]
<1> DEFINE c == call[p]
           i == pos[p]
           f == Field(p)
           r == Atomic!Result(c, committed)
<1>1. /\ c \in Call
      /\ i \in 1..Len(Order(c))
      /\ pc[p] = "store"
      /\ InCriticalSection(p)
  BY CallType DEF Store, IInv, CallInv, InCriticalSection
<1>2. f = Order(c)[i] /\ f \in Fields /\ Source(f) \in Fields
  BY <1>1, OrderType DEF Field, Source, Fields
<1>3. committed \in [Fields -> Int] /\ board \in [Fields -> Int] /\ Settled(committed)
  BY DEF IInv, TypeOK
<1>4. r \in [Fields -> Int]
  BY <1>1, <1>3, ResultSettled
<1>5. reg[p].own = board[f] /\ reg[p].src = board[Source(f)]
  BY <1>1 DEF IInv, RegInv
<1>6. board[f] = committed[f]
  <2>1. ~Passed(p, f)
    BY <1>1, <1>2, OrderSound, OrderType DEF Passed
  <2> QED
    BY <1>1, <1>2, <2>1 DEF IInv, BoardInv
<1>7. board' = IF Stores(c, f, board[f], board[Source(f)])
                 THEN [board EXCEPT ![f] = Stored(c, f, board[f], board[Source(f)])]
                 ELSE board
  BY <1>5 DEF Store
<1>8. CASE f \in ArgFields
  <2>1. r[f] = Atomic!NewArgument(c, f, committed[f])
    BY <1>2, <1>8 DEF Atomic!Result, Atomic!ArgFields, Atomic!Fields, ArgFields, Fields
  <2>2. (IF Stores(c, f, board[f], board[Source(f)])
           THEN Stored(c, f, board[f], board[Source(f)]) ELSE board[f]) = r[f]
    BY <1>1, <1>2, <1>3, <1>6, <1>8, <2>1, ArgumentStore
  <2> HIDE DEF c, f, r
  <2>3. board' = [board EXCEPT ![f] = r[f]]
    BY <1>2, <1>3, <1>7, <2>2
  <2> QED
    BY <1>2, <1>4, <1>8, <2>3 DEF c, f, r
<1>9. CASE f \notin ArgFields
  <2>1. board[Source(f)] = r[Source(f)]
    <3>1. Passed(p, Source(f))
      BY <1>1, <1>2, <1>9, OrderSound DEF Passed
    <3> QED
      BY <1>1, <1>2, <3>1 DEF IInv, BoardInv
  <2>2. r[f] = Atomic!Larger(committed[f], r[Source(f)])
    <3>1. f = "lq_max" => c.action = "SET"
      BY <1>1, <1>2 DEF Order, IncOrder
    <3>2. Source(f) \in ArgFields /\ f \in Fields
      BY <1>2, <1>9 DEF Source, ArgFields, Fields
    <3> QED
      BY <1>9, <3>1, <3>2
         DEF Atomic!Result, Atomic!Source, Source, ArgFields, Fields,
             Atomic!ArgFields, Atomic!Fields
  <2>3. Stores(c, f, board[f], board[Source(f)]) <=> board[Source(f)] > board[f]
    BY <1>9 DEF Stores
  <2>4. Stored(c, f, board[f], board[Source(f)]) = board[Source(f)]
    BY <1>9 DEF Stored
  <2> HIDE DEF c, f, r
  <2>5. r[f] = IF board[Source(f)] > board[f] THEN board[Source(f)] ELSE board[f]
    BY <1>6, <2>1, <2>2 DEF Atomic!Larger
  <2>6. r[f] >= board[f]
    BY <1>2, <1>3, <2>5
  <2>7. board' = [board EXCEPT ![f] = r[f]]
    <3>1. CASE board[Source(f)] > board[f]
      BY <1>7, <2>3, <2>4, <2>5, <3>1
    <3>2. CASE ~(board[Source(f)] > board[f])
      BY <1>2, <1>3, <1>7, <2>3, <2>5, <3>2
    <3> QED
      BY <3>1, <3>2
  <2> QED
    BY <1>2, <1>4, <2>6, <2>7 DEF c, f, r
<1> QED
  BY <1>8, <1>9

LEMMA StoreInv ==
  ASSUME IInv, NEW p \in Procs, Store(p)
  PROVE  IInv'
<1> DEFINE c == call[p]
           f == Field(p)
           r == Atomic!Result(c, committed)
<1>1. /\ f \in Fields
      /\ r[f] \in Int
      /\ board' = [board EXCEPT ![f] = r[f]]
  BY StoreValue
<1>2. /\ c \in Call
      /\ pos[p] \in 1..Len(Order(c))
      /\ f = Order(c)[pos[p]]
      /\ pc[p] = "store"
      /\ InCriticalSection(p)
  BY CallType DEF Store, IInv, CallInv, InCriticalSection, Field
<1>3. UNCHANGED <<lock, call, reg, alive, left, committed>>
  BY DEF Store
<1>4. /\ pos[p] < Len(Order(c)) => pc'[p] = "load" /\ pos'[p] = pos[p] + 1
      /\ ~(pos[p] < Len(Order(c))) => pc'[p] = "unlock" /\ pos'[p] = pos[p]
      /\ \A q \in Procs : q # p => pc'[q] = pc[q] /\ pos'[q] = pos[q]
  BY DEF Store, IInv, TypeOK
<1>5. Len(Order(c)) \in 1..9
  BY <1>2, OrderType
<1>6. TypeOK'
  <2>1. board' \in [Fields -> Int]
    BY <1>1 DEF IInv, TypeOK
  <2>2. pc' \in [Procs -> {"out", "spin", "load", "store", "unlock"}]
    BY DEF Store, IInv, TypeOK
  <2>3. pos' \in [Procs -> 1..9]
    <3>1. CASE pos[p] < Len(Order(c))
      <4>1. pos[p] + 1 \in 1..9
        <5>1. PICK n \in 1..9 : n = Len(Order(c))
          BY <1>5
        <5>2. pos[p] \in 1..n /\ pos[p] < n
          BY <1>2, <3>1, <5>1
        <5> QED
          BY <5>2
      <4> QED
        BY <3>1, <4>1 DEF Store, IInv, TypeOK
    <3>2. CASE ~(pos[p] < Len(Order(c)))
      BY <3>2 DEF Store, IInv, TypeOK
    <3> QED
      BY <3>1, <3>2
  <2> QED
    BY <1>3, <2>1, <2>2, <2>3 DEF IInv, TypeOK
<1>7. \A q \in Procs : q # p => ~InCriticalSection(q) /\ pc'[q] = pc[q]
  BY <1>2, <1>4 DEF IInv, MutualExclusion
<1>8. pc'[p] \in {"load", "unlock"}
  BY <1>4
<1>9. MutualExclusion'
  BY <1>2, <1>3, <1>7, <1>8 DEF IInv, MutualExclusion, InCriticalSection
<1>10. CallInv'
  <2>1. pos'[p] \in 1..Len(Order(c))
    BY <1>2, <1>4, <1>5
  <2>2. c \in Calls
    BY <1>2 DEF IInv, CallInv
  <2> QED
    BY <1>3, <1>7, <2>1, <2>2 DEF IInv, CallInv, InCriticalSection
<1>11. RegInv'
  BY <1>7, <1>8 DEF RegInv, InCriticalSection
<1>12. BoardInv'
  <2>1. lock' # 0
    BY <1>2, <1>3 DEF IInv, MutualExclusion, TypeOK
  <2>2. ASSUME NEW g \in Fields
        PROVE  board'[g] = IF Passed(p, g)' THEN r[g] ELSE committed[g]
    <3>1. CASE g = f
      <4>1. Passed(p, g)'
        BY <1>2, <1>3, <1>4, <3>1 DEF Passed
      <4> QED
        BY <1>1, <3>1, <4>1 DEF IInv, TypeOK
    <3>2. CASE g # f
      <4>1. Passed(p, g)' <=> Passed(p, g)
        <5>1. CASE pos[p] < Len(Order(c))
          BY <1>2, <1>3, <1>4, <3>2, <5>1 DEF Passed
        <5>2. CASE ~(pos[p] < Len(Order(c)))
          BY <1>2, <1>3, <1>4, <1>5, <3>2, <5>2 DEF Passed
        <5> QED
          BY <5>1, <5>2
      <4>2. board'[g] = board[g]
        BY <1>1, <3>2 DEF IInv, TypeOK
      <4> QED
        BY <1>2, <4>1, <4>2 DEF IInv, BoardInv
    <3> QED
      BY <3>1, <3>2
  <2> QED
    BY <1>3, <1>7, <2>1, <2>2 DEF BoardInv, InCriticalSection
<1> QED
  BY <1>3, <1>6, <1>9, <1>10, <1>11, <1>12 DEF IInv

\* At the release everything promised has been stored.
LEMMA ReleaseValue ==
  ASSUME IInv, NEW p \in Procs, pc[p] = "unlock"
  PROVE  /\ call[p] \in Calls
         /\ board = Atomic!Result(call[p], committed)
<1>1. InCriticalSection(p) /\ call[p] \in Calls /\ call[p] \in Call
  BY CallType DEF IInv, CallInv, InCriticalSection
<1>2. committed \in [Fields -> Int] /\ board \in [Fields -> Int] /\ Settled(committed)
  BY DEF IInv, TypeOK
<1>3. Atomic!Result(call[p], committed) \in [Fields -> Int]
  BY <1>1, <1>2, ResultSettled
<1>4. ASSUME NEW f \in Fields
      PROVE  board[f] = Atomic!Result(call[p], committed)[f]
  <2>1. CASE Passed(p, f)
    BY <1>1, <2>1 DEF IInv, BoardInv
  <2>2. CASE ~Passed(p, f)
    <3>1. \A i \in 1..Len(Order(call[p])) : Order(call[p])[i] # f
      BY <2>2 DEF Passed
    <3>2. Atomic!Result(call[p], committed)[f] = committed[f]
      BY <1>1, <1>2, <3>1, UnvisitedKept
    <3> QED
      BY <1>1, <2>2, <3>2 DEF IInv, BoardInv
  <2> QED
    BY <2>1, <2>2
<1> QED
  BY <1>1, <1>2, <1>3, <1>4

LEMMA UnlockInv ==
  ASSUME IInv, NEW p \in Procs, Unlock(p)
  PROVE  IInv'
<1>1. committed' = board /\ board' = board /\ lock' = 0
  BY DEF Unlock
<1>2. TypeOK'
  BY DEF Unlock, IInv, TypeOK
<1>3. \A q \in Procs : ~InCriticalSection(q)'
  BY DEF Unlock, IInv, MutualExclusion, TypeOK, InCriticalSection
<1>4. MutualExclusion'
  BY <1>1, <1>3 DEF MutualExclusion
<1>5. CallInv' /\ RegInv'
  <2>1. \A q \in Procs : pc'[q] # "out" => pc[q] # "out" /\ call'[q] = call[q]
    BY DEF Unlock, IInv, TypeOK
  <2> QED
    BY <1>3, <2>1 DEF IInv, CallInv, RegInv, InCriticalSection
<1>6. BoardInv'
  BY <1>1, <1>3 DEF BoardInv
<1>7. Settled(committed)'
  <2>1. pc[p] = "unlock"
    BY DEF Unlock
  <2>2. call[p] \in Call /\ board = Atomic!Result(call[p], committed)
    BY <2>1, ReleaseValue, CallType
  <2>3. Settled(board)
    BY <2>2, ResultSettled DEF IInv, TypeOK
  <2> QED
    BY <1>1, <2>3 DEF Settled
<1> QED
  BY <1>2, <1>4, <1>5, <1>6, <1>7 DEF IInv

LEMMA NextInv == IInv /\ [Next]_vars => IInv'
<1> SUFFICES ASSUME IInv, [Next]_vars
             PROVE  IInv'
  OBVIOUS
<1>1. ASSUME UNCHANGED <<lock, board, pc, call, pos, reg, committed>>,
             alive' \subseteq Procs, left' \in [Procs -> 0..MaxCalls]
      PROVE  IInv'
  <2>1. TypeOK'
    BY <1>1 DEF IInv, TypeOK
  <2>2. MutualExclusion' /\ CallInv' /\ RegInv' /\ BoardInv' /\ Settled(committed)'
    BY <1>1 DEF IInv, MutualExclusion, CallInv, RegInv, BoardInv,
                InCriticalSection, Field, Passed, Settled
  <2> QED
    BY <2>1, <2>2 DEF IInv
<1>2. CASE UNCHANGED vars
  BY <1>1, <1>2 DEF vars, IInv, TypeOK
<1>3. ASSUME NEW p \in Procs, BeginWithoutScoreboard(p)
      PROVE  IInv'
  <2>1. left' \in [Procs -> 0..MaxCalls]
    BY <1>3, MaxCallsAssumption DEF BeginWithoutScoreboard, IInv, TypeOK
  <2> QED
    BY <1>1, <1>3, <2>1 DEF BeginWithoutScoreboard, IInv, TypeOK
<1>4. ASSUME NEW p \in Procs, Kill(p)
      PROVE  IInv'
  BY <1>1, <1>4 DEF Kill, IInv, TypeOK
<1> QED
  BY <1>2, <1>3, <1>4, BeginInv, TryLockInv, LoadInv, StoreInv, UnlockInv
     DEF Next, Step

LEMMA Invariance == Spec => []IInv
BY InitInv, NextInv, PTL DEF Spec

-----------------------------------------------------------------------------
\* The variables keep their types.
THEOREM TypeCorrect == Spec => []TypeOK
<1>1. IInv => TypeOK
  BY DEF IInv
<1> QED
  BY <1>1, Invariance, PTL

\* pmf_spinlock and pmf_unlock exclude, for any number of processes and
\* whichever of them are killed.
THEOREM Exclusion == Spec => []MutualExclusion
<1>1. IInv => MutualExclusion
  BY DEF IInv
<1> QED
  BY <1>1, Invariance, PTL

\* With the lock free the high-water marks cover what they track.
THEOREM MaximaCover == Spec => []MaximaCoverWhenFree
<1>1. IInv => MaximaCoverWhenFree
  BY DEF IInv, BoardInv, Settled, MaximaCoverWhenFree
<1> QED
  BY <1>1, Invariance, PTL

\* The signed counters stay non-negative, even in the middle of an update.
THEOREM CountersNonNegative == Spec => []NeverNegative
<1>1. ASSUME IInv PROVE NeverNegative
  <2>1. CASE lock = 0
    BY <1>1, <2>1 DEF IInv, BoardInv, Settled, NeverNegative
  <2>2. CASE lock = 1
    <3>1. PICK p \in Procs : InCriticalSection(p)
      BY <1>1, <2>2 DEF IInv, MutualExclusion
    <3>2. call[p] \in Call
      BY <1>1, <3>1, CallType DEF IInv, CallInv, InCriticalSection
    <3>3. Settled(committed) /\ Settled(Atomic!Result(call[p], committed))
      BY <1>1, <3>2, ResultSettled DEF IInv, TypeOK
    <3> QED
      BY <1>1, <3>1, <3>3 DEF IInv, BoardInv, Settled, NeverNegative, Fields
  <2> QED
    BY <1>1, <2>1, <2>2 DEF IInv, TypeOK
<1> QED
  BY <1>1, Invariance, PTL

\* A high-water mark never comes down.
THEOREM MaximaMonotone == Spec => HighWaterMonotone
<1>1. ASSUME IInv, [Next]_vars
      PROVE  [/\ board'["active_max"] >= board["active_max"]
              /\ board'["lq_max"] >= board["lq_max"]]_board
  <2>1. \A f \in Fields : board[f] \in Int
    BY <1>1 DEF IInv, TypeOK
  <2>2. ASSUME NEW p \in Procs, Store(p), NEW m \in {"active_max", "lq_max"}
        PROVE  board'[m] >= board[m]
    <3>1. m \in Fields /\ m \notin ArgFields
      BY DEF Fields, ArgFields
    <3> QED
      BY <1>1, <2>1, <2>2, <3>1, StoreValue DEF IInv, TypeOK
  <2> QED
    BY <1>1, <2>2
       DEF Next, Step, vars, Begin, BeginWithoutScoreboard, TryLock, Load, Unlock, Kill
<1> QED
  BY <1>1, Invariance, PTL DEF Spec, HighWaterMonotone

\* After the death of the lock's holder nothing happens to the scoreboard.
THEOREM OrphanedIsFrozen == Spec => FrozenOnceOrphaned
<1>1. ASSUME IInv, [Next]_vars
      PROVE  [Orphaned => Orphaned' /\ UNCHANGED <<lock, board, committed>>]_vars
  <2> SUFFICES ASSUME Orphaned, Next
               PROVE  Orphaned' /\ UNCHANGED <<lock, board, committed>>
    BY <1>1
  <2>1. PICK d \in Procs \ alive : InCriticalSection(d)
    BY DEF Orphaned
  <2>2. lock = 1 /\ \A p \in alive : ~InCriticalSection(p)
    BY <1>1, <2>1 DEF IInv, MutualExclusion, TypeOK
  <2>3. PICK p \in Procs : Begin(p) \/ BeginWithoutScoreboard(p) \/ Step(p) \/ Kill(p)
    BY DEF Next
  <2>4. ~Step(p)
    BY <2>2 DEF Step, TryLock, Load, Store, Unlock, InCriticalSection
  <2>5. pc'[d] = pc[d] /\ alive' \subseteq alive
    BY <1>1, <2>1, <2>3, <2>4
       DEF Begin, BeginWithoutScoreboard, Kill, IInv, TypeOK
  <2>6. d \in Procs \ alive' /\ InCriticalSection(d)'
    BY <2>1, <2>5 DEF InCriticalSection
  <2> QED
    BY <2>3, <2>4, <2>6 DEF Begin, BeginWithoutScoreboard, Kill, Orphaned
<1> QED
  BY <1>1, Invariance, PTL DEF Spec, FrozenOnceOrphaned

\* pmf_scoreboard_update is atomic: Scoreboard implements AtomicScoreboard.
THEOREM UpdateIsAtomic == Spec => ImplementsAtomic
<1> DEFINE pend == [p \in Procs |-> IF pc[p] = "out" THEN NoCall ELSE call[p]]
<1>1. Init => Atomic!Init
  BY DEF Init, Atomic!Init, ZeroBoard, Atomic!ZeroBoard, Fields, Atomic!Fields
<1>2. ASSUME IInv, [Next]_vars
      PROVE  [Atomic!Next]_(Atomic!vars)
  <2>1. ASSUME NEW p \in Procs, Begin(p)
        PROVE  Atomic!Begin(p)
    <3>1. p \in alive /\ pend[p] = NoCall
      BY <2>1 DEF Begin
    <3>2. PICK c \in Calls : call' = [call EXCEPT ![p] = c]
      BY <2>1 DEF Begin
    <3>3. pend' = [pend EXCEPT ![p] = c]
      BY <1>2, <2>1, <3>2 DEF Begin, IInv, TypeOK
    <3> QED
      BY <2>1, <3>1, <3>3 DEF Begin, Atomic!Begin
  <2>2. ASSUME NEW p \in Procs, Unlock(p)
        PROVE  Atomic!Return(p)
    <3>1. pend[p] = call[p] /\ p \in alive /\ pc[p] = "unlock"
      BY <2>2 DEF Unlock
    <3>2. call[p] \in Calls /\ committed' = Atomic!Result(call[p], committed)
      BY <1>2, <2>2, <3>1, ReleaseValue DEF Unlock
    <3>3. pend[p] # NoCall
      BY <3>1, <3>2, NoCallAssumption
    <3>4. pend' = [pend EXCEPT ![p] = NoCall]
      BY <1>2, <2>2 DEF Unlock, IInv, TypeOK
    <3> QED
      BY <2>2, <3>1, <3>2, <3>3, <3>4 DEF Unlock, Atomic!Return
  <2>3. ASSUME NEW p \in Procs, Kill(p)
        PROVE  Atomic!Kill(p)
    BY <2>3 DEF Kill, Atomic!Kill
  <2>4. ASSUME NEW p \in Procs, TryLock(p) \/ Load(p) \/ Store(p)
        PROVE  UNCHANGED Atomic!vars
    <3>1. UNCHANGED <<call, alive, committed>>
      BY <2>4 DEF TryLock, Load, Store
    <3>2. \A q \in Procs : pc'[q] = "out" <=> pc[q] = "out"
      BY <1>2, <2>4 DEF TryLock, Load, Store, IInv, TypeOK
    <3> QED
      BY <3>1, <3>2 DEF Atomic!vars
  <2>5. ASSUME NEW p \in Procs, BeginWithoutScoreboard(p)
        PROVE  UNCHANGED Atomic!vars
    BY <2>5 DEF BeginWithoutScoreboard, Atomic!vars
  <2>6. CASE UNCHANGED vars
    BY <2>6 DEF vars, Atomic!vars
  <2> QED
    BY <1>2, <2>1, <2>2, <2>3, <2>4, <2>5, <2>6 DEF Next, Step, Atomic!Next
<1> QED
  BY <1>1, <1>2, Invariance, PTL DEF Spec, ImplementsAtomic, Atomic!Spec
=============================================================================
