--------------------------- MODULE LogLineProofs ----------------------------
(***************************************************************************)
(* vplog (pmf_log.c) stays inside its buffer, whatever it is given.        *)
(***************************************************************************)
EXTENDS LogLine, TLAPS

\* A number below the modulus is its own remainder.
LEMMA SmallModulo ==
  ASSUME NEW a \in Nat, NEW m \in Nat, a < m
  PROVE  a % m = a
OBVIOUS

\* Every snprintf of vplog is given room that is what is left of the buffer,
\* at least a byte: buf_size - len never wraps.
THEOREM RoomIsLeft ==
  ASSUME NEW time \in 0..31, NEW level \in Nat, NEW message \in Nat
  PROVE  LET prefix == Prefix(time, level)
         IN /\ Room(time) = BufSize - time
            /\ ~PrefixTruncated(prefix) =>
                 Room(prefix) = BufSize - prefix /\ Room(prefix) >= 1
            /\ ~MessageTruncated(prefix, message) =>
                 Room(prefix + message) \in 1..BufSize
<1>1. ASSUME NEW len \in 0..(BufSize - 1)
      PROVE  Room(len) = BufSize - len /\ Room(len) \in 1..BufSize
  <2> DEFINE m == SizeModulus
  <2>1. BufSize - len \in 1..1024 /\ BufSize = 1024
    BY DEF BufSize
  <2>2. m \in Nat /\ 1024 < m
    BY DEF SizeModulus
  <2>3. Room(len) = (BufSize - len) % m
    BY DEF Room
  <2> HIDE DEF m
  <2>4. BufSize - len \in Nat /\ BufSize - len < m
    BY <2>1, <2>2
  <2> QED
    BY <2>1, <2>2, <2>3, <2>4, SmallModulo
<1> DEFINE prefix == Prefix(time, level)
<1>2. prefix \in Nat /\ time \in 0..(BufSize - 1)
  BY DEF Prefix, BufSize
<1>3. ~PrefixTruncated(prefix) => prefix \in 0..(BufSize - 1)
  BY <1>2 DEF PrefixTruncated, BufSize
<1>4. ~MessageTruncated(prefix, message) => prefix + message \in 0..(BufSize - 1)
  <2> HIDE DEF prefix
  <2> QED
    BY <1>2, <1>3 DEF MessageTruncated, BufSize
<1> HIDE DEF prefix
<1>5. Room(time) = BufSize - time
  BY <1>1, <1>2
<1>6. ~PrefixTruncated(prefix) => Room(prefix) = BufSize - prefix /\ Room(prefix) >= 1
  <2> SUFFICES ASSUME prefix \in 0..(BufSize - 1)
               PROVE  Room(prefix) = BufSize - prefix /\ Room(prefix) >= 1
    BY <1>3
  <2>1. Room(prefix) = BufSize - prefix /\ Room(prefix) \in 1..BufSize
    BY <1>1
  <2> QED
    BY <2>1 DEF BufSize
<1>7. ~MessageTruncated(prefix, message) => Room(prefix + message) \in 1..BufSize
  BY <1>1, <1>4
<1> QED
  BY <1>5, <1>6, <1>7 DEF prefix

\* The line that is written lies in the buffer, its newline included.
THEOREM LineFits ==
  ASSUME NEW prefix \in Nat, NEW message \in Nat, NEW errno \in Nat
  PROVE  Length(prefix, message, errno) \in 1..BufSize
BY DEF Length, Truncated, MessageTruncated, PrefixTruncated, BufSize
=============================================================================
