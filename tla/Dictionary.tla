----------------------------- MODULE Dictionary -----------------------------
(***************************************************************************)
(* The dictionary of lib/iniparser (dictionary.c): parallel arrays of      *)
(* keys, values and hashes, searched from slot 0, filled from slot n.  The *)
(* operators are the library's functions; an allocation that may fail      *)
(* makes an outcome one of several.                                        *)
(***************************************************************************)
EXTENDS Integers, FiniteSets, FiniteSetsExt

CONSTANTS
  Null,       \* a null pointer
  Hash(_),    \* dictionary_hash
  MinSize     \* DICTMINSZ

ASSUME MinSizeAssumption == MinSize \in Nat \ {0}

\* dictionary_new: zeroed arrays.
Empty == [n |-> 0, size |-> MinSize,
          key  |-> [i \in 0..(MinSize - 1) |-> Null],
          val  |-> [i \in 0..(MinSize - 1) |-> Null],
          hash |-> [i \in 0..(MinSize - 1) |-> 0]]

Slots(d) == 0..(d.size - 1)
Used(d) == {i \in Slots(d) : d.key[i] # Null}
Keys(d) == {d.key[i] : i \in Used(d)}

\* Slip: a hash that agrees is taken for the key.
PlacesByHash(d, k) == {i \in Used(d) : d.hash[i] = Hash(k)}

\* Where the searches stop: the hash agrees, and then the key.
Places(d, k) == {i \in Used(d) : d.hash[i] = Hash(k) /\ d.key[i] = k}

\* dictionary_get.
Get(d, k, def) == IF Places(d, k) = {} THEN def ELSE d.val[Min(Places(d, k))]

\* Slip: the values stay in the old array.
GrownKeysOnly(d) ==
  [d EXCEPT !.size = 2 * @,
            !.key = [i \in 0..(2 * d.size - 1) |-> IF i < d.size THEN @[i] ELSE Null],
            !.hash = [i \in 0..(2 * d.size - 1) |-> IF i < d.size THEN @[i] ELSE 0]]

\* dictionary_grow when its allocations succeed.
Grown(d) ==
  LET Extended(a, zero) ==
        [i \in 0..(2 * d.size - 1) |-> IF i < d.size THEN a[i] ELSE zero]
  IN [d EXCEPT !.size = 2 * @, !.key = Extended(@, Null),
               !.val = Extended(@, Null), !.hash = Extended(@, 0)]

\* Slip: the search runs down from the end.
InsertSlotDown(d) == Max(Slots(d) \ Used(d))

\* The first empty slot from n on, around the end of the arrays.
InsertSlot(d) ==
  LET vacant == Slots(d) \ Used(d)
      beyond == {i \in vacant : i >= d.n}
  IN Min(IF beyond # {} THEN beyond ELSE vacant)

\* Slip: n is not counted up.
InsertedUncounted(d, k, stored, v) ==
  LET i == InsertSlot(d)
  IN [d EXCEPT !.key[i] = stored, !.val[i] = v, !.hash[i] = Hash(k)]

\* The new entry; "stored" is the copy of the key that was made, or Null.
Inserted(d, k, stored, v) ==
  LET i == InsertSlot(d)
  IN [d EXCEPT !.key[i] = stored, !.val[i] = v, !.hash[i] = Hash(k), !.n = @ + 1]

\* dictionary_set: the dictionary it may leave and what it may return.  Only
\* the failure of dictionary_grow is reported; a copy that fails is stored.
Set(d, k, v, oom) ==
  LET Copies(s) == IF oom THEN {s, Null} ELSE {s}
      room      == IF d.n = d.size THEN Grown(d) ELSE d
  IN IF d.n > 0 /\ Places(d, k) # {}
       THEN {[dict |-> [d EXCEPT !.val[Min(Places(d, k))] = w], ret |-> 0] :
               w \in Copies(v)}
       ELSE {[dict |-> Inserted(room, k, stored, w), ret |-> 0] :
               stored \in Copies(k), w \in Copies(v)}
            \cup {[dict |-> d, ret |-> -1] : x \in {y \in {oom} : y /\ d.n = d.size}}

\* dictionary_unset.
Unset(d, k) ==
  IF Places(d, k) = {} THEN d
  ELSE LET i == Min(Places(d, k))
       IN [d EXCEPT !.key[i] = Null, !.val[i] = Null, !.hash[i] = 0, !.n = @ - 1]

-----------------------------------------------------------------------------
\* iniparser.c.  A key is the sequence of the words between its colons.

\* iniparser_getnsec, iniparser_getsecname: the keys without a colon, in the
\* order of their slots.
SectionSlots(d) == {i \in Used(d) : Cardinality(DOMAIN d.key[i]) = 1}
getnsec(d) == Cardinality(SectionSlots(d))
getsecname(d, n) ==
  IF n \notin 0..(getnsec(d) - 1) THEN Null
  ELSE d.key[CHOOSE i \in SectionSlots(d) :
               Cardinality({j \in SectionSlots(d) : j < i}) = n]
=============================================================================
