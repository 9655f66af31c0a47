--------------------------- MODULE IniFileProofs ----------------------------
(***************************************************************************)
(* Proofs about the dictionary of lib/iniparser and its use, for any files *)
(* and any hashes: the arrays are a map, however they grew, whatever was   *)
(* unset and whatever allocation failed.                                   *)
(***************************************************************************)
EXTENDS IniFile, FiniteSetTheorems, SequenceTheorems, WellFoundedInduction, TLAPS

\* A dictionary on its own: the parts of WellFormed, and n is never behind.
IsDict(d) ==
  /\ d = [n |-> d.n, size |-> d.size, key |-> d.key, val |-> d.val, hash |-> d.hash]
  /\ d.n \in Nat /\ d.size \in Nat \ {0} /\ d.n <= d.size /\ MinSize <= d.size
  /\ DOMAIN d.key = Slots(d) /\ DOMAIN d.val = Slots(d) /\ DOMAIN d.hash = Slots(d)
  /\ Cardinality(Used(d)) <= d.n
  /\ \A i, j \in Used(d) : d.key[i] = d.key[j] => i = j
  /\ \A i \in Used(d) : d.hash[i] = Hash(d.key[i])

\* The map a dictionary stands for.
MapOf(d) == [k \in Keys(d) |-> Get(d, k, Null)]

-----------------------------------------------------------------------------
\* The least element of a set of natural numbers.
LEMMA LeastExists ==
  ASSUME NEW S \in SUBSET Nat, S # {}
  PROVE  \E m \in S : \A x \in S : m <= x
<1> DEFINE R == {ss \in Nat \X Nat : ss[1] < ss[2]}
<1>1. R = OpToRel(<, Nat)
  BY Zenon DEF OpToRel
<1>2. IsWellFoundedOn(R, Nat)
  BY <1>1, NatLessThanWellFounded
<1>3. \A x, y \in Nat : ~(<<x, y>> \in R) => y <= x
  OBVIOUS
<1> HIDE DEF R
<1>4. PICK m \in S : \A y \in S : ~(<<y, m>> \in R)
  BY <1>2, WFMin
<1>5. ASSUME NEW y \in S
      PROVE  m <= y
  <2>1. m \in Nat /\ y \in Nat
    OBVIOUS
  <2> QED
    BY <1>3, <1>4, <2>1
<1> QED
  BY <1>5

LEMMA LeastIsMin ==
  ASSUME NEW S \in SUBSET Nat, NEW m \in S, \A x \in S : m <= x
  PROVE  Min(S) = m
<1>1. m \in S /\ \A y \in S : m <= y
  OBVIOUS
<1>2. ASSUME NEW x \in S, \A y \in S : x <= y
      PROVE  x = m
  <2>1. x <= m /\ m <= x /\ x \in Int /\ m \in Int
    BY <1>1, <1>2
  <2> QED
    BY <2>1
<1> QED
  BY <1>1, <1>2, Zenon DEF Min

LEMMA MinIsLeast ==
  ASSUME NEW S \in SUBSET Nat, S # {}
  PROVE  Min(S) \in S /\ \A x \in S : Min(S) <= x
<1>1. PICK m \in S : \A x \in S : m <= x
  BY LeastExists
<1>2. Min(S) = m
  BY <1>1, LeastIsMin
<1> QED
  BY <1>1, <1>2

-----------------------------------------------------------------------------
\* The searches.
LEMMA UsedIsFinite ==
  ASSUME NEW d, IsDict(d)
  PROVE  /\ Used(d) \subseteq Slots(d) /\ Slots(d) \subseteq Nat
         /\ IsFiniteSet(Slots(d)) /\ Cardinality(Slots(d)) = d.size
         /\ IsFiniteSet(Used(d)) /\ Cardinality(Used(d)) \in Nat
<1>1. d.size \in Nat \ {0} /\ Slots(d) = 0..(d.size - 1)
  BY DEF IsDict, Slots
<1>2. IsFiniteSet(Slots(d)) /\ Cardinality(Slots(d)) = d.size
  BY <1>1, FS_Interval
<1>3. Used(d) \subseteq Slots(d)
  BY DEF Used
<1> QED
  BY <1>1, <1>2, <1>3, FS_Subset, FS_CardinalityType

\* A key is found in its slot, whatever other keys have its hash.
LEMMA OnePlace ==
  ASSUME NEW d, IsDict(d), NEW i \in Used(d)
  PROVE  /\ Places(d, d.key[i]) = {i} /\ Min(Places(d, d.key[i])) = i
         /\ \A def : Get(d, d.key[i], def) = d.val[i]
<1>1. Places(d, d.key[i]) = {i}
  BY DEF IsDict, Places
<1>2. {i} \in SUBSET Nat
  BY UsedIsFinite
<1>3. Min({i}) = i
  BY <1>2, LeastIsMin
<1> QED
  BY <1>1, <1>3 DEF Get

LEMMA NoPlace ==
  ASSUME NEW d, IsDict(d), NEW k
  PROVE  Places(d, k) = {} <=> k \notin Keys(d)
<1>1. k \notin Keys(d) => Places(d, k) = {}
  BY DEF Places, Keys
<1>2. ASSUME k \in Keys(d)
      PROVE  Places(d, k) # {}
  <2>1. PICK i \in Used(d) : d.key[i] = k
    BY <1>2 DEF Keys
  <2>2. Places(d, k) = {i}
    BY <2>1, OnePlace
  <2> QED
    BY <2>2
<1> QED
  BY <1>1, <1>2

LEMMA ValueOfKey ==
  ASSUME NEW d, IsDict(d)
  PROVE  /\ DOMAIN MapOf(d) = Keys(d)
         /\ \A i \in Used(d) : d.key[i] \in Keys(d) /\ MapOf(d)[d.key[i]] = d.val[i]
BY OnePlace DEF MapOf, Keys

\* A dictionary's map, from what its used slots hold.
LEMMA MapIs ==
  ASSUME NEW d, IsDict(d), NEW K, NEW f, f = [k \in K |-> f[k]], K = Keys(d),
         \A i \in Used(d) : f[d.key[i]] = d.val[i]
  PROVE  MapOf(d) = f
<1>1. ASSUME NEW k \in Keys(d)
      PROVE  Get(d, k, Null) = f[k]
  <2>1. PICK i \in Used(d) : d.key[i] = k
    BY DEF Keys
  <2> QED
    BY <2>1, OnePlace
<1> QED
  BY <1>1 DEF MapOf

\* dictionary.c:290: the search for an empty slot ends as long as n < size.
LEMMA VacantSlot ==
  ASSUME NEW d, IsDict(d), d.n < d.size
  PROVE  InsertSlot(d) \in Slots(d) \ Used(d)
<1> DEFINE vacant == Slots(d) \ Used(d)
           beyond == {i \in vacant : i >= d.n}
<1>1. vacant # {}
  <2>1. Used(d) # Slots(d)
    <3>1. Cardinality(Used(d)) <= d.n /\ d.n \in Nat /\ d.size \in Nat
      BY DEF IsDict
    <3> QED
      BY <3>1, UsedIsFinite
  <2> QED
    BY <2>1, UsedIsFinite
<1>2. vacant \in SUBSET Nat /\ beyond \in SUBSET Nat /\ beyond \subseteq vacant
  BY UsedIsFinite
<1>3. InsertSlot(d) = IF beyond # {} THEN Min(beyond) ELSE Min(vacant)
  BY DEF InsertSlot
<1> HIDE DEF vacant, beyond
<1>4. (beyond # {} => Min(beyond) \in beyond) /\ Min(vacant) \in vacant
  BY <1>1, <1>2, MinIsLeast
<1>5. InsertSlot(d) \in vacant
  BY <1>2, <1>3, <1>4
<1> QED
  BY <1>5 DEF vacant

-----------------------------------------------------------------------------
\* The updates.

\* The value of a key that is there is replaced.
LEMMA ReplacedIs ==
  ASSUME NEW d, IsDict(d), NEW i \in Used(d), NEW w,
         NEW e, e = [d EXCEPT !.val[i] = w]
  PROVE  /\ IsDict(e) /\ Keys(e) = Keys(d) /\ e.n = d.n
         /\ MapOf(e) = Map!Bound(MapOf(d), d.key[i], w)
<1>1. /\ e.n = d.n /\ e.size = d.size /\ e.key = d.key /\ e.hash = d.hash
      /\ DOMAIN e.val = DOMAIN d.val
      /\ DOMAIN e = {"n", "size", "key", "val", "hash"}
  BY DEF IsDict
<1>2. i \in DOMAIN d.val
  BY DEF IsDict, Used
<1>3. e.val[i] = w /\ \A j \in DOMAIN d.val \ {i} : e.val[j] = d.val[j]
  BY <1>2 DEF IsDict
<1>4. e = [n |-> e.n, size |-> e.size, key |-> e.key, val |-> e.val, hash |-> e.hash]
  <2>1. e = [x \in DOMAIN d |-> e[x]]
    OBVIOUS
  <2> QED
    BY <1>1, <2>1
<1>5. Slots(e) = Slots(d) /\ Used(e) = Used(d) /\ Keys(e) = Keys(d)
  BY <1>1 DEF Slots, Used, Keys
<1>6. IsDict(e)
  BY <1>1, <1>4, <1>5 DEF IsDict
<1>7. MapOf(e) = Map!Bound(MapOf(d), d.key[i], w)
  <2> DEFINE f == Map!Bound(MapOf(d), d.key[i], w)
  <2>1. Keys(d) = {d.key[i]} \cup DOMAIN MapOf(d)
    BY ValueOfKey
  <2>2. f = [k \in Keys(e) |-> f[k]]
    BY <1>5, <2>1 DEF Map!Bound
  <2>3. ASSUME NEW j \in Used(e)
        PROVE  f[e.key[j]] = e.val[j]
    <3>1. j \in Used(d) /\ e.key[j] = d.key[j] /\ j \in DOMAIN d.val /\ d.key[j] \in Keys(d)
      BY <1>1, <1>5 DEF IsDict, Used, Keys
    <3>2. f[d.key[j]] = IF d.key[j] = d.key[i] THEN w ELSE MapOf(d)[d.key[j]]
      BY <2>1, <3>1 DEF Map!Bound
    <3>3. d.key[j] = d.key[i] => j = i
      BY <3>1 DEF IsDict
    <3>4. MapOf(d)[d.key[j]] = d.val[j]
      BY <3>1, ValueOfKey
    <3> QED
      BY <1>3, <3>1, <3>2, <3>3, <3>4
  <2> HIDE DEF f
  <2>4. MapOf(e) = f
    BY ONLY <1>6, <2>2, <2>3, MapIs
  <2> QED
    BY <2>4 DEF f
<1> QED
  BY <1>1, <1>5, <1>6, <1>7

\* Growing keeps what there is and makes room.
LEMMA GrownIs ==
  ASSUME NEW d, IsDict(d)
  PROVE  /\ IsDict(Grown(d)) /\ Keys(Grown(d)) = Keys(d) /\ MapOf(Grown(d)) = MapOf(d)
         /\ Grown(d).n = d.n /\ d.n < Grown(d).size
<1> DEFINE e == Grown(d)
<1>1. /\ e.n = d.n /\ e.size = 2 * d.size
      /\ e.key = [i \in 0..(2 * d.size - 1) |-> IF i < d.size THEN d.key[i] ELSE Null]
      /\ e.val = [i \in 0..(2 * d.size - 1) |-> IF i < d.size THEN d.val[i] ELSE Null]
      /\ e.hash = [i \in 0..(2 * d.size - 1) |-> IF i < d.size THEN d.hash[i] ELSE 0]
      /\ DOMAIN e = {"n", "size", "key", "val", "hash"}
      /\ e = [x \in DOMAIN e |-> e[x]]
  BY DEF Grown, IsDict
<1> HIDE DEF e
<1>2. e = [n |-> e.n, size |-> e.size, key |-> e.key, val |-> e.val, hash |-> e.hash]
  BY <1>1
<1>3. d.n \in Nat /\ d.size \in Nat \ {0} /\ d.n <= d.size /\ MinSize <= d.size
  BY DEF IsDict
<1>4. Slots(d) = 0..(d.size - 1) /\ Slots(e) = 0..(2 * d.size - 1) /\ Slots(d) \subseteq Slots(e)
      /\ \A i \in Slots(e) : i < d.size <=> i \in Slots(d)
  BY <1>1, <1>3 DEF Slots
<1>5. \A i \in Slots(d) : e.key[i] = d.key[i] /\ e.val[i] = d.val[i] /\ e.hash[i] = d.hash[i]
  BY <1>1, <1>4
<1>6. \A i \in Slots(e) \ Slots(d) : e.key[i] = Null
  BY <1>1, <1>4
<1>7. Used(e) = Used(d)
  BY <1>4, <1>5, <1>6 DEF Used
<1>8. Keys(e) = Keys(d)
  BY <1>5, <1>7 DEF Keys, Used
<1>9. IsDict(e)
  <2>1. e.n \in Nat /\ e.size \in Nat \ {0} /\ e.n <= e.size /\ MinSize <= e.size
    BY <1>1, <1>3, MinSizeAssumption
  <2>2. DOMAIN e.key = Slots(e) /\ DOMAIN e.val = Slots(e) /\ DOMAIN e.hash = Slots(e)
    BY <1>1, <1>4
  <2>3. \A i, j \in Used(e) : e.key[i] = e.key[j] => i = j
    BY <1>5, <1>7 DEF IsDict, Used
  <2>4. \A i \in Used(e) : e.hash[i] = Hash(e.key[i])
    BY <1>5, <1>7 DEF IsDict, Used
  <2>5. Cardinality(Used(e)) <= e.n
    BY <1>1, <1>7 DEF IsDict
  <2> QED
    BY <1>2, <2>1, <2>2, <2>3, <2>4, <2>5 DEF IsDict
<1>10. MapOf(e) = MapOf(d)
  <2>1. MapOf(d) = [k \in Keys(d) |-> MapOf(d)[k]]
    BY DEF MapOf
  <2>2. \A i \in Used(e) : MapOf(d)[e.key[i]] = e.val[i]
    BY <1>5, <1>7, ValueOfKey DEF Used
  <2> QED
    BY <1>8, <1>9, <2>1, <2>2, MapIs
<1> QED
  BY <1>1, <1>3, <1>8, <1>9, <1>10 DEF e

\* A new entry whose key could be copied.
LEMMA InsertedIs ==
  ASSUME NEW d, IsDict(d), d.n < d.size, NEW k, k \notin Keys(d), k # Null, NEW w
  PROVE  LET e == Inserted(d, k, k, w)
         IN /\ IsDict(e) /\ Keys(e) = Keys(d) \cup {k}
            /\ MapOf(e) = Map!Bound(MapOf(d), k, w)
<1> DEFINE e == Inserted(d, k, k, w)
           i == InsertSlot(d)
<1>1. i \in Slots(d) \ Used(d)
  BY VacantSlot
<1> HIDE DEF i
<1>2. /\ e.n = d.n + 1 /\ e.size = d.size
      /\ DOMAIN e.key = Slots(d) /\ DOMAIN e.val = Slots(d) /\ DOMAIN e.hash = Slots(d)
      /\ DOMAIN e = {"n", "size", "key", "val", "hash"}
      /\ e = [x \in DOMAIN e |-> e[x]]
  BY DEF Inserted, IsDict
<1>3. e.key[i] = k /\ e.val[i] = w /\ e.hash[i] = Hash(k)
  BY <1>1 DEF Inserted, IsDict, i
<1>4. \A j \in Slots(d) \ {i} :
        e.key[j] = d.key[j] /\ e.val[j] = d.val[j] /\ e.hash[j] = d.hash[j]
  BY <1>1 DEF Inserted, IsDict, i
<1> HIDE DEF e
<1>5. e = [n |-> e.n, size |-> e.size, key |-> e.key, val |-> e.val, hash |-> e.hash]
  BY <1>2
<1>6. Slots(e) = Slots(d) /\ i \notin Used(d)
  BY <1>1, <1>2 DEF Slots
<1>7. Used(e) = Used(d) \cup {i}
  BY <1>1, <1>3, <1>4, <1>6 DEF Used
<1>8. \A j \in Used(d) : e.key[j] = d.key[j] /\ e.val[j] = d.val[j] /\ e.hash[j] = d.hash[j]
  BY <1>1, <1>4 DEF Used
<1>9. Keys(e) = Keys(d) \cup {k}
  BY <1>3, <1>7, <1>8 DEF Keys
<1>10. IsDict(e)
  <2>1. d.n \in Nat /\ d.size \in Nat \ {0} /\ MinSize <= d.size
    BY DEF IsDict
  <2>2. e.n \in Nat /\ e.size \in Nat \ {0} /\ e.n <= e.size /\ MinSize <= e.size
    BY <1>2, <2>1
  <2>3. Cardinality(Used(e)) <= e.n
    <3>1. Cardinality(Used(e)) = Cardinality(Used(d)) + 1
      BY <1>6, <1>7, UsedIsFinite, FS_AddElement
    <3>2. Cardinality(Used(d)) <= d.n /\ Cardinality(Used(d)) \in Nat
      BY UsedIsFinite DEF IsDict
    <3> QED
      BY <1>2, <2>1, <3>1, <3>2
  <2>4. ASSUME NEW a \in Used(e), NEW b \in Used(e), e.key[a] = e.key[b]
        PROVE  a = b
    <3>1. \A j \in Used(d) : e.key[j] \in Keys(d)
      BY <1>8 DEF Keys
    <3>2. CASE a \in Used(d) /\ b \in Used(d)
      BY <1>8, <2>4, <3>2 DEF IsDict
    <3> QED
      BY <1>3, <1>7, <2>4, <3>1, <3>2
  <2>5. \A a \in Used(e) : e.hash[a] = Hash(e.key[a])
    BY <1>3, <1>7, <1>8 DEF IsDict
  <2> QED
    BY <1>2, <1>5, <1>6, <2>2, <2>3, <2>4, <2>5 DEF IsDict
<1>11. MapOf(e) = Map!Bound(MapOf(d), k, w)
  <2> DEFINE f == Map!Bound(MapOf(d), k, w)
  <2>1. DOMAIN MapOf(d) = Keys(d)
    BY ValueOfKey
  <2>2. f = [x \in Keys(e) |-> f[x]]
    BY <1>9, <2>1 DEF Map!Bound
  <2>3. f[k] = w /\ \A x \in Keys(d) : f[x] = MapOf(d)[x]
    BY <2>1 DEF Map!Bound
  <2>4. \A j \in Used(d) : f[d.key[j]] = d.val[j]
    BY <2>3, ValueOfKey
  <2>5. ASSUME NEW j \in Used(e)
        PROVE  f[e.key[j]] = e.val[j]
    BY <1>3, <1>7, <1>8, <2>3, <2>4
  <2> HIDE DEF f
  <2>6. MapOf(e) = f
    BY <1>10, <2>2, <2>5, MapIs
  <2> QED
    BY <2>6 DEF f
<1> QED
  BY <1>9, <1>10, <1>11 DEF e

\* A new entry whose key could not be copied: the slot stays empty and is
\* counted all the same.
LEMMA LostIs ==
  ASSUME NEW d, IsDict(d), d.n < d.size, NEW k, NEW w
  PROVE  LET e == Inserted(d, k, Null, w)
         IN IsDict(e) /\ Keys(e) = Keys(d) /\ MapOf(e) = MapOf(d)
<1> DEFINE e == Inserted(d, k, Null, w)
           i == InsertSlot(d)
<1>1. i \in Slots(d) \ Used(d)
  BY VacantSlot
<1> HIDE DEF i
<1>2. /\ e.n = d.n + 1 /\ e.size = d.size
      /\ DOMAIN e.key = Slots(d) /\ DOMAIN e.val = Slots(d) /\ DOMAIN e.hash = Slots(d)
      /\ DOMAIN e = {"n", "size", "key", "val", "hash"}
      /\ e = [x \in DOMAIN e |-> e[x]]
  BY DEF Inserted, IsDict
<1>3. e.key[i] = Null
  BY <1>1 DEF Inserted, IsDict, i
<1>4. \A j \in Slots(d) \ {i} :
        e.key[j] = d.key[j] /\ e.val[j] = d.val[j] /\ e.hash[j] = d.hash[j]
  BY <1>1 DEF Inserted, IsDict, i
<1> HIDE DEF e
<1>5. e = [n |-> e.n, size |-> e.size, key |-> e.key, val |-> e.val, hash |-> e.hash]
  BY <1>2
<1>6. Slots(e) = Slots(d)
  BY <1>2 DEF Slots
<1>7. Used(e) = Used(d)
  BY <1>1, <1>3, <1>4, <1>6 DEF Used
<1>8. \A j \in Used(d) : e.key[j] = d.key[j] /\ e.val[j] = d.val[j] /\ e.hash[j] = d.hash[j]
  BY <1>1, <1>4 DEF Used
<1>9. Keys(e) = Keys(d)
  BY <1>7, <1>8 DEF Keys
<1>10. IsDict(e)
  <2>1. d.n \in Nat /\ d.size \in Nat \ {0} /\ MinSize <= d.size
    BY DEF IsDict
  <2>2. Cardinality(Used(d)) <= d.n /\ Cardinality(Used(d)) \in Nat
    BY UsedIsFinite DEF IsDict
  <2>3. /\ e.n \in Nat /\ e.size \in Nat \ {0} /\ e.n <= e.size /\ MinSize <= e.size
        /\ Cardinality(Used(e)) <= e.n
    BY <1>2, <1>7, <2>1, <2>2
  <2>4. /\ \A a, b \in Used(e) : e.key[a] = e.key[b] => a = b
        /\ \A a \in Used(e) : e.hash[a] = Hash(e.key[a])
    BY <1>7, <1>8 DEF IsDict
  <2> QED
    BY <1>2, <1>5, <1>6, <2>3, <2>4 DEF IsDict
<1>11. MapOf(e) = MapOf(d)
  <2>1. MapOf(d) = [x \in Keys(d) |-> MapOf(d)[x]]
    BY DEF MapOf
  <2>2. \A j \in Used(e) : MapOf(d)[e.key[j]] = e.val[j]
    BY <1>7, <1>8, ValueOfKey
  <2> QED
    BY <1>9, <1>10, <2>1, <2>2, MapIs
<1> QED
  BY <1>9, <1>10, <1>11 DEF e

\* dictionary_unset removes the key and nothing else.
LEMMA UnsetIs ==
  ASSUME NEW d, IsDict(d), NEW k
  PROVE  LET e == Unset(d, k)
         IN /\ IsDict(e) /\ Keys(e) = Keys(d) \ {k} /\ e.n <= d.n
            /\ MapOf(e) = [x \in DOMAIN MapOf(d) \ {k} |-> MapOf(d)[x]]
<1> DEFINE e == Unset(d, k)
<1>1. CASE k \notin Keys(d)
  <2>1. e = d
    BY <1>1, NoPlace DEF Unset
  <2>2. MapOf(d) = [x \in DOMAIN MapOf(d) \ {k} |-> MapOf(d)[x]]
    BY <1>1 DEF MapOf
  <2> QED
    BY <1>1, <2>1, <2>2 DEF IsDict
<1>2. CASE k \in Keys(d)
  <2>1. PICK i \in Used(d) : d.key[i] = k
    BY <1>2 DEF Keys
  <2>2. Places(d, k) # {} /\ Min(Places(d, k)) = i
    BY <2>1, OnePlace
  <2>3. e = [d EXCEPT !.key[i] = Null, !.val[i] = Null, !.hash[i] = 0, !.n = @ - 1]
    BY <2>2 DEF Unset
  <2> HIDE DEF e
  <2>4. i \in Slots(d)
    BY <2>1 DEF Used
  <2>5. /\ e.n = d.n - 1 /\ e.size = d.size
        /\ DOMAIN e.key = Slots(d) /\ DOMAIN e.val = Slots(d) /\ DOMAIN e.hash = Slots(d)
        /\ DOMAIN e = {"n", "size", "key", "val", "hash"}
        /\ e = [x \in DOMAIN e |-> e[x]]
    BY <2>3 DEF IsDict
  <2>6. e.key[i] = Null
    BY <2>3, <2>4 DEF IsDict
  <2>7. \A j \in Slots(d) \ {i} :
          e.key[j] = d.key[j] /\ e.val[j] = d.val[j] /\ e.hash[j] = d.hash[j]
    BY <2>3, <2>4 DEF IsDict
  <2>8. e = [n |-> e.n, size |-> e.size, key |-> e.key, val |-> e.val, hash |-> e.hash]
    BY <2>5
  <2>9. Slots(e) = Slots(d)
    BY <2>5 DEF Slots
  <2>10. Used(e) = Used(d) \ {i}
    BY <2>6, <2>7, <2>9 DEF Used
  <2>11. \A j \in Used(e) : /\ e.key[j] = d.key[j] /\ e.val[j] = d.val[j]
                            /\ e.hash[j] = d.hash[j] /\ j \in Used(d) /\ d.key[j] # k
    BY <2>1, <2>7, <2>10 DEF Used, IsDict
  <2>12. Keys(e) = Keys(d) \ {k}
    <3>1. ASSUME NEW x \in Keys(d), x # k
          PROVE  x \in Keys(e)
      <4>1. PICK j \in Used(d) : d.key[j] = x
        BY DEF Keys
      <4>2. j \in Used(e)
        BY <2>1, <2>10, <3>1, <4>1
      <4> QED
        BY <2>11, <4>1, <4>2 DEF Keys
    <3>2. ASSUME NEW x \in Keys(e)
          PROVE  x \in Keys(d) \ {k}
      BY <2>11 DEF Keys
    <3> QED
      BY <3>1, <3>2
  <2>13. /\ d.n \in Nat /\ d.size \in Nat \ {0} /\ d.n <= d.size /\ MinSize <= d.size
         /\ Cardinality(Used(d)) <= d.n /\ Cardinality(Used(d)) \in Nat
    BY UsedIsFinite DEF IsDict
  <2>14. Cardinality(Used(e)) = Cardinality(Used(d)) - 1 /\ Cardinality(Used(e)) \in Nat
    <3>1. IsFiniteSet(Used(d))
      BY UsedIsFinite
    <3> QED
      BY <2>10, <3>1, FS_RemoveElement, FS_CardinalityType
  <2>15. e.n \in Nat /\ e.n <= e.size /\ Cardinality(Used(e)) <= e.n /\ e.n <= d.n
    BY <2>5, <2>13, <2>14
  <2>16. IsDict(e)
    <3>1. /\ \A a, b \in Used(e) : e.key[a] = e.key[b] => a = b
          /\ \A a \in Used(e) : e.hash[a] = Hash(e.key[a])
      BY <2>11 DEF IsDict
    <3> QED
      BY <2>5, <2>8, <2>9, <2>13, <2>15, <3>1 DEF IsDict
  <2>17. MapOf(e) = [x \in DOMAIN MapOf(d) \ {k} |-> MapOf(d)[x]]
    <3> DEFINE f == [x \in DOMAIN MapOf(d) \ {k} |-> MapOf(d)[x]]
    <3>1. DOMAIN MapOf(d) = Keys(d)
      BY ValueOfKey
    <3>2. f = [x \in Keys(e) |-> f[x]] /\ \A x \in Keys(e) : f[x] = MapOf(d)[x]
      BY <2>12, <3>1
    <3>3. \A j \in Used(e) : e.key[j] \in Keys(e)
      BY DEF Keys
    <3>4. \A j \in Used(e) : f[e.key[j]] = e.val[j]
      BY <2>11, <3>2, <3>3, ValueOfKey
    <3> HIDE DEF f
    <3>5. MapOf(e) = f
      BY <2>16, <3>2, <3>4, MapIs
    <3> QED
      BY <3>5 DEF f
  <2> QED
    BY <2>12, <2>15, <2>16, <2>17 DEF e
<1> QED
  BY <1>1, <1>2

\* dictionary_set binds the key, or loses something when memory is short.
LEMMA SetIs ==
  ASSUME NEW d, IsDict(d), NEW k, k # Null, NEW v, NEW short \in BOOLEAN,
         NEW r \in Set(d, k, v, short)
  PROVE  /\ IsDict(r.dict) /\ Keys(r.dict) \subseteq Keys(d) \cup {k}
         /\ \/ MapOf(r.dict) = Map!Bound(MapOf(d), k, v)
            \/ short /\ MapOf(r.dict) = Map!Bound(MapOf(d), k, Null)
            \/ short /\ k \notin DOMAIN MapOf(d) /\ MapOf(r.dict) = MapOf(d)
<1> DEFINE Copies(s) == IF short THEN {s, Null} ELSE {s}
           room == IF d.n = d.size THEN Grown(d) ELSE d
<1>1. DOMAIN MapOf(d) = Keys(d)
  BY ValueOfKey
<1>2. CASE k \in Keys(d)
  <2>1. PICK i \in Used(d) : d.key[i] = k
    BY <1>2 DEF Keys
  <2>2. Places(d, k) # {} /\ Min(Places(d, k)) = i
    BY <2>1, OnePlace
  <2>3. d.n > 0
    <3>1. Cardinality(Used(d)) # 0
      BY <2>1, UsedIsFinite, FS_EmptySet
    <3> QED
      BY <3>1, UsedIsFinite DEF IsDict
  <2>4. PICK w \in Copies(v) : r.dict = [d EXCEPT !.val[i] = w]
    BY <2>2, <2>3 DEF Set
  <2>5. w = v \/ (short /\ w = Null)
    BY <2>4
  <2>6. /\ IsDict(r.dict) /\ Keys(r.dict) = Keys(d)
        /\ MapOf(r.dict) = Map!Bound(MapOf(d), k, w)
    BY <2>1, <2>4, ReplacedIs
  <2> HIDE DEF Copies
  <2> QED
    BY <2>5, <2>6
<1>3. CASE k \notin Keys(d)
  <2>1. Places(d, k) = {}
    BY <1>3, NoPlace
  <2>2. \/ \E stored \in Copies(k), w \in Copies(v) : r.dict = Inserted(room, k, stored, w)
        \/ short /\ r.dict = d
    BY <2>1 DEF Set
  <2>3. /\ IsDict(room) /\ room.n < room.size
        /\ Keys(room) = Keys(d) /\ MapOf(room) = MapOf(d)
    <3>1. d.n <= d.size /\ d.n \in Nat /\ d.size \in Nat
      BY DEF IsDict
    <3> QED
      BY <3>1, GrownIs
  <2> HIDE DEF room
  <2>4. CASE short /\ r.dict = d
    BY <1>1, <1>3, <2>4
  <2>5. ASSUME NEW stored \in Copies(k), NEW w \in Copies(v), r.dict = Inserted(room, k, stored, w)
        PROVE  /\ IsDict(r.dict) /\ Keys(r.dict) \subseteq Keys(d) \cup {k}
               /\ \/ MapOf(r.dict) = Map!Bound(MapOf(d), k, v)
                  \/ short /\ MapOf(r.dict) = Map!Bound(MapOf(d), k, Null)
                  \/ short /\ k \notin DOMAIN MapOf(d) /\ MapOf(r.dict) = MapOf(d)
    <3>1. /\ stored = k \/ (short /\ stored = Null)
          /\ w = v \/ (short /\ w = Null)
      OBVIOUS
    <3>2. CASE stored = k
      <4>1. /\ IsDict(r.dict) /\ Keys(r.dict) = Keys(d) \cup {k}
            /\ MapOf(r.dict) = Map!Bound(MapOf(d), k, w)
        BY <1>3, <2>3, <2>5, <3>2, InsertedIs
      <4> QED
        BY <3>1, <4>1
    <3>3. CASE short /\ stored = Null
      <4>1. IsDict(r.dict) /\ Keys(r.dict) = Keys(d) /\ MapOf(r.dict) = MapOf(d)
        BY <2>3, <2>5, <3>3, LostIs
      <4> QED
        BY <1>1, <1>3, <3>3, <4>1
    <3> QED
      BY <3>1, <3>2, <3>3
  <2> QED
    BY <2>2, <2>4, <2>5
<1> QED
  BY <1>2, <1>3

\* dictionary_new.
LEMMA EmptyIs == IsDict(Empty) /\ Keys(Empty) = {} /\ MapOf(Empty) = <<>>
<1>1. /\ Empty.n = 0 /\ Empty.size = MinSize /\ Slots(Empty) = 0..(MinSize - 1)
      /\ \A i \in Slots(Empty) : Empty.key[i] = Null
      /\ DOMAIN Empty.key = Slots(Empty) /\ DOMAIN Empty.val = Slots(Empty)
      /\ DOMAIN Empty.hash = Slots(Empty)
      /\ Empty = [n |-> Empty.n, size |-> Empty.size, key |-> Empty.key,
                  val |-> Empty.val, hash |-> Empty.hash]
  BY DEF Empty, Slots
<1>2. Used(Empty) = {} /\ Keys(Empty) = {}
  BY <1>1 DEF Used, Keys
<1>3. IsDict(Empty)
  BY <1>1, <1>2, MinSizeAssumption, FS_EmptySet DEF IsDict
<1>4. MapOf(Empty) = <<>>
  <2>1. MapOf(Empty) \in [1..0 -> {}]
    BY <1>2 DEF MapOf
  <2>2. MapOf(Empty) \in Seq({})
    BY <2>1, SeqDef
  <2>3. Len(MapOf(Empty)) = 0
    BY <2>1, <2>2, LenProperties
  <2> QED
    BY <2>2, <2>3, EmptySeq
<1> QED
  BY <1>2, <1>3, <1>4

-----------------------------------------------------------------------------
\* The names a file can bring up, and what is pending between two lines.
Sections == (Named("section") \ {<<>>}) \cup {NoSection}

Pending ==
  pending = Nothing \/
    /\ pending \in Line /\ pending.more /\ pending.kind \in {"blank", "comment", "value"}
    /\ pending \in Range(file) \/ pending.kind = "value"
    /\ pending.kind = "value" => pending.name \in Named("value")

IInv ==
  /\ TypeOK /\ Pending
  /\ section \in Sections
  /\ IsDict(dict) /\ Keys(dict) \subseteq AllKeys
  /\ errs < pos
  /\ status \in {"loaded", "used"} => errs = 0 /\ pending = Nothing

\* What the lines of a file are, from the assumption on the files.
LEMMA LinesAreLines ==
  ASSUME NEW f \in Files, NEW p \in DOMAIN f
  PROVE  /\ f[p] \in Line /\ f[p] \in Range(f)
         /\ f[p].more => f[p].kind \in {"blank", "comment", "value"}
         /\ f[p].kind = "section" => f[p].name \in Named("section")
         /\ f[p].kind = "value" => f[p].name \in Named("value")
<1>1. f \in Seq(Line)
  BY FilesAssumption
<1>2. DOMAIN f = 1..Len(f) /\ f[p] \in Line
  BY <1>1, LenProperties, ElementOfSeq
<1>3. f[p] \in Range(f)
  BY DEF Range
<1>4. f[p].more => f[p].kind \in {"blank", "comment", "value"}
  BY FilesAssumption
<1> QED
  BY <1>2, <1>3, <1>4 DEF Named

LEMMA KeysOfLines ==
  /\ Sections \subseteq AllKeys
  /\ \A s \in Sections, k \in Named("value") : s \o k \in AllKeys
BY DEF AllKeys, Sections

\* A line that is read, with what was pending.
LEMMA JoinedIs ==
  ASSUME IInv, AtLine, NEW l, l = Joined(file[pos])
  PROVE  /\ l \in Line /\ l.more = file[pos].more
         /\ l.more => /\ l.kind \in {"blank", "comment", "value"}
                      /\ l \in Range(file) \/ l.kind = "value"
         /\ l.kind = "section" => l.name \in Named("section")
         /\ l.kind = "value" => l.name \in Named("value")
<1> DEFINE here == file[pos]
<1>1. file \in Files /\ pos \in DOMAIN file
  <2>1. pos \in 1..(Len(file) + 1) /\ file \in Files \cup {<<>>} /\ pos <= Len(file)
    BY DEF IInv, TypeOK, AtLine
  <2>2. file # <<>>
    BY <2>1
  <2>3. file \in Seq(Line)
    BY <2>1, <2>2, FilesAssumption
  <2> QED
    BY <2>1, <2>2, <2>3, LenProperties
<1>2. /\ here \in Line /\ here \in Range(file)
      /\ here.more => here.kind \in {"blank", "comment", "value"}
      /\ here.kind = "section" => here.name \in Named("section")
      /\ here.kind = "value" => here.name \in Named("value")
  BY <1>1, LinesAreLines
<1>3. CASE pending = Nothing \/ pending.kind = "blank"
  BY <1>2, <1>3 DEF Joined
<1>4. CASE ~(pending = Nothing \/ pending.kind = "blank")
  <2>1. /\ pending \in Line /\ pending.more /\ pending.kind \in {"comment", "value"}
        /\ pending \in Range(file) \/ pending.kind = "value"
        /\ pending.kind = "value" => pending.name \in Named("value")
    BY <1>4 DEF IInv, Pending
  <2>2. l = [pending EXCEPT !.more = here.more,
               !.val = IF pending.kind # "value" \/ here.kind \in {"blank", "comment"}
                         THEN @ ELSE Joint]
    BY <1>4 DEF Joined
  <2> HIDE DEF here
  <2>3. /\ l \in Line /\ l.more = here.more /\ l.kind = pending.kind /\ l.name = pending.name
        /\ pending.kind = "comment" => l.val = pending.val
    BY <1>2, <2>1, <2>2, TextAssumption DEF Line
  <2>4. l.more /\ l.kind = "comment" => l = pending
    <3>1. ASSUME NEW x \in Line
          PROVE  x = [kind |-> x.kind, name |-> x.name, val |-> x.val, more |-> x.more]
      BY DEF Line
    <3>2. ASSUME l.more, l.kind = "comment"
          PROVE  l.more = pending.more
      BY <2>1, <2>3, <3>2 DEF Line
    <3> QED
      BY <2>1, <2>3, <3>1, <3>2
  <2> QED
    BY <2>1, <2>3, <2>4 DEF here
<1> QED
  BY <1>3, <1>4

-----------------------------------------------------------------------------
LEMMA InitIInv == Init => IInv
<1> SUFFICES ASSUME Init PROVE IInv
  OBVIOUS
<1>1. /\ file \in Files /\ oom \in BOOLEAN /\ status = "closed" /\ pos = 1
      /\ pending = Nothing /\ section = NoSection /\ dict = Empty /\ errs = 0 /\ calls = 0
  BY DEF Init
<1>2. Len(file) \in Nat
  BY <1>1, FilesAssumption, LenProperties
<1>3. IsDict(dict) /\ Keys(dict) = {}
  BY <1>1, EmptyIs
<1>4. TypeOK
  <2>1. /\ \A f \in {"key", "val", "hash"} : DOMAIN dict[f] = Slots(dict)
        /\ dict.size >= MinSize
    BY <1>3 DEF IsDict
  <2>2. dict.n \in 0..MaxEntries
    BY <1>1, BoundsAssumption DEF Empty
  <2>3. section # <<>>
    BY <1>1 DEF NoSection
  <2> QED
    BY <1>1, <1>2, <2>1, <2>2, <2>3, BoundsAssumption DEF TypeOK
<1> QED
  BY <1>1, <1>3, <1>4 DEF IInv, Pending, Sections

-----------------------------------------------------------------------------
\* What the steps of the dictionary do to the invariant's part about it.
DictOK(d) == IsDict(d) /\ Keys(d) \subseteq AllKeys /\ d.n \in 0..MaxEntries

LEMMA StoredIsOK ==
  ASSUME NEW d, DictOK(d), dict' = d
  PROVE  DictOK(dict')
BY DEF DictOK, IsDict, Keys, Used, Slots

\* A call of dictionary_set, as FiniteMap answers it.
LEMMA SetStep ==
  ASSUME IInv, NEW k \in AllKeys, NEW v \in Vals \cup {Null},
         NEW r \in Set(dict, k, v, oom), r.dict.n <= MaxEntries, dict' = r.dict,
         request' = <<"set", k, v>>, oom' = oom
  PROVE  DictOK(dict') /\ Map!Next
<1>1. IsDict(dict) /\ k # Null /\ oom \in BOOLEAN /\ Keys(dict) \subseteq AllKeys
  BY KeysAssumption DEF IInv, TypeOK
<1>2. /\ IsDict(r.dict) /\ Keys(r.dict) \subseteq Keys(dict) \cup {k}
      /\ \/ MapOf(r.dict) = Map!Bound(MapOf(dict), k, v)
         \/ oom /\ MapOf(r.dict) = Map!Bound(MapOf(dict), k, Null)
         \/ oom /\ k \notin DOMAIN MapOf(dict) /\ MapOf(r.dict) = MapOf(dict)
  BY <1>1, SetIs
<1>3. DictOK(dict')
  <2>1. r.dict.n \in 0..MaxEntries
    BY <1>2, BoundsAssumption DEF IsDict
  <2>2. Keys(r.dict) \subseteq AllKeys
    BY <1>1, <1>2
  <2>3. DictOK(r.dict)
    BY <1>2, <2>1, <2>2 DEF DictOK
  <2> QED
    BY <2>3, StoredIsOK
<1>4. Stored = MapOf(dict) /\ Stored' = MapOf(r.dict)
  BY DEF Stored, MapOf
<1>5. Map!Put(k, v)
  BY <1>2, <1>4 DEF Map!Put, Map!Short
<1> QED
  BY <1>3, <1>5 DEF Map!Next

\* dictionary_del, and steps that leave the dictionary alone.
LEMMA DeleteStep ==
  ASSUME Delete, oom' = oom
  PROVE  DictOK(dict') /\ Map!Next
<1>1. dict' = Empty /\ request' = <<>>
  BY DEF Delete
<1>2. DictOK(dict')
  <2>1. Empty.n = 0
    BY DEF Empty
  <2>2. DictOK(Empty)
    BY <2>1, EmptyIs, BoundsAssumption DEF DictOK
  <2> QED
    BY <1>1, <2>2, StoredIsOK
<1>3. Stored' = <<>>
  BY <1>1, EmptyIs DEF Stored, MapOf
<1> QED
  BY <1>1, <1>2, <1>3 DEF Map!Next, Map!Clear

LEMMA OtherStep ==
  ASSUME IInv, UNCHANGED <<dict, request, oom>>
  PROVE  DictOK(dict') /\ UNCHANGED Map!vars
BY DEF IInv, TypeOK, DictOK, Map!vars, Stored

\* Reading a line moves on by one.
LEMMA AdvanceStep ==
  ASSUME IInv, AtLine, pos' = pos + 1, UNCHANGED <<file, oom, calls>>,
         errs' \in {errs, errs + 1}, status' \in {"read", "reading"}, Pending',
         section' \in Sections, section' # <<>>, DictOK(dict')
  PROVE  IInv'
<1>1. /\ file \in Files \cup {<<>>} /\ oom \in BOOLEAN /\ pos \in 1..(Len(file) + 1)
      /\ errs \in 0..Len(file) /\ calls \in 0..MaxCalls /\ errs < pos /\ pos <= Len(file)
  BY DEF IInv, TypeOK, AtLine
<1>2. Len(file) \in Nat
  BY <1>1, FilesAssumption, LenProperties, EmptySeq
<1>3. /\ pos' \in 1..(Len(file)' + 1) /\ errs' \in 0..Len(file)' /\ errs' < pos'
      /\ file' \in Files \cup {<<>>} /\ oom' \in BOOLEAN /\ calls' \in 0..MaxCalls
  BY <1>1, <1>2
<1>4. /\ IsDict(dict') /\ Keys(dict') \subseteq AllKeys /\ dict'.n \in 0..MaxEntries
      /\ dict'.size >= MinSize
      /\ \A f \in {"key", "val", "hash"} : DOMAIN dict'[f] = Slots(dict')
  BY MinSizeAssumption DEF DictOK, IsDict
<1>5. pending' = Nothing \/ (pending' \in Range(file') \/ pending'.kind = "value")
  BY DEF Pending
<1> QED
  BY <1>3, <1>4, <1>5 DEF IInv, TypeOK

\* One lemma for each step.
LEMMA ReadSectionStep ==
  ASSUME IInv, ReadSection
  PROVE  IInv' /\ Map!Next
<1> DEFINE l == Joined(file[pos])
<1>1. /\ AtLine /\ l.kind = "section" /\ ~file[pos].more
      /\ section' = IF l.name = <<>> THEN section ELSE l.name
      /\ Store(section', Null) /\ pending' = Nothing /\ pos' = pos + 1
      /\ UNCHANGED <<file, oom, errs, calls>>
  BY DEF ReadSection
<1>2. l.kind = "section" => l.name \in Named("section")
  BY <1>1, JoinedIs
<1> HIDE DEF l
<1>3. section' \in Sections /\ section' # <<>> /\ section' \in AllKeys
  <2>1. section \in Sections /\ section # <<>>
    BY DEF IInv, TypeOK
  <2> QED
    BY <1>1, <1>2, <2>1, KeysOfLines DEF Sections
<1>4. PICK r \in Set(dict, section', Null, oom) :
        /\ r.dict.n <= MaxEntries /\ dict' = r.dict /\ request' = <<"set", section', Null>>
        /\ status' = IF r.ret < 0 THEN "read" ELSE status
  BY <1>1 DEF Store
<1>5. DictOK(dict') /\ Map!Next
  BY <1>1, <1>3, <1>4, SetStep
<1>6. status' \in {"read", "reading"}
  BY <1>1, <1>4 DEF AtLine
<1>7. errs' \in {errs, errs + 1} /\ Pending'
  BY <1>1 DEF Pending
<1> QED
  BY <1>1, <1>3, <1>5, <1>6, <1>7, AdvanceStep

LEMMA ReadValueStep ==
  ASSUME IInv, ReadValue
  PROVE  IInv' /\ Map!Next
<1> DEFINE l == Joined(file[pos])
           k == section \o l.name
<1>1. /\ AtLine /\ l.kind = "value" /\ ~file[pos].more
      /\ Store(k, l.val) /\ pending' = Nothing /\ pos' = pos + 1
      /\ UNCHANGED <<file, oom, section, errs, calls>>
  BY DEF ReadValue
<1>2. l \in Line /\ l.name \in Named("value")
  BY <1>1, JoinedIs
<1>3. l.val \in Vals
  BY <1>2 DEF Line
<1>4. section \in Sections /\ section # <<>>
  BY DEF IInv, TypeOK
<1>5. k \in AllKeys
  BY <1>2, <1>4, KeysOfLines
<1> HIDE DEF l, k
<1>6. PICK r \in Set(dict, k, l.val, oom) :
        /\ r.dict.n <= MaxEntries /\ dict' = r.dict /\ request' = <<"set", k, l.val>>
        /\ status' = IF r.ret < 0 THEN "read" ELSE status
  BY <1>1 DEF Store
<1>7. DictOK(dict') /\ Map!Next
  BY <1>1, <1>3, <1>5, <1>6, SetStep
<1>8. status' \in {"read", "reading"}
  BY <1>1, <1>6 DEF AtLine
<1>9. errs' \in {errs, errs + 1} /\ Pending' /\ section' \in Sections /\ section' # <<>>
  BY <1>1, <1>4 DEF Pending
<1> QED
  BY <1>1, <1>7, <1>8, <1>9, AdvanceStep

LEMMA ReadContinuedStep ==
  ASSUME IInv, ReadContinued
  PROVE  IInv' /\ UNCHANGED Map!vars
<1> DEFINE l == Joined(file[pos])
<1>1. /\ AtLine /\ file[pos].more /\ pending' = l /\ pos' = pos + 1
      /\ UNCHANGED <<file, oom, status, section, dict, errs, calls, request>>
  BY DEF ReadContinued
<1>2. /\ l \in Line /\ l.more = file[pos].more
      /\ l.more => /\ l.kind \in {"blank", "comment", "value"}
                   /\ l \in Range(file) \/ l.kind = "value"
      /\ l.kind = "value" => l.name \in Named("value")
  BY <1>1, JoinedIs
<1> HIDE DEF l
<1>3. Pending'
  BY <1>1, <1>2 DEF Pending
<1>4. DictOK(dict') /\ UNCHANGED Map!vars
  BY <1>1, OtherStep
<1>5. /\ status' \in {"read", "reading"} /\ errs' \in {errs, errs + 1}
      /\ section' \in Sections /\ section' # <<>>
  BY <1>1 DEF AtLine, IInv, TypeOK
<1> QED
  BY <1>1, <1>3, <1>4, <1>5, AdvanceStep

LEMMA ReadOtherStep ==
  ASSUME IInv, ReadOther
  PROVE  IInv' /\ UNCHANGED Map!vars
<1>1. /\ AtLine /\ pending' = Nothing /\ pos' = pos + 1 /\ errs' \in {errs, errs + 1}
      /\ UNCHANGED <<file, oom, status, section, dict, calls, request>>
  BY DEF ReadOther
<1>2. DictOK(dict') /\ UNCHANGED Map!vars
  BY <1>1, OtherStep
<1>3. /\ status' \in {"read", "reading"} /\ Pending'
      /\ section' \in Sections /\ section' # <<>>
  BY <1>1 DEF AtLine, IInv, TypeOK, Pending
<1> QED
  BY <1>1, <1>2, <1>3, AdvanceStep

\* A line that cannot be copied.
LEMMA ReadUncopiedStep ==
  ASSUME IInv, ReadUncopied
  PROVE  IInv' /\ UNCHANGED Map!vars
<1>1. /\ AtLine /\ pending' = Nothing /\ pos' = pos + 1 /\ errs' = errs
      /\ UNCHANGED <<file, oom, status, section, dict, calls, request>>
  BY DEF ReadUncopied
<1>2. DictOK(dict') /\ UNCHANGED Map!vars
  BY <1>1, OtherStep
<1>3. /\ status' \in {"read", "reading"} /\ Pending'
      /\ section' \in Sections /\ section' # <<>>
  BY <1>1 DEF AtLine, IInv, TypeOK, Pending
<1> QED
  BY <1>1, <1>2, <1>3, AdvanceStep

\* Steps that read no line.
LEMMA StayStep ==
  ASSUME IInv, UNCHANGED <<file, oom, pos, section, errs, calls>>, DictOK(dict'),
         pending' \in {pending, Nothing},
         status' \in {"closed", "reading", "read", "loaded", "used", "null", "freed", "crashed"},
         status' \in {"loaded", "used"} => errs = 0 /\ pending' = Nothing
  PROVE  IInv'
<1>1. /\ IsDict(dict') /\ Keys(dict') \subseteq AllKeys /\ dict'.n \in 0..MaxEntries
      /\ dict'.size >= MinSize
      /\ \A f \in {"key", "val", "hash"} : DOMAIN dict'[f] = Slots(dict')
  BY MinSizeAssumption DEF DictOK, IsDict
<1>2. Pending'
  BY DEF IInv, Pending
<1>3. /\ file' \in Files \cup {<<>>} /\ oom' \in BOOLEAN /\ pos' \in 1..(Len(file)' + 1)
      /\ section' # <<>> /\ section' \in Sections /\ errs' \in 0..Len(file)' /\ errs' < pos'
      /\ calls' \in 0..MaxCalls
  BY DEF IInv, TypeOK
<1>4. pending' = Nothing \/ (pending' \in Range(file') \/ pending'.kind = "value")
  BY <1>2 DEF Pending
<1>5. TypeOK'
  BY <1>1, <1>3, <1>4 DEF TypeOK
<1> QED
  BY <1>1, <1>2, <1>3, <1>5 DEF IInv

LEMMA OpenStep ==
  ASSUME IInv, Open
  PROVE  IInv' /\ UNCHANGED Map!vars
<1>1. /\ status' \in {"reading", "null", "crashed"}
      /\ UNCHANGED <<file, oom, pos, pending, section, dict, errs, calls, request>>
  BY DEF Open
<1>2. DictOK(dict') /\ UNCHANGED Map!vars
  BY <1>1, OtherStep
<1> QED
  BY <1>1, <1>2, StayStep

LEMMA ReadLongStep ==
  ASSUME IInv, ReadLong \/ iniparser_freedict
  PROVE  IInv' /\ Map!Next
<1>1. /\ status' \in {"null", "freed"} /\ Delete
      /\ UNCHANGED <<file, oom, pos, pending, section, errs, calls>>
  BY DEF ReadLong, iniparser_freedict
<1>2. DictOK(dict') /\ Map!Next
  BY <1>1, DeleteStep
<1> QED
  BY <1>1, <1>2, StayStep

LEMMA ReturnStep ==
  ASSUME IInv, Return
  PROVE  IInv' /\ [Map!Next]_(Map!vars)
<1>1. errs \in Nat
  BY DEF IInv, TypeOK
<1>2. /\ pending' = Nothing /\ UNCHANGED <<file, oom, pos, section, errs, calls>>
      /\ \/ errs > 0 /\ status' = "null" /\ Delete
         \/ errs = 0 /\ status' = "loaded" /\ UNCHANGED <<dict, request>>
  BY <1>1 DEF Return
<1>3. DictOK(dict') /\ [Map!Next]_(Map!vars)
  BY <1>2, DeleteStep, OtherStep
<1> QED
  BY <1>2, <1>3, StayStep

\* The calls of iniparser_set and iniparser_unset after the load.
LEMMA CallStep ==
  ASSUME IInv, Call, DictOK(dict')
  PROVE  IInv'
<1>1. /\ status \in {"loaded", "used"} /\ calls < MaxCalls /\ calls' = calls + 1
      /\ status' = "used" /\ file' = <<>> /\ pos' = 1 /\ section' = NoSection
      /\ UNCHANGED <<oom, pending, errs>>
  BY DEF Call
<1>2. /\ pending' = Nothing /\ errs' = 0 /\ calls' \in 0..MaxCalls /\ oom' \in BOOLEAN
  BY <1>1, BoundsAssumption DEF IInv, TypeOK
<1>3. Len(file') = 0
  BY <1>1, EmptySeq
<1>4. section' \in Sections /\ section' # <<>>
  BY <1>1 DEF Sections, NoSection
<1>5. /\ IsDict(dict') /\ Keys(dict') \subseteq AllKeys /\ dict'.n \in 0..MaxEntries
      /\ dict'.size >= MinSize
      /\ \A f \in {"key", "val", "hash"} : DOMAIN dict'[f] = Slots(dict')
  BY MinSizeAssumption DEF DictOK, IsDict
<1> QED
  BY <1>1, <1>2, <1>3, <1>4, <1>5 DEF IInv, TypeOK, Pending

LEMMA ApiSetStep ==
  ASSUME IInv, NEW k \in ApiKeys, NEW v \in Vals, iniparser_set(k, v)
  PROVE  IInv' /\ Map!Next
<1>1. k \in AllKeys
  BY DEF AllKeys
<1>2. PICK r \in Set(dict, k, v, oom) : r.dict.n <= MaxEntries /\ dict' = r.dict
  BY DEF iniparser_set
<1>3. Call /\ request' = <<"set", k, v>> /\ oom' = oom
  BY DEF iniparser_set, Call
<1>4. DictOK(dict') /\ Map!Next
  BY <1>1, <1>2, <1>3, SetStep
<1> QED
  BY <1>3, <1>4, CallStep

LEMMA ApiUnsetStep ==
  ASSUME IInv, NEW k \in ApiKeys, iniparser_unset(k)
  PROVE  IInv' /\ Map!Next
<1>1. Call /\ dict' = Unset(dict, k) /\ request' = <<"unset", k>> /\ oom' = oom
  BY DEF iniparser_unset, Call
<1>2. IsDict(dict) /\ Keys(dict) \subseteq AllKeys /\ dict.n \in 0..MaxEntries
  BY DEF IInv, TypeOK
<1>3. LET e == Unset(dict, k)
      IN /\ IsDict(e) /\ Keys(e) = Keys(dict) \ {k} /\ e.n <= dict.n
         /\ MapOf(e) = [x \in DOMAIN MapOf(dict) \ {k} |-> MapOf(dict)[x]]
  BY <1>2, UnsetIs
<1>4. DictOK(dict')
  <2>1. dict'.n \in 0..MaxEntries
    BY <1>1, <1>2, <1>3, BoundsAssumption DEF IsDict
  <2> QED
    BY <1>1, <1>2, <1>3, <2>1 DEF DictOK
<1>5. Stored = MapOf(dict) /\ Stored' = MapOf(Unset(dict, k))
  BY <1>1 DEF Stored, MapOf
<1>6. Map!Remove(k) /\ k \in AllKeys
  BY <1>1, <1>3, <1>5 DEF Map!Remove, AllKeys
<1> QED
  BY <1>1, <1>4, <1>6, CallStep DEF Map!Next

LEMMA NextSteps ==
  ASSUME IInv, [Next]_vars
  PROVE  IInv' /\ [Map!Next]_(Map!vars)
<1>1. CASE Load
  BY <1>1, OpenStep, ReadLongStep, ReadContinuedStep, ReadSectionStep, ReadValueStep,
     ReadOtherStep, ReadUncopiedStep, ReturnStep DEF Load
<1>2. CASE \E k \in ApiKeys : iniparser_unset(k) \/ \E v \in Vals : iniparser_set(k, v)
  BY <1>2, ApiUnsetStep, ApiSetStep
<1>3. CASE iniparser_freedict
  BY <1>3, ReadLongStep
<1>4. CASE UNCHANGED vars
  <2>1. DictOK(dict') /\ UNCHANGED Map!vars
    BY <1>4, OtherStep DEF vars
  <2>2. /\ status \in {"closed", "reading", "read", "loaded", "used", "null", "freed", "crashed"}
        /\ status \in {"loaded", "used"} => errs = 0 /\ pending = Nothing
    BY DEF IInv, TypeOK
  <2> QED
    BY <1>4, <2>1, <2>2, StayStep DEF vars
<1> QED
  BY <1>1, <1>2, <1>3, <1>4 DEF Next

LEMMA Invariance == Spec => []IInv
BY InitIInv, NextSteps, PTL DEF Spec

\* The types of the variables, for any files and any hashes.
THEOREM TypeCorrect == Spec => []TypeOK
<1>1. IInv => TypeOK
  BY DEF IInv
<1> QED
  BY <1>1, Invariance, PTL

\* The comment at dictionary.c:290 holds: n is never behind the used slots, so
\* the search for an empty one ends; and no key is ever in two slots.
THEOREM SearchEnds == Spec => []WellFormed
<1>1. IInv => WellFormed
  BY DEF IInv, IsDict, WellFormed
<1> QED
  BY <1>1, Invariance, PTL

\* The arrays of dictionary.c are a map that loses only what memory is short
\* for, whatever hashes collide, grows or has been unset.
THEOREM DictionaryIsAMap == Spec => ImplementsMap
<1>1. Init => Map!Init
  <2> SUFFICES ASSUME Init PROVE Map!Init
    OBVIOUS
  <2>1. dict = Empty /\ request = <<>>
    BY DEF Init
  <2>2. Stored = <<>>
    BY <2>1, EmptyIs DEF Stored, MapOf
  <2> QED
    BY <2>1, <2>2 DEF Map!Init
<1>2. IInv /\ [Next]_vars => [Map!Next]_(Map!vars)
  BY NextSteps
<1> QED
  BY <1>1, <1>2, Invariance, PTL DEF Spec, ImplementsMap, Map!Spec-----------------------------------------------------------------------------
\* The reading of a file, while there is memory.

\* What lines s to q make together is line l.
Reads(l, s, q) ==
  \/ l.kind = "blank" /\ \A x \in s..q : file[x].kind = "blank"
  \/ \E m \in s..q :
       /\ file[m].kind # "blank" /\ \A x \in s..(m - 1) : file[x].kind = "blank"
       /\ l.kind = file[m].kind /\ l.name = file[m].name
       /\ l.kind = "value" =>
            l.val = IF \E x \in (m + 1)..q : file[x].kind \notin {"blank", "comment"}
                      THEN Joint ELSE file[m].val

\* The text being read begins with line s.
Frontier(s) ==
  /\ s = 1 \/ ~file[s - 1].more
  /\ \A q \in s..(pos - 1) : file[q].more
  /\ status # "loaded" => IF s = pos THEN pending = Nothing
                           ELSE pending # Nothing /\ Reads(pending, s, pos - 1)

\* The reference reading of LoadedAsWritten, of the lines before s alone.
Heads(s) == {q \in Complete : q < s /\ Content(q).kind = "section" /\ Content(q).name # <<>>}
NameUpTo(s) == IF Heads(s) = {} THEN NoSection ELSE Content(Max(Heads(s))).name
EntriesUpTo(s) == {p \in Entries : p < s}
Written(s) ==
  [k \in {KeyAt(p) : p \in EntriesUpTo(s)} |->
     ValAt(Max({p \in EntriesUpTo(s) : KeyAt(p) = k}))]

\* The first line of its key.
Leads(p) == p \in Entries /\ \A q \in Entries : q < p => KeyAt(q) # KeyAt(p)

\* The slots are filled in the order the keys come up.
InOrder(s) ==
  /\ Used(dict) = 0..(dict.n - 1)
  /\ \A i, j \in Used(dict), p, q \in {x \in EntriesUpTo(s) : Leads(x)} :
       i < j /\ dict.key[i] = KeyAt(p) /\ dict.key[j] = KeyAt(q) => p < q

Scanned(s) ==
  /\ Frontier(s)
  /\ section = NameUpTo(s)
  /\ Stored = Written(s)
  /\ InOrder(s)
  /\ errs = 0 => \A p \in Complete : p < s => Content(p).kind # "junk"
  /\ \A q \in 1..(pos - 1) : file[q].kind # "long"

LoadInv ==
  ~oom =>
    /\ status \in {"closed", "reading", "loaded"} => \E s \in 1..pos : Scanned(s)
    /\ status # "read" /\ (status = "loaded" => pos > Len(file))

LEMMA SameLines ==
  ASSUME UNCHANGED file
  PROVE  /\ Complete' = Complete /\ Entries' = Entries /\ Wrong' = Wrong
         /\ \A p : Content(p)' = Content(p)
         /\ \A p : KeyAt(p)' = KeyAt(p) /\ ValAt(p)' = ValAt(p)
         /\ \A p : Leads(p)' = Leads(p) /\ NameUpTo(p)' = NameUpTo(p)
         /\ \A p : EntriesUpTo(p)' = EntriesUpTo(p) /\ Written(p)' = Written(p)
<1>1. Starts' = Starts
  BY DEF Starts
<1>2. \A p : Ends(p)' = Ends(p)
  BY DEF Ends
<1>3. Complete' = Complete
  BY <1>1, <1>2 DEF Complete
<1>4. \A p : Content(p)' = Content(p)
  BY <1>2 DEF Content
<1>5. \A p : Composed(p)' = Composed(p)
  BY <1>2 DEF Composed
<1>6. Entries' = Entries /\ Wrong' = Wrong
  BY <1>3, <1>4 DEF Entries, Wrong
<1>7. \A p : NameAt(p)' = NameAt(p)
  BY <1>3, <1>4 DEF NameAt
<1>8. \A p : KeyAt(p)' = KeyAt(p) /\ ValAt(p)' = ValAt(p)
  BY <1>4, <1>5, <1>7 DEF KeyAt, ValAt
<1>9. \A p : EntriesUpTo(p)' = EntriesUpTo(p) /\ Leads(p)' = Leads(p)
  BY <1>6, <1>8 DEF EntriesUpTo, Leads
<1>10. \A p : NameUpTo(p)' = NameUpTo(p)
  BY <1>3, <1>4 DEF NameUpTo, Heads
<1>11. \A p : Written(p)' = Written(p)
  BY <1>8, <1>9 DEF Written
<1> QED
  BY <1>3, <1>4, <1>6, <1>8, <1>9, <1>10, <1>11

\* The lines by their numbers.
LEMMA LinesByNumber ==
  ASSUME IInv
  PROVE  /\ Len(file) \in Nat /\ DOMAIN file = 1..Len(file) /\ pos \in 1..(Len(file) + 1)
         /\ \A p \in 1..Len(file) : file[p] \in Line
<1>1. file \in Seq(Line)
  <2>1. file \in Files \cup {<<>>}
    BY DEF IInv, TypeOK
  <2> QED
    BY <2>1, FilesAssumption, EmptySeq
<1>2. pos \in 1..(Len(file) + 1)
  BY DEF IInv, TypeOK
<1> QED
  BY <1>1, <1>2, LenProperties, ElementOfSeq

\* What is read so far, and this line with it.
LEMMA JoinedReads ==
  ASSUME IInv, AtLine, NEW s \in 1..pos, Frontier(s)
  PROVE  Reads(Joined(file[pos]), s, pos)
<1> DEFINE here == file[pos]
           l == Joined(here)
<1>1. pos \in 1..Len(file) /\ here \in Line /\ s \in Int /\ pos \in Int /\ s <= pos
  BY LinesByNumber DEF AtLine
<1>2. \A x \in s..pos : x \in s..(pos - 1) \/ x = pos
  BY <1>1
<1>3. ASSUME l = here, \A x \in s..(pos - 1) : file[x].kind = "blank"
      PROVE  Reads(l, s, pos)
  <2>1. CASE here.kind = "blank"
    BY <1>2, <1>3, <2>1 DEF Reads
  <2>2. CASE here.kind # "blank"
    <3>1. pos \in s..pos /\ \A x \in (pos + 1)..pos : FALSE
      BY <1>1
    <3> QED
      BY <1>3, <2>2, <3>1 DEF Reads
  <2> QED
    BY <2>1, <2>2
<1>4. CASE s = pos
  <2>1. l = here /\ \A x \in s..(pos - 1) : FALSE
    BY <1>1, <1>4 DEF Frontier, Joined, AtLine
  <2> QED
    BY <1>3, <2>1
<1>5. CASE s # pos /\ pending.kind = "blank"
  <2>1. l = here
    BY <1>5 DEF Joined
  <2>2. \A x \in s..(pos - 1) : file[x].kind = "blank"
    BY <1>5 DEF Frontier, Reads, AtLine
  <2> QED
    BY <1>3, <2>1, <2>2
<1>6. CASE s # pos /\ pending.kind # "blank"
  <2>1. pending # Nothing /\ Reads(pending, s, pos - 1)
    BY <1>6 DEF Frontier, AtLine
  <2>2. PICK m \in s..(pos - 1) :
          /\ file[m].kind # "blank" /\ \A x \in s..(m - 1) : file[x].kind = "blank"
          /\ pending.kind = file[m].kind /\ pending.name = file[m].name
          /\ pending.kind = "value" =>
               pending.val =
                 IF \E x \in (m + 1)..(pos - 1) : file[x].kind \notin {"blank", "comment"}
                   THEN Joint ELSE file[m].val
    BY <1>6, <2>1 DEF Reads
  <2>3. pending \in Line
    BY <2>1 DEF IInv, Pending
  <2>4. l = [pending EXCEPT !.more = here.more,
               !.val = IF pending.kind # "value" \/ here.kind \in {"blank", "comment"}
                         THEN @ ELSE Joint]
    BY <1>6, <2>1 DEF Joined
  <2> HIDE DEF here, l
  <2>5. /\ l.kind = pending.kind /\ l.name = pending.name
        /\ pending.kind = "value" =>
             l.val = IF here.kind \in {"blank", "comment"} THEN pending.val ELSE Joint
    BY <2>3, <2>4 DEF Line
  <2>6. m \in s..pos /\ m \in Int /\ m + 1 <= pos
    BY <1>1, <2>2
  <2>7. \A x \in (m + 1)..pos : x \in (m + 1)..(pos - 1) \/ x = pos
    BY <1>1, <2>6
  <2>8. \A x \in (m + 1)..(pos - 1) : x \in (m + 1)..pos
    BY <1>1, <2>6
  <2>9. pos \in (m + 1)..pos
    BY <1>1, <2>6
  <2>10. ASSUME l.kind = "value"
         PROVE  l.val = IF \E x \in (m + 1)..pos : file[x].kind \notin {"blank", "comment"}
                          THEN Joint ELSE file[m].val
    BY <2>2, <2>5, <2>7, <2>8, <2>9, <2>10 DEF here
  <2>11. Reads(l, s, pos)
    BY <2>2, <2>5, <2>6, <2>10 DEF Reads
  <2> QED
    BY <2>11 DEF l, here
<1> QED
  BY <1>4, <1>5, <1>6

\* The end of a text: the lines that are complete are now those up to this one.
LEMMA TextEnds ==
  ASSUME IInv, AtLine, NEW s \in 1..pos, Frontier(s), ~file[pos].more
  PROVE  /\ s \in Complete /\ Min(Ends(s)) = pos
         /\ \A p \in Complete : p < pos + 1 => p < s \/ p = s
<1>1. /\ pos \in 1..Len(file) /\ Len(file) \in Nat /\ DOMAIN file = 1..Len(file)
      /\ s \in Nat /\ pos \in Nat /\ s <= pos
  BY LinesByNumber DEF AtLine
<1>2. pos \in Ends(s) /\ \A q \in Ends(s) : pos <= q
  <2>1. \A q \in s..Len(file) : q < pos => file[q].more
    BY <1>1 DEF Frontier
  <2> QED
    BY <1>1, <2>1 DEF Ends
<1>3. Ends(s) \in SUBSET Nat
  BY <1>1 DEF Ends
<1>4. Min(Ends(s)) = pos
  BY <1>2, <1>3, LeastIsMin
<1>5. s \in Complete
  BY <1>1, <1>2 DEF Complete, Starts, Frontier
<1>6. ASSUME NEW p \in Complete, p < pos + 1, p > s
      PROVE  FALSE
  <2>1. p \in 1..Len(file) /\ (p = 1 \/ ~file[p - 1].more)
    BY <1>1 DEF Complete, Starts
  <2>2. p - 1 \in s..(pos - 1)
    BY <1>1, <1>6, <2>1
  <2>3. p # 1
    BY <1>1, <1>6
  <2> QED
    BY <2>1, <2>2, <2>3 DEF Frontier
<1>7. \A p \in Complete : p \in Nat
  BY <1>1 DEF Complete, Starts
<1> QED
  BY <1>1, <1>4, <1>5, <1>6, <1>7

\* A text that is complete, as the reference reads it.
LEMMA TextIsContent ==
  ASSUME IInv, NEW s \in Complete, NEW q \in 1..Len(file), s <= q, Min(Ends(s)) = q,
         NEW l, Reads(l, s, q)
  PROVE  /\ l.kind = Content(s).kind
         /\ l.kind # "blank" => l.name = Content(s).name
         /\ l.kind = "value" => l.val = IF Composed(s) THEN Joint ELSE Content(s).val
<1> DEFINE solid == {x \in s..q : file[x].kind # "blank"}
<1>1. s \in Nat /\ q \in Nat
  BY LinesByNumber DEF Complete, Starts
<1>2. /\ Content(s) = IF solid = {} THEN file[s] ELSE file[Min(solid)]
      /\ Composed(s) <=> \E x \in solid : x # Min(solid) /\ file[x].kind # "comment"
  BY DEF Content, Composed
<1>3. CASE solid = {}
  <2>1. \A x \in s..q : file[x].kind = "blank"
    BY <1>3
  <2>2. s \in s..q
    BY <1>1
  <2> QED
    BY <1>2, <1>3, <2>1, <2>2 DEF Reads
<1>4. CASE solid # {}
  <2>1. PICK m \in s..q :
          /\ file[m].kind # "blank" /\ \A x \in s..(m - 1) : file[x].kind = "blank"
          /\ l.kind = file[m].kind /\ l.name = file[m].name
          /\ l.kind = "value" =>
               l.val = IF \E x \in (m + 1)..q : file[x].kind \notin {"blank", "comment"}
                         THEN Joint ELSE file[m].val
    BY <1>4 DEF Reads
  <2>2. m \in solid /\ \A x \in solid : m <= x
    BY <1>1, <2>1
  <2>3. solid \in SUBSET Nat
    BY <1>1
  <2> HIDE DEF solid
  <2>4. Min(solid) = m
    BY <2>2, <2>3, LeastIsMin
  <2>5. Composed(s) <=> \E x \in (m + 1)..q : file[x].kind \notin {"blank", "comment"}
    <3>1. \A x \in solid : x # m => x \in (m + 1)..q
      BY <1>1, <2>2 DEF solid
    <3>2. \A x \in (m + 1)..q : x \in s..q /\ x # m
      BY <1>1
    <3>3. \A x \in (m + 1)..q : file[x].kind # "blank" => x \in solid
      BY <3>2 DEF solid
    <3>4. \A x \in solid : file[x].kind # "blank"
      BY DEF solid
    <3> QED
      BY <1>2, <2>4, <3>1, <3>2, <3>3, <3>4
  <2> QED
    BY <1>2, <1>4, <2>1, <2>4, <2>5
<1> QED
  BY <1>3, <1>4

LEMMA GreatestIsMax ==
  ASSUME NEW S \in SUBSET Nat, NEW m \in S, \A x \in S : x <= m
  PROVE  Max(S) = m
<1>1. m \in S /\ \A y \in S : m >= y
  OBVIOUS
<1>2. ASSUME NEW x \in S, \A y \in S : x >= y
      PROVE  x = m
  <2>1. x <= m /\ m <= x /\ x \in Int /\ m \in Int
    BY <1>1, <1>2
  <2> QED
    BY <2>1
<1> QED
  BY <1>1, <1>2, Zenon DEF Max

\* One more text is complete: what the reference makes of the lines up to it.
LEMMA OneMoreText ==
  ASSUME Complete \in SUBSET Nat, NEW s \in Complete, NEW e \in Nat, s < e,
         \A p \in Complete : p < e => p < s \/ p = s
  PROVE  /\ NameAt(s) = IF Content(s).kind = "section" /\ Content(s).name # <<>>
                          THEN Content(s).name ELSE NameUpTo(s)
         /\ NameUpTo(e) = NameAt(s)
         /\ EntriesUpTo(e) = IF s \in Entries THEN EntriesUpTo(s) \cup {s} ELSE EntriesUpTo(s)
         /\ Written(e) = IF s \in Entries THEN Map!Bound(Written(s), KeyAt(s), ValAt(s))
                                          ELSE Written(s)
<1>1. \A p \in Complete : p \in Nat /\ (p < e <=> p < s \/ p = s)
  OBVIOUS
<1>2. Heads(e) = {q \in Complete : q <= s /\ Content(q).kind = "section" /\ Content(q).name # <<>>}
  <2>1. \A p \in Complete : p < e <=> p <= s
    BY <1>1
  <2> QED
    BY <2>1, Zenon DEF Heads
<1>3. NameUpTo(e) = NameAt(s)
  BY <1>2 DEF NameUpTo, NameAt
<1>4. ASSUME Content(s).kind = "section" /\ Content(s).name # <<>>
      PROVE  NameUpTo(e) = Content(s).name
  <2>1. s \in Heads(e) /\ \A q \in Heads(e) : q <= s
    BY <1>1, <1>2, <1>4
  <2>2. Heads(e) \in SUBSET Nat
    BY <1>1 DEF Heads
  <2>3. Max(Heads(e)) = s
    BY <2>1, <2>2, GreatestIsMax
  <2> QED
    BY <2>1, <2>3 DEF NameUpTo
<1>5. ASSUME ~(Content(s).kind = "section" /\ Content(s).name # <<>>)
      PROVE  NameUpTo(e) = NameUpTo(s)
  <2>1. Heads(e) = Heads(s)
    BY <1>1, <1>5 DEF Heads
  <2> QED
    BY <2>1 DEF NameUpTo
<1>6. Entries \subseteq Complete
  BY DEF Entries
<1>7. EntriesUpTo(e) = IF s \in Entries THEN EntriesUpTo(s) \cup {s} ELSE EntriesUpTo(s)
  BY <1>1, <1>6 DEF EntriesUpTo
<1>8. Written(e) = IF s \in Entries THEN Map!Bound(Written(s), KeyAt(s), ValAt(s))
                                    ELSE Written(s)
  <2>1. CASE s \notin Entries
    BY <1>7, <2>1 DEF Written
  <2>2. CASE s \in Entries
    <3> DEFINE k == KeyAt(s)
               Of(x, q) == {p \in EntriesUpTo(q) : KeyAt(p) = x}
               K == {KeyAt(p) : p \in EntriesUpTo(s)}
    <3>1. {KeyAt(p) : p \in EntriesUpTo(e)} = {k} \cup K
      BY <1>7, <2>2
    <3>2. Max(Of(k, e)) = s
      <4>1. s \in Of(k, e)
        BY <1>7, <2>2
      <4>2. Of(k, e) \in SUBSET Nat /\ \A x \in Of(k, e) : x <= s
        <5>1. \A x \in EntriesUpTo(e) : x \in Nat /\ x <= s
          BY <1>1, <1>6 DEF EntriesUpTo
        <5> QED
          BY <5>1
      <4> HIDE DEF Of
      <4> QED
        BY <4>1, <4>2, GreatestIsMax
    <3>3. ASSUME NEW x, x # k
          PROVE  Of(x, e) = Of(x, s)
      BY <1>7, <2>2, <3>3
    <3>4. /\ Written(e) = [x \in {k} \cup K |-> ValAt(Max(Of(x, e)))]
          /\ Written(s) = [x \in K |-> ValAt(Max(Of(x, s)))]
      BY <3>1 DEF Written
    <3> HIDE DEF k, K, Of
    <3>5. DOMAIN Written(s) = K /\ \A x \in K : Written(s)[x] = ValAt(Max(Of(x, s)))
      BY <3>4
    <3>6. Map!Bound(Written(s), k, ValAt(s)) =
            [x \in {k} \cup K |-> IF x = k THEN ValAt(s) ELSE Written(s)[x]]
      BY <3>5 DEF Map!Bound
    <3>7. \A x \in {k} \cup K :
            ValAt(Max(Of(x, e))) = IF x = k THEN ValAt(s) ELSE Written(s)[x]
      BY <3>2, <3>3, <3>5
    <3>8. Written(e) = Map!Bound(Written(s), k, ValAt(s))
      BY <3>4, <3>6, <3>7
    <3> QED
      BY <2>2, <3>8 DEF k
  <2> QED
    BY <2>1, <2>2
<1> QED
  BY <1>3, <1>4, <1>5, <1>7, <1>8

\* What dictionary_set does with memory.
LEMMA SetOutcomes ==
  ASSUME NEW d, NEW k, NEW v, NEW short \in BOOLEAN, ~short, NEW r \in Set(d, k, v, short)
  PROVE  /\ r.ret = 0
         /\ r.dict = IF d.n > 0 /\ Places(d, k) # {}
                       THEN [d EXCEPT !.val[Min(Places(d, k))] = v]
                       ELSE Inserted(IF d.n = d.size THEN Grown(d) ELSE d, k, k, v)
<1> DEFINE Copies(x) == IF short THEN {x, Null} ELSE {x}
           room == IF d.n = d.size THEN Grown(d) ELSE d
<1>1. CASE d.n > 0 /\ Places(d, k) # {}
  <2>1. PICK w \in Copies(v) : r = [dict |-> [d EXCEPT !.val[Min(Places(d, k))] = w], ret |-> 0]
    BY <1>1 DEF Set
  <2> QED
    BY <1>1, <2>1
<1>2. CASE ~(d.n > 0 /\ Places(d, k) # {})
  <2>1. {y \in {short} : y /\ d.n = d.size} = {}
    OBVIOUS
  <2>2. \E stored \in Copies(k), w \in Copies(v) : r = [dict |-> Inserted(room, k, stored, w), ret |-> 0]
    BY <1>2, <2>1 DEF Set
  <2> HIDE DEF room
  <2>3. \E stored \in {k}, w \in {v} : r = [dict |-> Inserted(room, k, stored, w), ret |-> 0]
    BY <2>2
  <2>4. r = [dict |-> Inserted(room, k, k, v), ret |-> 0]
    BY <2>3
  <2> QED
    BY <1>2, <2>4 DEF room
<1> QED
  BY <1>1, <1>2

\* What is set with memory is kept.
LEMMA KeptIs ==
  ASSUME NEW d, IsDict(d), NEW k, k # Null, NEW v, NEW short \in BOOLEAN, ~short,
         NEW r \in Set(d, k, v, short)
  PROVE  MapOf(r.dict) = Map!Bound(MapOf(d), k, v)
BY SetIs

\* Without holes, a set appends.
LEMMA AppendedIs ==
  ASSUME NEW d, IsDict(d), Used(d) = 0..(d.n - 1), NEW k, k # Null, NEW v,
         NEW short \in BOOLEAN, ~short, NEW r \in Set(d, k, v, short)
  PROVE  /\ r.ret = 0
         /\ k \in Keys(d) => Used(r.dict) = Used(d) /\ r.dict.n = d.n /\ r.dict.key = d.key
         /\ k \notin Keys(d) =>
              /\ r.dict.n = d.n + 1 /\ Used(r.dict) = 0..d.n /\ r.dict.key[d.n] = k
              /\ \A i \in Used(d) : r.dict.key[i] = d.key[i]
<1>1. d.n \in Nat /\ d.size \in Nat \ {0} /\ d.n <= d.size /\ MinSize <= d.size
  BY DEF IsDict
<1>2. CASE k \in Keys(d)
  <2>1. PICK i \in Used(d) : d.key[i] = k
    BY <1>2 DEF Keys
  <2>2. Places(d, k) # {} /\ Min(Places(d, k)) = i
    BY <2>1, OnePlace
  <2>3. d.n > 0
    BY <1>1, <2>1
  <2>4. r.ret = 0 /\ r.dict = [d EXCEPT !.val[i] = v]
    BY <2>2, <2>3, SetOutcomes
  <2>5. r.dict.key = d.key /\ r.dict.n = d.n /\ r.dict.size = d.size
    BY <2>4 DEF IsDict
  <2> QED
    BY <1>2, <2>4, <2>5 DEF Used, Slots
<1>3. CASE k \notin Keys(d)
  <2> DEFINE room == IF d.n = d.size THEN Grown(d) ELSE d
  <2>1. Places(d, k) = {}
    BY <1>3, NoPlace
  <2>2. r.ret = 0 /\ r.dict = Inserted(room, k, k, v)
    BY <2>1, SetOutcomes
  <2>3. /\ IsDict(room) /\ room.n = d.n /\ d.n < room.size /\ Keys(room) = Keys(d)
        /\ Used(room) = Used(d) /\ \A i \in Used(d) : room.key[i] = d.key[i]
    <3>1. CASE d.n = d.size
      <4>1. IsDict(Grown(d)) /\ Grown(d).n = d.n /\ d.n < Grown(d).size /\ Keys(Grown(d)) = Keys(d)
        BY GrownIs
      <4>2. /\ Grown(d).size = 2 * d.size
            /\ Grown(d).key = [i \in 0..(2 * d.size - 1) |-> IF i < d.size THEN d.key[i] ELSE Null]
        BY DEF Grown, IsDict
      <4>3. /\ \A i \in Slots(d) : i \in Slots(Grown(d)) /\ Grown(d).key[i] = d.key[i]
            /\ \A i \in Slots(Grown(d)) : i \notin Slots(d) => Grown(d).key[i] = Null
        BY <1>1, <4>2 DEF Slots
      <4>4. Used(Grown(d)) = Used(d) /\ \A i \in Used(d) : Grown(d).key[i] = d.key[i]
        BY <4>3 DEF Used
      <4> QED
        BY <3>1, <4>1, <4>4
    <3>2. CASE d.n # d.size
      BY <1>1, <3>2
    <3> QED
      BY <3>1, <3>2
  <2> HIDE DEF room
  <2>4. InsertSlot(room) = d.n
    <3> DEFINE vacant == Slots(room) \ Used(room)
               beyond == {i \in vacant : i >= room.n}
    <3>1. Slots(room) = 0..(room.size - 1) /\ room.size \in Nat
      BY <2>3 DEF Slots, IsDict
    <3>2. d.n \in beyond /\ \A i \in beyond : d.n <= i
      BY <1>1, <2>3, <3>1
    <3>3. beyond \in SUBSET Nat
      BY <3>1
    <3>4. InsertSlot(room) = IF beyond # {} THEN Min(beyond) ELSE Min(vacant)
      BY DEF InsertSlot
    <3> HIDE DEF beyond, vacant
    <3>5. Min(beyond) = d.n
      BY <3>2, <3>3, LeastIsMin
    <3> QED
      BY <3>2, <3>4, <3>5
  <2>5. d.n \in Slots(room)
    BY <1>1, <2>3 DEF Slots, IsDict
  <2>6. r.dict = [room EXCEPT !.key[d.n] = k, !.val[d.n] = v, !.hash[d.n] = Hash(k), !.n = @ + 1]
    BY <2>2, <2>4 DEF Inserted
  <2>7. /\ r.dict.n = d.n + 1 /\ r.dict.size = room.size /\ r.dict.key = [room.key EXCEPT ![d.n] = k]
    BY <2>3, <2>6 DEF IsDict
  <2>8. DOMAIN room.key = Slots(room) /\ Slots(r.dict) = Slots(room)
    BY <2>3, <2>7 DEF IsDict, Slots
  <2>9. r.dict.key[d.n] = k /\ \A i \in Slots(room) : i # d.n => r.dict.key[i] = room.key[i]
    BY <2>5, <2>7, <2>8
  <2>10. Used(r.dict) = Used(room) \cup {d.n}
    BY <2>5, <2>8, <2>9 DEF Used
  <2>11. Used(r.dict) = 0..d.n
    BY <1>1, <2>3, <2>10
  <2>12. \A i \in Used(d) : r.dict.key[i] = d.key[i]
    <3>1. \A i \in Used(d) : i \in Slots(room) /\ i # d.n
      BY <1>1, <2>3 DEF Used
    <3> QED
      BY <2>3, <2>9, <3>1
  <2> QED
    BY <1>3, <2>2, <2>7, <2>9, <2>11, <2>12
<1> QED
  BY <1>2, <1>3

-----------------------------------------------------------------------------
\* The steps of the reading.
LEMMA ScanStart == Init => \E s \in 1..pos : Scanned(s)
<1> SUFFICES ASSUME Init
             PROVE  Scanned(1) /\ 1 \in 1..pos
  OBVIOUS
<1>1. /\ file \in Files /\ pos = 1 /\ pending = Nothing /\ section = NoSection
      /\ dict = Empty /\ errs = 0
  BY DEF Init
<1>2. Complete \subseteq 1..Len(file)
  <2>1. file \in Seq(Line)
    BY <1>1, FilesAssumption
  <2> QED
    BY <2>1, LenProperties DEF Complete, Starts
<1>3. \A p \in Complete : ~(p < 1)
  BY <1>2
<1>4. Frontier(1)
  BY <1>1 DEF Frontier
<1>5. section = NameUpTo(1)
  BY <1>1, <1>3 DEF NameUpTo, Heads
<1>6. EntriesUpTo(1) = {}
  BY <1>3 DEF EntriesUpTo, Entries
<1>7. Stored = Written(1)
  <2>1. Stored = MapOf(Empty) /\ DOMAIN MapOf(Empty) = {}
    BY <1>1, EmptyIs, ValueOfKey DEF Stored, MapOf
  <2>2. {KeyAt(p) : p \in EntriesUpTo(1)} = {}
    BY <1>6
  <2> QED
    BY <2>1, <2>2 DEF Written, MapOf
<1>8. InOrder(1)
  <2>1. Used(dict) = {}
    BY <1>1, EmptyIs DEF Keys
  <2>2. dict.n = 0
    BY <1>1 DEF Empty
  <2> QED
    BY <2>1, <2>2 DEF InOrder
<1> QED
  BY <1>1, <1>3, <1>4, <1>5, <1>7, <1>8 DEF Scanned

LEMMA ScanContinued ==
  ASSUME IInv, ReadContinued, NEW s \in 1..pos, Scanned(s)
  PROVE  s \in 1..pos' /\ Scanned(s)'
<1> DEFINE l == Joined(file[pos])
<1>1. /\ AtLine /\ file[pos].more /\ pending' = l /\ pos' = pos + 1
      /\ UNCHANGED <<file, oom, status, section, dict, errs, calls, request>>
  BY DEF ReadContinued
<1>2. /\ pos \in Nat /\ s \in Nat /\ s <= pos /\ s # pos' /\ pos' - 1 = pos
      /\ \A q \in s..pos : q \in s..(pos - 1) \/ q = pos
      /\ \A q \in 1..pos : q \in 1..(pos - 1) \/ q = pos
  BY <1>1, LinesByNumber
<1>3. Frontier(s) /\ Reads(l, s, pos)
  BY <1>1, JoinedReads DEF Scanned
<1>4. l # Nothing
  <2>1. l \in Line
    BY <1>1, JoinedIs
  <2> QED
    BY <2>1, TextAssumption
<1> HIDE DEF l
<1>5. Reads(pending, s, pos - 1)'
  BY <1>1, <1>2, <1>3 DEF Reads
<1>6. Frontier(s)'
  BY <1>1, <1>2, <1>3, <1>4, <1>5 DEF Frontier
<1>7. InOrder(s)'
  BY <1>1, SameLines DEF Scanned, InOrder, Used, Slots
<1>8. section' = NameUpTo(s)' /\ Stored' = Written(s)'
  BY <1>1, SameLines DEF Scanned, Stored
<1>9. \A q \in 1..(pos' - 1) : file'[q].kind # "long"
  BY <1>1, <1>2 DEF Scanned, AtLine
<1>10. (errs = 0 => \A p \in Complete : p < s => Content(p).kind # "junk")'
  BY <1>1, SameLines DEF Scanned
<1> QED
  BY <1>1, <1>2, <1>6, <1>7, <1>8, <1>9, <1>10 DEF Scanned

\* A text that is complete is one entry more, or none.
LEMMA ScanText ==
  ASSUME IInv, AtLine, ~file[pos].more, NEW s \in 1..pos, Scanned(s),
         NEW e, e = pos + 1, pos' = e, pending' = Nothing, UNCHANGED file,
         section' = NameAt(s), errs' = 0 => errs = 0 /\ Content(s).kind # "junk",
         Stored' = IF s \in Entries THEN Map!Bound(Stored, KeyAt(s), ValAt(s)) ELSE Stored,
         InOrder(e)'
  PROVE  e \in 1..pos' /\ Scanned(e)'
<1>1. /\ s \in Complete /\ \A p \in Complete : p < e => p < s \/ p = s
  BY TextEnds DEF Scanned
<1>2. pos \in Nat /\ s \in Nat /\ s < e /\ e \in Nat /\ e - 1 = pos /\ e # 1
  BY LinesByNumber
<1>3. Complete \in SUBSET Nat
  BY LinesByNumber DEF Complete, Starts
<1>4. /\ NameUpTo(e) = NameAt(s)
      /\ Written(e) = IF s \in Entries THEN Map!Bound(Written(s), KeyAt(s), ValAt(s))
                                       ELSE Written(s)
  BY <1>1, <1>2, <1>3, OneMoreText
<1>5. Frontier(e)'
  BY <1>2 DEF Frontier
<1>6. section' = NameUpTo(e)' /\ Stored' = Written(e)'
  BY <1>4, SameLines DEF Scanned
<1>7. (errs = 0 => \A p \in Complete : p < e => Content(p).kind # "junk")'
  BY <1>1, SameLines DEF Scanned
<1>8. \A q \in 1..(pos' - 1) : file'[q].kind # "long"
  <2>1. \A q \in 1..pos : q \in 1..(pos - 1) \/ q = pos
    BY <1>2
  <2> QED
    BY <1>2, <2>1 DEF Scanned, AtLine
<1> QED
  BY <1>2, <1>5, <1>6, <1>7, <1>8 DEF Scanned

\* An entry is set: it is in the map, and in the next slot if its key is new.
LEMMA ScanEntry ==
  ASSUME IInv, AtLine, ~file[pos].more, NEW s \in 1..pos, Scanned(s), UNCHANGED file,
         s \in Entries, NEW k, k = KeyAt(s), k # Null,
         ~oom, NEW v, v = ValAt(s), NEW r \in Set(dict, k, v, oom), dict' = r.dict,
         NEW e, e = pos + 1
  PROVE  /\ r.ret = 0 /\ Stored' = Map!Bound(Stored, k, v)
         /\ InOrder(e)'
<1>1. IsDict(dict) /\ Used(dict) = 0..(dict.n - 1) /\ dict.n \in Nat /\ oom \in BOOLEAN
  BY DEF IInv, TypeOK, Scanned, InOrder, IsDict
<1>0. k # Null /\ ~oom /\ r \in Set(dict, k, v, oom)
  OBVIOUS
<1>2. /\ r.ret = 0
      /\ k \in Keys(dict) => Used(r.dict) = Used(dict) /\ r.dict.n = dict.n /\ r.dict.key = dict.key
      /\ k \notin Keys(dict) =>
           /\ r.dict.n = dict.n + 1 /\ Used(r.dict) = 0..dict.n /\ r.dict.key[dict.n] = k
           /\ \A i \in Used(dict) : r.dict.key[i] = dict.key[i]
  BY ONLY <1>0, <1>1, AppendedIs
<1>3. Stored' = Map!Bound(Stored, k, v)
  <2>1. MapOf(r.dict) = Map!Bound(MapOf(dict), k, v)
    BY ONLY <1>0, <1>1, KeptIs
  <2> QED
    BY <2>1 DEF Stored, MapOf
<1>4. /\ s \in Complete /\ s \in Nat /\ pos \in Nat /\ s < e /\ e \in Nat
      /\ \A p \in Complete : p < e => p < s \/ p = s
  BY TextEnds, LinesByNumber DEF Scanned
<1>5. EntriesUpTo(e) = EntriesUpTo(s) \cup {s}
  <2>1. Complete \in SUBSET Nat
    BY LinesByNumber DEF Complete, Starts
  <2> QED
    BY <1>4, <2>1, OneMoreText
<1>6. Keys(dict) = {KeyAt(p) : p \in EntriesUpTo(s)}
  <2>1. DOMAIN Stored = Keys(dict)
    BY DEF Stored
  <2> QED
    BY <2>1 DEF Scanned, Written
<1>7. \A p \in EntriesUpTo(s) : p \in Entries /\ p < s
  BY DEF EntriesUpTo
<1>8. ASSUME NEW i \in Used(r.dict), NEW j \in Used(r.dict),
             NEW p \in EntriesUpTo(e), Leads(p), NEW q \in EntriesUpTo(e), Leads(q), i < j,
             r.dict.key[i] = KeyAt(p), r.dict.key[j] = KeyAt(q)
      PROVE  p < q
  <2>1. ASSUME p \in EntriesUpTo(s), q \in EntriesUpTo(s), i \in Used(dict), j \in Used(dict),
               dict.key[i] = KeyAt(p), dict.key[j] = KeyAt(q)
        PROVE  p < q
    BY <1>8, <2>1 DEF Scanned, InOrder
  <2>2. CASE k \in Keys(dict)
    <3>1. PICK x \in EntriesUpTo(s) : KeyAt(x) = k
      BY <1>6, <2>2
    <3>2. ~Leads(s)
      BY <1>7, <3>1 DEF Leads
    <3>3. p \in EntriesUpTo(s) /\ q \in EntriesUpTo(s)
      BY <1>5, <1>8, <3>2
    <3> QED
      BY <1>2, <1>8, <2>1, <2>2, <3>3
  <2>3. CASE k \notin Keys(dict)
    <3>1. i \in Used(dict) /\ (j \in Used(dict) \/ j = dict.n)
      BY <1>1, <1>2, <1>8, <2>3
    <3>2. r.dict.key[i] = dict.key[i] /\ dict.key[i] \in Keys(dict)
      BY <1>2, <2>3, <3>1 DEF Keys
    <3>3. p \in EntriesUpTo(s)
      BY <1>5, <1>8, <2>3, <3>2
    <3>4. CASE j \in Used(dict)
      <4>1. r.dict.key[j] = dict.key[j] /\ dict.key[j] \in Keys(dict)
        BY <1>2, <2>3, <3>4 DEF Keys
      <4>2. q \in EntriesUpTo(s)
        BY <1>5, <1>8, <2>3, <4>1
      <4> QED
        BY <1>8, <2>1, <3>1, <3>2, <3>3, <3>4, <4>1, <4>2
    <3>5. CASE j = dict.n
      <4>1. q = s
        BY <1>2, <1>5, <1>6, <1>8, <2>3, <3>5
      <4> QED
        BY <1>7, <3>3, <4>1
    <3> QED
      BY <3>1, <3>4, <3>5
  <2> QED
    BY <2>2, <2>3
<1>9. Used(r.dict) = 0..(r.dict.n - 1)
  BY <1>1, <1>2
<1>10. InOrder(e)'
  <2>1. Used(dict)' = Used(r.dict)
    BY DEF Used, Slots
  <2> QED
    BY <1>8, <1>9, <2>1, SameLines DEF InOrder
<1> QED
  BY <1>2, <1>3, <1>10

LEMMA ScanSection ==
  ASSUME IInv, ReadSection, ~oom, NEW s \in 1..pos, Scanned(s)
  PROVE  status' = "reading" /\ \E e \in 1..pos' : Scanned(e)'
<1> DEFINE l == Joined(file[pos])
<1>0. PICK e : e = pos + 1
  OBVIOUS
<1>1. /\ AtLine /\ l.kind = "section" /\ ~file[pos].more
      /\ section' = IF l.name = <<>> THEN section ELSE l.name
      /\ Store(section', Null) /\ pending' = Nothing /\ pos' = e
      /\ UNCHANGED <<file, oom, errs, calls>>
  BY <1>0 DEF ReadSection
<1>2. l.name \in Named("section") /\ Reads(l, s, pos)
  BY <1>1, JoinedIs, JoinedReads DEF Scanned
<1> HIDE DEF l
<1>3. section' \in AllKeys
  <2>1. section \in Sections
    BY DEF IInv
  <2> QED
    BY <1>1, <1>2, <2>1, KeysOfLines DEF Sections
<1>4. PICK r \in Set(dict, section', Null, oom) :
        dict' = r.dict /\ status' = IF r.ret < 0 THEN "read" ELSE status
  BY <1>1 DEF Store
<1>5. s \in Complete /\ Content(s).kind = "section" /\ Content(s).name = l.name
  <2>1. s \in Complete /\ Min(Ends(s)) = pos /\ pos \in 1..Len(file) /\ s <= pos
    BY <1>1, TextEnds, LinesByNumber DEF Scanned, AtLine
  <2> QED
    BY <1>1, <1>2, <2>1, TextIsContent
<1>6. section' = NameAt(s)
  <2>1. Complete \in SUBSET Nat /\ pos \in Nat /\ s < e /\ e \in Nat
    BY <1>0, LinesByNumber DEF Complete, Starts
  <2>2. NameAt(s) = IF Content(s).kind = "section" /\ Content(s).name # <<>>
                      THEN Content(s).name ELSE NameUpTo(s)
    BY <1>0, <1>1, <2>1, TextEnds, OneMoreText DEF Scanned
  <2> QED
    BY <1>1, <1>5, <2>2 DEF Scanned
<1>7. s \in Entries /\ KeyAt(s) = section' /\ ValAt(s) = Null /\ section' # Null
  BY <1>3, <1>5, <1>6, KeysAssumption DEF Entries, KeyAt, ValAt
<1>8. r.ret = 0 /\ Stored' = Map!Bound(Stored, KeyAt(s), ValAt(s)) /\ InOrder(e)'
  BY <1>0, <1>1, <1>4, <1>7, ScanEntry
<1>9. e \in 1..pos' /\ Scanned(e)'
  BY <1>0, <1>1, <1>5, <1>6, <1>7, <1>8, ScanText
<1> QED
  BY <1>1, <1>4, <1>8, <1>9 DEF AtLine

LEMMA ScanValue ==
  ASSUME IInv, ReadValue, ~oom, NEW s \in 1..pos, Scanned(s)
  PROVE  status' = "reading" /\ \E e \in 1..pos' : Scanned(e)'
<1> DEFINE l == Joined(file[pos])
           k == section \o l.name
<1>0. PICK e : e = pos + 1
  OBVIOUS
<1>1. /\ AtLine /\ l.kind = "value" /\ ~file[pos].more
      /\ Store(k, l.val) /\ pending' = Nothing /\ pos' = e
      /\ UNCHANGED <<file, oom, section, errs, calls>>
  BY <1>0 DEF ReadValue
<1>2. l.name \in Named("value") /\ Reads(l, s, pos)
  BY <1>1, JoinedIs, JoinedReads DEF Scanned
<1> HIDE DEF l
<1>3. k \in AllKeys
  BY <1>2, KeysOfLines DEF IInv
<1>4. PICK r \in Set(dict, k, l.val, oom) :
        dict' = r.dict /\ status' = IF r.ret < 0 THEN "read" ELSE status
  BY <1>1 DEF Store
<1>5. /\ s \in Complete /\ Content(s).kind = "value" /\ Content(s).name = l.name
      /\ l.val = IF Composed(s) THEN Joint ELSE Content(s).val
  <2>1. s \in Complete /\ Min(Ends(s)) = pos /\ pos \in 1..Len(file) /\ s <= pos
    BY <1>1, TextEnds, LinesByNumber DEF Scanned, AtLine
  <2> QED
    BY <1>1, <1>2, <2>1, TextIsContent
<1>6. section' = NameAt(s)
  <2>1. Complete \in SUBSET Nat /\ pos \in Nat /\ s < e /\ e \in Nat
    BY <1>0, LinesByNumber DEF Complete, Starts
  <2>2. NameAt(s) = IF Content(s).kind = "section" /\ Content(s).name # <<>>
                      THEN Content(s).name ELSE NameUpTo(s)
    BY <1>0, <1>1, <2>1, TextEnds, OneMoreText DEF Scanned
  <2> QED
    BY <1>1, <1>5, <2>2 DEF Scanned
<1>7. s \in Entries /\ KeyAt(s) = k /\ ValAt(s) = l.val /\ k # Null
  BY <1>1, <1>3, <1>5, <1>6, KeysAssumption DEF Entries, KeyAt, ValAt
<1> HIDE DEF k
<1>8. r.ret = 0 /\ Stored' = Map!Bound(Stored, KeyAt(s), ValAt(s)) /\ InOrder(e)'
  BY <1>0, <1>1, <1>4, <1>7, ScanEntry
<1>9. e \in 1..pos' /\ Scanned(e)'
  BY <1>0, <1>1, <1>5, <1>6, <1>7, <1>8, ScanText
<1> QED
  BY <1>1, <1>4, <1>8, <1>9 DEF AtLine

LEMMA ScanOther ==
  ASSUME IInv, ReadOther, NEW s \in 1..pos, Scanned(s)
  PROVE  status' = "reading" /\ \E e \in 1..pos' : Scanned(e)'
<1> DEFINE l == Joined(file[pos])
<1>0. PICK e : e = pos + 1
  OBVIOUS
<1>1. /\ AtLine /\ l.kind \in {"blank", "comment", "junk"} /\ ~file[pos].more
      /\ errs' = IF l.kind = "junk" THEN errs + 1 ELSE errs
      /\ pending' = Nothing /\ pos' = e
      /\ UNCHANGED <<file, oom, status, section, dict, calls, request>>
  BY <1>0 DEF ReadOther
<1>2. Reads(l, s, pos)
  BY <1>1, JoinedReads DEF Scanned
<1> HIDE DEF l
<1>3. s \in Complete /\ Content(s).kind = l.kind
  <2>1. s \in Complete /\ Min(Ends(s)) = pos /\ pos \in 1..Len(file) /\ s <= pos
    BY <1>1, TextEnds, LinesByNumber DEF Scanned, AtLine
  <2> QED
    BY <1>2, <2>1, TextIsContent
<1>4. s \notin Entries
  BY <1>1, <1>3 DEF Entries
<1>5. Complete \in SUBSET Nat /\ pos \in Nat /\ s < e /\ e \in Nat
  BY <1>0, LinesByNumber DEF Complete, Starts
<1>6. section' = NameAt(s) /\ EntriesUpTo(e) = EntriesUpTo(s)
  <2>1. /\ NameAt(s) = IF Content(s).kind = "section" /\ Content(s).name # <<>>
                         THEN Content(s).name ELSE NameUpTo(s)
        /\ EntriesUpTo(e) = EntriesUpTo(s)
    BY <1>0, <1>1, <1>4, <1>5, TextEnds, OneMoreText DEF Scanned
  <2> QED
    BY <1>1, <1>3, <2>1 DEF Scanned
<1>7. errs' = 0 => errs = 0 /\ Content(s).kind # "junk"
  <2>1. errs \in Nat
    BY DEF IInv, TypeOK
  <2> QED
    BY <1>1, <1>3, <2>1
<1>8. Stored' = Stored
  BY <1>1 DEF Stored
<1>9. InOrder(e)'
  BY <1>1, <1>6, SameLines DEF Scanned, InOrder, Used, Slots
<1>10. e \in 1..pos' /\ Scanned(e)'
  BY <1>0, <1>1, <1>4, <1>6, <1>7, <1>8, <1>9, ScanText
<1> QED
  BY <1>1, <1>10 DEF AtLine

LEMMA ScanStays ==
  ASSUME NEW s \in 1..pos, Scanned(s), UNCHANGED <<file, pos, section, dict, errs>>,
         status' = "loaded" \/ (status # "loaded" /\ pending' = pending)
  PROVE  s \in 1..pos' /\ Scanned(s)'
<1>1. Frontier(s)'
  BY DEF Scanned, Frontier, Reads
<1>2. InOrder(s)'
  BY SameLines DEF Scanned, InOrder, Used, Slots
<1>3. section' = NameUpTo(s)' /\ Stored' = Written(s)'
  BY SameLines DEF Scanned, Stored
<1>4. (errs = 0 => \A p \in Complete : p < s => Content(p).kind # "junk")'
  BY SameLines DEF Scanned
<1> QED
  BY <1>1, <1>2, <1>3, <1>4 DEF Scanned

LEMMA NextScan ==
  ASSUME IInv, LoadInv, [Next]_vars
  PROVE  LoadInv'
<1> SUFFICES ASSUME ~oom'
             PROVE  /\ status' \in {"closed", "reading", "loaded"} =>
                         \E s \in 1..pos' : Scanned(s)'
                    /\ status' # "read" /\ (status' = "loaded" => pos' > Len(file)')
  BY DEF LoadInv
<1>1. CASE Open
  <2>1. /\ status = "closed" /\ status' \in {"reading", "null", "crashed"} /\ ~oom
        /\ UNCHANGED <<file, oom, pos, pending, section, dict, errs>>
    BY <1>1 DEF Open
  <2>2. PICK s \in 1..pos : Scanned(s)
    BY <2>1 DEF LoadInv
  <2> QED
    BY <2>1, <2>2, ScanStays
<1>2. CASE ReadLong \/ iniparser_freedict
  BY <1>2 DEF ReadLong, iniparser_freedict
<1>3. CASE ReadContinued
  <2>1. ~oom /\ status = "reading" /\ status' = "reading"
    BY <1>3 DEF ReadContinued, AtLine
  <2>2. PICK s \in 1..pos : Scanned(s)
    BY <2>1 DEF LoadInv
  <2> QED
    BY <1>3, <2>1, <2>2, ScanContinued
<1>4. CASE ReadSection \/ ReadValue \/ ReadOther
  <2>1. ~oom /\ status = "reading"
    BY <1>4 DEF ReadSection, ReadValue, ReadOther, AtLine
  <2>2. PICK s \in 1..pos : Scanned(s)
    BY <2>1 DEF LoadInv
  <2>3. status' = "reading" /\ \E e \in 1..pos' : Scanned(e)'
    BY <1>4, <2>1, <2>2, ScanSection, ScanValue, ScanOther
  <2> QED
    BY <2>3
<1>5. CASE Return
  <2>1. ~oom /\ status \in {"read", "reading"} /\ errs \in Nat
    BY <1>5 DEF Return, IInv, TypeOK
  <2>2. status = "reading" /\ pos > Len(file)
    BY <1>5, <2>1 DEF Return, LoadInv
  <2>3. PICK s \in 1..pos : Scanned(s)
    BY <2>1, <2>2 DEF LoadInv
  <2>4. CASE status' = "null"
    BY <2>4
  <2>5. CASE status' # "null"
    <3>1. status' = "loaded" /\ UNCHANGED <<file, pos, section, dict, errs>>
      BY <1>5, <2>5 DEF Return
    <3> QED
      BY <2>2, <2>3, <3>1, ScanStays
  <2> QED
    BY <2>4, <2>5
<1>6. CASE \E k \in ApiKeys : iniparser_unset(k) \/ \E v \in Vals : iniparser_set(k, v)
  BY <1>6 DEF iniparser_set, iniparser_unset, Call
<1>7. CASE UNCHANGED vars
  <2>1. UNCHANGED <<file, oom, status, pos, pending, section, dict, errs>>
    BY <1>7 DEF vars
  <2>2. ASSUME status \in {"closed", "reading", "loaded"}
        PROVE  \E s \in 1..pos' : Scanned(s)'
    <3>1. PICK s \in 1..pos : Scanned(s)
      BY <2>1, <2>2 DEF LoadInv
    <3> QED
      BY <2>1, <3>1, ScanStays
  <2> QED
    BY <2>1, <2>2 DEF LoadInv
<1>8. ~ReadUncopied
  BY DEF ReadUncopied
<1> QED
  BY <1>1, <1>2, <1>3, <1>4, <1>5, <1>6, <1>7, <1>8 DEF Next, Load

\* When the file is at its end the texts before s are all of them.
LEMMA AllIsRead ==
  ASSUME IInv, LoadInv, status = "loaded", ~oom
  PROVE  \E s \in Nat : Scanned(s) /\ \A p \in Complete : p < s
<1>1. PICK s \in 1..pos : Scanned(s)
  BY DEF LoadInv
<1>2. /\ pos = Len(file) + 1 /\ Len(file) \in Nat /\ DOMAIN file = 1..Len(file) /\ s \in Nat
  BY LinesByNumber DEF LoadInv
<1>3. ASSUME NEW p \in Complete, ~(p < s)
      PROVE  FALSE
  <2>1. /\ p \in 1..Len(file) /\ (p = 1 \/ ~file[p - 1].more)
        /\ \E q \in p..Len(file) : ~file[q].more
    BY <1>2 DEF Complete, Starts, Ends
  <2>2. \A q \in s..Len(file) : file[q].more
    BY <1>1, <1>2 DEF Scanned, Frontier
  <2>3. \A q \in p..Len(file) : q \in s..Len(file)
    BY <1>2, <1>3, <2>1
  <2> QED
    BY <2>1, <2>2, <2>3
<1> QED
  BY <1>1, <1>2, <1>3

LEMMA LoadedIsWritten == IInv /\ LoadInv => LoadedAsWritten
<1> SUFFICES ASSUME IInv, LoadInv, status = "loaded", ~oom
             PROVE  /\ Wrong = {}
                    /\ Stored = [k \in {KeyAt(p) : p \in Entries} |->
                                   ValAt(Max({p \in Entries : KeyAt(p) = k}))]
  BY DEF LoadedAsWritten
<1>1. PICK s \in Nat : Scanned(s) /\ \A p \in Complete : p < s
  BY AllIsRead
<1>2. Wrong = {}
  <2>1. errs = 0 /\ pos > Len(file)
    BY DEF IInv, LoadInv
  <2>2. \A p \in DOMAIN file : p \in 1..(pos - 1)
    BY <2>1, LinesByNumber
  <2> QED
    BY <1>1, <2>1, <2>2 DEF Scanned, Wrong
<1>3. EntriesUpTo(s) = Entries
  BY <1>1 DEF EntriesUpTo, Entries
<1>4. Stored = Written(s)
  BY <1>1 DEF Scanned
<1> QED
  BY <1>2, <1>3, <1>4 DEF Written

-----------------------------------------------------------------------------
\* Sections by number.

\* How many elements of S come before i.
Rank(S, i) == Cardinality({j \in S : j < i})

LEMMA RankGrows ==
  ASSUME NEW S \in SUBSET Nat, IsFiniteSet(S), NEW i \in S, NEW j \in S, i < j
  PROVE  Rank(S, i) \in Nat /\ Rank(S, j) \in Nat /\ Rank(S, i) < Rank(S, j)
<1> DEFINE A == {x \in S : x < i}
           B == {x \in S : x < j}
<1>0. \A x \in S : x \in Nat /\ (x < i => x < j) /\ ~(i < i)
  OBVIOUS
<1>1. A \subseteq S /\ B \subseteq S /\ i \notin A /\ A \cup {i} \subseteq B
  BY <1>0
<1>2. IsFiniteSet(A) /\ IsFiniteSet(B)
  BY <1>1, FS_Subset
<1> HIDE DEF A, B
<1>3. /\ Cardinality(A) \in Nat /\ Cardinality(B) \in Nat
      /\ Cardinality(A \cup {i}) = Cardinality(A) + 1
  BY <1>1, <1>2, FS_CardinalityType, FS_AddElement
<1>4. Cardinality(A \cup {i}) <= Cardinality(B)
  BY <1>1, <1>2, FS_Subset
<1>5. Rank(S, i) = Cardinality(A) /\ Rank(S, j) = Cardinality(B)
  BY DEF Rank, A, B
<1> QED
  BY <1>3, <1>4, <1>5

LEMMA RankBelow ==
  ASSUME NEW S \in SUBSET Nat, IsFiniteSet(S), NEW i \in S
  PROVE  Rank(S, i) \in 0..(Cardinality(S) - 1)
<1> DEFINE A == {x \in S : x < i}
<1>1. A \subseteq S /\ i \notin A /\ A \cup {i} \subseteq S
  OBVIOUS
<1>2. IsFiniteSet(A)
  BY <1>1, FS_Subset
<1> HIDE DEF A
<1>3. /\ Cardinality(A) \in Nat /\ Cardinality(S) \in Nat
      /\ Cardinality(A \cup {i}) = Cardinality(A) + 1
  BY <1>1, <1>2, FS_CardinalityType, FS_AddElement
<1>4. Cardinality(A \cup {i}) <= Cardinality(S)
  BY <1>1, FS_Subset
<1>5. Rank(S, i) = Cardinality(A)
  BY DEF Rank, A
<1> QED
  BY <1>3, <1>4, <1>5

\* Every number below the size of S is the rank of an element.
LEMMA RanksAreAll ==
  ASSUME NEW S \in SUBSET Nat, IsFiniteSet(S), NEW n \in 0..(Cardinality(S) - 1)
  PROVE  \E i \in S : Rank(S, i) = n
<1> DEFINE Missed == {m \in 0..(Cardinality(S) - 1) : \A i \in S : Rank(S, i) # m}
<1>1. Cardinality(S) \in Nat
  BY FS_CardinalityType
<1>2. Missed \in SUBSET Nat
  BY <1>1
<1>3. ASSUME Missed # {}
      PROVE  FALSE
  <2>1. PICK m \in Missed : \A x \in Missed : m <= x
    BY <1>2, <1>3, LeastExists
  <2>2. m \in Nat /\ m < Cardinality(S) /\ \A i \in S : Rank(S, i) # m
    BY <1>1, <2>1
  <2>3. CASE m = 0
    <3>1. S # {}
      BY <2>2, <2>3, FS_EmptySet
    <3>2. PICK i \in S : \A x \in S : i <= x
      BY <3>1, LeastExists
    <3>3. {x \in S : x < i} = {}
      <4>1. \A x \in S : ~(x < i)
        BY <3>2
      <4> QED
        BY <4>1
    <3>4. Rank(S, i) = 0
      BY <3>3, FS_EmptySet DEF Rank
    <3> QED
      BY <2>2, <2>3, <3>4
  <2>4. CASE m # 0
    <3>1. m - 1 \in 0..(Cardinality(S) - 1) /\ m - 1 \notin Missed
      BY <1>1, <2>1, <2>2, <2>4
    <3>2. PICK i \in S : Rank(S, i) = m - 1
      BY <3>1
    <3> DEFINE A == {x \in S : x < i}
               T == A \cup {i}
    <3>3. A \subseteq S /\ i \notin A /\ T \subseteq S
      OBVIOUS
    <3>4. IsFiniteSet(A)
      BY <3>3, FS_Subset
    <3> HIDE DEF Missed
    <3>5. Cardinality(T) = m
      <4>1. Cardinality(A) = m - 1
        BY <3>2 DEF Rank
      <4> HIDE DEF A
      <4>2. Cardinality(A \cup {i}) = m - 1 + 1
        BY <3>3, <3>4, <4>1, FS_AddElement
      <4> QED
        BY <2>2, <4>2
    <3>6. S \ T # {}
      <4> HIDE DEF T
      <4>1. T # S
        BY <2>2, <3>5
      <4> QED
        BY <3>3, <4>1
    <3>7. PICK j \in S \ T : \A x \in S \ T : j <= x
      BY <3>6, LeastExists
    <3>8. {x \in S : x < j} = T
      <4>1. \A x \in S : x \in T <=> x <= i
        OBVIOUS
      <4>2. j \in S /\ ~(j <= i)
        BY <3>7, <4>1
      <4>3. \A x \in S : x < j <=> x <= i
        <5>1. ASSUME NEW x \in S, x < j
              PROVE  x <= i
          <6>1. x \in Nat /\ j \in Nat /\ ~(j <= x)
            BY <3>7, <5>1
          <6> HIDE DEF T
          <6>2. x \in T
            BY <3>7, <6>1
          <6> QED
            BY <4>1, <6>2
        <5>2. ASSUME NEW x \in S, x <= i
              PROVE  x < j
          BY <4>2, <5>2
        <5> QED
          BY <5>1, <5>2
      <4> HIDE DEF T
      <4> QED
        BY <3>3, <4>1, <4>3
    <3> HIDE DEF T
    <3>9. Rank(S, j) = m
      BY <3>5, <3>8 DEF Rank
    <3> QED
      BY <2>2, <3>7, <3>9
  <2> QED
    BY <2>3, <2>4
<1> QED
  BY <1>3

\* iniparser_getsecname: the slot with its number.
LEMMA SectionNames ==
  ASSUME NEW d, IsDict(d)
  PROVE  /\ SectionSlots(d) \in SUBSET Nat /\ IsFiniteSet(SectionSlots(d))
         /\ \A n \in 0..(getnsec(d) - 1) : \E i \in SectionSlots(d) :
              Rank(SectionSlots(d), i) = n /\ getsecname(d, n) = d.key[i]
         /\ \A i \in SectionSlots(d) : \E n \in 0..(getnsec(d) - 1) :
              getsecname(d, n) = d.key[i]
<1> DEFINE S == SectionSlots(d)
<1>1. S \in SUBSET Nat /\ IsFiniteSet(S)
  <2>1. S \subseteq Used(d)
    BY DEF SectionSlots
  <2> QED
    BY <2>1, UsedIsFinite, FS_Subset
<1>2. getnsec(d) = Cardinality(S)
  BY DEF getnsec
<1>3. \A n \in 0..(getnsec(d) - 1) :
        getsecname(d, n) = d.key[CHOOSE i \in S : Rank(S, i) = n]
  BY DEF getsecname, Rank
<1> HIDE DEF S
<1>4. ASSUME NEW n \in 0..(getnsec(d) - 1)
      PROVE  \E i \in S : Rank(S, i) = n /\ getsecname(d, n) = d.key[i]
  <2>1. \E i \in S : Rank(S, i) = n
    BY <1>1, <1>2, RanksAreAll
  <2> QED
    BY <1>3, <2>1
<1>5. ASSUME NEW i \in S
      PROVE  \E n \in 0..(getnsec(d) - 1) : getsecname(d, n) = d.key[i]
  <2>1. Rank(S, i) \in 0..(getnsec(d) - 1)
    BY <1>1, <1>2, RankBelow
  <2>2. PICK j \in S : Rank(S, j) = Rank(S, i) /\ getsecname(d, Rank(S, i)) = d.key[j]
    BY <1>4, <2>1
  <2>3. i \in Nat /\ j \in Nat /\ ~(i < j) /\ ~(j < i)
    BY <1>1, <2>2, RankGrows
  <2>4. i = j
    BY <2>3
  <2> QED
    BY <2>1, <2>2, <2>4
<1> QED
  BY <1>1, <1>4, <1>5 DEF S

\* The first line of a key.
LEMMA FirstLeads ==
  ASSUME IInv, NEW k, \E p \in Entries : KeyAt(p) = k
  PROVE  LET p == Min({q \in Entries : KeyAt(q) = k})
         IN p \in Entries /\ Leads(p) /\ KeyAt(p) = k
<1> DEFINE Of == {q \in Entries : KeyAt(q) = k}
<1>1. Of \in SUBSET Nat /\ Of # {}
  BY LinesByNumber DEF Entries, Complete, Starts
<1>2. Min(Of) \in Of /\ \A x \in Of : Min(Of) <= x
  BY <1>1, MinIsLeast
<1>3. \A q \in Entries : q < Min(Of) => KeyAt(q) # k
  <2>1. \A q \in Entries : q \in Nat
    BY LinesByNumber DEF Entries, Complete, Starts
  <2> QED
    BY <1>1, <1>2, <2>1
<1> QED
  BY <1>2, <1>3 DEF Leads

\* The greatest element of a set of natural numbers that has a bound.
LEMMA MaxIsGreatest ==
  ASSUME NEW S \in SUBSET Nat, S # {}, NEW b \in Nat, \A x \in S : x <= b
  PROVE  Max(S) \in S
<1> DEFINE Above == {n \in Nat : \A x \in S : x <= n}
<1>1. Above \in SUBSET Nat /\ Above # {}
  OBVIOUS
<1>2. PICK m \in Above : \A n \in Above : m <= n
  BY <1>1, LeastExists
<1>3. m \in S
  <2>1. SUFFICES ASSUME m \notin S
                 PROVE  FALSE
    OBVIOUS
  <2>2. m \in Nat /\ \A x \in S : x \in Nat /\ x < m
    BY <1>2, <2>1
  <2>3. m - 1 \in Nat /\ \A x \in S : x <= m - 1
    <3>1. \E x \in S : x \in Nat /\ x < m
      BY <2>2
    <3> QED
      BY <2>2, <3>1
  <2>4. m - 1 \in Above
    BY <2>3
  <2> QED
    BY <1>2, <2>2, <2>4
<1>4. \A x \in S : x <= m
  BY <1>2
<1>5. Max(S) = m
  BY <1>3, <1>4, GreatestIsMax
<1> QED
  BY <1>3, <1>5

\* The words of joined names.
LEMMA Words ==
  ASSUME NEW S, NEW s \in Seq(S), NEW t \in Seq(S)
  PROVE  /\ Cardinality(DOMAIN s) = Len(s)
         /\ Cardinality(DOMAIN (s \o t)) = Len(s \o t)
<1>1. s \o t \in Seq(S)
  BY ConcatProperties
<1>2. ASSUME NEW u \in Seq(S)
      PROVE  Cardinality(DOMAIN u) = Len(u)
  <2>1. Len(u) \in Nat /\ DOMAIN u = 1..Len(u)
    BY LenProperties
  <2> DEFINE n == Len(u)
  <2> HIDE DEF n
  <2>2. n \in Nat => Cardinality(1..n) = n
    BY FS_Interval
  <2> QED
    BY <2>1, <2>2 DEF n
<1> QED
  BY <1>1, <1>2

LEMMA WiderSeq ==
  ASSUME NEW S, NEW T, NEW s \in Seq(S)
  PROVE  s \in Seq(S \cup T)
BY LenProperties, ElementOfSeq, SeqDef

LEMMA KeysAreSequences ==
  ASSUME IInv, NEW p \in Entries
  PROVE  Cardinality(DOMAIN KeyAt(p)) = Len(KeyAt(p))
<1> DEFINE W == STRING \cup {""}
<1>1. ASSUME NEW q \in Complete
      PROVE  Content(q).name \in Seq(W)
  <2> DEFINE extent == q..Min(Ends(q))
             solid == {x \in extent : file[x].kind # "blank"}
  <2>1. q \in 1..Len(file) /\ Ends(q) # {} /\ Len(file) \in Nat
    BY LinesByNumber DEF Complete, Starts
  <2>2. Ends(q) \in SUBSET Nat /\ \A x \in Ends(q) : x \in 1..Len(file)
    BY <2>1 DEF Ends
  <2>3. Min(Ends(q)) \in 1..Len(file)
    BY <2>1, <2>2, MinIsLeast
  <2>4. extent \subseteq 1..Len(file)
    BY <2>1, <2>3
  <2>5. solid \in SUBSET Nat /\ solid \subseteq 1..Len(file)
    BY <2>1, <2>4
  <2>6. Content(q) = IF solid = {} THEN file[q] ELSE file[Min(solid)]
    BY DEF Content
  <2> HIDE DEF solid
  <2>7. solid # {} => Min(solid) \in 1..Len(file)
    BY <2>5, MinIsLeast
  <2>8. Content(q) \in Line
    BY <2>1, <2>6, <2>7, LinesByNumber
  <2>9. Content(q).name \in Seq(STRING)
    BY <2>8 DEF Line
  <2> QED
    BY <2>9, WiderSeq
<1>2. NameAt(p) \in Seq(W)
  <2> DEFINE heads == {q \in Complete : q <= p /\ Content(q).kind = "section"
                                         /\ Content(q).name # <<>>}
  <2>1. p \in Nat /\ heads \in SUBSET Nat /\ heads \subseteq Complete /\ \A x \in heads : x <= p
    BY LinesByNumber DEF Entries, Complete, Starts
  <2>2. NameAt(p) = IF heads = {} THEN NoSection ELSE Content(Max(heads)).name
    BY DEF NameAt
  <2> HIDE DEF heads
  <2>3. heads # {} => Max(heads) \in Complete
    BY <2>1, MaxIsGreatest
  <2>4. NoSection \in Seq(W)
    BY DEF NoSection
  <2> QED
    BY <1>1, <2>2, <2>3, <2>4
<1>3. p \in Complete
  BY DEF Entries
<1> HIDE DEF W
<1> QED
  BY <1>1, <1>2, <1>3, Words DEF KeyAt

LEMMA LoadedInOrder == IInv /\ LoadInv => SectionsInOrder
<1> DEFINE First(k) == Min({p \in Entries : KeyAt(p) = k})
           names == {getsecname(dict, n) : n \in 0..(getnsec(dict) - 1)}
<1> SUFFICES ASSUME IInv, LoadInv, status = "loaded", ~oom
             PROVE  /\ names = {KeyAt(p) : p \in {q \in Entries : Len(KeyAt(q)) = 1}}
                    /\ \A m, n \in 0..(getnsec(dict) - 1) :
                         m < n => First(getsecname(dict, m)) < First(getsecname(dict, n))
  BY DEF SectionsInOrder
<1>1. PICK s \in Nat : Scanned(s) /\ \A p \in Complete : p < s
  BY AllIsRead
<1>2. EntriesUpTo(s) = Entries
  BY <1>1 DEF EntriesUpTo, Entries
<1>3. IsDict(dict) /\ Keys(dict) \subseteq AllKeys
  BY DEF IInv
<1>4. Keys(dict) = {KeyAt(p) : p \in Entries}
  <2>1. DOMAIN Stored = Keys(dict)
    BY DEF Stored
  <2> QED
    BY <1>1, <1>2, <2>1 DEF Scanned, Written
<1>5. \A p \in Entries : Cardinality(DOMAIN KeyAt(p)) = Len(KeyAt(p))
  BY KeysAreSequences
<1>6. names = {KeyAt(p) : p \in {q \in Entries : Len(KeyAt(q)) = 1}}
  <2>1. names = {dict.key[i] : i \in SectionSlots(dict)}
    BY <1>3, SectionNames
  <2>2. \A i \in SectionSlots(dict) : \E p \in Entries :
          KeyAt(p) = dict.key[i] /\ Len(KeyAt(p)) = 1
    BY <1>4, <1>5 DEF SectionSlots, Keys
  <2>3. \A p \in Entries : Len(KeyAt(p)) = 1 =>
          \E i \in SectionSlots(dict) : dict.key[i] = KeyAt(p)
    BY <1>4, <1>5 DEF SectionSlots, Keys
  <2> HIDE DEF names
  <2> QED
    BY <2>1, <2>2, <2>3
<1>7. ASSUME NEW m \in 0..(getnsec(dict) - 1), NEW n \in 0..(getnsec(dict) - 1), m < n
      PROVE  First(getsecname(dict, m)) < First(getsecname(dict, n))
  <2> DEFINE S == SectionSlots(dict)
  <2>1. PICK i \in S : Rank(S, i) = m /\ getsecname(dict, m) = dict.key[i]
    BY <1>3, SectionNames
  <2>2. PICK j \in S : Rank(S, j) = n /\ getsecname(dict, n) = dict.key[j]
    BY <1>3, SectionNames
  <2>3. i < j
    <3>1. S \in SUBSET Nat /\ IsFiniteSet(S)
      BY <1>3, SectionNames
    <3> HIDE DEF S
    <3>2. i \in Nat /\ j \in Nat /\ m \in Int /\ n \in Int
      BY <3>1
    <3>3. j < i => n < m
      BY <2>1, <2>2, <3>1, RankGrows
    <3>4. i = j => m = n
      BY <2>1, <2>2
    <3> QED
      BY <1>7, <3>2, <3>3, <3>4
  <2>4. /\ i \in Used(dict) /\ j \in Used(dict)
        /\ dict.key[i] \in Keys(dict) /\ dict.key[j] \in Keys(dict)
    BY DEF SectionSlots, Keys
  <2>5. /\ First(dict.key[i]) \in Entries /\ Leads(First(dict.key[i]))
        /\ KeyAt(First(dict.key[i])) = dict.key[i]
        /\ First(dict.key[j]) \in Entries /\ Leads(First(dict.key[j]))
        /\ KeyAt(First(dict.key[j])) = dict.key[j]
    BY <1>4, <2>4, FirstLeads
  <2> HIDE DEF First, S
  <2>6. First(dict.key[i]) < First(dict.key[j])
    BY <1>1, <1>2, <2>3, <2>4, <2>5 DEF Scanned, InOrder
  <2> QED
    BY <2>1, <2>2, <2>6
<1> QED
  BY <1>6, <1>7

\* With memory, what is loaded is what the lines of the file say, joined lines,
\* repeated keys and the empty section name included.
THEOREM FileIsLoaded == Spec => []LoadedAsWritten
<1>1. Init => LoadInv
  BY ScanStart DEF Init, LoadInv
<1> QED
  BY <1>1, NextScan, Invariance, LoadedIsWritten, PTL DEF Spec

\* The sections are numbered as they come up in the file.
THEOREM SectionsNumbered == Spec => []SectionsInOrder
<1>1. Init => LoadInv
  BY ScanStart DEF Init, LoadInv
<1> QED
  BY <1>1, NextScan, Invariance, LoadedInOrder, PTL DEF Spec
=====
