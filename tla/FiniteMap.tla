----------------------------- MODULE FiniteMap ------------------------------
(***************************************************************************)
(* What a dictionary promises: a map from keys to values, where a set may  *)
(* lose the key or the value when memory is short, and nothing else.       *)
(***************************************************************************)
CONSTANTS Key, Value, Null

VARIABLES
  map,      \* the keys that are there, with their values
  request,  \* the last call
  oom       \* whether allocations may fail

vars == <<map, request, oom>>

Init == map = <<>> /\ request = <<>>

\* Map f with k bound to v.
Bound(f, k, v) == [x \in {k} \cup DOMAIN f |-> IF x = k THEN v ELSE f[x]]

\* The value is lost, or the new key, or the call is refused.
Short(k) ==
  \/ map' = Bound(map, k, Null)
  \/ k \notin DOMAIN map /\ UNCHANGED map

Put(k, v) ==
  /\ request' = <<"set", k, v>>
  /\ map' = Bound(map, k, v) \/ (oom /\ Short(k))

Remove(k) ==
  /\ request' = <<"unset", k>>
  /\ map' = [x \in DOMAIN map \ {k} |-> map[x]]

Clear == request' = <<>> /\ map' = <<>>

Next ==
  /\ Clear \/ \E k \in Key : Remove(k) \/ \E v \in Value : Put(k, v)
  /\ UNCHANGED oom

Spec == Init /\ [][Next]_vars
=============================================================================
