----------------------------- MODULE Dispatcher -----------------------------
(***************************************************************************)
(* What an event module promises whoever registers events with it: in each *)
(* round callbacks are called only for events that were registered and     *)
(* reported when the round began, and once for each, unless it is removed  *)
(* in the round and added again.                                           *)
(***************************************************************************)
CONSTANTS Events, Nobody

VARIABLES
  registered,   \* the events added and not removed
  round,        \* the events that are reported in this round
  eligible,     \* those of them the round may still call
  called        \* the event called last

vars == <<registered, round, eligible, called>>

Init == registered = {} /\ round = {} /\ eligible = {} /\ called = Nobody

\* An event added in a round it was reported in may be called once more.
Add(e) ==
  /\ registered' = registered \cup {e}
  /\ eligible' \in {eligible, eligible \cup (({e} \cap round) \ registered)}
  /\ UNCHANGED <<round, called>>

\* One that is removed may still be called, or not.
Remove(e) ==
  /\ registered' = registered \ {e}
  /\ eligible' \in {eligible, eligible \ {e}}
  /\ UNCHANGED <<round, called>>

BeginRound ==
  /\ round = {}
  /\ round' \in SUBSET registered
  /\ eligible' = round'
  /\ called' = Nobody
  /\ UNCHANGED registered

Call(e) ==
  /\ e \in eligible
  /\ eligible' = eligible \ {e}
  /\ called' = e
  /\ UNCHANGED <<registered, round>>

EndRound ==
  /\ eligible = {}
  /\ round' = {}
  /\ UNCHANGED <<registered, eligible, called>>

Close ==
  /\ registered' = {} /\ round' = {} /\ eligible' = {}
  /\ UNCHANGED called

Next ==
  \/ BeginRound \/ EndRound \/ Close
  \/ \E e \in Events : Add(e) \/ Remove(e) \/ Call(e)

Spec == Init /\ [][Next]_vars
=============================================================================
