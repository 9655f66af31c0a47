--------------------------- MODULE ListenAddress ---------------------------
(***************************************************************************)
(* What a pool's listen address promises its clients: one instance of the  *)
(* program serves it at a time, a client that connects reaches that one,   *)
(* and nobody takes the address from an instance that is serving it.       *)
(***************************************************************************)
CONSTANTS Instances, Nobody

VARIABLES
  serving,   \* the instances that accept connections
  reached    \* the instance a client that connects now reaches

vars == <<serving, reached>>

Init == serving = {} /\ reached = Nobody

Serve(i) ==
  /\ serving = {}
  /\ serving' = {i}
  /\ reached' = i

Stop(i) ==
  /\ i \in serving
  /\ serving' = serving \ {i}
  /\ reached' = Nobody

Next == \E i \in Instances : Serve(i) \/ Stop(i)

Spec == Init /\ [][Next]_vars
=============================================================================
