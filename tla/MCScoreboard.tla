--------------------------- MODULE MCScoreboard ---------------------------
(***************************************************************************)
(* Instances of Scoreboard for TLC: the calls each run chooses from.       *)
(***************************************************************************)
EXTENDS Scoreboard

\* An argument list: every counter "leave alone" for the action, except over.
SetCall(over) ==
  [action |-> "SET",
   arg |-> [f \in ArgFields |->
              IF f \in DOMAIN over THEN over[f]
              ELSE IF f = "slow_rq" THEN 0 ELSE -1]]
IncCall(over) ==
  [action |-> "INC",
   arg |-> [f \in ArgFields |-> IF f \in DOMAIN over THEN over[f] ELSE 0]]

\* A worker accepts a request, finishes one; the master counts an overload.
Accept == IncCall([idle |-> -1, active |-> 1])
Finish == IncCall([idle |-> 1, active |-> -1, requests |-> 1])
TakeBack == IncCall([requests |-> -1, max_children_reached |-> 1])

\* pmf_sockets_init_main records the backlog; the master refreshes the queue.
Backlog == SetCall([lq_len |-> 2])
Refresh == SetCall([idle |-> 1, active |-> 0, lq |-> 2, slow_rq |-> 1])
Drained == SetCall([idle |-> 2, active |-> 2, lq |-> 0])

MixedCalls == {Accept, Finish, TakeBack, Refresh, Drained}
StartupCalls == {Backlog, Accept}
=============================================================================
