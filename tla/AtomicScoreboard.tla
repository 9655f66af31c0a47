------------------------- MODULE AtomicScoreboard -------------------------
(***************************************************************************)
(* What pmf_scoreboard_update promises its callers: the counters change    *)
(* as if each call that returns took effect in one indivisible step, and   *)
(* a call whose process is killed before it returns had no effect.         *)
(***************************************************************************)
EXTENDS ScoreboardData

CONSTANTS Procs, NoCall

VARIABLES
  board,     \* the counters of the pool
  pending,   \* the call each process has begun and not returned from
  alive      \* the processes that have not been killed

vars == <<board, pending, alive>>

Larger(x, y) == IF y > x THEN y ELSE x

\* The value a counter that arrives as an argument has after call c.
NewArgument(c, f, x) ==
  IF c.action = "SET"
    THEN IF SetsField(f, c.arg[f]) THEN Converted(f, c.arg[f]) ELSE x
    ELSE IF f \in {"lq", "lq_len"} THEN x
    ELSE IF f \in {"idle", "active"} THEN Larger(0, x + c.arg[f])
    ELSE (x + c.arg[f]) % UModulus

\* The scoreboard after call c: the high-water marks follow the new values.
Result(c, b) ==
  [f \in Fields |->
     IF f \in ArgFields THEN NewArgument(c, f, b[f])
     ELSE IF f = "lq_max" /\ c.action # "SET" THEN b[f]
     ELSE Larger(b[f], NewArgument(c, Source(f), b[Source(f)]))]

Init ==
  /\ board = ZeroBoard
  /\ pending = [p \in Procs |-> NoCall]
  /\ alive = Procs

Begin(p) ==
  /\ p \in alive
  /\ pending[p] = NoCall
  /\ \E c \in Calls : pending' = [pending EXCEPT ![p] = c]
  /\ UNCHANGED <<board, alive>>

Return(p) ==
  /\ p \in alive
  /\ pending[p] # NoCall
  /\ board' = Result(pending[p], board)
  /\ pending' = [pending EXCEPT ![p] = NoCall]
  /\ UNCHANGED alive

Kill(p) ==
  /\ p \in alive
  /\ alive' = alive \ {p}
  /\ UNCHANGED <<board, pending>>

Next == \E p \in Procs : Begin(p) \/ Return(p) \/ Kill(p)

Spec == Init /\ [][Next]_vars
=============================================================================
