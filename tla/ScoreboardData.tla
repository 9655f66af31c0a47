-------------------------- MODULE ScoreboardData --------------------------
(***************************************************************************)
(* The counters of a pool's scoreboard (pmf_scoreboard.h) and what one     *)
(* call of pmf_scoreboard_update does to each of them, with no process and *)
(* no memory: the state machines are in Scoreboard and AtomicScoreboard.   *)
(***************************************************************************)
EXTENDS Integers, Sequences

CONSTANTS
  Calls,     \* the argument lists pmf_scoreboard_update is called with
  UModulus   \* 2^w, w the width of the unsigned counters

\* Every counter pmf_scoreboard_update may write.
Fields == {"idle", "active", "active_max", "requests",
           "max_children_reached", "lq", "lq_max", "lq_len", "slow_rq"}

\* The counters that arrive as arguments; the two others are derived.
ArgFields == Fields \ {"active_max", "lq_max"}

\* unsigned long requests, slow_rq; unsigned int max_children_reached, lq_len
UnsignedFields == {"requests", "max_children_reached", "slow_rq", "lq_len"}

Call == [action : {"SET", "INC"}, arg : [ArgFields -> Int]]

ASSUME CallsAssumption == Calls \subseteq Call
ASSUME UModulusAssumption == UModulus \in Nat \ {0}

\* A freshly mapped anonymous page is zero.
ZeroBoard == [f \in Fields |-> 0]

\* Slips: lq_max compared before lq is written; active_max updated by SET only.
SetOrderMaxFirst == <<"idle", "active", "lq_max", "lq", "lq_len", "requests",
                      "max_children_reached", "slow_rq", "active_max">>
IncOrderNoMax == <<"idle", "active", "requests", "max_children_reached", "slow_rq">>

\* The counters in the order in which each branch of the code visits them.
SetOrder == <<"idle", "active", "lq", "lq_len", "lq_max", "requests",
              "max_children_reached", "slow_rq", "active_max">>
IncOrder == <<"idle", "active", "requests", "max_children_reached",
              "slow_rq", "active_max">>

Order(c) == IF c.action = "SET" THEN SetOrder ELSE IncOrder

\* A high-water mark is compared with the counter it tracks; any other
\* counter only depends on its own previous value.
Source(f) == IF f = "lq_max" THEN "lq"
             ELSE IF f = "active_max" THEN "active"
             ELSE f

\* An int converted to the type of the counter it is stored in.
Converted(f, n) == IF f \in UnsignedFields THEN n % UModulus ELSE n

\* ACTION_SET: a negative argument leaves the counter alone, and so does a
\* zero slow_rq, the one comparison that is strict.
SetsField(f, n) == IF f = "slow_rq" THEN n > 0 ELSE n >= 0

\* Slip: no clamp at zero.
IncrementedUnclamped(f, x, d) == Converted(f, x + d)

\* ACTION_INC: "if (x + d > 0) x += d; else x = 0", in the counter's own type.
Incremented(f, x, d) ==
  LET sum == Converted(f, x + d) IN IF sum > 0 THEN sum ELSE 0

\* Slip: the high-water mark follows the counter down as well.
StoresAlways(c, f, x, y) ==
  IF f \in ArgFields
    THEN c.action = "INC" \/ SetsField(f, c.arg[f])
    ELSE TRUE

\* Whether the code stores into f at all, and what it stores, when it has
\* read x from f and y from Source(f).
Stores(c, f, x, y) ==
  IF f \in ArgFields
    THEN c.action = "INC" \/ SetsField(f, c.arg[f])
    ELSE y > x

Stored(c, f, x, y) ==
  IF f \in ArgFields
    THEN IF c.action = "SET" THEN Converted(f, c.arg[f])
                             ELSE Incremented(f, x, c.arg[f])
    ELSE y
=============================================================================
