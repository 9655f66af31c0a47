----------------------------- MODULE PoolConfig -----------------------------
(***************************************************************************)
(* pmf_conf_process_all_pools (pmf_conf.c): the pools of the configuration *)
(* are checked one after the other and completed in place; the first one   *)
(* refused ends the start.  The later stages (scoreboard, sockets, events, *)
(* the process manager) rely on what it leaves behind.                     *)
(***************************************************************************)
EXTENDS Integers, Sequences

CONSTANTS
  Configurations,   \* the lists of pools the ini files may define
  BacklogDefault,   \* PMF_BACKLOG_DEFAULT
  Unset             \* the priority that stands for "not configured"

Pool == [address : {"unset", "inet", "absolute", "relative"},
         priority : Int,
         pm : {"unset", "static", "dynamic", "ondemand"},
         max_children : Int, start : Int, min_spare : Int, max_spare : Int,
         idle_timeout : Int, backlog : Int]

ASSUME ConfigurationsAssumption == Configurations \subseteq Seq(Pool)
ASSUME ParametersAssumption ==
  BacklogDefault \in Nat /\ Unset \in Int

VARIABLES
  support_edge_trigger,   \* of the event module chosen before: TRUE for epoll
  pools,    \* pmf_worker_all_pools, with their configurations
  wp,       \* the pool the loop has come to
  status    \* "checking", or what the function returned

vars == <<support_edge_trigger, pools, wp, status>>

-----------------------------------------------------------------------------
\* listen must be set, and the path of a unix socket absolute.
AddressRefused(c) == c.address \in {"unset", "relative"}

PriorityRefused(c) == c.priority # Unset /\ c.priority \notin -19..20

\* Slip: max_spare_servers is not compared with max_children.
DynamicRefusedLoosely(c) ==
  \/ c.min_spare <= 0
  \/ c.max_spare <= 0
  \/ c.min_spare > c.max_children
  \/ c.max_spare < c.min_spare
  \/ c.start > 0 /\ c.start \notin c.min_spare..c.max_spare

DynamicRefused(c) ==
  \/ c.min_spare <= 0
  \/ c.max_spare <= 0
  \/ c.min_spare > c.max_children
  \/ c.max_spare > c.max_children
  \/ c.max_spare < c.min_spare
  \/ c.start > 0 /\ c.start \notin c.min_spare..c.max_spare

OndemandRefused(c) == ~support_edge_trigger \/ c.idle_timeout < 1

Refused(c) ==
  \/ AddressRefused(c)
  \/ PriorityRefused(c)
  \/ c.pm = "unset"
  \/ c.max_children < 1
  \/ c.pm = "dynamic" /\ DynamicRefused(c)
  \/ c.pm = "ondemand" /\ OndemandRefused(c)

\* start_servers not set: half way between the spare servers.
Midpoint(c) == c.min_spare + (c.max_spare - c.min_spare) \div 2

\* Slip: the idle timeout is reset with the unused settings.
CompletedOndemandTooEagerly(c) ==
  [c EXCEPT !.backlog = IF @ < BacklogDefault THEN BacklogDefault ELSE @,
            !.start = 0, !.min_spare = 0, !.max_spare = 0, !.idle_timeout = 0]

\* Slip: the backlog is only warned about.
CompletedOndemandWarning(c) ==
  [c EXCEPT !.start = 0, !.min_spare = 0, !.max_spare = 0]

CompletedOndemand(c) ==
  [c EXCEPT !.backlog = IF @ < BacklogDefault THEN BacklogDefault ELSE @,
            !.start = 0, !.min_spare = 0, !.max_spare = 0]

\* What an accepted pool is changed to.
Completed(c) ==
  IF c.pm = "dynamic" /\ c.start <= 0 THEN [c EXCEPT !.start = Midpoint(c)]
  ELSE IF c.pm = "ondemand" THEN CompletedOndemand(c)
  ELSE c

-----------------------------------------------------------------------------
Init ==
  /\ support_edge_trigger \in BOOLEAN
  /\ pools \in Configurations
  /\ wp = 1
  /\ status = "checking"

AcceptPool ==
  /\ status = "checking"
  /\ wp <= Len(pools)
  /\ ~Refused(pools[wp])
  /\ pools' = [pools EXCEPT ![wp] = Completed(@)]
  /\ wp' = wp + 1
  /\ UNCHANGED <<support_edge_trigger, status>>

RefusePool ==
  /\ status = "checking"
  /\ wp <= Len(pools)
  /\ Refused(pools[wp])
  /\ status' = "refused"
  /\ UNCHANGED <<support_edge_trigger, pools, wp>>

\* "No pool defined. at least one pool section must be specified"
RefuseNoPool ==
  /\ status = "checking"
  /\ pools = <<>>
  /\ status' = "refused"
  /\ UNCHANGED <<support_edge_trigger, pools, wp>>

AcceptAll ==
  /\ status = "checking"
  /\ pools # <<>>
  /\ wp > Len(pools)
  /\ status' = "accepted"
  /\ UNCHANGED <<support_edge_trigger, pools, wp>>

Next == AcceptPool \/ RefusePool \/ RefuseNoPool \/ AcceptAll

Spec == Init /\ [][Next]_vars

-----------------------------------------------------------------------------
\* Types of the variables.
TypeOK ==
  /\ support_edge_trigger \in BOOLEAN
  /\ pools \in Seq(Pool)
  /\ wp \in 1..(Len(pools) + 1)
  /\ status \in {"checking", "accepted", "refused"}

\* What the process manager may rely on in a dynamic pool.
SpareBounds(c) ==
  c.pm = "dynamic" =>
    /\ 0 < c.min_spare
    /\ c.min_spare <= c.start
    /\ c.start <= c.max_spare
    /\ c.max_spare <= c.max_children

\* And in an ondemand pool: edge triggering, a timeout to end idle children
\* with, room for the connections that wait for a child, no spare children.
OndemandReady(c) ==
  c.pm = "ondemand" =>
    /\ support_edge_trigger
    /\ c.idle_timeout >= 1
    /\ c.backlog >= BacklogDefault
    /\ c.start = 0 /\ c.min_spare = 0 /\ c.max_spare = 0

\* When the function returns 0, every pool, the last as the first, has a
\* child to run, an address to listen on, spare counts that fit, and what
\* ondemand needs of it and of the event module.
AcceptedPoolsSound ==
  status = "accepted" =>
    /\ pools # <<>>
    /\ \A k \in DOMAIN pools :
         /\ pools[k].max_children >= 1
         /\ pools[k].address \in {"inet", "absolute"}
         /\ SpareBounds(pools[k])
         /\ OndemandReady(pools[k])

\* A pool the function has completed would be accepted again, and would not
\* be changed again: the computed start_servers and the cleared spare counts
\* satisfy the very checks they are made after.
CompletionIsStable ==
  \A k \in 1..(wp - 1) :
    ~Refused(pools[k]) /\ Completed(pools[k]) = pools[k]
=============================================================================
