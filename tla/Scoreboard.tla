---------------------------- MODULE Scoreboard ----------------------------
(***************************************************************************)
(* pmf_scoreboard_update (pmf_scoreboard.c) run by several processes on    *)
(* one scoreboard in shared memory, guarded by pmf_spinlock (pmf_atomic.h).*)
(* A process performs one memory access per step: the compare-and-set, the *)
(* load and the store of each counter, the store that releases the lock.   *)
(* The master kills workers with signals, at any of these points.          *)
(***************************************************************************)
EXTENDS ScoreboardData

CONSTANTS
  Procs,      \* the processes that share the page: the master and the workers
  Workers,    \* those the master may kill
  NoCall,     \* stands for "no call in progress"
  MaxCalls    \* bound: the calls one process makes

ASSUME ProcsAssumption == Workers \subseteq Procs
ASSUME NoCallAssumption == NoCall \notin Calls
ASSUME MaxCallsAssumption == MaxCalls \in Nat

VARIABLES
  lock,        \* scoreboard->lock
  board,       \* the counters in shared memory
  pc,          \* the access each process is about to make
  call,        \* the arguments of its current call
  pos,         \* the counter of Order(call) it has come to
  reg,         \* what it loaded: the counter and the counter's source
  alive,       \* the processes that have not been killed
  left,        \* the calls each process may still make
  committed    \* history: the counters as the last release left them

vars == <<lock, board, pc, call, pos, reg, alive, left, committed>>

Field(p) == Order(call[p])[pos[p]]

Init ==
  /\ lock = 0
  /\ board = ZeroBoard
  /\ pc = [p \in Procs |-> "out"]
  /\ call = [p \in Procs |-> NoCall]
  /\ pos = [p \in Procs |-> 1]
  /\ reg = [p \in Procs |-> [own |-> 0, src |-> 0]]
  /\ alive = Procs
  /\ left = [p \in Procs |-> MaxCalls]
  /\ committed = ZeroBoard

-----------------------------------------------------------------------------
\* A call with a scoreboard: the process reaches pmf_spinlock(lock, 0).
Begin(p) ==
  /\ p \in alive
  /\ pc[p] = "out"
  /\ left[p] > 0
  /\ \E c \in Calls : call' = [call EXCEPT ![p] = c]
  /\ pc' = [pc EXCEPT ![p] = "spin"]
  /\ left' = [left EXCEPT ![p] = @ - 1]
  /\ UNCHANGED <<lock, board, pos, reg, alive, committed>>

\* A call with none: the static pmf_scoreboard is NULL too (nothing assigns
\* it), the code warns and returns.
BeginWithoutScoreboard(p) ==
  /\ p \in alive
  /\ pc[p] = "out"
  /\ left[p] > 0
  /\ left' = [left EXCEPT ![p] = @ - 1]
  /\ UNCHANGED <<lock, board, pc, call, pos, reg, alive, committed>>

\* Slip: a plain store instead of the compare-and-set.
TryLockUnguarded(p) ==
  /\ p \in alive
  /\ pc[p] = "spin"
  /\ lock' = 1
  /\ pc' = [pc EXCEPT ![p] = "load"]
  /\ pos' = [pos EXCEPT ![p] = 1]
  /\ UNCHANGED <<board, call, reg, alive, left, committed>>

\* Slip: an increment instead of the compare-and-set.
TryLockAdds(p) ==
  /\ p \in alive
  /\ pc[p] = "spin"
  /\ lock' = lock + 1
  /\ pc' = [pc EXCEPT ![p] = "load"]
  /\ pos' = [pos EXCEPT ![p] = 1]
  /\ UNCHANGED <<board, call, reg, alive, left, committed>>

\* The compare-and-set that succeeds. One that fails changes nothing: the
\* process yields and tries again.
TryLock(p) ==
  /\ p \in alive
  /\ pc[p] = "spin"
  /\ lock = 0
  /\ lock' = 1
  /\ pc' = [pc EXCEPT ![p] = "load"]
  /\ pos' = [pos EXCEPT ![p] = 1]
  /\ UNCHANGED <<board, call, reg, alive, left, committed>>

Load(p) ==
  /\ p \in alive
  /\ pc[p] = "load"
  /\ reg' = [reg EXCEPT ![p] = [own |-> board[Field(p)],
                                src |-> board[Source(Field(p))]]]
  /\ pc' = [pc EXCEPT ![p] = "store"]
  /\ UNCHANGED <<lock, board, call, pos, alive, left, committed>>

Store(p) ==
  LET c == call[p]
      f == Field(p)
      r == reg[p]
  IN /\ p \in alive
     /\ pc[p] = "store"
     /\ board' = IF Stores(c, f, r.own, r.src)
                   THEN [board EXCEPT ![f] = Stored(c, f, r.own, r.src)]
                   ELSE board
     /\ IF pos[p] < Len(Order(c))
          THEN /\ pos' = [pos EXCEPT ![p] = @ + 1]
               /\ pc' = [pc EXCEPT ![p] = "load"]
          ELSE /\ pc' = [pc EXCEPT ![p] = "unlock"]
               /\ UNCHANGED pos
     /\ UNCHANGED <<lock, call, reg, alive, left, committed>>

\* Slip: the release writes to a copy of the lock word.
UnlockCopy(p) ==
  /\ p \in alive
  /\ pc[p] = "unlock"
  /\ pc' = [pc EXCEPT ![p] = "out"]
  /\ committed' = board
  /\ UNCHANGED <<lock, board, call, pos, reg, alive, left>>

\* pmf_unlock is a plain store of 0.
Unlock(p) ==
  /\ p \in alive
  /\ pc[p] = "unlock"
  /\ lock' = 0
  /\ pc' = [pc EXCEPT ![p] = "out"]
  /\ committed' = board
  /\ UNCHANGED <<board, call, pos, reg, alive, left>>

\* The kernel delivers a fatal signal of the master to a worker.
Kill(p) ==
  /\ p \in Workers \cap alive
  /\ alive' = alive \ {p}
  /\ UNCHANGED <<lock, board, pc, call, pos, reg, left, committed>>

Step(p) == TryLock(p) \/ Load(p) \/ Store(p) \/ Unlock(p)

Next == \E p \in Procs :
          Begin(p) \/ BeginWithoutScoreboard(p) \/ Step(p) \/ Kill(p)

\* The kernel schedules every live process; nobody is obliged to call, and
\* sched_yield gives a spinning process no turn of its own (no SF).
Fairness == \A p \in Procs : WF_vars(Step(p))

Spec == Init /\ [][Next]_vars /\ Fairness

-----------------------------------------------------------------------------
Registers == [own : Int, src : Int]

\* Types of the variables.
TypeOK ==
  /\ lock \in {0, 1}
  /\ board \in [Fields -> Int]
  /\ pc \in [Procs -> {"out", "spin", "load", "store", "unlock"}]
  /\ call \in [Procs -> Calls \cup {NoCall}]
  /\ pos \in [Procs -> 1..9]
  /\ reg \in [Procs -> Registers]
  /\ alive \subseteq Procs
  /\ left \in [Procs -> 0..MaxCalls]
  /\ committed \in [Fields -> Int]

InCriticalSection(p) == pc[p] \in {"load", "store", "unlock"}

\* The spinlock excludes: at most one process, live or killed, is between
\* the compare-and-set and the release, and the lock word says whether one is.
MutualExclusion ==
  /\ \A p, q \in Procs :
       InCriticalSection(p) /\ InCriticalSection(q) => p = q
  /\ lock = 1 <=> \E p \in Procs : InCriticalSection(p)

\* Whenever the lock is free the high-water marks of the scoreboard cover the
\* counters they track (the two "if (x > x_max)" of the update).
MaximaCoverWhenFree ==
  lock = 0 => /\ board["active"] <= board["active_max"]
              /\ board["lq"] <= board["lq_max"]

\* The signed counters never go below zero, whatever negative deltas the
\* processes send (the clamp of ACTION_INC, the sign test of ACTION_SET).
NeverNegative ==
  \A f \in {"idle", "active", "lq"} : board[f] >= 0

\* A high-water mark never comes down, in any order of the processes' steps.
HighWaterMonotone ==
  [][/\ board'["active_max"] >= board["active_max"]
     /\ board'["lq_max"] >= board["lq_max"]]_board

\* The holder of the lock was killed between the compare-and-set and the
\* release: pmf_unlock will never run.
Orphaned == \E p \in Procs \ alive : InCriticalSection(p)

\* From then on the pool's scoreboard is frozen: no process gets the lock or
\* writes a counter again (there is no recovery of a dead owner's lock).
FrozenOnceOrphaned ==
  [][Orphaned => Orphaned' /\ UNCHANGED <<lock, board, committed>>]_vars

\* A lock that is taken is released, unless its holder is killed: the critical
\* section is finite and waits for nobody.
ReleasedOrOrphaned == lock = 1 ~> (lock = 0 \/ Orphaned)

\* The update is atomic: with the counters of the last release as the state
\* and the calls that reached the lock as the pending ones, every behaviour
\* is one of AtomicScoreboard.
Atomic == INSTANCE AtomicScoreboard WITH
            board   <- committed,
            pending <- [p \in Procs |-> IF pc[p] = "out" THEN NoCall ELSE call[p]]

ImplementsAtomic == Atomic!Spec

\* The comment on lq_max in pmf_scoreboard.h: "always geater or equal lq_len".
LqMaxCoversLqLen == lock = 0 => board["lq_max"] >= board["lq_len"]
=============================================================================
