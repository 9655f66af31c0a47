----------------------------- MODULE ShmLayout ------------------------------
(***************************************************************************)
(* The mapping pmf_scoreboard_init_main (pmf_scoreboard.c) asks            *)
(* pmf_shm_alloc (pmf_shm.c) for, one for each pool: the scoreboard, a     *)
(* pointer to each slot at its end, then the slots.                        *)
(***************************************************************************)
EXTENDS Integers

CONSTANTS
  HeaderSize,    \* sizeof(PMF_SCOREBOARD_S), without its flexible array
  PointerSize,   \* sizeof(PMF_SCOREBOARD_PROC_S *)
  SlotSize       \* sizeof(PMF_SCOREBOARD_PROC_S)

ASSUME SizesAssumption ==
  HeaderSize \in Nat \ {0} /\ PointerSize \in Nat \ {0} /\ SlotSize \in Nat \ {0}

\* Slip: the pointers are not counted.
ScoreboardSizeWithoutPointers(n) == HeaderSize

\* Where the slots begin.
ScoreboardSize(n) == HeaderSize + n * PointerSize

\* The scoreboard of a pool of n children: offsets in a mapping of its own.
Board(n) ==
  [size   |-> ScoreboardSize(n) + n * SlotSize,
   nprocs |-> n,
   procs  |-> [i \in 1..n |-> ScoreboardSize(n) + (i - 1) * SlotSize]]

\* Every child has a slot; the slots lie in the mapping, behind the pointers
\* to them, and no two overlap.
SlotsFit(b) ==
  /\ DOMAIN b.procs = 1..b.nprocs
  /\ \A i \in 1..b.nprocs :
       /\ HeaderSize + b.nprocs * PointerSize <= b.procs[i]
       /\ b.procs[i] + SlotSize <= b.size
       /\ \A j \in 1..b.nprocs : i < j => b.procs[i] + SlotSize <= b.procs[j]
=============================================================================
