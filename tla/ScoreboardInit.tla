--------------------------- MODULE ScoreboardInit ---------------------------
(***************************************************************************)
(* pmf_scoreboard_init_main (pmf_scoreboard.c) and pmf_shm_alloc           *)
(* (pmf_shm.c) over the pools that ConfLoad has accepted.  A pool has no   *)
(* scoreboard before, since its record is allocated zeroed.                *)
(***************************************************************************)
EXTENDS ConfLoad, ShmLayout

VARIABLES
  boards,        \* the scoreboards of the first pools
  pmf_shm_size   \* what has been mapped

bootvars == <<allvars, boards, pmf_shm_size>>

BootInit == ConfInit /\ boards = <<>> /\ pmf_shm_size = 0

\* A failing mmap returns MAP_FAILED, which is not NULL: the scoreboard is
\* written through it.
CreateBoard ==
  /\ status = "accepted"
  /\ Len(boards) < Len(pools)
  /\ LET n == pools[Len(boards) + 1].max_children
     IN IF n < 1
          THEN status' = "refused" /\ UNCHANGED <<boards, pmf_shm_size>>
          ELSE \/ /\ boards' = Append(boards, Board(n))
                  /\ pmf_shm_size' = pmf_shm_size + Board(n).size
                  /\ UNCHANGED status
               \/ status' = "crashed" /\ UNCHANGED <<boards, pmf_shm_size>>
  /\ UNCHANGED <<support_edge_trigger, pools, wp, confvars>>

\* The function ends without a return statement: pmf_init may read a negative
\* result.
EndBoards ==
  /\ status = "accepted"
  /\ Len(boards) = Len(pools)
  /\ status' \in {"created", "refused"}
  /\ UNCHANGED <<support_edge_trigger, pools, wp, confvars, boards, pmf_shm_size>>

BootNext == (ConfNext /\ UNCHANGED <<boards, pmf_shm_size>>) \/ CreateBoard \/ EndBoards

BootSpec == BootInit /\ [][BootNext]_bootvars /\ WF_bootvars(BootNext)

-----------------------------------------------------------------------------
\* Every pool that was accepted gets its scoreboard: none is refused here for
\* its number of children, each has a slot for every child of its own
\* configuration, and the mappings add up to what is accounted for.
SlotPerChild ==
  \A k \in DOMAIN boards :
    SlotsFit(boards[k]) /\ boards[k].nprocs = pools[k].max_children
NoPoolWithoutBoard ==
  status = "created" \/ (status = "refused" /\ pools # <<>> /\ wp > Len(pools)) =>
    Len(boards) = Len(pools)
BoardsFit ==
  /\ SlotPerChild
  /\ pmf_shm_size = FoldLeft(LAMBDA sum, b : sum + b.size, 0, boards)
  /\ NoPoolWithoutBoard

\* The configuration is refused in the end or every pool has its scoreboard,
\* or the process fails.
BootEnds == <>(status \in {"created", "refused", "crashed", "overrun"})
=============================================================================
