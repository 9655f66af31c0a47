---------------------------- MODULE SocketsInit ----------------------------
(***************************************************************************)
(* pmf_sockets_init_main (pmf_sockets.c): the master opens a listening     *)
(* socket for each pool, sharing one between pools with equal addresses    *)
(* through sockets_list, then closes the sockets of the list nobody uses.  *)
(* sockets_list is the variable-length array of pmf_array.h.               *)
(***************************************************************************)
EXTENDS Integers, Sequences, FiniteSets, FiniteSetsExt

CONSTANTS
  Addresses,      \* the printed addresses, "host:port" or path
  Overlaps,       \* pairs of different addresses that bind() takes for one:
                  \* "::" and an IPv4 address with its port, two names of a path
  NoKey,          \* a null key
  Layouts,        \* the pool lists: for each pool the addresses it may use
  SizeModulus,    \* 2^w, w the width of size_t
  MaxFd           \* bound: the highest descriptor; two beside the standard ones

ASSUME OverlapsAssumption ==
  /\ Overlaps \subseteq Addresses \X Addresses
  /\ \A x, y \in Addresses :
       <<x, y>> \in Overlaps => x # y /\ <<y, x>> \in Overlaps
ASSUME NoKeyAssumption == NoKey \notin Addresses
ASSUME LayoutsAssumption == Layouts \subseteq Seq(Seq(Addresses) \ {<<>>})
ASSUME SizesAssumption == SizeModulus \in Nat \ {0} /\ MaxFd \in Nat /\ MaxFd >= 4

VARIABLES
  layout,     \* the pools of the configuration, in the order of the list
  broken,     \* the addresses no socket can be bound to (no IPv6, say)
  pc,         \* where the process is
  wp,         \* the pool it has come to
  candidate,  \* the address of that pool it tries
  list,       \* sockets_list
  i,          \* the index of the closing loop
  fds,        \* wp->listening_socket_fd of the pools that have one
  bound,      \* the address each open listening descriptor is bound to
  stdio       \* the descriptors below 3 that are open (/dev/null or a terminal)

vars == <<layout, broken, pc, wp, candidate, list, i, fds, bound, stdio>>

-----------------------------------------------------------------------------
\* pmf_array.h.  The index is compared with used_num - 1, in size_t.

Zero == [key |-> NoKey, refcount |-> 0, sock |-> 0]

\* pmf_array_item returns a null pointer.
ItemIsNull(used, n) == n > (used - 1) % SizeModulus

\* pmf_array_push: the slot is looked up before used_num is incremented; the
\* caller fills the slot if it gets one, the count grows in any case.
Push(l, entry) ==
  IF ItemIsNull(Len(l), Len(l)) THEN Append(l, Zero) ELSE Append(l, entry)

\* Slip: the item is overwritten and the count stays.
RemoveItemKeepingCount(l, n) == [l EXCEPT ![n] = l[Len(l)]]

\* pmf_array_remove_item: the last item takes the place of the removed one.
RemoveItem(l, n) ==
  [k \in 1..(Len(l) - 1) |-> IF k = n THEN l[Len(l)] ELSE l[k]]

-----------------------------------------------------------------------------
Init ==
  /\ layout \in Layouts
  /\ broken \in SUBSET Addresses
  /\ pc = IF layout = <<>> THEN "close" ELSE "open"
  /\ wp = 1
  /\ candidate = 1
  /\ list = <<>>
  /\ i = 1
  /\ fds = <<>>
  /\ bound = <<>>
  /\ stdio = {0, 1, 2}

\* Slip: the descriptor is stored and the loop stays at the pool.
GoOnAtSamePool(fd) ==
  IF fd >= 0
    THEN /\ fds' = Append(fds, fd)
         /\ UNCHANGED <<wp, candidate, pc>>
    ELSE /\ candidate' = candidate + 1
         /\ pc' = IF candidate = Len(layout[wp]) THEN "failed" ELSE "open"
         /\ UNCHANGED <<fds, wp>>

\* The pool's initialisation goes on with descriptor fd, or the next address
\* is tried, or none is left and pmf_sockets_init_main returns -1.
GoOn(fd) ==
  IF fd >= 0
    THEN /\ fds' = Append(fds, fd)
         /\ wp' = wp + 1
         /\ candidate' = 1
         /\ pc' = IF wp = Len(layout) THEN "close" ELSE "open"
    ELSE /\ candidate' = candidate + 1
         /\ pc' = IF candidate = Len(layout[wp]) THEN "failed" ELSE "open"
         /\ UNCHANGED <<fds, wp>>

Address == layout[wp][candidate]

\* Slip: the pointers are compared, not the strings.
MatchesByPointer == {k \in DOMAIN list : list[k].key = NoKey}

\* The entries strcmp() has been called on when it meets the address or a
\* null key.
Matches == {k \in DOMAIN list : list[k].key \in {Address, NoKey}}
Found == Min(Matches)
NullFirst == Matches # {} /\ list[Found].key = NoKey
Known == Matches # {} /\ list[Found].key = Address
Shared == Known /\ list[Found].sock >= 0

\* The address does not resolve, or the pool's permissions do not: -1 before
\* the list is looked at.
Unresolved ==
  /\ pc = "open"
  /\ Address \in broken
  /\ GoOn(-1)
  /\ UNCHANGED <<layout, broken, list, i, bound, stdio>>

\* PMF_GET_USE_SOCKET compares the address with a null key.
CompareWithNull ==
  /\ pc = "open"
  /\ NullFirst
  /\ pc' = "crashed"
  /\ UNCHANGED <<layout, broken, wp, candidate, list, i, fds, bound, stdio>>

\* Slip: the reference is not counted.
ShareUncounted ==
  /\ pc = "open"
  /\ Shared
  /\ UNCHANGED list
  /\ GoOn(list[Found].sock)
  /\ UNCHANGED <<layout, broken, i, bound, stdio>>

\* PMF_GET_USE_SOCKET finds an open socket.
Share ==
  /\ pc = "open"
  /\ Shared
  /\ list' = [list EXCEPT ![Found].refcount = @ + 1]
  /\ GoOn(list[Found].sock)
  /\ UNCHANGED <<layout, broken, i, bound, stdio>>

\* A socket of this process keeps the address from being bound, or answers
\* its connect test: it has the address, or one that overlaps.
InUse == \E d \in DOMAIN bound : bound[d] = Address \/ <<bound[d], Address>> \in Overlaps

\* It finds none, or the address of an attempt that failed (which it counts
\* as a use): pmf_sockets_new_listening_socket, then PMF_STORE_USE_SOCKET,
\* whatever came of it.
Create ==
  /\ pc = "open"
  /\ ~NullFirst /\ ~Shared
  /\ LET fd   == IF Address \in broken \/ InUse
                   THEN -1
                   ELSE Min((0..MaxFd) \ (stdio \cup DOMAIN bound))
         seen == IF Known THEN [list EXCEPT ![Found].refcount = @ + 1] ELSE list
     IN /\ list' = Push(seen, [key |-> Address, refcount |-> 1, sock |-> fd])
        /\ bound' = IF fd < 0 THEN bound
                    ELSE [d \in DOMAIN bound \cup {fd} |->
                            IF d = fd THEN Address ELSE bound[d]]
        /\ GoOn(fd)
  /\ UNCHANGED <<layout, broken, i, stdio>>

\* Slip: the test of the reference count inverted.
CloseUsed ==
  /\ pc = "close"
  /\ i <= Len(list)
  /\ list[i].refcount # 0
  /\ stdio' = stdio \ {list[i].sock}
  /\ bound' = [d \in DOMAIN bound \ {list[i].sock} |-> bound[d]]
  /\ list' = RemoveItem(list, i)
  /\ UNCHANGED <<layout, broken, pc, wp, candidate, i, fds>>

\* The closing loop meets an entry without a reference.
CloseUnused ==
  /\ pc = "close"
  /\ i <= Len(list)
  /\ list[i].refcount = 0
  /\ stdio' = stdio \ {list[i].sock}
  /\ bound' = [d \in DOMAIN bound \ {list[i].sock} |-> bound[d]]
  /\ list' = RemoveItem(list, i)
  /\ UNCHANGED <<layout, broken, pc, wp, candidate, i, fds>>

\* It meets one with a reference.
KeepUsed ==
  /\ pc = "close"
  /\ i <= Len(list)
  /\ list[i].refcount # 0
  /\ i' = i + 1
  /\ UNCHANGED <<layout, broken, pc, wp, candidate, list, fds, bound, stdio>>

Finish ==
  /\ pc = "close"
  /\ i > Len(list)
  /\ pc' = "done"
  /\ UNCHANGED <<layout, broken, wp, candidate, list, i, fds, bound, stdio>>

Next ==
  \/ Unresolved \/ CompareWithNull \/ Share \/ Create
  \/ CloseUnused \/ KeepUsed \/ Finish

\* One process, and none of its calls blocks for ever; the connect test of a
\* unix address, which may (UnixListen, StartsEnd), is taken to return.
Spec == Init /\ [][Next]_vars /\ WF_vars(Next)

-----------------------------------------------------------------------------
Entry == [key : Addresses \cup {NoKey}, refcount : Nat, sock : -1..MaxFd]

\* Types of the variables, and how far the pool loop and its results agree.
TypeOK ==
  /\ layout \in Layouts
  /\ broken \subseteq Addresses
  /\ pc \in {"open", "close", "done", "failed", "crashed"}
  /\ wp \in 1..(Len(layout) + 1)
  /\ pc = "open" => candidate \in DOMAIN layout[wp]
  /\ list \in Seq(Entry)
  /\ i \in 1..(Len(list) + 1)
  /\ fds \in Seq(0..MaxFd) /\ Len(fds) = wp - 1
  /\ \A d \in DOMAIN bound : d \in 0..MaxFd /\ bound[d] \in Addresses
  /\ stdio \subseteq {0, 1, 2}

\* A pool cannot have the address: it cannot be bound at all, or an earlier
\* pool listens on a different one that overlaps it.
Unusable(w, address) ==
  \/ address \in broken
  \/ \E v \in 1..(w - 1) : <<bound[fds[v]], address>> \in Overlaps

Usable(w) == {k \in DOMAIN layout[w] : ~Unusable(w, layout[w][k])}

\* Every pool that has come through listens, now and after the closing loop,
\* on the first of its addresses it can have: alone, or with the earlier pools
\* that listen on that very address.
EveryPoolServed ==
  \A w \in DOMAIN fds :
    /\ fds[w] \in DOMAIN bound
    /\ Usable(w) # {}
    /\ bound[fds[w]] = layout[w][Min(Usable(w))]

\* The start is refused only over a pool none of whose addresses it can have;
\* that an earlier pool listens on the same printed address is no reason.
RefusedOnlyUnusable ==
  pc = "failed" => Usable(wp) = {}

\* The count of an open socket in the list is the number of pools that use
\* it: what the closing loop decides by.
RefcountCountsUsers ==
  \A k \in DOMAIN list :
    list[k].key # NoKey /\ list[k].sock >= 0 =>
      list[k].refcount = Cardinality({w \in DOMAIN fds : fds[w] = list[k].sock})

\* The initialisation comes to an end.
Terminates == <>(pc \in {"done", "failed", "crashed"})

\* pmf.conf.default:93, "There is no limitation on the number of pools".
NeverCrashes == pc # "crashed"
=============================================================================
