----------------------------- MODULE EventLoop ------------------------------
(***************************************************************************)
(* pmf_event_init_main (pmf_events.c) and the two event modules: epoll     *)
(* (events/epoll.c) over the kernel's interest and ready lists, and select *)
(* (events/select.c) over a set of descriptors and the caller's queue.     *)
(* pmf_run is still empty: who adds, removes, closes and waits is the      *)
(* environment, between two rounds or in a callback.  It keeps the queue   *)
(* that select walks: an event it adds is linked there, one it removes is  *)
(* unlinked, and the entry the walk stands on stays valid.  An event       *)
(* stands for its descriptor.                                              *)
(***************************************************************************)
EXTENDS Integers, Sequences, SequencesExt, FiniteSets

CONSTANTS
  Events,       \* the events of the callers, one to a descriptor
  Nobody,       \* no event
  Edge,         \* those with PMF_EV_EDGE_TRIGGER
  High,         \* those whose descriptor is not below FD_SETSIZE
  ChildCounts,  \* pm_max_children of the pools, in the order of the list
  IntModulus    \* 2^w, w the width of int

ASSUME EventsAssumption ==
  /\ IsFiniteSet(Events) /\ Nobody \notin Events
  /\ Edge \subseteq Events /\ High \subseteq Events
ASSUME CountsAssumption ==
  /\ ChildCounts \subseteq Seq(Int)
  /\ IntModulus \in Nat \ {0} /\ IntModulus % 2 = 0

VARIABLES
  mech,       \* pmf_event_module: "none", "epoll" or "select"
  children,   \* pm_max_children of each pool
  phase,      \* "off", "idle", in the loop of "wait", "failed", "cleaned", "crashed"
  epfd,       \* epoll_fd is a descriptor
  cap,        \* event_buf_num
  interest,   \* the descriptors epoll watches, or the bits of fds
  readable,   \* the descriptors with something to read
  ready,      \* the kernel's ready list
  batch,      \* what wait still has to go through: of event_buf, or of the queue
  current,    \* what the kernel reported: the events of event_buf, or current_fds
  last        \* the event called last in this round

vars == <<mech, children, phase, epfd, cap, interest, readable, ready, batch, current, last>>

Init ==
  /\ mech \in {"none", "epoll", "select"}
  /\ children \in ChildCounts
  /\ phase = "off"
  /\ epfd = FALSE
  /\ cap = 0
  /\ interest = {} /\ readable = {}
  /\ ready = <<>> /\ batch = <<>> /\ current = {}
  /\ last = Nobody

-----------------------------------------------------------------------------
\* A number as an int holds it.
AsInt(n) == ((n + IntModulus \div 2) % IntModulus) - IntModulus \div 2

\* The loop over the pools; the sum wraps.
Reserved ==
  FoldLeft(LAMBDA sum, m : AsInt(IF m > 0 THEN sum + 2 * m ELSE sum), 1, children)

\* The counts epoll's init does not pass over: those of an int that are not below 1.
Usable == 1..(IntModulus \div 2 - 1)

\* Slip: epoll's init takes any count.
InitMainUnchecked ==
  /\ phase = "off" /\ mech = "epoll"
  /\ epfd' = TRUE /\ cap' = Reserved /\ phase' = "idle"
  /\ UNCHANGED <<mech, children, interest, readable, ready, batch, current, last>>

\* pmf_event_init_main.  epoll's init returns 0 for a count below 1, without
\* creating anything, and when the buffer cannot be allocated it leaves the
\* descriptor open.
InitMain ==
  /\ phase = "off"
  /\ \/ /\ mech = "select" \/ (mech = "epoll" /\ Reserved \notin Usable)
        /\ phase' = "idle"
        /\ UNCHANGED <<epfd, cap>>
     \/ /\ mech = "epoll" /\ Reserved \in Usable
        /\ \/ epfd' = TRUE /\ cap' = Reserved /\ phase' = "idle"
           \/ epfd' \in BOOLEAN /\ phase' = "failed" /\ UNCHANGED cap
     \/ /\ mech = "none"
        /\ phase' = "failed"
        /\ UNCHANGED <<epfd, cap>>
  /\ UNCHANGED <<mech, children, interest, readable, ready, batch, current, last>>

\* The kernel puts a descriptor on the ready list once.
Queued(list, e) == IF e \in Range(list) THEN list ELSE Append(list, e)

\* The entries of a list that are in the set, in the order of the list.
Kept(list, set) ==
  LET at == {k \in DOMAIN list : list[k] \in set}
      Nth(n) == CHOOSE k \in at : Cardinality({j \in at : j <= k}) = n
  IN [n \in 1..Cardinality(at) |-> list[Nth(n)]]

\* Something arrives at a descriptor.
Arrive(e) ==
  /\ phase \in {"idle", "wait"}
  /\ readable' = readable \cup {e}
  /\ ready' = IF mech = "epoll" /\ e \in interest THEN Queued(ready, e) ELSE ready
  /\ UNCHANGED <<mech, children, phase, epfd, cap, interest, batch, current, last>>

\* Between two rounds, or in a callback.
Turn == phase = "idle" \/ (phase = "wait" /\ last # Nobody)

\* add.  epoll refuses a descriptor it has, and everything without epoll_fd;
\* select refuses one that does not fit the set.  A refusal changes nothing.
\* Who registers with select links the event in front of its queue, where a
\* walk that is under way has been, or at its end, where it has yet to come.
AddEvent(e) ==
  /\ Turn
  /\ IF mech = "epoll" THEN epfd /\ e \notin interest ELSE e \notin High
  /\ interest' = interest \cup {e}
  /\ ready' = IF mech = "epoll" /\ e \in readable THEN Queued(ready, e) ELSE ready
  /\ \/ UNCHANGED batch
     \/ /\ mech = "select" /\ phase = "wait" /\ e \notin interest
        /\ batch' = Append(batch, e)
  /\ UNCHANGED <<mech, children, phase, epfd, cap, readable, current, last>>

\* remove.  What epoll's wait has already been given stays in its buffer;
\* select's walk does not come to an event that is unlinked.
RemoveEvent(e) ==
  /\ Turn
  /\ e \in interest
  /\ interest' = interest \ {e}
  /\ ready' = Kept(ready, Events \ {e})
  /\ batch' = IF mech = "select" THEN Kept(batch, Events \ {e}) ELSE batch
  /\ UNCHANGED <<mech, children, phase, epfd, cap, readable, current, last>>

\* What epoll_wait reports: the first descriptors of the list that are still
\* readable, as many as the buffer holds.  Level-triggered ones go to the end
\* of the list again.
Live == Kept(ready, readable)
Reported == IF epfd THEN SubSeq(Live, 1, IF cap < Len(Live) THEN cap ELSE Len(Live)) ELSE <<>>
Rest == SubSeq(Live, Len(Reported) + 1, Len(Live))

\* wait, as far as the call of the kernel; one that returns nothing, or -1 for
\* EINTR and other errors, changes nothing.
EpollWait ==
  /\ phase = "idle" /\ mech = "epoll"
  /\ Reported # <<>>
  /\ batch' = Reported /\ current' = Range(Reported)
  /\ ready' = Rest \o Kept(Reported, Events \ Edge)
  /\ phase' = "wait"
  /\ last' = Nobody
  /\ UNCHANGED <<mech, children, epfd, cap, interest, readable>>

\* select works on a copy of fds; then the caller's queue is walked as it is.
SelectWait ==
  /\ phase = "idle" /\ mech = "select"
  /\ interest \cap readable # {}
  /\ current' = interest \cap readable
  /\ batch' \in SetToSeqs(interest)
  /\ phase' = "wait"
  /\ last' = Nobody
  /\ UNCHANGED <<mech, children, epfd, cap, interest, readable, ready>>

\* Slip: the walk asks fds, which the callbacks change, and not the copy.
CallUncopied ==
  /\ phase = "wait" /\ batch # <<>>
  /\ Head(batch) \in IF mech = "select" THEN interest ELSE current
  /\ last' = Head(batch)
  /\ readable' \in {readable, readable \ {Head(batch)}}
  /\ batch' = Tail(batch)
  /\ UNCHANGED <<mech, children, phase, epfd, cap, interest, ready, current>>

\* pmf_event_proc, for whatever epoll's buffer holds, and for the entries of
\* select's queue whose bit is set in the copy, though the event may have been
\* called in this round already, removed and added again.  The callback reads
\* what there is, or does not.
Call ==
  /\ phase = "wait" /\ batch # <<>>
  /\ Head(batch) \in current
  /\ last' = Head(batch)
  /\ readable' \in {readable, readable \ {Head(batch)}}
  /\ batch' = Tail(batch)
  /\ UNCHANGED <<mech, children, phase, epfd, cap, interest, ready, current>>

\* The bit of an entry of the queue is not set.
Pass ==
  /\ phase = "wait" /\ batch # <<>>
  /\ Head(batch) \notin current
  /\ batch' = Tail(batch)
  /\ UNCHANGED <<mech, children, phase, epfd, cap, interest, readable, ready,
                 current, last>>

\* Slip: the loop stops one entry short.
ReturnEarly ==
  /\ phase = "wait" /\ Len(batch) <= 1
  /\ phase' = "idle"
  /\ batch' = <<>> /\ current' = {}
  /\ UNCHANGED <<mech, children, epfd, cap, interest, readable, ready, last>>

Return ==
  /\ phase = "wait" /\ batch = <<>>
  /\ phase' = "idle"
  /\ current' = {}
  /\ UNCHANGED <<mech, children, epfd, cap, interest, readable, ready, batch, last>>

\* epoll's clean, which resets what init has made; select has none.  In a
\* callback it takes the buffer from the loop that is going through it, which
\* then reads the next entry at the address it has left, 0.
Clean ==
  /\ Turn /\ mech = "epoll"
  /\ epfd' = FALSE /\ cap' = IF epfd THEN -1 ELSE cap
  /\ interest' = {} /\ ready' = <<>> /\ batch' = <<>> /\ current' = {}
  /\ phase' = IF batch = <<>> THEN "cleaned" ELSE "crashed"
  /\ UNCHANGED <<mech, children, readable, last>>

Wait == EpollWait \/ SelectWait

Next ==
  \/ InitMain \/ Wait \/ Call \/ Pass \/ Return \/ Clean
  \/ \E e \in Events : Arrive(e) \/ AddEvent(e) \/ RemoveEvent(e)

\* The caller waits again and again, a callback returns, and system calls are
\* not interrupted for ever.
Fairness == WF_vars(Wait) /\ WF_vars(Call \/ Pass) /\ WF_vars(Return)

Spec == Init /\ [][Next]_vars /\ Fairness

-----------------------------------------------------------------------------
\* Types of the variables, and what the kernel's lists have to do with them.
TypeOK ==
  /\ mech \in {"none", "epoll", "select"}
  /\ phase \in {"off", "idle", "wait", "failed", "cleaned", "crashed"}
  /\ epfd \in BOOLEAN /\ cap \in -1..(IntModulus \div 2 - 1)
  /\ interest \subseteq Events /\ readable \subseteq Events
  /\ Range(ready) \subseteq interest /\ current \subseteq Events
  /\ Range(batch) \subseteq IF mech = "select" THEN interest ELSE current
  /\ last \in Events \cup {Nobody}

Rounds == INSTANCE Dispatcher WITH
            registered <- interest, called <- last,
            round <- current, eligible <- Range(batch) \cap current

\* Both modules implement Dispatcher: only events the kernel has reported in
\* this round are called, the buffer or the copy of one round never brings a
\* callback in a later one, and an event is called once, unless a callback of
\* the round adds it anew.
ImplementsDispatcher == Rounds!Spec

\* The sum over the pools fits an int.
InRange ==
  1 + FoldLeft(LAMBDA sum, m : IF m > 0 THEN sum + 2 * m ELSE sum, 0, children)
    < IntModulus \div 2

Owed(e) ==
  phase \in {"idle", "wait"} /\ e \in interest /\ e \in readable
  /\ (mech = "epoll" /\ e \in Edge => e \in Range(ready))

\* An event that stays registered and has something to be told about is called
\* again and again, however many others are ready and however short the buffer
\* is: none starves, if the numbers of children fit an int and if rounds end.
\* (A round of select need not: its callbacks can put their events at the end of
\* the queue again and again.)
Served ==
  InRange /\ []<>(phase # "wait") =>
    \A e \in Events : []<>~Owed(e) \/ []<><<Call /\ last' = e>>_vars
=============================================================================
