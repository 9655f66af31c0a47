------------------------------ MODULE Startup ------------------------------
(***************************************************************************)
(* pmf_init (pmf.c) stage by stage, in the process that is started and in  *)
(* the one pmf_unix_init_main forks when it daemonizes; the pipe by which  *)
(* the second is to tell the first how it went; the pid file; and signals  *)
(* that arrive at any point.  What the stages do besides is in the other   *)
(* modules; here they succeed or fail.                                     *)
(***************************************************************************)
EXTENDS Integers, Sequences

CONSTANTS
  Acks,           \* the status values the caller of pmf_init sends (not in src/)
  Capacity,       \* the bytes a socketpair holds
  MaxPlaces       \* bound: the places of a pool, see below

ASSUME AcksAssumption == Acks \subseteq {0, 1}
ASSUME CapacityAssumption == Capacity \in Nat
ASSUME PlacesAssumption == MaxPlaces \in Nat \ {0}

Procs == {"caller", "master"}

\* Slips: the signals before the pid is known; the pid file before the fork.
StagesSignalsFirst ==
  <<"stdio", "conf", "signals", "fork", "session", "scoreboard",
    "children", "sockets", "worker_pool", "event", "unlink_pid", "creat_pid",
    "write_pid">>
StagesPidFirst ==
  <<"stdio", "conf", "unlink_pid", "creat_pid", "write_pid", "fork", "session",
    "scoreboard", "signals", "children", "sockets", "worker_pool", "event">>

\* The order of pmf_init; pmf_unix_init_main is "fork" and "session",
\* pmf_conf_write_pid the last three.
Stages ==
  <<"stdio", "conf", "fork", "session", "scoreboard", "signals", "children",
    "sockets", "worker_pool", "event", "unlink_pid", "creat_pid", "write_pid">>

\* Stages with an effect on the variables, and those that always return 0.
Effective == {"fork", "session", "signals", "sockets",
              "unlink_pid", "creat_pid", "write_pid"}
Infallible == {"worker_pool", "unlink_pid"}

VARIABLES
  daemonize,   \* the setting
  pid_path,    \* pid_file is set
  places,      \* where sockets can listen for the pool that has the fewest such
               \* places: the addresses getaddrinfo finds, the files that can
               \* come to be at a unix path
  state,       \* what each process is doing
  at,          \* the stage it has come to
  parent_pid,  \* its copy of pmf_globals.parent_pid
  handlers,    \* the processes that have installed sig_handler
  unread,      \* the bytes in its socketpair, which nobody reads
  listening,   \* the process that listens on each of them
  pid_file,    \* what the pid file says
  pipe         \* what is in send_config_pipe

settings == <<daemonize, pid_path, places>>
vars == <<settings, state, at, parent_pid, handlers, unread, listening,
          pid_file, pipe>>

Live(p) == state[p] \in {"running", "waiting", "ready", "blocked"}

Init ==
  /\ daemonize \in BOOLEAN
  /\ pid_path \in BOOLEAN
  /\ places \in 1..MaxPlaces
  /\ state = [p \in Procs |-> IF p = "caller" THEN "running" ELSE "absent"]
  /\ at = [p \in Procs |-> 1]
  /\ parent_pid = [p \in Procs |-> "0"]
  /\ handlers = {}
  /\ unread = [p \in Procs |-> 0]
  /\ listening = [k \in 1..places |-> "none"]
  /\ pid_file \in {"none", "old"}
  /\ pipe = {}

\* Process p is in the given stage of pmf_init.
In(p, stage) == state[p] = "running" /\ Stages[at[p]] = stage

\* The stage returned 0: the next one, or pmf_init returns 0.
Advance(p) ==
  IF at[p] = Len(Stages)
    THEN state' = [state EXCEPT ![p] = "ready"] /\ UNCHANGED at
    ELSE at' = [at EXCEPT ![p] = @ + 1] /\ UNCHANGED state

\* The process ends, and with it what it holds: pmf_init returned -1, or a
\* signal came.  The pid file stays.
End(p, how) ==
  /\ state' = [state EXCEPT ![p] = how]
  /\ listening' = [k \in 1..places |->
                     IF listening[k] = p THEN "none" ELSE listening[k]]
  /\ UNCHANGED <<settings, at, parent_pid, handlers, unread, pid_file, pipe>>

-----------------------------------------------------------------------------
\* Stages whose effects are in the other modules.
Pass(p) ==
  /\ state[p] = "running"
  /\ Stages[at[p]] \notin Effective
  /\ Advance(p)
  /\ UNCHANGED <<settings, parent_pid, handlers, unread, listening, pid_file, pipe>>

\* Any call of a stage may fail.  pmf_scoreboard_init_main and
\* pmf_sockets_init_main end without a return statement: what pmf_init reads
\* may be negative even if all went well.
Fail(p) ==
  /\ state[p] = "running"
  /\ Stages[at[p]] \notin Infallible
  /\ Stages[at[p]] \in {"creat_pid", "write_pid"} => pid_path
  /\ End(p, "failed")

Foreground(p) ==
  /\ In(p, "fork")
  /\ ~daemonize
  /\ Advance(p)
  /\ UNCHANGED <<settings, parent_pid, handlers, unread, listening, pid_file, pipe>>

\* The caller keeps both ends of the pipe; the child goes on with the stage.
Fork ==
  /\ In("caller", "fork")
  /\ daemonize
  /\ state' = [state EXCEPT !["caller"] = "waiting", !["master"] = "running"]
  /\ at' = [at EXCEPT !["master"] = at["caller"] + 1]
  /\ UNCHANGED <<settings, parent_pid, handlers, unread, listening, pid_file, pipe>>

\* "continue as a child"
Session(p) ==
  /\ In(p, "session")
  /\ parent_pid' = [parent_pid EXCEPT ![p] = p]
  /\ Advance(p)
  /\ UNCHANGED <<settings, handlers, unread, listening, pid_file, pipe>>

Signals(p) ==
  /\ In(p, "signals")
  /\ handlers' = handlers \cup {p}
  /\ Advance(p)
  /\ UNCHANGED <<settings, parent_pid, unread, listening, pid_file, pipe>>

\* The pool listens in a place of its own: an address that another process
\* listens on cannot be bound, and the next that getaddrinfo found is tried; a
\* unix path of another process is refused, but when the connect test is
\* interrupted or has no descriptor a new file takes the place of the old one.
Sockets(p) ==
  /\ In(p, "sockets")
  /\ \E k \in 1..places :
       /\ listening[k] = "none"
       /\ listening' = [listening EXCEPT ![k] = p]
  /\ Advance(p)
  /\ UNCHANGED <<settings, parent_pid, handlers, unread, pid_file, pipe>>

\* pmf_conf_write_pid: unlink(), creat(), write(), if pid_file is set.
WritePid(p) ==
  /\ \/ In(p, "unlink_pid") /\ pid_file' = IF pid_path THEN "none" ELSE pid_file
     \/ In(p, "creat_pid") /\ pid_file' = IF pid_path THEN "empty" ELSE pid_file
     \/ In(p, "write_pid") /\ pid_file' = IF pid_path THEN parent_pid[p] ELSE pid_file
  /\ Advance(p)
  /\ UNCHANGED <<settings, parent_pid, handlers, unread, listening, pipe>>

\* The program around pmf_init reports its result to the process that waits.
Ack ==
  /\ pipe = {}
  /\ \/ state["master"] = "ready" /\ 1 \in Acks /\ pipe' = {1}
     \/ state["master"] = "failed" /\ 0 \in Acks /\ pipe' = {0}
  /\ UNCHANGED <<settings, state, at, parent_pid, handlers, unread, listening, pid_file>>

\* The wait for the status.  A 1 makes pmf_unix_init_main return 0, and
\* pmf_init of the calling process goes on; anything else makes it fail.
ReadAck ==
  /\ state["caller"] = "waiting"
  /\ pipe # {}
  /\ \/ /\ pipe = {1}
        /\ state' = [state EXCEPT !["caller"] = "running"]
        /\ at' = [at EXCEPT !["caller"] = @ + 2]
        /\ pipe' = {}
        /\ UNCHANGED <<settings, parent_pid, handlers, unread, listening, pid_file>>
     \/ pipe = {0} /\ End("caller", "failed")

\* Slip: select() without a timeout; it ends at the end of file, which does not
\* come while the caller itself holds the write end.
TimeoutAtEof == FALSE

\* Ten seconds without a status.
Timeout ==
  /\ state["caller"] = "waiting"
  /\ pipe = {}
  /\ End("caller", "failed")

\* A signal without a handler ends the process.
Die(p) ==
  /\ Live(p)
  /\ p \notin handlers
  /\ End(p, "killed")

\* Slip: the byte is counted as written whether the socketpair takes it or not.
HandleUnbounded(p) ==
  /\ state[p] \in {"running", "ready"}
  /\ p \in handlers
  /\ parent_pid[p] = p
  /\ unread' = [unread EXCEPT ![p] = @ + 1]
  /\ UNCHANGED <<settings, state, at, parent_pid, handlers, listening, pid_file, pipe>>

\* sig_handler writes a byte to the socketpair if the process is the one
\* pmf_globals.parent_pid names.  The descriptors are in blocking mode
\* (fd_set_blocked(sp[i], 0) clears O_NONBLOCK): a write to a full one blocks.
Handle(p) ==
  /\ state[p] \in {"running", "ready"}
  /\ p \in handlers
  /\ parent_pid[p] = p
  /\ IF unread[p] < Capacity
       THEN unread' = [unread EXCEPT ![p] = @ + 1] /\ UNCHANGED state
       ELSE state' = [state EXCEPT ![p] = "blocked"] /\ UNCHANGED unread
  /\ UNCHANGED <<settings, at, parent_pid, handlers, listening, pid_file, pipe>>

\* SIGKILL has no handler.
Kill(p) ==
  /\ Live(p)
  /\ p \in handlers
  /\ End(p, "killed")

Step(p) ==
  \/ Pass(p) \/ Fail(p) \/ Foreground(p) \/ Session(p) \/ Signals(p)
  \/ Sockets(p) \/ WritePid(p)

Next ==
  \/ Fork \/ Ack \/ ReadAck \/ Timeout
  \/ \E p \in Procs : Step(p) \/ Die(p) \/ Handle(p) \/ Kill(p)

\* A running process runs on, select() returns; nobody is obliged to signal.
Fairness ==
  /\ WF_vars(Fork) /\ WF_vars(ReadAck) /\ WF_vars(Timeout) /\ WF_vars(Ack)
  /\ \A p \in Procs : WF_vars(Step(p))

Spec == Init /\ [][Next]_vars /\ Fairness

-----------------------------------------------------------------------------
\* Types of the variables.
TypeOK ==
  /\ daemonize \in BOOLEAN
  /\ pid_path \in BOOLEAN
  /\ places \in 1..MaxPlaces
  /\ state \in [Procs -> {"absent", "running", "waiting", "ready", "blocked",
                          "failed", "killed"}]
  /\ at \in [Procs -> DOMAIN Stages]
  /\ parent_pid \in [Procs -> Procs \cup {"0"}]
  /\ handlers \subseteq Procs
  /\ unread \in [Procs -> 0..Capacity]
  /\ listening \in [1..places -> Procs \cup {"none"}]
  /\ pid_file \in Procs \cup {"none", "old", "empty", "0"}
  /\ pipe \in {{}, {0}, {1}}

\* The process that is to serve: the forked one when it daemonizes.  (A calling
\* process that goes on after its acknowledgement is not meant to: it has no
\* parent_pid.)
Serving == IF daemonize THEN "master" ELSE "caller"

\* Process p is past the given stage, and stays so when it has ended.
Past(p, stage) == \E n \in 1..(at[p] - 1) : Stages[n] = stage

\* Once pmf_init has returned 0 in the master it listens, and the pid file, if
\* one is set, holds its number: no failure, no signal and no earlier run takes
\* it away.  The one thing that does is a calling process that goes on after its
\* acknowledgement, and it comes to the pid file only where there is a second
\* place for it to listen in; it leaves a 0 there, or nothing.
PidFileNamesMaster ==
  state[Serving] = "ready" =>
    /\ \E k \in 1..places : listening[k] = Serving
    /\ \/ pid_path => pid_file = Serving
       \/ daemonize /\ places > 1 /\ Past("caller", "unlink_pid")

\* sig_handler never drops a signal of the master: when it is installed, the
\* pid it compares with is already that of the process.
SignalsReachMaster == Serving \in handlers => parent_pid[Serving] = Serving

\* The process that was started does not wait for ever for the status.
CallerReturns == state["caller"] = "waiting" ~> state["caller"] # "waiting"

\* pmf_unix.c:203, "I received a valid acknoledge from the master process, I
\* can exit without error": after the wait has ended with a 1 the calling
\* process does nothing more that could fail.
AckMeansSuccess ==
  daemonize /\ at["caller"] > 3 => state["caller"] # "failed"
=============================================================================
