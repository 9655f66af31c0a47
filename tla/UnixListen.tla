----------------------------- MODULE UnixListen -----------------------------
(***************************************************************************)
(* Several instances of the program started on one unix-domain listen      *)
(* address: pmf_sockets_new_listening_socket and the connect test it makes *)
(* first (pmf_sockets.c), the chown of the new socket file (pmf_unix.c),   *)
(* and the death of an instance at any point.  One system call that other  *)
(* processes can see, or that can fail, is one step.                       *)
(***************************************************************************)
CONSTANTS
  Instances,     \* the masters started on the same path
  Nobody,        \* no instance
  NoFile,        \* nothing at the path
  Stale,         \* a socket file whose socket is closed
  Chown,         \* listen.owner or listen.group is set
  Regimes        \* the circumstances a behaviour may take place in

ASSUME SentinelsAssumption ==
  /\ Nobody \notin Instances
  /\ NoFile \notin Instances
  /\ Stale \notin Instances
  /\ NoFile # Stale
ASSUME ChownAssumption == Chown \in BOOLEAN
\* serial: instances are started one at a time; faults: the calls that may fail
\* for reasons of their own.
ASSUME RegimesAssumption ==
  Regimes \subseteq
    [serial : BOOLEAN,
     faults : SUBSET {"socket", "test", "unlink", "bind", "chown", "listen"}]

VARIABLES
  regime,   \* the circumstances, which do not change
  file,     \* what the path names: the instance that bound it, or a leftover
  pc,       \* how far each instance has come
  sock,     \* the instances that hold an open listening descriptor
  full,     \* the instances whose accept queue is full
  peer,     \* the server at whose queue an instance's connect test waits
  umask     \* each instance's umask: its own, or the one for the socket

vars == <<regime, file, pc, sock, full, peer, umask>>

\* An instance that has begun to listen and has not finished doing so.
Starting(i) == pc[i] \in {"test", "unlink", "bind", "chown", "listen"}

\* Its connect test waits at a full accept queue.
Waits(i) == peer[i] # Nobody

\* The instance a connect() on the path reaches: it must have bound the file
\* that is there and be listening.
Answering == {i \in Instances : file = i /\ pc[i] = "up"}

Init ==
  /\ regime \in Regimes
  /\ file \in {NoFile, Stale}
  /\ pc = [i \in Instances |-> "down"]
  /\ sock = {}
  /\ full = {}
  /\ peer = [i \in Instances |-> Nobody]
  /\ umask = [i \in Instances |-> "own"]

\* Closing the descriptor leaves the file it is bound to behind.
AfterClose(i) == IF file = i THEN Stale ELSE file

\* Slip: "return -1" without the close.
GiveUpLeaking(i) ==
  /\ pc' = [pc EXCEPT ![i] = "failed"]
  /\ UNCHANGED <<file, sock>>

\* "close(sock); return -1": the initialisation fails and the process exits.
GiveUp(i) ==
  /\ pc' = [pc EXCEPT ![i] = "failed"]
  /\ sock' = sock \ {i}
  /\ file' = AfterClose(i)

-----------------------------------------------------------------------------
\* A process is started and calls socket().
Socket(i) ==
  /\ pc[i] \in {"down", "failed"}
  /\ regime.serial => \A j \in Instances : ~Starting(j)
  /\ \/ /\ sock' = sock \cup {i}
        /\ pc' = [pc EXCEPT ![i] = "test"]
     \/ /\ "socket" \in regime.faults
        /\ pc' = [pc EXCEPT ![i] = "failed"]
        /\ UNCHANGED sock
  /\ UNCHANGED <<file, full, peer, umask>>

\* Slip: the answer of the connect test is not looked at.
TestConnectIgnored(i) ==
  /\ pc[i] = "test"
  /\ pc' = [pc EXCEPT ![i] = "unlink"]
  /\ UNCHANGED <<file, sock, full, peer, umask>>

\* pmf_socket_unix_test_connect.  The connect() blocks: at a full accept queue
\* it waits until the server ends, and then looks the path up again.  One that
\* returns leaves its connection in the queue, which may be what fills it.  A
\* socket() that fails, or a connect() that fails although a server is there
\* (sig_handler's signals interrupt it), is taken for "nobody listens".
TestConnect(i) ==
  /\ pc[i] = "test"
  /\ \/ /\ ~Waits(i) /\ Answering \ full # {}
        /\ GiveUp(i)
        /\ full' = full \/ full' = full \cup Answering
        /\ UNCHANGED peer
     \/ /\ ~Waits(i)
        /\ \E j \in Answering \cap full : peer' = [peer EXCEPT ![i] = j]
        /\ UNCHANGED <<file, pc, sock, full>>
     \/ /\ (~Waits(i) /\ Answering = {}) \/ "test" \in regime.faults
        /\ pc' = [pc EXCEPT ![i] = "unlink"]
        /\ peer' = [peer EXCEPT ![i] = Nobody]
        /\ UNCHANGED <<file, sock, full>>
  /\ UNCHANGED umask

\* Slip: the leftover is not removed.
UnlinkMissing(i) ==
  /\ pc[i] = "unlink"
  /\ umask' = [umask EXCEPT ![i] = "socket"]
  /\ pc' = [pc EXCEPT ![i] = "bind"]
  /\ UNCHANGED <<file, sock, full, peer>>

\* unlink() with its result ignored, then umask().
Unlink(i) ==
  /\ pc[i] = "unlink"
  /\ file' = NoFile \/ ("unlink" \in regime.faults /\ file' = file)
  /\ umask' = [umask EXCEPT ![i] = "socket"]
  /\ pc' = [pc EXCEPT ![i] = "bind"]
  /\ UNCHANGED <<sock, full, peer>>

\* Slip: the failing bind does not restore the umask.
BindForgetsUmask(i) ==
  /\ pc[i] = "bind"
  /\ \/ /\ file = NoFile
        /\ file' = i
        /\ pc' = [pc EXCEPT ![i] = "chown"]
        /\ umask' = [umask EXCEPT ![i] = "own"]
        /\ UNCHANGED sock
     \/ /\ file # NoFile \/ "bind" \in regime.faults
        /\ GiveUp(i)
        /\ UNCHANGED umask
  /\ UNCHANGED <<full, peer>>

\* Slip: saved_umask is restored without having been saved (it is 0).
BindRestoresZero(i) ==
  /\ pc[i] = "bind"
  /\ file = NoFile
  /\ file' = i
  /\ pc' = [pc EXCEPT ![i] = "chown"]
  /\ umask' = [umask EXCEPT ![i] = "zero"]
  /\ UNCHANGED <<sock, full, peer>>

\* Slip: a failing bind goes back to the unlink instead of giving up.
BindRetries(i) ==
  /\ pc[i] = "bind"
  /\ umask' = [umask EXCEPT ![i] = "own"]
  /\ \/ /\ file = NoFile
        /\ file' = i
        /\ pc' = [pc EXCEPT ![i] = "chown"]
     \/ /\ file # NoFile
        /\ pc' = [pc EXCEPT ![i] = "unlink"]
        /\ UNCHANGED file
  /\ UNCHANGED <<sock, full, peer>>

\* bind() fails when something is at the path; both ways restore the umask.
Bind(i) ==
  /\ pc[i] = "bind"
  /\ umask' = [umask EXCEPT ![i] = "own"]
  /\ \/ /\ file = NoFile
        /\ file' = i
        /\ pc' = [pc EXCEPT ![i] = "chown"]
        /\ UNCHANGED sock
     \/ (file # NoFile \/ "bind" \in regime.faults) /\ GiveUp(i)
  /\ UNCHANGED <<full, peer>>

\* pmf_unix_set_socket_premissions: chown() works on the path, not on the
\* descriptor, and fails when nothing is there.
SetPermissions(i) ==
  /\ pc[i] = "chown"
  /\ \/ /\ Chown => file # NoFile
        /\ pc' = [pc EXCEPT ![i] = "listen"]
        /\ UNCHANGED <<file, sock>>
     \/ Chown /\ (file = NoFile \/ "chown" \in regime.faults) /\ GiveUp(i)
  /\ UNCHANGED <<full, peer, umask>>

Listen(i) ==
  /\ pc[i] = "listen"
  /\ \/ /\ pc' = [pc EXCEPT ![i] = "up"]
        /\ UNCHANGED <<file, sock>>
     \/ "listen" \in regime.faults /\ GiveUp(i)
  /\ UNCHANGED <<full, peer, umask>>

\* Clients of the path fill the accept queue of the instance they reach; no
\* code of the program accepts, so only the end of the instance empties it.
Fill ==
  /\ Answering # {}
  /\ full' = full \cup Answering
  /\ UNCHANGED <<regime, file, pc, sock, peer, umask>>

\* The process ends, by a signal or on its own; no code unlinks the path.
Die(i) ==
  /\ pc[i] \notin {"down", "failed"}
  /\ pc' = [pc EXCEPT ![i] = "down"]
  /\ sock' = sock \ {i}
  /\ file' = AfterClose(i)
  /\ full' = full \ {i}
  /\ peer' = [j \in Instances |-> IF j = i \/ peer[j] = i THEN Nobody ELSE peer[j]]
  /\ umask' = [umask EXCEPT ![i] = "own"]

Step(i) ==
  /\ TestConnect(i) \/ Unlink(i) \/ Bind(i) \/ SetPermissions(i) \/ Listen(i)
  /\ UNCHANGED regime

Next ==
  \/ \E i \in Instances : Step(i)
  \/ (\E i \in Instances : Socket(i) \/ Die(i)) /\ UNCHANGED regime
  \/ Fill

\* A process that has begun to start runs on while its connect test does not
\* wait; nobody is obliged to start one, to end one or to fill a queue.
Fairness == \A i \in Instances : WF_vars(~Waits(i) /\ Step(i))

Spec == Init /\ [][Next]_vars /\ Fairness

-----------------------------------------------------------------------------
\* Types of the variables.
TypeOK ==
  /\ regime \in Regimes
  /\ file \in Instances \cup {NoFile, Stale}
  /\ pc \in [Instances -> {"down", "test", "unlink", "bind", "chown",
                           "listen", "up", "failed"}]
  /\ sock \subseteq Instances
  /\ full \subseteq Instances
  /\ peer \in [Instances -> Instances \cup {Nobody}]
  /\ umask \in [Instances -> {"own", "socket"}]

\* Whatever call fails, an instance keeps the restricted umask only for the
\* bind: a later file (log, pid file) is never created with the socket's mode.
UmaskOnlyForBind ==
  \A i \in Instances : umask[i] = "socket" <=> pc[i] = "bind"

\* A socket descriptor is open exactly while its instance starts or serves,
\* whichever way the start ends; and the path names only an open socket.
NoLeak ==
  /\ \A i \in Instances : i \in sock <=> Starting(i) \/ pc[i] = "up"
  /\ file \in Instances => file \in sock

\* The conditions under which the connect test and the unlink are one: starts
\* in turn, and a connect test that is not kept from seeing.
Undisturbed == regime.serial /\ "test" \notin regime.faults

\* Clients of the path reach an instance that is up, so there is only one:
\* nobody unlinks the socket file of a running instance.
Reachable ==
  Undisturbed => \A i \in Instances : pc[i] = "up" => file = i

\* The connect test and the bind fail only because another instance serves the
\* address: what a crash left at the path never stops a later start.
RefusedOnlyByAServer ==
  [][Undisturbed /\ regime.faults \cap {"unlink", "bind"} = {} =>
       \A i \in Instances :
         pc[i] \in {"test", "bind"} /\ pc'[i] = "failed" => Answering # {}]_vars

\* A start is over eventually, with a socket or without, unless its connect
\* test waits in front of a full accept queue: nothing bounds that wait, and
\* nothing else in the start can wait.
StartsEnd ==
  \A i \in Instances : Starting(i) ~> ~Starting(i) \/ Waits(i)

\* The address as its clients see it, in the behaviours that are undisturbed.
Serving == {i \in Instances : Undisturbed /\ pc[i] = "up"}
Reached == IF Undisturbed /\ Answering # {}
             THEN CHOOSE i \in Instances : i \in Answering
             ELSE Nobody

Address == INSTANCE ListenAddress WITH serving <- Serving, reached <- Reached

\* Undisturbed instances implement the address as ListenAddress specifies it.
ImplementsAddress == Address!Spec

\* The refusal of pmf_sockets.c:170, "An another FPM instance seems to already
\* listen": no second instance comes to serve the address.
OneServer ==
  \A i, j \in Instances : pc[i] = "up" /\ pc[j] = "up" => i = j
=============================================================================
