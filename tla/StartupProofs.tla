--------------------------- MODULE StartupProofs ----------------------------
(***************************************************************************)
(* Proofs about Startup for any capacity of the socketpair, any results    *)
(* that are reported and any number of places a pool may listen in: the     *)
(* order of pmf_init, and the places that two processes cannot share,      *)
(* decide who may write the pid file.                                      *)
(***************************************************************************)
EXTENDS Startup, TLAPS

\* The numbers of the stages.
LEMMA StageNumbers ==
  /\ Len(Stages) = 13 /\ DOMAIN Stages = 1..13
  /\ \A n \in 1..13 :
       /\ Stages[n] = "fork" <=> n = 3
       /\ Stages[n] = "session" <=> n = 4
       /\ Stages[n] = "signals" <=> n = 6
       /\ Stages[n] = "sockets" <=> n = 8
       /\ Stages[n] = "unlink_pid" <=> n = 11
       /\ Stages[n] = "creat_pid" <=> n = 12
       /\ Stages[n] = "write_pid" <=> n = 13
<1>1. Len(Stages) = 13 /\ DOMAIN Stages = 1..13
  BY DEF Stages
<1>2. \A n \in 1..13 : \/ n = 1 \/ n = 2 \/ n = 3 \/ n = 4 \/ n = 5 \/ n = 6 \/ n = 7
                       \/ n = 8 \/ n = 9 \/ n = 10 \/ n = 11 \/ n = 12 \/ n = 13
  OBVIOUS
<1> QED
  BY <1>1, <1>2 DEF Stages

-----------------------------------------------------------------------------
\* Its own process ends where it came to; those that may still go on.
Alive(p) == state[p] \in {"running", "ready", "blocked"}

\* Who the processes are: the forked one exists only in a daemonized start, it
\* begins behind the fork, and the calling one waits at the fork.
Shape ==
  /\ ~daemonize => state["master"] = "absent"
  /\ state["master"] = "absent" \/ at["master"] >= 4
  /\ state["caller"] = "running" /\ at["caller"] <= 3 => state["master"] = "absent"
  /\ state["master"] # "waiting" /\ state["caller"] # "absent"
  /\ state["caller"] = "waiting" => daemonize /\ at["caller"] = 3
  /\ \A p \in Procs : state[p] = "ready" => at[p] = 13

\* What the process that is to serve has behind it.
Numbered ==
  /\ state[Serving] \notin {"absent", "waiting"} /\ at[Serving] > 4
       => parent_pid[Serving] = Serving
  /\ Serving \in handlers => state[Serving] \notin {"absent", "waiting"} /\ at[Serving] > 6

\* A process that is past the sockets and has not ended listens; the master's
\* number stays in the pid file until a calling process has come past unlink(),
\* for which it needs a place beside the master's.
Exclusive ==
  /\ \A p \in Procs : Alive(p) /\ at[p] > 8 => \E k \in 1..places : listening[k] = p
  /\ state[Serving] = "ready" =>
       \/ pid_path => pid_file = Serving
       \/ daemonize /\ places > 1 /\ at["caller"] > 11

IInv == TypeOK /\ Shape /\ Numbered /\ Exclusive

LEMMA InitIInv == Init => IInv
BY StageNumbers, CapacityAssumption, PlacesAssumption
   DEF Init, IInv, TypeOK, Shape, Numbered, Exclusive, Alive, Serving, Procs

LEMMA NextIInv == IInv /\ [Next]_vars => IInv'
<1> SUFFICES ASSUME IInv, [Next]_vars
             PROVE  IInv'
  OBVIOUS
<1>0. Len(Stages) = 13 /\ DOMAIN Stages = 1..13
  BY StageNumbers
<1> USE <1>0, PlacesAssumption
    DEF IInv, TypeOK, Shape, Numbered, Exclusive, Alive, Serving, Procs, settings
<1>1. ASSUME NEW p \in Procs, Pass(p)
      PROVE  IInv'
  <2>1. /\ state[p] = "running" /\ at[p] \in {1, 2, 5, 7, 9, 10}
        /\ at' = [at EXCEPT ![p] = @ + 1] /\ state' = state
        /\ UNCHANGED <<settings, parent_pid, handlers, unread, listening, pid_file, pipe>>
    BY <1>1, StageNumbers DEF Pass, Advance, Effective
  <2>2. TypeOK' /\ Shape'
    BY <2>1
  <2>3. Numbered'
    BY <2>1
  <2>4. Exclusive'
    BY <2>1
  <2> QED
    BY ONLY <2>2, <2>3, <2>4 DEF IInv
<1>2. ASSUME NEW p \in Procs, NEW how \in {"failed", "killed"}, Live(p), End(p, how)
      PROVE  IInv'
  <2>1. /\ state[p] \in {"running", "waiting", "ready", "blocked"}
        /\ state' = [state EXCEPT ![p] = how]
        /\ listening' = [k \in 1..places |->
                           IF listening[k] = p THEN "none" ELSE listening[k]]
        /\ UNCHANGED <<settings, at, parent_pid, handlers, unread, pid_file, pipe>>
    BY <1>2 DEF End, Live
  <2>2. TypeOK' /\ Shape'
    BY <2>1
  <2>3. Numbered'
    BY <2>1
  <2>4. Exclusive'
    BY <2>1
  <2> QED
    BY ONLY <2>2, <2>3, <2>4 DEF IInv
<1>3. ASSUME NEW p \in Procs, Foreground(p)
      PROVE  IInv'
  <2>1. /\ state[p] = "running" /\ at[p] = 3 /\ ~daemonize
        /\ at' = [at EXCEPT ![p] = @ + 1] /\ state' = state
        /\ UNCHANGED <<settings, parent_pid, handlers, unread, listening, pid_file, pipe>>
    BY <1>3, StageNumbers DEF Foreground, In, Advance
  <2>2. TypeOK' /\ Shape'
    BY <2>1
  <2>3. Numbered'
    BY <2>1
  <2>4. Exclusive'
    BY <2>1
  <2> QED
    BY ONLY <2>2, <2>3, <2>4 DEF IInv
<1>4. CASE Fork
  <2>0. Stages[at["caller"]] = "fork" /\ at["caller"] \in 1..13
    BY <1>4 DEF Fork, In
  <2>1. /\ state["caller"] = "running" /\ at["caller"] = 3 /\ daemonize
        /\ state' = [state EXCEPT !["caller"] = "waiting", !["master"] = "running"]
        /\ at' = [at EXCEPT !["master"] = 4]
        /\ UNCHANGED <<settings, parent_pid, handlers, unread, listening, pid_file, pipe>>
    <3>1. at["caller"] = 3
      BY ONLY <2>0, StageNumbers
    <3> QED
      BY ONLY <1>4, <3>1 DEF Fork, In
  <2>2. TypeOK' /\ Shape'
    BY <2>1
  <2>3. Numbered' /\ Exclusive'
    BY <2>1
  <2> QED
    BY ONLY <2>2, <2>3 DEF IInv
<1>5. ASSUME NEW p \in Procs, Session(p)
      PROVE  IInv'
  <2>1. /\ state[p] = "running" /\ at[p] = 4
        /\ at' = [at EXCEPT ![p] = @ + 1] /\ state' = state
        /\ parent_pid' = [parent_pid EXCEPT ![p] = p]
        /\ UNCHANGED <<settings, handlers, unread, listening, pid_file, pipe>>
    BY <1>5, StageNumbers DEF Session, In, Advance
  <2>2. TypeOK' /\ Shape'
    BY <2>1
  <2>3. Numbered'
    BY <2>1
  <2>4. Exclusive'
    BY <2>1
  <2> QED
    BY ONLY <2>2, <2>3, <2>4 DEF IInv
<1>6. ASSUME NEW p \in Procs, Signals(p)
      PROVE  IInv'
  <2>1. /\ state[p] = "running" /\ at[p] = 6
        /\ at' = [at EXCEPT ![p] = @ + 1] /\ state' = state
        /\ handlers' = handlers \cup {p}
        /\ UNCHANGED <<settings, parent_pid, unread, listening, pid_file, pipe>>
    BY <1>6, StageNumbers DEF Signals, In, Advance
  <2>2. TypeOK' /\ Shape'
    BY <2>1
  <2>3. Numbered'
    BY <2>1
  <2>4. Exclusive'
    BY <2>1
  <2> QED
    BY ONLY <2>2, <2>3, <2>4 DEF IInv
<1>7. ASSUME NEW p \in Procs, Sockets(p)
      PROVE  IInv'
  <2>0. Stages[at[p]] = "sockets" /\ at[p] \in 1..13
    BY <1>7 DEF Sockets, In
  <2>5. at[p] = 8
    BY ONLY <2>0, StageNumbers
  <2>6. PICK k \in 1..places : /\ listening[k] = "none"
                               /\ listening' = [listening EXCEPT ![k] = p]
    BY ONLY <1>7 DEF Sockets
  <2>1. /\ state[p] = "running" /\ at[p] = 8
        /\ at' = [at EXCEPT ![p] = @ + 1] /\ state' = state
        /\ UNCHANGED <<settings, parent_pid, handlers, unread, pid_file, pipe>>
    BY ONLY <1>7, <1>0, <2>5 DEF Sockets, In, Advance
  <2>2. TypeOK' /\ Shape'
    BY <2>1, <2>6
  <2>3. Numbered'
    BY <2>1
  <2>4. Exclusive'
    BY <2>1, <2>6
  <2> QED
    BY ONLY <2>2, <2>3, <2>4 DEF IInv
<1>8. ASSUME NEW p \in Procs, WritePid(p)
      PROVE  IInv'
  <2>1. /\ at[p] \in {11, 12, 13} /\ state[p] = "running"
        /\ UNCHANGED <<settings, parent_pid, handlers, unread, listening, pipe>>
        /\ IF at[p] = 13 THEN state' = [state EXCEPT ![p] = "ready"] /\ at' = at
                          ELSE at' = [at EXCEPT ![p] = @ + 1] /\ state' = state
        /\ at[p] = 13 => pid_file' = IF pid_path THEN parent_pid[p] ELSE pid_file
        /\ pid_file' \in Procs \cup {"none", "old", "empty", "0"}
        /\ ~pid_path => pid_file' = pid_file
    BY <1>8, StageNumbers DEF WritePid, In, Advance
  <2>2. TypeOK' /\ Shape' /\ Numbered'
    BY <2>1
  <2>3. (\A q \in Procs : Alive(q) /\ at[q] > 8 =>
           \E k \in 1..places : listening[k] = q)'
    BY <2>1
  <2>4. ASSUME state'[Serving'] = "ready"
        PROVE  \/ pid_path' => pid_file' = Serving'
               \/ daemonize' /\ places' > 1 /\ at'["caller"] > 11
    <3>1. Serving' = Serving
      BY <2>1
    <3>2. CASE p = Serving
      BY <2>1, <2>4, <3>1, <3>2
    <3>3. CASE p # Serving
      <4>1. daemonize /\ p = "caller" /\ Serving = "master" /\ state["master"] = "ready"
        BY <2>1, <2>4, <3>1, <3>3
      <4>2. PICK k \in 1..places : listening[k] = "caller"
        BY <2>1, <4>1
      <4>3. PICK m \in 1..places : listening[m] = "master"
        BY <4>1
      <4>4. places > 1
        BY <4>2, <4>3
      <4> QED
        BY <2>1, <4>1, <4>4
    <3> QED
      BY <3>2, <3>3
  <2>5. (state[Serving] = "ready" =>
           \/ pid_path => pid_file = Serving
           \/ daemonize /\ places > 1 /\ at["caller"] > 11)'
    BY <2>4
  <2> QED
    BY ONLY <2>2, <2>3, <2>5 DEF IInv, Exclusive
<1>9. CASE Ack
  BY <1>9 DEF Ack
<1>10. CASE ReadAck
  <2>1. CASE pipe = {0} /\ End("caller", "failed")
    BY <1>10, <2>1, <1>2 DEF ReadAck, Live
  <2>2. CASE pipe = {1} /\ pipe' = {}
    <3>1. pipe # {0}
      BY ONLY <2>2
    <3>2. /\ state' = [state EXCEPT !["caller"] = "running"]
          /\ at' = [at EXCEPT !["caller"] = @ + 2]
          /\ UNCHANGED <<settings, parent_pid, handlers, unread, listening, pid_file>>
      BY <1>10, <3>1, Zenon DEF ReadAck
    <3>3. daemonize /\ state["caller"] = "waiting" /\ at["caller"] = 3
      BY <1>10 DEF ReadAck
    <3>4. TypeOK'
      BY <2>2, <3>2, <3>3
    <3>5. Shape'
      BY <3>2, <3>3
    <3>6. Numbered'
      BY <3>2, <3>3
    <3>7. Exclusive'
      BY <3>2, <3>3
    <3> QED
      BY ONLY <3>4, <3>5, <3>6, <3>7 DEF IInv
  <2> QED
    BY <1>10, <2>1, <2>2 DEF ReadAck
<1>11. ASSUME NEW p \in Procs, Handle(p)
       PROVE  IInv'
  <2>1. state[p] \in {"running", "ready"} /\ parent_pid[p] = p
        /\ UNCHANGED <<settings, at, parent_pid, handlers, listening, pid_file, pipe>>
    BY <1>11 DEF Handle
  <2>2. CASE unread' = [unread EXCEPT ![p] = @ + 1] /\ UNCHANGED state /\ unread[p] < Capacity
    <3>0. unread' \in [Procs -> 0..Capacity]
      BY ONLY <2>2, CapacityAssumption, unread \in [Procs -> 0..Capacity], p \in Procs
    <3>1. TypeOK'
      BY <2>1, <2>2, <3>0
    <3>2. Shape' /\ Numbered' /\ Exclusive'
      BY <2>1, <2>2
    <3> QED
      BY ONLY <3>1, <3>2 DEF IInv
  <2>3. CASE state' = [state EXCEPT ![p] = "blocked"] /\ UNCHANGED unread
    <3>1. TypeOK' /\ Shape'
      BY <2>1, <2>3
    <3>2. Numbered'
      BY <2>1, <2>3
    <3>3. Exclusive'
      BY <2>1, <2>3
    <3> QED
      BY ONLY <3>1, <3>2, <3>3 DEF IInv
  <2> QED
    BY <1>11, <2>2, <2>3 DEF Handle
<1>12. CASE UNCHANGED vars
  BY <1>12 DEF vars
<1> HIDE DEF IInv
<1> QED
  BY <1>1, <1>2, <1>3, <1>4, <1>5, <1>6, <1>7, <1>8, <1>9, <1>10, <1>11, <1>12
     DEF Next, Step, Fail, Timeout, Die, Kill, Live

LEMMA Invariance == Spec => []IInv
BY InitIInv, NextIInv, PTL DEF Spec

\* The types of the variables, whatever the capacity of the socketpair.
THEOREM TypeCorrect == Spec => []TypeOK
BY Invariance, PTL DEF IInv

\* A pmf_init that has returned 0 in the master has left it a place to listen
\* in and its number in the pid file, whatever a failure, a signal or a calling
\* process does; except that such a process, once acknowledged, rewrites the file
\* if there is a second place it can listen in.
THEOREM PidFileIsTheMasters == Spec => []PidFileNamesMaster
<1>1. IInv => PidFileNamesMaster
  <2> SUFFICES ASSUME IInv, state[Serving] = "ready"
               PROVE  /\ \E k \in 1..places : listening[k] = Serving
                      /\ \/ pid_path => pid_file = Serving
                         \/ daemonize /\ places > 1 /\ Past("caller", "unlink_pid")
    BY DEF PidFileNamesMaster
  <2>1. Serving \in Procs /\ at[Serving] = 13
    BY DEF IInv, Shape, Serving, Procs
  <2>2. \E k \in 1..places : listening[k] = Serving
    BY <2>1 DEF IInv, Exclusive, Alive
  <2>3. at["caller"] > 11 => Past("caller", "unlink_pid")
    BY StageNumbers DEF IInv, TypeOK, Procs, Past
  <2> QED
    BY <2>2, <2>3 DEF IInv, Exclusive
<1> QED
  BY <1>1, Invariance, PTL

\* sig_handler's comparison of process numbers lets every signal of the master
\* through: pmf_signals_init_main comes after the number is stored.
THEOREM HandlerKnowsMaster == Spec => []SignalsReachMaster
<1>1. IInv => SignalsReachMaster
  BY StageNumbers DEF IInv, TypeOK, Numbered, SignalsReachMaster, Serving, Procs
<1> QED
  BY <1>1, Invariance, PTL
=============================================================================
