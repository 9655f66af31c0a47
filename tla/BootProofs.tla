----------------------------- MODULE BootProofs -----------------------------
(***************************************************************************)
(* Proofs about the reading of the configuration and the scoreboards made  *)
(* of it, for any files: from the texts of ini files to the pools that     *)
(* PoolConfig checks, and from there to the mappings.                      *)
(***************************************************************************)
EXTENDS ScoreboardInit, FiniteSetTheorems, SequenceTheorems, TLAPS

-----------------------------------------------------------------------------
\* The check of the pools on its own: PoolConfig, for any pools.

\* A pool that has been accepted and completed.
Settled(c) == ~Refused(c) /\ Completed(c) = c

\* start_servers is put between the spare counts, and no lower than one.
LEMMA MidpointBetween ==
  ASSUME NEW c \in Pool, 0 < c.min_spare, c.min_spare <= c.max_spare
  PROVE  /\ Midpoint(c) \in Int
         /\ c.min_spare <= Midpoint(c)
         /\ Midpoint(c) <= c.max_spare
<1>1. c.min_spare \in Int /\ c.max_spare \in Int
  BY DEF Pool
<1> DEFINE d == c.max_spare - c.min_spare
<1>2. d \in Nat
  BY <1>1
<1>3. d \div 2 \in Int /\ 0 <= d \div 2 /\ d \div 2 <= d
  <2> HIDE DEF d
  <2> QED
    BY <1>2
<1> QED
  BY <1>1, <1>3 DEF Midpoint

\* Completing an accepted pool yields a pool that is accepted as it is.
LEMMA CompletionSettles ==
  ASSUME NEW c \in Pool, ~Refused(c)
  PROVE  Completed(c) \in Pool /\ Settled(Completed(c))
<1>1. CASE c.pm = "dynamic" /\ c.start <= 0
  <2>1. /\ c.min_spare \in Int /\ c.max_spare \in Int /\ c.max_children \in Int
        /\ 0 < c.min_spare /\ c.min_spare <= c.max_spare
    BY <1>1 DEF Pool, Refused, DynamicRefused
  <2>2. PICK m \in Int : /\ m = Midpoint(c)
                         /\ c.min_spare <= m /\ m <= c.max_spare /\ m > 0
    BY <2>1, MidpointBetween
  <2>3. Completed(c) = [c EXCEPT !.start = m] /\ [c EXCEPT !.start = m] \in Pool
    BY <1>1, <2>2 DEF Completed, Pool
  <2> DEFINE n == [c EXCEPT !.start = m]
  <2>4. ~Refused(n)
    <3>1. /\ n.start = m /\ n.address = c.address /\ n.priority = c.priority
          /\ n.pm = c.pm /\ n.max_children = c.max_children
          /\ n.min_spare = c.min_spare /\ n.max_spare = c.max_spare
      BY DEF Pool
    <3>2. ~DynamicRefused(n)
      <4>1. m \in c.min_spare..c.max_spare
        BY <2>1, <2>2
      <4> HIDE DEF n
      <4> QED
        BY <1>1, <2>1, <3>1, <4>1 DEF Refused, DynamicRefused
    <3> HIDE DEF n
    <3> QED
      BY <1>1, <3>1, <3>2 DEF Refused, AddressRefused, PriorityRefused
  <2>5. Completed(n) = n
    BY <1>1, <2>2 DEF Completed, Pool
  <2> QED
    BY <2>3, <2>4, <2>5 DEF Settled
<1>2. CASE c.pm = "ondemand"
  <2>1. Completed(c) = CompletedOndemand(c) /\ CompletedOndemand(c) \in Pool
    <3>1. PICK b \in Int : b = IF c.backlog < BacklogDefault THEN BacklogDefault
                                                              ELSE c.backlog
      BY ParametersAssumption DEF Pool
    <3>2. CompletedOndemand(c) = [c EXCEPT !.backlog = b, !.start = 0,
                                           !.min_spare = 0, !.max_spare = 0]
      BY <3>1 DEF CompletedOndemand
    <3>3. CompletedOndemand(c) =
            [address |-> c.address, priority |-> c.priority, pm |-> c.pm,
             max_children |-> c.max_children, start |-> 0, min_spare |-> 0,
             max_spare |-> 0, idle_timeout |-> c.idle_timeout, backlog |-> b]
      BY <3>2, Zenon DEF Pool
    <3>4. CompletedOndemand(c) \in Pool
      BY <3>1, <3>3 DEF Pool
    <3> QED
      BY <1>2, <3>4 DEF Completed
  <2>2. ~Refused(CompletedOndemand(c))
    BY <1>2
       DEF CompletedOndemand, Pool, Refused, AddressRefused, PriorityRefused,
           OndemandRefused
  <2>3. Completed(CompletedOndemand(c)) = CompletedOndemand(c)
    BY <1>2, ParametersAssumption DEF Completed, CompletedOndemand, Pool
  <2> QED
    BY <2>1, <2>2, <2>3 DEF Settled
<1>3. CASE ~(c.pm = "dynamic" /\ c.start <= 0) /\ c.pm # "ondemand"
  BY <1>3 DEF Completed, Settled
<1> QED
  BY <1>1, <1>2, <1>3

\* What a settled pool guarantees to the process manager.
LEMMA SettledIsSound ==
  ASSUME NEW c \in Pool, Settled(c)
  PROVE  /\ c.max_children >= 1
         /\ c.address \in {"inet", "absolute"}
         /\ SpareBounds(c)
         /\ OndemandReady(c)
<1>1. c.max_children >= 1 /\ c.address \in {"inet", "absolute"}
  BY DEF Settled, Refused, AddressRefused, Pool
<1>2. SpareBounds(c)
  <2> SUFFICES ASSUME c.pm = "dynamic"
               PROVE  /\ 0 < c.min_spare /\ c.min_spare <= c.start
                      /\ c.start <= c.max_spare /\ c.max_spare <= c.max_children
    BY DEF SpareBounds
  <2>1. ~DynamicRefused(c)
    BY DEF Settled, Refused
  <2>2. c.start > 0
    <3>1. CASE c.start <= 0
      <4>1. c = [c EXCEPT !.start = Midpoint(c)]
        BY <3>1 DEF Settled, Completed
      <4>2. c.start = Midpoint(c)
        BY <4>1 DEF Pool
      <4> QED
        BY <2>1, <4>2, MidpointBetween DEF DynamicRefused, Pool
    <3> QED
      BY <3>1 DEF Pool
  <2> QED
    BY <2>1, <2>2 DEF DynamicRefused, Pool
<1>3. OndemandReady(c)
  <2> SUFFICES ASSUME c.pm = "ondemand"
               PROVE  OndemandReady(c)
    BY DEF OndemandReady
  <2>1. ~OndemandRefused(c)
    BY DEF Settled, Refused
  <2>2. CompletedOndemand(c) = c
    BY DEF Settled, Completed
  <2>3. /\ c.backlog = IF c.backlog < BacklogDefault THEN BacklogDefault ELSE c.backlog
        /\ c.start = 0 /\ c.min_spare = 0 /\ c.max_spare = 0
    BY <2>2 DEF CompletedOndemand, Pool
  <2> QED
    BY <2>1, <2>3, ParametersAssumption DEF OndemandReady, OndemandRefused, Pool
<1> QED
  BY <1>1, <1>2, <1>3

-----------------------------------------------------------------------------
\* The pools behind the loop are settled; it returns 0 at the end only.
IInv ==
  /\ TypeOK
  /\ CompletionIsStable
  /\ status = "accepted" => pools # <<>> /\ wp = Len(pools) + 1

LEMMA InitInv == Init => IInv
BY ConfigurationsAssumption DEF Init, IInv, TypeOK, CompletionIsStable

LEMMA NextInv == IInv /\ [Next]_vars => IInv'
<1> SUFFICES ASSUME IInv, [Next]_vars
             PROVE  IInv'
  OBVIOUS
<1>1. CASE AcceptPool
  <2> DEFINE c == pools[wp]
  <2>1. /\ wp \in 1..Len(pools) /\ pools \in Seq(Pool) /\ wp \in DOMAIN pools
        /\ c \in Pool /\ ~Refused(c)
    BY <1>1 DEF AcceptPool, IInv, TypeOK
  <2>2. Completed(c) \in Pool /\ Settled(Completed(c))
    BY <2>1, CompletionSettles
  <2>3. /\ pools' = [pools EXCEPT ![wp] = Completed(c)]
        /\ wp' = wp + 1
        /\ status = "checking" /\ status' = "checking"
    BY <1>1 DEF AcceptPool
  <2>4. pools' \in Seq(Pool) /\ Len(pools') = Len(pools)
    BY <2>1, <2>2, <2>3
  <2>5. TypeOK'
    BY <1>1, <2>1, <2>3, <2>4 DEF AcceptPool, IInv, TypeOK
  <2>6. ASSUME NEW k \in 1..(wp' - 1)
        PROVE  Settled(pools'[k])
    <3>1. CASE k = wp
      BY <2>1, <2>2, <2>3, <3>1
    <3>2. CASE k # wp
      <4>1. k \in 1..(wp - 1) /\ k \in DOMAIN pools
        BY <2>1, <2>3, <3>2
      <4>2. pools'[k] = pools[k]
        BY <2>3, <3>2, <4>1
      <4> QED
        BY <4>1, <4>2 DEF IInv, CompletionIsStable, Settled
    <3> QED
      BY <3>1, <3>2
  <2>7. CompletionIsStable'
    BY <1>1, <2>6
       DEF AcceptPool, CompletionIsStable, Settled, Refused, OndemandRefused
  <2> QED
    BY <2>3, <2>5, <2>7 DEF IInv
<1>2. CASE AcceptAll
  BY <1>2 DEF AcceptAll, IInv, TypeOK, CompletionIsStable,
              Refused, OndemandRefused
<1>3. CASE RefusePool \/ RefuseNoPool
  BY <1>3 DEF RefusePool, RefuseNoPool, IInv, TypeOK, CompletionIsStable,
              Refused, OndemandRefused
<1>4. CASE UNCHANGED vars
  BY <1>4 DEF vars, IInv, TypeOK, CompletionIsStable,
              Refused, OndemandRefused
<1> QED
  BY <1>1, <1>2, <1>3, <1>4 DEF Next

LEMMA Invariance == Spec => []IInv
BY InitInv, NextInv, PTL DEF Spec

LEMMA AcceptedSettled ==
  ASSUME IInv, status = "accepted", NEW k \in DOMAIN pools
  PROVE  pools[k] \in Pool /\ Settled(pools[k])
<1>1. pools \in Seq(Pool) /\ k \in 1..Len(pools) /\ k \in 1..(wp - 1)
  BY DEF IInv, TypeOK
<1> QED
  BY <1>1 DEF IInv, CompletionIsStable, Settled

\* What the function has completed it would accept unchanged.
THEOREM StableCompletion == Spec => []CompletionIsStable
<1>1. IInv => CompletionIsStable
  BY DEF IInv
<1> QED
  BY <1>1, Invariance, PTL

\* Whatever numbers the ini files hold, the pools of a configuration that is
\* accepted have children to run, an address, spare counts that fit, and for
\* ondemand all that mode needs.
THEOREM AcceptedSound == Spec => []AcceptedPoolsSound
<1>1. IInv => AcceptedPoolsSound
  BY AcceptedSettled, SettledIsSound DEF AcceptedPoolsSound, IInv
<1> QED
  BY <1>1, Invariance, PTL

-----------------------------------------------------------------------------
\* The setters.

\* The value of an option that is given is a reading of its text.
LEMMA ValueIsRead ==
  ASSUME NEW table, NEW opts, NEW key, NEW default, Unread(table, opts) = {},
         key \in {table[i][1] : i \in DOMAIN table}
  PROVE  /\ Keyed(table, key) \in DOMAIN table /\ table[Keyed(table, key)][1] = key
         /\ key \notin DOMAIN opts => ValueOf(table, opts, key, default) = default
         /\ key \in DOMAIN opts =>
              ValueOf(table, opts, key, default) \in Readings(table, opts, Keyed(table, key))
<1>1. Keyed(table, key) \in DOMAIN table /\ table[Keyed(table, key)][1] = key
  BY DEF Keyed
<1>2. ASSUME key \in DOMAIN opts
      PROVE  Readings(table, opts, Keyed(table, key)) # {}
  <2>1. Keyed(table, key) \in Given(table, opts)
    BY <1>1, <1>2 DEF Given
  <2> QED
    BY <2>1 DEF Unread
<1> QED
  BY <1>1, <1>2 DEF ValueOf

LEMMA IntegersRead ==
  ASSUME NEW t \in Text
  PROVE  Reading("integer", t) \subseteq Int
<1>1. Reading("integer", t) = Integer(t)
  BY DEF Reading
<1>2. ASSUME t[1] = "num"
      PROVE  t[2] \in Int
  <2>1. t \in {"num"} \X Int
    <3>1. CASE t \in {"time"} \X Nat \X DOMAIN Units
      <4>1. t[1] = "time"
        BY <3>1
      <4> QED
        BY <1>2, <4>1
    <3>2. CASE t \in {"word"} \X STRING
      <4>1. t[1] = "word"
        BY <3>2
      <4> QED
        BY <1>2, <4>1
    <3> QED
      BY <3>1, <3>2 DEF Text
  <2> QED
    BY <2>1
<1>3. 0 \in Int
  OBVIOUS
<1>4. Integer(t) \subseteq Int
  BY <1>2, <1>3, Zenon DEF Integer
<1> QED
  BY <1>1, <1>4

LEMMA ModesRead ==
  ASSUME NEW t
  PROVE  Reading("pm", t) \subseteq {"static", "dynamic", "ondemand"}
BY DEF Reading

\* The kinds of the options of a pool.
LEMMA PoolTable ==
  /\ {PoolOptions[i][1] : i \in DOMAIN PoolOptions} =
       {"user", "group", "listen", "listen_backlog", "process_priority",
        "process.dumpable", "pm", "pm.max_children", "pm.start_servers",
        "pm.min_spare_servers", "pm.max_spare_servers", "pm.process_idle_timeout",
        "pm.max_requests"}
  /\ \A i \in DOMAIN PoolOptions :
       PoolOptions[i][2] = IF PoolOptions[i][1] \in {"user", "group", "listen"} THEN "string"
                           ELSE IF PoolOptions[i][1] = "pm" THEN "pm" ELSE "integer"
<1>1. DOMAIN PoolOptions = 1..13
  BY DEF PoolOptions
<1>2. 1..13 = {1, 2, 3, 4, 5, 6, 7, 8, 9, 10, 11, 12, 13}
  OBVIOUS
<1> QED
  BY <1>1, <1>2 DEF PoolOptions

\* What the value of an option of a pool may be.
LEMMA PoolValue ==
  ASSUME NEW opts, Unread(PoolOptions, opts) = {}, NEW default,
         NEW key \in {PoolOptions[i][1] : i \in DOMAIN PoolOptions}
  PROVE  LET kind == IF key \in {"user", "group", "listen"} THEN "string"
                     ELSE IF key = "pm" THEN "pm" ELSE "integer"
         IN  IF key \in DOMAIN opts
               THEN ValueOf(PoolOptions, opts, key, default) \in Reading(kind, opts[key])
               ELSE ValueOf(PoolOptions, opts, key, default) = default
<1> DEFINE i == Keyed(PoolOptions, key)
<1>1. i \in DOMAIN PoolOptions /\ PoolOptions[i][1] = key
  BY ValueIsRead
<1>2. PoolOptions[i][2] = IF key \in {"user", "group", "listen"} THEN "string"
                          ELSE IF key = "pm" THEN "pm" ELSE "integer"
  BY <1>1, PoolTable
<1>3. Readings(PoolOptions, opts, i) = Reading(PoolOptions[i][2], opts[key])
  BY <1>1 DEF Readings
<1>4. key \notin DOMAIN opts => ValueOf(PoolOptions, opts, key, default) = default
  BY DEF ValueOf
<1>5. key \in DOMAIN opts =>
        ValueOf(PoolOptions, opts, key, default) \in Readings(PoolOptions, opts, i)
  BY ValueIsRead
<1> HIDE DEF i
<1> QED
  BY <1>2, <1>3, <1>4, <1>5

LEMMA IntegerValue ==
  ASSUME NEW opts, Unread(PoolOptions, opts) = {}, IsOptions(opts), NEW default \in Int,
         NEW key \in {"listen_backlog", "process_priority", "pm.max_children",
                      "pm.start_servers", "pm.min_spare_servers",
                      "pm.max_spare_servers", "pm.process_idle_timeout"}
  PROVE  ValueOf(PoolOptions, opts, key, default) \in Int
<1>1. /\ key \in {PoolOptions[i][1] : i \in DOMAIN PoolOptions}
      /\ key \notin {"user", "group", "listen"} /\ key # "pm"
  BY PoolTable
<1>2. CASE key \in DOMAIN opts
  <2>1. ValueOf(PoolOptions, opts, key, default) \in Reading("integer", opts[key])
    BY <1>1, <1>2, PoolValue
  <2>2. opts[key] \in Text
    BY <1>2 DEF IsOptions
  <2> QED
    BY <2>1, <2>2, IntegersRead
<1>3. CASE key \notin DOMAIN opts
  BY <1>1, <1>3, PoolValue
<1> QED
  BY <1>2, <1>3

\* The record of a pool whose options could be read.
LEMMA PoolReadIsPool ==
  ASSUME NEW opts, Unread(PoolOptions, opts) = {}, IsOptions(opts)
  PROVE  PoolRead(opts) \in Pool
<1> DEFINE pm == ValueOf(PoolOptions, opts, "pm", "unset")
           listen == ValueOf(PoolOptions, opts, "listen", "")
<1>1. "pm" \in {PoolOptions[i][1] : i \in DOMAIN PoolOptions}
      /\ "listen" \in {PoolOptions[i][1] : i \in DOMAIN PoolOptions}
  BY PoolTable
<1>2. pm \in {"unset", "static", "dynamic", "ondemand"}
  <2>1. IF "pm" \in DOMAIN opts THEN pm \in Reading("pm", opts["pm"]) ELSE pm = "unset"
    BY <1>1, PoolValue
  <2> HIDE DEF pm
  <2> QED
    BY <2>1, ModesRead
<1>3. listen \in {"", "inet", "absolute", "relative"}
  <2>1. IF "listen" \in DOMAIN opts THEN listen \in Reading("string", opts["listen"])
                                    ELSE listen = ""
    BY <1>1, PoolValue
  <2> HIDE DEF listen
  <2>2. CASE "listen" \in DOMAIN opts
    <3>1. PICK a \in {"", "inet", "absolute", "relative"} : opts["listen"] = <<"word", a>>
      BY <2>2 DEF IsOptions, Word
    <3>2. Reading("string", opts["listen"]) = {opts["listen"][2]}
      BY DEF Reading
    <3>3. <<"word", a>>[2] = a
      OBVIOUS
    <3> QED
      BY <2>1, <2>2, <3>1, <3>2, <3>3
  <2> QED
    BY <2>1, <2>2
<1>4. BacklogDefault \in Int /\ Unset \in Int /\ 0 \in Int /\ 10 \in Int
  BY ParametersAssumption
<1> DEFINE address == IF listen = "" THEN "unset" ELSE listen
           number(key, default) == ValueOf(PoolOptions, opts, key, default)
<1>5. PoolRead(opts) =
        [address      |-> address,
         priority     |-> number("process_priority", Unset),
         pm           |-> pm,
         max_children |-> number("pm.max_children", 0),
         start        |-> number("pm.start_servers", 0),
         min_spare    |-> number("pm.min_spare_servers", 0),
         max_spare    |-> number("pm.max_spare_servers", 0),
         idle_timeout |-> number("pm.process_idle_timeout", 10),
         backlog      |-> number("listen_backlog", BacklogDefault)]
  BY DEF PoolRead
<1>6. address \in {"unset", "inet", "absolute", "relative"}
  BY <1>3
<1>7. /\ number("process_priority", Unset) \in Int /\ number("pm.max_children", 0) \in Int
      /\ number("pm.start_servers", 0) \in Int /\ number("pm.min_spare_servers", 0) \in Int
      /\ number("pm.max_spare_servers", 0) \in Int
      /\ number("pm.process_idle_timeout", 10) \in Int
      /\ number("listen_backlog", BacklogDefault) \in Int
  BY <1>4, IntegerValue
<1> HIDE DEF pm, address, number
<1> QED
  BY <1>2, <1>5, <1>6, <1>7 DEF Pool
-----------------------------------------------------------------------------
\* The program has been started with some files.
Started == \E s \in Systems : main = s.main /\ dir = s.dir

Types == ConfTypeOK /\ names \in Seq(STRING) /\ wp \in Nat \ {0}

\* Before the check of the pools.
Early == {"start", "sections", "dir", "file", "settings"}
Positions ==
  /\ status \in Early => wp = 1
  /\ status \in {"start", "sections"} => names = <<>> /\ pools = <<>>
  /\ status = "sections" => main # Unreadable /\ nsec <= Len(main)

\* The sections of the directory's files that have been made pools: all of the
\* files returned by readdir(), but for those of the current one still to come.
Visible == {e \in dir : ~e.hidden}
Sections(E) == UNION {{<<e, k>> : k \in DOMAIN e.ini} : e \in E}
Current == [hidden |-> FALSE, ini |-> ini]
Still(n) == {<<Current, k>> : k \in 1..n}
Done == Sections(Visible \ todo) \ (IF status = "file" THEN Still(nsec) ELSE {})

\* The list of pools from the given one on is made of the sections in S.
MadeOf(S, name, pool) ==
  \E x \in S : x[1].ini[x[2]].name = name /\ pool = PoolRead(x[1].ini[x[2]].opts)
Listed(S) ==
  /\ IsFiniteSet(S) /\ Len(names) = Cardinality(S)
  /\ IsFiniteSet(Range(names)) /\ Cardinality(Range(names)) = Len(names)
  /\ "global" \notin Range(names)
  /\ \A j \in 1..Len(names) : MadeOf(S, names[j], pools[j])

InDirectory ==
  status \in {"dir", "file"} =>
    /\ global["include_dir"] = "dir"
    /\ \A e \in Visible \ todo : e.ini # Unreadable
    /\ Listed(Done)
    /\ status = "file" => Current \in Visible \ todo /\ nsec <= Len(ini)

\* PoolConfig's invariant while its actions are at work.
Checked == CompletionIsStable /\ (status \in {"checking", "accepted"} => IInv)

FilesInv ==
  /\ Started /\ Types /\ Positions /\ InDirectory /\ Checked /\ PoolsAreTheFiles

-----------------------------------------------------------------------------
\* What the files are, from the assumption on the systems.
LEMMA FilesAreFiles ==
  ASSUME Started
  PROVE  /\ main # Unreadable => IsIni(main)
         /\ \A e \in dir : /\ e = [hidden |-> e.hidden, ini |-> e.ini] /\ e.hidden \in BOOLEAN
                           /\ e.ini # Unreadable => IsIni(e.ini)
BY SystemsAssumption DEF Started

LEMMA Reached ==
  ASSUME FilesInv, status = "file"
  PROVE  IsIni(ini) /\ Current \in dir /\ nsec \in 0..Len(ini)
<1>1. Current \in dir /\ Current.ini # Unreadable /\ nsec <= Len(ini)
  BY DEF FilesInv, InDirectory, Visible
<1>2. Current.ini = ini
  BY DEF Current
<1>3. IsIni(ini)
  BY <1>1, <1>2, FilesAreFiles DEF FilesInv
<1> QED
  BY <1>1, <1>3 DEF FilesInv, Types, ConfTypeOK, IsIni

\* The pools stay as they are, and so does what is known of them.
LEMMA SamePools ==
  ASSUME FilesInv, UNCHANGED <<pools, wp, names>>, status' \notin {"checking", "accepted"},
         UNCHANGED support_edge_trigger \/ wp = 1
  PROVE  Checked'
<1>1. ASSUME NEW k \in 1..(wp - 1)
      PROVE  (~Refused(pools[k]) /\ Completed(pools[k]) = pools[k])'
  <2>1. support_edge_trigger' = support_edge_trigger
    BY <1>1
  <2> QED
    BY <1>1, <2>1
       DEF FilesInv, Checked, CompletionIsStable, Refused, OndemandRefused, AddressRefused,
           PriorityRefused, DynamicRefused, Completed, CompletedOndemand, Midpoint
<1>2. CompletionIsStable'
  BY <1>1 DEF CompletionIsStable
<1> QED
  BY <1>2 DEF Checked

LEMMA RefuseStep ==
  ASSUME FilesInv, Refuse
  PROVE  FilesInv'
<1>1. /\ status' = "refused"
      /\ UNCHANGED <<support_edge_trigger, pools, wp>>
      /\ UNCHANGED <<main, dir, global, names, ini, nsec, todo>>
  BY DEF Refuse, confvars
<1>2. Started' /\ Types'
  BY <1>1 DEF FilesInv, Started, Types, ConfTypeOK
<1>3. Positions' /\ InDirectory' /\ PoolsAreTheFiles'
  BY <1>1 DEF Positions, Early, InDirectory, PoolsAreTheFiles
<1>4. Checked'
  BY <1>1, SamePools
<1> QED
  BY <1>2, <1>3, <1>4 DEF FilesInv

LEMMA InitFiles == BootInit => FilesInv
<1> SUFFICES ASSUME ConfInit PROVE FilesInv
  BY DEF BootInit
<1>1. /\ \E s \in Systems : main = s.main /\ dir = s.dir
      /\ global = GlobalDefault /\ names = <<>> /\ pools = <<>> /\ ini = <<>>
      /\ nsec = 0 /\ todo = {} /\ support_edge_trigger = FALSE /\ wp = 1
      /\ status = "start"
  BY DEF ConfInit
<1>2. Started /\ Types
  <2>1. names \in Seq(STRING) /\ pools \in Seq(Pool) /\ Len(names) = Len(pools)
    BY <1>1, EmptySeq
  <2>2. support_edge_trigger \in BOOLEAN
    BY <1>1, Zenon
  <2>3. nsec \in Nat /\ wp \in Nat \ {0} /\ todo \subseteq dir
    BY <1>1
  <2>4. DOMAIN global = DOMAIN GlobalDefault /\ status = "start"
    BY <1>1
  <2>5. ConfTypeOK
    BY <2>1, <2>2, <2>3, <2>4 DEF ConfTypeOK
  <2> QED
    BY <1>1, <2>1, <2>3, <2>5 DEF Started, Types
<1>3. Positions /\ InDirectory /\ PoolsAreTheFiles
  BY <1>1 DEF Positions, Early, InDirectory, PoolsAreTheFiles
<1>4. Checked
  BY <1>1 DEF Checked, CompletionIsStable
<1> QED
  BY <1>2, <1>3, <1>4 DEF FilesInv

LEMMA LoadMainStep == FilesInv /\ LoadMain => FilesInv'
<1> SUFFICES ASSUME FilesInv, LoadMain, ~Refuse PROVE FilesInv'
  BY RefuseStep
<1>1. /\ status = "start" /\ main # Unreadable /\ status' = "sections"
      /\ DOMAIN global' = DOMAIN global /\ nsec' = Len(main)
      /\ UNCHANGED <<main, dir, names, ini, todo, support_edge_trigger, pools, wp>>
  BY DEF LoadMain
<1>2. Len(main) \in Nat
  BY <1>1, FilesAreFiles DEF FilesInv, IsIni
<1>3. Started' /\ Types'
  BY <1>1, <1>2 DEF FilesInv, Started, Types, ConfTypeOK
<1>4. Positions' /\ InDirectory' /\ PoolsAreTheFiles'
  BY <1>1, <1>2 DEF FilesInv, Positions, Early, InDirectory, PoolsAreTheFiles
<1>5. Checked'
  BY <1>1, SamePools
<1> QED
  BY <1>3, <1>4, <1>5 DEF FilesInv

LEMMA MainSectionStep == FilesInv /\ MainSection => FilesInv'
<1> SUFFICES ASSUME FilesInv, MainSection PROVE FilesInv'
  OBVIOUS
<1>1. /\ status = "sections" /\ nsec > 0 /\ nsec' = nsec - 1
      /\ status' \in {"sections", "refused", "crashed", "overrun"}
      /\ UNCHANGED <<main, dir, names, ini, todo, support_edge_trigger, pools, wp>>
  BY DEF MainSection, AfterMisstored
<1>2. DOMAIN global' = DOMAIN global
  BY DEF MainSection, Misstored
<1>3. /\ nsec \in Nat /\ nsec <= Len(main) /\ Len(main) \in Nat
  BY <1>1, FilesAreFiles DEF FilesInv, Types, ConfTypeOK, Positions, IsIni
<1>4. Started' /\ Types'
  BY <1>1, <1>2, <1>3 DEF FilesInv, Started, Types, ConfTypeOK
<1>5. Positions' /\ InDirectory' /\ PoolsAreTheFiles'
  BY <1>1, <1>3 DEF FilesInv, Positions, Early, InDirectory, PoolsAreTheFiles
<1>6. Checked'
  BY <1>1, SamePools
<1> QED
  BY <1>4, <1>5, <1>6 DEF FilesInv

\* The pools made of the sections listed: unchanged when the list is.
LEMMA OpenDirStep == FilesInv /\ OpenDir => FilesInv'
<1> SUFFICES ASSUME FilesInv, OpenDir, ~Refuse PROVE FilesInv'
  BY RefuseStep
<1>1. /\ status = "sections" /\ nsec = 0
      /\ todo' = IF global["include_dir"] = "dir" THEN dir ELSE {}
      /\ status' = IF global["include_dir"] = "dir" THEN "dir" ELSE "settings"
      /\ UNCHANGED <<main, dir, global, names, ini, nsec, support_edge_trigger, pools, wp>>
  BY DEF OpenDir
<1>2. names = <<>> /\ Len(names) = 0 /\ wp = 1 /\ Range(names) = {}
  <2>1. names = <<>> /\ wp = 1
    BY <1>1 DEF FilesInv, Positions, Early
  <2> QED
    BY <2>1, EmptySeq DEF Range
<1>3. Started' /\ Types'
  BY <1>1 DEF FilesInv, Started, Types, ConfTypeOK
<1>4. Positions' /\ Checked'
  <2>1. Positions'
    BY <1>1 DEF FilesInv, Positions, Early
  <2> QED
    BY <1>1, <2>1, SamePools
<1>5. IsFiniteSet({}) /\ Cardinality({}) = 0
  BY FS_EmptySet
<1>6. InDirectory'
  <2> SUFFICES ASSUME global["include_dir"] = "dir", status' = "dir", todo' = dir
               PROVE  InDirectory'
    BY <1>1 DEF InDirectory
  <2>1. (Visible \ todo)' = {}
    BY <1>1 DEF Visible
  <2>2. Done' = {}
    BY <2>1 DEF Done, Sections
  <2>3. Len(names') = 0 /\ Range(names') = {}
    BY <1>1, <1>2
  <2>4. Listed({})'
    <3>1. IsFiniteSet({}) /\ Len(names') = Cardinality({})
      BY <1>5, <2>3
    <3>2. /\ IsFiniteSet(Range(names')) /\ Cardinality(Range(names')) = Len(names')
          /\ "global" \notin Range(names')
      BY <1>5, <2>3
    <3>3. \A j \in 1..Len(names') : MadeOf({}, names[j], pools[j])'
      BY <2>3
    <3> QED
      BY <3>1, <3>2, <3>3 DEF Listed
  <2> QED
    BY <1>1, <2>1, <2>2, <2>4 DEF InDirectory
<1>7. PoolsAreTheFiles'
  <2> SUFFICES ASSUME status' = "settings"
               PROVE  PoolsAreTheFiles'
    BY <1>1 DEF PoolsAreTheFiles
  <2>1. global'["include_dir"] # "dir"
    BY <1>1
  <2>2. /\ Len(names') = 0 /\ Range(names') = {} /\ wp'..Len(names') = {}
        /\ Cardinality({}) = 0
    BY <1>1, <1>2, <1>5
  <2>3. UNION {{<<e, k>> : k \in DOMAIN e.ini} : e \in {}} = {}
    OBVIOUS
  <2> QED
    BY <2>1, <2>2, <2>3, Zenon DEF PoolsAreTheFiles
<1> QED
  BY <1>3, <1>4, <1>6, <1>7 DEF FilesInv

LEMMA ReadDirStep == FilesInv /\ ReadDir => FilesInv'
<1> SUFFICES ASSUME FilesInv, ReadDir, ~Refuse PROVE FilesInv'
  BY RefuseStep
<1>1. PICK e \in todo :
        /\ e.hidden \/ e.ini # Unreadable
        /\ todo' = todo \ {e}
        /\ ini' = IF e.hidden THEN ini ELSE e.ini
        /\ nsec' = IF e.hidden THEN 0 ELSE Len(e.ini)
        /\ status' = IF e.hidden THEN "dir" ELSE "file"
        /\ UNCHANGED <<main, dir, global, names, support_edge_trigger, pools, wp>>
  BY DEF ReadDir
<1>2. /\ status = "dir" /\ todo \subseteq dir /\ e \in dir
      /\ e = [hidden |-> e.hidden, ini |-> e.ini] /\ e.hidden \in BOOLEAN
      /\ e.ini # Unreadable => IsIni(e.ini)
  BY FilesAreFiles DEF ReadDir, FilesInv, Types, ConfTypeOK
<1>3. Started' /\ Types'
  <2>1. nsec' \in Nat
    BY <1>1, <1>2 DEF IsIni
  <2> QED
    BY <1>1, <1>2, <2>1 DEF FilesInv, Started, Types, ConfTypeOK
<1>4. Positions' /\ Checked' /\ PoolsAreTheFiles'
  <2>1. Positions'
    BY <1>1, <1>2 DEF FilesInv, Positions, Early
  <2>2. PoolsAreTheFiles'
    BY <1>1 DEF PoolsAreTheFiles
  <2> QED
    BY <1>1, <2>1, <2>2, SamePools
<1>5. global["include_dir"] = "dir" /\ Listed(Done) /\ Done = Sections(Visible \ todo)
  BY <1>2 DEF FilesInv, InDirectory, Done
<1>6. Visible' = Visible
  BY <1>1 DEF Visible
<1>7. CASE e.hidden
  <2>1. (Visible \ todo)' = Visible \ todo
    BY <1>1, <1>6, <1>7 DEF Visible
  <2>2. Done' = Done
    BY <1>1, <1>5, <1>7, <2>1 DEF Done, Sections
  <2>3. Listed(Done)'
    BY <1>1, <1>5, <2>2 DEF Listed, MadeOf
  <2> QED
    BY <1>1, <1>2, <1>3, <1>4, <1>5, <1>7, <2>1, <2>3 DEF FilesInv, InDirectory
<1>8. CASE ~e.hidden
  <2>1. /\ ini' = e.ini /\ nsec' = Len(e.ini) /\ status' = "file" /\ e.ini # Unreadable
        /\ DOMAIN e.ini = 1..Len(e.ini) /\ Len(e.ini) \in Nat
    BY <1>1, <1>2, <1>8 DEF IsIni
  <2>2. Current' = e
    BY <1>2, <1>8, <2>1 DEF Current
  <2>3. e \in Visible /\ e \notin Visible \ todo /\ (Visible \ todo)' = (Visible \ todo) \cup {e}
    BY <1>1, <1>2, <1>6, <1>8 DEF Visible
  <2>4. Still(nsec)' = {<<e, k>> : k \in DOMAIN e.ini}
    BY <2>1, <2>2 DEF Still
  <2>5. Sections(Visible \ todo)' = Sections(Visible \ todo) \cup {<<e, k>> : k \in DOMAIN e.ini}
    BY <2>3 DEF Sections
  <2>6. Sections(Visible \ todo) \cap {<<e, k>> : k \in DOMAIN e.ini} = {}
    BY <2>3 DEF Sections
  <2>7. Done' = Done
    BY <1>5, <2>1, <2>4, <2>5, <2>6 DEF Done
  <2>8. Listed(Done)'
    BY <1>1, <1>5, <2>7 DEF Listed, MadeOf
  <2>9. \A x \in (Visible \ todo)' : x.ini # Unreadable
    BY <1>2, <2>1, <2>3 DEF FilesInv, InDirectory
  <2>10. InDirectory'
    <3>1. global'["include_dir"] = "dir"
      BY <1>1, <1>5
    <3>2. (Current \in Visible \ todo)' /\ (nsec <= Len(ini))'
      BY <2>1, <2>2, <2>3
    <3> QED
      BY <2>8, <2>9, <3>1, <3>2 DEF InDirectory
  <2> QED
    BY <1>3, <1>4, <2>10 DEF FilesInv
<1> QED
  BY <1>7, <1>8

LEMMA EmptyPool == PoolRead(<<>>) \in Pool
<1>1. DOMAIN <<>> = {}
  BY EmptySeq
<1>2. Given(PoolOptions, <<>>) = {}
  BY <1>1 DEF Given
<1>3. Unread(PoolOptions, <<>>) = {}
  BY <1>2 DEF Unread
<1>4. IsOptions(<<>>)
  BY <1>1 DEF IsOptions
<1> QED
  BY <1>3, <1>4, PoolReadIsPool

\* One more name, unlike the others.
LEMMA OneMoreName ==
  ASSUME NEW S, NEW l \in Seq(S), NEW name \in S, name \notin Range(l),
         IsFiniteSet(Range(l)), Cardinality(Range(l)) = Len(l)
  PROVE  /\ Append(l, name) \in Seq(S) /\ Len(Append(l, name)) = Len(l) + 1
         /\ \A j \in 1..Len(l) : Append(l, name)[j] = l[j]
         /\ Append(l, name)[Len(l) + 1] = name
         /\ Range(Append(l, name)) = Range(l) \cup {name}
         /\ IsFiniteSet(Range(Append(l, name)))
         /\ Cardinality(Range(Append(l, name))) = Len(Append(l, name))
<1> DEFINE more == Append(l, name)
<1>1. /\ more \in Seq(S) /\ Len(more) = Len(l) + 1 /\ more[Len(l) + 1] = name
      /\ \A j \in 1..Len(l) : more[j] = l[j]
      /\ Len(l) \in Nat /\ DOMAIN l = 1..Len(l) /\ DOMAIN more = 1..(Len(l) + 1)
  <2>1. /\ more \in Seq(S) /\ Len(more) = Len(l) + 1 /\ more[Len(l) + 1] = name
        /\ \A j \in 1..Len(l) : more[j] = l[j]
    BY AppendProperties
  <2> HIDE DEF more
  <2> QED
    BY <2>1, LenProperties
<1>2. Range(more) = Range(l) \cup {name}
  <2> HIDE DEF more
  <2>1. Range(l) = {l[j] : j \in 1..Len(l)} /\ Range(more) = {more[j] : j \in 1..(Len(l) + 1)}
    BY <1>1 DEF Range
  <2>2. 1..(Len(l) + 1) = 1..Len(l) \cup {Len(l) + 1}
    BY <1>1
  <2>3. Range(more) = {more[j] : j \in 1..Len(l)} \cup {more[Len(l) + 1]}
    BY <2>1, <2>2
  <2>4. {more[j] : j \in 1..Len(l)} = {l[j] : j \in 1..Len(l)}
    BY <1>1
  <2> QED
    BY <1>1, <2>1, <2>3, <2>4
<1>3. IsFiniteSet(Range(more)) /\ Cardinality(Range(more)) = Cardinality(Range(l)) + 1
  BY <1>2, FS_AddElement
<1> QED
  BY <1>1, <1>2, <1>3

LEMMA PoolSectionStep == FilesInv /\ PoolSection => FilesInv'
<1> SUFFICES ASSUME FilesInv, PoolSection, ~Refuse PROVE FilesInv'
  BY RefuseStep
<1> DEFINE s == ini[nsec]
           pool == IF Unread(PoolOptions, s.opts) = {} THEN PoolRead(s.opts) ELSE PoolRead(<<>>)
<1>1. /\ status = "file" /\ nsec > 0
      /\ s.name # "global" /\ s.name \notin Range(names)
      /\ names' = Append(names, s.name) /\ pools' = Append(pools, pool)
      /\ status' = IF Unread(PoolOptions, s.opts) = {} THEN status ELSE "refused"
      /\ nsec' = nsec - 1
      /\ UNCHANGED <<main, dir, global, ini, todo, support_edge_trigger, wp>>
  BY DEF PoolSection
<1>2. nsec \in 1..Len(ini) /\ Len(ini) \in Nat /\ DOMAIN ini = 1..Len(ini) /\ Current \in dir
  BY <1>1, Reached DEF IsIni
<1>3. s.name \in STRING /\ IsOptions(s.opts)
  BY <1>1, <1>2, Reached DEF IsIni
<1>4. pool \in Pool
  BY <1>3, EmptyPool, PoolReadIsPool
<1>5. /\ names \in Seq(STRING) /\ pools \in Seq(Pool) /\ Len(names) = Len(pools)
      /\ Len(names) \in Nat /\ wp = 1
  BY <1>1, LenProperties DEF FilesInv, Types, ConfTypeOK, Positions, Early
<1>6. /\ Listed(Done) /\ Current \in Visible \ todo
  BY <1>1 DEF FilesInv, InDirectory
<1> HIDE DEF pool
<1>7. /\ names' \in Seq(STRING) /\ Len(names') = Len(names) + 1
      /\ \A j \in 1..Len(names) : names'[j] = names[j]
      /\ names'[Len(names) + 1] = s.name
      /\ Range(names') = Range(names) \cup {s.name}
      /\ IsFiniteSet(Range(names')) /\ Cardinality(Range(names')) = Len(names')
  BY <1>1, <1>3, <1>5, <1>6, OneMoreName DEF Listed
<1>8. /\ pools' \in Seq(Pool) /\ Len(pools') = Len(pools) + 1
      /\ \A j \in 1..Len(pools) : pools'[j] = pools[j]
      /\ pools'[Len(pools) + 1] = pool
  BY <1>1, <1>4, <1>5, AppendProperties
<1>9. Started' /\ Types'
  <2>1. nsec' \in Nat /\ status' \in {"file", "refused"}
    BY <1>1, <1>2
  <2> QED
    BY <1>1, <1>5, <1>7, <1>8, <2>1 DEF FilesInv, Started, Types, ConfTypeOK
<1>10. Positions' /\ PoolsAreTheFiles'
  BY <1>1, <1>5 DEF Positions, Early, PoolsAreTheFiles
<1>11. Checked'
  <2>1. 1..(wp' - 1) = {}
    BY <1>1, <1>5
  <2> QED
    BY <1>1, <2>1 DEF Checked, CompletionIsStable
<1>12. InDirectory'
  <2> SUFFICES ASSUME Unread(PoolOptions, s.opts) = {}
               PROVE  InDirectory'
    BY <1>1 DEF InDirectory
  <2> DEFINE x == <<Current, nsec>>
  <2>1. status' = "file" /\ pool = PoolRead(s.opts)
    BY <1>1 DEF pool
  <2>2. (Visible \ todo)' = Visible \ todo /\ Current' = Current
    BY <1>1 DEF Visible, Current
  <2>3. Still(nsec) = Still(nsec - 1) \cup {x} /\ x \notin Still(nsec - 1)
    <3>1. 1..nsec = 1..(nsec - 1) \cup {nsec} /\ nsec \notin 1..(nsec - 1)
      BY <1>2
    <3> QED
      BY <3>1 DEF Still
  <2>4. x \in Sections(Visible \ todo)
    <3>1. Current.ini = ini
      BY DEF Current
    <3> QED
      BY <1>2, <1>6, <3>1 DEF Sections
  <2>5. Done = Sections(Visible \ todo) \ Still(nsec)
    BY <1>1 DEF Done
  <2>6. Done' = Sections(Visible \ todo) \ Still(nsec - 1)
    <3>1. Still(nsec)' = Still(nsec - 1)
      BY <1>1, <2>2 DEF Still
    <3>2. Sections(Visible \ todo)' = Sections(Visible \ todo)
      BY <2>2 DEF Sections
    <3> QED
      BY <2>1, <3>1, <3>2 DEF Done
  <2>7. Done' = Done \cup {x} /\ x \notin Done
    BY <2>3, <2>4, <2>5, <2>6
  <2>8. IsFiniteSet(Done') /\ Cardinality(Done') = Cardinality(Done) + 1
    BY <1>6, <2>7, FS_AddElement DEF Listed
  <2>9. MadeOf(Done', s.name, pool)
    <3>1. x[1].ini[x[2]] = s
      BY DEF Current
    <3> HIDE DEF x, s
    <3> QED
      BY <2>1, <2>7, <3>1 DEF MadeOf
  <2>10. ASSUME NEW j \in 1..Len(names')
         PROVE  MadeOf(Done', names'[j], pools'[j])
    <3>1. CASE j = Len(names) + 1
      BY <1>5, <1>7, <1>8, <2>9, <3>1
    <3>2. CASE j \in 1..Len(names)
      <4>1. MadeOf(Done, names[j], pools[j])
        BY <1>6, <3>2 DEF Listed
      <4>2. names'[j] = names[j] /\ pools'[j] = pools[j]
        BY <1>5, <1>7, <1>8, <3>2
      <4> QED
        BY <2>7, <4>1, <4>2 DEF MadeOf
    <3> QED
      BY <1>5, <1>7, <3>1, <3>2
  <2>11. Listed(Done)'
    <3>1. Len(names') = Cardinality(Done')
      BY <1>6, <1>7, <2>8 DEF Listed
    <3>2. "global" \notin Range(names')
      BY <1>1, <1>6, <1>7 DEF Listed
    <3>3. \A j \in 1..Len(names') : MadeOf(Done, names[j], pools[j])'
      BY <2>10 DEF MadeOf
    <3> QED
      BY <1>7, <2>8, <3>1, <3>2, <3>3 DEF Listed
  <2>12. nsec' <= Len(ini')
    BY <1>1, <1>2
  <2> QED
    BY <1>1, <1>6, <2>1, <2>2, <2>11, <2>12 DEF FilesInv, InDirectory
<1> QED
  BY <1>9, <1>10, <1>11, <1>12 DEF FilesInv

LEMMA EndFileStep == FilesInv /\ EndFile => FilesInv'
<1> SUFFICES ASSUME FilesInv, EndFile, ~Refuse PROVE FilesInv'
  BY RefuseStep
<1>1. /\ status = "file" /\ nsec = 0 /\ status' = "dir"
      /\ UNCHANGED <<support_edge_trigger, pools, wp, main, dir, global, names, ini, nsec, todo>>
  BY DEF EndFile, confvars
<1>2. Started' /\ Types' /\ Positions' /\ PoolsAreTheFiles'
  BY <1>1 DEF FilesInv, Started, Types, ConfTypeOK, Positions, Early, PoolsAreTheFiles
<1>3. Checked'
  BY <1>1, SamePools
<1>4. InDirectory'
  <2>1. Still(nsec) = {}
    BY <1>1 DEF Still
  <2>2. Done = Sections(Visible \ todo)
    BY <1>1, <2>1 DEF Done
  <2>3. Done' = Sections(Visible \ todo)'
    BY <1>1 DEF Done
  <2>4. (Visible \ todo)' = Visible \ todo
    BY <1>1 DEF Visible
  <2>5. Done' = Done
    BY <2>2, <2>3, <2>4 DEF Sections
  <2>6. Listed(Done)'
    BY <1>1, <2>5 DEF FilesInv, InDirectory, Listed, MadeOf
  <2> QED
    BY <1>1, <2>4, <2>6 DEF FilesInv, InDirectory
<1> QED
  BY <1>2, <1>3, <1>4 DEF FilesInv

LEMMA EndDirStep == FilesInv /\ EndDir => FilesInv'
<1> SUFFICES ASSUME FilesInv, EndDir PROVE FilesInv'
  OBVIOUS
<1>1. /\ status = "dir" /\ todo = {} /\ status' = "settings"
      /\ UNCHANGED <<support_edge_trigger, pools, wp, main, dir, global, names, ini, nsec, todo>>
  BY DEF EndDir, confvars
<1>2. Started' /\ Types' /\ Positions' /\ InDirectory'
  BY <1>1 DEF FilesInv, Started, Types, ConfTypeOK, Positions, Early, InDirectory
<1>3. Checked'
  BY <1>1, SamePools
<1>4. PoolsAreTheFiles'
  <2>1. Done = Sections(Visible)
    BY <1>1 DEF Done
  <2>2. global["include_dir"] = "dir" /\ Listed(Sections(Visible)) /\ wp = 1
    BY <1>1, <2>1 DEF FilesInv, InDirectory, Positions, Early
  <2> DEFINE P == LET files == IF global["include_dir"] = "dir" THEN {e \in dir : ~e.hidden} ELSE {}
                      sections == UNION {{<<e, k>> : k \in DOMAIN e.ini} : e \in files}
                  IN /\ Len(names) = Cardinality(sections)
                     /\ Cardinality(Range(names)) = Len(names) /\ "global" \notin Range(names)
                     /\ \A j \in wp..Len(names) :
                          \E x \in sections : LET s == x[1].ini[x[2]]
                                            IN s.name = names[j] /\ pools[j] = PoolRead(s.opts)
  <2>3. P
    BY <2>2 DEF Listed, MadeOf, Visible, Sections
  <2>4. P'
    BY <1>1, <2>3
  <2> QED
    BY <2>4 DEF PoolsAreTheFiles
<1> QED
  BY <1>2, <1>3, <1>4 DEF FilesInv

LEMMA ProcSettingsStep == FilesInv /\ ProcSettings => FilesInv'
<1> SUFFICES ASSUME FilesInv, ProcSettings, ~Refuse PROVE FilesInv'
  BY RefuseStep
<1>1. /\ status = "settings"
      /\ global' = [global EXCEPT !["error_log"] =
                      IF @ = "undefined" THEN "/var/log/pmf.log" ELSE @]
      /\ support_edge_trigger' = (global["events.mechanism"] \in {"undefined", "epoll"})
      /\ status' \in {"crashed", "checking", "refused"}
      /\ UNCHANGED <<main, dir, names, ini, nsec, todo, pools, wp>>
  BY DEF ProcSettings
<1>2. wp = 1 /\ pools \in Seq(Pool) /\ Len(pools) \in Nat
  BY <1>1, LenProperties DEF FilesInv, Positions, Early, Types, ConfTypeOK
<1>3. support_edge_trigger' \in BOOLEAN
  BY <1>1
<1>4. Started' /\ Types'
  BY <1>1, <1>3 DEF FilesInv, Started, Types, ConfTypeOK
<1>5. Positions' /\ InDirectory'
  BY <1>1 DEF Positions, Early, InDirectory
<1>6. Checked'
  <2>1. 1..(wp' - 1) = {}
    BY <1>1, <1>2
  <2>2. CompletionIsStable'
    BY <2>1 DEF CompletionIsStable
  <2>3. status' = "checking" => IInv'
    BY <1>1, <1>2, <1>3, <2>2 DEF IInv, TypeOK
  <2> QED
    BY <1>1, <2>2, <2>3 DEF Checked
<1>7. PoolsAreTheFiles'
  <2>1. global'["include_dir"] = global["include_dir"]
    BY <1>1
  <2> QED
    BY <1>1, <2>1 DEF FilesInv, PoolsAreTheFiles
<1> QED
  BY <1>4, <1>5, <1>6, <1>7 DEF FilesInv

\* What the check of the pools changes: a pool that has been dealt with.
LEMMA CheckStep == FilesInv /\ Next /\ UNCHANGED confvars => FilesInv'
<1> SUFFICES ASSUME FilesInv, Next, UNCHANGED confvars PROVE FilesInv'
  OBVIOUS
<1>1. status = "checking" /\ UNCHANGED <<main, dir, global, names, ini, nsec, todo>>
  BY DEF Next, AcceptPool, RefusePool, RefuseNoPool, AcceptAll, confvars
<1>2. IInv /\ IInv'
  BY <1>1, NextInv DEF FilesInv, Checked
<1>3. status' \in {"checking", "accepted", "refused"} /\ pools' \in Seq(Pool)
      /\ wp' \in 1..(Len(pools') + 1) /\ support_edge_trigger' \in BOOLEAN
      /\ CompletionIsStable'
  BY <1>2 DEF IInv, TypeOK
<1>4. pools \in Seq(Pool) /\ wp \in 1..(Len(pools) + 1) /\ Len(pools) \in Nat
      /\ DOMAIN pools = 1..Len(pools)
  BY <1>2, LenProperties DEF IInv, TypeOK
<1>5. /\ Len(pools') = Len(pools) /\ wp' >= wp /\ wp' \in Nat \ {0}
      /\ \A j \in wp'..Len(pools) : pools'[j] = pools[j]
  <2>1. CASE AcceptPool
    <3>1. /\ wp \in 1..Len(pools) /\ wp' = wp + 1
          /\ pools' = [pools EXCEPT ![wp] = Completed(pools[wp])]
      BY <1>4, <2>1 DEF AcceptPool
    <3>2. DOMAIN pools' = DOMAIN pools /\ Len(pools') = Len(pools)
      BY <1>3, <1>4, <3>1, LenProperties
    <3>3. \A j \in wp'..Len(pools) : pools'[j] = pools[j]
      BY <1>4, <3>1
    <3> QED
      BY <1>4, <3>1, <3>2, <3>3
  <2>2. CASE RefusePool \/ RefuseNoPool \/ AcceptAll
    BY <1>4, <2>2 DEF RefusePool, RefuseNoPool, AcceptAll
  <2> QED
    BY <2>1, <2>2 DEF Next
<1>6. Started' /\ Types'
  BY <1>1, <1>3, <1>5 DEF FilesInv, Started, Types, ConfTypeOK
<1>7. Positions' /\ InDirectory'
  BY <1>3 DEF Positions, Early, InDirectory
<1>8. Checked'
  BY <1>2, <1>3 DEF Checked
<1>9. PoolsAreTheFiles'
  <2> DEFINE files == IF global["include_dir"] = "dir" THEN {e \in dir : ~e.hidden} ELSE {}
             sections == UNION {{<<e, k>> : k \in DOMAIN e.ini} : e \in files}
  <2>1. /\ Len(names) = Cardinality(sections)
        /\ Cardinality(Range(names)) = Len(names) /\ "global" \notin Range(names)
        /\ \A j \in wp..Len(names) :
             \E x \in sections : LET s == x[1].ini[x[2]]
                               IN s.name = names[j] /\ pools[j] = PoolRead(s.opts)
    BY <1>1 DEF FilesInv, PoolsAreTheFiles
  <2>2. Len(names) = Len(pools)
    BY <1>1 DEF FilesInv, Types, ConfTypeOK
  <2>3. sections' = sections /\ names' = names
    BY <1>1
  <2> HIDE DEF sections
  <2>4. ASSUME NEW j \in wp'..Len(names)
        PROVE  \E x \in sections : LET s == x[1].ini[x[2]]
                                 IN s.name = names[j] /\ pools'[j] = PoolRead(s.opts)
    <3>1. j \in wp..Len(names) /\ pools'[j] = pools[j]
      BY <1>4, <1>5, <2>2
    <3> QED
      BY <2>1, <3>1
  <2> USE DEF sections
  <2> QED
    BY <2>1, <2>3, <2>4, Zenon DEF PoolsAreTheFiles
<1> QED
  BY <1>6, <1>7, <1>8, <1>9 DEF FilesInv

\* The scoreboards are made of the pools as they are.
LEMMA BoardSteps == FilesInv /\ (CreateBoard \/ EndBoards \/ UNCHANGED bootvars) => FilesInv'
<1> SUFFICES ASSUME FilesInv, CreateBoard \/ EndBoards \/ UNCHANGED bootvars PROVE FilesInv'
  OBVIOUS
<1>1. /\ UNCHANGED <<support_edge_trigger, pools, wp, main, dir, global, names, ini, nsec, todo>>
      /\ \/ status' = status
         \/ status = "accepted" /\ status' \in {"created", "refused", "crashed"}
  BY DEF CreateBoard, EndBoards, bootvars, allvars, vars, confvars
<1>2. Started' /\ Types' /\ PoolsAreTheFiles'
  BY <1>1 DEF FilesInv, Started, Types, ConfTypeOK, PoolsAreTheFiles
<1>3. Positions'
  BY <1>1 DEF FilesInv, Positions, Early
<1>4. InDirectory'
  <2> SUFFICES ASSUME status' \in {"dir", "file"} PROVE InDirectory'
    BY DEF InDirectory
  <2>1. status' = status
    BY <1>1
  <2> QED
    BY <1>1, <2>1 DEF FilesInv, InDirectory, Listed, MadeOf, Done, Sections, Still, Current, Visible
<1>5. Checked'
  <2>1. CompletionIsStable' <=> CompletionIsStable
    BY <1>1 DEF CompletionIsStable, Refused, OndemandRefused, AddressRefused, PriorityRefused,
                DynamicRefused, Completed, CompletedOndemand, Midpoint
  <2>2. CASE status' = status
    <3>1. IInv' <=> IInv
      BY <1>1, <2>1, <2>2 DEF IInv, TypeOK
    <3> QED
      BY <2>1, <2>2, <3>1 DEF FilesInv, Checked
  <2>3. CASE status' # status
    BY <1>1, <2>1, <2>3 DEF FilesInv, Checked
  <2> QED
    BY <2>2, <2>3
<1> QED
  BY <1>2, <1>3, <1>4, <1>5 DEF FilesInv

LEMMA NextFiles == FilesInv /\ [BootNext]_bootvars => FilesInv'
BY LoadMainStep, MainSectionStep, OpenDirStep, ReadDirStep, PoolSectionStep, EndFileStep,
   EndDirStep, ProcSettingsStep, CheckStep, BoardSteps DEF BootNext, ConfNext, Load

LEMMA FilesInvariance == BootSpec => []FilesInv
BY InitFiles, NextFiles, PTL DEF BootSpec

-----------------------------------------------------------------------------
\* The settings: an option has the value [global] gives it, or its default.
InForce(key) ==
  IF key \in DOMAIN GlobalSection
    THEN global[key] \in Readings(GlobalOptions, GlobalSection, Keyed(GlobalOptions, key))
    ELSE global[key] = GlobalDefault[key]

SettingsInv ==
  /\ status = "start" => global = GlobalDefault
  /\ status \in {"sections", "dir", "file", "settings"} /\ Misplaced = {} =>
       \A key \in DOMAIN global : InForce(key)
  /\ SettingsInForce

\* Such an option has the default that is documented, or is one of the three.
LEMMA DefaultsKnown ==
  ASSUME NEW key \in DOMAIN GlobalDefault
  PROVE  \/ GlobalDefault[key] = DocumentedDefault[key]
         \/ key \in {"pid_file", "log_level", "daemonize"}
BY DEF DocumentedDefault

LEMMA InitSettings == BootInit => SettingsInv
BY DEF BootInit, ConfInit, SettingsInv, SettingsInForce

LEMMA LoadMainSettings ==
  ASSUME FilesInv, SettingsInv, LoadMain
  PROVE  SettingsInv'
<1>1. CASE Refuse
  BY <1>1 DEF Refuse, SettingsInv, SettingsInForce
<1>2. CASE ~Refuse
  <2>1. /\ status = "start" /\ status' = "sections" /\ main' = main
        /\ Unread(GlobalOptions, GlobalSection) = {}
        /\ global' = [key \in DOMAIN global |->
                        ValueOf(GlobalOptions, GlobalSection, key, global[key])]
    BY <1>2 DEF LoadMain
  <2>2. global = GlobalDefault
    BY <2>1 DEF SettingsInv
  <2>3. GlobalSection' = GlobalSection
    BY <2>1 DEF GlobalSection
  <2>4. DOMAIN global = {GlobalOptions[i][1] : i \in DOMAIN GlobalOptions}
    BY <2>2 DEF GlobalDefault
  <2>5. ASSUME NEW key \in DOMAIN global'
        PROVE  InForce(key)'
    <3>1. key \in {GlobalOptions[i][1] : i \in DOMAIN GlobalOptions}
          /\ global'[key] = ValueOf(GlobalOptions, GlobalSection, key, GlobalDefault[key])
      BY <2>1, <2>2, <2>4
    <3> QED
      BY <2>1, <2>3, <3>1, ValueIsRead DEF InForce
  <2> QED
    BY <2>1, <2>5 DEF SettingsInv, SettingsInForce
<1> QED
  BY <1>1, <1>2

\* A section that holds no global option stores nothing.
LEMMA MainSectionSettings ==
  ASSUME FilesInv, SettingsInv, MainSection
  PROVE  SettingsInv'
<1>1. /\ status = "sections" /\ nsec > 0 /\ main' = main
      /\ status' \in {"sections", "refused", "crashed", "overrun"}
      /\ status' = "sections" =>
           \/ global' = global
           \/ main[nsec].name # "global" /\ global' = Misstored(main[nsec].opts)
  BY DEF MainSection, AfterMisstored
<1>2. GlobalSection' = GlobalSection /\ Misplaced' = Misplaced
  BY <1>1 DEF GlobalSection, Misplaced
<1>3. ASSUME Misplaced = {}, status' = "sections"
      PROVE  DOMAIN global' = DOMAIN global /\ \A key \in DOMAIN global : global'[key] = global[key]
  <2>1. CASE main[nsec].name # "global" /\ global' = Misstored(main[nsec].opts)
    <3>1. nsec \in DOMAIN main
      <4>1. nsec \in Nat /\ nsec <= Len(main) /\ IsIni(main)
        BY <1>1, FilesAreFiles DEF FilesInv, Types, ConfTypeOK, Positions
      <4> QED
        BY <1>1, <4>1 DEF IsIni
    <3>2. Given(GlobalOptions, main[nsec].opts) = {}
      BY <1>3, <2>1, <3>1 DEF Misplaced
    <3> QED
      BY <2>1, <3>2 DEF Misstored
  <2>2. CASE global' = global
    BY <2>2
  <2> QED
    BY <1>1, <1>3, <2>1, <2>2
<1>4. ASSUME Misplaced = {}, status' = "sections", NEW key \in DOMAIN global'
      PROVE  InForce(key)'
  <2>1. key \in DOMAIN global /\ InForce(key) /\ global'[key] = global[key]
    BY <1>1, <1>3, <1>4 DEF SettingsInv
  <2> QED
    BY <1>2, <2>1 DEF InForce
<1> QED
  BY <1>1, <1>2, <1>4 DEF SettingsInv, SettingsInForce

LEMMA ProcSettingsSettings ==
  ASSUME FilesInv, SettingsInv, ProcSettings
  PROVE  SettingsInv'
<1>1. CASE Refuse
  BY <1>1 DEF Refuse, SettingsInv, SettingsInForce
<1>2. CASE ~Refuse
  <2>1. /\ status = "settings" /\ main' = main
        /\ global' = [global EXCEPT !["error_log"] =
                        IF @ = "undefined" THEN "/var/log/pmf.log" ELSE @]
        /\ support_edge_trigger' = (global["events.mechanism"] \in {"undefined", "epoll"})
        /\ status' \in {"crashed", "checking", "refused"}
        /\ status' = "checking" =>
             global["events.mechanism"] \in {"undefined", "epoll", "select"}
    BY <1>2 DEF ProcSettings
  <2>2. GlobalSection' = GlobalSection /\ Misplaced' = Misplaced
    BY <2>1 DEF GlobalSection, Misplaced
  <2>3. ASSUME Misplaced = {}, NEW key \in DOMAIN global' \ {"error_log"}
        PROVE  InForce(key)'
    <3>1. key \in DOMAIN global /\ InForce(key) /\ global'[key] = global[key]
      BY <2>1, <2>3 DEF SettingsInv
    <3> QED
      BY <2>2, <3>1 DEF InForce
  <2>4. status' = "checking" =>
          (support_edge_trigger' <=> global'["events.mechanism"] # "select")
    <3>1. global'["events.mechanism"] = global["events.mechanism"]
      BY <2>1
    <3> QED
      BY <2>1, <3>1, Zenon
  <2>5. ASSUME Misplaced = {}, NEW key \in DOMAIN global' \ {"error_log"}
        PROVE  IF key \in DOMAIN GlobalSection'
                 THEN global'[key] \in Readings(GlobalOptions, GlobalSection', Keyed(GlobalOptions, key))
                 ELSE \/ global'[key] = DocumentedDefault[key]
                      \/ /\ key \in {"pid_file", "log_level", "daemonize"}
                         /\ global'[key] = GlobalDefault[key]
    <3>1. key \in DOMAIN GlobalDefault
      BY <2>1, <2>5 DEF FilesInv, Types, ConfTypeOK
    <3> QED
      BY <2>3, <2>5, <3>1, DefaultsKnown DEF InForce
  <2> QED
    BY <2>1, <2>2, <2>4, <2>5 DEF SettingsInv, SettingsInForce
<1> QED
  BY <1>1, <1>2

\* The other steps leave the settings alone.
LEMMA OtherSettings ==
  ASSUME SettingsInv, UNCHANGED <<main, global>>,
         \/ status' \in {"refused", "created", "crashed", status}
         \/ {status, status'} \subseteq {"sections", "dir", "file", "settings"}
         \/ status = "checking" /\ status' = "accepted",
         UNCHANGED support_edge_trigger
  PROVE  SettingsInv'
<1>1. Misplaced' = Misplaced /\ GlobalSection' = GlobalSection
  BY DEF Misplaced, GlobalSection
<1>2. SettingsInForce'
  BY <1>1 DEF SettingsInv, SettingsInForce, InForce
<1> QED
  BY <1>1, <1>2 DEF SettingsInv, InForce

LEMMA NextSettings == FilesInv /\ SettingsInv /\ [BootNext]_bootvars => SettingsInv'
<1> SUFFICES ASSUME FilesInv, SettingsInv, [BootNext]_bootvars PROVE SettingsInv'
  OBVIOUS
<1>1. CASE OpenDir \/ ReadDir \/ PoolSection \/ EndFile \/ EndDir
  <2>1. /\ UNCHANGED <<main, global, support_edge_trigger>>
        /\ status \in {"sections", "dir", "file", "settings"}
        /\ status' \in {"sections", "dir", "file", "settings", "refused"}
    BY <1>1 DEF OpenDir, ReadDir, PoolSection, EndFile, EndDir, Refuse, confvars
  <2> QED
    BY <2>1, OtherSettings
<1>2. CASE Next /\ UNCHANGED confvars
  <2>1. /\ UNCHANGED <<main, global, support_edge_trigger>> /\ status = "checking"
        /\ status' \in {"checking", "accepted", "refused"}
    BY <1>2 DEF Next, AcceptPool, RefusePool, RefuseNoPool, AcceptAll, confvars
  <2> QED
    BY <2>1, OtherSettings
<1>3. CASE CreateBoard \/ EndBoards \/ UNCHANGED bootvars
  <2>1. /\ UNCHANGED <<main, global, support_edge_trigger>>
        /\ status' = status \/ status' \in {"created", "refused", "crashed"}
    BY <1>3 DEF CreateBoard, EndBoards, bootvars, allvars, vars, confvars
  <2> QED
    BY <2>1, OtherSettings
<1> QED
  BY <1>1, <1>2, <1>3, LoadMainSettings, MainSectionSettings, ProcSettingsSettings
     DEF BootNext, ConfNext, Load

-----------------------------------------------------------------------------
\* Multiplication keeps the order.
LEMMA TimesMonotone ==
  ASSUME NEW a \in Nat, NEW b \in Nat, NEW c \in Nat, a <= b
  PROVE  a * c <= b * c
<1>1. PICK d \in Nat : b = a + d
  <2> WITNESS b - a \in Nat
  <2> QED OBVIOUS
<1>2. b * c = a * c + d * c
  BY <1>1
<1>3. d * c \in Nat /\ a * c \in Nat
  BY <1>1
<1> QED
  BY <1>2, <1>3

\* The slots lie in the mapping behind the pointers and do not overlap.
THEOREM EverySlotFits ==
  ASSUME NEW n \in Nat \ {0}
  PROVE  SlotsFit(Board(n))
<1> DEFINE base == ScoreboardSize(n)
<1>1. base \in Nat /\ base = HeaderSize + n * PointerSize
  BY SizesAssumption DEF ScoreboardSize
<1>2. \A i \in 1..n : Board(n).procs[i] = base + (i - 1) * SlotSize
  BY DEF Board
<1>3. Board(n).size = base + n * SlotSize /\ Board(n).nprocs = n /\ DOMAIN Board(n).procs = 1..n
  BY DEF Board
<1>4. ASSUME NEW i \in 1..n, NEW j \in 1..(n + 1), i < j
      PROVE  (i - 1) * SlotSize + SlotSize <= (j - 1) * SlotSize
  <2>1. (i - 1) * SlotSize + SlotSize = i * SlotSize
    BY SizesAssumption
  <2>2. i * SlotSize <= (j - 1) * SlotSize
    BY <1>4, TimesMonotone, SizesAssumption
  <2> QED
    BY <2>1, <2>2
<1>5. ASSUME NEW i \in 1..n
      PROVE  /\ base <= Board(n).procs[i]
             /\ Board(n).procs[i] + SlotSize <= Board(n).size
             /\ \A j \in 1..n : i < j => Board(n).procs[i] + SlotSize <= Board(n).procs[j]
  <2>1. (i - 1) * SlotSize \in Nat
    BY SizesAssumption
  <2>2. (i - 1) * SlotSize + SlotSize <= n * SlotSize
    BY <1>4
  <2>3. n * SlotSize \in Nat
    BY SizesAssumption
  <2>4. base <= Board(n).procs[i]
    BY <1>1, <1>2, <2>1
  <2>5. Board(n).procs[i] + SlotSize <= Board(n).size
    <3>1. Board(n).procs[i] = base + (i - 1) * SlotSize /\ Board(n).size = base + n * SlotSize
      BY <1>2, <1>3
    <3> HIDE DEF base
    <3> QED
      BY <1>1, <2>1, <2>2, <2>3, <3>1, SizesAssumption
  <2>6. ASSUME NEW j \in 1..n, i < j
        PROVE  Board(n).procs[i] + SlotSize <= Board(n).procs[j]
    <3>1. (i - 1) * SlotSize + SlotSize <= (j - 1) * SlotSize /\ (j - 1) * SlotSize \in Nat
      BY <1>4, <2>6, SizesAssumption
    <3> QED
      BY <1>1, <1>2, <2>1, <3>1, SizesAssumption
  <2> QED
    BY <2>4, <2>5, <2>6
<1> QED
  BY <1>1, <1>3, <1>5 DEF SlotsFit

-----------------------------------------------------------------------------
\* The scoreboards: those of the first pools, as large as these need them.
BoardsInv ==
  /\ boards \in Seq({Board(n) : n \in Nat \ {0}})
  /\ Len(boards) <= Len(pools)
  /\ \A k \in DOMAIN boards :
       pools[k].max_children \in Nat \ {0} /\ boards[k] = Board(pools[k].max_children)
  /\ status \in Early \cup {"checking"} => boards = <<>>
  /\ NoPoolWithoutBoard

\* A board that is made: what the list is then.
LEMMA OneMoreBoard ==
  ASSUME BoardsInv, Len(boards) < Len(pools), pools \in Seq(Pool), UNCHANGED pools,
         NEW n \in Nat \ {0}, n = pools[Len(boards) + 1].max_children,
         boards' = Append(boards, Board(n))
  PROVE  /\ boards' \in Seq({Board(m) : m \in Nat \ {0}}) /\ Len(boards') <= Len(pools)
         /\ \A k \in DOMAIN boards' :
              pools[k].max_children \in Nat \ {0} /\ boards'[k] = Board(pools[k].max_children)
<1> DEFINE S == {Board(m) : m \in Nat \ {0}}
<1>1. boards \in Seq(S) /\ Board(n) \in S
  BY DEF BoardsInv
<1> HIDE DEF S
<1>2. /\ Len(boards) \in Nat /\ DOMAIN boards = 1..Len(boards) /\ Len(pools) \in Nat
  BY <1>1, LenProperties
<1>3. /\ boards' \in Seq(S) /\ Len(boards') = Len(boards) + 1
      /\ \A j \in 1..Len(boards) : boards'[j] = boards[j]
      /\ boards'[Len(boards) + 1] = Board(n)
  BY <1>1, AppendProperties
<1>4. DOMAIN boards' = 1..(Len(boards) + 1)
  BY <1>3, LenProperties
<1>5. ASSUME NEW k \in DOMAIN boards'
      PROVE  pools[k].max_children \in Nat \ {0} /\ boards'[k] = Board(pools[k].max_children)
  <2>1. CASE k = Len(boards) + 1
    BY <1>3, <2>1
  <2>2. CASE k \in 1..Len(boards)
    BY <1>2, <1>3, <2>2 DEF BoardsInv
  <2> QED
    BY <1>2, <1>4, <2>1, <2>2
<1>6. Len(boards') <= Len(pools)
  BY <1>2, <1>3
<1> QED
  BY <1>3, <1>5, <1>6 DEF S

\* What an accepted configuration is.
LEMMA AcceptedIsSound ==
  ASSUME FilesInv
  PROVE  AcceptedPoolsSound
BY AcceptedSettled, SettledIsSound DEF FilesInv, Checked, IInv, AcceptedPoolsSound

\* Reading and checking leave no refused configuration that lacks a scoreboard.
LEMMA LoadBoards ==
  ASSUME FilesInv, FilesInv', BoardsInv, Load, UNCHANGED boards
  PROVE  BoardsInv'
<1>1. status \in Early /\ boards = <<>> /\ wp = 1 /\ wp' = 1
  BY DEF Load, LoadMain, MainSection, OpenDir, ReadDir, PoolSection, EndFile, EndDir,
         ProcSettings, Refuse, Early, FilesInv, Positions, BoardsInv
<1>2. boards' = <<>> /\ Len(boards') = 0 /\ DOMAIN boards' = {}
  BY <1>1, EmptySeq
<1>3. Len(pools') \in Nat /\ pools' \in Seq(Pool) /\ (Len(pools') = 0 <=> pools' = <<>>)
  BY LenProperties, EmptySeq DEF FilesInv, Types, ConfTypeOK
<1>4. status' \notin {"created"}
  BY DEF Load, LoadMain, MainSection, OpenDir, ReadDir, PoolSection, EndFile, EndDir,
         ProcSettings, Refuse, AfterMisstored
<1>5. NoPoolWithoutBoard'
  <2> SUFFICES ASSUME pools' # <<>>, wp' > Len(pools') PROVE FALSE
    BY <1>4 DEF NoPoolWithoutBoard
  <2> QED
    BY <1>1, <1>3
<1>6. boards' \in Seq({Board(n) : n \in Nat \ {0}})
  BY <1>2, EmptySeq
<1> QED
  BY <1>2, <1>3, <1>5, <1>6 DEF BoardsInv

LEMMA CheckBoards ==
  ASSUME FilesInv, FilesInv', BoardsInv, Next, UNCHANGED boards
  PROVE  BoardsInv'
<1>1. status = "checking" /\ status' \in {"checking", "accepted", "refused"} /\ IInv
  BY DEF Next, AcceptPool, RefusePool, RefuseNoPool, AcceptAll, FilesInv, Checked
<1>2. boards' = <<>> /\ Len(boards') = 0 /\ DOMAIN boards' = {}
  BY <1>1, EmptySeq DEF BoardsInv
<1>3. Len(pools') \in Nat
  BY LenProperties DEF FilesInv, Types, ConfTypeOK
<1>4. NoPoolWithoutBoard'
  <2> SUFFICES ASSUME status' = "refused", pools' # <<>>, wp' > Len(pools') PROVE FALSE
    BY <1>1 DEF NoPoolWithoutBoard
  <2>1. CASE RefusePool
    BY <2>1 DEF RefusePool, FilesInv, Types
  <2>2. CASE RefuseNoPool
    BY <2>2 DEF RefuseNoPool
  <2>3. CASE AcceptPool \/ AcceptAll
    BY <1>1, <2>3 DEF AcceptPool, AcceptAll
  <2> QED
    BY <2>1, <2>2, <2>3 DEF Next
<1>5. boards' \in Seq({Board(n) : n \in Nat \ {0}})
  BY <1>2, EmptySeq
<1>6. status' \in Early \cup {"checking"} => boards' = <<>>
  BY <1>2
<1> QED
  BY <1>2, <1>3, <1>4, <1>5, <1>6 DEF BoardsInv

LEMMA CreateBoards ==
  ASSUME FilesInv, FilesInv', BoardsInv, CreateBoard
  PROVE  BoardsInv'
<1> DEFINE n == pools[Len(boards) + 1].max_children
<1>1. /\ status = "accepted" /\ Len(boards) < Len(pools) /\ UNCHANGED <<pools, wp>>
      /\ IF n < 1
           THEN status' = "refused" /\ UNCHANGED boards
           ELSE \/ boards' = Append(boards, Board(n)) /\ UNCHANGED status
                \/ status' = "crashed" /\ UNCHANGED boards
  BY DEF CreateBoard
<1>2. pools \in Seq(Pool) /\ Len(boards) \in Nat /\ Len(pools) \in Nat
      /\ DOMAIN pools = 1..Len(pools)
  BY LenProperties DEF FilesInv, Types, ConfTypeOK, BoardsInv
<1>3. Len(boards) + 1 \in DOMAIN pools
  BY <1>1, <1>2
<1>4. n \in Nat \ {0}
  <2>1. n >= 1
    BY <1>1, <1>3, AcceptedIsSound DEF AcceptedPoolsSound
  <2>2. pools[Len(boards) + 1] \in Pool
    BY <1>2, <1>3, ElementOfSeq
  <2>3. n \in Int
    BY <2>2 DEF Pool
  <2> QED
    BY <2>1, <2>3
<1> HIDE DEF n
<1>5. CASE boards' = Append(boards, Board(n)) /\ UNCHANGED status
  <2>1. /\ boards' \in Seq({Board(m) : m \in Nat \ {0}}) /\ Len(boards') <= Len(pools)
        /\ \A k \in DOMAIN boards' :
             pools[k].max_children \in Nat \ {0} /\ boards'[k] = Board(pools[k].max_children)
    BY <1>1, <1>2, <1>4, <1>5, OneMoreBoard DEF n
  <2> QED
    BY <1>1, <1>5, <2>1 DEF BoardsInv, NoPoolWithoutBoard, Early
<1>6. CASE status' = "crashed" /\ UNCHANGED boards
  BY <1>1, <1>6 DEF BoardsInv, NoPoolWithoutBoard, Early
<1> QED
  BY <1>1, <1>4, <1>5, <1>6

LEMMA NextBoards == FilesInv /\ FilesInv' /\ BoardsInv /\ [BootNext]_bootvars => BoardsInv'
<1> SUFFICES ASSUME FilesInv, FilesInv', BoardsInv, [BootNext]_bootvars PROVE BoardsInv'
  OBVIOUS
<1>1. CASE EndBoards
  <2>1. /\ status = "accepted" /\ Len(boards) = Len(pools)
        /\ status' \in {"created", "refused"} /\ UNCHANGED <<boards, pools, wp>>
    BY <1>1 DEF EndBoards
  <2> QED
    BY <2>1 DEF BoardsInv, NoPoolWithoutBoard, Early
<1>2. CASE UNCHANGED bootvars
  BY <1>2 DEF BoardsInv, NoPoolWithoutBoard, bootvars, allvars, vars
<1> QED
  BY <1>1, <1>2, LoadBoards, CheckBoards, CreateBoards DEF BootNext, ConfNext

LEMMA InitBoards == BootInit => BoardsInv
<1> SUFFICES ASSUME BootInit PROVE BoardsInv
  OBVIOUS
<1>1. boards = <<>> /\ pools = <<>> /\ status = "start"
  BY DEF BootInit, ConfInit
<1>2. boards \in Seq({Board(n) : n \in Nat \ {0}}) /\ Len(boards) = 0 /\ Len(pools) = 0
      /\ DOMAIN boards = {}
  BY <1>1, EmptySeq
<1> QED
  BY <1>1, <1>2 DEF BoardsInv, NoPoolWithoutBoard

-----------------------------------------------------------------------------
\* The sum that FoldLeft makes of the sizes: the function it is read from, and
\* what that function is worth on all of the scoreboards.
IsFold(f, bs) ==
  f = [s \in SUBSET (DOMAIN bs) |->
         IF s = {} THEN 0 ELSE f[s \ {Max(s)}] + bs[Max(s)].size]
Greatest(s, m) == m \in s /\ \A x \in s : x <= m
Summed(bs, v) ==
  /\ \A s \in SUBSET (DOMAIN bs) : s # {} => \E m : Greatest(s, m)
  /\ \E f : IsFold(f, bs)
  /\ \A f : IsFold(f, bs) => f[DOMAIN bs] = v

\* What FoldLeft makes of a list whose sizes add up to v.
LEMMA FoldIs ==
  ASSUME NEW bs, NEW v, Summed(bs, v)
  PROVE  FoldLeft(LAMBDA sum, b : sum + b.size, 0, bs) = v
<1>1. PICK f : f = CHOOSE g : IsFold(g, bs)
  OBVIOUS
<1>2. IsFold(f, bs)
  BY <1>1 DEF Summed
<1>3. FoldLeft(LAMBDA sum, b : sum + b.size, 0, bs) = f[DOMAIN bs]
  BY <1>1, Zenon DEF FoldLeft, MapThenFoldSet, IsFold
<1> QED
  BY <1>2, <1>3 DEF Summed

\* The greatest element of a set of indices.
LEMMA GreatestIsMax ==
  ASSUME NEW s \in SUBSET Nat, NEW m, Greatest(s, m)
  PROVE  Max(s) = m
<1>1. m \in s /\ \A y \in s : m >= y
  BY DEF Greatest
<1>2. ASSUME NEW x \in s, \A y \in s : x >= y
      PROVE  x = m
  <2>1. x <= m /\ m <= x /\ x \in Int /\ m \in Int
    BY <1>1, <1>2
  <2> QED
    BY <2>1
<1> QED
  BY <1>1, <1>2, Zenon DEF Max

\* One more scoreboard adds its size.
LEMMA OneMoreSize ==
  ASSUME NEW n \in Nat, NEW bs, NEW more, NEW size, NEW v, Summed(bs, v),
         DOMAIN bs = 1..n, DOMAIN more = 1..(n + 1),
         \A i \in 1..n : more[i] = bs[i], more[n + 1].size = size
  PROVE  Summed(more, v + size)
<1>1. \A s \in SUBSET (1..n) : s # {} => Greatest(s, Max(s))
  <2> SUFFICES ASSUME NEW s \in SUBSET (1..n), s # {} PROVE Greatest(s, Max(s))
    OBVIOUS
  <2>1. PICK m : Greatest(s, m)
    BY DEF Summed
  <2> QED
    BY <2>1, GreatestIsMax
<1>2. \A s \in SUBSET (1..(n + 1)) : n + 1 \in s => Greatest(s, n + 1) /\ Max(s) = n + 1
  <2> SUFFICES ASSUME NEW s \in SUBSET (1..(n + 1)), n + 1 \in s
               PROVE  Greatest(s, n + 1) /\ Max(s) = n + 1
    OBVIOUS
  <2>1. Greatest(s, n + 1)
    BY DEF Greatest
  <2> QED
    BY <2>1, GreatestIsMax
<1>3. \A s \in SUBSET (1..(n + 1)) : n + 1 \notin s => s \in SUBSET (1..n)
  OBVIOUS
<1>4. \A s \in SUBSET (1..(n + 1)) : s # {} => \E m : Greatest(s, m)
  BY <1>1, <1>2, <1>3
<1>5. \A s \in SUBSET (1..n) : s # {} =>
        /\ Max(s) \in 1..n /\ s \ {Max(s)} \in SUBSET (1..n) /\ more[Max(s)] = bs[Max(s)]
        /\ s \in SUBSET (1..(n + 1)) /\ n + 1 \notin s
  <2> SUFFICES ASSUME NEW s \in SUBSET (1..n), s # {}
               PROVE  /\ Max(s) \in 1..n /\ s \ {Max(s)} \in SUBSET (1..n)
                      /\ more[Max(s)] = bs[Max(s)]
                      /\ s \in SUBSET (1..(n + 1)) /\ n + 1 \notin s
    OBVIOUS
  <2>1. Max(s) \in s
    BY <1>1 DEF Greatest
  <2>2. n + 1 \notin s /\ s \in SUBSET (1..(n + 1))
    OBVIOUS
  <2>3. s \ {Max(s)} \in SUBSET (1..n) /\ Max(s) \in 1..n
    BY <2>1
  <2> QED
    BY <2>2, <2>3
<1>6. \E g : IsFold(g, more)
  <2>1. PICK f : IsFold(f, bs)
    BY DEF Summed
  <2>2. \A s \in SUBSET (1..n) :
          f[s] = IF s = {} THEN 0 ELSE f[s \ {Max(s)}] + bs[Max(s)].size
    BY <2>1 DEF IsFold
  <2> DEFINE g == [s \in SUBSET (1..(n + 1)) |->
                     IF n + 1 \in s THEN f[s \ {n + 1}] + size ELSE f[s]]
  <2>3. ASSUME NEW s \in SUBSET (1..(n + 1))
        PROVE  g[s] = IF s = {} THEN 0 ELSE g[s \ {Max(s)}] + more[Max(s)].size
    <3>1. CASE n + 1 \in s
      <4>1. s \ {n + 1} \in SUBSET (1..n) /\ s \ {n + 1} \in SUBSET (1..(n + 1))
        OBVIOUS
      <4>2. g[s \ {n + 1}] = f[s \ {n + 1}] /\ g[s] = f[s \ {n + 1}] + size
        BY <3>1, <4>1
      <4> QED
        BY <3>1, <4>2, <1>2
    <3>2. CASE n + 1 \notin s /\ s # {}
      <4>1. s \in SUBSET (1..n)
        BY <1>3, <3>2
      <4>2. s \ {Max(s)} \in SUBSET (1..(n + 1)) /\ n + 1 \notin s \ {Max(s)}
        BY <3>2
      <4>3. g[s] = f[s] /\ g[s \ {Max(s)}] = f[s \ {Max(s)}]
        BY <3>2, <4>2
      <4>4. more[Max(s)] = bs[Max(s)]
        BY <4>1, <3>2, <1>5
      <4> HIDE DEF g
      <4> QED
        BY <3>2, <4>1, <4>3, <4>4, <2>2
    <3>3. CASE s = {}
      BY <3>3, <2>2
    <3> QED
      BY <3>1, <3>2, <3>3
  <2>4. IsFold(g, more)
    <3>1. DOMAIN g = SUBSET (DOMAIN more) /\ g = [s \in SUBSET (DOMAIN more) |-> g[s]]
      OBVIOUS
    <3> HIDE DEF g
    <3> QED
      BY <3>1, <2>3, Zenon DEF IsFold
  <2> QED
    BY <2>4
<1>7. ASSUME NEW g, IsFold(g, more)
      PROVE  g[DOMAIN more] = v + size
  <2>1. \A s \in SUBSET (1..(n + 1)) :
          g[s] = IF s = {} THEN 0 ELSE g[s \ {Max(s)}] + more[Max(s)].size
    BY <1>7 DEF IsFold
  <2> DEFINE f == [s \in SUBSET (1..n) |-> g[s]]
  <2>2. ASSUME NEW s \in SUBSET (1..n)
        PROVE  f[s] = IF s = {} THEN 0 ELSE f[s \ {Max(s)}] + bs[Max(s)].size
    <3>1. CASE s = {}
      BY <2>1, <3>1
    <3>2. CASE s # {}
      <4>1. f[s] = g[s] /\ f[s \ {Max(s)}] = g[s \ {Max(s)}]
        BY <1>5, <3>2
      <4> HIDE DEF f
      <4> QED
        BY <2>1, <3>2, <4>1, <1>5
    <3> QED
      BY <3>1, <3>2
  <2>3. IsFold(f, bs)
    <3>1. f = [s \in SUBSET (DOMAIN bs) |-> f[s]]
      OBVIOUS
    <3> HIDE DEF f
    <3> QED
      BY <3>1, <2>2, Zenon DEF IsFold
  <2>4. g[1..n] = v
    <3>1. f[1..n] = v
      BY <2>3 DEF Summed
    <3> QED
      BY <3>1
  <2>5. 1..(n + 1) \in SUBSET (1..(n + 1)) /\ n + 1 \in 1..(n + 1)
        /\ (1..(n + 1)) \ {n + 1} = 1..n
    OBVIOUS
  <2>6. Max(1..(n + 1)) = n + 1
    BY <1>2, <2>5
  <2>7. g[1..(n + 1)] = g[1..n] + more[n + 1].size
    BY <2>1, <2>5, <2>6
  <2> QED
    BY <2>4, <2>7
<1> QED
  BY <1>4, <1>6, <1>7 DEF Summed

\* No scoreboard, nothing mapped.
LEMMA NoSize == Summed(<<>>, 0)
<1>1. DOMAIN <<>> = {} /\ SUBSET {} = {{}}
  BY EmptySeq
<1> DEFINE f == [s \in {{}} |-> 0]
<1>2. \E g : IsFold(g, <<>>)
  <2>1. f = [s \in SUBSET (DOMAIN <<>>) |->
              IF s = {} THEN 0 ELSE f[s \ {Max(s)}] + <<>>[Max(s)].size]
    BY <1>1
  <2> QED
    BY <2>1, Zenon DEF IsFold
<1>3. ASSUME NEW g, IsFold(g, <<>>)
      PROVE  g[DOMAIN <<>>] = 0
  BY <1>1, <1>3 DEF IsFold
<1> QED
  BY <1>1, <1>2, <1>3 DEF Summed

\* pmf_shm_size accounts for every mapping.
SumInv == Summed(boards, pmf_shm_size)

LEMMA InitSum == BootInit => SumInv
BY NoSize DEF BootInit, SumInv

LEMMA NextSum == FilesInv /\ BoardsInv /\ SumInv /\ [BootNext]_bootvars => SumInv'
<1> SUFFICES ASSUME FilesInv, BoardsInv, SumInv, [BootNext]_bootvars PROVE SumInv'
  OBVIOUS
<1> DEFINE n == pools[Len(boards) + 1].max_children
<1>1. CASE boards' = Append(boards, Board(n)) /\ pmf_shm_size' = pmf_shm_size + Board(n).size
  <2>1. PICK S : boards \in Seq(S) /\ Board(n) \in S
    <3>1. boards \in Seq({Board(m) : m \in Nat \ {0}} \cup {Board(n)})
      <4>1. boards \in Seq({Board(m) : m \in Nat \ {0}})
        BY DEF BoardsInv
      <4>2. boards \in [1..Len(boards) -> {Board(m) : m \in Nat \ {0}}]
            /\ Len(boards) \in Nat
        BY <4>1, LenProperties
      <4>3. \A i \in 1..Len(boards) : boards[i] \in {Board(m) : m \in Nat \ {0}}
        BY <4>2
      <4> HIDE DEF n
      <4> QED
        BY <4>2, <4>3, SeqDef
    <3> HIDE DEF n
    <3> QED
      BY <3>1
  <2> HIDE DEF n
  <2>2. Len(boards) \in Nat /\ DOMAIN boards = 1..Len(boards)
    BY <2>1, LenProperties
  <2>3. /\ boards' \in Seq(S) /\ Len(boards') = Len(boards) + 1
        /\ \A i \in 1..Len(boards) : boards'[i] = boards[i]
        /\ boards'[Len(boards) + 1] = Board(n)
    BY <1>1, <2>1, AppendProperties
  <2>4. DOMAIN boards' = 1..(Len(boards) + 1)
    BY <2>3, LenProperties
  <2> QED
    BY <1>1, <2>2, <2>3, <2>4, OneMoreSize DEF SumInv
<1>2. CASE UNCHANGED <<boards, pmf_shm_size>>
  BY <1>2 DEF SumInv
<1>3. CASE CreateBoard
  BY <1>1, <1>2, <1>3 DEF CreateBoard
<1>4. CASE EndBoards
  BY <1>2, <1>4 DEF EndBoards
<1>5. CASE UNCHANGED bootvars
  BY <1>2, <1>5 DEF bootvars
<1> QED
  BY <1>2, <1>3, <1>4, <1>5 DEF BootNext

LEMMA BootInvariance == BootSpec => [](FilesInv /\ SettingsInv /\ BoardsInv /\ SumInv)
<1>1. BootInit => FilesInv /\ SettingsInv /\ BoardsInv /\ SumInv
  BY InitFiles, InitSettings, InitBoards, InitSum
<1>2. FilesInv /\ SettingsInv /\ BoardsInv /\ SumInv /\ [BootNext]_bootvars
        => (FilesInv /\ SettingsInv /\ BoardsInv /\ SumInv)'
  BY NextFiles, NextSettings, NextBoards, NextSum
<1> QED
  BY <1>1, <1>2, PTL DEF BootSpec

-----------------------------------------------------------------------------
\* The record of the settings keeps its fields, each pool read is a record of
\* pool_config_s, and it has its name until the reading is given up.
THEOREM TypeCorrect == BootSpec => []ConfTypeOK
<1>1. FilesInv => ConfTypeOK
  BY DEF FilesInv, Types
<1> QED
  BY <1>1, FilesInvariance, PTL

\* Whatever the directory holds and in whatever order readdir() returns it,
\* pmf_conf_parse_pool_config and pmf_conf_parse_pool_ini
\* (pmf_conf.c:299-403) make one pool of each section of the visible files
\* and no other.
THEOREM EachSectionOnce == BootSpec => []PoolsAreTheFiles
<1>1. FilesInv => PoolsAreTheFiles
  BY DEF FilesInv
<1> QED
  BY <1>1, FilesInvariance, PTL

\* What the section [global] says is in force when the pools are checked, and
\* the documented defaults of what it does not say, but for three options
\* (pmf_conf_parse_global_ini, pmf_conf.c:405-464, and pmf_event_pre_init).
THEOREM GlobalInForce == BootSpec => []SettingsInForce
<1>1. SettingsInv => SettingsInForce
  BY DEF SettingsInv
<1> QED
  BY <1>1, BootInvariance, PTL

\* The pools read from any files are completed as PoolConfig does it alone
\* (pmf_conf_process_all_pools, pmf_conf.c:570-668), and what has been completed
\* would be accepted unchanged.
THEOREM CompletionHolds == BootSpec => []CompletionIsStable
<1>1. FilesInv => CompletionIsStable
  BY DEF FilesInv, Checked
<1> QED
  BY <1>1, FilesInvariance, PTL

\* No text in any ini file gets a pool past the check without children to run,
\* an address and spare counts that fit.
THEOREM ReadPoolsSound == BootSpec => []AcceptedPoolsSound
BY AcceptedIsSound, FilesInvariance, PTL

\* Each scoreboard made at the start (pmf_scoreboard.c:88-125) has a slot for
\* every child that the files allow its pool.
LEMMA BoardForEachChild ==
  ASSUME BoardsInv
  PROVE  SlotPerChild
<1> SUFFICES ASSUME NEW k \in DOMAIN boards
             PROVE  SlotsFit(boards[k]) /\ boards[k].nprocs = pools[k].max_children
  BY DEF SlotPerChild
<1>1. pools[k].max_children \in Nat \ {0} /\ boards[k] = Board(pools[k].max_children)
  BY DEF BoardsInv
<1>2. SlotsFit(Board(pools[k].max_children))
  BY <1>1, EverySlotFits
<1>3. Board(pools[k].max_children).nprocs = pools[k].max_children
  BY DEF Board
<1> QED
  BY <1>1, <1>2, <1>3

\* After the scoreboards (pmf_scoreboard.c:88-125, pmf_shm.c) every pool that
\* was accepted has its own, with a slot for every child that the files allow
\* it, none was refused for its number of children, and pmf_shm_size is the sum
\* of what was mapped.
THEOREM EveryBoardFits == BootSpec => []BoardsFit
<1>1. BoardsInv /\ SumInv => BoardsFit
  BY BoardForEachChild, FoldIs DEF BoardsFit, BoardsInv, SumInv
<1> QED
  BY <1>1, BootInvariance, PTL
=============================================================================
