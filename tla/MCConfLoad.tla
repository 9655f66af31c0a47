----------------------------- MODULE MCConfLoad -----------------------------
(***************************************************************************)
(* Instances of ConfLoad and ScoreboardInit for TLC: the files the program *)
(* is started with.                                                        *)
(***************************************************************************)
EXTENDS ScoreboardInit

Section(name, opts) == [name |-> name, opts |-> opts]
File(sections) == [hidden |-> FALSE, ini |-> sections]
Global(opts) == Section("global", ("include_dir" :> Word("dir")) @@ opts)

\* The texts of a pool with small numbers around the comparisons of the code.
Plain ==
  ("listen" :> Word("inet")) @@ ("pm" :> Word("static")) @@
  ("pm.max_children" :> Num(1))
Dynamic ==
  {("pm" :> Word("dynamic")) @@ ("pm.max_children" :> Num(m)) @@
   ("pm.start_servers" :> Num(s)) @@ ("pm.min_spare_servers" :> Num(lo)) @@
   ("pm.max_spare_servers" :> Num(hi)) @@ Plain :
     m \in {0, 1, 4}, s \in -1..5, lo \in 0..5, hi \in 0..5}
Ondemand ==
  {("pm" :> Word("ondemand")) @@ ("pm.process_idle_timeout" :> t) @@
   ("listen_backlog" :> Num(b)) @@ ("pm.max_spare_servers" :> Num(s)) @@ Plain :
     t \in {Num(0), Num(1), Duration(10, "s")}, b \in {0, 3, 4}, s \in {0, 1}}
Others ==
  {("listen" :> a) @@ ("pm" :> p) @@ ("process_priority" :> n) @@ Plain :
     a \in {Word(""), Word("absolute"), Word("relative")},
     p \in {Word(""), Word("static")},
     n \in {Num(-20), Num(-19), Num(20), Num(21), Word("-")}}
  \cup {<<>>, Plain, ("process.dumpable" :> Word("yes")) @@ Plain}

Pools == Dynamic \cup Ondemand \cup Others

\* One pool with any options, alone or behind another, under both modules.
OneFile ==
  {[main |-> <<Global("events.mechanism" :> Word(m))>>,
    dir |-> {File(before \o <<Section("www", p)>>)}] :
      m \in {"epoll", "select"}, p \in Pools,
      before \in {<<>>, <<Section("api", Plain)>>}}

\* Directories with one or two entries, names that repeat, and what is not a
\* file of pools.
Entries ==
  {File(<<>>), File(Unreadable), [hidden |-> TRUE, ini |-> Unreadable],
   File(<<Section("a", Plain)>>), File(<<Section("b", Plain), Section("a", Plain)>>),
   File(<<Section("c", Plain), Section("d", Plain)>>), File(<<Section("global", Plain)>>)}
Directories ==
  {[main |-> <<Global(<<>>)>>, dir |-> d] : d \in {x \in SUBSET Entries : Cardinality(x) <= 3}}

\* Among the words of the texts, those that end in "s" or in "d".
MCTimeWords == {"yes", "loud", "unlimited", "ondemand", "disabled"}

\* Main files: every kind of value, good and bad, and sections besides [global]
\* with pool options and with global options.
GlobalTexts ==
  UNION {
    {"pid_file", "error_log"} \X {Word("file")},
    {"include_dir"} \X {Word("other"), Word("dir")},
    {"log_level"} \X {Word("debug"), Word("loud"), Num(2)},
    {"emergency_restart_threshold", "process.max", "process.priority",
     "rlimit_files", "rlimit_core"} \X
      {Num(-20), Num(0), Num(20), Num(21), Word("-"), Word("unlimited")},
    {"emergency_restart_interval", "process_control_timeout"} \X
      {Num(0), Num(5), Duration(2, "m"), Duration(1, "h"), Duration(1, "d"),
       Duration(7, "s"), Word(""), Word("static"), Word("disabled")},
    {"daemonize"} \X {Word("yes"), Word("no"), Num(1)},
    {"events.mechanism"} \X {Word("epoll"), Word("select"), Word("poll")}}
Mains ==
  {<<Global(x[1] :> x[2])>> : x \in GlobalTexts}
  \cup {<<Section("pool", x[1] :> x[2]), Global(<<>>)>> : x \in GlobalTexts}
  \cup {<<Global("events.mechanism" :> Word("select")), Section("pool", Plain),
          Section("more", x[1] :> x[2])>> : x \in GlobalTexts}
  \cup {Unreadable, <<>>, <<Section("pool", Plain)>>,
        <<Section("pool", "pid_file" :> Word("dir"))>>}
MainFiles == {[main |-> m, dir |-> {File(<<Section("www", Plain)>>)}] : m \in Mains}

MCSystems == OneFile \cup Directories \cup MainFiles

\* A pool in the main file beside one in the directory.
MainPoolSystems ==
  {[main |-> <<Global(x[1] :> x[2]), Section("example", Plain)>>,
    dir |-> {File(<<Section("www", Plain)>>)}] : x \in GlobalTexts}
=============================================================================
