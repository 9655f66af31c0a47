------------------------------ MODULE ConfLoad ------------------------------
(***************************************************************************)
(* pmf_conf_init_main (pmf_conf.c): the main file is read into the global  *)
(* configuration, the files of include_dir into the list of pools, the     *)
(* event module is chosen, and the pools are checked (PoolConfig).  An ini *)
(* file is the sequence of its sections, as iniparser_getsecname numbers   *)
(* them (IniFile), each with the texts of its options.                     *)
(***************************************************************************)
EXTENDS PoolConfig, FiniteSets, FiniteSetsExt, SequencesExt

CONSTANTS
  Systems,     \* the main files and the directories they are started with
  Unreadable,  \* a file that iniparser_load returns NULL for
  TimeWords    \* the words that end in a unit, or in a digit behind other characters

ASSUME TimeWordsAssumption == TimeWords \subseteq STRING \ {"", "-"}

\* The text of an option: a decimal number, a duration or a word; "" is a word.
Num(n) == <<"num", n>>
Duration(n, unit) == <<"time", n, unit>>
Word(w) == <<"word", w>>

VARIABLES
  main,    \* the sections of pmf.conf
  dir,     \* the entries of the directory "dir"
  global,  \* pmf_global_config
  names,   \* the names of the pools
  ini,     \* the sections of the file being read
  nsec,    \* the sections of it, or of the main file, still to be read
  todo     \* the entries readdir() has not returned

confvars == <<main, dir, global, names, ini, nsec, todo>>
allvars == <<vars, confvars>>

-----------------------------------------------------------------------------
\* The tables of options: the key and the kind of the value.
GlobalOptions ==
  << <<"pid_file", "string">>, <<"include_dir", "string">>,
     <<"error_log", "string">>, <<"log_level", "level">>,
     <<"emergency_restart_threshold", "integer">>,
     <<"emergency_restart_interval", "time">>,
     <<"process_control_timeout", "time">>, <<"process.max", "integer">>,
     <<"process.priority", "integer">>, <<"daemonize", "boolean">>,
     <<"rlimit_files", "integer">>, <<"rlimit_core", "rlimit">>,
     <<"events.mechanism", "string">> >>
PoolOptions ==
  << <<"user", "string">>, <<"group", "string">>, <<"listen", "string">>,
     <<"listen_backlog", "integer">>, <<"process_priority", "integer">>,
     <<"process.dumpable", "integer">>, <<"pm", "pm">>,
     <<"pm.max_children", "integer">>, <<"pm.start_servers", "integer">>,
     <<"pm.min_spare_servers", "integer">>, <<"pm.max_spare_servers", "integer">>,
     <<"pm.process_idle_timeout", "integer">>, <<"pm.max_requests", "integer">> >>

Levels == [debug |-> 1, notice |-> 2, warning |-> 3, error |-> 4, alert |-> 5]
Units == [s |-> 1, m |-> 60, h |-> 3600, d |-> 86400]

\* What an ini file may hold: sections with a name and the texts of options.
\* An address is reduced to the kinds that the check of the pools tells apart.
Text == ({"num"} \X Int) \cup ({"time"} \X Nat \X DOMAIN Units) \cup ({"word"} \X STRING)
IsOptions(opts) ==
  /\ \A key \in DOMAIN opts : opts[key] \in Text
  /\ "listen" \in DOMAIN opts =>
       \E a \in {"", "inet", "absolute", "relative"} : opts["listen"] = Word(a)
IsIni(f) ==
  /\ DOMAIN f = 1..Len(f) /\ Len(f) \in Nat
  /\ \A k \in DOMAIN f : f[k].name \in STRING /\ IsOptions(f[k].opts)

ASSUME SystemsAssumption ==
  \A s \in Systems :
    /\ s.main # Unreadable => IsIni(s.main)
    /\ \A e \in s.dir : /\ e = [hidden |-> e.hidden, ini |-> e.ini] /\ e.hidden \in BOOLEAN
                        /\ e.ini # Unreadable => IsIni(e.ini)

\* The digits of a number, or none at all: atoi reads "" and "-" as 0.
Integer(t) ==
  IF t[1] = "num" THEN {t[2]} ELSE IF t \in {Word(""), Word("-")} THEN {0} ELSE {}

\* The setters: what a text is read as; no value when it is refused.  The time
\* looks at the last character alone and leaves the rest to atoi, which makes 0
\* of a word: "yes" is 0 seconds, "disabled" 0 days.
Reading(kind, t) ==
  CASE kind = "string"  -> {t[2]}
    [] kind = "integer" -> Integer(t)
    [] kind = "rlimit"  -> IF t = Word("unlimited") THEN {-1}
                           ELSE {n \in Integer(t) : n >= 0}
    [] kind = "time"    -> IF t[1] = "time" THEN {t[2] * Units[t[3]]}
                           ELSE IF t[1] = "num" THEN {t[2]}
                           ELSE IF t[2] \in TimeWords THEN {0} ELSE {}
    [] kind = "level"   -> {Levels[w] : w \in {x \in DOMAIN Levels : t = Word(x)}}
    [] kind = "boolean" -> {w = "yes" : w \in {x \in {"yes", "no"} : t = Word(x)}}
    [] kind = "pm"      -> {w \in {"static", "dynamic", "ondemand"} : t = Word(w)}

Keyed(table, key) == CHOOSE i \in DOMAIN table : table[i][1] = key
Given(table, opts) == {i \in DOMAIN table : table[i][1] \in DOMAIN opts}
Readings(table, opts, i) == Reading(table[i][2], opts[table[i][1]])
Unread(table, opts) == {i \in Given(table, opts) : Readings(table, opts, i) = {}}

\* The value of an option that is given and readable, or else its default.
ValueOf(table, opts, key, default) ==
  IF key \in DOMAIN opts
    THEN CHOOSE x \in Readings(table, opts, Keyed(table, key)) : TRUE
    ELSE default

\* pmf_global_config as it is linked; what is not written there is zero.
GlobalDefault ==
  [key \in {GlobalOptions[i][1] : i \in DOMAIN GlobalOptions} |->
     CASE GlobalOptions[Keyed(GlobalOptions, key)][2] = "string" -> "undefined"
       [] key = "log_level" -> Levels.alert
       [] key = "process.priority" -> Unset
       [] key = "daemonize" -> FALSE
       [] OTHER -> 0]

\* pmf_worker_pool_config_alloc, then the options.
PoolRead(opts) ==
  LET value(key, default) == ValueOf(PoolOptions, opts, key, default)
      listen == value("listen", "")
  IN [address      |-> IF listen = "" THEN "unset" ELSE listen,
      priority     |-> value("process_priority", Unset),
      pm           |-> value("pm", "unset"),
      max_children |-> value("pm.max_children", 0),
      start        |-> value("pm.start_servers", 0),
      min_spare    |-> value("pm.min_spare_servers", 0),
      max_spare    |-> value("pm.max_spare_servers", 0),
      idle_timeout |-> value("pm.process_idle_timeout", 10),
      backlog      |-> value("listen_backlog", BacklogDefault)]

-----------------------------------------------------------------------------
ConfInit ==
  /\ \E s \in Systems : main = s.main /\ dir = s.dir
  /\ global = GlobalDefault
  /\ names = <<>> /\ pools = <<>>
  /\ ini = <<>> /\ nsec = 0 /\ todo = {}
  /\ support_edge_trigger = FALSE
  /\ wp = 1
  /\ status = "start"

\* Every error returns -1 all the way up to pmf_init.
Refuse ==
  /\ status' = "refused"
  /\ UNCHANGED <<support_edge_trigger, pools, wp, confvars>>

GlobalSection ==
  LET found == {k \in DOMAIN main : main[k].name = "global"}
  IN IF found = {} THEN <<>> ELSE main[CHOOSE k \in found : TRUE].opts

\* pmf_conf_load_conf_file and the first half of pmf_conf_parse_global_ini.
\* Memory may run out.
LoadMain ==
  /\ status = "start"
  /\ \/ Refuse
     \/ /\ main # Unreadable /\ Unread(GlobalOptions, GlobalSection) = {}
        /\ global' = [key \in DOMAIN global |->
                        ValueOf(GlobalOptions, GlobalSection, key, global[key])]
        /\ nsec' = Len(main)
        /\ status' = "sections"
        /\ UNCHANGED <<main, dir, names, ini, todo, support_edge_trigger, pools, wp>>

\* What a pool section of the main file does to the global record: entry i of
\* the pool table is stored at the offset of its field, which in this record
\* belongs to another (or to none, for the fifth entry).
Misstored(opts) ==
  LET at(i) == CHOOSE x \in Reading(PoolOptions[i][2], opts[GlobalOptions[i][1]]) : TRUE
      given == Given(GlobalOptions, opts)
      kept  == global["events.mechanism"] = "undefined" /\ 7 \notin given
  IN [key \in DOMAIN global |->
        CASE key = "include_dir" /\ 1 \in given -> at(1)
          [] key = "error_log" /\ 2 \in given   -> at(2)
          [] key = "rlimit_core" /\ 4 \in given -> at(4)
          [] key = "events.mechanism" /\ (7 \in given \/ (6 \in given /\ ~(kept /\ at(6) = 0)))
                                                -> "wild"
          [] OTHER -> global[key]]

\* What a pool section of the main file ends the reading with, if anything.
AfterMisstored(opts) ==
  LET given   == Given(GlobalOptions, opts)
      bad     == {i \in given :
                    Reading(PoolOptions[i][2], opts[GlobalOptions[i][1]]) = {}}
      reached == {i \in given : \A j \in bad : i < j}
  IN IF 3 \in reached THEN "crashed"
     ELSE IF reached \cap 8..13 # {} THEN "overrun"
     ELSE IF bad # {} THEN "refused" ELSE "sections"

\* Slip: the section [global] is not skipped.
MainSectionGlobalToo ==
  /\ status = "sections" /\ nsec > 0
  /\ status' = AfterMisstored(main[nsec].opts)
  /\ global' = IF status' = "sections" THEN Misstored(main[nsec].opts) ELSE global
  /\ nsec' = nsec - 1
  /\ UNCHANGED <<main, dir, names, ini, todo, support_edge_trigger, pools, wp>>

\* Slip: "continue" without counting down.
MainSectionStuck ==
  /\ status = "sections" /\ nsec > 0
  /\ main[nsec].name # "global"
  /\ status' = AfterMisstored(main[nsec].opts)
  /\ global' = IF status' = "sections" THEN Misstored(main[nsec].opts) ELSE global
  /\ nsec' = nsec - 1
  /\ UNCHANGED <<main, dir, names, ini, todo, support_edge_trigger, pools, wp>>

\* The second half: the sections of the main file from the last to the first.
\* A pool section is looked up under the keys of the global table and stored
\* through the pool table.  The third entry frees the bits of log_level as a
\* pointer; the eighth and later ones lie behind the record.  Memory may run out.
\* Each entry that is not there, or not readable, is logged with one argument for
\* two "%s": what the second one reads may be no pointer at all.
MainSection ==
  /\ status = "sections" /\ nsec > 0
  /\ nsec' = nsec - 1
  /\ \/ main[nsec].name = "global" /\ UNCHANGED <<global, status>>
     \/ /\ main[nsec].name # "global"
        /\ status' \in {"refused", "crashed"}
        /\ UNCHANGED global
     \/ /\ main[nsec].name # "global"
        /\ status' = AfterMisstored(main[nsec].opts)
        /\ global' = IF status' = "sections" THEN Misstored(main[nsec].opts)
                     ELSE global
  /\ UNCHANGED <<main, dir, names, ini, todo, support_edge_trigger, pools, wp>>

\* An include_dir that is not a directory is passed over; one that cannot be
\* opened is not.
OpenDir ==
  /\ status = "sections" /\ nsec = 0
  /\ \/ /\ todo' = IF global["include_dir"] = "dir" THEN dir ELSE {}
        /\ status' = IF global["include_dir"] = "dir" THEN "dir" ELSE "settings"
        /\ UNCHANGED <<main, dir, global, names, ini, nsec, support_edge_trigger, pools, wp>>
     \/ global["include_dir"] = "dir" /\ Refuse

\* readdir in any order.  stat() never returns more than 0, so whatever is not
\* hidden is loaded; a directory reads as a file without sections.
ReadDir ==
  /\ status = "dir"
  /\ \E e \in todo :
       IF ~e.hidden /\ e.ini = Unreadable THEN Refuse
       ELSE /\ todo' = todo \ {e}
            /\ ini' = IF e.hidden THEN ini ELSE e.ini
            /\ nsec' = IF e.hidden THEN 0 ELSE Len(e.ini)
            /\ status' = IF e.hidden THEN "dir" ELSE "file"
            /\ UNCHANGED <<main, dir, global, names, support_edge_trigger, pools, wp>>

\* Slip: the name is not compared with those of the pools there are.
PoolSectionUnchecked ==
  /\ status = "file" /\ nsec > 0
  /\ LET s == ini[nsec]
     IN IF s.name = "global" THEN Refuse
        ELSE /\ names' = Append(names, s.name)
             /\ pools' = Append(pools, IF Unread(PoolOptions, s.opts) = {}
                                         THEN PoolRead(s.opts) ELSE PoolRead(<<>>))
             /\ status' = IF Unread(PoolOptions, s.opts) = {} THEN status ELSE "refused"
             /\ nsec' = nsec - 1
             /\ UNCHANGED <<main, dir, global, ini, todo, support_edge_trigger, wp>>

\* Slip: the copy of the name is not tested, and a pool without one goes on.
PoolSectionUnnamed ==
  /\ status = "file" /\ nsec > 0
  /\ names' \in {names, Append(names, ini[nsec].name)}
  /\ pools' = Append(pools, PoolRead(<<>>))
  /\ nsec' = nsec - 1
  /\ UNCHANGED <<main, dir, global, ini, todo, support_edge_trigger, status, wp>>

\* pmf_conf_parse_pool_ini: the sections from the last to the first.  Memory
\* may run out at any; a pool whose options are refused stays in the list (and
\* one whose name cannot be copied, which the model leaves out: nothing is read
\* after a refusal).
PoolSection ==
  /\ status = "file" /\ nsec > 0
  /\ LET s == ini[nsec]
     IN \/ Refuse
        \/ /\ s.name # "global" /\ s.name \notin Range(names)
           /\ names' = Append(names, s.name)
           /\ pools' = Append(pools, IF Unread(PoolOptions, s.opts) = {}
                                       THEN PoolRead(s.opts) ELSE PoolRead(<<>>))
           /\ status' = IF Unread(PoolOptions, s.opts) = {} THEN status ELSE "refused"
           /\ nsec' = nsec - 1
           /\ UNCHANGED <<main, dir, global, ini, todo, support_edge_trigger, wp>>

\* It ends without a return statement: the caller may read a negative result.
EndFile ==
  /\ status = "file" /\ nsec = 0
  /\ \/ Refuse
     \/ status' = "dir" /\ UNCHANGED <<support_edge_trigger, pools, wp, confvars>>

EndDir ==
  /\ status = "dir" /\ todo = {}
  /\ status' = "settings"
  /\ UNCHANGED <<support_edge_trigger, pools, wp, confvars>>

\* The rest of pmf_conf_proc_config, and pmf_event_pre_init.  The error log
\* may not open.
SettingsRefused ==
  \/ global["process.max"] < 0
  \/ global["process.priority"] # Unset /\ global["process.priority"] \notin -19..20

ProcSettings ==
  /\ status = "settings"
  /\ \/ Refuse
     \/ /\ ~SettingsRefused
        /\ global' = [global EXCEPT !["error_log"] =
                        IF @ = "undefined" THEN "/var/log/pmf.log" ELSE @]
        /\ support_edge_trigger' =
             (global["events.mechanism"] \in {"undefined", "epoll"})
        /\ status' = CASE global["events.mechanism"] = "wild" -> "crashed"
                       [] global["events.mechanism"] \in {"undefined", "epoll", "select"}
                            -> "checking"
                       [] OTHER -> "refused"
        /\ UNCHANGED <<main, dir, names, ini, nsec, todo, pools, wp>>

Load ==
  \/ LoadMain \/ MainSection \/ OpenDir \/ ReadDir \/ PoolSection \/ EndFile
  \/ EndDir \/ ProcSettings

ConfNext == Load \/ (Next /\ UNCHANGED confvars)

ConfSpec == ConfInit /\ [][ConfNext]_allvars

-----------------------------------------------------------------------------
\* Types of the variables; every pool of the list has its name.
ConfTypeOK ==
  /\ DOMAIN global = DOMAIN GlobalDefault
  /\ pools \in Seq(Pool)
  /\ status # "refused" => Len(names) = Len(pools)
  /\ nsec \in Nat /\ todo \subseteq dir
  /\ status \in {"start", "sections", "dir", "file", "settings", "checking",
                 "accepted", "created", "refused", "crashed", "overrun"}
  /\ support_edge_trigger \in BOOLEAN

\* The sections of the main file besides [global] that hold a global option.
Misplaced ==
  {k \in DOMAIN main : main[k].name # "global" /\ Given(GlobalOptions, main[k].opts) # {}}

\* The pools that are checked are the sections of the visible files, each once,
\* whatever the order of readdir(): none is lost, none is there twice or named
\* "global", and each has the values its own section gives.
PoolsAreTheFiles ==
  status \in {"settings", "checking", "accepted"} =>
    LET files == IF global["include_dir"] = "dir" THEN {e \in dir : ~e.hidden} ELSE {}
        sections == UNION {{<<e, k>> : k \in DOMAIN e.ini} : e \in files}
    IN /\ Len(names) = Cardinality(sections)
       /\ Cardinality(Range(names)) = Len(names) /\ "global" \notin Range(names)
       /\ \A j \in wp..Len(names) :
            \E x \in sections : LET s == x[1].ini[x[2]]
                              IN s.name = names[j] /\ pools[j] = PoolRead(s.opts)

\* The defaults pmf.conf.default documents (lines 12, 23 and 62; as to the other
\* options it agrees with the code).
DocumentedDefault ==
  [GlobalDefault EXCEPT !["pid_file"] = "/var/run/pmf.pid",
                        !["log_level"] = Levels.notice,
                        !["daemonize"] = TRUE]

\* What [global] says is in force when the pools are checked, and for an option
\* that is not there its documented default, unless another section of the file
\* holds global options; the event module is the one named there.  Three options
\* do not have the default that is documented but the one of the code: no pid
\* file, only alerts, and no daemon.
SettingsInForce ==
  status \in {"checking", "accepted"} /\ Misplaced = {} =>
    /\ \A key \in DOMAIN global \ {"error_log"} :
         IF key \in DOMAIN GlobalSection
           THEN global[key] \in Readings(GlobalOptions, GlobalSection, Keyed(GlobalOptions, key))
           ELSE \/ global[key] = DocumentedDefault[key]
                \/ /\ key \in {"pid_file", "log_level", "daemonize"}
                   /\ global[key] = GlobalDefault[key]
    /\ support_edge_trigger <=> global["events.mechanism"] # "select"

\* pmf.conf.default:99, "You can also define pool below as you wish", and
\* README.md, point 3: a section of the main file declares a pool.
MainPoolsExist ==
  status = "accepted" =>
    \A k \in DOMAIN main : main[k].name \in Range(names) \cup {"global"}
=============================================================================
