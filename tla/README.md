# PMF in TLA+

PMF (process management frame) is a master process that opens one listening
socket per pool of workers and shares a page of counters, the *scoreboard*,
with the workers of each pool. The program in `src/` is the start of that
master: it reads the configuration, detaches from its caller, allocates the
scoreboards, installs signal handlers, opens the sockets, prepares the event
module and writes a pid file. The forking of workers and the event loop are not
written yet (`pmf_run` is empty).

This directory holds the modules that model it, the TLC configurations that
check them on small instances, and the theorems TLAPS proves of them.
`PROJECT.json` names, for every definition, the lines it stands for.

## 1. The system

| Component | State | Operations | Talks to |
|---|---|---|---|
| scoreboard update (`pmf_scoreboard.c`, `pmf_atomic.h`) | the counters and the lock word of a shared page | `pmf_scoreboard_update` | every worker and the master, through memory |
| scoreboard creation (`pmf_scoreboard.c`, `pmf_shm.c`) | the mapping, the slots of the workers | `pmf_scoreboard_init_main`, `pmf_shm_alloc`, `pmf_shm_free` | the pool list |
| unix listen socket (`pmf_sockets.c`, `pmf_unix.c`) | the file at the path, the umask, a descriptor | `pmf_sockets_new_listening_socket`, `pmf_socket_unix_test_connect` | other instances of the program, through the file system |
| socket list (`pmf_sockets.c`, `pmf_array.h`) | `sockets_list`, the descriptors of the pools | `pmf_sockets_init_main`, `pmf_sockets_hash_op` | pools, scoreboard |
| pool check (`pmf_conf.c`) | the configurations of the pools | `pmf_conf_process_all_pools` | the event module; all later stages rely on it |
| configuration loading (`pmf_conf.c`) | global settings, pool list | setters, `pmf_conf_parse_global_ini`, `pmf_conf_parse_pool_ini` | iniparser |
| ini files (`lib/iniparser`) | a dictionary of keys and values | `iniparser_load`, `dictionary_set`, `dictionary_unset` | files |
| start (`pmf.c`, `pmf_unix.c`, `pmf_conf.c`) | the two processes, the status pipe, the pid file | `pmf_init`, `pmf_unix_init_main`, `pmf_conf_write_pid` | every stage |
| signals (`pmf_signals.c`) | handlers, a socketpair | `pmf_signals_init_main`, `sig_handler` | nobody reads the socketpair yet |
| events (`pmf_events.c`, `events/`) | chosen module, epoll descriptor or `fd_set` | `pmf_event_init_main`, `wait`, `add`, `remove` | callbacks |
| log, stdio, clock, worker pool, children | levels, descriptors, flags | set-up functions | - |

Hard behaviours: several processes on one page with a spin lock and a master
that kills them; several instances of the program on one socket path with a
check and an act that are two calls; a fork whose two halves both run
`pmf_init`; initialisation steps that fail half-way; an array whose push looks
up a slot that does not exist yet.

What makes each component correct:

- *scoreboard*: updates are atomic; the high-water marks cover the counters; a
  lock is released unless its holder died;
- *unix socket*: the path leads to the one instance that serves it; a leftover of
  a crash is replaced, a live socket is not; the umask and descriptors are put
  back on every way out; nothing but a full accept queue holds a start up;
- *socket list*: every pool listens on the first of its addresses it can have,
  which an earlier pool with an overlapping address may have taken; equal addresses
  share one socket and are counted; the closing loop closes nothing that is used;
- *pool check*: what is accepted is sound for the later stages, also after the
  check has completed the settings it found missing;
- *ini files*: the dictionary is a map, however it grew and whatever was unset; what
  is loaded is what the lines say, and sections are numbered in their order;
- *configuration loading*: the pools are the sections of the visible files, whatever
  order `readdir` gives; the settings in force are those of `[global]` and, for what it
  does not say, the documented defaults;
- *scoreboard creation*: every accepted pool gets a scoreboard with a slot per child
  inside its mapping;
- *events*: a round calls only events that were reported in it, and once for each time
  they were registered; no ready event starves behind a short buffer;
- *start*: the pid file names the process that serves; signals are not
  dropped; the calling process returns, and does nothing more once it has been told
  that the master runs.

## 2. The modules

| Module | Models | Extends or instantiates |
|---|---|---|
| `ScoreboardData` | the counters and what a call does to each, as operators | - |
| `AtomicScoreboard` | abstract: a call takes effect in one step when it returns | `ScoreboardData` |
| `Scoreboard` | the update, one memory access per step | `ScoreboardData`; instance of `AtomicScoreboard` |
| `ListenAddress` | abstract: an address served by one instance at a time | - |
| `UnixListen` | opening a unix socket, one system call per step | instance of `ListenAddress` |
| `SocketsInit` | `pmf_sockets_init_main` over the pool list and the array | - |
| `Dictionary` | the functions of `dictionary.c` as operators on the arrays | - |
| `FiniteMap` | abstract: a map that may lose what was set when memory is short | - |
| `IniFile` | `iniparser_load` one line per step, then set, unset and free | `Dictionary`; instance of `FiniteMap` |
| `PoolConfig` | `pmf_conf_process_all_pools`, one pool per step | - |
| `ConfLoad` | `pmf_conf_init_main`: main file, directory, settings, then the check | `PoolConfig` |
| `ShmLayout` | the layout of a scoreboard in its mapping | - |
| `ScoreboardInit` | `pmf_scoreboard_init_main` over the accepted pools | `ConfLoad`, `ShmLayout` |
| `Dispatcher` | abstract: what an event module promises in a round | - |
| `EventLoop` | `pmf_event_init_main`, epoll and select | instance of `Dispatcher` |
| `LogLine` | the length arithmetic of `vplog` | - |
| `Startup` | `pmf_init`, one stage per step, in two processes | - |
| `ScoreboardProofs`, `UnixListenProofs`, `SocketsInitProofs`, `IniFileProofs`, `EventLoopProofs`, `StartupProofs`, `LogLineProofs` | the theorems | the module of that name and `TLAPS` |
| `BootProofs` | the theorems about pools, configuration and scoreboards | `ScoreboardInit` and `TLAPS` |
| `MCScoreboard`, `MCUnixListen`, `MCSocketsInit`, `MCIniFile`, `MCConfLoad`, `MCEventLoop` | values for the runs | their module |

Operators introduced by a comment that begins with *Slip* are variants of the
definition that follows them with a plausible mistake in it. `PROJECT.json`
pairs each checked property with one of them: put in the place of the
definition it breaks the property, which shows that the property depends on
the code.

### Scoreboard

`lock` and `board` are the shared page, `pc`, `call`, `pos` and `reg` what a process is
about to do, which counter it has come to (`Order` gives the textual order of the
two branches of the function) and what it has loaded. `TryLock` is the
compare-and-set that succeeds; a failing one changes nothing. Each counter is loaded in
one step and stored in another, so that two updates that overlapped would lose
one. `Kill` is a signal of the master and may come between any two steps.
`committed` is a history variable, the counters at the last release: it is the
abstract state in the refinement, since a process killed inside leaves counters
half written which nobody will ever see released. Unsigned counters wrap at
`UModulus`, and their clamp "if (x + d > 0)" is translated as it is, in the
counter's own type.

`BeginWithoutScoreboard` is the call with a null argument: nothing assigns the
static `pmf_scoreboard`, so the function warns and returns.

### UnixListen

An instance goes through `Socket`, `TestConnect`, `Unlink` (with the `umask` call),
`Bind` (which puts the umask back), `SetPermissions` (the `chown` on the path) and
`Listen`; `GiveUp` is "close and return -1", after which the process exits. `Die`
may come anywhere. `file` says what the path names: the instance that bound it,
a socket file nobody has open, or nothing. A behaviour takes place in one of `Regimes`: starts in
turn or in parallel, with a set of calls that may fail for reasons of their own.

The `connect` of the connect test is a blocking one. `full` are the instances whose accept
queue is full, by clients (`Fill`) or by the connections that the tests themselves leave
there; nothing in `src/` accepts, so a queue stays full until its instance ends. A test that
meets such a queue waits (`peer` says at whose), until that instance dies, when it looks the path up
again, or until a signal interrupts it, when it counts as "nobody listens" (a fault "test").

### SocketsInit

Addresses are model values: two pools have the same one when the printed
addresses are equal, which is what `sockets_list` compares. `bind` and the connect test
are not that exact: `Overlaps` are the pairs of different addresses one process
cannot have both, such as "::" and "127.0.0.1" with one port, or two names of one
path, and `InUse` is the address of a socket that is open already, or one that overlaps it. A pool has a
sequence of candidates (`getaddrinfo`, or "::" and then "0.0.0.0"). `broken` is the set of
addresses that cannot be used by anybody, which does not change; `Create` opens a socket or fails, and stores an entry
either way. The array is translated with its unsigned comparison (`ItemIsNull`), so `Push` keeps
the new entry only in the empty array and leaves a zero entry otherwise. A search that does not
end at the first entry meets the null key of the second, so there are two
entries at most, and one more for each time the address of a failed first attempt is tried
again. After such a retry any other address meets the null key too, so the list has three
entries or four, and reallocation at the initial capacity of ten is left out; it would take an
address that `getaddrinfo` reports about ten times over for one pool.

### PoolConfig

One step per pool. `Refused` is the disjunction of the early returns, `Completed`
what is changed in an accepted pool: the midpoint as `start_servers`, the backlog
raised and the spare counts cleared for ondemand. Addresses are reduced to
what the check distinguishes.

### IniFile

A file is a sequence of lines, each reduced to what `iniparser_line` makes of it, a name
being the sequence of the words between its colons: the key of an option is the name
of its section followed by its own, so a section called "a:x" collides with option x of
section a as it does in the code. `pending` is the text kept while lines end in a
backslash; what remains of it at the end of the file is dropped, as in the code. Only
the kinds of continuation the model spells out are allowed in `Files` (a section or a
malformed line with a backslash, and a comment in the middle of a chain, are left
out). `oom` says whether allocations may fail in a behaviour: a copy that fails is stored
as a null pointer and the call returns 0 (the comment of `dictionary_set`, `dictionary.c:252`,
promises "non-zero in case of failure"), only a failing growth is reported, and a line whose own copy
fails counts as an empty one, whatever it says (`ReadUncopied`).
`request` is a history variable, the last call, which ties each step to the step of
`FiniteMap` that answers the same call.

The constants are assumed to be what such files are: the null pointer is no key, what
joined lines spell is a value (`Joint`), and `Nothing`, the state without a pending text, is no
line. Hash values are any natural numbers, equal or not.

### ConfLoad and ScoreboardInit

The sections of an ini file are a sequence in the order `iniparser_getsecname` numbers
them (`IniFile.SectionsInOrder`), each with the texts of its options. A text is a number,
a duration or a word, which is what the setters tell apart; `Reading` is the setter of
each kind and gives no value for a text it refuses. Reading a whole section is one step,
since nothing else happens between its options. The setter of a time looks at the last
character and leaves the rest to `atoi`, so a word that ends in a unit or a digit is taken as 0
(`disabled` is 0 days); `TimeWords` are these words. `Misstored` and `AfterMisstored` are what
the second loop of `pmf_conf_parse_global_ini` does to a section other than [global]: it
takes the keys of the global table, the setters and offsets of the pool table, and the
global record. With the layout of the two records on a 64-bit machine, entry 1 lands in
`include_dir`, 2 in `error_log`, 4 in `rlimit_core`, 6 and 7 in the two halves of
`events.mechanism`; entry 3 frees the bytes of `log_level` as a pointer, and from entry 8 on
the store is behind the record. On the way, an entry that is missing or refused is logged by
a call with two `%s` and one argument (`pmf_conf.c:455` and `459`), which is undefined and may end the
process: `MainSection` may crash in every section that is not [global]. These end as "crashed" and
"overrun", and what the program does afterwards is not followed. `ScoreboardInit` goes on from an accepted
configuration: each mapping is made or `mmap` fails, and then the process fails, because
MAP_FAILED is not NULL.

Settings that `pmf.d/www.conf.default` shows and the tables do not know (`listen.backlog`,
`process.priority` in a pool) are ignored by the code, and some that it shows are
refused (`process.dumpable = yes`, and `10s` for `pm.process_idle_timeout`, whose
setter wants a number); both are visible in `PoolOptions` and in the
values of `MCConfLoad`. `SystemsAssumption` says what a main file and a directory are made
of: sections with a name and a table of texts, or a file iniparser cannot read.

### EventLoop

`interest`, `ready` and `readable` are the kernel's part: what is watched, the ready list
of an epoll descriptor, and what has data. `current` is what the kernel has reported in this round (the
events in `event_buf`, or the bits of `current_fds`), `batch` the part of `event_buf`, or of the
caller's queue, that the loop in `wait` still has to go through. Nothing in `src/` adds
an event or waits, `pmf_run` being empty, so `AddEvent`, `RemoveEvent`, `Clean` and `Wait` are calls of
an environment, and the first three may come in a callback as well as between two rounds (`Turn`).

epoll calls what its buffer holds even when it has been removed in the meantime. select walks the
caller's queue as it is at each step, with the bits it copied before: an event that a callback removes is
not come to, and one that is added behind the walk is, so that an event which is called,
removed and added again can be called twice in a round. What is assumed of the environment is that it
links an event it adds (at either end), unlinks one it removes, and leaves the entry the walk stands on valid
until the walk has gone on. `Clean` from a callback takes the buffer away from the loop that
reads it, and the process crashes unless that was the last entry; otherwise it ends a behaviour,
and a `wait` after it, which would clear a buffer that is gone, is not followed.

### Startup

`Stages` is the order of the calls in `pmf_init`, with `pmf_unix_init_main` split into
the fork and what the child goes on with, and `pmf_conf_write_pid` into its three
calls. `state`, `at` and `parent_pid` are per process. Any stage may fail except those
that always return 0; `pmf_sockets_init_main` and `pmf_scoreboard_init_main` end
without a return statement, so what the caller reads may be negative after
success, and `Fail` covers that too. `Ack` is external: nothing in `src/` writes to
`send_config_pipe`, and `Acks` says which values the program around `pmf_init`
sends. `Die` and `Kill` are signals without and with a handler installed.

The sockets do not keep a second process out for certain. A pool may have several `places` to
listen in: the addresses `getaddrinfo` finds for a name, of which the next is tried when `bind`
fails, or the file that replaces the old one at a unix path when the connect test is interrupted or has no
descriptor. `listening` says which process listens in which, and `places` is the number of
places of the pool that has fewest. So an acknowledged calling process can come past the
sockets beside a live master. Other starts of the program, which could do the same, are not in this
module (`UnixListen` has them). `pid_path` says whether `pid_file` is set, without which
`pmf_conf_write_pid` does nothing.

## 3. The runs

| Run | Instance | Shows |
|---|---|---|
| `scoreboard_update` | master and two workers, one call each out of five SET and INC calls, counters mod 4 | exclusion, maxima, clamp, freezing after a kill, atomicity, release of the lock (159,844 states) |
| `scoreboard_backlog` | the call of `pmf_sockets_init_main`, then a worker's | the comment on `lq_max` does not hold |
| `unixlisten` | three instances, in turn with faults that do not concern the path, or in parallel with any fault | in turn the address is served by one, and refused only by a server; in both, failing starts clean up and a start ends or waits at a full queue (2,603 states) |
| `unixlisten_toctou` | two instances in parallel | two instances serve the path |
| `sockets_pools` | up to four pools over four listen settings, three of whose addresses overlap, any addresses broken | pools that come through are served; a start fails only over a pool that can have none of its addresses; counts; termination (33,493 states) |
| `sockets_crash` | three pools | a null key is compared |
| `ini_file` | every file of up to three lines out of fourteen kinds and some of five, two hashes, arrays of two slots that grow, with and without memory, two calls afterwards | the dictionary is a map; what is loaded is what is written; sections in order (1,057,170 states) |
| `conf_load` | 3,470 main files and directories: every kind of value good and bad, misplaced sections, up to three directory entries in any order, pools with numbers from -20 to 21, epoll and select | pools are the files, settings are [global] or the defaults, accepted pools are sound, scoreboards fit, the start ends (53,285 states) |
| `conf_main_pool` | a pool in the main file and one in the directory | the pool of the main file does not exist |
| `event_loop` | three events, one edge-triggered, one beyond FD_SETSIZE; five lists of pools | rounds are `Dispatcher`'s; no event starves (12,536 states) |
| `startup` | foreground and daemonized, with a pid file and without, one place to listen in and two, either result reported or none | pid file, signals, the wait ends (5,638 states) |
| `startup_ackfail` | the same | an acknowledged caller fails |

Bounds. Two workers and the master are enough for a lost update and for a third
process that observes it; `MaxCalls` bounds the calls of a process. The calls contain each argument's negative,
zero and positive case. `UModulus` = 4 makes the unsigned counters wrap. Three instances
allow one that serves, one that tests and one that unlinks at the same time.
Four pools allow the sharing of a socket before and after the zero entry. Numbers around
`max_children` = 4 put every comparison of the check on both sides of its
boundary. `MinSize` = 2 makes the arrays of the
dictionary grow with the third key, and `MaxEntries` = 5 bounds the entries past the second
growth; `MaxCalls` = 2 allows an unset followed by a set that uses the hole. Three
directory entries bring two files with sections and one without in every order.
`IntModulus` = 32 makes the sum over two pools wrap to a negative and to a positive
number; three events are more than the buffer of a program without pools holds. The
sizes of `ShmLayout` are small numbers here and any numbers in its proof.
`Capacity` = 2 fills the socketpair; `MaxPlaces` = 2 lets the calling process find a place beside the master's.
The overlapping addresses of `sockets_pools` are those of one port: "::", "0.0.0.0" and "127.0.0.1".
`MCTimeWords` are the words among the texts that end in "s" or "d". `MaxFd` leaves at least two descriptors beyond the
standard ones (`SizesAssumption`); the array stops the process before a third is opened. The
proofs hold for every value of these constants, and so without the bounds.

Fairness. In `Scoreboard` each process has weak fairness on its steps inside the
call: the kernel schedules every live process. There is no strong fairness on the
compare-and-set, since `sched_yield` promises a spinning process nothing. In
`UnixListen` an instance that has begun to start runs on while its connect test does not wait
(`WF(~Waits /\ Step)`): a `connect` at a full accept queue need never return, and nobody is
obliged to start an instance, to end one or to fill a queue. `StartsEnd` says accordingly that a start ends
or comes to wait there. `SocketsInit` is one process, whose connect test is taken to return;
`ScoreboardInit` is one process whose calls return. In `EventLoop` the
caller waits again after each round (`WF(Wait)`: the loop `pmf_run` is to be), callbacks return,
and the loop over a batch goes on; nothing is assumed of when data arrives, and a `wait`
that returns nothing changes nothing. `Served` has two premises: that the sum over the pools fits
an int, and that rounds end, which callbacks that add their events behind the walk of select again and
again could prevent. In `Startup` running processes run on, `select` returns when there is data or
after its ten seconds, and no signal is obliged to come.

Deadlock is not checked where the system really stops: when all calls of the
bounded scoreboard are made or its lock is orphaned, and when an initialisation
has returned.

### What does not hold

1. `lq_max` is not "always geater or equal lq_len" (`pmf_scoreboard.h:37`): the
   backlog is stored into `lq_len` only.
2. Two instances started together can both serve one unix path, though
   `pmf_sockets.c:170` means to refuse that: the first one's file is unlinked
   between its `listen` and the second one's `bind`.
3. A third pool makes the process compare with a null key, because
   `pmf_array_push` never gets the slot of a second entry.
4. An acknowledged calling process does not exit (`pmf_unix.c:203`) but goes on with `pmf_init`.
   It may fail at any stage from the scoreboards on, at the sockets for one when the master holds the
   addresses; with a place left to listen in it becomes a second master, unlinks the pid
   file and writes a 0 into it. `PidFileNamesMaster` makes this its one exception.
5. A pool section of the main file is no pool (`pmf.conf.default:99` says it is): its
   options are looked up under the wrong keys.

Three more disagreements are visible in the models without a run of their own. The defaults of the code are no
pid file, `alert` and no daemon (`pmf_conf.c:54`), where `pmf.conf.default:12`, `23` and `62`
document `/var/run/pmf.pid`, `notice` and `yes`: `SettingsInForce` compares with
`DocumentedDefault` and names these three as the exceptions. `dictionary_set` returns 0 when a copy
fails (`dictionary.c:252`). And a start can wait for ever in the connect test (`pmf_sockets.c:143`).

`SocketsInit` and `ConfLoad` treat these as states of the program (`crashed`, `overrun`,
a zero entry), and their passing runs say what is true all the same.

## 4. The proofs

Every invariant, action property and refinement that a passing run checks is also a theorem
of its specification, for all values of the constants that meet the named assumptions.
Each proof has one lemma, or one named step, per action.

**Scoreboard.** Any set of processes, any calls, any counter width and any bound on
calls. `MutualExclusion` is inductive with the type
invariant; the maxima are not, because inside an update the counter is stored
before its maximum. The strengthening `IInv` adds what is known at each position:
outside an update the board is *settled* (maxima cover the counters and signed
counters are non-negative) and equal to `committed`; inside one, the counters at
positions already passed have the values the call gives them and the others
those of `committed`, and a process about to store has loaded what is in memory.
From the latter follow the maxima, their monotony, and the refinement: at the
release, the board is `Result(call, committed)`.

**UnixListen.** Types and two facts of each process whatever the others do (umask and
descriptors), and, under `Undisturbed` (serial starts, a connect test that is not
blinded), that the file a serving instance bound stays there, that a refusal
has a server as its reason and that `ListenAddress` is implemented; a connect test that waits changes
none of this. Without `Undisturbed`
these are false, as `unixlisten_toctou` shows.

**SocketsInit.** Any list of pools, any broken addresses and any symmetric overlaps. None of the three
properties is inductive alone. `ListShape` says what the defect of the array leaves: one
entry, the first, is kept and those behind it are zero. `Descriptors` says that the open ones are those
the pools and that entry hold and that no two of them overlap, and `Tried` that the candidates already passed
over are broken or overlap an earlier pool's (`Unusable`).
Together they give the served pools, the justified refusals and, by counting the pools of a
descriptor, the reference counts.

**IniFile.** Any files, hashes, sizes and failing allocations. `IsDict` is the invariant of the
arrays: the used slots are at most `n`, which is at most the size; keys are unique and each
has its hash. That the search for a free slot ends (`WellFormed`) follows by counting. Each dictionary
function is then one operation on the map it stands for (`SetIs`, `UnsetIs`, `GrownIs` and
their like), whence the refinement of `FiniteMap`. For what is loaded, `LoadInv` says that while
a file is read there is a line `s` where the text being read begins such that the dictionary
holds `Written(s)`, the reference reading of the lines before `s`, the current section is
the last one named before `s`, and the slots are filled in the order in which their keys
first came up. When the file has been read `s` is behind all of it, which is
`LoadedAsWritten`. `SectionsInOrder` then needs that the sections' slots have the numbers
0, 1, ... without a gap, which is shown by a least counterexample (`RanksAreAll`), since induction with an
operator as its parameter is not available.

**PoolConfig, ConfLoad, ScoreboardInit** (`BootProofs`). First, for any pools: the midpoint lies
between the spare counts, a completed pool passes the check unchanged, and what is accepted is
sound because `Refused` is the negation of it. Then, for any files in any order of `readdir`:
`FilesInv` says which sections have been read so far (`Done`) and that the pools made are
exactly those (`Listed`), `SettingsInv` that the record holds what `[global]` says, or a default, from the moment
it has been read, and the invariant of the check carries over to the pools that were read, so
the first theorems hold of them too. `BoardsInv` says that the scoreboards are those of
the first pools; `EverySlotFits` shows for any number of children and any sizes that slots lie in
the mapping, behind the pointers, and apart. That `pmf_shm_size` is the sum of the mappings is a
statement about a fold; `Summed` carries with the list that the function behind the fold
exists and what each such function is worth, so that adding one scoreboard is one step of
it (`OneMoreSize`).

**EventLoop.** Any finite set of events. The lists (`ready`, `batch`) have no repetitions, and
nothing is current outside a round, which with the phase is all that the refinement of
`Dispatcher` needs: a callback of either loop is for an event of `current` that is still in `batch`, and
only the addition of an event that was not registered puts it there a second time. What is left of a
list when events are removed is a list again (`KeptIsAList`), shown by counting positions.

**Startup.** `Shape` says which of the two processes there is and from which stage on,
`Numbered` that the process that is to serve knows its number when it is past the fork and has its
handler only past the signals, `Exclusive` that every process past the sockets listens in a place of its own and
that the number of one that is ready stays in the pid file until a calling process is past
`unlink`, which needs a second place. These three, with the numbers of `Stages`, are what
`PidFileNamesMaster` and `SignalsReachMaster` rest on.

**LogLine.** `vplog` never passes a wrapped size to `snprintf` and never writes past its buffer.

Only model-checked are the liveness properties (`ReleasedOrOrphaned`, `StartsEnd`,
`Terminates`, `CallerReturns`, `BootEnds`, `Served`): fairness and ENABLED are out of the prover's reach.
What the code violates (section 3) is shown by counterexamples.

## 5. Not modelled

The text of the log and of the dump of the configuration; the dump functions and typed getters of
iniparser, which the program does not call, and its string functions (lower case, strip),
which `IniFile` takes as done; the 128-byte limits on keys and paths; `$pool` in strings;
user and group look-ups, resource limits and priorities, which read system databases;
`pmf_shm_free`, `pmf_conf_unlink_pid` and `plog_set_fd`'s reopening, which nothing calls;
the descriptors of `pmf_stdio.c`, a fixed sequence of calls; the clock. Worker processes
and the event loop that uses the event modules are not in the program.

## 6. Plan

Done, in order of weight: the scoreboard update, the unix listen socket, the list of
sockets, the pool check, the start; then the dictionary and the ini files, the loading of the
configuration up to the scoreboards, and the event modules; then the proofs of every safety
property of the passing runs. To come:

1. The safety half of the liveness properties: that from every reachable state that is not final
   some action is possible, and a measure that each step of the start decreases. Both are
   statements without fairness.
2. What remains true of `UnixListen` when starts are not serial: how many instances can come
   to serve one path, and which of them the path leads to.
3. Once the program forks workers and runs its event loop: their modules, and `Dispatcher` and
   `AtomicScoreboard` as what they may rely on.
