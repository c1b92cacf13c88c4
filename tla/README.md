# Verification of DistCode

DistCode packages three programs for distributed C compilation: **distcc** (client,
daemon, monitors, include server), **dmucs** (a server that tells distcc clients
which host to use) and a macOS application that starts and watches them.  This
directory holds TLA+ models of their control logic, the TLC configurations that
check the models on small instances, and theorems that TLAPS checks for every
value of the constants.

`PROJECT.json` lists the components, runs, mutants, hazards and theorems, and maps
every definition to the source lines it stands for.

    tlc -workers 2 -config dmucs_server.cfg MCDmucsServer     # a run
    tlapm DmucsServerProofs.tla                               # the proofs

Contents: 1 the system; 2 the modules and what they leave out; 3 the runs, bounds and
fairness; 4 the proofs; 5 plan; 6 not modelled; 7 remarks on the code.

## 1. The system and its parts

### dmucs (`src/dmucs/dmucs`)

| Part | State | Operations | Modelled in |
|---|---|---|---|
| Database (`dmucs_db.cc`, `dmucs_host.cc`, `dmucs_host_state.cc`) | all hosts; one set of hosts per state; per tier a list of CPUs; the CPU each client holds; statistics | move a host between the states available, unavailable, silent, overloaded; move CPUs between tiers; take, assign and release a CPU | `DmucsDb` (operators) |
| Handlers and threads (`main.cc`, `dmucs_msg.cc`) | the database, the hosts-info file | one handler per message (host request, load average, status, add), the closing of a client's socket, the search for silent hosts, the statistics | `DmucsServer` (atomic handlers), `DmucsThreads` (step by step) |
| Main loop and programs (`main.cc`, `dmucs_sockets.cc`, `gethost.cc`, `loadavg.cc`, `remhost.cc`, `monitor.cc`) | watched sockets, the queue of connections | select, accept and read, serve; `gethost` keeps its socket open while its command runs | `DmucsClients` |
| Texts (`dmucs_hosts_file.cc`, `dmucs_msg.cc`, `serialize` in `dmucs_db.cc`, the tools' command lines, `monitor.cc`) | the hosts-info file, the monitor's buffer | make a message of a command line; read and append to the file; write the page of all hosts, cut it, read it | `DmucsTools` |

A recursive mutex protects each method of `DmucsDb`, but not a handler as a
whole, not what a handler writes into a host between two such calls, and not
`releaseCpu`.  Hard here: the order of messages, load averages that race with
the search, hosts that go away and come back while clients hold their CPUs.
Right means: CPUs are listed where their host is, none is lost or given out
twice, a host that is silent or was taken down gives none.

### distcc client (`src/distcc/src`)

| Part | State | Operations | Modelled in |
|---|---|---|---|
| Which program runs (`distcc.c`, `climasq.c`, `safeguard.c`, `implicit.c`) | PATH, a level in the environment | trim PATH, find the compiler, stop a recursion | `Masquerade` |
| Hosts (`hosts.c`, `hostfile.c`) | none | read a list | `DistccHosts` |
| Command (`arg.c`, `strip.c`, `cpp.c`, `dotd.c`, `filename.c`) | none | scan, rewrite, expand | `DistccArgs` |
| Build (`compile.c`, `where.c`, `lock.c`, `backoff.c`) | two lock descriptors, lock and mark files | pick a host, preprocess, compile remotely, fall back | `DistccClient`, abstractly `DistccSlots` |
| Connection (`clinet.c`, `ssh.c`, `auth_distcc.c`) | the connection | connect, authenticate | `DistccSession` |
| Request (`remote.c`, `clirpc.c`, `rpc.c`, `bulk.c`, `pump.c`) | position in the stream | tokens in a fixed order | `DistccRpc`, abstractly `DistccRemote` |
| State file and monitors (`state.c`, `mon.c`) | a file per process | note a phase; poll | `DistccState` |
| Finding servers (`lsdistcc.c`, `zeroconf.c`) | a poll loop; a daemon and a file | look up and probe; browse and list | `Lsdistcc`, `Zeroconf` |

The clients of one user talk to each other through files only: locks, backoff marks,
the discrepancy count, the Zeroconf host file.  Hard here: two locks held while
polling, a dozen ways into `fallback:`, marks and files that go stale, six scanners
with tables of their own.  Right means: the locks match the work, success means an
object of the command as typed, every build ends.

### distccd (`src/distcc/src`)

| Part | State | Operations | Modelled in |
|---|---|---|---|
| Start (`dopt.c`, `daemon.c`, `setuid.c`, `srvnet.c`, `dparent.c`) | options, descriptors, the user, an alarm, the pid file | read the command line, give root away, open the log, listen, fork the daemon, leave the terminal | `DistccdStart` |
| Processes (`dparent.c`, `prefork.c`, `exec.c`, `dsignal.c`, `cleanup.c`) | the count of children, their ages, temporary files | fork, serve up to a number of jobs, collect, signal | `DistccdPool` |
| Access (`srvnet.c`, `access.c`, `auth_distccd.c`) | allow lists | check address and principal | `DistccSession` |
| Request (`serve.c`, `srvrpc.c`) | position in the stream, the job's directory | receive, compile, send | `DistccRpc` |
| Rewriting (`serve.c`, `fix_debug_info.c`, `xci_utils.c`, `xci_headermap.c`, `stringmap.c`) | none | command, object, header maps, allowed compilers | `DistccArgs`, `DebugInfo`, `XcodePaths`, `Masquerade` |
| Description of the host (`xci_versinfo.c`, `ncpus.c`) | what a process has found out so far; one file in `/tmp` | ask for the system, compilers, processors, SDKs; answer | `XcodeInfo` |
| Statistics (`stats.c`) | counters, a ring of times | count, average, report | `DistccStats` |
| Announcement (`zeroconf-reg.c`) | the Avahi client and group | publish, rename, start again | `ZeroconfReg` |

Hard here: alarms, compilers and disconnecting clients that race; a death counted
twice or not at all; a connection that breaks anywhere.

### include server (`src/distcc/include_server`)

Caches that live from command to command: the analysis (`IncludeAnalyzer`), the
mirror of files and links a server will see (`PumpMirror`), header maps
(`XcodePaths`).  Hard here: what one command leaves in the caches and the next one
trusts.  Right means: the server finds what the client's own compiler would find.

### the application (`src/DistCode`)

Starts and stops `distccd`, the dmucs server and `loadavg`, registers the machine, asks
the coordinator each second (`DistCodeApp`).  Hard here: `waitUntilExit` runs the run loop, so that the
timer fires in the middle of a save; preferences that change between start and stop.

## 2. The modules

`X -> Y` below means that X uses Y (EXTENDS or INSTANCE).

* `DmucsDb`: the database as one record and each operation as an operator from record to
  record, shared by the modules that follow.
* `DmucsServer -> DmucsDb`: a handler is one action.  A silent search is one step per
  host, with the handlers blocked as the mutex blocks them; only a client's close may
  come in between, since `releaseCpu` takes no mutex.
* `DmucsThreads -> DmucsDb`: the main thread and the search, one step per call of a method
  of `DmucsDb` and one per access to a host outside the mutex.
* `DmucsThreadsSerial -> DmucsThreads, DmucsServer`: remembers the database as it was at the last
  boundary of a handler; until a search and a handler overlap, that database behaves as
  `DmucsServer` says (`ImplementsServer`).
* `DmucsTools -> DmucsServer`: in each state of the server, the texts that go into it and come out of
  it, written by one side and read by the other.
* `DmucsClients -> DmucsServer`: when the handlers run and on whose behalf: the select loop,
  its blocking read, the programs at the other end.
* `DistccClient -> DistccSlots`: the clients of one user as a parallel make runs them; a step is
  one system call on a shared file, or one answer of a compiler, the include server or
  the compilation server.  `DistccSlots` says what the locks are for (`SlotsRespected`).
* `DistccSession -> DistccRpc -> DistccRemote`: connection, access and authentication, then the
  request, over two channels of tokens.  `DistccRemote` is what a client may rely on
  (`ImplementsRemote`).
* `DistccdPool`: master, children, compilers, temporary files, signals.
* `DistccdStart`: from the command line to the process that serves, and the launcher beside it.
* `DistccState`: state files and one monitor.
* `IncludeAnalyzer`: the recursion of `FindNode` over its caches as an explicit stack.
* `Lsdistcc`: one pass of the poll loop is four steps, with DNS slaves and servers in between.
* `Zeroconf -> ZeroconfReg`: clients, the daemons they fork, servers that announce themselves.
* `XcodeInfo -> XcodePaths`: the processes that are asked to describe a host, one step per program called.
* `DistccInputs -> DistccArgs, DistccHosts, DistccStats, PumpMirror, Masquerade, DebugInfo, XcodePaths, XcodeInfo,
  DistccdStart`: what is computed from an input, each on inputs of its own, in one run.
* `DistCodeApp`: the application, its helpers and the coordinators.
* `MC...`: values for TLC.
* The theorems: `DmucsDbProofs -> DmucsDb` (what each operation does to each field),
  `DmucsServerProofs -> DmucsClients, DmucsDbProofs`, `DmucsThreadsProofs -> DmucsThreadsSerial,
  DmucsDbProofs`,
  `DistccClientProofs -> DistccClient, IncludeAnalyzer`, `DistccRpcProofs -> DistccSession`,
  `DistccdPoolProofs -> DistccdPool, DistccdStart`, `DistccStateProofs -> DistccState, Masquerade`,
  `DiscoveryProofs -> Zeroconf, Lsdistcc`.

Operators named in a comment as "Mutant" are faulty versions of the definition that
follows them.  Nothing uses them except the mutation tests in `PROJECT.json`, which
show that every property notices a plausible bug.

### What the models leave out

**dmucs.**  A load average is kept as the outcome of its comparisons with the limits.  A list of
CPUs is a count per host and tier.  The 60 s of `lastUpdate_` are a flag that `Expire`
clears.  The hosts-info file only gains lines.  `createHost` shadows its result and returns
NULL, so the first load of a new host is not stored; the model does the same.  Two
threads inside the same STL container at once is undefined behaviour; the threads model
interleaves whole container operations only.  `MaxListed` stops searches from starting once
a list holds more CPUs of a host: transitions that overlap list a host twice, without end.
In `DmucsTools` a text is a sequence of words or lines and an address a number; a line of the file is
well formed, a comment, or one of the kinds of malformed line.  In `DmucsClients` a message is one
write and one read, a `gethost` process runs once, a tool comes again when its message has been handled, and the statistics thread is left out.

**DistccClient.**  A lock file is free if no living process holds it.  The backoff mark is a flag
that may expire at any time.  A signal may end a process before any step; the compiler it
started ends with it.  The host list has no `,down` host.  `MaxBuilds` bounds the builds per
place.

**DistccRpc, DistccSession.**  A token that is not the expected one is never mistaken for it.  At most
`MaxFaults` failures happen, none is forced.  `LogsErrors` says that a log for the discrepancy e-mail is kept, whose
copy of the server's errors may fail; what else is written into it changes nothing.  Addresses are scaled: bytes of two bits, two of
them for IPv4, four for IPv6.  The GSS-API mechanism needs two or three tokens.  Running out
of memory is left out.

**DistccdPool.**  A job is a walk down a script; the log and `.d` files share the life of the
object; the files of the last job only are followed; a compiler that nobody waits for any
more leaves the model.

**DistccdStart.**  An option is a name and a number.  A process is started with at most four
descriptors open, out of the first four.  The directory, the credentials and `fork` may fail for no reason given.  Messages in the log and the priority of the process are left out.

**DistccState.**  A file is empty or whole (one short write).  Pids are used again.

**IncludeAnalyzer.**  One directory per configuration, object-like macros, include guards ignored as
the code ignores them.

**Lsdistcc, Zeroconf.**  The alarm of lsdistcc is left out, the slaves' answers are folded into the poll
and the passing of time into `Expire`.  Avahi is external; reading the entry of a freed host
is a nondeterministic death of the daemon.

**DistccArgs.**  A command is at most four phrases out of a menu; what it means to gcc's driver is
the reference, and external.  **DistccHosts.**  A text is a sequence of pieces.  **DistccStats.**  Real
numbers (300 slots of 3 s), few events.  The times at which averages were taken are recorded beside the server's state.

**PumpMirror.**  A send and an analysis are atomic.  The suffixes of compressed files and the line
markers are left out, the three components of a root are one name, two transparent
caches (`simple_build_stat`, `canonical_path`) are not there.  What is followed is
`IncludeAnalyzer`'s business.

**DebugInfo, XcodePaths.**  The order of bytes of a Mach-O file makes no difference.  Strings of a header map
do not overlap; its count and longest value are left out, as gcc does not use them.

**XcodeInfo.**  A machine is what its programs, system calls and directories answer, each of which
may fail.  Speeds are multiples of 250 MHz, memories of a gigabyte.

**Masquerade.**  One compiler name; both machines have the same directories.

**DistCodeApp.**  Answers are atomic; helpers that die by themselves, a crash of the application and
two dmucs types for one host are left out.

## 3. The runs

| Run | Instance; distinct states | Checks |
|---|---|---|
| `dmucs_server` | two hosts of two tiers, two clients, every message in every order; 310,666 | `CpusPlaced` (listed only under the present tier of an available host), `CpusAccounted` (none lost, at most one extra per client), `CpusConserved`, `AdminDownSticks`, `SilentHostLeaves`, `TextsTrue` (in each state: every command line, hosts-info file and page means what was written) |
| `dmucs_threads` | one host, one client, the search starting at any step of a handler; 642,867 | `NoCpuLost`, `ImplementsServer` (the atomic handlers of `DmucsServer`), `HandlerEnds` |
| `dmucs_clients` | two `gethost`, a tool, one CPU, programs and server killed at any point; 174,181 | `CpuWhileRunning` (a command has its CPU), `CpusComeBack` |
| `distcc_client` | two clients, two servers and localhost with one slot each, every failure and a signal at any step, a log of errors; 87,290 | `LocksMatchWork`, `SuccessHasObject`, `SlotsRespected` (refines `DistccSlots`), `BuildsEnd` |
| `distcc_rpc` | one client and one server, three protocols, two files, three failures, a log of errors, both address families; 360,630 | `SessionsAgree` and `LetInFirst` (who is let in, and when), `JobScriptsAgree`, `ImplementsRemote` (refines `DistccRemote`), `BothEnd` |
| `distccd_pool` | a master, two children, plain and pump jobs, an alarm, a signal, a failing fork; 293,948 | `NkidsExact`, `OneCompiler`, `FilesRemoved`, `EverySlotServes` |
| `distcc_monitor` | two pids used again and again, one monitor; 388,476 | `SteadyListed` (a poll loses no client that keeps still) |
| `include_server` | three commands out of five over eight programs, two edits, a timeout, an absolute path for a computed include; 770,574 | `StaticClosed`, `ComputedCovered` (answers are complete), `TriggersSeen` (a change is noticed) |
| `lsdistcc` | three hosts, descriptors for two, names asked twice; 3,302,442 | `Vouched` (listed servers have answered), `NeverIdle` (the search never waits for nothing) |
| `zeroconf` | two clients and their daemons, one server on two interfaces, an Avahi restart, a loss; 324,486 | `Registered`, `ServersFound` |
| `distcc_args` | commands of up to four phrases, host lists, descriptions of a host, events, pump commands, objects, Xcode's texts and maps, calls along PATH, command lines of distccd; 695,856 | `SameCompile`, `ServersDescribed`, `NamesTranslated`, `CompilerRuns`: what one end writes means the same at the other; `CallsBounded` (distcc does not call itself for ever); `StartedAsTold` (distccd serves as its command line says) |
| `distcode_app` | one machine, its own coordinator and another, four events; 660,332 | `MonitorConverges` (rows and Xcode's limit follow the coordinator), `OfferedServes` (no dead distccd stays on offer) |

### Properties and their exceptions

Some properties hold only outside named cases, in which the code does something else than
its purpose asks for.  Most cases are operators of the module, and each was shown to be
needed by a run without it, and section 7 describes them.

| Property | Exception |
|---|---|
| `ComputedCovered` | `Tame`: macros from the command line only, no cycle, one way to include a file, no `#include_next`.  The manual (`man/include_server.1:244`) promises an overapproximation in general. |
| `StaticClosed`, `ComputedCovered` | files whose analysis was broken off: by the parser, or by an absolute path for a computed include (`damaged`) |
| `SuccessHasObject`, `ImplementsRemote` | with `LogsErrors`, the log of the discrepancy e-mail: if it cannot be written, success comes without the object ("unread") |
| `EverySlotServes` | `PoolAssumption` has `JobLifetime > 0`; distccd's default is 0, no alarm at all, and then a compiler or a client that hangs keeps its slot |
| `SameCompile` | `Misread`, `LanguageOverName`, `DepsElsewhere` |
| `ServersDescribed` | `Bracketed` lists; `RingStale` reports, and compiles counted in whole slots, 57, 297 and 894 seconds, for one, five and fifteen minutes; an SDK whose files do not say enough, cannot be converted, or were overwritten by the other process |
| `NamesTranslated`: files | overlapping default directories, `LooksSystem`, `LeavesSystem`, `LinkedMap`, an answer that outlives the include server |
| `NamesTranslated`: objects | `Unread` parts of an object, a second section of a name, a name at the very end |
| `NamesTranslated`: Xcode | a misleading text; a map of the other order of bytes; keys equal but for case whose buckets wrap; files below the developer directory |
| `CompilerRuns` | more links than the safeguard allows, `Behind`, `Misnamed`, `Scripts`; a list that cannot be read, or names a link; a listed compiler that is not there: the server runs the first of its name on its PATH instead, listed or not (`exec.c:262-264`) |
| `StartedAsTold` | listening and the log: `StandardOpen`, the standard descriptors are open at the start |
| `Vouched` | holds with `Compile`: with a connection only, a reused descriptor vouches for another host |
| `TextsTrue` | hosts of one name; a page that was cut may spoil one host; a file that does not end with its line |
| `ServersFound` | holds if no link of a server goes down, no resolver fails and no daemon is killed (`faults = 0` throughout) |
| `CpusComeBack` | holds if refused clients stop asking in the end |

### Why the bounds are enough

* dmucs: two hosts of different power give every tier, 0 included; two clients can compete
  for a CPU.  Every operation of the database concerns one host, so that two show every
  interference, and the proofs remove the bounds for all safety properties of `DmucsServer`.
  The races of the threads are between two threads on one host.
* `distcc_client`: two clients with one slot per host already meet in every wait.
  `SlotsScanned` 2 with one slot makes the scan pass over a slot that does not exist.  Proofs
  remove these bounds too.
* `distcc_rpc`: three failures allow one on each side and one of the connection.  Both kinds of file,
  and all three protocols.
* `distccd_pool`: two children and one job per child reach a full pool, a worn-out child and a job
  that outlives its alarm.
* `include_server`: staleness needs two commands and one edit between them, a third one shows what the
  repair of the caches leaves, and a second edit one that meets it.  One command defines a macro as an
  absolute path.  The eight programs have a cycle, a
  computed include of each kind, an `#include_next` and a file that does not parse.
* `distcc_monitor`: one client that keeps still and one that does everything else.
* `lsdistcc`: a group that fills the descriptors and a next one; `zeroconf`: one server on two
  interfaces is a duplicate; two clients probe each other's lock.
* `distcc_args`: four events of the statistics server, at its start or after twelve long jobs, so that the
  averages of five and fifteen minutes differ; no rule of the scanners looks at more than three phrases; every two of 19 commands of
  pump mode; up to four directories of PATH.
  Command lines of distccd have up to three options, every pair of them; two processes describe a host at
  once, since one spoils what the other reads.
* `distcode_app`: two coordinators, since preferences move between the machine's own and
  another; four events outside the code's control.

### Fairness

* `dmucs_server`: weak fairness of the search thread only: it sleeps a minute and walks the hosts
  for ever.  The handlers need not run.
* `dmucs_threads`: strong fairness of the main thread, which waits for a mutex that is free again
  and again, and weak fairness of the search.
* `dmucs_clients`: strong fairness of the main loop for the same reason, weak fairness of the search,
  and of a program that has connected: it sends or closes.  A command need not end.
* `distcc_client`: weak fairness of each client: compilers end and reads have timeouts
  (`dcc_get_io_timeout`).  Slots are polled without a queue, so `BuildsEnd` holds because the instance
  starts a bounded number of builds: it shows that no set of clients waits for each other
  for ever and that the scan misses no slot.
* `distcc_rpc`: weak fairness of the two ends.  No failure has to happen, so nothing ends because
  one comes.
* `distccd_pool`: the master's steps, a child's own steps and the passing of time.  No client and no
  compiler is assumed to act.
* `zeroconf`: clients, daemons and browsers, and that a server whose Avahi runs gets its callbacks.
* `distcode_app`: pending calls, the monitor's timer, the start of dmucs, load reports and the silent
  search.  The user and other machines owe nothing.

Deadlock is off where the system may stop: all builds or requests done, the master or the
application ended, the search for servers over.

## 4. The proofs

Each theorem holds for every value of the constants that meets the named assumptions of
the modules, which say what the code takes for granted: a host has at least one CPU or
slot, constants have their types, sets the code keeps in arrays are finite.  The bounds
of the runs are either constants a theorem quantifies over, or, like `MaxFaults` and
`MaxSignals`, guards that no proof makes use of.

### DmucsDbProofs and DmucsServerProofs: the database and its handlers

The invariant `DbInv` on the database joins the properties that need each other: types,
`SetsMatch`, `Placed`, `TierExists`, `GrantsKnownIn`, and `NewHosts` (an unknown host is in the
initial state, so adding it puts it into the right set).  `Placed` alone is not
inductive: a deletion removes the CPUs of the present tier only, and is complete
only if no other tier has any, and only if the tier is a key of the map
(`TierExists`).  Each operator of `DmucsDb` has a lemma in `DmucsDbProofs` saying what it does to
each field; each transition then preserves `DbInv`.  A relation `Conserves` carries the sum of
listed and assigned CPUs through every operation; from it follow `CpusAccounted` and the
action property `CpusConserved`.  `AdminDownSticks` follows from what each operation leaves of an
unavailable host.

Theorems: `Invariance`, `TypeCorrect`, `SetsCorrect`, `CpusAlwaysPlaced`, `AvailTierAlwaysExists`,
`GrantsAlwaysKnown`, `CpusAlwaysAccounted`, `CpusAlwaysConserved`, `DownSticks`: all safety properties of
the run `dmucs_server`, and `SetsCorrect`, `AvailTierAlwaysExists` and `GrantsAlwaysKnown`, which no
run repeats.

### DmucsServerProofs: the main loop and its programs

`ClientsInv` says of each `gethost` process what its socket holds: a CPU that has been answered,
or that the process has taken from the answer, is assigned to it in the database as long as its socket is
open, or the socket is lost (`Has`).  This needs to know that a client waits in the
backlog at most once, that what is watched has been accepted, and that a socket closes
only with its process.  Every step of `ClientsSpec` is then a step of `DmucsServer` or leaves its
variables alone, so the theorems on the server carry over.

Theorems: `ServerAmongClients` (`ClientsSpec => Spec`), `ClientsInvariance`, `CpuHeldWhileRunning`.

### DmucsThreadsProofs: the races of the two threads

`NoCpuLost` speaks only of moments at which both threads are between handlers, so it is
far from inductive.  `ThreadsInv` says what holds in between: an available host
is `Complete` (the CPUs under the tier it is about to have, those held, and the one the main
thread has in hand) or `Excused` by one of three things under way: either thread takes
the host out of "Avail", or the main thread is about to list it.  `MeetAt` states how the two
threads can be in transitions of the same host at once; it is what rules out that a
search removes CPUs which a handler has just listed for good.

The same module proves that `DmucsThreadsSerial` implements `DmucsServer`, which is what
entitles the other models of dmucs to take a handler as one action.  `Result(d, f)` is the
database that a thread at frame `f` will leave if nobody comes in between.  `SerialInv` says
that until a search and a handler overlap at most one thread is busy, and that what it will
leave is what one action of `DmucsServer` makes of the database at the last boundary.  Every
step within a handler keeps `Result`, so it is a stutter there; the step that ends the
handler is the action.  Once they overlap, nothing is claimed, and `NoCpuLost` is what
remains true.

Theorems: `ThreadsInvariance`, `CpusNeverLostByRaces`, `HandlersAreAtomic`
(`SerialSpec => ImplementsServer`).

### DistccClientProofs: builds, locks and slots

`ProcessInv` says, for each phase of a build, where the scan is, whether there is a
host, which locks are open and whether success already has its object file, or has left it unread, which it may
only with `LogsErrors`.
`LocksMatchWork` alone is not inductive: it does not say, for instance, that a process
at `dropLocal` has no server lock any more, or that a process at `enjoy` has no
local one, and both go on to phases it does speak of.  `Exclusive` says that no lock file has two
holders.  One lemma per action shows that the process keeps `ProcessInv` and takes
only a lock that is free (`Continues`); the invariant then follows for all processes
at once.

For the refinement, `HoldersBounded` is a pigeonhole argument: processes that each
hold one of the `n` files of a host are at most `n`, because the number of the file
is an injection.  Applied to the state after a step it leaves room for the process
that has just taken a slot, so each step is one of `DistccSlots` or changes nothing
there.  It also covers the shared local slots: "local", "localhost" and "local_cpp" use
the same files, so that compilations and preprocessors add up to at most the largest
of their limits.  The clients need not be finitely many.

Theorems: `Invariance`, `TypeCorrect`, `LocksCorrect`, `SuccessCorrect`,
`SlotsAlwaysRespected` (`Spec => Slots!Spec`).

### DistccRpcProofs: the exchange and the session

`RpcInv` is what holds whatever fails: what is in the channel to the client comes in the
order of the answer, from where the client is up to where the server is (`ReplyInv`); each
element is what the server had to say, or short (`ContentInv`); what the client has
concluded it has read (`ClientInv`); what is on its way to the server belongs to a request
(`RequestInv`).  Each step of either end, of the connection or of a timeout is one of a few
relations on the variables an end shares with the other (`ClientSends`, `ClientReads`, `ServerWorks`,
`ServerReplies`), each of which keeps the invariant and maps to a step of `DistccRemote` or to
none.  The number of failures plays no part.  A log of errors that cannot be written (`LogFails`) is the step `Overlook`
there; with `LogsErrors = FALSE` the theorem is the promise without it.  `AgreeInv` adds what holds while nothing has
failed: both channels hold exactly the part of the script that lies between the two ends, so each
reads what the other meant.

In a session, `BeforeRequest` holds until the client sends its request: the exchange is in its
initial state, only tokens of the handshake are under way, and a "NOTE" that lets the client in is the
last thing the server sends before its answer (`NoteLast`).  While nothing fails, what the
client has said is what the server has heard and what is under way (`HandshakeInv`), so that nothing of a
handshake is left over when the request begins.  From then on the invariants of the
exchange hold, and every step is one of the exchange.

Theorems: `ExchangeInOrder`, `ExchangeIsRemote`, `ScriptsAlwaysAgree` on `DistccRpc`; `SessionInvariance`,
`JobScriptsAlwaysAgree`, `LetInAlwaysFirst`, `SessionIsRemote` on `DistccSession`.

### DistccClientProofs: the include server

`StaticClosed` says that an answer has every file which the unconditional includes of its files name.
`IncInv` follows the recursion: whatever a node of the cache owes (`Owed`) is a child of it, is known to be missing,
or is still to be done by a call on the stack (`Covered`, `Waits`); a file whose analysis was abandoned by an error, the parser's or that of an absolute computed include, is excepted (`damaged`), and a timeout empties the
caches.  When a search has returned, no call on the stack is left for what its root
reaches, so that this part of the graph is complete.  The answer is collected by a recursive function; its
closure is shown by counting: each round adds a node or none is missing (`Rounds`, `ReachedClosed`).
`TriggersSeen` is about versions (`TrigInv`): while the stamp of a trigger is its version on the disk, so is what
was read of it, and during a command what is read is what the command found on the disk, or newer.

Assumptions: `FilesAssumption`, `ProgramsAssumption` (finitely many files and macros; programs of their types).
Theorems: `StaticClosedAlways`, `TriggersSeenAlways` (`AnalyzerSpec => []...`).

### DistccdPoolProofs: the pool

The place of a child in its script determines which files it has registered for
removal, in order (`ListKnown`), which of its files can exist (`FilesKnown`: registered, or being
made at this moment), and whether its compiler may run (`KidInv`).  With it
`NkidsExact` is inductive: every way out of a child makes it a zombie once, and a zombie is waited for
once.  `FilesRemoved` follows, since the list is worked off at every end of a job.

Theorems: `PoolType`, `NkidsAlwaysExact`, `OneCompilerAlways`, `NothingLeftBehind`.

### DistccdPoolProofs: the start of distccd

`StartInv` follows the process through its start: the options it has read are well formed (`BootType`); no
descriptor is ever closed, and what the log opens is no socket (`TableInv`); inetd's server and the
one that stands alone part at the credentials (`ModeInv`); what listens, and the log, lie above the standard
descriptors which leaving the terminal overwrites (`ListenInv`, `LogInv`); root is given away and the alarm is
where the lifetime is (`ToldInv`); the launcher ends well only after the daemon's pid is in the file
(`LauncherInv`).  The initial state is any command line, any uid and any table of at most the first four
descriptors (`Startable`); the last is what keeps the model's numbers of descriptors finite.

Theorem: `StartedAlways` (`StartSpec => []StartedAsTold`).

### DistccStateProofs: the monitor

During a poll each steady client is `Accounted` for: its name is still to come, it is in hand and its
file is the one that is open, it is listed, or its file is gone or old.  What a file
contains follows from where its client is in a note (`FileKnown`), and the open file is the one in the
directory until its name is removed (`OpenKnown`).

Theorems: `StateType`, `SteadyAreListed`.

### DistccStateProofs: distcc calling itself

`CallInv`: whoever runs as distcc has counted itself in the environment, so that the count of runs is at most the level,
and the level at most two unless the recursion has been reported.  It holds for any PATH, any links,
scripts and directories on it, and any list of compilers of a server.

`CompilerInv` says where a process is on its way (`Right`): it was asked for by name (`AtExplicit`, `AtNamed`), a script is or
was found (`AtScript`), it is a link and the search goes on from behind `k`, with no compiler before `k` (`AtLink`), there is
no compiler to find (`DeadEnd`), or it has ended as the property says (`Ended`).  What makes it inductive is `Trims`: the
level counts the links before `k`, so that a level of two and one link more are three links, and `Recursion` is
reported for a reason.  `SearchRight` then shows that a search from `k` finds the first compiler of the whole PATH, a link
behind `k`, or nothing because there is nothing; `TrimAt` that `SupportMasquerade` moves `k` to the link that runs, or to a
directory before it, and never past a compiler.  The only assumption, `MasqueradeAssumption`, is that
the scripts name a compiler that exists, and that "not found" is not a directory.

Theorems: `CallsAlwaysBounded` (`MasqueradeSpec => []CallsBounded`), `CompilerAlwaysRuns` (`MasqueradeSpec =>
[]CompilerRuns`).

### DiscoveryProofs: registration, the daemon's lock, the search

A group that is committed announces the present name, and a client gets to "running"
only by way of such a group (`GroupKnown`).  For the daemons `LockInv` adds to `OneDaemon` who
may hold the lock when a client is about to fork.

For lsdistcc `LsInv` says that the counters are what they count (`Counted`: hosts per number of tries, with
an address, done; the last only while every socket could be made), and what is known of a host from its status
and its place before, in or behind the group that is asked for (`HostKnown`).  `Vouched` follows for `Compile`,
since only the third packet makes a host "up"; the theorem assumes it, as the run does.  For `NeverIdle`, suppose that nobody in
the group has a deadline, an answer to come or a turn: then every member is done or has been asked for as often as possible,
the counters say that all lookups are over, and the group is done or the gap was not welcome, so the search had ended.  That the
code's loop over the counters finds this is shown by `NoLookups`, an explicit function for a recursive one.

Theorems: `AlwaysRegistered`, `OneDaemonAlways`, `VouchedAlways`, `NeverIdleAlways`.

### Induction over data

The induction theorems of the library take an operator as a parameter and cannot be used.  Where a proof needs
induction it takes the least counterexample instead (`LeastNat`, from the theorem that the order of
the numbers is well founded), and a recursive function is shown equal to one that is written down.  That serves
where the witness is simple; for folds over records, as in the scanners, no such proof is written.

### Model-checked only

* Liveness (`SilentHostLeaves`, `HandlerEnds`, `CpusComeBack`, `BuildsEnd`, `BothEnd`, `EverySlotServes`,
  `ServersFound`, `MonitorConverges`, `OfferedServes`): out of the prover's reach.
* `SessionsAgree`: it compares the code's binary search in a sorted list with membership, and masks with
  common prefixes: an induction over an algorithm on data, and powers of two, of which the prover knows nothing.
* `SameCompile`, `ServersDescribed`, `NamesTranslated`, `TextsTrue`: they compare an
  algorithm on an input with a reference, by folds, and by RECURSIVE operators in `PumpMirror`, which switch off the prover.
* `ComputedCovered`: it needs to know that each answer remembered for a computed include still has its
  support, for all macros that its evaluation has looked at.  No proof is written.

## 5. Plan

The models are complete as far as section 6 says.  What is left to prove is `ComputedCovered` of
**IncludeAnalyzer**: an invariant on the support records beside `IncInv`.  `SessionsAgree` would follow from two lemmas, on
the binary search and on masks.

## 6. Not modelled

* The loop of `distccd --no-fork` beyond its first accept, and the change of the priority: one process and no
  pool, or one system call.
* Xcode's launcher `distclang`: a script's choice of a program.
* The log, traces, what is in the discrepancy e-mail and sending it, `history.c`, the graphical monitors, the layout
  of the statistics page: nothing decides by them, but for the failing copy that `DistccRpc` has.
* `mon-notify.c`: built into no program.  `DistCode.swift` and `IceCode.mm`: in no target.
* Name resolution, the options of the dmucs server and of the distcc clients: library calls.  The caching of
  the hosts-info file by its time stamp.  How `loadavg` measures the load.  `gcc-id.c`: the version of the compiler, for a message.
* The include server's statistics, `--verify`, subframeworks and function-like macros.  The
  limit on symbolic links (`cache_basics.py:285`), which a system with a sound `realpath` does not reach.
* The views of the application, the Bonjour list of coordinators, the installation of the plug-in.
* Vendored code (lzo, popt, Sparkle, COSMIC), generated projects, documentation, images.

## 7. Remarks on the code

What the models had to reproduce and the properties to except, with the place in the code.

### dmucs

* A host that comes back is listed in full although clients hold its CPUs (`dmucs_db.cc:314`; `gethost.cc:219-223`
  says a host is given out only by its number of CPUs).  `CpusBounded` is the bound that does hold.
* An overloaded or silent host made available keeps tier 0 and its CPUs are given out
  (`dmucs_host_state.cc:150`; `dmucs_host.cc:118` says tier 0 is not to be used).
* `up` for an unknown host calls a method on NULL (`dmucs_msg.cc:216`; `main.cc:81-82`).  The peak of
  assigned CPUs restarts at 0 (`dmucs_db.cc:514`; 501-502).
* A search between the two writes of `updateTier` removes the wrong list, and a silent host can be handed out
  between two locks (`dmucs_host.cc:147`; `dmucs_host.h:44-47`).
* `gethost --wait` tests its time the wrong way round (`gethost.cc:228`; 84).  A `gethost` whose read
  fails ends without running its command, one without a server runs it locally.
* The main loop blocks on each newcomer and then serves the first ready socket only, so that clients
  that ask again at once may starve a release (`main.cc:174`, 186).

* The hosts-info file: a line appended after a malformed one is lost, since reading stops there, and one
  appended behind a last line without an end changes that line (`dmucs_hosts_file.cc:95-100`, 166-177).  A host whose address has no
  name is never found in the file again; `gethostbyaddr` is passed `sizeof(unsigned long)` (107-112).
* A monitor keys hosts by name, so that two machines of one name, or one of two types, replace each
  other (`monitor.cc:275`).  A page over 8196 characters is cut in the middle of an entry.
* `remhost` decides between up and down by "addhost" anywhere in `argv[0]` (`remhost.cc:160`).

### distcc client

* `lock.c:86-89` says the local lock must be released before the remote one; `compile.c:716-723`, `777-785`
  release the remote one first.  No deadlock follows, as releasing never waits.  `compile.c:554-555`
  says that picking a host cannot fail; `where.c:86-107` returns `EXIT_NO_HOSTS` when all are disliked.
* The backoff mark is read before an unlimited wait and not again (`where.c:97`; `man/distcc.1:766-768`).  A
  failure of cpp runs the build again locally and marks the server (`compile.c:659`, 713;
  `remote.c:117-120`).
* A failing copy of the server's errors into the log of the discrepancy e-mail ends the reading of the answer with
  `ret`, which is 0 (`clirpc.c:191`): success, with the object left unread, where 197-198 says "If the compiler
  succeeded, then we always retrieve the result".
* An error while the DOTD token is read becomes success by a missing parenthesis (`clirpc.c:208`).
* A client whose authentication flags differ ends without notice to the server.  Over ssh the peer's
  address is looked up for authentication, which cannot work.  A failing exec of ssh returns into
  the build in the forked child (`ssh.c`, near 150).  `srvnet.c` binds the first address whichever one is tried,
  and a v4 client never matches a v4-mapped IPv6 entry.  Lists with `@REALM` match nobody.
* `[::1]` keeps its opening bracket (`hosts.c`), so that IPv6 literals are not reachable; a wrong
  `--localslots_cpp=0` is taken for `--localslots`; words after a host are ignored.
* Scanners: a bare `.o` is an output to `dcc_scan_args` and unknown to `dcc_set_output` (`arg.c:403-405`);
  `dcc_set_input` replaces the first word that ends like a source (`arg.c:444-447`); the argument of an
  option that is not in the table may be taken for the input; a second `-Wp` after one that grew
  overruns the array (`arg.c:546-577`); of two `-MT` one is lost; `-oFILE` puts the `.d` file beside the
  input in pump mode; `-S -MD` names `a.s`; `-Wp,-MD` with `-o` changes the target; `-x c` with a
  `.i` file is sent without preprocessing (`cpp.c:64`).
* `Masquerade`: the manual's script is a recursion error when a server's PATH has it or `distcc gcc` finds it; two
  masquerade directories are fine for a bare call, in spite of `distcc.1:382`; a link called by a
  directory that is not literally on PATH, or behind the compiler, escapes the trimming; a directory
  of the compiler's name counts as a link.  `distccd.1:251-253` says distccd removes masquerade
  directories; `dcc_trim_path` is never called.  An unreadable `DISTCC_CMDLIST` allows every compiler (`serve.c:712`); a
  list that names a link to distcc, a script, or a compiler that is not there, lets the server run what that name finds on
  its PATH.
  The manual's `DISTCC_CMDLIST_MATCHWORDS` is `DISTCC_CMDLIST_NUMWORDS` in the code.

### monitors and search for servers

* A long compilation disappears from the monitors, as its file grows old (`mon.c:100`; `man/distccmon-text.1:22`).
* `lsdistcc.c`: the assertion at 815 fails on a late second answer for an earlier group; without `-p`
  a poll result may be used for a descriptor opened since (865, 200); the search goes on after a gap if
  the whole group had been asked (842); hosts that closed count as found, so that the exit status
  is 0 without any server.
* `zeroconf.c`: a resolver's failure frees a host that stays listed (296); of a server on two
  interfaces one entry is dropped as a duplicate, and the server is lost when the kept link goes (207;
  `man/distcc.1:582-584`); reading an empty file does not count as use.

### distccd

* The temporary file being made when a signal comes stays (`dsignal.c:35-36`); a compiler may outlive its child
  (`exec.c`, FIXME; `prefork.c:176`).  A worn-out child of `--no-detach` removes the pid file; a failing
  fork leaves an orphaned pool.  Refused clients count as accepted.
* `stats.c`: a ring that is not looked at for exactly 300 slots is not renewed (282); `update_compile_times` uses a NULL
  predecessor when the newest entry is older than two minutes; the forced update of disk I/O is still
  limited to one in 50 s; averages count successful jobs only; the windows of one, five and fifteen minutes are 57, 297
  and 894 seconds, and end with the slot before the present one (261, 301, 306-308).
* `fix_debug_info.c`: the search ends one place early (169); only the first section of a name is fixed;
  `.debug_line` and objects of the other byte order are not; a file that cannot be mapped is sent
  as it is; one bad load command stops the search.
* `xci_headermap.c` does not mask the values of a map, so that files in a developer directory elsewhere are not
  found; the token is replaced anywhere in a text, `/Developer2` too; a failing `xcode-select`
  makes every remote job fail as out of memory.

* Closed standard descriptors: leaving the terminal closes what listens, or the log (`dparent.c:388-391`).  Under inetd
  `rs_logger_file` falls back to descriptor 2, the client's socket (`trace.c`, near 330).
* `dcc_socket_listen` falls back to a socket of another family, but binds the first address (`srvnet.c`, near 148-165).
  An alarm between the daemon's handlers and the launcher's write leaves a stale pid file.
* `--host-info`: the plists are converted into one file in `/tmp` for all processes, and whether that succeeded is
  not looked at, so that an SDK may be described by another's settings (`xci_versinfo.c:752-785`).  The client prints nothing
  when the header of the answer fails (`remote.c:490`).

### include server

* A trigger that comes into existence and goes again between two commands is not noticed
  (`include_analyzer.py:196-233`).  Files that share the node of an `#include_next` whose analysis was abandoned stay
  incomplete.
* A node enters the cache before its children are known; an error leaves it there without them (`include_analyzer_memoizing_node.py:457`;
  a timeout clears the caches, other errors do not, `include_server.py:392-411`, 452): a parser's, and that of a
  computed include whose macro is an absolute path (`macro_eval.py:427`, `cache_basics.py:522-532`).
* Macros defined in headers, cycles, one file included in two ways and `#include_next` make answers
  incomplete (`ComputedCovered`).
* `cache_basics.py:853-858`, 886: a value of a header map that does not end as the include is spelt keeps the former
  search-path index, so that the wrong path is mirrored and quoted includes are looked up beside
  the wrong directory; the index may lie beyond the list.
* `PumpMirror`: project files below a default directory of another compiler vanish from the mirror when
  that compiler comes up (`compiler_defaults.py:134`), and what is forced into existence there is
  written through the link; a directory whose name starts like a default directory counts as one
  (`cache_basics.py:386`, 402); a link out of a default directory, and a header map reached through a
  link, are not rebuilt; answers given before the shutdown name files that are gone.  The collection
  of header maps is never cleared; `NotCoveredError` is formatted with an undefined name
  (`compiler_defaults.py:115`).

### application

* `addhost` right after dmucs is launched is lost if it does not listen yet.  Rows are removed while they are
  enumerated, which raises.  A save cut short leaves a dead distccd noted as running, or the host
  registered.  Stopping goes by the preferences of the moment: with another coordinator the host is
  removed from the wrong server; with the host switched off `loadavg` is orphaned.
* `CPUS` is what was free at the last answer, and old when none is free.  The dictionary of hosts has one entry
  per name.  Answers are cut at 8196 bytes.  The notification `dmucsMonitorHosts` of `monitor.cc` has no
  listener.
