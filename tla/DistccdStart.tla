----------------------------- MODULE DistccdStart ----------------------------
(***************************************************************************)
(* How distccd gets from its command line to serving (dopt.c, daemon.c,    *)
(* setuid.c, srvnet.c, dparent.c): it reads its options one by one, gives  *)
(* root away, opens its log, listens, and in the end serves its standard   *)
(* input, as inetd wants it, or becomes a daemon: the process that was     *)
(* started, the launcher, forks the one that serves, writes the pid file   *)
(* and exits while the other leaves the terminal. What serves from then on *)
(* is in DistccdPool.                                                      *)
(*                                                                         *)
(* A descriptor is a number and what it is open on. An option is a record  *)
(* of its name and a number: of a file, 1 if it can be opened; of a list   *)
(* or an address, 1 if it is well formed; of a user, his uid or NoUser.    *)
(* The message that a call leaves in the log is not modelled, and syslog   *)
(* needs no descriptor.                                                    *)
(***************************************************************************)
EXTENDS Integers, Sequences

VARIABLES
    start,                  \* the command line and the machine: it does not change
    boot,                   \* the process that is to serve
    launcher,               \* the one that was started, once it has forked the other
    pidfile                 \* what is in the pid file: "none", "old", or "daemon"

RootId == 0
NoUser == 0 - 1
Nobody == 99
NotGiven == <<>>

(* ------------------------------- the options ---------------------------- *)

Options ==
    [allow |-> {}, jobs |-> 0, daemon |-> FALSE, inetd |-> FALSE, lifetime |-> 0, logFile |-> NotGiven,
     logStderr |-> FALSE, jobLifetime |-> 0, noDetach |-> FALSE, noFork |-> FALSE, noFifo |-> FALSE,
     pidFile |-> NotGiven, port |-> 3632, listen |-> 1, user |-> 33, auth |-> FALSE, listed |-> {}]

Wizard(o) ==
    [o EXCEPT !.logStderr = TRUE, !.daemon = TRUE, !.noDetach = TRUE, !.noFork = TRUE, !.noFifo = TRUE]

\* What an option sets. The other list of clients and an option that is none
\* are errors, and so are a mask or a number of jobs that make no sense.
Set(o, option) ==
    CASE option.name = "allow" -> [o EXCEPT !.allow = @ \cup {option.value}]
      [] option.name = "auth" -> [o EXCEPT !.auth = TRUE]
      [] option.name \in {"blacklist", "whitelist"} -> [o EXCEPT !.listed = @ \cup {option.name}]
      [] option.name = "jobs" -> [o EXCEPT !.jobs = option.value]
      [] option.name = "job-lifetime" -> [o EXCEPT !.jobLifetime = IF option.value < 0 THEN 0 ELSE option.value]
      [] option.name = "lifetime" -> [o EXCEPT !.lifetime = option.value]
      [] option.name = "daemon" -> [o EXCEPT !.daemon = TRUE]
      [] option.name = "inetd" -> [o EXCEPT !.inetd = TRUE]
      [] option.name = "no-detach" -> [o EXCEPT !.noDetach = TRUE]
      [] option.name = "no-fork" -> [o EXCEPT !.noFork = TRUE]
      [] option.name = "log-stderr" -> [o EXCEPT !.logStderr = TRUE]
      [] option.name = "log-file" -> [o EXCEPT !.logFile = <<option.value>>]
      [] option.name = "pid-file" -> [o EXCEPT !.pidFile = <<option.value>>]
      [] option.name = "port" -> [o EXCEPT !.port = option.value]
      [] option.name = "listen" -> [o EXCEPT !.listen = option.value]
      [] option.name = "user" -> [o EXCEPT !.user = option.value]
      [] option.name = "wizard" -> Wizard(o)
      [] OTHER -> o

OnlyTells(option) == option.name \in {"help", "version", "show-principal", "host-info"}

Wrong(o, option) ==
    \/ option.name = "unknown"
    \/ option.name = "allow" /\ option.value = 0
    \/ option.name = "jobs" /\ option.value \notin 1..200
    \/ option.name \in {"blacklist", "whitelist"} /\ o.listed \ {option.name} # {}

(* ----------------------------- the descriptors -------------------------- *)

\* The lowest descriptor that is free.
Free(table) == CHOOSE fd \in 0..5 : fd \notin DOMAIN table /\ \A lower \in 0..fd - 1 : lower \in DOMAIN table
Open(table, what) == [fd \in DOMAIN table \cup {Free(table)} |-> IF fd = Free(table) THEN what ELSE table[fd]]

ShouldBeInetd(o, table) == o.inetd \/ (~o.daemon /\ 0 \in DOMAIN table /\ table[0] = "socket")

\* Messages go to a descriptor, or to syslog.
Syslog == 0 - 1
StartupLog(table) == IF 2 \in DOMAIN table /\ table[2] = "socket" THEN Syslog ELSE 2

\* What it is started with: options, and few descriptors, as a shell or inetd leaves them.
Argument == [name : STRING, value : Int]
Startable ==
    /\ start.args \in Seq(Argument)
    /\ start.uid \in Nat /\ start.ncpus \in Nat
    /\ DOMAIN start.table \subseteq 0..3

StartInit ==
    /\ Startable
    /\ boot = [step |-> "options", args |-> start.args, opts |-> Options, uid |-> start.uid, table |-> start.table,
               log |-> StartupLog(start.table), alarm |-> 0, listen |-> Syslog, maxKids |-> 0, catches |-> FALSE,
               exit |-> "no"]
    /\ launcher = [step |-> "none", alarm |-> 0]
    /\ pidfile = "old"

At(step) == boot.step = step
GoTo(step) == boot' = [boot EXCEPT !.step = step]
Exit(code) == boot' = [boot EXCEPT !.step = "gone", !.exit = code]
Alone == UNCHANGED <<launcher, pidfile>>

(* ------------------------------ one process ----------------------------- *)

\* distccd_parse_options, one option at a time. The description of the host may
\* not be made.
ParseOption ==
    LET option == Head(boot.args) IN
    /\ At("options") /\ boot.args # <<>> /\ Alone
    /\ \/ OnlyTells(option) /\ Exit("success")
       \/ option.name = "host-info" /\ Exit("distcc failed")
       \/ ~OnlyTells(option) /\ Wrong(boot.opts, option) /\ Exit("bad arguments")
       \/ /\ ~OnlyTells(option) /\ ~Wrong(boot.opts, option)
          /\ boot' = [boot EXCEPT !.args = Tail(@), !.opts = Set(@, option)]

\* A standalone server has to be told who may connect.
CheckAllowed ==
    /\ At("options") /\ boot.args = <<>> /\ Alone
    /\ IF ~ShouldBeInetd(boot.opts, boot.table) /\ boot.opts.allow = {} THEN Exit("bad arguments")
       ELSE GoTo("lifetime")

SetLifetime ==
    /\ At("lifetime") /\ Alone
    /\ boot' = [boot EXCEPT !.step = "root", !.alarm = boot.opts.lifetime]

\* The user of the option, or nobody: one call of three may fail, and the user
\* may be root after all.
DiscardRoot ==
    /\ At("root") /\ Alone
    /\ \/ boot.uid # RootId /\ GoTo("log")
       \/ boot.uid = RootId /\ Exit("setuid failed")
       \/ LET uid == IF boot.opts.user = NoUser THEN Nobody ELSE boot.opts.user IN
          boot.uid = RootId /\ IF uid = RootId THEN Exit("setuid failed")
                             ELSE boot' = [boot EXCEPT !.step = "log", !.uid = uid]

\* The log of the options, or syslog.
SetupRealLog ==
    /\ At("log") /\ Alone
    /\ boot' = IF boot.opts.logStderr THEN [boot EXCEPT !.step = "directory", !.log = 2]
               ELSE IF boot.opts.logFile = <<1>>
               THEN [boot EXCEPT !.step = "directory", !.log = Free(boot.table), !.table = Open(@, "log")]
               ELSE [boot EXCEPT !.step = "directory", !.log = Syslog]

\* Everything is done from the temporary directory.
EnterTmpTop ==
    /\ At("directory") /\ Alone
    /\ Exit("I/O error") \/ GoTo("credentials")

\* If clients are to authenticate: for a principal, and with the list of clients
\* there may be. Each may fail.
AcquireCredentials ==
    /\ At("credentials") /\ Alone
    /\ \/ boot.opts.auth /\ Exit("gssapi failed")
       \/ GoTo(IF ShouldBeInetd(boot.opts, boot.table) THEN "inetd" ELSE "listen")

\* If the kernel has no socket for the first kind of address, one of a later kind
\* is made; but it is bound to the first address, and only the first kind will do.
Usable == start.families # <<>> /\ Head(start.families) \in start.supported

Ports == 1..65535

SocketListen ==
    LET fd == Free(boot.table)
    IN /\ At("listen") /\ Alone
       /\ \/ boot.opts.port \notin Ports /\ Exit("bad arguments")
          \/ /\ boot.opts.port \in Ports
             /\ boot.opts.listen = 0 \/ ~Usable \/ boot.opts.port \in start.taken
             /\ Exit("bind failed")
          \/ /\ boot.opts.port \in Ports \ start.taken /\ boot.opts.listen = 1 /\ Usable
             /\ boot' = [boot EXCEPT !.step = IF boot.opts.noDetach THEN "group" ELSE "detach", !.listen = fd,
                                     !.table = Open(@, "listening"),
                                     !.maxKids = IF boot.opts.jobs # 0 THEN boot.opts.jobs ELSE 2 + start.ncpus]

Written(file) == IF boot.opts.pidFile = <<1>> THEN "daemon" ELSE file

\* With --no-detach: the process stays in the session, in a group of its own.
NewGroup ==
    /\ At("group") /\ UNCHANGED launcher
    /\ \/ Exit("distcc failed") /\ UNCHANGED pidfile
       \/ GoTo("signals") /\ pidfile' = Written(pidfile)

CatchSignals ==
    /\ At("signals") /\ Alone
    /\ boot' = [boot EXCEPT !.step = "serving", !.catches = TRUE]

ServeInetd == At("inetd") /\ GoTo("serving") /\ Alone

(* ----------------------------- two processes ---------------------------- *)

\* The child has the descriptors of its parent, and no alarm.
Detach ==
    /\ At("detach") /\ UNCHANGED pidfile
    /\ \/ Exit("distcc failed") /\ UNCHANGED launcher
       \/ /\ boot' = [boot EXCEPT !.step = "session", !.alarm = 0]
          /\ launcher' = [step |-> "saves", alarm |-> boot.alarm]

\* Mutant: the alarm of the parent is thought to be the child's.
LeaveTerminalOnly ==
    /\ At("session") /\ Alone
    /\ boot' = [boot EXCEPT !.step = "signals",
                            !.table = [fd \in DOMAIN @ \cup 0..2 |-> IF fd \in 0..2 THEN "null" ELSE @[fd]]]

\* The child: a session of its own, nothing on the three standard descriptors,
\* and the alarm again.
LeaveTerminal ==
    /\ At("session") /\ Alone
    /\ boot' = [boot EXCEPT !.step = "signals", !.alarm = boot.opts.lifetime,
                            !.table = [fd \in DOMAIN @ \cup 0..2 |-> IF fd \in 0..2 THEN "null" ELSE @[fd]]]

\* The parent meanwhile.
SavePid ==
    /\ launcher.step = "saves"
    /\ launcher' = [launcher EXCEPT !.step = "leaves"]
    /\ pidfile' = Written(pidfile)
    /\ UNCHANGED boot

LauncherExits ==
    /\ launcher.step = "leaves"
    /\ launcher' = [step |-> "success", alarm |-> 0]
    /\ UNCHANGED <<boot, pidfile>>

(* ------------------------------- the alarms ----------------------------- *)

\* The daemon removes the pid file once it catches signals, whoever wrote it.
AlarmRings ==
    /\ boot.alarm > 0 /\ boot.exit = "no"
    /\ boot' = [boot EXCEPT !.step = "gone", !.exit = "alarm", !.alarm = 0]
    /\ pidfile' = IF boot.catches /\ boot.opts.pidFile = <<1>> THEN "none" ELSE pidfile
    /\ UNCHANGED launcher

LauncherKilled ==
    /\ launcher.alarm > 0
    /\ launcher' = [step |-> "alarm", alarm |-> 0]
    /\ UNCHANGED <<boot, pidfile>>

\* A daemon that serves alone ends at its first accept if its descriptor is none
\* to listen on, and removes the pid file if it has written it itself.
CannotAccept ==
    /\ At("serving") /\ boot.catches /\ boot.opts.noFork /\ boot.table[boot.listen] # "listening"
    /\ Exit("connect failed") /\ UNCHANGED launcher
    /\ pidfile' = IF boot.opts.noDetach /\ boot.opts.pidFile = <<1>> THEN "none" ELSE pidfile

StartNext ==
    \/ ParseOption \/ CheckAllowed \/ SetLifetime \/ DiscardRoot \/ SetupRealLog
    \/ EnterTmpTop \/ AcquireCredentials \/ SocketListen \/ NewGroup \/ CatchSignals \/ ServeInetd \/ CannotAccept
    \/ Detach \/ LeaveTerminal \/ SavePid \/ LauncherExits \/ AlarmRings \/ LauncherKilled

StartSpec == StartInit /\ [][StartNext /\ UNCHANGED start]_<<start, boot, launcher, pidfile>>

(* ------------------------------- properties ----------------------------- *)

GivenNames == {start.args[i].name : i \in DOMAIN start.args}
StandardOpen == 0..2 \subseteq DOMAIN start.table
Standalone == boot.listen # Syslog

\* What serves is what was asked for: it is not root, it knows who may connect
\* unless inetd does, it ends when its lifetime is over though the process that
\* was told so is another one, and it takes the jobs it may. If the standard
\* descriptors were open, it listens and its log is still the file. No message
\* goes to the client of inetd unless that was asked for. When the launcher
\* ends well, clients can connect and the pid file, if it can be written, is
\* that of the daemon: or the daemon has come to its end meanwhile.
StartedAsTold ==
    /\ At("serving") =>
        /\ boot.uid # RootId
        /\ "lifetime" \in GivenNames => boot.alarm = boot.opts.lifetime
        /\ Standalone => boot.opts.allow # {} /\ boot.maxKids > 0 /\ boot.catches
        /\ ~Standalone => ShouldBeInetd(boot.opts, start.table)
        /\ StandardOpen =>
            /\ Standalone => boot.table[boot.listen] = "listening"
            /\ (boot.opts.logFile = <<1>> /\ ~boot.opts.logStderr) => boot.table[boot.log] = "log"
    /\ (boot.log \in DOMAIN boot.table /\ boot.table[boot.log] = "socket") => boot.opts.logStderr
    /\ launcher.step = "success" =>
        /\ Standalone /\ (StandardOpen => boot.table[boot.listen] = "listening")
        /\ (boot.opts.pidFile = <<1>> /\ boot.exit = "no") => pidfile = "daemon"
=============================================================================
