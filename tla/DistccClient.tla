---------------------------- MODULE DistccClient ---------------------------
(***************************************************************************)
(* The distcc clients of one user, as a parallel make runs them: each      *)
(* process takes one compilation through dcc_build_somewhere and exits.    *)
(* The processes share three things in the file system: the lock files,    *)
(* one per slot of a host, held with fcntl locks; the backoff file of each *)
(* server; and the file whose size counts discrepancies.  A step is one    *)
(* system call on a shared file, or one answer from the compiler, the      *)
(* include server or the compilation server.                               *)
(***************************************************************************)
EXTENDS Integers, Sequences, FiniteSets

CONSTANTS
    Clients,            \* places for client processes: make -j
    Servers,            \* the hosts of the list that are not localhost
    PumpServers,        \* those of them with the ",cpp" option
    HostList,           \* the host list, in order
    NSlots,             \* n_slots of a host, "local" or "local_cpp"
    SlotsScanned,       \* dcc_lock_one looks at this many slots of a host
    MaxDiscrepancies,   \* discrepancies before pump mode is given up
    LogsErrors,         \* a log is kept for the discrepancy e-mail
    NoHost,             \* the NULL host
    MaxBuilds           \* bound: builds started by a place

\* dcc_hostdef_local, dcc_hostdef_local_cpp and the localhost of a host list.
LocalHosts == {"local", "local_cpp", "localhost"}

AllHosts == Servers \cup LocalHosts

ASSUME DistccClientAssumption ==
    /\ PumpServers \subseteq Servers
    /\ Servers \cap LocalHosts = {}
    /\ NoHost \notin AllHosts
    /\ HostList \in Seq(Servers \cup {"localhost"}) /\ HostList # <<>>
    /\ NSlots \in [AllHosts -> Nat \ {0}]
    /\ SlotsScanned \in Nat \ {0}
    /\ MaxDiscrepancies \in Nat \ {0}
    /\ LogsErrors \in BOOLEAN
    /\ MaxBuilds \in Nat

\* Mutant: a set of files for each of the local hosts.
LockFileOwn(h, i) == <<h, i>>

\* dcc_make_lock_filename: every local host has the same files.
LockFile(h, i) == <<IF h \in LocalHosts THEN "localhost" ELSE h, i>>

LockFiles ==
    UNION {{LockFile(h, i) : i \in 0..(NSlots[h] - 1)} : h \in AllHosts}

VARIABLES
    client,         \* the process in each place: its pc and its locals
    builds,         \* builds started in each place
    disliked,       \* servers whose backoff file is younger than the period
    discrepancies   \* the size of the discrepancy file

vars == <<client, builds, disliked, discrepancies>>

\* cpu and local are the lock files open as cpu_lock_fd and
\* local_cpu_lock_fd, empty for -1; remote is remote_ret, "none" for 0; object
\* is the object file: "none", "made", or "unread" if it was made and not fetched.
Exited == [pc |-> "exited", list |-> <<>>, at |-> 1, slot |-> 0,
           host |-> NoHost, cpu |-> {}, local |-> {}, cppFailed |-> FALSE,
           remote |-> "none", ret |-> "ok", object |-> "none"]

Init ==
    /\ client = [c \in Clients |-> Exited]
    /\ builds = [c \in Clients |-> 0]
    /\ disliked = {}
    /\ discrepancies = 0

At(c, pc) == client[c].pc = pc

\* The process in place c continues as p.
Become(c, p) == client' = [client EXCEPT ![c] = p]

Goto(c, pc) == Become(c, [client[c] EXCEPT !.pc = pc])

\* Go on at pc with a scan of the slots of the hosts in list.
ScanFor(p, list, pc) ==
    [p EXCEPT !.pc = pc, !.list = list, !.at = 1, !.slot = 0]

Fail(c, pc) ==
    Become(c, ScanFor([client[c] EXCEPT !.ret = "failed"], <<>>, pc))

\* Nothing but the locks and the result matters at unlock_and_clean_up, and
\* nothing but the result at clean_up, where p has released its locks.
UnlockAndCleanUp(p) ==
    [Exited EXCEPT !.pc = "unlockCpu", !.cpu = p.cpu, !.local = p.local,
                   !.ret = p.ret, !.object = p.object]

CleanUp(p) == [Exited EXCEPT !.pc = "exit", !.ret = p.ret, !.object = p.object]

Held(c) == client[c].cpu \cup client[c].local

SharedUnchanged == UNCHANGED <<builds, disliked, discrepancies>>

----------------------------------------------------------------------------
(* Starting, and choosing a host.                                          *)

\* The build ends at once if its options cannot be expanded or the discrepancy
\* file has no name.  A recursive invocation runs locally without a lock; a
\* command that cannot be distributed locks a local slot; without a temporary
\* file or a host list the build falls back; else the hosts are checked for
\* backoff.
Start(c) ==
    /\ At(c, "exited") /\ builds[c] < MaxBuilds
    /\ builds' = [builds EXCEPT ![c] = @ + 1]
    /\ \/ Become(c, CleanUp([client[c] EXCEPT !.ret = "failed"]))
       \/ Goto(c, "unlocked")
       \/ Become(c, ScanFor(client[c], <<"local">>, "lockLocal"))
       \/ Fail(c, "fallback")
       \/ Goto(c, "checkHosts")
    /\ UNCHANGED <<disliked, discrepancies>>

\* dcc_remove_disliked looks at one backoff file; after the last, the scan of
\* the hosts that are left, if any.
CheckHost(c) ==
    LET p == client[c]
        h == HostList[p.at]
        left == IF h \in disliked THEN p.list ELSE Append(p.list, h)
    IN  /\ At(c, "checkHosts")
        /\ IF p.at < Len(HostList)
           THEN Become(c, [p EXCEPT !.at = @ + 1, !.list = left])
           ELSE IF left = <<>> THEN Fail(c, "fallback")
           ELSE Become(c, ScanFor(p, left, "pickHost"))
        /\ SharedUnchanged

\* Mutant: no slot after the last one, and no pause.
AdvanceStops(p) ==
    IF p.at < Len(p.list) THEN [p EXCEPT !.at = @ + 1]
    ELSE IF p.slot < SlotsScanned - 1 THEN [p EXCEPT !.at = 1, !.slot = @ + 1]
    ELSE p

\* The next pair in dcc_lock_one's two loops; after the last one, the pause
\* and the first one again.
Advance(p) ==
    IF p.at < Len(p.list) THEN [p EXCEPT !.at = @ + 1]
    ELSE IF p.slot < SlotsScanned - 1 THEN [p EXCEPT !.at = 1, !.slot = @ + 1]
    ELSE [p EXCEPT !.at = 1, !.slot = 0]

\* F_SETLK: no other process holds the file.
MayLock(c, f) == \A d \in Clients \ {c} : f \notin Held(d)

\* The slot the scan is at, and whether it can be locked.
Current(c) == LockFile(client[c].list[client[c].at], client[c].slot)

CanTake(c) ==
    /\ client[c].slot < NSlots[client[c].list[client[c].at]]
    /\ MayLock(c, Current(c))

\* One look at a slot: with the lock on it the process goes on as p.
Look(c, p) ==
    /\ Become(c, IF CanTake(c) THEN p ELSE Advance(client[c]))
    /\ SharedUnchanged

\* The slot of a server is the first of two locks, that of localhost the only.
PickHost(c) ==
    LET h == client[c].list[client[c].at]
        p == [client[c] EXCEPT !.host = h, !.cpu = {Current(c)}]
    IN  /\ At(c, "pickHost")
        /\ Look(c, IF h \in Servers THEN ScanFor(p, <<"local_cpp">>, "lockCpp")
                   ELSE ScanFor(p, <<>>, "local"))

LockLocalCpp(c) ==
    LET p == client[c]
    IN  /\ At(c, "lockCpp")
        /\ Look(c, ScanFor([p EXCEPT !.local = {Current(c)}], <<>>,
                           IF p.host \in PumpServers THEN "adjust"
                           ELSE "prepare"))

LockLocal(c) ==
    /\ At(c, "lockLocal")
    /\ Look(c, ScanFor([client[c] EXCEPT !.cpu = {Current(c)}], <<>>, "local"))

\* A lock file cannot be opened or locked: dcc_build_somewhere falls back, and
\* does not look at the result of dcc_lock_local.
LockFails(c) ==
    /\ \/ (At(c, "pickHost") \/ At(c, "lockCpp")) /\ Fail(c, "fallback")
       \/ At(c, "lockLocal") /\ Goto(c, "unlocked")
    /\ SharedUnchanged

----------------------------------------------------------------------------
(* With the slots of a server and of the local cpp.                        *)

\* dcc_perhaps_adjust_cpp_where_and_protover: pump mode, unless there have been
\* too many discrepancies, or the input or the environment forbids it.
Adjust(c) ==
    /\ At(c, "adjust")
    /\ \/ discrepancies < MaxDiscrepancies /\ Goto(c, "askIncludes")
       \/ Goto(c, "prepare")
    /\ SharedUnchanged

\* With --scan_includes the build ends after the include server's answer, or
\* for want of one (EXIT_DISTCC_FAILED without pump mode).
ScanIncludes(c) ==
    /\ \/ At(c, "askIncludes")
          /\ Become(c, UnlockAndCleanUp([client[c] EXCEPT !.ret = "scanned"]))
       \/ (At(c, "askIncludes") \/ At(c, "prepare"))
          /\ Become(c, UnlockAndCleanUp([client[c] EXCEPT !.ret = "failed"]))
    /\ SharedUnchanged

\* The include server answers, and the local slot is given back, or the client
\* preprocesses after all.
AskIncludes(c) ==
    /\ At(c, "askIncludes")
    /\ \/ Become(c, [client[c] EXCEPT !.pc = "sendFiles", !.local = {}])
       \/ Goto(c, "prepare")
    /\ SharedUnchanged

\* cpp is started in the background, or cannot be.
Prepare(c) ==
    /\ At(c, "prepare")
    /\ Goto(c, "sendHeader") \/ Fail(c, "fallback")
    /\ SharedUnchanged

\* dcc_compile_remote goes to `out', which gives the local slot back.
RemoteOut(c) ==
    Become(c, [client[c] EXCEPT !.pc = "fallback", !.local = {},
                                !.ret = "failed"])

\* Connect and send the header, in pump mode the files too.
Send(c) ==
    /\ \/ At(c, "sendFiles") /\ Goto(c, "results")
       \/ At(c, "sendHeader") /\ Goto(c, "waitCpp")
       \/ (At(c, "sendFiles") \/ At(c, "sendHeader")) /\ RemoteOut(c)
    /\ SharedUnchanged

\* dcc_wait_for_cpp.  If cpp fails, its status is that of the compilation.
WaitCpp(c) ==
    LET p == client[c]
    IN  /\ At(c, "waitCpp")
        /\ \/ Become(c, [p EXCEPT !.pc = "results", !.local = {}])
           \/ \E r \in {"failed", "crashed"} :
                Become(c, [p EXCEPT !.pc = "enjoy", !.local = {}, !.ret = r,
                                    !.cppFailed = TRUE])
           \/ RemoteOut(c)
        /\ SharedUnchanged

\* What a build may have of its object when it is told that it succeeded.
Accepted == {"made"} \cup (IF LogsErrors THEN {"unread"} ELSE {})

\* The server's answer, or the loss of the connection or a timeout.  A success
\* comes without the object if the messages before it cannot be logged.
Results(c) ==
    LET p == client[c]
    IN  /\ At(c, "results")
        /\ \/ \E r \in {"ok", "failed", "crashed"}, o \in {"none"} \cup Accepted :
                /\ r = "ok" <=> o # "none"
                /\ Become(c, [p EXCEPT !.pc = "enjoy", !.ret = r, !.object = o])
           \/ RemoteOut(c)
        /\ SharedUnchanged

----------------------------------------------------------------------------
(* The server has answered, or cpp has failed.                             *)

\* dcc_enjoyed_host removes the backoff file, whoever has written it.
Enjoy(c) ==
    /\ At(c, "enjoy")
    /\ Goto(c, "critique")
    /\ disliked' = disliked \ {client[c].host}
    /\ UNCHANGED <<builds, discrepancies>>

\* The slot is given back.  The build is over if it succeeded, or failed and is
\* not to be retried locally, unless the errors of the server cannot be shown.
Critique(c) ==
    LET p == [client[c] EXCEPT !.cpu = {}]
    IN  /\ At(c, "critique")
        /\ \/ p.ret # "crashed" /\ Become(c, CleanUp(p))
           \/ p.ret = "failed"
              /\ Become(c, [p EXCEPT !.pc = "fallback", !.remote = p.ret])
           \/ Become(c, [p EXCEPT !.pc = "fallback"])
        /\ SharedUnchanged

----------------------------------------------------------------------------
(* Falling back to the local machine.                                      *)

Dislike(c) ==
    /\ At(c, "fallback")
    /\ Goto(c, "dropCpu")
    /\ disliked' = disliked \cup ({client[c].host} \ {NoHost})
    /\ UNCHANGED <<builds, discrepancies>>

\* Mutant: the slot of the server is kept.
DropCpuForgets(c) ==
    /\ At(c, "dropCpu")
    /\ Goto(c, "dropLocal")
    /\ SharedUnchanged

DropCpu(c) ==
    /\ At(c, "dropCpu")
    /\ Become(c, [client[c] EXCEPT !.pc = "dropLocal", !.cpu = {}])
    /\ SharedUnchanged

\* With DISTCC_FALLBACK=0 the build ends here; else the remote result is
\* abandoned.
DropLocal(c) ==
    LET p == [client[c] EXCEPT !.local = {}]
    IN  /\ At(c, "dropLocal")
        /\ \/ Become(c, CleanUp(p))
           \/ Become(c, ScanFor([p EXCEPT !.ret = "ok", !.object = "none"],
                                <<"local">>, "lockLocal"))
        /\ SharedUnchanged

Written(r) == IF r = "ok" THEN "made" ELSE "none"

\* Mutant: the result of the local compiler is not returned.
CompiledSilent(c, r) ==
    LET p == [client[c] EXCEPT !.object = Written(r)]
    IN  IF p.remote = "none" THEN UnlockAndCleanUp(p)
        ELSE [p EXCEPT !.pc = IF p.remote = r THEN "innocent" ELSE "note"]

\* dcc_compile_local.  A local result other than the remote one is noted, the
\* same one clears the server.
Compiled(c, r) ==
    LET p == [client[c] EXCEPT !.ret = r, !.object = Written(r)]
    IN  IF p.remote = "none" THEN UnlockAndCleanUp(p)
        ELSE [p EXCEPT !.pc = IF p.remote = r THEN "innocent" ELSE "note"]

CompileLocal(c) ==
    /\ At(c, "local") \/ At(c, "unlocked")
    /\ \E r \in {"ok", "failed", "crashed"} : Become(c, Compiled(c, r))
    /\ SharedUnchanged

Innocent(c) ==
    /\ At(c, "innocent")
    /\ Become(c, UnlockAndCleanUp(client[c]))
    /\ disliked' = disliked \ {client[c].host}
    /\ UNCHANGED <<builds, discrepancies>>

\* The discrepancy file grows by a byte, unless it or a dependency cannot be
\* examined.
NoteDiscrepancy(c) ==
    /\ At(c, "note")
    /\ Become(c, UnlockAndCleanUp(client[c]))
    /\ discrepancies' \in {discrepancies, discrepancies + 1}
    /\ UNCHANGED <<builds, disliked>>

UnlockCpu(c) ==
    /\ At(c, "unlockCpu")
    /\ Become(c, [client[c] EXCEPT !.pc = "unlockLocal", !.cpu = {}])
    /\ SharedUnchanged

UnlockLocal(c) ==
    /\ At(c, "unlockLocal")
    /\ Become(c, [client[c] EXCEPT !.pc = "exit", !.local = {}])
    /\ SharedUnchanged

\* The process ends, and with it every lock it holds.
Exit(c) ==
    /\ At(c, "exit")
    /\ Become(c, Exited)
    /\ SharedUnchanged

\* A signal ends the process anywhere; what it wrote stays.
Kill(c) ==
    /\ ~At(c, "exited")
    /\ Become(c, Exited)
    /\ SharedUnchanged

----------------------------------------------------------------------------
\* DISTCC_BACKOFF_PERIOD has passed since the file was written.
BackoffExpires(h) ==
    /\ h \in disliked
    /\ disliked' = disliked \ {h}
    /\ UNCHANGED <<client, builds, discrepancies>>

\* The steps of a process from its start to its exit, but for the failures of
\* the lock files, which it is never owed.
Step(c) ==
    \/ CheckHost(c) \/ PickHost(c) \/ LockLocalCpp(c) \/ LockLocal(c)
    \/ Adjust(c) \/ ScanIncludes(c) \/ AskIncludes(c) \/ Prepare(c)
    \/ Send(c) \/ WaitCpp(c) \/ Results(c)
    \/ Enjoy(c) \/ Critique(c)
    \/ Dislike(c) \/ DropCpu(c) \/ DropLocal(c)
    \/ CompileLocal(c) \/ Innocent(c)
    \/ NoteDiscrepancy(c)
    \/ UnlockCpu(c) \/ UnlockLocal(c) \/ Exit(c)

Next ==
    \/ \E c \in Clients : Start(c) \/ Step(c) \/ LockFails(c) \/ Kill(c)
    \/ \E h \in Servers : BackoffExpires(h)

Spec == Init /\ [][Next]_vars

\* A process goes on: compilers end, and the network has a timeout.
FairSpec == Spec /\ \A c \in Clients : WF_vars(Step(c))

----------------------------------------------------------------------------
(* Properties.                                                             *)

Pcs == {"exited", "checkHosts", "pickHost", "lockCpp", "lockLocal", "adjust",
        "askIncludes", "prepare", "sendFiles", "sendHeader", "waitCpp",
        "results", "enjoy", "critique", "fallback", "dropCpu", "dropLocal",
        "local", "unlocked", "innocent", "note", "unlockCpu", "unlockLocal",
        "exit"}

FileOrNone == {{}} \cup {{f} : f \in LockFiles}

Process == [pc : Pcs, list : Seq(AllHosts), at : Nat \ {0}, slot : Nat,
            host : AllHosts \cup {NoHost}, cpu : FileOrNone,
            local : FileOrNone, cppFailed : BOOLEAN,
            remote : {"none", "failed"},
            ret : {"ok", "scanned", "failed", "crashed"},
            object : {"none", "made", "unread"}]

\* The types, and the files a process can lock: those of the slots that its
\* hosts have (dcc_lock_one, where.c:158-159).
TypeOK ==
    /\ client \in [Clients -> Process]
    /\ builds \in [Clients -> 0..MaxBuilds]
    /\ disliked \subseteq Servers
    /\ discrepancies \in Nat

\* With the slot of a server from its lock to its answer.
AtServer == {"lockCpp", "adjust", "askIncludes", "prepare", "sendFiles",
             "sendHeader", "waitCpp", "results"}

\* The process preprocesses, or asks the include server.
RunsCpp(p) ==
    p.pc \in {"adjust", "askIncludes", "prepare", "sendHeader", "waitCpp"}

Slot(fd, h) == \E i \in 0..(NSlots[h] - 1) : fd = {LockFile(h, i)}

\* In every phase a process holds the locks of the work it does and no other,
\* on every path through the gotos: none while it waits for its first slot,
\* the server's alone while it waits for the local one or for the answer, both
\* while it preprocesses, a local one alone while it compiles (lock.c:80-89).
LocksMatchWork ==
    \A c \in Clients :
      LET p == client[c]
      IN  /\ p.pc \in {"pickHost", "lockLocal", "unlocked"} => Held(c) = {}
          /\ p.pc \in AtServer => Slot(p.cpu, p.host)
          /\ RunsCpp(p) => Slot(p.local, "local_cpp")
          /\ p.pc \in AtServer /\ ~RunsCpp(p) => p.local = {}
          /\ p.pc = "local" =>
               /\ p.local = {}
               /\ Slot(p.cpu, "local") \/ Slot(p.cpu, "localhost")

\* A build that reports success has left an object file, whichever of its
\* attempts wrote it and whatever else failed (compile.c:654-799).  Only where a
\* log of errors is kept may it have left it unread (clirpc.c:191).
SuccessHasObject ==
    \A c \in Clients :
        At(c, "exit") /\ client[c].ret = "ok" => client[c].object \in Accepted

\* A build that starts comes to its end: no process waits for ever for slots
\* that others hold while they wait, nor misses one that is free.
BuildsEnd == \A c \in Clients : ~At(c, "exited") ~> At(c, "exited")

\* The work of the processes, whatever locks they hold.
Use(p) ==
    [server |-> IF p.pc \in AtServer THEN p.host ELSE NoHost,
     local |-> IF RunsCpp(p) THEN "cpp"
               ELSE IF p.pc = "local" THEN "compile" ELSE "none"]

Larger(m, n) == IF m > n THEN m ELSE n

CompileSlots == Larger(NSlots["local"], NSlots["localhost"])

Slots == INSTANCE DistccSlots WITH
    use <- [c \in Clients |-> Use(client[c])],
    ServerSlots <- NSlots,
    LocalSlots <- Larger(CompileSlots, NSlots["local_cpp"])

\* The lock files keep their promise: no server gets more jobs than its slots,
\* and local compilations and preprocessors stay within "localslots" and
\* "localslots_cpp" together, "so that they both use the same underlying lock"
\* (lock.c:74-78).
SlotsRespected == Slots!Spec
=============================================================================
