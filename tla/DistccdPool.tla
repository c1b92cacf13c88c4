---------------------------- MODULE DistccdPool ----------------------------
(***************************************************************************)
(* The processes of distccd: the master that forks a pool of children and  *)
(* collects them (dparent.c, prefork.c), a child that serves one job after *)
(* another (prefork.c, serve.c), the compiler it starts in a process group *)
(* of its own (exec.c), their temporary files (tempfile.c, cleanup.c) and  *)
(* the signals that end them (dsignal.c).                                  *)
(*                                                                         *)
(* A job is a walk down Script: what the child makes, receives and sends,  *)
(* in the order of dcc_run_job.  What is in a message is the business of   *)
(* DistccRpc.                                                              *)
(***************************************************************************)
EXTENDS Naturals, FiniteSets, SequencesExt

CONSTANTS
    Kids,         \* one place of the pool each: dcc_max_kids is their number
    Lifetime,     \* requests a child serves (50 in the code)
    JobLifetime,  \* seconds a compiler may take (--job-lifetime)
    Detached,     \* not --no-detach: the launcher wrote the pid file and is gone
    Slack,        \* seconds the alarm adds to it (30 in the code)
    MaxSignals    \* bound on the signals that reach a process from outside

ASSUME PoolAssumption ==
    /\ IsFiniteSet(Kids) /\ Kids # {}
    /\ Lifetime \in Nat \ {0} /\ JobLifetime \in Nat \ {0}
    /\ Detached \in BOOLEAN /\ Slack \in Nat /\ MaxSignals \in Nat

VARIABLES
    stats,     \* --stats: the master waits in select, not in waitpid
    master,    \* "fork", "wait", "reap"; "stopped" by a signal; "exited"
    nkids,     \* dcc_nkids
    kid,       \* each child: "none", "alive", or "zombie"
    job,       \* what it serves: "none", "plain" or "pump"
    at,        \* its place in the script of the job
    half,      \* it is between making a file and registering it
    list,      \* cleanups: the files it has registered, in order
    served,    \* its requests so far
    age,       \* seconds since it accepted the job
    waited,    \* seconds in dcc_collect_child
    cc,        \* its compiler runs
    pending,   \* a signal that ends it has been sent
    disk,      \* temporary files of each child's last job, and their kind
    pidFile,   \* the pid file is there
    signals    \* signals from outside so far

masterVars == <<master, nkids>>
jobVars == <<job, at, half, served, age, waited, cc, list>>
outside == <<stats, signals>>
vars == <<outside, masterVars, kid, jobVars, pending, disk, pidFile>>

MaxKids == Cardinality(Kids)

\* "make": a name that is created and then registered.  "file": what
\* dcc_r_many_files stores, registered when it is complete.  The names for
\* messages and dependencies are made like that of the object, before it.
Script ==
    [plain |-> <<[op |-> "make", kind |-> "object"], [op |-> "make", kind |-> "input"],
                 [op |-> "recv", kind |-> "input"], [op |-> "cc", kind |-> "object"],
                 [op |-> "send", kind |-> "object"]>>,
     pump |-> <<[op |-> "make", kind |-> "dir"], [op |-> "make", kind |-> "object"],
                [op |-> "file", kind |-> "input"], [op |-> "cc", kind |-> "object"],
                [op |-> "send", kind |-> "object"]>>]
Jobs == DOMAIN Script
Kinds == {"dir", "object", "input"}
File(o, x) == [owner |-> o, kind |-> x]

Alive(k) == kid[k] = "alive"
Idle(k) == Alive(k) /\ job[k] = "none"
Busy(k) == Alive(k) /\ job[k] # "none"
Step(k) == Script[job[k]][at[k]]
Doing(k, op) == Busy(k) /\ ~pending[k] /\ Step(k).op = op
MasterRuns == master \notin {"stopped", "exited"}
AlarmAt == JobLifetime + Slack

-----------------------------------------------------------------------------
(* Temporary files *)

FilesOf(d, k) == {f \in d : f.owner = k}
\* rmdir fails on a directory with something in it: only the input is in one.
\* "gone" are the places of the list that come before.
InDirectory(k, d) == job[k] = "pump" /\ File(k, "input") \in d
Removable(k, d, x, gone) ==
    x = "dir" /\ InDirectory(k, d) => \E j \in gone : list[k][j] = "input"
\* Mutant: from the first to the last, so that directories are not empty yet.
UnlinkedForwards(k, d) ==
    d \ {File(k, list[k][i]) : i \in
            {i \in DOMAIN list[k] : Removable(k, d, list[k][i], {j \in DOMAIN list[k] : j < i})}}
\* dcc_cleanup_tempfiles: from the last registered to the first.
Unlinked(k, d) ==
    d \ {File(k, list[k][i]) : i \in
            {i \in DOMAIN list[k] : Removable(k, d, list[k][i], {j \in DOMAIN list[k] : j > i})}}
Cleanup(k, d) == /\ disk' = Unlinked(k, d)
                 /\ list' = [list EXCEPT ![k] = << >>]

Fresh(k) ==
    /\ job' = [job EXCEPT ![k] = "none"]
    /\ at' = [at EXCEPT ![k] = 1]
    /\ half' = [half EXCEPT ![k] = FALSE]
    /\ age' = [age EXCEPT ![k] = 0]
    /\ waited' = [waited EXCEPT ![k] = 0]
    /\ cc' = [cc EXCEPT ![k] = FALSE]

\* The master's child is a zombie until it is waited for; init collects an
\* orphan at once.
Leaves(k) ==
    /\ kid' = [kid EXCEPT ![k] = IF MasterRuns THEN "zombie" ELSE "none"]
    /\ served' = [served EXCEPT ![k] = 0]
\* exit runs what the master registered with atexit before it forked: in
\* --no-detach mode, dcc_remove_pid.
AtExit == pidFile' = (pidFile /\ Detached)

-----------------------------------------------------------------------------
Init ==
    /\ stats \in BOOLEAN /\ signals = 0
    /\ master = "fork" /\ nkids = 0
    /\ kid = [k \in Kids |-> "none"] /\ job = [k \in Kids |-> "none"]
    /\ at = [k \in Kids |-> 1] /\ half = [k \in Kids |-> FALSE]
    /\ list = [k \in Kids |-> << >>] /\ served = [k \in Kids |-> 0]
    /\ age = [k \in Kids |-> 0] /\ waited = [k \in Kids |-> 0]
    /\ cc = [k \in Kids |-> FALSE] /\ pending = [k \in Kids |-> FALSE]
    /\ disk = {} /\ pidFile = TRUE

(* The master *)

Fork(k) ==
    /\ master = "fork" /\ nkids < MaxKids /\ kid[k] = "none"
    /\ kid' = [kid EXCEPT ![k] = "alive"]
    /\ nkids' = nkids + 1
    /\ UNCHANGED <<outside, master, jobVars, pending, disk, pidFile>>

ForkFails ==
    /\ master = "fork" /\ nkids < MaxKids
    /\ master' = "exited"
    /\ kid' = [k \in Kids |-> IF kid[k] = "zombie" THEN "none" ELSE kid[k]]
    /\ AtExit
    /\ UNCHANGED <<outside, nkids, jobVars, pending, disk>>

PoolFull ==
    /\ master = "fork" /\ nkids >= MaxKids
    /\ master' = "wait"
    /\ UNCHANGED <<outside, nkids, kid, jobVars, pending, disk, pidFile>>

\* Mutant: only the preforking loop counts, not the one of --stats.
ReapUncounted(k) ==
    /\ kid[k] = "zombie"
    /\ kid' = [kid EXCEPT ![k] = "none"]
    /\ nkids' = IF stats THEN nkids ELSE nkids - 1
    /\ UNCHANGED <<outside, jobVars, pending, disk, pidFile>>
Reap(k) ==
    /\ kid[k] = "zombie"
    /\ kid' = [kid EXCEPT ![k] = "none"]
    /\ nkids' = nkids - 1
    /\ UNCHANGED <<outside, jobVars, pending, disk, pidFile>>

\* dcc_reap_kids(TRUE): blocks until one child can be collected.
WaitForKid(k) ==
    /\ master = "wait" /\ ~stats
    /\ Reap(k)
    /\ master' = "reap"

\* dcc_stats_server: select returns, for a report, a request, a signal or
\* because a minute is over.
SelectReturns ==
    /\ master = "wait" /\ stats
    /\ master' = "reap"
    /\ UNCHANGED <<outside, nkids, kid, jobVars, pending, disk, pidFile>>

ReapAnother(k) ==
    /\ master = "reap"
    /\ Reap(k)
    /\ UNCHANGED master

NoneExited ==
    /\ master = "reap" /\ \A k \in Kids : kid[k] # "zombie"
    /\ master' = "fork"
    /\ UNCHANGED <<outside, nkids, kid, jobVars, pending, disk, pidFile>>

-----------------------------------------------------------------------------
(* A child *)

\* Mutant: the alarm is set before accept and cancelled after it.
AcceptUntimed(k) ==
    /\ Idle(k) /\ ~pending[k] /\ served[k] < Lifetime
    /\ \E j \in Jobs : job' = [job EXCEPT ![k] = j]
    /\ age' = [age EXCEPT ![k] = AlarmAt + 1]
    /\ disk' = disk \ FilesOf(disk, k)
    /\ UNCHANGED <<outside, masterVars, kid, at, half, served, waited, cc, list, pending, pidFile>>
\* accept, and the alarm.  Names are random: what an earlier job has left on
\* the disk is out of sight from here.
Accept(k) ==
    /\ Idle(k) /\ ~pending[k] /\ served[k] < Lifetime
    /\ \E j \in Jobs : job' = [job EXCEPT ![k] = j]
    /\ disk' = disk \ FilesOf(disk, k)
    /\ UNCHANGED <<outside, masterVars, kid, at, half, served, age, waited, cc, list, pending, pidFile>>

\* dcc_check_client refuses: the request counts, nothing has been made.
Refuse(k) ==
    /\ Idle(k) /\ ~pending[k] /\ served[k] < Lifetime
    /\ served' = [served EXCEPT ![k] = @ + 1]
    /\ UNCHANGED <<outside, masterVars, kid, job, at, half, age, waited, cc, list, pending, disk, pidFile>>

KidExits(k) ==
    /\ Idle(k) /\ ~pending[k]
    /\ Leaves(k)
    /\ AtExit
    /\ UNCHANGED <<outside, masterVars, job, at, half, age, waited, cc, list, pending, disk>>
WornOut(k) == served[k] = Lifetime /\ KidExits(k)
AcceptFails(k) == served[k] < Lifetime /\ KidExits(k)

Advance(k) == at' = [at EXCEPT ![k] = @ + 1]

\* open with O_EXCL, mkdtemp, or the first bytes of a file of a pump job.
Create(k) ==
    /\ Doing(k, "make") \/ Doing(k, "file")
    /\ ~half[k]
    /\ disk' = disk \cup {File(k, Step(k).kind)}
    /\ half' = [half EXCEPT ![k] = TRUE]
    /\ UNCHANGED <<outside, masterVars, kid, job, at, served, age, waited, cc, list, pending, pidFile>>

\* dcc_add_cleanup.  The log files are removed again at once and stay listed.
Register(k) ==
    /\ half[k] /\ (Doing(k, "make") \/ Doing(k, "file"))
    /\ list' = [list EXCEPT ![k] = Append(@, Step(k).kind)]
    /\ half' = [half EXCEPT ![k] = FALSE]
    /\ Advance(k)
    /\ UNCHANGED <<outside, masterVars, kid, job, served, age, waited, cc, pending, disk, pidFile>>

Received(k) ==
    /\ Doing(k, "recv")
    /\ Advance(k)
    /\ UNCHANGED <<outside, masterVars, kid, job, half, served, age, waited, cc, list, pending, disk, pidFile>>

\* dcc_spawn_child; when fork fails the job goes on to the answer.
Spawn(k) ==
    /\ Doing(k, "cc") /\ ~cc[k]
    /\ \/ cc' = [cc EXCEPT ![k] = TRUE] /\ UNCHANGED at
       \/ Advance(k) /\ UNCHANGED cc
    /\ UNCHANGED <<outside, masterVars, kid, job, half, served, age, waited, list, pending, disk, pidFile>>

Collected(k) ==
    /\ Advance(k)
    /\ cc' = [cc EXCEPT ![k] = FALSE]
    /\ waited' = [waited EXCEPT ![k] = 0]
    /\ UNCHANGED <<outside, masterVars, kid, job, half, served, age, list, pending, disk>>

\* wait4 finds the compiler; or its exec has failed and it left through exit.
CompilerEnds(k) ==
    /\ Doing(k, "cc") /\ cc[k]
    /\ Collected(k)
    /\ UNCHANGED pidFile \/ AtExit

\* Mutant: the answer is sent while the compiler goes on.
DisconnectedAlone(k) ==
    /\ Doing(k, "cc") /\ cc[k]
    /\ Advance(k)
    /\ UNCHANGED <<outside, masterVars, kid, job, half, served, age, waited, cc, list, pending, disk, pidFile>>
\* The client is gone: the compiler's group is killed, and not waited for.
Disconnected(k) ==
    /\ Doing(k, "cc") /\ cc[k]
    /\ Collected(k)
    /\ UNCHANGED pidFile

CompilerTimesOut(k) ==
    /\ Doing(k, "cc") /\ cc[k] /\ waited[k] > JobLifetime
    /\ Collected(k)
    /\ UNCHANGED pidFile

\* out_cleanup: the answer has been sent, --host-info answered, or a step has
\* failed.  A name that could not be registered is removed by its maker; a
\* file of a pump job that breaks off stays where it is.
JobEnds(k) ==
    /\ Busy(k) /\ ~pending[k] /\ Step(k).op # "cc"
    /\ Cleanup(k, IF half[k] /\ Step(k).op = "make"
                    THEN disk \ {File(k, Step(k).kind)} ELSE disk)
    /\ Fresh(k)
    /\ served' = [served EXCEPT ![k] = @ + 1]
    /\ UNCHANGED <<outside, masterVars, kid, pending, pidFile>>

KidStep(k) ==
    \/ Accept(k) \/ Refuse(k) \/ Create(k) \/ Register(k) \/ Received(k)
    \/ Spawn(k) \/ CompilerEnds(k) \/ Disconnected(k) \/ CompilerTimesOut(k)
    \/ JobEnds(k) \/ WornOut(k) \/ AcceptFails(k)

-----------------------------------------------------------------------------
(* Time and signals *)

\* A second passes for a job.  dcc_collect_child looks at its own clock once a
\* second; nothing looks at the time of the transfers.
Tick(k) ==
    /\ Busy(k) /\ ~pending[k]
    /\ age[k] < AlarmAt /\ waited[k] <= JobLifetime /\ (Step(k).op = "cc" => cc[k])
    /\ age' = [age EXCEPT ![k] = @ + 1]
    /\ waited' = IF cc[k] THEN [waited EXCEPT ![k] = @ + 1] ELSE waited
    /\ UNCHANGED <<outside, masterVars, kid, job, at, half, served, cc, list, pending, disk, pidFile>>

Alarm(k) ==
    /\ Busy(k) /\ ~pending[k] /\ age[k] = AlarmAt
    /\ pending' = [pending EXCEPT ![k] = TRUE]
    /\ UNCHANGED <<outside, masterVars, kid, jobVars, disk, pidFile>>

SignalKid(k) ==
    /\ Alive(k) /\ ~pending[k] /\ signals < MaxSignals
    /\ signals' = signals + 1
    /\ pending' = [pending EXCEPT ![k] = TRUE]
    /\ UNCHANGED <<stats, masterVars, kid, jobVars, disk, pidFile>>

\* dcc_daemon_terminate in a child: its files, and then the signal again.  A
\* compiler is in another group and runs on: no process knows of it any more.
KidDies(k) ==
    /\ Alive(k) /\ pending[k]
    /\ Cleanup(k, disk)
    /\ Fresh(k)
    /\ Leaves(k)
    /\ pending' = [pending EXCEPT ![k] = FALSE]
    /\ UNCHANGED <<outside, masterVars, pidFile>>

\* dcc_daemon_terminate in the master: the pid file, and the whole group.
Stop ==
    /\ MasterRuns /\ signals < MaxSignals
    /\ signals' = signals + 1
    /\ master' = "stopped"
    /\ pidFile' = FALSE
    /\ pending' = [k \in Kids |-> pending[k] \/ Alive(k)]
    /\ kid' = [k \in Kids |-> IF kid[k] = "zombie" THEN "none" ELSE kid[k]]
    /\ UNCHANGED <<stats, nkids, jobVars, disk>>

MasterStep ==
    \/ PoolFull \/ SelectReturns \/ NoneExited \/ ForkFails
    \/ \E k \in Kids : Fork(k) \/ WaitForKid(k) \/ ReapAnother(k)
Passes(k) == Tick(k) \/ Alarm(k)

Next ==
    \/ MasterStep \/ Stop
    \/ \E k \in Kids : KidStep(k) \/ Passes(k) \/ SignalKid(k) \/ KidDies(k)

Spec == Init /\ [][Next]_vars

\* The processes are scheduled, time passes, and a signal that has been sent
\* arrives.  No client, compiler or connection is assumed to do anything: a
\* child that waits for one of them may wait until its alarm.
OwnStep(k) == WornOut(k) \/ Spawn(k) \/ CompilerTimesOut(k) \/ KidDies(k)
Fairness ==
    /\ WF_vars(MasterStep)
    /\ \A k \in Kids : WF_vars(OwnStep(k)) /\ WF_vars(Passes(k))
FairSpec == Spec /\ Fairness

-----------------------------------------------------------------------------
TypeOK ==
    /\ stats \in BOOLEAN /\ signals \in 0..MaxSignals
    /\ master \in {"fork", "wait", "reap", "stopped", "exited"}
    /\ nkids \in 0..MaxKids
    /\ kid \in [Kids -> {"none", "alive", "zombie"}]
    /\ job \in [Kids -> Jobs \cup {"none"}]
    /\ at \in [Kids -> 1..5] /\ half \in [Kids -> BOOLEAN]
    /\ DOMAIN list = Kids
    /\ \A k \in Kids : list[k] \in Seq(Kinds) /\ Len(list[k]) <= Cardinality(Kinds)
    /\ served \in [Kids -> 0..Lifetime]
    /\ age \in [Kids -> 0..AlarmAt] /\ waited \in [Kids -> 0..(JobLifetime + 1)]
    /\ cc \in [Kids -> BOOLEAN] /\ pending \in [Kids -> BOOLEAN]
    /\ disk \subseteq {File(o, x) : o \in Kids, x \in Kinds}
    /\ pidFile \in BOOLEAN

\* dcc_nkids, which decides whether another child is started, is the number of
\* children the master has and has not waited for, whoever ended them.
NkidsExact == MasterRuns => nkids = Cardinality({k \in Kids : kid[k] # "none"})

\* While a child does something else, no compiler of its jobs is running: the
\* machine never compiles more than the pool allows, apart from those whose child has been killed.
OneCompiler == \A k \in Kids : cc[k] => Busy(k) /\ Step(k).op = "cc"

\* However a job ends, by its answer, an error, an alarm or a signal, at most
\* the file that was being made at that moment stays on the disk, and the
\* directory it is in.  An error leaves one only of a pump job's transfer.
InTheMaking(k) ==
    IF ~half[k] \/ (Step(k).op = "make" /\ ~pending[k]) THEN {}
    ELSE {Step(k).kind} \cup (IF Step(k).kind = "input" THEN {"dir"} ELSE {})
FilesRemoved ==
    [][\A k \in Kids : Busy(k) /\ job'[k] = "none"
        => {f.kind : f \in FilesOf(disk', k)} \subseteq InTheMaking(k)]_vars

\* While the master runs, every place of the pool is again and again free for
\* a client: a job that hangs is ended, a worn out child is replaced.
EverySlotServes ==
    \A k \in Kids : []<>((Idle(k) /\ served[k] < Lifetime) \/ ~MasterRuns)

=============================================================================
