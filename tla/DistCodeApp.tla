---------------------------- MODULE DistCodeApp ----------------------------
(***************************************************************************)
(* The menu bar application of a machine (AppDelegate.m, DistCode.mm): it  *)
(* starts and stops the dmucs server, the distccd daemon and the loadavg   *)
(* reporter, registers the machine with the coordinator of the             *)
(* preferences (addhost, remhost), and asks the coordinator each second    *)
(* for its hosts, whose CPUs become Xcode's limit of concurrent tasks.     *)
(* One thread runs it all, but waitUntilExit runs the run loop: the        *)
(* monitor's timer fires between any two calls that use NSTask.            *)
(***************************************************************************)
EXTENDS Naturals, FiniteSets, SequencesExt

CONSTANTS
    Coordinators,   \* the dmucs servers the preferences can name
    Own,            \* "localhost": the one the application runs itself
    Machines,       \* the compilation hosts
    Me,             \* the machine of the application
    Cpus,           \* the CPUs of each host
    UsedBy,         \* the machines whose CPUs change hands at each coordinator
    None,           \* no coordinator, no daemon
    MaxEvents       \* bound: launches, changes of preferences, lost connections

ASSUME ConstantsAssumption ==
    /\ Own \in Coordinators /\ None \notin Coordinators
    /\ Me \in Machines
    /\ Cpus \in [Machines -> Nat \ {0}]
    /\ UsedBy \in [Coordinators -> SUBSET Machines]

VARIABLES
    prefs,      \* NSUserDefaults: the coordinator, RunCompilationHost
    calls,      \* the calls the main thread has still to make
    timer,      \* MonitorLoopTimer is scheduled
    daemon,     \* DistCCDaemon and LoadAvgDaemon, the NSTask objects: the
                \* second by the coordinator its process reports to
    distccd,    \* the distccd process runs
    dmucs,      \* the dmucs process: "none", "starting", "listening"
    orphans,    \* the coordinators loadavg processes without a task report to
    table,      \* the hosts each coordinator lists: "absent" or their status
    free,       \* and the free CPUs it lists for them
    named,      \* the coordinators whose hosts-info file names this machine
    reachable,  \* the remote coordinators that answer
    servers,    \* DistCCServers: the rows shown
    limit,      \* Xcode's concurrent compile tasks, 0 for its own default
    events,     \* counted for MaxEvents
    settled     \* the surroundings change no more

appVars == <<calls, timer, daemon, servers, limit>>
ownVars == <<distccd, dmucs, orphans>>
serverVars == <<table, free, named>>
outside == <<prefs, reachable, events, settled>>
vars == <<appVars, ownVars, serverVars, outside>>

Statuses == {"Available", "Silent"}

Init ==
    /\ prefs \in [coordinator : Coordinators \cup {None}, compile : BOOLEAN]
    /\ calls = <<>> /\ timer = FALSE
    /\ daemon = [distccd |-> FALSE, loadavg |-> None]
    /\ distccd = FALSE /\ dmucs = "none" /\ orphans = {}
    /\ table = [s \in Coordinators |-> [h \in Machines |-> "absent"]]
    /\ free = [s \in Coordinators |-> [h \in Machines |-> 0]]
    /\ named = {} /\ reachable = Coordinators \ {Own}
    /\ servers = <<>> /\ limit = 0
    /\ settled = FALSE /\ events = 0

\* One more of the counted events.
Event ==
    /\ ~settled /\ events < MaxEvents
    /\ events' = events + 1

Reporting == (orphans \cup {daemon.loadavg}) \ {None}

Listening(s) == IF s = Own THEN dmucs = "listening" ELSE s \in reachable

\* What coordinator s lists for host h becomes `status', with n CPUs free.
List(s, h, status, n) ==
    /\ table' = [table EXCEPT ![s][h] = status]
    /\ free' = [free EXCEPT ![s][h] = n]

----------------------------------------------------------------------------
(* The calls of the main thread.                                           *)

StartCompileHost == <<"startDistccDaemon", "addHost", "startLoadAvg">>

\* Mutant: the load of the machine is reported on.
StopCompileHostReports == <<"removeHost", "stopDistccDaemon">>

StopCompileHost == <<"stopLoadAvg", "removeHost", "stopDistccDaemon">>

\* applicationDidFinishLaunching: startup, which needs a coordinator, and the
\* timer.  init has removed the hosts-info file of the application's server.
Launch ==
    /\ ~timer /\ calls = <<>> /\ Event
    /\ LET c == prefs.coordinator
       IN  calls' = (IF c = Own THEN <<"startDmucsDaemon">> ELSE <<>>)
                    \o (IF c # None /\ prefs.compile THEN StartCompileHost ELSE <<>>)
                    \o <<"schedule">>
    /\ named' = named \ {Own}
    /\ servers' = <<>>
    /\ UNCHANGED <<timer, daemon, limit, table, free, ownVars, prefs, reachable, settled>>

\* saveDefaults: toggleCompileHost.
Save ==
    /\ timer /\ calls = <<>> /\ ~settled
    /\ daemon.distccd # prefs.compile
    /\ calls' = IF daemon.distccd THEN StopCompileHost ELSE StartCompileHost
    /\ UNCHANGED <<timer, daemon, servers, limit, ownVars, serverVars, outside>>

\* applicationWillTerminate: shutdown goes by the preferences of the moment.
Quit ==
    /\ timer /\ calls = <<>> /\ ~settled
    /\ timer' = FALSE
    /\ calls' = (IF prefs.compile THEN StopCompileHost ELSE <<>>)
                \o <<"stopDmucsDaemon", "stopDistccDaemon", "exit">>
    /\ UNCHANGED <<daemon, servers, limit, ownVars, serverVars, outside>>

StartDistccDaemon ==
    /\ distccd' = TRUE
    /\ daemon' = [daemon EXCEPT !.distccd = TRUE]
    /\ UNCHANGED <<dmucs, orphans, serverVars>>

StopDistccDaemon ==
    /\ distccd' = (distccd /\ ~daemon.distccd)
    /\ daemon' = [daemon EXCEPT !.distccd = FALSE]
    /\ UNCHANGED <<dmucs, orphans, serverVars>>

StartDmucsDaemon ==
    /\ dmucs' = "starting"
    /\ UNCHANGED <<daemon, distccd, orphans, serverVars>>

\* The server's database goes with it.
StopDmucsDaemon ==
    /\ dmucs' = "none"
    /\ table' = [table EXCEPT ![Own] = [h \in Machines |-> "absent"]]
    /\ free' = [free EXCEPT ![Own] = [h \in Machines |-> 0]]
    /\ UNCHANGED <<daemon, distccd, orphans, named>>

StartLoadAvg ==
    /\ daemon' = [daemon EXCEPT !.loadavg = prefs.coordinator]
    /\ UNCHANGED <<ownVars, serverVars>>

StopLoadAvg ==
    /\ daemon' = [daemon EXCEPT !.loadavg = None]
    /\ UNCHANGED <<ownVars, serverVars>>

\* The application exits, its loadavg does not.
Exit ==
    /\ orphans' = Reporting
    /\ daemon' = [daemon EXCEPT !.loadavg = None]
    /\ UNCHANGED <<distccd, dmucs, serverVars>>

\* addhost --add: the server enters the machine, in its hosts-info file too,
\* or makes it available again.  One that does not listen is not told again.
AddHost ==
    LET s == prefs.coordinator
    IN  /\ IF s # None /\ Listening(s)
           THEN List(s, Me, "Available", Cpus[Me]) /\ named' = named \cup {s}
           ELSE UNCHANGED serverVars
        /\ UNCHANGED <<daemon, ownVars>>

RemoveHost ==
    LET s == prefs.coordinator
    IN  /\ IF s # None /\ Listening(s) /\ table[s][Me] # "absent"
           THEN List(s, Me, "Unavailable", 0)
           ELSE UNCHANGED <<table, free>>
        /\ UNCHANGED <<daemon, named, ownVars>>

Call ==
    /\ calls # <<>>
    /\ calls' = Tail(calls)
    /\ CASE Head(calls) = "startDistccDaemon" -> StartDistccDaemon
         [] Head(calls) = "stopDistccDaemon" -> StopDistccDaemon
         [] Head(calls) = "startDmucsDaemon" -> StartDmucsDaemon
         [] Head(calls) = "stopDmucsDaemon" -> StopDmucsDaemon
         [] Head(calls) = "startLoadAvg" -> StartLoadAvg
         [] Head(calls) = "stopLoadAvg" -> StopLoadAvg
         [] Head(calls) = "addHost" -> AddHost
         [] Head(calls) = "removeHost" -> RemoveHost
         [] Head(calls) = "exit" -> Exit
         [] Head(calls) = "schedule" -> UNCHANGED <<daemon, ownVars, serverVars>>
    /\ timer' = (timer \/ Head(calls) = "schedule")
    /\ limit' = IF Head(calls) = "exit" THEN 0 ELSE limit
    /\ UNCHANGED <<servers, outside>>

----------------------------------------------------------------------------
(* The monitor's timer.                                                    *)

\* The hosts of the answer.  Load averages and types are left out.
Listed(c) == {h \in Machines : table[c][h] # "absent"}

\* No hosts if the coordinator does not answer.
Answer ==
    LET c == prefs.coordinator
    IN  IF c # None /\ Listening(c) THEN Listed(c) ELSE {}

\* The main thread is in waitUntilExit.
Waiting ==
    /\ calls # <<>>
    /\ \/ Head(calls) \in {"addHost", "removeHost", "startLoadAvg"}
       \/ Head(calls) = "stopLoadAvg" /\ daemon.loadavg # None
       \/ Head(calls) = "stopDistccDaemon" /\ daemon.distccd

TimerFires == timer /\ (calls = <<>> \/ Waiting)

GoneRows == {i \in DOMAIN servers : servers[i].host \notin Answer}

\* A row removed while the rows are enumerated raises unless it is the last,
\* and the exception unwinds the calls under the run loop as well.  A process
\* that stop... waits for is gone, its task object is still set.
MonitorRaises ==
    /\ TimerFires
    /\ GoneRows # {} /\ Min(GoneRows) # Len(servers)
    /\ servers' = RemoveAt(servers, Min(GoneRows))
    /\ calls' = <<>>
    /\ distccd' = (distccd /\ (calls # <<>> => Head(calls) # "stopDistccDaemon"))
    /\ daemon' = [daemon EXCEPT !.loadavg =
                    IF calls # <<>> /\ Head(calls) = "stopLoadAvg" THEN None ELSE @]
    /\ UNCHANGED <<timer, limit, dmucs, orphans, serverVars, outside>>

RowOf(rows, h) == {i \in DOMAIN rows : rows[i].host = h}

\* CPUS is the number of free CPUs of the last answer that listed any.
CpusShown(rows, h) ==
    IF RowOf(rows, h) = {} THEN 0 ELSE rows[Min(RowOf(rows, h))].cpus

Updated(rows, h) ==
    LET c == prefs.coordinator
    IN  [host |-> h,
         cpus |-> IF free[c][h] > 0 THEN free[c][h] ELSE CpusShown(rows, h)]

\* Mutant: a host the coordinator lists no more keeps its row.
MonitorRoundKeeps ==
    /\ TimerFires
    /\ \E new \in SetToSeqs({h \in Answer : RowOf(servers, h) = {}}) :
         servers' = [i \in 1 .. Len(servers) + Len(new) |->
                        LET h == IF i <= Len(servers) THEN servers[i].host
                                 ELSE new[i - Len(servers)]
                        IN  IF h \in Answer THEN Updated(servers, h) ELSE servers[i]]
    /\ limit' = MapThenSumSet(LAMBDA h : CpusShown(servers, h),
                  {h \in Answer : table[prefs.coordinator][h] = "Available"})
    /\ UNCHANGED <<calls, timer, daemon, ownVars, serverVars, outside>>

\* The sum is taken before the round's own CPUs are entered in the rows.
MonitorRound ==
    LET kept == IF GoneRows = {} THEN servers ELSE Front(servers)
    IN  /\ TimerFires
        /\ GoneRows \subseteq {Len(servers)}
        /\ \E new \in SetToSeqs({h \in Answer : RowOf(kept, h) = {}}) :
             servers' = [i \in 1 .. Len(kept) + Len(new) |->
                            Updated(kept, IF i <= Len(kept) THEN kept[i].host
                                          ELSE new[i - Len(kept)])]
        /\ limit' = MapThenSumSet(LAMBDA h : CpusShown(kept, h),
                      {h \in Answer : table[prefs.coordinator][h] = "Available"})
        /\ UNCHANGED <<calls, timer, daemon, ownVars, serverVars, outside>>

MonitorLoop == MonitorRaises \/ MonitorRound

----------------------------------------------------------------------------
(* The coordinators, the other machines and the user.                      *)

DmucsListens ==
    /\ dmucs = "starting"
    /\ dmucs' = "listening"
    /\ UNCHANGED <<appVars, distccd, orphans, serverVars, outside>>

\* loadavg tries again every ten seconds.  A load average brings a silent host
\* back and enters one the hosts-info file names.
Report(s) ==
    /\ s \in Reporting /\ Listening(s)
    /\ \/ table[s][Me] = "Silent"
       \/ table[s][Me] = "absent" /\ s \in named
    /\ List(s, Me, "Available", Cpus[Me])
    /\ UNCHANGED <<named, appVars, ownVars, outside>>

\* The search for silent hosts.
LosesTouch(s) ==
    /\ Listening(s) /\ s \notin Reporting
    /\ table[s][Me] = "Available"
    /\ List(s, Me, "Silent", 0)
    /\ UNCHANGED <<named, appVars, ownVars, outside>>

\* Another machine reports, leaves or falls silent; a build takes or frees CPUs.
HostChanges(s, h) ==
    /\ ~settled /\ Listening(s)
    /\ h \in UsedBy[s]
    /\ \E status \in IF h = Me THEN {table[s][h]} \ {"absent"} ELSE Statuses :
         \E n \in IF status = "Available" THEN 0 .. Cpus[h] ELSE {0} :
           List(s, h, status, n)
    /\ UNCHANGED <<named, appVars, ownVars, outside>>

Disconnect(s) ==
    /\ s # Own /\ Event
    /\ s \in reachable
    /\ reachable' = reachable \ {s}
    /\ UNCHANGED <<appVars, ownVars, serverVars, prefs, settled>>

\* It answers again, its database lost if it was restarted.
Reconnect(s) ==
    /\ ~settled /\ s # Own
    /\ s \notin reachable
    /\ reachable' = reachable \cup {s}
    /\ \/ UNCHANGED <<table, free>>
       \/ /\ table' = [table EXCEPT ![s] = [h \in Machines |-> "absent"]]
          /\ free' = [free EXCEPT ![s] = [h \in Machines |-> 0]]
    /\ UNCHANGED <<appVars, ownVars, named, prefs, events, settled>>

\* The options are bound to the preferences: they change before they are saved.
ChangePrefs ==
    /\ timer /\ calls = <<>> /\ Event
    /\ prefs' \in [coordinator : Coordinators \cup {None}, compile : BOOLEAN]
    /\ UNCHANGED <<appVars, ownVars, serverVars, reachable, settled>>

Settle ==
    /\ ~settled
    /\ settled' = TRUE
    /\ UNCHANGED <<appVars, ownVars, serverVars, prefs, reachable, events>>

Next ==
    \/ Launch \/ Save \/ Quit \/ Call
    \/ MonitorLoop
    \/ DmucsListens
    \/ \E s \in Coordinators :
         \/ Report(s) \/ LosesTouch(s) \/ Disconnect(s) \/ Reconnect(s)
         \/ \E h \in Machines : HostChanges(s, h)
    \/ ChangePrefs
    \/ Settle

\* Calls return, the timer goes on, the server starts, loadavg and the search
\* of a server that answers run on.  The user and other machines owe nothing.
Fairness ==
    /\ WF_vars(Call) /\ WF_vars(MonitorLoop) /\ WF_vars(DmucsListens)
    /\ \A s \in Coordinators : WF_vars(Report(s)) /\ WF_vars(LosesTouch(s))

Spec == Init /\ [][Next]_vars /\ Fairness

----------------------------------------------------------------------------
(* Properties.                                                             *)

Shown ==
    /\ {servers[i].host : i \in DOMAIN servers} = Answer
    /\ limit >= MapThenSumSet(LAMBDA h : free[prefs.coordinator][h], Answer)

\* Once the surroundings rest, the rows shown are the hosts the coordinator
\* lists, in spite of the rounds cut short by an exception, and Xcode may run as
\* many tasks as there are free CPUs (AppDelegate.m dmucsMonitorHosts).
MonitorConverges == <>[](settled /\ timer => Shown)

\* In the end no coordinator that answers offers this machine unless its
\* distccd runs, however the starts, stops, changed preferences and unwound
\* calls were mixed; but for a loadavg that was left running when the
\* application quit with an unsaved RunCompilationHost (DistCode.mm shutdown).
OfferedServes ==
    <>[](settled => \A s \in Coordinators :
            Listening(s) /\ table[s][Me] = "Available"
                => distccd \/ s \in orphans)
=============================================================================
