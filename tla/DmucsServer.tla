---------------------------- MODULE DmucsServer ----------------------------
(***************************************************************************)
(* The dmucs server: the database of DmucsDb driven by the messages of     *)
(* gethost, loadavg and remhost processes, by the closing of gethost       *)
(* sockets, by the thread that looks for silent hosts and by the one that  *)
(* prints statistics.  A handler of the main thread is one action; the     *)
(* silent search, which holds the mutex from start to end, visits one host *)
(* per step.  DmucsDb::releaseCpu takes no mutex, so a client may close    *)
(* during a search.                                                        *)
(***************************************************************************)
EXTENDS DmucsDb

CONSTANT ConfiguredFile     \* the hosts-info file the server starts with

ASSUME ConfiguredFileAssumption ==
    ConfiguredFile \in [Hosts -> Specs \cup {NoSpec}]

VARIABLES
    db,         \* the database
    hostsFile,  \* the hosts-info file: a spec, or NoSpec if no line names it
    sweep,      \* the hosts handleSilentHosts has still to visit
    up          \* the server process is running

vars == <<db, hostsFile, sweep, up>>

Init ==
    /\ db = EmptyDb
    /\ hostsFile = ConfiguredFile
    /\ sweep = {}
    /\ up = TRUE

----------------------------------------------------------------------------
(* The main thread.  Its handlers wait for the mutex of a running search.  *)

MutexFree == sweep = {}

Serving == up /\ MutexFree

\* gethost asks for a CPU of dprop d; without one it is told 0.0.0.0.
HostReq(c, d) ==
    /\ Serving
    /\ db.assigned[c] = NoHost
    /\ \/ \E p \in BestAvailCpus(db, d) :
            db' = AssignCpuToClient(TakeCpu(db, p[1], p[2]), p[1], c)
       \/ /\ BestAvailCpus(db, d) = {}
          /\ UNCHANGED db
    /\ UNCHANGED <<hostsFile, sweep, up>>

\* getHost finds the host, or createHost adds it if the hosts-info file names
\* it.  createHost returns NULL either way (its result is shadowed).
CreateHost(h) ==
    IF hostsFile[h] = NoSpec THEN db ELSE AddNewHost(db, h, hostsFile[h])

\* Mutant: any host that is not overloaded is made available.
ReportLoadAlways(h, load) ==
    LET updated == UpdateTier(db, h, load)
    IN  IF GetTier(updated, h) # 0 THEN Avail(updated, h) ELSE updated

ReportLoad(h, load) ==
    LET updated == UpdateTier(db, h, load)
        back == \/ updated.state[h] = "Silent"
                \/ updated.state[h] = "Overloaded" /\ GetTier(updated, h) # 0
    IN  IF back THEN Avail(updated, h) ELSE updated

LdAvg(h, load) ==
    /\ Serving
    /\ db' = IF HaveHost(db, h) THEN ReportLoad(h, load) ELSE CreateHost(h)
    /\ UNCHANGED <<hostsFile, sweep, up>>

StatusUp(h) ==
    /\ Serving
    /\ HaveHost(db, h)
    /\ db' = Avail(db, h)
    /\ UNCHANGED <<hostsFile, sweep, up>>

\* newHost->avail() on the NULL that createHost returned: the process dies,
\* and with it the database and its sockets.
StatusUpUnknown(h) ==
    /\ Serving
    /\ ~HaveHost(db, h)
    /\ db' = EmptyDb
    /\ up' = FALSE
    /\ UNCHANGED <<hostsFile, sweep>>

StatusDown(h) ==
    /\ Serving
    /\ HaveHost(db, h)
    /\ db' = Unavail(db, h)
    /\ UNCHANGED <<hostsFile, sweep, up>>

RemoteAdd(h, spec) ==
    /\ Serving
    /\ \/ /\ HaveHost(db, h)
          /\ db' = Avail(db, h)
          /\ UNCHANGED hostsFile
       \/ /\ ~HaveHost(db, h)
          /\ hostsFile[h] = NoSpec
          /\ hostsFile' = [hostsFile EXCEPT ![h] = spec]
          /\ db' = Avail(AddNewHost(db, h, spec), h)
       \/ /\ ~HaveHost(db, h)   \* named by the file, or the append fails
          /\ db' = CreateHost(h)
          /\ UNCHANGED hostsFile
    /\ UNCHANGED <<sweep, up>>

\* gethost's child has ended: the socket reads as closed.
ClientClose(c) ==
    /\ up
    /\ db.assigned[c] # NoHost
    /\ db' = ReleaseCpu(db, c)
    /\ UNCHANGED <<hostsFile, sweep, up>>

----------------------------------------------------------------------------
(* The two other threads.                                                  *)

SilentSearch ==
    /\ Serving
    /\ sweep' = {h \in Hosts : HaveHost(db, h)}
    /\ UNCHANGED <<db, hostsFile, up>>

VisitHost(h) ==
    /\ h \in sweep
    /\ db' = IF SeemsDown(db, h) THEN Silent(db, h) ELSE db
    /\ sweep' = sweep \ {h}
    /\ UNCHANGED <<hostsFile, up>>

UpdateStats ==
    /\ Serving
    /\ db' = ClearStats(db)
    /\ UNCHANGED <<hostsFile, sweep, up>>

----------------------------------------------------------------------------
(* The environment.                                                        *)

\* Sixty seconds pass without a load average of h.
Expire(h) ==
    /\ db.fresh[h]
    /\ db' = [db EXCEPT !.fresh[h] = FALSE]
    /\ UNCHANGED <<hostsFile, sweep, up>>

\* The administrator adds a line to the hosts-info file.
EditHostsFile(h, spec) ==
    /\ hostsFile[h] = NoSpec
    /\ hostsFile' = [hostsFile EXCEPT ![h] = spec]
    /\ UNCHANGED <<db, sweep, up>>

Restart ==
    /\ ~up
    /\ up' = TRUE
    /\ UNCHANGED <<db, hostsFile, sweep>>

----------------------------------------------------------------------------
Next ==
    \/ \E c \in Clients, d \in Dprops : HostReq(c, d)
    \/ \E h \in Hosts, load \in Loads : LdAvg(h, load)
    \/ \E h \in Hosts : StatusUp(h)
    \/ \E h \in Hosts : StatusUpUnknown(h)
    \/ \E h \in Hosts : StatusDown(h)
    \/ \E h \in Hosts, spec \in Specs : RemoteAdd(h, spec)
    \/ \E c \in Clients : ClientClose(c)
    \/ SilentSearch
    \/ \E h \in Hosts : VisitHost(h)
    \/ UpdateStats
    \/ \E h \in Hosts : Expire(h)
    \/ \E h \in Hosts, spec \in Specs : EditHostsFile(h, spec)
    \/ Restart

Spec == Init /\ [][Next]_vars

\* The silent-search thread never blocks for good: it sleeps 60 s, takes the
\* mutex and walks the hosts.  Nothing is assumed of the other processes.
Fairness ==
    /\ WF_vars(SilentSearch)
    /\ WF_vars(\E h \in Hosts : VisitHost(h))

FairSpec == Spec /\ Fairness

----------------------------------------------------------------------------
(* Properties.                                                             *)

TypeOK ==
    /\ db \in Db
    /\ hostsFile \in [Hosts -> Specs \cup {NoSpec}]
    /\ sweep \in SUBSET Hosts
    /\ up \in BOOLEAN

\* Every host of the database is in exactly the set its state names
\* (dmucs_db.h:76-81): no transition of a state object forgets a host in the
\* set it leaves, or adds it to the set of another state.
HostSetsMatchState ==
    \A s \in States : db.set[s] = {h \in Hosts : HaveHost(db, h) /\ db.state[h] = s}

\* A CPU is listed only under the present tier of a host that is available:
\* whatever order loads, status changes and searches come in, no CPU stays
\* behind in a tier the host has left or after the host has gone.
CpusPlaced ==
    \A h \in Hosts, t \in Tiers :
        db.cpus[h][t] > 0 => IsAvail(db, h) /\ t = GetTier(db, h)

\* delFromAvailDb gives up, leaving the host in availHosts_, when the tier of
\* the host is not in the map (dmucs_db.cc:322-325): it never comes to that.
AvailTierExists ==
    \A h \in Hosts : IsAvail(db, h) => GetTier(db, h) \in db.tiers[DpropOf[h]]

\* Only hosts of the database are assigned: releaseCpu and resolveIp2Name
\* find the host of every CPU that was given out.
GrantsKnown ==
    \A c \in Clients : db.assigned[c] # NoHost => HaveHost(db, db.assigned[c])

\* No CPU of an available host is lost: each one is listed or assigned,
\* although a CPU that comes back while its host is away is dropped.
NoCpuLost ==
    \A h \in Hosts :
        IsAvail(db, h) => Listed(db, h) + Held(db, h) >= db.info[h].ncpus

\* The CPUs of a host can multiply (a host that comes back is listed in full
\* whatever is still assigned), but never by more than the clients there are.
CpusBounded ==
    \A h \in Hosts :
        IsAvail(db, h) =>
            Listed(db, h) + Held(db, h) <= db.info[h].ncpus + Cardinality(Clients)

\* Together: the CPUs of an available host are those it has, and at most as
\* many besides as there are clients, through any requests, releases, changes
\* of tier and returns of the host (dmucs_db.cc:77-103, 314-340).
CpusAccounted == NoCpuLost /\ CpusBounded

\* While a host stays available the CPUs listed and the CPUs assigned keep
\* their sum: requests, releases and changes of tier only move them.
CpusConserved ==
    [][\A h \in Hosts :
         IsAvail(db, h) /\ IsAvail(db', h) =>
            Listed(db', h) + Held(db', h) = Listed(db, h) + Held(db, h)]_vars

\* A host nothing has been heard of for 60 s (dmucs_host.h:44-47) is taken
\* off the list of available hosts, unless it is heard of again first.
SilentHostLeaves ==
    \A h \in Hosts :
        (IsAvail(db, h) /\ ~db.fresh[h]) ~> (~IsAvail(db, h) \/ db.fresh[h])

\* A host that was made administratively unavailable stays so, whatever load
\* averages arrive and whatever the search finds (dmucs_host_state.h:36-38),
\* until an "up" or an "add" names it or the server is lost.
AdminDownSticks ==
    [][\A h \in Hosts :
         /\ HaveHost(db, h) /\ db.state[h] = "Unavail"
         /\ ~(HaveHost(db', h) /\ db'.state[h] = "Unavail")
         => \/ StatusUp(h)
            \/ \E spec \in Specs : RemoteAdd(h, spec)
            \/ \E g \in Hosts : StatusUpUnknown(g)]_vars
=============================================================================
