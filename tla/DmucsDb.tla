------------------------------ MODULE DmucsDb ------------------------------
(***************************************************************************)
(* The DMUCS host database: the operations of DmucsDb / DmucsDpropDb, of a *)
(* DmucsHost and of its state object, as operators on one record db.       *)
(*                                                                         *)
(* An element of Hosts is a DmucsHost, an (IP address, dprop) pair; an     *)
(* element of Clients is the server's socket to one gethost process.  The  *)
(* list of a tier is kept as a count per host, since getBestAvailCpu picks *)
(* from it at random.  A load is kept as the outcome of the three          *)
(* comparisons calcTier makes on the averages per CPU.                     *)
(***************************************************************************)
EXTENDS Integers, FiniteSets

CONSTANTS
    Hosts,      \* the hosts that may report to the server
    Dprops,     \* the distinguishing properties
    DpropOf,    \* the dprop each host reports with
    Clients,    \* the sockets of the gethost processes
    Specs,      \* the (ncpus, pindex) pairs of the hosts-info file
    Loads,      \* the load averages hosts report
    NoHost,     \* no CPU is assigned to the socket
    NoSpec      \* the host is not in the database (or not in the file)

IdleLoad == [calm1 |-> TRUE, calm5 |-> TRUE, calm10 |-> TRUE]

ASSUME DmucsDbAssumption ==
    /\ DpropOf \in [Hosts -> Dprops]
    /\ IsFiniteSet(Clients)
    /\ Specs \subseteq [ncpus : Nat \ {0}, pindex : Int]
    /\ Loads \subseteq [calm1 : BOOLEAN, calm5 : BOOLEAN, calm10 : BOOLEAN]
    /\ IdleLoad \in Loads
    /\ NoHost \notin Hosts
    /\ NoSpec \notin Specs

States == {"Avail", "Unavail", "Silent", "Overloaded"}

\* The keys a tier map can have: 0, a power index, or one below it.
Tiers == {0} \cup {s.pindex : s \in Specs} \cup {s.pindex - 1 : s \in Specs}

Db == [info : [Hosts -> Specs \cup {NoSpec}],   \* ncpus_, pindex_; allHosts_
       state : [Hosts -> States],               \* state_
       load : [Hosts -> Loads],                 \* ldavg1_, ldavg5_, ldavg10_
       fresh : [Hosts -> BOOLEAN],              \* lastUpdate_ within 60 s
       set : [States -> SUBSET Hosts],          \* availHosts_, unavailHosts_...
       tiers : [Dprops -> SUBSET Tiers],        \* the keys of availCpus_
       cpus : [Hosts -> [Tiers -> Nat]],        \* the lists of availCpus_
       assigned : [Clients -> Hosts \cup {NoHost}], \* assignedCpus_
       peak : [Dprops -> Nat]]                  \* numConcurrentAssigned_

EmptyDb ==
    [info |-> [h \in Hosts |-> NoSpec],
     state |-> [h \in Hosts |-> "Avail"],
     load |-> [h \in Hosts |-> IdleLoad],
     fresh |-> [h \in Hosts |-> FALSE],
     set |-> [s \in States |-> {}],
     tiers |-> [d \in Dprops |-> {}],
     cpus |-> [h \in Hosts |-> [t \in Tiers |-> 0]],
     assigned |-> [c \in Clients |-> NoHost],
     peak |-> [d \in Dprops |-> 0]]

HaveHost(db, h) == db.info[h] # NoSpec

SeemsDown(db, h) == ~db.fresh[h]

----------------------------------------------------------------------------
(* Tiers and the lists of available CPUs.                                  *)

CalcTier(load, pindex) ==
    IF load.calm1 \/ load.calm5 THEN pindex
    ELSE IF load.calm10 THEN pindex - 1
    ELSE 0

GetTier(db, h) == CalcTier(db.load[h], db.info[h].pindex)

AddCpusToTier(db, h, t, n) ==
    [db EXCEPT !.tiers[DpropOf[h]] = @ \cup {t}, !.cpus[h][t] = @ + n]

\* A tier that is not a key of the map lists no CPU.
DelCpusFromTier(db, h, t) == [db EXCEPT !.cpus[h][t] = 0]

MoveCpus(db, h, old, new) ==
    AddCpusToTier(DelCpusFromTier(db, h, old), h, new, db.cpus[h][old])

\* The CPUs getBestAvailCpu may pick for dprop d: the members of the list of
\* the highest tier that has any.
BestAvailCpus(db, d) ==
    LET listed == {p \in Hosts \X Tiers :
                     DpropOf[p[1]] = d /\ db.cpus[p[1]][p[2]] > 0}
    IN  {p \in listed : \A q \in listed : q[2] <= p[2]}

\* Mutant: the CPU is given out and stays in the list.
TakeCpuKeeps(db, h, t) == db

TakeCpu(db, h, t) == [db EXCEPT !.cpus[h][t] = @ - 1]

----------------------------------------------------------------------------
(* The sets of hosts and the host's state object.                          *)

AddToHostSet(db, s, h) == [db EXCEPT !.set[s] = @ \cup {h}]

DelFromHostSet(db, s, h) == [db EXCEPT !.set[s] = @ \ {h}]

AddToAvailDb(db, h) ==
    AddCpusToTier(AddToHostSet(db, "Avail", h), h, GetTier(db, h),
                  db.info[h].ncpus)

DelFromAvailDb(db, h) ==
    IF GetTier(db, h) \in db.tiers[DpropOf[h]]
    THEN DelFromHostSet(DelCpusFromTier(db, h, GetTier(db, h)), "Avail", h)
    ELSE db

AddToDb(db, h) ==
    IF db.state[h] = "Avail" THEN AddToAvailDb(db, h)
    ELSE AddToHostSet(db, db.state[h], h)

RemoveFromDb(db, h) ==
    IF db.state[h] = "Avail"
    THEN DelFromAvailDb(DelCpusFromTier(db, h, GetTier(db, h)), h)
    ELSE DelFromHostSet(db, db.state[h], h)

ChangeState(db, h, s) == AddToDb([db EXCEPT !.state[h] = s], h)

MoveTo(db, h, s) == ChangeState(RemoveFromDb(db, h), h, s)

\* An unavailable host that is overloaded goes to Overloaded; a silent or an
\* overloaded one becomes available whatever its tier.
Avail(db, h) ==
    CASE db.state[h] = "Avail" -> db
      [] db.state[h] = "Unavail" /\ GetTier(db, h) = 0 -> MoveTo(db, h, "Overloaded")
      [] OTHER -> MoveTo(db, h, "Avail")

Unavail(db, h) ==
    IF db.state[h] = "Unavail" THEN db ELSE MoveTo(db, h, "Unavail")

\* Mutant: an available host has no silent() transition.
SilentIfOverloaded(db, h) ==
    IF db.state[h] = "Overloaded" THEN MoveTo(db, h, "Silent") ELSE db

Silent(db, h) ==
    IF db.state[h] \in {"Avail", "Overloaded"} THEN MoveTo(db, h, "Silent") ELSE db

Overloaded(db, h) ==
    IF db.state[h] = "Avail" THEN MoveTo(db, h, "Overloaded") ELSE db

----------------------------------------------------------------------------
(* What the message handlers call.                                         *)

AddNewHost(db, h, spec) == AddToAvailDb([db EXCEPT !.info[h] = spec], h)

\* Mutant: the averages are stored before the CPUs are moved.
UpdateTierLate(db, h, load) ==
    LET new == CalcTier(load, db.info[h].pindex)
        stored == [db EXCEPT !.load[h] = load, !.fresh[h] = TRUE]
    IN  IF new = GetTier(db, h) THEN stored
        ELSE IF new = 0 THEN Overloaded(stored, h)
        ELSE MoveCpus(stored, h, GetTier(stored, h), new)

UpdateTier(db, h, load) ==
    LET new == CalcTier(load, db.info[h].pindex)
        old == GetTier(db, h)
        moved == IF new = old THEN db
                 ELSE IF new = 0 THEN Overloaded(db, h)
                 ELSE MoveCpus(db, h, old, new)
    IN  [moved EXCEPT !.load[h] = load, !.fresh[h] = TRUE]

NumAssigned(db, d) ==
    Cardinality({c \in Clients : /\ db.assigned[c] # NoHost
                                 /\ DpropOf[db.assigned[c]] = d})

AssignCpuToClient(db, h, c) ==
    LET granted == [db EXCEPT !.assigned[c] = h]
        n == NumAssigned(granted, DpropOf[h])
    IN  [granted EXCEPT !.peak[DpropOf[h]] = IF n > @ THEN n ELSE @]

\* Mutant: a CPU that comes back is not listed again.
ReleaseCpuDrops(db, c) == [db EXCEPT !.assigned[c] = NoHost]

\* Mutant: every CPU of the host is listed again.
ReleaseCpuAll(db, c) ==
    LET h == db.assigned[c]
        freed == [db EXCEPT !.assigned[c] = NoHost]
    IN  IF h = NoHost THEN db
        ELSE IF db.state[h] = "Avail"
        THEN AddCpusToTier(freed, h, GetTier(db, h), db.info[h].ncpus)
        ELSE freed

\* The CPU goes back to its list only if its host is still available.
ReleaseCpu(db, c) ==
    LET h == db.assigned[c]
        freed == [db EXCEPT !.assigned[c] = NoHost]
    IN  IF h = NoHost THEN db
        ELSE IF db.state[h] = "Avail" THEN AddCpusToTier(freed, h, GetTier(db, h), 1)
        ELSE freed

ClearStats(db) == [db EXCEPT !.peak = [d \in Dprops |-> 0]]

----------------------------------------------------------------------------
(* What the properties count.                                             *)

IsAvail(db, h) == HaveHost(db, h) /\ db.state[h] = "Avail"

\* The CPUs of h in the hands of clients.
Held(db, h) == Cardinality({c \in Clients : db.assigned[c] = h})

\* The CPUs of h that can be given out, when h is available.
Listed(db, h) == db.cpus[h][GetTier(db, h)]
=============================================================================
