------------------------- MODULE DmucsServerProofs -------------------------
(***************************************************************************)
(* Proofs about DmucsServer, from the lemmas on the operators of DmucsDb:  *)
(* one lemma per handler, then the theorems about the specification.       *)
(***************************************************************************)
EXTENDS DmucsClients, DmucsDbProofs

----------------------------------------------------------------------------
(* The specification.                                                      *)

IInv ==
    /\ DbInv(db)
    /\ hostsFile \in [Hosts -> Specs \cup {NoSpec}]
    /\ sweep \subseteq {h \in Hosts : HaveHost(db, h)}
    /\ up \in BOOLEAN
    /\ NoCpuLost
    /\ CpusBounded

\* What a step may do to the database: unless the server dies, it forgets no
\* host, and only an "up" or an "add" ends the absence of an unavailable one.
Kept ==
    \A h \in Hosts : HaveHost(db, h) => db'.info[h] = db.info[h]

UnavailKept ==
    \A h \in Hosts : HaveHost(db, h) /\ db.state[h] = "Unavail" => db'.state[h] = "Unavail"

DbStep == DbInv(db') /\ Conserves(db, db')

\* A load average: the tier follows it, and a silent or recovered host comes
\* back.  No host is taken out of the available ones and put back at once.
LEMMA ReportLoadInv ==
    ASSUME DbInv(db), NEW h \in Hosts, HaveHost(db, h), NEW load \in Loads
    PROVE  LET e == ReportLoad(h, load)
           IN  /\ DbInv(e) /\ Conserves(db, e) /\ e.info = db.info
               /\ \A g \in Hosts : db.state[g] = "Unavail" => e.state[g] = "Unavail"
<1> DEFINE m == UpdateTier(db, h, load)
           back == m.state[h] = "Silent" \/ (m.state[h] = "Overloaded" /\ GetTier(m, h) # 0)
           e == ReportLoad(h, load)
<1>1. /\ DbInv(m) /\ m.info = db.info /\ m.assigned = db.assigned
      /\ \A g \in Hosts \ {h} : m.state[g] = db.state[g]
      /\ m.state[h] # db.state[h] =>
           db.state[h] = "Avail" /\ m.state[h] = "Overloaded" /\ GetTier(m, h) = 0
      /\ Conserves(db, m)
  BY UpdateTierInv
<1>2. e = IF back THEN Avail(m, h) ELSE m
  BY DEF ReportLoad
<1> HIDE DEF m, e
<1>3. CASE back
  <2>1. HaveHost(m, h) /\ e = Avail(m, h)
    BY <1>1, <1>2, <1>3 DEF HaveHost
  <2>2. /\ DbInv(e) /\ SameHosts(m, e) /\ Conserves(m, e)
        /\ \A g \in Hosts \ {h} : e.state[g] = m.state[g]
    BY <1>1, <2>1, MethodInv
  <2>3. db \in Db /\ m \in Db /\ e \in Db
    BY <1>1, <2>2 DEF DbInv
  <2>4. db.state[h] \in {"Silent", "Overloaded"}
    BY <1>1, <1>3
  <2>5. ASSUME NEW g \in Hosts, IsAvail(db, g), IsAvail(e, g)
        PROVE  IsAvail(m, g)
    BY <1>1, <2>4, <2>5 DEF IsAvail, HaveHost
  <2>6. Conserves(db, e)
    BY <1>1, <2>2, <2>3, <2>5, ConservesTrans DEF SameHosts
  <2>7. \A g \in Hosts : db.state[g] = "Unavail" => e.state[g] = "Unavail"
    BY <1>1, <2>2, <2>4
  <2> QED BY <1>1, <2>2, <2>6, <2>7 DEF SameHosts, e
<1>4. CASE ~back
  <2>1. e = m
    BY <1>2, <1>4
  <2> QED BY <1>1, <2>1 DEF e
<1> QED BY <1>3, <1>4

\* CreateHost adds the host of the hosts-info file, which was not known.
LEMMA CreateHostInv ==
    ASSUME IInv, NEW h \in Hosts, ~HaveHost(db, h), db' = CreateHost(h)
    PROVE  DbStep /\ Kept /\ db'.state = db.state
<1>0. DbInv(db) /\ db \in Db
  BY DEF IInv, DbInv
<1>1. CASE hostsFile[h] = NoSpec
  <2>1. db' = db
    BY <1>1 DEF CreateHost
  <2> QED BY <1>0, <2>1, ConservesSelf DEF DbStep, Kept
<1>2. CASE hostsFile[h] # NoSpec
  <2>1. hostsFile[h] \in Specs /\ db' = AddNewHost(db, h, hostsFile[h])
    BY <1>2 DEF CreateHost, IInv
  <2>2. /\ DbInv(db') /\ Conserves(db, db') /\ db'.state = db.state
        /\ db'.info = [db.info EXCEPT ![h] = hostsFile[h]]
    BY <1>0, <2>1, AddNewHostInv
  <2> QED BY <1>0, <2>2 DEF DbStep, Kept, HaveHost, Db
<1> QED BY <1>1, <1>2

\* A method of the state object of a known host.
LEMMA MethodStep ==
    ASSUME IInv, NEW h \in Hosts, HaveHost(db, h),
           db' \in {Avail(db, h), Unavail(db, h), Silent(db, h)}
    PROVE  /\ DbStep /\ Kept
           /\ \A g \in Hosts \ {h} : db'.state[g] = db.state[g]
<1>1. /\ DbInv(db') /\ SameHosts(db, db') /\ Conserves(db, db')
      /\ \A g \in Hosts \ {h} : db'.state[g] = db.state[g]
  BY MethodInv DEF IInv
<1> QED BY <1>1 DEF DbStep, Kept, SameHosts

LEMMA HostReqStep ==
    ASSUME IInv, NEW c \in Clients, NEW d \in Dprops, HostReq(c, d)
    PROVE  DbStep /\ Kept /\ db'.state = db.state
<1>0. DbInv(db)
  BY DEF IInv
<1>1. CASE \E p \in BestAvailCpus(db, d) :
             db' = AssignCpuToClient(TakeCpu(db, p[1], p[2]), p[1], c)
  <2>1. PICK p \in BestAvailCpus(db, d) :
          db' = AssignCpuToClient(TakeCpu(db, p[1], p[2]), p[1], c)
    BY <1>1
  <2>2. db.assigned[c] = NoHost
    BY DEF HostReq
  <2> QED BY <1>0, <2>1, <2>2, GrantInv DEF DbStep, Kept
<1>2. CASE db' = db
  BY <1>0, <1>2, ConservesSelf DEF DbStep, Kept
<1> QED BY <1>1, <1>2 DEF HostReq

LEMMA LdAvgStep ==
    ASSUME IInv, NEW h \in Hosts, NEW load \in Loads, LdAvg(h, load)
    PROVE  DbStep /\ Kept /\ UnavailKept
<1>1. CASE HaveHost(db, h)
  <2>1. db' = ReportLoad(h, load)
    BY <1>1 DEF LdAvg
  <2>2. /\ DbInv(db') /\ Conserves(db, db') /\ db'.info = db.info
        /\ \A g \in Hosts : db.state[g] = "Unavail" => db'.state[g] = "Unavail"
    BY <1>1, <2>1, ReportLoadInv DEF IInv
  <2> QED BY <2>2 DEF DbStep, Kept, UnavailKept
<1>2. CASE ~HaveHost(db, h)
  <2>1. db' = CreateHost(h)
    BY <1>2 DEF LdAvg
  <2> QED BY <1>2, <2>1, CreateHostInv DEF UnavailKept
<1> QED BY <1>1, <1>2

LEMMA RemoteAddStep ==
    ASSUME IInv, NEW h \in Hosts, NEW spec \in Specs, RemoteAdd(h, spec)
    PROVE  DbStep /\ Kept
<1>0. DbInv(db) /\ db \in Db
  BY DEF IInv, DbInv
<1>1. CASE HaveHost(db, h) /\ db' = Avail(db, h)
  BY <1>1, MethodStep
<1>2. CASE ~HaveHost(db, h) /\ db' = Avail(AddNewHost(db, h, spec), h)
  <2> DEFINE m == AddNewHost(db, h, spec)
  <2>1. /\ DbInv(m) /\ Conserves(db, m)
        /\ m.state = db.state /\ m.info = [db.info EXCEPT ![h] = spec]
    BY <1>0, <1>2, AddNewHostInv
  <2>2. db.state[h] = "Avail"
    BY <1>0, <1>2 DEF DbInv, NewHosts
  <2> HIDE DEF m
  <2>3. db' = m
    BY <1>2, <2>1, <2>2 DEF Avail, m
  <2> QED BY <1>0, <1>2, <2>1, <2>3 DEF DbStep, Kept, HaveHost, Db
<1>3. CASE ~HaveHost(db, h) /\ db' = CreateHost(h)
  BY <1>3, CreateHostInv
<1> QED BY <1>1, <1>2, <1>3 DEF RemoteAdd

LEMMA VisitHostStep ==
    ASSUME IInv, NEW h \in Hosts, VisitHost(h)
    PROVE  DbStep /\ Kept /\ UnavailKept
<1>0. DbInv(db) /\ db \in Db /\ HaveHost(db, h)
  BY DEF IInv, DbInv, VisitHost
<1>1. CASE SeemsDown(db, h)
  <2>1. db' = Silent(db, h)
    BY <1>1 DEF VisitHost
  <2>2. /\ DbStep /\ Kept
        /\ \A g \in Hosts \ {h} : db'.state[g] = db.state[g]
    BY <1>0, <2>1, MethodStep
  <2>3. db.state[h] = "Unavail" => db' = db
    BY <2>1 DEF Silent
  <2> QED BY <2>2, <2>3 DEF UnavailKept
<1>2. CASE ~SeemsDown(db, h)
  <2>1. db' = db
    BY <1>2 DEF VisitHost
  <2> QED BY <1>0, <2>1, ConservesSelf DEF DbStep, Kept, UnavailKept
<1> QED BY <1>1, <1>2

LEMMA UpdateStatsStep ==
    ASSUME IInv, UpdateStats
    PROVE  DbStep /\ Kept /\ UnavailKept
<1>0. DbInv(db) /\ db \in Db
  BY DEF IInv, DbInv
<1>1. /\ db' \in Db
      /\ db'.info = db.info /\ db'.state = db.state /\ db'.load = db.load
      /\ db'.set = db.set /\ db'.tiers = db.tiers /\ db'.cpus = db.cpus
      /\ db'.assigned = db.assigned
  BY <1>0 DEF UpdateStats, ClearStats, Db
<1> QED BY <1>0, <1>1, SameDb DEF DbStep, Kept, UnavailKept

LEMMA ExpireStep ==
    ASSUME IInv, NEW h \in Hosts, Expire(h)
    PROVE  DbStep /\ Kept /\ UnavailKept
<1>0. DbInv(db) /\ db \in Db
  BY DEF IInv, DbInv
<1>1. /\ db' \in Db
      /\ db'.info = db.info /\ db'.state = db.state /\ db'.load = db.load
      /\ db'.set = db.set /\ db'.tiers = db.tiers /\ db'.cpus = db.cpus
      /\ db'.assigned = db.assigned
  BY <1>0 DEF Expire, Db
<1> QED BY <1>0, <1>1, SameDb DEF DbStep, Kept, UnavailKept

\* The bounds on the CPUs of a host follow from what every step conserves.
LEMMA BoundsStep ==
    ASSUME IInv, DbStep
    PROVE  NoCpuLost' /\ CpusBounded'
<1> SUFFICES ASSUME NEW g \in Hosts, IsAvail(db', g)
             PROVE  /\ Listed(db', g) + Held(db', g) >= db'.info[g].ncpus
                    /\ Listed(db', g) + Held(db', g)
                         <= db'.info[g].ncpus + Cardinality(Clients)
  BY DEF NoCpuLost, CpusBounded
<1>1. /\ IsAvail(db, g) =>
           /\ db'.info[g] = db.info[g]
           /\ Listed(db', g) + Held(db', g) = Listed(db, g) + Held(db, g)
      /\ ~IsAvail(db, g) => Listed(db', g) = db'.info[g].ncpus
  BY DEF DbStep, Conserves
<1>2. /\ Held(db', g) \in Nat /\ Held(db', g) <= Cardinality(Clients)
      /\ Listed(db', g) \in Nat /\ db'.info[g].ncpus \in Nat
      /\ Cardinality(Clients) \in Nat
  <2>1. db' \in Db /\ HaveHost(db', g)
    BY DEF DbStep, DbInv, IsAvail
  <2> QED BY <2>1, HeldType, ListedType, FS_CardinalityType, DmucsDbAssumption
<1>3. IsAvail(db, g) =>
        /\ Listed(db, g) + Held(db, g) >= db.info[g].ncpus
        /\ Listed(db, g) + Held(db, g) <= db.info[g].ncpus + Cardinality(Clients)
  BY DEF IInv, NoCpuLost, CpusBounded
<1> HIDE DEF Listed, Held, IsAvail
<1>4. CASE IsAvail(db, g)
  BY <1>1, <1>3, <1>4
<1>5. CASE ~IsAvail(db, g)
  BY <1>1, <1>2, <1>5
<1> QED BY <1>4, <1>5

\* A known host stays known.
LEMMA KeptHosts ==
    ASSUME Kept
    PROVE  {h \in Hosts : HaveHost(db, h)} \subseteq {h \in Hosts : HaveHost(db', h)}
BY DEF Kept, HaveHost

\* A step that serves a message or ends a client keeps the search as it is.
LEMMA StepIInv ==
    ASSUME IInv, DbStep, Kept,
           hostsFile' \in [Hosts -> Specs \cup {NoSpec}],
           sweep' \subseteq sweep \/ sweep' = {h \in Hosts : HaveHost(db, h)},
           up' \in BOOLEAN
    PROVE  IInv'
<1>1. sweep' \subseteq {h \in Hosts : HaveHost(db', h)}
  BY KeptHosts DEF IInv
<1>2. NoCpuLost' /\ CpusBounded'
  BY BoundsStep
<1> QED BY <1>1, <1>2 DEF IInv, DbStep

\* The database stays as it is.
LEMMA SameStep ==
    ASSUME IInv, db' = db
    PROVE  DbStep /\ Kept /\ UnavailKept
BY ConservesSelf DEF IInv, DbStep, Kept, UnavailKept

\* Every action preserves the invariant and conserves the CPUs.
LEMMA NextIInv ==
    ASSUME IInv, Next
    PROVE  IInv' /\ Conserves(db, db')
<1>0. hostsFile \in [Hosts -> Specs \cup {NoSpec}] /\ up \in BOOLEAN
  BY DEF IInv
<1>1. ASSUME NEW c \in Clients, NEW d \in Dprops, HostReq(c, d)
      PROVE  IInv' /\ Conserves(db, db')
  <2>1. DbStep /\ Kept
    BY <1>1, HostReqStep
  <2>2. hostsFile' = hostsFile /\ sweep' = sweep /\ up' = up
    BY <1>1 DEF HostReq
  <2> QED BY <1>0, <2>1, <2>2, StepIInv DEF DbStep
<1>2. ASSUME NEW h \in Hosts, NEW load \in Loads, LdAvg(h, load)
      PROVE  IInv' /\ Conserves(db, db')
  <2>1. DbStep /\ Kept
    BY <1>2, LdAvgStep
  <2>2. hostsFile' = hostsFile /\ sweep' = sweep /\ up' = up
    BY <1>2 DEF LdAvg
  <2> QED BY <1>0, <2>1, <2>2, StepIInv DEF DbStep
<1>3. ASSUME NEW h \in Hosts, StatusUp(h)
      PROVE  IInv' /\ Conserves(db, db')
  <2>1. DbStep /\ Kept
    BY <1>3, MethodStep DEF StatusUp
  <2>2. hostsFile' = hostsFile /\ sweep' = sweep /\ up' = up
    BY <1>3 DEF StatusUp
  <2> QED BY <1>0, <2>1, <2>2, StepIInv DEF DbStep
<1>4. ASSUME NEW h \in Hosts, StatusUpUnknown(h)
      PROVE  IInv' /\ Conserves(db, db')
  <2>1. /\ db' = EmptyDb /\ hostsFile' = hostsFile /\ up' = FALSE
        /\ sweep' = {}
    BY <1>4 DEF StatusUpUnknown, Serving, MutexFree
  <2>2. DbStep
    BY <2>1, EmptyDbInv DEF DbStep
  <2>3. NoCpuLost' /\ CpusBounded'
    BY <2>2, BoundsStep
  <2> QED BY <1>0, <2>1, <2>2, <2>3 DEF IInv, DbStep
<1>5. ASSUME NEW h \in Hosts, StatusDown(h)
      PROVE  IInv' /\ Conserves(db, db')
  <2>1. DbStep /\ Kept
    BY <1>5, MethodStep DEF StatusDown
  <2>2. hostsFile' = hostsFile /\ sweep' = sweep /\ up' = up
    BY <1>5 DEF StatusDown
  <2> QED BY <1>0, <2>1, <2>2, StepIInv DEF DbStep
<1>6. ASSUME NEW h \in Hosts, NEW spec \in Specs, RemoteAdd(h, spec)
      PROVE  IInv' /\ Conserves(db, db')
  <2>1. DbStep /\ Kept
    BY <1>6, RemoteAddStep
  <2>2. sweep' = sweep /\ up' = up
    BY <1>6 DEF RemoteAdd
  <2>3. hostsFile' \in [Hosts -> Specs \cup {NoSpec}]
    BY <1>0, <1>6 DEF RemoteAdd
  <2> QED BY <1>0, <2>1, <2>2, <2>3, StepIInv DEF DbStep
<1>7. ASSUME NEW c \in Clients, ClientClose(c)
      PROVE  IInv' /\ Conserves(db, db')
  <2>1. /\ DbInv(db') /\ Conserves(db, db')
        /\ db'.info = db.info
    BY <1>7, ReleaseInv DEF ClientClose, IInv
  <2>2. hostsFile' = hostsFile /\ sweep' = sweep /\ up' = up
    BY <1>7 DEF ClientClose
  <2> QED BY <1>0, <2>1, <2>2, StepIInv DEF DbStep, Kept
<1>8. ASSUME SilentSearch
      PROVE  IInv' /\ Conserves(db, db')
  <2>1. DbStep /\ Kept
    BY <1>8, SameStep DEF SilentSearch
  <2>2. hostsFile' = hostsFile /\ sweep' = {h \in Hosts : HaveHost(db, h)} /\ up' = up
    BY <1>8 DEF SilentSearch
  <2> QED BY <1>0, <2>1, <2>2, StepIInv DEF DbStep
<1>9. ASSUME NEW h \in Hosts, VisitHost(h)
      PROVE  IInv' /\ Conserves(db, db')
  <2>1. DbStep /\ Kept
    BY <1>9, VisitHostStep
  <2>2. hostsFile' = hostsFile /\ sweep' \subseteq sweep /\ up' = up
    BY <1>9 DEF VisitHost
  <2> QED BY <1>0, <2>1, <2>2, StepIInv DEF DbStep
<1>10. ASSUME UpdateStats
       PROVE  IInv' /\ Conserves(db, db')
  <2>1. DbStep /\ Kept
    BY <1>10, UpdateStatsStep
  <2>2. hostsFile' = hostsFile /\ sweep' = sweep /\ up' = up
    BY <1>10 DEF UpdateStats
  <2> QED BY <1>0, <2>1, <2>2, StepIInv DEF DbStep
<1>11. ASSUME NEW h \in Hosts, Expire(h)
       PROVE  IInv' /\ Conserves(db, db')
  <2>1. DbStep /\ Kept
    BY <1>11, ExpireStep
  <2>2. hostsFile' = hostsFile /\ sweep' = sweep /\ up' = up
    BY <1>11 DEF Expire
  <2> QED BY <1>0, <2>1, <2>2, StepIInv DEF DbStep
<1>12. ASSUME NEW h \in Hosts, NEW spec \in Specs, EditHostsFile(h, spec)
       PROVE  IInv' /\ Conserves(db, db')
  <2>1. DbStep /\ Kept
    BY <1>12, SameStep DEF EditHostsFile
  <2>2. sweep' = sweep /\ up' = up /\ hostsFile' \in [Hosts -> Specs \cup {NoSpec}]
    BY <1>0, <1>12 DEF EditHostsFile
  <2> QED BY <1>0, <2>1, <2>2, StepIInv DEF DbStep
<1>13. ASSUME Restart
       PROVE  IInv' /\ Conserves(db, db')
  <2>1. DbStep /\ Kept
    BY <1>13, SameStep DEF Restart
  <2>2. hostsFile' = hostsFile /\ sweep' = sweep /\ up' = TRUE
    BY <1>13 DEF Restart
  <2> QED BY <1>0, <2>1, <2>2, StepIInv DEF DbStep
<1> QED
  BY <1>1, <1>2, <1>3, <1>4, <1>5, <1>6, <1>7, <1>8, <1>9, <1>10, <1>11, <1>12,
     <1>13 DEF Next

\* The server starts with no host, no grant and no search.
LEMMA InitIInv ==
    ASSUME Init
    PROVE  IInv
<1>1. DbInv(db)
  BY EmptyDbInv DEF Init
<1>2. \A h \in Hosts : ~IsAvail(db, h)
  BY DEF Init, IsAvail, HaveHost, EmptyDb
<1>3. NoCpuLost /\ CpusBounded
  BY <1>2 DEF NoCpuLost, CpusBounded
<1>4. /\ hostsFile \in [Hosts -> Specs \cup {NoSpec}]
      /\ sweep = {} /\ up \in BOOLEAN
  BY ConfiguredFileAssumption DEF Init
<1> QED BY <1>1, <1>3, <1>4 DEF IInv

LEMMA StuttersIInv ==
    ASSUME IInv, [Next]_vars
    PROVE  IInv'
<1>1. CASE Next
  BY <1>1, NextIInv
<1>2. CASE UNCHANGED vars
  <2>1. UNCHANGED <<db, hostsFile, sweep, up>>
    BY <1>2 DEF vars
  <2>2. DbStep /\ Kept
    BY <2>1, SameStep
  <2> QED BY <2>1, <2>2, StepIInv DEF IInv
<1> QED BY <1>1, <1>2

\* The inductive invariant holds in every behaviour of the server.
THEOREM Invariance == Spec => []IInv
<1>1. Init => IInv
  BY InitIInv
<1>2. IInv /\ [Next]_vars => IInv'
  BY StuttersIInv
<1> QED BY <1>1, <1>2, PTL DEF Spec

\* The database keeps its type, however many hosts, clients and tiers there
\* are: no list is left with a negative number of CPUs.
THEOREM TypeCorrect == Spec => []TypeOK
<1>1. IInv => TypeOK
  BY DEF IInv, DbInv, TypeOK
<1> QED BY <1>1, Invariance, PTL

\* Every host is in exactly the set of its state.
THEOREM SetsCorrect == Spec => []HostSetsMatchState
<1>1. IInv => HostSetsMatchState
  <2> SUFFICES ASSUME IInv, NEW s \in States
               PROVE  db.set[s] = {h \in Hosts : HaveHost(db, h) /\ db.state[h] = s}
    BY DEF HostSetsMatchState
  <2>1. db.set[s] \subseteq Hosts
    BY DEF IInv, DbInv, Db
  <2>2. \A h \in Hosts : h \in db.set[s] <=> (HaveHost(db, h) /\ db.state[h] = s)
    BY DEF IInv, DbInv, SetsMatch
  <2> QED BY <2>1, <2>2
<1> QED BY <1>1, Invariance, PTL

\* CPUs are listed only under the present tier of an available host.
THEOREM CpusAlwaysPlaced == Spec => []CpusPlaced
<1>1. IInv => CpusPlaced
  BY DEF IInv, DbInv, Placed, CpusPlaced
<1> QED BY <1>1, Invariance, PTL

\* delFromAvailDb never takes its early return on an available host.
THEOREM AvailTierAlwaysExists == Spec => []AvailTierExists
<1>1. IInv => AvailTierExists
  BY DEF IInv, DbInv, TierExists, AvailTierExists
<1> QED BY <1>1, Invariance, PTL

\* The host of a CPU that was given out is in the database.
THEOREM GrantsAlwaysKnown == Spec => []GrantsKnown
<1>1. IInv => GrantsKnown
  BY DEF IInv, DbInv, GrantsKnownIn, GrantsKnown
<1> QED BY <1>1, Invariance, PTL

\* No CPU of an available host is lost, and its CPUs exceed the real ones by
\* no more than the clients (assignCpuToClient, releaseCpu, addToAvailDb).
THEOREM CpusAlwaysAccounted == Spec => []CpusAccounted
<1>1. IInv => CpusAccounted
  BY DEF IInv, CpusAccounted
<1> QED BY <1>1, Invariance, PTL

\* While a host stays available its CPUs, listed and assigned, keep their sum.
THEOREM CpusAlwaysConserved == Spec => CpusConserved
<1>1. IInv /\ [Next]_vars =>
        [\A h \in Hosts : IsAvail(db, h) /\ IsAvail(db', h) =>
           Listed(db', h) + Held(db', h) = Listed(db, h) + Held(db, h)]_vars
  <2> SUFFICES ASSUME IInv, Next
               PROVE  \A h \in Hosts : IsAvail(db, h) /\ IsAvail(db', h) =>
                        Listed(db', h) + Held(db', h) = Listed(db, h) + Held(db, h)
    OBVIOUS
  <2>1. Conserves(db, db')
    BY NextIInv
  <2> HIDE DEF Listed, Held, IsAvail
  <2> QED BY <2>1 DEF Conserves
<1> QED BY <1>1, Invariance, PTL DEF Spec, CpusConserved

\* Only an "up" or an "add" of the host itself, or the loss of the server,
\* ends the absence of a host made unavailable: no load average, and no search
\* under way when the "down" arrives, brings it back.
THEOREM DownSticks == Spec => AdminDownSticks
<1> DEFINE Ends(h) ==
             /\ HaveHost(db, h) /\ db.state[h] = "Unavail"
             /\ ~(HaveHost(db', h) /\ db'.state[h] = "Unavail")
           Allowed(h) ==
             \/ StatusUp(h)
             \/ \E spec \in Specs : RemoteAdd(h, spec)
             \/ \E g \in Hosts : StatusUpUnknown(g)
<1>1. ASSUME IInv, Next, NEW h \in Hosts, Ends(h)
      PROVE  Allowed(h)
  <2>0. DbInv(db) /\ db \in Db
    BY <1>1 DEF IInv, DbInv
  <2>1. ~(Kept /\ UnavailKept)
    BY <1>1 DEF Kept, UnavailKept, HaveHost
  <2>2. ~(Kept /\ db'.state = db.state)
    BY <2>1 DEF UnavailKept
  <2>3. ASSUME NEW g \in Hosts, Kept, g # h,
               \A k \in Hosts \ {g} : db'.state[k] = db.state[k]
        PROVE  FALSE
    BY <1>1, <2>3 DEF Kept, HaveHost
  <2>4. ASSUME NEW c \in Clients, NEW d \in Dprops, HostReq(c, d)
        PROVE  FALSE
    BY <1>1, <2>2, <2>4, HostReqStep
  <2>5. ASSUME NEW g \in Hosts, NEW load \in Loads, LdAvg(g, load)
        PROVE  FALSE
    BY <1>1, <2>1, <2>5, LdAvgStep
  <2>6. ASSUME NEW g \in Hosts, StatusUp(g)
        PROVE  g = h
    BY <1>1, <2>3, <2>6, MethodStep DEF StatusUp
  <2>7. ASSUME NEW g \in Hosts, StatusDown(g)
        PROVE  FALSE
    <3>1. /\ DbStep /\ Kept /\ HaveHost(db, g) /\ db' = Unavail(db, g)
          /\ \A k \in Hosts \ {g} : db'.state[k] = db.state[k]
      BY <1>1, <2>7, MethodStep DEF StatusDown
    <3>2. CASE g = h
      <4>1. db' = db
        BY <1>1, <3>1, <3>2 DEF Unavail
      <4> QED BY <1>1, <4>1
    <3> QED BY <2>3, <3>1, <3>2
  <2>8. ASSUME NEW g \in Hosts, NEW spec \in Specs, RemoteAdd(g, spec)
        PROVE  g = h
    <3>1. CASE HaveHost(db, g) /\ db' = Avail(db, g)
      BY <1>1, <2>3, <3>1, MethodStep
    <3>2. CASE ~HaveHost(db, g) /\ db' = Avail(AddNewHost(db, g, spec), g)
      <4> DEFINE m == AddNewHost(db, g, spec)
      <4>1. m.state = db.state /\ db.state[g] = "Avail"
        BY <2>0, <3>2, AddNewHostInv DEF DbInv, NewHosts
      <4> HIDE DEF m
      <4>2. db' = m
        BY <3>2, <4>1 DEF Avail, m
      <4>3. Kept
        BY <1>1, <2>8, RemoteAddStep
      <4> QED BY <2>2, <4>1, <4>2, <4>3
    <3>3. CASE ~HaveHost(db, g) /\ db' = CreateHost(g)
      BY <1>1, <2>2, <3>3, CreateHostInv
    <3> QED BY <2>8, <3>1, <3>2, <3>3 DEF RemoteAdd
  <2>9. ASSUME NEW c \in Clients, ClientClose(c)
        PROVE  FALSE
    BY <2>0, <2>2, <2>9, ReleaseInv DEF ClientClose, Kept
  <2>10. ASSUME NEW g \in Hosts, VisitHost(g)
         PROVE  FALSE
    BY <1>1, <2>1, <2>10, VisitHostStep
  <2>11. ASSUME UpdateStats PROVE FALSE
    BY <1>1, <2>1, <2>11, UpdateStatsStep
  <2>12. ASSUME NEW g \in Hosts, Expire(g) PROVE FALSE
    BY <1>1, <2>1, <2>12, ExpireStep
  <2>13. db' # db
    BY <1>1
  <2>14. ~SilentSearch /\ ~Restart
    BY <2>13 DEF SilentSearch, Restart
  <2>15. \A g \in Hosts, spec \in Specs : ~EditHostsFile(g, spec)
    BY <2>13 DEF EditHostsFile
  <2> QED
    BY <1>1, <2>4, <2>5, <2>6, <2>7, <2>8, <2>9, <2>10, <2>11, <2>12, <2>14, <2>15
    DEF Next
<1>2. IInv /\ [Next]_vars => [\A h \in Hosts : Ends(h) => Allowed(h)]_vars
  BY <1>1
<1>3. Spec => [][\A h \in Hosts : Ends(h) => Allowed(h)]_vars
  <2> HIDE DEF Ends, Allowed
  <2> QED BY <1>2, Invariance, PTL DEF Spec
<1> QED BY <1>3 DEF AdminDownSticks

----------------------------------------------------------------------------
(* The main loop and the programs it serves.  Each step of the server that *)
(* DmucsClients can take is one of DmucsServer's, so all that was proved   *)
(* above holds there; what is added relates the grants of the database to  *)
(* the sockets and to what the gethost processes do.                       *)

SocketType ==
    [at : {"none", "queued", "open", "shut", "lost"}, fin : BOOLEAN,
     msgs : Seq(Messages \cup {Request}), replies : Seq(Hosts \cup {NoHost})]

ProcType ==
    [pc : {"start", "open", "wait", "run", "orphan", "end"},
     host : Hosts \cup {NoHost}, waited : Int]

\* The server has given x to c and still knows it, or is lost to c.
Has(c, x) ==
    \/ sock[c].at = "lost"
    \/ sock[c].at = "open" /\ db.assigned[c] = x

\* A socket ends with its process; before, what has been answered, and what
\* the process took from it, is a CPU the database has assigned to it.
ClientInv(c) ==
    /\ sock[c].fin = TRUE => proc[c].pc = "end" /\ sock[c].replies = <<>>
    /\ sock[c].at = "shut" => sock[c].fin = TRUE
    /\ proc[c].pc = "start" => sock[c] = Unconnected
    /\ sock[c].msgs # <<>> =>
         sock[c].at \in {"queued", "open"} /\ Head(sock[c].msgs) = Request
    /\ sock[c].replies # <<>> /\ Reply(c) # NoHost => Has(c, Reply(c))
    /\ proc[c].host # NoHost =>
         proc[c].pc \in {"run", "orphan"} /\ Has(c, proc[c].host)

ToolInv(t) == sock[t].msgs # <<>> => Head(sock[t].msgs) \in Sends[t]

\* A socket the server has accepted is not waiting in the backlog.
Accepted(p) ==
    /\ p \in Programs
    /\ p \in Clients => proc[p].pc # "start" /\ sock[p].at # "queued"

Watching ==
    /\ fdList \in Seq(Programs)
    /\ \A i \in 1..Len(fdList) : Accepted(fdList[i])

Waiting ==
    /\ backlog \in Seq(Programs)
    /\ \A i \in 1..Len(backlog) :
         backlog[i] \in Clients =>
            /\ sock[backlog[i]].at = "queued"
            /\ \A j \in 1..Len(backlog) : backlog[j] = backlog[i] => j = i

Looping ==
    /\ loop \in [pc : {"select", "serve", "accept", "read"},
                 at : Programs \cup {NoHost}, more : BOOLEAN]
    /\ loop.pc \in {"serve", "read"} => Accepted(loop.at)
    /\ loop.pc = "accept" => backlog # <<>>
    /\ loop.pc # "serve" => loop.more = FALSE
    /\ loop.more = TRUE => backlog # <<>>

ClientsInv ==
    /\ sock \in [Programs -> SocketType]
    /\ proc \in [Clients -> ProcType]
    /\ \A c \in Clients : ClientInv(c)
    /\ \A t \in Tools : ToolInv(t)
    /\ Watching
    /\ Waiting
    /\ Looping

\* What a handler has to do with the message it is given.
LEMMA MessageOf ==
    ASSUME ClientsInv, HandleReq, sock[loop.at].msgs # <<>>
    PROVE  LET p == loop.at
               m == Head(sock[p].msgs)
           IN  \/ p \in Clients /\ m = Request /\ m.kind = "host"
               \/ p \in Tools /\ m \in Messages /\ m.kind # "host"
<1> DEFINE p == loop.at
           m == Head(sock[p].msgs)
<1>1. p \in Clients \/ p \in Tools
  BY DEF ClientsInv, Looping, Accepted, Programs, HandleReq
<1>2. p \in Clients => m = Request
  BY DEF ClientsInv, ClientInv
<1>3. p \in Tools => m \in Messages
  BY DmucsClientsAssumption DEF ClientsInv, ToolInv
<1>4. Request.kind = "host"
  BY DEF Request
<1>5. \A x \in Messages : x.kind # "host"
  BY DEF Messages
<1> QED BY <1>1, <1>2, <1>3, <1>4, <1>5

\* A tool's message makes the server do what DmucsServer allows.
LEMMA ObeyStep ==
    ASSUME NEW m \in Messages, Obey(m)
    PROVE  [Next]_vars
<1>1. CASE m.kind = "load"
  <2>1. m.host \in Hosts /\ m.load \in Loads
    BY <1>1 DEF Messages
  <2>2. LdAvg(m.host, m.load)
    BY <1>1 DEF Obey
  <2> QED BY <2>1, <2>2 DEF Next
<1>2. CASE m.kind = "up"
  <2>1. m.host \in Hosts /\ StatusUp(m.host)
    BY <1>2 DEF Messages, Obey
  <2> QED BY <2>1 DEF Next
<1>3. CASE m.kind = "down"
  <2>1. m.host \in Hosts
    BY <1>3 DEF Messages
  <2>2. CASE HaveHost(db, m.host)
    <3>1. StatusDown(m.host)
      BY <1>3, <2>2 DEF Obey
    <3> QED BY <2>1, <3>1 DEF Next
  <2>3. CASE ~HaveHost(db, m.host)
    BY <1>3, <2>3 DEF Obey, serverVars
  <2> QED BY <2>2, <2>3
<1>4. CASE m.kind = "add"
  <2>1. m.host \in Hosts /\ m.spec \in Specs
    BY <1>4 DEF Messages
  <2>2. RemoteAdd(m.host, m.spec)
    BY <1>4 DEF Obey
  <2> QED BY <2>1, <2>2 DEF Next
<1>5. CASE m.kind \in {"monitor", "malformed"}
  BY <1>5 DEF Obey, serverVars
<1>6. m.kind \in {"load", "up", "down", "add", "monitor", "malformed"}
  BY DEF Messages
<1> QED BY <1>1, <1>2, <1>3, <1>4, <1>5, <1>6

LEMMA HandleReqStep ==
    ASSUME ClientsInv, HandleReq
    PROVE  [Next]_vars
<1> DEFINE p == loop.at
           m == Head(sock[p].msgs)
<1>1. CASE HungUp(p)
  <2>1. CASE p \in Clients /\ db.assigned[p] # NoHost
    BY <1>1, <2>1 DEF HungUp, Next
  <2>2. CASE ~(p \in Clients /\ db.assigned[p] # NoHost)
    BY <1>1, <2>2 DEF HungUp, serverVars
  <2> QED BY <2>1, <2>2
<1>2. CASE sock[p].msgs # <<>> /\ m.kind = "host" /\ Answer(p)
  <2>1. p \in Clients
    BY <1>2, MessageOf
  <2>2. PICK d \in Dprops : HostReq(p, d)
    BY <1>2 DEF Answer
  <2> QED BY <2>1, <2>2 DEF Next
<1>3. CASE sock[p].msgs # <<>> /\ m.kind # "host" /\ Obey(m) /\ RemoveFd(p)
  <2>1. m \in Messages
    BY <1>3, MessageOf DEF Request
  <2> QED BY <1>3, <2>1, ObeyStep
<1>4. CASE sock[p].msgs # <<>> /\ m.kind # "host" /\ Crash(m)
  <2>1. m \in Messages
    BY <1>4, MessageOf DEF Request
  <2>2. m.host \in Hosts /\ StatusUpUnknown(m.host)
    BY <1>4, <2>1 DEF Crash, Messages
  <2> QED BY <2>2 DEF Next
<1> QED BY <1>1, <1>2, <1>3, <1>4 DEF HandleReq

\* Every step of the server among its clients is a step of DmucsServer.
LEMMA ServerStep ==
    ASSUME ClientsInv, [ClientsNext]_allVars
    PROVE  [Next]_vars
<1>1. CASE LoopStep
  <2>1. CASE Select \/ Accept
    BY <2>1 DEF Select, Accept, serverVars
  <2>2. CASE HandleReq
    BY <2>2, HandleReqStep
  <2> QED BY <1>1, <2>1, <2>2 DEF LoopStep
<1>2. CASE ServerThreads
  BY <1>2 DEF ServerThreads, Next
<1>3. ASSUME NEW t \in Tools, ToolConnects(t) \/ ToolSends(t)
      PROVE  UNCHANGED vars
  BY <1>3 DEF ToolConnects, ToolSends, Connect, serverVars
<1>4. ASSUME NEW c \in Clients, GetHostStep(c)
      PROVE  UNCHANGED vars
  BY <1>4 DEF GetHostStep, GetHostOpens, GetHostAlone, GetHostAsks, Granted,
       AsksAgain, GivesUp, ServerGone, CommandEnds, Killed, Connect, serverVars
<1>5. CASE UNCHANGED allVars
  BY <1>5 DEF allVars, vars
<1> QED BY <1>1, <1>2, <1>3, <1>4, <1>5 DEF ClientsNext

\* What the steps of the server do to what is assigned to the clients.
LEMMA AddNewHostGrants ==
    ASSUME NEW d \in Db, NEW h \in Hosts, NEW spec \in Specs
    PROVE  AddNewHost(d, h, spec).assigned = d.assigned
BY DEF Db, AddNewHost, AddToAvailDb, AddCpusToTier, AddToHostSet

LEMMA CreateHostGrants ==
    ASSUME IInv, NEW h \in Hosts
    PROVE  CreateHost(h).assigned = db.assigned
<1>1. hostsFile[h] # NoSpec => hostsFile[h] \in Specs
  BY DEF IInv
<1> QED BY <1>1, AddNewHostGrants DEF CreateHost, IInv, DbInv

LEMMA ReportLoadGrants ==
    ASSUME IInv, NEW h \in Hosts, HaveHost(db, h), NEW load \in Loads
    PROVE  ReportLoad(h, load).assigned = db.assigned
<1> DEFINE m == UpdateTier(db, h, load)
           e == ReportLoad(h, load)
<1>1. DbInv(m) /\ m.info = db.info /\ m.assigned = db.assigned
  BY UpdateTierInv DEF IInv
<1>2. e = m \/ e = Avail(m, h)
  BY DEF ReportLoad
<1> HIDE DEF m, e
<1>3. CASE e = Avail(m, h)
  <2>1. HaveHost(m, h)
    BY <1>1 DEF HaveHost
  <2>2. SameHosts(m, e)
    BY <1>1, <1>3, <2>1, MethodInv
  <2> QED BY <1>1, <2>2 DEF SameHosts, e
<1> QED BY <1>1, <1>2, <1>3 DEF e

LEMMA RemoteAddGrants ==
    ASSUME IInv, NEW h \in Hosts, NEW spec \in Specs, RemoteAdd(h, spec)
    PROVE  db'.assigned = db.assigned
<1>0. DbInv(db) /\ db \in Db
  BY DEF IInv, DbInv
<1>1. CASE HaveHost(db, h) /\ db' = Avail(db, h)
  BY <1>0, <1>1, MethodInv DEF SameHosts
<1>2. CASE ~HaveHost(db, h) /\ db' = Avail(AddNewHost(db, h, spec), h)
  <2> DEFINE m == AddNewHost(db, h, spec)
  <2>1. m.state = db.state /\ m.assigned = db.assigned
    BY <1>0, <1>2, AddNewHostInv, AddNewHostGrants
  <2>2. db.state[h] = "Avail"
    BY <1>0, <1>2 DEF DbInv, NewHosts
  <2> HIDE DEF m
  <2>3. db' = m
    BY <1>2, <2>1, <2>2 DEF Avail, m
  <2> QED BY <2>1, <2>3
<1>3. CASE ~HaveHost(db, h) /\ db' = CreateHost(h)
  BY <1>3, CreateHostGrants
<1> QED BY <1>1, <1>2, <1>3 DEF RemoteAdd

LEMMA ObeyGrants ==
    ASSUME IInv, NEW m \in Messages, Obey(m)
    PROVE  db'.assigned = db.assigned
<1>0. DbInv(db)
  BY DEF IInv
<1>1. CASE m.kind = "load"
  <2>1. m.host \in Hosts /\ m.load \in Loads
    BY <1>1 DEF Messages
  <2>2. LdAvg(m.host, m.load)
    BY <1>1 DEF Obey
  <2> QED BY <2>1, <2>2, ReportLoadGrants, CreateHostGrants DEF LdAvg
<1>2. CASE m.kind = "up"
  <2>1. m.host \in Hosts /\ StatusUp(m.host)
    BY <1>2 DEF Messages, Obey
  <2>2. HaveHost(db, m.host) /\ db' = Avail(db, m.host)
    BY <2>1 DEF StatusUp
  <2> QED BY <1>0, <2>1, <2>2, MethodInv DEF SameHosts
<1>3. CASE m.kind = "down"
  <2>1. m.host \in Hosts
    BY <1>3 DEF Messages
  <2>2. CASE HaveHost(db, m.host)
    <3>1. StatusDown(m.host)
      BY <1>3, <2>2 DEF Obey
    <3>2. db' = Unavail(db, m.host)
      BY <3>1 DEF StatusDown
    <3> QED BY <1>0, <2>1, <2>2, <3>2, MethodInv DEF SameHosts
  <2>3. CASE ~HaveHost(db, m.host)
    BY <1>3, <2>3 DEF Obey, serverVars, vars
  <2> QED BY <2>2, <2>3
<1>4. CASE m.kind = "add"
  <2>1. m.host \in Hosts /\ m.spec \in Specs
    BY <1>4 DEF Messages
  <2>2. RemoteAdd(m.host, m.spec)
    BY <1>4 DEF Obey
  <2> QED BY <2>1, <2>2, RemoteAddGrants
<1>5. CASE m.kind \in {"monitor", "malformed"}
  BY <1>5 DEF Obey, serverVars, vars
<1>6. m.kind \in {"load", "up", "down", "add", "monitor", "malformed"}
  BY DEF Messages
<1> QED BY <1>1, <1>2, <1>3, <1>4, <1>5, <1>6

\* A request and the end of a client concern nobody else's CPU.
LEMMA HostReqGrants ==
    ASSUME IInv, NEW c \in Clients, NEW d \in Dprops, HostReq(c, d)
    PROVE  \A b \in Clients \ {c} : db'.assigned[b] = db.assigned[b]
<1>0. db \in Db
  BY DEF IInv, DbInv
<1>1. ASSUME NEW p \in BestAvailCpus(db, d),
             db' = AssignCpuToClient(TakeCpu(db, p[1], p[2]), p[1], c)
      PROVE  db'.assigned = [db.assigned EXCEPT ![c] = p[1]]
  <2> DEFINE e == TakeCpu(db, p[1], p[2])
             f == [e EXCEPT !.assigned[c] = p[1]]
             n == NumAssigned(f, DpropOf[p[1]])
  <2>1. e \in [info : {db.info}, state : {db.state}, load : {db.load},
               fresh : {db.fresh}, set : {db.set}, tiers : {db.tiers},
               cpus : {e.cpus}, assigned : {db.assigned}, peak : {db.peak}]
    BY <1>0 DEF TakeCpu, Db
  <2> HIDE DEF e
  <2>2. /\ f.assigned = [db.assigned EXCEPT ![c] = p[1]]
        /\ [f EXCEPT !.peak[DpropOf[p[1]]] = IF n > @ THEN n ELSE @].assigned = f.assigned
    BY <2>1
  <2>3. AssignCpuToClient(e, p[1], c)
          = [f EXCEPT !.peak[DpropOf[p[1]]] = IF n > @ THEN n ELSE @]
    BY DEF AssignCpuToClient
  <2> QED BY <1>1, <2>2, <2>3 DEF e
<1>2. db.assigned \in [Clients -> Hosts \cup {NoHost}]
  BY <1>0 DEF Db
<1> QED BY <1>1, <1>2 DEF HostReq

LEMMA CloseGrants ==
    ASSUME IInv, NEW c \in Clients, ClientClose(c)
    PROVE  \A b \in Clients \ {c} : db'.assigned[b] = db.assigned[b]
<1> DEFINE h == db.assigned[c]
           f == [db EXCEPT !.assigned[c] = NoHost]
<1>0. db \in Db /\ h \in Hosts /\ HaveHost(db, h)
  BY DEF IInv, DbInv, GrantsKnownIn, Db, ClientClose
<1>1. f \in Db /\ \A b \in Clients \ {c} : f.assigned[b] = db.assigned[b]
  BY <1>0 DEF Db
<1>2. db' = f \/ db' = AddCpusToTier(f, h, GetTier(db, h), 1)
  BY DEF ClientClose, ReleaseCpu
<1>3. GetTier(db, h) \in Tiers
  BY <1>0, GetTierType
<1> HIDE DEF f, h
<1>4. AddCpusToTier(f, h, GetTier(db, h), 1).assigned = f.assigned
  BY <1>0, <1>1, <1>3, AddCpusEffect DEF SameHosts
<1> QED BY <1>1, <1>2, <1>4

LEMMA ThreadsGrants ==
    ASSUME IInv, ServerThreads
    PROVE  db'.assigned = db.assigned
<1>0. DbInv(db) /\ db \in Db
  BY DEF IInv, DbInv
<1>1. CASE SilentSearch \/ Restart
  BY <1>1 DEF SilentSearch, Restart
<1>2. ASSUME NEW h \in Hosts, VisitHost(h)
      PROVE  db'.assigned = db.assigned
  <2>1. HaveHost(db, h) /\ (db' = db \/ db' = Silent(db, h))
    BY <1>2 DEF VisitHost, IInv
  <2> QED BY <1>0, <2>1, MethodInv DEF SameHosts
<1>3. ASSUME NEW h \in Hosts, Expire(h)
      PROVE  db'.assigned = db.assigned
  BY <1>0, <1>3 DEF Expire, Db
<1> QED BY <1>1, <1>2, <1>3 DEF ServerThreads

\* One message, or one answer, in a socket.
LEMMA OneMessage ==
    ASSUME NEW S, NEW m \in S
    PROVE  <<m>> \in Seq(S) /\ <<m>> # <<>> /\ Head(<<m>>) = m /\ <<>> \in Seq(S)
OBVIOUS

LEMMA WrittenEffect ==
    ASSUME ClientsInv, NEW p \in Programs, NEW m \in Messages \cup {Request},
           NEW w, w = Written(p, m)
    PROVE  /\ w \in SocketType
           /\ w.at = sock[p].at /\ w.fin = sock[p].fin /\ w.replies = sock[p].replies
           /\ \/ Connected(p) /\ Head(w.msgs) = m
              \/ w.msgs = sock[p].msgs
<1>1. sock[p] \in SocketType
  BY DEF ClientsInv
<1>2. CASE Connected(p)
  <2>1. w = [sock[p] EXCEPT !.msgs = <<m>>]
    BY <1>2 DEF Written
  <2>2. <<m>> \in Seq(Messages \cup {Request}) /\ Head(<<m>>) = m
    BY OneMessage
  <2>3. w.msgs = <<m>>
    BY <1>1, <2>1 DEF SocketType
  <2> QED BY <1>1, <1>2, <2>1, <2>2, <2>3 DEF SocketType
<1>3. CASE ~Connected(p)
  BY <1>1, <1>3 DEF Written
<1> QED BY <1>2, <1>3

\* What a step has to leave alone for the invariant of a client, or of the
\* lists of sockets, to stay.
LEMMA ClientStays ==
    ASSUME NEW c \in Clients, ClientInv(c), sock'[c] = sock[c], proc'[c] = proc[c],
           db'.assigned[c] = db.assigned[c]
    PROVE  ClientInv(c)'
BY DEF ClientInv, Has, Reply

LEMMA AcceptedStays ==
    ASSUME NEW p, Accepted(p),
           \A c \in Clients : /\ proc'[c].pc = "start" => proc[c].pc = "start"
                              /\ sock'[c].at = "queued" =>
                                   sock[c].at = "queued" \/ proc[c].pc = "start"
    PROVE  Accepted(p)'
BY DEF Accepted

LEMMA ListsStay ==
    ASSUME ClientsInv, UNCHANGED <<fdList, backlog, loop>>,
           \A c \in Clients : /\ proc'[c].pc = "start" => proc[c].pc = "start"
                              /\ sock'[c].at = "queued" <=> sock[c].at = "queued"
    PROVE  Watching' /\ Waiting' /\ Looping'
<1>1. ASSUME NEW p, Accepted(p) PROVE Accepted(p)'
  BY <1>1, AcceptedStays
<1>2. Watching'
  BY <1>1 DEF ClientsInv, Watching
<1>3. Waiting'
  BY DEF ClientsInv, Waiting
<1>4. Looping'
  BY <1>1 DEF ClientsInv, Looping
<1> QED BY <1>2, <1>3, <1>4

\* A step of one gethost that leaves the server alone.
LEMMA OneClient ==
    ASSUME ClientsInv, NEW c \in Clients, UNCHANGED <<db, fdList, backlog, loop>>,
           sock' \in [Programs -> SocketType], proc' \in [Clients -> ProcType],
           \A p \in Programs \ {c} : sock'[p] = sock[p],
           \A b \in Clients \ {c} : proc'[b] = proc[b],
           sock'[c].at = sock[c].at, proc'[c].pc # "start", ClientInv(c)'
    PROVE  ClientsInv'
<1>1. \A b \in Clients : ClientInv(b)'
  <2> SUFFICES ASSUME NEW b \in Clients, b # c PROVE ClientInv(b)'
    OBVIOUS
  <2>1. ClientInv(b) /\ sock'[b] = sock[b] /\ proc'[b] = proc[b]
    BY DEF ClientsInv, Programs
  <2> QED BY <2>1, ClientStays
<1>2. \A t \in Tools : ToolInv(t)'
  BY DmucsClientsAssumption DEF ClientsInv, ToolInv, Programs
<1>3. \A b \in Clients : /\ proc'[b].pc = "start" => proc[b].pc = "start"
                         /\ sock'[b].at = "queued" <=> sock[b].at = "queued"
  BY DEF Programs
<1>4. Watching' /\ Waiting' /\ Looping'
  BY <1>3, ListsStay
<1> QED BY <1>1, <1>2, <1>4 DEF ClientsInv

\* A process that ends takes its socket with it.
LEMMA ExitsKeeps ==
    ASSUME ClientsInv, NEW c \in Clients, Exits(c), UNCHANGED <<db, fdList, backlog, loop>>
    PROVE  ClientsInv'
<1>1. /\ sock \in [Programs -> SocketType] /\ proc \in [Clients -> ProcType]
      /\ c \in Programs /\ ClientInv(c)
  BY DEF ClientsInv, Programs
<1>2. <<>> \in Seq(Hosts \cup {NoHost})
  OBVIOUS
<1>3. /\ sock' \in [Programs -> SocketType]
      /\ \A p \in Programs \ {c} : sock'[p] = sock[p]
      /\ sock'[c].at = sock[c].at /\ sock'[c].fin = TRUE
      /\ sock'[c].msgs = sock[c].msgs /\ sock'[c].replies = <<>>
  BY <1>1, <1>2 DEF Exits, SocketType
<1>4. /\ proc' \in [Clients -> ProcType]
      /\ \A b \in Clients \ {c} : proc'[b] = proc[b]
      /\ proc'[c].pc = "end" /\ proc'[c].host = NoHost
  BY <1>1 DEF Exits, ProcType
<1>5. ClientInv(c)'
  BY <1>1, <1>3, <1>4 DEF ClientInv
<1> QED BY <1>3, <1>4, <1>5, OneClient

LEMMA AskKeeps ==
    ASSUME ClientsInv, NEW c \in Clients, UNCHANGED <<db, fdList, backlog, loop>>,
           proc[c].pc \in {"open", "wait"},
           NEW s \in SocketType, s.at = sock[c].at, s.fin = sock[c].fin,
           s.replies = sock[c].replies \/ s.replies = <<>>,
           (Connected(c) /\ Head(s.msgs) = Request) \/ s.msgs = sock[c].msgs,
           sock' = [sock EXCEPT ![c] = s],
           proc' \in [Clients -> ProcType],
           \A b \in Clients \ {c} : proc'[b] = proc[b],
           proc'[c].pc = "wait", proc'[c].host = proc[c].host
    PROVE  ClientsInv'
<1>1. /\ sock \in [Programs -> SocketType] /\ proc \in [Clients -> ProcType]
      /\ c \in Programs /\ ClientInv(c)
  BY DEF ClientsInv, Programs
<1>2. /\ sock' \in [Programs -> SocketType] /\ sock'[c] = s
      /\ \A p \in Programs \ {c} : sock'[p] = sock[p]
  BY <1>1
<1>3. sock[c].fin # TRUE /\ proc[c].host = NoHost
  BY <1>1 DEF ClientInv
<1>4. ClientInv(c)'
  BY <1>1, <1>2, <1>3 DEF ClientInv, Has, Reply, Connected
<1> QED BY <1>2, <1>4, OneClient

LEMMA GetHostAsksKeeps ==
    ASSUME ClientsInv, NEW c \in Clients, GetHostAsks(c)
    PROVE  ClientsInv'
<1>1. UNCHANGED <<db, fdList, backlog, loop>>
  BY DEF GetHostAsks, serverVars, vars
<1>2. CASE Exits(c)
  BY <1>1, <1>2, ExitsKeeps
<1>3. CASE sock' = [sock EXCEPT ![c] = Written(c, Request)] /\ Goes(c, "wait")
  <2> DEFINE s == Written(c, Request)
  <2>1. /\ s \in SocketType
        /\ s.at = sock[c].at /\ s.fin = sock[c].fin /\ s.replies = sock[c].replies
        /\ (Connected(c) /\ Head(s.msgs) = Request) \/ s.msgs = sock[c].msgs
    BY WrittenEffect DEF Programs
  <2>2. sock' = [sock EXCEPT ![c] = s]
    BY <1>3
  <2> HIDE DEF s
  <2>3. /\ proc' \in [Clients -> ProcType] /\ proc'[c].pc = "wait"
        /\ proc'[c].host = proc[c].host
        /\ \A b \in Clients \ {c} : proc'[b] = proc[b]
    BY <1>3 DEF ClientsInv, Goes, ProcType
  <2>4. proc[c].pc \in {"open", "wait"}
    BY DEF GetHostAsks, At
  <2> QED BY <1>1, <2>1, <2>2, <2>3, <2>4, AskKeeps
<1> QED BY <1>2, <1>3 DEF GetHostAsks

LEMMA AsksAgainKeeps ==
    ASSUME ClientsInv, NEW c \in Clients, AsksAgain(c)
    PROVE  ClientsInv'
<1>1. UNCHANGED <<db, fdList, backlog, loop>> /\ proc[c].pc = "wait"
  BY DEF AsksAgain, serverVars, vars, HasReply, At
<1> DEFINE w == Written(c, Request)
           s == [w EXCEPT !.replies = <<>>]
<1>2. /\ w \in SocketType /\ w.at = sock[c].at /\ w.fin = sock[c].fin
      /\ (Connected(c) /\ Head(w.msgs) = Request) \/ w.msgs = sock[c].msgs
  BY WrittenEffect DEF Programs
<1>3. <<>> \in Seq(Hosts \cup {NoHost})
  OBVIOUS
<1> HIDE DEF w
<1>4. /\ s \in SocketType /\ s.at = w.at /\ s.fin = w.fin /\ s.msgs = w.msgs
      /\ s.replies = <<>>
  BY <1>2, <1>3 DEF SocketType
<1>5. sock' = [sock EXCEPT ![c] = s]
  BY DEF AsksAgain, w
<1>6. PICK i \in Elapsed(c) : proc' = [proc EXCEPT ![c].waited = i]
  BY DEF AsksAgain
<1>7. /\ c \in Clients /\ proc \in [Clients -> ProcType] /\ Wait \in [Clients -> Nat \cup {-1}]
  BY DmucsClientsAssumption DEF ClientsInv
<1>8. i \in Int
  BY <1>6, <1>7 DEF Elapsed, ProcType
<1>9. /\ proc' \in [Clients -> ProcType] /\ proc'[c].pc = proc[c].pc
      /\ proc'[c].host = proc[c].host
      /\ \A b \in Clients \ {c} : proc'[b] = proc[b]
  BY <1>6, <1>7, <1>8 DEF ProcType
<1> HIDE DEF s
<1>10. /\ s \in SocketType /\ s.at = sock[c].at /\ s.fin = sock[c].fin
       /\ s.replies = <<>>
       /\ (Connected(c) /\ Head(s.msgs) = Request) \/ s.msgs = sock[c].msgs
  BY <1>2, <1>4
<1> QED BY <1>1, <1>5, <1>9, <1>10, AskKeeps

\* The process takes an answer and starts its command.
LEMMA RunKeeps ==
    ASSUME ClientsInv, NEW c \in Clients, HasReply(c), NEW i \in Int,
           UNCHANGED <<db, fdList, backlog, loop>>,
           sock' = [sock EXCEPT ![c].replies = <<>>],
           \/ proc' = [proc EXCEPT ![c].pc = "run", ![c].host = Reply(c)]
           \/ proc' = [proc EXCEPT ![c].pc = "run", ![c].waited = i]
    PROVE  ClientsInv'
<1>1. /\ sock \in [Programs -> SocketType] /\ proc \in [Clients -> ProcType]
      /\ c \in Programs /\ ClientInv(c)
  BY DEF ClientsInv, Programs
<1>2. /\ <<>> \in Seq(Hosts \cup {NoHost})
      /\ sock[c].replies \in Seq(Hosts \cup {NoHost}) /\ sock[c].replies # <<>>
      /\ proc[c].pc = "wait"
  BY <1>1 DEF SocketType, HasReply, At
<1>3. Reply(c) \in Hosts \cup {NoHost}
  BY <1>2 DEF Reply
<1>4. /\ sock' \in [Programs -> SocketType]
      /\ \A p \in Programs \ {c} : sock'[p] = sock[p]
      /\ sock'[c].at = sock[c].at /\ sock'[c].fin = sock[c].fin
      /\ sock'[c].msgs = sock[c].msgs /\ sock'[c].replies = <<>>
  BY <1>1, <1>2 DEF SocketType
<1>5. /\ proc' \in [Clients -> ProcType]
      /\ \A b \in Clients \ {c} : proc'[b] = proc[b]
      /\ proc'[c].pc = "run"
      /\ proc'[c].host = Reply(c) \/ proc'[c].host = proc[c].host
  <2>1. CASE proc' = [proc EXCEPT ![c].pc = "run", ![c].host = Reply(c)]
    <3> DEFINE q == [proc[c] EXCEPT !.pc = "run", !.host = Reply(c)]
    <3>1. proc[c] \in ProcType
      BY <1>1
    <3>2. q \in ProcType /\ q.pc = "run" /\ q.host = Reply(c)
      BY <1>3, <3>1 DEF ProcType
    <3>3. proc' = [proc EXCEPT ![c] = q]
      BY <1>1, <2>1
    <3> HIDE DEF q
    <3> QED BY <1>1, <3>2, <3>3
  <2>2. CASE proc' = [proc EXCEPT ![c].pc = "run", ![c].waited = i]
    BY <1>1, <2>2 DEF ProcType
  <2> QED BY <2>1, <2>2
<1>6. sock[c].fin # TRUE /\ proc[c].host = NoHost
  BY <1>1, <1>2 DEF ClientInv
<1>7. Reply(c) # NoHost => Has(c, Reply(c))
  BY <1>1, <1>2 DEF ClientInv
<1>8. sock[c].at # "shut"
  BY <1>1, <1>6 DEF ClientInv
<1>9. proc'[c].host # NoHost => Has(c, proc'[c].host)
  BY <1>5, <1>6, <1>7
<1>10. ClientInv(c)'
  BY <1>1, <1>4, <1>5, <1>6, <1>8, <1>9 DEF ClientInv, Has
<1> QED BY <1>4, <1>5, <1>10, OneClient

LEMMA UnconnectedType ==
    /\ Unconnected \in SocketType
    /\ Unconnected.at = "none" /\ Unconnected.fin = FALSE
    /\ Unconnected.msgs = <<>> /\ Unconnected.replies = <<>>
<1>1. \A S : <<>> \in Seq(S)
  OBVIOUS
<1> QED BY <1>1 DEF Unconnected, SocketType

LEMMA GetHostOpensKeeps ==
    ASSUME ClientsInv, NEW c \in Clients, GetHostOpens(c)
    PROVE  ClientsInv'
<1>1. /\ sock \in [Programs -> SocketType] /\ proc \in [Clients -> ProcType]
      /\ c \in Programs /\ ClientInv(c) /\ proc[c].pc = "start"
      /\ backlog \in Seq(Programs)
  BY DEF ClientsInv, Programs, GetHostOpens, At, Waiting
<1>2. sock[c] = Unconnected /\ proc[c].host = NoHost
  BY <1>1 DEF ClientInv
<1> DEFINE s == [Unconnected EXCEPT !.at = "queued"]
<1>3. /\ UNCHANGED <<db, fdList, loop>> /\ backlog' = Append(backlog, c)
      /\ sock' = [sock EXCEPT ![c] = s]
      /\ proc' = [proc EXCEPT ![c].pc = "open"]
  BY DEF GetHostOpens, Connect, Goes, serverVars, vars
<1>4. /\ s \in SocketType /\ s.at = "queued" /\ s.fin = FALSE /\ s.msgs = <<>>
      /\ s.replies = <<>>
  BY UnconnectedType DEF SocketType
<1> HIDE DEF s
<1>5. /\ sock' \in [Programs -> SocketType] /\ sock'[c] = s
      /\ \A p \in Programs \ {c} : sock'[p] = sock[p]
  BY <1>1, <1>3, <1>4
<1>6. /\ proc' \in [Clients -> ProcType] /\ proc'[c].pc = "open" /\ proc'[c].host = NoHost
      /\ \A b \in Clients \ {c} : proc'[b] = proc[b]
  BY <1>1, <1>2, <1>3 DEF ProcType
<1>7. ClientInv(c)'
  BY <1>4, <1>5, <1>6 DEF ClientInv
<1>8. \A b \in Clients : ClientInv(b)'
  <2> SUFFICES ASSUME NEW b \in Clients, b # c PROVE ClientInv(b)'
    BY <1>7
  <2>1. ClientInv(b) /\ sock'[b] = sock[b] /\ proc'[b] = proc[b] /\ db' = db
    BY <1>3, <1>5, <1>6 DEF ClientsInv, Programs
  <2> QED BY <2>1, ClientStays
<1>9. \A t \in Tools : ToolInv(t)'
  BY <1>5, DmucsClientsAssumption DEF ClientsInv, ToolInv, Programs
<1>10. \A b \in Clients : /\ proc'[b].pc = "start" => proc[b].pc = "start"
                          /\ sock'[b].at = "queued" =>
                               sock[b].at = "queued" \/ proc[b].pc = "start"
  BY <1>1, <1>5, <1>6 DEF Programs
<1>11. ASSUME NEW p, Accepted(p) PROVE Accepted(p)'
  BY <1>10, <1>11, AcceptedStays
<1>12. Watching'
  BY <1>3, <1>11 DEF ClientsInv, Watching
<1>13. backlog' \in Seq(Programs) /\ backlog' # <<>> /\ Len(backlog') = Len(backlog) + 1
       /\ \A i \in 1..Len(backlog) + 1 :
            backlog'[i] = IF i = Len(backlog) + 1 THEN c ELSE backlog[i]
  BY <1>1, <1>3
<1>14. \A i \in 1..Len(backlog) : backlog[i] # c
  BY <1>2 DEF ClientsInv, Waiting, Unconnected
<1>15. Waiting'
  <2> SUFFICES ASSUME NEW i \in 1..Len(backlog) + 1, backlog'[i] \in Clients
               PROVE  /\ sock'[backlog'[i]].at = "queued"
                      /\ \A j \in 1..Len(backlog) + 1 : backlog'[j] = backlog'[i] => j = i
    BY <1>13 DEF Waiting
  <2>1. Len(backlog) \in Nat
    BY <1>1
  <2>2. CASE i = Len(backlog) + 1
    BY <1>4, <1>5, <1>13, <1>14, <2>1, <2>2
  <2>3. CASE i \in 1..Len(backlog)
    <3>1. /\ backlog[i] \in Clients /\ backlog'[i] = backlog[i] /\ backlog[i] # c
      BY <1>13, <1>14, <2>1, <2>3
    <3>2. /\ sock[backlog[i]].at = "queued"
          /\ \A j \in 1..Len(backlog) : backlog[j] = backlog[i] => j = i
      BY <2>3, <3>1 DEF ClientsInv, Waiting
    <3>3. sock'[backlog[i]] = sock[backlog[i]]
      BY <1>5, <3>1 DEF Programs
    <3> QED BY <1>13, <2>1, <3>1, <3>2, <3>3
  <2> QED BY <2>1, <2>2, <2>3
<1>16. Looping'
  BY <1>3, <1>11, <1>13 DEF ClientsInv, Looping
<1> QED BY <1>5, <1>6, <1>8, <1>9, <1>12, <1>15, <1>16 DEF ClientsInv

\* The command starts without a server, or goes on without its gethost.
LEMMA GoesOnKeeps ==
    ASSUME ClientsInv, NEW c \in Clients, UNCHANGED <<db, sock, fdList, backlog, loop>>,
           \/ proc[c].pc = "start" /\ Goes(c, "run")
           \/ proc[c].pc = "run" /\ Goes(c, "orphan")
    PROVE  ClientsInv'
<1>1. /\ sock \in [Programs -> SocketType] /\ proc \in [Clients -> ProcType]
      /\ c \in Programs /\ ClientInv(c)
  BY DEF ClientsInv, Programs
<1>2. /\ proc' \in [Clients -> ProcType] /\ proc'[c].pc \in {"run", "orphan"}
      /\ proc'[c].host = proc[c].host
      /\ \A b \in Clients \ {c} : proc'[b] = proc[b]
  BY <1>1 DEF Goes, ProcType
<1>3. proc[c].pc = "start" => sock[c].fin = FALSE
  BY <1>1, UnconnectedType DEF ClientInv
<1>4. sock[c].fin # TRUE
  BY <1>1, <1>3 DEF ClientInv
<1>5. ClientInv(c)'
  BY <1>1, <1>2, <1>4 DEF ClientInv, Has, Reply
<1> QED BY <1>1, <1>2, <1>5, OneClient

LEMMA GetHostKeeps ==
    ASSUME ClientsInv, NEW c \in Clients, GetHostStep(c)
    PROVE  ClientsInv'
<1>1. CASE GetHostOpens(c)
  BY <1>1, GetHostOpensKeeps
<1>2. CASE GetHostAlone(c)
  BY <1>2, GoesOnKeeps DEF GetHostAlone, At, serverVars, vars
<1>3. CASE GetHostAsks(c)
  BY <1>3, GetHostAsksKeeps
<1>4. CASE Granted(c)
  <2>1. HasReply(c) /\ 0 \in Int /\ UNCHANGED <<db, fdList, backlog, loop>>
    BY <1>4 DEF Granted, serverVars, vars
  <2>2. /\ sock' = [sock EXCEPT ![c].replies = <<>>]
        /\ proc' = [proc EXCEPT ![c].pc = "run", ![c].host = Reply(c)]
    BY <1>4 DEF Granted
  <2> QED BY <2>1, <2>2, RunKeeps
<1>5. CASE AsksAgain(c)
  BY <1>5, AsksAgainKeeps
<1>6. CASE GivesUp(c)
  <2>1. HasReply(c) /\ UNCHANGED <<db, fdList, backlog, loop>>
    BY <1>6 DEF GivesUp, serverVars, vars
  <2>2. sock' = [sock EXCEPT ![c].replies = <<>>]
    BY <1>6 DEF GivesUp
  <2>3. PICK i \in Elapsed(c) : proc' = [proc EXCEPT ![c].pc = "run", ![c].waited = i]
    BY <1>6 DEF GivesUp
  <2>4. i \in Int
    BY <2>3, DmucsClientsAssumption DEF Elapsed, ClientsInv, ProcType
  <2> QED BY <2>1, <2>2, <2>3, <2>4, RunKeeps
<1>7. CASE ServerGone(c)
  BY <1>7, ExitsKeeps DEF ServerGone, serverVars, vars
<1>8. CASE CommandEnds(c)
  BY <1>8, ExitsKeeps DEF CommandEnds, serverVars, vars
<1>9. CASE Killed(c)
  <2>1. UNCHANGED <<db, fdList, backlog, loop>>
    BY <1>9 DEF Killed, serverVars, vars
  <2>2. CASE Exits(c)
    BY <2>1, <2>2, ExitsKeeps
  <2>3. CASE proc[c].pc = "run" /\ Goes(c, "orphan") /\ UNCHANGED sock
    BY <2>1, <2>3, GoesOnKeeps
  <2> QED BY <1>9, <2>2, <2>3 DEF Killed, At
<1> QED BY <1>1, <1>2, <1>3, <1>4, <1>5, <1>6, <1>7, <1>8, <1>9 DEF GetHostStep

\* A tool's socket is nobody else's.
LEMMA ToolKeeps ==
    ASSUME ClientsInv, NEW t \in Tools, UNCHANGED <<db, fdList, loop, proc>>,
           NEW s \in SocketType, sock' = [sock EXCEPT ![t] = s],
           s.msgs # <<>> => Head(s.msgs) \in Sends[t],
           backlog' = backlog \/ backlog' = Append(backlog, t)
    PROVE  ClientsInv'
<1>1. /\ sock \in [Programs -> SocketType] /\ t \in Programs /\ t \notin Clients
      /\ backlog \in Seq(Programs)
  BY DmucsClientsAssumption DEF ClientsInv, Programs, Waiting
<1>2. /\ sock' \in [Programs -> SocketType] /\ sock'[t] = s
      /\ \A p \in Programs \ {t} : sock'[p] = sock[p]
  BY <1>1
<1>3. \A c \in Clients : sock'[c] = sock[c]
  BY <1>1, <1>2 DEF Programs
<1>4. \A c \in Clients : ClientInv(c)'
  BY <1>3, ClientStays DEF ClientsInv
<1>5. \A r \in Tools : ToolInv(r)'
  BY <1>2 DEF ClientsInv, ToolInv, Programs
<1>6. ASSUME NEW p, Accepted(p) PROVE Accepted(p)'
  BY <1>3, <1>6 DEF Accepted
<1>7. Watching'
  BY <1>6 DEF ClientsInv, Watching
<1>8. CASE backlog' = backlog
  <2>1. Waiting'
    BY <1>3, <1>8 DEF ClientsInv, Waiting
  <2>2. Looping'
    BY <1>6, <1>8 DEF ClientsInv, Looping
  <2> QED BY <1>2, <1>4, <1>5, <1>7, <2>1, <2>2 DEF ClientsInv
<1>9. CASE backlog' = Append(backlog, t)
  <2>1. /\ backlog' \in Seq(Programs) /\ backlog' # <<>>
        /\ Len(backlog) \in Nat /\ Len(backlog') = Len(backlog) + 1
        /\ \A i \in 1..Len(backlog) + 1 :
             backlog'[i] = IF i = Len(backlog) + 1 THEN t ELSE backlog[i]
    BY <1>1, <1>9
  <2>2. Waiting'
    <3> SUFFICES ASSUME NEW i \in 1..Len(backlog) + 1, backlog'[i] \in Clients
                 PROVE  /\ sock'[backlog'[i]].at = "queued"
                        /\ \A j \in 1..Len(backlog) + 1 : backlog'[j] = backlog'[i] => j = i
      BY <2>1 DEF Waiting
    <3>1. i \in 1..Len(backlog) /\ backlog'[i] = backlog[i]
      BY <1>1, <2>1
    <3>2. /\ sock[backlog[i]].at = "queued"
          /\ \A j \in 1..Len(backlog) : backlog[j] = backlog[i] => j = i
      BY <3>1 DEF ClientsInv, Waiting
    <3>3. sock'[backlog'[i]].at = "queued"
      BY <1>3, <3>1, <3>2
    <3>4. ASSUME NEW j \in 1..Len(backlog) + 1, backlog'[j] = backlog'[i]
          PROVE  j = i
      <4>1. j # Len(backlog) + 1
        BY <1>1, <2>1, <3>1, <3>4
      <4>2. j \in 1..Len(backlog) /\ backlog'[j] = backlog[j]
        BY <2>1, <4>1
      <4> QED BY <3>1, <3>2, <3>4, <4>2
    <3> QED BY <3>3, <3>4
  <2>3. Looping'
    BY <1>6, <2>1 DEF ClientsInv, Looping
  <2> QED BY <1>2, <1>4, <1>5, <1>7, <2>2, <2>3 DEF ClientsInv
<1> QED BY <1>8, <1>9

LEMMA ToolStepKeeps ==
    ASSUME ClientsInv, NEW t \in Tools, ToolConnects(t) \/ ToolSends(t)
    PROVE  ClientsInv'
<1>1. sock \in [Programs -> SocketType] /\ t \in Programs /\ ToolInv(t)
  BY DEF ClientsInv, Programs
<1>2. CASE ToolConnects(t)
  <2> DEFINE s == [Unconnected EXCEPT !.at = "queued"]
  <2>1. s \in SocketType /\ s.msgs = <<>>
    BY UnconnectedType DEF SocketType
  <2>2. /\ UNCHANGED <<db, fdList, loop, proc>> /\ backlog' = Append(backlog, t)
        /\ sock' = [sock EXCEPT ![t] = s]
    BY <1>2 DEF ToolConnects, Connect, serverVars, vars
  <2> HIDE DEF s
  <2> QED BY <2>1, <2>2, ToolKeeps
<1>3. ASSUME NEW m \in Sends[t],
             sock' = [sock EXCEPT ![t] = [Written(t, m) EXCEPT !.fin = TRUE]],
             UNCHANGED <<db, fdList, backlog, loop, proc>>
      PROVE  ClientsInv'
  <2>1. m \in Messages \cup {Request}
    BY DmucsClientsAssumption
  <2> DEFINE w == Written(t, m)
             s == [w EXCEPT !.fin = TRUE]
  <2>2. /\ w \in SocketType
        /\ (Connected(t) /\ Head(w.msgs) = m) \/ w.msgs = sock[t].msgs
    BY <1>1, <2>1, WrittenEffect
  <2>3. sock' = [sock EXCEPT ![t] = s]
    BY <1>3
  <2> HIDE DEF w
  <2>4. s \in SocketType /\ s.msgs = w.msgs
    BY <2>2 DEF SocketType
  <2> HIDE DEF s
  <2>5. s.msgs # <<>> => Head(s.msgs) \in Sends[t]
    BY <1>1, <1>3, <2>2, <2>4 DEF ToolInv
  <2> QED BY <1>3, <2>3, <2>4, <2>5, ToolKeeps
<1>4. CASE /\ sock' = [sock EXCEPT ![t].fin = TRUE]
           /\ UNCHANGED <<db, fdList, backlog, loop, proc>>
  <2> DEFINE s == [sock[t] EXCEPT !.fin = TRUE]
  <2>1. s \in SocketType /\ s.msgs = sock[t].msgs
    BY <1>1 DEF SocketType
  <2>2. sock' = [sock EXCEPT ![t] = s]
    BY <1>4
  <2> HIDE DEF s
  <2> QED BY <1>1, <1>4, <2>1, <2>2, ToolKeeps DEF ToolInv
<1> QED BY <1>2, <1>3, <1>4 DEF ToolSends, serverVars, vars

LEMMA SelectKeeps ==
    ASSUME ClientsInv, Select
    PROVE  ClientsInv'
<1>1. UNCHANGED <<db, sock, fdList, backlog, proc>>
  BY DEF Select, serverVars, vars
<1>2. \A c \in Clients : ClientInv(c)'
  BY <1>1, ClientStays DEF ClientsInv
<1>3. ASSUME NEW p, Accepted(p) PROVE Accepted(p)'
  BY <1>1, <1>3 DEF Accepted
<1>4. /\ \A t \in Tools : ToolInv(t)'
      /\ Watching' /\ Waiting'
      /\ sock' \in [Programs -> SocketType] /\ proc' \in [Clients -> ProcType]
  BY <1>1, <1>3 DEF ClientsInv, ToolInv, Watching, Waiting
<1>5. ASSUME NEW i \in 1..Len(fdList), NEW q, q = fdList[i],
             loop' = [pc |-> "serve", at |-> q, more |-> backlog # <<>>]
      PROVE  Looping'
  <2>1. Accepted(q)' /\ q \in Programs
    BY <1>3, <1>5 DEF ClientsInv, Watching, Accepted
  <2>2. PICK b \in BOOLEAN : b = (backlog # <<>>)
    OBVIOUS
  <2>3. loop' = [pc |-> "serve", at |-> q, more |-> b]
    BY <1>5, <2>2
  <2>4. b = TRUE => backlog' # <<>>
    BY <1>1, <2>2
  <2> QED BY <2>1, <2>3, <2>4 DEF Looping, Accepted
<1>6. ASSUME backlog # <<>>, loop.pc = "select", loop' = [loop EXCEPT !.pc = "accept"]
      PROVE  Looping'
  <2>1. /\ loop \in [pc : {"select", "serve", "accept", "read"},
                     at : Programs \cup {NoHost}, more : BOOLEAN]
        /\ loop.more = FALSE
    BY <1>6 DEF ClientsInv, Looping
  <2>2. /\ loop' \in [pc : {"select", "serve", "accept", "read"},
                      at : Programs \cup {NoHost}, more : BOOLEAN]
        /\ loop'.pc = "accept" /\ loop'.more = FALSE
    BY <1>6, <2>1
  <2> QED BY <1>1, <1>6, <2>2 DEF Looping
<1>7. Looping'
  BY <1>5, <1>6 DEF Select
<1> QED BY <1>2, <1>4, <1>7 DEF ClientsInv

LEMMA AcceptKeeps ==
    ASSUME ClientsInv, Accept
    PROVE  ClientsInv'
<1> PICK p : p = Head(backlog)
  OBVIOUS
<1>1. /\ sock \in [Programs -> SocketType] /\ backlog \in Seq(Programs)
      /\ fdList \in Seq(Programs) /\ backlog # <<>> /\ loop.more = FALSE
      /\ loop.pc = "accept"
  BY DEF ClientsInv, Waiting, Watching, Looping, Accept
<1>2. /\ p \in Programs /\ p = backlog[1] /\ 1 \in 1..Len(backlog) /\ Len(backlog) \in Nat
      /\ Tail(backlog) \in Seq(Programs) /\ Len(Tail(backlog)) = Len(backlog) - 1
      /\ \A i \in 1..Len(backlog) - 1 : Tail(backlog)[i] = backlog[i + 1]
  BY <1>1
<1>3. p \in Clients => /\ sock[p].at = "queued"
                       /\ \A j \in 1..Len(backlog) : backlog[j] = p => j = 1
  BY <1>2 DEF ClientsInv, Waiting
<1>4. /\ db' = db /\ proc' = proc /\ sock' = [sock EXCEPT ![p].at = "open"]
      /\ fdList' = Append(fdList, p) /\ backlog' = Tail(backlog)
      /\ loop' = [loop EXCEPT !.pc = "read", !.at = p]
  BY DEF Accept, serverVars, vars
<1>5. /\ sock' \in [Programs -> SocketType] /\ sock'[p].at = "open"
      /\ sock'[p].fin = sock[p].fin /\ sock'[p].msgs = sock[p].msgs
      /\ sock'[p].replies = sock[p].replies
      /\ \A q \in Programs \ {p} : sock'[q] = sock[q]
  BY <1>1, <1>2, <1>4 DEF SocketType
<1>6. ASSUME NEW c \in Clients
      PROVE  ClientInv(c)'
  <2>1. ClientInv(c) /\ c \in Programs
    BY DEF ClientsInv, Programs
  <2>2. CASE c = p
    <3>1. sock[c].at = "queued" /\ proc[c].pc # "start"
      BY <1>3, <2>1, <2>2, UnconnectedType DEF ClientInv
    <3> QED BY <1>4, <1>5, <2>1, <2>2, <3>1 DEF ClientInv, Has, Reply
  <2>3. CASE c # p
    BY <1>4, <1>5, <2>1, <2>3, ClientStays
  <2> QED BY <2>2, <2>3
<1>7. \A t \in Tools : ToolInv(t)'
  BY <1>5 DEF ClientsInv, ToolInv, Programs
<1>8. Accepted(p)'
  <2>1. p \in Clients => proc[p].pc # "start"
    BY <1>3, UnconnectedType DEF ClientsInv, ClientInv
  <2> QED BY <1>2, <1>4, <1>5, <2>1 DEF Accepted
<1>9. ASSUME NEW q, Accepted(q) PROVE Accepted(q)'
  BY <1>4, <1>5, <1>8, <1>9 DEF Accepted
<1>10. Watching'
  <2>1. /\ fdList' \in Seq(Programs) /\ Len(fdList) \in Nat /\ Len(fdList') = Len(fdList) + 1
        /\ \A i \in 1..Len(fdList) + 1 :
             fdList'[i] = IF i = Len(fdList) + 1 THEN p ELSE fdList[i]
    BY <1>1, <1>2, <1>4
  <2>2. ASSUME NEW i \in 1..Len(fdList) + 1, NEW q, q = fdList'[i] PROVE Accepted(q)'
    <3>1. CASE i = Len(fdList) + 1
      BY <1>8, <2>1, <2>2, <3>1
    <3>2. CASE i # Len(fdList) + 1
      <4>1. i \in 1..Len(fdList) /\ fdList'[i] = fdList[i]
        BY <2>1, <3>2
      <4>2. Accepted(q)
        BY <2>2, <4>1 DEF ClientsInv, Watching
      <4> QED BY <1>9, <4>2
    <3> QED BY <3>1, <3>2
  <2> QED BY <2>1, <2>2 DEF Watching, Accepted
<1>11. Waiting'
  <2> SUFFICES ASSUME NEW i \in 1..Len(backlog) - 1, backlog[i + 1] \in Clients
               PROVE  /\ sock'[backlog[i + 1]].at = "queued"
                      /\ \A j \in 1..Len(backlog) - 1 :
                           backlog[j + 1] = backlog[i + 1] => j = i
    BY <1>2, <1>4 DEF Waiting
  <2>1. i + 1 \in 1..Len(backlog) /\ i + 1 # 1
    BY <1>2
  <2>2. /\ sock[backlog[i + 1]].at = "queued"
        /\ \A j \in 1..Len(backlog) : backlog[j] = backlog[i + 1] => j = i + 1
    BY <2>1 DEF ClientsInv, Waiting
  <2>3. backlog[i + 1] # p
    BY <1>3, <2>1
  <2>4. sock'[backlog[i + 1]] = sock[backlog[i + 1]]
    BY <1>5, <2>3 DEF Programs
  <2>5. ASSUME NEW j \in 1..Len(backlog) - 1, backlog[j + 1] = backlog[i + 1]
        PROVE  j = i
    <3>1. j + 1 \in 1..Len(backlog)
      BY <1>2
    <3>2. j + 1 = i + 1
      BY <2>2, <2>5, <3>1
    <3> QED BY <1>2, <3>2
  <2> QED BY <2>2, <2>4, <2>5
<1>12. Looping'
  <2>1. loop \in [pc : {"select", "serve", "accept", "read"},
                  at : Programs \cup {NoHost}, more : BOOLEAN]
    BY DEF ClientsInv, Looping
  <2>2. /\ loop' \in [pc : {"select", "serve", "accept", "read"},
                      at : Programs \cup {NoHost}, more : BOOLEAN]
        /\ loop'.pc = "read" /\ loop'.at = p /\ loop'.more = FALSE
    BY <1>1, <1>2, <1>4, <2>1
  <2> QED BY <1>8, <2>2 DEF Looping, Accepted
<1>13. proc' \in [Clients -> ProcType]
  BY <1>4 DEF ClientsInv
<1> QED BY <1>5, <1>6, <1>7, <1>10, <1>11, <1>12, <1>13 DEF ClientsInv

\* Removing a socket from the list leaves the others.
LEMMA WithoutEffect ==
    ASSUME NEW S, NEW s \in Seq(S), NEW p, NEW w, w = Without(s, p)
    PROVE  /\ w \in Seq(S)
           /\ \A i \in 1..Len(w) : \E j \in 1..Len(s) : w[i] = s[j]
<1>1. Len(s) \in Nat /\ \A i \in 1..Len(s) : s[i] \in S
  OBVIOUS
<1>2. CASE w = s
  BY <1>1, <1>2
<1>3. CASE w # s
  <2> DEFINE Before(j) == \A i \in 1..j : s[i] # p
             f == [j \in 1..(Len(s) - 1) |-> IF Before(j) THEN s[j] ELSE s[j + 1]]
  <2>1. w = f /\ Len(s) # 0
    BY <1>3 DEF Without
  <2>2. Len(s) - 1 \in Nat
    BY <1>1, <2>1
  <2>3. ASSUME NEW j \in 1..(Len(s) - 1)
        PROVE  f[j] \in S /\ \E k \in 1..Len(s) : f[j] = s[k]
    <3>1. f[j] = s[j] \/ f[j] = s[j + 1]
      OBVIOUS
    <3>2. j \in 1..Len(s) /\ j + 1 \in 1..Len(s)
      BY <1>1
    <3> QED BY <1>1, <3>1, <3>2
  <2>4. f \in [1..(Len(s) - 1) -> S]
    BY <2>3
  <2>5. f \in Seq(S) /\ Len(f) = Len(s) - 1
    BY <2>2, <2>4
  <2> HIDE DEF f
  <2> QED BY <2>1, <2>3, <2>5
<1> QED BY <1>2, <1>3

LEMMA ServedLooping ==
    ASSUME ClientsInv, Served, backlog' = backlog
    PROVE  Looping'
<1>1. /\ loop \in [pc : {"select", "serve", "accept", "read"},
                   at : Programs \cup {NoHost}, more : BOOLEAN]
      /\ loop.more = TRUE => backlog # <<>>
  BY DEF ClientsInv, Looping
<1>2. CASE loop.more = TRUE
  <2>1. loop' = [Selecting EXCEPT !.pc = "accept"]
    BY <1>2 DEF Served
  <2>2. loop' = [pc |-> "accept", at |-> NoHost, more |-> FALSE]
    BY <2>1 DEF Selecting
  <2> QED BY <1>1, <1>2, <2>2 DEF Looping
<1>3. CASE loop.more = FALSE
  <2>1. loop' = [pc |-> "select", at |-> NoHost, more |-> FALSE]
    BY <1>3 DEF Served, Selecting
  <2> QED BY <2>1 DEF Looping
<1> QED BY <1>1, <1>2, <1>3

\* The server closes a tool's socket, or that of a process that has ended.
LEMMA RemoveFdKeeps ==
    ASSUME ClientsInv, NEW p, Accepted(p), RemoveFd(p),
           p \in Clients => sock[p].fin = TRUE,
           \A b \in Clients \ {p} : db'.assigned[b] = db.assigned[b]
    PROVE  ClientsInv'
<1>1. /\ sock \in [Programs -> SocketType] /\ p \in Programs
      /\ fdList \in Seq(Programs)
      /\ backlog' = backlog /\ proc' = proc /\ fdList' = Without(fdList, p) /\ Served
      /\ sock' = [sock EXCEPT ![p] = IF p \in Tools THEN Unconnected
                                     ELSE [@ EXCEPT !.at = "shut", !.msgs = <<>>]]
  BY DEF ClientsInv, Watching, Accepted, RemoveFd
<1>2. <<>> \in Seq(Messages \cup {Request})
  OBVIOUS
<1>3. /\ sock' \in [Programs -> SocketType] /\ sock'[p].msgs = <<>>
      /\ \A q \in Programs \ {p} : sock'[q] = sock[q]
      /\ p \notin Tools => /\ sock'[p].at = "shut" /\ sock'[p].fin = sock[p].fin
                           /\ sock'[p].replies = sock[p].replies
  <2>1. CASE p \in Tools
    <3>1. sock' = [sock EXCEPT ![p] = Unconnected]
      BY <1>1, <2>1
    <3> QED BY <1>1, <2>1, <3>1, UnconnectedType
  <2>2. CASE p \notin Tools
    <3> DEFINE s == [sock[p] EXCEPT !.at = "shut", !.msgs = <<>>]
    <3>1. sock' = [sock EXCEPT ![p] = s]
      BY <1>1, <2>2
    <3>2. /\ s \in SocketType /\ s.at = "shut" /\ s.msgs = <<>>
          /\ s.fin = sock[p].fin /\ s.replies = sock[p].replies
      BY <1>1, <1>2 DEF SocketType
    <3> HIDE DEF s
    <3> QED BY <1>1, <3>1, <3>2
  <2> QED BY <2>1, <2>2
<1>4. ASSUME NEW c \in Clients
      PROVE  ClientInv(c)'
  <2>1. ClientInv(c) /\ c \in Programs /\ c \notin Tools
    BY DmucsClientsAssumption DEF ClientsInv, Programs
  <2>2. CASE c = p
    <3>1. /\ sock'[c].at = "shut" /\ sock'[c].fin = TRUE
          /\ sock'[c].replies = <<>> /\ sock'[c].msgs = <<>>
          /\ proc[c].pc = "end" /\ proc[c].host = NoHost
      BY <1>3, <2>1, <2>2 DEF ClientInv
    <3> QED BY <1>1, <3>1 DEF ClientInv
  <2>3. CASE c # p
    BY <1>1, <1>3, <2>1, <2>3, ClientStays
  <2> QED BY <2>2, <2>3
<1>5. \A t \in Tools : ToolInv(t)'
  BY <1>3 DEF ClientsInv, ToolInv, Programs
<1>6. \A c \in Clients : sock'[c].at = "queued" <=> sock[c].at = "queued"
  <2> SUFFICES ASSUME NEW c \in Clients
               PROVE  sock'[c].at = "queued" <=> sock[c].at = "queued"
    OBVIOUS
  <2>1. c \in Programs /\ c \notin Tools
    BY DmucsClientsAssumption DEF Programs
  <2> QED BY <1>3, <2>1 DEF Accepted
<1>7. ASSUME NEW q, Accepted(q) PROVE Accepted(q)'
  BY <1>1, <1>6, <1>7 DEF Accepted
<1>8. Watching'
  <2>1. /\ fdList' \in Seq(Programs)
        /\ \A i \in 1..Len(fdList') : \E j \in 1..Len(fdList) : fdList'[i] = fdList[j]
    BY <1>1, WithoutEffect
  <2>2. ASSUME NEW i \in 1..Len(fdList'), NEW q, q = fdList'[i] PROVE Accepted(q)'
    <3>1. Accepted(q)
      BY <2>1, <2>2 DEF ClientsInv, Watching
    <3> QED BY <1>7, <3>1
  <2> QED BY <2>1, <2>2 DEF Watching, Accepted
<1>9. Waiting'
  BY <1>1, <1>6 DEF ClientsInv, Waiting
<1>10. Looping' /\ proc' \in [Clients -> ProcType]
  BY <1>1, ServedLooping DEF ClientsInv
<1> QED BY <1>3, <1>4, <1>5, <1>8, <1>9, <1>10 DEF ClientsInv

\* The answer is what the database has assigned to the client from then on.
LEMMA AnswerKeeps ==
    ASSUME ClientsInv, IInv, NEW p \in Clients, Accepted(p), Answer(p), sock[p].msgs # <<>>
    PROVE  ClientsInv'
<1>1. PICK d \in Dprops : HostReq(p, d)
  BY DEF Answer
<1>2. /\ sock \in [Programs -> SocketType] /\ p \in Programs /\ ClientInv(p)
      /\ fdList' = fdList /\ backlog' = backlog /\ proc' = proc /\ Served
      /\ db.assigned[p] = NoHost
      /\ \A b \in Clients \ {p} : db'.assigned[b] = db.assigned[b]
  BY <1>1, HostReqGrants DEF ClientsInv, Programs, Answer, HostReq
<1>3. sock[p].at = "open" /\ proc[p].host = NoHost
  BY <1>2 DEF ClientInv, Has, Accepted
<1> DEFINE x == db'.assigned[p]
           r == IF sock[p].fin THEN <<>> ELSE <<x>>
           s == [sock[p] EXCEPT !.msgs = <<>>, !.replies = r]
<1>4. x \in Hosts \cup {NoHost}
  <2>1. Next
    BY <1>1 DEF Next
  <2>2. db' \in Db
    BY <2>1, NextIInv DEF IInv, DbInv
  <2> QED BY <2>2 DEF Db
<1>5. sock' = [sock EXCEPT ![p] = s]
  BY <1>2 DEF Answer
<1> HIDE DEF x
<1>6. /\ r \in Seq(Hosts \cup {NoHost})
      /\ sock[p].fin = TRUE => r = <<>>
      /\ r # <<>> => Head(r) = x
  <2>1. <<x>> \in Seq(Hosts \cup {NoHost}) /\ Head(<<x>>) = x /\ <<>> \in Seq(Hosts \cup {NoHost})
    BY <1>4, OneMessage
  <2>2. r = <<>> \/ r = <<x>>
    OBVIOUS
  <2> QED BY <2>1, <2>2
<1> HIDE DEF r
<1>7. <<>> \in Seq(Messages \cup {Request})
  OBVIOUS
<1>8. /\ s \in SocketType /\ s.at = sock[p].at /\ s.fin = sock[p].fin
      /\ s.msgs = <<>> /\ s.replies = r
  BY <1>2, <1>6, <1>7 DEF SocketType
<1> HIDE DEF s
<1>9. /\ sock' \in [Programs -> SocketType] /\ sock'[p] = s
      /\ \A q \in Programs \ {p} : sock'[q] = sock[q]
  BY <1>2, <1>5, <1>8
<1>10. ClientInv(p)'
  BY <1>2, <1>3, <1>6, <1>8, <1>9 DEF ClientInv, Has, Reply, Accepted, x
<1>11. \A c \in Clients : ClientInv(c)'
  <2> SUFFICES ASSUME NEW c \in Clients, c # p PROVE ClientInv(c)'
    BY <1>10
  <2>1. ClientInv(c) /\ sock'[c] = sock[c]
    BY <1>9 DEF ClientsInv, Programs
  <2> QED BY <1>2, <2>1, ClientStays
<1>12. \A t \in Tools : ToolInv(t)'
  BY <1>9, DmucsClientsAssumption DEF ClientsInv, ToolInv, Programs
<1>13. \A c \in Clients : sock'[c].at = sock[c].at
  BY <1>8, <1>9 DEF Programs
<1>14. ASSUME NEW q, Accepted(q) PROVE Accepted(q)'
  BY <1>2, <1>13, <1>14 DEF Accepted
<1>15. Watching' /\ Waiting'
  BY <1>2, <1>13, <1>14 DEF ClientsInv, Watching, Waiting
<1>16. Looping' /\ proc' \in [Clients -> ProcType]
  BY <1>2, ServedLooping DEF ClientsInv
<1> QED BY <1>9, <1>11, <1>12, <1>15, <1>16 DEF ClientsInv

\* The server dies: every client that has a connection has lost it.
LEMMA CrashKeeps ==
    ASSUME ClientsInv, NEW m, Crash(m)
    PROVE  ClientsInv'
<1>0. <<>> \in Seq(Messages \cup {Request})
  OBVIOUS
<1>1. /\ sock \in [Programs -> SocketType]
      /\ fdList' = <<>> /\ backlog' = <<>> /\ loop' = Selecting /\ proc' = proc
  BY DEF ClientsInv, Crash
<1>2. \A t \in Tools : t \in Programs /\ t \notin Clients /\ sock'[t] = Unconnected
  BY DmucsClientsAssumption DEF Crash, Programs
<1>3. ASSUME NEW c \in Clients
      PROVE  /\ c \in Programs /\ sock'[c] \in SocketType
             /\ Connected(c) => /\ sock'[c].at = "lost" /\ sock'[c].fin = sock[c].fin
                                /\ sock'[c].msgs = <<>>
                                /\ sock'[c].replies = sock[c].replies
             /\ ~Connected(c) => sock'[c] = sock[c]
  <2>1. c \in Programs /\ c \notin Tools
    BY DmucsClientsAssumption DEF Programs
  <2>2. CASE Connected(c)
    <3> DEFINE s == [sock[c] EXCEPT !.at = "lost", !.msgs = <<>>]
    <3>1. sock'[c] = s
      BY <2>1, <2>2 DEF Crash
    <3>2. /\ s \in SocketType /\ s.at = "lost" /\ s.msgs = <<>>
          /\ s.fin = sock[c].fin /\ s.replies = sock[c].replies
      BY <1>0, <1>1, <2>1 DEF SocketType
    <3> HIDE DEF s
    <3> QED BY <2>1, <2>2, <3>1, <3>2
  <2>3. CASE ~Connected(c)
    <3>1. sock'[c] = sock[c]
      BY <2>1, <2>3 DEF Crash
    <3> QED BY <1>1, <2>1, <2>3, <3>1
  <2> QED BY <2>2, <2>3
<1>4. sock' \in [Programs -> SocketType]
  <2> DEFINE F(p) == CASE p \in Tools -> Unconnected
                       [] p \in Clients /\ Connected(p)
                            -> [sock[p] EXCEPT !.at = "lost", !.msgs = <<>>]
                       [] OTHER -> sock[p]
  <2>1. sock' = [p \in Programs |-> F(p)]
    BY DEF Crash
  <2> HIDE DEF F
  <2>2. \A p \in Programs : F(p) \in SocketType
    BY <1>2, <1>3, <2>1, UnconnectedType DEF Programs
  <2> QED BY <2>1, <2>2
<1>5. ASSUME NEW c \in Clients
      PROVE  ClientInv(c)'
  <2>1. ClientInv(c)
    BY DEF ClientsInv
  <2>2. CASE Connected(c)
    <3>1. proc[c].pc # "start"
      BY <2>1, <2>2, UnconnectedType DEF ClientInv, Connected
    <3> QED BY <1>1, <1>3, <2>1, <2>2, <3>1 DEF ClientInv, Has, Reply
  <2>3. CASE ~Connected(c)
    <3>1. sock'[c] = sock[c] /\ proc'[c] = proc[c]
      BY <1>1, <1>3, <2>3
    <3> QED BY <2>1, <2>3, <3>1 DEF ClientInv, Has, Reply, Connected
  <2> QED BY <2>2, <2>3
<1>6. \A t \in Tools : ToolInv(t)'
  BY <1>2, UnconnectedType DEF ToolInv
<1>7. Watching' /\ Waiting'
  <2>1. <<>> \in Seq(Programs) /\ Len(<<>>) = 0
    OBVIOUS
  <2> QED BY <1>1, <2>1 DEF Watching, Waiting
<1>8. Looping' /\ proc' \in [Clients -> ProcType]
  BY <1>1 DEF ClientsInv, Looping, Selecting
<1> QED BY <1>4, <1>5, <1>6, <1>7, <1>8 DEF ClientsInv

LEMMA HandleReqKeeps ==
    ASSUME ClientsInv, IInv, HandleReq
    PROVE  ClientsInv'
<1> PICK p : p = loop.at
  OBVIOUS
<1> PICK m : m = Head(sock[p].msgs)
  OBVIOUS
<1>0. Accepted(p)
  BY DEF ClientsInv, Looping, HandleReq
<1>1. CASE HungUp(p)
  <2>1. p \in Clients => sock[p].fin = TRUE
    BY <1>1 DEF HungUp, ClientsInv, SocketType, Programs
  <2>2. \A b \in Clients \ {p} : db'.assigned[b] = db.assigned[b]
    <3>1. CASE p \in Clients /\ ClientClose(p)
      BY <3>1, CloseGrants
    <3>2. CASE db' = db
      BY <3>2
    <3> QED BY <1>1, <3>1, <3>2 DEF HungUp, serverVars, vars
  <2>3. RemoveFd(p)
    BY <1>1 DEF HungUp
  <2> QED BY <1>0, <2>1, <2>2, <2>3, RemoveFdKeeps
<1>2. CASE sock[p].msgs # <<>> /\ m.kind = "host" /\ Answer(p)
  <2>1. p \in Clients
    BY <1>2, MessageOf
  <2> QED BY <1>0, <1>2, <2>1, AnswerKeeps
<1>3. CASE sock[p].msgs # <<>> /\ m.kind # "host" /\ Obey(m) /\ RemoveFd(p)
  <2>1. p \in Tools /\ m \in Messages
    BY <1>3, MessageOf
  <2>2. db'.assigned = db.assigned
    BY <1>3, <2>1, ObeyGrants
  <2>3. p \notin Clients
    BY <2>1, DmucsClientsAssumption
  <2> QED BY <1>0, <1>3, <2>2, <2>3, RemoveFdKeeps
<1>4. CASE Crash(m)
  BY <1>4, CrashKeeps
<1> QED BY <1>1, <1>2, <1>3, <1>4 DEF HandleReq

LEMMA ServerThreadsKeep ==
    ASSUME ClientsInv, IInv, ServerThreads
    PROVE  ClientsInv'
<1>1. UNCHANGED <<sock, fdList, backlog, loop, proc>> /\ db'.assigned = db.assigned
  BY ThreadsGrants DEF ServerThreads, clientVars
<1>2. \A c \in Clients : ClientInv(c)'
  BY <1>1, ClientStays DEF ClientsInv
<1>3. Watching' /\ Waiting' /\ Looping'
  BY <1>1, ListsStay
<1> QED BY <1>1, <1>2, <1>3 DEF ClientsInv, ToolInv

LEMMA ClientsInitInv ==
    ASSUME ClientsInit
    PROVE  ClientsInv
<1>1. /\ <<>> \in Seq(Programs) /\ Len(<<>>) = 0
      /\ sock = [p \in Programs |-> Unconnected] /\ fdList = <<>> /\ backlog = <<>>
      /\ loop = Selecting
      /\ proc = [c \in Clients |-> [pc |-> "start", host |-> NoHost, waited |-> 0]]
  BY DEF ClientsInit
<1>2. sock \in [Programs -> SocketType] /\ proc \in [Clients -> ProcType]
  BY <1>1, UnconnectedType DEF ProcType
<1>3. \A c \in Clients : ClientInv(c)
  BY <1>1, UnconnectedType DEF ClientInv, Programs
<1>4. \A t \in Tools : ToolInv(t)
  BY <1>1, UnconnectedType DEF ToolInv, Programs
<1>5. Watching /\ Waiting /\ Looping
  BY <1>1 DEF Watching, Waiting, Looping, Selecting
<1> QED BY <1>2, <1>3, <1>4, <1>5 DEF ClientsInv

LEMMA ClientsNextInv ==
    ASSUME ClientsInv, IInv, [ClientsNext]_allVars
    PROVE  ClientsInv'
<1>1. CASE LoopStep
  BY <1>1, SelectKeeps, AcceptKeeps, HandleReqKeeps DEF LoopStep
<1>2. CASE ServerThreads
  BY <1>2, ServerThreadsKeep
<1>3. ASSUME NEW t \in Tools, ToolConnects(t) \/ ToolSends(t)
      PROVE  ClientsInv'
  BY <1>3, ToolStepKeeps
<1>4. ASSUME NEW c \in Clients, GetHostStep(c)
      PROVE  ClientsInv'
  BY <1>4, GetHostKeeps
<1>5. CASE UNCHANGED allVars
  <2>1. UNCHANGED <<db, sock, fdList, backlog, loop, proc>>
    BY <1>5 DEF allVars
  <2>2. \A c \in Clients : ClientInv(c)'
    BY <2>1, ClientStays DEF ClientsInv
  <2>3. Watching' /\ Waiting' /\ Looping'
    BY <2>1, ListsStay
  <2> QED BY <2>1, <2>2, <2>3 DEF ClientsInv, ToolInv
<1> QED BY <1>1, <1>2, <1>3, <1>4, <1>5 DEF ClientsNext

\* The server among its clients: the invariant of its database, and that of
\* the sockets and the processes at their other ends.
THEOREM ClientsInvariance == ClientsSpec => [](IInv /\ ClientsInv)
<1>1. ClientsInit => IInv /\ ClientsInv
  BY InitIInv, ClientsInitInv DEF ClientsInit
<1>2. IInv /\ ClientsInv /\ [ClientsNext]_allVars => (IInv /\ ClientsInv)'
  <2> SUFFICES ASSUME IInv, ClientsInv, [ClientsNext]_allVars
               PROVE  IInv' /\ ClientsInv'
    OBVIOUS
  <2>1. [Next]_vars
    BY ServerStep
  <2>2. IInv'
    BY <2>1, StuttersIInv
  <2> QED BY <2>2, ClientsNextInv
<1> QED BY <1>1, <1>2, PTL DEF ClientsSpec

\* Driven by its main loop and by the programs that connect to it, the server
\* does nothing that DmucsServer does not allow: what is proved of Spec holds
\* of the whole, main.cc:163-205.
THEOREM ServerAmongClients == ClientsSpec => Spec
<1>1. ClientsInit => Init
  BY DEF ClientsInit
<1>2. IInv /\ ClientsInv /\ [ClientsNext]_allVars => [Next]_vars
  BY ServerStep
<1> QED BY <1>1, <1>2, ClientsInvariance, PTL DEF ClientsSpec, Spec

\* The CPU a gethost process was given stays its own while
\* the command runs, even when the process is killed, until the server dies.
THEOREM CpuHeldWhileRunning == ClientsSpec => []CpuWhileRunning
<1>1. ClientsInv => CpuWhileRunning
  BY DEF ClientsInv, ClientInv, Has, CpuWhileRunning
<1> QED BY <1>1, ClientsInvariance, PTL

=============================================================================
