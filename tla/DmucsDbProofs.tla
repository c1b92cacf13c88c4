--------------------------- MODULE DmucsDbProofs ---------------------------
(***************************************************************************)
(* Lemmas about the operators of DmucsDb: what each does to the fields of  *)
(* the database, and that the methods and handlers made of them preserve   *)
(* DbInv and the CPUs of a host.                                           *)
(***************************************************************************)
EXTENDS DmucsDb, FiniteSetTheorems, TLAPS

----------------------------------------------------------------------------
(* The inductive invariant, on a database d.                               *)

SetsMatch(d) ==
    \A s \in States, h \in Hosts : h \in d.set[s] <=> (HaveHost(d, h) /\ d.state[h] = s)

Placed(d) ==
    \A h \in Hosts, t \in Tiers :
        d.cpus[h][t] > 0 => IsAvail(d, h) /\ t = GetTier(d, h)

TierExists(d) ==
    \A h \in Hosts : IsAvail(d, h) => GetTier(d, h) \in d.tiers[DpropOf[h]]

GrantsKnownIn(d) ==
    \A c \in Clients : d.assigned[c] # NoHost => HaveHost(d, d.assigned[c])

\* A host is created in state Avail, which it has until then.
NewHosts(d) ==
    \A h \in Hosts : ~HaveHost(d, h) => d.state[h] = "Avail"

DbInv(d) ==
    /\ d \in Db
    /\ SetsMatch(d)
    /\ Placed(d)
    /\ TierExists(d)
    /\ GrantsKnownIn(d)
    /\ NewHosts(d)

\* What a transition of a host leaves alone.
SameHosts(d, e) ==
    /\ e.info = d.info
    /\ e.load = d.load
    /\ e.fresh = d.fresh
    /\ e.assigned = d.assigned

----------------------------------------------------------------------------
(* Tiers.                                                                  *)

\* A host has at least one CPU.
LEMMA SpecType ==
    ASSUME NEW spec \in Specs
    PROVE  spec.ncpus \in Nat /\ spec.ncpus > 0
<1>1. spec \in [ncpus : Nat \ {0}, pindex : Int]
  BY DmucsDbAssumption
<1> QED BY <1>1

\* The tier calcTier computes is always a key the tier map may have.
LEMMA CalcTierType ==
    ASSUME NEW load \in Loads, NEW spec \in Specs
    PROVE  CalcTier(load, spec.pindex) \in Tiers
BY DEF CalcTier, Tiers

\* The tier of a host of the database is a key the tier map may have.
LEMMA GetTierType ==
    ASSUME NEW d \in Db, NEW h \in Hosts, HaveHost(d, h)
    PROVE  /\ d.info[h] \in Specs
           /\ GetTier(d, h) \in Tiers
<1>1. d.info[h] \in Specs /\ d.load[h] \in Loads
  BY DEF Db, HaveHost
<1> QED BY <1>1, CalcTierType DEF GetTier

\* addCpusToTier adds n CPUs of h to the list of tier t, and the tier.
LEMMA AddCpusEffect ==
    ASSUME NEW d \in Db, NEW h \in Hosts, NEW t \in Tiers, NEW n \in Nat
    PROVE  LET e == AddCpusToTier(d, h, t, n)
           IN  /\ e \in Db
               /\ SameHosts(d, e)
               /\ e.state = d.state
               /\ e.set = d.set
               /\ t \in e.tiers[DpropOf[h]]
               /\ \A q \in Dprops : d.tiers[q] \subseteq e.tiers[q]
               /\ \A g \in Hosts, u \in Tiers :
                    e.cpus[g][u] = IF g = h /\ u = t THEN d.cpus[h][t] + n
                                   ELSE d.cpus[g][u]
<1> DEFINE e == AddCpusToTier(d, h, t, n)
<1> DpropOf[h] \in Dprops
  BY DmucsDbAssumption
<1>1. /\ SameHosts(d, e) /\ e.state = d.state /\ e.set = d.set /\ e.peak = d.peak
      /\ e.tiers = [d.tiers EXCEPT ![DpropOf[h]] = d.tiers[DpropOf[h]] \cup {t}]
      /\ e.cpus = [d.cpus EXCEPT ![h] = [d.cpus[h] EXCEPT ![t] = d.cpus[h][t] + n]]
  BY DEF AddCpusToTier, SameHosts, Db
<1>2. e \in Db
  <2> DEFINE T == [d.tiers EXCEPT ![DpropOf[h]] = d.tiers[DpropOf[h]] \cup {t}]
             C == [d.cpus EXCEPT ![h] = [d.cpus[h] EXCEPT ![t] = d.cpus[h][t] + n]]
  <2>1. T \in [Dprops -> SUBSET Tiers]
    BY DEF Db
  <2>2. C \in [Hosts -> [Tiers -> Nat]]
    <3>1. d.cpus[h] \in [Tiers -> Nat]
      BY DEF Db
    <3>2. [d.cpus[h] EXCEPT ![t] = d.cpus[h][t] + n] \in [Tiers -> Nat]
      BY <3>1
    <3> QED BY <3>2 DEF Db
  <2>3. e = [d EXCEPT !.tiers = T, !.cpus = C]
    BY DEF AddCpusToTier
  <2> HIDE DEF T, C, e
  <2> QED BY <2>1, <2>2, <2>3 DEF Db
<1>3. /\ t \in e.tiers[DpropOf[h]]
      /\ \A q \in Dprops : d.tiers[q] \subseteq e.tiers[q]
  BY <1>1 DEF Db
<1>4. \A g \in Hosts, u \in Tiers :
        e.cpus[g][u] = IF g = h /\ u = t THEN d.cpus[h][t] + n ELSE d.cpus[g][u]
  BY <1>1 DEF Db
<1> QED BY <1>1, <1>2, <1>3, <1>4

\* delCpusFromTier leaves no CPU of h in the list of tier t.
LEMMA DelCpusEffect ==
    ASSUME NEW d \in Db, NEW h \in Hosts, NEW t \in Tiers
    PROVE  LET e == DelCpusFromTier(d, h, t)
           IN  /\ e \in Db
               /\ SameHosts(d, e)
               /\ e.state = d.state
               /\ e.set = d.set
               /\ e.tiers = d.tiers
               /\ \A g \in Hosts, u \in Tiers :
                    e.cpus[g][u] = IF g = h /\ u = t THEN 0 ELSE d.cpus[g][u]
BY DEF DelCpusFromTier, SameHosts, Db

\* A CPU that is picked leaves its list.
LEMMA TakeCpuEffect ==
    ASSUME NEW d \in Db, NEW h \in Hosts, NEW t \in Tiers, d.cpus[h][t] > 0
    PROVE  LET e == TakeCpu(d, h, t)
           IN  /\ e \in Db
               /\ SameHosts(d, e)
               /\ e.state = d.state /\ e.set = d.set /\ e.tiers = d.tiers
               /\ \A g \in Hosts, u \in Tiers :
                    e.cpus[g][u] = IF g = h /\ u = t THEN d.cpus[h][t] - 1
                                   ELSE d.cpus[g][u]
<1> DEFINE C == [d.cpus EXCEPT ![h] = [d.cpus[h] EXCEPT ![t] = d.cpus[h][t] - 1]]
           e == TakeCpu(d, h, t)
<1>1. e = [d EXCEPT !.cpus = C]
  BY DEF TakeCpu
<1>2. d.cpus[h][t] - 1 \in Nat
  BY DEF Db
<1>3. C \in [Hosts -> [Tiers -> Nat]]
  <2>1. [d.cpus[h] EXCEPT ![t] = d.cpus[h][t] - 1] \in [Tiers -> Nat]
    BY <1>2 DEF Db
  <2> QED BY <2>1 DEF Db
<1>4. \A g \in Hosts, u \in Tiers :
        C[g][u] = IF g = h /\ u = t THEN d.cpus[h][t] - 1 ELSE d.cpus[g][u]
  BY DEF Db
<1> HIDE DEF C, e
<1>5. /\ e \in Db /\ SameHosts(d, e) /\ e.cpus = C
      /\ e.state = d.state /\ e.set = d.set /\ e.tiers = d.tiers
  BY <1>1, <1>3 DEF Db, SameHosts
<1> QED BY <1>4, <1>5 DEF e

----------------------------------------------------------------------------
(* Transitions of a state object.                                          *)

\* Leaving a state takes the host out of the set of that state, and its CPUs
\* out of the lists.
LEMMA RemoveEffect ==
    ASSUME NEW d, DbInv(d), NEW h \in Hosts, HaveHost(d, h)
    PROVE  LET e == RemoveFromDb(d, h)
           IN  /\ e \in Db
               /\ SameHosts(d, e)
               /\ e.state = d.state
               /\ e.tiers = d.tiers
               /\ e.set = [d.set EXCEPT ![d.state[h]] = d.set[d.state[h]] \ {h}]
               /\ \A t \in Tiers : e.cpus[h][t] = 0
               /\ \A g \in Hosts \ {h} : e.cpus[g] = d.cpus[g]
<1> DEFINE t0 == GetTier(d, h)
           e == RemoveFromDb(d, h)
<1>0. d \in Db /\ t0 \in Tiers /\ d.state[h] \in States
  BY GetTierType DEF DbInv, Db
<1>1. CASE d.state[h] = "Avail"
  <2> DEFINE d1 == DelCpusFromTier(d, h, t0)
             d2 == DelCpusFromTier(d1, h, t0)
  <2>1. d1 \in Db /\ d1.info = d.info /\ d1.load = d.load /\ d1.tiers = d.tiers
    BY <1>0, DelCpusEffect DEF SameHosts
  <2>2. GetTier(d1, h) = t0
    BY <2>1 DEF GetTier
  <2>3. t0 \in d1.tiers[DpropOf[h]]
    BY <1>1, <2>1 DEF DbInv, TierExists, IsAvail
  <2>4. e = [d2 EXCEPT !.set["Avail"] = d2.set["Avail"] \ {h}]
    BY <1>1, <2>2, <2>3 DEF RemoveFromDb, DelFromAvailDb, DelFromHostSet
  <2>5. /\ d2 \in Db
        /\ SameHosts(d, d2) /\ d2.state = d.state /\ d2.set = d.set
        /\ d2.tiers = d.tiers
        /\ \A g \in Hosts, u \in Tiers :
             d2.cpus[g][u] = IF g = h /\ u = t0 THEN 0 ELSE d.cpus[g][u]
    BY <1>0, <2>1, DelCpusEffect DEF SameHosts
  <2> HIDE DEF d1, d2
  <2>6. /\ e \in Db
        /\ SameHosts(d2, e) /\ e.state = d2.state /\ e.tiers = d2.tiers
        /\ e.cpus = d2.cpus
        /\ e.set = [d2.set EXCEPT !["Avail"] = d2.set["Avail"] \ {h}]
    <3> HIDE DEF e
    <3> QED BY <2>4, <2>5 DEF Db, SameHosts
  <2> HIDE DEF e
  <2>7. \A t \in Tiers : e.cpus[h][t] = 0
    <3> TAKE t \in Tiers
    <3>1. d.cpus[h][t] > 0 => t = t0
      BY DEF DbInv, Placed
    <3>2. d.cpus[h][t] \in Nat
      BY <1>0 DEF Db
    <3> QED BY <2>5, <2>6, <3>1, <3>2
  <2>8. \A g \in Hosts \ {h} : e.cpus[g] = d.cpus[g]
    <3> TAKE g \in Hosts \ {h}
    <3>1. e.cpus[g] \in [Tiers -> Nat] /\ d.cpus[g] \in [Tiers -> Nat]
      BY <1>0, <2>6 DEF Db
    <3>2. \A u \in Tiers : e.cpus[g][u] = d.cpus[g][u]
      BY <2>5, <2>6
    <3> QED BY <3>1, <3>2
  <2> QED BY <1>1, <2>5, <2>6, <2>7, <2>8 DEF SameHosts, e
<1>2. CASE d.state[h] # "Avail"
  <2>1. e = [d EXCEPT !.set[d.state[h]] = d.set[d.state[h]] \ {h}]
    BY <1>2 DEF RemoveFromDb, DelFromHostSet
  <2> HIDE DEF e
  <2>2. /\ e \in Db
        /\ SameHosts(d, e) /\ e.state = d.state /\ e.tiers = d.tiers
        /\ e.cpus = d.cpus
        /\ e.set = [d.set EXCEPT ![d.state[h]] = d.set[d.state[h]] \ {h}]
    BY <1>0, <2>1 DEF Db, SameHosts
  <2>3. \A t \in Tiers : d.cpus[h][t] = 0
    BY <1>0, <1>2 DEF DbInv, Placed, IsAvail, Db
  <2> QED BY <1>2, <2>2, <2>3 DEF SameHosts, e
<1> QED BY <1>1, <1>2

\* A transition takes the host from the set and the lists of its old state to
\* those of the new one; an available host is listed in full.
LEMMA MoveToEffect ==
    ASSUME NEW d, DbInv(d), NEW h \in Hosts, HaveHost(d, h),
           NEW s \in States, s # d.state[h]
    PROVE  LET e == MoveTo(d, h, s)
           IN  /\ e \in Db
               /\ SameHosts(d, e)
               /\ e.state = [d.state EXCEPT ![h] = s]
               /\ \A r \in States, g \in Hosts :
                    g \in e.set[r] <=> IF g = h THEN r = s ELSE g \in d.set[r]
               /\ \A q \in Dprops : d.tiers[q] \subseteq e.tiers[q]
               /\ s = "Avail" => GetTier(d, h) \in e.tiers[DpropOf[h]]
               /\ \A t \in Tiers :
                    e.cpus[h][t] = IF s = "Avail" /\ t = GetTier(d, h)
                                   THEN d.info[h].ncpus ELSE 0
               /\ \A g \in Hosts \ {h}, t \in Tiers : e.cpus[g][t] = d.cpus[g][t]
<1> DEFINE t0 == GetTier(d, h)
           d1 == RemoveFromDb(d, h)
           d2 == [d1 EXCEPT !.state[h] = s]
           e == MoveTo(d, h, s)
<1>a. d \in Db /\ d.state[h] \in States
  BY DEF DbInv, Db
<1>b. t0 \in Tiers /\ d.info[h] \in Specs
  BY <1>a, GetTierType
<1>c. d.info[h].ncpus \in Nat
  BY <1>b, SpecType
<1>0. /\ d \in Db /\ t0 \in Tiers /\ d.state[h] \in States
      /\ d.info[h] \in Specs /\ d.info[h].ncpus \in Nat
  BY <1>a, <1>b, <1>c
<1>1. /\ d1 \in Db /\ SameHosts(d, d1) /\ d1.state = d.state /\ d1.tiers = d.tiers
      /\ d1.set = [d.set EXCEPT ![d.state[h]] = d.set[d.state[h]] \ {h}]
      /\ \A t \in Tiers : d1.cpus[h][t] = 0
      /\ \A g \in Hosts \ {h} : d1.cpus[g] = d.cpus[g]
  BY RemoveEffect
<1>2. e = AddToDb(d2, h)
  BY DEF MoveTo, ChangeState
<1> HIDE DEF d1
<1>3. /\ d2 \in Db /\ SameHosts(d, d2) /\ d2.state = [d.state EXCEPT ![h] = s]
      /\ d2.tiers = d1.tiers /\ d2.set = d1.set /\ d2.cpus = d1.cpus
  BY <1>1 DEF Db, SameHosts
<1> HIDE DEF d2
<1>4. d2.state[h] = s /\ GetTier(d2, h) = t0 /\ d2.info[h].ncpus = d.info[h].ncpus
  BY <1>0, <1>3 DEF GetTier, SameHosts, Db
<1>5. \A r \in States, g \in Hosts :
        g \in d2.set[r] <=> IF g = h /\ r = d.state[h] THEN FALSE ELSE g \in d.set[r]
  BY <1>0, <1>1, <1>3 DEF Db
<1>6. \A r \in States : h \in d.set[r] <=> r = d.state[h]
  BY DEF DbInv, SetsMatch
<1>7. CASE s = "Avail"
  <2> DEFINE d3 == AddToHostSet(d2, "Avail", h)
  <2>1. e = AddCpusToTier(d3, h, t0, d.info[h].ncpus)
    BY <1>2, <1>4, <1>7 DEF AddToDb, AddToAvailDb, AddToHostSet, GetTier
  <2> HIDE DEF e
  <2>2. /\ d3 \in Db /\ SameHosts(d2, d3) /\ d3.state = d2.state
        /\ d3.tiers = d2.tiers /\ d3.cpus = d2.cpus
        /\ d3.set = [d2.set EXCEPT !["Avail"] = d2.set["Avail"] \cup {h}]
    <3>1. d3 = [d2 EXCEPT !.set["Avail"] = d2.set["Avail"] \cup {h}]
      BY DEF AddToHostSet
    <3>2. "Avail" \in States
      BY <1>7
    <3> HIDE DEF d3
    <3> QED BY <1>3, <3>1, <3>2 DEF Db, SameHosts
  <2> HIDE DEF d3
  <2>3. /\ e \in Db /\ SameHosts(d3, e) /\ e.state = d3.state /\ e.set = d3.set
        /\ t0 \in e.tiers[DpropOf[h]]
        /\ \A q \in Dprops : d3.tiers[q] \subseteq e.tiers[q]
        /\ \A g \in Hosts, u \in Tiers :
             e.cpus[g][u] = IF g = h /\ u = t0 THEN d3.cpus[h][t0] + d.info[h].ncpus
                            ELSE d3.cpus[g][u]
    <3> DEFINE n == d.info[h].ncpus
    <3>1. d3 \in Db /\ n \in Nat /\ t0 \in Tiers /\ e = AddCpusToTier(d3, h, t0, n)
      BY <1>0, <2>1, <2>2
    <3> HIDE DEF n, t0
    <3> QED BY <3>1, AddCpusEffect, SMTT(30) DEF n
  <2>4. \A r \in States, g \in Hosts :
          g \in e.set[r] <=> IF g = h THEN r = s ELSE g \in d.set[r]
    BY <1>3, <1>5, <1>6, <1>7, <2>2, <2>3 DEF Db
  <2>5. \A t \in Tiers :
          e.cpus[h][t] = IF t = t0 THEN d.info[h].ncpus ELSE 0
    BY <1>0, <1>1, <1>3, <2>2, <2>3
  <2>6. \A g \in Hosts \ {h}, t \in Tiers : e.cpus[g][t] = d.cpus[g][t]
    BY <1>1, <1>3, <2>2, <2>3
  <2> QED
    BY <1>1, <1>3, <1>7, <2>2, <2>3, <2>4, <2>5, <2>6 DEF SameHosts, e
<1>8. CASE s # "Avail"
  <2>1. e = AddToHostSet(d2, s, h)
    BY <1>2, <1>4, <1>8 DEF AddToDb
  <2> HIDE DEF e
  <2>2. /\ e \in Db /\ SameHosts(d2, e) /\ e.state = d2.state
        /\ e.tiers = d2.tiers /\ e.cpus = d2.cpus
        /\ e.set = [d2.set EXCEPT ![s] = d2.set[s] \cup {h}]
    BY <1>3, <2>1 DEF AddToHostSet, Db, SameHosts
  <2>3. \A r \in States, g \in Hosts :
          g \in e.set[r] <=> IF g = h THEN r = s ELSE g \in d.set[r]
    BY <1>3, <1>5, <1>6, <2>2 DEF Db
  <2>4. \A t \in Tiers : e.cpus[h][t] = 0
    BY <1>1, <1>3, <2>2
  <2>5. \A g \in Hosts \ {h}, t \in Tiers : e.cpus[g][t] = d.cpus[g][t]
    BY <1>1, <1>3, <2>2
  <2>6. SameHosts(d, e) /\ e.state = [d.state EXCEPT ![h] = s] /\ e.tiers = d.tiers
    BY <1>1, <1>3, <2>2 DEF SameHosts
  <2> QED BY <1>8, <2>2, <2>3, <2>4, <2>5, <2>6 DEF e
<1> QED BY <1>7, <1>8

----------------------------------------------------------------------------
(* The CPUs of a host: listed and held.                                    *)

\* From d to e, a host that stays available keeps its CPUs, and one that
\* becomes available is listed in full.
Conserves(d, e) ==
    \A g \in Hosts : IsAvail(e, g) =>
        IF IsAvail(d, g)
        THEN /\ e.info[g] = d.info[g]
             /\ Listed(e, g) + Held(e, g) = Listed(d, g) + Held(d, g)
        ELSE Listed(e, g) = e.info[g].ncpus

LEMMA HeldType ==
    ASSUME NEW d, NEW g
    PROVE  /\ Held(d, g) \in Nat
           /\ Held(d, g) <= Cardinality(Clients)
<1> DEFINE H == {c \in Clients : d.assigned[c] = g}
<1>1. IsFiniteSet(Clients) /\ H \subseteq Clients
  BY DmucsDbAssumption
<1>2. IsFiniteSet(H) /\ Cardinality(H) <= Cardinality(Clients)
  BY <1>1, FS_Subset
<1>3. Cardinality(H) \in Nat
  BY <1>2, FS_CardinalityType
<1> QED BY <1>2, <1>3 DEF Held

LEMMA ListedType ==
    ASSUME NEW d \in Db, NEW g \in Hosts, HaveHost(d, g)
    PROVE  Listed(d, g) \in Nat /\ d.info[g].ncpus \in Nat
<1>1. GetTier(d, g) \in Tiers /\ d.info[g] \in Specs
  BY GetTierType
<1> QED BY <1>1, SpecType DEF Listed, Db

\* Steps that leave the grants alone compose, if a host that is available
\* before and after is so in between.
LEMMA ConservesTrans ==
    ASSUME NEW d \in Db, NEW m \in Db, NEW e \in Db,
           Conserves(d, m), Conserves(m, e),
           m.assigned = d.assigned, e.assigned = d.assigned,
           \A g \in Hosts : IsAvail(d, g) /\ IsAvail(e, g) => IsAvail(m, g)
    PROVE  Conserves(d, e)
<1> SUFFICES ASSUME NEW g \in Hosts, IsAvail(e, g)
             PROVE  IF IsAvail(d, g)
                    THEN /\ e.info[g] = d.info[g]
                         /\ Listed(e, g) + Held(e, g) = Listed(d, g) + Held(d, g)
                    ELSE Listed(e, g) = e.info[g].ncpus
  BY DEF Conserves
<1>1. Held(m, g) = Held(d, g) /\ Held(e, g) = Held(d, g) /\ Held(d, g) \in Nat
  BY HeldType DEF Held
<1>2. CASE IsAvail(m, g)
  <2>1. Listed(m, g) \in Nat /\ Listed(e, g) \in Nat
    BY <1>2, ListedType DEF IsAvail
  <2>2. /\ e.info[g] = m.info[g]
        /\ Listed(e, g) + Held(e, g) = Listed(m, g) + Held(m, g)
    BY <1>2 DEF Conserves
  <2>3. IF IsAvail(d, g)
        THEN /\ m.info[g] = d.info[g]
             /\ Listed(m, g) + Held(m, g) = Listed(d, g) + Held(d, g)
        ELSE Listed(m, g) = m.info[g].ncpus
    BY <1>2 DEF Conserves
  <2> HIDE DEF Listed, Held
  <2> QED BY <1>1, <2>1, <2>2, <2>3
<1>3. CASE ~IsAvail(m, g)
  BY <1>3 DEF Conserves
<1> QED BY <1>2, <1>3

\* A transition preserves the invariant and the CPUs of the other hosts.
LEMMA MoveToInv ==
    ASSUME NEW d, DbInv(d), NEW h \in Hosts, HaveHost(d, h),
           NEW s \in States, s # d.state[h]
    PROVE  LET e == MoveTo(d, h, s)
           IN  /\ DbInv(e)
               /\ SameHosts(d, e)
               /\ e.state = [d.state EXCEPT ![h] = s]
               /\ Conserves(d, e)
<1> DEFINE e == MoveTo(d, h, s)
           t0 == GetTier(d, h)
<1>0. d \in Db
  BY DEF DbInv
<1>1. /\ e \in Db /\ SameHosts(d, e)
      /\ e.state = [d.state EXCEPT ![h] = s]
      /\ \A r \in States, g \in Hosts :
           g \in e.set[r] <=> IF g = h THEN r = s ELSE g \in d.set[r]
      /\ \A q \in Dprops : d.tiers[q] \subseteq e.tiers[q]
      /\ s = "Avail" => GetTier(d, h) \in e.tiers[DpropOf[h]]
      /\ \A t \in Tiers :
           e.cpus[h][t] = IF s = "Avail" /\ t = t0 THEN d.info[h].ncpus ELSE 0
      /\ \A g \in Hosts \ {h}, t \in Tiers : e.cpus[g][t] = d.cpus[g][t]
  BY MoveToEffect
<1> HIDE DEF e
<1>2. /\ \A g \in Hosts : HaveHost(e, g) <=> HaveHost(d, g)
      /\ \A g \in Hosts : GetTier(e, g) = GetTier(d, g)
      /\ e.state[h] = s
      /\ \A g \in Hosts \ {h} : e.state[g] = d.state[g]
      /\ \A g \in Hosts \ {h} : IsAvail(e, g) <=> IsAvail(d, g)
  BY <1>0, <1>1 DEF SameHosts, HaveHost, GetTier, IsAvail, Db
<1>3. SetsMatch(e)
  BY <1>1, <1>2 DEF DbInv, SetsMatch
<1>4. Placed(e)
  <2> SUFFICES ASSUME NEW g \in Hosts, NEW t \in Tiers, e.cpus[g][t] > 0
               PROVE  IsAvail(e, g) /\ t = GetTier(e, g)
    BY DEF Placed
  <2>1. CASE g = h
    BY <1>1, <1>2, <2>1 DEF IsAvail
  <2>2. CASE g # h
    BY <1>1, <1>2, <2>2 DEF DbInv, Placed
  <2> QED BY <2>1, <2>2
<1>5. TierExists(e)
  <2> SUFFICES ASSUME NEW g \in Hosts, IsAvail(e, g)
               PROVE  GetTier(e, g) \in e.tiers[DpropOf[g]]
    BY DEF TierExists
  <2>0. DpropOf[g] \in Dprops
    BY DmucsDbAssumption
  <2>1. CASE g = h
    BY <1>1, <1>2, <2>1 DEF IsAvail
  <2>2. CASE g # h
    BY <1>1, <1>2, <2>0, <2>2 DEF DbInv, TierExists
  <2> QED BY <2>1, <2>2
<1>6. GrantsKnownIn(e) /\ NewHosts(e)
  <2>1. GrantsKnownIn(e)
    BY <1>0, <1>1, <1>2, DmucsDbAssumption DEF DbInv, GrantsKnownIn, SameHosts, Db
  <2>2. NewHosts(e)
    BY <1>2 DEF DbInv, NewHosts
  <2> QED BY <2>1, <2>2
<1>7. Conserves(d, e)
  <2> SUFFICES ASSUME NEW g \in Hosts, IsAvail(e, g)
               PROVE  IF IsAvail(d, g)
                      THEN /\ e.info[g] = d.info[g]
                           /\ Listed(e, g) + Held(e, g) = Listed(d, g) + Held(d, g)
                      ELSE Listed(e, g) = e.info[g].ncpus
    BY DEF Conserves
  <2>1. Held(e, g) = Held(d, g) /\ e.info[g] = d.info[g]
    BY <1>1 DEF Held, SameHosts
  <2>2. GetTier(d, g) \in Tiers
    BY <1>0, <1>2, GetTierType DEF IsAvail
  <2>3. CASE g = h
    <3>1. s = "Avail" /\ ~IsAvail(d, g)
      BY <1>2, <2>3 DEF IsAvail
    <3> QED BY <1>1, <1>2, <2>1, <2>2, <2>3, <3>1 DEF Listed
  <2>4. CASE g # h
    BY <1>1, <1>2, <2>1, <2>2, <2>4 DEF Listed
  <2> QED BY <2>3, <2>4
<1> QED BY <1>1, <1>3, <1>4, <1>5, <1>6, <1>7 DEF DbInv, e

LEMMA ConservesSelf ==
    ASSUME NEW d
    PROVE  Conserves(d, d)
<1> SUFFICES ASSUME NEW g \in Hosts, IsAvail(d, g)
             PROVE  Listed(d, g) + Held(d, g) = Listed(d, g) + Held(d, g)
  BY DEF Conserves
<1> QED OBVIOUS

\* The four methods of a state object.
LEMMA MethodInv ==
    ASSUME NEW d, DbInv(d), NEW h \in Hosts, HaveHost(d, h),
           NEW e \in {Avail(d, h), Unavail(d, h), Silent(d, h), Overloaded(d, h)}
    PROVE  /\ DbInv(e) /\ SameHosts(d, e) /\ Conserves(d, e)
           /\ \A g \in Hosts \ {h} : e.state[g] = d.state[g]
<1>1. d.state[h] \in States /\ d.state \in [Hosts -> States]
  BY DEF DbInv, Db
<1>2. e = d \/ \E s \in States : s # d.state[h] /\ e = MoveTo(d, h, s)
  <2>1. CASE e = Avail(d, h)
    <3>1. CASE d.state[h] = "Avail"
      BY <2>1, <3>1 DEF Avail
    <3>2. CASE d.state[h] = "Unavail" /\ GetTier(d, h) = 0
      BY <2>1, <3>2 DEF Avail, States
    <3>3. CASE d.state[h] # "Avail" /\ ~(d.state[h] = "Unavail" /\ GetTier(d, h) = 0)
      <4>1. e = MoveTo(d, h, "Avail")
        BY <2>1, <3>3 DEF Avail
      <4> QED BY <3>3, <4>1 DEF States
    <3> QED BY <3>1, <3>2, <3>3
  <2>2. CASE e = Unavail(d, h)
    BY <2>2 DEF Unavail, States
  <2>3. CASE e = Silent(d, h)
    BY <2>3 DEF Silent, States
  <2>4. CASE e = Overloaded(d, h)
    BY <2>4 DEF Overloaded, States
  <2> QED BY <2>1, <2>2, <2>3, <2>4
<1>3. CASE e = d
  BY <1>3, ConservesSelf DEF SameHosts
<1>4. ASSUME NEW s \in States, s # d.state[h], e = MoveTo(d, h, s)
      PROVE  /\ DbInv(e) /\ SameHosts(d, e) /\ Conserves(d, e)
             /\ \A g \in Hosts \ {h} : e.state[g] = d.state[g]
  <2>1. /\ DbInv(e) /\ SameHosts(d, e) /\ Conserves(d, e)
        /\ e.state = [d.state EXCEPT ![h] = s]
    BY <1>4, MoveToInv
  <2> QED BY <1>1, <2>1
<1> QED BY <1>2, <1>3, <1>4

\* What a method does to the state of its host.
LEMMA OverloadedState ==
    ASSUME NEW d, DbInv(d), NEW h \in Hosts, HaveHost(d, h)
    PROVE  Overloaded(d, h).state =
             [d.state EXCEPT ![h] = IF d.state[h] = "Avail" THEN "Overloaded"
                                    ELSE d.state[h]]
<1>1. CASE d.state[h] = "Avail"
  <2>1. "Overloaded" \in States /\ "Overloaded" # d.state[h]
    BY <1>1 DEF States
  <2> QED BY <1>1, <2>1, MoveToInv DEF Overloaded
<1>2. CASE d.state[h] # "Avail"
  BY <1>2 DEF Overloaded, DbInv, Db
<1> QED BY <1>1, <1>2

\* What updateTier does to the load averages and lastUpdate_.
Stored(d, h, load) == [d EXCEPT !.load[h] = load, !.fresh[h] = TRUE]

LEMMA StoredInv ==
    ASSUME NEW d, DbInv(d), NEW h \in Hosts, HaveHost(d, h), NEW load \in Loads,
           IsAvail(d, h) => CalcTier(load, d.info[h].pindex) = GetTier(d, h)
    PROVE  LET e == Stored(d, h, load)
           IN  /\ DbInv(e)
               /\ e.info = d.info /\ e.assigned = d.assigned /\ e.state = d.state
               /\ GetTier(e, h) = CalcTier(load, d.info[h].pindex)
               /\ Conserves(d, e)
<1> DEFINE e == Stored(d, h, load)
<1>0. d \in Db
  BY DEF DbInv
<1>1. /\ e \in Db
      /\ e.info = d.info /\ e.assigned = d.assigned /\ e.state = d.state
      /\ e.cpus = d.cpus /\ e.set = d.set /\ e.tiers = d.tiers
      /\ e.load = [d.load EXCEPT ![h] = load]
  BY <1>0 DEF Stored, Db
<1> HIDE DEF e
<1>2. /\ \A g \in Hosts : HaveHost(e, g) <=> HaveHost(d, g)
      /\ \A g \in Hosts : IsAvail(e, g) <=> IsAvail(d, g)
      /\ \A g \in Hosts \ {h} : GetTier(e, g) = GetTier(d, g)
      /\ GetTier(e, h) = CalcTier(load, d.info[h].pindex)
  BY <1>0, <1>1 DEF HaveHost, IsAvail, GetTier, Db
<1>3. \A g \in Hosts : IsAvail(d, g) => GetTier(e, g) = GetTier(d, g)
  BY <1>2
<1>4. SetsMatch(e) /\ Placed(e) /\ TierExists(e)
  BY <1>1, <1>2, <1>3 DEF DbInv, SetsMatch, Placed, TierExists
<1>5. GrantsKnownIn(e) /\ NewHosts(e)
  <2>1. GrantsKnownIn(e)
    BY <1>0, <1>1, <1>2, DmucsDbAssumption DEF DbInv, GrantsKnownIn, Db
  <2>2. NewHosts(e)
    BY <1>1, <1>2 DEF DbInv, NewHosts
  <2> QED BY <2>1, <2>2
<1>6. Conserves(d, e)
  <2> SUFFICES ASSUME NEW g \in Hosts, IsAvail(e, g)
               PROVE  /\ IsAvail(d, g) /\ e.info[g] = d.info[g]
                      /\ Listed(e, g) + Held(e, g) = Listed(d, g) + Held(d, g)
    BY DEF Conserves
  <2> QED BY <1>1, <1>2, <1>3 DEF Listed, Held
<1> QED BY <1>1, <1>2, <1>4, <1>5, <1>6 DEF DbInv, e

\* moveCpus between the tiers updateTier compares, with the averages stored
\* after it.
LEMMA MoveStoredInv ==
    ASSUME NEW d, DbInv(d), NEW h \in Hosts, HaveHost(d, h), NEW load \in Loads,
           NEW t1, t1 = CalcTier(load, d.info[h].pindex), t1 # GetTier(d, h)
    PROVE  LET e == Stored(MoveCpus(d, h, GetTier(d, h), t1), h, load)
           IN  /\ DbInv(e)
               /\ e.info = d.info /\ e.assigned = d.assigned /\ e.state = d.state
               /\ GetTier(e, h) = t1
               /\ Conserves(d, e)
<1> DEFINE t0 == GetTier(d, h)
           n == d.cpus[h][t0]
           d1 == DelCpusFromTier(d, h, t0)
           d2 == AddCpusToTier(d1, h, t1, n)
           e == Stored(d2, h, load)
<1>0. /\ d \in Db /\ t0 \in Tiers /\ d.info[h] \in Specs /\ t1 \in Tiers
      /\ n \in Nat
  <2>1. d \in Db
    BY DEF DbInv
  <2>2. t0 \in Tiers /\ d.info[h] \in Specs
    BY <2>1, GetTierType
  <2>3. t1 \in Tiers
    BY <2>2, CalcTierType
  <2> QED BY <2>1, <2>2, <2>3 DEF Db
<1>1. e = Stored(MoveCpus(d, h, t0, t1), h, load)
  BY DEF MoveCpus
<1>2. /\ d1 \in Db /\ SameHosts(d, d1) /\ d1.state = d.state
      /\ d1.set = d.set /\ d1.tiers = d.tiers
      /\ \A g \in Hosts, u \in Tiers :
           d1.cpus[g][u] = IF g = h /\ u = t0 THEN 0 ELSE d.cpus[g][u]
  BY <1>0, DelCpusEffect
<1> HIDE DEF t0, n, d1
<1>3. /\ d2 \in Db /\ SameHosts(d1, d2) /\ d2.state = d1.state
      /\ d2.set = d1.set /\ t1 \in d2.tiers[DpropOf[h]]
      /\ \A q \in Dprops : d1.tiers[q] \subseteq d2.tiers[q]
      /\ \A g \in Hosts, u \in Tiers :
           d2.cpus[g][u] = IF g = h /\ u = t1 THEN d1.cpus[h][t1] + n
                           ELSE d1.cpus[g][u]
  <2>1. d1 \in Db /\ t1 \in Tiers /\ n \in Nat
    BY <1>0, <1>2
  <2> QED BY <2>1, AddCpusEffect
<1> HIDE DEF d2
<1>4. /\ e \in Db
      /\ e.info = d.info /\ e.assigned = d.assigned /\ e.state = d.state
      /\ e.cpus = d2.cpus /\ e.set = d.set /\ e.tiers = d2.tiers
      /\ e.load = [d.load EXCEPT ![h] = load]
  BY <1>2, <1>3 DEF Stored, Db, SameHosts
<1> HIDE DEF e
<1>5. /\ \A g \in Hosts : HaveHost(e, g) <=> HaveHost(d, g)
      /\ \A g \in Hosts : IsAvail(e, g) <=> IsAvail(d, g)
      /\ \A g \in Hosts \ {h} : GetTier(e, g) = GetTier(d, g)
      /\ GetTier(e, h) = t1
  BY <1>0, <1>4 DEF HaveHost, IsAvail, GetTier, Db
<1>6. \A g \in Hosts \ {h}, u \in Tiers : e.cpus[g][u] = d.cpus[g][u]
  BY <1>2, <1>3, <1>4
<1>7. \A u \in Tiers : e.cpus[h][u] = IF u = t1 THEN n ELSE 0
  <2> TAKE u \in Tiers
  <2>1. d.cpus[h][u] \in Nat /\ (u # t0 => d.cpus[h][u] = 0)
    BY <1>0 DEF DbInv, Placed, Db, t0
  <2>2. d.cpus[h][t1] = 0
    BY <1>0 DEF DbInv, Placed, Db, t0
  <2> QED BY <1>0, <1>2, <1>3, <1>4, <2>1, <2>2 DEF t0
<1>8. n > 0 => IsAvail(d, h)
  BY <1>0 DEF DbInv, Placed, n
<1>9. SetsMatch(e)
  BY <1>4, <1>5 DEF DbInv, SetsMatch
<1>10. Placed(e)
  <2> SUFFICES ASSUME NEW g \in Hosts, NEW u \in Tiers, e.cpus[g][u] > 0
               PROVE  IsAvail(e, g) /\ u = GetTier(e, g)
    BY DEF Placed
  <2>1. CASE g = h
    BY <1>5, <1>7, <1>8, <2>1
  <2>2. CASE g # h
    BY <1>5, <1>6, <2>2 DEF DbInv, Placed
  <2> QED BY <2>1, <2>2
<1>11. TierExists(e)
  <2> SUFFICES ASSUME NEW g \in Hosts, IsAvail(e, g)
               PROVE  GetTier(e, g) \in e.tiers[DpropOf[g]]
    BY DEF TierExists
  <2>0. DpropOf[g] \in Dprops
    BY DmucsDbAssumption
  <2> QED BY <1>2, <1>3, <1>4, <1>5, <2>0 DEF DbInv, TierExists
<1>12. GrantsKnownIn(e) /\ NewHosts(e)
  <2>1. GrantsKnownIn(e)
    BY <1>0, <1>4, <1>5, DmucsDbAssumption DEF DbInv, GrantsKnownIn, Db
  <2>2. NewHosts(e)
    BY <1>4, <1>5 DEF DbInv, NewHosts
  <2> QED BY <2>1, <2>2
<1>13. Conserves(d, e)
  <2> SUFFICES ASSUME NEW g \in Hosts, IsAvail(e, g)
               PROVE  /\ IsAvail(d, g) /\ e.info[g] = d.info[g]
                      /\ Listed(e, g) + Held(e, g) = Listed(d, g) + Held(d, g)
    BY DEF Conserves
  <2>1. Held(e, g) = Held(d, g)
    BY <1>4 DEF Held
  <2>2. Listed(e, g) = Listed(d, g)
    <3>1. CASE g = h
      BY <1>0, <1>5, <1>7, <3>1 DEF Listed, n, t0
    <3>2. CASE g # h
      <4>1. GetTier(d, g) \in Tiers
        BY <1>0, <1>5, GetTierType DEF IsAvail
      <4> QED BY <1>5, <1>6, <3>2, <4>1 DEF Listed
    <3> QED BY <3>1, <3>2
  <2> QED BY <1>4, <1>5, <2>1, <2>2
<1> QED
  BY <1>1, <1>4, <1>5, <1>9, <1>10, <1>11, <1>12, <1>13 DEF DbInv, t0

\* updateTier: a host that was available stays so, unless its new tier is 0.
LEMMA UpdateTierInv ==
    ASSUME NEW d, DbInv(d), NEW h \in Hosts, HaveHost(d, h), NEW load \in Loads
    PROVE  LET e == UpdateTier(d, h, load)
           IN  /\ DbInv(e)
               /\ e.info = d.info /\ e.assigned = d.assigned
               /\ \A g \in Hosts \ {h} : e.state[g] = d.state[g]
               /\ e.state[h] # d.state[h] =>
                    /\ d.state[h] = "Avail"
                    /\ e.state[h] = "Overloaded" /\ GetTier(e, h) = 0
               /\ Conserves(d, e)
<1> DEFINE new == CalcTier(load, d.info[h].pindex)
           old == GetTier(d, h)
           e == UpdateTier(d, h, load)
<1>0. d \in Db
  BY DEF DbInv
<1>1. CASE new = old
  <2>1. e = Stored(d, h, load)
    BY <1>1 DEF UpdateTier, Stored
  <2> HIDE DEF e
  <2>2. /\ DbInv(e)
        /\ e.info = d.info /\ e.assigned = d.assigned /\ e.state = d.state
        /\ Conserves(d, e)
    BY <1>1, <2>1, StoredInv
  <2> QED BY <2>2 DEF e
<1>2. CASE new # old /\ new = 0
  <2> DEFINE m == Overloaded(d, h)
  <2>1. e = Stored(m, h, load)
    BY <1>2 DEF UpdateTier, Stored
  <2>2. /\ DbInv(m) /\ SameHosts(d, m) /\ Conserves(d, m)
        /\ m.state = [d.state EXCEPT ![h] = IF d.state[h] = "Avail" THEN "Overloaded"
                                            ELSE d.state[h]]
    BY MethodInv, OverloadedState
  <2> HIDE DEF e, m
  <2>3. /\ HaveHost(m, h) /\ ~IsAvail(m, h) /\ m.info[h] = d.info[h]
        /\ \A g \in Hosts \ {h} : m.state[g] = d.state[g]
        /\ m.state[h] \in {"Overloaded", d.state[h]}
        /\ m.state[h] # d.state[h] => d.state[h] = "Avail"
    BY <1>0, <2>2 DEF SameHosts, HaveHost, IsAvail, Db
  <2>4. /\ DbInv(e)
        /\ e.info = m.info /\ e.assigned = m.assigned /\ e.state = m.state
        /\ GetTier(e, h) = new
        /\ Conserves(m, e)
    BY <2>1, <2>2, <2>3, StoredInv
  <2>5. \A g \in Hosts : IsAvail(e, g) => IsAvail(m, g)
    BY <2>4 DEF IsAvail, HaveHost
  <2>6. d \in Db /\ m \in Db /\ e \in Db
    BY <1>0, <2>2, <2>4 DEF DbInv
  <2>7. Conserves(d, e)
    BY <2>2, <2>4, <2>5, <2>6, ConservesTrans DEF SameHosts
  <2> QED BY <1>2, <2>2, <2>3, <2>4, <2>7 DEF SameHosts, e
<1>3. CASE new # old /\ new # 0
  <2>1. e = Stored(MoveCpus(d, h, old, new), h, load)
    BY <1>3 DEF UpdateTier, Stored
  <2> HIDE DEF e
  <2>2. /\ DbInv(e)
        /\ e.info = d.info /\ e.assigned = d.assigned /\ e.state = d.state
        /\ Conserves(d, e)
    BY <1>3, <2>1, MoveStoredInv
  <2> QED BY <2>2 DEF e
<1> QED BY <1>1, <1>2, <1>3

----------------------------------------------------------------------------
(* The other operations of the handlers.                                   *)

\* addNewHost lists every CPU of the new host.
LEMMA AddNewHostInv ==
    ASSUME NEW d, DbInv(d), NEW h \in Hosts, ~HaveHost(d, h), NEW spec \in Specs
    PROVE  LET e == AddNewHost(d, h, spec)
           IN  /\ DbInv(e) /\ Conserves(d, e)
               /\ e.state = d.state /\ e.info = [d.info EXCEPT ![h] = spec]
<1> DEFINE d1 == [d EXCEPT !.info[h] = spec]
           d2 == AddToHostSet(d1, "Avail", h)
           t0 == GetTier(d1, h)
           e == AddNewHost(d, h, spec)
<1>0. d \in Db /\ d.state[h] = "Avail" /\ "Avail" \in States
  BY DEF DbInv, NewHosts, States
<1>1. /\ d1 \in Db /\ d1.info = [d.info EXCEPT ![h] = spec]
      /\ d1.load = d.load /\ d1.assigned = d.assigned /\ d1.state = d.state
      /\ d1.set = d.set /\ d1.tiers = d.tiers /\ d1.cpus = d.cpus
  BY <1>0 DEF Db
<1>2. d1.info[h] = spec /\ HaveHost(d1, h) /\ spec.ncpus \in Nat
  BY <1>0, <1>1, SpecType, DmucsDbAssumption DEF HaveHost, Db
<1>3. t0 \in Tiers
  BY <1>1, <1>2, GetTierType
<1>4. e = AddCpusToTier(d2, h, t0, spec.ncpus)
  BY <1>2 DEF AddNewHost, AddToAvailDb
<1> HIDE DEF d1
<1>5. /\ d2 \in Db /\ SameHosts(d1, d2) /\ d2.state = d1.state
      /\ d2.tiers = d1.tiers /\ d2.cpus = d1.cpus
      /\ d2.set = [d1.set EXCEPT !["Avail"] = d1.set["Avail"] \cup {h}]
  BY <1>0, <1>1, ZenonT(60) DEF AddToHostSet, Db, SameHosts
<1> HIDE DEF d2, e
<1>6. /\ e \in Db /\ SameHosts(d2, e) /\ e.state = d2.state /\ e.set = d2.set
      /\ t0 \in e.tiers[DpropOf[h]]
      /\ \A q \in Dprops : d2.tiers[q] \subseteq e.tiers[q]
      /\ \A g \in Hosts, u \in Tiers :
           e.cpus[g][u] = IF g = h /\ u = t0 THEN d2.cpus[h][t0] + spec.ncpus
                          ELSE d2.cpus[g][u]
  <2> DEFINE n == spec.ncpus
  <2>1. d2 \in Db /\ n \in Nat /\ t0 \in Tiers /\ e = AddCpusToTier(d2, h, t0, n)
    BY <1>2, <1>3, <1>4, <1>5
  <2> HIDE DEF n, t0
  <2> QED BY <2>1, AddCpusEffect DEF n
<1>7. /\ e.info = d1.info /\ e.load = d.load /\ e.assigned = d.assigned
      /\ e.state = d.state
  BY <1>1, <1>5, <1>6 DEF SameHosts
<1>8. /\ HaveHost(e, h) /\ IsAvail(e, h) /\ e.info[h] = spec
      /\ GetTier(e, h) = t0
      /\ \A g \in Hosts \ {h} : e.info[g] = d.info[g]
      /\ \A g \in Hosts \ {h} : HaveHost(e, g) <=> HaveHost(d, g)
      /\ \A g \in Hosts \ {h} : IsAvail(e, g) <=> IsAvail(d, g)
      /\ \A g \in Hosts \ {h} : GetTier(e, g) = GetTier(d, g)
  BY <1>0, <1>1, <1>2, <1>7 DEF HaveHost, IsAvail, GetTier, Db
<1> HIDE DEF t0
<1>9. SetsMatch(e)
  <2> SUFFICES ASSUME NEW s \in States, NEW g \in Hosts
               PROVE  g \in e.set[s] <=> (HaveHost(e, g) /\ e.state[g] = s)
    BY DEF SetsMatch
  <2>1. g \in e.set[s] <=> (g \in d.set[s] \/ (s = "Avail" /\ g = h))
    BY <1>0, <1>1, <1>5, <1>6 DEF Db
  <2>2. g \in d.set[s] <=> (HaveHost(d, g) /\ d.state[g] = s)
    BY DEF DbInv, SetsMatch
  <2> QED BY <1>0, <1>7, <1>8, <2>1, <2>2
<1>10. \A u \in Tiers : d.cpus[h][u] = 0
  BY <1>0 DEF DbInv, Placed, IsAvail, Db
<1>11. /\ \A u \in Tiers : e.cpus[h][u] = IF u = t0 THEN spec.ncpus ELSE 0
       /\ \A g \in Hosts \ {h}, u \in Tiers : e.cpus[g][u] = d.cpus[g][u]
  BY <1>1, <1>2, <1>3, <1>5, <1>6, <1>10
<1>12. Placed(e)
  <2> SUFFICES ASSUME NEW g \in Hosts, NEW u \in Tiers, e.cpus[g][u] > 0
               PROVE  IsAvail(e, g) /\ u = GetTier(e, g)
    BY DEF Placed
  <2>1. CASE g = h
    BY <1>8, <1>11, <2>1
  <2>2. CASE g # h
    BY <1>8, <1>11, <2>2 DEF DbInv, Placed
  <2> QED BY <2>1, <2>2
<1>13. TierExists(e)
  <2> SUFFICES ASSUME NEW g \in Hosts, IsAvail(e, g)
               PROVE  GetTier(e, g) \in e.tiers[DpropOf[g]]
    BY DEF TierExists
  <2>0. DpropOf[g] \in Dprops
    BY DmucsDbAssumption
  <2>1. CASE g = h
    BY <1>6, <1>8, <2>1
  <2>2. CASE g # h
    BY <1>1, <1>5, <1>6, <1>8, <2>0, <2>2 DEF DbInv, TierExists
  <2> QED BY <2>1, <2>2
<1>14. GrantsKnownIn(e) /\ NewHosts(e)
  <2>1. GrantsKnownIn(e)
    BY <1>0, <1>7, <1>8, DmucsDbAssumption DEF DbInv, GrantsKnownIn, Db
  <2>2. NewHosts(e)
    BY <1>7, <1>8 DEF DbInv, NewHosts
  <2> QED BY <2>1, <2>2
<1>15. Conserves(d, e)
  <2> SUFFICES ASSUME NEW g \in Hosts, IsAvail(e, g)
               PROVE  IF IsAvail(d, g)
                      THEN /\ e.info[g] = d.info[g]
                           /\ Listed(e, g) + Held(e, g) = Listed(d, g) + Held(d, g)
                      ELSE Listed(e, g) = e.info[g].ncpus
    BY DEF Conserves
  <2>1. CASE g = h
    <3>1. ~IsAvail(d, g)
      BY <2>1 DEF IsAvail
    <3> QED BY <1>3, <1>8, <1>11, <2>1, <3>1 DEF Listed
  <2>2. CASE g # h
    <3>1. IsAvail(d, g) /\ HaveHost(d, g)
      BY <1>8, <2>2 DEF IsAvail
    <3>2. GetTier(d, g) \in Tiers
      BY <1>0, <3>1, GetTierType
    <3>3. Listed(e, g) = Listed(d, g) /\ Held(e, g) = Held(d, g)
      BY <1>7, <1>8, <1>11, <2>2, <3>2 DEF Listed, Held
    <3> QED BY <1>8, <2>2, <3>1, <3>3
  <2> QED BY <2>1, <2>2
<1> QED BY <1>1, <1>6, <1>7, <1>9, <1>12, <1>13, <1>14, <1>15 DEF DbInv, e

\* The CPUs in the hands of clients, when one client's grant changes.
LEMMA HeldChange ==
    ASSUME NEW d \in Db, NEW c \in Clients, NEW x \in Hosts \cup {NoHost},
           x # d.assigned[c],
           NEW e, e.assigned = [d.assigned EXCEPT ![c] = x]
    PROVE  \A g : Held(e, g) = IF g = x THEN Held(d, g) + 1
                               ELSE IF g = d.assigned[c] THEN Held(d, g) - 1
                               ELSE Held(d, g)
<1> TAKE g
<1> DEFINE D == {k \in Clients : d.assigned[k] = g}
           E == {k \in Clients : e.assigned[k] = g}
<1>0. d.assigned \in [Clients -> Hosts \cup {NoHost}]
  BY DEF Db
<1>1. IsFiniteSet(D) /\ Cardinality(D) \in Nat
  <2>1. IsFiniteSet(Clients) /\ D \subseteq Clients
    BY DmucsDbAssumption
  <2> QED BY <2>1, FS_Subset, FS_CardinalityType
<1>2. CASE g = x
  <2>1. E = D \cup {c} /\ c \notin D
    BY <1>0, <1>2
  <2> QED BY <1>1, <1>2, <2>1, FS_AddElement DEF Held
<1>3. CASE g # x /\ g = d.assigned[c]
  <2>1. E = D \ {c} /\ c \in D
    BY <1>0, <1>3
  <2> QED BY <1>1, <1>3, <2>1, FS_RemoveElement DEF Held
<1>4. CASE g # x /\ g # d.assigned[c]
  <2>1. E = D
    BY <1>0, <1>4
  <2> QED BY <1>4, <2>1 DEF Held
<1> QED BY <1>2, <1>3, <1>4

LEMMA NumAssignedType ==
    ASSUME NEW d, NEW q
    PROVE  NumAssigned(d, q) \in Nat
<1> DEFINE N == {c \in Clients : d.assigned[c] # NoHost /\ DpropOf[d.assigned[c]] = q}
<1>1. IsFiniteSet(Clients) /\ N \subseteq Clients
  BY DmucsDbAssumption
<1>2. IsFiniteSet(N)
  BY <1>1, FS_Subset
<1> QED BY <1>2, FS_CardinalityType DEF NumAssigned

\* Giving out the best CPU moves it from its list to the client.
LEMMA GrantInv ==
    ASSUME NEW d, DbInv(d), NEW q \in Dprops, NEW p \in BestAvailCpus(d, q),
           NEW c \in Clients, d.assigned[c] = NoHost
    PROVE  LET e == AssignCpuToClient(TakeCpu(d, p[1], p[2]), p[1], c)
           IN  DbInv(e) /\ Conserves(d, e) /\ e.info = d.info /\ e.state = d.state
<1> DEFINE h == p[1]
           t == p[2]
           d1 == TakeCpu(d, h, t)
           d2 == [d1 EXCEPT !.assigned[c] = h]
           n == NumAssigned(d2, DpropOf[h])
           e == AssignCpuToClient(d1, h, c)
<1>0. d \in Db /\ h \in Hosts /\ t \in Tiers /\ d.cpus[h][t] > 0
  BY DEF DbInv, BestAvailCpus
<1>1. IsAvail(d, h) /\ t = GetTier(d, h) /\ HaveHost(d, h)
  BY <1>0 DEF DbInv, Placed, IsAvail
<1>2. DpropOf[h] \in Dprops /\ n \in Nat /\ h # NoHost
  BY <1>0, DmucsDbAssumption, NumAssignedType
<1>3. e = [d2 EXCEPT !.peak[DpropOf[h]] = IF n > d2.peak[DpropOf[h]] THEN n
                                          ELSE d2.peak[DpropOf[h]]]
  BY DEF AssignCpuToClient
<1> HIDE DEF h, t, n
<1>4. /\ d1 \in Db /\ d1.info = d.info /\ d1.state = d.state /\ d1.load = d.load
      /\ d1.set = d.set /\ d1.tiers = d.tiers /\ d1.assigned = d.assigned
      /\ \A g \in Hosts, u \in Tiers :
           d1.cpus[g][u] = IF g = h /\ u = t THEN d.cpus[h][t] - 1 ELSE d.cpus[g][u]
  BY <1>0, TakeCpuEffect DEF SameHosts
<1> HIDE DEF d1
<1>5. /\ d2 \in Db /\ d2.info = d1.info /\ d2.state = d1.state /\ d2.load = d1.load
      /\ d2.set = d1.set /\ d2.tiers = d1.tiers /\ d2.cpus = d1.cpus
      /\ d2.assigned = [d.assigned EXCEPT ![c] = h]
  BY <1>0, <1>4 DEF Db
<1> HIDE DEF d2, e
<1>6. /\ e \in Db /\ e.info = d.info /\ e.state = d.state /\ e.load = d.load
      /\ e.set = d.set /\ e.tiers = d.tiers /\ e.cpus = d1.cpus
      /\ e.assigned = [d.assigned EXCEPT ![c] = h]
  BY <1>2, <1>3, <1>4, <1>5 DEF Db
<1>7. /\ \A g \in Hosts : HaveHost(e, g) <=> HaveHost(d, g)
      /\ \A g \in Hosts : IsAvail(e, g) <=> IsAvail(d, g)
      /\ \A g \in Hosts : GetTier(e, g) = GetTier(d, g)
  BY <1>6 DEF HaveHost, IsAvail, GetTier
<1>8. SetsMatch(e) /\ TierExists(e) /\ NewHosts(e)
  BY <1>6, <1>7 DEF DbInv, SetsMatch, TierExists, NewHosts
<1>9. Placed(e)
  <2> SUFFICES ASSUME NEW g \in Hosts, NEW u \in Tiers, e.cpus[g][u] > 0
               PROVE  IsAvail(e, g) /\ u = GetTier(e, g)
    BY DEF Placed
  <2>1. d.cpus[g][u] > 0
    BY <1>0, <1>4, <1>6
  <2> QED BY <1>7, <2>1 DEF DbInv, Placed
<1>10. GrantsKnownIn(e)
  <2> SUFFICES ASSUME NEW k \in Clients, e.assigned[k] # NoHost
               PROVE  HaveHost(e, e.assigned[k])
    BY DEF GrantsKnownIn
  <2>1. CASE k = c
    BY <1>0, <1>1, <1>6, <1>7, <2>1 DEF Db
  <2>2. CASE k # c
    BY <1>0, <1>6, <1>7, <2>2, DmucsDbAssumption DEF DbInv, GrantsKnownIn, Db
  <2> QED BY <2>1, <2>2
<1>11. Conserves(d, e)
  <2> SUFFICES ASSUME NEW g \in Hosts, IsAvail(e, g)
               PROVE  /\ IsAvail(d, g) /\ e.info[g] = d.info[g]
                      /\ Listed(e, g) + Held(e, g) = Listed(d, g) + Held(d, g)
    BY DEF Conserves
  <2>1. IsAvail(d, g) /\ e.info[g] = d.info[g]
    BY <1>6, <1>7
  <2>2. Held(d, g) \in Nat /\ Listed(d, g) \in Nat /\ GetTier(d, g) \in Tiers
    BY <1>0, <2>1, HeldType, ListedType, GetTierType DEF IsAvail
  <2>3. Held(e, g) = IF g = h THEN Held(d, g) + 1 ELSE Held(d, g)
    BY <1>0, <1>2, <1>6, HeldChange, DmucsDbAssumption
  <2>4. Listed(e, g) = IF g = h THEN Listed(d, g) - 1 ELSE Listed(d, g)
    BY <1>1, <1>4, <1>6, <1>7, <2>2 DEF Listed
  <2> HIDE DEF Held, Listed
  <2> QED BY <2>1, <2>2, <2>3, <2>4
<1> QED BY <1>6, <1>8, <1>9, <1>10, <1>11 DEF DbInv, e, d1, h, t

\* A CPU that comes back is listed again, if its host is still available.
LEMMA ReleaseInv ==
    ASSUME NEW d, DbInv(d), NEW c \in Clients, d.assigned[c] # NoHost
    PROVE  LET e == ReleaseCpu(d, c)
           IN  DbInv(e) /\ Conserves(d, e) /\ e.info = d.info /\ e.state = d.state
<1> DEFINE h == d.assigned[c]
           t == GetTier(d, h)
           f == [d EXCEPT !.assigned[c] = NoHost]
           n == IF d.state[h] = "Avail" THEN 1 ELSE 0
           e == ReleaseCpu(d, c)
<1>0. d \in Db /\ h \in Hosts /\ HaveHost(d, h)
  BY DEF DbInv, GrantsKnownIn, Db
<1>1. t \in Tiers /\ NoHost \notin Hosts /\ n \in Nat
  BY <1>0, GetTierType, DmucsDbAssumption
<1>2. /\ f \in Db /\ f.info = d.info /\ f.state = d.state /\ f.load = d.load
      /\ f.set = d.set /\ f.tiers = d.tiers /\ f.cpus = d.cpus
      /\ f.assigned = [d.assigned EXCEPT ![c] = NoHost]
  BY <1>0 DEF Db
<1>3. e = IF d.state[h] = "Avail" THEN AddCpusToTier(f, h, t, 1) ELSE f
  BY DEF ReleaseCpu, GetTier
<1> HIDE DEF f, e, h, t
<1>4. /\ e \in Db /\ e.info = d.info /\ e.state = d.state /\ e.load = d.load
      /\ e.set = d.set
      /\ e.assigned = [d.assigned EXCEPT ![c] = NoHost]
      /\ \A q \in Dprops : d.tiers[q] \subseteq e.tiers[q]
      /\ \A g \in Hosts, u \in Tiers :
           e.cpus[g][u] = IF g = h /\ u = t THEN d.cpus[h][t] + n ELSE d.cpus[g][u]
  <2>1. CASE d.state[h] = "Avail"
    <3>1. e = AddCpusToTier(f, h, t, 1) /\ n = 1
      BY <1>3, <2>1
    <3> HIDE DEF n
    <3> QED BY <1>0, <1>1, <1>2, <3>1, AddCpusEffect, SMTT(30) DEF SameHosts
  <2>2. CASE d.state[h] # "Avail"
    <3>1. e = f /\ n = 0
      BY <1>3, <2>2
    <3>2. d.cpus[h][t] \in Nat
      BY <1>0, <1>1 DEF Db
    <3> HIDE DEF n
    <3> QED BY <1>2, <3>1, <3>2
  <2> QED BY <2>1, <2>2
<1>5. /\ \A g \in Hosts : HaveHost(e, g) <=> HaveHost(d, g)
      /\ \A g \in Hosts : IsAvail(e, g) <=> IsAvail(d, g)
      /\ \A g \in Hosts : GetTier(e, g) = GetTier(d, g)
  BY <1>4 DEF HaveHost, IsAvail, GetTier
<1>6. SetsMatch(e) /\ NewHosts(e)
  BY <1>4, <1>5 DEF DbInv, SetsMatch, NewHosts
<1>7. TierExists(e)
  <2>1. \A g \in Hosts : DpropOf[g] \in Dprops
    BY DmucsDbAssumption
  <2> QED BY <1>4, <1>5, <2>1 DEF DbInv, TierExists
<1>8. Placed(e)
  <2> SUFFICES ASSUME NEW g \in Hosts, NEW u \in Tiers, e.cpus[g][u] > 0
               PROVE  IsAvail(e, g) /\ u = GetTier(e, g)
    BY DEF Placed
  <2>1. CASE g = h /\ u = t /\ d.state[h] = "Avail"
    BY <1>0, <1>5, <2>1 DEF IsAvail, t
  <2>2. CASE ~(g = h /\ u = t /\ d.state[h] = "Avail")
    <3>1. d.cpus[g][u] > 0
      BY <1>0, <1>1, <1>4, <2>2 DEF Db
    <3> QED BY <1>5, <3>1 DEF DbInv, Placed
  <2> QED BY <2>1, <2>2
<1>9. GrantsKnownIn(e)
  <2> SUFFICES ASSUME NEW k \in Clients, e.assigned[k] # NoHost
               PROVE  HaveHost(e, e.assigned[k])
    BY DEF GrantsKnownIn
  <2>1. k # c /\ e.assigned[k] = d.assigned[k] /\ d.assigned[k] \in Hosts
    BY <1>0, <1>4 DEF Db
  <2> QED BY <1>5, <2>1 DEF DbInv, GrantsKnownIn
<1>10. Conserves(d, e)
  <2> SUFFICES ASSUME NEW g \in Hosts, IsAvail(e, g)
               PROVE  /\ IsAvail(d, g) /\ e.info[g] = d.info[g]
                      /\ Listed(e, g) + Held(e, g) = Listed(d, g) + Held(d, g)
    BY DEF Conserves
  <2>1. IsAvail(d, g) /\ e.info[g] = d.info[g]
    BY <1>4, <1>5
  <2>2. Held(d, g) \in Nat /\ Listed(d, g) \in Nat /\ GetTier(d, g) \in Tiers
    BY <1>0, <2>1, HeldType, ListedType, GetTierType DEF IsAvail
  <2>3. Held(e, g) = IF g = h THEN Held(d, g) - 1 ELSE Held(d, g)
    BY <1>0, <1>1, <1>4, HeldChange DEF h
  <2>4. Listed(e, g) = IF g = h THEN Listed(d, g) + 1 ELSE Listed(d, g)
    BY <1>4, <1>5, <2>1, <2>2 DEF Listed, IsAvail, t
  <2> HIDE DEF Held, Listed
  <2> QED BY <2>1, <2>2, <2>3, <2>4
<1> QED BY <1>4, <1>6, <1>7, <1>8, <1>9, <1>10 DEF DbInv, e

\* A step that leaves alone what the invariant speaks of.
LEMMA SameDb ==
    ASSUME NEW d, DbInv(d), NEW e \in Db,
           e.info = d.info, e.state = d.state, e.load = d.load, e.set = d.set,
           e.tiers = d.tiers, e.cpus = d.cpus, e.assigned = d.assigned
    PROVE  DbInv(e) /\ Conserves(d, e)
<1>1. /\ \A g : HaveHost(e, g) <=> HaveHost(d, g)
      /\ \A g : IsAvail(e, g) <=> IsAvail(d, g)
      /\ \A g : GetTier(e, g) = GetTier(d, g)
  BY DEF HaveHost, IsAvail, GetTier
<1>2. /\ \A g : Listed(e, g) = Listed(d, g)
      /\ \A g : Held(e, g) = Held(d, g)
  BY <1>1 DEF Listed, Held
<1>3. SetsMatch(e) /\ Placed(e) /\ TierExists(e)
  BY <1>1 DEF DbInv, SetsMatch, Placed, TierExists
<1>4. GrantsKnownIn(e) /\ NewHosts(e)
  BY <1>1 DEF DbInv, GrantsKnownIn, NewHosts
<1>5. Conserves(d, e)
  <2> HIDE DEF Listed, Held
  <2> QED BY <1>1, <1>2 DEF Conserves
<1> QED BY <1>3, <1>4, <1>5 DEF DbInv

\* The database a server starts with.
LEMMA EmptyDbInv ==
    ASSUME NEW d
    PROVE  DbInv(EmptyDb) /\ Conserves(d, EmptyDb)
<1>1. EmptyDb \in Db
  BY DmucsDbAssumption DEF EmptyDb, Db, States
<1>2. \A g \in Hosts : ~HaveHost(EmptyDb, g)
  BY DEF EmptyDb, HaveHost
<1>3. SetsMatch(EmptyDb) /\ Placed(EmptyDb) /\ GrantsKnownIn(EmptyDb)
  <2>1. /\ \A s \in States : EmptyDb.set[s] = {}
        /\ \A h \in Hosts, t \in Tiers : EmptyDb.cpus[h][t] = 0
        /\ \A c \in Clients : EmptyDb.assigned[c] = NoHost
    BY DEF EmptyDb
  <2> QED BY <1>2, <2>1 DEF SetsMatch, Placed, GrantsKnownIn
<1>4. TierExists(EmptyDb) /\ NewHosts(EmptyDb) /\ Conserves(d, EmptyDb)
  BY <1>2 DEF EmptyDb, TierExists, NewHosts, Conserves, IsAvail
<1> QED BY <1>1, <1>3, <1>4 DEF DbInv

=============================================================================
