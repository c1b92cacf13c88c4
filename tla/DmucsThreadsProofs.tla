------------------------- MODULE DmucsThreadsProofs ------------------------
(***************************************************************************)
(* Proofs about DmucsThreads: however the steps of the main thread and of  *)
(* the silent search mix, no CPU of an available host is lost.  Then about *)
(* DmucsThreadsSerial: until the two overlap, the steps of a handler have  *)
(* together the effect of one action of DmucsServer.                       *)
(***************************************************************************)
EXTENDS DmucsThreadsSerial, DmucsDbProofs

----------------------------------------------------------------------------
(* The frames of the two threads.                                          *)

Moving == {"delCpus", "delHost", "setState"}

Transiting(thens) ==
    [pc : Moving \cup {"addHost"}, host : Hosts, from : States, to : States, then : thens]

Dispatching(methods, thens) ==
    [pc : {"dispatch"}, method : methods, host : Hosts, then : thens]

Loading(pcs) == [pc : pcs, host : Hosts, load : Loads]

MainThens == {Idle} \cup Loading({"store"})

MainFrames ==
    {Idle} \cup Loading({"update", "store"})
    \cup [pc : {"stamp", "check", "addBack"}, host : Hosts]
    \cup [pc : {"assign"}, host : Hosts, client : Clients]
    \cup Dispatching({"avail", "unavail", "overloaded"}, MainThens)
    \cup Transiting(MainThens)

Visit == [pc |-> "visit"]

SilentFrames ==
    {Idle, Visit} \cup Dispatching({"silent"}, {Visit}) \cup Transiting({Visit})

----------------------------------------------------------------------------
(* The inductive invariant, on a database d and the frames m and s of the  *)
(* main thread and of the search.                                          *)

KnownFrame(d, f) == f.pc \notin {"idle", "visit"} => HaveHost(d, f.host)

TypeInv(d, m, s) ==
    /\ d \in Db /\ m \in MainFrames /\ s \in SilentFrames
    /\ KnownFrame(d, m) /\ KnownFrame(d, s)
    /\ \A h \in Hosts, t \in Tiers : d.cpus[h][t] > 0 => HaveHost(d, h)
    /\ GrantsKnownIn(d)

\* The host is on its way out of its state, or into one.
Leaves(f, h) == f.pc \in Moving /\ f.host = h
Arrives(f, h) == f.pc = "addHost" /\ f.host = h

\* What a frame says beyond its type.  The handler that goes on with "store"
\* has called overloaded().
MainFrameInv(d, m) ==
    /\ m.pc = "assign" => d.assigned[m.client] = NoHost
    /\ m.pc = "dispatch" =>
          /\ m.then # Idle => m.then.host = m.host
          /\ m.then # Idle <=> m.method = "overloaded"
    /\ m.pc = "delCpus" => m.from = "Avail"
    /\ m.pc \in Moving \cup {"addHost"} =>
          /\ m.from # m.to
          /\ m.then # Idle => m.then.host = m.host /\ m.to # "Avail"

SilentFrameInv(s) ==
    /\ s.pc = "delCpus" => s.from = "Avail"
    /\ s.pc \in Moving \cup {"addHost"} => s.to = "Silent"

\* Where the two threads meet on a host.
MeetAt(d, m, s, h) ==
    /\ Leaves(s, h) /\ s.from = "Avail" => d.state[h] = "Avail" \/ Arrives(m, h)
    /\ Leaves(m, h) /\ m.to = "Avail" => d.state[h] # "Avail"
    /\ Arrives(m, h) /\ m.to # "Avail" => d.state[h] # "Avail"

\* The CPU the main thread has in hand.
Pending(m, h) == IF m.pc \in {"assign", "addBack"} /\ m.host = h THEN 1 ELSE 0

\* The tier h is about to have: its CPUs are there before the load is stored.
NextTier(d, m, h) ==
    IF m.pc = "store" /\ m.host = h THEN CalcTier(m.load, d.info[h].pindex)
    ELSE GetTier(d, h)

Complete(d, m, h) ==
    d.cpus[h][NextTier(d, m, h)] + Held(d, h) + Pending(m, h) >= d.info[h].ncpus

\* A thread takes the CPUs away with the state, or is about to list them.
Excused(m, s, h) ==
    \/ Leaves(m, h) /\ m.from = "Avail"
    \/ Leaves(s, h) /\ s.from = "Avail"
    \/ Arrives(m, h) /\ m.to = "Avail"

HostInv(d, m, s, h) ==
    /\ MeetAt(d, m, s, h)
    /\ IsAvail(d, h) => Complete(d, m, h) \/ Excused(m, s, h)

FullInv(d, m, s) ==
    /\ TypeInv(d, m, s)
    /\ MainFrameInv(d, m) /\ SilentFrameInv(s)
    /\ \A h \in Hosts : HostInv(d, m, s, h)

ThreadsInv ==
    /\ thread \in [main : MainFrames, silent : SilentFrames]
    /\ todo \subseteq {h \in Hosts : HaveHost(db, h)}
    /\ FullInv(db, thread.main, thread.silent)

----------------------------------------------------------------------------
(* Frames.                                                                 *)

LEMMA TransitFields ==
    ASSUME NEW thens, NEW f \in Transiting(thens)
    PROVE  /\ f.pc \in Moving \cup {"addHost"} /\ f.host \in Hosts
           /\ f.from \in States /\ f.to \in States /\ f.then \in thens
           /\ \A p \in Moving \cup {"addHost"} :
                 LET e == [f EXCEPT !.pc = p]
                 IN  /\ e \in Transiting(thens) /\ e.pc = p /\ e.host = f.host
                     /\ e.from = f.from /\ e.to = f.to /\ e.then = f.then
BY DEF Transiting

LEMMA DispatchFields ==
    ASSUME NEW methods, NEW thens, NEW f \in Dispatching(methods, thens)
    PROVE  f.pc = "dispatch" /\ f.host \in Hosts /\ f.method \in methods /\ f.then \in thens
BY DEF Dispatching

LEMMA MainFields ==
    ASSUME NEW f \in MainFrames
    PROVE  /\ f.pc = "idle" => f = Idle
           /\ f.pc # "idle" => f.host \in Hosts
           /\ f.pc \in {"update", "store"} => f \in Loading({"update", "store"})
           /\ f.pc = "assign" => f.client \in Clients
           /\ f.pc = "dispatch" => f \in Dispatching({"avail", "unavail", "overloaded"}, MainThens)
           /\ f.pc \in Moving \cup {"addHost"} => f \in Transiting(MainThens)
           /\ f.pc \in {"idle", "update", "store", "stamp", "check", "addBack", "assign",
                        "dispatch", "addHost"} \cup Moving
<1>1. CASE f = Idle
  BY <1>1 DEF Idle, Moving
<1>2. CASE f \in Loading({"update", "store"})
  BY <1>2 DEF Loading, Moving
<1>3. CASE f \in [pc : {"stamp", "check", "addBack"}, host : Hosts]
  BY <1>3 DEF Moving
<1>4. CASE f \in [pc : {"assign"}, host : Hosts, client : Clients]
  BY <1>4 DEF Moving
<1>5. CASE f \in Dispatching({"avail", "unavail", "overloaded"}, MainThens)
  <2>1. f.pc = "dispatch" /\ f.host \in Hosts
    BY <1>5, DispatchFields
  <2> QED BY <1>5, <2>1 DEF Moving
<1>6. CASE f \in Transiting(MainThens)
  <2>1. f.pc \in Moving \cup {"addHost"} /\ f.host \in Hosts
    BY <1>6, TransitFields
  <2> QED BY <1>6, <2>1 DEF Moving
<1> QED BY <1>1, <1>2, <1>3, <1>4, <1>5, <1>6 DEF MainFrames

LEMMA SilentFields ==
    ASSUME NEW f \in SilentFrames
    PROVE  /\ f.pc = "idle" => f = Idle
           /\ f.pc \notin {"idle", "visit"} => f.host \in Hosts
           /\ f.pc = "dispatch" => f \in Dispatching({"silent"}, {Visit})
           /\ f.pc \in Moving \cup {"addHost"} => f \in Transiting({Visit})
           /\ f.pc \in {"idle", "visit", "dispatch", "addHost"} \cup Moving
<1>1. CASE f = Idle
  BY <1>1 DEF Idle, Moving
<1>2. CASE f = Visit
  BY <1>2 DEF Visit, Moving
<1>3. CASE f \in Dispatching({"silent"}, {Visit})
  <2>1. f.pc = "dispatch" /\ f.host \in Hosts
    BY <1>3, DispatchFields
  <2> QED BY <1>3, <2>1 DEF Moving
<1>4. CASE f \in Transiting({Visit})
  <2>1. f.pc \in Moving \cup {"addHost"} /\ f.host \in Hosts
    BY <1>4, TransitFields
  <2> QED BY <1>4, <2>1 DEF Moving
<1> QED BY <1>1, <1>2, <1>3, <1>4 DEF SilentFrames

LEMMA NewFrames ==
    ASSUME NEW h \in Hosts, NEW load \in Loads, NEW c \in Clients
    PROVE  /\ [pc |-> "update", host |-> h, load |-> load] \in MainFrames
           /\ [pc |-> "stamp", host |-> h] \in MainFrames
           /\ [pc |-> "check", host |-> h] \in MainFrames
           /\ [pc |-> "addBack", host |-> h] \in MainFrames
           /\ [pc |-> "assign", host |-> h, client |-> c] \in MainFrames
           /\ Idle \in MainFrames /\ Idle \in SilentFrames /\ Visit \in SilentFrames
BY DEF MainFrames, SilentFrames, Loading

\* A thread goes on at f, the other one stays where it is.
LEMMA Gone ==
    ASSUME NEW T, NEW U, NEW x \in [main : T, silent : U], NEW f
    PROVE  /\ LET y == [x EXCEPT !["main"] = f]
              IN  y.main = f /\ y.silent = x.silent /\ (f \in T => y \in [main : T, silent : U])
           /\ LET y == [x EXCEPT !["silent"] = f]
              IN  y.silent = f /\ y.main = x.main /\ (f \in U => y \in [main : T, silent : U])
OBVIOUS

LEMMA NextTierType ==
    ASSUME NEW d, NEW m, NEW s, TypeInv(d, m, s), NEW h \in Hosts, HaveHost(d, h)
    PROVE  /\ NextTier(d, m, h) \in Tiers /\ GetTier(d, h) \in Tiers
           /\ d.cpus[h][NextTier(d, m, h)] \in Nat
           /\ d.info[h].ncpus \in Nat /\ Held(d, h) \in Nat /\ Pending(m, h) \in Nat
<1>1. d \in Db /\ d.info[h] \in Specs /\ GetTier(d, h) \in Tiers
  BY GetTierType DEF TypeInv
<1>2. NextTier(d, m, h) \in Tiers
  <2>1. CASE m.pc = "store" /\ m.host = h
    <3>1. m.load \in Loads
      BY <2>1, MainFields DEF TypeInv, Loading
    <3> QED BY <1>1, <2>1, <3>1, CalcTierType DEF NextTier
  <2>2. CASE ~(m.pc = "store" /\ m.host = h)
    BY <1>1, <2>2 DEF NextTier
  <2> QED BY <2>1, <2>2
<1>3. d.cpus[h][NextTier(d, m, h)] \in Nat
  BY <1>1, <1>2 DEF Db
<1> QED BY <1>1, <1>2, <1>3, SpecType, HeldType DEF Pending


----------------------------------------------------------------------------
(* A step changes one host, and one frame.                                 *)

Same(d, e, g) ==
    /\ e.info[g] = d.info[g] /\ e.state[g] = d.state[g] /\ e.load[g] = d.load[g]
    /\ Held(e, g) = Held(d, g)

Alike(f, f2, g) ==
    /\ Leaves(f2, g) <=> Leaves(f, g)
    /\ Arrives(f2, g) <=> Arrives(f, g)
    /\ Leaves(f, g) \/ Arrives(f, g) => f2.from = f.from /\ f2.to = f.to

\* A frame that says nothing of g.
Far(f, g) == f.pc \in {"idle", "visit"} \/ f.host # g

OnlyAt(d, e, h) ==
    /\ e \in Db /\ GrantsKnownIn(e) /\ HaveHost(e, h)
    /\ \A g \in Hosts \ {h} : Same(d, e, g) /\ \A t \in Tiers : e.cpus[g][t] = d.cpus[g][t]

\* A host of the database stays in it.
Known(d, e) == \A g \in Hosts : HaveHost(d, g) => HaveHost(e, g)

\* A host whose fields stay and whose CPUs only grow keeps its invariant, if
\* the frames say the same of it.
LEMMA HostKept ==
    ASSUME NEW d, NEW m, NEW s, TypeInv(d, m, s), NEW g \in Hosts, HostInv(d, m, s, g),
           NEW e \in Db, NEW m2, NEW s2, Same(d, e, g),
           \A t \in Tiers : e.cpus[g][t] >= d.cpus[g][t],
           Alike(m, m2, g), Alike(s, s2, g),
           IsAvail(d, g) => /\ Pending(m2, g) = Pending(m, g)
                            /\ NextTier(e, m2, g) = NextTier(d, m, g)
    PROVE  HostInv(e, m2, s2, g)
<1>1. MeetAt(e, m2, s2, g)
  BY DEF HostInv, MeetAt, Same, Alike
<1>2. ASSUME IsAvail(e, g)
      PROVE  Complete(e, m2, g) \/ Excused(m2, s2, g)
  <2>1. IsAvail(d, g) /\ HaveHost(d, g)
    BY <1>2 DEF IsAvail, HaveHost, Same
  <2>2. CASE Excused(m, s, g)
    BY <2>2 DEF Excused, Alike
  <2>3. CASE Complete(d, m, g)
    <3> DEFINE t == NextTier(d, m, g)
    <3>1. /\ t \in Tiers /\ d.cpus[g][t] \in Nat /\ Held(d, g) \in Nat
          /\ Pending(m, g) \in Nat /\ d.info[g].ncpus \in Nat
      BY <2>1, NextTierType
    <3>2. e.cpus[g][t] \in Nat /\ e.cpus[g][t] >= d.cpus[g][t]
      BY <3>1 DEF Db
    <3>3. /\ NextTier(e, m2, g) = t /\ Pending(m2, g) = Pending(m, g)
          /\ Held(e, g) = Held(d, g) /\ e.info[g] = d.info[g]
      BY <2>1 DEF Same
    <3>4. d.cpus[g][t] + Held(d, g) + Pending(m, g) >= d.info[g].ncpus
      BY <2>3 DEF Complete
    <3> HIDE DEF t
    <3> QED BY <3>1, <3>2, <3>3, <3>4 DEF Complete
  <2> QED BY <2>1, <2>2, <2>3 DEF HostInv
<1> QED BY <1>1, <1>2 DEF HostInv

LEMMA HostFar ==
    ASSUME NEW d, NEW m, NEW s, TypeInv(d, m, s), NEW g \in Hosts, HostInv(d, m, s, g),
           NEW e \in Db, NEW m2, NEW s2, Same(d, e, g),
           \A t \in Tiers : e.cpus[g][t] = d.cpus[g][t],
           m2 = m \/ (Far(m, g) /\ Far(m2, g)), s2 = s \/ (Far(s, g) /\ Far(s2, g))
    PROVE  HostInv(e, m2, s2, g)
<1>1. GetTier(e, g) = GetTier(d, g) /\ e.info[g] = d.info[g]
  BY DEF Same, GetTier
<1>2. /\ Alike(m, m2, g) /\ Pending(m2, g) = Pending(m, g)
      /\ NextTier(e, m2, g) = NextTier(d, m, g)
  BY <1>1 DEF Far, Alike, Leaves, Arrives, Moving, Pending, NextTier
<1>3. Alike(s, s2, g)
  BY DEF Far, Alike, Leaves, Arrives, Moving
<1>4. \A t \in Tiers : e.cpus[g][t] >= d.cpus[g][t]
  BY DEF Db
<1> QED BY <1>2, <1>3, <1>4, HostKept

LEMMA TypeKept ==
    ASSUME NEW d, NEW m, NEW s, TypeInv(d, m, s), NEW h \in Hosts,
           NEW e, OnlyAt(d, e, h), NEW m2 \in MainFrames, NEW s2 \in SilentFrames,
           m2 = m \/ KnownFrame(e, m2), s2 = s \/ KnownFrame(e, s2)
    PROVE  TypeInv(e, m2, s2) /\ Known(d, e)
<1>1. Known(d, e)
  BY DEF OnlyAt, Same, HaveHost, Known
<1>2. KnownFrame(e, m2) /\ KnownFrame(e, s2)
  <2>1. m.pc \notin {"idle", "visit"} => m.host \in Hosts
    BY MainFields DEF TypeInv
  <2>2. s.pc \notin {"idle", "visit"} => s.host \in Hosts
    BY SilentFields DEF TypeInv
  <2> QED BY <1>1, <2>1, <2>2 DEF TypeInv, KnownFrame, Known
<1>3. \A g \in Hosts, t \in Tiers : e.cpus[g][t] > 0 => HaveHost(e, g)
  BY <1>1 DEF OnlyAt, TypeInv, Known
<1> QED BY <1>1, <1>2, <1>3 DEF OnlyAt, TypeInv

LEMMA MainStep ==
    ASSUME NEW d, NEW m, NEW s, FullInv(d, m, s), NEW h \in Hosts, NEW e, OnlyAt(d, e, h),
           NEW m2 \in MainFrames, KnownFrame(e, m2), MainFrameInv(e, m2),
           \A g \in Hosts \ {h} : Far(m, g) /\ Far(m2, g),
           HostInv(e, m2, s, h)
    PROVE  FullInv(e, m2, s) /\ Known(d, e)
<1>1. TypeInv(e, m2, s) /\ Known(d, e)
  <2>1. TypeInv(d, m, s) /\ s \in SilentFrames
    BY DEF FullInv, TypeInv
  <2> QED BY <2>1, TypeKept
<1>2. ASSUME NEW g \in Hosts \ {h}
      PROVE  HostInv(e, m2, s, g)
  <2>1. /\ TypeInv(d, m, s) /\ HostInv(d, m, s, g) /\ e \in Db /\ Same(d, e, g)
        /\ \A t \in Tiers : e.cpus[g][t] = d.cpus[g][t]
    BY DEF FullInv, OnlyAt
  <2> QED BY <2>1, HostFar
<1> QED BY <1>1, <1>2 DEF FullInv

LEMMA SilentStep ==
    ASSUME NEW d, NEW m, NEW s, FullInv(d, m, s), NEW h \in Hosts, NEW e, OnlyAt(d, e, h),
           e.assigned = d.assigned,
           NEW s2 \in SilentFrames, KnownFrame(e, s2), SilentFrameInv(s2),
           \A g \in Hosts \ {h} : Far(s, g) /\ Far(s2, g),
           HostInv(e, m, s2, h)
    PROVE  FullInv(e, m, s2) /\ Known(d, e)
<1>1. TypeInv(e, m, s2) /\ Known(d, e)
  <2>1. TypeInv(d, m, s) /\ m \in MainFrames
    BY DEF FullInv, TypeInv
  <2> QED BY <2>1, TypeKept
<1>2. ASSUME NEW g \in Hosts \ {h}
      PROVE  HostInv(e, m, s2, g)
  <2>1. /\ TypeInv(d, m, s) /\ HostInv(d, m, s, g) /\ e \in Db /\ Same(d, e, g)
        /\ \A t \in Tiers : e.cpus[g][t] = d.cpus[g][t]
    BY DEF FullInv, OnlyAt
  <2> QED BY <2>1, HostFar
<1> QED BY <1>1, <1>2 DEF FullInv, MainFrameInv

----------------------------------------------------------------------------
(* A transition, step by step.                                             *)

LEMMA ThenFields ==
    ASSUME NEW f \in MainThens
    PROVE  /\ f \in MainFrames
           /\ \/ f.pc = "idle" /\ f = Idle
              \/ f.pc = "store" /\ f # Idle /\ f.host \in Hosts
<1>1. CASE f = Idle
  BY <1>1 DEF Idle, MainFrames
<1>2. CASE f \in Loading({"store"})
  <2>1. f.pc = "store" /\ f.host \in Hosts /\ f \in Loading({"update", "store"})
    BY <1>2 DEF Loading
  <2>2. f.pc # "idle"
    BY <2>1
  <2>3. f # Idle
    BY <2>2 DEF Idle
  <2> QED BY <2>1, <2>3 DEF MainFrames
<1> QED BY <1>1, <1>2 DEF MainThens

LEMMA TargetType ==
    ASSUME NEW from \in States, NEW method \in {"avail", "unavail", "overloaded", "silent"},
           NEW tier
    PROVE  LET to == Target(from, method, tier)
           IN  /\ to \in States
               /\ method = "overloaded" /\ to # from => from = "Avail" /\ to = "Overloaded"
               /\ method = "silent" /\ to # from => to = "Silent"
BY DEF Target, States

\* Only the fields of h differ, its specification and the grants apart.
LEMMA OnlyAtHost ==
    ASSUME NEW d, NEW m, NEW s, TypeInv(d, m, s), NEW h \in Hosts, HaveHost(d, h),
           NEW e \in Db, SameHosts(d, e),
           \A g \in Hosts \ {h} :
               e.state[g] = d.state[g] /\ \A t \in Tiers : e.cpus[g][t] = d.cpus[g][t]
    PROVE  OnlyAt(d, e, h) /\ \A g : Held(e, g) = Held(d, g)
<1>1. \A g : Held(e, g) = Held(d, g)
  BY DEF SameHosts, Held
<1>2. GrantsKnownIn(e)
  BY DEF TypeInv, GrantsKnownIn, SameHosts, HaveHost
<1> QED BY <1>1, <1>2 DEF OnlyAt, Same, SameHosts, HaveHost

\* The host of a frame that names one.
LEMMA HostOf ==
    ASSUME NEW d, NEW m, NEW s, FullInv(d, m, s)
    PROVE  /\ m.pc \notin {"idle", "visit"} => m.host \in Hosts /\ HaveHost(d, m.host)
           /\ s.pc \notin {"idle", "visit"} => s.host \in Hosts /\ HaveHost(d, s.host)
           /\ \A g \in Hosts : m.pc \notin {"idle", "visit"} /\ g # m.host => Far(m, g)
           /\ \A g \in Hosts : s.pc \notin {"idle", "visit"} /\ g # s.host => Far(s, g)
           /\ d \in Db /\ TypeInv(d, m, s) /\ m \in MainFrames /\ s \in SilentFrames
BY MainFields, SilentFields DEF FullInv, TypeInv, KnownFrame, Far

Started(f, from, to) ==
    [pc |-> IF from = "Avail" THEN "delCpus" ELSE "delHost", host |-> f.host,
     from |-> from, to |-> to, then |-> f.then]

LEMMA StartedFields ==
    ASSUME NEW f, f.host \in Hosts, NEW from \in States, NEW to \in States,
           NEW thens, f.then \in thens
    PROVE  LET x == Started(f, from, to)
           IN  /\ x \in Transiting(thens) /\ x.host = f.host /\ x.from = from /\ x.to = to
               /\ x.then = f.then /\ x.pc \in Moving
               /\ x.pc = IF from = "Avail" THEN "delCpus" ELSE "delHost"
BY DEF Started, Transiting, Moving

LEMMA DispatchMain ==
    ASSUME NEW d, NEW m, NEW s, FullInv(d, m, s), m.pc = "dispatch",
           NEW from, from = d.state[m.host],
           NEW to, to = Target(from, m.method, GetTier(d, m.host)),
           NEW m2, m2 = IF to = from THEN m.then ELSE Started(m, from, to)
    PROVE  FullInv(d, m2, s)
<1> DEFINE h == m.host
<1>1. /\ h \in Hosts /\ HaveHost(d, h) /\ d \in Db /\ TypeInv(d, m, s)
      /\ m.method \in {"avail", "unavail", "overloaded"} /\ m.then \in MainThens
  BY HostOf, MainFields, DispatchFields
<1>2. /\ from \in States /\ to \in States
      /\ m.method = "overloaded" /\ to # from => from = "Avail" /\ to = "Overloaded"
  <2>1. from \in States
    BY <1>1 DEF Db
  <2> QED BY <1>1, <2>1, TargetType
<1>3. OnlyAt(d, d, h)
  BY <1>1, OnlyAtHost DEF SameHosts
<1>4. CASE to = from
  <2>1. /\ m2 \in MainFrames /\ m2 = m.then
        /\ (m2.pc = "idle" /\ m2 = Idle) \/ (m2.pc = "store" /\ m2 # Idle /\ m2.host = h)
    BY <1>1, <1>4, ThenFields DEF FullInv, MainFrameInv
  <2>2. m2.pc = "store" => from # "Avail"
    <3>1. m2.pc = "store" => m.method = "overloaded"
      BY <2>1 DEF FullInv, MainFrameInv, Idle
    <3>2. m.method = "overloaded" => from # "Avail"
      BY <1>4 DEF Target
    <3> QED BY <3>1, <3>2
  <2>3. Alike(m, m2, h)
    BY <2>1 DEF Alike, Leaves, Arrives, Moving
  <2>4. IsAvail(d, h) => Pending(m2, h) = Pending(m, h) /\ NextTier(d, m2, h) = NextTier(d, m, h)
    BY <2>1, <2>2 DEF IsAvail, Pending, NextTier
  <2>5. HostInv(d, m2, s, h)
    <3>1. HostInv(d, m, s, h) /\ Same(d, d, h) /\ Alike(s, s, h)
      BY <1>1 DEF FullInv, Same, Alike
    <3>2. \A t \in Tiers : d.cpus[h][t] >= d.cpus[h][t]
      BY <1>1 DEF Db
    <3> QED BY <1>1, <2>3, <2>4, <3>1, <3>2, HostKept
  <2>6. KnownFrame(d, m2) /\ MainFrameInv(d, m2) /\ \A g \in Hosts \ {h} : Far(m, g) /\ Far(m2, g)
    BY <1>1, <2>1 DEF KnownFrame, MainFrameInv, Moving, Far
  <2> QED BY <1>1, <1>3, <2>1, <2>5, <2>6, MainStep
<1>5. CASE to # from
  <2>1. /\ m2 \in Transiting(MainThens) /\ m2.host = h /\ m2.from = from /\ m2.to = to
        /\ m2.then = m.then /\ m2.pc \in Moving
        /\ m2.pc = IF from = "Avail" THEN "delCpus" ELSE "delHost"
    BY <1>1, <1>2, <1>5, StartedFields
  <2>2. m2 \in MainFrames
    BY <2>1 DEF MainFrames
  <2>3. MainFrameInv(d, m2)
    <3>1. m.then # Idle => m.then.host = h /\ m.method = "overloaded"
      BY DEF FullInv, MainFrameInv
    <3> QED BY <1>2, <1>5, <2>1, <3>1 DEF MainFrameInv, Moving
  <2>4. HostInv(d, m2, s, h)
    <3>1. HostInv(d, m, s, h) /\ ~Arrives(m, h)
      BY <1>1 DEF FullInv, Arrives
    <3>2. MeetAt(d, m2, s, h)
      BY <1>5, <2>1, <3>1 DEF HostInv, MeetAt, Arrives, Moving
    <3>3. IsAvail(d, h) => Excused(m2, s, h)
      BY <2>1 DEF IsAvail, Excused, Leaves
    <3> QED BY <3>2, <3>3 DEF HostInv
  <2>5. KnownFrame(d, m2) /\ \A g \in Hosts \ {h} : Far(m, g) /\ Far(m2, g)
    BY <1>1, <2>1 DEF KnownFrame, Far
  <2> QED BY <1>1, <1>3, <2>2, <2>3, <2>4, <2>5, MainStep
<1> QED BY <1>4, <1>5

LEMMA DispatchSilent ==
    ASSUME NEW d, NEW m, NEW s, FullInv(d, m, s), s.pc = "dispatch",
           NEW from, from = d.state[s.host],
           NEW to, to = Target(from, s.method, GetTier(d, s.host)),
           NEW s2, s2 = IF to = from THEN s.then ELSE Started(s, from, to)
    PROVE  FullInv(d, m, s2)
<1> DEFINE h == s.host
<1>1. /\ h \in Hosts /\ HaveHost(d, h) /\ d \in Db /\ TypeInv(d, m, s)
      /\ s.method = "silent" /\ s.then = Visit
  <2>1. s \in Dispatching({"silent"}, {Visit})
    BY HostOf, SilentFields
  <2> QED BY <2>1, HostOf, DispatchFields
<1>2. /\ from \in States /\ to \in States
      /\ to # from => to = "Silent"
  <2>1. from \in States
    BY <1>1 DEF Db
  <2> QED BY <1>1, <2>1, TargetType
<1>3. OnlyAt(d, d, h)
  BY <1>1, OnlyAtHost DEF SameHosts
<1>4. CASE to = from
  <2>1. s2 = Visit /\ s2.pc = "visit" /\ s2 \in SilentFrames
    BY <1>1, <1>4 DEF Visit, SilentFrames
  <2>2. Alike(s, s2, h)
    BY <2>1 DEF Alike, Leaves, Arrives, Moving
  <2>3. HostInv(d, m, s2, h)
    <3>1. HostInv(d, m, s, h) /\ Same(d, d, h) /\ Alike(m, m, h)
      BY <1>1 DEF FullInv, Same, Alike
    <3>2. \A t \in Tiers : d.cpus[h][t] >= d.cpus[h][t]
      BY <1>1 DEF Db
    <3> QED BY <1>1, <2>2, <3>1, <3>2, HostKept
  <2>4. KnownFrame(d, s2) /\ SilentFrameInv(s2) /\ \A g \in Hosts \ {h} : Far(s, g) /\ Far(s2, g)
    BY <1>1, <2>1 DEF KnownFrame, SilentFrameInv, Moving, Far
  <2> QED BY <1>1, <1>3, <2>1, <2>3, <2>4, SilentStep
<1>5. CASE to # from
  <2>1. /\ s2 \in Transiting({Visit}) /\ s2.host = h /\ s2.from = from /\ s2.to = to
        /\ s2.pc \in Moving
        /\ s2.pc = IF from = "Avail" THEN "delCpus" ELSE "delHost"
    BY <1>1, <1>2, <1>5, StartedFields
  <2>2. s2 \in SilentFrames /\ SilentFrameInv(s2)
    BY <1>2, <1>5, <2>1 DEF SilentFrames, SilentFrameInv
  <2>3. HostInv(d, m, s2, h)
    <3>1. HostInv(d, m, s, h)
      BY <1>1 DEF FullInv
    <3>2. MeetAt(d, m, s2, h)
      BY <2>1, <3>1 DEF HostInv, MeetAt
    <3>3. IsAvail(d, h) => Excused(m, s2, h)
      BY <2>1 DEF IsAvail, Excused, Leaves
    <3> QED BY <3>2, <3>3 DEF HostInv
  <2>4. KnownFrame(d, s2) /\ \A g \in Hosts \ {h} : Far(s, g) /\ Far(s2, g)
    BY <1>1, <2>1 DEF KnownFrame, Far
  <2> QED BY <1>1, <1>3, <2>2, <2>3, <2>4, SilentStep
<1> QED BY <1>4, <1>5

\* What DmucsDb's operators do to one host, on any database.
LEMMA DelFromSetEffect ==
    ASSUME NEW d \in Db, NEW r \in States, NEW h \in Hosts
    PROVE  LET e == DelFromHostSet(d, r, h)
           IN  e \in Db /\ SameHosts(d, e) /\ e.state = d.state /\ e.cpus = d.cpus
BY DEF DelFromHostSet, SameHosts, Db

LEMMA AddToSetEffect ==
    ASSUME NEW d \in Db, NEW r \in States, NEW h \in Hosts
    PROVE  LET e == AddToHostSet(d, r, h)
           IN  e \in Db /\ SameHosts(d, e) /\ e.state = d.state /\ e.cpus = d.cpus
BY DEF AddToHostSet, SameHosts, Db

LEMMA DelFromAvailEffect ==
    ASSUME NEW d \in Db, NEW h \in Hosts, HaveHost(d, h)
    PROVE  LET e == DelFromAvailDb(d, h)
           IN  /\ e \in Db /\ SameHosts(d, e) /\ e.state = d.state
               /\ \A g \in Hosts \ {h}, t \in Tiers : e.cpus[g][t] = d.cpus[g][t]
<1> DEFINE t0 == GetTier(d, h)
           c == DelCpusFromTier(d, h, t0)
           e == DelFromHostSet(c, "Avail", h)
<1>1. t0 \in Tiers
  BY GetTierType
<1>2. /\ c \in Db /\ SameHosts(d, c) /\ c.state = d.state
      /\ \A g \in Hosts \ {h}, t \in Tiers : c.cpus[g][t] = d.cpus[g][t]
  BY <1>1, DelCpusEffect
<1>3. e \in Db /\ SameHosts(c, e) /\ e.state = c.state /\ e.cpus = c.cpus
  <2> HIDE DEF c
  <2>1. c \in Db /\ "Avail" \in States
    BY <1>2 DEF States
  <2> QED BY <2>1, DelFromSetEffect
<1>4. DelFromAvailDb(d, h) = e \/ DelFromAvailDb(d, h) = d
  BY DEF DelFromAvailDb
<1> HIDE DEF c, e
<1> QED BY <1>2, <1>3, <1>4 DEF SameHosts

LEMMA AddToAvailEffect ==
    ASSUME NEW d \in Db, NEW h \in Hosts, HaveHost(d, h)
    PROVE  LET e == AddToAvailDb(d, h)
           IN  /\ e \in Db /\ SameHosts(d, e) /\ e.state = d.state
               /\ \A g \in Hosts, u \in Tiers :
                    e.cpus[g][u] = IF g = h /\ u = GetTier(d, h)
                                   THEN d.cpus[g][u] + d.info[h].ncpus ELSE d.cpus[g][u]
<1> DEFINE c == AddToHostSet(d, "Avail", h)
           t0 == GetTier(c, h)
           n == c.info[h].ncpus
           e == AddCpusToTier(c, h, t0, n)
<1>1. c \in Db /\ SameHosts(d, c) /\ c.state = d.state /\ c.cpus = d.cpus
  BY AddToSetEffect DEF States
<1>2. /\ t0 = GetTier(d, h) /\ n = d.info[h].ncpus
      /\ AddToAvailDb(d, h) = AddCpusToTier(c, h, GetTier(d, h), d.info[h].ncpus)
  BY <1>1 DEF AddToAvailDb, SameHosts, GetTier
<1>3. t0 \in Tiers /\ n \in Nat
  BY <1>2, GetTierType, SpecType
<1> HIDE DEF c, t0, n
<1>4. /\ e \in Db /\ SameHosts(c, e) /\ e.state = c.state
      /\ \A g \in Hosts, u \in Tiers :
           e.cpus[g][u] = IF g = h /\ u = t0 THEN c.cpus[h][t0] + n ELSE c.cpus[g][u]
  BY <1>1, <1>3, AddCpusEffect
<1>5. AddToAvailDb(d, h) = e
  BY <1>2
<1> HIDE DEF e
<1> QED BY <1>1, <1>2, <1>4, <1>5 DEF SameHosts

\* The CPUs go, and a host that was available is excused until it is moved.
LEMMA LeavesOn ==
    ASSUME NEW d, NEW m, NEW s, FullInv(d, m, s), NEW h \in Hosts, HaveHost(d, h),
           NEW e \in Db, SameHosts(d, e), e.state = d.state,
           NEW m2, NEW s2, Alike(m, m2, h), Alike(s, s2, h),
           \/ Excused(m, s, h)
           \/ /\ \A t \in Tiers : e.cpus[h][t] = d.cpus[h][t]
              /\ Pending(m2, h) = Pending(m, h)
              /\ NextTier(d, m2, h) = NextTier(d, m, h)
    PROVE  HostInv(e, m2, s2, h)
<1>1. HostInv(d, m, s, h) /\ d \in Db /\ TypeInv(d, m, s)
  BY HostOf DEF FullInv
<1>2. CASE Excused(m, s, h)
  <2>1. MeetAt(e, m2, s2, h)
    BY <1>1 DEF HostInv, MeetAt, Alike
  <2>2. Excused(m2, s2, h)
    BY <1>2 DEF Excused, Alike
  <2> QED BY <2>1, <2>2 DEF HostInv
<1>3. CASE /\ \A t \in Tiers : e.cpus[h][t] = d.cpus[h][t]
           /\ Pending(m2, h) = Pending(m, h)
           /\ NextTier(d, m2, h) = NextTier(d, m, h)
  <2>1. Same(d, e, h) /\ \A t \in Tiers : e.cpus[h][t] >= d.cpus[h][t]
    BY <1>1, <1>3 DEF Same, SameHosts, Held, Db
  <2>2. NextTier(e, m2, h) = NextTier(d, m, h)
    BY <1>3 DEF NextTier, GetTier, SameHosts
  <2> QED BY <1>1, <1>3, <2>1, <2>2, HostKept
<1> QED BY <1>2, <1>3

\* The next step of a transition.
LEMMA NextFrame ==
    ASSUME NEW thens, NEW f \in Transiting(thens), f.pc \in Moving,
           NEW p \in {"delHost", "setState", "addHost"}, NEW f2, f2 = [f EXCEPT !.pc = p]
    PROVE  /\ f2 \in Transiting(thens) /\ f2.pc = p /\ f2.host = f.host
           /\ f2.from = f.from /\ f2.to = f.to /\ f2.then = f.then
           /\ p \in Moving => \A g : Alike(f, f2, g)
<1>1. /\ f2 \in Transiting(thens) /\ f2.pc = p /\ f2.host = f.host
      /\ f2.from = f.from /\ f2.to = f.to /\ f2.then = f.then
  <2>1. p \in Moving \cup {"addHost"}
    BY DEF Moving
  <2> QED BY <2>1, TransitFields
<1>2. p \in Moving => \A g : Alike(f, f2, g)
  BY <1>1 DEF Alike, Leaves, Arrives, Moving
<1> QED BY <1>1, <1>2

LEMMA MovesOnMain ==
    ASSUME NEW d, NEW m, NEW s, FullInv(d, m, s), m.pc \in {"delCpus", "delHost"},
           NEW p \in {"delHost", "setState"}, NEW m2, m2 = [m EXCEPT !.pc = p],
           NEW e \in Db, SameHosts(d, e), e.state = d.state,
           \A g \in Hosts, t \in Tiers :
               (g = m.host /\ m.from = "Avail") \/ e.cpus[g][t] = d.cpus[g][t]
    PROVE  FullInv(e, m2, s) /\ Known(d, e)
<1> DEFINE h == m.host
<1>1. /\ h \in Hosts /\ HaveHost(d, h) /\ TypeInv(d, m, s) /\ m \in Transiting(MainThens)
      /\ m.pc \in Moving
  BY HostOf, MainFields DEF Moving
<1>2. /\ m2 \in Transiting(MainThens) /\ m2.pc = p /\ m2.host = h /\ m2.from = m.from
      /\ m2.to = m.to /\ m2.then = m.then /\ Alike(m, m2, h)
  <2>1. p \in {"delHost", "setState", "addHost"} /\ p \in Moving
    BY DEF Moving
  <2> QED BY <1>1, <2>1, NextFrame
<1>3. OnlyAt(d, e, h)
  BY <1>1, OnlyAtHost
<1>4. m2 \in MainFrames /\ KnownFrame(e, m2) /\ \A g \in Hosts \ {h} : Far(m, g) /\ Far(m2, g)
  BY <1>1, <1>2, <1>3 DEF MainFrames, KnownFrame, Far, OnlyAt
<1>5. MainFrameInv(e, m2)
  BY <1>1, <1>2 DEF FullInv, MainFrameInv, Moving
<1>6. HostInv(e, m2, s, h)
  <2>1. m.from = "Avail" => Excused(m, s, h)
    BY <1>1 DEF Excused, Leaves
  <2>2. Pending(m2, h) = Pending(m, h) /\ NextTier(d, m2, h) = NextTier(d, m, h)
    BY <1>1, <1>2 DEF Pending, NextTier, Moving
  <2>3. Alike(s, s, h)
    BY DEF Alike
  <2> QED BY <1>1, <1>2, <2>1, <2>2, <2>3, LeavesOn
<1> QED BY <1>1, <1>3, <1>4, <1>5, <1>6, MainStep

LEMMA MovesOnSilent ==
    ASSUME NEW d, NEW m, NEW s, FullInv(d, m, s), s.pc \in {"delCpus", "delHost"},
           NEW p \in {"delHost", "setState"}, NEW s2, s2 = [s EXCEPT !.pc = p],
           NEW e \in Db, SameHosts(d, e), e.state = d.state,
           \A g \in Hosts, t \in Tiers :
               (g = s.host /\ s.from = "Avail") \/ e.cpus[g][t] = d.cpus[g][t]
    PROVE  FullInv(e, m, s2) /\ Known(d, e)
<1> DEFINE h == s.host
<1>1. /\ h \in Hosts /\ HaveHost(d, h) /\ TypeInv(d, m, s) /\ s \in Transiting({Visit})
      /\ s.pc \in Moving
  BY HostOf, SilentFields DEF Moving
<1>2. /\ s2 \in Transiting({Visit}) /\ s2.pc = p /\ s2.host = h /\ s2.from = s.from
      /\ s2.to = s.to /\ Alike(s, s2, h)
  <2>1. p \in {"delHost", "setState", "addHost"} /\ p \in Moving
    BY DEF Moving
  <2> QED BY <1>1, <2>1, NextFrame
<1>3. OnlyAt(d, e, h)
  BY <1>1, OnlyAtHost
<1>4. /\ s2 \in SilentFrames /\ KnownFrame(e, s2)
      /\ \A g \in Hosts \ {h} : Far(s, g) /\ Far(s2, g)
  BY <1>1, <1>2, <1>3 DEF SilentFrames, KnownFrame, Far, OnlyAt
<1>5. SilentFrameInv(s2) /\ e.assigned = d.assigned
  BY <1>1, <1>2 DEF FullInv, SilentFrameInv, SameHosts
<1>6. HostInv(e, m, s2, h)
  <2>1. s.from = "Avail" => Excused(m, s, h)
    BY <1>1 DEF Excused, Leaves
  <2>2. Alike(m, m, h)
    BY DEF Alike
  <2> QED BY <1>1, <1>2, <2>1, <2>2, LeavesOn
<1> QED BY <1>1, <1>3, <1>4, <1>5, <1>6, SilentStep

\* DelCpus and DelHost, by either thread.
LEMMA DelEffects ==
    ASSUME NEW d \in Db, NEW thens, NEW f \in Transiting(thens), HaveHost(d, f.host),
           f.pc = "delCpus" => f.from = "Avail",
           NEW e, \/ f.pc = "delCpus" /\ e = DelCpusFromTier(d, f.host, GetTier(d, f.host))
                  \/ f.pc = "delHost" /\ e = IF f.from = "Avail" THEN DelFromAvailDb(d, f.host)
                                             ELSE DelFromHostSet(d, f.from, f.host)
    PROVE  /\ e \in Db /\ SameHosts(d, e) /\ e.state = d.state
           /\ \A g \in Hosts, t \in Tiers :
                  (g = f.host /\ f.from = "Avail") \/ e.cpus[g][t] = d.cpus[g][t]
<1>1. f.host \in Hosts /\ f.from \in States
  BY TransitFields
<1>2. CASE f.pc = "delCpus" /\ e = DelCpusFromTier(d, f.host, GetTier(d, f.host))
  <2>1. GetTier(d, f.host) \in Tiers
    BY <1>1, GetTierType
  <2> QED BY <1>1, <1>2, <2>1, DelCpusEffect
<1>3. CASE f.pc = "delHost" /\ f.from = "Avail" /\ e = DelFromAvailDb(d, f.host)
  BY <1>1, <1>3, DelFromAvailEffect
<1>4. CASE f.pc = "delHost" /\ f.from # "Avail" /\ e = DelFromHostSet(d, f.from, f.host)
  BY <1>1, <1>4, DelFromSetEffect
<1> QED BY <1>2, <1>3, <1>4

LEMMA SetStateEffect ==
    ASSUME NEW d \in Db, NEW h \in Hosts, NEW to \in States
    PROVE  LET e == [d EXCEPT !.state[h] = to]
           IN  /\ e \in Db /\ SameHosts(d, e) /\ e.cpus = d.cpus /\ e.state[h] = to
               /\ \A g \in Hosts \ {h} : e.state[g] = d.state[g]
BY DEF Db, SameHosts

LEMMA SetStateMain ==
    ASSUME NEW d, NEW m, NEW s, FullInv(d, m, s), m.pc = "setState",
           NEW m2, m2 = [m EXCEPT !.pc = "addHost"],
           NEW e \in Db, SameHosts(d, e), e.cpus = d.cpus, e.state[m.host] = m.to,
           \A g \in Hosts \ {m.host} : e.state[g] = d.state[g]
    PROVE  FullInv(e, m2, s) /\ Known(d, e)
<1> DEFINE h == m.host
<1>1. /\ h \in Hosts /\ HaveHost(d, h) /\ TypeInv(d, m, s) /\ m \in Transiting(MainThens)
      /\ d \in Db /\ m.pc \in Moving /\ m.to \in States
  BY HostOf, MainFields, TransitFields DEF Moving
<1>2. /\ m2 \in Transiting(MainThens) /\ m2.pc = "addHost" /\ m2.host = h
      /\ m2.from = m.from /\ m2.to = m.to /\ m2.then = m.then
  BY <1>1, NextFrame
<1>3. OnlyAt(d, e, h)
  BY <1>1, OnlyAtHost
<1>4. m2 \in MainFrames /\ KnownFrame(e, m2) /\ \A g \in Hosts \ {h} : Far(m, g) /\ Far(m2, g)
  BY <1>1, <1>2, <1>3 DEF MainFrames, KnownFrame, Far, OnlyAt
<1>5. MainFrameInv(e, m2)
  BY <1>1, <1>2 DEF FullInv, MainFrameInv, Moving
<1>6. HostInv(e, m2, s, h)
  <2>1. MeetAt(e, m2, s, h)
    BY <1>2 DEF MeetAt, Arrives, Leaves, Moving
  <2>2. IsAvail(e, h) => Excused(m2, s, h)
    BY <1>2 DEF IsAvail, Excused, Arrives
  <2> QED BY <2>1, <2>2 DEF HostInv
<1> QED BY <1>1, <1>3, <1>4, <1>5, <1>6, MainStep

LEMMA SetStateSilent ==
    ASSUME NEW d, NEW m, NEW s, FullInv(d, m, s), s.pc = "setState",
           NEW s2, s2 = [s EXCEPT !.pc = "addHost"],
           NEW e \in Db, SameHosts(d, e), e.cpus = d.cpus, e.state[s.host] = s.to,
           \A g \in Hosts \ {s.host} : e.state[g] = d.state[g]
    PROVE  FullInv(e, m, s2) /\ Known(d, e)
<1> DEFINE h == s.host
<1>1. /\ h \in Hosts /\ HaveHost(d, h) /\ TypeInv(d, m, s) /\ s \in Transiting({Visit})
      /\ d \in Db /\ s.pc \in Moving /\ s.to \in States
  BY HostOf, SilentFields, TransitFields DEF Moving
<1>2. /\ s2 \in Transiting({Visit}) /\ s2.pc = "addHost" /\ s2.host = h
      /\ s2.from = s.from /\ s2.to = s.to
  BY <1>1, NextFrame
<1>3. OnlyAt(d, e, h)
  BY <1>1, OnlyAtHost
<1>4. s.to = "Silent"
  BY <1>1 DEF FullInv, SilentFrameInv
<1>5. /\ s2 \in SilentFrames /\ KnownFrame(e, s2) /\ SilentFrameInv(s2)
      /\ \A g \in Hosts \ {h} : Far(s, g) /\ Far(s2, g)
  BY <1>1, <1>2, <1>3, <1>4 DEF SilentFrames, SilentFrameInv, KnownFrame, Far, OnlyAt
<1>6. HostInv(e, m, s2, h)
  <2>1. MeetAt(e, m, s2, h)
    BY <1>2, <1>4 DEF MeetAt, Arrives, Leaves, Moving
  <2>2. ~IsAvail(e, h)
    BY <1>4 DEF IsAvail
  <2> QED BY <2>1, <2>2 DEF HostInv
<1>7. e.assigned = d.assigned
  BY DEF SameHosts
<1> QED BY <1>1, <1>3, <1>5, <1>6, <1>7, SilentStep

LEMMA AddEffects ==
    ASSUME NEW d \in Db, NEW h \in Hosts, HaveHost(d, h), NEW r \in States,
           NEW e, e = IF r = "Avail" THEN AddToAvailDb(d, h) ELSE AddToHostSet(d, r, h)
    PROVE  /\ e \in Db /\ SameHosts(d, e) /\ e.state = d.state
           /\ \A g \in Hosts \ {h}, t \in Tiers : e.cpus[g][t] = d.cpus[g][t]
           /\ \A t \in Tiers : e.cpus[h][t] >= d.cpus[h][t]
           /\ r = "Avail" => e.cpus[h][GetTier(d, h)] >= d.info[h].ncpus
<1>1. CASE r = "Avail"
  <2>1. /\ e \in Db /\ SameHosts(d, e) /\ e.state = d.state
        /\ \A g \in Hosts, u \in Tiers :
             e.cpus[g][u] = IF g = h /\ u = GetTier(d, h)
                            THEN d.cpus[g][u] + d.info[h].ncpus ELSE d.cpus[g][u]
    BY <1>1, AddToAvailEffect
  <2>2. GetTier(d, h) \in Tiers /\ d.info[h] \in Specs
    BY GetTierType
  <2>3. d.info[h].ncpus \in Nat
    BY <2>2, SpecType
  <2>4. \A t \in Tiers : d.cpus[h][t] \in Nat
    BY DEF Db
  <2>5. /\ \A t \in Tiers : e.cpus[h][t] >= d.cpus[h][t]
        /\ e.cpus[h][GetTier(d, h)] >= d.info[h].ncpus
    BY <2>1, <2>2, <2>3, <2>4
  <2> QED BY <2>1, <2>5
<1>2. CASE r # "Avail"
  <2>1. e \in Db /\ SameHosts(d, e) /\ e.state = d.state /\ e.cpus = d.cpus
    BY <1>2, AddToSetEffect
  <2> QED BY <1>2, <2>1 DEF Db
<1> QED BY <1>1, <1>2

\* The main thread has the mutex, so the search is not under way.
LEMMA AddHostMain ==
    ASSUME NEW d, NEW m, NEW s, FullInv(d, m, s), m.pc = "addHost", s.pc = "idle",
           NEW r \in {m.to, d.state[m.host]},
           NEW e, e = IF r = "Avail" THEN AddToAvailDb(d, m.host)
                      ELSE AddToHostSet(d, r, m.host)
    PROVE  FullInv(e, m.then, s) /\ Known(d, e)
<1> DEFINE h == m.host
           m2 == m.then
<1>1. /\ h \in Hosts /\ HaveHost(d, h) /\ d \in Db /\ TypeInv(d, m, s)
      /\ m2 \in MainThens /\ m.to \in States
  <2>1. m \in Transiting(MainThens)
    BY HostOf, MainFields
  <2> QED BY <2>1, HostOf, TransitFields
<1>2. r \in States
  BY <1>1 DEF Db
<1>3. /\ e \in Db /\ SameHosts(d, e) /\ e.state = d.state
      /\ \A g \in Hosts \ {h}, t \in Tiers : e.cpus[g][t] = d.cpus[g][t]
      /\ r = "Avail" => e.cpus[h][GetTier(d, h)] >= d.info[h].ncpus
  BY <1>1, <1>2, AddEffects
<1>4. OnlyAt(d, e, h)
  BY <1>1, <1>3, OnlyAtHost
<1>5. /\ m2 # Idle => m2.host = h /\ m.to # "Avail"
      /\ m.to # "Avail" => d.state[h] # "Avail"
  BY <1>1 DEF FullInv, MainFrameInv, HostInv, MeetAt, Arrives
<1>6. /\ m2 \in MainFrames
      /\ \/ m2.pc = "idle" /\ m2 = Idle
         \/ m2.pc = "store" /\ m2 # Idle
  BY <1>1, ThenFields
<1>7. /\ KnownFrame(e, m2) /\ MainFrameInv(e, m2)
      /\ \A g \in Hosts \ {h} : Far(m, g) /\ Far(m2, g)
  BY <1>1, <1>4, <1>5, <1>6 DEF KnownFrame, MainFrameInv, Moving, Far, OnlyAt
<1>8. HostInv(e, m2, s, h)
  <2>1. MeetAt(e, m2, s, h)
    BY <1>6 DEF MeetAt, Leaves, Arrives, Moving
  <2>2. ASSUME IsAvail(e, h)
        PROVE  Complete(e, m2, h)
    <3>1. d.state[h] = "Avail"
      BY <1>3, <2>2 DEF IsAvail
    <3>2. r = "Avail" /\ m2.pc = "idle"
      BY <1>5, <1>6, <3>1
    <3>3. NextTier(e, m2, h) = GetTier(d, h) /\ Pending(m2, h) = 0 /\ e.info[h] = d.info[h]
      BY <1>3, <3>2 DEF NextTier, GetTier, Pending, SameHosts
    <3>4. e.cpus[h][GetTier(d, h)] >= d.info[h].ncpus
      BY <1>3, <3>2
    <3>5. GetTier(d, h) \in Tiers /\ d.info[h] \in Specs
      BY <1>1, GetTierType
    <3>6. e.cpus[h][GetTier(d, h)] \in Nat
      BY <1>1, <1>3, <3>5 DEF Db
    <3>7. d.info[h].ncpus \in Nat /\ Held(e, h) \in Nat
      BY <3>5, SpecType, HeldType
    <3> QED BY <3>3, <3>4, <3>6, <3>7 DEF Complete
  <2> QED BY <2>1, <2>2 DEF HostInv
<1> HIDE DEF m2, h
<1>9. FullInv(e, m2, s) /\ Known(d, e)
  BY <1>1, <1>4, <1>6, <1>7, <1>8, MainStep
<1> QED BY <1>9 DEF m2

LEMMA AddHostSilent ==
    ASSUME NEW d, NEW m, NEW s, FullInv(d, m, s), s.pc = "addHost",
           NEW r \in {s.to, d.state[s.host]},
           NEW e, e = IF r = "Avail" THEN AddToAvailDb(d, s.host)
                      ELSE AddToHostSet(d, r, s.host)
    PROVE  FullInv(e, m, s.then) /\ Known(d, e)
<1> DEFINE h == s.host
<1>1. /\ h \in Hosts /\ HaveHost(d, h) /\ d \in Db /\ TypeInv(d, m, s)
      /\ s.then = Visit /\ s.to \in States
  <2>1. s \in Transiting({Visit})
    BY HostOf, SilentFields
  <2> QED BY <2>1, HostOf, TransitFields
<1>2. r \in States
  BY <1>1 DEF Db
<1>3. /\ e \in Db /\ SameHosts(d, e) /\ e.state = d.state
      /\ \A g \in Hosts \ {h}, t \in Tiers : e.cpus[g][t] = d.cpus[g][t]
      /\ \A t \in Tiers : e.cpus[h][t] >= d.cpus[h][t]
  BY <1>1, <1>2, AddEffects
<1>4. OnlyAt(d, e, h) /\ Held(e, h) = Held(d, h)
  BY <1>1, <1>3, OnlyAtHost
<1>5. /\ Visit \in SilentFrames /\ Visit.pc = "visit"
      /\ KnownFrame(e, Visit) /\ SilentFrameInv(Visit) /\ KnownFrame(d, Visit)
      /\ \A g \in Hosts \ {h} : Far(s, g) /\ Far(Visit, g)
  BY <1>1 DEF SilentFrames, Visit, KnownFrame, SilentFrameInv, Moving, Far
<1>6. HostInv(e, m, Visit, h)
  <2>1. TypeInv(d, m, Visit)
    BY <1>1, <1>5 DEF TypeInv
  <2>2. HostInv(d, m, Visit, h)
    <3>1. HostInv(d, m, s, h) /\ ~Leaves(s, h) /\ ~Leaves(Visit, h)
      BY <1>1, <1>5 DEF FullInv, Leaves, Moving
    <3> QED BY <3>1 DEF HostInv, MeetAt, Excused
  <2>3. Same(d, e, h) /\ Alike(m, m, h) /\ Alike(Visit, Visit, h)
    BY <1>3, <1>4 DEF Same, SameHosts, Alike
  <2>4. NextTier(e, m, h) = NextTier(d, m, h)
    BY <1>3 DEF NextTier, GetTier, SameHosts
  <2> HIDE DEF h
  <2> QED BY <1>1, <1>3, <2>1, <2>2, <2>3, <2>4, HostKept
<1>7. e.assigned = d.assigned
  BY <1>3 DEF SameHosts
<1> HIDE DEF h
<1>8. FullInv(e, m, Visit) /\ Known(d, e)
  BY <1>1, <1>4, <1>5, <1>6, <1>7, SilentStep
<1> QED BY <1>1, <1>8

----------------------------------------------------------------------------
(* The handlers of the main thread, outside a transition.                  *)

\* A step that moves no host keeps the invariant of its host, if it keeps a
\* complete host complete.
LEMMA MainHandles ==
    ASSUME NEW d, NEW m, NEW s, FullInv(d, m, s), NEW h \in Hosts, HaveHost(d, h),
           NEW e, OnlyAt(d, e, h), e.state[h] = d.state[h],
           NEW m2 \in MainFrames, MainFrameInv(e, m2),
           m.pc \notin Moving \cup {"addHost"}, m2.pc \notin Moving \cup {"addHost"},
           m.pc # "idle" => m.host = h, m2.pc # "idle" => m2.host = h,
           IsAvail(d, h) /\ Complete(d, m, h) => Complete(e, m2, h)
    PROVE  FullInv(e, m2, s) /\ Known(d, e)
<1>1. KnownFrame(e, m2) /\ \A g \in Hosts \ {h} : Far(m, g) /\ Far(m2, g)
  BY DEF KnownFrame, Far, OnlyAt
<1>2. HostInv(e, m2, s, h)
  <2>1. /\ ~Leaves(m, h) /\ ~Arrives(m, h) /\ ~Leaves(m2, h) /\ ~Arrives(m2, h)
        /\ HostInv(d, m, s, h)
    BY DEF Leaves, Arrives, FullInv
  <2>2. MeetAt(e, m2, s, h)
    BY <2>1 DEF HostInv, MeetAt
  <2>3. IsAvail(e, h) => Complete(e, m2, h) \/ Excused(m2, s, h)
    BY <2>1 DEF HostInv, Excused, IsAvail
  <2> QED BY <2>2, <2>3 DEF HostInv
<1> QED BY <1>1, <1>2, MainStep

\* One that changes no more than the frame.
LEMMA MainTurns ==
    ASSUME NEW d, NEW m, NEW s, FullInv(d, m, s), NEW h \in Hosts, HaveHost(d, h),
           NEW e \in Db, e.info = d.info, e.load = d.load, e.assigned = d.assigned,
           e.state = d.state, e.cpus = d.cpus,
           NEW m2 \in MainFrames, MainFrameInv(e, m2),
           m.pc \notin Moving \cup {"addHost"}, m2.pc \notin Moving \cup {"addHost"},
           m.pc # "idle" => m.host = h, m2.pc # "idle" => m2.host = h,
           Pending(m2, h) = Pending(m, h), NextTier(d, m2, h) = NextTier(d, m, h)
    PROVE  FullInv(e, m2, s) /\ Known(d, e)
<1>1. \A g : Held(e, g) = Held(d, g)
  BY DEF Held
<1>2. OnlyAt(d, e, h)
  BY <1>1 DEF OnlyAt, Same, HaveHost, GrantsKnownIn, FullInv, TypeInv
<1>3. Complete(d, m, h) => Complete(e, m2, h)
  <2>1. NextTier(e, m2, h) = NextTier(d, m, h)
    BY DEF NextTier, GetTier
  <2> QED BY <1>1, <2>1 DEF Complete
<1> QED BY <1>2, <1>3, MainHandles

LEMMA CallFields ==
    ASSUME NEW h \in Hosts, NEW method \in {"avail", "unavail", "overloaded"},
           NEW then \in MainThens
    PROVE  LET x == Call(method, h, then)
           IN  /\ x \in MainFrames /\ x.pc = "dispatch" /\ x.host = h
               /\ x.method = method /\ x.then = then
BY DEF Call, MainFrames, Dispatching

LEMMA CallInv ==
    ASSUME NEW d, NEW h \in Hosts, NEW method \in {"avail", "unavail", "overloaded"},
           NEW then \in MainThens, NEW x, x = Call(method, h, then),
           then # Idle => then.host = h, then # Idle <=> method = "overloaded"
    PROVE  /\ x \in MainFrames /\ x.pc = "dispatch" /\ x.host = h
           /\ MainFrameInv(d, x)
<1>1. /\ x \in MainFrames /\ x.pc = "dispatch" /\ x.host = h
      /\ x.method = method /\ x.then = then
  BY CallFields
<1> QED BY <1>1 DEF MainFrameInv, Moving

\* ldavg of a known host, and "status".
LEMMA ReportStarts ==
    ASSUME NEW d, NEW m, NEW s, FullInv(d, m, s), m.pc = "idle",
           NEW h \in Hosts, HaveHost(d, h),
           NEW m2, \/ \E load \in Loads : m2 = [pc |-> "update", host |-> h, load |-> load]
                   \/ \E method \in {"avail", "unavail"} : m2 = Call(method, h, Idle)
    PROVE  FullInv(d, m2, s)
<1>1. /\ m2 \in MainFrames /\ MainFrameInv(d, m2)
      /\ m2.pc \in {"update", "dispatch"} /\ m2.host = h
  <2>1. CASE \E load \in Loads : m2 = [pc |-> "update", host |-> h, load |-> load]
    <3>1. PICK load \in Loads : m2 = [pc |-> "update", host |-> h, load |-> load]
      BY <2>1
    <3>2. m2.pc = "update" /\ m2.host = h /\ m2 \in Loading({"update", "store"})
      BY <3>1 DEF Loading
    <3> QED BY <3>2 DEF MainFrameInv, Moving, MainFrames
  <2>2. CASE \E method \in {"avail", "unavail"} : m2 = Call(method, h, Idle)
    <3>1. PICK method \in {"avail", "unavail"} : m2 = Call(method, h, Idle)
      BY <2>2
    <3>2. Idle \in MainThens /\ method \in {"avail", "unavail", "overloaded"}
      BY DEF MainThens
    <3> QED BY <3>1, <3>2, CallInv
  <2> QED BY <2>1, <2>2
<1>2. /\ Pending(m2, h) = Pending(m, h) /\ NextTier(d, m2, h) = NextTier(d, m, h)
      /\ m.pc \notin Moving \cup {"addHost"} /\ m2.pc \notin Moving \cup {"addHost"}
  BY <1>1 DEF Pending, NextTier, Moving
<1>3. d \in Db
  BY HostOf
<1> QED BY <1>1, <1>2, <1>3, MainTurns

LEMMA StoreFrame ==
    ASSUME NEW f \in Loading({"update", "store"}), NEW x, x = [f EXCEPT !.pc = "store"]
    PROVE  /\ x \in MainThens /\ x \in MainFrames /\ x # Idle
           /\ x.pc = "store" /\ x.host = f.host /\ x.load = f.load
           /\ f.host \in Hosts /\ f.load \in Loads
<1>1. /\ x \in Loading({"store"}) /\ x \in Loading({"update", "store"})
      /\ x.pc = "store" /\ x.host = f.host /\ x.load = f.load
      /\ f.host \in Hosts /\ f.load \in Loads
  BY DEF Loading
<1>2. x # Idle
  <2>1. Idle.pc = "idle"
    BY DEF Idle
  <2> QED BY <1>1, <2>1
<1> QED BY <1>1, <1>2 DEF MainThens, MainFrames

\* What MoveCpus changes: the listed CPUs of the host, and of no other.
Moved(d, e, h, old, new) ==
    /\ e \in Db /\ SameHosts(d, e) /\ e.state = d.state
    /\ \A g \in Hosts \ {h}, t \in Tiers : e.cpus[g][t] = d.cpus[g][t]
    /\ e.cpus[h][new] = d.cpus[h][new] + d.cpus[h][old]

LEMMA MoveCpusEffect ==
    ASSUME NEW d \in Db, NEW h \in Hosts, NEW old \in Tiers, NEW new \in Tiers, new # old
    PROVE  Moved(d, MoveCpus(d, h, old, new), h, old, new)
<1> DEFINE c == DelCpusFromTier(d, h, old)
           n == d.cpus[h][old]
<1>1. /\ c \in Db /\ SameHosts(d, c) /\ c.state = d.state
      /\ \A g \in Hosts, u \in Tiers :
           c.cpus[g][u] = IF g = h /\ u = old THEN 0 ELSE d.cpus[g][u]
  BY DelCpusEffect
<1>2. n \in Nat
  BY DEF Db
<1> HIDE DEF c, n
<1> DEFINE e == AddCpusToTier(c, h, new, n)
<1>3. /\ e \in Db /\ SameHosts(c, e) /\ e.state = c.state
      /\ \A g \in Hosts, u \in Tiers :
           e.cpus[g][u] = IF g = h /\ u = new THEN c.cpus[h][new] + n ELSE c.cpus[g][u]
  BY <1>1, <1>2, AddCpusEffect
<1> HIDE DEF e
<1>4. MoveCpus(d, h, old, new) = e
  BY DEF MoveCpus, c, n, e
<1> QED BY <1>1, <1>3, <1>4 DEF SameHosts, Moved, n

LEMMA OverloadedCall ==
    ASSUME NEW d, NEW h \in Hosts, NEW then \in MainThens, then # Idle, then.host = h
    PROVE  LET x == Call("overloaded", h, then)
           IN  /\ x \in MainFrames /\ x.pc = "dispatch" /\ x.host = h
               /\ MainFrameInv(d, x)
<1> DEFINE x == Call("overloaded", h, then)
<1>1. /\ x \in Dispatching({"avail", "unavail", "overloaded"}, MainThens)
      /\ x.pc = "dispatch" /\ x.host = h /\ x.method = "overloaded" /\ x.then = then
  BY DEF Call, Dispatching
<1> HIDE DEF x
<1>2. /\ x \in MainFrames /\ x.pc = "dispatch" /\ x.host = h
      /\ MainFrameInv(d, x)
  BY <1>1 DEF MainFrames, MainFrameInv, Moving
<1> QED BY <1>2 DEF x

LEMMA UpdateStart ==
    ASSUME NEW d, NEW m, NEW s, FullInv(d, m, s), m.pc = "update",
           NEW new, new = CalcTier(m.load, d.info[m.host].pindex),
           NEW old, old = GetTier(d, m.host),
           NEW store \in MainThens \cap MainFrames, store # Idle, store.pc = "store",
           store.host = m.host, store.load = m.load,
           NEW e, NEW m2,
           \/ new = old /\ m2 = store /\ e = d
           \/ m2 = Call("overloaded", m.host, store) /\ e = d
           \/ new # old /\ m2 = store /\ e = MoveCpus(d, m.host, old, new)
    PROVE  FullInv(e, m2, s) /\ Known(d, e)
<1> DEFINE h == m.host
<1>1. /\ d \in Db /\ TypeInv(d, m, s) /\ h \in Hosts /\ HaveHost(d, h)
      /\ m \in Loading({"update", "store"})
  BY HostOf, MainFields
<1>2. /\ store \in MainThens /\ store \in MainFrames /\ store # Idle
      /\ store.pc = "store" /\ store.host = h /\ store.load = m.load
      /\ m.load \in Loads
  BY <1>1 DEF Loading
<1>3. /\ MainFrameInv(e, store) /\ Pending(m, h) = 0 /\ Pending(store, h) = 0
      /\ NextTier(d, m, h) = old /\ m.pc \notin Moving \cup {"addHost"}
      /\ store.pc \notin Moving \cup {"addHost"}
      /\ NextTier(d, store, h) = new
  BY <1>2 DEF MainFrameInv, Moving, Pending, NextTier
<1>4. CASE new = old /\ m2 = store /\ e = d
  BY <1>1, <1>2, <1>3, <1>4, MainTurns
<1>5. CASE m2 = Call("overloaded", h, store) /\ e = d
  <2>1. /\ m2 \in MainFrames /\ m2.pc = "dispatch" /\ m2.host = h
        /\ MainFrameInv(d, m2)
    <3>1. /\ h \in Hosts /\ store \in MainThens /\ store # Idle /\ store.host = h
          /\ m2 = Call("overloaded", h, store)
      BY <1>1, <1>2, <1>5
    <3> HIDE DEF h
    <3> QED BY <3>1, OverloadedCall
  <2>2. /\ Pending(m2, h) = 0 /\ NextTier(d, m2, h) = old
        /\ m2.pc \notin Moving \cup {"addHost"}
    BY <2>1 DEF Pending, NextTier, Moving
  <2> QED BY <1>1, <1>3, <1>5, <2>1, <2>2, MainTurns
<1>6. CASE new # old /\ m2 = store /\ e = MoveCpus(d, h, old, new)
  <2>1. d.info[h] \in Specs /\ old \in Tiers
    BY <1>1, GetTierType
  <2>2. new \in Tiers
    BY <1>2, <2>1, CalcTierType
  <2>3. /\ e \in Db /\ SameHosts(d, e) /\ e.state = d.state
        /\ \A g \in Hosts \ {h}, t \in Tiers : e.cpus[g][t] = d.cpus[g][t]
        /\ e.cpus[h][new] = d.cpus[h][new] + d.cpus[h][old]
    <3>1. d \in Db /\ h \in Hosts /\ old \in Tiers /\ new \in Tiers /\ new # old
      BY <1>1, <1>6, <2>1, <2>2
    <3>2. e = MoveCpus(d, h, old, new)
      BY <1>6
    <3>3. Moved(d, MoveCpus(d, h, old, new), h, old, new)
      BY <3>1, MoveCpusEffect, Zenon
    <3>4. Moved(d, e, h, old, new)
      BY <3>2, <3>3, Zenon
    <3> QED BY <3>4 DEF Moved
  <2>4. OnlyAt(d, e, h) /\ Held(e, h) = Held(d, h)
    BY <1>1, <2>3, OnlyAtHost
  <2>5. ASSUME Complete(d, m, h)
        PROVE  Complete(e, m2, h)
    <3>1. d.cpus[h][old] \in Nat /\ d.cpus[h][new] \in Nat
      BY <1>1, <2>1, <2>2 DEF Db
    <3>2. Held(d, h) \in Nat /\ d.info[h].ncpus \in Nat
      BY <2>1, HeldType, SpecType
    <3>3. d.cpus[h][old] + Held(d, h) + 0 >= d.info[h].ncpus
      BY <1>3, <2>5 DEF Complete
    <3>4. NextTier(e, m2, h) = new /\ Pending(m2, h) = 0 /\ e.info[h] = d.info[h]
      BY <1>2, <1>3, <1>6, <2>3 DEF NextTier, SameHosts
    <3>5. d.cpus[h][new] + d.cpus[h][old] + Held(d, h) + 0 >= d.info[h].ncpus
      BY <3>1, <3>2, <3>3
    <3> QED BY <2>3, <2>4, <3>4, <3>5 DEF Complete
  <2> HIDE DEF h
  <2> QED BY <1>1, <1>2, <1>3, <1>6, <2>3, <2>4, <2>5, MainHandles DEF h
<1> QED BY <1>4, <1>5, <1>6

LEMMA StoreEffect ==
    ASSUME NEW d \in Db, NEW h \in Hosts, NEW load \in Loads
    PROVE  LET e == [d EXCEPT !.load[h] = load]
           IN  /\ e \in Db /\ e.info = d.info /\ e.state = d.state /\ e.cpus = d.cpus
               /\ e.assigned = d.assigned /\ e.load[h] = load
               /\ \A g \in Hosts \ {h} : e.load[g] = d.load[g]
BY DEF Db

\* The load is stored: the tier the CPUs are in is the host's.
LEMMA StoreStep ==
    ASSUME NEW d, NEW m, NEW s, FullInv(d, m, s), m.pc = "store",
           NEW m2, m2 = [pc |-> "stamp", host |-> m.host],
           NEW e, e = [d EXCEPT !.load[m.host] = m.load]
    PROVE  FullInv(e, m2, s) /\ Known(d, e)
<1> DEFINE h == m.host
<1>1. /\ d \in Db /\ TypeInv(d, m, s) /\ h \in Hosts /\ HaveHost(d, h) /\ m.load \in Loads
  <2>1. m \in Loading({"update", "store"})
    BY HostOf, MainFields
  <2> QED BY <2>1, HostOf DEF Loading
<1>2. /\ e \in Db /\ e.info = d.info /\ e.state = d.state /\ e.cpus = d.cpus
      /\ e.assigned = d.assigned /\ e.load[h] = m.load
      /\ \A g \in Hosts \ {h} : e.load[g] = d.load[g]
  BY <1>1, StoreEffect
<1>3. \A g : Held(e, g) = Held(d, g)
  BY <1>2 DEF Held
<1>4. OnlyAt(d, e, h)
  BY <1>1, <1>2, <1>3 DEF OnlyAt, Same, HaveHost, GrantsKnownIn, TypeInv
<1>5. m2 \in MainFrames /\ m2.pc = "stamp" /\ m2.host = h
  BY <1>1 DEF MainFrames
<1>6. /\ MainFrameInv(e, m2) /\ m.pc \notin Moving \cup {"addHost"}
      /\ m2.pc \notin Moving \cup {"addHost"}
  BY <1>5 DEF MainFrameInv, Moving
<1>7. Complete(d, m, h) => Complete(e, m2, h)
  <2>1. NextTier(e, m2, h) = NextTier(d, m, h) /\ Pending(m2, h) = Pending(m, h)
    BY <1>2, <1>5 DEF NextTier, GetTier, Pending
  <2> QED BY <1>2, <1>3, <2>1 DEF Complete
<1>8. FullInv(d, m, s) /\ e.state[h] = d.state[h] /\ m.host = h
  BY <1>2
<1> HIDE DEF h
<1> QED BY <1>1, <1>4, <1>5, <1>6, <1>7, <1>8, MainHandles

LEMMA FreshEffect ==
    ASSUME NEW d \in Db, NEW h \in Hosts, NEW b \in BOOLEAN
    PROVE  LET e == [d EXCEPT !.fresh[h] = b]
           IN  /\ e \in Db /\ e.info = d.info /\ e.state = d.state /\ e.cpus = d.cpus
               /\ e.assigned = d.assigned /\ e.load = d.load
BY DEF Db

\* StampUpdate and CheckBack.
LEMMA StampStep ==
    ASSUME NEW d, NEW m, NEW s, FullInv(d, m, s), m.pc \in {"stamp", "check"},
           NEW e \in Db, e.info = d.info, e.load = d.load, e.assigned = d.assigned,
           e.state = d.state, e.cpus = d.cpus,
           NEW m2, \/ m2 = [pc |-> "check", host |-> m.host]
                   \/ m2 = Call("avail", m.host, Idle)
                   \/ m2 = Idle
    PROVE  FullInv(e, m2, s) /\ Known(d, e)
<1> DEFINE h == m.host
<1>1. d \in Db /\ h \in Hosts /\ HaveHost(d, h)
  BY HostOf
<1>2. /\ m2 \in MainFrames /\ MainFrameInv(e, m2)
      /\ m2.pc \in {"check", "dispatch", "idle"} /\ (m2.pc # "idle" => m2.host = h)
  <2>1. CASE m2 = [pc |-> "check", host |-> h]
    <3>1. m2 \in MainFrames /\ m2.pc = "check" /\ m2.host = h
      BY <1>1, <2>1 DEF MainFrames
    <3> QED BY <3>1 DEF MainFrameInv, Moving
  <2>2. CASE m2 = Call("avail", h, Idle)
    <3>1. Idle \in MainThens
      BY DEF MainThens
    <3> QED BY <1>1, <2>2, <3>1, CallInv
  <2>3. CASE m2 = Idle
    <3>1. m2 \in MainFrames /\ m2.pc = "idle"
      BY <2>3 DEF MainFrames, Idle
    <3> QED BY <3>1 DEF MainFrameInv, Moving
  <2> QED BY <2>1, <2>2, <2>3
<1>3. /\ Pending(m2, h) = Pending(m, h) /\ NextTier(d, m2, h) = NextTier(d, m, h)
      /\ m.pc \notin Moving \cup {"addHost"} /\ m2.pc \notin Moving \cup {"addHost"}
  BY <1>2 DEF Pending, NextTier, Moving
<1> QED BY <1>1, <1>2, <1>3, MainTurns

\* A CPU is picked: it is on no list, and in the hands of the main thread.
LEMMA PickStep ==
    ASSUME NEW d, NEW m, NEW s, FullInv(d, m, s), m.pc = "idle",
           NEW c \in Clients, d.assigned[c] = NoHost,
           NEW h \in Hosts, NEW t \in Tiers, d.cpus[h][t] > 0,
           NEW e, e = TakeCpu(d, h, t),
           NEW m2 \in MainFrames, m2.pc = "assign", m2.host = h, m2.client = c
    PROVE  FullInv(e, m2, s) /\ Known(d, e)
<1>1. d \in Db /\ TypeInv(d, m, s) /\ HaveHost(d, h)
  BY HostOf DEF TypeInv
<1>2. /\ e \in Db /\ SameHosts(d, e) /\ e.state = d.state
      /\ \A g \in Hosts, u \in Tiers :
           e.cpus[g][u] = IF g = h /\ u = t THEN d.cpus[h][t] - 1 ELSE d.cpus[g][u]
  BY <1>1, TakeCpuEffect
<1>3. OnlyAt(d, e, h) /\ Held(e, h) = Held(d, h)
  BY <1>1, <1>2, OnlyAtHost
<1>4. /\ MainFrameInv(e, m2) /\ m.pc \notin Moving \cup {"addHost"}
      /\ m2.pc \notin Moving \cup {"addHost"}
  BY <1>2 DEF MainFrameInv, SameHosts, Moving
<1>5. ASSUME Complete(d, m, h)
      PROVE  Complete(e, m2, h)
  <2> DEFINE u == GetTier(d, h)
  <2>1. /\ NextTier(d, m, h) = u /\ Pending(m, h) = 0
        /\ NextTier(e, m2, h) = u /\ Pending(m2, h) = 1 /\ e.info[h] = d.info[h]
    BY <1>2 DEF NextTier, Pending, GetTier, SameHosts
  <2>2. u \in Tiers /\ d.info[h] \in Specs
    BY <1>1, GetTierType
  <2>3. d.cpus[h][u] \in Nat /\ e.cpus[h][u] \in Nat
    BY <1>1, <1>2, <2>2 DEF Db
  <2>4. Held(d, h) \in Nat /\ d.info[h].ncpus \in Nat
    BY <2>2, HeldType, SpecType
  <2>5. d.cpus[h][u] + Held(d, h) + 0 >= d.info[h].ncpus
    BY <1>5, <2>1 DEF Complete
  <2>6. e.cpus[h][u] >= d.cpus[h][u] - 1
    BY <1>2, <2>2, <2>3
  <2>7. e.cpus[h][u] + Held(d, h) + 1 >= d.info[h].ncpus
    BY <2>3, <2>4, <2>5, <2>6
  <2> QED BY <1>3, <2>1, <2>7 DEF Complete
<1> QED BY <1>1, <1>2, <1>3, <1>4, <1>5, MainHandles

LEMMA AssignEffect ==
    ASSUME NEW d \in Db, NEW h \in Hosts, NEW c \in Clients
    PROVE  LET e == AssignCpuToClient(d, h, c)
           IN  /\ e \in Db /\ e.info = d.info /\ e.state = d.state /\ e.cpus = d.cpus
               /\ e.load = d.load /\ e.assigned = [d.assigned EXCEPT ![c] = h]
<1> DEFINE granted == [d EXCEPT !.assigned[c] = h]
           q == DpropOf[h]
           n == NumAssigned(granted, q)
           k == IF n > granted.peak[q] THEN n ELSE granted.peak[q]
           e == [granted EXCEPT !.peak[q] = k]
<1>1. /\ granted \in Db /\ granted.info = d.info /\ granted.state = d.state
      /\ granted.cpus = d.cpus /\ granted.load = d.load
      /\ granted.assigned = [d.assigned EXCEPT ![c] = h]
  BY DEF Db
<1>2. q \in Dprops
  BY DmucsDbAssumption
<1>3. n \in Nat
  BY NumAssignedType
<1>4. k \in Nat
  BY <1>1, <1>2, <1>3 DEF Db
<1>5. AssignCpuToClient(d, h, c) = e
  BY DEF AssignCpuToClient
<1> HIDE DEF granted, n, q, k
<1>6. /\ e \in Db /\ e.info = granted.info /\ e.state = granted.state
      /\ e.cpus = granted.cpus /\ e.load = granted.load /\ e.assigned = granted.assigned
  BY <1>1, <1>2, <1>4 DEF Db
<1> HIDE DEF e
<1> QED BY <1>1, <1>5, <1>6

\* The CPU in hand is counted as held.
LEMMA AssignStep ==
    ASSUME NEW d, NEW m, NEW s, FullInv(d, m, s), m.pc = "assign",
           NEW e, e = AssignCpuToClient(d, m.host, m.client)
    PROVE  FullInv(e, Idle, s) /\ Known(d, e)
<1> DEFINE h == m.host
           c == m.client
<1>1. /\ d \in Db /\ TypeInv(d, m, s) /\ h \in Hosts /\ HaveHost(d, h)
      /\ c \in Clients /\ d.assigned[c] = NoHost
  BY HostOf, MainFields DEF FullInv, MainFrameInv
<1>2. /\ e \in Db /\ e.info = d.info /\ e.state = d.state /\ e.cpus = d.cpus
      /\ e.load = d.load /\ e.assigned = [d.assigned EXCEPT ![c] = h]
  BY <1>1, AssignEffect
<1> HIDE DEF c
<1>3. \A g \in Hosts : Held(e, g) = IF g = h THEN Held(d, g) + 1 ELSE Held(d, g)
  <2>1. h # d.assigned[c] /\ h \in Hosts \cup {NoHost}
    BY <1>1, DmucsDbAssumption
  <2>2. \A g : Held(e, g) = IF g = h THEN Held(d, g) + 1
                            ELSE IF g = d.assigned[c] THEN Held(d, g) - 1
                            ELSE Held(d, g)
    BY <1>1, <1>2, <2>1, HeldChange
  <2> QED BY <1>1, <2>2, DmucsDbAssumption
<1>4. OnlyAt(d, e, h)
  <2>1. GrantsKnownIn(e)
    BY <1>1, <1>2 DEF TypeInv, GrantsKnownIn, HaveHost, Db
  <2> QED BY <1>1, <1>2, <1>3, <2>1 DEF OnlyAt, Same, HaveHost
<1>5. /\ Idle \in MainFrames /\ Idle.pc = "idle" /\ MainFrameInv(e, Idle)
      /\ m.pc \notin Moving \cup {"addHost"} /\ Idle.pc \notin Moving \cup {"addHost"}
  BY DEF MainFrames, Idle, MainFrameInv, Moving
<1>6. ASSUME Complete(d, m, h)
      PROVE  Complete(e, Idle, h)
  <2>1. /\ NextTier(d, m, h) = GetTier(d, h) /\ Pending(m, h) = 1
        /\ NextTier(e, Idle, h) = GetTier(d, h) /\ Pending(Idle, h) = 0
        /\ e.info[h] = d.info[h] /\ e.cpus[h] = d.cpus[h] /\ Held(e, h) = Held(d, h) + 1
    BY <1>1, <1>2, <1>3, <1>5 DEF NextTier, Pending, GetTier
  <2>2. GetTier(d, h) \in Tiers /\ d.info[h] \in Specs
    BY <1>1, GetTierType
  <2>3. d.cpus[h][GetTier(d, h)] \in Nat /\ Held(d, h) \in Nat
    BY <1>1, <2>2, HeldType DEF Db
  <2>4. d.info[h].ncpus \in Nat
    BY <2>2, SpecType
  <2>5. d.cpus[h][GetTier(d, h)] + Held(d, h) + 1 >= d.info[h].ncpus
    BY <1>6, <2>1 DEF Complete
  <2>6. e.cpus[h][GetTier(d, h)] + Held(e, h) + 0 >= d.info[h].ncpus
    BY <2>1, <2>3, <2>4, <2>5
  <2> QED BY <2>1, <2>6 DEF Complete
<1>7. m.host = h /\ e.state[h] = d.state[h]
  BY <1>2
<1> HIDE DEF h
<1> QED BY <1>1, <1>4, <1>5, <1>6, <1>7, MainHandles

LEMMA FreeEffect ==
    ASSUME NEW d \in Db, NEW c \in Clients
    PROVE  LET e == [d EXCEPT !.assigned[c] = NoHost]
           IN  /\ e \in Db /\ e.info = d.info /\ e.state = d.state /\ e.cpus = d.cpus
               /\ e.load = d.load
               /\ \A k \in Clients : e.assigned[k] = IF k = c THEN NoHost ELSE d.assigned[k]
BY DEF Db

\* The CPU of a client that closes is in hand, if its host is available.
LEMMA CloseStep ==
    ASSUME NEW d, NEW m, NEW s, FullInv(d, m, s), m.pc = "idle",
           NEW c \in Clients, NEW h, h = d.assigned[c], h # NoHost,
           NEW e \in Db, e.info = d.info, e.state = d.state, e.cpus = d.cpus,
           e.load = d.load,
           \A k \in Clients : e.assigned[k] = IF k = c THEN NoHost ELSE d.assigned[k],
           NEW m2 \in MainFrames, \/ m2.pc = "addBack" /\ m2.host = h
                                  \/ m2.pc = "idle" /\ d.state[h] # "Avail"
    PROVE  FullInv(e, m2, s) /\ Known(d, e)
<1>1. d \in Db /\ TypeInv(d, m, s) /\ HaveHost(d, h)
  BY HostOf DEF TypeInv, GrantsKnownIn
<1>2. h \in Hosts
  BY <1>1 DEF Db
<1>3. \A g \in Hosts : Held(e, g) = IF g = h THEN Held(d, g) - 1 ELSE Held(d, g)
  <2> DEFINE x == NoHost
  <2>1. /\ x # d.assigned[c] /\ x \in Hosts \cup {NoHost}
        /\ e.assigned = [d.assigned EXCEPT ![c] = x]
    BY <1>1 DEF Db
  <2>2. \A g \in Hosts : g # x
    BY DmucsDbAssumption
  <2> HIDE DEF x
  <2>3. \A g : Held(e, g) = IF g = x THEN Held(d, g) + 1
                            ELSE IF g = d.assigned[c] THEN Held(d, g) - 1
                            ELSE Held(d, g)
    BY <1>1, <2>1, HeldChange
  <2> QED BY <2>2, <2>3
<1>4. OnlyAt(d, e, h)
  <2>1. GrantsKnownIn(e)
    BY <1>1 DEF TypeInv, GrantsKnownIn, HaveHost, Db
  <2> QED BY <1>1, <1>3, <2>1 DEF OnlyAt, Same, HaveHost
<1>5. /\ MainFrameInv(e, m2) /\ m.pc \notin Moving \cup {"addHost"}
      /\ m2.pc \notin Moving \cup {"addHost"} /\ (m2.pc # "idle" => m2.host = h)
  BY DEF MainFrameInv, Moving
<1>6. ASSUME IsAvail(d, h), Complete(d, m, h)
      PROVE  Complete(e, m2, h)
  <2>1. m2.pc = "addBack" /\ m2.host = h
    BY <1>6 DEF IsAvail
  <2>2. /\ NextTier(d, m, h) = GetTier(d, h) /\ Pending(m, h) = 0
        /\ NextTier(e, m2, h) = GetTier(d, h) /\ Pending(m2, h) = 1
        /\ e.info[h] = d.info[h] /\ e.cpus[h] = d.cpus[h] /\ Held(e, h) = Held(d, h) - 1
    BY <1>2, <1>3, <2>1 DEF NextTier, Pending, GetTier
  <2>3. GetTier(d, h) \in Tiers /\ d.info[h] \in Specs
    BY <1>1, <1>2, GetTierType
  <2>4. d.cpus[h][GetTier(d, h)] \in Nat /\ Held(d, h) \in Nat
    BY <1>1, <1>2, <2>3, HeldType DEF Db
  <2>5. d.info[h].ncpus \in Nat
    BY <2>3, SpecType
  <2>6. d.cpus[h][GetTier(d, h)] + Held(d, h) + 0 >= d.info[h].ncpus
    BY <1>6, <2>2 DEF Complete
  <2>7. e.cpus[h][GetTier(d, h)] + Held(e, h) + 1 >= d.info[h].ncpus
    BY <2>2, <2>4, <2>5, <2>6
  <2> QED BY <2>2, <2>7 DEF Complete
<1> QED BY <1>1, <1>2, <1>4, <1>5, <1>6, MainHandles

LEMMA AddBackStep ==
    ASSUME NEW d, NEW m, NEW s, FullInv(d, m, s), m.pc = "addBack",
           NEW e, e = AddCpusToTier(d, m.host, GetTier(d, m.host), 1)
    PROVE  FullInv(e, Idle, s) /\ Known(d, e)
<1> DEFINE h == m.host
           u == GetTier(d, h)
<1>1. d \in Db /\ TypeInv(d, m, s) /\ h \in Hosts /\ HaveHost(d, h)
  BY HostOf
<1>2. u \in Tiers /\ d.info[h] \in Specs
  BY <1>1, GetTierType
<1>3. 1 \in Nat /\ m.host = h /\ e = AddCpusToTier(d, h, u, 1)
  OBVIOUS
<1>4. GetTier(d, h) = u
  OBVIOUS
<1> HIDE DEF h, u
<1>5. /\ e \in Db /\ SameHosts(d, e) /\ e.state = d.state
      /\ \A g \in Hosts, t \in Tiers :
           e.cpus[g][t] = IF g = h /\ t = u THEN d.cpus[h][u] + 1 ELSE d.cpus[g][t]
  BY <1>1, <1>2, <1>3, AddCpusEffect
<1>6. OnlyAt(d, e, h) /\ Held(e, h) = Held(d, h)
  BY <1>1, <1>5, OnlyAtHost
<1>7. /\ Idle \in MainFrames /\ Idle.pc = "idle" /\ MainFrameInv(e, Idle)
      /\ m.pc \notin Moving \cup {"addHost"} /\ Idle.pc \notin Moving \cup {"addHost"}
  BY DEF MainFrames, Idle, MainFrameInv, Moving
<1>8. ASSUME Complete(d, m, h)
      PROVE  Complete(e, Idle, h)
  <2>1. /\ NextTier(d, m, h) = u /\ Pending(m, h) = 1
        /\ NextTier(e, Idle, h) = u /\ Pending(Idle, h) = 0 /\ e.info[h] = d.info[h]
    BY <1>3, <1>4, <1>5, <1>7 DEF NextTier, Pending, GetTier, SameHosts
  <2>2. d.cpus[h][u] \in Nat /\ Held(d, h) \in Nat
    BY <1>1, <1>2, HeldType DEF Db
  <2>3. d.info[h].ncpus \in Nat
    BY <1>2, SpecType
  <2>4. d.cpus[h][u] + Held(d, h) + 1 >= d.info[h].ncpus
    BY <1>8, <2>1 DEF Complete
  <2>5. e.cpus[h][u] = d.cpus[h][u] + 1
    BY <1>1, <1>2, <1>5
  <2>6. e.cpus[h][u] + Held(e, h) + 0 >= d.info[h].ncpus
    BY <1>6, <2>2, <2>3, <2>4, <2>5
  <2> QED BY <2>1, <2>6 DEF Complete
<1> QED BY <1>1, <1>3, <1>5, <1>6, <1>7, <1>8, MainHandles

\* createHost: the new host is listed in full.
LEMMA CreateStep ==
    ASSUME NEW d, NEW m, NEW s, FullInv(d, m, s), m.pc = "idle", s.pc = "idle",
           NEW h \in Hosts, ~HaveHost(d, h), NEW spec \in Specs,
           NEW e, e = AddNewHost(d, h, spec)
    PROVE  FullInv(e, m, s) /\ Known(d, e)
<1> DEFINE c == [d EXCEPT !.info[h] = spec]
<1>1. d \in Db /\ TypeInv(d, m, s)
  BY HostOf
<1>2. /\ c \in Db /\ c.state = d.state /\ c.load = d.load /\ c.assigned = d.assigned
      /\ c.cpus = d.cpus /\ c.info[h] = spec /\ HaveHost(c, h)
      /\ \A g \in Hosts \ {h} : c.info[g] = d.info[g]
  BY <1>1, DmucsDbAssumption DEF Db, HaveHost
<1> HIDE DEF c
<1>3. e = AddToAvailDb(c, h)
  BY DEF AddNewHost, c
<1>4. /\ e \in Db /\ SameHosts(c, e) /\ e.state = c.state
      /\ \A g \in Hosts, u \in Tiers :
           e.cpus[g][u] = IF g = h /\ u = GetTier(c, h)
                          THEN c.cpus[g][u] + c.info[h].ncpus ELSE c.cpus[g][u]
  BY <1>2, <1>3, AddToAvailEffect
<1>5. \A g : Held(e, g) = Held(d, g)
  BY <1>2, <1>4 DEF Held, SameHosts
<1>6. OnlyAt(d, e, h)
  <2>1. GrantsKnownIn(e)
    <3>1. e.info = c.info /\ e.assigned = d.assigned
      BY <1>2, <1>4 DEF SameHosts
    <3>2. \A g \in Hosts : HaveHost(d, g) => HaveHost(e, g)
      BY <1>2, <3>1 DEF HaveHost
    <3>3. \A k \in Clients : d.assigned[k] \in Hosts \cup {NoHost}
      BY <1>1 DEF Db
    <3> QED BY <1>1, <3>1, <3>2, <3>3 DEF TypeInv, GrantsKnownIn
  <2> QED BY <1>2, <1>4, <1>5, <2>1 DEF OnlyAt, Same, SameHosts, HaveHost
<1>7. /\ m \in MainFrames /\ KnownFrame(e, m) /\ MainFrameInv(e, m)
      /\ \A g \in Hosts \ {h} : Far(m, g) /\ Far(m, g)
  BY HostOf DEF KnownFrame, MainFrameInv, Moving, Far
<1>8. HostInv(e, m, s, h)
  <2>1. MeetAt(e, m, s, h)
    BY DEF MeetAt, Leaves, Arrives, Moving
  <2>2. Complete(e, m, h)
    <3> DEFINE u == GetTier(c, h)
    <3>1. u \in Tiers
      BY <1>2, GetTierType
    <3>2. spec.ncpus \in Nat /\ c.cpus[h][u] \in Nat /\ Held(e, h) \in Nat
      BY <1>2, <3>1, SpecType, HeldType DEF Db
    <3>3. e.cpus[h][u] = c.cpus[h][u] + spec.ncpus
      BY <1>2, <1>4, <3>1
    <3>4. NextTier(e, m, h) = u /\ Pending(m, h) = 0 /\ e.info[h] = spec
      BY <1>2, <1>4 DEF NextTier, Pending, GetTier, SameHosts
    <3> HIDE DEF u
    <3> QED BY <3>2, <3>3, <3>4 DEF Complete
  <2> QED BY <2>1, <2>2 DEF HostInv
<1> QED BY <1>6, <1>7, <1>8, MainStep

----------------------------------------------------------------------------
(* The search, outside a transition, and the clock.                        *)

\* Frames of the search that say nothing of a host's CPUs.
LEMMA SearchTurns ==
    ASSUME NEW d, NEW m, NEW s, FullInv(d, m, s), s.pc \in {"idle", "visit"},
           NEW s2, \/ s2 = Idle \/ s2 = Visit
                   \/ \E h \in Hosts : HaveHost(d, h) /\ s2 = Call("silent", h, Visit)
    PROVE  FullInv(d, m, s2) /\ s2 \in SilentFrames
<1>1. /\ s2 \in SilentFrames /\ KnownFrame(d, s2)
      /\ s2.pc \in {"idle", "visit", "dispatch"}
  <2>1. CASE s2 = Idle \/ s2 = Visit
    BY <2>1 DEF SilentFrames, Idle, Visit, KnownFrame
  <2>2. CASE \E h \in Hosts : HaveHost(d, h) /\ s2 = Call("silent", h, Visit)
    <3>1. PICK h \in Hosts : HaveHost(d, h) /\ s2 = Call("silent", h, Visit)
      BY <2>2
    <3>2. s2 \in Dispatching({"silent"}, {Visit}) /\ s2.host = h /\ s2.pc = "dispatch"
      BY <3>1 DEF Call, Dispatching
    <3> QED BY <3>1, <3>2 DEF SilentFrames, KnownFrame
  <2> QED BY <2>1, <2>2
<1>2. SilentFrameInv(s2)
  BY <1>1 DEF SilentFrameInv, Moving
<1>3. TypeInv(d, m, s2)
  BY <1>1 DEF FullInv, TypeInv
<1>4. ASSUME NEW g \in Hosts
      PROVE  HostInv(d, m, s2, g)
  <2>1. ~Leaves(s, g) /\ ~Leaves(s2, g) /\ HostInv(d, m, s, g)
    BY <1>1 DEF Leaves, Moving, FullInv
  <2> QED BY <2>1 DEF HostInv, MeetAt, Excused
<1> QED BY <1>1, <1>2, <1>3, <1>4 DEF FullInv

\* The clock changes no field the invariant is about.
LEMMA ExpireKeeps ==
    ASSUME NEW d, NEW m, NEW s, FullInv(d, m, s),
           NEW e \in Db, e.info = d.info, e.load = d.load, e.assigned = d.assigned,
           e.state = d.state, e.cpus = d.cpus
    PROVE  FullInv(e, m, s) /\ Known(d, e)
<1>1. TypeInv(e, m, s)
  BY DEF FullInv, TypeInv, KnownFrame, HaveHost, GrantsKnownIn
<1>2. MainFrameInv(e, m)
  BY DEF FullInv, MainFrameInv
<1>3. ASSUME NEW g \in Hosts
      PROVE  HostInv(e, m, s, g)
  <2>1. HostInv(d, m, s, g) /\ TypeInv(d, m, s)
    BY DEF FullInv
  <2>2. Same(d, e, g) /\ \A t \in Tiers : e.cpus[g][t] = d.cpus[g][t]
    BY DEF Same, Held
  <2> QED BY <2>1, <2>2, HostFar
<1> QED BY <1>1, <1>2, <1>3 DEF FullInv, Known, HaveHost

----------------------------------------------------------------------------
(* The actions.                                                            *)

LEMMA MainGoes ==
    ASSUME ThreadsInv, NEW f, Goto("main", f), UNCHANGED todo,
           FullInv(db', f, thread.silent), Known(db, db')
    PROVE  ThreadsInv'
<1>1. f \in MainFrames
  BY DEF FullInv, TypeInv
<1>2. /\ thread'.main = f /\ thread'.silent = thread.silent
      /\ thread' \in [main : MainFrames, silent : SilentFrames]
  BY <1>1, Gone DEF ThreadsInv, Goto
<1> QED BY <1>2 DEF ThreadsInv, Known

LEMMA SilentGoes ==
    ASSUME ThreadsInv, NEW f, Goto("silent", f),
           todo' \subseteq {h \in Hosts : HaveHost(db, h)},
           FullInv(db', thread.main, f), Known(db, db')
    PROVE  ThreadsInv'
<1>1. f \in SilentFrames
  BY DEF FullInv, TypeInv
<1>2. /\ thread'.silent = f /\ thread'.main = thread.main
      /\ thread' \in [main : MainFrames, silent : SilentFrames]
  BY <1>1, Gone DEF ThreadsInv, Goto
<1> QED BY <1>2 DEF ThreadsInv, Known

LEMMA MainTransition ==
    ASSUME ThreadsInv, Transition("main")
    PROVE  ThreadsInv'
<1> DEFINE m == thread.main
           s == thread.silent
<1>0. FullInv(db, m, s) /\ db \in Db
  BY HostOf DEF ThreadsInv
<1>1. CASE Dispatch("main")
  <2> DEFINE from == db.state[m.host]
             to == Target(from, m.method, GetTier(db, m.host))
             m2 == IF to = from THEN m.then ELSE Started(m, from, to)
  <2>1. m.pc = "dispatch" /\ Goto("main", m2) /\ db' = db /\ UNCHANGED todo
    BY <1>1 DEF Dispatch, At, Started
  <2> HIDE DEF m2, to, from, m, s
  <2>2. FullInv(db, m2, s)
    BY <1>0, <2>1, DispatchMain DEF m2, to, from
  <2> QED BY <2>1, <2>2, MainGoes DEF Known, s
<1>2. CASE DelCpus("main") \/ DelHost("main")
  <2> DEFINE e == db'
  <2>1. PICK p \in {"delHost", "setState"} :
          /\ m.pc \in {"delCpus", "delHost"} /\ Goto("main", [m EXCEPT !.pc = p])
          /\ UNCHANGED todo
          /\ \/ m.pc = "delCpus" /\ e = DelCpusFromTier(db, m.host, GetTier(db, m.host))
             \/ m.pc = "delHost" /\ e = IF m.from = "Avail" THEN DelFromAvailDb(db, m.host)
                                        ELSE DelFromHostSet(db, m.from, m.host)
    BY <1>2 DEF DelCpus, DelHost, At
  <2> DEFINE m2 == [m EXCEPT !.pc = p]
  <2> HIDE DEF e, m, s
  <2>2. /\ m \in Transiting(MainThens) /\ HaveHost(db, m.host)
        /\ m.pc = "delCpus" => m.from = "Avail"
    BY <1>0, <2>1, HostOf, MainFields DEF Moving, FullInv, MainFrameInv
  <2>3. /\ e \in Db /\ SameHosts(db, e) /\ e.state = db.state
        /\ \A g \in Hosts, t \in Tiers :
               (g = m.host /\ m.from = "Avail") \/ e.cpus[g][t] = db.cpus[g][t]
    BY <1>0, <2>1, <2>2, DelEffects
  <2>4. FullInv(e, m2, s) /\ Known(db, e)
    BY <1>0, <2>1, <2>3, MovesOnMain
  <2> QED BY <2>1, <2>4, MainGoes DEF e, s
<1>3. CASE SetState("main")
  <2> DEFINE e == db'
             m2 == [m EXCEPT !.pc = "addHost"]
  <2>1. /\ m.pc = "setState" /\ Goto("main", m2) /\ UNCHANGED todo
        /\ e = [db EXCEPT !.state[m.host] = m.to]
    BY <1>3 DEF SetState, At
  <2> HIDE DEF e, m, s
  <2>2. m.host \in Hosts /\ m.to \in States
    BY <1>0, <2>1, HostOf, MainFields, TransitFields DEF Moving
  <2>3. /\ e \in Db /\ SameHosts(db, e) /\ e.cpus = db.cpus /\ e.state[m.host] = m.to
        /\ \A g \in Hosts \ {m.host} : e.state[g] = db.state[g]
    BY <1>0, <2>1, <2>2, SetStateEffect
  <2>4. FullInv(e, m2, s) /\ Known(db, e)
    BY <1>0, <2>1, <2>3, SetStateMain
  <2> QED BY <2>1, <2>4, MainGoes DEF e, s
<1>4. CASE AddHost("main")
  <2> DEFINE e == db'
  <2>1. /\ m.pc = "addHost" /\ s.pc = "idle" /\ Goto("main", m.then) /\ UNCHANGED todo
        /\ \E r \in {m.to, db.state[m.host]} :
             e = IF r = "Avail" THEN AddToAvailDb(db, m.host) ELSE AddToHostSet(db, r, m.host)
    BY <1>4 DEF AddHost, At, MayLock
  <2> HIDE DEF e, m, s
  <2>2. FullInv(e, m.then, s) /\ Known(db, e)
    BY <1>0, <2>1, AddHostMain
  <2> QED BY <2>1, <2>2, MainGoes DEF e, s
<1> QED BY <1>1, <1>2, <1>3, <1>4 DEF Transition

LEMMA SilentTransition ==
    ASSUME ThreadsInv, Transition("silent")
    PROVE  ThreadsInv'
<1> DEFINE m == thread.main
           s == thread.silent
<1>0. FullInv(db, m, s) /\ db \in Db /\ todo \subseteq {h \in Hosts : HaveHost(db, h)}
  BY HostOf DEF ThreadsInv
<1>1. CASE Dispatch("silent")
  <2> DEFINE from == db.state[s.host]
             to == Target(from, s.method, GetTier(db, s.host))
             s2 == IF to = from THEN s.then ELSE Started(s, from, to)
  <2>1. s.pc = "dispatch" /\ Goto("silent", s2) /\ db' = db /\ UNCHANGED todo
    BY <1>1 DEF Dispatch, At, Started
  <2> HIDE DEF s2, to, from, m, s
  <2>2. FullInv(db, m, s2)
    BY <1>0, <2>1, DispatchSilent DEF s2, to, from
  <2> QED BY <1>0, <2>1, <2>2, SilentGoes DEF Known, m
<1>2. CASE DelCpus("silent") \/ DelHost("silent")
  <2> DEFINE e == db'
  <2>1. PICK p \in {"delHost", "setState"} :
          /\ s.pc \in {"delCpus", "delHost"} /\ Goto("silent", [s EXCEPT !.pc = p])
          /\ UNCHANGED todo
          /\ \/ s.pc = "delCpus" /\ e = DelCpusFromTier(db, s.host, GetTier(db, s.host))
             \/ s.pc = "delHost" /\ e = IF s.from = "Avail" THEN DelFromAvailDb(db, s.host)
                                        ELSE DelFromHostSet(db, s.from, s.host)
    BY <1>2 DEF DelCpus, DelHost, At
  <2> DEFINE s2 == [s EXCEPT !.pc = p]
  <2> HIDE DEF e, m, s
  <2>2. /\ s \in Transiting({Visit}) /\ HaveHost(db, s.host)
        /\ s.pc = "delCpus" => s.from = "Avail"
    BY <1>0, <2>1, HostOf, SilentFields DEF Moving, FullInv, SilentFrameInv
  <2>3. /\ e \in Db /\ SameHosts(db, e) /\ e.state = db.state
        /\ \A g \in Hosts, t \in Tiers :
               (g = s.host /\ s.from = "Avail") \/ e.cpus[g][t] = db.cpus[g][t]
    BY <1>0, <2>1, <2>2, DelEffects
  <2>4. FullInv(e, m, s2) /\ Known(db, e)
    BY <1>0, <2>1, <2>3, MovesOnSilent
  <2> QED BY <1>0, <2>1, <2>4, SilentGoes DEF e, m
<1>3. CASE SetState("silent")
  <2> DEFINE e == db'
             s2 == [s EXCEPT !.pc = "addHost"]
  <2>1. /\ s.pc = "setState" /\ Goto("silent", s2) /\ UNCHANGED todo
        /\ e = [db EXCEPT !.state[s.host] = s.to]
    BY <1>3 DEF SetState, At
  <2> HIDE DEF e, m, s
  <2>2. s.host \in Hosts /\ s.to \in States
    BY <1>0, <2>1, HostOf, SilentFields, TransitFields DEF Moving
  <2>3. /\ e \in Db /\ SameHosts(db, e) /\ e.cpus = db.cpus /\ e.state[s.host] = s.to
        /\ \A g \in Hosts \ {s.host} : e.state[g] = db.state[g]
    BY <1>0, <2>1, <2>2, SetStateEffect
  <2>4. FullInv(e, m, s2) /\ Known(db, e)
    BY <1>0, <2>1, <2>3, SetStateSilent
  <2> QED BY <1>0, <2>1, <2>4, SilentGoes DEF e, m
<1>4. CASE AddHost("silent")
  <2> DEFINE e == db'
  <2>1. /\ s.pc = "addHost" /\ Goto("silent", s.then) /\ UNCHANGED todo
        /\ \E r \in {s.to, db.state[s.host]} :
             e = IF r = "Avail" THEN AddToAvailDb(db, s.host) ELSE AddToHostSet(db, r, s.host)
    BY <1>4 DEF AddHost, At
  <2> HIDE DEF e, m, s
  <2>2. FullInv(e, m, s.then) /\ Known(db, e)
    BY <1>0, <2>1, AddHostSilent
  <2> QED BY <1>0, <2>1, <2>2, SilentGoes DEF e, m
<1> QED BY <1>1, <1>2, <1>3, <1>4 DEF Transition

LEMMA LdAvgKeeps ==
    ASSUME ThreadsInv, NEW h \in Hosts, NEW load \in Loads, LdAvg(h, load)
    PROVE  ThreadsInv'
<1> DEFINE m == thread.main
           s == thread.silent
<1>0. FullInv(db, m, s) /\ m.pc = "idle" /\ s.pc = "idle" /\ UNCHANGED todo
  BY DEF ThreadsInv, LdAvg, At, MayLock
<1>1. CASE HaveHost(db, h)
  <2> DEFINE m2 == [pc |-> "update", host |-> h, load |-> load]
  <2>1. Goto("main", m2) /\ db' = db
    BY <1>1 DEF LdAvg
  <2>2. FullInv(db, m2, s)
    <3> HIDE DEF m, s
    <3> QED BY <1>0, <1>1, ReportStarts
  <2> HIDE DEF m2
  <2> QED BY <1>0, <2>1, <2>2, MainGoes DEF Known
<1>2. CASE ~HaveHost(db, h)
  <2> DEFINE e == db'
  <2>1. UNCHANGED thread /\ e = IF ConfiguredFile[h] = NoSpec THEN db
                                ELSE AddNewHost(db, h, ConfiguredFile[h])
    BY <1>2 DEF LdAvg
  <2>2. ConfiguredFile[h] \in Specs \cup {NoSpec}
    BY ConfiguredFileAssumption
  <2> HIDE DEF m, s, e
  <2>3. FullInv(e, m, s) /\ Known(db, e)
    BY <1>0, <1>2, <2>1, <2>2, CreateStep DEF Known
  <2> QED BY <1>0, <2>1, <2>3 DEF ThreadsInv, Known, e, m, s
<1> QED BY <1>1, <1>2

LEMMA StatusKeeps ==
    ASSUME ThreadsInv, NEW h \in Hosts, NEW method \in {"avail", "unavail"},
           Status(h, method)
    PROVE  ThreadsInv'
<1> DEFINE m == thread.main
           s == thread.silent
           m2 == Call(method, h, Idle)
<1>1. /\ FullInv(db, m, s) /\ m.pc = "idle" /\ HaveHost(db, h)
      /\ Goto("main", m2) /\ db' = db /\ UNCHANGED todo
  BY DEF ThreadsInv, Status, At
<1> HIDE DEF m, s
<1>2. FullInv(db, m2, s)
  BY <1>1, ReportStarts
<1> HIDE DEF m2
<1> QED BY <1>1, <1>2, MainGoes DEF Known, s

LEMMA HostReqKeeps ==
    ASSUME ThreadsInv, NEW c \in Clients, NEW q \in Dprops, HostReq(c, q)
    PROVE  ThreadsInv'
<1> DEFINE m == thread.main
           s == thread.silent
           e == db'
<1>1. PICK h \in Hosts, t \in Tiers :
        /\ db.cpus[h][t] > 0 /\ e = TakeCpu(db, h, t)
        /\ Goto("main", [pc |-> "assign", host |-> h, client |-> c])
  BY DEF HostReq, BestAvailCpus
<1>2. /\ FullInv(db, m, s) /\ m.pc = "idle" /\ db.assigned[c] = NoHost /\ UNCHANGED todo
  BY DEF ThreadsInv, HostReq, At
<1> DEFINE m2 == [pc |-> "assign", host |-> h, client |-> c]
<1>3. /\ m2 \in MainFrames /\ m2.pc = "assign" /\ m2.host = h /\ m2.client = c
      /\ Goto("main", m2)
  BY <1>1 DEF MainFrames
<1> HIDE DEF m, s, e, m2
<1>4. FullInv(e, m2, s) /\ Known(db, e)
  BY <1>1, <1>2, <1>3, PickStep
<1> QED BY <1>1, <1>2, <1>3, <1>4, MainGoes DEF e, s

LEMMA ClientCloseKeeps ==
    ASSUME ThreadsInv, NEW c \in Clients, ClientClose(c)
    PROVE  ThreadsInv'
<1> DEFINE m == thread.main
           s == thread.silent
           e == db'
<1>1. PICK h :
        /\ h = db.assigned[c] /\ h # NoHost /\ e = [db EXCEPT !.assigned[c] = NoHost]
        /\ Goto("main", IF db.state[h] = "Avail" THEN [pc |-> "addBack", host |-> h]
                        ELSE Idle)
  BY DEF ClientClose
<1>2. FullInv(db, m, s) /\ m.pc = "idle" /\ UNCHANGED todo
  BY DEF ThreadsInv, ClientClose, At
<1>3. db \in Db /\ h \in Hosts /\ h = db.assigned[c] /\ h # NoHost
  <2>1. db \in Db
    BY <1>2, HostOf
  <2> QED BY <1>1, <2>1 DEF Db
<1>4. /\ e \in Db /\ e.info = db.info /\ e.state = db.state /\ e.cpus = db.cpus
      /\ e.load = db.load
      /\ \A k \in Clients : e.assigned[k] = IF k = c THEN NoHost ELSE db.assigned[k]
  BY <1>1, <1>3, FreeEffect
<1> DEFINE m2 == IF db.state[h] = "Avail" THEN [pc |-> "addBack", host |-> h] ELSE Idle
<1>5. /\ m2 \in MainFrames /\ Goto("main", m2)
      /\ \/ m2.pc = "addBack" /\ m2.host = h
         \/ m2.pc = "idle" /\ db.state[h] # "Avail"
  BY <1>1, <1>3 DEF MainFrames, Idle
<1> HIDE DEF m, s, e, m2
<1>6. FullInv(e, m2, s) /\ Known(db, e)
  BY <1>2, <1>3, <1>4, <1>5, CloseStep
<1> QED BY <1>2, <1>5, <1>6, MainGoes DEF e, s

LEMMA MainContinuesKeeps ==
    ASSUME ThreadsInv, MainContinues
    PROVE  ThreadsInv'
<1> DEFINE m == thread.main
           s == thread.silent
           h == m.host
           e == db'
<1>0. FullInv(db, m, s) /\ db \in Db
  BY HostOf DEF ThreadsInv
<1>1. CASE UpdateTierStart
  <2> DEFINE new == CalcTier(m.load, db.info[h].pindex)
             old == GetTier(db, h)
             store == [m EXCEPT !.pc = "store"]
  <2>1. PICK m2 :
          /\ m.pc = "update" /\ Goto("main", m2) /\ UNCHANGED todo
          /\ \/ new = old /\ m2 = store /\ e = db
             \/ m2 = Call("overloaded", h, store) /\ e = db
             \/ new # old /\ m2 = store /\ e = MoveCpus(db, h, old, new)
    BY <1>1 DEF UpdateTierStart, At
  <2>2. m \in Loading({"update", "store"})
    BY <1>0, <2>1, HostOf, MainFields
  <2>3. /\ store \in MainThens \cap MainFrames /\ store # Idle /\ store.pc = "store"
        /\ store.host = m.host /\ store.load = m.load
    <3> HIDE DEF m
    <3> QED BY <2>2, StoreFrame
  <2> HIDE DEF store, m, s, e
  <2>4. FullInv(e, m2, s) /\ Known(db, e)
    BY <1>0, <2>1, <2>3, UpdateStart
  <2> QED BY <2>1, <2>4, MainGoes DEF e, s
<1>2. CASE StoreLoad
  <2> DEFINE m2 == [pc |-> "stamp", host |-> h]
  <2>1. /\ m.pc = "store" /\ Goto("main", m2) /\ UNCHANGED todo
        /\ e = [db EXCEPT !.load[h] = m.load]
    BY <1>2 DEF StoreLoad, At
  <2> HIDE DEF m, s, e
  <2>2. FullInv(e, m2, s) /\ Known(db, e)
    BY <1>0, <2>1, StoreStep
  <2> HIDE DEF m2
  <2> QED BY <2>1, <2>2, MainGoes DEF e, s
<1>3. CASE StampUpdate
  <2> DEFINE m2 == [pc |-> "check", host |-> h]
  <2>1. /\ m.pc = "stamp" /\ Goto("main", m2) /\ UNCHANGED todo
        /\ e = [db EXCEPT !.fresh[h] = TRUE]
    BY <1>3 DEF StampUpdate, At
  <2> HIDE DEF m, s, e
  <2>2. h \in Hosts
    BY <1>0, <2>1, HostOf
  <2>3. /\ e \in Db /\ e.info = db.info /\ e.state = db.state /\ e.cpus = db.cpus
        /\ e.assigned = db.assigned /\ e.load = db.load
    BY <1>0, <2>1, <2>2, FreshEffect
  <2>4. FullInv(e, m2, s) /\ Known(db, e)
    BY <1>0, <2>1, <2>3, StampStep
  <2> HIDE DEF m2
  <2> QED BY <2>1, <2>4, MainGoes DEF e, s
<1>4. CASE CheckBack
  <2>1. PICK m2 :
          /\ m.pc = "check" /\ Goto("main", m2) /\ UNCHANGED todo /\ db' = db
          /\ m2 = Call("avail", h, Idle) \/ m2 = Idle
    BY <1>4 DEF CheckBack, At
  <2> HIDE DEF m, s
  <2>2. FullInv(db, m2, s)
    BY <1>0, <2>1, StampStep
  <2> QED BY <2>1, <2>2, MainGoes DEF Known, s
<1>5. CASE Assign
  <2>1. /\ m.pc = "assign" /\ Goto("main", Idle) /\ UNCHANGED todo
        /\ e = AssignCpuToClient(db, m.host, m.client)
    BY <1>5 DEF Assign, At
  <2> HIDE DEF m, s, e
  <2>2. FullInv(e, Idle, s) /\ Known(db, e)
    BY <1>0, <2>1, AssignStep
  <2> QED BY <2>1, <2>2, MainGoes DEF e, s
<1>6. CASE AddBack
  <2>1. /\ m.pc = "addBack" /\ Goto("main", Idle) /\ UNCHANGED todo
        /\ e = AddCpusToTier(db, m.host, GetTier(db, m.host), 1)
    BY <1>6 DEF AddBack, At
  <2> HIDE DEF m, s, e
  <2>2. FullInv(e, Idle, s) /\ Known(db, e)
    BY <1>0, <2>1, AddBackStep
  <2> QED BY <2>1, <2>2, MainGoes DEF e, s
<1>7. CASE Transition("main")
  BY <1>7, MainTransition
<1> QED BY <1>1, <1>2, <1>3, <1>4, <1>5, <1>6, <1>7 DEF MainContinues

LEMMA SearchKeeps ==
    ASSUME ThreadsInv,
           \/ SilentSearch
           \/ EndSearch
           \/ \E h \in Hosts : VisitHost(h)
    PROVE  ThreadsInv'
<1> DEFINE m == thread.main
           s == thread.silent
           all == {h \in Hosts : HaveHost(db, h)}
<1>0. FullInv(db, m, s) /\ todo \subseteq all
  BY DEF ThreadsInv
<1>1. CASE SilentSearch
  <2>1. s.pc = "idle" /\ Goto("silent", Visit) /\ db' = db /\ todo' = all
    BY <1>1 DEF SilentSearch, At, Visit
  <2>2. FullInv(db, m, Visit)
    <3> HIDE DEF m, s
    <3> QED BY <1>0, <2>1, SearchTurns
  <2> QED BY <2>1, <2>2, SilentGoes DEF Known
<1>2. CASE EndSearch
  <2>1. s.pc = "visit" /\ Goto("silent", Idle) /\ db' = db /\ todo' = todo
    BY <1>2 DEF EndSearch, At
  <2>2. FullInv(db, m, Idle)
    <3> HIDE DEF m, s
    <3> QED BY <1>0, <2>1, SearchTurns
  <2> QED BY <1>0, <2>1, <2>2, SilentGoes DEF Known
<1>3. CASE \E h \in Hosts : VisitHost(h)
  <2>1. PICK h \in Hosts : VisitHost(h)
    BY <1>3
  <2>2. s.pc = "visit" /\ HaveHost(db, h) /\ db' = db /\ todo' \subseteq all
    BY <1>0, <2>1 DEF VisitHost, At
  <2>3. CASE SeemsDown(db, h)
    <3> DEFINE s2 == Call("silent", h, Visit)
    <3>1. Goto("silent", s2)
      BY <2>1, <2>3 DEF VisitHost, Visit
    <3>2. FullInv(db, m, s2)
      <4> HIDE DEF m, s
      <4> QED BY <1>0, <2>2, SearchTurns
    <3> HIDE DEF s2
    <3> QED BY <2>2, <3>1, <3>2, SilentGoes DEF Known
  <2>4. CASE ~SeemsDown(db, h)
    BY <1>0, <2>1, <2>2, <2>4 DEF VisitHost, ThreadsInv
  <2> QED BY <2>3, <2>4
<1> QED BY <1>1, <1>2, <1>3

LEMMA ExpireStays ==
    ASSUME ThreadsInv, NEW h \in Hosts, Expire(h)
    PROVE  ThreadsInv'
<1> DEFINE m == thread.main
           s == thread.silent
           e == db'
<1>1. /\ FullInv(db, m, s) /\ UNCHANGED <<thread, todo>>
      /\ e = [db EXCEPT !.fresh[h] = FALSE]
  BY DEF ThreadsInv, Expire
<1>2. db \in Db
  BY <1>1, HostOf
<1>3. /\ e \in Db /\ e.info = db.info /\ e.state = db.state /\ e.cpus = db.cpus
      /\ e.assigned = db.assigned /\ e.load = db.load
  BY <1>1, <1>2, FreshEffect
<1> HIDE DEF m, s, e
<1>4. FullInv(e, m, s) /\ Known(db, e)
  BY <1>1, <1>3, ExpireKeeps
<1> QED BY <1>1, <1>4 DEF ThreadsInv, Known, e, m, s

LEMMA StepThreadsInv ==
    ASSUME ThreadsInv, [Next]_vars
    PROVE  ThreadsInv'
<1>1. CASE \E h \in Hosts, load \in Loads : LdAvg(h, load)
  BY <1>1, LdAvgKeeps
<1>2. CASE \E h \in Hosts, method \in {"avail", "unavail"} : Status(h, method)
  BY <1>2, StatusKeeps
<1>3. CASE \E c \in Clients, d \in Dprops : HostReq(c, d)
  BY <1>3, HostReqKeeps
<1>4. CASE \E c \in Clients : ClientClose(c)
  BY <1>4, ClientCloseKeeps
<1>5. CASE MainContinues
  BY <1>5, MainContinuesKeeps
<1>6. CASE SilentSearch \/ SilentContinues
  BY <1>6, SearchKeeps, SilentTransition DEF SilentContinues
<1>7. CASE \E h \in Hosts : Expire(h)
  BY <1>7, ExpireStays
<1>8. CASE UNCHANGED vars
  BY <1>8 DEF vars, ThreadsInv
<1> QED BY <1>1, <1>2, <1>3, <1>4, <1>5, <1>6, <1>7, <1>8 DEF Next

LEMMA InitThreadsInv == Init => ThreadsInv
<1> SUFFICES ASSUME Init PROVE ThreadsInv
  OBVIOUS
<1>1. /\ thread.main = Idle /\ thread.silent = Idle /\ Idle.pc = "idle" /\ todo = {}
      /\ Idle \in MainFrames /\ Idle \in SilentFrames
      /\ thread \in [main : MainFrames, silent : SilentFrames]
  BY DEF Init, Idle, MainFrames, SilentFrames
<1>2. db = EmptyDb /\ db \in Db /\ GrantsKnownIn(db)
  BY EmptyDbInv DEF Init, DbInv
<1>3. \A h \in Hosts : ~HaveHost(db, h) /\ \A t \in Tiers : db.cpus[h][t] = 0
  BY <1>2 DEF EmptyDb, HaveHost
<1>4. TypeInv(db, Idle, Idle)
  BY <1>1, <1>2, <1>3 DEF TypeInv, KnownFrame
<1>5. MainFrameInv(db, Idle) /\ SilentFrameInv(Idle)
  BY <1>1 DEF MainFrameInv, SilentFrameInv, Moving
<1>6. \A h \in Hosts : HostInv(db, Idle, Idle, h)
  BY <1>1, <1>3 DEF HostInv, MeetAt, Leaves, Arrives, Moving, IsAvail
<1> QED BY <1>1, <1>4, <1>5, <1>6 DEF ThreadsInv, FullInv

\* The invariant above holds in every state the two threads can reach.
THEOREM ThreadsInvariance == Spec => []ThreadsInv
<1>1. Init => ThreadsInv
  BY InitThreadsInv
<1>2. ThreadsInv /\ [Next]_vars => ThreadsInv'
  BY StepThreadsInv
<1> QED BY <1>1, <1>2, PTL DEF Spec

\* Whenever neither thread is in a handler, every available host has all its
\* CPUs listed or held by clients.
THEOREM CpusNeverLostByRaces == Spec => []NoCpuLost
<1>1. ThreadsInv => NoCpuLost
  <2> SUFFICES ASSUME ThreadsInv, AtRest, NEW h \in Hosts, IsAvail(db, h)
               PROVE  Listed(db, h) + Held(db, h) >= db.info[h].ncpus
    BY DEF NoCpuLost
  <2>1. thread.main.pc = "idle" /\ thread.silent.pc = "idle"
    BY DEF AtRest, Idle
  <2>2. FullInv(db, thread.main, thread.silent)
    BY DEF ThreadsInv
  <2>3. Complete(db, thread.main, h)
    BY <2>1, <2>2 DEF FullInv, HostInv, Excused, Leaves, Arrives, Moving
  <2>4. NextTier(db, thread.main, h) = GetTier(db, h) /\ Pending(thread.main, h) = 0
    BY <2>1 DEF NextTier, Pending
  <2>5. TypeInv(db, thread.main, thread.silent) /\ HaveHost(db, h)
    BY <2>2 DEF FullInv, IsAvail
  <2>6. db.cpus[h][GetTier(db, h)] \in Nat /\ Held(db, h) \in Nat
    BY <2>4, <2>5, NextTierType
  <2>7. db.cpus[h][GetTier(db, h)] + Held(db, h) + 0 >= db.info[h].ncpus
    BY <2>3, <2>4 DEF Complete
  <2>8. db.cpus[h][GetTier(db, h)] + Held(db, h) + 0 = db.cpus[h][GetTier(db, h)] + Held(db, h)
    BY <2>6
  <2> QED BY <2>7, <2>8 DEF Listed
<1> QED BY <1>1, ThreadsInvariance, PTL

----------------------------------------------------------------------------
(* The handlers of DmucsServer.  Its database is that of DmucsDb.          *)

LEMMA ServerTiers ==
    ASSUME NEW d, NEW h
    PROVE  /\ Server!EmptyDb = EmptyDb
           /\ Server!HaveHost(d, h) <=> HaveHost(d, h)
           /\ Server!SeemsDown(d, h) <=> SeemsDown(d, h)
           /\ Server!GetTier(d, h) = GetTier(d, h)
           /\ \A load, index : Server!CalcTier(load, index) = CalcTier(load, index)
           /\ \A t, n : Server!AddCpusToTier(d, h, t, n) = AddCpusToTier(d, h, t, n)
           /\ \A t : Server!DelCpusFromTier(d, h, t) = DelCpusFromTier(d, h, t)
           /\ \A t : Server!TakeCpu(d, h, t) = TakeCpu(d, h, t)
           /\ \A s : Server!AddToHostSet(d, s, h) = AddToHostSet(d, s, h)
           /\ \A s : Server!DelFromHostSet(d, s, h) = DelFromHostSet(d, s, h)
           /\ Server!BestAvailCpus(d, h) = BestAvailCpus(d, h)
<1>1. Server!States = States /\ Server!Tiers = Tiers /\ Server!IdleLoad = IdleLoad
  BY DEF Server!States, States, Server!Tiers, Tiers, Server!IdleLoad, IdleLoad
<1>2. Server!EmptyDb = EmptyDb
  BY <1>1 DEF Server!EmptyDb, EmptyDb
<1>3. \A load, index : Server!CalcTier(load, index) = CalcTier(load, index)
  BY DEF Server!CalcTier, CalcTier
<1>4. Server!GetTier(d, h) = GetTier(d, h)
  BY <1>3 DEF Server!GetTier, GetTier
<1>5. Server!BestAvailCpus(d, h) = BestAvailCpus(d, h)
  BY <1>1 DEF Server!BestAvailCpus, BestAvailCpus
<1>6. /\ \A t, n : Server!AddCpusToTier(d, h, t, n) = AddCpusToTier(d, h, t, n)
      /\ \A t : Server!DelCpusFromTier(d, h, t) = DelCpusFromTier(d, h, t)
      /\ \A t : Server!TakeCpu(d, h, t) = TakeCpu(d, h, t)
      /\ \A s : Server!AddToHostSet(d, s, h) = AddToHostSet(d, s, h)
      /\ \A s : Server!DelFromHostSet(d, s, h) = DelFromHostSet(d, s, h)
  BY DEF Server!AddCpusToTier, AddCpusToTier, Server!DelCpusFromTier, DelCpusFromTier,
         Server!TakeCpu, TakeCpu, Server!AddToHostSet, AddToHostSet,
         Server!DelFromHostSet, DelFromHostSet
<1>7. /\ Server!HaveHost(d, h) <=> HaveHost(d, h)
      /\ Server!SeemsDown(d, h) <=> SeemsDown(d, h)
  BY DEF Server!HaveHost, HaveHost, Server!SeemsDown, SeemsDown
<1> QED BY <1>2, <1>3, <1>4, <1>5, <1>6, <1>7

LEMMA ServerMoves ==
    ASSUME NEW d, NEW h
    PROVE  /\ \A old, new : Server!MoveCpus(d, h, old, new) = MoveCpus(d, h, old, new)
           /\ \A spec : Server!AddNewHost(d, h, spec) = AddNewHost(d, h, spec)
           /\ Server!Avail(d, h) = Avail(d, h)
           /\ Server!Unavail(d, h) = Unavail(d, h)
           /\ Server!Silent(d, h) = Silent(d, h)
           /\ Server!Overloaded(d, h) = Overloaded(d, h)
<1>1. \A e : Server!AddToAvailDb(e, h) = AddToAvailDb(e, h)
  BY ServerTiers DEF Server!AddToAvailDb, AddToAvailDb
<1>2. \A e : Server!DelFromAvailDb(e, h) = DelFromAvailDb(e, h)
  BY ServerTiers DEF Server!DelFromAvailDb, DelFromAvailDb
<1>3. \A e : /\ Server!AddToDb(e, h) = AddToDb(e, h)
             /\ Server!RemoveFromDb(e, h) = RemoveFromDb(e, h)
  BY <1>1, <1>2, ServerTiers DEF Server!AddToDb, AddToDb, Server!RemoveFromDb, RemoveFromDb
<1>4. \A e, s : Server!MoveTo(e, h, s) = MoveTo(e, h, s)
  BY <1>3 DEF Server!MoveTo, MoveTo, Server!ChangeState, ChangeState
<1>5. \A old, new : Server!MoveCpus(d, h, old, new) = MoveCpus(d, h, old, new)
  BY ServerTiers DEF Server!MoveCpus, MoveCpus
<1>6. \A spec : Server!AddNewHost(d, h, spec) = AddNewHost(d, h, spec)
  BY <1>1 DEF Server!AddNewHost, AddNewHost
<1>7. Server!Avail(d, h) = Avail(d, h)
  BY <1>4, ServerTiers DEF Server!Avail, Avail
<1>8. /\ Server!Unavail(d, h) = Unavail(d, h)
      /\ Server!Silent(d, h) = Silent(d, h)
      /\ Server!Overloaded(d, h) = Overloaded(d, h)
  BY <1>4 DEF Server!Unavail, Unavail, Server!Silent, Silent, Server!Overloaded, Overloaded
<1> QED BY <1>5, <1>6, <1>7, <1>8

LEMMA ServerGrants ==
    ASSUME NEW d, NEW h, NEW c
    PROVE  /\ Server!AssignCpuToClient(d, h, c) = AssignCpuToClient(d, h, c)
           /\ Server!ReleaseCpu(d, c) = ReleaseCpu(d, c)
           /\ \A load : Server!UpdateTier(d, h, load) = UpdateTier(d, h, load)
<1>1. \A e, p : Server!NumAssigned(e, p) = NumAssigned(e, p)
  <2>1. \A S : Server!Cardinality(S) = Cardinality(S)
    BY DEF Server!Cardinality, Cardinality
  <2> QED BY <2>1 DEF Server!NumAssigned, NumAssigned
<1>2. Server!AssignCpuToClient(d, h, c) = AssignCpuToClient(d, h, c)
  BY <1>1 DEF Server!AssignCpuToClient, AssignCpuToClient
<1>3. Server!ReleaseCpu(d, c) = ReleaseCpu(d, c)
  <2>1. \A e, g : /\ Server!GetTier(e, g) = GetTier(e, g)
                  /\ Server!AddCpusToTier(e, g, GetTier(d, g), 1)
                       = AddCpusToTier(e, g, GetTier(d, g), 1)
    BY ServerTiers
  <2> QED BY <2>1 DEF Server!ReleaseCpu, ReleaseCpu
<1>4. \A load : Server!UpdateTier(d, h, load) = UpdateTier(d, h, load)
  BY ServerTiers, ServerMoves DEF Server!UpdateTier, UpdateTier
<1> QED BY <1>2, <1>3, <1>4

----------------------------------------------------------------------------
(* What becomes of a database d when the thread that is at frame f is left *)
(* to its work until it is idle again, or visits the next host.            *)

Method(d, m, h) ==
    LET to == Target(d.state[h], m, GetTier(d, h))
    IN  IF to = d.state[h] THEN d ELSE MoveTo(d, h, to)

FromCheck(d, h) ==
    IF \/ d.state[h] = "Silent"
       \/ d.state[h] = "Overloaded" /\ GetTier(d, h) # 0
    THEN Method(d, "avail", h) ELSE d

FromStamp(d, h) == FromCheck([d EXCEPT !.fresh[h] = TRUE], h)

FromStore(d, h, load) == FromStamp([d EXCEPT !.load[h] = load], h)

FromUpdate(d, h, load) ==
    LET new == CalcTier(load, d.info[h].pindex)
        old == GetTier(d, h)
    IN  FromStore(IF new = old THEN d
                  ELSE IF new = 0 THEN Method(d, "overloaded", h)
                  ELSE MoveCpus(d, h, old, new), h, load)

\* A transition goes on at f.
Then(d, f) == IF f.pc = "store" THEN FromStore(d, f.host, f.load) ELSE d

FromAdd(d, f) == Then(AddToDb(d, f.host), f.then)

FromSet(d, f) == FromAdd([d EXCEPT !.state[f.host] = f.to], f)

FromDelHost(d, f) ==
    FromSet(IF f.from = "Avail" THEN DelFromAvailDb(d, f.host)
            ELSE DelFromHostSet(d, f.from, f.host), f)

Result(d, f) ==
    CASE f.pc = "dispatch" -> Then(Method(d, f.method, f.host), f.then)
      [] f.pc = "delCpus" -> FromDelHost(DelCpusFromTier(d, f.host, GetTier(d, f.host)), f)
      [] f.pc = "delHost" -> FromDelHost(d, f)
      [] f.pc = "setState" -> FromSet(d, f)
      [] f.pc = "addHost" -> FromAdd(d, f)
      [] f.pc = "update" -> FromUpdate(d, f.host, f.load)
      [] f.pc = "store" -> FromStore(d, f.host, f.load)
      [] f.pc = "stamp" -> FromStamp(d, f.host)
      [] f.pc = "check" -> FromCheck(d, f.host)
      [] f.pc = "assign" -> AssignCpuToClient(d, f.host, f.client)
      [] f.pc = "addBack" -> AddCpusToTier(d, f.host, GetTier(d, f.host), 1)
      [] OTHER -> d

\* The thread is the only one at its host.
StateKnown(d, f) ==
    /\ f.pc \in Moving \ {"setState"} => d.state[f.host] = f.from
    /\ f.pc = "addHost" => d.state[f.host] = f.to

\* Each method of a state object has the effect of DmucsDb's operator.
LEMMA Methods ==
    ASSUME NEW d \in Db, NEW h \in Hosts
    PROVE  /\ Method(d, "avail", h) = Avail(d, h)
           /\ Method(d, "unavail", h) = Unavail(d, h)
           /\ Method(d, "silent", h) = Silent(d, h)
           /\ Method(d, "overloaded", h) = Overloaded(d, h)
<1>1. d.state[h] \in States
  BY DEF Db
<1>2. Method(d, "avail", h) = Avail(d, h)
  BY <1>1 DEF Method, Target, Avail, States
<1>3. Method(d, "unavail", h) = Unavail(d, h)
  BY <1>1 DEF Method, Target, Unavail, States
<1>4. Method(d, "silent", h) = Silent(d, h)
  BY <1>1 DEF Method, Target, Silent, States
<1>5. Method(d, "overloaded", h) = Overloaded(d, h)
  BY <1>1 DEF Method, Target, Overloaded, States
<1> QED BY <1>2, <1>3, <1>4, <1>5

\* A frame a transition returns to.
Returns(f) == f.pc \in {"idle", "visit", "store"}

LEMMA ThenResult ==
    ASSUME NEW d, NEW f, Returns(f)
    PROVE  Result(d, f) = Then(d, f) /\ StateKnown(d, f)
BY DEF Returns, Result, Then, StateKnown, Moving

LEMMA DispatchResult ==
    ASSUME NEW d \in Db, NEW f, f.pc = "dispatch", f.host \in Hosts, Returns(f.then),
           NEW to, to = Target(d.state[f.host], f.method, GetTier(d, f.host)), to \in States,
           NEW f2, f2 = IF to = d.state[f.host] THEN f.then
                        ELSE Started(f, d.state[f.host], to)
    PROVE  Result(d, f2) = Result(d, f) /\ StateKnown(d, f2)
<1>1. Result(d, f) = Then(Method(d, f.method, f.host), f.then)
  BY DEF Result
<1>2. CASE to = d.state[f.host]
  BY <1>1, <1>2, ThenResult DEF Method
<1>3. CASE to # d.state[f.host]
  <2>1. d.state[f.host] \in States
    BY DEF Db
  <2>2. /\ f2.host = f.host /\ f2.from = d.state[f.host] /\ f2.to = to /\ f2.then = f.then
        /\ f2.pc = IF d.state[f.host] = "Avail" THEN "delCpus" ELSE "delHost"
    BY <1>3 DEF Started
  <2>3. Result(d, f) = Then(AddToDb([RemoveFromDb(d, f.host) EXCEPT !.state[f.host] = to],
                                    f.host), f.then)
    BY <1>1, <1>3 DEF Method, MoveTo, ChangeState
  <2>4. StateKnown(d, f2)
    BY <2>2 DEF StateKnown, Moving
  <2>5. CASE d.state[f.host] = "Avail"
    <3>1. Result(d, f2) = FromDelHost(DelCpusFromTier(d, f.host, GetTier(d, f.host)), f2)
      BY <2>2, <2>5 DEF Result
    <3>2. RemoveFromDb(d, f.host)
            = DelFromAvailDb(DelCpusFromTier(d, f.host, GetTier(d, f.host)), f.host)
      BY <2>5 DEF RemoveFromDb
    <3> QED BY <2>2, <2>3, <2>4, <2>5, <3>1, <3>2 DEF FromDelHost, FromSet, FromAdd
  <2>6. CASE d.state[f.host] # "Avail"
    <3>1. Result(d, f2) = FromDelHost(d, f2)
      BY <2>2, <2>6 DEF Result
    <3>2. RemoveFromDb(d, f.host) = DelFromHostSet(d, d.state[f.host], f.host)
      BY <2>6 DEF RemoveFromDb
    <3> QED BY <2>2, <2>3, <2>4, <2>6, <3>1, <3>2 DEF FromDelHost, FromSet, FromAdd
  <2> QED BY <2>5, <2>6
<1> QED BY <1>2, <1>3

LEMMA MovingResult ==
    ASSUME NEW d \in Db, NEW thens, NEW f \in Transiting(thens), f.pc \in Moving,
           HaveHost(d, f.host), f.pc = "delCpus" => f.from = "Avail",
           StateKnown(d, f),
           NEW p, NEW f2, f2 = [f EXCEPT !.pc = p],
           NEW e,
           \/ /\ f.pc = "delCpus" /\ p = "delHost"
              /\ e = DelCpusFromTier(d, f.host, GetTier(d, f.host))
           \/ /\ f.pc = "delHost" /\ p = "setState"
              /\ e = IF f.from = "Avail" THEN DelFromAvailDb(d, f.host)
                     ELSE DelFromHostSet(d, f.from, f.host)
           \/ /\ f.pc = "setState" /\ p = "addHost"
              /\ e = [d EXCEPT !.state[f.host] = f.to]
    PROVE  Result(e, f2) = Result(d, f) /\ StateKnown(e, f2)
<1>1. f.host \in Hosts /\ f.to \in States
  BY TransitFields
<1>2. /\ p \in {"delHost", "setState", "addHost"}
      /\ f2.pc = p /\ f2.host = f.host /\ f2.from = f.from /\ f2.to = f.to /\ f2.then = f.then
  BY NextFrame
<1>3. \A x : /\ FromAdd(x, f2) = FromAdd(x, f) /\ FromSet(x, f2) = FromSet(x, f)
             /\ FromDelHost(x, f2) = FromDelHost(x, f)
  BY <1>2 DEF FromAdd, FromSet, FromDelHost
<1>4. CASE f.pc = "delCpus" /\ p = "delHost" /\ e = DelCpusFromTier(d, f.host, GetTier(d, f.host))
  <2>1. e.state = d.state
    BY <1>4, DelEffects
  <2> QED BY <1>2, <1>3, <1>4, <2>1 DEF Result, StateKnown, Moving
<1>5. CASE /\ f.pc = "delHost" /\ p = "setState"
           /\ e = IF f.from = "Avail" THEN DelFromAvailDb(d, f.host)
                  ELSE DelFromHostSet(d, f.from, f.host)
  BY <1>2, <1>3, <1>5 DEF Result, StateKnown, Moving, FromDelHost
<1>6. CASE f.pc = "setState" /\ p = "addHost" /\ e = [d EXCEPT !.state[f.host] = f.to]
  <2>1. e.state[f.host] = f.to
    BY <1>1, <1>6, SetStateEffect
  <2> QED BY <1>2, <1>3, <1>6, <2>1 DEF Result, StateKnown, Moving, FromSet
<1> QED BY <1>4, <1>5, <1>6

LEMMA AddResult ==
    ASSUME NEW d, NEW f, f.pc = "addHost", StateKnown(d, f), Returns(f.then),
           NEW e, \E r \in {f.to, d.state[f.host]} :
                     e = IF r = "Avail" THEN AddToAvailDb(d, f.host)
                         ELSE AddToHostSet(d, r, f.host)
    PROVE  Result(e, f.then) = Result(d, f) /\ StateKnown(e, f.then)
<1>1. e = AddToDb(d, f.host)
  BY DEF StateKnown, AddToDb
<1>2. Result(d, f) = Then(e, f.then)
  BY <1>1 DEF Result, FromAdd
<1> QED BY <1>2, ThenResult

LEMMA CheckIs ==
    ASSUME NEW d, NEW h
    PROVE  FromCheck(d, h) =
             IF \/ d.state[h] = "Silent"
                \/ d.state[h] = "Overloaded" /\ GetTier(d, h) # 0
             THEN Avail(d, h) ELSE d
BY DEF FromCheck, Method, Target, Avail

LEMMA ReportIs ==
    ASSUME settled \in Db, NEW h \in Hosts, NEW load
    PROVE  Server!ReportLoad(h, load) = FromUpdate(settled, h, load)
<1> DEFINE old == GetTier(settled, h)
           new == CalcTier(load, settled.info[h].pindex)
           moved == IF new = old THEN settled
                    ELSE IF new = 0 THEN Overloaded(settled, h)
                    ELSE MoveCpus(settled, h, old, new)
           u == [moved EXCEPT !.load[h] = load, !.fresh[h] = TRUE]
<1>1. UpdateTier(settled, h, load) = u
  BY DEF UpdateTier
<1>2. FromUpdate(settled, h, load) = FromStore(moved, h, load)
  BY Methods DEF FromUpdate
<1>3. FromStore(moved, h, load) = FromCheck(u, h)
  <2> HIDE DEF moved
  <2>1. u = [[moved EXCEPT !.load[h] = load] EXCEPT !.fresh[h] = TRUE]
    OBVIOUS
  <2> HIDE DEF u
  <2> QED BY <2>1 DEF FromStore, FromStamp
<1>4. Server!UpdateTier(settled, h, load) = u
  BY <1>1, ServerGrants
<1>5. Server!ReportLoad(h, load) = FromCheck(u, h)
  <2> HIDE DEF u
  <2>1. Server!GetTier(u, h) = GetTier(u, h) /\ Server!Avail(u, h) = Avail(u, h)
    BY ServerTiers, ServerMoves
  <2> QED BY <1>4, <2>1, CheckIs DEF Server!ReportLoad
<1> QED BY <1>2, <1>3, <1>5

----------------------------------------------------------------------------
(* The invariant of DmucsThreadsSerial.                                    *)

\* A handler of DmucsServer leads from settled to e.
Handled(e) ==
    \/ /\ todo = {}
       /\ \/ \E c \in Clients, d \in Dprops : \E p \in BestAvailCpus(settled, d) :
                /\ settled.assigned[c] = NoHost
                /\ e = AssignCpuToClient(TakeCpu(settled, p[1], p[2]), p[1], c)
          \/ \E h \in Hosts, load \in Loads :
                HaveHost(settled, h) /\ e = FromUpdate(settled, h, load)
          \/ \E h \in Hosts :
                HaveHost(settled, h) /\ e \in {Avail(settled, h), Unavail(settled, h)}
    \/ \E c \in Clients : settled.assigned[c] # NoHost /\ e = ReleaseCpu(settled, c)

\* What the busy thread is about to leave is what DmucsServer says.
MainOnWay ==
    LET f == thread.main
    IN  StateKnown(db, f) /\ Handled(Result(db, f))

SearchOnWay ==
    LET f == thread.silent
    IN  /\ StateKnown(db, f) /\ f.host \notin todo
        /\ SeemsDown(settled, f.host) /\ Result(db, f) = Silent(settled, f.host)

SerialInv ==
    /\ thread.silent.pc = "idle" => todo = {}
    /\ ~overlapped =>
          /\ settled \in Db
          /\ ~MainBusy \/ ~SearchBusy
          /\ ~MainBusy /\ ~SearchBusy => settled = db
          /\ MainBusy => MainOnWay
          /\ SearchBusy => SearchOnWay

\* A handler that has ended is one action of DmucsServer.
LEMMA HandledIs ==
    ASSUME settled \in Db, Handled(settled'), UNCHANGED ToVisit, todo = {} => ToVisit = {}
    PROVE  Server!Next
<1>1. /\ ConfiguredFile' = ConfiguredFile
      /\ todo = {} => Server!Serving
  BY DEF Server!Serving, Server!MutexFree
<1>2. CASE \E c \in Clients : settled.assigned[c] # NoHost /\ settled' = ReleaseCpu(settled, c)
  <2>1. PICK c \in Clients : settled.assigned[c] # NoHost /\ settled' = ReleaseCpu(settled, c)
    BY <1>2
  <2>2. Server!ReleaseCpu(settled, c) = ReleaseCpu(settled, c)
    BY ServerGrants
  <2>3. Server!ClientClose(c)
    BY <1>1, <2>1, <2>2 DEF Server!ClientClose
  <2> QED BY <2>3 DEF Server!Next
<1>3. CASE todo = {} /\ \E c \in Clients, d \in Dprops : \E p \in BestAvailCpus(settled, d) :
              /\ settled.assigned[c] = NoHost
              /\ settled' = AssignCpuToClient(TakeCpu(settled, p[1], p[2]), p[1], c)
  <2>1. PICK c \in Clients, d \in Dprops : \E p \in BestAvailCpus(settled, d) :
              /\ settled.assigned[c] = NoHost
              /\ settled' = AssignCpuToClient(TakeCpu(settled, p[1], p[2]), p[1], c)
    BY <1>3
  <2>2. PICK p \in BestAvailCpus(settled, d) :
              /\ settled.assigned[c] = NoHost
              /\ settled' = AssignCpuToClient(TakeCpu(settled, p[1], p[2]), p[1], c)
    BY <2>1
  <2>3. /\ Server!BestAvailCpus(settled, d) = BestAvailCpus(settled, d)
        /\ Server!TakeCpu(settled, p[1], p[2]) = TakeCpu(settled, p[1], p[2])
    BY ServerTiers
  <2>4. Server!AssignCpuToClient(TakeCpu(settled, p[1], p[2]), p[1], c)
          = AssignCpuToClient(TakeCpu(settled, p[1], p[2]), p[1], c)
    BY ServerGrants
  <2>5. Server!HostReq(c, d)
    BY <1>1, <1>3, <2>2, <2>3, <2>4 DEF Server!HostReq
  <2> QED BY <2>5 DEF Server!Next
<1>4. CASE todo = {} /\ \E h \in Hosts, load \in Loads :
              HaveHost(settled, h) /\ settled' = FromUpdate(settled, h, load)
  <2>1. PICK h \in Hosts, load \in Loads :
              HaveHost(settled, h) /\ settled' = FromUpdate(settled, h, load)
    BY <1>4
  <2>2. Server!HaveHost(settled, h) /\ settled' = Server!ReportLoad(h, load)
    BY <2>1, ServerTiers, ReportIs
  <2>3. Server!LdAvg(h, load)
    BY <1>1, <1>4, <2>2 DEF Server!LdAvg
  <2> QED BY <2>3 DEF Server!Next
<1>5. CASE todo = {} /\ \E h \in Hosts :
              HaveHost(settled, h) /\ settled' \in {Avail(settled, h), Unavail(settled, h)}
  <2>1. PICK h \in Hosts :
              HaveHost(settled, h) /\ settled' \in {Avail(settled, h), Unavail(settled, h)}
    BY <1>5
  <2>2. /\ Server!HaveHost(settled, h)
        /\ Server!Avail(settled, h) = Avail(settled, h)
        /\ Server!Unavail(settled, h) = Unavail(settled, h)
    BY <2>1, ServerTiers, ServerMoves
  <2>3. Server!StatusUp(h) \/ Server!StatusDown(h)
    BY <1>1, <1>5, <2>1, <2>2 DEF Server!StatusUp, Server!StatusDown
  <2> QED BY <2>3 DEF Server!Next
<1> QED BY <1>2, <1>3, <1>4, <1>5 DEF Handled

----------------------------------------------------------------------------
(* Steps.                                                                  *)

\* The frame of a thread in a transition.
LEMMA FrameOf ==
    ASSUME ThreadsInv, NEW t \in {"main", "silent"}, NEW f, f = thread[t]
    PROVE  /\ db \in Db
           /\ f.pc = "dispatch" =>
                /\ f.host \in Hosts /\ Returns(f.then)
                /\ f.method \in {"avail", "unavail", "overloaded", "silent"}
           /\ f.pc \in Moving \cup {"addHost"} =>
                /\ \E thens : f \in Transiting(thens)
                /\ Returns(f.then) /\ HaveHost(db, f.host)
                /\ f.pc = "delCpus" => f.from = "Avail"
<1>1. /\ db \in Db /\ thread.main \in MainFrames /\ thread.silent \in SilentFrames
      /\ KnownFrame(db, thread.main) /\ KnownFrame(db, thread.silent)
      /\ MainFrameInv(db, thread.main) /\ SilentFrameInv(thread.silent)
  BY DEF ThreadsInv, FullInv, TypeInv
<1>2. \A g \in MainThens \cup {Visit} : Returns(g)
  BY ThenFields DEF Returns, Visit
<1>3. CASE t = "main"
  <2>1. f \in MainFrames /\ KnownFrame(db, f) /\ MainFrameInv(db, f)
    BY <1>1, <1>3
  <2>2. CASE f.pc = "dispatch"
    <3>1. f \in Dispatching({"avail", "unavail", "overloaded"}, MainThens)
      BY <2>1, <2>2, MainFields
    <3>2. /\ f.host \in Hosts /\ f.then \in MainThens
          /\ f.method \in {"avail", "unavail", "overloaded"}
      BY <3>1, DispatchFields
    <3> QED BY <1>1, <1>2, <2>2, <3>2 DEF Moving
  <2>3. CASE f.pc \in Moving \cup {"addHost"}
    <3>1. f \in Transiting(MainThens)
      BY <2>1, <2>3, MainFields
    <3>2. f.then \in MainThens
      BY <3>1, TransitFields
    <3>3. HaveHost(db, f.host) /\ (f.pc = "delCpus" => f.from = "Avail")
      BY <2>1, <2>3 DEF KnownFrame, Moving, MainFrameInv
    <3> QED BY <1>1, <1>2, <2>3, <3>1, <3>2, <3>3 DEF Moving
  <2> QED BY <1>1, <2>2, <2>3
<1>4. CASE t = "silent"
  <2>1. f \in SilentFrames /\ KnownFrame(db, f) /\ SilentFrameInv(f)
    BY <1>1, <1>4
  <2>2. CASE f.pc = "dispatch"
    <3>1. f \in Dispatching({"silent"}, {Visit})
      BY <2>1, <2>2, SilentFields
    <3>2. f.host \in Hosts /\ f.then \in {Visit} /\ f.method \in {"silent"}
      BY <3>1, DispatchFields
    <3> QED BY <1>1, <1>2, <2>2, <3>2 DEF Moving
  <2>3. CASE f.pc \in Moving \cup {"addHost"}
    <3>1. f \in Transiting({Visit})
      BY <2>1, <2>3, SilentFields
    <3>2. f.then \in {Visit}
      BY <3>1, TransitFields
    <3>3. HaveHost(db, f.host) /\ (f.pc = "delCpus" => f.from = "Avail")
      BY <2>1, <2>3 DEF KnownFrame, Moving, SilentFrameInv
    <3> QED BY <1>1, <1>2, <2>3, <3>1, <3>2, <3>3 DEF Moving
  <2> QED BY <1>1, <2>2, <2>3
<1> QED BY <1>3, <1>4

\* A step of a transition does not change what the thread will leave.
LEMMA TransitionResult ==
    ASSUME ThreadsInv, NEW t \in {"main", "silent"}, Transition(t),
           NEW f, f = thread[t], StateKnown(db, f)
    PROVE  \E f2 : /\ Goto(t, f2) /\ UNCHANGED todo
                   /\ Result(db', f2) = Result(db, f) /\ StateKnown(db', f2)
                   /\ f2 = f.then \/ (f2.host = f.host /\ f2.pc \in Moving \cup {"addHost"})
<1>1. CASE Dispatch(t)
  <2> DEFINE to == Target(db.state[f.host], f.method, GetTier(db, f.host))
             f2 == IF to = db.state[f.host] THEN f.then
                   ELSE Started(f, db.state[f.host], to)
  <2>1. f.pc = "dispatch" /\ Goto(t, f2) /\ db' = db /\ UNCHANGED todo
    BY <1>1 DEF Dispatch, At, Started
  <2>2. /\ db \in Db /\ f.host \in Hosts /\ Returns(f.then)
        /\ f.method \in {"avail", "unavail", "overloaded", "silent"}
    BY <2>1, FrameOf
  <2>3. to \in States
    <3>1. db.state[f.host] \in States
      BY <2>2 DEF Db
    <3> QED BY <2>2, <3>1, TargetType
  <2>4. f2 = f.then \/ (f2.host = f.host /\ f2.pc \in Moving)
    BY DEF Started, Moving
  <2> HIDE DEF f2, to
  <2>5. Result(db, f2) = Result(db, f) /\ StateKnown(db, f2)
    BY <2>1, <2>2, <2>3, DispatchResult DEF f2, to
  <2> QED BY <2>1, <2>4, <2>5
<1>2. CASE DelCpus(t) \/ DelHost(t) \/ SetState(t)
  <2>1. PICK p :
          /\ f.pc \in Moving /\ p \in {"delHost", "setState", "addHost"}
          /\ Goto(t, [f EXCEPT !.pc = p]) /\ UNCHANGED todo
          /\ \/ /\ f.pc = "delCpus" /\ p = "delHost"
                /\ db' = DelCpusFromTier(db, f.host, GetTier(db, f.host))
             \/ /\ f.pc = "delHost" /\ p = "setState"
                /\ db' = IF f.from = "Avail" THEN DelFromAvailDb(db, f.host)
                         ELSE DelFromHostSet(db, f.from, f.host)
             \/ /\ f.pc = "setState" /\ p = "addHost"
                /\ db' = [db EXCEPT !.state[f.host] = f.to]
    BY <1>2 DEF DelCpus, DelHost, SetState, At, Moving
  <2> DEFINE f2 == [f EXCEPT !.pc = p]
  <2>2. PICK thens : f \in Transiting(thens)
    BY <2>1, FrameOf
  <2>3. db \in Db /\ HaveHost(db, f.host) /\ (f.pc = "delCpus" => f.from = "Avail")
    BY <2>1, FrameOf
  <2>4. Result(db', f2) = Result(db, f) /\ StateKnown(db', f2)
    BY <2>1, <2>2, <2>3, MovingResult
  <2>5. f2.host = f.host /\ f2.pc \in Moving \cup {"addHost"}
    <3>1. f2.host = f.host /\ f2.pc = p
      BY <2>1, <2>2, NextFrame
    <3> QED BY <2>1, <3>1 DEF Moving
  <2> HIDE DEF f2
  <2> QED BY <2>1, <2>4, <2>5 DEF f2
<1>3. CASE AddHost(t)
  <2>1. /\ f.pc = "addHost" /\ Goto(t, f.then) /\ UNCHANGED todo
        /\ \E r \in {f.to, db.state[f.host]} :
             db' = IF r = "Avail" THEN AddToAvailDb(db, f.host) ELSE AddToHostSet(db, r, f.host)
    BY <1>3 DEF AddHost, At
  <2>2. Returns(f.then)
    BY <2>1, FrameOf
  <2>3. Result(db', f.then) = Result(db, f) /\ StateKnown(db', f.then)
    BY <2>1, <2>2, AddResult
  <2> QED BY <2>1, <2>3
<1> QED BY <1>1, <1>2, <1>3 DEF Transition

\* Nor does any other step of a handler.
LEMMA HandlerResult ==
    ASSUME ThreadsInv, MainContinues, NEW f, f = thread.main, StateKnown(db, f)
    PROVE  \E f2 : /\ Goto("main", f2) /\ UNCHANGED todo
                   /\ Result(db', f2) = Result(db, f) /\ StateKnown(db', f2)
<1>0. f \in MainFrames /\ db \in Db
  BY DEF ThreadsInv, FullInv, TypeInv
<1>1. CASE UpdateTierStart
  <2> DEFINE new == CalcTier(f.load, db.info[f.host].pindex)
             old == GetTier(db, f.host)
             store == [f EXCEPT !.pc = "store"]
             call == Call("overloaded", f.host, store)
  <2>1. PICK f2 :
          /\ f.pc = "update" /\ Goto("main", f2) /\ UNCHANGED todo
          /\ \/ new = old /\ f2 = store /\ db' = db
             \/ new # old /\ new = 0 /\ f2 = call /\ db' = db
             \/ new # old /\ new # 0 /\ f2 = store /\ db' = MoveCpus(db, f.host, old, new)
    BY <1>1 DEF UpdateTierStart, At
  <2>2. f \in Loading({"update", "store"})
    BY <1>0, <2>1, MainFields
  <2>3. store.pc = "store" /\ store.host = f.host /\ store.load = f.load
    BY <2>2 DEF Loading
  <2>4. call.pc = "dispatch" /\ call.method = "overloaded" /\ call.host = f.host /\ call.then = store
    BY DEF Call
  <2> HIDE DEF store, call
  <2>5. \A x : Result(x, store) = FromStore(x, f.host, f.load) /\ StateKnown(x, store)
    BY <2>3 DEF Result, StateKnown, Moving
  <2>6. /\ Result(db, call) = FromStore(Method(db, "overloaded", f.host), f.host, f.load)
        /\ StateKnown(db, call)
    BY <2>3, <2>4 DEF Result, StateKnown, Moving, Then
  <2>7. Result(db, f) = FromUpdate(db, f.host, f.load)
    BY <2>1 DEF Result
  <2>8. Result(db', f2) = Result(db, f) /\ StateKnown(db', f2)
    BY <2>1, <2>5, <2>6, <2>7 DEF FromUpdate
  <2> QED BY <2>1, <2>8
<1>2. CASE StoreLoad
  <2> DEFINE f2 == [pc |-> "stamp", host |-> f.host]
  <2>1. /\ f.pc = "store" /\ Goto("main", f2) /\ UNCHANGED todo
        /\ db' = [db EXCEPT !.load[f.host] = f.load]
    BY <1>2 DEF StoreLoad, At
  <2>2. Result(db', f2) = Result(db, f) /\ StateKnown(db', f2)
    BY <2>1 DEF Result, StateKnown, Moving, FromStore
  <2> QED BY <2>1, <2>2
<1>3. CASE StampUpdate
  <2> DEFINE f2 == [pc |-> "check", host |-> f.host]
  <2>1. /\ f.pc = "stamp" /\ Goto("main", f2) /\ UNCHANGED todo
        /\ db' = [db EXCEPT !.fresh[f.host] = TRUE]
    BY <1>3 DEF StampUpdate, At
  <2>2. Result(db', f2) = Result(db, f) /\ StateKnown(db', f2)
    BY <2>1 DEF Result, StateKnown, Moving, FromStamp
  <2> QED BY <2>1, <2>2
<1>4. CASE CheckBack
  <2> DEFINE call == Call("avail", f.host, Idle)
             f2 == IF \/ db.state[f.host] = "Silent"
                      \/ db.state[f.host] = "Overloaded" /\ GetTier(db, f.host) # 0
                   THEN call ELSE Idle
  <2>1. f.pc = "check" /\ Goto("main", f2) /\ UNCHANGED todo /\ db' = db
    BY <1>4 DEF CheckBack, At
  <2>2. /\ Result(db, call) = Method(db, "avail", f.host) /\ StateKnown(db, call)
        /\ Result(db, Idle) = db /\ StateKnown(db, Idle)
    BY DEF Call, Result, StateKnown, Moving, Then, Idle
  <2> HIDE DEF call
  <2>3. Result(db, f2) = Result(db, f) /\ StateKnown(db, f2)
    BY <2>1, <2>2 DEF Result, FromCheck
  <2> QED BY <2>1, <2>3
<1>5. CASE Assign
  <2>1. /\ f.pc = "assign" /\ Goto("main", Idle) /\ UNCHANGED todo
        /\ db' = AssignCpuToClient(db, f.host, f.client)
    BY <1>5 DEF Assign, At
  <2> QED BY <2>1 DEF Result, StateKnown, Moving, Idle
<1>6. CASE AddBack
  <2>1. /\ f.pc = "addBack" /\ Goto("main", Idle) /\ UNCHANGED todo
        /\ db' = AddCpusToTier(db, f.host, GetTier(db, f.host), 1)
    BY <1>6 DEF AddBack, At
  <2> QED BY <2>1 DEF Result, StateKnown, Moving, Idle
<1>7. CASE Transition("main")
  BY <1>7, TransitionResult
<1> QED BY <1>1, <1>2, <1>3, <1>4, <1>5, <1>6, <1>7 DEF MainContinues

LEMMA Busy ==
    ASSUME ThreadsInv
    PROVE  /\ MainBusy <=> thread.main.pc # "idle"
           /\ Idle.pc = "idle" /\ Visit.pc = "visit"
           /\ \A f : Goto("main", f) => thread'.main = f /\ thread'.silent = thread.silent
           /\ \A f : Goto("silent", f) => thread'.silent = f /\ thread'.main = thread.main
           /\ db \in Db /\ todo \subseteq Hosts
           /\ SearchBusy => thread.silent.host \in Hosts
<1>1. thread.main \in MainFrames /\ thread.silent \in SilentFrames /\ db \in Db
  BY DEF ThreadsInv, FullInv, TypeInv
<1>2. \A f : /\ Goto("main", f) => thread'.main = f /\ thread'.silent = thread.silent
             /\ Goto("silent", f) => thread'.silent = f /\ thread'.main = thread.main
  BY Gone DEF ThreadsInv, Goto
<1>3. MainBusy <=> thread.main.pc # "idle"
  BY <1>1, MainFields DEF MainBusy, Idle
<1>4. SearchBusy => thread.silent.host \in Hosts
  BY <1>1, SilentFields DEF SearchBusy
<1> QED BY <1>1, <1>2, <1>3, <1>4 DEF ThreadsInv, Idle, Visit

\* A transition of the search ends in the search.
LEMMA SilentStays ==
    ASSUME ThreadsInv, Transition("silent")
    PROVE  /\ UNCHANGED todo /\ thread'.main = thread.main /\ SearchBusy
           /\ thread'.silent = thread.silent.then => thread'.silent = Visit
           /\ thread'.silent.pc # "idle"
<1> DEFINE f == thread.silent
<1>1. f \in SilentFrames /\ f.pc \in {"dispatch", "addHost"} \cup Moving
  BY DEF ThreadsInv, FullInv, TypeInv, Transition, Dispatch, DelCpus, DelHost, SetState, AddHost,
         At, Moving
<1>2. f.then = Visit
  BY <1>1, SilentFields, DispatchFields, TransitFields
<1>3. UNCHANGED todo
  BY DEF Transition, Dispatch, DelCpus, DelHost, SetState, AddHost
<1>4. PICK f2 : Goto("silent", f2) /\ (f2 = f.then \/ f2.pc \in Moving \cup {"addHost"})
  <2>1. CASE Dispatch("silent")
    BY <2>1 DEF Dispatch, Moving
  <2>2. CASE AddHost("silent")
    BY <2>2 DEF AddHost
  <2>3. CASE DelCpus("silent") \/ DelHost("silent") \/ SetState("silent")
    <3>1. PICK p : p \in Moving \cup {"addHost"} /\ Goto("silent", [f EXCEPT !.pc = p])
                   /\ f.pc \in Moving
      BY <2>3 DEF DelCpus, DelHost, SetState, Moving, At
    <3>2. f \in Transiting({Visit})
      BY <1>1, <3>1, SilentFields
    <3>3. [f EXCEPT !.pc = p].pc = p
      BY <3>1, <3>2, TransitFields
    <3> QED BY <3>1, <3>3
  <2> QED BY <2>1, <2>2, <2>3 DEF Transition
<1>5. thread'.silent = f2 /\ thread'.main = thread.main /\ Visit.pc = "visit"
  BY <1>4, Busy
<1>6. SearchBusy
  BY <1>1 DEF SearchBusy, Moving
<1> QED BY <1>2, <1>3, <1>4, <1>5, <1>6 DEF Moving

\* No search, nothing left to visit.
LEMMA TodoStays ==
    ASSUME ThreadsInv, thread.silent.pc = "idle" => todo = {}, Next
    PROVE  thread'.silent.pc = "idle" => todo' = {}
<1>1. CASE \/ \E h \in Hosts, load \in Loads : LdAvg(h, load)
           \/ \E h \in Hosts, method \in {"avail", "unavail"} : Status(h, method)
           \/ \E c \in Clients, d \in Dprops : HostReq(c, d)
           \/ \E c \in Clients : ClientClose(c)
           \/ MainContinues
  <2>1. todo' = todo /\ (thread' = thread \/ \E f : Goto("main", f))
    BY <1>1 DEF LdAvg, Status, HostReq, ClientClose, MainContinues, UpdateTierStart, StoreLoad,
                StampUpdate, CheckBack, Assign, AddBack, Transition, Dispatch, DelCpus, DelHost,
                SetState, AddHost
  <2> QED BY <2>1, Busy
<1>2. CASE SilentSearch
  <2>1. Goto("silent", [pc |-> "visit"])
    BY <1>2 DEF SilentSearch
  <2> QED BY <2>1, Busy
<1>3. CASE \E h \in Hosts : VisitHost(h)
  <2>1. PICK h \in Hosts : VisitHost(h)
    BY <1>3
  <2>2. \/ Goto("silent", Call("silent", h, [pc |-> "visit"]))
        \/ thread' = thread /\ thread.silent.pc = "visit"
    BY <2>1 DEF VisitHost, At
  <2> QED BY <2>2, Busy DEF Call
<1>4. CASE EndSearch
  BY <1>4 DEF EndSearch
<1>5. CASE Transition("silent")
  BY <1>5, SilentStays
<1>6. CASE \E h \in Hosts : Expire(h)
  BY <1>6 DEF Expire
<1> QED BY <1>1, <1>2, <1>3, <1>4, <1>5, <1>6 DEF Next, SilentContinues

Simulated == overlapped' \/ Server!Next \/ UNCHANGED <<settled, ToVisit>>

LEMMA HandlerSerial ==
    ASSUME ThreadsInv, ThreadsInv', SerialInv, SerialNext, ~overlapped', MainBusy
    PROVE  SerialInv' /\ Simulated
<1> DEFINE f == thread.main
<1>1. /\ ~overlapped /\ MainContinues /\ ~SearchBusy /\ MainOnWay /\ settled \in Db
      /\ thread.silent.pc = "idle" => todo = {}
      /\ settled' = IF MainBusy' \/ SearchBusy' THEN settled ELSE db'
  BY DEF SerialNext, Apart, SerialInv
<1>2. PICK f2 : /\ Goto("main", f2) /\ UNCHANGED todo
                /\ Result(db', f2) = Result(db, f) /\ StateKnown(db', f2)
  BY <1>1, HandlerResult DEF MainOnWay
<1>3. thread'.main = f2 /\ thread'.silent = thread.silent /\ db' \in Db
  BY <1>2, Busy DEF ThreadsInv, FullInv, TypeInv
<1>4. ~SearchBusy' /\ ToVisit' = ToVisit /\ (todo = {} => ToVisit = {})
  BY <1>1, <1>2, <1>3 DEF SearchBusy, ToVisit
<1>5. MainBusy' <=> f2 # Idle
  BY <1>3 DEF MainBusy
<1>6. thread'.silent.pc = "idle" => todo' = {}
  BY <1>1, <1>2, <1>3
<1>7. Handled(Result(db', f2))
  BY <1>1, <1>2 DEF MainOnWay
<1>8. CASE f2 = Idle
  <2>1. Result(db', f2) = db' /\ settled' = db'
    BY <1>1, <1>4, <1>5, <1>8 DEF Result, Idle
  <2>2. Server!Next
    BY <1>1, <1>4, <1>7, <2>1, HandledIs
  <2> QED BY <1>3, <1>4, <1>5, <1>6, <1>8, <2>1, <2>2 DEF SerialInv, Simulated
<1>9. CASE f2 # Idle
  <2>1. settled' = settled
    BY <1>1, <1>5, <1>9
  <2>2. MainOnWay'
    BY <1>2, <1>3, <1>7, <2>1 DEF MainOnWay, Handled
  <2> QED BY <1>1, <1>4, <1>5, <1>6, <1>9, <2>1, <2>2 DEF SerialInv, Simulated
<1> QED BY <1>8, <1>9

LEMMA SearchSerial ==
    ASSUME ThreadsInv, ThreadsInv', SerialInv, SerialNext, ~overlapped', SearchBusy
    PROVE  SerialInv' /\ Simulated
<1> DEFINE f == thread.silent
<1>1. /\ ~overlapped /\ Transition("silent") /\ ~MainBusy /\ SearchOnWay /\ settled \in Db
      /\ settled' = IF MainBusy' \/ SearchBusy' THEN settled ELSE db'
  BY DEF SerialNext, Apart, SerialInv
<1>2. PICK f2 : /\ Goto("silent", f2) /\ UNCHANGED todo
                /\ Result(db', f2) = Result(db, f) /\ StateKnown(db', f2)
                /\ f2 = f.then \/ (f2.host = f.host /\ f2.pc \in Moving \cup {"addHost"})
  BY <1>1, TransitionResult DEF SearchOnWay
<1>3. /\ thread'.silent = f2 /\ thread'.main = thread.main /\ db' \in Db /\ f.host \in Hosts
      /\ f2 = f.then => f2 = Visit
      /\ f2.pc # "idle"
  BY <1>1, <1>2, Busy, SilentStays DEF ThreadsInv, FullInv, TypeInv
<1>4. ~MainBusy'
  BY <1>1, <1>3 DEF MainBusy
<1>5. ToVisit = todo \cup {f.host}
  BY DEF ToVisit
<1>6. CASE f2 = Visit
  <2>1. ~SearchBusy' /\ ToVisit' = todo
    BY <1>2, <1>3, <1>6 DEF SearchBusy, Visit, ToVisit
  <2>2. settled' = db' /\ Result(db', f2) = db'
    BY <1>1, <1>4, <1>6, <2>1 DEF Result, Visit
  <2>3. /\ settled' = Silent(settled, f.host) /\ SeemsDown(settled, f.host)
        /\ f.host \in ToVisit /\ ToVisit' = ToVisit \ {f.host}
    BY <1>1, <1>2, <1>5, <2>1, <2>2 DEF SearchOnWay
  <2>4. Server!VisitHost(f.host)
    <3>1. /\ Server!SeemsDown(settled, f.host)
          /\ Server!Silent(settled, f.host) = Silent(settled, f.host)
      BY <2>3, ServerTiers, ServerMoves
    <3>2. ConfiguredFile' = ConfiguredFile
      OBVIOUS
    <3> QED BY <2>3, <3>1, <3>2 DEF Server!VisitHost
  <2>5. Server!Next
    BY <1>3, <2>4 DEF Server!Next
  <2> QED BY <1>3, <1>4, <2>1, <2>2, <2>5 DEF SerialInv, Simulated
<1>7. CASE f2.host = f.host /\ f2.pc \in Moving \cup {"addHost"}
  <2>1. SearchBusy' /\ settled' = settled /\ ToVisit' = ToVisit
    BY <1>1, <1>2, <1>3, <1>5, <1>7 DEF SearchBusy, Moving, ToVisit
  <2>2. SearchOnWay'
    BY <1>1, <1>2, <1>3, <1>7, <2>1 DEF SearchOnWay
  <2> QED BY <1>1, <1>3, <1>4, <2>1, <2>2 DEF SerialInv, Simulated
<1> QED BY <1>2, <1>3, <1>6, <1>7

\* A handler begins: what it will leave is what DmucsServer says.
LEMMA BeginSerial ==
    ASSUME ThreadsInv, ThreadsInv', SerialInv, SerialNext, ~overlapped',
           ~MainBusy, ~SearchBusy,
           NEW f2, Goto("main", f2), UNCHANGED todo,
           settled = db => Handled(Result(db', f2)) /\ StateKnown(db', f2)
    PROVE  SerialInv' /\ Simulated
<1>1. /\ ~overlapped /\ settled = db /\ settled \in Db
      /\ thread.silent.pc = "idle" => todo = {}
      /\ settled' = IF MainBusy' \/ SearchBusy' THEN settled ELSE db'
  BY DEF SerialNext, Apart, SerialInv
<1>2. thread'.main = f2 /\ thread'.silent = thread.silent /\ db' \in Db
  BY Busy DEF ThreadsInv, FullInv, TypeInv
<1>3. ~SearchBusy' /\ ToVisit' = ToVisit /\ (todo = {} => ToVisit = {})
  BY <1>2 DEF SearchBusy, ToVisit
<1>4. thread'.silent.pc = "idle" => todo' = {}
  BY <1>1, <1>2
<1>5. CASE f2 = Idle
  <2>1. ~MainBusy'
    BY <1>2, <1>5 DEF MainBusy
  <2>2. settled' = db' /\ Result(db', f2) = db'
    BY <1>1, <1>3, <1>5, <2>1 DEF Result, Idle
  <2>3. Server!Next
    BY <1>1, <1>3, <2>2, HandledIs
  <2> QED BY <1>2, <1>3, <1>4, <2>1, <2>2, <2>3 DEF SerialInv, Simulated
<1>6. CASE f2 # Idle
  <2>1. MainBusy'
    BY <1>2, <1>6 DEF MainBusy
  <2>2. settled' = settled
    BY <1>1, <2>1
  <2>3. MainOnWay'
    BY <1>1, <1>2, <2>2 DEF MainOnWay, Handled
  <2> QED BY <1>1, <1>3, <1>4, <2>1, <2>2, <2>3 DEF SerialInv, Simulated
<1> QED BY <1>5, <1>6

\* A step that leaves the main thread idle and the search between two hosts.
LEMMA QuietSerial ==
    ASSUME ThreadsInv, ThreadsInv', SerialInv, SerialNext, ~overlapped', ~MainBusy, ~SearchBusy,
           UNCHANGED thread, settled' = db' /\ settled = db => Server!Next
    PROVE  SerialInv' /\ Simulated
<1>1. /\ ~overlapped /\ settled = db /\ (thread.silent.pc = "idle" => todo = {})
      /\ settled' = IF MainBusy' \/ SearchBusy' THEN settled ELSE db'
      /\ Next
  BY DEF SerialNext, Apart, SerialInv
<1>2. ~MainBusy' /\ ~SearchBusy'
  BY DEF MainBusy, SearchBusy
<1>3. settled' = db' /\ db' \in Db
  BY <1>1, <1>2 DEF ThreadsInv, FullInv, TypeInv
<1>4. thread'.silent.pc = "idle" => todo' = {}
  BY <1>1, TodoStays
<1> QED BY <1>1, <1>2, <1>3, <1>4 DEF SerialInv, Simulated

LEMMA IdleSerial ==
    ASSUME ThreadsInv, ThreadsInv', SerialInv, SerialNext, ~overlapped', ~MainBusy, ~SearchBusy
    PROVE  SerialInv' /\ Simulated
<1>0. /\ thread.main.pc = "idle" /\ thread.silent.pc \in {"idle", "visit"}
      /\ thread.silent.pc = "idle" => todo = {} /\ ToVisit = {}
      /\ ToVisit = todo /\ db \in Db /\ Next /\ ~overlapped /\ settled = db
      /\ settled' = IF MainBusy' \/ SearchBusy' THEN settled ELSE db'
      /\ todo \subseteq Hosts
  BY Busy DEF SearchBusy, SerialInv, ToVisit, SerialNext
<1>1. ASSUME NEW h \in Hosts, NEW load \in Loads, LdAvg(h, load)
      PROVE  SerialInv' /\ Simulated
  <2>1. UNCHANGED todo /\ todo = {}
    BY <1>0, <1>1 DEF LdAvg, MayLock
  <2>2. CASE HaveHost(db, h)
    <3> DEFINE f2 == [pc |-> "update", host |-> h, load |-> load]
    <3>1. Goto("main", f2) /\ db' = db
      BY <1>1, <2>2 DEF LdAvg
    <3>2. Result(db, f2) = FromUpdate(db, h, load) /\ StateKnown(db, f2)
      BY DEF Result, StateKnown, Moving
    <3>3. settled = db => Handled(Result(db', f2))
      BY <2>1, <2>2, <3>1, <3>2 DEF Handled
    <3> HIDE DEF f2
    <3> QED BY <2>1, <3>1, <3>2, <3>3, BeginSerial
  <2>3. CASE ~HaveHost(db, h)
    <3>1. UNCHANGED thread
      BY <1>1, <2>3 DEF LdAvg
    <3>2. UNCHANGED ToVisit
      BY <2>1, <3>1 DEF ToVisit, SearchBusy
    <3>3. ASSUME settled' = db', settled = db
          PROVE  Server!Next
      <4>1. db' = IF ConfiguredFile[h] = NoSpec THEN db ELSE AddNewHost(db, h, ConfiguredFile[h])
        BY <1>1, <2>3 DEF LdAvg
      <4>2. settled' = Server!CreateHost(h) /\ ~Server!HaveHost(settled, h)
        BY <2>3, <3>3, <4>1, ServerTiers, ServerMoves DEF Server!CreateHost
      <4>3. Server!Serving
        BY <1>0, <1>1 DEF LdAvg, MayLock, Server!Serving, Server!MutexFree
      <4>4. Server!LdAvg(h, load)
        BY <3>2, <4>2, <4>3 DEF Server!LdAvg
      <4> QED BY <4>4 DEF Server!Next
    <3> QED BY <3>1, <3>3, QuietSerial
  <2> QED BY <2>2, <2>3
<1>2. ASSUME NEW h \in Hosts, NEW method \in {"avail", "unavail"}, Status(h, method)
      PROVE  SerialInv' /\ Simulated
  <2> DEFINE f2 == Call(method, h, Idle)
  <2>1. UNCHANGED <<db, todo>> /\ todo = {} /\ HaveHost(db, h) /\ Goto("main", f2)
    BY <1>0, <1>2 DEF Status, MayLock
  <2>2. Result(db, f2) = Method(db, method, h) /\ StateKnown(db, f2)
    BY DEF Result, StateKnown, Moving, Call, Then, Idle
  <2>3. Result(db, f2) \in {Avail(db, h), Unavail(db, h)}
    BY <1>0, <2>2, Methods
  <2>4. settled = db => Handled(Result(db, f2))
    BY <2>1, <2>3 DEF Handled
  <2> HIDE DEF f2
  <2> QED BY <2>1, <2>2, <2>4, BeginSerial
<1>3. ASSUME NEW c \in Clients, NEW d \in Dprops, HostReq(c, d)
      PROVE  SerialInv' /\ Simulated
  <2>1. PICK p \in BestAvailCpus(db, d) :
          /\ db' = TakeCpu(db, p[1], p[2])
          /\ Goto("main", [pc |-> "assign", host |-> p[1], client |-> c])
    BY <1>3 DEF HostReq
  <2> DEFINE f2 == [pc |-> "assign", host |-> p[1], client |-> c]
  <2>2. UNCHANGED todo /\ todo = {} /\ db.assigned[c] = NoHost
    BY <1>0, <1>3 DEF HostReq, MayLock
  <2>3. Result(db', f2) = AssignCpuToClient(TakeCpu(db, p[1], p[2]), p[1], c) /\ StateKnown(db', f2)
    BY <2>1 DEF Result, StateKnown, Moving
  <2>4. settled = db => Handled(Result(db', f2))
    BY <2>1, <2>2, <2>3 DEF Handled
  <2>5. Goto("main", f2)
    BY <2>1
  <2> HIDE DEF f2
  <2> QED BY <2>2, <2>3, <2>4, <2>5, BeginSerial
<1>4. ASSUME NEW c \in Clients, ClientClose(c)
      PROVE  SerialInv' /\ Simulated
  <2> DEFINE h == db.assigned[c]
             freed == [db EXCEPT !.assigned[c] = NoHost]
             f2 == IF db.state[h] = "Avail" THEN [pc |-> "addBack", host |-> h] ELSE Idle
  <2>1. UNCHANGED todo /\ h # NoHost /\ db' = freed /\ Goto("main", f2)
    BY <1>4 DEF ClientClose
  <2>2. GetTier(freed, h) = GetTier(db, h)
    BY <1>0 DEF GetTier, Db
  <2>3. Result(db', f2) = ReleaseCpu(db, c) /\ StateKnown(db', f2)
    <3>1. CASE db.state[h] = "Avail"
      <4>1. f2.pc = "addBack" /\ f2.host = h
        BY <3>1
      <4> QED BY <2>1, <2>2, <3>1, <4>1 DEF Result, StateKnown, Moving, ReleaseCpu
    <3>2. CASE db.state[h] # "Avail"
      <4>1. f2.pc = "idle"
        BY <3>2 DEF Idle
      <4> QED BY <2>1, <3>2, <4>1 DEF Result, StateKnown, Moving, ReleaseCpu
    <3> QED BY <3>1, <3>2
  <2>4. settled = db => Handled(Result(db', f2))
    BY <2>1, <2>3 DEF Handled
  <2> HIDE DEF f2, h, freed
  <2> QED BY <2>1, <2>3, <2>4, BeginSerial
<1>5. CASE MainContinues
  BY <1>0, <1>5 DEF MainContinues, UpdateTierStart, StoreLoad, StampUpdate, CheckBack, Assign, AddBack,
                    Transition, Dispatch, DelCpus, DelHost, SetState, AddHost, At
<1>6. CASE SilentSearch
  <2>1. /\ thread.silent.pc = "idle" /\ Goto("silent", Visit) /\ db' = db
        /\ todo' = {h \in Hosts : HaveHost(db, h)}
    BY <1>6 DEF SilentSearch, At, Visit
  <2>2. thread'.silent = Visit /\ thread'.main = thread.main /\ Visit.pc = "visit"
    BY <2>1, Busy
  <2>3. ~MainBusy' /\ ~SearchBusy' /\ ToVisit' = todo'
    BY <2>2 DEF MainBusy, SearchBusy, ToVisit
  <2>4. settled' = settled
    BY <1>0, <2>1, <2>3
  <2>5. Server!SilentSearch
    <3>1. ToVisit' = {h \in Hosts : Server!HaveHost(settled, h)}
      BY <1>0, <2>1, <2>3, ServerTiers
    <3> QED BY <1>0, <2>1, <2>4, <3>1 DEF Server!SilentSearch, Server!Serving, Server!MutexFree
  <2> QED BY <1>0, <2>1, <2>2, <2>3, <2>4, <2>5 DEF SerialInv, Simulated, Server!Next
<1>7. ASSUME NEW h \in Hosts, VisitHost(h)
      PROVE  SerialInv' /\ Simulated
  <2>1. h \in todo /\ todo' = todo \ {h} /\ db' = db /\ thread.silent.pc = "visit"
    BY <1>7 DEF VisitHost, At
  <2>2. CASE SeemsDown(db, h)
    <3> DEFINE f2 == Call("silent", h, Visit)
    <3>1. Goto("silent", f2)
      BY <1>7, <2>2 DEF VisitHost, Visit
    <3>2. f2.pc = "dispatch" /\ f2.host = h /\ f2.method = "silent" /\ f2.then = Visit
      BY DEF Call
    <3> HIDE DEF f2
    <3>3. thread'.silent = f2 /\ thread'.main = thread.main
      BY <3>1, Busy
    <3>4. ~MainBusy' /\ SearchBusy' /\ ToVisit' = ToVisit /\ settled' = settled
      BY <1>0, <2>1, <3>2, <3>3 DEF MainBusy, SearchBusy, ToVisit
    <3>5. Result(db, f2) = Silent(db, h) /\ StateKnown(db, f2)
      BY <1>0, <3>2, Methods DEF Result, StateKnown, Moving, Then, Visit
    <3>6. SearchOnWay'
      BY <1>0, <2>1, <2>2, <3>2, <3>3, <3>4, <3>5 DEF SearchOnWay
    <3> QED BY <1>0, <3>2, <3>3, <3>4, <3>6 DEF SerialInv, Simulated
  <2>3. CASE ~SeemsDown(db, h)
    <3>1. UNCHANGED thread
      BY <1>7, <2>3 DEF VisitHost
    <3>2. ToVisit' = ToVisit \ {h} /\ h \in ToVisit
      BY <1>0, <2>1, <3>1 DEF ToVisit, SearchBusy
    <3>3. ASSUME settled' = db', settled = db
          PROVE  Server!Next
      <4>1. ~Server!SeemsDown(settled, h)
        BY <2>3, <3>3, ServerTiers
      <4>2. Server!VisitHost(h)
        BY <2>1, <3>2, <3>3, <4>1 DEF Server!VisitHost
      <4> QED BY <4>2 DEF Server!Next
    <3> QED BY <3>1, <3>3, QuietSerial
  <2> QED BY <2>2, <2>3
<1>8. CASE EndSearch
  <2>1. Goto("silent", Idle) /\ db' = db /\ todo' = todo /\ todo = {}
    BY <1>8 DEF EndSearch
  <2>2. thread'.silent = Idle /\ thread'.main = thread.main /\ Idle.pc = "idle"
    BY <2>1, Busy
  <2>3. ~MainBusy' /\ ~SearchBusy' /\ ToVisit' = ToVisit
    BY <1>0, <2>1, <2>2 DEF MainBusy, SearchBusy, ToVisit
  <2> QED BY <1>0, <2>1, <2>2, <2>3 DEF SerialInv, Simulated
<1>9. CASE Transition("silent")
  BY <1>0, <1>9, SilentStays
<1>10. ASSUME NEW h \in Hosts, Expire(h)
       PROVE  SerialInv' /\ Simulated
  <2>1. db.fresh[h] /\ db' = [db EXCEPT !.fresh[h] = FALSE] /\ UNCHANGED <<thread, todo>>
    BY <1>10 DEF Expire
  <2>2. UNCHANGED ToVisit
    BY <2>1 DEF ToVisit, SearchBusy
  <2>3. settled' = db' /\ settled = db => Server!Expire(h)
    BY <2>1, <2>2 DEF Server!Expire
  <2> QED BY <2>1, <2>3, QuietSerial DEF Server!Next
<1> QED BY <1>0, <1>1, <1>2, <1>3, <1>4, <1>5, <1>6, <1>7, <1>8, <1>9, <1>10 DEF Next, SilentContinues

LEMMA StepSerial ==
    ASSUME ThreadsInv, SerialInv, [SerialNext]_<<vars, settled, overlapped>>
    PROVE  ThreadsInv' /\ SerialInv' /\ Simulated
<1>1. ThreadsInv'
  BY StepThreadsInv DEF SerialNext, vars
<1>2. CASE SerialNext /\ overlapped'
  <2>1. thread'.silent.pc = "idle" => todo' = {}
    BY <1>2, TodoStays DEF SerialNext, SerialInv
  <2> QED BY <1>1, <1>2, <2>1 DEF SerialInv, Simulated
<1>3. CASE SerialNext /\ ~overlapped'
  BY <1>1, <1>3, HandlerSerial, SearchSerial, IdleSerial
<1>4. CASE UNCHANGED <<vars, settled, overlapped>>
  <2>1. UNCHANGED <<db, thread, todo, settled, overlapped>>
    BY <1>4 DEF vars
  <2>2. UNCHANGED ToVisit
    BY <2>1 DEF ToVisit, SearchBusy
  <2>3. SerialInv'
    BY <2>1 DEF SerialInv, MainBusy, SearchBusy, MainOnWay, SearchOnWay, Handled
  <2> QED BY <1>1, <2>1, <2>2, <2>3 DEF Simulated
<1> QED BY <1>2, <1>3, <1>4

\* Until a search and a handler overlap, the two threads, call by call, implement
\* the handlers that DmucsServer takes as one action each.
THEOREM HandlersAreAtomic == SerialSpec => ImplementsServer
<1>1. SerialInit => ThreadsInv /\ SerialInv /\ Server!Init
  <2> SUFFICES ASSUME SerialInit
               PROVE  ThreadsInv /\ SerialInv /\ Server!Init
    OBVIOUS
  <2>1. ThreadsInv
    BY InitThreadsInv DEF SerialInit
  <2>2. thread.main = Idle /\ thread.silent = Idle /\ Idle.pc = "idle" /\ todo = {}
        /\ settled = EmptyDb /\ db = EmptyDb
    BY DEF SerialInit, Init, Idle
  <2>3. ~MainBusy /\ ~SearchBusy /\ ToVisit = {}
    BY <2>2 DEF MainBusy, SearchBusy, ToVisit
  <2>4. Server!Init
    BY <2>2, <2>3, ServerTiers DEF Server!Init
  <2>5. settled \in Db
    BY <2>1, <2>2, Busy
  <2> QED BY <2>1, <2>2, <2>3, <2>4, <2>5 DEF SerialInv
<1>2. ThreadsInv /\ SerialInv /\ [SerialNext]_<<vars, settled, overlapped>>
        => (ThreadsInv /\ SerialInv)' /\ [overlapped' \/ Server!Next]_<<settled, ToVisit>>
  BY StepSerial DEF Simulated
<1> QED BY <1>1, <1>2, PTL DEF SerialSpec, ImplementsServer
=============================================================================
