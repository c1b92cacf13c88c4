-------------------------- MODULE DiscoveryProofs --------------------------
(***************************************************************************)
(* Proofs about how a client finds servers.  ZeroconfReg and Zeroconf, for *)
(* any number of servers, interfaces, clients and troubles: what a server  *)
(* announces is up to date, and one daemon at a time follows the network.  *)
(* Lsdistcc, for any number of hosts, descriptors and tries: who is listed *)
(* has answered, and the search never waits for nothing.                   *)
(***************************************************************************)
EXTENDS Zeroconf, Lsdistcc, FiniteSetTheorems, WellFoundedInduction, TLAPS

----------------------------------------------------------------------------
(* Registration.                                                           *)

Contexts ==
    [polls : BOOLEAN, client : {"connecting", "running", "registering"},
     group : {"none", "empty", "committed"}, name : Nat]

\* A group that holds the service announces it under the present name, and a
\* client gets to run by way of a group that does.
GroupKnown(s) ==
    /\ reg[s].group = "committed" => published[s] = reg[s].name
    /\ reg[s].client = "running" => reg[s].group = "committed"

RegInv ==
    /\ reg \in [Servers -> Contexts]
    /\ published \in [Servers -> Nat]
    /\ \A s \in Servers : GroupKnown(s)

LEMMA ContextFields ==
    ASSUME NEW r \in Contexts
    PROVE  /\ [r EXCEPT !.client = "running"] \in Contexts
           /\ [r EXCEPT !.client = "running"].group = r.group
           /\ [r EXCEPT !.client = "running"].name = r.name
           /\ [r EXCEPT !.group = "committed"] \in Contexts
           /\ [r EXCEPT !.group = "committed"].group = "committed"
           /\ [r EXCEPT !.group = "committed"].name = r.name
           /\ r.name \in Nat
BY DEF Contexts

\* Whatever a server has been told, it ends up with a group that announces it.
LEMMA StuffRegistered ==
    ASSUME RegInv, NEW s \in Servers, NEW r \in Contexts,
           r.group = "committed" => published[s] = r.name,
           RegisterStuff(s, r)
    PROVE  RegInv'
<1>1. \A t \in Servers \ {s} : reg'[t] = reg[t] /\ published'[t] = published[t]
  BY DEF RegisterStuff, RegInv
<1>2. /\ reg' \in [Servers -> Contexts] /\ published' \in [Servers -> Nat]
      /\ reg'[s].group = "committed" /\ published'[s] = reg'[s].name
  <2>1. CASE r.group = "committed"
    BY <2>1 DEF RegisterStuff, RegInv
  <2>2. CASE r.group # "committed"
    <3> DEFINE q == [r EXCEPT !.group = "committed"]
    <3>1. q \in Contexts /\ q.group = "committed" /\ q.name = r.name /\ r.name \in Nat
      BY ContextFields
    <3>2. reg' = [reg EXCEPT ![s] = q] /\ published' = [published EXCEPT ![s] = r.name]
      BY <2>2 DEF RegisterStuff
    <3> HIDE DEF q
    <3> QED BY <3>1, <3>2 DEF RegInv
  <2> QED BY <2>1, <2>2
<1> QED BY <1>1, <1>2 DEF RegInv, GroupKnown

LEMMA RegStep ==
    ASSUME RegInv, RegNext
    PROVE  RegInv'
<1>1. PICK s \in Servers :
        Running(s) \/ HostNameChanges(s) \/ Disconnected(s) \/ GivesUp(s) \/ NameCollides(s)
  BY DEF RegNext
<1>2. reg[s] \in Contexts /\ GroupKnown(s)
  BY DEF RegInv
<1>3. CASE Running(s)
  <2> DEFINE r == [reg[s] EXCEPT !.client = "running"]
  <2>1. r \in Contexts /\ r.group = reg[s].group /\ r.name = reg[s].name
    BY <1>2, ContextFields
  <2>2. RegisterStuff(s, r)
    BY <1>3 DEF Running
  <2> HIDE DEF r
  <2> QED BY <1>2, <2>1, <2>2, StuffRegistered DEF GroupKnown
<1>4. CASE NameCollides(s)
  <2> DEFINE r == [reg[s] EXCEPT !.group = "empty", !.name = @ + 1]
  <2>1. r \in Contexts /\ r.group = "empty"
    <3>1. r = [[reg[s] EXCEPT !.group = "empty"] EXCEPT !.name = reg[s].name + 1]
      OBVIOUS
    <3>2. reg[s].polls \in BOOLEAN /\ reg[s].name + 1 \in Nat
          /\ reg[s].client \in {"connecting", "running", "registering"}
      BY <1>2 DEF Contexts
    <3>3. [reg[s] EXCEPT !.group = "empty"] \in Contexts
      BY <1>2 DEF Contexts
    <3> QED BY <3>1, <3>2, <3>3 DEF Contexts
  <2>2. RegisterStuff(s, r)
    BY <1>4 DEF NameCollides
  <2> HIDE DEF r
  <2> QED BY <2>1, <2>2, StuffRegistered
<1>5. ASSUME HostNameChanges(s) \/ Disconnected(s)
      PROVE  RegInv'
  <2>1. \A t \in Servers \ {s} : reg'[t] = reg[t] /\ published'[t] = published[t]
    BY <1>5 DEF HostNameChanges, Disconnected, RegInv
  <2>2. published' \in [Servers -> Nat]
    BY <1>5 DEF HostNameChanges, Disconnected, RegInv, Nothing
  <2>3. /\ reg' \in [Servers -> Contexts]
        /\ reg'[s].group # "committed" /\ reg'[s].client # "running"
    BY <1>2, <1>5 DEF HostNameChanges, Disconnected, RegInv, Contexts
  <2> QED BY <2>1, <2>2, <2>3 DEF RegInv, GroupKnown
<1>6. CASE GivesUp(s)
  BY <1>2, <1>6 DEF GivesUp, RegInv, GroupKnown, Contexts
<1> QED BY <1>1, <1>3, <1>4, <1>5, <1>6

----------------------------------------------------------------------------
(* Discovery.                                                              *)

\* One at a time gets past the lock: every holder is known by what it does.
LockInv ==
    /\ build \in [Clients -> {"probe", "fork", "read", "done"}]
    /\ child \in [Clients -> {"none", "lock", "gone"} \cup Serving]
    /\ OneDaemon
    /\ \A c \in Clients : build[c] = "fork" => locker = Held("client", c)

LEMMA Holders ==
    ASSUME NEW c, NEW d
    PROVE  /\ Held("daemon", c) # Held("client", d)
           /\ Held("daemon", c) = Held("daemon", d) => c = d
           /\ Held("client", c) = Held("client", d) => c = d
           /\ Free # Held("daemon", d) /\ Free # Held("client", d)
BY DEF Held, Free

\* A daemon that ends has held the lock, and is the one that was writing.
LEMMA EndsKept ==
    ASSUME LockInv, NEW c \in Clients, child[c] \in Serving, Ends(c)
    PROVE  LockInv'
<1>1. locker = Held("daemon", c)
  BY DEF LockInv, OneDaemon
<1>2. \A d \in Clients : d # c => child[d] \notin Serving /\ writer # d /\ build[d] # "fork"
  BY <1>1, Holders DEF LockInv, OneDaemon, Serving
<1>3. build[c] # "fork"
  BY <1>1, Holders DEF LockInv
<1>4. /\ child'[c] = "gone" /\ writer' # c /\ build' = build
      /\ \A d \in Clients : d # c => child'[d] = child[d] /\ (writer' = d => writer = d)
      /\ child' \in [Clients -> {"none", "lock", "gone"} \cup Serving]
  BY ZeroconfAssumption DEF LockInv, Ends, clientVars
<1>5. OneDaemon'
  BY <1>2, <1>4 DEF LockInv, OneDaemon, Serving
<1> QED BY <1>2, <1>3, <1>4, <1>5 DEF LockInv, Serving

LEMMA LockStep ==
    ASSUME LockInv, NEW c \in Clients,
           ClientStep(c) \/ DaemonStep(c) \/ BrowserStep(c) \/ Idle(c) \/ Dies(c)
    PROVE  LockInv'
<1>1. CASE Probe(c)
  <2>1. UNCHANGED <<child, writer>>
    BY <1>1 DEF Probe, daemonVars
  <2>2. CASE locker = Free
    <3>1. locker' = Held("client", c) /\ build' = [build EXCEPT ![c] = "fork"]
      BY <1>1, <2>2 DEF Probe, Goes
    <3>2. \A d \in Clients : child[d] \notin Serving /\ build[d] # "fork"
      BY <2>2, Holders DEF LockInv, OneDaemon
    <3>3. OneDaemon'
      BY <2>1, <3>2 DEF LockInv, OneDaemon
    <3>4. \A d \in Clients : build'[d] = "fork" => locker' = Held("client", d)
      BY <3>1, <3>2 DEF LockInv
    <3>5. build' \in [Clients -> {"probe", "fork", "read", "done"}]
      BY <3>1 DEF LockInv
    <3> QED BY <2>1, <3>3, <3>4, <3>5 DEF LockInv, Serving
  <2>3. CASE locker # Free
    <3>1. locker' = locker /\ build' = [build EXCEPT ![c] = "read"]
      BY <1>1, <2>3 DEF Probe, Goes
    <3> QED BY <2>1, <3>1 DEF LockInv, OneDaemon
  <2> QED BY <2>2, <2>3
<1>2. CASE Fork(c)
  <2>1. locker = Held("client", c) /\ build[c] = "fork" /\ locker' = Free
    BY <1>2 DEF Fork, Goes, LockInv
  <2>2. \A d \in Clients : child[d] \notin Serving /\ writer # d
    BY <2>1, Holders DEF LockInv, OneDaemon, Serving
  <2>3. \A d \in Clients : d # c => build[d] # "fork"
    BY <2>1, Holders DEF LockInv
  <2> QED BY <1>2, <2>1, <2>2, <2>3 DEF Fork, Goes, LockInv, OneDaemon, Serving
<1>3. CASE Read(c)
  BY <1>3 DEF Read, Goes, LockInv, OneDaemon, daemonVars
<1>4. CASE DaemonLocks(c)
  <2>1. child[c] = "lock"
    BY <1>4 DEF DaemonLocks
  <2>2. CASE locker = Free
    <3>1. \A d \in Clients : child[d] \notin Serving /\ writer # d /\ build[d] # "fork"
      BY <2>2, Holders DEF LockInv, OneDaemon, Serving
    <3> QED BY <1>4, <2>1, <2>2, <3>1, Holders
            DEF DaemonLocks, LockInv, OneDaemon, Serving, clientVars
  <2>3. CASE locker # Free
    BY <1>4, <2>1, <2>3 DEF DaemonLocks, LockInv, OneDaemon, Serving, clientVars
  <2> QED BY <2>2, <2>3
<1>5. CASE Truncate(c)
  <2>1. child[c] = "change" /\ locker = Held("daemon", c)
    BY <1>5 DEF Truncate, LockInv, OneDaemon, Serving
  <2>2. \A d \in Clients : d # c => child[d] \notin Serving /\ writer # d
    BY <2>1, Holders DEF LockInv, OneDaemon, Serving
  <2> QED BY <1>5, <2>1, <2>2 DEF Truncate, LockInv, OneDaemon, Serving, clientVars
<1>6. CASE Write(c)
  <2>1. child[c] = "writing" /\ locker = Held("daemon", c)
    BY <1>6 DEF Write, LockInv, OneDaemon, Serving
  <2>2. \A d \in Clients : d # c => child[d] \notin Serving /\ writer # d
    BY <2>1, Holders DEF LockInv, OneDaemon, Serving
  <2>3. NoOne \notin Clients
    BY ZeroconfAssumption
  <2> QED BY <1>6, <2>1, <2>2, <2>3 DEF Write, LockInv, OneDaemon, Serving, clientVars
<1>7. CASE BrowserStep(c)
  <2>1. child[c] = "loop" /\ (child' = child \/ child' = [child EXCEPT ![c] = "change"])
        /\ UNCHANGED <<build, locker, writer>>
    BY <1>7 DEF BrowserStep, BrowserNew, BrowserRemove, Found, clientVars
  <2> QED BY <2>1 DEF LockInv, OneDaemon, Serving
<1>8. CASE Idle(c)
  BY <1>8, EndsKept DEF Idle, Serving
<1>9. CASE Dies(c)
  BY <1>9, EndsKept DEF Dies
<1> QED BY <1>1, <1>2, <1>3, <1>4, <1>5, <1>6, <1>7, <1>8, <1>9 DEF ClientStep, DaemonStep

----------------------------------------------------------------------------
(* The theorems.                                                           *)

ZeroconfInv == RegInv /\ LockInv

LEMMA InvInit == Init => ZeroconfInv
<1> SUFFICES ASSUME Init PROVE ZeroconfInv
  OBVIOUS
<1>1. RegInv
  BY DEF Init, RegInit, RegInv, GroupKnown, Contexts, Nothing
<1>2. LockInv
  BY ZeroconfAssumption DEF Init, LockInv, OneDaemon, Serving
<1> QED BY <1>1, <1>2 DEF ZeroconfInv

LEMMA InvStep == ZeroconfInv /\ [Next]_vars => ZeroconfInv'
<1> SUFFICES ASSUME ZeroconfInv, [Next]_vars PROVE ZeroconfInv'
  OBVIOUS
<1> USE DEF ZeroconfInv
<1>1. CASE RegNext /\ UNCHANGED restVars
  <2>1. UNCHANGED <<build, child, locker, writer>>
    BY <1>1 DEF restVars, clientVars, daemonVars
  <2> QED BY <1>1, <2>1, RegStep DEF LockInv, OneDaemon
<1>2. ASSUME UNCHANGED regVars PROVE RegInv'
  BY <1>2 DEF regVars, RegInv, GroupKnown
<1>3. ASSUME NEW s \in Servers, NEW i \in Interfaces, LinkChanges(s, i)
      PROVE  ZeroconfInv'
  BY <1>2, <1>3 DEF LinkChanges, LockInv, OneDaemon, clientVars, daemonVars
<1>4. ASSUME NEW c \in Clients,
             ClientStep(c) \/ DaemonStep(c) \/ BrowserStep(c) \/ Idle(c) \/ Dies(c)
      PROVE  ZeroconfInv'
  <2>1. UNCHANGED regVars
    BY <1>4 DEF ClientStep, Probe, Fork, Read, DaemonStep, DaemonLocks, Truncate, Write,
                BrowserStep, BrowserNew, BrowserRemove, Found, Idle, Dies, Ends
  <2> QED BY <1>2, <1>4, <2>1, LockStep
<1>5. ASSUME NEW c \in Clients, NEW k \in DOMAIN hosts, Failed(c, k)
      PROVE  ZeroconfInv'
  BY <1>2, <1>5 DEF Failed, LockInv, OneDaemon, clientVars
<1>6. CASE UNCHANGED vars
  <2>1. UNCHANGED regVars /\ UNCHANGED <<build, child, locker, writer>>
    BY <1>6 DEF vars, restVars, clientVars, daemonVars
  <2> QED BY <1>2, <2>1 DEF LockInv, OneDaemon
<1> QED BY <1>1, <1>3, <1>4, <1>5, <1>6 DEF Next

LEMMA InvAlways == Spec => []ZeroconfInv
BY InvInit, InvStep, PTL DEF Spec

\* A server whose Avahi daemon runs is announced under its present name,
\* whatever that daemon, the host's name and the service's name go through.
THEOREM AlwaysRegistered == Spec => []Registered
<1>1. ZeroconfInv => Registered
  BY DEF ZeroconfInv, RegInv, GroupKnown, Registered
<1> QED BY <1>1, InvAlways, PTL

\* However many clients find no daemon and fork one, and whenever daemons are
\* killed, one at most is past its lock, and no one else writes the host file.
THEOREM OneDaemonAlways == Spec => []OneDaemon
<1>1. ZeroconfInv => OneDaemon
  BY DEF ZeroconfInv, LockInv
<1> QED BY <1>1, InvAlways, PTL

----------------------------------------------------------------------------
(* The search of lsdistcc.                                                 *)

\* The assumptions of Lsdistcc on its constants.
Options ==
    /\ N \in Nat \ {0} /\ GroupSize \in Nat \ {0} /\ MaxTries \in Nat \ {0}
    /\ Overlap \in Nat /\ DnsGap \in Nat
    /\ Compile \in BOOLEAN

\* Every set of natural numbers has a least element: the finite sets are well
\* founded, and a number is as good as the set of those below it.
LEMMA LeastNat ==
    ASSUME NEW S \in SUBSET Nat, S # {}
    PROVE  \E m \in S : \A k \in S : m <= k
<1> DEFINE R == StrictSubsetOrdering(Nat)
           F == FiniteSubsetsOf(Nat)
           U == {0..(n - 1) : n \in S}
<1>1. IsWellFoundedOn(R, F)
  BY FS_StrictSubsetOrderingWellFounded
<1>2. U \subseteq F /\ U # {}
  <2>1. ASSUME NEW n \in S PROVE 0..(n - 1) \in F
    <3>1. IsFiniteSet(0..(n - 1))
      BY FS_Interval
    <3>2. 0..(n - 1) \in SUBSET Nat
      OBVIOUS
    <3> QED BY <3>1, <3>2 DEF FiniteSubsetsOf
  <2>2. U # {}
    OBVIOUS
  <2> HIDE DEF F
  <2> QED BY <2>1, <2>2
<1>3. PICK x \in U : \A y \in U : <<y, x>> \notin R
  <2> HIDE DEF R, F, U
  <2> QED BY <1>1, <1>2, WFMin
<1>4. PICK m \in S : x = 0..(m - 1)
  BY <1>3
<1>5. ASSUME NEW k \in S, k < m PROVE FALSE
  <2>1. 0..(k - 1) \in U
    BY <1>5
  <2>2. 0..(k - 1) \subseteq 0..(m - 1) /\ 0..(k - 1) # 0..(m - 1)
    BY <1>5
  <2>3. 0..(k - 1) \in SUBSET Nat /\ 0..(m - 1) \in SUBSET Nat
    OBVIOUS
  <2> QED BY <1>3, <1>4, <2>1, <2>2, <2>3 DEF StrictSubsetOrdering
<1> QED BY <1>5

LEMMA MinIn ==
    ASSUME NEW S \in SUBSET Nat, S # {}
    PROVE  Min(S) \in S /\ \A k \in S : Min(S) <= k
<1>1. \E m \in S : \A k \in S : m <= k
  BY LeastNat
<1> QED BY <1>1 DEF Min

LEMMA MaxIn ==
    ASSUME NEW n \in Nat, NEW S \in SUBSET (1..n), S # {}
    PROVE  Max(S) \in S /\ \A k \in S : k <= Max(S)
<1> DEFINE T == {n - k : k \in S}
<1>0. \A k \in S : k \in Nat /\ n - k \in Nat
  OBVIOUS
<1>1. T \in SUBSET Nat /\ T # {}
  BY <1>0
<1>2. PICK m \in T : \A k \in T : m <= k
  <2> HIDE DEF T
  <2> QED BY <1>1, LeastNat
<1>3. PICK x \in S : m = n - x
  BY <1>2
<1>4. ASSUME NEW k \in S PROVE k <= x
  <2>1. n - k \in T
    OBVIOUS
  <2>2. n - x <= n - k
    BY <1>2, <1>3, <2>1
  <2> QED BY <1>0, <2>2
<1>5. \E y \in S : \A k \in S : y >= k
  BY <1>4
<1> QED BY <1>5 DEF Max

LEMMA Counting ==
    ASSUME Options
    PROVE  /\ \A A \in SUBSET Hosts :
                /\ IsFiniteSet(A) /\ Cardinality(A) \in Nat
                /\ Cardinality(A) = 0 <=> A = {}
                /\ \A B \in SUBSET A : /\ Cardinality(B) <= Cardinality(A)
                                       /\ Cardinality(B) = Cardinality(A) => B = A
           /\ \A n \in 0..N : Cardinality(1..n) = n
           /\ \A A, B \in SUBSET Hosts :
                A \cap B = {} => Cardinality(A \cup B) = Cardinality(A) + Cardinality(B)
           /\ \A A \in SUBSET Hosts, h \in Hosts :
                /\ h \notin A => Cardinality(A \cup {h}) = Cardinality(A) + 1
                /\ h \in A => Cardinality(A \ {h}) = Cardinality(A) - 1
<1>1. IsFiniteSet(Hosts)
  BY FS_Interval DEF Hosts, Options
<1>2. \A A \in SUBSET Hosts :
        /\ IsFiniteSet(A) /\ Cardinality(A) \in Nat
        /\ Cardinality(A) = 0 <=> A = {}
  BY <1>1, FS_Subset, FS_CardinalityType, FS_EmptySet
<1>3. \A A \in SUBSET Hosts : \A B \in SUBSET A :
        Cardinality(B) <= Cardinality(A) /\ (Cardinality(B) = Cardinality(A) => B = A)
  BY <1>2, FS_Subset
<1>4. \A n \in 0..N : Cardinality(1..n) = n
  <2> TAKE n \in 0..N
  <2>1. n \in Nat
    BY DEF Options
  <2>2. Cardinality(1..n) = IF 1 <= n THEN n - 1 + 1 ELSE 0
    BY <2>1, FS_Interval
  <2> QED BY <2>1, <2>2
<1>5. \A A, B \in SUBSET Hosts :
        A \cap B = {} => Cardinality(A \cup B) = Cardinality(A) + Cardinality(B)
  <2> TAKE A, B \in SUBSET Hosts
  <2> HAVE A \cap B = {}
  <2>1. Cardinality(A \cup B) = Cardinality(A) + Cardinality(B) - Cardinality(A \cap B)
    BY <1>2, FS_Union
  <2>2. Cardinality(A \cap B) = 0
    BY FS_EmptySet
  <2> QED BY <1>2, <2>1, <2>2
<1>6. \A A \in SUBSET Hosts, h \in Hosts :
        /\ h \notin A => Cardinality(A \cup {h}) = Cardinality(A) + 1
        /\ h \in A => Cardinality(A \ {h}) = Cardinality(A) - 1
  BY <1>2, FS_AddElement, FS_RemoveElement
<1> QED BY <1>2, <1>3, <1>4, <1>5, <1>6

Statuses == {"lookup", "connecting", "donepkt", "statpkt", "rest", "done"}
HostStates == [status : Statuses, ntries : 0..MaxTries, fd : 0..N, got : 0..2, up : BOOLEAN]
Peers == [conn : {"none", "syn", "accepted", "refused", "nosocket", "asked"},
          sent : 0..3, bad : BOOLEAN]

LsTypes ==
    /\ states \in [Hosts -> HostStates]
    /\ server \in [Hosts -> Peers]
    /\ nwithtries \in [0..MaxTries -> Nat]
    /\ ngotaddr \in Nat /\ nbaddns \in Nat /\ ndone \in Nat
    /\ fd2state \in [Fds -> Hosts]
    /\ group \in [first : Hosts, last : Hosts, full : Hosts]
    /\ group.first <= group.last
    /\ pc \in {"poll", "expire", "result", "events", "end", "abort"}
    /\ polled \in [events : SUBSET Fds, result : 0..N, lookup : BOOLEAN]
    /\ pc \in {"poll", "events"} => polled.result = 0
    /\ asked \in [Hosts -> Nat]

\* The hosts that each of the counters is about.
Tried(k) == {h \in Hosts : states[h].status = "lookup" /\ states[h].ntries = k}
Addressed == {h \in Hosts : states[h].status # "lookup"}
Done == {h \in Hosts : states[h].status = "done"}

Socketless == \E h \in Hosts : server[h].conn = "nosocket"

Counted ==
    /\ \A k \in 0..MaxTries : nwithtries[k] = Cardinality(Tried(k))
    /\ ngotaddr = Cardinality(Addressed)
    /\ ndone <= Cardinality(Done)
    /\ ~Socketless => ndone = Cardinality(Done)

\* What is known of a host by its status, and by the group it belongs to.
HostKnown(h) ==
    /\ states[h].status = "rest" => states[h].got = 2
    /\ states[h].up => states[h].status = "done" /\ (Compile => server[h].sent = 3)
    /\ states[h].status \in {"lookup", "done"} <=> states[h].fd = 0
    /\ states[h].status # "lookup" \/ asked[h] > 0 \/ polled.result = h => states[h].ntries > 0
    /\ states[h].status = "lookup" /\ states[h].ntries > 0 => asked[h] > 0 \/ polled.result = h
    /\ h < group.first => states[h].status = "done"
    /\ h > group.last => states[h].status = "lookup" /\ states[h].ntries = 0
    /\ server[h].conn = "nosocket" => states[h].status = "done"

LsInv == LsTypes /\ Counted /\ \A h \in Hosts : HostKnown(h)

\* The types of what belongs to a host, and of the group.
LEMMA HostTypes ==
    ASSUME Options, LsTypes, NEW h \in Hosts
    PROVE  /\ h \in 1..N /\ N \in Nat
           /\ states[h] \in HostStates /\ server[h] \in Peers /\ asked[h] \in Nat
           /\ states[h].status \in Statuses /\ states[h].fd \in 0..N
           /\ states[h].ntries \in 0..MaxTries /\ states[h].got \in 0..2
           /\ states[h].up \in BOOLEAN
BY DEF LsTypes, HostStates, Hosts, Options

LEMMA GroupTypes ==
    ASSUME Options, LsTypes
    PROVE  /\ group.first \in 1..N /\ group.last \in 1..N /\ group.full \in 1..N
           /\ group.first <= group.last
           /\ \A h \in Members : h \in Hosts
           /\ \A h \in Hosts : h \in Members <=> h >= group.first /\ h <= group.last
<1>1. group.first \in 1..N /\ group.last \in 1..N /\ group.full \in 1..N /\ N \in Nat
  BY DEF LsTypes, Hosts, Options
<1> QED BY <1>1 DEF LsTypes, Members, Hosts

LEMMA GroupOf ==
    ASSUME Options, NEW first \in Hosts
    PROVE  /\ Group(first) \in [first : Hosts, last : Hosts, full : Hosts]
           /\ Group(first).first = first
           /\ first <= Group(first).last
<1> DEFINE S == {first + GroupSize - 1, N}
<1>1. S \in SUBSET Nat /\ S # {} /\ \A k \in S : first <= k
  BY DEF Options, Hosts
<1>2. Min(S) \in S /\ Min(S) <= N
  <2> HIDE DEF S
  <2>1. Min(S) \in S /\ \A k \in S : Min(S) <= k
    BY <1>1, MinIn
  <2> QED BY <2>1 DEF S
<1>3. Min(S) \in Hosts /\ first <= Min(S)
  BY <1>1, <1>2 DEF Hosts, Options
<1> HIDE DEF S
<1>4. Group(first) = [first |-> first, last |-> Min(S), full |-> Min(S)]
  BY DEF Group, S
<1> QED BY <1>3, <1>4

LEMMA LsInitInv ==
    ASSUME Options, LsInit
    PROVE  LsInv
<1> DEFINE fresh == [status |-> "lookup", ntries |-> 0, fd |-> 0, got |-> 0, up |-> FALSE]
<1>1. fresh \in HostStates
  BY DEF HostStates, Statuses, Options
<1>2. /\ states = [h \in Hosts |-> fresh]
      /\ asked = [h \in Hosts |-> 0]
      /\ server = [h \in Hosts |-> [conn |-> "none", sent |-> 0, bad |-> FALSE]]
      /\ group = Group(1)
      /\ polled = [events |-> {}, result |-> 0, lookup |-> FALSE]
      /\ nwithtries = [k \in 0..MaxTries |-> IF k = 0 THEN N ELSE 0]
      /\ ngotaddr = 0 /\ nbaddns = 0 /\ ndone = 0
      /\ fd2state = [fd \in Fds |-> 1]
      /\ pc = "poll"
  BY DEF LsInit, NothingPolled, NoFd
<1>3. 1 \in Hosts
  BY DEF Hosts, Options
<1>4. /\ group \in [first : Hosts, last : Hosts, full : Hosts]
      /\ group.first = 1 /\ group.first <= group.last
  BY <1>2, <1>3, GroupOf
<1>5. LsTypes
  BY <1>1, <1>2, <1>3, <1>4 DEF LsTypes, Peers, Options
<1>6. Counted
  <2>1. Tried(0) = Hosts /\ Addressed = {} /\ Done = {}
    BY <1>2 DEF Tried, Addressed, Done
  <2>2. \A k \in 0..MaxTries : k # 0 => Tried(k) = {}
    BY <1>2 DEF Tried
  <2>3. N \in 0..N /\ N \in Nat /\ MaxTries \in Nat
    BY DEF Options
  <2>4. Cardinality(Hosts) = N /\ Cardinality({}) = 0
    BY <2>3, Counting, FS_EmptySet DEF Hosts
  <2>5. ASSUME NEW k \in 0..MaxTries PROVE nwithtries[k] = Cardinality(Tried(k))
    <3>1. CASE k = 0
      BY <1>2, <2>1, <2>4, <3>1
    <3>2. CASE k # 0
      <4>1. Tried(k) = {}
        BY <2>2, <3>2
      <4> QED BY <1>2, <2>4, <3>2, <4>1
    <3> QED BY <3>1, <3>2
  <2>6. ngotaddr = Cardinality(Addressed) /\ ndone = Cardinality(Done) /\ ndone <= Cardinality(Done)
    BY <1>2, <2>1, <2>4
  <2> QED BY <2>5, <2>6 DEF Counted
<1>7. \A h \in Hosts : HostKnown(h)
  BY <1>2, <1>4 DEF HostKnown, Hosts
<1> QED BY <1>5, <1>6, <1>7 DEF LsInv

\* A step that changes nothing but what poll reports and the group.
LEMMA PollStep ==
    ASSUME Options, LsInv, NEW r \in {0} \cup Hosts, Poll(r)
    PROVE  LsInv'
<1>1. /\ pc = "poll" /\ polled.result = 0 /\ pc' = "expire"
      /\ UNCHANGED <<states, due, nwithtries, ngotaddr, nbaddns, ndone, fd2state, group, server>>
  BY DEF Poll, LsInv, LsTypes
<1>2. polled'.result = r /\ polled' \in [events : SUBSET Fds, result : 0..N, lookup : BOOLEAN]
  <2> DEFINE ready == {states[h].fd : h \in {m \in Members : Ready(m)}}
  <2>1. polled' = [events |-> ready, result |-> r, lookup |-> Welcome]
    BY DEF Poll
  <2>2. ready \subseteq Fds
    <3>1. ASSUME NEW h \in Members, Ready(h) PROVE states[h].fd \in Fds
      <4>1. h \in Hosts
        BY GroupTypes DEF LsInv
      <4>2. states[h].status \notin {"lookup", "done"}
        BY <3>1 DEF Ready, Reading
      <4> QED BY <4>1, <4>2, HostTypes DEF LsInv, HostKnown, Fds
    <3> QED BY <3>1
  <2>3. r \in 0..N
    BY DEF Hosts, Options
  <2>4. Welcome \in BOOLEAN
    BY DEF Welcome
  <2> HIDE DEF ready
  <2> QED BY <2>1, <2>2, <2>3, <2>4
<1>3. /\ asked' \in [Hosts -> Nat]
      /\ \A h \in Hosts : /\ asked'[h] > 0 => asked[h] > 0
                          /\ asked[h] > 0 => asked'[h] > 0 \/ r = h
                          /\ r = h => asked[h] > 0
  <2>1. CASE r = 0
    BY <2>1 DEF Poll, LsInv, LsTypes, Hosts
  <2>2. CASE r # 0
    <3>1. r \in Hosts /\ asked[r] > 0 /\ asked' = [asked EXCEPT ![r] = @ - 1]
      BY <2>2 DEF Poll
    <3> QED BY <3>1 DEF LsInv, LsTypes
  <2> QED BY <2>1, <2>2
<1>4. LsTypes'
  BY <1>1, <1>2, <1>3 DEF LsInv, LsTypes
<1>5. Counted'
  BY <1>1 DEF LsInv, Counted, Tried, Addressed, Done, Socketless
<1>6. ASSUME NEW h \in Hosts PROVE HostKnown(h)'
  BY <1>1, <1>2, <1>3, HostTypes DEF LsInv, HostKnown
<1> QED BY <1>4, <1>5, <1>6 DEF LsInv

LEMMA NextGroupStep ==
    ASSUME Options, LsInv, NextGroup
    PROVE  LsInv'
<1>1. /\ pc = "poll" /\ ndone >= group.last /\ polled.result = 0
      /\ UNCHANGED <<states, due, nwithtries, ngotaddr, nbaddns, ndone, fd2state, polled,
                     asked, server>>
  BY DEF NextGroup, LsInv, LsTypes
<1>2. Counted'
  BY <1>1 DEF LsInv, Counted, Tried, Addressed, Done, Socketless
<1>3. CASE group' = group /\ pc' = "end"
  <2>1. LsTypes'
    BY <1>1, <1>3 DEF LsInv, LsTypes
  <2>2. ASSUME NEW h \in Hosts PROVE HostKnown(h)'
    BY <1>1, <1>3 DEF LsInv, HostKnown
  <2> QED BY <1>2, <2>1, <2>2 DEF LsInv
<1>4. CASE group.last < N /\ group' = Group(group.last + 1) /\ pc' = pc
  <2>1. group.last \in Nat /\ group.last + 1 \in Hosts
    BY <1>4 DEF LsInv, LsTypes, Hosts, Options
  <2>2. /\ group' \in [first : Hosts, last : Hosts, full : Hosts]
        /\ group'.first = group.last + 1 /\ group'.first <= group'.last
    BY <1>4, <2>1, GroupOf
  <2>3. \A h \in 1..group.last : states[h].status = "done"
    <3>1. 1..group.last \subseteq Hosts /\ group.last \in 0..N
      BY <2>1 DEF Hosts, Options
    <3>2. Done \subseteq 1..group.last
      BY <2>1 DEF LsInv, HostKnown, Done, Hosts
    <3>3. Cardinality(1..group.last) = group.last
      BY <3>1, Counting
    <3>4. Cardinality(Done) >= group.last
      <4>1. Done \in SUBSET Hosts
        BY DEF Done
      <4>2. Cardinality(Done) \in Nat
        BY <4>1, Counting
      <4> QED BY <1>1, <2>1, <4>2 DEF LsInv, Counted, LsTypes
    <3>5. Cardinality(Done) = Cardinality(1..group.last) /\ Done = 1..group.last
      <4>1. 1..group.last \in SUBSET Hosts /\ Done \in SUBSET (1..group.last)
        BY <3>1, <3>2
      <4>2. /\ Cardinality(Done) <= Cardinality(1..group.last)
            /\ Cardinality(Done) = Cardinality(1..group.last) => Done = 1..group.last
            /\ Cardinality(Done) \in Nat
        BY <4>1, Counting
      <4> QED BY <2>1, <3>3, <3>4, <4>2
    <3> QED BY <3>5 DEF Done
  <2>4. LsTypes'
    BY <1>1, <1>4, <2>2 DEF LsInv, LsTypes
  <2>5. ASSUME NEW h \in Hosts PROVE HostKnown(h)'
    <3>1. h < group'.first => states[h].status = "done"
      BY <2>1, <2>2, <2>3 DEF Hosts
    <3>2. h > group'.last => states[h].status = "lookup" /\ states[h].ntries = 0
      <4>1. h > group'.last => h > group.last
        BY <2>1, <2>2 DEF Hosts
      <4> QED BY <4>1 DEF LsInv, HostKnown
    <3> QED BY <1>1, <3>1, <3>2 DEF LsInv, HostKnown
  <2> QED BY <1>2, <2>4, <2>5 DEF LsInv
<1> QED BY <1>3, <1>4 DEF NextGroup

\* A name is asked for once more: the host moves to the next of the sets.
LEMMA TriedMoves ==
    ASSUME Options, LsInv, LsTypes', NEW x \in Hosts, NEW k \in 0..(MaxTries - 1),
           states[x].status = "lookup", states[x].ntries = k,
           states'[x].status = "lookup", states'[x].ntries = k + 1,
           \A h \in Hosts \ {x} : 
              /\ states'[h].status = "lookup" <=> states[h].status = "lookup"
              /\ states'[h].ntries = states[h].ntries,
           nwithtries' = [nwithtries EXCEPT ![k] = @ - 1, ![k + 1] = @ + 1]
    PROVE  \A j \in 0..MaxTries : nwithtries'[j] = Cardinality(Tried(j)')
<1>1. k \in 0..MaxTries /\ k + 1 \in 0..MaxTries /\ k # k + 1
  BY DEF Options
<1>2. /\ Tried(k)' = Tried(k) \ {x} /\ x \in Tried(k)
      /\ Tried(k + 1)' = Tried(k + 1) \cup {x} /\ x \notin Tried(k + 1)
      /\ \A j \in 0..MaxTries : j # k /\ j # k + 1 => Tried(j)' = Tried(j)
  BY <1>1 DEF Tried, Hosts
<1>3. \A j \in 0..MaxTries : Tried(j) \in SUBSET Hosts
  BY DEF Tried
<1>4. /\ Cardinality(Tried(k)') = Cardinality(Tried(k)) - 1
      /\ Cardinality(Tried(k + 1)') = Cardinality(Tried(k + 1)) + 1
  <2> DEFINE old == Tried(k)
             new == Tried(k + 1)
  <2>1. old \in SUBSET Hosts /\ x \in old
    BY <1>1, <1>2, <1>3
  <2>2. new \in SUBSET Hosts /\ x \notin new
    BY <1>1, <1>2, <1>3
  <2>3. Tried(k)' = old \ {x} /\ Tried(k + 1)' = new \cup {x}
    BY <1>2
  <2> HIDE DEF old, new
  <2>4. Cardinality(old \ {x}) = Cardinality(old) - 1
    BY <2>1, Counting
  <2>5. Cardinality(new \cup {x}) = Cardinality(new) + 1
    BY <2>2, Counting
  <2> QED BY <2>3, <2>4, <2>5 DEF old, new
<1>5. /\ nwithtries \in [0..MaxTries -> Nat]
      /\ nwithtries'[k] = nwithtries[k] - 1 /\ nwithtries'[k + 1] = nwithtries[k + 1] + 1
      /\ \A j \in 0..MaxTries : j # k /\ j # k + 1 => nwithtries'[j] = nwithtries[j]
  BY <1>1 DEF LsInv, LsTypes
<1>6. \A j \in 0..MaxTries : nwithtries[j] = Cardinality(Tried(j))
  BY DEF LsInv, Counted
<1> QED BY <1>1, <1>2, <1>4, <1>5, <1>6

LEMMA ClosedHost ==
    ASSUME N \in Nat, NEW s \in HostStates
    PROVE  /\ Closed(s) \in HostStates
           /\ Closed(s).status = "done" /\ Closed(s).fd = 0
           /\ Closed(s).ntries = s.ntries /\ Closed(s).got = s.got
           /\ Closed(s).up = s.up
<1> DEFINE t == [s EXCEPT !.status = "done"]
<1>1. t \in HostStates /\ t.status = "done" /\ t.ntries = s.ntries /\ t.got = s.got /\ t.up = s.up
  BY DEF HostStates, Statuses
<1>2. Closed(s) = [t EXCEPT !.fd = 0]
  BY DEF Closed, NoFd
<1> HIDE DEF t
<1> QED BY <1>1, <1>2 DEF HostStates

LEMMA ExpireStep ==
    ASSUME Options, LsInv, NEW passed \in SUBSET Hosts, Expire(passed)
    PROVE  LsInv'
<1> DEFINE now == passed \cup {h \in Hosts : due[h]}
           late == {h \in Members : /\ states[h].status = "lookup" /\ h \in now
                                    /\ states[h].ntries \in 1..(MaxTries - 1)}
           before == IF late = {} THEN Members ELSE {h \in Members : h < Min(late)}
           over == {h \in before : /\ h \in now
                                 /\ states[h].status \in Reading \cup {"connecting"}}
           expired == [h \in Hosts |-> IF h \in over THEN Closed(states[h])
                                          ELSE states[h]]
           first == polled.lookup /\ nwithtries[1] <= Overlap /\ Fresh # {}
           sent == IF late # {} THEN {Min(late)}
                   ELSE IF first THEN {Min(Fresh)} ELSE {}
<1>1. /\ pc = "expire" /\ pc' = "result"
      /\ IF sent # {} THEN Ask(expired, Min(sent))
         ELSE states' = expired /\ UNCHANGED <<nwithtries, asked>>
      /\ ndone' = ndone + Cardinality(over)
      /\ polled' = [polled EXCEPT !.lookup = FALSE]
      /\ UNCHANGED <<ngotaddr, nbaddns, fd2state, group, server>>
  <2>1. pc = "expire" /\ pc' = "result"
    BY DEF Expire
  <2>2. IF sent # {} THEN Ask(expired, Min(sent))
        ELSE states' = expired /\ UNCHANGED <<nwithtries, asked>>
    <3>1. CASE sent # {}
      BY <3>1 DEF Expire
    <3>2. CASE sent = {}
      BY <3>2 DEF Expire
    <3> HIDE DEF sent, expired
    <3> QED BY <3>1, <3>2
  <2>3. ndone' = ndone + Cardinality(over)
    <3>1. ndone' = ndone + Cardinality(over)
      BY DEF Expire
    <3> HIDE DEF over
    <3> QED BY <3>1
  <2>4. /\ polled' = [polled EXCEPT !.lookup = FALSE]
        /\ UNCHANGED <<ngotaddr, nbaddns, fd2state, group, server>>
    BY DEF Expire
  <2> QED BY Zenon, <2>1, <2>2, <2>3, <2>4
<1>2. LsTypes /\ N \in Nat /\ MaxTries \in Nat
  BY DEF LsInv, Options
<1>3. /\ over \subseteq Hosts
      /\ \A h \in over : states[h].status \in {"connecting", "donepkt", "statpkt", "rest"}
  <2>1. before \subseteq Members
    OBVIOUS
  <2>2. Members \subseteq Hosts
    BY <1>2, GroupTypes
  <2> HIDE DEF before
  <2> QED BY <2>1, <2>2 DEF Reading
<1>4. \A h \in Hosts :
        /\ expired[h] \in HostStates
        /\ expired[h].ntries = states[h].ntries
        /\ expired[h].got = states[h].got /\ expired[h].up = states[h].up
        /\ h \in over => expired[h].status = "done" /\ expired[h].fd = 0
        /\ h \notin over => expired[h] = states[h]
  <2> TAKE h \in Hosts
  <2>1. states[h] \in HostStates
    BY <1>2, HostTypes
  <2>2. CASE h \in over
    <3>1. expired[h] = Closed(states[h])
      BY <2>2
    <3> HIDE DEF expired, over
    <3> QED BY <1>2, <2>1, <2>2, <3>1, ClosedHost
  <2>3. CASE h \notin over
    BY <2>1, <2>3
  <2> QED BY <2>2, <2>3
<1>5. expired \in [Hosts -> HostStates]
  BY <1>4
<1>6. \A x \in sent :
        /\ x \in Hosts /\ states[x].status = "lookup"
        /\ states[x].ntries \in 0..(MaxTries - 1)
        /\ x = Min(sent) /\ x \in Members
  <2>1. late \in SUBSET Nat /\ Fresh \in SUBSET Nat
    BY <1>2, GroupTypes DEF Fresh, Hosts
  <2>2. late # {} => Min(late) \in late
    <3> HIDE DEF late
    <3> QED BY <2>1, MinIn
  <2>3. Fresh # {} => Min(Fresh) \in Fresh
    BY <2>1, MinIn
  <2>4. ASSUME NEW x \in sent PROVE x \in late \cup Fresh
    <3> HIDE DEF late
    <3> QED BY <2>2, <2>3
  <2>5. \A x \in sent : sent = {x}
    <3> HIDE DEF late, first
    <3> QED OBVIOUS
  <2>6. ASSUME NEW x \in sent PROVE x = Min(sent)
    <3>1. sent = {x}
      BY <2>5
    <3> HIDE DEF sent
    <3> QED BY <3>1 DEF Min
  <2>7. \A x \in late \cup Fresh :
          /\ x \in Members /\ x \in Hosts /\ states[x].status = "lookup"
          /\ states[x].ntries \in 0..(MaxTries - 1)
    BY <1>2, GroupTypes DEF Fresh, Options
  <2> HIDE DEF sent, late
  <2> QED BY <2>4, <2>6, <2>7
<1> HIDE DEF now, late, before, over, expired, first, sent
<1>7. polled' \in [events : SUBSET Fds, result : 0..N, lookup : BOOLEAN]
      /\ polled'.result = polled.result
  BY <1>1, <1>2 DEF LsTypes
<1>8. Cardinality(over) \in Nat /\ ndone' \in Nat
  BY <1>1, <1>2, <1>3, Counting DEF LsTypes
<1>9. CASE sent = {}
  <2>1. states' = expired /\ UNCHANGED <<nwithtries, asked>>
    BY <1>1, <1>9
  <2>2. LsTypes'
    BY <1>1, <1>2, <1>5, <1>7, <1>8, <2>1 DEF LsTypes
  <2>3. /\ \A k \in 0..MaxTries : Tried(k)' = Tried(k)
        /\ Addressed' = Addressed /\ Done' = Done \cup over /\ Done \cap over = {}
    BY <1>3, <1>4, <2>1 DEF Tried, Addressed, Done
  <2>4. ASSUME NEW h \in Hosts PROVE HostKnown(h)'
    BY <1>1, <1>2, <1>3, <1>4, <1>7, <2>1, HostTypes DEF LsInv, HostKnown
  <2>5. Counted'
    <3>1. Cardinality(Done') = Cardinality(Done) + Cardinality(over) /\ Cardinality(Done) \in Nat
      BY <1>3, <2>3, Counting DEF Done
    <3>2. Socketless' <=> Socketless
      BY <1>1 DEF Socketless
    <3> QED BY <1>1, <1>2, <1>8, <2>1, <2>3, <3>1, <3>2 DEF LsInv, Counted, LsTypes
  <2> QED BY <2>2, <2>4, <2>5 DEF LsInv
<1>10. CASE sent # {}
  <2>1. PICK x \in sent : TRUE
    BY <1>10
  <2> DEFINE k == states[x].ntries
  <2>2. /\ x \in Hosts /\ x \in Members /\ states[x].status = "lookup"
        /\ k \in 0..(MaxTries - 1) /\ x \notin over
    BY <1>3, <1>6, <2>1
  <2>3. /\ states' = [expired EXCEPT ![x].ntries = k + 1]
        /\ nwithtries' = [nwithtries EXCEPT ![k] = @ - 1, ![k + 1] = @ + 1]
        /\ asked' = [asked EXCEPT ![x] = @ + 1]
    BY <1>1, <1>6, <1>10, <2>1 DEF Ask
  <2> HIDE DEF k
  <2>4. /\ states' \in [Hosts -> HostStates]
        /\ \A h \in Hosts \ {x} : states'[h] = expired[h]
        /\ states'[x].ntries = k + 1 /\ states'[x].status = "lookup"
        /\ states'[x].fd = states[x].fd /\ states'[x].got = states[x].got
        /\ states'[x].up = states[x].up
    BY <1>2, <1>4, <1>5, <2>2, <2>3 DEF HostStates
  <2>5. asked' \in [Hosts -> Nat] /\ asked'[x] > 0 /\ \A h \in Hosts \ {x} : asked'[h] = asked[h]
    <3>1. asked \in [Hosts -> Nat] /\ asked[x] \in Nat
      BY <1>2, <2>2 DEF LsTypes
    <3> QED BY <2>2, <2>3, <3>1
  <2>6. /\ \A h \in Hosts \ {x} : 
              /\ states'[h].status = "lookup" <=> states[h].status = "lookup"
              /\ states'[h].ntries = states[h].ntries
    BY <1>3, <1>4, <2>4
  <2>7. nwithtries' \in [0..MaxTries -> Nat]
    <3>1. k \in 0..MaxTries /\ k + 1 \in 0..MaxTries /\ k # k + 1
      BY <1>2, <2>2
    <3>2. nwithtries[k] > 0
      <4>1. x \in Tried(k) /\ Tried(k) \in SUBSET Hosts
        BY <2>2 DEF Tried, k
      <4>2. Cardinality(Tried(k)) \in Nat /\ Cardinality(Tried(k)) # 0
        BY <4>1, Counting
      <4> QED BY <3>1, <4>2 DEF LsInv, Counted
    <3>3. nwithtries \in [0..MaxTries -> Nat]
      BY <1>2 DEF LsTypes
    <3>4. nwithtries[k] - 1 \in Nat /\ nwithtries[k + 1] + 1 \in Nat
      BY <3>1, <3>2, <3>3
    <3>5. [nwithtries EXCEPT ![k] = nwithtries[k] - 1] \in [0..MaxTries -> Nat]
      BY <3>3, <3>4
    <3> QED BY <2>3, <3>1, <3>3, <3>4, <3>5
  <2>8. LsTypes'
    BY <1>1, <1>2, <1>7, <1>8, <2>4, <2>5, <2>7 DEF LsTypes
  <2>9. \A j \in 0..MaxTries : nwithtries'[j] = Cardinality(Tried(j)')
    BY <2>2, <2>3, <2>4, <2>6, <2>8, TriedMoves DEF k
  <2>10. Counted'
    <3>1. Addressed' = Addressed /\ Done' = Done \cup over /\ Done \cap over = {}
      BY <1>3, <1>4, <2>2, <2>4, <2>6 DEF Addressed, Done
    <3>2. Cardinality(Done') = Cardinality(Done) + Cardinality(over) /\ Cardinality(Done) \in Nat
      BY <1>3, <3>1, Counting DEF Done
    <3>3. Socketless' <=> Socketless
      BY <1>1 DEF Socketless
    <3> QED BY <1>1, <1>2, <1>8, <2>9, <3>1, <3>2, <3>3 DEF LsInv, Counted, LsTypes
  <2>11. ASSUME NEW h \in Hosts PROVE HostKnown(h)'
    <3>1. CASE h = x
      BY <1>1, <1>2, <1>7, <2>2, <2>4, <2>5, <3>1, HostTypes, GroupTypes DEF LsInv, HostKnown
    <3>2. CASE h # x
      BY <1>1, <1>2, <1>3, <1>4, <1>7, <2>4, <2>5, <3>2, HostTypes DEF LsInv, HostKnown
    <3> QED BY <3>1, <3>2
  <2> QED BY <2>8, <2>10, <2>11 DEF LsInv
<1> QED BY <1>9, <1>10

\* There is a descriptor for every host, so that one is free for a new one.
LEMMA FreeDescriptor ==
    ASSUME Options, LsInv, NEW h \in Hosts, states[h].fd = 0
    PROVE  Min(Fds \ {states[g].fd : g \in Hosts}) \in Fds
<1> DEFINE Others == Hosts \ {h}
           used == {states[g].fd : g \in Others}
           f == [g \in Others |-> states[g].fd]
           free == Fds \ {states[g].fd : g \in Hosts}
<1>1. /\ IsFiniteSet(Others) /\ Cardinality(Others) = N - 1
      /\ Cardinality(Fds) = N /\ N \in Nat \ {0}
  <2>1. N \in 0..N /\ N \in Nat \ {0} /\ Hosts = 1..N /\ Fds = 1..N
    BY DEF Options, Hosts, Fds
  <2>2. Cardinality(1..N) = N
    BY <2>1, Counting
  <2>3. IsFiniteSet(Others) /\ Cardinality(Hosts \ {h}) = Cardinality(Hosts) - 1
    BY Counting
  <2> QED BY <2>1, <2>2, <2>3
<1>2. f \in Surjection(Others, used)
  BY DEF Surjection
<1>3. IsFiniteSet(used) /\ Cardinality(used) <= N - 1 /\ Cardinality(used) \in Nat
  <2> HIDE DEF f, used, Others
  <2> QED BY <1>1, <1>2, FS_Surjection, FS_CardinalityType
<1>4. free # {}
  <2> SUFFICES ASSUME free = {} PROVE FALSE
    OBVIOUS
  <2>1. Fds \subseteq used
    <3> SUFFICES ASSUME NEW x \in Fds PROVE x \in used
      OBVIOUS
    <3>1. x # 0
      BY <1>1 DEF Fds
    <3>2. PICK g \in Hosts : x = states[g].fd
      OBVIOUS
    <3>3. g # h
      BY <3>1, <3>2
    <3> QED BY <3>2, <3>3
  <2>2. Cardinality(Fds) <= Cardinality(used)
    <3> HIDE DEF used
    <3> QED BY <1>3, <2>1, FS_Subset
  <2> HIDE DEF used
  <2> QED BY <1>1, <1>3, <2>2
<1>5. free \in SUBSET Nat /\ free \subseteq Fds
  BY <1>1 DEF Fds
<1> HIDE DEF free
<1>6. Min(free) \in free
  BY <1>4, <1>5, MinIn
<1> QED BY <1>5, <1>6 DEF free

\* A name is answered: its host leaves the sets of those that wait for one.
LEMMA Answer ==
    ASSUME Options, LsInv, NEW h \in Hosts, states[h].status = "lookup",
           nwithtries' = Answered(h), ngotaddr' = ngotaddr + 1,
           \A g \in Hosts \ {h} : states'[g] = states[g],
           states'[h].status # "lookup"
    PROVE  /\ nwithtries' \in [0..MaxTries -> Nat] /\ ngotaddr' \in Nat
           /\ \A k \in 0..MaxTries : nwithtries'[k] = Cardinality(Tried(k)')
           /\ ngotaddr' = Cardinality(Addressed')
           /\ Done' = IF states'[h].status = "done" THEN Done \cup {h} ELSE Done
           /\ h \notin Done
           /\ Cardinality(Done \cup {h}) = Cardinality(Done) + 1 /\ Cardinality(Done) \in Nat
<1>. PICK t \in 0..MaxTries : t = states[h].ntries
  BY HostTypes DEF LsInv
<1>1. /\ t \in 0..MaxTries /\ nwithtries \in [0..MaxTries -> Nat] /\ ngotaddr \in Nat
      /\ nwithtries' = [nwithtries EXCEPT ![t] = @ - 1]
  BY HostTypes DEF LsInv, LsTypes, Answered
<1>2. /\ h \in Tried(t) /\ Tried(t)' = Tried(t) \ {h}
      /\ \A k \in 0..MaxTries : k # t => Tried(k)' = Tried(k)
      /\ h \notin Addressed /\ Addressed' = Addressed \cup {h}
      /\ Done' = IF states'[h].status = "done" THEN Done \cup {h} ELSE Done
      /\ h \notin Done
  <2>1. h \in Tried(t) /\ h \notin Addressed /\ h \notin Done
    BY DEF Tried, Addressed, Done
  <2>2. ASSUME NEW k \in 0..MaxTries PROVE Tried(k)' = Tried(k) \ {h}
    BY DEF Tried
  <2>3. ASSUME NEW k \in 0..MaxTries, k # t PROVE Tried(k)' = Tried(k)
    <3>1. h \notin Tried(k)
      BY <2>3 DEF Tried
    <3> QED BY <2>2, <3>1
  <2>4. Addressed' = Addressed \cup {h}
    BY DEF Addressed
  <2>5. Done' = IF states'[h].status = "done" THEN Done \cup {h} ELSE Done
    <3>1. \A g \in Hosts : g \in Done' <=> states'[g].status = "done"
      BY DEF Done
    <3>2. \A g \in Hosts : g \in Done <=> states[g].status = "done"
      BY DEF Done
    <3>3. Done \subseteq Hosts /\ Done' \subseteq Hosts
      BY DEF Done
    <3> QED BY <3>1, <3>2, <3>3
  <2>6. t \in 0..MaxTries
    BY <1>1
  <2>7. h \in Tried(t) /\ Tried(t)' = Tried(t) \ {h}
    BY <2>1, <2>2, <2>6
  <2> QED BY <2>1, <2>3, <2>4, <2>5, <2>7
<1>3. /\ \A k \in 0..MaxTries : Tried(k) \in SUBSET Hosts
      /\ Addressed \in SUBSET Hosts /\ Done \in SUBSET Hosts
  BY DEF Tried, Addressed, Done
<1>4. /\ \A k \in 0..MaxTries : nwithtries[k] = Cardinality(Tried(k))
      /\ ngotaddr = Cardinality(Addressed)
  BY DEF LsInv, Counted
<1>5. /\ Cardinality(Tried(t) \ {h}) = Cardinality(Tried(t)) - 1
      /\ Cardinality(Tried(t)) \in Nat /\ Cardinality(Tried(t)) # 0
      /\ Cardinality(Addressed \cup {h}) = Cardinality(Addressed) + 1
      /\ Cardinality(Done \cup {h}) = Cardinality(Done) + 1 /\ Cardinality(Done) \in Nat
  BY <1>1, <1>2, <1>3, Counting
<1>6. nwithtries[t] - 1 \in Nat
  BY <1>1, <1>4, <1>5
<1>7. nwithtries' \in [0..MaxTries -> Nat] /\ ngotaddr' \in Nat
  BY <1>1, <1>6
<1>8. \A k \in 0..MaxTries : nwithtries'[k] = Cardinality(Tried(k)')
  <2> TAKE k \in 0..MaxTries
  <2>1. CASE k = t
    BY <1>1, <1>2, <1>4, <1>5, <2>1
  <2>2. CASE k # t
    <3>1. Tried(k)' = Tried(k) /\ nwithtries'[k] = nwithtries[k]
      BY <1>1, <1>2, <2>2
    <3> QED BY <1>4, <3>1
  <2> QED BY <2>1, <2>2
<1> QED BY <1>2, <1>4, <1>5, <1>7, <1>8

LEMMA ResultStep ==
    ASSUME Options, LsInv, Result
    PROVE  LsInv'
<1> DEFINE h == polled.result
<1>1. /\ LsTypes /\ N \in Nat /\ pc = "result" /\ h \in 0..N
      /\ polled' = [polled EXCEPT !.result = 0] /\ UNCHANGED asked
  BY DEF LsInv, LsTypes, Result, Options
<1>2. polled' \in [events : SUBSET Fds, result : 0..N, lookup : BOOLEAN] /\ polled'.result = 0
  <2>1. polled \in [events : SUBSET Fds, result : 0..N, lookup : BOOLEAN] /\ 0 \in 0..N
    BY <1>1 DEF LsTypes
  <2>2. polled' = [polled EXCEPT !.result = 0]
    BY <1>1
  <2> HIDE DEF h
  <2> QED BY <2>1, <2>2
<1> HIDE DEF h
<1>3. CASE UNCHANGED <<states, nwithtries, ngotaddr, nbaddns, ndone, fd2state, group, server>>
           /\ pc' \in {"events", "abort"}
           /\ (h \in Hosts => states[h].status # "lookup")
  <2>1. LsTypes'
    BY <1>1, <1>2, <1>3 DEF LsTypes
  <2>2. Counted'
    BY <1>3 DEF LsInv, Counted, Tried, Addressed, Done, Socketless
  <2>3. ASSUME NEW g \in Hosts PROVE HostKnown(g)'
    BY <1>1, <1>2, <1>3, HostTypes DEF LsInv, HostKnown, h
  <2> QED BY <2>1, <2>2, <2>3 DEF LsInv
<1>4. CASE h = 0
  <2>1. UNCHANGED <<states, nwithtries, ngotaddr, nbaddns, ndone, fd2state, group, server>>
        /\ pc' = "events"
    BY <1>4 DEF Result, h
  <2> QED BY <1>3, <1>4, <2>1 DEF Hosts
<1>5. CASE h # 0 /\ ~(h \in Members /\ states[h].status = "lookup")
  <2>1. /\ UNCHANGED <<states, ngotaddr, nbaddns, ndone, fd2state, group, server>>
        /\ pc' \in {"events", "abort"}
        /\ nwithtries' = IF h \in Members THEN Answered(h) ELSE nwithtries
    BY <1>5 DEF Result, h
  <2>2. nwithtries' = nwithtries
    BY <1>5, <2>1 DEF Answered
  <2>3. h \in Hosts => states[h].status # "lookup"
    BY <1>1, <1>5, HostTypes, GroupTypes DEF LsInv, HostKnown, h
  <2> QED BY <1>3, <2>1, <2>2, <2>3
<1>6. CASE h # 0 /\ h \in Members /\ states[h].status = "lookup"
  <2>1. /\ h \in Hosts /\ h \in Members /\ states[h] \in HostStates
        /\ states[h].status = "lookup" /\ states[h].fd = 0 /\ states[h].ntries > 0
        /\ ~states[h].up /\ server[h] \in Peers
    BY <1>1, <1>6, HostTypes, GroupTypes DEF LsInv, HostKnown, h
  <2>2. /\ pc' = "events" /\ nwithtries' = Answered(h) /\ ngotaddr' = ngotaddr + 1
        /\ NotFound(h) \/ Connect(h)
    BY <1>6 DEF Result, h
  <2>3. /\ \A g \in Hosts \ {h} : /\ states'[g] = states[g]
                                  /\ HostKnown(g)
                                  /\ states[g].status = "lookup" /\ states[g].ntries > 0 => asked[g] > 0
    BY <1>1, <2>1, <2>2 DEF LsInv, LsTypes, HostKnown, h, NotFound, Connect
  <2>4. CASE NotFound(h)
    <3>1. /\ states' = [states EXCEPT ![h].status = "done"] /\ ndone' = ndone + 1
          /\ nbaddns' = nbaddns + 1 /\ group' = Lowered(nbaddns + 1)
          /\ UNCHANGED <<fd2state, server>>
      BY <2>4 DEF NotFound
    <3>2. /\ states' \in [Hosts -> HostStates] /\ states'[h].status = "done"
          /\ states'[h].fd = 0 /\ states'[h].up = states[h].up /\ states'[h].ntries = states[h].ntries
      BY <1>1, <2>1, <3>1 DEF LsTypes, HostStates, Statuses
    <3>3. /\ group' \in [first : Hosts, last : Hosts, full : Hosts]
          /\ group'.first = group.first /\ group'.first <= group'.last
          /\ group'.last >= h /\ group'.last <= group.last
          /\ \A g \in Hosts : g > group'.last /\ g <= group.last => ~(states[g].ntries > 0)
      <4> DEFINE T == {g \in Members : states[g].ntries > 0}
      <4>1. T \subseteq 1..N /\ h \in T
        BY <1>1, <2>1, GroupTypes DEF Hosts
      <4>2. Max(T) \in T /\ \A k \in T : k <= Max(T)
        <5> HIDE DEF T
        <5> QED BY <1>1, <4>1, MaxIn
      <4>3. CASE nbaddns + 1 <= DnsGap
        <5>1. group' = group
          BY <3>1, <4>3 DEF Lowered
        <5> QED BY <1>1, <2>1, <5>1, GroupTypes DEF LsTypes, Hosts
      <4>4. CASE ~(nbaddns + 1 <= DnsGap)
        <5>1. group' = [group EXCEPT !.last = Max(T)]
          BY <3>1, <4>4 DEF Lowered
        <5>2. Max(T) \in Members /\ h <= Max(T)
          BY <4>1, <4>2
        <5> HIDE DEF T
        <5>3. /\ Max(T) \in Hosts /\ Max(T) >= group.first /\ Max(T) <= group.last
          BY <1>1, <5>2, GroupTypes
        <5>4. /\ group' \in [first : Hosts, last : Hosts, full : Hosts]
              /\ group'.first = group.first /\ group'.last = Max(T)
          BY <1>1, <5>1, <5>3 DEF LsTypes
        <5>5. ASSUME NEW g \in Hosts, g > Max(T), g <= group.last
              PROVE  ~(states[g].ntries > 0)
          <6>1. g >= group.first
            BY <1>1, <5>3, <5>5, GroupTypes DEF Hosts
          <6>2. g \in Members
            BY <1>1, <5>5, <6>1, GroupTypes
          <6>3. g \notin T
            BY <1>1, <4>2, <5>3, <5>5 DEF Hosts
          <6> QED BY <6>2, <6>3 DEF T
        <5> QED BY <1>1, <5>2, <5>3, <5>4, <5>5, GroupTypes DEF Hosts
      <4> QED BY <4>3, <4>4
    <3>4. /\ nwithtries' \in [0..MaxTries -> Nat] /\ ngotaddr' \in Nat
          /\ \A k \in 0..MaxTries : nwithtries'[k] = Cardinality(Tried(k)')
          /\ ngotaddr' = Cardinality(Addressed')
          /\ Cardinality(Done') = Cardinality(Done) + 1 /\ Cardinality(Done) \in Nat
      BY <2>1, <2>2, <2>3, <3>2, Answer
    <3>5. LsTypes'
      <4>1. nbaddns' \in Nat /\ ndone' \in Nat
        BY <1>1, <3>1 DEF LsTypes
      <4>2. /\ server' \in [Hosts -> Peers] /\ fd2state' \in [Fds -> Hosts]
            /\ asked' \in [Hosts -> Nat]
        BY <1>1, <3>1 DEF LsTypes
      <4> QED BY <1>2, <2>2, <3>2, <3>3, <3>4, <4>1, <4>2 DEF LsTypes
    <3>6. Counted'
      BY <1>1, <3>1, <3>4 DEF LsInv, LsTypes, Counted, Socketless
    <3>7. ASSUME NEW g \in Hosts PROVE HostKnown(g)'
      <4>1. CASE g = h
        <5>1. h >= group'.first /\ ~(h > group'.last) /\ ~(h < group'.first)
          BY <1>1, <2>1, <3>3, GroupTypes DEF Hosts
        <5> QED BY <2>1, <3>1, <3>2, <4>1, <5>1 DEF HostKnown
      <4>2. CASE g # h
        <5>1. g > group'.last => states[g].status = "lookup" /\ states[g].ntries = 0
          <6>1. g \in Nat /\ group.last \in Nat /\ states[g].ntries \in Nat
            BY <1>1, HostTypes, GroupTypes
          <6>2. g > group'.last /\ g <= group.last => ~(states[g].ntries > 0)
            BY <3>3
          <6> QED BY <2>3, <4>2, <6>1, <6>2 DEF HostKnown
        <5>2. /\ states'[g] = states[g] /\ server'[g] = server[g] /\ asked'[g] = asked[g]
              /\ polled'.result # g /\ HostKnown(g)
              /\ states[g].status = "lookup" /\ states[g].ntries > 0 => asked[g] > 0
          BY <1>1, <1>2, <2>3, <3>1, <4>2, HostTypes
        <5> QED BY <3>3, <5>1, <5>2 DEF HostKnown
      <4> QED BY <4>1, <4>2
    <3> QED BY <3>5, <3>6, <3>7 DEF LsInv
  <2>5. CASE Connect(h)
    <3> DEFINE fd == Min(Fds \ {states[g].fd : g \in Hosts})
    <3>1. fd \in Fds
      BY <2>1, FreeDescriptor
    <3>2. /\ UNCHANGED <<nbaddns, group>>
          /\ \/ /\ states' = [states EXCEPT ![h].status = "connecting", ![h].fd = fd]
                /\ fd2state' = [fd2state EXCEPT ![fd] = h]
                /\ server' = [server EXCEPT ![h].conn = "syn"]
                /\ UNCHANGED ndone
             \/ /\ states' = [states EXCEPT ![h] = Closed(@)]
                /\ ndone' = ndone + 1
                /\ server' = [server EXCEPT ![h].conn = "refused"]
                /\ UNCHANGED fd2state
             \/ /\ states' = [states EXCEPT ![h].status = "done"]
                /\ server' = [server EXCEPT ![h].conn = "nosocket"]
                /\ UNCHANGED <<ndone, fd2state>>
      BY <2>5 DEF Connect
    <3> HIDE DEF fd
    <3>3. /\ states' \in [Hosts -> HostStates]
          /\ states'[h].up = states[h].up /\ states'[h].ntries = states[h].ntries
          /\ \/ /\ states'[h].status = "connecting" /\ states'[h].fd = fd
                /\ server'[h].conn = "syn" /\ ndone' = ndone
             \/ /\ states'[h].status = "done" /\ states'[h].fd = 0
                /\ server'[h].conn = "refused" /\ ndone' = ndone + 1
             \/ /\ states'[h].status = "done" /\ states'[h].fd = 0
                /\ server'[h].conn = "nosocket" /\ ndone' = ndone
      <4>1. CASE states' = [states EXCEPT ![h].status = "connecting", ![h].fd = fd]
                 /\ server' = [server EXCEPT ![h].conn = "syn"] /\ ndone' = ndone
        <5> DEFINE s == [states[h] EXCEPT !.status = "connecting"]
        <5>1. /\ s \in HostStates /\ s.status = "connecting" /\ s.up = states[h].up
              /\ s.ntries = states[h].ntries
          BY <2>1 DEF HostStates, Statuses
        <5>2. states' = [states EXCEPT ![h] = [s EXCEPT !.fd = fd]]
          BY <1>1, <2>1, <4>1 DEF LsTypes
        <5>3. fd \in 0..N
          BY <1>1, <3>1 DEF Fds
        <5> HIDE DEF s
        <5>4. /\ [s EXCEPT !.fd = fd] \in HostStates /\ [s EXCEPT !.fd = fd].status = "connecting"
              /\ [s EXCEPT !.fd = fd].fd = fd /\ [s EXCEPT !.fd = fd].up = s.up
              /\ [s EXCEPT !.fd = fd].ntries = s.ntries
          BY <5>1, <5>3 DEF HostStates
        <5>5. server'[h].conn = "syn"
          BY <1>1, <2>1, <4>1 DEF LsTypes, Peers
        <5>6. states'[h] = [s EXCEPT !.fd = fd] /\ states' \in [Hosts -> HostStates]
          BY <1>1, <2>1, <5>2, <5>4 DEF LsTypes
        <5> QED BY <4>1, <5>1, <5>4, <5>5, <5>6
      <4>2. CASE states' = [states EXCEPT ![h] = Closed(@)]
                 /\ server' = [server EXCEPT ![h].conn = "refused"] /\ ndone' = ndone + 1
        <5>1. states'[h] = Closed(states[h])
          BY <1>1, <2>1, <4>2 DEF LsTypes
        <5>2. Closed(states[h]) \in HostStates
          BY <1>1, <2>1, ClosedHost
        <5>3. states' \in [Hosts -> HostStates]
          BY <1>1, <2>1, <4>2, <5>2 DEF LsTypes
        <5>4. server'[h].conn = "refused"
          BY <1>1, <2>1, <4>2 DEF LsTypes, Peers
        <5> QED BY <1>1, <2>1, <4>2, <5>1, <5>3, <5>4, ClosedHost
      <4>3. CASE states' = [states EXCEPT ![h].status = "done"]
                 /\ server' = [server EXCEPT ![h].conn = "nosocket"] /\ ndone' = ndone
        BY <1>1, <2>1, <4>3 DEF LsTypes, HostStates, Statuses, Peers
      <4> QED BY <3>2, <4>1, <4>2, <4>3
    <3>4. /\ server' \in [Hosts -> Peers] /\ fd2state' \in [Fds -> Hosts]
          /\ \A g \in Hosts \ {h} : server'[g] = server[g]
      <4>1. server \in [Hosts -> Peers] /\ fd2state \in [Fds -> Hosts]
        BY <1>1 DEF LsTypes
      <4>2. fd2state' \in [Fds -> Hosts]
        BY <2>1, <3>1, <3>2, <4>1
      <4>3. PICK c \in {"syn", "refused", "nosocket"} : server' = [server EXCEPT ![h].conn = c]
        BY <3>2
      <4>4. [server[h] EXCEPT !.conn = c] \in Peers
        BY <2>1 DEF Peers
      <4> QED BY <2>1, <4>1, <4>2, <4>3, <4>4
    <3>5. /\ nwithtries' \in [0..MaxTries -> Nat] /\ ngotaddr' \in Nat
          /\ \A k \in 0..MaxTries : nwithtries'[k] = Cardinality(Tried(k)')
          /\ ngotaddr' = Cardinality(Addressed')
          /\ Done' = IF states'[h].status = "done" THEN Done \cup {h} ELSE Done
          /\ Cardinality(Done \cup {h}) = Cardinality(Done) + 1 /\ Cardinality(Done) \in Nat
      BY <2>1, <2>2, <2>3, <3>3, Answer
    <3>6. LsTypes'
      <4>1. ndone' \in Nat
        BY <1>1, <3>3 DEF LsTypes
      <4>2. /\ nbaddns' \in Nat /\ asked' \in [Hosts -> Nat]
            /\ group' \in [first : Hosts, last : Hosts, full : Hosts]
            /\ group'.first <= group'.last
        BY <1>1, <3>2 DEF LsTypes
      <4> QED BY <1>2, <2>2, <3>3, <3>4, <3>5, <4>1, <4>2 DEF LsTypes
    <3>7. ~Socketless' => ~Socketless
      <4>1. server[h].conn # "nosocket"
        BY <2>1 DEF LsInv, HostKnown
      <4> QED BY <3>4, <4>1 DEF Socketless
    <3>8. Counted'
      BY <1>1, <2>1, <3>3, <3>5, <3>7 DEF LsInv, LsTypes, Counted, Socketless
    <3>9. ASSUME NEW g \in Hosts PROVE HostKnown(g)'
      <4>1. CASE g = h
        <5>1. ~(h > group.last) /\ ~(h < group.first) /\ fd # 0
          BY <1>1, <2>1, <3>1, GroupTypes DEF Hosts, Fds
        <5> QED BY <2>1, <3>2, <3>3, <4>1, <5>1 DEF HostKnown
      <4>2. CASE g # h
        <5>1. /\ states'[g] = states[g] /\ server'[g] = server[g] /\ asked'[g] = asked[g]
              /\ polled'.result # g /\ HostKnown(g) /\ group' = group
              /\ states[g].status = "lookup" /\ states[g].ntries > 0 => asked[g] > 0
          BY <1>1, <1>2, <2>3, <3>2, <3>4, <4>2, HostTypes
        <5> QED BY <5>1 DEF HostKnown
      <4> QED BY <4>1, <4>2
    <3> QED BY <3>6, <3>8, <3>9 DEF LsInv
  <2> QED BY <2>2, <2>4, <2>5
<1> QED BY <1>4, <1>5, <1>6

\* What an event makes of a host: a host that is up has read all three packets.
LEMMA HandledHost ==
    ASSUME Options, NEW s \in HostStates, NEW p \in Peers,
           s.status = "rest" => s.got = 2,
           s.up => s.status = "done",
           s.status \in {"lookup", "done"} <=> s.fd = 0,
           NEW t, t = Handled(s, p)
    PROVE  /\ t \in HostStates /\ t.ntries = s.ntries
           /\ t.status = "rest" => t.got = 2
           /\ t.up => t.status = "done" /\ (s.up \/ (Compile => p.sent = 3))
           /\ t.status \in {"lookup", "done"} <=> t.fd = 0
           /\ t.status = "lookup" <=> s.status = "lookup"
           /\ s.status \in {"lookup", "done"} => t = s
           /\ t.status = "donepkt" /\ s.status # "donepkt" => s.status = "connecting"
<1> DEFINE u == [s EXCEPT !.up = TRUE]
<1>1. /\ N \in Nat /\ s.status \in Statuses /\ p.sent \in 0..3 /\ s.got \in 0..2
      /\ u \in HostStates /\ u.ntries = s.ntries /\ u.got = s.got
  BY DEF HostStates, Peers, Options
<1>2. /\ Closed(s) \in HostStates /\ Closed(s).status = "done" /\ Closed(s).fd = 0
      /\ Closed(s).ntries = s.ntries /\ Closed(s).up = s.up
      /\ Closed(u) \in HostStates /\ Closed(u).status = "done" /\ Closed(u).fd = 0
      /\ Closed(u).ntries = s.ntries
  BY <1>1, ClosedHost
<1>3. CASE s.status \in {"lookup", "done"}
  BY <1>3 DEF Handled, Reading
<1>4. CASE t = Closed(s) /\ s.status \in {"connecting", "donepkt", "statpkt", "rest"}
  <2> QED BY <1>2, <1>4
<1>5. CASE t = Closed(u) /\ s.status \in {"connecting", "rest"} /\ (Compile => p.sent = 3)
  <2> HIDE DEF u
  <2> QED BY <1>2, <1>5
<1>6. CASE s.status = "connecting"
  <2>1. CASE t = [s EXCEPT !.status = "donepkt"]
    <3> QED BY <1>1, <1>6, <2>1 DEF HostStates, Statuses
  <2>2. \/ t = Closed(s)
        \/ t = Closed(u) /\ ~Compile
        \/ t = [s EXCEPT !.status = "donepkt"]
    <3>1. t = IF p.conn = "refused" THEN Closed(s)
              ELSE IF ~Compile THEN Closed(u)
              ELSE IF p.conn = "accepted" THEN [s EXCEPT !.status = "donepkt"]
              ELSE Closed(s)
      BY <1>6 DEF Handled, Reading
    <3> QED BY <3>1
  <2> HIDE DEF u
  <2> QED BY <1>4, <1>5, <1>6, <2>1, <2>2
<1>7. CASE s.status \in {"donepkt", "statpkt", "rest"}
  <2>1. t = Packet(s, p)
    BY <1>7 DEF Handled, Reading
  <2>2. CASE p.sent <= s.got
    <3>1. t = Closed(s)
      BY <2>1, <2>2 DEF Packet
    <3> QED BY <1>4, <1>7, <3>1
  <2>3. CASE ~(p.sent <= s.got) /\ s.status = "donepkt"
    <3>1. t = [s EXCEPT !.status = "statpkt", !.got = 1]
      BY <2>1, <2>3 DEF Packet
    <3>2. /\ t \in HostStates /\ t.status = "statpkt" /\ t.ntries = s.ntries /\ t.up = s.up
          /\ t.fd = s.fd
      <4> DEFINE v == [s EXCEPT !.status = "statpkt"]
      <4>1. /\ v \in HostStates /\ v.status = "statpkt" /\ v.ntries = s.ntries /\ v.up = s.up
            /\ v.fd = s.fd
        BY DEF HostStates, Statuses
      <4>2. t = [v EXCEPT !.got = 1]
        BY <3>1
      <4> HIDE DEF v
      <4> QED BY <4>1, <4>2 DEF HostStates
    <3> QED BY <2>3, <3>2
  <2>4. CASE ~(p.sent <= s.got) /\ s.status = "statpkt"
    <3>1. t = [s EXCEPT !.status = "rest", !.got = 2]
      BY <2>1, <2>4 DEF Packet
    <3>2. /\ t \in HostStates /\ t.status = "rest" /\ t.ntries = s.ntries /\ t.up = s.up
          /\ t.fd = s.fd /\ t.got = 2
      <4> DEFINE v == [s EXCEPT !.status = "rest"]
      <4>1. /\ v \in HostStates /\ v.status = "rest" /\ v.ntries = s.ntries /\ v.up = s.up
            /\ v.fd = s.fd
        BY DEF HostStates, Statuses
      <4>2. t = [v EXCEPT !.got = 2]
        BY <3>1
      <4> HIDE DEF v
      <4> QED BY <4>1, <4>2 DEF HostStates
    <3> QED BY <2>4, <3>2
  <2>5. CASE ~(p.sent <= s.got) /\ s.status = "rest"
    <3>1. t = Closed(u)
      BY <2>1, <2>5 DEF Packet
    <3>2. p.sent = 3
      BY <1>1, <2>5
    <3> HIDE DEF u
    <3> QED BY <1>5, <2>5, <3>1, <3>2
  <2> QED BY <1>7, <2>2, <2>3, <2>4, <2>5
<1>8. s.status \in {"lookup", "done"} \/ s.status = "connecting"
        \/ s.status \in {"donepkt", "statpkt", "rest"}
  BY <1>1 DEF Statuses
<1> QED BY <1>3, <1>6, <1>7, <1>8

LEMMA EventsStep ==
    ASSUME Options, LsInv, Events
    PROVE  LsInv'
<1> DEFINE served == {fd2state[fd] : fd \in polled.events}
           after == [h \in Hosts |-> IF h \in served THEN Handled(states[h], server[h])
                                        ELSE states[h]]
           over == {h \in served : after[h].status = "done" /\ states[h].status # "done"}
           begun == {h \in served : after[h].status = "donepkt" /\ states[h].status # "donepkt"}
<1>1. /\ pc = "events" /\ pc' = "poll" /\ states' = after
      /\ server' = [h \in Hosts |-> IF h \in begun THEN [server[h] EXCEPT !.conn = "asked"]
                                       ELSE server[h]]
      /\ polled' = NothingPolled
      /\ UNCHANGED <<nwithtries, ngotaddr, nbaddns, fd2state, group, asked>>
  BY DEF Events
<1>2. ndone' = ndone + Cardinality(over)
  <2>1. ndone' = ndone + Cardinality(over)
    BY DEF Events
  <2> HIDE DEF over
  <2> QED BY <2>1
<1>3. LsTypes /\ served \subseteq Hosts
  BY DEF LsInv, LsTypes
<1>4. \A h \in Hosts :
        /\ after[h] \in HostStates /\ after[h].ntries = states[h].ntries
        /\ after[h].status = "rest" => after[h].got = 2
        /\ after[h].up => after[h].status = "done" /\ (Compile => server[h].sent = 3)
        /\ after[h].status \in {"lookup", "done"} <=> after[h].fd = 0
        /\ after[h].status = "lookup" <=> states[h].status = "lookup"
        /\ states[h].status \in {"lookup", "done"} => after[h] = states[h]
        /\ h \in begun => states[h].status = "connecting"
  <2> TAKE h \in Hosts
  <2>1. /\ states[h] \in HostStates /\ server[h] \in Peers
        /\ states[h].status = "rest" => states[h].got = 2
        /\ states[h].up => states[h].status = "done" /\ (Compile => server[h].sent = 3)
        /\ states[h].status \in {"lookup", "done"} <=> states[h].fd = 0
    BY <1>3, HostTypes DEF LsInv, HostKnown
  <2>2. CASE h \in served
    <3>1. after[h] = Handled(states[h], server[h])
      BY <2>2
    <3>2. h \in begun => after[h].status = "donepkt" /\ states[h].status # "donepkt"
      OBVIOUS
    <3> HIDE DEF after, served, begun
    <3> QED BY <2>1, <3>1, <3>2, HandledHost
  <2>3. CASE h \notin served
    <3>1. after[h] = states[h] /\ h \notin begun
      BY <2>3
    <3> HIDE DEF after, begun
    <3> QED BY <2>1, <3>1
  <2> QED BY <2>2, <2>3
<1>5. /\ over \subseteq Hosts
      /\ \A h \in Hosts : after[h].status = "done" <=> states[h].status = "done" \/ h \in over
      /\ \A h \in over : states[h].status # "done"
  <2>1. over \subseteq Hosts
    BY <1>3
  <2>2. ASSUME NEW h \in Hosts
        PROVE  after[h].status = "done" <=> states[h].status = "done" \/ h \in over
    <3>1. h \notin served => after[h] = states[h]
      OBVIOUS
    <3>2. states[h].status = "done" => after[h].status = "done"
      BY <1>4
    <3>3. h \in over => after[h].status = "done"
      OBVIOUS
    <3>4. h \in served /\ after[h].status = "done" /\ states[h].status # "done" => h \in over
      OBVIOUS
    <3> HIDE DEF over, after, served
    <3> QED BY <3>1, <3>2, <3>3, <3>4
  <2>3. \A h \in over : states[h].status # "done"
    OBVIOUS
  <2> QED BY <2>1, <2>2, <2>3
<1>6. states' \in [Hosts -> HostStates]
  <2>1. after \in [Hosts -> HostStates]
    BY <1>4
  <2> QED BY <1>1, <2>1
<1> HIDE DEF after, over, begun, served
<1>7. /\ server' \in [Hosts -> Peers]
      /\ \A h \in Hosts : /\ server'[h].sent = server[h].sent
                          /\ server'[h].conn = "nosocket" <=> server[h].conn = "nosocket"
  <2>1. ASSUME NEW h \in Hosts
        PROVE  /\ server'[h] \in Peers /\ server'[h].sent = server[h].sent
               /\ server'[h].conn = "nosocket" <=> server[h].conn = "nosocket"
    <3>1. server[h] \in Peers
      BY <1>3, HostTypes
    <3>2. CASE h \in begun
      <4>1. server'[h] = [server[h] EXCEPT !.conn = "asked"]
        BY <1>1, <3>2
      <4>2. server[h].conn # "nosocket"
        BY <1>4, <3>2 DEF LsInv, HostKnown
      <4> QED BY <3>1, <4>1, <4>2 DEF Peers
    <3>3. CASE h \notin begun
      BY <1>1, <3>1, <3>3
    <3> QED BY <3>2, <3>3
  <2> QED BY <1>1, <2>1
<1>8. /\ polled' \in [events : SUBSET Fds, result : 0..N, lookup : BOOLEAN]
      /\ polled'.result = 0 /\ polled.result = 0
  <2>1. 0 \in 0..N
    BY DEF Options
  <2> QED BY <1>1, <1>3, <2>1 DEF NothingPolled, LsTypes
<1>9. /\ \A k \in 0..MaxTries : Tried(k)' = Tried(k)
      /\ Addressed' = Addressed /\ Done' = Done \cup over /\ Done \cap over = {}
      /\ Socketless' <=> Socketless
  <2>1. \A h \in Hosts : /\ states'[h].status = "lookup" <=> states[h].status = "lookup"
                         /\ states'[h].ntries = states[h].ntries
    BY <1>1, <1>4
  <2>2. \A k \in 0..MaxTries : Tried(k)' = Tried(k)
    BY <2>1 DEF Tried
  <2>3. Addressed' = Addressed
    BY <2>1 DEF Addressed
  <2>4. Done' = Done \cup over /\ Done \cap over = {}
    BY <1>1, <1>5 DEF Done
  <2>5. Socketless' <=> Socketless
    BY <1>7 DEF Socketless
  <2> QED BY <2>2, <2>3, <2>4, <2>5
<1>10. /\ Cardinality(Done') = Cardinality(Done) + Cardinality(over)
       /\ Cardinality(Done) \in Nat /\ Cardinality(over) \in Nat
  BY <1>5, <1>9, Counting DEF Done
<1>11. LsTypes'
  <2>1. ndone' \in Nat
    BY <1>2, <1>3, <1>10 DEF LsTypes
  <2> QED BY <1>1, <1>3, <1>6, <1>7, <1>8, <2>1 DEF LsTypes
<1>12. Counted'
  BY <1>1, <1>2, <1>3, <1>9, <1>10 DEF LsInv, LsTypes, Counted
<1>13. ASSUME NEW h \in Hosts PROVE HostKnown(h)'
  <2>1. HostKnown(h) /\ states'[h] = after[h] /\ asked'[h] = asked[h] /\ group' = group
    BY <1>1 DEF LsInv
  <2> QED BY <1>4, <1>7, <1>8, <2>1 DEF HostKnown
<1> QED BY <1>11, <1>12, <1>13 DEF LsInv

LEMMA ServerStep ==
    ASSUME Options, LsInv, NEW h \in Hosts, ServerActs(h)
    PROVE  LsInv'
<1>1. /\ UNCHANGED <<states, nwithtries, ngotaddr, nbaddns, ndone, fd2state, group, pc, polled, asked>>
      /\ states[h].status # "done"
  BY DEF ServerActs, loopVars
<1>2. LsTypes /\ server[h] \in Peers /\ ~states[h].up /\ server[h].conn # "nosocket"
  BY <1>1, HostTypes DEF LsInv, HostKnown
<1>3. /\ server' \in [Hosts -> Peers] /\ server'[h].conn # "nosocket"
      /\ \A g \in Hosts \ {h} : server'[g] = server[g]
  <2>1. ASSUME NEW c \in {"accepted", "refused"}, server' = [server EXCEPT ![h].conn = c]
        PROVE  server' \in [Hosts -> Peers] /\ server'[h].conn # "nosocket"
    <3>1. [server[h] EXCEPT !.conn = c] \in Peers /\ [server[h] EXCEPT !.conn = c].conn = c
      BY <1>2 DEF Peers
    <3> QED BY <1>2, <2>1, <3>1 DEF LsTypes
  <2>2. CASE server[h].sent < 3 /\ server' = [server EXCEPT ![h].sent = @ + 1]
    <3>1. /\ [server[h] EXCEPT !.sent = @ + 1] \in Peers
          /\ [server[h] EXCEPT !.sent = @ + 1].conn = server[h].conn
      BY <1>2, <2>2 DEF Peers
    <3> QED BY <1>2, <2>2, <3>1 DEF LsTypes
  <2>3. CASE server' = [server EXCEPT ![h].bad = TRUE]
    <3>1. /\ [server[h] EXCEPT !.bad = TRUE] \in Peers
          /\ [server[h] EXCEPT !.bad = TRUE].conn = server[h].conn
      BY <1>2 DEF Peers
    <3> QED BY <1>2, <2>3, <3>1 DEF LsTypes
  <2>4. \A g \in Hosts \ {h} : server'[g] = server[g]
    BY <1>2 DEF ServerActs, LsTypes
  <2> QED BY <2>1, <2>2, <2>3, <2>4 DEF ServerActs
<1>4. LsTypes'
  BY <1>1, <1>2, <1>3 DEF LsTypes
<1>5. Counted'
  <2>1. Socketless' <=> Socketless
    BY <1>2, <1>3 DEF Socketless
  <2> QED BY <1>1, <2>1 DEF LsInv, Counted, Tried, Addressed, Done
<1>6. ASSUME NEW g \in Hosts PROVE HostKnown(g)'
  BY <1>1, <1>2, <1>3 DEF LsInv, HostKnown
<1> QED BY <1>4, <1>5, <1>6 DEF LsInv

LEMMA LsStep ==
    ASSUME Options, LsInv, [LsNext]_(lsVars)
    PROVE  LsInv'
<1>1. CASE UNCHANGED lsVars
  BY <1>1 DEF lsVars, LsInv, LsTypes, Counted, Tried, Addressed, Done, Socketless, HostKnown
<1> QED BY <1>1, PollStep, NextGroupStep, ExpireStep, ResultStep, EventsStep, ServerStep
        DEF LsNext, Loop

LEMMA LsAlways ==
    ASSUME Options
    PROVE  LsSpec => []LsInv
BY LsInitInv, LsStep, PTL DEF LsSpec

\* A server is listed only if it has compiled the test program, whichever
\* answers come late, twice, or for a descriptor that another host has now.
THEOREM VouchedAlways ==
    ASSUME Options, Compile
    PROVE  LsSpec => []Vouched
<1>1. LsInv => Vouched
  BY DEF LsInv, HostKnown, Vouched
<1> QED BY <1>1, LsAlways, PTL

\* Nothing in flight adds up to nothing: the function that is 0 everywhere is one
\* that the recursion describes, and every other one equals it up to each k.
LEMMA NoLookups ==
    ASSUME Options, \A k \in 1..(MaxTries - 1) : nwithtries[k] = 0
    PROVE  Lookups[MaxTries - 1] = 0
<1> DEFINE K == 0..(MaxTries - 1)
           Sums(f) == f = [k \in K |-> IF k = 0 THEN 0 ELSE f[k - 1] + nwithtries[k]]
           zero == [k \in K |-> 0]
<1>1. MaxTries \in Nat /\ MaxTries - 1 \in K /\ K \subseteq Nat
  BY DEF Options
<1>2. Sums(zero)
  <2>1. \A k \in K : (IF k = 0 THEN 0 ELSE zero[k - 1] + nwithtries[k]) = 0
    BY <1>1
  <2> QED BY <2>1
<1>3. Lookups = CHOOSE f : Sums(f)
  BY DEF Lookups
<1>4. Sums(Lookups)
  <2> HIDE DEF Sums, zero
  <2> QED BY <1>2, <1>3
<1>5. /\ Lookups[0] = 0
      /\ \A k \in K : k # 0 => Lookups[k] = Lookups[k - 1] + nwithtries[k]
  <2>1. \A k \in K : Lookups[k] = IF k = 0 THEN 0 ELSE Lookups[k - 1] + nwithtries[k]
    BY <1>4
  <2>2. 0 \in K
    BY <1>1
  <2> QED BY <2>1, <2>2
<1> DEFINE wrong == {k \in K : Lookups[k] # 0}
<1>6. wrong = {}
  <2> SUFFICES ASSUME wrong # {} PROVE FALSE
    OBVIOUS
  <2>1. wrong \in SUBSET Nat
    BY <1>1
  <2>2. PICK m \in wrong : \A k \in wrong : m <= k
    <3> HIDE DEF wrong
    <3> QED BY <2>1, LeastNat
  <2>3. m \in K /\ m # 0 /\ m - 1 \in K
    BY <1>1, <1>5, <2>2
  <2>4. Lookups[m - 1] = 0
    BY <1>1, <2>2, <2>3
  <2> QED BY <1>1, <1>5, <2>2, <2>3, <2>4
<1> QED BY <1>1, <1>6

\* A host that waits for its name belongs to the group, and an answer is to come.
LEMMA Awaited ==
    ASSUME Options, LsInv, pc = "poll", NEW k \in 1..MaxTries, nwithtries[k] # 0
    PROVE  \E h \in Members : states[h].status = "lookup" /\ asked[h] > 0
<1>1. LsTypes /\ polled.result = 0 /\ k \in 0..MaxTries
  BY DEF LsInv, LsTypes, Options
<1>2. Tried(k) # {}
  <2>1. Cardinality(Tried(k)) # 0 /\ Tried(k) \in SUBSET Hosts
    BY <1>1 DEF LsInv, Counted, Tried
  <2> QED BY <2>1, Counting
<1>3. PICK h \in Hosts : states[h].status = "lookup" /\ states[h].ntries = k
  BY <1>2 DEF Tried
<1>4. h \in Nat /\ h # 0 /\ states[h].ntries > 0 /\ states[h].ntries # 0
  BY <1>1, <1>3, HostTypes
<1>5. asked[h] > 0
  BY <1>1, <1>3, <1>4 DEF LsInv, HostKnown
<1>6. ~(h < group.first) /\ ~(h > group.last)
  BY <1>3, <1>4 DEF LsInv, HostKnown
<1>7. h \in Members
  BY <1>1, <1>4, <1>6, GroupTypes
<1> QED BY <1>3, <1>5, <1>7

\* The search never waits for nothing, for any number of hosts, descriptors and
\* tries: a host that is missing has a deadline, an answer to come, or its turn.
THEOREM NeverIdleAlways ==
    ASSUME Options
    PROVE  LsSpec => []NeverIdle
<1>1. ASSUME LsInv PROVE NeverIdle
  <2> SUFFICES ASSUME pc = "poll", ndone < group.last,
                      \A h \in Hosts : server[h].conn # "nosocket"
               PROVE  \E h \in Members :
                        \/ states[h].status \in Reading \cup {"connecting"}
                        \/ states[h].status = "lookup" /\ states[h].ntries \in 1..(MaxTries - 1)
                        \/ states[h].status = "lookup" /\ asked[h] > 0
                        \/ h \in Fresh /\ Welcome
    BY DEF NeverIdle
  <2>1. /\ LsTypes /\ polled.result = 0 /\ ndone = Cardinality(Done)
        /\ group.last \in 1..N /\ N \in Nat
    BY <1>1, GroupTypes DEF LsInv, LsTypes, Counted, Socketless, Options
  <2>2. /\ 1..group.last \in SUBSET Hosts /\ Cardinality(1..group.last) = group.last
        /\ Done \in SUBSET Hosts
    <3>1. group.last \in 0..N
      BY <2>1
    <3>2. 1..group.last \in SUBSET Hosts
      BY <2>1 DEF Hosts
    <3> QED BY <3>1, <3>2, Counting DEF Done
  <2>3. PICK h \in 1..group.last : h \notin Done
    <3> SUFFICES ASSUME \A h \in 1..group.last : h \in Done PROVE FALSE
      OBVIOUS
    <3>1. 1..group.last \in SUBSET Done
      OBVIOUS
    <3>2. Cardinality(1..group.last) <= Cardinality(Done)
      BY <2>2, <3>1, Counting
    <3> QED BY <2>1, <2>2, <3>2 DEF LsTypes
  <2>4. h \in Hosts /\ states[h].status # "done" /\ h \in Members
    <3>1. h \in Hosts /\ states[h].status # "done"
      BY <2>2, <2>3 DEF Done
    <3>2. ~(h < group.first) /\ h <= group.last
      BY <1>1, <2>1, <3>1 DEF LsInv, HostKnown
    <3> QED BY <2>1, <3>1, <3>2, GroupTypes DEF Hosts
  <2>5. CASE states[h].status # "lookup"
    <3>1. states[h].status \in Reading \cup {"connecting"}
      BY <2>1, <2>4, <2>5, HostTypes DEF Statuses, Reading
    <3> QED BY <2>4, <3>1
  <2>6. CASE states[h].status = "lookup" /\ states[h].ntries > 0
    <3>1. asked[h] > 0
      BY <1>1, <2>1, <2>4, <2>6, HostTypes DEF LsInv, HostKnown
    <3> QED BY <2>4, <2>6, <3>1
  <2>7. CASE states[h].status = "lookup" /\ ~(states[h].ntries > 0)
    <3>1. h \in Fresh
      BY <2>1, <2>4, <2>7, HostTypes DEF Fresh
    <3>2. ASSUME NEW k \in 1..MaxTries, nwithtries[k] # 0
          PROVE  \E g \in Members : states[g].status = "lookup" /\ asked[g] > 0
      BY <1>1, <3>2, Awaited
    <3>3. CASE \E k \in 1..MaxTries : nwithtries[k] # 0
      BY <3>2, <3>3
    <3>4. CASE \A k \in 1..MaxTries : nwithtries[k] = 0
      <4>1. MaxTries \in Nat \ {0} /\ Overlap \in Nat
        BY DEF Options
      <4>2. Lookups[MaxTries - 1] = 0 /\ nwithtries[1] = 0
        BY <3>4, <4>1, NoLookups
      <4>3. ngotaddr < group.last
        <5>1. Addressed \in SUBSET (1..group.last)
          <6> SUFFICES ASSUME NEW g \in Addressed PROVE g \in 1..group.last
            OBVIOUS
          <6>1. g \in Hosts /\ ~(g > group.last)
            BY <1>1 DEF Addressed, LsInv, HostKnown
          <6> QED BY <2>1, <6>1 DEF Hosts
        <5>2. h \notin Addressed
          BY <2>7 DEF Addressed
        <5>3. /\ Cardinality(Addressed) <= Cardinality(1..group.last)
              /\ Cardinality(Addressed) # Cardinality(1..group.last)
          BY <2>2, <2>3, <5>1, <5>2, Counting
        <5> QED BY <1>1, <2>1, <2>2, <5>3 DEF LsInv, Counted, LsTypes
      <4>4. Welcome
        BY <2>1, <4>1, <4>2, <4>3 DEF Welcome, LsTypes
      <4> QED BY <2>4, <3>1, <4>4
    <3> QED BY <3>3, <3>4
  <2> QED BY <2>5, <2>6, <2>7
<1> QED BY <1>1, LsAlways, PTL
=============================================================================
