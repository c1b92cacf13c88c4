------------------------- MODULE DistccClientProofs ------------------------
(***************************************************************************)
(* Proofs about the processes of a client's machine.  DistccClient, for    *)
(* any number of clients and servers and any numbers of slots: first what  *)
(* a process does to itself, action by action; then the invariants; then,  *)
(* that the processes keep within the slots, as DistccSlots states it.     *)
(* IncludeAnalyzer, for any files, programs and commands: what the caches  *)
(* know of each node, and so what an answer is made of.                    *)
(***************************************************************************)
EXTENDS DistccClient, IncludeAnalyzer, FiniteSetTheorems, SequenceTheorems, WellFoundedInduction, TLAPS

----------------------------------------------------------------------------
(* The inductive invariant, on a process p.                                *)

\* The scan of the slots is at one of its hosts.
ScanOK(p) ==
    /\ p.pc = "checkHosts" => p.at \in 1..Len(HostList)
    /\ p.pc \in {"checkHosts", "pickHost"} =>
         p.list \in Seq(Servers \cup {"localhost"})
    /\ p.pc = "pickHost" => p.at \in 1..Len(p.list)
    /\ p.pc = "lockCpp" => p.list = <<"local_cpp">> /\ p.at = 1
    /\ p.pc = "lockLocal" => p.list = <<"local">> /\ p.at = 1

\* Up to the fallback, the host is a server or NULL.
Hosting == AtServer \cup {"checkHosts", "pickHost", "enjoy", "critique", "fallback"}

HostOK(p) == p.pc \in Hosting => p.host \in Servers \cup {NoHost}

\* The phases in which a process has no lock.
Unlocked == {"exited", "checkHosts", "pickHost", "lockLocal", "unlocked", "exit"}

\* The locks of every phase, those LocksMatchWork is silent on included.
LocksOK(p) ==
    /\ p.pc \in Unlocked => p.cpu = {} /\ p.local = {}
    /\ p.pc \in AtServer => p.host \in Servers /\ Slot(p.cpu, p.host)
    /\ RunsCpp(p) => Slot(p.local, "local_cpp")
    /\ p.pc \in AtServer /\ ~RunsCpp(p) => p.local = {}
    /\ p.pc = "local" =>
         p.local = {} /\ (Slot(p.cpu, "local") \/ Slot(p.cpu, "localhost"))
    /\ p.pc \in {"enjoy", "critique"} => p.local = {}
    /\ p.pc \in {"dropLocal", "unlockLocal"} => p.cpu = {}

\* From the first result on, success means an object file.
Finishing == {"enjoy", "critique", "fallback", "dropCpu", "dropLocal",
              "innocent", "note", "unlockCpu", "unlockLocal", "exit"}

ObjectOK(p) == p.pc \in Finishing /\ p.ret = "ok" => p.object \in Accepted

ProcessInv(p) ==
    /\ p \in Process
    /\ ScanOK(p)
    /\ HostOK(p)
    /\ LocksOK(p)
    /\ ObjectOK(p)
    /\ p.pc = "exited" => p = Exited

\* No lock file is held by two processes.
Exclusive ==
    \A c, d \in Clients : c # d => Held(c) \cap Held(d) = {}

Inv ==
    /\ TypeOK
    /\ \A c \in Clients : ProcessInv(client[c])
    /\ Exclusive

\* The work a process may take up: that of a first slot, without having one;
\* with the slot of a server, any at the same server.
Moves(p, q) ==
    \/ q.pc \notin AtServer \cup {"local"}
    \/ p.pc \notin AtServer \cup {"local"} /\ q.pc \in {"lockCpp", "local"}
    \/ p.pc \in AtServer /\ q.pc \in AtServer /\ p.host = q.host

\* A step of the process in place c: it keeps its invariant, and a lock that
\* it did not have is one it may take.
Continues(c) ==
    \E p : /\ Become(c, p)
           /\ ProcessInv(p) /\ Moves(client[c], p)
           /\ \A f \in p.cpu \cup p.local : f \in Held(c) \/ MayLock(c, f)

----------------------------------------------------------------------------
(* Helpers of the actions.                                                 *)

LEMMA HostNames ==
    /\ Servers \subseteq AllHosts
    /\ {"local", "local_cpp", "localhost"} \subseteq AllHosts
    /\ Servers \cap {"local", "local_cpp", "localhost"} = {}
    /\ NoHost \notin AllHosts
BY DistccClientAssumption DEF AllHosts, LocalHosts

LEMMA SlotType ==
    ASSUME NEW h \in AllHosts, NEW i \in Nat, i < NSlots[h]
    PROVE  /\ LockFile(h, i) \in LockFiles
           /\ Slot({LockFile(h, i)}, h)
<1>1. NSlots[h] \in Nat /\ i \in 0..(NSlots[h] - 1)
  BY DistccClientAssumption
<1> QED BY <1>1 DEF LockFiles, Slot

LEMMA ExitedType == Exited \in Process /\ ProcessInv(Exited)
<1>1. <<>> \in Seq(AllHosts)
  OBVIOUS
<1>2. Exited \in Process
  BY <1>1 DEF Exited, Process, Pcs, FileOrNone
<1> QED
  BY <1>2 DEF Exited, ProcessInv, ScanOK, HostOK, LocksOK, ObjectOK, Unlocked,
              AtServer, RunsCpp, Finishing, Hosting, Moves

\* What a new phase leaves alone.
SameWork(p, q) ==
    /\ q.host = p.host /\ q.cpu = p.cpu /\ q.local = p.local
    /\ q.cppFailed = p.cppFailed /\ q.remote = p.remote
    /\ q.ret = p.ret /\ q.object = p.object

LEMMA GotoType ==
    ASSUME NEW p \in Process, NEW pc \in Pcs, NEW q, q = [p EXCEPT !.pc = pc]
    PROVE  /\ q \in Process
           /\ q.pc = pc /\ q.list = p.list /\ q.at = p.at /\ q.slot = p.slot
           /\ SameWork(p, q)
BY DEF Process, SameWork

LEMMA GotoStep ==
    ASSUME NEW c \in Clients, client[c] \in Process, NEW pc \in Pcs, Goto(c, pc)
    PROVE  \E q \in Process :
             /\ Become(c, q)
             /\ q.pc = pc /\ q.list = client[c].list /\ q.at = client[c].at
             /\ SameWork(client[c], q)
BY GotoType DEF Goto

\* A new phase of a process that looks for slots on the hosts in list.
LEMMA ScanForType ==
    ASSUME NEW p \in Process, NEW list \in Seq(AllHosts), NEW pc \in Pcs,
           NEW q, q = ScanFor(p, list, pc)
    PROVE  /\ q \in Process
           /\ q.pc = pc /\ q.list = list /\ q.at = 1 /\ q.slot = 0
           /\ SameWork(p, q)
<1> DEFINE r(at, slot) ==
             [p EXCEPT !.pc = pc, !.list = list, !.at = at, !.slot = slot]
<1>1. \A at \in Nat \ {0}, slot \in Nat : r(at, slot) \in Process
  BY DEF Process
<1>2. \A at \in Nat \ {0}, slot \in Nat :
        /\ r(at, slot).pc = pc /\ r(at, slot).list = list
        /\ r(at, slot).at = at /\ r(at, slot).slot = slot
  BY DEF Process
<1>3. \A at \in Nat \ {0}, slot \in Nat : SameWork(p, r(at, slot))
  BY DEF Process, SameWork
<1>4. q = r(1, 0)
  BY DEF ScanFor
<1> HIDE DEF r
<1> QED BY <1>1, <1>2, <1>3, <1>4

LEMMA ScanForStep ==
    ASSUME NEW c \in Clients, NEW p \in Process, NEW list \in Seq(AllHosts),
           NEW pc \in Pcs, Become(c, ScanFor(p, list, pc))
    PROVE  \E q \in Process :
             /\ Become(c, q)
             /\ q.pc = pc /\ q.list = list /\ q.at = 1
             /\ SameWork(p, q)
<1>1. PICK q : q = ScanFor(p, list, pc)
  OBVIOUS
<1>2. q \in Process /\ q.pc = pc /\ q.list = list /\ q.at = 1 /\ SameWork(p, q)
  BY <1>1, ScanForType
<1> QED BY <1>1, <1>2

LEMMA ScanOneStep ==
    ASSUME NEW c \in Clients, NEW p \in Process, NEW h \in AllHosts,
           NEW pc \in Pcs, Become(c, ScanFor(p, <<h>>, pc))
    PROVE  \E q \in Process :
             /\ Become(c, q)
             /\ q.pc = pc /\ q.list = <<h>> /\ q.at = 1
             /\ SameWork(p, q)
<1>1. PICK list : list = <<h>>
  OBVIOUS
<1>2. list \in Seq(AllHosts)
  BY <1>1
<1>3. Become(c, ScanFor(p, list, pc))
  BY <1>1
<1>4. PICK q \in Process : /\ Become(c, q)
                           /\ q.pc = pc /\ q.list = list /\ q.at = 1
                           /\ SameWork(p, q)
  BY <1>2, <1>3, ScanForStep
<1> QED BY <1>1, <1>4

\* The end of a build keeps the locks it has still to release, and the result.
LEMMA EndTypes ==
    ASSUME NEW p \in Process, NEW q \in {UnlockAndCleanUp(p), CleanUp(p)}
    PROVE  /\ q \in Process
           /\ q.pc \in {"unlockCpu", "exit"}
           /\ q.pc = "exit" => q.cpu = {} /\ q.local = {}
           /\ q.cpu \subseteq p.cpu /\ q.local \subseteq p.local
           /\ q.ret = p.ret /\ q.object = p.object
<1>1. /\ p.cpu \in FileOrNone /\ p.local \in FileOrNone
      /\ p.ret \in {"ok", "scanned", "failed", "crashed"} /\ p.object \in {"none", "made", "unread"}
  BY DEF Process
<1>2. <<>> \in Seq(AllHosts) /\ {} \in FileOrNone
  BY DEF FileOrNone
<1>3. CASE q = UnlockAndCleanUp(p)
  <2>1. q = [pc |-> "unlockCpu", list |-> <<>>, at |-> 1, slot |-> 0, host |-> NoHost,
             cpu |-> p.cpu, local |-> p.local, cppFailed |-> FALSE,
             remote |-> "none", ret |-> p.ret, object |-> p.object]
    BY <1>3 DEF UnlockAndCleanUp, Exited
  <2> QED BY <1>1, <1>2, <2>1 DEF Process, Pcs
<1>4. CASE q = CleanUp(p)
  <2>1. q = [pc |-> "exit", list |-> <<>>, at |-> 1, slot |-> 0, host |-> NoHost,
             cpu |-> {}, local |-> {}, cppFailed |-> FALSE,
             remote |-> "none", ret |-> p.ret, object |-> p.object]
    BY <1>4 DEF CleanUp, Exited
  <2> QED BY <1>1, <1>2, <2>1 DEF Process, Pcs
<1> QED BY <1>3, <1>4

\* Phases that say nothing of locks or of the scan.
LEMMA EndInv ==
    ASSUME NEW p \in Process, p.ret = "ok" => p.object \in Accepted,
           NEW q \in {UnlockAndCleanUp(p), CleanUp(p)}
    PROVE  ProcessInv(q)
BY EndTypes DEF ProcessInv, ScanOK, HostOK, LocksOK, ObjectOK, Unlocked, AtServer,
   RunsCpp, Finishing, Hosting, Moves

LEMMA FallbackInv ==
    ASSUME NEW p \in Process, p.pc = "fallback", p.ret = "ok" => p.object \in Accepted,
           p.host \in Servers \cup {NoHost}
    PROVE  ProcessInv(p)
BY DEF ProcessInv, ScanOK, HostOK, LocksOK, ObjectOK, Unlocked, AtServer, RunsCpp,
   Finishing, Hosting, Moves

\* A process that has failed falls back with the locks it has.
LEMMA FailStep ==
    ASSUME NEW c \in Clients, client[c] \in Process, Fail(c, "fallback"),
           client[c].host \in Servers \cup {NoHost}
    PROVE  Continues(c)
<1>1. PICK p : p = [client[c] EXCEPT !.ret = "failed"]
  OBVIOUS
<1>2. p \in Process /\ p.ret = "failed" /\ p.cpu = client[c].cpu
      /\ p.local = client[c].local /\ p.host = client[c].host
  BY <1>1 DEF Process
<1>3. <<>> \in Seq(AllHosts) /\ "fallback" \in Pcs
  BY DEF Pcs
<1>4. Become(c, ScanFor(p, <<>>, "fallback"))
  BY <1>1 DEF Fail
<1>5. PICK q \in Process : Become(c, q) /\ q.pc = "fallback" /\ SameWork(p, q)
  BY <1>2, <1>3, <1>4, ScanForStep
<1>6. ProcessInv(q) /\ Moves(client[c], q) /\ q.cpu \cup q.local = Held(c)
  BY <1>2, <1>5, FallbackInv DEF SameWork, Held, Moves, AtServer
<1> QED
  BY <1>5, <1>6 DEF Continues

\* A step to the end of the build, with a result that has its object file.
LEMMA EndStep ==
    ASSUME NEW c \in Clients, NEW p \in Process, p.ret = "ok" => p.object \in Accepted,
           p.cpu \cup p.local \subseteq Held(c),
           Become(c, UnlockAndCleanUp(p)) \/ Become(c, CleanUp(p))
    PROVE  Continues(c)
<1>1. PICK q \in {UnlockAndCleanUp(p), CleanUp(p)} : Become(c, q)
  OBVIOUS
<1>2. ProcessInv(q) /\ Moves(client[c], q) /\ q.cpu \cup q.local \subseteq Held(c)
  BY EndTypes, EndInv DEF Moves, AtServer
<1> QED BY <1>1, <1>2 DEF Continues

----------------------------------------------------------------------------
(* The actions of a process.                                               *)

LEMMA StartStep ==
    ASSUME NEW c \in Clients, ProcessInv(client[c]), Start(c)
    PROVE  Continues(c)
<1>1. client[c] = Exited /\ Exited \in Process
  BY ExitedType DEF Start, At, ProcessInv
<1>2. CASE Goto(c, "unlocked")
  <2>1. PICK q \in Process : /\ Become(c, q)
                             /\ q.pc = "unlocked" /\ SameWork(client[c], q)
    BY <1>1, <1>2, GotoStep DEF Pcs
  <2>2. q.cpu = {} /\ q.local = {}
    BY <1>1, <2>1 DEF Exited, SameWork
  <2>3. ProcessInv(q) /\ Moves(client[c], q)
    BY <2>1, <2>2 DEF ProcessInv, ScanOK, HostOK, LocksOK, ObjectOK, Unlocked,
                      AtServer, RunsCpp, Finishing, Hosting, Moves
  <2> QED BY <2>1, <2>2, <2>3 DEF Continues
<1>3. CASE Become(c, ScanFor(client[c], <<"local">>, "lockLocal"))
  <2>1. "local" \in AllHosts /\ "lockLocal" \in Pcs
    BY HostNames DEF Pcs
  <2>2. PICK q \in Process : /\ Become(c, q)
                             /\ q.pc = "lockLocal" /\ q.list = <<"local">> /\ q.at = 1
                             /\ SameWork(client[c], q)
    BY <1>1, <1>3, <2>1, ScanOneStep
  <2>3. q.cpu = {} /\ q.local = {}
    BY <1>1, <2>2 DEF Exited, SameWork
  <2>4. ProcessInv(q) /\ Moves(client[c], q)
    BY <2>2, <2>3 DEF ProcessInv, ScanOK, HostOK, LocksOK, ObjectOK, Unlocked,
                      AtServer, RunsCpp, Finishing, Hosting, Moves
  <2> QED BY <2>2, <2>3, <2>4 DEF Continues
<1>4. CASE Fail(c, "fallback")
  BY <1>1, <1>4, FailStep DEF Exited
<1>5. CASE Goto(c, "checkHosts")
  <2>1. PICK q \in Process : /\ Become(c, q) /\ q.pc = "checkHosts"
                             /\ q.list = client[c].list /\ q.at = client[c].at
                             /\ SameWork(client[c], q)
    BY <1>1, <1>5, GotoStep DEF Pcs
  <2>2. /\ q.list = <<>> /\ q.at = 1 /\ q.cpu = {} /\ q.local = {}
        /\ q.host = NoHost
    BY <1>1, <2>1 DEF Exited, SameWork
  <2>3. 1 \in 1..Len(HostList) /\ <<>> \in Seq(Servers \cup {"localhost"})
    BY DistccClientAssumption, EmptySeq
  <2>4. ProcessInv(q) /\ Moves(client[c], q)
    BY <2>1, <2>2, <2>3 DEF ProcessInv, ScanOK, HostOK, LocksOK, ObjectOK, Unlocked,
                            AtServer, RunsCpp, Finishing, Hosting, Moves
  <2> QED BY <2>1, <2>2, <2>4 DEF Continues
<1>6. CASE Become(c, CleanUp([client[c] EXCEPT !.ret = "failed"]))
  <2>1. PICK p : p = [client[c] EXCEPT !.ret = "failed"]
    OBVIOUS
  <2>2. client[c] \in Process
    BY <1>1
  <2>3. /\ p \in Process /\ p.ret = "failed" /\ p.cpu = client[c].cpu
        /\ p.local = client[c].local
    BY <2>1, <2>2 DEF Process
  <2> QED BY <1>6, <2>1, <2>3, EndStep DEF Held
<1> QED
  BY <1>2, <1>3, <1>4, <1>5, <1>6 DEF Start

LEMMA CheckHostStep ==
    ASSUME NEW c \in Clients, ProcessInv(client[c]), CheckHost(c)
    PROVE  Continues(c)
<1> DEFINE p == client[c]
           h == HostList[p.at]
           left == IF h \in disliked THEN p.list ELSE Append(p.list, h)
           Hosted == Servers \cup {"localhost"}
<1>1. /\ p \in Process /\ p.pc = "checkHosts"
      /\ p.at \in 1..Len(HostList) /\ p.list \in Seq(Hosted)
      /\ p.cpu = {} /\ p.local = {} /\ p.host \in Servers \cup {NoHost}
  BY DEF CheckHost, At, ProcessInv, ScanOK, HostOK, LocksOK, Unlocked, Hosting
<1>2. HostList \in Seq(Hosted) /\ Len(HostList) \in Nat
  BY DistccClientAssumption
<1>3. h \in Hosted
  BY <1>1, <1>2, ElementOfSeq
<1>4. left \in Seq(Hosted)
  BY <1>1, <1>3, AppendProperties
<1>5. left \in Seq(AllHosts)
  BY <1>4, HostNames
<1> HIDE DEF left, h
<1>6. CASE p.at < Len(HostList)
  <2> DEFINE q == [p EXCEPT !.at = @ + 1, !.list = left]
  <2>1. p.at + 1 \in 1..Len(HostList) /\ p.at + 1 \in Nat \ {0}
    BY <1>1, <1>2, <1>6
  <2>2. /\ q \in Process /\ q.pc = "checkHosts" /\ q.at = p.at + 1 /\ q.list = left
        /\ q.cpu = {} /\ q.local = {} /\ q.host = p.host
    <3> DEFINE r(at) == [p EXCEPT !.at = at, !.list = left]
    <3>1. \A at \in Nat \ {0} :
            /\ r(at) \in Process /\ r(at).pc = p.pc /\ r(at).at = at
            /\ r(at).list = left /\ r(at).cpu = p.cpu /\ r(at).local = p.local
            /\ r(at).host = p.host
      BY <1>1, <1>5 DEF Process
    <3>2. q = r(p.at + 1)
      OBVIOUS
    <3> HIDE DEF r, q
    <3> QED BY <1>1, <2>1, <3>1, <3>2
  <2> HIDE DEF q
  <2>3. ProcessInv(q) /\ Moves(client[c], q)
    BY <1>1, <1>4, <2>1, <2>2 DEF ProcessInv, ScanOK, HostOK, LocksOK, ObjectOK,
       Unlocked, AtServer, RunsCpp, Finishing, Hosting, Moves
  <2>4. Become(c, q)
    BY <1>6 DEF CheckHost, q, left, h
  <2> QED BY <2>2, <2>3, <2>4 DEF Continues
<1>7. CASE ~(p.at < Len(HostList)) /\ left = <<>>
  <2>1. Fail(c, "fallback")
    BY <1>7 DEF CheckHost, left, h
  <2> QED BY <1>1, <2>1, FailStep
<1>8. CASE ~(p.at < Len(HostList)) /\ left # <<>>
  <2>1. Become(c, ScanFor(p, left, "pickHost"))
    BY <1>8 DEF CheckHost, left, h
  <2>2. "pickHost" \in Pcs
    BY DEF Pcs
  <2>3. PICK q \in Process : /\ Become(c, q)
                             /\ q.pc = "pickHost" /\ q.list = left /\ q.at = 1
                             /\ SameWork(p, q)
    BY <1>1, <1>5, <2>1, <2>2, ScanForStep
  <2>4. 1 \in 1..Len(left)
    BY <1>4, <1>8, EmptySeq
  <2>5. ProcessInv(q) /\ Moves(client[c], q) /\ q.cpu = {} /\ q.local = {}
    BY <1>1, <1>4, <2>3, <2>4 DEF SameWork, ProcessInv, ScanOK, HostOK, LocksOK,
       ObjectOK, Unlocked, AtServer, RunsCpp, Finishing, Hosting, Moves
  <2> QED BY <2>3, <2>5 DEF Continues
<1> QED BY <1>6, <1>7, <1>8

\* The scans that look at one slot in a step.
Scans == {"pickHost", "lockCpp", "lockLocal"}

LEMMA AdvanceInv ==
    ASSUME NEW p, ProcessInv(p), p.pc \in Scans, NEW q, q = Advance(p)
    PROVE  ProcessInv(q) /\ Moves(p, q) /\ q.cpu = p.cpu /\ q.local = p.local
<1> DEFINE r(at, slot) == [p EXCEPT !.at = at, !.slot = slot]
<1>1. p \in Process /\ p.at \in Nat \ {0} /\ p.slot \in Nat /\ Len(p.list) \in Nat
  BY DEF ProcessInv, Process
<1>2. \A at \in Nat \ {0}, slot \in Nat :
        /\ r(at, slot) \in Process
        /\ r(at, slot).pc = p.pc /\ r(at, slot).list = p.list /\ r(at, slot).at = at
        /\ SameWork(p, r(at, slot))
  BY <1>1 DEF Process, SameWork
<1> HIDE DEF r
<1>3. \E at \in Nat \ {0}, slot \in Nat :
        /\ q = r(at, slot)
        /\ (at = p.at + 1 /\ p.at < Len(p.list)) \/ at = 1
  <2>1. CASE p.at < Len(p.list)
    <3>1. q = [p EXCEPT !.at = p.at + 1]
      BY <2>1 DEF Advance
    <3>2. q = r(p.at + 1, p.slot)
      BY <1>1, <3>1 DEF Process, r
    <3> QED BY <1>1, <2>1, <3>2
  <2>2. CASE ~(p.at < Len(p.list)) /\ p.slot < SlotsScanned - 1
    <3>1. q = r(1, p.slot + 1)
      BY <2>2 DEF Advance, r
    <3> QED BY <1>1, <3>1
  <2>3. CASE ~(p.at < Len(p.list)) /\ ~(p.slot < SlotsScanned - 1)
    <3>1. q = r(1, 0)
      BY <2>3 DEF Advance, r
    <3> QED BY <3>1
  <2> QED BY <2>1, <2>2, <2>3
<1>4. PICK at \in Nat \ {0}, slot \in Nat :
        /\ q = r(at, slot)
        /\ (at = p.at + 1 /\ p.at < Len(p.list)) \/ at = 1
  BY <1>3
<1>5. /\ q \in Process /\ q.pc = p.pc /\ q.list = p.list /\ q.at = at
      /\ SameWork(p, q)
  BY <1>2, <1>4
<1>6. ScanOK(q)
  <2>1. CASE p.pc = "pickHost"
    <3>1. p.at \in 1..Len(p.list) /\ p.list \in Seq(Servers \cup {"localhost"})
      BY <2>1 DEF ProcessInv, ScanOK
    <3>2. at \in 1..Len(p.list)
      BY <1>1, <1>4, <3>1
    <3> QED BY <1>5, <2>1, <3>1, <3>2 DEF ScanOK
  <2>2. CASE p.pc \in {"lockCpp", "lockLocal"}
    <3>1. p.at = 1 /\ Len(p.list) = 1
      BY <2>2 DEF ProcessInv, ScanOK
    <3>2. at = 1
      BY <1>4, <3>1
    <3> QED BY <1>5, <2>2, <3>1, <3>2 DEF ProcessInv, ScanOK
  <2> QED BY <2>1, <2>2 DEF Scans
<1>7. LocksOK(q) /\ HostOK(q)
  BY <1>5 DEF ProcessInv, LocksOK, HostOK, SameWork, RunsCpp
<1> QED
  BY <1>5, <1>6, <1>7 DEF ProcessInv, ObjectOK, Scans, Finishing, Moves, AtServer,
     SameWork

\* What a process knows of the slot it has found free.
LEMMA TakeFacts ==
    ASSUME NEW c \in Clients, ProcessInv(client[c]), client[c].pc \in Scans,
           CanTake(c)
    PROVE  LET h == client[c].list[client[c].at]
           IN  /\ client[c].slot \in Nat /\ client[c].slot < NSlots[h]
               /\ Current(c) = LockFile(h, client[c].slot)
               /\ h \in AllHosts /\ Current(c) \in LockFiles
               /\ Slot({Current(c)}, h)
               /\ MayLock(c, Current(c))
               /\ client[c].pc = "pickHost" => h \in Servers \cup {"localhost"}
               /\ client[c].pc = "lockCpp" => h = "local_cpp"
               /\ client[c].pc = "lockLocal" => h = "local"
<1> DEFINE p == client[c]
           h == p.list[p.at]
<1>1. p.slot \in Nat
  BY DEF ProcessInv, Process
<1>2. /\ p.pc = "pickHost" => h \in Servers \cup {"localhost"}
      /\ p.pc = "lockCpp" => h = "local_cpp"
      /\ p.pc = "lockLocal" => h = "local"
  BY DEF ProcessInv, ScanOK
<1>3. h \in AllHosts
  BY <1>2, HostNames DEF Scans
<1>4. p.slot < NSlots[h] /\ MayLock(c, Current(c)) /\ Current(c) = LockFile(h, p.slot)
  BY DEF CanTake, Current
<1> HIDE DEF h
<1>5. LockFile(h, p.slot) \in LockFiles /\ Slot({LockFile(h, p.slot)}, h)
  BY <1>1, <1>3, <1>4, SlotType
<1> QED BY <1>1, <1>2, <1>3, <1>4, <1>5 DEF h

\* A look at a slot that the process does not get.
LEMMA LookAgain ==
    ASSUME NEW c \in Clients, ProcessInv(client[c]), client[c].pc \in Scans,
           NEW p, Look(c, p), ~CanTake(c)
    PROVE  Continues(c)
<1>1. PICK q : q = Advance(client[c])
  OBVIOUS
<1>2. Become(c, q)
  BY <1>1 DEF Look
<1>3. ProcessInv(q) /\ Moves(client[c], q) /\ q.cpu \cup q.local = Held(c)
  BY <1>1, AdvanceInv DEF Held
<1> QED BY <1>2, <1>3 DEF Continues

LEMMA PickHostStep ==
    ASSUME NEW c \in Clients, ProcessInv(client[c]), PickHost(c)
    PROVE  Continues(c)
<1> DEFINE me == client[c]
<1>1. me \in Process /\ me.pc = "pickHost" /\ me.cpu = {} /\ me.local = {}
  BY DEF PickHost, At, ProcessInv, LocksOK, Unlocked
<1>2. CASE ~CanTake(c)
  BY <1>1, <1>2, LookAgain DEF PickHost, Scans
<1>3. CASE CanTake(c)
  <2>1. PICK h, f : h = me.list[me.at] /\ f = Current(c)
    OBVIOUS
  <2>2. /\ f \in LockFiles /\ Slot({f}, h) /\ MayLock(c, f)
        /\ h \in Servers \cup {"localhost"} /\ h \in AllHosts
    BY <1>1, <1>3, <2>1, TakeFacts DEF Scans
  <2>3. PICK p : p = [me EXCEPT !.host = h, !.cpu = {f}]
    OBVIOUS
  <2>4. p \in Process /\ p.host = h /\ p.cpu = {f} /\ p.local = {}
    <3>1. {f} \in FileOrNone
      BY <2>2 DEF FileOrNone
    <3> QED BY <1>1, <2>2, <2>3, <3>1 DEF Process
  <2>5. CASE h \in Servers
    <3>1. Become(c, ScanFor(p, <<"local_cpp">>, "lockCpp"))
      BY <1>3, <2>1, <2>3, <2>5 DEF PickHost, Look
    <3>2. "local_cpp" \in AllHosts /\ "lockCpp" \in Pcs
      BY HostNames DEF Pcs
    <3>3. PICK q \in Process : /\ Become(c, q) /\ q.pc = "lockCpp"
                               /\ q.list = <<"local_cpp">> /\ q.at = 1
                               /\ SameWork(p, q)
      BY <2>4, <3>1, <3>2, ScanOneStep
    <3>4. ProcessInv(q) /\ Moves(client[c], q) /\ q.cpu \cup q.local = {f}
      BY <1>1, <2>2, <2>4, <2>5, <3>3 DEF SameWork, ProcessInv, ScanOK, HostOK,
         LocksOK, ObjectOK, Unlocked, AtServer, RunsCpp, Finishing, Hosting, Moves
    <3> QED BY <2>2, <3>3, <3>4 DEF Continues
  <2>6. CASE h = "localhost"
    <3>1. Become(c, ScanFor(p, <<>>, "local"))
      BY <1>3, <2>1, <2>3, <2>6, HostNames DEF PickHost, Look
    <3>2. <<>> \in Seq(AllHosts) /\ "local" \in Pcs
      BY DEF Pcs
    <3>3. PICK q \in Process : Become(c, q) /\ q.pc = "local" /\ SameWork(p, q)
      BY <2>4, <3>1, <3>2, ScanForStep
    <3>4. ProcessInv(q) /\ Moves(client[c], q) /\ q.cpu \cup q.local = {f}
      BY <1>1, <2>2, <2>4, <2>6, <3>3 DEF SameWork, ProcessInv, ScanOK, HostOK,
         LocksOK, ObjectOK, Unlocked, AtServer, RunsCpp, Finishing, Hosting, Moves
    <3> QED BY <2>2, <3>3, <3>4 DEF Continues
  <2> QED BY <2>2, <2>5, <2>6
<1> QED BY <1>2, <1>3

LEMMA LockLocalCppStep ==
    ASSUME NEW c \in Clients, ProcessInv(client[c]), LockLocalCpp(c)
    PROVE  Continues(c)
<1> DEFINE me == client[c]
<1>1. /\ me \in Process /\ me.pc = "lockCpp"
      /\ me.host \in Servers /\ Slot(me.cpu, me.host) /\ me.local = {}
  BY DEF LockLocalCpp, At, ProcessInv, LocksOK, AtServer, RunsCpp
<1>2. CASE ~CanTake(c)
  BY <1>1, <1>2, LookAgain DEF LockLocalCpp, Scans
<1>3. CASE CanTake(c)
  <2>1. PICK f : f = Current(c)
    OBVIOUS
  <2>2. f \in LockFiles /\ Slot({f}, "local_cpp") /\ MayLock(c, f)
    BY <1>1, <1>3, <2>1, TakeFacts DEF Scans
  <2>3. PICK p : p = [me EXCEPT !.local = {f}]
    OBVIOUS
  <2>4. p \in Process /\ p.host = me.host /\ p.cpu = me.cpu /\ p.local = {f}
    <3>1. {f} \in FileOrNone
      BY <2>2 DEF FileOrNone
    <3> QED BY <1>1, <2>3, <3>1 DEF Process
  <2>5. PICK pc \in {"adjust", "prepare"} : Become(c, ScanFor(p, <<>>, pc))
    BY <1>3, <2>1, <2>3 DEF LockLocalCpp, Look
  <2>6. <<>> \in Seq(AllHosts) /\ pc \in Pcs
    BY <2>5 DEF Pcs
  <2>7. PICK q \in Process : Become(c, q) /\ q.pc = pc /\ SameWork(p, q)
    BY <2>4, <2>5, <2>6, ScanForStep
  <2>8. ProcessInv(q) /\ Moves(client[c], q) /\ q.cpu \cup q.local = me.cpu \cup {f}
    BY <1>1, <2>2, <2>4, <2>5, <2>7 DEF SameWork, ProcessInv, ScanOK, HostOK,
       LocksOK, ObjectOK, Unlocked, AtServer, RunsCpp, Finishing, Hosting, Moves
  <2> QED BY <2>2, <2>7, <2>8 DEF Continues, Held
<1> QED BY <1>2, <1>3

LEMMA LockLocalStep ==
    ASSUME NEW c \in Clients, ProcessInv(client[c]), LockLocal(c)
    PROVE  Continues(c)
<1> DEFINE me == client[c]
<1>1. me \in Process /\ me.pc = "lockLocal" /\ me.cpu = {} /\ me.local = {}
  BY DEF LockLocal, At, ProcessInv, LocksOK, Unlocked
<1>2. CASE ~CanTake(c)
  BY <1>1, <1>2, LookAgain DEF LockLocal, Scans
<1>3. CASE CanTake(c)
  <2>1. PICK f : f = Current(c)
    OBVIOUS
  <2>2. f \in LockFiles /\ Slot({f}, "local") /\ MayLock(c, f)
    BY <1>1, <1>3, <2>1, TakeFacts DEF Scans
  <2>3. PICK p : p = [me EXCEPT !.cpu = {f}]
    OBVIOUS
  <2>4. p \in Process /\ p.cpu = {f} /\ p.local = {}
    <3>1. {f} \in FileOrNone
      BY <2>2 DEF FileOrNone
    <3> QED BY <1>1, <2>3, <3>1 DEF Process
  <2>5. Become(c, ScanFor(p, <<>>, "local"))
    BY <1>3, <2>1, <2>3 DEF LockLocal, Look
  <2>6. <<>> \in Seq(AllHosts) /\ "local" \in Pcs
    BY DEF Pcs
  <2>7. PICK q \in Process : Become(c, q) /\ q.pc = "local" /\ SameWork(p, q)
    BY <2>4, <2>5, <2>6, ScanForStep
  <2>8. ProcessInv(q) /\ Moves(client[c], q) /\ q.cpu \cup q.local = {f}
    BY <1>1, <2>2, <2>4, <2>7 DEF SameWork, ProcessInv, ScanOK, HostOK, LocksOK,
       ObjectOK, Unlocked, AtServer, RunsCpp, Finishing, Hosting, Moves
  <2> QED BY <2>2, <2>7, <2>8 DEF Continues
<1> QED BY <1>2, <1>3

\* A step that only goes on to another phase, with the locks it has.
LEMMA GoOn ==
    ASSUME NEW c \in Clients, client[c] \in Process, NEW pc \in Pcs, Goto(c, pc),
           \A q \in Process :
               q.pc = pc /\ SameWork(client[c], q)
                   => ProcessInv(q) /\ Moves(client[c], q)
    PROVE  Continues(c)
<1>1. PICK q \in Process : Become(c, q) /\ q.pc = pc /\ SameWork(client[c], q)
  BY GotoStep
<1> QED BY <1>1 DEF Continues, SameWork, Held

LEMMA LockFailsStep ==
    ASSUME NEW c \in Clients, ProcessInv(client[c]), LockFails(c)
    PROVE  Continues(c)
<1>1. CASE (At(c, "pickHost") \/ At(c, "lockCpp")) /\ Fail(c, "fallback")
  BY <1>1, FailStep DEF At, ProcessInv, HostOK, Hosting, AtServer
<1>2. CASE At(c, "lockLocal") /\ Goto(c, "unlocked")
  <2>1. "unlocked" \in Pcs
    BY DEF Pcs
  <2>2. ASSUME NEW q \in Process, q.pc = "unlocked", SameWork(client[c], q)
        PROVE  ProcessInv(q) /\ Moves(client[c], q)
    BY <1>2, <2>2 DEF At, SameWork, ProcessInv, ScanOK, HostOK, LocksOK, ObjectOK,
       Unlocked, AtServer, RunsCpp, Finishing, Hosting, Moves
  <2> QED BY <1>2, <2>1, <2>2, GoOn DEF ProcessInv
<1> QED BY <1>1, <1>2 DEF LockFails

LEMMA AdjustStep ==
    ASSUME NEW c \in Clients, ProcessInv(client[c]), Adjust(c)
    PROVE  Continues(c)
<1>1. PICK pc \in {"askIncludes", "prepare"} : Goto(c, pc)
  BY DEF Adjust
<1>2. pc \in Pcs
  BY DEF Pcs
<1>3. ASSUME NEW q \in Process, q.pc = pc, SameWork(client[c], q)
      PROVE  ProcessInv(q) /\ Moves(client[c], q)
  BY <1>3 DEF Adjust, At, SameWork, ProcessInv, ScanOK, HostOK, LocksOK, ObjectOK,
     Unlocked, AtServer, RunsCpp, Finishing, Hosting, Moves
<1> QED BY <1>1, <1>2, <1>3, GoOn DEF ProcessInv

LEMMA ScanIncludesStep ==
    ASSUME NEW c \in Clients, ProcessInv(client[c]), ScanIncludes(c)
    PROVE  Continues(c)
<1>1. PICK ret \in {"scanned", "failed"} :
        Become(c, UnlockAndCleanUp([client[c] EXCEPT !.ret = ret]))
  BY DEF ScanIncludes
<1>2. PICK p : p = [client[c] EXCEPT !.ret = ret]
  OBVIOUS
<1>3. p \in Process /\ p.ret = ret /\ p.cpu = client[c].cpu /\ p.local = client[c].local
  BY <1>2 DEF ProcessInv, Process
<1>4. Become(c, UnlockAndCleanUp(p))
  BY <1>1, <1>2
<1> QED BY <1>3, <1>4, EndStep DEF Held

\* A step to p, which is well typed: its new phase, and what it keeps of its
\* locks, are enough for the invariant.
LEMMA BecomeStep ==
    ASSUME NEW c \in Clients, NEW p \in Process, Become(c, p),
           ProcessInv(p), Moves(client[c], p),
           p.cpu \cup p.local \subseteq Held(c)
    PROVE  Continues(c)
BY DEF Continues

LEMMA AskIncludesStep ==
    ASSUME NEW c \in Clients, ProcessInv(client[c]), AskIncludes(c)
    PROVE  Continues(c)
<1> DEFINE me == client[c]
<1>1. me \in Process /\ me.pc = "askIncludes" /\ LocksOK(me)
  BY DEF AskIncludes, At, ProcessInv
<1>2. CASE Goto(c, "prepare")
  <2>1. ASSUME NEW q \in Process, q.pc = "prepare", SameWork(me, q)
        PROVE  ProcessInv(q) /\ Moves(client[c], q)
    BY <1>1, <2>1 DEF SameWork, ProcessInv, ScanOK, HostOK, LocksOK, ObjectOK,
       Unlocked, AtServer, RunsCpp, Finishing, Hosting, Moves
  <2>2. "prepare" \in Pcs
    BY DEF Pcs
  <2> QED BY <1>1, <1>2, <2>1, <2>2, GoOn
<1>3. CASE Become(c, [me EXCEPT !.pc = "sendFiles", !.local = {}])
  <2>1. PICK q : q = [me EXCEPT !.pc = "sendFiles", !.local = {}]
    OBVIOUS
  <2>2. /\ q \in Process /\ q.pc = "sendFiles" /\ q.host = me.host
        /\ q.cpu = me.cpu /\ q.local = {}
    BY <1>1, <2>1 DEF Process, Pcs, FileOrNone
  <2>3. ProcessInv(q) /\ Moves(client[c], q)
    BY <1>1, <2>2 DEF ProcessInv, ScanOK, HostOK, LocksOK, ObjectOK, Unlocked,
                      AtServer, RunsCpp, Finishing, Hosting, Moves
  <2> QED BY <1>3, <2>1, <2>2, <2>3, BecomeStep DEF Held
<1> QED BY <1>2, <1>3 DEF AskIncludes

LEMMA PrepareStep ==
    ASSUME NEW c \in Clients, ProcessInv(client[c]), Prepare(c)
    PROVE  Continues(c)
<1>1. CASE Fail(c, "fallback")
  BY <1>1, FailStep DEF Prepare, At, ProcessInv, HostOK, Hosting, AtServer
<1>2. CASE Goto(c, "sendHeader")
  <2>1. "sendHeader" \in Pcs
    BY DEF Pcs
  <2>2. ASSUME NEW q \in Process, q.pc = "sendHeader", SameWork(client[c], q)
        PROVE  ProcessInv(q) /\ Moves(client[c], q)
    BY <2>2 DEF Prepare, At, SameWork, ProcessInv, ScanOK, HostOK, LocksOK, ObjectOK,
                Unlocked, AtServer, RunsCpp, Finishing, Hosting, Moves
  <2> QED BY <1>2, <2>1, <2>2, GoOn DEF ProcessInv
<1> QED BY <1>1, <1>2 DEF Prepare

LEMMA RemoteOutStep ==
    ASSUME NEW c \in Clients, ProcessInv(client[c]), RemoteOut(c),
           client[c].host \in Servers
    PROVE  Continues(c)
<1> DEFINE me == client[c]
<1>1. PICK q : q = [me EXCEPT !.pc = "fallback", !.local = {}, !.ret = "failed"]
  OBVIOUS
<1>2. /\ q \in Process /\ q.pc = "fallback" /\ q.cpu = me.cpu /\ q.local = {}
      /\ q.ret = "failed" /\ q.host = me.host
  BY <1>1 DEF ProcessInv, Process, Pcs, FileOrNone
<1>3. ProcessInv(q) /\ Moves(client[c], q)
  BY <1>2, FallbackInv DEF Moves, AtServer
<1> QED BY <1>1, <1>2, <1>3, BecomeStep DEF RemoteOut, Held

LEMMA SendStep ==
    ASSUME NEW c \in Clients, ProcessInv(client[c]), Send(c)
    PROVE  Continues(c)
<1>1. CASE RemoteOut(c)
  BY <1>1, RemoteOutStep DEF Send, At, ProcessInv, LocksOK, AtServer
<1>2. CASE At(c, "sendFiles") /\ Goto(c, "results")
  <2>1. "results" \in Pcs
    BY DEF Pcs
  <2>2. ASSUME NEW q \in Process, q.pc = "results", SameWork(client[c], q)
        PROVE  ProcessInv(q) /\ Moves(client[c], q)
    BY <1>2, <2>2 DEF At, SameWork, ProcessInv, ScanOK, HostOK, LocksOK, ObjectOK,
       Unlocked, AtServer, RunsCpp, Finishing, Hosting, Moves
  <2> QED BY <1>2, <2>1, <2>2, GoOn DEF ProcessInv
<1>3. CASE At(c, "sendHeader") /\ Goto(c, "waitCpp")
  <2>1. "waitCpp" \in Pcs
    BY DEF Pcs
  <2>2. ASSUME NEW q \in Process, q.pc = "waitCpp", SameWork(client[c], q)
        PROVE  ProcessInv(q) /\ Moves(client[c], q)
    BY <1>3, <2>2 DEF At, SameWork, ProcessInv, ScanOK, HostOK, LocksOK, ObjectOK,
       Unlocked, AtServer, RunsCpp, Finishing, Hosting, Moves
  <2> QED BY <1>3, <2>1, <2>2, GoOn DEF ProcessInv
<1> QED BY <1>1, <1>2, <1>3 DEF Send

LEMMA WaitCppStep ==
    ASSUME NEW c \in Clients, ProcessInv(client[c]), WaitCpp(c)
    PROVE  Continues(c)
<1> DEFINE me == client[c]
<1>1. /\ me \in Process /\ me.pc = "waitCpp" /\ LocksOK(me)
      /\ me.host \in Servers
  BY DEF WaitCpp, At, ProcessInv, LocksOK, AtServer
<1>2. CASE RemoteOut(c)
  BY <1>1, <1>2, RemoteOutStep
<1>3. CASE Become(c, [me EXCEPT !.pc = "results", !.local = {}])
  <2>1. PICK q : q = [me EXCEPT !.pc = "results", !.local = {}]
    OBVIOUS
  <2>2. /\ q \in Process /\ q.pc = "results" /\ q.host = me.host
        /\ q.cpu = me.cpu /\ q.local = {}
    BY <1>1, <2>1 DEF Process, Pcs, FileOrNone
  <2>3. ProcessInv(q) /\ Moves(client[c], q)
    BY <1>1, <2>2 DEF ProcessInv, ScanOK, HostOK, LocksOK, ObjectOK, Unlocked,
                      AtServer, RunsCpp, Finishing, Hosting, Moves
  <2> QED BY <1>3, <2>1, <2>2, <2>3, BecomeStep DEF Held
<1>4. ASSUME NEW r \in {"failed", "crashed"},
             Become(c, [me EXCEPT !.pc = "enjoy", !.local = {}, !.ret = r,
                                  !.cppFailed = TRUE])
      PROVE  Continues(c)
  <2>1. PICK q : q = [me EXCEPT !.pc = "enjoy", !.local = {}, !.ret = r,
                                !.cppFailed = TRUE]
    OBVIOUS
  <2>2. /\ q \in Process /\ q.pc = "enjoy" /\ q.cpu = me.cpu /\ q.local = {}
        /\ q.ret = r /\ q.host = me.host
    BY <1>1, <2>1 DEF Process, Pcs, FileOrNone
  <2>3. ProcessInv(q) /\ Moves(client[c], q)
    BY <1>1, <2>2 DEF ProcessInv, ScanOK, HostOK, LocksOK, ObjectOK, Unlocked,
                      AtServer, RunsCpp, Finishing, Hosting, Moves
  <2> QED BY <1>4, <2>1, <2>2, <2>3, BecomeStep DEF Held
<1> QED BY <1>2, <1>3, <1>4 DEF WaitCpp

LEMMA ResultsStep ==
    ASSUME NEW c \in Clients, ProcessInv(client[c]), Results(c)
    PROVE  Continues(c)
<1> DEFINE me == client[c]
<1>1. me \in Process /\ me.local = {} /\ me.host \in Servers
  BY DEF Results, At, ProcessInv, LocksOK, AtServer, RunsCpp
<1>2. CASE RemoteOut(c)
  BY <1>1, <1>2, RemoteOutStep
<1>3. ASSUME NEW r \in {"ok", "failed", "crashed"}, NEW done \in {"none"} \cup Accepted,
             r = "ok" <=> done # "none",
             Become(c, [me EXCEPT !.pc = "enjoy", !.ret = r, !.object = done])
      PROVE  Continues(c)
  <2>1. done \in {"none", "made", "unread"} /\ (r = "ok" => done \in Accepted)
    BY <1>3 DEF Accepted
  <2>2. PICK q : q = [me EXCEPT !.pc = "enjoy", !.ret = r, !.object = done]
    OBVIOUS
  <2>3. /\ q \in Process /\ q.pc = "enjoy" /\ q.cpu = me.cpu /\ q.local = {}
        /\ q.ret = r /\ q.object = done /\ q.host = me.host
    BY <1>1, <2>1, <2>2 DEF Process, Pcs
  <2>4. ProcessInv(q) /\ Moves(client[c], q)
    BY <1>1, <2>1, <2>3 DEF ProcessInv, ScanOK, HostOK, LocksOK, ObjectOK, Unlocked,
                      AtServer, RunsCpp, Finishing, Hosting, Moves
  <2> QED BY <1>3, <2>1, <2>2, <2>3, <2>4, BecomeStep DEF Held
<1> QED BY <1>2, <1>3 DEF Results

LEMMA EnjoyStep ==
    ASSUME NEW c \in Clients, ProcessInv(client[c]), Enjoy(c)
    PROVE  Continues(c)
<1>1. "critique" \in Pcs
  BY DEF Pcs
<1>2. ASSUME NEW q \in Process, q.pc = "critique", SameWork(client[c], q)
      PROVE  ProcessInv(q) /\ Moves(client[c], q)
  BY <1>2 DEF Enjoy, At, SameWork, ProcessInv, ScanOK, HostOK, LocksOK, ObjectOK,
     Unlocked, AtServer, RunsCpp, Finishing, Hosting, Moves
<1> QED BY <1>1, <1>2, GoOn DEF Enjoy, ProcessInv

LEMMA CritiqueStep ==
    ASSUME NEW c \in Clients, ProcessInv(client[c]), Critique(c)
    PROVE  Continues(c)
<1> DEFINE me == client[c]
<1>1. /\ me \in Process /\ me.pc = "critique" /\ me.local = {}
      /\ me.host \in Servers \cup {NoHost}
      /\ me.ret = "ok" => me.object \in Accepted
  BY DEF Critique, At, ProcessInv, HostOK, LocksOK, ObjectOK, Finishing, Hosting,
     Moves
<1>2. PICK p : p = [me EXCEPT !.cpu = {}]
  OBVIOUS
<1>3. /\ p \in Process /\ p.cpu = {} /\ p.local = {}
      /\ p.ret = me.ret /\ p.object = me.object /\ p.host = me.host
  BY <1>1, <1>2 DEF Process, FileOrNone
<1>4. CASE Become(c, CleanUp(p))
  BY <1>1, <1>3, <1>4, EndStep
<1>5. CASE p.ret = "failed"
           /\ Become(c, [p EXCEPT !.pc = "fallback", !.remote = p.ret])
  <2>1. PICK q : q = [p EXCEPT !.pc = "fallback", !.remote = p.ret]
    OBVIOUS
  <2>2. /\ q \in Process /\ q.pc = "fallback" /\ q.cpu = {} /\ q.local = {}
        /\ q.ret = p.ret /\ q.object = p.object /\ q.host = p.host
    BY <1>3, <1>5, <2>1 DEF Process, Pcs
  <2>3. ProcessInv(q) /\ Moves(client[c], q)
    BY <1>1, <1>3, <2>2, FallbackInv DEF Moves, AtServer
  <2> QED BY <1>5, <2>1, <2>2, <2>3, BecomeStep
<1>6. CASE Become(c, [p EXCEPT !.pc = "fallback"])
  <2>1. PICK q : q = [p EXCEPT !.pc = "fallback"]
    OBVIOUS
  <2>2. /\ q \in Process /\ q.pc = "fallback" /\ q.cpu = {} /\ q.local = {}
        /\ q.ret = p.ret /\ q.object = p.object /\ q.host = p.host
    BY <1>3, <2>1, GotoType DEF Pcs, SameWork
  <2>3. ProcessInv(q) /\ Moves(client[c], q)
    BY <1>1, <1>3, <2>2, FallbackInv DEF Moves, AtServer
  <2> QED BY <1>6, <2>1, <2>2, <2>3, BecomeStep
<1> QED BY <1>2, <1>4, <1>5, <1>6 DEF Critique

LEMMA DislikeStep ==
    ASSUME NEW c \in Clients, ProcessInv(client[c]), Dislike(c)
    PROVE  Continues(c)
<1>1. "dropCpu" \in Pcs
  BY DEF Pcs
<1>2. ASSUME NEW q \in Process, q.pc = "dropCpu", SameWork(client[c], q)
      PROVE  ProcessInv(q) /\ Moves(client[c], q)
  BY <1>2 DEF Dislike, At, SameWork, ProcessInv, ScanOK, HostOK, LocksOK, ObjectOK,
              Unlocked, AtServer, RunsCpp, Finishing, Hosting, Moves
<1> QED BY <1>1, <1>2, GoOn DEF Dislike, ProcessInv

LEMMA DropCpuStep ==
    ASSUME NEW c \in Clients, ProcessInv(client[c]), DropCpu(c)
    PROVE  Continues(c)
<1> DEFINE me == client[c]
<1>1. me \in Process /\ (me.ret = "ok" => me.object \in Accepted)
  BY DEF DropCpu, At, ProcessInv, ObjectOK, Finishing
<1>2. PICK q : q = [me EXCEPT !.pc = "dropLocal", !.cpu = {}]
  OBVIOUS
<1>3. /\ q \in Process /\ q.pc = "dropLocal" /\ q.cpu = {} /\ q.local = me.local
      /\ q.ret = me.ret /\ q.object = me.object
  BY <1>1, <1>2 DEF Process, Pcs, FileOrNone
<1>4. ProcessInv(q) /\ Moves(client[c], q)
  BY <1>1, <1>3 DEF ProcessInv, ScanOK, HostOK, LocksOK, ObjectOK, Unlocked,
                    AtServer, RunsCpp, Finishing, Hosting, Moves
<1> QED BY <1>2, <1>3, <1>4, BecomeStep DEF DropCpu, Held

LEMMA DropLocalStep ==
    ASSUME NEW c \in Clients, ProcessInv(client[c]), DropLocal(c)
    PROVE  Continues(c)
<1> DEFINE me == client[c]
<1>1. me \in Process /\ me.cpu = {} /\ (me.ret = "ok" => me.object \in Accepted)
  BY DEF DropLocal, At, ProcessInv, LocksOK, ObjectOK, Finishing
<1>2. PICK p : p = [me EXCEPT !.local = {}]
  OBVIOUS
<1>3. /\ p \in Process /\ p.cpu = {} /\ p.local = {}
      /\ p.ret = me.ret /\ p.object = me.object
  BY <1>1, <1>2 DEF Process, FileOrNone
<1>4. CASE Become(c, CleanUp(p))
  BY <1>1, <1>3, <1>4, EndStep
<1>5. CASE Become(c, ScanFor([p EXCEPT !.ret = "ok", !.object = "none"],
                             <<"local">>, "lockLocal"))
  <2>1. PICK o : o = [p EXCEPT !.ret = "ok", !.object = "none"]
    OBVIOUS
  <2>2. o \in Process /\ o.cpu = {} /\ o.local = {}
    BY <1>3, <2>1 DEF Process
  <2>3. Become(c, ScanFor(o, <<"local">>, "lockLocal"))
    BY <1>5, <2>1
  <2>4. "local" \in AllHosts /\ "lockLocal" \in Pcs
    BY HostNames DEF Pcs
  <2>5. PICK q \in Process : /\ Become(c, q) /\ q.pc = "lockLocal"
                             /\ q.list = <<"local">> /\ q.at = 1
                             /\ SameWork(o, q)
    BY <2>2, <2>3, <2>4, ScanOneStep
  <2>6. ProcessInv(q) /\ Moves(client[c], q) /\ q.cpu = {} /\ q.local = {}
    BY <2>2, <2>5 DEF SameWork, ProcessInv, ScanOK, HostOK, LocksOK, ObjectOK,
                      Unlocked, AtServer, RunsCpp, Finishing, Hosting, Moves
  <2> QED BY <2>5, <2>6 DEF Continues
<1> QED BY <1>2, <1>4, <1>5 DEF DropLocal

LEMMA CompileLocalStep ==
    ASSUME NEW c \in Clients, ProcessInv(client[c]), CompileLocal(c)
    PROVE  Continues(c)
<1> DEFINE me == client[c]
<1>1. me \in Process
  BY DEF ProcessInv
<1>2. PICK r \in {"ok", "failed", "crashed"} : Become(c, Compiled(c, r))
  BY DEF CompileLocal
<1>3. PICK done \in {"none", "made"} : done = Written(r) /\ (r = "ok" => done \in Accepted)
  BY DEF Written, Accepted
<1>4. PICK p : p = [me EXCEPT !.ret = r, !.object = done]
  OBVIOUS
<1>5. /\ p \in Process /\ p.cpu = me.cpu /\ p.local = me.local
      /\ p.ret = r /\ p.object = done /\ p.remote = me.remote
  BY <1>1, <1>4 DEF Process
<1>6. CASE me.remote = "none"
  <2>1. Become(c, UnlockAndCleanUp(p))
    BY <1>2, <1>3, <1>4, <1>5, <1>6 DEF Compiled
  <2> QED BY <1>3, <1>5, <2>1, EndStep DEF Held
<1>7. CASE me.remote # "none"
  <2>1. PICK pc : pc = IF p.remote = r THEN "innocent" ELSE "note"
    OBVIOUS
  <2>2. PICK q : q = [p EXCEPT !.pc = pc]
    OBVIOUS
  <2>3. Become(c, q)
    BY <1>2, <1>3, <1>4, <1>5, <1>7, <2>1, <2>2 DEF Compiled
  <2>4. pc \in Pcs /\ pc \in {"innocent", "note"}
    BY <2>1 DEF Pcs
  <2>5. q \in Process /\ q.pc = pc /\ SameWork(p, q)
    BY <1>5, <2>2, <2>4, GotoType
  <2>6. ProcessInv(q) /\ Moves(client[c], q)
    BY <1>3, <1>5, <2>4, <2>5 DEF SameWork, ProcessInv, ScanOK, HostOK, LocksOK,
       ObjectOK, Unlocked, AtServer, RunsCpp, Finishing, Hosting, Moves
  <2> QED BY <1>5, <2>3, <2>5, <2>6, BecomeStep DEF SameWork, Held
<1> QED BY <1>6, <1>7

LEMMA CompiledStep ==
    ASSUME NEW c \in Clients, ProcessInv(client[c]), Innocent(c) \/ NoteDiscrepancy(c)
    PROVE  Continues(c)
<1>1. /\ client[c] \in Process
      /\ client[c].ret = "ok" => client[c].object \in Accepted
  BY DEF Innocent, NoteDiscrepancy, At, ProcessInv, ObjectOK, Finishing
<1>2. Become(c, UnlockAndCleanUp(client[c]))
  BY DEF Innocent, NoteDiscrepancy
<1> QED BY <1>1, <1>2, EndStep DEF Held

LEMMA UnlockCpuStep ==
    ASSUME NEW c \in Clients, ProcessInv(client[c]), UnlockCpu(c)
    PROVE  Continues(c)
<1> DEFINE me == client[c]
<1>1. me \in Process /\ (me.ret = "ok" => me.object \in Accepted)
  BY DEF UnlockCpu, At, ProcessInv, ObjectOK, Finishing
<1>2. PICK q : q = [me EXCEPT !.pc = "unlockLocal", !.cpu = {}]
  OBVIOUS
<1>3. /\ q \in Process /\ q.pc = "unlockLocal" /\ q.cpu = {} /\ q.local = me.local
      /\ q.ret = me.ret /\ q.object = me.object
  BY <1>1, <1>2 DEF Process, Pcs, FileOrNone
<1>4. ProcessInv(q) /\ Moves(client[c], q)
  BY <1>1, <1>3 DEF ProcessInv, ScanOK, HostOK, LocksOK, ObjectOK, Unlocked,
                    AtServer, RunsCpp, Finishing, Hosting, Moves
<1> QED BY <1>2, <1>3, <1>4, BecomeStep DEF UnlockCpu, Held

LEMMA UnlockLocalStep ==
    ASSUME NEW c \in Clients, ProcessInv(client[c]), UnlockLocal(c)
    PROVE  Continues(c)
<1> DEFINE me == client[c]
<1>1. me \in Process /\ me.cpu = {} /\ (me.ret = "ok" => me.object \in Accepted)
  BY DEF UnlockLocal, At, ProcessInv, LocksOK, ObjectOK, Finishing
<1>2. PICK q : q = [me EXCEPT !.pc = "exit", !.local = {}]
  OBVIOUS
<1>3. /\ q \in Process /\ q.pc = "exit" /\ q.cpu = {} /\ q.local = {}
      /\ q.ret = me.ret /\ q.object = me.object
  BY <1>1, <1>2 DEF Process, Pcs, FileOrNone
<1>4. ProcessInv(q) /\ Moves(client[c], q)
  BY <1>1, <1>3 DEF ProcessInv, ScanOK, HostOK, LocksOK, ObjectOK, Unlocked,
                    AtServer, RunsCpp, Finishing, Hosting, Moves
<1> QED BY <1>2, <1>3, <1>4, BecomeStep DEF UnlockLocal, Held

LEMMA ExitStep ==
    ASSUME NEW c \in Clients, Exit(c) \/ Kill(c)
    PROVE  Continues(c)
<1>1. /\ Become(c, Exited) /\ Exited.cpu = {} /\ Exited.local = {}
      /\ Moves(client[c], Exited)
  BY DEF Exit, Kill, Exited, Moves, AtServer
<1> QED BY <1>1, ExitedType DEF Continues

LEMMA ProcessStep ==
    ASSUME NEW c \in Clients, ProcessInv(client[c]),
           Start(c) \/ Step(c) \/ LockFails(c) \/ Kill(c)
    PROVE  Continues(c)
BY StartStep, CheckHostStep, PickHostStep, LockLocalCppStep, LockLocalStep,
   LockFailsStep, AdjustStep, ScanIncludesStep, AskIncludesStep, PrepareStep,
   SendStep, WaitCppStep, ResultsStep, EnjoyStep, CritiqueStep, DislikeStep,
   DropCpuStep, DropLocalStep, CompileLocalStep, CompiledStep, UnlockCpuStep,
   UnlockLocalStep, ExitStep DEF Step

----------------------------------------------------------------------------
(* The invariants.                                                         *)

LEMMA InitInv ==
    ASSUME Init
    PROVE  Inv
<1>1. \A c \in Clients : client[c] = Exited
  BY DEF Init
<1>2. TypeOK
  BY ExitedType, DistccClientAssumption DEF Init, TypeOK
<1>3. Exclusive
  BY <1>1 DEF Exclusive, Held, Exited
<1> QED BY <1>1, <1>2, <1>3, ExitedType DEF Inv

\* A lock is only taken if no other process has it, so a step of one process
\* keeps the locks of all apart.
LEMMA ContinuesInv ==
    ASSUME Inv, NEW c \in Clients, Continues(c)
    PROVE  /\ client' \in [Clients -> Process]
           /\ \A d \in Clients : ProcessInv(client'[d])
           /\ Exclusive'
<1>1. client \in [Clients -> Process]
  BY DEF Inv, TypeOK
<1>2. PICK p : /\ client' = [client EXCEPT ![c] = p] /\ ProcessInv(p)
               /\ \A f \in p.cpu \cup p.local : f \in Held(c) \/ MayLock(c, f)
  BY DEF Continues, Become
<1>3. /\ client'[c] = p
      /\ \A d \in Clients \ {c} : client'[d] = client[d]
  BY <1>1, <1>2
<1>4. client' \in [Clients -> Process] /\ \A d \in Clients : ProcessInv(client'[d])
  BY <1>1, <1>2, <1>3 DEF Inv, ProcessInv
<1>5. Exclusive'
  <2>1. ASSUME NEW d \in Clients \ {c}
        PROVE  (p.cpu \cup p.local) \cap Held(d) = {}
    BY <1>2 DEF Inv, Exclusive, MayLock
  <2> QED BY <1>3, <2>1 DEF Inv, Exclusive, Held
<1> QED BY <1>4, <1>5

\* What the processes share keeps its type: only a server can be disliked.
LEMMA SharedType ==
    ASSUME Inv, NEW c \in Clients, Start(c) \/ Step(c) \/ LockFails(c) \/ Kill(c)
    PROVE  /\ builds' \in [Clients -> 0..MaxBuilds]
           /\ disliked' \subseteq Servers
           /\ discrepancies' \in Nat
<1>1. /\ builds \in [Clients -> 0..MaxBuilds] /\ disliked \subseteq Servers
      /\ discrepancies \in Nat /\ MaxBuilds \in Nat
  BY DistccClientAssumption DEF Inv, TypeOK
<1>2. CASE Start(c)
  <2>1. builds[c] + 1 \in 0..MaxBuilds
    BY <1>1, <1>2 DEF Start
  <2>2. builds' = [builds EXCEPT ![c] = builds[c] + 1]
        /\ UNCHANGED <<disliked, discrepancies>>
    BY <1>2 DEF Start
  <2> QED BY <1>1, <2>1, <2>2
<1>3. CASE Dislike(c)
  <2>1. client[c].host \in Servers \cup {NoHost}
    BY <1>3 DEF Inv, ProcessInv, HostOK, Hosting, Dislike, At
  <2> QED BY <1>1, <1>3, <2>1 DEF Dislike
<1>4. CASE Enjoy(c) \/ Innocent(c)
  BY <1>1, <1>4 DEF Enjoy, Innocent
<1>5. CASE NoteDiscrepancy(c)
  BY <1>1, <1>5 DEF NoteDiscrepancy
<1>6. CASE SharedUnchanged
  BY <1>1, <1>6 DEF SharedUnchanged
<1>7. Step(c) \/ LockFails(c) \/ Kill(c) =>
        \/ Dislike(c) \/ Enjoy(c) \/ Innocent(c) \/ NoteDiscrepancy(c)
        \/ SharedUnchanged
  BY DEF Step, Kill, CheckHost, PickHost, LockLocalCpp, LockLocal, Look, LockFails,
         Adjust, ScanIncludes, AskIncludes, Prepare, Send, WaitCpp, Results, Critique,
         DropCpu, DropLocal, CompileLocal, UnlockCpu, UnlockLocal, Exit
<1> QED BY <1>2, <1>3, <1>4, <1>5, <1>6, <1>7

LEMMA NextInv ==
    ASSUME Inv, [Next]_vars
    PROVE  Inv'
<1>1. ASSUME NEW c \in Clients, Start(c) \/ Step(c) \/ LockFails(c) \/ Kill(c)
      PROVE  Inv'
  <2>1. Continues(c)
    BY <1>1, ProcessStep DEF Inv
  <2> QED BY <1>1, <2>1, ContinuesInv, SharedType DEF Inv, TypeOK
<1>2. ASSUME NEW h \in Servers, BackoffExpires(h)
      PROVE  Inv'
  <2>1. /\ disliked' \subseteq disliked
        /\ UNCHANGED <<client, builds, discrepancies>>
    BY <1>2 DEF BackoffExpires
  <2> QED BY <2>1 DEF Inv, TypeOK, Exclusive, Held
<1>3. CASE UNCHANGED vars
  BY <1>3 DEF vars, Inv, TypeOK, Exclusive, Held
<1> QED BY <1>1, <1>2, <1>3 DEF Next

\* The inductive invariant: types, the state every phase of a build leaves a
\* process in, and that no lock file has two holders (lock.c:179-197).
THEOREM Invariance == Spec => []Inv
<1>1. Init => Inv
  BY InitInv
<1>2. Inv /\ [Next]_vars => Inv'
  BY NextInv
<1> QED BY <1>1, <1>2, PTL DEF Spec

\* Types, and that a process locks only files of slots that its hosts have.
THEOREM TypeCorrect == Spec => []TypeOK
<1>1. Inv => TypeOK
  BY DEF Inv
<1> QED BY <1>1, Invariance, PTL

\* A process holds the locks of the work it does and no other, whichever of
\* the gotos of dcc_build_somewhere has brought it there.
THEOREM LocksCorrect == Spec => []LocksMatchWork
<1>1. Inv => LocksMatchWork
  BY DEF Inv, ProcessInv, LocksOK, LocksMatchWork, Unlocked, Held
<1> QED BY <1>1, Invariance, PTL

\* A build that reports success has left an object file, or has left it unread
\* for want of its log of errors.
THEOREM SuccessCorrect == Spec => []SuccessHasObject
<1>1. Inv => SuccessHasObject
  BY DEF Inv, ProcessInv, ObjectOK, SuccessHasObject, At, Finishing
<1> QED BY <1>1, Invariance, PTL

----------------------------------------------------------------------------
(* The processes keep within the slots.                                    *)

\* Processes that each hold one of n files of one host are at most n: the
\* number of its file tells each of them from the others.
LEMMA HoldersBounded ==
    ASSUME Exclusive, NEW S \in SUBSET Clients, NEW n \in Nat, NEW name,
           \A c \in S : \E i \in 0..(n - 1) : <<name, i>> \in Held(c)
    PROVE  IsFiniteSet(S) /\ Cardinality(S) <= n
<1> DEFINE number == [c \in S |-> CHOOSE i \in 0..(n - 1) : <<name, i>> \in Held(c)]
<1>1. \A c \in S : number[c] \in 0..(n - 1) /\ <<name, number[c]>> \in Held(c)
  OBVIOUS
<1>2. ASSUME NEW c \in S, NEW d \in S, number[c] = number[d]
      PROVE  c = d
  <2>1. <<name, number[c]>> \in Held(c) \cap Held(d)
    BY <1>1, <1>2
  <2> HIDE DEF number
  <2> QED BY <2>1 DEF Exclusive
<1>3. number \in Injection(S, 0..(n - 1))
  <2>1. number \in [S -> 0..(n - 1)]
    BY <1>1
  <2> QED BY <1>2, <2>1 DEF Injection, IsInjective
<1>4. IsFiniteSet(0..(n - 1)) /\ Cardinality(0..(n - 1)) = n
  BY FS_Interval
<1> HIDE DEF number
<1> QED BY <1>3, <1>4, FS_Injection

Jobs(h) == {c \in Clients : client[c].pc \in AtServer /\ client[c].host = h}

Compiling == {c \in Clients : client[c].pc = "local"}

Preprocessing == {c \in Clients : RunsCpp(client[c])}

LocalSlots == Larger(CompileSlots, NSlots["local_cpp"])

SlotsOK ==
    /\ \A h \in Servers : IsFiniteSet(Jobs(h)) /\ Cardinality(Jobs(h)) <= NSlots[h]
    /\ IsFiniteSet(Compiling) /\ Cardinality(Compiling) <= CompileSlots
    /\ IsFiniteSet(Compiling \cup Preprocessing)
    /\ Cardinality(Compiling \cup Preprocessing) <= LocalSlots

LEMMA SlotNumbers ==
    /\ NSlots["local"] \in Nat /\ NSlots["localhost"] \in Nat
    /\ NSlots["local_cpp"] \in Nat
    /\ CompileSlots \in Nat /\ LocalSlots \in Nat
    /\ NSlots["local"] <= CompileSlots /\ NSlots["localhost"] <= CompileSlots
    /\ CompileSlots <= LocalSlots /\ NSlots["local_cpp"] <= LocalSlots
<1>1. /\ NSlots["local"] \in Nat /\ NSlots["localhost"] \in Nat
      /\ NSlots["local_cpp"] \in Nat
  BY DistccClientAssumption, HostNames
<1> QED BY <1>1 DEF CompileSlots, LocalSlots, Larger

LEMMA SlotsKept == Inv => SlotsOK
<1> SUFFICES ASSUME Inv PROVE SlotsOK
  OBVIOUS
<1>1. Exclusive /\ \A c \in Clients : LocksOK(client[c])
  BY DEF Inv, ProcessInv
<1>2. ASSUME NEW h \in Servers
      PROVE  IsFiniteSet(Jobs(h)) /\ Cardinality(Jobs(h)) <= NSlots[h]
  <2>1. NSlots[h] \in Nat /\ h \notin LocalHosts
    BY DistccClientAssumption, HostNames
  <2>2. ASSUME NEW c \in Jobs(h)
        PROVE  \E i \in 0..(NSlots[h] - 1) : <<h, i>> \in Held(c)
    <3>1. Slot(client[c].cpu, h)
      BY <1>1 DEF Jobs, LocksOK
    <3> QED BY <2>1, <3>1 DEF Slot, LockFile, Held
  <2> QED BY <1>1, <2>1, <2>2, HoldersBounded DEF Jobs
<1>3. \A c \in Compiling :
        \E i \in 0..(CompileSlots - 1) : <<"localhost", i>> \in Held(c)
  <2> SUFFICES ASSUME NEW c \in Compiling
               PROVE  \E i \in 0..(CompileSlots - 1) : <<"localhost", i>> \in Held(c)
    OBVIOUS
  <2>1. PICK h \in {"local", "localhost"} : Slot(client[c].cpu, h)
    BY <1>1 DEF Compiling, LocksOK
  <2>2. PICK i \in 0..(NSlots[h] - 1) : client[c].cpu = {<<"localhost", i>>}
    BY <2>1 DEF Slot, LockFile, LocalHosts
  <2>3. i \in 0..(CompileSlots - 1)
    BY <2>2, SlotNumbers
  <2> QED BY <2>2, <2>3 DEF Held
<1>4. \A c \in Preprocessing :
        \E i \in 0..(NSlots["local_cpp"] - 1) : <<"localhost", i>> \in Held(c)
  <2> SUFFICES ASSUME NEW c \in Preprocessing
               PROVE  \E i \in 0..(NSlots["local_cpp"] - 1) :
                        <<"localhost", i>> \in Held(c)
    OBVIOUS
  <2>1. Slot(client[c].local, "local_cpp")
    BY <1>1 DEF Preprocessing, LocksOK
  <2> QED BY <2>1 DEF Slot, LockFile, LocalHosts, Held
<1>5. \A c \in Compiling \cup Preprocessing :
        \E i \in 0..(LocalSlots - 1) : <<"localhost", i>> \in Held(c)
  BY <1>3, <1>4, SlotNumbers
<1>6. Compiling \subseteq Clients /\ Preprocessing \subseteq Clients
  BY DEF Compiling, Preprocessing
<1>7. IsFiniteSet(Compiling) /\ Cardinality(Compiling) <= CompileSlots
  BY <1>1, <1>3, <1>6, SlotNumbers, HoldersBounded
<1>8. IsFiniteSet(Compiling \cup Preprocessing)
      /\ Cardinality(Compiling \cup Preprocessing) <= LocalSlots
  BY <1>1, <1>5, <1>6, SlotNumbers, HoldersBounded
<1> QED BY <1>2, <1>7, <1>8 DEF SlotsOK

\* With room for one more, there was room.
LEMMA OneMore ==
    ASSUME NEW S, NEW c, c \notin S, NEW n \in Nat,
           IsFiniteSet(S \cup {c}), Cardinality(S \cup {c}) <= n
    PROVE  Cardinality(S) < n
<1>1. IsFiniteSet(S)
  BY FS_Subset
<1>2. Cardinality(S \cup {c}) = Cardinality(S) + 1 /\ Cardinality(S) \in Nat
  BY <1>1, FS_AddElement, FS_CardinalityType
<1> QED BY <1>2

\* The work of the processes, as DistccSlots sees it.
Uses == [c \in Clients |-> Use(client[c])]

LEMMA UseValues ==
    ASSUME NEW p, p.pc \in AtServer => p.host \in Servers
    PROVE  /\ Use(p) = Slots!Unused <=> p.pc \notin AtServer \cup {"local"}
           /\ p.pc \in AtServer => Use(p).server = p.host
           /\ p.pc \notin AtServer => Use(p).server = NoHost
           /\ RunsCpp(p) <=> Use(p).local = "cpp"
           /\ p.pc = "local" <=> Use(p).local = "compile"
           /\ p.pc \notin {"local"} /\ ~RunsCpp(p) <=> Use(p).local = "none"
           /\ Use(p) = [server |-> Use(p).server, local |-> Use(p).local]
BY HostNames DEF Use, Slots!Unused, AtServer, RunsCpp

\* The operator of FiniteSets has a second name in the instance.
LEMMA SameCardinality ==
    ASSUME NEW S
    PROVE  Slots!Cardinality(S) = Cardinality(S)
BY DEF Slots!Cardinality, Cardinality

LEMMA UsesCounted ==
    ASSUME Inv
    PROVE  /\ \A h \in Servers : Slots!JobsAt(h) = Jobs(h)
           /\ Slots!Working({"compile"}) = Compiling
           /\ Slots!Working({"cpp", "compile"}) = Compiling \cup Preprocessing
<1>1. \A c \in Clients : client[c].pc \in AtServer => client[c].host \in Servers
  BY DEF Inv, ProcessInv, LocksOK
<1>2. \A c \in Clients :
        /\ client[c].pc \in AtServer => Use(client[c]).server = client[c].host
        /\ client[c].pc \notin AtServer => Use(client[c]).server = NoHost
        /\ RunsCpp(client[c]) <=> Use(client[c]).local = "cpp"
        /\ client[c].pc = "local" <=> Use(client[c]).local = "compile"
  BY <1>1, UseValues
<1>3. \A h \in Servers : Slots!JobsAt(h) = Jobs(h)
  BY <1>2, HostNames DEF Slots!JobsAt, Jobs
<1>4. /\ Slots!Working({"compile"}) = Compiling
      /\ Slots!Working({"cpp", "compile"}) = Compiling \cup Preprocessing
  BY <1>2 DEF Slots!Working, Compiling, Preprocessing
<1> QED BY <1>3, <1>4

\* A step of a process is one of DistccSlots or changes nothing there: the
\* invariant after the step bounds the holders, the process among them.
LEMMA StepUses ==
    ASSUME Inv, Inv', NEW c \in Clients, Continues(c)
    PROVE  Slots!Next \/ Uses' = Uses
<1>1. client \in [Clients -> Process]
  BY DEF Inv, TypeOK
<1>2. PICK q : client' = [client EXCEPT ![c] = q] /\ ProcessInv(q) /\ Moves(client[c], q)
  BY DEF Continues, Become
<1>3. client'[c] = q /\ \A d \in Clients \ {c} : client'[d] = client[d]
  BY <1>1, <1>2
<1> DEFINE p == client[c]
<1>4. /\ p.pc \in AtServer => p.host \in Servers
      /\ q.pc \in AtServer => q.host \in Servers
  BY <1>2 DEF Inv, ProcessInv, LocksOK
<1>5. Uses[c] = Use(p) /\ Uses' = [Uses EXCEPT ![c] = Use(q)]
  BY <1>3 DEF Uses
<1>6. SlotsOK'
  BY SlotsKept, PTL
<1>7. CASE Use(q) = Use(p)
  BY <1>5, <1>7 DEF Uses
<1>8. CASE q.pc \notin AtServer \cup {"local"} /\ Use(q) # Use(p)
  <2>1. Use(q) = Slots!Unused
    BY <1>4, <1>8, UseValues
  <2>2. Slots!Stop(c)
    BY <1>5, <1>8, <2>1 DEF Slots!Stop, Slots!Become, Uses
  <2> QED BY <2>2 DEF Slots!Next
<1>9. CASE p.pc \notin AtServer \cup {"local"} /\ q.pc = "lockCpp"
  <2>1. PICK h \in Servers : h = q.host
    BY <1>4, <1>9 DEF AtServer
  <2>2. Use(p) = Slots!Unused
    BY <1>4, <1>9, UseValues
  <2>3. Use(q) = [Slots!Unused EXCEPT !.server = h]
    BY <1>9, <2>1 DEF Use, AtServer, RunsCpp, Slots!Unused
  <2>4. c \notin Jobs(h) /\ Jobs(h)' = Jobs(h) \cup {c}
    BY <1>3, <1>9, <2>1 DEF Jobs, AtServer
  <2>5. NSlots[h] \in Nat
    BY DistccClientAssumption, HostNames
  <2>6. Cardinality(Jobs(h)) < NSlots[h]
    BY <1>6, <2>4, <2>5, OneMore DEF SlotsOK
  <2>7. Cardinality(Slots!JobsAt(h)) < NSlots[h]
    BY <2>6, UsesCounted
  <2>8. Uses[c] = Slots!Unused /\ Slots!Become(c, [Slots!Unused EXCEPT !.server = h])
    BY <1>5, <2>2, <2>3 DEF Slots!Become, Uses
  <2>9. Slots!TakeServer(c, h)
    BY <2>7, <2>8, SameCardinality DEF Slots!TakeServer, Uses
  <2> QED BY <2>9 DEF Slots!Next
<1>10. CASE p.pc \notin AtServer \cup {"local"} /\ q.pc = "local"
  <2>1. Use(p) = Slots!Unused
    BY <1>4, <1>10, UseValues
  <2>2. Use(q) = [Slots!Unused EXCEPT !.local = "compile"]
    BY <1>10 DEF Use, AtServer, RunsCpp, Slots!Unused
  <2>3. /\ c \notin Compiling /\ Compiling' = Compiling \cup {c}
        /\ c \notin Preprocessing /\ Preprocessing' = Preprocessing
    BY <1>3, <1>10 DEF Compiling, Preprocessing, RunsCpp, AtServer
  <2>4. (Compiling \cup Preprocessing)' = (Compiling \cup Preprocessing) \cup {c}
    BY <2>3
  <2>5. /\ Cardinality(Compiling) < CompileSlots
        /\ Cardinality(Compiling \cup Preprocessing) < LocalSlots
    BY <1>6, <2>3, <2>4, SlotNumbers, OneMore DEF SlotsOK
  <2>6. /\ Cardinality(Slots!Working({"compile"})) < CompileSlots
        /\ Cardinality(Slots!Working({"cpp", "compile"})) < LocalSlots
    BY <2>5, UsesCounted
  <2>7. /\ Uses[c] = Slots!Unused
        /\ Slots!Become(c, [Slots!Unused EXCEPT !.local = "compile"])
    BY <1>5, <2>1, <2>2 DEF Slots!Become, Uses
  <2>8. Slots!StartCompile(c)
    BY <2>6, <2>7, SameCardinality DEF Slots!StartCompile, Uses, LocalSlots
  <2> QED BY <2>8 DEF Slots!Next
<1>11. CASE /\ p.pc \in AtServer /\ q.pc \in AtServer /\ p.host = q.host
            /\ Use(q) # Use(p)
  <2>1. /\ Use(p).server = p.host /\ Use(q).server = p.host /\ p.host # NoHost
        /\ Use(p) = [server |-> Use(p).server, local |-> Use(p).local]
        /\ Use(q) = [server |-> Use(q).server, local |-> Use(q).local]
    BY <1>4, <1>11, UseValues, HostNames
  <2>2. /\ RunsCpp(p) => Use(p).local = "cpp"
        /\ ~RunsCpp(p) => Use(p).local = "none"
        /\ RunsCpp(q) => Use(q).local = "cpp"
        /\ ~RunsCpp(q) => Use(q).local = "none"
    BY <1>11 DEF Use, AtServer, RunsCpp
  <2>3. CASE RunsCpp(p) /\ ~RunsCpp(q)
    <3>1. Use(q) = [Use(p) EXCEPT !.local = "none"]
      BY <2>1, <2>2, <2>3
    <3>2. Slots!EndCpp(c)
      BY <1>5, <2>2, <2>3, <3>1 DEF Slots!EndCpp, Slots!Become, Uses
    <3> QED BY <3>2 DEF Slots!Next
  <2>4. CASE ~RunsCpp(p) /\ RunsCpp(q)
    <3>1. Use(q) = [Use(p) EXCEPT !.local = "cpp"]
      BY <2>1, <2>2, <2>4
    <3>2. /\ c \notin Compiling \cup Preprocessing
          /\ (Compiling \cup Preprocessing)' = (Compiling \cup Preprocessing) \cup {c}
      BY <1>3, <1>11, <2>4 DEF Compiling, Preprocessing, RunsCpp, AtServer
    <3>3. Cardinality(Compiling \cup Preprocessing) < LocalSlots
      BY <1>6, <3>2, SlotNumbers, OneMore DEF SlotsOK
    <3>4. Cardinality(Slots!Working({"cpp", "compile"})) < LocalSlots
      BY <3>3, UsesCounted
    <3>5. /\ Uses[c].server # NoHost /\ Uses[c].local = "none"
          /\ Slots!Become(c, [Uses[c] EXCEPT !.local = "cpp"])
      BY <1>5, <2>1, <2>2, <2>4, <3>1 DEF Slots!Become, Uses
    <3>6. Slots!StartCpp(c)
      BY <3>4, <3>5, SameCardinality DEF Slots!StartCpp, Uses, LocalSlots
    <3> QED BY <3>6 DEF Slots!Next
  <2> QED BY <1>11, <2>1, <2>2, <2>3, <2>4
<1> QED BY <1>2, <1>7, <1>8, <1>9, <1>10, <1>11 DEF Moves

\* The clients implement DistccSlots: no server ever has more jobs than its
\* slots, and the local machine no more compilations and preprocessors.
THEOREM SlotsAlwaysRespected == Spec => SlotsRespected
<1>1. Init => Slots!Init
  BY ExitedType, UseValues DEF Init, Slots!Init, Slots!Unused, Use, Exited,
     AtServer, RunsCpp
<1>2. Inv /\ Inv' /\ [Next]_vars => [Slots!Next]_Uses
  <2> SUFFICES ASSUME Inv, Inv', [Next]_vars
               PROVE  Slots!Next \/ Uses' = Uses
    OBVIOUS
  <2>1. ASSUME NEW c \in Clients, Start(c) \/ Step(c) \/ LockFails(c) \/ Kill(c)
        PROVE  Slots!Next \/ Uses' = Uses
    BY <2>1, ProcessStep, StepUses DEF Inv
  <2>2. ASSUME NEW h \in Servers, BackoffExpires(h)
        PROVE  Uses' = Uses
    BY <2>2 DEF BackoffExpires, Uses
  <2>3. CASE UNCHANGED vars
    BY <2>3 DEF vars, Uses
  <2> QED BY <2>1, <2>2, <2>3 DEF Next
<1> QED
  BY <1>1, <1>2, Invariance, PTL DEF Spec, SlotsRespected, Slots!Spec, Uses

----------------------------------------------------------------------------
(* The include server.  What its caches hold, and what they still owe: the *)
(* inductive invariant IncInv, and TrigInv for the versions.               *)

\* What a command looks for, and where: files, the files a macro may mean.
Hows == Ways \cup {"dir"}
Items ==
    [how : Hows, of : Files] \cup [how : {"expr"}, of : Macros]
    \cup [how : {"symbols"}, of : SUBSET Macros]
Frames == [node : Nat, todo : Seq(Items)]

Keys == Files \X (Ways \cup {"real"})
Nodes == [file : Files \cup {NoFile}, kids : SUBSET Nat, rec : Nat]
Records == [valid : BOOLEAN, support : SUBSET Macros]
Caches ==
    [known : [Files -> {"unknown", "yes", "no"}], parsed : [Files -> Nat], copied : [Files -> Nat],
     table : [Macros -> SUBSET (Macros \cup Files \cup Absolute)],
     cache : UNION {[D -> Nat] : D \in SUBSET Keys}, nodes : Seq(Nodes), recs : Seq(Records)]

\* The graph: what it points to is there; a key leads to a node of its file, or
\* of none; a record belongs to one file.
CacheThere(c) == \A k \in DOMAIN c.cache : c.cache[k] \in DOMAIN c.nodes
KidsThere(c) == \A n \in DOMAIN c.nodes : c.nodes[n].kids \subseteq DOMAIN c.nodes /\ c.nodes[n].rec \in DOMAIN c.recs
KeyKnown(c, k, file) ==
    /\ k[2] \in {"real", "resolved"} => file = k[1]
    /\ k[2] = "next" => file = NoFile
    /\ k[2] \in {"quote", "angle"} => file = k[1] \/ (file = NoFile /\ c.known[k[1]] = "no")
KeysKnown(c) == \A k \in DOMAIN c.cache : KeyKnown(c, k, c.nodes[c.cache[k]].file)
OneFile(c) ==
    \A n, m \in DOMAIN c.nodes : c.nodes[n].rec = c.nodes[m].rec => c.nodes[n].file = c.nodes[m].file
NoneValid(c) ==
    \A n \in DOMAIN c.nodes : c.nodes[n].file = NoFile =>
       c.recs[c.nodes[n].rec].valid /\ c.recs[c.nodes[n].rec].support = {}
GraphKnown(c) ==
    /\ c \in Caches
    /\ CacheThere(c) /\ KidsThere(c) /\ KeysKnown(c) /\ OneFile(c) /\ NoneValid(c)

\* Every file of the graph has been parsed, unless its analysis was abandoned.
NodesParsed ==
    \A n \in DOMAIN mem.nodes :
       mem.nodes[n].file \in damaged \cup {NoFile} \/ mem.parsed[mem.nodes[n].file] > 0

StackKnown ==
    /\ stack \in Seq(Frames)
    /\ phase = "search" <=> stack # <<>>
    /\ stack # <<>> =>
          /\ stack[1].node = 0
          /\ \/ stack[1].todo = <<>> /\ (Len(stack) = 1 => root \in DOMAIN mem.nodes)
             \/ /\ Len(stack) = 1
                /\ \E f \in Files : stack[1].todo = <<[how |-> "resolved", of |-> f]>>
    /\ \A i \in DOMAIN stack \ {1} :
          /\ stack[i].node \in DOMAIN mem.nodes
          /\ mem.nodes[stack[i].node].file = NoFile =>
                \A j \in DOMAIN stack[i].todo : stack[i].todo[j].how \in {"dir", "resolved"}

\* What a node owes: a child for every item of its file, one for every
\* directory of an #include_next.
Owed(n) ==
    {x \in [how : {"quote", "angle", "next", "dir"}, of : Files] :
       \/ /\ mem.nodes[n].file \in Files \ (System \cup damaged)
          /\ x \in ToSet(Todo(mem.nodes[n].file))
       \/ /\ x.how = "dir"
          /\ \E h \in Files :
                /\ <<h, "next">> \in DOMAIN mem.cache /\ mem.cache[<<h, "next">>] = n
                /\ x.of \in Named[h]
                /\ \E f \in Files \ damaged : h \in ToSet(prog.next[f])}

Moot(x) == x.how # "next" /\ mem.known[x.of] = "no"
Meets(k, x) ==
    IF x.how = "next" THEN <<x.of, "next">> \in DOMAIN mem.cache /\ mem.cache[<<x.of, "next">>] = k
    ELSE mem.nodes[k].file = x.of
Same(y, x) == y = x \/ (x.how = "dir" /\ y = [how |-> "resolved", of |-> x.of])
Waits(i, x) ==
    \/ \E j \in DOMAIN stack[i].todo : Same(stack[i].todo[j], x)
    \/ i < Len(stack) /\ Meets(stack[i+1].node, x)
Covered(n, x) ==
    \/ Moot(x)
    \/ \E k \in mem.nodes[n].kids : Meets(k, x)
    \/ \E i \in DOMAIN stack : stack[i].node = n /\ Waits(i, x)

GraphComplete == \A n \in DOMAIN mem.nodes : \A x \in Owed(n) : Covered(n, x)

\* The answer so far.
Includes(f) == ToSet(prog.quote[f]) \cup ToSet(prog.angle[f]) \cup UNION {Named[h] : h \in ToSet(prog.next[f])}
ClosureKnown ==
    /\ closure \subseteq Files
    /\ \A f \in closure \ damaged :
          /\ mem.parsed[f] > 0
          /\ \A g \in Includes(f) : g \in closure \cup System \/ mem.known[g] = "no"

IncInv ==
    /\ GraphKnown(mem) /\ NodesParsed /\ StackKnown /\ GraphComplete /\ ClosureKnown

\* The stamps and versions of the triggers.
VersionsKnown ==
    /\ clock \in Nat \ {0} /\ disk \in [Files -> Nat] /\ stamps \in [Triggers -> Nat]
    /\ seen \in [disk : [Files -> Nat], clock : Nat]
    /\ seen.clock <= clock
    /\ \A f \in Files : disk[f] <= clock /\ mem.parsed[f] <= clock /\ mem.copied[f] <= clock
    /\ \A f \in Files : seen.disk[f] <= seen.clock /\ (disk[f] \in {0, seen.disk[f]} \/ disk[f] > seen.clock)
    /\ \A f \in Triggers :
          /\ stamps[f] <= clock
          /\ stamps[f] > 0 /\ disk[f] = stamps[f] =>
                /\ mem.parsed[f] \in {0, disk[f]} /\ mem.copied[f] \in {0, disk[f]}
                /\ mem.known[f] # "no"

CommandCurrent ==
    phase # "idle" \/ answer = "files" =>
      \A f \in Triggers : seen.disk[f] > 0 =>
          /\ mem.parsed[f] \in {0, seen.disk[f]} \/ mem.parsed[f] > seen.clock
          /\ mem.copied[f] \in {0, seen.disk[f]} \/ mem.copied[f] > seen.clock
          /\ mem.known[f] = "no" => disk[f] # seen.disk[f]
CopiesKnown ==
    /\ phase # "idle" => answer = "nothing"
    /\ answer = "files" => \A f \in closure : mem.copied[f] > 0
TrigInv == VersionsKnown /\ CommandCurrent /\ CopiesKnown

----------------------------------------------------------------------------
(* The caches' operators.                                                  *)

LEMMA CacheFields ==
    ASSUME NEW c \in Caches
    PROVE  /\ c.known \in [Files -> {"unknown", "yes", "no"}]
           /\ c.parsed \in [Files -> Nat] /\ c.copied \in [Files -> Nat]
           /\ c.table \in [Macros -> SUBSET (Macros \cup Files \cup Absolute)]
           /\ c.cache \in UNION {[D -> Nat] : D \in SUBSET Keys}
           /\ c.nodes \in Seq(Nodes) /\ c.recs \in Seq(Records)
           /\ DOMAIN c.nodes = 1..Len(c.nodes) /\ Len(c.nodes) \in Nat
           /\ DOMAIN c.recs = 1..Len(c.recs) /\ Len(c.recs) \in Nat
           /\ \A n \in DOMAIN c.nodes : c.nodes[n] \in Nodes
           /\ \A r \in DOMAIN c.recs : c.recs[r] \in Records
           /\ DOMAIN c.cache \subseteq Keys
<1>1. c.nodes \in Seq(Nodes) /\ c.recs \in Seq(Records)
  BY DEF Caches
<1>2. DOMAIN c.nodes = 1..Len(c.nodes) /\ Len(c.nodes) \in Nat
  BY <1>1, LenProperties
<1>3. DOMAIN c.recs = 1..Len(c.recs) /\ Len(c.recs) \in Nat
  BY <1>1, LenProperties
<1>4. \A n \in DOMAIN c.nodes : c.nodes[n] \in Nodes
  BY <1>1, <1>2, ElementOfSeq
<1>5. \A r \in DOMAIN c.recs : c.recs[r] \in Records
  BY <1>1, <1>3, ElementOfSeq
<1>6. DOMAIN c.cache \subseteq Keys
  <2>1. PICK D \in SUBSET Keys : c.cache \in [D -> Nat]
    BY DEF Caches
  <2> QED BY <2>1
<1> QED BY <1>1, <1>2, <1>3, <1>4, <1>5, <1>6 DEF Caches

\* One more answer of the file system: what is known stays known.
LEMMA ProbeKnown ==
    ASSUME NEW c \in Caches, NEW fs \in SUBSET Files
    PROVE  /\ Probe(c, fs) \in Caches
           /\ \A g \in Files : c.known[g] # "unknown" => Probe(c, fs).known[g] = c.known[g]
           /\ \A g \in Files : Probe(c, fs).known[g] = "no" => c.known[g] = "no" \/ disk[g] = 0
           /\ \A g \in fs : Probe(c, fs).known[g] # "unknown"
           /\ Probe(c, fs).parsed = c.parsed /\ Probe(c, fs).copied = c.copied
           /\ Probe(c, fs).table = c.table /\ Probe(c, fs).cache = c.cache
           /\ Probe(c, fs).nodes = c.nodes /\ Probe(c, fs).recs = c.recs
<1> DEFINE k == [f \in Files |-> IF f \notin fs \/ c.known[f] # "unknown" THEN c.known[f]
                                 ELSE IF disk[f] = 0 THEN "no" ELSE "yes"]
<1>1. Probe(c, fs) = [c EXCEPT !.known = k]
  BY DEF Probe
<1>2. k \in [Files -> {"unknown", "yes", "no"}]
  BY CacheFields
<1>3. /\ \A g \in Files : c.known[g] # "unknown" => k[g] = c.known[g]
      /\ \A g \in Files : k[g] = "no" => c.known[g] = "no" \/ disk[g] = 0
      /\ \A g \in fs : k[g] # "unknown"
  BY CacheFields
<1> HIDE DEF k
<1>4. Probe(c, fs) \in Caches
  BY <1>1, <1>2 DEF Caches
<1>5. /\ Probe(c, fs).known = k
      /\ Probe(c, fs).parsed = c.parsed /\ Probe(c, fs).copied = c.copied
      /\ Probe(c, fs).table = c.table /\ Probe(c, fs).cache = c.cache
      /\ Probe(c, fs).nodes = c.nodes /\ Probe(c, fs).recs = c.recs
  BY <1>1 DEF Caches
<1> QED BY <1>3, <1>4, <1>5

\* Definitions change the table and the validity of records that depend on them.
LEMMA InsertKnown ==
    ASSUME NEW c \in Caches, NEW defs \in SUBSET Definitions
    PROVE  /\ Insert(c, defs) \in Caches
           /\ Insert(c, defs).known = c.known /\ Insert(c, defs).parsed = c.parsed
           /\ Insert(c, defs).copied = c.copied /\ Insert(c, defs).cache = c.cache
           /\ Insert(c, defs).nodes = c.nodes
           /\ DOMAIN Insert(c, defs).recs = DOMAIN c.recs
           /\ \A r \in DOMAIN c.recs : c.recs[r].support = {} => Insert(c, defs).recs[r] = c.recs[r]
<1> DEFINE t == [m \in Macros |-> c.table[m] \cup {d[2] : d \in {e \in defs : e[1] = m}}]
           r == [i \in DOMAIN c.recs |-> IF c.recs[i].support \cap {d[1] : d \in defs} = {} THEN c.recs[i]
                                         ELSE [c.recs[i] EXCEPT !.valid = FALSE]]
<1>1. Insert(c, defs) = [c EXCEPT !.table = t, !.recs = r]
  BY DEF Insert
<1>2. t \in [Macros -> SUBSET (Macros \cup Files \cup Absolute)]
  <2>1. \A d \in defs : d[2] \in Macros \cup Files \cup Absolute
    BY DEF Definitions
  <2> QED BY <2>1, CacheFields
<1>3. r \in Seq(Records)
  <2>1. \A i \in DOMAIN c.recs : r[i] \in Records
    BY CacheFields DEF Records
  <2>2. DOMAIN c.recs = 1..Len(c.recs) /\ Len(c.recs) \in Nat
    BY CacheFields
  <2>3. r \in [1..Len(c.recs) -> Records]
    BY <2>1, <2>2
  <2> HIDE DEF r
  <2> QED BY <2>2, <2>3
<1>4. DOMAIN r = DOMAIN c.recs /\ \A i \in DOMAIN c.recs : c.recs[i].support = {} => r[i] = c.recs[i]
  OBVIOUS
<1> HIDE DEF t, r
<1>5. Insert(c, defs) \in Caches
  BY <1>1, <1>2, <1>3 DEF Caches
<1>6. /\ Insert(c, defs).recs = r
      /\ Insert(c, defs).known = c.known /\ Insert(c, defs).parsed = c.parsed
      /\ Insert(c, defs).copied = c.copied /\ Insert(c, defs).cache = c.cache
      /\ Insert(c, defs).nodes = c.nodes
  BY <1>1 DEF Caches
<1> QED BY <1>4, <1>5, <1>6

\* d is what became of the caches c: nothing is forgotten, what a node leads to
\* stays, and the node of an #include_next is the one it was.
Extends(c, d) ==
    /\ GraphKnown(d)
    /\ DOMAIN c.nodes \subseteq DOMAIN d.nodes
    /\ \A n \in DOMAIN c.nodes : d.nodes[n].file = c.nodes[n].file /\ c.nodes[n].kids \subseteq d.nodes[n].kids
    /\ \A f \in Files : c.known[f] # "unknown" => d.known[f] = c.known[f]
    /\ \A f \in Files : d.known[f] = "no" => c.known[f] = "no" \/ disk[f] = 0
    /\ \A f \in Files : d.parsed[f] = c.parsed[f] \/ (c.parsed[f] = 0 /\ d.parsed[f] = disk[f] /\ disk[f] > 0)
    /\ d.copied = c.copied
    /\ \A h \in Files : <<h, "next">> \in DOMAIN c.cache =>
          <<h, "next">> \in DOMAIN d.cache /\ d.cache[<<h, "next">>] = c.cache[<<h, "next">>]
    /\ \A h \in Files : <<h, "next">> \in DOMAIN d.cache /\ d.cache[<<h, "next">>] \in DOMAIN c.nodes =>
          <<h, "next">> \in DOMAIN c.cache

LEMMA ProbeExtends ==
    ASSUME NEW c, GraphKnown(c), NEW fs \in SUBSET Files
    PROVE  Extends(c, Probe(c, fs))
<1> DEFINE d == Probe(c, fs)
<1>1. c \in Caches
  BY DEF GraphKnown
<1>2. /\ d \in Caches
      /\ \A g \in Files : c.known[g] # "unknown" => d.known[g] = c.known[g]
      /\ \A g \in Files : d.known[g] = "no" => c.known[g] = "no" \/ disk[g] = 0
      /\ d.parsed = c.parsed /\ d.copied = c.copied /\ d.cache = c.cache
      /\ d.nodes = c.nodes /\ d.recs = c.recs
  BY <1>1, ProbeKnown
<1> HIDE DEF d
<1>3. \A k \in DOMAIN c.cache : k[1] \in Files
  BY <1>1, CacheFields DEF Keys
<1>4. GraphKnown(d)
  <2>1. CacheThere(d) /\ KidsThere(d) /\ OneFile(d) /\ NoneValid(d)
    BY <1>2 DEF GraphKnown, CacheThere, KidsThere, OneFile, NoneValid
  <2>2. KeysKnown(d)
    BY <1>2, <1>3 DEF GraphKnown, KeysKnown, KeyKnown
  <2> QED BY <1>2, <2>1, <2>2 DEF GraphKnown
<1> QED BY <1>2, <1>4 DEF Extends, d

LEMMA InsertExtends ==
    ASSUME NEW c, GraphKnown(c), NEW defs \in SUBSET Definitions
    PROVE  Extends(c, Insert(c, defs))
<1> DEFINE d == Insert(c, defs)
<1>1. c \in Caches
  BY DEF GraphKnown
<1>2. /\ d \in Caches
      /\ d.known = c.known /\ d.parsed = c.parsed /\ d.copied = c.copied /\ d.cache = c.cache
      /\ d.nodes = c.nodes /\ DOMAIN d.recs = DOMAIN c.recs
      /\ \A r \in DOMAIN c.recs : c.recs[r].support = {} => d.recs[r] = c.recs[r]
  BY <1>1, InsertKnown
<1> HIDE DEF d
<1>3. GraphKnown(d)
  <2>1. CacheThere(d) /\ KidsThere(d) /\ OneFile(d) /\ KeysKnown(d)
    BY <1>2 DEF GraphKnown, CacheThere, KidsThere, OneFile, KeysKnown, KeyKnown
  <2>2. NoneValid(d)
    BY <1>2 DEF GraphKnown, KidsThere, NoneValid
  <2> QED BY <1>2, <2>1, <2>2 DEF GraphKnown
<1> QED BY <1>2, <1>3 DEF Extends, d

LEMMA ExtendsTrans ==
    ASSUME NEW c, NEW d, NEW e, GraphKnown(c), Extends(c, d), Extends(d, e)
    PROVE  Extends(c, e)
<1>1. /\ DOMAIN c.nodes \subseteq DOMAIN e.nodes
      /\ \A n \in DOMAIN c.nodes : e.nodes[n].file = c.nodes[n].file /\ c.nodes[n].kids \subseteq e.nodes[n].kids
  BY DEF Extends
<1>2. /\ \A f \in Files : c.known[f] # "unknown" => e.known[f] = c.known[f]
      /\ \A f \in Files : e.known[f] = "no" => c.known[f] = "no" \/ disk[f] = 0
      /\ e.copied = c.copied
  BY DEF Extends
<1>3. \A f \in Files : e.parsed[f] = c.parsed[f] \/ (c.parsed[f] = 0 /\ e.parsed[f] = disk[f] /\ disk[f] > 0)
  BY DEF Extends
<1>4. \A h \in Files : <<h, "next">> \in DOMAIN c.cache =>
          <<h, "next">> \in DOMAIN e.cache /\ e.cache[<<h, "next">>] = c.cache[<<h, "next">>]
  BY DEF Extends
<1>5. \A h \in Files : <<h, "next">> \in DOMAIN e.cache /\ e.cache[<<h, "next">>] \in DOMAIN c.nodes =>
          <<h, "next">> \in DOMAIN c.cache
  <2> TAKE h \in Files
  <2> HAVE <<h, "next">> \in DOMAIN e.cache /\ e.cache[<<h, "next">>] \in DOMAIN c.nodes
  <2>1. <<h, "next">> \in DOMAIN d.cache
    BY DEF Extends
  <2>2. e.cache[<<h, "next">>] = d.cache[<<h, "next">>]
    BY <2>1 DEF Extends
  <2> QED BY <2>1, <2>2 DEF Extends
<1> QED BY <1>1, <1>2, <1>3, <1>4, <1>5 DEF Extends

LEMMA ExtendsSelf == ASSUME NEW c, GraphKnown(c) PROVE Extends(c, c)
BY DEF Extends

\* A key whose node is valid is not looked up again: those of #include_next, and
\* those that stand for no file.
LEMMA StaysValid ==
    ASSUME NEW c, GraphKnown(c), NEW k \in DOMAIN c.cache, c.nodes[c.cache[k]].file = NoFile
    PROVE  Valid(c, c.cache[k])
BY DEF GraphKnown, CacheThere, NoneValid, Valid

\* FindNode makes a node of the key's file, or of none.
LEMMA NewNodeKnown ==
    ASSUME NEW c, GraphKnown(c), NEW f \in Files, NEW how \in Ways,
           <<f, how>> \in DOMAIN c.cache => ~ Valid(c, c.cache[<<f, how>>])
    PROVE  LET d == NewNode(c, f, how)
               n == Len(d.nodes)
           IN  /\ Extends(c, d)
               /\ n \in DOMAIN d.nodes /\ n \notin DOMAIN c.nodes
               /\ DOMAIN d.nodes = DOMAIN c.nodes \cup {n}
               /\ d.nodes[n].kids = {} /\ d.nodes[n].file \in {f, NoFile}
               /\ how = "resolved" => d.nodes[n].file = f
               /\ how = "next" => d.nodes[n].file = NoFile
               /\ d.nodes[n].file = NoFile => how = "next" \/ d.known[f] = "no"
               /\ d.parsed = c.parsed
               /\ DOMAIN d.cache = DOMAIN c.cache \cup {<<f, how>>}
               /\ d.cache[<<f, how>>] = n
               /\ \A k \in DOMAIN c.cache \ {<<f, how>>} : d.cache[k] = c.cache[k]
<1> DEFINE key == <<f, how>>
           old == key \in DOMAIN c.cache
           p == IF old \/ how \in {"resolved", "next"} THEN c ELSE Probe(c, {f})
           file == IF old THEN p.nodes[p.cache[key]].file
                   ELSE IF how = "resolved" \/ (how # "next" /\ Exists(p, f)) THEN f ELSE NoFile
           rec == IF old THEN p.nodes[p.cache[key]].rec ELSE Len(p.recs) + 1
           recs == IF old THEN p.recs ELSE Append(p.recs, [valid |-> TRUE, support |-> {}])
           node == [file |-> file, kids |-> {}, rec |-> rec]
           nodes == Append(p.nodes, node)
           n == Len(p.nodes) + 1
           cache == Put(p.cache, key, n)
           d == NewNode(c, f, how)
<1>1. d = [p EXCEPT !.recs = recs, !.nodes = nodes, !.cache = cache]
  BY DEF NewNode
<1>2. Extends(c, p) /\ GraphKnown(p) /\ p \in Caches /\ p.nodes = c.nodes /\ p.recs = c.recs /\ p.cache = c.cache
      /\ p.parsed = c.parsed
  <2>1. CASE old \/ how \in {"resolved", "next"}
    BY <2>1, ExtendsSelf DEF GraphKnown
  <2>2. CASE ~(old \/ how \in {"resolved", "next"})
    <3>1. p = Probe(c, {f})
      BY <2>2
    <3>2. c \in Caches
      BY DEF GraphKnown
    <3> HIDE DEF p
    <3> QED BY <3>1, <3>2, ProbeExtends, ProbeKnown DEF Extends
  <2> QED BY <2>1, <2>2
<1>3. ~old /\ how \notin {"resolved", "next"} => p.known[f] \in {"yes", "no"}
  <2> SUFFICES ASSUME ~old /\ how \notin {"resolved", "next"} PROVE p.known[f] \in {"yes", "no"}
    OBVIOUS
  <2>1. p = Probe(c, {f}) /\ c \in Caches
    BY DEF GraphKnown
  <2>2. p.known[f] # "unknown"
    <3> HIDE DEF p
    <3> QED BY <2>1, ProbeKnown
  <2> HIDE DEF p
  <2> QED BY <1>2, <2>2, CacheFields
<1>4. file \in {f, NoFile} /\ (how = "resolved" => file = f) /\ (how = "next" => file = NoFile)
      /\ (file = NoFile => how = "next" \/ p.known[f] = "no")
  <2>1. CASE old
    <3>1. LET q == p.nodes[p.cache[key]].file
          IN  /\ how \in {"real", "resolved"} => q = f
              /\ how = "next" => q = NoFile
              /\ how \in {"quote", "angle"} => q = f \/ (q = NoFile /\ p.known[f] = "no")
      <4>1. key \in DOMAIN p.cache /\ key[1] = f /\ key[2] = how
        BY <1>2, <2>1
      <4> HIDE DEF p, key
      <4> QED BY <1>2, <4>1 DEF GraphKnown, KeysKnown, KeyKnown
    <3>2. file = p.nodes[p.cache[key]].file
      BY <2>1
    <3> HIDE DEF p, key, file
    <3>3. NoFile \notin Files
      BY FilesAssumption
    <3> QED BY <3>1, <3>2, <3>3 DEF Ways
  <2>2. CASE ~old
    <3>1. how \notin {"resolved", "next"} => how \in {"quote", "angle"}
      BY DEF Ways
    <3>2. NoFile # f
      BY FilesAssumption
    <3>3. file = IF how = "resolved" \/ (how # "next" /\ Exists(p, f)) THEN f ELSE NoFile
      BY <2>2
    <3> HIDE DEF p, file
    <3> QED BY <1>3, <2>2, <3>1, <3>2, <3>3 DEF Exists
  <2> QED BY <2>1, <2>2
<1>5. rec \in DOMAIN recs /\ recs \in Seq(Records) /\ DOMAIN p.recs \subseteq DOMAIN recs
      /\ \A r \in DOMAIN p.recs : recs[r] = p.recs[r]
  <2>1. CASE old
    <3>1. p.cache[key] \in DOMAIN p.nodes
      BY <1>2, <2>1 DEF GraphKnown, CacheThere
    <3> HIDE DEF p, key
    <3> QED BY <1>2, <2>1, <3>1, CacheFields DEF GraphKnown, KidsThere
  <2>2. CASE ~old
    <3> DEFINE e == [valid |-> TRUE, support |-> {}]
    <3>1. e \in Records
      BY DEF Records
    <3>2. recs = Append(p.recs, e) /\ rec = Len(p.recs) + 1
      BY <2>2
    <3>3. /\ p.recs \in Seq(Records) /\ DOMAIN p.recs = 1..Len(p.recs) /\ Len(p.recs) \in Nat
      BY <1>2, CacheFields
    <3> HIDE DEF e, recs, rec, p
    <3>4. /\ recs \in Seq(Records) /\ Len(recs) = Len(p.recs) + 1
          /\ \A i \in 1..Len(p.recs) : recs[i] = p.recs[i]
      BY <3>1, <3>2, <3>3, AppendProperties
    <3>5. DOMAIN recs = 1..Len(recs)
      BY <3>4, LenProperties
    <3> QED BY <3>2, <3>3, <3>4, <3>5
  <2> QED BY <2>1, <2>2
<1>6. rec \in Nat /\ node \in Nodes
  <2>1. DOMAIN recs \subseteq Nat
    <3> HIDE DEF recs
    <3> QED BY <1>5, LenProperties
  <2> HIDE DEF recs, rec, file
  <2> QED BY <1>4, <1>5, <2>1 DEF Nodes
<1>7. /\ p.nodes \in Seq(Nodes) /\ DOMAIN p.nodes = 1..Len(p.nodes) /\ Len(p.nodes) \in Nat
  BY <1>2, CacheFields
<1>8. /\ nodes \in Seq(Nodes) /\ Len(nodes) = n /\ nodes[n] = node
      /\ DOMAIN nodes = DOMAIN p.nodes \cup {n} /\ n \notin DOMAIN p.nodes /\ n \in Nat
      /\ \A m \in DOMAIN p.nodes : nodes[m] = p.nodes[m]
  <2> HIDE DEF node, p
  <2>1. /\ nodes \in Seq(Nodes) /\ Len(nodes) = Len(p.nodes) + 1 /\ nodes[Len(p.nodes) + 1] = node
        /\ \A m \in 1..Len(p.nodes) : nodes[m] = p.nodes[m]
    BY <1>6, <1>7, AppendProperties
  <2>2. DOMAIN nodes = 1..Len(nodes)
    BY <2>1, LenProperties
  <2> HIDE DEF nodes
  <2> QED BY <1>7, <2>1, <2>2
<1>9. /\ DOMAIN cache = DOMAIN p.cache \cup {key} /\ cache[key] = n
      /\ \A k \in DOMAIN p.cache \ {key} : cache[k] = p.cache[k]
      /\ cache \in UNION {[D -> Nat] : D \in SUBSET Keys}
  <2>1. key \in Keys
    BY DEF Keys
  <2>0. p.cache \in UNION {[D -> Nat] : D \in SUBSET Keys}
    <3> HIDE DEF p
    <3> QED BY <1>2, CacheFields
  <2> HIDE DEF p, key, n
  <2>2. PICK D \in SUBSET Keys : p.cache \in [D -> Nat]
    BY <2>0
  <2>3. cache = [k \in {key} \cup D |-> IF k = key THEN n ELSE p.cache[k]]
    BY <2>2 DEF Put
  <2>4. cache \in [{key} \cup D -> Nat]
    BY <1>8, <2>2, <2>3
  <2>5. {key} \cup D \in SUBSET Keys
    BY <2>1
  <2> HIDE DEF cache
  <2> QED BY <2>2, <2>3, <2>4, <2>5
<1>10. /\ d \in Caches
       /\ d.recs = recs /\ d.nodes = nodes /\ d.cache = cache
       /\ d.known = p.known /\ d.parsed = p.parsed /\ d.copied = p.copied
  <2> HIDE DEF recs, nodes, cache, p, d
  <2> QED BY <1>1, <1>2, <1>5, <1>8, <1>9 DEF Caches
<1>11. file = NoFile => recs[rec].valid /\ recs[rec].support = {}
  <2>1. CASE old
    <3>1. p.cache[key] \in DOMAIN p.nodes
      BY <1>2, <2>1 DEF GraphKnown, CacheThere
    <3> HIDE DEF p, key
    <3> QED BY <1>2, <2>1, <3>1 DEF GraphKnown, NoneValid
  <2>2. CASE ~old
    <3> DEFINE e == [valid |-> TRUE, support |-> {}]
    <3>1. e \in Records
      BY DEF Records
    <3>2. recs = Append(p.recs, e) /\ rec = Len(p.recs) + 1
      BY <2>2
    <3>3. p.recs \in Seq(Records)
      BY <1>2, CacheFields
    <3> HIDE DEF e, recs, rec, p
    <3>4. recs[rec] = e
      BY <3>1, <3>2, <3>3, AppendProperties
    <3> QED BY <3>4 DEF e
  <2> QED BY <2>1, <2>2
<1>12. \A m \in DOMAIN p.nodes : p.nodes[m].rec = rec => p.nodes[m].file = file
  <2>1. CASE old
    <3>1. p.cache[key] \in DOMAIN p.nodes
      BY <1>2, <2>1 DEF GraphKnown, CacheThere
    <3> HIDE DEF p, key
    <3> QED BY <1>2, <2>1, <3>1 DEF GraphKnown, OneFile
  <2>2. CASE ~old
    <3>1. rec = Len(p.recs) + 1
      BY <2>2
    <3> HIDE DEF rec, p, file
    <3> QED BY <1>2, <3>1, CacheFields DEF GraphKnown, KidsThere
  <2> QED BY <2>1, <2>2
<1> HIDE DEF key, old, recs, rec, file, cache, d
<1>13. GraphKnown(d)
  <2> HIDE DEF p, nodes, n, node
  <2>0. node.file = file /\ node.kids = {} /\ node.rec = rec
    BY DEF node
  <2>1. CacheThere(d)
    BY <1>2, <1>8, <1>9, <1>10 DEF GraphKnown, CacheThere
  <2>6. /\ \A m \in DOMAIN d.nodes : m = n \/ (m \in DOMAIN p.nodes /\ d.nodes[m] = p.nodes[m])
        /\ d.nodes[n] = node /\ DOMAIN p.nodes \subseteq DOMAIN d.nodes
    BY <1>8, <1>10
  <2>7. /\ DOMAIN p.recs \subseteq DOMAIN d.recs /\ rec \in DOMAIN d.recs
        /\ \A r \in DOMAIN p.recs : d.recs[r] = p.recs[r]
    BY <1>5, <1>10
  <2>8. \A m \in DOMAIN p.nodes : p.nodes[m].kids \subseteq DOMAIN p.nodes /\ p.nodes[m].rec \in DOMAIN p.recs
    BY <1>2 DEF GraphKnown, KidsThere
  <2>2. KidsThere(d)
    BY <2>0, <2>6, <2>7, <2>8 DEF KidsThere
  <2>3. ASSUME NEW k \in DOMAIN d.cache
        PROVE  KeyKnown(d, k, d.nodes[d.cache[k]].file)
    <3>1. CASE k = key
      <4>1. d.nodes[d.cache[k]].file = file
        BY <1>8, <1>9, <1>10, <2>0, <3>1
      <4>2. key[1] = f /\ key[2] = how /\ how # "real"
        BY DEF key, Ways
      <4> QED BY <1>4, <1>10, <3>1, <4>1, <4>2 DEF KeyKnown
    <3>2. CASE k # key
      <4>1. k \in DOMAIN p.cache /\ d.cache[k] = p.cache[k] /\ p.cache[k] \in DOMAIN p.nodes
        BY <1>2, <1>9, <1>10, <3>2 DEF GraphKnown, CacheThere
      <4>2. d.nodes[d.cache[k]] = p.nodes[p.cache[k]]
        BY <1>8, <1>10, <4>1
      <4> QED BY <1>2, <1>10, <4>1, <4>2 DEF GraphKnown, KeysKnown, KeyKnown
    <3> QED BY <3>1, <3>2
  <2>4. OneFile(d)
    <3>1. OneFile(p)
      BY <1>2 DEF GraphKnown
    <3> QED BY <1>12, <2>0, <2>6, <3>1 DEF OneFile
  <2>5. NoneValid(d)
    <3>1. NoneValid(p)
      BY <1>2 DEF GraphKnown
    <3>2. ASSUME NEW m \in DOMAIN d.nodes, d.nodes[m].file = NoFile
          PROVE  d.recs[d.nodes[m].rec].valid /\ d.recs[d.nodes[m].rec].support = {}
      <4>1. CASE m = n
        BY <1>10, <1>11, <2>0, <2>6, <3>2, <4>1
      <4>2. CASE m # n
        BY <2>6, <2>7, <2>8, <3>1, <3>2, <4>2 DEF NoneValid
      <4> QED BY <4>1, <4>2
    <3> QED BY <3>2 DEF NoneValid
  <2> QED BY <1>10, <2>1, <2>2, <2>3, <2>4, <2>5 DEF GraphKnown, KeysKnown
<1>14. how = "next" => key \notin DOMAIN c.cache
  <2>1. ASSUME how = "next", key \in DOMAIN c.cache PROVE FALSE
    <3>1. c.nodes[c.cache[key]].file = NoFile
      BY <2>1 DEF GraphKnown, KeysKnown, KeyKnown, key
    <3> QED BY <2>1, <3>1, StaysValid DEF key
  <2> QED BY <2>1
<1>15. Extends(p, d)
  <2> HIDE DEF p, nodes, n
  <2>1. \A h \in Files : <<h, "next">> \in DOMAIN p.cache => <<h, "next">> # key
    BY <1>2, <1>14 DEF key
  <2>2. \A h \in Files : <<h, "next">> \in DOMAIN p.cache =>
          <<h, "next">> \in DOMAIN d.cache /\ d.cache[<<h, "next">>] = p.cache[<<h, "next">>]
    BY <1>9, <1>10, <2>1
  <2>3. \A h \in Files : <<h, "next">> \in DOMAIN d.cache /\ d.cache[<<h, "next">>] \in DOMAIN p.nodes =>
          <<h, "next">> \in DOMAIN p.cache
    BY <1>8, <1>9, <1>10
  <2> QED BY <1>8, <1>10, <1>13, <2>2, <2>3 DEF Extends
<1>16. Extends(c, d)
  <2> HIDE DEF p
  <2> QED BY <1>2, <1>15, ExtendsTrans
<1>17. Len(d.nodes) = n
  BY <1>8, <1>10
<1>18. d.nodes[n].kids = {} /\ d.nodes[n].file = file
  BY <1>8, <1>10
<1> HIDE DEF p, nodes, n, node
<1>19. /\ n \in DOMAIN d.nodes /\ n \notin DOMAIN c.nodes /\ DOMAIN d.nodes = DOMAIN c.nodes \cup {n}
       /\ d.parsed = c.parsed /\ d.known = p.known
       /\ DOMAIN d.cache = DOMAIN c.cache \cup {key} /\ d.cache[key] = n
       /\ \A k \in DOMAIN c.cache \ {key} : d.cache[k] = c.cache[k]
  BY <1>2, <1>8, <1>9, <1>10
<1> QED BY <1>4, <1>16, <1>17, <1>18, <1>19 DEF key, d

LEMMA WithChildKnown ==
    ASSUME NEW c, GraphKnown(c), NEW parent \in {0} \cup DOMAIN c.nodes, NEW n \in DOMAIN c.nodes
    PROVE  LET d == WithChild(c, parent, n)
           IN  /\ Extends(c, d) /\ DOMAIN d.nodes = DOMAIN c.nodes
               /\ parent # 0 => n \in d.nodes[parent].kids
               /\ d.cache = c.cache /\ d.known = c.known /\ d.parsed = c.parsed
<1>0. c \in Caches
  BY DEF GraphKnown
<1>1. CASE parent = 0
  <2>1. WithChild(c, parent, n) = c
    BY <1>1 DEF WithChild
  <2> QED BY <1>1, <2>1, ExtendsSelf
<1>2. CASE parent # 0
  <2> DEFINE node == [c.nodes[parent] EXCEPT !.kids = c.nodes[parent].kids \cup {n}]
             nodes == [c.nodes EXCEPT ![parent] = node]
             c1 == [c EXCEPT !.nodes = nodes]
             r == c.nodes[parent].rec
             rec == [c.recs[r] EXCEPT !.support = c.recs[r].support \cup c.recs[c.nodes[n].rec].support]
             recs == IF c.nodes[parent].file = NoFile THEN c.recs ELSE [c.recs EXCEPT ![r] = rec]
             d == [c EXCEPT !.nodes = nodes, !.recs = recs]
  <2>1. /\ DOMAIN c.nodes = 1..Len(c.nodes) /\ DOMAIN c.recs = 1..Len(c.recs) /\ Len(c.nodes) \in Nat
        /\ c.nodes \in Seq(Nodes) /\ c.recs \in Seq(Records) /\ parent \in DOMAIN c.nodes
        /\ c.nodes[parent] \in Nodes /\ c.nodes[n] \in Nodes
    BY <1>0, <1>2, CacheFields
  <2>2. r \in DOMAIN c.recs /\ c.nodes[n].rec \in DOMAIN c.recs
    BY <2>1 DEF GraphKnown, KidsThere
  <2>3. node \in Nodes /\ node.file = c.nodes[parent].file /\ node.rec = r
        /\ node.kids = c.nodes[parent].kids \cup {n}
    BY <2>1 DEF Nodes
  <2>4. rec \in Records /\ rec.valid = c.recs[r].valid
    <3>1. c.recs[r] \in Records /\ c.recs[c.nodes[n].rec] \in Records
      BY <1>0, <2>2, CacheFields
    <3> QED BY <3>1 DEF Records
  <2> HIDE DEF node, rec, r
  <2>5. WithChild(c, parent, n) = d
    <3>1. nodes = [c.nodes EXCEPT ![parent].kids = @ \cup {n}]
      BY <2>1 DEF node
    <3>2. c1 = [c EXCEPT !.nodes[parent].kids = @ \cup {n}]
      BY <1>0, <3>1 DEF Caches
    <3> DEFINE e == [c1 EXCEPT !.recs[c.nodes[parent].rec].support = @ \cup c.recs[c.nodes[n].rec].support]
    <3>3. WithChild(c, parent, n) = IF c.nodes[parent].file = NoFile THEN c1 ELSE e
      BY <1>2, <3>2 DEF WithChild
    <3>4. c1.recs = c.recs
      BY <1>0 DEF Caches
    <3>5. e = [c1 EXCEPT !.recs = [c.recs EXCEPT ![r] = rec]]
      <4>1. [c.recs EXCEPT ![r] = rec] = [c1.recs EXCEPT ![c.nodes[parent].rec].support = @ \cup c.recs[c.nodes[n].rec].support]
        BY <2>2, <3>4 DEF rec, r
      <4> HIDE DEF c1
      <4> QED BY <4>1
    <3>6. CASE c.nodes[parent].file = NoFile
      <4>1. d = c1
        BY <1>0, <3>6 DEF Caches
      <4> HIDE DEF c1, d, e
      <4> QED BY <3>3, <3>6, <4>1
    <3>7. CASE c.nodes[parent].file # NoFile
      <4>1. d = [c1 EXCEPT !.recs = [c.recs EXCEPT ![r] = rec]]
        BY <1>0, <3>7 DEF Caches
      <4> HIDE DEF c1, d, e
      <4> QED BY <3>3, <3>5, <3>7, <4>1
    <3> QED BY <3>6, <3>7
  <2>6. nodes \in Seq(Nodes) /\ DOMAIN nodes = DOMAIN c.nodes /\ nodes[parent] = node
        /\ \A m \in DOMAIN c.nodes \ {parent} : nodes[m] = c.nodes[m]
    BY <2>1, <2>3, ExceptSeq
  <2>7. recs \in Seq(Records) /\ DOMAIN recs = DOMAIN c.recs
    BY <2>1, <2>2, <2>4, ExceptSeq
  <2>8. /\ \A i \in DOMAIN c.recs : recs[i].valid = c.recs[i].valid
        /\ \A i \in DOMAIN c.recs : recs[i] # c.recs[i] => i = r /\ c.nodes[parent].file # NoFile
    BY <2>2, <2>4
  <2> HIDE DEF nodes, recs
  <2>9. d \in Caches /\ d.nodes = nodes /\ d.recs = recs /\ d.cache = c.cache /\ d.known = c.known
        /\ d.parsed = c.parsed /\ d.copied = c.copied
    BY <1>0, <2>6, <2>7 DEF Caches
  <2> HIDE DEF d
  <2>10. \A m \in DOMAIN c.nodes : d.nodes[m].file = c.nodes[m].file /\ d.nodes[m].rec = c.nodes[m].rec
           /\ c.nodes[m].kids \subseteq d.nodes[m].kids /\ d.nodes[m].kids \subseteq c.nodes[m].kids \cup {n}
    BY <2>3, <2>6, <2>9 DEF r
  <2>11. CacheThere(d) /\ KidsThere(d) /\ OneFile(d)
    <3>1. CacheThere(d)
      BY <2>6, <2>9 DEF GraphKnown, CacheThere
    <3>2. KidsThere(d)
      BY <2>6, <2>7, <2>9, <2>10 DEF GraphKnown, KidsThere
    <3>3. OneFile(d)
      BY <2>6, <2>9, <2>10 DEF GraphKnown, OneFile
    <3> QED BY <3>1, <3>2, <3>3
  <2>12. KeysKnown(d)
    <3>1. \A k \in DOMAIN c.cache : d.nodes[c.cache[k]].file = c.nodes[c.cache[k]].file
      BY <2>10 DEF GraphKnown, CacheThere
    <3> QED BY <2>9, <3>1 DEF GraphKnown, KeysKnown, KeyKnown
  <2>13. NoneValid(d)
    <3>1. ASSUME NEW m \in DOMAIN c.nodes, c.nodes[m].file = NoFile
          PROVE  d.recs[c.nodes[m].rec] = c.recs[c.nodes[m].rec]
      <4>1. c.nodes[m].rec \in DOMAIN c.recs
        BY DEF GraphKnown, KidsThere
      <4>0. OneFile(c) /\ parent \in DOMAIN c.nodes /\ r = c.nodes[parent].rec
        BY <2>1 DEF GraphKnown, r
      <4>2. c.nodes[m].rec = r => c.nodes[m].file = c.nodes[parent].file
        BY <3>1, <4>0 DEF OneFile
      <4> QED BY <2>8, <2>9, <3>1, <4>1, <4>2
    <3>2. ASSUME NEW m \in DOMAIN d.nodes, d.nodes[m].file = NoFile
          PROVE  d.recs[d.nodes[m].rec].valid /\ d.recs[d.nodes[m].rec].support = {}
      <4>1. m \in DOMAIN c.nodes /\ c.nodes[m].file = NoFile /\ d.nodes[m].rec = c.nodes[m].rec
        BY <2>6, <2>9, <2>10, <3>2
      <4>2. d.recs[c.nodes[m].rec] = c.recs[c.nodes[m].rec]
        BY <3>1, <4>1
      <4> QED BY <4>1, <4>2 DEF GraphKnown, NoneValid
    <3> QED BY <3>2 DEF NoneValid
  <2>14. Extends(c, d)
    BY <2>6, <2>9, <2>10, <2>11, <2>12, <2>13 DEF Extends, GraphKnown
  <2>15. n \in d.nodes[parent].kids
    BY <2>3, <2>6, <2>9
  <2> QED BY <2>5, <2>6, <2>9, <2>14, <2>15
<1> QED BY <1>1, <1>2

\* A name that leads to a node that is there.
LEMMA PutKnown ==
    ASSUME NEW c, GraphKnown(c), NEW key \in Keys, NEW n \in DOMAIN c.nodes,
           KeyKnown(c, key, c.nodes[n].file), key[2] # "next",
           NEW d, d = [c EXCEPT !.cache = Put(@, key, n)]
    PROVE  /\ Extends(c, d) /\ d.nodes = c.nodes /\ d.recs = c.recs
           /\ d.known = c.known /\ d.parsed = c.parsed
           /\ DOMAIN d.cache = DOMAIN c.cache \cup {key} /\ d.cache[key] = n
           /\ \A k \in DOMAIN c.cache \ {key} : d.cache[k] = c.cache[k]
<1> DEFINE cache == Put(c.cache, key, n)
<1>0. d = [c EXCEPT !.cache = cache]
  OBVIOUS
<1>1. /\ c \in Caches /\ n \in Nat /\ c.cache \in UNION {[D -> Nat] : D \in SUBSET Keys}
      /\ DOMAIN c.cache \subseteq Keys
  BY CacheFields DEF GraphKnown
<1>2. PICK D \in SUBSET Keys : c.cache \in [D -> Nat]
  BY <1>1
<1>3. /\ DOMAIN cache = DOMAIN c.cache \cup {key} /\ cache[key] = n
      /\ \A k \in DOMAIN c.cache \ {key} : cache[k] = c.cache[k]
      /\ cache \in UNION {[E -> Nat] : E \in SUBSET Keys}
  <2>1. cache \in [{key} \cup D -> Nat]
    BY <1>1, <1>2 DEF Put
  <2>2. {key} \cup D \in SUBSET Keys
    OBVIOUS
  <2>3. /\ DOMAIN cache = DOMAIN c.cache \cup {key} /\ cache[key] = n
        /\ \A k \in DOMAIN c.cache \ {key} : cache[k] = c.cache[k]
    BY DEF Put
  <2> HIDE DEF cache
  <2> QED BY <2>1, <2>2, <2>3
<1> HIDE DEF cache
<1>4. d \in Caches /\ d.nodes = c.nodes /\ d.recs = c.recs /\ d.cache = cache /\ d.known = c.known
      /\ d.parsed = c.parsed /\ d.copied = c.copied
  BY <1>0, <1>1, <1>3 DEF Caches
<1>5. CacheThere(d) /\ KidsThere(d) /\ OneFile(d) /\ NoneValid(d)
  BY <1>3, <1>4 DEF GraphKnown, CacheThere, KidsThere, OneFile, NoneValid
<1>6. KeysKnown(d)
  <2>1. ASSUME NEW k \in DOMAIN d.cache PROVE KeyKnown(d, k, d.nodes[d.cache[k]].file)
    <3>1. CASE k = key
      BY <1>3, <1>4, <3>1 DEF KeyKnown
    <3>2. CASE k # key
      BY <1>3, <1>4, <3>2 DEF GraphKnown, KeysKnown, KeyKnown
    <3> QED BY <3>1, <3>2
  <2> QED BY <2>1 DEF KeysKnown
<1>7. \A h : <<h, "next">> # key
  OBVIOUS
<1>8. Extends(c, d)
  BY <1>3, <1>4, <1>5, <1>6, <1>7 DEF Extends, GraphKnown
<1> QED BY <1>3, <1>4, <1>8

LEMMA ValidKnown ==
    ASSUME NEW c, GraphKnown(c), NEW r \in DOMAIN c.recs,
           NEW d, d = [c EXCEPT !.recs[r].valid = TRUE]
    PROVE  /\ Extends(c, d) /\ d.nodes = c.nodes /\ d.cache = c.cache
           /\ d.known = c.known /\ d.parsed = c.parsed
<1> DEFINE rec == [c.recs[r] EXCEPT !.valid = TRUE]
           recs == [c.recs EXCEPT ![r] = rec]
<1>1. c \in Caches /\ c.recs \in Seq(Records) /\ DOMAIN c.recs = 1..Len(c.recs) /\ c.recs[r] \in Records
  BY CacheFields DEF GraphKnown
<1>2. rec \in Records /\ rec.valid /\ rec.support = c.recs[r].support
  BY <1>1 DEF Records
<1>3. d = [c EXCEPT !.recs = recs]
  BY <1>1
<1> HIDE DEF rec
<1>4. /\ recs \in Seq(Records) /\ DOMAIN recs = DOMAIN c.recs
      /\ \A i \in DOMAIN c.recs : recs[i].support = c.recs[i].support /\ (c.recs[i].valid => recs[i].valid)
  BY <1>1, <1>2, ExceptSeq
<1> HIDE DEF recs
<1>5. d \in Caches /\ d.nodes = c.nodes /\ d.recs = recs /\ d.cache = c.cache /\ d.known = c.known
      /\ d.parsed = c.parsed /\ d.copied = c.copied
  BY <1>1, <1>3, <1>4 DEF Caches
<1>6. CacheThere(d) /\ KidsThere(d) /\ OneFile(d) /\ KeysKnown(d)
  BY <1>4, <1>5 DEF GraphKnown, CacheThere, KidsThere, OneFile, KeysKnown, KeyKnown
<1>7. NoneValid(d)
  BY <1>4, <1>5 DEF GraphKnown, KidsThere, NoneValid
<1>8. Extends(c, d)
  BY <1>5, <1>6, <1>7 DEF Extends, GraphKnown
<1> QED BY <1>5, <1>8

\* A file is parsed once.
LEMMA ParsedKnown ==
    ASSUME NEW c, GraphKnown(c), NEW f \in Files, c.parsed[f] = 0, disk[f] \in Nat, disk[f] > 0,
           NEW parsed, parsed = [c.parsed EXCEPT ![f] = disk[f]],
           NEW d, d = [c EXCEPT !.parsed = parsed]
    PROVE  /\ Extends(c, d) /\ d.nodes = c.nodes /\ d.cache = c.cache /\ d.known = c.known
           /\ d.recs = c.recs /\ d.parsed = parsed
<1>1. c \in Caches /\ c.parsed \in [Files -> Nat]
  BY CacheFields DEF GraphKnown
<1>2. parsed \in [Files -> Nat] /\ \A g \in Files : parsed[g] = c.parsed[g] \/ (g = f /\ parsed[g] = disk[f])
  BY <1>1
<1>4. d \in Caches /\ d.nodes = c.nodes /\ d.recs = c.recs /\ d.cache = c.cache /\ d.known = c.known
      /\ d.parsed = parsed /\ d.copied = c.copied
  BY <1>1, <1>2 DEF Caches
<1>5. CacheThere(d) /\ KidsThere(d) /\ OneFile(d) /\ KeysKnown(d) /\ NoneValid(d)
  BY <1>4 DEF GraphKnown, CacheThere, KidsThere, OneFile, KeysKnown, KeyKnown, NoneValid
<1>6. Extends(c, d)
  BY <1>2, <1>4, <1>5 DEF Extends, GraphKnown
<1> QED BY <1>4, <1>6

----------------------------------------------------------------------------
(* The stack.                                                              *)

LEMMA StackFields ==
    ASSUME stack \in Seq(Frames), stack # <<>>
    PROVE  /\ Len(stack) \in Nat \ {0} /\ DOMAIN stack = 1..Len(stack)
           /\ \A i \in 1..Len(stack) : stack[i] \in Frames
           /\ Top \in Frames
           /\ Below \in Seq(Frames) /\ Len(Below) = Len(stack) - 1
           /\ \A i \in 1..(Len(stack) - 1) : Below[i] = stack[i]
<1>1. Len(stack) \in Nat \ {0}
  BY EmptySeq
<1>2. DOMAIN stack = 1..Len(stack) /\ stack \in [1..Len(stack) -> Frames]
  BY LenProperties
<1>3. \A i \in 1..Len(stack) : stack[i] \in Frames
  BY <1>2
<1>4. \A i \in 1..(Len(stack) - 1) : stack[i] \in Frames
  BY <1>1, <1>3
<1>5. Len(stack) - 1 \in Int /\ 1 \in Int
  BY <1>1
<1>6. /\ Below \in Seq(Frames)
      /\ Len(Below) = IF 1 <= Len(stack) - 1 THEN Len(stack) - 1 - 1 + 1 ELSE 0
      /\ \A i \in 1 .. (Len(stack) - 1 - 1 + 1) : Below[i] = stack[1 + i - 1]
  BY <1>4, <1>5, SubSeqProperties DEF Below
<1>7. \A i \in 1..(Len(stack) - 1) : i \in 1..(Len(stack) - 1 - 1 + 1) /\ 1 + i - 1 = i
  BY <1>1
<1>8. Top \in Frames
  BY <1>1, <1>3 DEF Top
<1>9. Len(Below) = Len(stack) - 1
  <2> DEFINE l == Len(stack)
             b == Len(Below)
  <2>1. b = IF 1 <= l - 1 THEN l - 1 - 1 + 1 ELSE 0
    BY <1>6
  <2>2. l \in Nat \ {0}
    BY <1>1
  <2> HIDE DEF l, b
  <2>3. b = l - 1
    BY <2>1, <2>2
  <2> QED BY <2>3 DEF l, b
<1>10. ASSUME NEW i \in 1..(Len(stack) - 1) PROVE Below[i] = stack[i]
  BY <1>6, <1>7
<1>11. Below \in Seq(Frames) /\ DOMAIN stack = 1..Len(stack)
  BY <1>2, <1>6
<1> QED BY <1>1, <1>3, <1>8, <1>9, <1>10, <1>11

\* A frame on top of those below the top.
LEMMA OnBelow ==
    ASSUME stack \in Seq(Frames), stack # <<>>, NEW t \in Frames
    PROVE  /\ Append(Below, t) \in Seq(Frames) /\ Len(Append(Below, t)) = Len(stack)
           /\ \A i \in 1..(Len(stack) - 1) : Append(Below, t)[i] = stack[i]
           /\ Append(Below, t)[Len(stack)] = t
<1>1. /\ Len(stack) \in Nat \ {0} /\ Below \in Seq(Frames) /\ Len(Below) = Len(stack) - 1
      /\ \A i \in 1..(Len(stack) - 1) : Below[i] = stack[i]
  BY StackFields
<1>2. /\ Append(Below, t) \in Seq(Frames) /\ Len(Append(Below, t)) = Len(Below) + 1
      /\ \A i \in 1..Len(Below) : Append(Below, t)[i] = Below[i]
      /\ Append(Below, t)[Len(Below) + 1] = t
  BY <1>1, AppendProperties
<1> QED BY <1>1, <1>2

\* The first thing to do, and the others.
LEMMA ItemFields ==
    ASSUME stack \in Seq(Frames), stack # <<>>, Top.todo # <<>>
    PROVE  /\ Len(stack) \in Nat \ {0} /\ Top \in Frames /\ Top.todo \in Seq(Items)
           /\ DOMAIN Top.todo = 1..Len(Top.todo) /\ Len(Top.todo) \in Nat \ {0}
           /\ Item \in Items /\ Item = Top.todo[1]
           /\ Rest \in Frames /\ Rest.node = Top.node /\ Rest.todo = Tail(Top.todo)
           /\ DOMAIN Rest.todo = 1..(Len(Top.todo) - 1)
           /\ \A j \in 1..(Len(Top.todo) - 1) : Rest.todo[j] = Top.todo[j + 1]
<1>1. Top \in Frames /\ Len(stack) \in Nat \ {0}
  BY StackFields
<1>2. Top.todo \in Seq(Items)
  BY <1>1 DEF Frames
<1>3. DOMAIN Top.todo = 1..Len(Top.todo) /\ Len(Top.todo) \in Nat \ {0}
  BY <1>2, LenProperties, EmptySeq
<1>4. /\ Tail(Top.todo) \in Seq(Items) /\ Len(Tail(Top.todo)) = Len(Top.todo) - 1
      /\ \A j \in 1..Len(Tail(Top.todo)) : Tail(Top.todo)[j] = Top.todo[j + 1]
  BY <1>2, HeadTailProperties
<1>5. Item = Top.todo[1] /\ Item \in Items
  BY <1>2, <1>3, ElementOfSeq DEF Item
<1>6. Rest \in Frames /\ Rest.node = Top.node /\ Rest.todo = Tail(Top.todo)
  BY <1>1, <1>4 DEF Rest, Frames
<1>7. DOMAIN Tail(Top.todo) = 1..(Len(Top.todo) - 1)
  BY <1>4, LenProperties
<1> QED BY <1>1, <1>2, <1>3, <1>4, <1>5, <1>6, <1>7

\* What kinds of things there are to do.
LEMMA ItemKinds ==
    /\ \A x \in Items : x.how \in Hows => x.of \in Files
    /\ \A x \in Items : x.how = "expr" => x.of \in Macros
    /\ \A x \in Items : x.how = "symbols" => x.of \in SUBSET Macros
    /\ \A h \in Hows, f \in Files : [how |-> h, of |-> f] \in Items
BY DEF Items, Hows, Ways

----------------------------------------------------------------------------
(* What stays true of the graph when it is extended.                       *)

LEMMA StillMeets ==
    ASSUME Extends(mem, mem'), NEW k \in DOMAIN mem.nodes, NEW x, x.of \in Files, Meets(k, x)
    PROVE  Meets(k, x)'
<1>1. CASE x.how = "next"
  BY <1>1 DEF Meets, Extends
<1>2. CASE x.how # "next"
  BY <1>2 DEF Meets, Extends
<1> QED BY <1>1, <1>2

LEMMA StillMoot ==
    ASSUME Extends(mem, mem'), NEW x, x.of \in Files, Moot(x)
    PROVE  Moot(x)'
BY DEF Moot, Extends

LEMMA OwesLess ==
    ASSUME Extends(mem, mem'), prog' = prog, damaged \subseteq damaged',
           NEW n \in DOMAIN mem.nodes, NEW x \in Owed(n)'
    PROVE  x \in Owed(n) /\ x.of \in Files
<1>1. x \in [how : {"quote", "angle", "next", "dir"}, of : Files]
  BY DEF Owed
<1>2. CASE (/\ mem.nodes[n].file \in Files \ (System \cup damaged)
            /\ x \in ToSet(Todo(mem.nodes[n].file)))'
  <2>1. mem'.nodes[n].file = mem.nodes[n].file
    BY DEF Extends
  <2>2. \A f : Todo(f)' = Todo(f)
    BY DEF Todo
  <2>3. Todo(mem.nodes[n].file)' = Todo(mem.nodes[n].file)
    BY <2>1, <2>2
  <2>4. mem.nodes[n].file \in Files \ (System \cup damaged) /\ x \in ToSet(Todo(mem.nodes[n].file))
    BY <1>2, <2>1, <2>3
  <2> QED BY <1>1, <2>4 DEF Owed
<1>3. CASE (/\ x.how = "dir"
            /\ \E h \in Files :
                  /\ <<h, "next">> \in DOMAIN mem.cache /\ mem.cache[<<h, "next">>] = n
                  /\ x.of \in Named[h]
                  /\ \E f \in Files \ damaged : h \in ToSet(prog.next[f]))'
  <2>1. PICK h \in Files :
                (/\ <<h, "next">> \in DOMAIN mem.cache /\ mem.cache[<<h, "next">>] = n
                 /\ x.of \in Named[h]
                 /\ \E f \in Files \ damaged : h \in ToSet(prog.next[f]))'
    BY <1>3
  <2>2. <<h, "next">> \in DOMAIN mem.cache
    BY <2>1 DEF Extends
  <2>3. mem.cache[<<h, "next">>] = n
    BY <2>1, <2>2 DEF Extends
  <2>4. \E f \in Files \ damaged : h \in ToSet(prog.next[f])
    BY <2>1
  <2> QED BY <1>1, <1>3, <2>1, <2>2, <2>3, <2>4 DEF Owed
<1> QED BY <1>1, <1>2, <1>3 DEF Owed

\* The frames below the top stay, and what the top has left to do.
StackOn ==
    /\ stack' \in Seq(Frames) /\ Len(stack') >= Len(stack)
    /\ \A i \in 1..(Len(stack) - 1) : stack'[i] = stack[i]
    /\ stack'[Len(stack)].node = Top.node
    /\ \A j \in 2..Len(Top.todo) : \E l \in DOMAIN stack'[Len(stack)].todo :
          stack'[Len(stack)].todo[l] = Top.todo[j]

\* Every frame but the first is of a node.
LEMMA FrameFields ==
    ASSUME GraphKnown(mem), StackKnown, stack # <<>>
    PROVE  /\ phase = "search" /\ stack \in Seq(Frames)
           /\ Len(stack) \in Nat \ {0} /\ DOMAIN stack = 1..Len(stack)
           /\ stack[1].node = 0 /\ (Len(stack) # 1 => stack[1].todo = <<>>)
           /\ \A i \in 2..Len(stack) :
                 /\ stack[i].node \in DOMAIN mem.nodes /\ stack[i].node # 0
                 /\ mem.nodes[stack[i].node].file = NoFile =>
                       \A j \in DOMAIN stack[i].todo : stack[i].todo[j].how \in {"dir", "resolved"}
           /\ Top.node = 0 <=> Len(stack) = 1
           /\ Top.node # 0 =>
                 /\ Top.node \in DOMAIN mem.nodes
                 /\ mem.nodes[Top.node].file = NoFile =>
                       \A j \in DOMAIN Top.todo : Top.todo[j].how \in {"dir", "resolved"}
<1>1. phase = "search" /\ stack \in Seq(Frames)
  BY DEF StackKnown
<1>2. Len(stack) \in Nat \ {0} /\ DOMAIN stack = 1..Len(stack)
  BY <1>1, StackFields
<1>3. stack[1].node = 0 /\ (Len(stack) # 1 => stack[1].todo = <<>>)
  BY DEF StackKnown
<1>4. DOMAIN mem.nodes = 1..Len(mem.nodes) /\ Len(mem.nodes) \in Nat
  BY CacheFields DEF GraphKnown
<1>5. ASSUME NEW i \in 2..Len(stack)
      PROVE  /\ stack[i].node \in DOMAIN mem.nodes /\ stack[i].node # 0
             /\ mem.nodes[stack[i].node].file = NoFile =>
                   \A j \in DOMAIN stack[i].todo : stack[i].todo[j].how \in {"dir", "resolved"}
  <2>1. i \in DOMAIN stack \ {1}
    BY <1>2
  <2>2. /\ stack[i].node \in DOMAIN mem.nodes
        /\ mem.nodes[stack[i].node].file = NoFile =>
                   \A j \in DOMAIN stack[i].todo : stack[i].todo[j].how \in {"dir", "resolved"}
    BY <2>1 DEF StackKnown
  <2> QED BY <1>4, <2>2
<1>6. Len(stack) # 1 => Len(stack) \in 2..Len(stack)
  BY <1>2
<1> QED BY <1>1, <1>2, <1>3, <1>5, <1>6 DEF Top

\* What the nodes of before owe is owed still, but for the first thing to do.
LEMMA Carried ==
    ASSUME GraphKnown(mem), StackKnown, GraphComplete, stack # <<>>, Top.todo # <<>>,
           Extends(mem, mem'), prog' = prog, damaged \subseteq damaged', StackOn,
           \A n \in DOMAIN mem.nodes : n = Top.node =>
              \A x \in Owed(n) : x.of \in Files /\ Same(Item, x) => Covered(n, x)'
    PROVE  \A n \in DOMAIN mem.nodes : \A x \in Owed(n)' : Covered(n, x)'
<1> SUFFICES ASSUME NEW n \in DOMAIN mem.nodes, NEW x \in Owed(n)' PROVE Covered(n, x)'
  OBVIOUS
<1>1. x \in Owed(n) /\ x.of \in Files
  BY OwesLess
<1>2. Covered(n, x)
  BY <1>1 DEF GraphComplete
<1>3. CASE Moot(x)
  BY <1>1, <1>3, StillMoot DEF Covered
<1>4. CASE \E k \in mem.nodes[n].kids : Meets(k, x)
  <2>1. PICK k \in mem.nodes[n].kids : Meets(k, x)
    BY <1>4
  <2>2. k \in DOMAIN mem.nodes
    BY DEF GraphKnown, KidsThere
  <2>3. Meets(k, x)'
    BY <1>1, <2>1, <2>2, StillMeets
  <2>4. k \in mem'.nodes[n].kids
    BY DEF Extends
  <2> QED BY <2>3, <2>4 DEF Covered
<1>5. CASE \E i \in DOMAIN stack : stack[i].node = n /\ Waits(i, x)
  <2>0. stack \in Seq(Frames)
    BY DEF StackKnown
  <2>1. /\ Len(stack) \in Nat \ {0} /\ DOMAIN stack = 1..Len(stack)
        /\ DOMAIN Top.todo = 1..Len(Top.todo) /\ Len(Top.todo) \in Nat \ {0} /\ Item = Top.todo[1]
    BY <2>0, StackFields, ItemFields
  <2>2. PICK i \in DOMAIN stack : stack[i].node = n /\ Waits(i, x)
    BY <1>5
  <2>3. Len(stack') \in Nat /\ DOMAIN stack' = 1..Len(stack')
    BY LenProperties DEF StackOn
  <2>4. i \in DOMAIN stack' /\ stack'[i].node = n
    BY <2>1, <2>2, <2>3 DEF StackOn, Top
  <2>5. CASE \E j \in DOMAIN stack[i].todo : Same(stack[i].todo[j], x)
    <3>1. PICK j \in DOMAIN stack[i].todo : Same(stack[i].todo[j], x)
      BY <2>5
    <3>2. CASE i < Len(stack)
      <4>1. stack'[i] = stack[i]
        BY <2>1, <3>2 DEF StackOn
      <4>2. Waits(i, x)'
        BY <3>1, <4>1 DEF Waits, Same
      <4> QED BY <2>4, <4>2 DEF Covered
    <3>3. CASE i = Len(stack)
      <4>1. stack[i] = Top /\ n = Top.node
        BY <2>2, <3>3 DEF Top
      <4>2. CASE j = 1
        <5>1. Same(Item, x)
          BY <2>1, <3>1, <4>1, <4>2
        <5> QED BY <1>1, <4>1, <5>1
      <4>3. CASE j # 1
        <5>1. j \in 2..Len(Top.todo)
          BY <2>1, <3>1, <4>1, <4>3
        <5>2. PICK l \in DOMAIN stack'[i].todo : stack'[i].todo[l] = Top.todo[j]
          BY <3>3, <5>1 DEF StackOn
        <5>3. Waits(i, x)'
          BY <3>1, <4>1, <5>2 DEF Waits, Same
        <5> QED BY <2>4, <5>3 DEF Covered
      <4> QED BY <4>2, <4>3
    <3> QED BY <2>1, <2>2, <3>2, <3>3
  <2>6. CASE i < Len(stack) /\ Meets(stack[i+1].node, x)
    <3>1. PICK k : k = stack[i+1].node
      OBVIOUS
    <3>2. i + 1 \in DOMAIN stack \ {1}
      BY <2>1, <2>2, <2>6
    <3>3. k \in DOMAIN mem.nodes
      BY <3>1, <3>2 DEF StackKnown
    <3>4. Meets(k, x)'
      BY <1>1, <2>6, <3>1, <3>3, StillMeets
    <3>5. stack'[i+1].node = k /\ i < Len(stack')
      <4>1. CASE i + 1 < Len(stack)
        BY <2>1, <2>2, <2>3, <3>1, <3>2, <4>1 DEF StackOn
      <4>2. CASE i + 1 = Len(stack)
        BY <2>1, <2>2, <2>3, <3>1, <4>2 DEF StackOn, Top
      <4> QED BY <2>1, <2>2, <2>6, <4>1, <4>2
    <3>6. Waits(i, x)'
      BY <3>4, <3>5 DEF Waits
    <3> QED BY <2>4, <3>6 DEF Covered
  <2> QED BY <2>2, <2>5, <2>6 DEF Waits
<1> QED BY <1>2, <1>3, <1>4, <1>5 DEF Covered

\* The stack of a search that goes on: the top with something else to do, and
\* perhaps one more frame.
LEMMA StackGoesOn ==
    ASSUME GraphKnown(mem), StackKnown, stack # <<>>, Extends(mem, mem'), phase' = phase, StackOn,
           Len(stack') \in {Len(stack), Len(stack) + 1},
           Top.node = 0 => stack'[Len(stack)].todo = <<>>
                           /\ (Len(stack') = Len(stack) => root' \in DOMAIN mem'.nodes),
           Top.node # 0 /\ mem.nodes[Top.node].file = NoFile =>
              \A j \in DOMAIN stack'[Len(stack)].todo : stack'[Len(stack)].todo[j].how \in {"dir", "resolved"},
           Len(stack') = Len(stack) + 1 =>
              LET t == stack'[Len(stack')]
              IN  /\ t.node \in DOMAIN mem'.nodes
                  /\ mem'.nodes[t.node].file = NoFile =>
                        \A j \in DOMAIN t.todo : t.todo[j].how \in {"dir", "resolved"}
    PROVE  StackKnown'
<1>0. PICK l \in Nat \ {0}, q \in Nat : l = Len(stack) /\ q = Len(stack')
  BY FrameFields, LenProperties DEF StackOn
<1>1. /\ phase = "search" /\ DOMAIN stack = 1..l
      /\ stack[1].node = 0 /\ (l # 1 => stack[1].todo = <<>>)
      /\ Top.node = 0 <=> l = 1
  BY <1>0, FrameFields
<1>2. /\ stack' \in Seq(Frames) /\ DOMAIN stack' = 1..q /\ q \in {l, l + 1}
      /\ \A i \in 1..(l - 1) : stack'[i] = stack[i]
      /\ stack'[l].node = Top.node
  BY <1>0, LenProperties DEF StackOn
<1>3. phase' = "search" /\ stack' # <<>>
  <2>1. 1 \in 1..q
    BY <1>2
  <2>2. 1 \in DOMAIN stack'
    BY <1>2, <2>1
  <2> QED BY <1>1, <2>2
<1>4. /\ l = 1 => stack'[l].todo = <<>> /\ (q = l => root' \in DOMAIN mem'.nodes)
      /\ Top.node # 0 /\ mem.nodes[Top.node].file = NoFile =>
              \A j \in DOMAIN stack'[l].todo : stack'[l].todo[j].how \in {"dir", "resolved"}
      /\ q = l + 1 =>
              /\ stack'[q].node \in DOMAIN mem'.nodes
              /\ mem'.nodes[stack'[q].node].file = NoFile =>
                    \A j \in DOMAIN stack'[q].todo : stack'[q].todo[j].how \in {"dir", "resolved"}
  <2>1. q = l + 1 => Len(stack') = Len(stack) + 1
    BY <1>0
  <2> QED BY <1>0, <1>1, <2>1
<1>5. /\ \A i \in 2..l :
          /\ stack[i].node \in DOMAIN mem.nodes
          /\ mem.nodes[stack[i].node].file = NoFile =>
                \A j \in DOMAIN stack[i].todo : stack[i].todo[j].how \in {"dir", "resolved"}
      /\ l # 1 => Top.node \in DOMAIN mem.nodes /\ Top.node # 0
  BY <1>0, <1>1, FrameFields
<1>6. stack'[1].node = 0
  <2>1. CASE l = 1
    BY <1>1, <1>2, <2>1
  <2>2. CASE l # 1
    BY <1>1, <1>2, <2>2
  <2> QED BY <2>1, <2>2
<1>7. stack'[1].todo = <<>> /\ (q = 1 => root' \in DOMAIN mem'.nodes)
  <2>1. CASE l = 1
    BY <1>1, <1>2, <1>4, <2>1
  <2>2. CASE l # 1
    BY <1>1, <1>2, <2>2
  <2> QED BY <2>1, <2>2
<1>8. ASSUME NEW i \in DOMAIN stack' \ {1}
      PROVE  /\ stack'[i].node \in DOMAIN mem'.nodes
             /\ mem'.nodes[stack'[i].node].file = NoFile =>
                  \A j \in DOMAIN stack'[i].todo : stack'[i].todo[j].how \in {"dir", "resolved"}
  <2>1. CASE i < l
    <3>1. stack'[i] = stack[i] /\ i \in 2..l
      BY <1>2, <2>1
    <3>3. mem'.nodes[stack[i].node].file = mem.nodes[stack[i].node].file /\ stack[i].node \in DOMAIN mem'.nodes
      BY <1>5, <3>1 DEF Extends
    <3> QED BY <1>5, <3>1, <3>3
  <2>2. CASE i = l
    <3>1. stack'[i].node = Top.node /\ l # 1
      BY <1>2, <2>2
    <3>3. mem'.nodes[Top.node].file = mem.nodes[Top.node].file /\ Top.node \in DOMAIN mem'.nodes
      BY <1>5, <3>1 DEF Extends
    <3> QED BY <1>4, <1>5, <2>2, <3>1, <3>3
  <2>3. CASE i = l + 1
    <3>1. i = q /\ q = l + 1
      BY <1>2, <2>3
    <3> QED BY <1>4, <3>1
  <2> QED BY <1>2, <2>1, <2>2, <2>3
<1>9. \A i \in DOMAIN stack' \ {1} :
          /\ stack'[i].node \in DOMAIN mem'.nodes
          /\ mem'.nodes[stack'[i].node].file = NoFile =>
                  \A j \in DOMAIN stack'[i].todo : stack'[i].todo[j].how \in {"dir", "resolved"}
  BY <1>8
<1> QED BY <1>0, <1>2, <1>3, <1>6, <1>7, <1>9 DEF StackKnown

\* The three things that happen to the top: its first item is done,
LEMMA OneDone ==
    ASSUME stack \in Seq(Frames), stack # <<>>, Top.todo # <<>>, stack' = CallerWaits
    PROVE  /\ StackOn /\ Len(stack') = Len(stack) /\ stack'[Len(stack)] = Rest
           /\ \A j \in DOMAIN Rest.todo : \E i \in DOMAIN Top.todo : Rest.todo[j] = Top.todo[i]
<1>1. /\ Len(stack) \in Nat \ {0} /\ Rest \in Frames /\ Rest.node = Top.node
      /\ Len(Top.todo) \in Nat \ {0} /\ DOMAIN Top.todo = 1..Len(Top.todo)
      /\ DOMAIN Rest.todo = 1..(Len(Top.todo) - 1)
      /\ \A j \in 1..(Len(Top.todo) - 1) : Rest.todo[j] = Top.todo[j + 1]
  BY ItemFields
<1>2. /\ stack' \in Seq(Frames) /\ Len(stack') = Len(stack)
      /\ \A i \in 1..(Len(stack) - 1) : stack'[i] = stack[i]
      /\ stack'[Len(stack)] = Rest
  BY <1>1, OnBelow DEF CallerWaits
<1> DEFINE k == Len(Top.todo)
<1>3. ASSUME NEW j \in 2..k PROVE \E l \in DOMAIN Rest.todo : Rest.todo[l] = Top.todo[j]
  <2>1. k \in Nat
    BY <1>1
  <2> HIDE DEF k
  <2>2. j - 1 \in 1..(k - 1) /\ (j - 1) + 1 = j
    BY <2>1
  <2> QED BY <1>1, <2>2 DEF k
<1>4. ASSUME NEW j \in DOMAIN Rest.todo PROVE \E i \in DOMAIN Top.todo : Rest.todo[j] = Top.todo[i]
  <2>1. k \in Nat
    BY <1>1
  <2> HIDE DEF k
  <2>2. j \in 1..(k - 1) /\ j + 1 \in 1..k
    BY <1>1, <2>1 DEF k
  <2> QED BY <1>1, <2>2 DEF k
<1>5. Len(stack') >= Len(stack)
  BY <1>1, <1>2
<1> QED BY <1>1, <1>2, <1>3, <1>4, <1>5 DEF StackOn

\* a new frame is called for it,
LEMMA OneCalled ==
    ASSUME stack \in Seq(Frames), stack # <<>>, Top.todo # <<>>,
           NEW STATE t, t \in Frames, stack' = Append(CallerWaits, t)
    PROVE  /\ StackOn /\ Len(stack') = Len(stack) + 1 /\ stack'[Len(stack)] = Rest
           /\ stack'[Len(stack) + 1] = t
           /\ \A j \in DOMAIN Rest.todo : \E i \in DOMAIN Top.todo : Rest.todo[j] = Top.todo[i]
<1>1. /\ Len(stack) \in Nat \ {0} /\ Rest \in Frames /\ Rest.node = Top.node
      /\ Len(Top.todo) \in Nat \ {0} /\ DOMAIN Top.todo = 1..Len(Top.todo)
      /\ DOMAIN Rest.todo = 1..(Len(Top.todo) - 1)
      /\ \A j \in 1..(Len(Top.todo) - 1) : Rest.todo[j] = Top.todo[j + 1]
  BY ItemFields
<1>2. /\ CallerWaits \in Seq(Frames) /\ Len(CallerWaits) = Len(stack)
      /\ \A i \in 1..(Len(stack) - 1) : CallerWaits[i] = stack[i]
      /\ CallerWaits[Len(stack)] = Rest
  BY <1>1, OnBelow DEF CallerWaits
<1>6. /\ stack' \in Seq(Frames) /\ Len(stack') = Len(CallerWaits) + 1
      /\ \A i \in 1..Len(CallerWaits) : stack'[i] = CallerWaits[i]
      /\ stack'[Len(CallerWaits) + 1] = t
  BY <1>2, AppendProperties
<1>7. /\ Len(stack') = Len(stack) + 1 /\ stack'[Len(stack) + 1] = t
      /\ \A i \in 1..(Len(stack) - 1) : stack'[i] = stack[i]
      /\ stack'[Len(stack)] = Rest
  <2>1. PICK l \in Nat \ {0} : l = Len(stack) /\ l = Len(CallerWaits)
    BY <1>1, <1>2
  <2>2. (\A i \in 1..(l - 1) : i \in 1..l) /\ l \in 1..l
    BY <2>1
  <2> QED BY <1>2, <1>6, <2>1, <2>2
<1> DEFINE k == Len(Top.todo)
<1>3. ASSUME NEW j \in 2..k PROVE \E l \in DOMAIN Rest.todo : Rest.todo[l] = Top.todo[j]
  <2>1. k \in Nat
    BY <1>1
  <2> HIDE DEF k
  <2>2. j - 1 \in 1..(k - 1) /\ (j - 1) + 1 = j
    BY <2>1
  <2> QED BY <1>1, <2>2 DEF k
<1>4. ASSUME NEW j \in DOMAIN Rest.todo PROVE \E i \in DOMAIN Top.todo : Rest.todo[j] = Top.todo[i]
  <2>1. k \in Nat
    BY <1>1
  <2> HIDE DEF k
  <2>2. j \in 1..(k - 1) /\ j + 1 \in 1..k
    BY <1>1, <2>1 DEF k
  <2> QED BY <1>1, <2>2 DEF k
<1>5. Len(stack') >= Len(stack)
  BY <1>1, <1>7
<1> QED BY <1>1, <1>3, <1>4, <1>5, <1>6, <1>7 DEF StackOn

\* others take its place.
LEMMA OneReplaced ==
    ASSUME stack \in Seq(Frames), stack # <<>>, Top.todo # <<>>,
           NEW STATE others, others \in Seq(Items),
           stack' = Append(Below, [Top EXCEPT !.todo = others \o Tail(@)])
    PROVE  /\ StackOn /\ Len(stack') = Len(stack)
           /\ \A j \in DOMAIN stack'[Len(stack)].todo :
                 \/ \E i \in DOMAIN Top.todo : stack'[Len(stack)].todo[j] = Top.todo[i]
                 \/ \E i \in DOMAIN others : stack'[Len(stack)].todo[j] = others[i]
           /\ \A i \in DOMAIN others : \E j \in DOMAIN stack'[Len(stack)].todo :
                 stack'[Len(stack)].todo[j] = others[i]
<1> DEFINE todo == others \o Tail(Top.todo)
           t == [Top EXCEPT !.todo = todo]
<1>1. /\ Len(stack) \in Nat \ {0} /\ Top \in Frames /\ Top.todo \in Seq(Items)
      /\ Len(Top.todo) \in Nat \ {0} /\ DOMAIN Top.todo = 1..Len(Top.todo)
  BY ItemFields
<1>2. /\ Tail(Top.todo) \in Seq(Items) /\ Len(Tail(Top.todo)) = Len(Top.todo) - 1
      /\ \A j \in 1..Len(Tail(Top.todo)) : Tail(Top.todo)[j] = Top.todo[j + 1]
  BY <1>1, HeadTailProperties
<1>3. PICK k \in Nat, m \in Nat : k = Len(others) /\ m = Len(Top.todo) /\ Len(Tail(Top.todo)) = m - 1 /\ m # 0
  BY <1>1, <1>2, LenProperties
<1>4. /\ todo \in Seq(Items) /\ Len(todo) = k + (m - 1)
      /\ \A j \in 1..(k + (m - 1)) : todo[j] = IF j <= k THEN others[j] ELSE Tail(Top.todo)[j - k]
  BY <1>2, <1>3, ConcatProperties
<1>5. DOMAIN todo = 1..(k + (m - 1)) /\ DOMAIN others = 1..k
  BY <1>3, <1>4, LenProperties
<1>6. stack' = Append(Below, t)
  BY <1>1
<1> HIDE DEF todo
<1>7. t \in Frames /\ t.node = Top.node /\ t.todo = todo
  BY <1>1, <1>4 DEF Frames
<1> HIDE DEF t
<1>8. /\ stack' \in Seq(Frames) /\ Len(stack') = Len(stack)
      /\ \A i \in 1..(Len(stack) - 1) : stack'[i] = stack[i]
      /\ stack'[Len(stack)] = t
  BY <1>6, <1>7, OnBelow
<1>9. ASSUME NEW j \in 2..m PROVE \E l \in DOMAIN todo : todo[l] = Top.todo[j]
  <2>1. /\ k + (j - 1) \in 1..(k + (m - 1)) /\ ~(k + (j - 1) <= k) /\ (k + (j - 1)) - k = j - 1
        /\ j - 1 \in 1..(m - 1) /\ (j - 1) + 1 = j
    BY <1>3
  <2>2. todo[k + (j - 1)] = Tail(Top.todo)[j - 1]
    BY <1>4, <2>1
  <2>3. Tail(Top.todo)[j - 1] = Top.todo[j]
    BY <1>2, <1>3, <2>1
  <2> QED BY <1>5, <2>1, <2>2, <2>3
<1>10. ASSUME NEW j \in DOMAIN todo
       PROVE  (\E i \in DOMAIN Top.todo : todo[j] = Top.todo[i]) \/ (\E i \in DOMAIN others : todo[j] = others[i])
  <2>1. CASE j <= k
    <3>1. j \in 1..(k + (m - 1)) /\ j \in 1..k
      BY <1>3, <1>5, <2>1
    <3>2. todo[j] = others[j]
      BY <1>4, <2>1, <3>1
    <3> QED BY <1>5, <3>1, <3>2
  <2>2. CASE ~(j <= k)
    <3>1. j - k \in 1..(m - 1) /\ (j - k) + 1 \in 1..m
      BY <1>3, <1>5, <2>2
    <3>2. todo[j] = Tail(Top.todo)[j - k]
      BY <1>4, <1>5, <2>2
    <3>3. Tail(Top.todo)[j - k] = Top.todo[(j - k) + 1]
      BY <1>2, <1>3, <3>1
    <3> QED BY <1>1, <1>3, <3>1, <3>2, <3>3
  <2> QED BY <2>1, <2>2
<1>11. \A i \in DOMAIN others : i \in DOMAIN todo /\ todo[i] = others[i]
  <2> TAKE i \in DOMAIN others
  <2>1. i \in 1..(k + (m - 1)) /\ i <= k
    BY <1>3, <1>5
  <2> QED BY <1>4, <1>5, <2>1
<1>12. Len(stack') >= Len(stack)
  BY <1>1, <1>8
<1> QED BY <1>3, <1>7, <1>8, <1>9, <1>10, <1>11, <1>12 DEF StackOn

----------------------------------------------------------------------------
(* What every step of the search leaves true.                              *)

WorkKnown ==
    /\ prog \in Program /\ clock \in Nat /\ disk \in [Files -> Nat] /\ damaged \subseteq Files
    /\ cmd \in [files : Seq(Files), defs : SUBSET Definitions]
    /\ phase = "file" => cmd.files # <<>>

\* A file's includes are files.
LEMMA IncludesAreFiles ==
    ASSUME prog \in Program, NEW f \in Files
    PROVE  /\ Includes(f) \subseteq Files
           /\ ToSet(prog.quote[f]) \subseteq Files /\ ToSet(prog.angle[f]) \subseteq Files
           /\ ToSet(prog.next[f]) \subseteq Files /\ \A h \in Files : Named[h] \subseteq Files
<1>1. prog.quote[f] \in Seq(Files) /\ prog.angle[f] \in Seq(Files) /\ prog.next[f] \in Seq(Files)
  BY DEF Program
<1>2. \A s \in Seq(Files) : ToSet(s) \subseteq Files
  BY LenProperties, ElementOfSeq DEF ToSet
<1>3. \A h \in Files : Named[h] \subseteq Files
  BY FilesAssumption
<1> QED BY <1>1, <1>2, <1>3 DEF Includes

\* A file's items.
LEMMA TodoFields ==
    ASSUME prog \in Program, NEW f \in Files
    PROVE  /\ Todo(f) \in Seq(Items)
           /\ \A g \in ToSet(prog.quote[f]) : [how |-> "quote", of |-> g] \in ToSet(Todo(f))
           /\ \A g \in ToSet(prog.angle[f]) : [how |-> "angle", of |-> g] \in ToSet(Todo(f))
           /\ \A g \in ToSet(prog.next[f]) : [how |-> "next", of |-> g] \in ToSet(Todo(f))
<1> DEFINE Each(how, list) == [i \in DOMAIN list |-> [how |-> how, of |-> list[i]]]
           q == Each("quote", prog.quote[f])
           a == Each("angle", prog.angle[f])
           e == Each("expr", prog.expr[f])
           n == Each("next", prog.next[f])
<1>1. prog.quote[f] \in Seq(Files) /\ prog.angle[f] \in Seq(Files) /\ prog.next[f] \in Seq(Files)
      /\ prog.expr[f] \in Seq(Macros)
  BY DEF Program
<1>2. ASSUME NEW how \in Hows, NEW s \in Seq(Files)
      PROVE  Each(how, s) \in Seq(Items) /\ \A g \in ToSet(s) : [how |-> how, of |-> g] \in ToSet(Each(how, s))
  <2>1. Len(s) \in Nat /\ DOMAIN s = 1..Len(s) /\ \A i \in 1..Len(s) : s[i] \in Files
    BY LenProperties, ElementOfSeq
  <2>2. \A i \in 1..Len(s) : [how |-> how, of |-> s[i]] \in Items
    BY <2>1, ItemKinds
  <2>3. Each(how, s) \in [1..Len(s) -> Items]
    BY <2>1, <2>2
  <2> QED BY <2>1, <2>3 DEF ToSet
<1>3. ASSUME NEW s \in Seq(Macros) PROVE Each("expr", s) \in Seq(Items)
  <2>1. Len(s) \in Nat /\ DOMAIN s = 1..Len(s) /\ \A i \in 1..Len(s) : s[i] \in Macros
    BY LenProperties, ElementOfSeq
  <2>2. \A i \in 1..Len(s) : [how |-> "expr", of |-> s[i]] \in Items
    BY <2>1 DEF Items
  <2>3. Each("expr", s) \in [1..Len(s) -> Items]
    BY <2>1, <2>2
  <2> QED BY <2>1, <2>3
<1>4. /\ q \in Seq(Items) /\ \A g \in ToSet(prog.quote[f]) : [how |-> "quote", of |-> g] \in ToSet(q)
      /\ a \in Seq(Items) /\ \A g \in ToSet(prog.angle[f]) : [how |-> "angle", of |-> g] \in ToSet(a)
      /\ n \in Seq(Items) /\ \A g \in ToSet(prog.next[f]) : [how |-> "next", of |-> g] \in ToSet(n)
  <2>1. "quote" \in Hows /\ "angle" \in Hows /\ "next" \in Hows
    BY DEF Hows, Ways
  <2> HIDE DEF Each
  <2> QED BY <1>1, <1>2, <2>1
<1>5. e \in Seq(Items)
  <2> HIDE DEF Each
  <2> QED BY <1>1, <1>3
<1>6. Todo(f) = q \o a \o e \o n
  BY DEF Todo
<1> HIDE DEF q, a, e, n
<1>7. \A s, t \in Seq(Items) : s \o t \in Seq(Items) /\ ToSet(s) \subseteq ToSet(s \o t) /\ ToSet(t) \subseteq ToSet(s \o t)
  <2> TAKE s, t \in Seq(Items)
  <2>1. PICK k \in Nat, m \in Nat : k = Len(s) /\ m = Len(t)
    BY LenProperties
  <2>2. /\ s \o t \in Seq(Items) /\ Len(s \o t) = k + m
        /\ \A i \in 1..(k + m) : (s \o t)[i] = IF i <= k THEN s[i] ELSE t[i - k]
    BY <2>1, ConcatProperties
  <2>3. DOMAIN (s \o t) = 1..(k + m) /\ DOMAIN s = 1..k /\ DOMAIN t = 1..m
    BY <2>1, <2>2, LenProperties
  <2>4. ASSUME NEW i \in 1..k PROVE i \in 1..(k + m) /\ (s \o t)[i] = s[i]
    BY <2>2
  <2>5. ASSUME NEW i \in 1..m PROVE k + i \in 1..(k + m) /\ (s \o t)[k + i] = t[i]
    <3>1. k + i \in 1..(k + m) /\ ~(k + i <= k) /\ (k + i) - k = i
      OBVIOUS
    <3> QED BY <2>2, <3>1
  <2>6. ToSet(s) \subseteq ToSet(s \o t)
    BY <2>3, <2>4 DEF ToSet
  <2>7. ToSet(t) \subseteq ToSet(s \o t)
    BY <2>3, <2>5 DEF ToSet
  <2> QED BY <2>2, <2>6, <2>7
<1>8. q \o a \in Seq(Items) /\ ToSet(q) \subseteq ToSet(q \o a) /\ ToSet(a) \subseteq ToSet(q \o a)
  BY <1>4, <1>7
<1>9. (q \o a) \o e \in Seq(Items) /\ ToSet(q \o a) \subseteq ToSet((q \o a) \o e)
  BY <1>5, <1>7, <1>8
<1>10. ((q \o a) \o e) \o n \in Seq(Items) /\ ToSet((q \o a) \o e) \subseteq ToSet(((q \o a) \o e) \o n)
       /\ ToSet(n) \subseteq ToSet(((q \o a) \o e) \o n)
  BY <1>4, <1>7, <1>9
<1> QED BY <1>4, <1>6, <1>8, <1>9, <1>10

\* What is known of the answer so far stays known.
LEMMA AnswerKept ==
    ASSUME WorkKnown, ClosureKnown, Extends(mem, mem'), prog' = prog, damaged \subseteq damaged',
           closure' \in {closure, {}}
    PROVE  ClosureKnown'
<1>1. ASSUME NEW f \in Files PROVE Includes(f)' = Includes(f)
  BY DEF Includes
<1>2. ASSUME NEW f \in closure' \ damaged'
      PROVE  /\ mem'.parsed[f] > 0
             /\ \A g \in Includes(f)' : g \in closure' \cup System \/ mem'.known[g] = "no"
  <2>1. f \in Files /\ f \in closure \ damaged
    BY DEF ClosureKnown
  <2>2. mem.parsed[f] > 0 /\ \A g \in Includes(f) : g \in closure \cup System \/ mem.known[g] = "no"
    BY <2>1 DEF ClosureKnown
  <2>3. mem'.parsed[f] > 0
    BY <2>1, <2>2 DEF Extends, WorkKnown
  <2>4. ASSUME NEW g \in Includes(f) PROVE g \in closure' \cup System \/ mem'.known[g] = "no"
    <3>1. g \in Files
      BY <2>1, IncludesAreFiles DEF WorkKnown
    <3> QED BY <2>2, <3>1 DEF Extends
  <2> QED BY <1>1, <2>1, <2>3, <2>4
<1> QED BY <1>2 DEF ClosureKnown

\* All of it.
LEMMA StepKeeps ==
    ASSUME WorkKnown, IncInv, Extends(mem, mem'), prog' = prog, damaged \subseteq damaged',
           closure' \in {closure, {}}, StackKnown',
           \A n \in DOMAIN mem.nodes : \A x \in Owed(n)' : Covered(n, x)',
           \A n \in DOMAIN mem'.nodes \ DOMAIN mem.nodes :
              /\ mem'.nodes[n].file \in damaged' \cup {NoFile} \/ mem'.parsed[mem'.nodes[n].file] > 0
              /\ \A x \in Owed(n)' : Covered(n, x)'
    PROVE  IncInv'
<1>1. GraphKnown(mem')
  BY DEF Extends
<1>2. NodesParsed'
  <2>1. ASSUME NEW n \in DOMAIN mem'.nodes
        PROVE  mem'.nodes[n].file \in damaged' \cup {NoFile} \/ mem'.parsed[mem'.nodes[n].file] > 0
    <3>1. CASE n \in DOMAIN mem.nodes
      <4>1. mem'.nodes[n].file = mem.nodes[n].file
        BY <3>1 DEF Extends
      <4>2. mem.nodes[n].file \in damaged \cup {NoFile} \/ mem.parsed[mem.nodes[n].file] > 0
        BY <3>1 DEF IncInv, NodesParsed
      <4>3. mem.nodes[n].file \in Files \cup {NoFile}
        BY <3>1, CacheFields DEF IncInv, GraphKnown, Nodes
      <4>4. PICK f : f = mem.nodes[n].file
        OBVIOUS
      <4>5. f \in Files /\ mem.parsed[f] > 0 => mem'.parsed[f] > 0
        BY DEF Extends
      <4>6. f \in damaged => f \in damaged'
        OBVIOUS
      <4> QED BY <4>1, <4>2, <4>3, <4>4, <4>5, <4>6
    <3>2. CASE n \notin DOMAIN mem.nodes
      BY <3>2
    <3> QED BY <3>1, <3>2
  <2> QED BY <2>1 DEF NodesParsed
<1>3. GraphComplete'
  BY DEF GraphComplete
<1>4. ClosureKnown'
  BY AnswerKept DEF IncInv
<1> QED BY <1>1, <1>2, <1>3, <1>4 DEF IncInv

\* A call has returned node r, which answers the first item of the caller.
LEMMA CallReturns ==
    ASSUME WorkKnown, IncInv, stack # <<>>, Top.todo # <<>>, Item.how \in Ways,
           NEW STATE c, Extends(mem, c), NEW STATE r, r \in DOMAIN c.nodes,
           Return(c, CallerWaits, r),
           Item.how = "next" =>
              <<Item.of, "next">> \in DOMAIN c.cache /\ c.cache[<<Item.of, "next">>] = r,
           Item.how # "next" => c.nodes[r].file = Item.of \/ c.known[Item.of] = "no",
           prog' = prog, damaged' = damaged, phase' = phase
    PROVE  /\ Extends(mem, mem') /\ Extends(c, mem') /\ DOMAIN mem'.nodes = DOMAIN c.nodes
           /\ mem'.cache = c.cache /\ mem'.parsed = c.parsed /\ mem'.known = c.known
           /\ StackKnown'
           /\ \A n \in DOMAIN mem.nodes : \A x \in Owed(n)' : Covered(n, x)'
<1>1. GraphKnown(mem) /\ StackKnown /\ GraphComplete /\ stack \in Seq(Frames) /\ GraphKnown(c)
  BY DEF IncInv, StackKnown, Extends
<1>2. stack' = CallerWaits
  BY DEF Return
<1>3. /\ StackOn /\ Len(stack') = Len(stack) /\ stack'[Len(stack)] = Rest
      /\ \A j \in DOMAIN Rest.todo : \E i \in DOMAIN Top.todo : Rest.todo[j] = Top.todo[i]
  BY <1>1, <1>2, OneDone
<1>4. Rest.node = Top.node /\ Item \in Items /\ Item.of \in Files
  BY <1>1, ItemFields, ItemKinds DEF Hows
<1>5. CallerWaits[Len(CallerWaits)].node = Top.node
  BY <1>2, <1>3, <1>4
<1>6. mem' = WithChild(c, Top.node, r) /\ root' = IF Top.node = 0 THEN r ELSE root
  BY <1>5 DEF Return
<1>7. Top.node \in {0} \cup DOMAIN mem.nodes /\ (Top.node = 0 <=> Len(stack) = 1)
  BY <1>1, FrameFields
<1>8. Top.node \in {0} \cup DOMAIN c.nodes
  BY <1>7 DEF Extends
<1>9. /\ Extends(c, mem') /\ DOMAIN mem'.nodes = DOMAIN c.nodes
      /\ Top.node # 0 => r \in mem'.nodes[Top.node].kids
      /\ mem'.cache = c.cache /\ mem'.known = c.known /\ mem'.parsed = c.parsed
  BY <1>1, <1>6, <1>8, WithChildKnown
<1>10. Extends(mem, mem')
  BY <1>1, <1>9, ExtendsTrans
<1>11. StackKnown'
  <2>1. ASSUME Top.node = 0 PROVE Rest.todo = <<>> /\ root' \in DOMAIN mem'.nodes
    <3>1. Len(stack) = 1
      BY <1>7, <2>1
    <3>2. Top.todo = stack[1].todo
      BY <3>1 DEF Top
    <3>3. PICK f : Top.todo = <<f>>
      BY <3>1, <3>2 DEF StackKnown, IncInv
    <3>4. Rest.todo = <<>>
      BY <1>1, <3>3, ItemFields
    <3> QED BY <1>6, <1>9, <2>1, <3>4
  <2>2. ASSUME Top.node # 0, mem.nodes[Top.node].file = NoFile
        PROVE  \A j \in DOMAIN Rest.todo : Rest.todo[j].how \in {"dir", "resolved"}
    BY <1>1, <1>3, <2>2, FrameFields
  <2>3. Len(stack') # Len(stack) + 1
    BY <1>1, <1>3, FrameFields
  <2> QED BY <1>1, <1>3, <1>10, <2>1, <2>2, <2>3, StackGoesOn
<1>12. ASSUME NEW n \in DOMAIN mem.nodes, n = Top.node, NEW x \in Owed(n), x.of \in Files, Same(Item, x)
       PROVE  Covered(n, x)'
  <2>0. n # 0
    BY <1>1, CacheFields DEF GraphKnown
  <2>1. PICK k : k = r
    OBVIOUS
  <2>2. k \in mem'.nodes[n].kids
    BY <1>9, <1>12, <2>0, <2>1
  <2>3. x.how = "next" <=> Item.how = "next"
    BY <1>12 DEF Same
  <2>4. x.of = Item.of
    BY <1>12 DEF Same
  <2>5. CASE x.how = "next"
    <3>1. Meets(k, x)'
      BY <1>9, <2>1, <2>3, <2>4, <2>5 DEF Meets
    <3> QED BY <2>2, <3>1 DEF Covered
  <2>6. CASE x.how # "next" /\ c.nodes[r].file = Item.of
    <3>1. mem'.nodes[k].file = x.of
      BY <1>9, <2>1, <2>4, <2>6 DEF Extends
    <3>2. Meets(k, x)'
      BY <2>6, <3>1 DEF Meets
    <3> QED BY <2>2, <3>2 DEF Covered
  <2>7. CASE x.how # "next" /\ c.known[Item.of] = "no"
    <3>1. Moot(x)'
      BY <1>9, <2>4, <2>7 DEF Moot
    <3> QED BY <3>1 DEF Covered
  <2> QED BY <2>3, <2>5, <2>6, <2>7
<1>13. \A n \in DOMAIN mem.nodes : \A x \in Owed(n)' : Covered(n, x)'
  BY <1>1, <1>3, <1>10, <1>12, ItemFields, Carried
<1> QED BY <1>9, <1>10, <1>11, <1>13

----------------------------------------------------------------------------
(* The steps of FindNode.                                                  *)

LEMMA SearchingFields ==
    ASSUME IncInv, NEW hows, Searching(hows)
    PROVE  /\ stack # <<>> /\ stack \in Seq(Frames) /\ Top.todo # <<>> /\ Item.how \in hows /\ Item \in Items
           /\ GraphKnown(mem) /\ StackKnown /\ mem \in Caches
           /\ hows \subseteq Hows => Item.of \in Files
<1>1. stack # <<>> /\ stack \in Seq(Frames)
  BY DEF IncInv, StackKnown, Searching
<1>2. Top.todo # <<>> /\ Item.how \in hows
  BY DEF Searching
<1>3. Item \in Items
  BY <1>1, <1>2, ItemFields
<1> QED BY <1>1, <1>2, <1>3, ItemKinds DEF IncInv, GraphKnown

LEMMA FindCachedStep ==
    ASSUME WorkKnown, IncInv, FindCached
    PROVE  IncInv' /\ Extends(mem, mem')
<1>1. /\ stack # <<>> /\ Top.todo # <<>> /\ Item.how \in Ways /\ GraphKnown(mem)
  BY SearchingFields DEF FindCached
<1>2. /\ Key \in DOMAIN mem.cache /\ Return(mem, CallerWaits, mem.cache[Key])
      /\ prog' = prog /\ damaged' = damaged /\ phase' = phase /\ closure' = closure
  BY DEF FindCached, Cached, SearchOn, Unchanged
<1>3. mem.cache[Key] \in DOMAIN mem.nodes /\ Extends(mem, mem)
  BY <1>1, <1>2, ExtendsSelf DEF GraphKnown, CacheThere
<1>4. /\ Item.how = "next" => <<Item.of, "next">> \in DOMAIN mem.cache /\ mem.cache[<<Item.of, "next">>] = mem.cache[Key]
      /\ Item.how # "next" => mem.nodes[mem.cache[Key]].file = Item.of \/ mem.known[Item.of] = "no"
  <2>1. KeyKnown(mem, Key, mem.nodes[mem.cache[Key]].file) /\ Key[1] = Item.of /\ Key[2] = Item.how
    BY <1>1, <1>2 DEF GraphKnown, KeysKnown, Key
  <2> QED BY <1>1, <1>2, <2>1 DEF KeyKnown, Ways, Key
<1>5. /\ Extends(mem, mem') /\ DOMAIN mem'.nodes = DOMAIN mem.nodes /\ StackKnown'
      /\ \A n \in DOMAIN mem.nodes : \A x \in Owed(n)' : Covered(n, x)'
  BY <1>1, <1>2, <1>3, <1>4, CallReturns
<1> QED BY <1>2, <1>5, StepKeeps

\* The new node of a name that is looked up.
LEMMA MissedFields ==
    ASSUME IncInv, Missed
    PROVE  /\ stack # <<>> /\ stack \in Seq(Frames) /\ Top.todo # <<>> /\ Item.how \in Ways /\ Item.of \in Files
           /\ GraphKnown(mem) /\ StackKnown
           /\ Extends(mem, Fresh) /\ GraphKnown(Fresh)
           /\ Node \in DOMAIN Fresh.nodes /\ Node \notin DOMAIN mem.nodes
           /\ DOMAIN Fresh.nodes = DOMAIN mem.nodes \cup {Node}
           /\ Fresh.nodes[Node].file \in {Item.of, NoFile}
           /\ Item.how = "resolved" => Resolved
           /\ Item.how = "next" => ~Resolved
           /\ ~Resolved => Item.how = "next" \/ Fresh.known[Item.of] = "no"
           /\ Fresh.parsed = mem.parsed
           /\ DOMAIN Fresh.cache = DOMAIN mem.cache \cup {Key}
           /\ Fresh.cache[Key] = Node
           /\ \A k \in DOMAIN mem.cache \ {Key} : Fresh.cache[k] = mem.cache[k]
<1>1. /\ stack # <<>> /\ stack \in Seq(Frames) /\ Top.todo # <<>> /\ Item.how \in Ways
      /\ GraphKnown(mem) /\ StackKnown /\ Item.of \in Files
  BY SearchingFields DEF Missed, Hows
<1>2. <<Item.of, Item.how>> \in DOMAIN mem.cache => ~ Valid(mem, mem.cache[<<Item.of, Item.how>>])
  BY DEF Missed, Cached, Key
<1>3. LET d == Fresh
          n == Node
      IN  /\ Extends(mem, d)
          /\ n \in DOMAIN d.nodes /\ n \notin DOMAIN mem.nodes
          /\ DOMAIN d.nodes = DOMAIN mem.nodes \cup {n}
          /\ d.nodes[n].file \in {Item.of, NoFile}
          /\ Item.how = "resolved" => d.nodes[n].file = Item.of
          /\ Item.how = "next" => d.nodes[n].file = NoFile
          /\ d.nodes[n].file = NoFile => Item.how = "next" \/ d.known[Item.of] = "no"
          /\ d.parsed = mem.parsed
          /\ DOMAIN d.cache = DOMAIN mem.cache \cup {Key}
          /\ d.cache[Key] = n
          /\ \A k \in DOMAIN mem.cache \ {Key} : d.cache[k] = mem.cache[k]
  BY <1>1, <1>2, NewNodeKnown DEF Fresh, Node, Key
<1>4. NoFile # Item.of
  BY <1>1, FilesAssumption
<1> QED BY <1>1, <1>3, <1>4 DEF Extends, Resolved

\* The node of a file owes what the file includes; that of none owes the
\* directories of an #include_next.
OwedTrue ==
    \A n \in DOMAIN mem.nodes : \A x \in Owed(n) :
       /\ mem.nodes[n].file # NoFile =>
             mem.nodes[n].file \in Files \ (System \cup damaged) /\ x \in ToSet(Todo(mem.nodes[n].file))
       /\ mem.nodes[n].file = NoFile =>
             /\ x.how = "dir"
             /\ \E h \in Files :
                   /\ <<h, "next">> \in DOMAIN mem.cache /\ mem.cache[<<h, "next">>] = n
                   /\ x.of \in Named[h]
                   /\ \E f \in Files \ damaged : h \in ToSet(prog.next[f])

LEMMA WhatIsOwed == GraphKnown(mem) => OwedTrue
<1> SUFFICES ASSUME GraphKnown(mem) PROVE OwedTrue
  OBVIOUS
<1>1. NoFile \notin Files
  BY FilesAssumption
<1>2. ASSUME NEW n \in DOMAIN mem.nodes, NEW h \in Files, <<h, "next">> \in DOMAIN mem.cache, mem.cache[<<h, "next">>] = n
      PROVE  mem.nodes[n].file = NoFile
  BY <1>2 DEF GraphKnown, KeysKnown, KeyKnown
<1> QED BY <1>1, <1>2 DEF Owed, OwedTrue

LEMMA FindNothingStep ==
    ASSUME WorkKnown, IncInv, FindNothing
    PROVE  IncInv' /\ Extends(mem, mem')
<1>1. /\ stack # <<>> /\ Top.todo # <<>> /\ Item.how \in Ways \ {"next"} /\ GraphKnown(mem) /\ Item.of \in Files
      /\ Extends(mem, Fresh) /\ Node \in DOMAIN Fresh.nodes /\ Node \notin DOMAIN mem.nodes
      /\ DOMAIN Fresh.nodes = DOMAIN mem.nodes \cup {Node}
      /\ Fresh.nodes[Node].file = NoFile /\ Fresh.known[Item.of] = "no"
      /\ DOMAIN Fresh.cache = DOMAIN mem.cache \cup {Key}
      /\ \A k \in DOMAIN mem.cache \ {Key} : Fresh.cache[k] = mem.cache[k]
  BY MissedFields DEF FindNothing, Resolved
<1>2. /\ Return(Fresh, CallerWaits, Node)
      /\ prog' = prog /\ damaged' = damaged /\ phase' = phase /\ closure' = closure
  BY DEF FindNothing, SearchOn, Unchanged
<1>3. /\ Extends(mem, mem') /\ Extends(Fresh, mem') /\ DOMAIN mem'.nodes = DOMAIN Fresh.nodes
      /\ mem'.cache = Fresh.cache /\ StackKnown'
      /\ \A n \in DOMAIN mem.nodes : \A x \in Owed(n)' : Covered(n, x)'
  BY <1>1, <1>2, CallReturns
<1>4. ASSUME NEW n \in DOMAIN mem'.nodes \ DOMAIN mem.nodes
      PROVE  mem'.nodes[n].file = NoFile /\ \A x \in Owed(n)' : Covered(n, x)'
  <2>1. n = Node /\ mem'.nodes[n].file = NoFile
    BY <1>1, <1>3 DEF Extends
  <2>2. ASSUME NEW x \in Owed(n)' PROVE FALSE
    <3>0. OwedTrue'
      <4>1. GraphKnown(mem)'
        BY <1>3 DEF Extends
      <4> QED BY <4>1, WhatIsOwed, PTL
    <3>1. PICK h \in Files : <<h, "next">> \in DOMAIN mem'.cache /\ mem'.cache[<<h, "next">>] = n
      BY <2>1, <2>2, <3>0 DEF OwedTrue
    <3>2. <<h, "next">> # Key
      BY <1>1 DEF Key
    <3>3. <<h, "next">> \in DOMAIN mem.cache /\ mem.cache[<<h, "next">>] = Node
      BY <1>1, <1>3, <2>1, <3>1, <3>2
    <3> QED BY <1>1, <3>3 DEF GraphKnown, CacheThere
  <2> QED BY <2>1, <2>2
<1> QED BY <1>2, <1>3, <1>4, StepKeeps

\* A set as a sequence.
LEMMA SetAsSequence ==
    ASSUME NEW S, IsFiniteSet(S)
    PROVE  LET s == SetToSeq(S)
           IN  Len(s) \in Nat /\ DOMAIN s = 1..Len(s) /\ s \in Seq(S) /\ \A x \in S : \E i \in DOMAIN s : s[i] = x
<1> DEFINE n == Cardinality(S)
           s == SetToSeq(S)
<1>1. n \in Nat /\ ExistsBijection(1..n, S)
  BY FS_CardinalityType
<1> HIDE DEF n
<1>2. PICK f \in Bijection(1..n, S) : TRUE
  BY <1>1 DEF ExistsBijection
<1>3. f \in [1..n -> S] /\ IsInjective(f)
  BY <1>2 DEF Bijection, Injection, IsInjective
<1>4. s \in [1..n -> S] /\ IsInjective(s)
  BY <1>3 DEF SetToSeq, n
<1> HIDE DEF s
<1>5. s \in Injection(1..n, S)
  BY <1>4 DEF Injection, IsInjective
<1>6. Cardinality(1..n) = n /\ IsFiniteSet(1..n)
  BY <1>1, FS_Interval
<1>7. s \in Surjection(1..n, S)
  BY <1>5, <1>6, FS_Injection DEF n
<1>8. \A x \in S : \E i \in 1..n : s[i] = x
  BY <1>4, <1>7 DEF Surjection
<1>9. s \in Seq(S) /\ DOMAIN s = 1..n
  BY <1>1, <1>4
<1>10. Len(s) \in Nat /\ DOMAIN s = 1..Len(s)
  BY <1>9, LenProperties
<1> QED BY <1>8, <1>9, <1>10 DEF s

\* FindNode calls itself: the frame of the new node, which will answer the first
\* item of the caller.
LEMMA CallBegins ==
    ASSUME WorkKnown, IncInv, stack # <<>>, Top.todo # <<>>, Item.how \in Ways,
           Extends(mem, mem'), NEW STATE t, t \in Frames, stack' = Append(CallerWaits, t),
           NEW CONSTANT k, k = t.node, k \in DOMAIN mem'.nodes,
           mem'.nodes[k].file = NoFile => \A j \in DOMAIN t.todo : t.todo[j].how \in {"dir", "resolved"},
           Item.how = "next" =>
              <<Item.of, "next">> \in DOMAIN mem'.cache /\ mem'.cache[<<Item.of, "next">>] = k,
           Item.how # "next" => mem'.nodes[k].file = Item.of,
           prog' = prog, damaged' = damaged, phase' = phase
    PROVE  /\ StackKnown'
           /\ \A n \in DOMAIN mem.nodes : \A x \in Owed(n)' : Covered(n, x)'
           /\ \E i \in DOMAIN stack' : stack'[i] = t
<1>1. GraphKnown(mem) /\ StackKnown /\ GraphComplete /\ stack \in Seq(Frames)
  BY DEF IncInv, StackKnown
<1>2. /\ StackOn /\ Len(stack') = Len(stack) + 1 /\ stack'[Len(stack)] = Rest /\ stack'[Len(stack) + 1] = t
      /\ \A j \in DOMAIN Rest.todo : \E i \in DOMAIN Top.todo : Rest.todo[j] = Top.todo[i]
  BY <1>1, OneCalled
<1>3. ASSUME Top.node = 0 PROVE Rest.todo = <<>>
  <2>1. Len(stack) = 1 /\ Rest.todo = Tail(Top.todo)
    BY <1>1, <1>3, FrameFields, ItemFields
  <2>2. PICK f : Top.todo = <<f>>
    BY <2>1 DEF StackKnown, IncInv, Top
  <2> QED BY <2>1, <2>2
<1>4. Top.node # 0 /\ mem.nodes[Top.node].file = NoFile =>
          \A j \in DOMAIN Rest.todo : Rest.todo[j].how \in {"dir", "resolved"}
  BY <1>1, <1>2, FrameFields
<1>5. Len(stack) \in Nat \ {0} /\ DOMAIN stack' = 1..Len(stack')
  <2>1. stack' \in Seq(Frames)
    BY <1>2 DEF StackOn
  <2> QED BY <1>1, <2>1, FrameFields, LenProperties
<1>6. StackKnown'
  <2>1. Len(stack') # Len(stack) /\ stack'[Len(stack')] = t
    BY <1>2, <1>5
  <2> QED BY <1>1, <1>2, <1>3, <1>4, <2>1, StackGoesOn
<1>7. ASSUME NEW n \in DOMAIN mem.nodes, n = Top.node, NEW x \in Owed(n), x.of \in Files, Same(Item, x)
      PROVE  Covered(n, x)'
  <2>1. x.of = Item.of /\ (x.how = "next" <=> Item.how = "next")
    BY <1>7 DEF Same
  <2>2. PICK i \in Nat : i = Len(stack)
    BY <1>5
  <2>3. i \in DOMAIN stack' /\ stack'[i].node = n /\ i < Len(stack') /\ stack'[i + 1].node = k
    BY <1>2, <1>5, <1>7, <2>2 DEF StackOn
  <2>4. Meets(k, x)'
    BY <2>1 DEF Meets
  <2>5. Waits(i, x)'
    BY <2>3, <2>4 DEF Waits
  <2> QED BY <2>3, <2>5 DEF Covered
<1>8. \A n \in DOMAIN mem.nodes : \A x \in Owed(n)' : Covered(n, x)'
  BY <1>1, <1>2, <1>7, Carried
<1>9. Len(stack) + 1 \in DOMAIN stack'
  BY <1>2, <1>5
<1> QED BY <1>2, <1>6, <1>8, <1>9

LEMMA FindNextStep ==
    ASSUME WorkKnown, IncInv, FindNext
    PROVE  IncInv' /\ Extends(mem, mem')
<1> DEFINE fs == SetToSeq(Named[Item.of])
           todo == [i \in DOMAIN fs |-> [how |-> "dir", of |-> fs[i]]]
           t == [node |-> Node, todo |-> todo]
<1>1. /\ stack # <<>> /\ Top.todo # <<>> /\ Item.how = "next" /\ Item.of \in Files
      /\ GraphKnown(mem) /\ Item.how \in Ways
      /\ Extends(mem, Fresh) /\ Node \in DOMAIN Fresh.nodes /\ Node \notin DOMAIN mem.nodes
      /\ DOMAIN Fresh.nodes = DOMAIN mem.nodes \cup {Node}
      /\ Fresh.nodes[Node].file = NoFile
      /\ DOMAIN Fresh.cache = DOMAIN mem.cache \cup {Key} /\ Fresh.cache[Key] = Node
      /\ \A k \in DOMAIN mem.cache \ {Key} : Fresh.cache[k] = mem.cache[k]
  BY MissedFields DEF FindNext, Resolved
<1>2. /\ mem' = Fresh /\ stack' = Append(CallerWaits, t)
      /\ prog' = prog /\ damaged' = damaged /\ phase' = phase /\ closure' = closure
  BY DEF FindNext, SearchOn, Unchanged
<1>3. /\ Len(fs) \in Nat /\ DOMAIN fs = 1..Len(fs) /\ fs \in Seq(Named[Item.of])
      /\ \A x \in Named[Item.of] : \E i \in DOMAIN fs : fs[i] = x
      /\ Named[Item.of] \subseteq Files
  <2>1. Named[Item.of] \subseteq Files /\ IsFiniteSet(Named[Item.of])
    BY <1>1, FilesAssumption, FS_Subset
  <2> QED BY <2>1, SetAsSequence
<1> HIDE DEF fs
<1>4. /\ todo \in Seq(Items) /\ \A i \in DOMAIN todo : todo[i].how = "dir"
      /\ \A x \in Named[Item.of] : \E i \in DOMAIN todo : todo[i] = [how |-> "dir", of |-> x]
  <2>1. \A i \in 1..Len(fs) : fs[i] \in Files
    BY <1>3, ElementOfSeq
  <2>2. \A i \in 1..Len(fs) : [how |-> "dir", of |-> fs[i]] \in Items
    BY <2>1, ItemKinds DEF Hows
  <2>3. todo \in [1..Len(fs) -> Items]
    BY <1>3, <2>2
  <2> QED BY <1>3, <2>3
<1> HIDE DEF todo
<1>5. t \in Frames /\ t.node = Node /\ t.todo = todo
  <2>1. Node \in Nat
    BY <1>1, CacheFields DEF Extends, GraphKnown
  <2> QED BY <1>4, <2>1 DEF Frames
<1> HIDE DEF t
<1>6. PICK k : k = Node
  OBVIOUS
<1>7. /\ StackKnown' /\ \A n \in DOMAIN mem.nodes : \A x \in Owed(n)' : Covered(n, x)'
      /\ \E i \in DOMAIN stack' : stack'[i] = t
  <2>1. k = t.node /\ k \in DOMAIN mem'.nodes /\ Extends(mem, mem')
    BY <1>1, <1>2, <1>5, <1>6
  <2>2. \A j \in DOMAIN t.todo : t.todo[j].how \in {"dir", "resolved"}
    BY <1>4, <1>5
  <2>3. <<Item.of, "next">> \in DOMAIN mem'.cache /\ mem'.cache[<<Item.of, "next">>] = k
    BY <1>1, <1>2, <1>6 DEF Key
  <2> QED BY <1>1, <1>2, <1>5, <2>1, <2>2, <2>3, CallBegins
<1>8. ASSUME NEW n \in DOMAIN mem'.nodes \ DOMAIN mem.nodes
      PROVE  mem'.nodes[n].file = NoFile /\ \A x \in Owed(n)' : Covered(n, x)'
  <2>1. n = Node /\ mem'.nodes[n].file = NoFile
    BY <1>1, <1>2
  <2>2. ASSUME NEW x \in Owed(n)' PROVE Covered(n, x)'
    <3>0. OwedTrue'
      <4>1. GraphKnown(mem)'
        BY <1>1, <1>2 DEF Extends
      <4> QED BY <4>1, WhatIsOwed, PTL
    <3>1. PICK h \in Files : <<h, "next">> \in DOMAIN mem'.cache /\ mem'.cache[<<h, "next">>] = n /\ x.of \in Named[h]
      BY <2>1, <2>2, <3>0 DEF OwedTrue
    <3>2. h = Item.of
      <4>1. ASSUME h # Item.of PROVE FALSE
        <5>1. <<h, "next">> # Key
          BY <4>1 DEF Key
        <5>2. <<h, "next">> \in DOMAIN mem.cache /\ mem.cache[<<h, "next">>] = Node
          BY <1>1, <1>2, <2>1, <3>1, <5>1
        <5> QED BY <1>1, <5>2 DEF GraphKnown, CacheThere
      <4> QED BY <4>1
    <3>3. x.how = "dir" /\ x = [how |-> x.how, of |-> x.of]
      <4>1. x.how = "dir"
        BY <2>1, <2>2, <3>0 DEF OwedTrue
      <4> QED BY <2>2, <4>1 DEF Owed
    <3>4. PICK j \in DOMAIN todo : todo[j] = x
      BY <1>4, <3>1, <3>2, <3>3
    <3>5. PICK i \in DOMAIN stack' : stack'[i] = t
      BY <1>7
    <3>6. Waits(i, x)'
      BY <1>5, <3>4, <3>5 DEF Waits, Same
    <3> QED BY <1>5, <2>1, <3>5, <3>6 DEF Covered
  <2> QED BY <2>1, <2>2
<1> QED BY <1>1, <1>2, <1>7, <1>8, StepKeeps

\* What the file system has said is kept with the other caches as they were.
LEMMA AnswersKnown ==
    ASSUME NEW c, GraphKnown(c), NEW d, Extends(c, d), NEW e, e = [c EXCEPT !.known = d.known]
    PROVE  /\ Extends(c, e) /\ e.nodes = c.nodes /\ e.cache = c.cache /\ e.known = d.known
           /\ e.parsed = c.parsed
<1>1. c \in Caches /\ d \in Caches
  BY DEF GraphKnown, Extends
<1>2. /\ e \in Caches /\ e.known = d.known /\ e.nodes = c.nodes /\ e.cache = c.cache /\ e.recs = c.recs
      /\ e.parsed = c.parsed /\ e.copied = c.copied
  BY <1>1 DEF Caches
<1>3. \A k \in DOMAIN c.cache : k[1] \in Files
  BY <1>1, CacheFields DEF Keys
<1>4. /\ \A f \in Files : c.known[f] # "unknown" => d.known[f] = c.known[f]
      /\ \A f \in Files : d.known[f] = "no" => c.known[f] = "no" \/ disk[f] = 0
  BY DEF Extends
<1>5. CacheThere(e) /\ KidsThere(e) /\ OneFile(e) /\ NoneValid(e)
  BY <1>2 DEF GraphKnown, CacheThere, KidsThere, OneFile, NoneValid
<1>6. KeysKnown(e)
  BY <1>2, <1>3, <1>4 DEF GraphKnown, KeysKnown, KeyKnown
<1>7. Extends(c, e)
  BY <1>2, <1>4, <1>5, <1>6 DEF Extends, GraphKnown
<1> QED BY <1>2, <1>7

LEMMA FindRealStep ==
    ASSUME WorkKnown, IncInv, FindReal
    PROVE  IncInv' /\ Extends(mem, mem')
<1> DEFINE c == [mem EXCEPT !.known = Fresh.known]
           r == Fresh.cache[RealKey]
           d == [c EXCEPT !.cache = Put(c.cache, Key, r)]
<1>1. /\ stack # <<>> /\ Top.todo # <<>> /\ Item.how \in Ways \ {"next", "resolved"} /\ Item.of \in Files
      /\ GraphKnown(mem) /\ Extends(mem, Fresh)
      /\ DOMAIN Fresh.cache = DOMAIN mem.cache \cup {Key}
      /\ \A k \in DOMAIN mem.cache \ {Key} : Fresh.cache[k] = mem.cache[k]
      /\ RealKey \in DOMAIN Fresh.cache
  BY MissedFields DEF FindReal, KnownAsReal
<1>2. /\ Return([mem EXCEPT !.known = Fresh.known, !.cache = Put(@, Key, Fresh.cache[RealKey])], CallerWaits, r)
      /\ prog' = prog /\ damaged' = damaged /\ phase' = phase /\ closure' = closure
  BY DEF FindReal, SearchOn, Unchanged
<1>3. RealKey \in DOMAIN mem.cache /\ r = mem.cache[RealKey]
  <2>1. RealKey # Key
    BY <1>1 DEF RealKey, Key, Ways
  <2> QED BY <1>1, <2>1
<1>4. r \in DOMAIN mem.nodes /\ mem.nodes[r].file = Item.of
  BY <1>1, <1>3 DEF GraphKnown, CacheThere, KeysKnown, KeyKnown, RealKey
<1>5. Extends(mem, c) /\ GraphKnown(c) /\ c.nodes = mem.nodes /\ c.cache = mem.cache /\ c.parsed = mem.parsed
  BY <1>1, AnswersKnown DEF Extends
<1>6. [mem EXCEPT !.known = Fresh.known, !.cache = Put(@, Key, Fresh.cache[RealKey])] = d
  <2>1. mem \in Caches
    BY <1>1 DEF GraphKnown
  <2> QED BY <1>5, <2>1 DEF Caches
<1> HIDE DEF c, r
<1>7. Extends(c, d) /\ d.nodes = c.nodes
  <2>1. Key \in Keys /\ Key[2] # "next" /\ KeyKnown(c, Key, c.nodes[r].file)
    BY <1>1, <1>4, <1>5 DEF Key, Keys, KeyKnown
  <2>2. r \in DOMAIN c.nodes
    BY <1>4, <1>5
  <2>3. d = [c EXCEPT !.cache = Put(@, Key, r)]
    OBVIOUS
  <2> HIDE DEF d
  <2> QED BY <1>5, <2>1, <2>2, <2>3, PutKnown
<1> HIDE DEF d
<1>8. Extends(mem, d) /\ d.nodes = mem.nodes
  BY <1>1, <1>5, <1>7, ExtendsTrans
<1>9. /\ Extends(mem, mem') /\ DOMAIN mem'.nodes = DOMAIN d.nodes /\ StackKnown'
      /\ \A n \in DOMAIN mem.nodes : \A x \in Owed(n)' : Covered(n, x)'
  BY <1>1, <1>2, <1>4, <1>6, <1>8, CallReturns
<1> QED BY <1>2, <1>8, <1>9, StepKeeps

LEMMA RememberedFields ==
    ASSUME WorkKnown, IncInv, Visiting
    PROVE  /\ stack # <<>> /\ Top.todo # <<>> /\ Item.how \in Ways \ {"next"} /\ Item.of \in Files
           /\ GraphKnown(mem) /\ Extends(mem, Remembered) /\ GraphKnown(Remembered)
           /\ Node \in DOMAIN Remembered.nodes /\ Node \notin DOMAIN mem.nodes
           /\ DOMAIN Remembered.nodes = DOMAIN mem.nodes \cup {Node}
           /\ Remembered.nodes[Node].file = Item.of
           /\ Remembered.parsed = mem.parsed
<1> DEFINE r == Fresh.nodes[Node].rec
           c == [Fresh EXCEPT !.recs[r].valid = TRUE]
           d == [c EXCEPT !.cache = Put(@, RealKey, Node)]
<1>1. /\ stack # <<>> /\ Top.todo # <<>> /\ Item.how \in Ways \ {"next"} /\ Item.of \in Files
      /\ GraphKnown(mem) /\ Extends(mem, Fresh) /\ GraphKnown(Fresh)
      /\ Node \in DOMAIN Fresh.nodes /\ Node \notin DOMAIN mem.nodes
      /\ DOMAIN Fresh.nodes = DOMAIN mem.nodes \cup {Node}
      /\ Fresh.nodes[Node].file = Item.of /\ Fresh.parsed = mem.parsed
  BY MissedFields DEF Visiting, Resolved
<1>2. r \in DOMAIN Fresh.recs
  BY <1>1 DEF GraphKnown, KidsThere
<1>3. Remembered = IF Item.how = "resolved" THEN c ELSE d
  BY DEF Remembered
<1> HIDE DEF r
<1>4. Extends(Fresh, c) /\ c.nodes = Fresh.nodes /\ c.parsed = Fresh.parsed
  <2>1. c = [Fresh EXCEPT !.recs[r].valid = TRUE]
    OBVIOUS
  <2> HIDE DEF c
  <2> QED BY <1>1, <1>2, <2>1, ValidKnown
<1>5. Extends(mem, c) /\ GraphKnown(c)
  <2> HIDE DEF c
  <2> QED BY <1>1, <1>4, ExtendsTrans DEF Extends
<1> HIDE DEF c
<1>6. Extends(c, d) /\ d.nodes = c.nodes /\ d.parsed = c.parsed
  <2>1. RealKey \in Keys /\ RealKey[2] # "next" /\ KeyKnown(c, RealKey, c.nodes[Node].file)
    BY <1>1, <1>4 DEF RealKey, Keys, KeyKnown
  <2>2. Node \in DOMAIN c.nodes
    BY <1>1, <1>4
  <2>3. d = [c EXCEPT !.cache = Put(@, RealKey, Node)]
    OBVIOUS
  <2> HIDE DEF d
  <2> QED BY <1>5, <2>1, <2>2, <2>3, PutKnown
<1> HIDE DEF d
<1>7. Extends(mem, d) /\ GraphKnown(d)
  BY <1>1, <1>5, <1>6, ExtendsTrans DEF Extends
<1> QED BY <1>1, <1>3, <1>4, <1>5, <1>6, <1>7

LEMMA VisitStep ==
    ASSUME WorkKnown, IncInv, Visit
    PROVE  IncInv' /\ Extends(mem, mem')
<1> DEFINE c1 == Insert(Remembered, prog.defs[Item.of])
           c2 == [c1 EXCEPT !.parsed[Item.of] = disk[Item.of]]
           c == IF Parses THEN c2 ELSE Remembered
           t == [node |-> Node, todo |-> Todo(Item.of)]
<1>1. /\ stack # <<>> /\ Top.todo # <<>> /\ Item.how \in Ways \ {"next"} /\ Item.of \in Files
      /\ GraphKnown(mem) /\ Extends(mem, Remembered) /\ GraphKnown(Remembered)
      /\ Node \in DOMAIN Remembered.nodes /\ Node \notin DOMAIN mem.nodes
      /\ DOMAIN Remembered.nodes = DOMAIN mem.nodes \cup {Node}
      /\ Remembered.nodes[Node].file = Item.of
      /\ Remembered.parsed = mem.parsed
  BY RememberedFields DEF Visit
<1>2. /\ Parses => disk[Item.of] > 0
      /\ Item.of \in System => Return(c, CallerWaits, Node)
      /\ Item.of \notin System => mem' = c /\ stack' = Append(CallerWaits, t)
      /\ prog' = prog /\ damaged' = damaged /\ phase' = phase /\ closure' = closure
  BY DEF Visit, SearchOn, Unchanged
<1>3. mem.parsed[Item.of] \in Nat /\ disk[Item.of] \in Nat /\ prog.defs[Item.of] \subseteq Definitions
  BY <1>1, CacheFields DEF GraphKnown, WorkKnown, Program
<1>4. /\ Extends(mem, c) /\ c.parsed[Item.of] > 0
      /\ DOMAIN c.nodes = DOMAIN mem.nodes \cup {Node}
      /\ c.nodes[Node].file = Item.of
  <2>1. CASE Parses
    <3>1. Extends(Remembered, c1) /\ c1.parsed = mem.parsed /\ c1.nodes = Remembered.nodes
      BY <1>1, <1>3, InsertExtends, InsertKnown DEF GraphKnown
    <3>2. GraphKnown(c1) /\ c1.parsed[Item.of] = 0
      BY <2>1, <3>1 DEF Extends, Parses
    <3>3. c2 = [c1 EXCEPT !.parsed[Item.of] = disk[Item.of]]
      OBVIOUS
    <3>4. c1.parsed \in [Files -> Nat]
      BY <3>2, CacheFields DEF GraphKnown
    <3>5. c = c2
      BY <2>1
    <3> HIDE DEF c1, c2, c
    <3>6. Extends(c1, c2) /\ c2.nodes = c1.nodes /\ c2.parsed[Item.of] = disk[Item.of]
      <4>1. Item.of \in Files /\ disk[Item.of] > 0 /\ disk[Item.of] \in Nat
        BY <1>1, <1>2, <1>3, <2>1
      <4>2. /\ Extends(c1, c2) /\ c2.nodes = c1.nodes
            /\ c2.parsed = [c1.parsed EXCEPT ![Item.of] = disk[Item.of]]
        <5>1. PICK f : f = Item.of
          OBVIOUS
        <5>2. f \in Files /\ disk[f] > 0 /\ disk[f] \in Nat /\ c1.parsed[f] = 0
          BY <3>2, <4>1, <5>1
        <5>3. PICK parsed : parsed = [c1.parsed EXCEPT ![f] = disk[f]]
          OBVIOUS
        <5>4. c2 = [c1 EXCEPT !.parsed = parsed]
          BY <3>3, <5>1, <5>3
        <5>5. Extends(c1, c2) /\ c2.nodes = c1.nodes /\ c2.parsed = parsed
          BY <3>2, <5>2, <5>3, <5>4, ParsedKnown
        <5> QED BY <5>1, <5>3, <5>5
      <4> QED BY <3>4, <4>1, <4>2
    <3>7. Extends(mem, c1)
      BY <1>1, <3>1, ExtendsTrans
    <3>8. Extends(mem, c2)
      BY <1>1, <3>6, <3>7, ExtendsTrans
    <3> QED BY <1>1, <1>2, <2>1, <3>1, <3>5, <3>6, <3>8
  <2>2. CASE ~Parses
    <3>1. c = Remembered
      BY <2>2
    <3> HIDE DEF c
    <3> QED BY <1>1, <1>3, <2>2, <3>1 DEF Parses
  <2> QED BY <2>1, <2>2
<1> HIDE DEF c
<1>5. PICK k : k = Node
  OBVIOUS
<1>6. CASE Item.of \in System
  <2>1. /\ Extends(mem, mem') /\ Extends(c, mem') /\ DOMAIN mem'.nodes = DOMAIN c.nodes /\ StackKnown'
        /\ mem'.parsed = c.parsed
        /\ \A n \in DOMAIN mem.nodes : \A x \in Owed(n)' : Covered(n, x)'
    BY <1>1, <1>2, <1>4, <1>6, CallReturns
  <2>2. ASSUME NEW n \in DOMAIN mem'.nodes \ DOMAIN mem.nodes
        PROVE  mem'.parsed[mem'.nodes[n].file] > 0 /\ \A x \in Owed(n)' : Covered(n, x)'
    <3>1. n = Node /\ mem'.nodes[n].file = Item.of
      BY <1>4, <2>1 DEF Extends
    <3>2. OwedTrue'
      <4>1. GraphKnown(mem)'
        BY <2>1 DEF Extends
      <4> QED BY <4>1, WhatIsOwed, PTL
    <3>3. Item.of # NoFile
      BY <1>1, FilesAssumption
    <3>4. \A x \in Owed(n)' : FALSE
      BY <1>6, <3>1, <3>2, <3>3 DEF OwedTrue
    <3> QED BY <1>4, <2>1, <3>1, <3>4
  <2> QED BY <1>2, <2>1, <2>2, StepKeeps
<1>7. CASE Item.of \notin System
  <2>1. mem' = c /\ stack' = Append(CallerWaits, t)
    BY <1>2, <1>7
  <2>2. Todo(Item.of) \in Seq(Items)
    BY <1>1, TodoFields DEF WorkKnown
  <2>3. t \in Frames /\ t.node = Node /\ t.todo = Todo(Item.of)
    <3>1. Node \in Nat
      BY <1>1, CacheFields DEF GraphKnown
    <3> QED BY <2>2, <3>1 DEF Frames
  <2> HIDE DEF t
  <2>4. Item.of # NoFile
    BY <1>1, FilesAssumption
  <2>5. /\ StackKnown' /\ \A n \in DOMAIN mem.nodes : \A x \in Owed(n)' : Covered(n, x)'
        /\ \E i \in DOMAIN stack' : stack'[i] = t
    <3>1. k = t.node /\ k \in DOMAIN mem'.nodes /\ mem'.nodes[k].file = Item.of /\ Extends(mem, mem')
      BY <1>4, <1>5, <2>1, <2>3
    <3> QED BY <1>1, <1>2, <2>1, <2>3, <2>4, <3>1, CallBegins
  <2>6. ASSUME NEW n \in DOMAIN mem'.nodes \ DOMAIN mem.nodes
        PROVE  mem'.parsed[mem'.nodes[n].file] > 0 /\ \A x \in Owed(n)' : Covered(n, x)'
    <3>1. n = Node /\ mem'.nodes[n].file = Item.of
      BY <1>4, <2>1
    <3>2. OwedTrue'
      <4>1. GraphKnown(mem)'
        BY <1>4, <2>1 DEF Extends
      <4> QED BY <4>1, WhatIsOwed, PTL
    <3>3. ASSUME NEW x \in Owed(n)' PROVE Covered(n, x)'
      <4>1. PICK f : f = Item.of
        OBVIOUS
      <4>2. x \in ToSet(Todo(f)')
        BY <2>4, <3>1, <3>2, <3>3, <4>1 DEF OwedTrue
      <4>3. Todo(f)' = Todo(f)
        BY <1>2 DEF Todo
      <4>4. PICK j \in DOMAIN t.todo : t.todo[j] = x
        BY <2>3, <4>1, <4>2, <4>3 DEF ToSet
      <4>5. PICK i \in DOMAIN stack' : stack'[i] = t
        BY <2>5
      <4>6. Waits(i, x)'
        BY <4>4, <4>5 DEF Waits, Same
      <4> QED BY <2>3, <3>1, <4>5, <4>6 DEF Covered
    <3> QED BY <1>4, <2>1, <3>1, <3>3
  <2> QED BY <1>2, <1>4, <2>1, <2>5, <2>6, StepKeeps
<1> QED BY <1>6, <1>7

LEMMA FinishStep ==
    ASSUME WorkKnown, IncInv, Finish
    PROVE  IncInv' /\ Extends(mem, mem')
<1>1. /\ stack # <<>> /\ stack \in Seq(Frames) /\ Top.todo = <<>> /\ Top.node # 0
      /\ GraphKnown(mem) /\ StackKnown /\ GraphComplete /\ phase = "search"
      /\ Return(mem, Below, Top.node)
      /\ prog' = prog /\ damaged' = damaged /\ phase' = phase /\ closure' = closure
  BY DEF IncInv, StackKnown, Finish, SearchOn, Unchanged
<1>0. PICK k : k = Top.node
  OBVIOUS
<1>2. PICK l \in Nat \ {0} : l = Len(stack) /\ k = Top.node
  BY <1>0, <1>1, FrameFields
<1>3. /\ l # 1 /\ DOMAIN stack = 1..l /\ stack[1].node = 0 /\ stack[1].todo = <<>> /\ k \in DOMAIN mem.nodes
      /\ \A i \in 2..l : /\ stack[i].node \in DOMAIN mem.nodes /\ stack[i].node # 0
                         /\ mem.nodes[stack[i].node].file = NoFile =>
                               \A j \in DOMAIN stack[i].todo : stack[i].todo[j].how \in {"dir", "resolved"}
  BY <1>1, <1>2, FrameFields
<1>4. /\ stack' \in Seq(Frames) /\ Len(stack') = l - 1 /\ \A i \in 1..(l - 1) : stack'[i] = stack[i]
  BY <1>1, <1>2, StackFields DEF Return
<1>5. DOMAIN stack' = 1..(l - 1)
  BY <1>4, LenProperties
<1>6. PICK p : p = stack[l - 1].node
  OBVIOUS
<1>7. mem' = WithChild(mem, p, k) /\ root' = IF p = 0 THEN k ELSE root
  <2>1. Below[Len(Below)] = stack[l - 1]
    <3>1. stack'[l - 1] = stack[l - 1]
      BY <1>3, <1>4
    <3> QED BY <1>1, <1>4, <3>1 DEF Return
  <2> QED BY <1>1, <1>2, <1>6, <2>1 DEF Return
<1>8. p \in {0} \cup DOMAIN mem.nodes /\ (l - 1 = 1 => p = 0)
  BY <1>3, <1>6
<1>9. /\ Extends(mem, mem') /\ DOMAIN mem'.nodes = DOMAIN mem.nodes
      /\ p # 0 => k \in mem'.nodes[p].kids
  BY <1>1, <1>3, <1>7, <1>8, WithChildKnown
<1>10. StackKnown'
  <2>1. stack' # <<>> /\ phase' = "search"
    <3>1. 1 \in DOMAIN stack'
      BY <1>3, <1>5
    <3> QED BY <1>1, <3>1
  <2>2. stack'[1].node = 0 /\ stack'[1].todo = <<>>
    BY <1>3, <1>4
  <2>3. l - 1 = 1 => root' \in DOMAIN mem'.nodes
    BY <1>3, <1>7, <1>8, <1>9
  <2>4. ASSUME NEW i \in DOMAIN stack' \ {1}
        PROVE  /\ stack'[i].node \in DOMAIN mem'.nodes
               /\ mem'.nodes[stack'[i].node].file = NoFile =>
                     \A j \in DOMAIN stack'[i].todo : stack'[i].todo[j].how \in {"dir", "resolved"}
    <3>1. i \in 2..l /\ stack'[i] = stack[i]
      BY <1>4, <1>5
    <3>2. mem'.nodes[stack[i].node].file = mem.nodes[stack[i].node].file
      BY <1>3, <1>9, <3>1 DEF Extends
    <3> QED BY <1>3, <1>9, <3>1, <3>2
  <2>5. \A i \in DOMAIN stack' \ {1} :
           /\ stack'[i].node \in DOMAIN mem'.nodes
           /\ mem'.nodes[stack'[i].node].file = NoFile =>
                 \A j \in DOMAIN stack'[i].todo : stack'[i].todo[j].how \in {"dir", "resolved"}
    BY <2>4
  <2> QED BY <1>4, <2>1, <2>2, <2>3, <2>5 DEF StackKnown
<1>11. ASSUME NEW n \in DOMAIN mem.nodes, NEW x \in Owed(n)' PROVE Covered(n, x)'
  <2>1. x \in Owed(n) /\ x.of \in Files
    BY <1>1, <1>9, OwesLess
  <2>2. Covered(n, x)
    BY <1>1, <2>1 DEF GraphComplete
  <2>3. CASE Moot(x)
    BY <1>9, <2>1, <2>3, StillMoot DEF Covered
  <2>4. CASE \E m \in mem.nodes[n].kids : Meets(m, x)
    <3>1. PICK m \in mem.nodes[n].kids : Meets(m, x)
      BY <2>4
    <3>2. m \in DOMAIN mem.nodes
      BY <1>1 DEF GraphKnown, KidsThere
    <3>3. Meets(m, x)' /\ m \in mem'.nodes[n].kids
      BY <1>9, <2>1, <3>1, <3>2, StillMeets DEF Extends
    <3> QED BY <3>3 DEF Covered
  <2>5. CASE \E i \in DOMAIN stack : stack[i].node = n /\ Waits(i, x)
    <3>1. PICK i \in DOMAIN stack : stack[i].node = n /\ Waits(i, x)
      BY <2>5
    <3>2. CASE \E j \in DOMAIN stack[i].todo : Same(stack[i].todo[j], x)
      <4>1. i # l
        BY <1>1, <1>2, <3>2 DEF Top
      <4>2. i \in DOMAIN stack' /\ stack'[i] = stack[i]
        BY <1>3, <1>4, <1>5, <4>1
      <4>3. Waits(i, x)'
        BY <3>2, <4>2 DEF Waits, Same
      <4> QED BY <3>1, <4>2, <4>3 DEF Covered
    <3>3. CASE i < Len(stack) /\ Meets(stack[i+1].node, x)
      <4>1. PICK m : m = stack[i+1].node
        OBVIOUS
      <4>2. m \in DOMAIN mem.nodes /\ i \in 1..(l - 1) /\ i + 1 \in 1..l
        BY <1>2, <1>3, <3>1, <3>3, <4>1
      <4>3. Meets(m, x)'
        BY <1>9, <2>1, <3>3, <4>1, <4>2, StillMeets
      <4>4. CASE i = l - 1
        <5>1. m = k /\ n = p
          BY <1>2, <1>6, <3>1, <4>1, <4>4 DEF Top
        <5>2. n # 0
          BY <1>1, CacheFields DEF GraphKnown
        <5> QED BY <1>9, <4>3, <5>1, <5>2 DEF Covered
      <4>5. CASE i # l - 1
        <5>1. i + 1 \in 1..(l - 1)
          BY <4>2, <4>5
        <5>2. stack'[i] = stack[i] /\ stack'[i+1] = stack[i+1] /\ i < Len(stack') /\ i \in DOMAIN stack'
          BY <1>4, <1>5, <4>2, <5>1
        <5>3. Waits(i, x)'
          BY <4>1, <4>3, <5>2 DEF Waits
        <5> QED BY <3>1, <5>2, <5>3 DEF Covered
      <4> QED BY <4>4, <4>5
    <3> QED BY <3>1, <3>2, <3>3 DEF Waits
  <2> QED BY <2>2, <2>3, <2>4, <2>5 DEF Covered
<1> QED BY <1>1, <1>9, <1>10, <1>11, StepKeeps

\* The first item of a node is replaced by others that answer it.
LEMMA ItemReplaced ==
    ASSUME WorkKnown, IncInv, stack # <<>>, Top.todo # <<>>, Item.how # "resolved",
           Extends(mem, mem'), DOMAIN mem'.nodes = DOMAIN mem.nodes,
           NEW others, others \in Seq(Items),
           stack' = Append(Below, [Top EXCEPT !.todo = others \o Tail(@)]),
           Item.how # "dir" \/ \A i \in DOMAIN others : others[i].how \in {"dir", "resolved"},
           Item.how = "dir" => mem'.known[Item.of] = "no" \/ \E i \in DOMAIN others : others[i] = [how |-> "resolved", of |-> Item.of],
           Item.how \notin {"quote", "angle", "next"},
           prog' = prog, damaged' = damaged, phase' = phase, closure' = closure
    PROVE  IncInv'
<1>1. GraphKnown(mem) /\ StackKnown /\ GraphComplete /\ stack \in Seq(Frames)
  BY DEF IncInv, StackKnown
<1>2. /\ StackOn /\ Len(stack') = Len(stack)
      /\ \A j \in DOMAIN stack'[Len(stack)].todo :
            \/ \E i \in DOMAIN Top.todo : stack'[Len(stack)].todo[j] = Top.todo[i]
            \/ \E i \in DOMAIN others : stack'[Len(stack)].todo[j] = others[i]
      /\ \A i \in DOMAIN others : \E j \in DOMAIN stack'[Len(stack)].todo :
            stack'[Len(stack)].todo[j] = others[i]
  BY <1>1, OneReplaced
<1>3. Top.node # 0 /\ Top.node \in DOMAIN mem.nodes
  <2>1. ASSUME Top.node = 0 PROVE FALSE
    <3>1. Len(stack) = 1 /\ Item = Top.todo[1]
      BY <1>1, <2>1, FrameFields, ItemFields
    <3>2. PICK f \in Files : Top.todo = <<[how |-> "resolved", of |-> f]>>
      BY <1>1, <3>1 DEF StackKnown, Top
    <3> QED BY <3>1, <3>2
  <2> QED BY <1>1, <2>1, FrameFields
<1>4. ASSUME mem.nodes[Top.node].file = NoFile
      PROVE  \A j \in DOMAIN stack'[Len(stack)].todo : stack'[Len(stack)].todo[j].how \in {"dir", "resolved"}
  <2>1. \A i \in DOMAIN Top.todo : Top.todo[i].how \in {"dir", "resolved"}
    BY <1>1, <1>3, <1>4, FrameFields
  <2>2. Item.how = "dir"
    BY <1>1, <2>1, ItemFields
  <2>3. \A i \in DOMAIN others : others[i].how \in {"dir", "resolved"}
    BY <2>2
  <2> QED BY <1>2, <2>1, <2>3
<1>5. StackKnown'
  <2>1. Len(stack') # Len(stack) + 1
    BY <1>1, <1>2, FrameFields
  <2> QED BY <1>1, <1>2, <1>3, <1>4, <2>1, StackGoesOn
<1>6. ASSUME NEW n \in DOMAIN mem.nodes, n = Top.node, NEW x \in Owed(n), x.of \in Files, Same(Item, x)
      PROVE  Covered(n, x)'
  <2>1. x = Item /\ Item.how = "dir"
    <3>1. x.how \in {"quote", "angle", "next", "dir"}
      BY DEF Owed
    <3> QED BY <1>6, <3>1 DEF Same
  <2>2. CASE mem'.known[Item.of] = "no"
    <3>1. Moot(x)'
      BY <2>1, <2>2 DEF Moot
    <3> QED BY <3>1 DEF Covered
  <2>3. CASE \E i \in DOMAIN others : others[i] = [how |-> "resolved", of |-> Item.of]
    <3>1. PICK i \in Nat : i = Len(stack)
      BY <1>1, FrameFields
    <3>2. i \in DOMAIN stack' /\ stack'[i].node = n
      <4>1. stack' \in Seq(Frames)
        BY <1>2 DEF StackOn
      <4>2. DOMAIN stack' = 1..Len(stack')
        BY <4>1, LenProperties
      <4> QED BY <1>1, <1>2, <1>6, <3>1, <4>2, FrameFields DEF StackOn
    <3>3. PICK j \in DOMAIN stack'[i].todo : stack'[i].todo[j] = [how |-> "resolved", of |-> x.of]
      BY <1>2, <2>1, <2>3, <3>1
    <3>4. Waits(i, x)'
      BY <2>1, <3>3 DEF Waits, Same
    <3> QED BY <3>2, <3>4 DEF Covered
  <2> QED BY <2>1, <2>2, <2>3
<1>7. \A n \in DOMAIN mem.nodes : \A x \in Owed(n)' : Covered(n, x)'
  BY <1>1, <1>2, <1>6, Carried
<1> QED BY <1>5, <1>7, StepKeeps

LEMMA TryDirectoryStep ==
    ASSUME WorkKnown, IncInv, TryDirectory
    PROVE  IncInv' /\ Extends(mem, mem')
<1>1. /\ stack # <<>> /\ Top.todo # <<>> /\ Item.how = "dir" /\ Item.of \in Files /\ GraphKnown(mem) /\ mem \in Caches
  BY SearchingFields DEF TryDirectory, Hows
<1>2. PICK others : others = IF Exists(mem', Item.of) THEN <<[how |-> "resolved", of |-> Item.of]>> ELSE <<>>
  OBVIOUS
<1>3. /\ mem' = Probe(mem, {Item.of})
      /\ stack' = Append(Below, [Top EXCEPT !.todo = others \o Tail(@)])
      /\ prog' = prog /\ damaged' = damaged /\ phase' = phase /\ closure' = closure
  BY <1>2 DEF TryDirectory, SearchOn, Unchanged
<1>4. Extends(mem, mem') /\ mem'.nodes = mem.nodes /\ mem'.known[Item.of] # "unknown"
  BY <1>1, <1>3, ProbeExtends, ProbeKnown
<1>5. mem'.known[Item.of] \in {"yes", "no"}
  BY <1>1, <1>4, CacheFields DEF Extends, GraphKnown
<1>6. /\ others \in Seq(Items) /\ \A i \in DOMAIN others : others[i].how \in {"dir", "resolved"}
      /\ mem'.known[Item.of] = "no" \/ \E i \in DOMAIN others : others[i] = [how |-> "resolved", of |-> Item.of]
  <2>1. [how |-> "resolved", of |-> Item.of] \in Items
    BY <1>1, ItemKinds DEF Hows, Ways
  <2>2. CASE Exists(mem', Item.of)
    <3>1. others = <<[how |-> "resolved", of |-> Item.of]>>
      BY <1>2, <2>2
    <3> QED BY <2>1, <3>1
  <2>3. CASE ~Exists(mem', Item.of)
    <3>1. others = <<>> /\ mem'.known[Item.of] = "no"
      BY <1>2, <1>5, <2>3 DEF Exists
    <3> QED BY <3>1
  <2> QED BY <2>2, <2>3
<1>7. IncInv'
  BY <1>1, <1>3, <1>4, <1>6, ItemReplaced
<1> QED BY <1>4, <1>7

LEMMA EvaluateStep ==
    ASSUME WorkKnown, IncInv, Evaluate
    PROVE  IncInv' /\ Extends(mem, mem')
<1> DEFINE values == Values
           c == Probe(mem, values \cap Files)
           files == {f \in values \cap Files : Exists(c, f)}
           first(order) == [i \in DOMAIN order |-> [how |-> "resolved", of |-> order[i]]]
           last == [how |-> "symbols", of |-> values \cap Macros]
<1>1. /\ stack # <<>> /\ Top.todo # <<>> /\ Item.how = "expr" /\ GraphKnown(mem) /\ mem \in Caches
  BY SearchingFields DEF Evaluate
<1>2. PICK order \in SetToSeqs(files) :
          stack' = Append(Below, [Top EXCEPT !.todo = first(order) \o <<last>> \o Tail(@)])
  BY DEF Evaluate
<1>3. /\ mem' = c
      /\ prog' = prog /\ damaged' = damaged /\ phase' = phase /\ closure' = closure
  BY DEF Evaluate, SearchOn, Unchanged
<1> HIDE DEF values
<1>4. values \cap Files \in SUBSET Files
  OBVIOUS
<1>5. Extends(mem, mem') /\ mem'.nodes = mem.nodes
  BY <1>1, <1>3, <1>4, ProbeExtends, ProbeKnown
<1>6. order \in [1..Cardinality(files) -> files] /\ files \subseteq Files /\ IsFiniteSet(files)
  <2>1. files \subseteq Files
    OBVIOUS
  <2>2. IsFiniteSet(files)
    <3> HIDE DEF files
    <3> QED BY <2>1, FilesAssumption, FS_Subset
  <2> HIDE DEF files
  <2> QED BY <2>1, <2>2 DEF SetToSeqs
<1> HIDE DEF files, c
<1>7. first(order) \in Seq(Items)
  <2>1. PICK n \in Nat : n = Cardinality(files)
    BY <1>6, FS_CardinalityType
  <2>2. \A f \in Files : [how |-> "resolved", of |-> f] \in Items
    BY ItemKinds DEF Hows, Ways
  <2>3. first(order) \in [1..n -> Items]
    BY <1>6, <2>1, <2>2
  <2> HIDE DEF first
  <2> QED BY <2>1, <2>3
<1>8. last \in Items
  BY DEF Items
<1>9. PICK others : others = first(order) \o <<last>>
  OBVIOUS
<1> HIDE DEF first, last
<1>10. others \in Seq(Items)
  <2>1. <<last>> \in Seq(Items)
    BY <1>8
  <2> QED BY <1>7, <1>9, <2>1, ConcatProperties
<1>11. stack' = Append(Below, [Top EXCEPT !.todo = others \o Tail(@)])
  BY <1>2, <1>9
<1>12. IncInv'
  BY <1>1, <1>3, <1>5, <1>10, <1>11, ItemReplaced
<1> QED BY <1>5, <1>12

\* A record of a file changes.
LEMMA RecordKnown ==
    ASSUME NEW c, GraphKnown(c), NEW n \in DOMAIN c.nodes, c.nodes[n].file # NoFile,
           NEW recs \in Seq(Records), DOMAIN recs = DOMAIN c.recs,
           \A i \in DOMAIN c.recs : i # c.nodes[n].rec => recs[i] = c.recs[i],
           NEW d, d = [c EXCEPT !.recs = recs]
    PROVE  Extends(c, d) /\ d.nodes = c.nodes
<1>1. c \in Caches /\ OneFile(c) /\ KidsThere(c)
  BY DEF GraphKnown
<1>2. d \in Caches /\ d.nodes = c.nodes /\ d.recs = recs /\ d.cache = c.cache /\ d.known = c.known
      /\ d.parsed = c.parsed /\ d.copied = c.copied
  BY <1>1 DEF Caches
<1>3. CacheThere(d) /\ KidsThere(d) /\ OneFile(d)
  BY <1>1, <1>2 DEF GraphKnown, CacheThere, KidsThere, OneFile
<1>4. KeysKnown(d)
  BY <1>2 DEF GraphKnown, KeysKnown, KeyKnown
<1>5. NoneValid(d)
  <2>1. ASSUME NEW m \in DOMAIN c.nodes, c.nodes[m].file = NoFile
        PROVE  d.recs[c.nodes[m].rec] = c.recs[c.nodes[m].rec]
    <3>1. PICK i : i = c.nodes[m].rec
      OBVIOUS
    <3>2. i \in DOMAIN c.recs
      BY <1>1, <3>1 DEF KidsThere
    <3>3. i # c.nodes[n].rec
      BY <1>1, <2>1, <3>1 DEF OneFile
    <3> QED BY <1>2, <3>1, <3>2, <3>3
  <2> QED BY <1>2, <2>1 DEF GraphKnown, NoneValid
<1> QED BY <1>2, <1>3, <1>4, <1>5 DEF Extends, GraphKnown

LEMMA AddSupportStep ==
    ASSUME WorkKnown, IncInv, AddSupport
    PROVE  IncInv' /\ Extends(mem, mem')
<1>1. /\ stack # <<>> /\ stack \in Seq(Frames) /\ Top.todo # <<>> /\ Item.how = "symbols" /\ Item \in Items
      /\ GraphKnown(mem) /\ StackKnown
  BY SearchingFields DEF AddSupport
<1>2. /\ mem' = [mem EXCEPT !.recs[mem.nodes[Top.node].rec].support = @ \cup Item.of]
      /\ stack' = CallerWaits
      /\ prog' = prog /\ damaged' = damaged /\ phase' = phase /\ closure' = closure
  BY DEF AddSupport, SearchOn, Unchanged
<1>3. Top.node \in DOMAIN mem.nodes /\ mem.nodes[Top.node].file # NoFile /\ Item.of \in SUBSET Macros
  <2>1. Item = Top.todo[1] /\ 1 \in DOMAIN Top.todo
    BY <1>1, ItemFields
  <2>2. Top.node # 0
    <3>1. ASSUME Top.node = 0 PROVE FALSE
      <4>1. Len(stack) = 1
        BY <1>1, <3>1, FrameFields
      <4>2. PICK f \in Files : Top.todo = <<[how |-> "resolved", of |-> f]>>
        BY <1>1, <4>1 DEF StackKnown, Top
      <4> QED BY <1>1, <2>1, <4>2
    <3> QED BY <3>1
  <2> QED BY <1>1, <2>1, <2>2, FrameFields, ItemKinds
<1>4. Extends(mem, mem') /\ mem'.nodes = mem.nodes
  <2> DEFINE n == Top.node
             r == mem.nodes[n].rec
             rec == [mem.recs[r] EXCEPT !.support = @ \cup Item.of]
             recs == [mem.recs EXCEPT ![r] = rec]
  <2>1. /\ mem.recs \in Seq(Records) /\ DOMAIN mem.recs = 1..Len(mem.recs)
        /\ r \in DOMAIN mem.recs /\ mem.recs[r] \in Records /\ mem \in Caches
    BY <1>1, <1>3, CacheFields DEF GraphKnown, KidsThere
  <2>2. rec \in Records
    BY <1>3, <2>1 DEF Records
  <2>3. mem' = [mem EXCEPT !.recs = recs]
    BY <1>2, <2>1
  <2> HIDE DEF rec, r
  <2>4. recs \in Seq(Records) /\ DOMAIN recs = DOMAIN mem.recs /\ \A i \in DOMAIN mem.recs : i # r => recs[i] = mem.recs[i]
    BY <2>1, <2>2, ExceptSeq
  <2> HIDE DEF recs
  <2> QED BY <1>1, <1>3, <2>3, <2>4, RecordKnown DEF r
<1>5. PICK others : others = <<>>
  OBVIOUS
<1>6. others \in Seq(Items) /\ stack' = Append(Below, [Top EXCEPT !.todo = others \o Tail(@)])
  <2>1. Top.todo \in Seq(Items) /\ Tail(Top.todo) \in Seq(Items)
    BY <1>1, ItemFields, HeadTailProperties
  <2>2. others \o Tail(Top.todo) = Tail(Top.todo)
    BY <1>5, <2>1, ConcatEmptySeq
  <2> QED BY <1>2, <1>5, <2>2 DEF CallerWaits, Rest
<1>7. IncInv'
  BY <1>1, <1>2, <1>4, <1>6, ItemReplaced
<1> QED BY <1>4, <1>7

----------------------------------------------------------------------------
(* What is reached from a node is closed: while it is not, each round of   *)
(* ReachedFrom adds a node.                                                *)

\* Every set of natural numbers has a least element: the finite sets are well
\* founded, and a number is as good as the set of those below it.
LEMMA LeastNat ==
    ASSUME NEW S \in SUBSET Nat, S # {}
    PROVE  \E m \in S : \A k \in S : m <= k
<1> DEFINE R == StrictSubsetOrdering(Nat)
           F == FiniteSubsetsOf(Nat)
           U == {0..(n - 1) : n \in S}
<1>1. IsWellFoundedOn(R, F)
  BY FS_StrictSubsetOrderingWellFounded
<1>2. U \subseteq F /\ U # {}
  <2>1. ASSUME NEW n \in S PROVE 0..(n - 1) \in F
    <3>1. IsFiniteSet(0..(n - 1))
      BY FS_Interval
    <3>2. 0..(n - 1) \in SUBSET Nat
      OBVIOUS
    <3> QED BY <3>1, <3>2 DEF FiniteSubsetsOf
  <2>2. U # {}
    OBVIOUS
  <2> HIDE DEF F
  <2> QED BY <2>1, <2>2
<1>3. PICK x \in U : \A y \in U : <<y, x>> \notin R
  <2> HIDE DEF R, F, U
  <2> QED BY <1>1, <1>2, WFMin
<1>4. PICK m \in S : x = 0..(m - 1)
  BY <1>3
<1>5. ASSUME NEW k \in S, k < m PROVE FALSE
  <2>1. 0..(k - 1) \in U
    BY <1>5
  <2>2. 0..(k - 1) \subseteq 0..(m - 1) /\ 0..(k - 1) # 0..(m - 1)
    BY <1>5
  <2>3. 0..(k - 1) \in SUBSET Nat /\ 0..(m - 1) \in SUBSET Nat
    OBVIOUS
  <2> QED BY <1>3, <1>4, <2>1, <2>2, <2>3 DEF StrictSubsetOrdering
<1> QED BY <1>5

\* The rounds of ReachedFrom: the recursion describes the ends of the paths of
\* each length, so it describes something.
LEMMA Rounds ==
    ASSUME GraphKnown(mem), NEW n \in DOMAIN mem.nodes
    PROVE  \E s : /\ ReachedFrom(n) = s[Len(mem.nodes)]
                  /\ s[0] = {n}
                  /\ \A i \in 1..Len(mem.nodes) :
                        s[i] = s[i - 1] \cup UNION {mem.nodes[k].kids : k \in s[i - 1]}
<1> DEFINE D == DOMAIN mem.nodes
           N == Len(mem.nodes)
           K == 0..N
           kids(k) == mem.nodes[k].kids
           Is(f) == f = [i \in K |-> IF i = 0 THEN {n}
                                     ELSE f[i - 1] \cup UNION {kids(k) : k \in f[i - 1]}]
           Path(p, i) == p[0] = n /\ \A j \in 1..i : p[j] = p[j - 1] \/ p[j] \in kids(p[j - 1])
           ends == [i \in K |-> {k \in D : \E p \in [K -> D] : Path(p, i) /\ p[i] = k}]
           step == CHOOSE f : Is(f)
<1>1. N \in Nat /\ 0 \in K /\ \A k \in D : kids(k) \subseteq D
  BY CacheFields DEF GraphKnown, KidsThere
<1> HIDE DEF N, kids, D
<1>2. Is(ends)
  <2>1. ends[0] = {n}
    <3>1. ends[0] = {k \in D : \E p \in [K -> D] : Path(p, 0) /\ p[0] = k}
      BY <1>1
    <3>2. n \in D /\ [j \in K |-> n] \in [K -> D]
      BY DEF D
    <3>3. Path([j \in K |-> n], 0) /\ [j \in K |-> n][0] = n
      BY <1>1
    <3> QED BY <3>1, <3>2, <3>3
  <2>2. ASSUME NEW i \in K, i # 0
        PROVE  ends[i] = ends[i - 1] \cup UNION {kids(k) : k \in ends[i - 1]}
    <3>0. i - 1 \in K /\ i \in Nat /\ i > 0 /\ i - 1 \in Nat
      BY <1>1, <2>2
    <3>1. /\ ends[i] = {k \in D : \E p \in [K -> D] : Path(p, i) /\ p[i] = k}
          /\ ends[i - 1] = {k \in D : \E p \in [K -> D] : Path(p, i - 1) /\ p[i - 1] = k}
      BY <3>0
    <3>2. ASSUME NEW k \in ends[i] PROVE k \in ends[i - 1] \cup UNION {kids(l) : l \in ends[i - 1]}
      <4>1. PICK p \in [K -> D] : Path(p, i) /\ p[i] = k
        BY <3>1
      <4>2. Path(p, i - 1) /\ (p[i] = p[i - 1] \/ p[i] \in kids(p[i - 1])) /\ p[i - 1] \in D
        BY <3>0, <4>1
      <4>3. p[i - 1] \in ends[i - 1]
        BY <3>1, <4>2
      <4> HIDE DEF ends, Path
      <4> QED BY <4>1, <4>2, <4>3
    <3>3. ASSUME NEW l \in ends[i - 1], NEW k \in D, k = l \/ k \in kids(l) PROVE k \in ends[i]
      <4>1. PICK p \in [K -> D] : Path(p, i - 1) /\ p[i - 1] = l
        BY <3>1
      <4> DEFINE q == [j \in K |-> IF j = i THEN k ELSE p[j]]
      <4>2. q \in [K -> D] /\ q[i] = k /\ \A j \in K : j # i => q[j] = p[j]
        BY <4>1
      <4>3. q[0] = n
        BY <1>1, <3>0, <4>1, <4>2
      <4>4. ASSUME NEW j \in 1..i PROVE q[j] = q[j - 1] \/ q[j] \in kids(q[j - 1])
        <5>1. j \in K /\ j - 1 \in K /\ j - 1 # i
          BY <1>1, <3>0
        <5>2. CASE j = i
          BY <3>3, <4>1, <4>2, <5>1, <5>2
        <5>3. CASE j # i
          <6>1. j \in 1..(i - 1)
            BY <3>0, <5>3
          <6> QED BY <4>1, <4>2, <5>1, <5>3, <6>1
        <5> QED BY <5>2, <5>3
      <4>5. Path(q, i)
        <5> HIDE DEF q
        <5> QED BY <4>3, <4>4
      <4> HIDE DEF q, Path, ends
      <4> QED BY <3>1, <4>2, <4>5
    <3>4. ends[i - 1] \subseteq D
      BY <3>1
    <3>5. ASSUME NEW k \in ends[i - 1] \cup UNION {kids(l) : l \in ends[i - 1]} PROVE k \in ends[i]
      <4> HIDE DEF ends
      <4>1. PICK l \in ends[i - 1] : k = l \/ k \in kids(l)
        OBVIOUS
      <4>2. k \in D
        BY <1>1, <3>4, <4>1
      <4> QED BY <3>3, <4>1, <4>2
    <3> HIDE DEF ends
    <3> QED BY <3>2, <3>5
  <2>3. DOMAIN ends = K /\ ends = [i \in K |-> ends[i]]
    OBVIOUS
  <2> HIDE DEF ends
  <2>4. \A i \in K : ends[i] = IF i = 0 THEN {n} ELSE ends[i - 1] \cup UNION {kids(k) : k \in ends[i - 1]}
    BY <2>1, <2>2
  <2> QED BY <2>3, <2>4
<1>3. Is(step)
  <2> HIDE DEF Is, ends
  <2> QED BY <1>2
<1>4. ReachedFrom(n) = step[N]
  BY DEF ReachedFrom, N, kids
<1>5. \A i \in K : step[i] = IF i = 0 THEN {n} ELSE step[i - 1] \cup UNION {kids(k) : k \in step[i - 1]}
  <2>1. step = [i \in K |-> IF i = 0 THEN {n} ELSE step[i - 1] \cup UNION {kids(k) : k \in step[i - 1]}]
    BY <1>3
  <2> HIDE DEF step
  <2> QED BY <2>1
<1> HIDE DEF step
<1>6. ASSUME NEW i \in 1..N PROVE step[i] = step[i - 1] \cup UNION {kids(k) : k \in step[i - 1]}
  <2>1. i \in K /\ i # 0
    BY <1>1
  <2> QED BY <1>5, <2>1
<1>7. step[0] = {n}
  BY <1>1, <1>5
<1> QED BY <1>4, <1>6, <1>7 DEF N, kids

LEMMA ReachedClosed ==
    ASSUME GraphKnown(mem), NEW n \in DOMAIN mem.nodes
    PROVE  /\ n \in ReachedFrom(n) /\ ReachedFrom(n) \subseteq DOMAIN mem.nodes
           /\ \A k \in ReachedFrom(n) : mem.nodes[k].kids \subseteq ReachedFrom(n)
<1> DEFINE D == DOMAIN mem.nodes
           N == Len(mem.nodes)
           kids(k) == mem.nodes[k].kids
           Closed1(S) == \A k \in S : kids(k) \subseteq S
<1>1. N \in Nat /\ D = 1..N /\ n \in D /\ \A k \in D : kids(k) \subseteq D
  BY CacheFields DEF GraphKnown, KidsThere
<1>2. PICK s : /\ ReachedFrom(n) = s[N]
               /\ s[0] = {n}
               /\ \A i \in 1..N : s[i] = s[i - 1] \cup UNION {kids(k) : k \in s[i - 1]}
  BY Rounds
<1> HIDE DEF D, N, kids
<1>3. IsFiniteSet(D) /\ Cardinality(D) = N
  BY <1>1, FS_Interval
<1>4. \A S \in SUBSET D : IsFiniteSet(S) /\ Cardinality(S) \in Nat /\ Cardinality(S) <= N
  BY <1>3, FS_Subset, FS_CardinalityType
<1> DEFINE Good(i) == /\ n \in s[i] /\ s[i] \subseteq D
                      /\ Closed1(s[i]) \/ Cardinality(s[i]) >= i + 1
           bad == {i \in 0..N : ~ Good(i)}
<1>5. bad = {}
  <2> SUFFICES ASSUME bad # {} PROVE FALSE
    OBVIOUS
  <2>1. PICK m \in bad : \A k \in bad : m <= k
    <3>1. bad \in SUBSET Nat
      OBVIOUS
    <3> HIDE DEF bad
    <3> QED BY <3>1, LeastNat
  <2>2. m \in 0..N /\ m \in Nat /\ ~ Good(m)
    BY <1>1, <2>1
  <2>3. CASE m = 0
    <3>1. s[0] = {n} /\ Cardinality({n}) = 1
      BY <1>2, FS_Singleton
    <3> QED BY <1>1, <2>2, <2>3, <3>1
  <2>4. CASE m # 0
    <3>1. m - 1 \in 0..N /\ m \in 1..N
      BY <1>1, <2>2, <2>4
    <3>2. Good(m - 1)
      <4>1. m - 1 \notin bad
        <5>1. ~(m <= m - 1)
          BY <2>2
        <5> HIDE DEF bad
        <5> QED BY <2>1, <5>1
      <4> QED BY <3>1, <4>1
    <3> DEFINE before == s[m - 1]
               after == s[m]
    <3>3. after = before \cup UNION {kids(k) : k \in before}
      BY <1>2, <3>1
    <3>4. /\ n \in before /\ before \subseteq D
          /\ Closed1(before) \/ Cardinality(before) >= (m - 1) + 1
      BY <3>2
    <3>5. ~(n \in after /\ after \subseteq D /\ (Closed1(after) \/ Cardinality(after) >= m + 1))
      BY <2>2
    <3> HIDE DEF before, after
    <3>6. n \in after /\ after \subseteq D
      BY <1>1, <3>3, <3>4
    <3>7. CASE Closed1(before)
      <4>1. after = before
        BY <3>3, <3>7
      <4> QED BY <3>5, <3>6, <3>7, <4>1
    <3>8. CASE ~ Closed1(before)
      <4>1. PICK k \in before : ~(kids(k) \subseteq before)
        BY <3>8
      <4>2. PICK x \in kids(k) : x \notin before
        BY <4>1
      <4>3. x \in after /\ before \cup {x} \subseteq after
        BY <3>3, <4>1, <4>2
      <4>4. before \in SUBSET D /\ after \in SUBSET D
        BY <3>4, <3>6
      <4>5. Cardinality(before \cup {x}) = Cardinality(before) + 1
        BY <1>4, <4>2, <4>4, FS_AddElement
      <4>6. Cardinality(before \cup {x}) <= Cardinality(after)
        BY <1>4, <4>3, <4>4, FS_Subset
      <4>7. Cardinality(before) >= m
        BY <2>2, <3>4, <3>8
      <4>8. Cardinality(after) >= m + 1
        BY <1>4, <2>2, <4>4, <4>5, <4>6, <4>7
      <4> QED BY <3>5, <3>6, <4>8
    <3> QED BY <3>7, <3>8
  <2> QED BY <2>3, <2>4
<1>6. Good(N)
  <2>1. N \in 0..N
    BY <1>1
  <2> QED BY <1>5, <2>1
<1>7. Closed1(s[N])
  <2>1. s[N] \in SUBSET D
    BY <1>6
  <2>2. ~(Cardinality(s[N]) >= N + 1)
    BY <1>1, <1>4, <2>1
  <2> QED BY <1>6, <2>2
<1> QED BY <1>2, <1>6, <1>7 DEF D, kids

----------------------------------------------------------------------------
(* The steps of a command around the search.                               *)

\* Nothing is searched and the nodes are what they were.
LEMMA BetweenSearches ==
    ASSUME WorkKnown, IncInv, stack = <<>>, Extends(mem, mem'), mem'.nodes = mem.nodes,
           prog' = prog, damaged' = damaged, closure' \in {closure, {}}, StackKnown'
    PROVE  IncInv'
<1>1. ASSUME NEW n \in DOMAIN mem.nodes, NEW x \in Owed(n)' PROVE Covered(n, x)'
  <2>1. x \in Owed(n) /\ x.of \in Files
    BY OwesLess
  <2>2. Moot(x) \/ \E k \in mem.nodes[n].kids : Meets(k, x)
    <3>1. Covered(n, x)
      BY <2>1 DEF IncInv, GraphComplete
    <3> QED BY <3>1 DEF Covered
  <2>3. CASE Moot(x)
    BY <2>1, <2>3, StillMoot DEF Covered
  <2>4. CASE \E k \in mem.nodes[n].kids : Meets(k, x)
    <3>1. PICK k \in mem.nodes[n].kids : Meets(k, x)
      BY <2>4
    <3>2. k \in DOMAIN mem.nodes
      BY DEF IncInv, GraphKnown, KidsThere
    <3>3. Meets(k, x)'
      BY <2>1, <3>1, <3>2, StillMeets
    <3> QED BY <3>3 DEF Covered
  <2> QED BY <2>2, <2>3, <2>4
<1>2. DOMAIN mem'.nodes \ DOMAIN mem.nodes = {}
  OBVIOUS
<1> QED BY <1>1, <1>2, StepKeeps

LEMMA OpenFileStep ==
    ASSUME WorkKnown, IncInv, OpenFile
    PROVE  IncInv' /\ Extends(mem, mem')
<1> DEFINE f == Head(cmd.files)
           c == Probe(mem, {f})
           t == [node |-> 0, todo |-> <<[how |-> "resolved", of |-> f]>>]
<1>1. /\ phase = "file" /\ stack = <<>> /\ GraphKnown(mem) /\ mem \in Caches
      /\ prog' = prog /\ damaged' = damaged /\ closure' = closure
      /\ \/ mem' = Insert(c, cmd.defs) /\ stack' = <<t>> /\ phase' = "search"
         \/ mem' = c /\ phase' = "idle" /\ stack' = stack
  BY DEF OpenFile, IncInv, StackKnown, GraphKnown, Unchanged
<1>2. f \in Files /\ cmd.defs \subseteq Definitions
  <2>1. cmd.files \in Seq(Files) /\ cmd.files # <<>> /\ cmd.defs \subseteq Definitions
    BY <1>1 DEF WorkKnown
  <2> QED BY <2>1, HeadTailProperties
<1> HIDE DEF f
<1>3. Extends(mem, c) /\ c.nodes = mem.nodes /\ GraphKnown(c) /\ c \in Caches
  BY <1>1, <1>2, ProbeExtends, ProbeKnown DEF Extends, GraphKnown
<1>4. Extends(c, Insert(c, cmd.defs)) /\ Insert(c, cmd.defs).nodes = c.nodes
  <2> HIDE DEF c
  <2> QED BY <1>2, <1>3, InsertExtends, InsertKnown
<1> HIDE DEF c
<1>5. Extends(mem, mem') /\ mem'.nodes = mem.nodes
  BY <1>1, <1>3, <1>4, ExtendsTrans
<1>6. StackKnown'
  <2>1. CASE phase' = "idle" /\ stack' = <<>>
    BY <2>1 DEF StackKnown
  <2>2. CASE phase' = "search" /\ stack' = <<t>>
    <3>1. [how |-> "resolved", of |-> f] \in Items
      BY <1>2, ItemKinds DEF Hows, Ways
    <3>2. t \in Frames
      BY <3>1 DEF Frames
    <3>3. /\ <<t>> \in Seq(Frames) /\ <<t>> # <<>> /\ DOMAIN <<t>> = {1} /\ <<t>>[1] = t /\ Len(<<t>>) = 1
      BY <3>2
    <3>4. t.node = 0 /\ t.todo = <<[how |-> "resolved", of |-> f]>>
      OBVIOUS
    <3> HIDE DEF t
    <3> QED BY <1>2, <2>2, <3>3, <3>4 DEF StackKnown
  <2> QED BY <1>1, <2>1, <2>2
<1> QED BY <1>1, <1>5, <1>6, BetweenSearches

\* The search of a file ends: what its node reaches is closed.
LEMMA CollectStep ==
    ASSUME WorkKnown, IncInv, Collect
    PROVE  IncInv' /\ mem' = mem
<1>1. /\ phase = "search" /\ Top.todo = <<>> /\ Top.node = 0
      /\ closure' = closure \cup Collected /\ stack' = <<>> /\ phase' # "search"
      /\ prog' = prog /\ mem' = mem /\ damaged' = damaged
      /\ GraphKnown(mem) /\ StackKnown /\ stack # <<>>
  BY DEF Collect, Unchanged, IncInv, StackKnown
<1>2. stack[1].node = 0 /\ DOMAIN stack = {1} /\ root \in DOMAIN mem.nodes
  <2>1. Len(stack) = 1 /\ DOMAIN stack = 1..1
    BY <1>1, FrameFields
  <2>2. stack[1].todo = <<>>
    BY <1>1, <2>1 DEF Top
  <2> QED BY <1>1, <2>1, <2>2 DEF StackKnown
<1>3. 0 \notin DOMAIN mem.nodes
  BY <1>1, CacheFields DEF GraphKnown
<1>4. ASSUME NEW n \in DOMAIN mem.nodes, NEW x \in Owed(n)
      PROVE  Moot(x) \/ \E k \in mem.nodes[n].kids : Meets(k, x)
  <2>1. Covered(n, x)
    BY DEF IncInv, GraphComplete
  <2> QED BY <1>2, <1>3, <2>1 DEF Covered
<1>5. ASSUME NEW n \in DOMAIN mem.nodes, NEW x \in Owed(n)' PROVE Covered(n, x)'
  <2>1. x \in Owed(n)
    BY <1>1 DEF Owed, Todo
  <2>2. Moot(x) \/ \E k \in mem.nodes[n].kids : Meets(k, x)
    BY <1>4, <2>1
  <2> QED BY <1>1, <2>2 DEF Covered, Moot, Meets
<1>6. GraphComplete'
  BY <1>1, <1>5 DEF GraphComplete
<1>7. StackKnown'
  BY <1>1 DEF StackKnown
<1>8. NodesParsed'
  BY <1>1 DEF NodesParsed, IncInv
<1> DEFINE R == ReachedFrom(root)
<1>9. root \in R /\ R \subseteq DOMAIN mem.nodes /\ \A k \in R : mem.nodes[k].kids \subseteq R
  BY <1>1, <1>2, ReachedClosed
<1> HIDE DEF R
<1>10. /\ Collected \subseteq Files
       /\ \A f \in Collected : f \notin System /\ \E n \in R : mem.nodes[n].file = f
       /\ \A n \in R : mem.nodes[n].file \in Collected \cup System \cup {NoFile}
  <2>1. \A n \in DOMAIN mem.nodes : mem.nodes[n].file \in Files \cup {NoFile}
    BY <1>1, CacheFields DEF GraphKnown, Nodes
  <2> QED BY <1>9, <2>1 DEF Collected, R
<1>11. ASSUME NEW f \in Collected \ damaged
       PROVE  /\ mem.parsed[f] > 0
              /\ \A g \in Includes(f) : g \in Collected \cup System \/ mem.known[g] = "no"
  <2>1. f \in Files /\ f \in Files \ (System \cup damaged) /\ f # NoFile
    BY <1>10, FilesAssumption
  <2>2. PICK n \in R : mem.nodes[n].file = f
    BY <1>10
  <2>3. n \in DOMAIN mem.nodes
    BY <1>9
  <2>4. mem.parsed[f] > 0
    BY <2>1, <2>2, <2>3 DEF IncInv, NodesParsed
  <2>5. ASSUME NEW m \in R, NEW x \in Owed(m), x.of \in Files, x.how # "next"
        PROVE  x.of \in Collected \cup System \/ mem.known[x.of] = "no"
    <3>1. CASE Moot(x)
      BY <3>1 DEF Moot
    <3>2. CASE \E k \in mem.nodes[m].kids : Meets(k, x)
      <4>1. PICK k \in mem.nodes[m].kids : Meets(k, x)
        BY <3>2
      <4>2. k \in R /\ mem.nodes[k].file = x.of
        BY <1>9, <2>5, <4>1 DEF Meets
      <4>3. x.of # NoFile
        BY <2>5, FilesAssumption
      <4> QED BY <1>10, <4>2, <4>3
    <3>3. m \in DOMAIN mem.nodes
      BY <1>9
    <3> QED BY <1>4, <3>1, <3>2, <3>3
  <2>6. ASSUME NEW x, x \in [how : {"quote", "angle", "next", "dir"}, of : Files], x \in ToSet(Todo(f))
        PROVE  x \in Owed(n)
    BY <2>1, <2>2, <2>6 DEF Owed
  <2>7. prog \in Program
    BY DEF WorkKnown
  <2>8. ASSUME NEW g \in ToSet(prog.quote[f]) PROVE g \in Collected \cup System \/ mem.known[g] = "no"
    <3>1. PICK x : x = [how |-> "quote", of |-> g]
      OBVIOUS
    <3>2. g \in Files /\ x \in ToSet(Todo(f))
      BY <2>1, <2>7, <3>1, TodoFields, IncludesAreFiles
    <3>3. x \in [how : {"quote", "angle", "next", "dir"}, of : Files] /\ x.of = g /\ x.how = "quote"
      BY <3>1, <3>2
    <3> QED BY <2>5, <2>6, <3>2, <3>3
  <2>9. ASSUME NEW g \in ToSet(prog.angle[f]) PROVE g \in Collected \cup System \/ mem.known[g] = "no"
    <3>1. PICK x : x = [how |-> "angle", of |-> g]
      OBVIOUS
    <3>2. g \in Files /\ x \in ToSet(Todo(f))
      BY <2>1, <2>7, <3>1, TodoFields, IncludesAreFiles
    <3>3. x \in [how : {"quote", "angle", "next", "dir"}, of : Files] /\ x.of = g /\ x.how = "angle"
      BY <3>1, <3>2
    <3> QED BY <2>5, <2>6, <3>2, <3>3
  <2>10. ASSUME NEW h \in ToSet(prog.next[f]), NEW g \in Named[h]
         PROVE  g \in Collected \cup System \/ mem.known[g] = "no"
    <3>1. PICK x : x = [how |-> "next", of |-> h]
      OBVIOUS
    <3>2. h \in Files /\ g \in Files /\ x \in ToSet(Todo(f))
      BY <2>1, <2>7, <3>1, TodoFields, IncludesAreFiles
    <3>3. x \in [how : {"quote", "angle", "next", "dir"}, of : Files] /\ x.of = h /\ x.how = "next"
      BY <3>1, <3>2
    <3>4. x \in Owed(n)
      BY <2>6, <3>2, <3>3
    <3>5. PICK k \in mem.nodes[n].kids : <<h, "next">> \in DOMAIN mem.cache /\ mem.cache[<<h, "next">>] = k
      BY <1>4, <2>3, <3>3, <3>4 DEF Moot, Meets
    <3>6. PICK y : y = [how |-> "dir", of |-> g]
      OBVIOUS
    <3>7. y \in Owed(k) /\ k \in R
      BY <1>9, <2>1, <3>2, <3>5, <3>6 DEF Owed
    <3> QED BY <2>5, <3>2, <3>6, <3>7
  <2>11. \A g \in Includes(f) : g \in Collected \cup System \/ mem.known[g] = "no"
    BY <2>8, <2>9, <2>10 DEF Includes
  <2> QED BY <2>4, <2>11
<1>12. ClosureKnown'
  <2>1. closure' \subseteq Files
    BY <1>1, <1>10 DEF IncInv, ClosureKnown
  <2>2. ASSUME NEW f \in closure' \ damaged'
        PROVE  /\ mem'.parsed[f] > 0
               /\ \A g \in Includes(f)' : g \in closure' \cup System \/ mem'.known[g] = "no"
    <3>0. Includes(f)' = Includes(f)
      BY <1>1 DEF Includes
    <3>1. CASE f \in Collected
      BY <1>1, <1>11, <3>0, <3>1
    <3>2. CASE f \notin Collected
      <4>1. f \in closure \ damaged
        BY <1>1, <3>2
      <4>2. mem.parsed[f] > 0 /\ \A g \in Includes(f) : g \in closure \cup System \/ mem.known[g] = "no"
        BY <4>1 DEF IncInv, ClosureKnown
      <4> QED BY <1>1, <3>0, <4>2
    <3> QED BY <3>1, <3>2
  <2> QED BY <2>1, <2>2 DEF ClosureKnown
<1> QED BY <1>1, <1>6, <1>7, <1>8, <1>12 DEF IncInv

\* A search is broken off: what the files on the stack owe is forgiven, and what
\* the dummies on it owe, with the files that share them.
LEMMA BrokenOff ==
    ASSUME WorkKnown, IncInv, GraphKnown(mem), Extends(mem, mem'),
           prog' = prog, stack' = <<>>, phase' = "idle", closure' = {},
           damaged \subseteq damaged',
           (damaged \cup OnStack \cup Sharing) \ {NoFile} \subseteq damaged',
           \A n \in DOMAIN mem'.nodes \ DOMAIN mem.nodes :
              mem'.nodes[n].file \in damaged' /\ mem'.nodes[n].file # NoFile
    PROVE  IncInv'
<1>1. NoFile \notin Files
  BY FilesAssumption
<1>2. OwedTrue'
  <2>1. GraphKnown(mem)'
    BY DEF Extends
  <2> QED BY <2>1, WhatIsOwed, PTL
<1>3. StackKnown'
  BY DEF StackKnown
<1>4. ASSUME NEW n \in DOMAIN mem.nodes, NEW x \in Owed(n)' PROVE Covered(n, x)'
  <2>1. x \in Owed(n) /\ x.of \in Files
    BY <1>1, OwesLess
  <2>2. Covered(n, x)
    BY <2>1 DEF IncInv, GraphComplete
  <2>3. CASE Moot(x)
    BY <2>1, <2>3, StillMoot DEF Covered
  <2>4. CASE \E k \in mem.nodes[n].kids : Meets(k, x)
    <3>1. PICK k \in mem.nodes[n].kids : Meets(k, x)
      BY <2>4
    <3>2. k \in DOMAIN mem.nodes
      BY DEF GraphKnown, KidsThere
    <3>3. Meets(k, x)'
      BY <2>1, <3>1, <3>2, StillMeets
    <3>4. k \in mem'.nodes[n].kids
      BY <3>1 DEF Extends
    <3> QED BY <3>3, <3>4 DEF Covered
  <2>5. ASSUME NEW i \in DOMAIN stack, stack[i].node = n PROVE FALSE
    <3>1. n \in DOMAIN mem'.nodes /\ mem'.nodes[n].file = mem.nodes[n].file
      BY DEF Extends
    <3>2. n # 0
      BY CacheFields DEF GraphKnown
    <3>3. CASE mem.nodes[n].file # NoFile
      <4>1. mem.nodes[n].file \in OnStack
        BY <2>5, <3>2 DEF OnStack
      <4>2. mem.nodes[n].file \in damaged'
        BY <3>3, <4>1
      <4> QED BY <1>2, <3>1, <3>3, <4>2 DEF OwedTrue
    <3>4. CASE mem.nodes[n].file = NoFile
      <4>1. PICK h \in Files : /\ <<h, "next">> \in DOMAIN mem'.cache /\ mem'.cache[<<h, "next">>] = n
                               /\ \E f \in Files \ damaged' : h \in ToSet(prog'.next[f])
        BY <1>2, <3>1, <3>4 DEF OwedTrue
      <4>2. <<h, "next">> \in DOMAIN mem.cache /\ mem.cache[<<h, "next">>] = n
        BY <4>1 DEF Extends
      <4>3. h \in NextOnStack
        BY <2>5, <4>2 DEF NextOnStack
      <4>4. PICK f \in Files \ damaged' : h \in ToSet(prog.next[f])
        BY <4>1
      <4>5. f \in Sharing
        BY <4>3, <4>4 DEF Sharing
      <4> QED BY <1>1, <4>4, <4>5
    <3> QED BY <3>3, <3>4
  <2> QED BY <2>2, <2>3, <2>4, <2>5 DEF Covered
<1>5. ASSUME NEW n \in DOMAIN mem'.nodes \ DOMAIN mem.nodes
      PROVE  /\ mem'.nodes[n].file \in damaged' \cup {NoFile} \/ mem'.parsed[mem'.nodes[n].file] > 0
             /\ \A x \in Owed(n)' : Covered(n, x)'
  <2>1. n \in DOMAIN mem'.nodes /\ mem'.nodes[n].file \in damaged' /\ mem'.nodes[n].file # NoFile
    OBVIOUS
  <2>2. Owed(n)' = {}
    BY <1>2, <2>1 DEF OwedTrue
  <2> QED BY <2>1, <2>2
<1> QED BY <1>1, <1>3, <1>4, <1>5, StepKeeps

\* The parser gives up.
LEMMA ParseFailsStep ==
    ASSUME WorkKnown, IncInv, ParseFails
    PROVE  IncInv' /\ Extends(mem, mem')
<1>1. /\ GraphKnown(mem) /\ Extends(mem, Remembered) /\ GraphKnown(Remembered) /\ Item.of \in Files
      /\ Node \in DOMAIN Remembered.nodes /\ Node \notin DOMAIN mem.nodes
      /\ DOMAIN Remembered.nodes = DOMAIN mem.nodes \cup {Node}
      /\ Remembered.nodes[Node].file = Item.of
  BY RememberedFields DEF ParseFails
<1>2. /\ prog' = prog /\ stack' = <<>> /\ phase' = "idle" /\ closure' = {}
      /\ damaged' = (damaged \cup OnStack \cup Sharing \cup {Item.of}) \ {NoFile}
      /\ mem' = Remembered \/ \E defs \in SUBSET prog.defs[Item.of] : mem' = Insert(Remembered, defs)
  BY DEF ParseFails, GiveUp, Unchanged
<1>3. prog.defs[Item.of] \subseteq Definitions
  BY <1>1 DEF WorkKnown, Program
<1>4. Extends(Remembered, mem') /\ mem'.nodes = Remembered.nodes
  <2>1. CASE mem' = Remembered
    BY <1>1, <2>1, ExtendsSelf
  <2>2. CASE \E defs \in SUBSET prog.defs[Item.of] : mem' = Insert(Remembered, defs)
    <3>1. PICK defs \in SUBSET Definitions : mem' = Insert(Remembered, defs)
      BY <1>3, <2>2
    <3> QED BY <1>1, <3>1, InsertExtends, InsertKnown DEF GraphKnown
  <2> QED BY <1>2, <2>1, <2>2
<1>5. /\ Extends(mem, mem') /\ DOMAIN mem'.nodes = DOMAIN mem.nodes \cup {Node}
      /\ mem'.nodes[Node].file = Item.of
  BY <1>1, <1>4, ExtendsTrans
<1>6. NoFile \notin Files /\ damaged \subseteq damaged' /\ Item.of \in damaged'
  BY <1>1, <1>2, FilesAssumption DEF WorkKnown
<1>7. \A n \in DOMAIN mem'.nodes \ DOMAIN mem.nodes :
         mem'.nodes[n].file \in damaged' /\ mem'.nodes[n].file # NoFile
  BY <1>1, <1>5, <1>6
<1>8. (damaged \cup OnStack \cup Sharing) \ {NoFile} \subseteq damaged'
  BY <1>2
<1>9. IncInv'
  BY <1>1, <1>2, <1>5, <1>6, <1>7, <1>8, BrokenOff
<1> QED BY <1>5, <1>9

\* So does the resolution of a computed include.
LEMMA EvaluateFailsStep ==
    ASSUME WorkKnown, IncInv, EvaluateFails
    PROVE  IncInv' /\ Extends(mem, mem')
<1>1. GraphKnown(mem) /\ mem \in Caches
  BY SearchingFields DEF EvaluateFails
<1>2. /\ prog' = prog /\ stack' = <<>> /\ phase' = "idle" /\ closure' = {}
      /\ damaged' = (damaged \cup OnStack \cup Sharing) \ {NoFile}
  BY DEF EvaluateFails, GiveUp, Unchanged
<1>3. PICK before \in SUBSET Files : mem' = Probe(mem, before)
  <2>1. PICK before \in SUBSET (Values \cap Files) : mem' = Probe(mem, before)
    BY DEF EvaluateFails
  <2> QED BY <2>1
<1>4. Extends(mem, mem') /\ mem'.nodes = mem.nodes
  BY <1>1, <1>3, ProbeExtends, ProbeKnown
<1>5. damaged \subseteq damaged'
  BY <1>2, FilesAssumption DEF WorkKnown
<1>6. IncInv'
  BY <1>1, <1>2, <1>4, <1>5, BrokenOff
<1> QED BY <1>4, <1>6

\* The caches that know nothing.
LEMMA EmptyKnown ==
    /\ GraphKnown(EmptyCaches) /\ DOMAIN EmptyCaches.nodes = {}
    /\ EmptyCaches.known = [f \in Files |-> "unknown"]
    /\ EmptyCaches.parsed = [f \in Files |-> 0] /\ EmptyCaches.copied = [f \in Files |-> 0]
<1>1. /\ EmptyCaches.known = [f \in Files |-> "unknown"]
      /\ EmptyCaches.parsed = [f \in Files |-> 0] /\ EmptyCaches.copied = [f \in Files |-> 0]
      /\ EmptyCaches.cache = <<>> /\ EmptyCaches.nodes = <<>> /\ EmptyCaches.recs = <<>>
  BY DEF EmptyCaches
<1>2. EmptyCaches \in Caches
  <2>1. <<>> \in UNION {[D -> Nat] : D \in SUBSET Keys}
    <3>1. <<>> \in [{} -> Nat]
      OBVIOUS
    <3>2. {} \in SUBSET Keys
      OBVIOUS
    <3> QED BY <3>1, <3>2
  <2>2. <<>> \in Seq(Nodes) /\ <<>> \in Seq(Records)
    OBVIOUS
  <2>3. [m \in Macros |-> {}] \in [Macros -> SUBSET (Macros \cup Files \cup Absolute)]
    OBVIOUS
  <2> QED BY <2>1, <2>2, <2>3 DEF EmptyCaches, Caches
<1>3. DOMAIN EmptyCaches.nodes = {} /\ DOMAIN EmptyCaches.cache = {}
  BY <1>1
<1>4. CacheThere(EmptyCaches) /\ KeysKnown(EmptyCaches)
  BY <1>3 DEF CacheThere, KeysKnown
<1>5. KidsThere(EmptyCaches) /\ OneFile(EmptyCaches) /\ NoneValid(EmptyCaches)
  BY <1>3 DEF KidsThere, OneFile, NoneValid
<1> QED BY <1>1, <1>2, <1>3, <1>4, <1>5 DEF GraphKnown

LEMMA ClearedStep ==
    ASSUME mem' = EmptyCaches, stack' = <<>>, phase' # "search", closure' = {}
    PROVE  IncInv'
<1>1. GraphKnown(mem') /\ DOMAIN mem'.nodes = {}
  BY EmptyKnown
<1>2. NodesParsed' /\ GraphComplete'
  BY <1>1 DEF NodesParsed, GraphComplete
<1>3. StackKnown' /\ ClosureKnown'
  BY DEF StackKnown, ClosureKnown
<1> QED BY <1>1, <1>2, <1>3 DEF IncInv

LEMMA SameStep ==
    ASSUME IncInv, UNCHANGED <<prog, mem, stack, root, damaged>>, closure' \in {closure, {}},
           phase' = phase \/ (stack = <<>> /\ phase' # "search")
    PROVE  IncInv'
<1>1. GraphKnown(mem') /\ NodesParsed'
  BY DEF IncInv, NodesParsed
<1>2. StackKnown'
  BY DEF IncInv, StackKnown
<1>3. ASSUME NEW n, NEW x PROVE (x \in Owed(n)' <=> x \in Owed(n)) /\ (Covered(n, x)' <=> Covered(n, x))
  BY DEF Owed, Todo, Covered, Moot, Meets, Waits, Same
<1>4. GraphComplete'
  BY <1>3 DEF IncInv, GraphComplete
<1>5. ClosureKnown'
  <2>1. \A f \in Files : Includes(f)' = Includes(f)
    BY DEF Includes
  <2> QED BY <2>1 DEF IncInv, ClosureKnown
<1> QED BY <1>1, <1>2, <1>4, <1>5 DEF IncInv

\* The copies are no part of the graph.
LEMMA CopyStep ==
    ASSUME WorkKnown, IncInv, Copy
    PROVE  IncInv'
<1> DEFINE copied == [f \in Files |-> IF f \in closure /\ mem.copied[f] = 0 THEN disk[f] ELSE mem.copied[f]]
<1>1. /\ GraphKnown(mem) /\ mem \in Caches /\ StackKnown /\ stack = <<>>
      /\ prog' = prog /\ stack' = stack /\ root' = root /\ closure' = closure /\ damaged' = damaged
      /\ phase' = "idle" /\ mem' = [mem EXCEPT !.copied = copied]
  BY DEF Copy, Unchanged, IncInv, GraphKnown, StackKnown
<1>2. copied \in [Files -> Nat]
  BY <1>1, CacheFields DEF WorkKnown
<1> HIDE DEF copied
<1>3. /\ mem' \in Caches /\ mem'.known = mem.known /\ mem'.parsed = mem.parsed
      /\ mem'.cache = mem.cache /\ mem'.nodes = mem.nodes /\ mem'.recs = mem.recs
  BY <1>1, <1>2 DEF Caches
<1>4. GraphKnown(mem')
  BY <1>1, <1>3 DEF GraphKnown, CacheThere, KidsThere, KeysKnown, KeyKnown, OneFile, NoneValid
<1>5. StackKnown' /\ NodesParsed'
  BY <1>1, <1>3 DEF IncInv, StackKnown, NodesParsed
<1>6. ASSUME NEW n, NEW x PROVE (x \in Owed(n)' <=> x \in Owed(n)) /\ (Covered(n, x)' <=> Covered(n, x))
  BY <1>1, <1>3 DEF Owed, Todo, Covered, Moot, Meets, Waits, Same
<1>7. GraphComplete'
  BY <1>3, <1>6 DEF IncInv, GraphComplete
<1>8. ClosureKnown'
  <2>1. \A f \in Files : Includes(f)' = Includes(f)
    BY <1>1 DEF Includes
  <2> QED BY <1>1, <1>3, <2>1 DEF IncInv, ClosureKnown
<1> QED BY <1>4, <1>5, <1>7, <1>8 DEF IncInv

----------------------------------------------------------------------------
(* Every step of the include server.                                       *)

LEMMA AnyStep ==
    ASSUME WorkKnown, IncInv, AnalyzerNext
    PROVE  IncInv'
<1>1. CASE Receive
  <2>1. /\ phase = "idle" /\ stack = <<>> /\ closure' = {} /\ phase' = "file"
        /\ prog' = prog /\ stack' = stack /\ root' = root
        /\ (mem' = EmptyCaches \/ (mem' = mem /\ damaged' = damaged))
    BY <1>1 DEF Receive, IncInv, StackKnown
  <2> QED BY <2>1, ClearedStep, SameStep
<1>2. CASE OpenFile
  BY <1>2, OpenFileStep
<1>3. CASE Search
  BY <1>3, FindCachedStep, FindNothingStep, FindNextStep, FindRealStep, VisitStep, FinishStep,
     TryDirectoryStep, EvaluateStep, AddSupportStep DEF Search
<1>4. CASE Collect
  BY <1>4, CollectStep
<1>5. CASE ParseFails
  BY <1>5, ParseFailsStep
<1>6. CASE Copy
  BY <1>6, CopyStep
<1>7. CASE CopyFails
  <2>1. /\ phase = "copy" /\ stack = <<>> /\ phase' = "dead" /\ closure' = closure
        /\ UNCHANGED <<prog, mem, stack, root, damaged>>
    BY <1>7 DEF CopyFails, Unchanged, IncInv, StackKnown
  <2> QED BY <2>1, SameStep
<1>8. CASE Timeout
  BY <1>8, ClearedStep DEF Timeout, GiveUp
<1>9. CASE Edit
  BY <1>9, SameStep DEF Edit, work
<1>10. CASE EvaluateFails
  BY <1>10, EvaluateFailsStep
<1> QED BY <1>1, <1>2, <1>3, <1>4, <1>5, <1>6, <1>7, <1>8, <1>9, <1>10 DEF AnalyzerNext, Serve

LEMMA WorkStep ==
    ASSUME WorkKnown, IncInv, AnalyzerNext
    PROVE  WorkKnown'
<1>1. CASE Receive
  <2>1. /\ prog' = prog /\ clock' = clock /\ disk' = disk /\ damaged' \in {{}, damaged} /\ cmd' \in Commands
    BY <1>1 DEF Receive
  <2>2. cmd' \in [files : Seq(Files), defs : SUBSET Definitions] /\ cmd'.files # <<>>
    BY <2>1, ProgramsAssumption
  <2> QED BY <2>1, <2>2 DEF WorkKnown
<1>2. CASE OpenFile
  <2>1. /\ prog' = prog /\ clock' = clock /\ disk' = disk /\ damaged' = damaged
        /\ phase' # "file" /\ (cmd' = cmd \/ cmd' = [cmd EXCEPT !.files = Tail(@)])
        /\ cmd.files \in Seq(Files) /\ cmd.files # <<>>
    BY <1>2 DEF OpenFile, Unchanged, WorkKnown
  <2>2. Tail(cmd.files) \in Seq(Files)
    BY <2>1, HeadTailProperties
  <2> QED BY <2>1, <2>2 DEF WorkKnown
<1>3. CASE Search
  <2>1. UNCHANGED <<prog, clock, disk, damaged, cmd, phase>>
    BY <1>3 DEF Search, FindCached, FindNothing, FindNext, FindReal, Visit, Finish, TryDirectory, Evaluate,
                AddSupport, SearchOn, Unchanged
  <2> QED BY <2>1 DEF WorkKnown
<1>4. CASE Collect \/ Copy \/ CopyFails
  <2>1. UNCHANGED <<prog, clock, disk, damaged, cmd>> /\ (phase' = "file" => cmd.files # <<>>)
    BY <1>4 DEF Collect, Copy, CopyFails, Unchanged
  <2> QED BY <2>1 DEF WorkKnown
<1>5. CASE ParseFails \/ EvaluateFails
  <2>1. /\ UNCHANGED <<prog, clock, disk, cmd>> /\ phase' = "idle"
        /\ \/ ParseFails /\ damaged' = (damaged \cup OnStack \cup Sharing \cup {Item.of}) \ {NoFile}
           \/ damaged' = (damaged \cup OnStack \cup Sharing) \ {NoFile}
    BY <1>5 DEF ParseFails, EvaluateFails, GiveUp, Unchanged
  <2>2. ParseFails => Item.of \in Files
    BY RememberedFields DEF ParseFails
  <2>3. OnStack \subseteq Files \cup {NoFile}
    <3>1. ASSUME NEW i \in DOMAIN stack, stack[i].node # 0
          PROVE  mem.nodes[stack[i].node].file \in Files \cup {NoFile}
      <4>1. stack # <<>> /\ GraphKnown(mem) /\ StackKnown
        BY <3>1 DEF IncInv
      <4>2. stack[i].node \in DOMAIN mem.nodes
        BY <3>1, <4>1, FrameFields
      <4> QED BY <4>1, <4>2, CacheFields DEF GraphKnown, Nodes
    <3> QED BY <3>1 DEF OnStack
  <2>4. damaged' \subseteq Files
    BY <2>1, <2>2, <2>3 DEF Sharing, WorkKnown
  <2> QED BY <2>1, <2>4 DEF WorkKnown
<1>6. CASE Timeout
  <2>1. UNCHANGED <<prog, clock, disk, cmd>> /\ phase' = "idle" /\ damaged' = {}
    BY <1>6 DEF Timeout, GiveUp, Unchanged
  <2> QED BY <2>1 DEF WorkKnown
<1>7. CASE Edit
  <2>1. /\ UNCHANGED <<prog, damaged, cmd, phase>> /\ clock' = clock + 1
        /\ \E f \in Edited, v \in {0, clock + 1} : disk' = [disk EXCEPT ![f] = v]
    BY <1>7 DEF Edit, work
  <2>2. disk' \in [Files -> Nat] /\ clock' \in Nat
    <3>1. PICK f \in Edited, v \in {0, clock + 1} : disk' = [disk EXCEPT ![f] = v]
      BY <2>1
    <3>2. disk \in [Files -> Nat] /\ v \in Nat /\ clock + 1 \in Nat
      BY DEF WorkKnown
    <3> QED BY <2>1, <3>1, <3>2
  <2> QED BY <2>1, <2>2 DEF WorkKnown
<1> QED BY <1>1, <1>2, <1>3, <1>4, <1>5, <1>6, <1>7 DEF AnalyzerNext, Serve

LEMMA AnalyzerInvariant == AnalyzerSpec => [](WorkKnown /\ IncInv)
<1>1. AnalyzerInit => WorkKnown /\ IncInv
  <2> SUFFICES ASSUME AnalyzerInit PROVE WorkKnown /\ IncInv
    OBVIOUS
  <2>1. /\ prog \in Program /\ clock = 1 /\ disk \in [Files -> {0, 1}] /\ mem = EmptyCaches /\ phase = "idle"
        /\ cmd = [files |-> <<>>, defs |-> {}] /\ stack = <<>> /\ closure = {} /\ damaged = {}
    BY ProgramsAssumption DEF AnalyzerInit
  <2>2. <<>> \in Seq(Files)
    OBVIOUS
  <2>3. WorkKnown
    BY <2>1, <2>2 DEF WorkKnown
  <2>4. GraphKnown(mem) /\ DOMAIN mem.nodes = {}
    BY <2>1, EmptyKnown
  <2>5. NodesParsed /\ GraphComplete
    BY <2>4 DEF NodesParsed, GraphComplete
  <2>6. StackKnown /\ ClosureKnown
    BY <2>1 DEF StackKnown, ClosureKnown
  <2> QED BY <2>3, <2>4, <2>5, <2>6 DEF IncInv
<1>2. WorkKnown /\ IncInv /\ [AnalyzerNext]_analyzerVars => (WorkKnown /\ IncInv)'
  <2> SUFFICES ASSUME WorkKnown, IncInv, [AnalyzerNext]_analyzerVars PROVE (WorkKnown /\ IncInv)'
    OBVIOUS
  <2>1. CASE AnalyzerNext
    BY <2>1, AnyStep, WorkStep
  <2>2. CASE UNCHANGED analyzerVars
    <3>1. UNCHANGED <<prog, clock, disk, mem, phase, cmd, stack, root, closure, damaged>>
      BY <2>2 DEF analyzerVars, work
    <3> QED BY <3>1, SameStep DEF WorkKnown
  <2> QED BY <2>1, <2>2
<1> QED BY <1>1, <1>2, PTL DEF AnalyzerSpec

\* However the caches were filled, an answer has the files that the unconditional
\* includes of its files name: what a node owes is a child of it, is known to be
\* missing, or is still to be done by a call on the stack; when a search has
\* returned there is no such call, and what its root reaches is closed.
THEOREM StaticClosedAlways == AnalyzerSpec => []StaticClosed
<1>1. IncInv => StaticClosed
  <2> SUFFICES ASSUME IncInv, NEW f \in closure \ damaged, NEW g \in StaticIncludes(f), g \notin System
               PROVE  g \in closure
    BY DEF StaticClosed, Closed
  <2>1. There(g) /\ g \in Includes(f)
    BY DEF StaticIncludes, Includes
  <2>2. mem.known[g] # "no"
    BY <2>1 DEF There, Exists
  <2> QED BY <2>1, <2>2 DEF IncInv, ClosureKnown
<1> QED BY <1>1, AnalyzerInvariant, PTL

----------------------------------------------------------------------------
(* The versions that were parsed and copied.                               *)

\* A step of a command on its caches: what it reads is what is on the disk.
ReadsDisk ==
    \A f \in Files :
       /\ mem'.parsed[f] \in {0, mem.parsed[f], disk[f]}
       /\ mem'.copied[f] \in {0, mem.copied[f], disk[f]}
       /\ mem'.known[f] = "no" => mem.known[f] = "no" \/ disk[f] = 0

LEMMA DiskRead ==
    ASSUME WorkKnown, IncInv, TrigInv, ReadsDisk, UNCHANGED <<disk, clock, stamps, seen>>,
           phase' # "idle" \/ answer' = "files" => phase # "idle" \/ answer = "files"
    PROVE  VersionsKnown' /\ CommandCurrent'
<1>1. /\ clock \in Nat \ {0} /\ disk \in [Files -> Nat] /\ stamps \in [Triggers -> Nat]
      /\ seen \in [disk : [Files -> Nat], clock : Nat] /\ Triggers \subseteq Files
      /\ seen.clock <= clock
  BY FilesAssumption DEF TrigInv, VersionsKnown
<1>2. \A f \in Files :
         /\ mem.parsed[f] \in Nat /\ mem.copied[f] \in Nat
         /\ disk[f] \in Nat /\ disk[f] <= clock /\ mem.parsed[f] <= clock /\ mem.copied[f] <= clock
         /\ seen.disk[f] \in Nat /\ seen.disk[f] <= seen.clock /\ (disk[f] \in {0, seen.disk[f]} \/ disk[f] > seen.clock)
  BY <1>1, CacheFields DEF TrigInv, VersionsKnown, IncInv, GraphKnown
<1>3. VersionsKnown'
  <2>1. ASSUME NEW f \in Files
        PROVE  mem'.parsed[f] <= clock /\ mem'.copied[f] <= clock
    BY <1>1, <1>2 DEF ReadsDisk
  <2>2. ASSUME NEW f \in Triggers
        PROVE  /\ stamps[f] <= clock
               /\ stamps[f] > 0 /\ disk[f] = stamps[f] =>
                     /\ mem'.parsed[f] \in {0, disk[f]} /\ mem'.copied[f] \in {0, disk[f]}
                     /\ mem'.known[f] # "no"
    <3>1. /\ stamps[f] <= clock
          /\ stamps[f] > 0 /\ disk[f] = stamps[f] =>
                /\ mem.parsed[f] \in {0, disk[f]} /\ mem.copied[f] \in {0, disk[f]}
                /\ mem.known[f] # "no"
      BY DEF TrigInv, VersionsKnown
    <3>2. /\ mem'.parsed[f] \in {0, mem.parsed[f], disk[f]} /\ mem'.copied[f] \in {0, mem.copied[f], disk[f]}
          /\ mem'.known[f] = "no" => mem.known[f] = "no" \/ disk[f] = 0
      BY <1>1 DEF ReadsDisk
    <3> QED BY <1>1, <3>1, <3>2
  <2> QED BY <1>1, <1>2, <2>1, <2>2 DEF VersionsKnown
<1>4. CommandCurrent'
  <2> SUFFICES ASSUME phase' # "idle" \/ answer' = "files", NEW f \in Triggers, seen.disk[f] > 0
               PROVE  /\ mem'.parsed[f] \in {0, seen.disk[f]} \/ mem'.parsed[f] > seen.clock
                      /\ mem'.copied[f] \in {0, seen.disk[f]} \/ mem'.copied[f] > seen.clock
                      /\ mem'.known[f] = "no" => disk[f] # seen.disk[f]
    BY DEF CommandCurrent
  <2>1. /\ mem.parsed[f] \in {0, seen.disk[f]} \/ mem.parsed[f] > seen.clock
        /\ mem.copied[f] \in {0, seen.disk[f]} \/ mem.copied[f] > seen.clock
        /\ mem.known[f] = "no" => disk[f] # seen.disk[f]
    BY DEF TrigInv, CommandCurrent
  <2>2. /\ mem'.parsed[f] \in {0, mem.parsed[f], disk[f]} /\ mem'.copied[f] \in {0, mem.copied[f], disk[f]}
        /\ mem'.known[f] = "no" => mem.known[f] = "no" \/ disk[f] = 0
    BY <1>1 DEF ReadsDisk
  <2>3. disk[f] \in {0, seen.disk[f]} \/ disk[f] > seen.clock
    BY <1>1, <1>2
  <2> QED BY <1>1, <2>1, <2>2, <2>3
<1> QED BY <1>3, <1>4

\* Caches that are extended, or cleared.
LEMMA ExtendedRead == ASSUME Extends(mem, mem') PROVE ReadsDisk
BY DEF Extends, ReadsDisk

LEMMA ClearedRead == ASSUME mem' = EmptyCaches PROVE ReadsDisk
<1>1. \A f \in Files : mem'.parsed[f] = 0 /\ mem'.copied[f] = 0 /\ mem'.known[f] # "no"
  BY EmptyKnown
<1> QED BY <1>1 DEF ReadsDisk

\* A command comes: what the caches have of a trigger it finds is what is there,
\* or they are cleared.
LEMMA ReceiveRead ==
    ASSUME WorkKnown, IncInv, TrigInv, Receive
    PROVE  VersionsKnown' /\ CommandCurrent'
<1>1. /\ clock \in Nat \ {0} /\ disk \in [Files -> Nat] /\ stamps \in [Triggers -> Nat]
      /\ Triggers \subseteq Files
  BY FilesAssumption DEF TrigInv, VersionsKnown
<1>2. /\ disk' = disk /\ clock' = clock /\ seen' = [disk |-> disk, clock |-> clock]
      /\ IF Changed \cup Removed # {} THEN mem' = EmptyCaches ELSE mem' = mem
      /\ (Changed # {} /\ \E f \in Changed : stamps' = [stamps EXCEPT ![f] = disk[f]])
         \/ (Changed = {} /\ stamps' = stamps)
  BY DEF Receive
<1>3. seen'.disk = disk /\ seen'.clock = clock
  BY <1>2
<1>4. \A f \in Files : disk[f] \in Nat /\ disk[f] <= clock /\ mem.parsed[f] <= clock /\ mem.copied[f] <= clock
  BY <1>1 DEF TrigInv, VersionsKnown
<1>5. \A f \in Triggers : stamps[f] \in Nat /\ stamps[f] <= clock
  BY <1>1 DEF TrigInv, VersionsKnown
<1>6. stamps' \in [Triggers -> Nat] /\ \A f \in Triggers : stamps'[f] <= clock
  <2>1. CASE Changed # {}
    <3>1. PICK f \in Triggers : stamps' = [stamps EXCEPT ![f] = disk[f]]
      BY <1>2, <2>1 DEF Changed
    <3> QED BY <1>1, <1>4, <1>5, <3>1
  <2>2. CASE Changed = {}
    BY <1>1, <1>2, <1>5, <2>2
  <2> QED BY <2>1, <2>2
<1>7. CASE Changed \cup Removed # {}
  <2>1. mem' = EmptyCaches
    BY <1>2, <1>7
  <2>2. \A f \in Files : mem'.parsed[f] = 0 /\ mem'.copied[f] = 0 /\ mem'.known[f] # "no"
    BY <2>1, EmptyKnown
  <2>3. VersionsKnown'
    BY <1>1, <1>2, <1>3, <1>4, <1>6, <2>2 DEF VersionsKnown
  <2>4. CommandCurrent'
    BY <1>1, <2>2 DEF CommandCurrent
  <2> QED BY <2>3, <2>4
<1>8. CASE Changed \cup Removed = {}
  <2>1. mem' = mem /\ stamps' = stamps
    BY <1>2, <1>8
  <2>2. ASSUME NEW f \in Triggers, disk[f] > 0
        PROVE  /\ mem.parsed[f] \in {0, disk[f]} /\ mem.copied[f] \in {0, disk[f]}
               /\ mem.known[f] # "no"
    <3>1. f \notin Changed
      BY <1>8
    <3>2. disk[f] = stamps[f] /\ stamps[f] > 0
      BY <1>1, <2>2, <3>1 DEF Changed
    <3> QED BY <3>2 DEF TrigInv, VersionsKnown
  <2>3. VersionsKnown'
    <3>1. \A f \in Triggers : stamps[f] > 0 /\ disk[f] = stamps[f] =>
             /\ mem.parsed[f] \in {0, disk[f]} /\ mem.copied[f] \in {0, disk[f]}
             /\ mem.known[f] # "no"
      BY DEF TrigInv, VersionsKnown
    <3>2. [disk |-> disk, clock |-> clock] \in [disk : [Files -> Nat], clock : Nat]
      BY <1>1
    <3> QED BY <1>1, <1>2, <1>3, <1>4, <1>5, <2>1, <3>1, <3>2 DEF VersionsKnown
  <2>4. CommandCurrent'
    <3>1. ASSUME NEW f \in Triggers, seen'.disk[f] > 0
          PROVE  /\ mem'.parsed[f] \in {0, seen'.disk[f]} \/ mem'.parsed[f] > seen'.clock
                 /\ mem'.copied[f] \in {0, seen'.disk[f]} \/ mem'.copied[f] > seen'.clock
                 /\ mem'.known[f] = "no" => disk'[f] # seen'.disk[f]
      BY <1>3, <2>1, <2>2, <3>1
    <3> QED BY <3>1 DEF CommandCurrent
  <2> QED BY <2>3, <2>4
<1> QED BY <1>7, <1>8

\* The build edits a file: its version is a new one.
LEMMA EditRead ==
    ASSUME WorkKnown, IncInv, TrigInv, Edit
    PROVE  VersionsKnown' /\ CommandCurrent'
<1>1. /\ clock \in Nat \ {0} /\ disk \in [Files -> Nat] /\ stamps \in [Triggers -> Nat]
      /\ seen \in [disk : [Files -> Nat], clock : Nat] /\ Triggers \subseteq Files
      /\ seen.clock \in Nat /\ seen.clock <= clock
  BY FilesAssumption DEF TrigInv, VersionsKnown
<1>2. /\ clock' = clock + 1 /\ UNCHANGED <<mem, stamps, seen, phase, answer>>
      /\ \E f \in Edited, v \in {0, clock + 1} : disk' = [disk EXCEPT ![f] = v]
  BY DEF Edit, work
<1>3. PICK e \in Edited, v \in {0, clock + 1} : disk' = [disk EXCEPT ![e] = v]
  BY <1>2
<1>4. /\ disk' \in [Files -> Nat]
      /\ \A f \in Files : disk'[f] = disk[f] \/ disk'[f] = 0 \/ disk'[f] = clock + 1
  <2>1. clock + 1 \in Nat /\ v \in Nat
    BY <1>1
  <2>2. disk' \in [Files -> Nat] /\ \A f \in Files : disk'[f] = IF f = e THEN v ELSE disk[f]
    BY <1>1, <1>3, <2>1
  <2> QED BY <2>2
<1>5. \A f \in Files :
         /\ mem.parsed[f] \in Nat /\ mem.copied[f] \in Nat
         /\ disk[f] \in Nat /\ disk[f] <= clock /\ mem.parsed[f] <= clock /\ mem.copied[f] <= clock
         /\ seen.disk[f] \in Nat /\ seen.disk[f] <= seen.clock
         /\ disk[f] \in {0, seen.disk[f]} \/ disk[f] > seen.clock
  BY <1>1, CacheFields DEF TrigInv, VersionsKnown, IncInv, GraphKnown
<1>6. VersionsKnown'
  <2>1. ASSUME NEW f \in Files
        PROVE  /\ disk'[f] <= clock + 1 /\ mem.parsed[f] <= clock + 1 /\ mem.copied[f] <= clock + 1
               /\ disk'[f] \in {0, seen.disk[f]} \/ disk'[f] > seen.clock
    BY <1>1, <1>4, <1>5
  <2>2. ASSUME NEW f \in Triggers
        PROVE  /\ stamps[f] <= clock + 1
               /\ stamps[f] > 0 /\ disk'[f] = stamps[f] =>
                     /\ mem.parsed[f] \in {0, disk'[f]} /\ mem.copied[f] \in {0, disk'[f]}
                     /\ mem.known[f] # "no"
    <3>1. /\ stamps[f] \in Nat /\ stamps[f] <= clock
          /\ stamps[f] > 0 /\ disk[f] = stamps[f] =>
                /\ mem.parsed[f] \in {0, disk[f]} /\ mem.copied[f] \in {0, disk[f]}
                /\ mem.known[f] # "no"
      BY <1>1 DEF TrigInv, VersionsKnown
    <3>2. stamps[f] > 0 /\ disk'[f] = stamps[f] => disk'[f] = disk[f]
      BY <1>1, <1>4, <3>1
    <3> QED BY <1>1, <3>1, <3>2
  <2>3. clock' \in Nat \ {0} /\ seen.clock <= clock + 1
    BY <1>1, <1>2
  <2> QED BY <1>1, <1>2, <1>4, <1>5, <2>1, <2>2, <2>3 DEF VersionsKnown
<1>7. CommandCurrent'
  <2>1. ASSUME phase # "idle" \/ answer = "files", NEW f \in Triggers, seen.disk[f] > 0
        PROVE  /\ mem.parsed[f] \in {0, seen.disk[f]} \/ mem.parsed[f] > seen.clock
               /\ mem.copied[f] \in {0, seen.disk[f]} \/ mem.copied[f] > seen.clock
               /\ mem.known[f] = "no" => disk'[f] # seen.disk[f]
    <3>1. /\ mem.parsed[f] \in {0, seen.disk[f]} \/ mem.parsed[f] > seen.clock
          /\ mem.copied[f] \in {0, seen.disk[f]} \/ mem.copied[f] > seen.clock
          /\ mem.known[f] = "no" => disk[f] # seen.disk[f]
      BY <2>1 DEF TrigInv, CommandCurrent
    <3>2. disk'[f] = disk[f] \/ disk'[f] # seen.disk[f]
      <4>1. f \in Files /\ disk'[f] \in Nat
        BY <1>1, <1>4
      <4> QED BY <1>1, <1>4, <1>5, <2>1, <4>1
    <3> QED BY <3>1, <3>2
  <2> QED BY <1>2, <2>1 DEF CommandCurrent
<1> QED BY <1>6, <1>7

LEMMA TrigStep ==
    ASSUME WorkKnown, IncInv, TrigInv, AnalyzerNext
    PROVE  TrigInv'
<1>1. CASE Receive
  <2>1. VersionsKnown' /\ CommandCurrent' /\ answer' = "nothing"
    BY <1>1, ReceiveRead DEF Receive
  <2> QED BY <2>1 DEF TrigInv, CopiesKnown
<1>2. CASE OpenFile \/ Search \/ ParseFails \/ EvaluateFails
  <2>1. ReadsDisk
    <3>1. Extends(mem, mem')
      BY <1>2, OpenFileStep, FindCachedStep, FindNothingStep, FindNextStep, FindRealStep, VisitStep, FinishStep,
         TryDirectoryStep, EvaluateStep, AddSupportStep, ParseFailsStep,
         EvaluateFailsStep DEF Search
    <3> QED BY <3>1, ExtendedRead
  <2>2. UNCHANGED <<disk, clock, stamps, seen, answer>> /\ phase \in {"file", "search"}
    <3>1. CASE OpenFile
      BY <3>1 DEF OpenFile, Unchanged
    <3>2. CASE Search
      BY <3>2 DEF Search, FindCached, FindNothing, FindNext, FindReal, Visit, Finish, TryDirectory, Evaluate,
                  AddSupport, SearchOn, Unchanged, Searching, Missed, Visiting
    <3>3. CASE ParseFails \/ EvaluateFails
      BY <3>3 DEF ParseFails, EvaluateFails, GiveUp, Unchanged, Visiting, Missed, Searching
    <3> QED BY <1>2, <3>1, <3>2, <3>3
  <2>3. VersionsKnown' /\ CommandCurrent'
    BY <2>1, <2>2, DiskRead
  <2>4. answer = "nothing"
    BY <2>2 DEF TrigInv, CopiesKnown
  <2> QED BY <2>2, <2>3, <2>4 DEF TrigInv, CopiesKnown
<1>3. CASE Timeout
  <2>1. UNCHANGED <<disk, clock, stamps, seen, answer>> /\ phase \in {"file", "search"} /\ mem' = EmptyCaches
    BY <1>3 DEF Timeout, GiveUp, Unchanged
  <2>2. VersionsKnown' /\ CommandCurrent'
    BY <2>1, DiskRead, ClearedRead
  <2>3. answer = "nothing"
    BY <2>1 DEF TrigInv, CopiesKnown
  <2> QED BY <2>1, <2>2, <2>3 DEF TrigInv, CopiesKnown
<1>4. CASE Collect \/ CopyFails
  <2>1. UNCHANGED <<disk, clock, stamps, seen, answer, mem>> /\ phase \in {"search", "copy"}
    BY <1>4 DEF Collect, CopyFails, Unchanged
  <2>2. ReadsDisk
    BY <2>1 DEF ReadsDisk
  <2>3. VersionsKnown' /\ CommandCurrent'
    BY <2>1, <2>2, DiskRead
  <2>4. answer = "nothing"
    BY <2>1 DEF TrigInv, CopiesKnown
  <2> QED BY <2>1, <2>3, <2>4 DEF TrigInv, CopiesKnown
<1>5. CASE Copy
  <2>1. /\ UNCHANGED <<disk, clock, stamps, seen, closure>> /\ phase = "copy" /\ phase' = "idle"
        /\ \A f \in closure : disk[f] > 0 \/ mem.copied[f] > 0
        /\ mem' = [mem EXCEPT !.copied = [f \in Files |->
                      IF f \in closure /\ mem.copied[f] = 0 THEN disk[f] ELSE mem.copied[f]]]
    BY <1>5 DEF Copy, Unchanged
  <2>2. mem \in Caches /\ closure \subseteq Files
    BY DEF IncInv, GraphKnown, ClosureKnown
  <2>3. /\ mem'.parsed = mem.parsed /\ mem'.known = mem.known
        /\ \A f \in Files : mem'.copied[f] = IF f \in closure /\ mem.copied[f] = 0 THEN disk[f] ELSE mem.copied[f]
    BY <2>1, <2>2 DEF Caches
  <2>4. ReadsDisk
    BY <2>3 DEF ReadsDisk
  <2>5. VersionsKnown' /\ CommandCurrent'
    BY <2>1, <2>4, DiskRead
  <2>6. \A f \in closure' : mem'.copied[f] > 0
    <3>1. \A f \in Files : mem.copied[f] \in Nat
      BY <2>2, CacheFields
    <3> QED BY <2>1, <2>2, <2>3, <3>1
  <2> QED BY <2>1, <2>5, <2>6 DEF TrigInv, CopiesKnown
<1>6. CASE Edit
  <2>1. VersionsKnown' /\ CommandCurrent' /\ UNCHANGED <<mem, closure, phase, answer>>
    BY <1>6, EditRead DEF Edit, work
  <2> QED BY <2>1 DEF TrigInv, CopiesKnown
<1> QED BY <1>1, <1>2, <1>3, <1>4, <1>5, <1>6 DEF AnalyzerNext, Serve

LEMMA TriggerInvariant == AnalyzerSpec => []TrigInv
<1>1. AnalyzerInit => TrigInv
  <2> SUFFICES ASSUME AnalyzerInit PROVE TrigInv
    OBVIOUS
  <2>1. /\ clock = 1 /\ disk \in [Files -> {0, 1}] /\ mem = EmptyCaches /\ phase = "idle"
        /\ closure = {} /\ answer = "nothing" /\ stamps = [f \in Triggers |-> disk[f]]
        /\ seen = [disk |-> disk, clock |-> clock] /\ Triggers \subseteq Files
    BY FilesAssumption DEF AnalyzerInit
  <2>2. \A f \in Files : mem.parsed[f] = 0 /\ mem.copied[f] = 0 /\ mem.known[f] # "no"
    BY <2>1, EmptyKnown
  <2>3. CommandCurrent /\ CopiesKnown
    BY <2>1 DEF CommandCurrent, CopiesKnown
  <2>4. /\ stamps \in [Triggers -> Nat] /\ disk \in [Files -> Nat]
        /\ seen \in [disk : [Files -> Nat], clock : Nat] /\ seen.disk = disk /\ seen.clock = 1
        /\ \A f \in Files : disk[f] \in {0, 1}
        /\ \A f \in Triggers : stamps[f] \in {0, 1}
    BY <2>1
  <2>5. VersionsKnown
    <3>1. \A f \in Files : disk[f] <= 1 /\ mem.parsed[f] <= 1 /\ mem.copied[f] <= 1
      BY <2>2, <2>4
    <3>2. \A f \in Triggers : stamps[f] <= 1
      BY <2>4
    <3> QED BY <2>1, <2>2, <2>4, <3>1, <3>2 DEF VersionsKnown
  <2> QED BY <2>3, <2>5 DEF TrigInv
<1>2. WorkKnown /\ IncInv /\ TrigInv /\ [AnalyzerNext]_analyzerVars => TrigInv'
  <2> SUFFICES ASSUME WorkKnown, IncInv, TrigInv, [AnalyzerNext]_analyzerVars PROVE TrigInv'
    OBVIOUS
  <2>1. CASE AnalyzerNext
    BY <2>1, TrigStep
  <2>2. CASE UNCHANGED analyzerVars
    <3>1. UNCHANGED <<clock, disk, mem, phase, stamps, seen, closure, answer>>
      BY <2>2 DEF analyzerVars, work
    <3> QED BY <3>1 DEF TrigInv, VersionsKnown, CommandCurrent, CopiesKnown
  <2> QED BY <2>1, <2>2
<1> QED BY <1>1, <1>2, AnalyzerInvariant, PTL DEF AnalyzerSpec

\* No answer is older than its command for a path of --stat_reset_triggers: while
\* the stamp of a path is its version on the disk, so is what was read of it, and
\* while a command is served what is read is what it found, or newer.
THEOREM TriggersSeenAlways == AnalyzerSpec => []TriggersSeen
<1>1. WorkKnown /\ IncInv /\ TrigInv => TriggersSeen
  <2> SUFFICES ASSUME WorkKnown, IncInv, TrigInv, Answered PROVE TriggersSeen
    BY DEF TriggersSeen
  <2>1. /\ answer = "files" /\ Triggers \subseteq Files /\ mem \in Caches
        /\ seen \in [disk : [Files -> Nat], clock : Nat]
    BY FilesAssumption DEF Answered, TrigInv, VersionsKnown, IncInv, GraphKnown
  <2>2. ASSUME NEW f \in Triggers
        PROVE  /\ mem.parsed[f] \in Nat /\ mem.copied[f] \in Nat /\ seen.disk[f] \in Nat /\ seen.clock \in Nat
               /\ mem.known[f] \in {"unknown", "yes", "no"}
               /\ f \in closure => mem.copied[f] > 0
               /\ f \in closure \ damaged => mem.parsed[f] > 0
               /\ seen.disk[f] > 0 =>
                     /\ mem.parsed[f] \in {0, seen.disk[f]} \/ mem.parsed[f] > seen.clock
                     /\ mem.copied[f] \in {0, seen.disk[f]} \/ mem.copied[f] > seen.clock
                     /\ mem.known[f] = "no" => disk[f] # seen.disk[f]
    <3>1. seen.disk[f] \in Nat /\ seen.clock \in Nat
      BY <2>1
    <3>2. mem.parsed[f] \in Nat /\ mem.copied[f] \in Nat /\ mem.known[f] \in {"unknown", "yes", "no"}
      BY <2>1, CacheFields
    <3>3. f \in closure => mem.copied[f] > 0
      BY <2>1 DEF TrigInv, CopiesKnown
    <3>4. f \in closure \ damaged => mem.parsed[f] > 0
      BY DEF IncInv, ClosureKnown
    <3>5. seen.disk[f] > 0 =>
             /\ mem.parsed[f] \in {0, seen.disk[f]} \/ mem.parsed[f] > seen.clock
             /\ mem.copied[f] \in {0, seen.disk[f]} \/ mem.copied[f] > seen.clock
             /\ mem.known[f] = "no" => disk[f] # seen.disk[f]
      BY <2>1 DEF TrigInv, CommandCurrent
    <3> QED BY <3>1, <3>2, <3>3, <3>4, <3>5
  <2>3. ASSUME NEW f \in Triggers, NEW v, v \in Nat, v > 0,
               seen.disk[f] > 0 => v \in {0, seen.disk[f]} \/ v > seen.clock
        PROVE  v > 0 /\ (v > seen.clock \/ seen.disk[f] \in {0, v})
    <3>1. seen.disk[f] \in Nat
      BY <2>2
    <3> QED BY <2>3, <3>1
  <2>4. ASSUME NEW f \in Triggers
        PROVE  /\ f \in closure => /\ mem.copied[f] > 0
                                   /\ mem.copied[f] > seen.clock \/ seen.disk[f] \in {0, mem.copied[f]}
               /\ f \in closure \ damaged => /\ mem.parsed[f] > 0
                                             /\ mem.parsed[f] > seen.clock \/ seen.disk[f] \in {0, mem.parsed[f]}
               /\ Exists(mem, f) \/ mem.known[f] = "unknown" \/ seen.disk[f] = 0 \/ disk[f] # seen.disk[f]
    <3>1. f \in closure => /\ mem.copied[f] > 0
                           /\ mem.copied[f] > seen.clock \/ seen.disk[f] \in {0, mem.copied[f]}
      BY <2>2, <2>3
    <3>2. f \in closure \ damaged => /\ mem.parsed[f] > 0
                                     /\ mem.parsed[f] > seen.clock \/ seen.disk[f] \in {0, mem.parsed[f]}
      BY <2>2, <2>3
    <3>3. Exists(mem, f) \/ mem.known[f] = "unknown" \/ seen.disk[f] = 0 \/ disk[f] # seen.disk[f]
      BY <2>2 DEF Exists
    <3> QED BY <3>1, <3>2, <3>3
  <2> QED BY <2>4 DEF TriggersSeen
<1> QED BY <1>1, AnalyzerInvariant, TriggerInvariant, PTL

=============================================================================
