---------------------------- MODULE DmucsThreads ---------------------------
(***************************************************************************)
(* The main thread and the silent-search thread of the dmucs server, step  *)
(* by step.  A method of DmucsDb is one step that needs the mutex; what a  *)
(* handler does between two such calls (it reads and writes state_, the    *)
(* load averages and lastUpdate_ of the host) is a step without it, and so *)
(* is DmucsDb::releaseCpu, which takes no mutex.  The search thread holds  *)
(* the mutex, which is recursive, from its first host to its last.         *)
(* The handlers are those of DmucsServer; the crash of "status up", the    *)
(* hosts-info file and the statistics are left to that module.             *)
(***************************************************************************)
EXTENDS DmucsDb

CONSTANTS
    ConfiguredFile,     \* the hosts-info file
    MaxListed           \* bound: no search once a list holds more of a host

ASSUME ConfiguredFileAssumption ==
    ConfiguredFile \in [Hosts -> Specs \cup {NoSpec}]

VARIABLES
    db,         \* the database
    thread,     \* the pc and the locals of each thread
    todo        \* the hosts the search has still to visit

vars == <<db, thread, todo>>

Idle == [pc |-> "idle"]

Init ==
    /\ db = EmptyDb
    /\ thread = [main |-> Idle, silent |-> Idle]
    /\ todo = {}

\* The main thread holds the mutex within a step only, the search until it
\* sleeps again.
MayLock(t) == t = "silent" \/ thread.silent.pc = "idle"

At(t, pc) == thread[t].pc = pc

Goto(t, frame) == thread' = [thread EXCEPT ![t] = frame]

\* Call a method of the state object of h and go on at frame `then'.
Call(method, h, then) ==
    [pc |-> "dispatch", method |-> method, host |-> h, then |-> then]

----------------------------------------------------------------------------
(* A transition of a state object, run by either thread.                   *)

\* The state a method leads to; its own, where the method is not overridden.
Target(state, method, tier) ==
    CASE method = "avail" /\ state = "Unavail" /\ tier = 0 -> "Overloaded"
      [] method = "avail" /\ ~(state = "Unavail" /\ tier = 0) -> "Avail"
      [] method = "unavail" -> "Unavail"
      [] method = "silent" -> IF state = "Unavail" THEN state ELSE "Silent"
      [] method = "overloaded" -> IF state = "Avail" THEN "Overloaded" ELSE state

\* The virtual call reads state_ once; the method runs as that class's.
Dispatch(t) ==
    LET me == thread[t]
        from == db.state[me.host]
        to == Target(from, me.method, GetTier(db, me.host))
    IN  /\ At(t, "dispatch")
        /\ Goto(t, IF to = from THEN me.then
                   ELSE [pc |-> IF from = "Avail" THEN "delCpus" ELSE "delHost",
                         host |-> me.host, from |-> from, to |-> to,
                         then |-> me.then])
        /\ UNCHANGED <<db, todo>>

DelCpus(t) ==
    LET me == thread[t]
    IN  /\ At(t, "delCpus") /\ MayLock(t)
        /\ db' = DelCpusFromTier(db, me.host, GetTier(db, me.host))
        /\ Goto(t, [me EXCEPT !.pc = "delHost"])
        /\ UNCHANGED todo

DelHost(t) ==
    LET me == thread[t]
    IN  /\ At(t, "delHost") /\ MayLock(t)
        /\ db' = IF me.from = "Avail" THEN DelFromAvailDb(db, me.host)
                 ELSE DelFromHostSet(db, me.from, me.host)
        /\ Goto(t, [me EXCEPT !.pc = "setState"])
        /\ UNCHANGED todo

SetState(t) ==
    LET me == thread[t]
    IN  /\ At(t, "setState")
        /\ db' = [db EXCEPT !.state[me.host] = me.to]
        /\ Goto(t, [me EXCEPT !.pc = "addHost"])
        /\ UNCHANGED todo

\* state_->addToDb(host) reads state_ again, or uses the value just stored.
AddHost(t) ==
    LET me == thread[t]
    IN  /\ At(t, "addHost") /\ MayLock(t)
        /\ \E s \in {me.to, db.state[me.host]} :
             db' = IF s = "Avail" THEN AddToAvailDb(db, me.host)
                   ELSE AddToHostSet(db, s, me.host)
        /\ Goto(t, me.then)
        /\ UNCHANGED todo

Transition(t) == Dispatch(t) \/ DelCpus(t) \/ DelHost(t) \/ SetState(t) \/ AddHost(t)

----------------------------------------------------------------------------
(* The main thread: load averages.                                         *)

\* getHost, then createHost or updateTier up to its first effect.
LdAvg(h, load) ==
    /\ At("main", "idle") /\ MayLock("main")
    /\ IF HaveHost(db, h)
       THEN /\ Goto("main", [pc |-> "update", host |-> h, load |-> load])
            /\ UNCHANGED db
       ELSE /\ db' = IF ConfiguredFile[h] = NoSpec THEN db
                     ELSE AddNewHost(db, h, ConfiguredFile[h])
            /\ UNCHANGED thread
    /\ UNCHANGED todo

\* updateTier: only this thread writes the averages, so the two tiers it
\* compares are those of the step.
UpdateTierStart ==
    LET me == thread.main
        new == CalcTier(me.load, db.info[me.host].pindex)
        old == GetTier(db, me.host)
        store == [me EXCEPT !.pc = "store"]
    IN  /\ At("main", "update")
        /\ \/ /\ new = old
              /\ Goto("main", store)
              /\ UNCHANGED db
           \/ /\ new # old /\ new = 0
              /\ Goto("main", Call("overloaded", me.host, store))
              /\ UNCHANGED db
           \/ /\ new # old /\ new # 0 /\ MayLock("main")
              /\ db' = MoveCpus(db, me.host, old, new)
              /\ Goto("main", store)
        /\ UNCHANGED todo

StoreLoad ==
    LET me == thread.main
    IN  /\ At("main", "store")
        /\ db' = [db EXCEPT !.load[me.host] = me.load]
        /\ Goto("main", [pc |-> "stamp", host |-> me.host])
        /\ UNCHANGED todo

StampUpdate ==
    LET me == thread.main
    IN  /\ At("main", "stamp")
        /\ db' = [db EXCEPT !.fresh[me.host] = TRUE]
        /\ Goto("main", [pc |-> "check", host |-> me.host])
        /\ UNCHANGED todo

\* Mutant: the tier of an overloaded host is not looked at.
CheckBackAlways ==
    LET h == thread.main.host
    IN  /\ At("main", "check")
        /\ Goto("main", IF db.state[h] \in {"Silent", "Overloaded"}
                        THEN Call("avail", h, Idle) ELSE Idle)
        /\ UNCHANGED <<db, todo>>

\* isSilent() || (isOverloaded() && getTier() != 0): state_ is read here, and
\* again by the virtual call.
CheckBack ==
    LET h == thread.main.host
    IN  /\ At("main", "check")
        /\ Goto("main",
                IF \/ db.state[h] = "Silent"
                   \/ db.state[h] = "Overloaded" /\ GetTier(db, h) # 0
                THEN Call("avail", h, Idle) ELSE Idle)
        /\ UNCHANGED <<db, todo>>

----------------------------------------------------------------------------
(* The main thread: the other messages.                                    *)

\* "status up" or "status add", and "status down", of a host of the database.
Status(h, method) ==
    /\ At("main", "idle") /\ MayLock("main")
    /\ HaveHost(db, h)
    /\ Goto("main", Call(method, h, Idle))
    /\ UNCHANGED <<db, todo>>

\* getBestAvailCpu, then assignCpuToClient: the CPU is on no list in between.
HostReq(c, d) ==
    /\ At("main", "idle") /\ MayLock("main")
    /\ db.assigned[c] = NoHost
    /\ \E p \in BestAvailCpus(db, d) :
         /\ db' = TakeCpu(db, p[1], p[2])
         /\ Goto("main", [pc |-> "assign", host |-> p[1], client |-> c])
    /\ UNCHANGED todo

Assign ==
    LET me == thread.main
    IN  /\ At("main", "assign") /\ MayLock("main")
        /\ db' = AssignCpuToClient(db, me.host, me.client)
        /\ Goto("main", Idle)
        /\ UNCHANGED todo

\* releaseCpu has no mutex, but its getHost is a member of DmucsDpropDb and
\* asks for none either: only the read of state_ and the list are split.
ClientClose(c) ==
    LET h == db.assigned[c]
    IN  /\ At("main", "idle")
        /\ h # NoHost
        /\ db' = [db EXCEPT !.assigned[c] = NoHost]
        /\ Goto("main", IF db.state[h] = "Avail" THEN [pc |-> "addBack", host |-> h]
                        ELSE Idle)
        /\ UNCHANGED todo

\* Mutant: the CPU is not listed again.
AddBackDrops ==
    /\ At("main", "addBack")
    /\ Goto("main", Idle)
    /\ UNCHANGED <<db, todo>>

AddBack ==
    LET h == thread.main.host
    IN  /\ At("main", "addBack")
        /\ db' = AddCpusToTier(db, h, GetTier(db, h), 1)
        /\ Goto("main", Idle)
        /\ UNCHANGED todo

----------------------------------------------------------------------------
(* The search thread, and the clock.                                       *)

\* No step of the main thread holds the mutex when it ends.
SilentSearch ==
    /\ At("silent", "idle")
    /\ \A h \in Hosts, t \in Tiers : db.cpus[h][t] <= MaxListed
    /\ Goto("silent", [pc |-> "visit"])
    /\ todo' = {h \in Hosts : HaveHost(db, h)}
    /\ UNCHANGED db

VisitHost(h) ==
    /\ At("silent", "visit")
    /\ h \in todo
    /\ IF SeemsDown(db, h)
       THEN Goto("silent", Call("silent", h, [pc |-> "visit"]))
       ELSE UNCHANGED thread
    /\ todo' = todo \ {h}
    /\ UNCHANGED db

\* Mutant: the mutex is held through the sleep, until the next search.
EndSearchHolds ==
    /\ At("silent", "visit")
    /\ todo = {}
    /\ todo' = {h \in Hosts : HaveHost(db, h)}
    /\ UNCHANGED <<db, thread>>

EndSearch ==
    /\ At("silent", "visit")
    /\ todo = {}
    /\ Goto("silent", Idle)
    /\ UNCHANGED <<db, todo>>

Expire(h) ==
    /\ db.fresh[h]
    /\ db' = [db EXCEPT !.fresh[h] = FALSE]
    /\ UNCHANGED <<thread, todo>>

MainContinues ==
    \/ UpdateTierStart
    \/ StoreLoad
    \/ StampUpdate
    \/ CheckBack
    \/ Assign
    \/ AddBack
    \/ Transition("main")

SilentContinues ==
    \/ \E h \in Hosts : VisitHost(h)
    \/ EndSearch
    \/ Transition("silent")

Next ==
    \/ \E h \in Hosts, load \in Loads : LdAvg(h, load)
    \/ \E h \in Hosts, method \in {"avail", "unavail"} : Status(h, method)
    \/ \E c \in Clients, d \in Dprops : HostReq(c, d)
    \/ \E c \in Clients : ClientClose(c)
    \/ MainContinues
    \/ SilentSearch
    \/ SilentContinues
    \/ \E h \in Hosts : Expire(h)

Spec == Init /\ [][Next]_vars

\* Both threads run, and the mutex is granted to a thread that waits for it.
Fairness == SF_vars(MainContinues) /\ WF_vars(SilentContinues)

FairSpec == Spec /\ Fairness

----------------------------------------------------------------------------
(* Properties.  The two threads can meet on one host (a search that begins *)
(* while a handler is between two calls); what follows holds even so.      *)

AtRest == thread.main = Idle /\ thread.silent = Idle

\* However the steps of the two threads mix, an available host has all its
\* CPUs listed or assigned: a race duplicates CPUs, it never loses one.
NoCpuLost ==
    AtRest => \A h \in Hosts :
        IsAvail(db, h) => Listed(db, h) + Held(db, h) >= db.info[h].ncpus

\* The two threads share one mutex and the handlers call under it again: no
\* handler is stuck for ever behind the search.
HandlerEnds == thread.main # Idle ~> thread.main = Idle
=============================================================================
