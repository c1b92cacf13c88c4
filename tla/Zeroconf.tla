------------------------------ MODULE Zeroconf ------------------------------
(***************************************************************************)
(* Discovery of servers by +zeroconf (zeroconf.c).  A client that finds    *)
(* the lock file of its user unlocked forks a daemon; the daemon locks it, *)
(* browses for the servers that ZeroconfReg announces and keeps the host   *)
(* file up to date, until no client has read it for a while.  Clients read *)
(* the file under a lock of its own.                                       *)
(*                                                                         *)
(* An entry is a service on an interface: its name is the server's and the *)
(* number of its present name.  A daemon that is forked by client c is the *)
(* child of c; one at a time gets further than its lock.                   *)
(***************************************************************************)
EXTENDS ZeroconfReg, Sequences, SequencesExt

CONSTANTS
    Interfaces,
    Clients,
    NoOne,
    MaxTrouble  \* how often a link changes, a daemon is killed, a resolver fails

ASSUME ZeroconfAssumption ==
    /\ MaxTrouble \in Nat
    /\ NoOne \notin Clients

VARIABLES
    links,      \* the interfaces on which each server is reached
    changes,
    faults,
    build,      \* where each client is
    got,        \* the state of the host list it has read
    child,      \* where the daemon it has forked is
    locker,     \* who holds the lock file: a client, or the child of one
    file,       \* the host file: its entries; absent, part of it, or whole
    writer,     \* the daemon that holds the write lock of the host file
    hosts,      \* the list of the daemon
    seen        \* what Avahi has told the daemon of, and not withdrawn

netVars == <<links, changes>>
clientVars == <<build, got>>
daemonVars == <<child, file, writer, hosts, seen>>
restVars == <<netVars, clientVars, daemonVars, locker, faults>>
vars == <<regVars, restVars>>

NoFile == [entries |-> {}, state |-> "absent"]
Held(kind, c) == [kind |-> kind, of |-> c]
Free == Held("nobody", NoOne)

Init ==
    /\ RegInit
    /\ links = [s \in Servers |-> Interfaces]
    /\ changes = 0 /\ faults = 0
    /\ build = [c \in Clients |-> "probe"]
    /\ got = [c \in Clients |-> "absent"]
    /\ child = [c \in Clients |-> "none"]
    /\ locker = Free
    /\ file = NoFile
    /\ writer = NoOne
    /\ hosts = <<>>
    /\ seen = {}

\* The entries on the network.
Announced ==
    UNION {[server : {s}, name : {published[s]} \ {Nothing}, on : links[s]] : s \in Servers}

LinkChanges(s, i) ==
    /\ changes + faults < MaxTrouble /\ changes' = changes + 1
    /\ links' = [links EXCEPT ![s] = IF i \in @ THEN @ \ {i} ELSE @ \cup {i}]
    /\ UNCHANGED <<regVars, clientVars, daemonVars, locker, faults>>

(***************************************************************************)
(* dcc_zeroconf_add_hosts.                                                 *)
(***************************************************************************)
Goes(c, from, to) == build[c] = from /\ build' = [build EXCEPT ![c] = to]

\* Is there a daemon?  One that is not gets the lock, for a moment.
Probe(c) ==
    /\ \/ locker = Free /\ Goes(c, "probe", "fork") /\ locker' = Held("client", c)
       \/ locker # Free /\ Goes(c, "probe", "read") /\ UNCHANGED locker
    /\ UNCHANGED <<regVars, netVars, got, daemonVars, faults>>

\* The daemon has a second, in which it may do anything or nothing.
Fork(c) ==
    /\ Goes(c, "fork", "read")
    /\ locker' = Free
    /\ child' = [child EXCEPT ![c] = "lock"]
    /\ UNCHANGED <<regVars, netVars, got, file, writer, hosts, seen, faults>>

Read(c) ==
    /\ writer = NoOne
    /\ Goes(c, "read", "done")
    /\ got' = [got EXCEPT ![c] = file.state]
    /\ UNCHANGED <<regVars, netVars, daemonVars, locker, faults>>

ClientStep(c) == Probe(c) \/ Fork(c) \/ Read(c)

(***************************************************************************)
(* daemon_proc and the callbacks of Avahi.                                 *)
(***************************************************************************)
Serving == {"change", "writing", "loop"}

\* A lock that is held, by a daemon or by a client that probes it, ends it.
DaemonLocks(c) ==
    /\ child[c] = "lock"
    /\ \/ /\ locker = Free
          /\ locker' = Held("daemon", c)
          /\ child' = [child EXCEPT ![c] = "change"]
          /\ hosts' = <<>> /\ seen' = {}
       \/ /\ locker # Free
          /\ child' = [child EXCEPT ![c] = "gone"]
          /\ UNCHANGED <<locker, hosts, seen>>
    /\ UNCHANGED <<regVars, netVars, clientVars, file, writer, faults>>

\* write_hosts, in two steps: a reader waits, a kill may come between.
Truncate(c) ==
    /\ child[c] = "change" /\ writer = NoOne
    /\ writer' = c
    /\ file' = [entries |-> {}, state |-> "part"]
    /\ child' = [child EXCEPT ![c] = "writing"]
    /\ UNCHANGED <<regVars, netVars, clientVars, hosts, seen, locker, faults>>

SameService(g, h) == g.server = h.server /\ g.name = h.name

\* Mutant: a service on another interface counts as another one.
OncePerInterface(list) ==
    LET first == {k \in DOMAIN list : \A j \in 1..(k - 1) :
                     ~(SameService(list[j], list[k]) /\ list[j].on = list[k].on)}
    IN  [k \in 1..Cardinality(first) |->
            list[CHOOSE j \in first : Cardinality({i \in first : i < j}) = k - 1]]

\* remove_duplicate_services keeps the first of each name, resolved or not.
Deduplicated(list) ==
    LET first == {k \in DOMAIN list : \A j \in 1..(k - 1) : ~SameService(list[j], list[k])}
    IN  [k \in 1..Cardinality(first) |->
            list[CHOOSE j \in first : Cardinality({i \in first : i < j}) = k - 1]]

Entry(h) == [server |-> h.server, name |-> h.name, on |-> h.on]

Listed(list) == {Entry(list[k]) : k \in {j \in DOMAIN list : list[j].status = "resolved"}}

Write(c) ==
    /\ child[c] = "writing"
    /\ hosts' = Deduplicated(hosts)
    /\ file' = [entries |-> Listed(hosts'), state |-> "whole"]
    /\ writer' = NoOne
    /\ child' = [child EXCEPT ![c] = "loop"]
    /\ UNCHANGED <<regVars, netVars, clientVars, seen, locker, faults>>

BrowserNew(c, e) ==
    /\ child[c] = "loop"
    /\ e \in Announced \ seen
    /\ seen' = seen \cup {e}
    /\ hosts' = <<[server |-> e.server, name |-> e.name, on |-> e.on,
                   status |-> "resolving"]>> \o hosts
    /\ UNCHANGED <<regVars, netVars, clientVars, child, file, writer, locker, faults>>

Matches(h, e) == Entry(h) = e

\* remove_service drops the first match, if there is one still.
BrowserRemove(c, e) ==
    LET found == {k \in DOMAIN hosts : Matches(hosts[k], e)}
    IN  /\ child[c] = "loop"
        /\ e \in seen \ Announced
        /\ seen' = seen \ {e}
        /\ hosts' = IF found = {} THEN hosts
                    ELSE RemoveAt(hosts, CHOOSE k \in found : \A j \in found : k <= j)
        /\ child' = [child EXCEPT ![c] = "change"]
        /\ UNCHANGED <<regVars, netVars, clientVars, file, writer, locker, faults>>

\* resolve_reply, AVAHI_RESOLVER_FOUND.
Found(c, k) ==
    /\ child[c] = "loop"
    /\ k \in DOMAIN hosts /\ hosts[k].status = "resolving"
    /\ hosts' = [hosts EXCEPT ![k].status = "resolved"]
    /\ child' = [child EXCEPT ![c] = "change"]
    /\ UNCHANGED <<regVars, netVars, clientVars, file, writer, seen, locker, faults>>

Fault == changes + faults < MaxTrouble /\ faults' = faults + 1

\* AVAHI_RESOLVER_FAILURE frees the host and leaves it in the list.
Failed(c, k) ==
    /\ child[c] = "loop"
    /\ k \in DOMAIN hosts /\ hosts[k].status = "resolving"
    /\ Fault
    /\ hosts' = [hosts EXCEPT ![k].status = "freed"]
    /\ UNCHANGED <<regVars, netVars, clientVars, child, file, writer, seen, locker>>

Ends(c) ==
    /\ child' = [child EXCEPT ![c] = "gone"]
    /\ locker' = IF locker = Held("daemon", c) THEN Free ELSE locker
    /\ writer' = IF writer = c THEN NoOne ELSE writer
    /\ hosts' = <<>> /\ seen' = {}
    /\ UNCHANGED <<regVars, netVars, clientVars>>

\* Between two events the daemon finds that no client has used the file for
\* MAX_IDLE_TIME: any number of seconds may have passed since one did.
Idle(c) == child[c] = "loop" /\ Ends(c) /\ UNCHANGED <<file, faults>>

\* It is killed, Avahi fails it, or it follows a host that has been freed, which
\* ends it in any of the walks along the list, or does no harm.
Dies(c) ==
    /\ child[c] \in Serving
    /\ \/ Fault
       \/ /\ \E k \in DOMAIN hosts : hosts[k].status = "freed"
          /\ UNCHANGED faults
    /\ IF child[c] = "writing"
       THEN \E part \in SUBSET Listed(Deduplicated(hosts)) : file' = [file EXCEPT !.entries = part]
       ELSE UNCHANGED file
    /\ Ends(c)

DaemonStep(c) == DaemonLocks(c) \/ Truncate(c) \/ Write(c)

BrowserStep(c) ==
    \/ \E e \in Announced \cup seen : BrowserNew(c, e) \/ BrowserRemove(c, e)
    \/ \E k \in DOMAIN hosts : Found(c, k)

Next ==
    \/ RegNext /\ UNCHANGED restVars
    \/ \E s \in Servers, i \in Interfaces : LinkChanges(s, i)
    \/ \E c \in Clients : ClientStep(c) \/ DaemonStep(c) \/ BrowserStep(c) \/ Idle(c) \/ Dies(c)
    \/ \E c \in Clients : \E k \in DOMAIN hosts : Failed(c, k)

\* Clients, the daemon and Avahi go on, and Avahi resolves what it announces; no
\* one is bound to end, to fail or to stay away from the file.
Fairness ==
    /\ \A s \in Servers : WF_vars(Running(s) /\ UNCHANGED restVars)
    /\ \A c \in Clients : /\ WF_vars(ClientStep(c))
                          /\ WF_vars(DaemonStep(c))
                          /\ WF_vars(BrowserStep(c))

Spec == Init /\ [][Next]_vars /\ Fairness

-----------------------------------------------------------------------------

\* Of the daemons that clients fork at the same time one at most follows the
\* network, and it holds the lock; the host file is being written by that one
\* or by none, also when it is killed in the middle.
OneDaemon ==
    \A c \in Clients :
        /\ child[c] \in Serving => locker = Held("daemon", c)
        /\ child[c] = "writing" <=> writer = c

Lasts(s, c) == <>[](published[s] # Nothing /\ child[c] \in Serving)

IsListed(s) ==
    \E e \in file.entries :
        /\ e.server = s /\ e.name = published[s]
        /\ \A d \in file.entries : d.server = s => d = e

\* A server that stays announced to a daemon that stays is listed in the end,
\* under its last name alone and once whatever its interfaces, if no link ever
\* changes, no resolver fails and no daemon is killed.
ServersFound ==
    \A s \in Servers, c \in Clients :
        (Lasts(s, c) /\ [](changes = 0 /\ faults = 0)) => <>[]IsListed(s)

=============================================================================
