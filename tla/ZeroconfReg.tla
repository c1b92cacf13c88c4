---------------------------- MODULE ZeroconfReg ----------------------------
(***************************************************************************)
(* The distccd servers of a network announce themselves through Avahi      *)
(* (zeroconf-reg.c).  All their code runs in callbacks of the thread that  *)
(* polls the Avahi daemon of the machine: of the client, when that daemon  *)
(* starts, changes the name of its host or goes away, and of the entry     *)
(* group, when the name of the service is taken.                           *)
(***************************************************************************)
EXTENDS Naturals

CONSTANTS
    Servers,
    MaxAvahi    \* how often the Avahi daemons report a trouble

ASSUME ZeroconfRegAssumption == MaxAvahi \in Nat

VARIABLES
    reg,        \* the context of each server
    published,  \* what its Avahi daemon announces: a name, or Nothing
    unrest      \* the events so far that MaxAvahi bounds

regVars == <<reg, published, unrest>>

Nothing == 0

RegInit ==
    /\ reg = [s \in Servers |-> [polls |-> TRUE, client |-> "connecting",
                                 group |-> "none", name |-> 1]]
    /\ published = [s \in Servers |-> Nothing]
    /\ unrest = 0

\* register_stuff: a group that holds the service already is left alone.
RegisterStuff(s, r) ==
    \/ /\ r.group = "committed"
       /\ reg' = [reg EXCEPT ![s] = r]
       /\ UNCHANGED published
    \/ /\ r.group # "committed"
       /\ reg' = [reg EXCEPT ![s] = [r EXCEPT !.group = "committed"]]
       /\ published' = [published EXCEPT ![s] = r.name]

Disturbed == unrest < MaxAvahi /\ unrest' = unrest + 1

\* client_callback, AVAHI_CLIENT_S_RUNNING.
Running(s) ==
    /\ reg[s].polls /\ reg[s].client # "running"
    /\ RegisterStuff(s, [reg[s] EXCEPT !.client = "running"])
    /\ UNCHANGED unrest

\* AVAHI_CLIENT_S_COLLISION and _REGISTERING: the name of the host changes.
HostNameChanges(s) ==
    /\ reg[s].polls /\ reg[s].client = "running"
    /\ Disturbed
    /\ reg' = [reg EXCEPT ![s].client = "registering",
                          ![s].group = IF @ = "none" THEN @ ELSE "empty"]
    /\ published' = [published EXCEPT ![s] = Nothing]

\* Mutant: the group of the lost connection is kept.
KeepsGroup(s) ==
    /\ reg[s].polls
    /\ Disturbed
    /\ reg' = [reg EXCEPT ![s].client = "connecting"]
    /\ published' = [published EXCEPT ![s] = Nothing]
\* AVAHI_CLIENT_FAILURE: a new client waits for the Avahi daemon to come back.
Disconnected(s) ==
    /\ reg[s].polls
    /\ Disturbed
    /\ reg' = [reg EXCEPT ![s].client = "connecting", ![s].group = "none"]
    /\ published' = [published EXCEPT ![s] = Nothing]

\* Another failure of the client, or a call that fails, ends the polling; the
\* service stays announced while the process lives.
GivesUp(s) ==
    /\ reg[s].polls
    /\ Disturbed
    /\ reg' = [reg EXCEPT ![s].polls = FALSE]
    /\ UNCHANGED published

\* publish_reply: Avahi empties the group, and the server takes another name.
NameCollides(s) ==
    /\ reg[s].polls /\ reg[s].client = "running" /\ published[s] # Nothing
    /\ Disturbed
    /\ RegisterStuff(s, [reg[s] EXCEPT !.group = "empty", !.name = @ + 1])

RegNext ==
    \E s \in Servers :
        \/ Running(s) \/ HostNameChanges(s) \/ Disconnected(s)
        \/ GivesUp(s) \/ NameCollides(s)

-----------------------------------------------------------------------------
\* A server whose Avahi daemon runs is announced, and under its present name,
\* through collisions, restarts of that daemon and changes of the host's name.
Registered ==
    \A s \in Servers :
        (reg[s].polls /\ reg[s].client = "running") => published[s] = reg[s].name
=============================================================================
