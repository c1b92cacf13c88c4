---------------------------- MODULE DistccSlots ----------------------------
(***************************************************************************)
(* What the lock files of the distcc clients promise: a job is sent to a   *)
(* server only while fewer than n_slots jobs are there, and preprocessing  *)
(* and compiling on the local machine share one set of slots, of which     *)
(* compiling may use the first ones only.  A client preprocesses with the  *)
(* slot of a server, and compiles without one.                             *)
(***************************************************************************)
EXTENDS Integers, FiniteSets

CONSTANTS
    Clients,        \* places for client processes
    Servers,        \* the compilation servers
    ServerSlots,    \* jobs at a server
    CompileSlots,   \* compilations on the local machine
    LocalSlots,     \* compilations and preprocessors together
    NoHost          \* no server

VARIABLE use        \* the server and the local slot each client works with

Unused == [server |-> NoHost, local |-> "none"]

JobsAt(h) == {c \in Clients : use[c].server = h}

Working(kinds) == {c \in Clients : use[c].local \in kinds}

Init == use = [c \in Clients |-> Unused]

Become(c, u) == use' = [use EXCEPT ![c] = u]

TakeServer(c, h) ==
    /\ use[c] = Unused
    /\ Cardinality(JobsAt(h)) < ServerSlots[h]
    /\ Become(c, [Unused EXCEPT !.server = h])

StartCpp(c) ==
    /\ use[c].server # NoHost /\ use[c].local = "none"
    /\ Cardinality(Working({"cpp", "compile"})) < LocalSlots
    /\ Become(c, [use[c] EXCEPT !.local = "cpp"])

EndCpp(c) ==
    /\ use[c].local = "cpp"
    /\ Become(c, [use[c] EXCEPT !.local = "none"])

StartCompile(c) ==
    /\ use[c] = Unused
    /\ Cardinality(Working({"compile"})) < CompileSlots
    /\ Cardinality(Working({"cpp", "compile"})) < LocalSlots
    /\ Become(c, [Unused EXCEPT !.local = "compile"])

\* The work is done, has failed, or its client is gone.
Stop(c) ==
    /\ use[c] # Unused
    /\ Become(c, Unused)

Next ==
    \E c \in Clients :
        \/ \E h \in Servers : TakeServer(c, h)
        \/ StartCpp(c) \/ EndCpp(c) \/ StartCompile(c) \/ Stop(c)

Spec == Init /\ [][Next]_use
=============================================================================
