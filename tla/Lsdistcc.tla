------------------------------ MODULE Lsdistcc ------------------------------
(***************************************************************************)
(* lsdistcc: finds the distcc servers among the hosts 1, 2, ... by looking *)
(* their names up through a set of DNS slaves (rslave.c), connecting to    *)
(* each, and trying a compilation there.  One poll loop does all this at   *)
(* once; a pass of it is four steps, between which slaves, servers and     *)
(* time go on: poll; time out and ask for a name; take one DNS result;     *)
(* handle the events that poll reported.                                   *)
(*                                                                         *)
(* A host on another network than the first one (-m) counts as not found.  *)
(* A server that answers sends DONE, STAT 0 and the end of the stream; a   *)
(* packet is read whole or not at all.  The alarm that ends a slow run     *)
(* after seven seconds is left out: the question is what happens without.  *)
(***************************************************************************)
EXTENDS Integers, Sequences, FiniteSets, FiniteSetsExt

CONSTANTS
    N,          \* the number of hosts
    GroupSize,  \* the number of hosts for which there are descriptors
    MaxTries,   \* how often a name is asked for
    Overlap,    \* the lookups of the first try in flight, less one
    DnsGap,     \* the missing names that are tolerated
    Compile     \* a compilation is tried, not only a connection

ASSUME LsdistccAssumption ==
    /\ {N, GroupSize, MaxTries} \subseteq Nat \ {0}
    /\ {Overlap, DnsGap} \subseteq Nat
    /\ Compile \in BOOLEAN

Hosts == 1..N
Fds == 1..N
NoFd == 0

VARIABLES
    states,     \* the state_t of each host
    due,        \* the deadline of the host has passed
    nwithtries, \* the number of hosts that have been asked for k times
    ngotaddr,
    nbaddns,
    ndone,
    fd2state,   \* the host that last used each descriptor
    group,      \* start_state, end_state, and end_state as it was
    pc,
    polled,     \* what poll reported: descriptors, and a lookup is welcome
    asked,      \* the requests for each host whose result has not been read
    server      \* the other end: its connection, the packets it has sent

loopVars == <<states, nwithtries, ngotaddr, nbaddns, ndone, fd2state, group, pc, polled>>
lsVars == <<states, due, nwithtries, ngotaddr, nbaddns, ndone, fd2state, group, pc, polled,
          asked, server>>

Group(first) ==
    LET last == Min({first + GroupSize - 1, N})
    IN  [first |-> first, last |-> last, full |-> last]

NothingPolled == [events |-> {}, result |-> 0, lookup |-> FALSE]

LsInit ==
    /\ states = [h \in Hosts |-> [status |-> "lookup", ntries |-> 0, fd |-> NoFd,
                                  got |-> 0, up |-> FALSE]]
    /\ due = [h \in Hosts |-> FALSE]
    /\ nwithtries = [k \in 0..MaxTries |-> IF k = 0 THEN N ELSE 0]
    /\ ngotaddr = 0
    /\ nbaddns = 0
    /\ ndone = 0
    /\ fd2state = [fd \in Fds |-> 1]
    /\ group = Group(1)
    /\ pc = "poll"
    /\ polled = NothingPolled
    /\ asked = [h \in Hosts |-> 0]
    /\ server = [h \in Hosts |-> [conn |-> "none", sent |-> 0, bad |-> FALSE]]

Members == group.first..group.last

Reading == {"donepkt", "statpkt", "rest"}

\* The names asked for once up to k times.
Lookups[k \in 0..(MaxTries - 1)] == IF k = 0 THEN 0 ELSE Lookups[k - 1] + nwithtries[k]

Welcome ==
    /\ nwithtries[1] <= Overlap
    /\ Lookups[MaxTries - 1] + ngotaddr < group.last

\* What poll reports of a descriptor the program watches.
Ready(h) ==
    \/ states[h].status = "connecting" /\ server[h].conn \in {"accepted", "refused"}
    \/ states[h].status \in Reading /\ (server[h].sent > states[h].got \/ server[h].bad)

\* The pipe from the slaves holds the result of r next, or nothing.
Poll(r) ==
    /\ pc = "poll"
    /\ ndone < group.last
    /\ r # 0 => asked[r] > 0
    /\ asked' = IF r = 0 THEN asked ELSE [asked EXCEPT ![r] = @ - 1]
    /\ polled' = [events |-> {states[h].fd : h \in {m \in Members : Ready(m)}},
                  result |-> r,
                  lookup |-> Welcome]
    /\ pc' = "expire"
    /\ UNCHANGED <<states, due, nwithtries, ngotaddr, nbaddns, ndone, fd2state, group,
                   server>>

\* The next group, unless the search has been cut short.
NextGroup ==
    /\ pc = "poll"
    /\ ndone >= group.last
    /\ \/ /\ group.last < group.full \/ group.last = N
          /\ pc' = "end"
          /\ UNCHANGED group
       \/ /\ group.last = group.full /\ group.last < N
          /\ group' = Group(group.last + 1)
          /\ UNCHANGED pc
    /\ UNCHANGED <<states, due, nwithtries, ngotaddr, nbaddns, ndone, fd2state, polled,
                   asked, server>>

Closed(s) == [s EXCEPT !.status = "done", !.fd = NoFd]

\* Sends the request for the name of a host once more.
Ask(expired, h) ==
    LET k == states[h].ntries
    IN  /\ states' = [expired EXCEPT ![h].ntries = k + 1]
        /\ nwithtries' = [nwithtries EXCEPT ![k] = @ - 1, ![k + 1] = @ + 1]
        /\ asked' = [asked EXCEPT ![h] = @ + 1]

Fresh == {h \in Members : states[h].status = "lookup" /\ states[h].ntries = 0}

Timed(h) ==
    \/ states[h].status \in Reading \cup {"connecting"}
    \/ states[h].status = "lookup" /\ states[h].ntries > 0

\* The deadlines of the hosts in passed have gone by since the last pass.  The
\* hosts in order, up to the first whose name has to be asked for again.
Expire(passed) ==
    LET now == passed \cup {h \in Hosts : due[h]}
        late == {h \in Members : /\ states[h].status = "lookup" /\ h \in now
                                 /\ states[h].ntries \in 1..(MaxTries - 1)}
        seen == IF late = {} THEN Members ELSE {h \in Members : h < Min(late)}
        over == {h \in seen : h \in now /\ states[h].status \in Reading \cup {"connecting"}}
        expired == [h \in Hosts |-> IF h \in over THEN Closed(states[h]) ELSE states[h]]
        first == polled.lookup /\ nwithtries[1] <= Overlap /\ Fresh # {}
        sent == IF late # {} THEN {Min(late)} ELSE IF first THEN {Min(Fresh)} ELSE {}
    IN  /\ pc = "expire"
        /\ \A h \in passed : Timed(h) /\ ~due[h]
        /\ IF sent # {} THEN Ask(expired, Min(sent))
           ELSE states' = expired /\ UNCHANGED <<nwithtries, asked>>
        /\ due' = [h \in Hosts |-> h \in now \ (over \cup sent)]
        /\ ndone' = ndone + Cardinality(over)
        /\ polled' = [polled EXCEPT !.lookup = FALSE]
        /\ pc' = "result"
        /\ UNCHANGED <<ngotaddr, nbaddns, fd2state, group, server>>

\* Mutant: an answered name still counts as asked for.
StillAsked(h) == nwithtries
Answered(h) ==
    IF states[h].status = "lookup" THEN [nwithtries EXCEPT ![states[h].ntries] = @ - 1]
    ELSE nwithtries

Lowered(missing) ==
    IF missing <= DnsGap THEN group
    ELSE [group EXCEPT !.last = Max({h \in Members : states[h].ntries > 0})]

NotFound(h) ==
    /\ states' = [states EXCEPT ![h].status = "done"]
    /\ ndone' = ndone + 1
    /\ nbaddns' = nbaddns + 1
    /\ group' = Lowered(nbaddns + 1)
    /\ UNCHANGED <<fd2state, server>>

\* socket() gives the lowest descriptor that is free; it or connect() may fail.
Connect(h) ==
    LET fd == Min(Fds \ {states[g].fd : g \in Hosts})
    IN  /\ \/ /\ states' = [states EXCEPT ![h].status = "connecting", ![h].fd = fd]
              /\ fd2state' = [fd2state EXCEPT ![fd] = h]
              /\ server' = [server EXCEPT ![h].conn = "syn"]
              /\ UNCHANGED ndone
           \/ /\ states' = [states EXCEPT ![h] = Closed(@)]
              /\ ndone' = ndone + 1
              /\ server' = [server EXCEPT ![h].conn = "refused"]
              /\ UNCHANGED fd2state
           \/ /\ states' = [states EXCEPT ![h].status = "done"]
              /\ server' = [server EXCEPT ![h].conn = "nosocket"]
              /\ UNCHANGED <<ndone, fd2state>>
        /\ UNCHANGED <<nbaddns, group>>

\* One result of the slaves; the program aborts on one of an earlier group.
Result ==
    /\ pc = "result"
    /\ IF polled.result = 0
       THEN /\ pc' = "events"
            /\ UNCHANGED <<states, due, nwithtries, ngotaddr, nbaddns, ndone, fd2state, group,
                           server>>
       ELSE LET h == polled.result
            IN  /\ pc' = IF h \in Members THEN "events" ELSE "abort"
                /\ IF h \in Members /\ states[h].status = "lookup"
                   THEN /\ nwithtries' = Answered(h)
                        /\ ngotaddr' = ngotaddr + 1
                        /\ due' = [due EXCEPT ![h] = FALSE]
                        /\ NotFound(h) \/ Connect(h)
                   ELSE /\ nwithtries' = IF h \in Members THEN Answered(h) ELSE nwithtries
                        /\ UNCHANGED <<states, due, ngotaddr, nbaddns, ndone, fd2state,
                                       group, server>>
    /\ polled' = [polled EXCEPT !.result = 0]
    /\ UNCHANGED asked

\* Mutant: a packet that is not DONE does not end the conversation.
AnyPacket(s, peer) ==
    IF s.status = "donepkt" THEN [s EXCEPT !.status = "statpkt", !.got = 1]
    ELSE IF s.status = "statpkt" THEN [s EXCEPT !.status = "rest", !.got = 2]
    ELSE Closed([s EXCEPT !.up = TRUE])
Packet(s, peer) ==
    IF peer.sent <= s.got THEN Closed(s)
    ELSE CASE s.status = "donepkt" -> [s EXCEPT !.status = "statpkt", !.got = 1]
           [] s.status = "statpkt" -> [s EXCEPT !.status = "rest", !.got = 2]
           [] s.status = "rest"    -> Closed([s EXCEPT !.up = TRUE])

\* The request fits the buffer of a connection; there is none before it stands.
Handled(s, peer) ==
    CASE s.status = "connecting" ->
            IF peer.conn = "refused" THEN Closed(s)
            ELSE IF ~Compile THEN Closed([s EXCEPT !.up = TRUE])
            ELSE IF peer.conn = "accepted" THEN [s EXCEPT !.status = "donepkt"]
            ELSE Closed(s)
      [] s.status \in Reading -> Packet(s, peer)
      [] OTHER -> s

\* The events go to the host that used the descriptor last, by now.
Events ==
    LET hosts == {fd2state[fd] : fd \in polled.events}
        after == [h \in Hosts |-> IF h \in hosts THEN Handled(states[h], server[h])
                                  ELSE states[h]]
        moved(status) == {h \in hosts : /\ after[h].status = status
                                        /\ states[h].status # status}
    IN  /\ pc = "events"
        /\ states' = after
        /\ ndone' = ndone + Cardinality(moved("done"))
        /\ server' = [h \in Hosts |-> IF h \in moved("donepkt")
                                      THEN [server[h] EXCEPT !.conn = "asked"]
                                      ELSE server[h]]
        /\ due' = [h \in Hosts |-> due[h] /\ h \notin moved("done") \cup moved("donepkt")]
        /\ polled' = NothingPolled
        /\ pc' = "poll"
        /\ UNCHANGED <<nwithtries, ngotaddr, nbaddns, fd2state, group, asked>>

Loop ==
    \/ \E r \in {0} \cup Hosts : Poll(r)
    \/ NextGroup
    \/ \E passed \in SUBSET Hosts : Expire(passed)
    \/ Result
    \/ Events

\* A server acts at any time, until the program hangs up; the program looks at
\* it when it polls, and at its connection when it handles an event.
ServerActs(h) ==
    /\ states[h].status # "done"
    /\ \/ /\ pc \in {"poll", "events"}
          /\ server[h].conn = "syn"
          /\ \E conn \in {"accepted", "refused"} : server' = [server EXCEPT ![h].conn = conn]
       \/ /\ pc = "poll"
          /\ server[h].conn = "asked" /\ ~server[h].bad
          /\ \/ server[h].sent < 3 /\ server' = [server EXCEPT ![h].sent = @ + 1]
             \/ server[h].sent < 2 /\ server' = [server EXCEPT ![h].bad = TRUE]
    /\ UNCHANGED <<due, asked, loopVars>>

LsNext == Loop \/ \E h \in Hosts : ServerActs(h)

LsSpec == LsInit /\ [][LsNext]_lsVars

-----------------------------------------------------------------------------

\* A server is listed only if it has itself done what the options ask for:
\* compiled the test program, or let the program connect.
Vouched ==
    \A h \in Hosts : states[h].up => IF Compile THEN server[h].sent = 3
                                     ELSE server[h].conn = "accepted"

\* The search never waits for nothing until the alarm ends it: while hosts are
\* missing, one of them has a deadline or an answer to come or may be asked for.
\* A host whose socket could not be made is the exception: nothing counts it.
NeverIdle ==
    (/\ pc = "poll" /\ ndone < group.last
     /\ \A h \in Hosts : server[h].conn # "nosocket")
        => \E h \in Members :
              \/ states[h].status \in Reading \cup {"connecting"}
              \/ states[h].status = "lookup" /\ states[h].ntries \in 1..(MaxTries - 1)
              \/ states[h].status = "lookup" /\ asked[h] > 0
              \/ h \in Fresh /\ Welcome

=============================================================================
