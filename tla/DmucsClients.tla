---------------------------- MODULE DmucsClients ----------------------------
(***************************************************************************)
(* The main loop of the dmucs server, the sockets it watches, and the      *)
(* programs at their other end: gethost, which asks for a host, runs a     *)
(* command and keeps its socket open meanwhile, and the tools (loadavg,    *)
(* remhost, addhost, monitor), which send one message on a new socket each *)
(* time.  The handlers are the actions of DmucsServer; here is when they   *)
(* run, on whose behalf, and what becomes of the answer.                   *)
(*                                                                         *)
(* A message is one write and one read (Sputs, Sgets).  A gethost process  *)
(* runs once; a tool comes again when its last message has been handled.   *)
(***************************************************************************)
EXTENDS DmucsServer, Sequences

CONSTANTS
    Tools,      \* the other programs that send messages
    Sends,      \* what each of them may send
    Wait        \* the --wait of each gethost: seconds, or -1 for no limit

Programs == Clients \cup Tools

\* What a tool may send: anything but the request of a gethost.
Messages ==
    [kind : {"load"}, host : Hosts, load : Loads]
        \cup [kind : {"up", "down"}, host : Hosts]
        \cup [kind : {"add"}, host : Hosts, spec : Specs]
        \cup [kind : {"monitor", "malformed"}]

Request == [kind |-> "host"]

ASSUME DmucsClientsAssumption ==
    /\ Clients \cap Tools = {}
    /\ NoHost \notin Programs
    /\ Sends \in [Tools -> SUBSET Messages]
    /\ Wait \in [Clients -> Nat \cup {-1}]

VARIABLES
    sock,       \* the connection of each program
    fdList,     \* the sockets the server watches, in the order of addFd
    backlog,    \* the connections the server has not accepted yet
    loop,       \* where the main thread is, and with which socket
    proc        \* the gethost processes

clientVars == <<sock, fdList, backlog, loop, proc>>
serverVars == vars
allVars == <<db, hostsFile, sweep, up, sock, fdList, backlog, loop, proc>>

\* The server's end is absent, waiting in the backlog, open, closed by the
\* server, or lost with it; "fin" says that the program's end is closed.
Unconnected == [at |-> "none", fin |-> FALSE, msgs |-> <<>>, replies |-> <<>>]

Selecting == [pc |-> "select", at |-> NoHost, more |-> FALSE]

ClientsInit ==
    /\ Init
    /\ sock = [p \in Programs |-> Unconnected]
    /\ fdList = <<>>
    /\ backlog = <<>>
    /\ loop = Selecting
    /\ proc = [c \in Clients |-> [pc |-> "start", host |-> NoHost, waited |-> 0]]

Connected(p) == sock[p].at \in {"queued", "open"}

----------------------------------------------------------------------------
(* The main loop: select, one of the sockets that can be read, then one    *)
(* new connection, whose message is waited for.                            *)

Readable(p) == sock[p].msgs # <<>> \/ sock[p].fin

\* The list is searched from its start.
FirstReadable(i) == Readable(fdList[i]) /\ \A j \in 1..(i - 1) : ~Readable(fdList[j])

Select ==
    /\ up
    /\ loop.pc = "select"
    /\ \/ \E i \in 1..Len(fdList) :
            /\ FirstReadable(i)
            /\ loop' = [pc |-> "serve", at |-> fdList[i], more |-> backlog # <<>>]
       \/ /\ \A i \in 1..Len(fdList) : ~Readable(fdList[i])
          /\ backlog # <<>>
          /\ loop' = [loop EXCEPT !.pc = "accept"]
    /\ UNCHANGED <<serverVars, sock, fdList, backlog, proc>>

\* Mutant: the new socket is not added to the mask.
AcceptUnwatched ==
    LET p == Head(backlog)
    IN  /\ up
        /\ loop.pc = "accept"
        /\ sock' = [sock EXCEPT ![p].at = "open"]
        /\ backlog' = Tail(backlog)
        /\ loop' = [loop EXCEPT !.pc = "read", !.at = p]
        /\ UNCHANGED <<serverVars, fdList, proc>>

Accept ==
    LET p == Head(backlog)
    IN  /\ up
        /\ loop.pc = "accept"
        /\ sock' = [sock EXCEPT ![p].at = "open"]
        /\ fdList' = Append(fdList, p)
        /\ backlog' = Tail(backlog)
        /\ loop' = [loop EXCEPT !.pc = "read", !.at = p]
        /\ UNCHANGED <<serverVars, proc>>

\* handleReq has ended.
Served == loop' = IF loop.more THEN [Selecting EXCEPT !.pc = "accept"] ELSE Selecting

\* fdList.remove: the sockets after p move up.
Without(s, p) ==
    LET Before(j) == \A i \in 1..j : s[i] # p
    IN  IF Before(Len(s)) THEN s
        ELSE [j \in 1..(Len(s) - 1) |-> IF Before(j) THEN s[j] ELSE s[j + 1]]

RemoveFd(p) ==
    /\ sock' = [sock EXCEPT ![p] = IF p \in Tools THEN Unconnected
                                   ELSE [@ EXCEPT !.at = "shut", !.msgs = <<>>]]
    /\ fdList' = Without(fdList, p)
    /\ Served
    /\ UNCHANGED <<backlog, proc>>

\* Sgets fails: the program has gone.
HungUp(p) ==
    /\ sock[p].msgs = <<>>
    /\ sock[p].fin
    /\ IF p \in Clients /\ db.assigned[p] # NoHost
       THEN ClientClose(p) ELSE UNCHANGED serverVars
    /\ RemoveFd(p)

\* The answer is the CPU the database has assigned, or 0.0.0.0.
Answer(p) ==
    /\ \E d \in Dprops : HostReq(p, d)
    /\ sock' = [sock EXCEPT ![p].msgs = <<>>,
                            ![p].replies = IF sock[p].fin THEN <<>> ELSE <<db'.assigned[p]>>]
    /\ Served
    /\ UNCHANGED <<fdList, backlog, proc>>

\* A message of a tool.  One that cannot be parsed closes the socket without
\* a look at what is assigned to it.
Obey(m) ==
    CASE m.kind = "load" -> LdAvg(m.host, m.load)
      [] m.kind = "up" -> StatusUp(m.host)
      [] m.kind = "down" /\ HaveHost(db, m.host) -> StatusDown(m.host)
      [] m.kind = "down" /\ ~HaveHost(db, m.host) -> Serving /\ UNCHANGED serverVars
      [] m.kind = "add" -> RemoteAdd(m.host, m.spec)
      [] m.kind = "monitor" -> Serving /\ UNCHANGED serverVars
      [] m.kind = "malformed" -> UNCHANGED serverVars

\* The server dies in the handler and takes every connection with it.
Crash(m) ==
    /\ m.kind = "up"
    /\ StatusUpUnknown(m.host)
    /\ sock' = [p \in Programs |->
                  CASE p \in Tools -> Unconnected
                    [] p \in Clients /\ Connected(p)
                         -> [sock[p] EXCEPT !.at = "lost", !.msgs = <<>>]
                    [] OTHER -> sock[p]]
    /\ fdList' = <<>>
    /\ backlog' = <<>>
    /\ loop' = Selecting
    /\ UNCHANGED proc

HandleReq ==
    LET p == loop.at
    IN  /\ up
        /\ loop.pc \in {"serve", "read"}
        /\ \/ HungUp(p)
           \/ /\ sock[p].msgs # <<>>
              /\ LET m == Head(sock[p].msgs)
                 IN  IF m.kind = "host" THEN Answer(p)
                     ELSE (Obey(m) /\ RemoveFd(p)) \/ Crash(m)

----------------------------------------------------------------------------
(* The programs.  Their connection is complete as soon as it is queued.    *)

Connect(p) ==
    /\ up
    /\ sock' = [sock EXCEPT ![p] = [Unconnected EXCEPT !.at = "queued"]]
    /\ backlog' = Append(backlog, p)
    /\ UNCHANGED <<serverVars, fdList, loop>>

\* What is written to a socket whose other end has gone is lost.
Written(p, m) == IF Connected(p) THEN [sock[p] EXCEPT !.msgs = <<m>>] ELSE sock[p]

ToolConnects(t) ==
    /\ ~Connected(t)
    /\ Connect(t)
    /\ UNCHANGED proc

\* The tool sends its message and closes, or closes having found no host
\* name or no load average to send.
ToolSends(t) ==
    /\ Connected(t)
    /\ ~sock[t].fin
    /\ \/ \E m \in Sends[t] : sock' = [sock EXCEPT ![t] = [Written(t, m) EXCEPT !.fin = TRUE]]
       \/ sock' = [sock EXCEPT ![t].fin = TRUE]
    /\ UNCHANGED <<serverVars, fdList, backlog, loop, proc>>

At(c, pc) == proc[c].pc = pc

Goes(c, pc) == proc' = [proc EXCEPT ![c].pc = pc]

\* The process ends, and with it the last descriptor of its socket.
Exits(c) ==
    /\ proc' = [proc EXCEPT ![c] = [pc |-> "end", host |-> NoHost, waited |-> 0]]
    /\ sock' = [sock EXCEPT ![c].fin = TRUE, ![c].replies = <<>>]

GetHostOpens(c) ==
    /\ At(c, "start")
    /\ Connect(c)
    /\ Goes(c, "open")

\* Without a server the command runs at once, with an empty DISTCC_HOSTS.
GetHostAlone(c) ==
    /\ At(c, "start")
    /\ ~up
    /\ Goes(c, "run")
    /\ UNCHANGED <<serverVars, sock, fdList, backlog, loop>>

GetHostAsks(c) ==
    /\ At(c, "open")
    /\ \/ /\ sock' = [sock EXCEPT ![c] = Written(c, Request)]
          /\ Goes(c, "wait")
       \/ Exits(c)     \* its own name is unknown
    /\ UNCHANGED <<serverVars, fdList, backlog, loop>>

Reply(c) == Head(sock[c].replies)

HasReply(c) == At(c, "wait") /\ sock[c].replies # <<>>

\* Mutant: the socket is closed before the command runs.
GrantedCloses(c) ==
    /\ HasReply(c)
    /\ Reply(c) # NoHost
    /\ sock' = [sock EXCEPT ![c].replies = <<>>, ![c].fin = TRUE]
    /\ proc' = [proc EXCEPT ![c].pc = "run", ![c].host = Reply(c)]
    /\ UNCHANGED <<serverVars, fdList, backlog, loop>>

Granted(c) ==
    /\ HasReply(c)
    /\ Reply(c) # NoHost
    /\ sock' = [sock EXCEPT ![c].replies = <<>>]
    /\ proc' = [proc EXCEPT ![c].pc = "run", ![c].host = Reply(c)]
    /\ UNCHANGED <<serverVars, fdList, backlog, loop>>

\* The whole seconds since the first request that a refusal may find, as far
\* as the test tells them apart; with a limit the process has slept for one.
Elapsed(c) ==
    LET atLeast == IF Wait[c] > 0 THEN proc[c].waited + 1 ELSE proc[c].waited
    IN  IF atLeast > Wait[c] THEN {Wait[c] + 1} ELSE atLeast .. (Wait[c] + 1)

\* "... || ((end.tv_sec-begin.tv_sec) > timeout)"
KeepsAsking(c, seconds) == Wait[c] = -1 \/ seconds > Wait[c]

AsksAgain(c) ==
    /\ HasReply(c)
    /\ Reply(c) = NoHost
    /\ \E s \in Elapsed(c) :
          /\ KeepsAsking(c, s)
          /\ proc' = [proc EXCEPT ![c].waited = s]
    /\ sock' = [sock EXCEPT ![c] = [Written(c, Request) EXCEPT !.replies = <<>>]]
    /\ UNCHANGED <<serverVars, fdList, backlog, loop>>

GivesUp(c) ==
    /\ HasReply(c)
    /\ Reply(c) = NoHost
    /\ \E s \in Elapsed(c) :
          /\ ~KeepsAsking(c, s)
          /\ proc' = [proc EXCEPT ![c].pc = "run", ![c].waited = s]
    /\ sock' = [sock EXCEPT ![c].replies = <<>>]
    /\ UNCHANGED <<serverVars, fdList, backlog, loop>>

\* Sgets fails: gethost ends and the command is not run.
ServerGone(c) ==
    /\ At(c, "wait")
    /\ ~Connected(c)
    /\ sock[c].replies = <<>>
    /\ Exits(c)
    /\ UNCHANGED <<serverVars, fdList, backlog, loop>>

CommandEnds(c) ==
    /\ At(c, "run") \/ At(c, "orphan")
    /\ Exits(c)
    /\ UNCHANGED <<serverVars, fdList, backlog, loop>>

\* gethost is killed.  A command it has started goes on, and has inherited
\* the socket.
Killed(c) ==
    /\ \/ /\ At(c, "open") \/ At(c, "wait")
          /\ Exits(c)
       \/ /\ At(c, "run")
          /\ Goes(c, "orphan")
          /\ UNCHANGED sock
    /\ UNCHANGED <<serverVars, fdList, backlog, loop>>

----------------------------------------------------------------------------
LoopStep == Select \/ Accept \/ HandleReq

ServerThreads ==
    /\ \/ SilentSearch
       \/ \E h \in Hosts : VisitHost(h)
       \/ \E h \in Hosts : Expire(h)
       \/ Restart
    /\ UNCHANGED clientVars

GetHostStep(c) ==
    \/ GetHostOpens(c)
    \/ GetHostAlone(c)
    \/ GetHostAsks(c)
    \/ Granted(c)
    \/ AsksAgain(c)
    \/ GivesUp(c)
    \/ ServerGone(c)
    \/ CommandEnds(c)
    \/ Killed(c)

ClientsNext ==
    \/ LoopStep
    \/ ServerThreads
    \/ \E t \in Tools : ToolConnects(t) \/ ToolSends(t)
    \/ \E c \in Clients : GetHostStep(c)

\* The main thread waits for a mutex that is free again and again; a search
\* ends; a program that has connected sends or closes, however long it needs
\* to find its host name or its load average.
ClientsFairness ==
    /\ SF_allVars(LoopStep)
    /\ WF_allVars((\E h \in Hosts : VisitHost(h)) /\ UNCHANGED clientVars)
    /\ \A t \in Tools : WF_allVars(ToolSends(t))
    /\ \A c \in Clients : WF_allVars(GetHostAsks(c))

ClientsSpec == ClientsInit /\ [][ClientsNext]_allVars /\ ClientsFairness

----------------------------------------------------------------------------
(* Properties.                                                             *)

\* The CPU belongs to the command for as long as it runs (gethost.cc:246-270),
\* also when the gethost that started it has been killed, and until the server
\* is lost: nobody else is given it.
CpuWhileRunning ==
    \A c \in Clients :
        (At(c, "run") \/ At(c, "orphan")) /\ proc[c].host # NoHost
            => db.assigned[c] = proc[c].host \/ sock[c].at = "lost"

\* The CPU of a command that has ended is released, unless processes that
\* are refused keep asking: the loop serves the first socket it can read,
\* and those may always be in front.
CpusComeBack ==
    <>[][\A c \in Clients : ~AsksAgain(c)]_allVars =>
        \A c \in Clients :
            (db.assigned[c] # NoHost /\ sock[c].fin) ~> db.assigned[c] = NoHost

=============================================================================
