--------------------------- MODULE DistccSession ---------------------------
(***************************************************************************)
(* What comes before a request: the client connects (clinet.c), the server *)
(* checks its address (srvnet.c, access.c), and if either end is told to,  *)
(* the two authenticate each other through GSS-API (auth_distcc.c,         *)
(* auth_distccd.c, auth_common.c).  Then the request of DistccRpc runs     *)
(* over the same connection.  Nothing negotiates whether to authenticate:  *)
(* each end goes by its own options.  Over ssh (ssh.c) there is no socket  *)
(* to listen on and no address to check or to authenticate.                *)
(***************************************************************************)
EXTENDS DistccRpc, Integers

CONSTANTS
    Peers,      \* addresses with the allow list they meet
    Logins,     \* principals with the list file they meet
    Addresses   \* how many addresses the name of the server has

VARIABLES
    cs,         \* the client: "connect", "hello", "answer", "init", "token",
                \* "note", then "request"
    ss,         \* the server: "access", "hello", "token", "list", then "job"
    leg,        \* the next call of each end to the mechanism
    conf,       \* the options of the two ends, the mechanism and the socket
    left,       \* addresses the client has not tried
    permitted,  \* the lists of the server let this client in
    late        \* the client has not waited long enough

session == <<cs, ss, leg, conf, left, permitted, late>>
svars == <<vars, session>>

SessionTypeOK ==
    /\ cs \in {"connect", "hello", "answer", "init", "token", "note", "request"}
    /\ ss \in {"access", "hello", "token", "list", "job"}
    /\ leg \in [client : {1, 3}, server : {2, 4, 6}]
    /\ conf \in [client : BOOLEAN, server : BOOLEAN, listens : BOOLEAN, ssh : BOOLEAN,
                 legs : {2, 3}, flags : BOOLEAN]
    /\ left \in 0..Addresses /\ permitted \in BOOLEAN /\ late \in BOOLEAN

-----------------------------------------------------------------------------
(***************************************************************************)
(* Addresses, scaled down: bytes of two bits, an IPv4 address of two and   *)
(* an IPv6 address of four of them.                                        *)
(***************************************************************************)
ByteBits == 2
Ones8 == 2^ByteBits - 1
Bytes(family) == IF family = "inet" THEN 2 ELSE 4
Width(family) == ByteBits * Bytes(family)

Families == {"inet", "inet6"}
IsAddress(a) == a.family \in Families /\ a.addr \in [1..Bytes(a.family) -> 0..Ones8]

\* dcc_parse_mask refuses a mask that is longer than an address.
ASSUME PeersAssumption ==
    \A p \in Peers :
        /\ IsAddress(p.client)
        /\ \A i \in DOMAIN p.allowed : IsAddress(p.allowed[i]) /\ p.allowed[i].bits \in 0..Width(p.allowed[i].family)
ASSUME LoginsAssumption ==
    \A l \in Logins : l.mode \in {"none", "black", "white"} /\ l.principal \in Int /\ l.lines \in Seq(Int)

Number(bytes) ==
    LET upto[n \in 0..Len(bytes)] == IF n = 0 THEN 0 ELSE upto[n - 1] * (Ones8 + 1) + bytes[n]
    IN  upto[Len(bytes)]

Ones == 2^Width("inet") - 1

\* A number as the set of its bits, on which & is the intersection.
BitsOf(n) == {b \in 0..(Width("inet") - 1) : (n \div 2^b) % 2 = 1}

SetMaskInet(bits) == Ones - Ones \div 2^bits

SetMaskInet6(bits) ==
    LET whole == bits \div ByteBits
    IN  [i \in 1..Bytes("inet6") |->
            IF i <= whole THEN Ones8
            ELSE IF i = whole + 1 THEN Ones8 - Ones8 \div 2^(bits % ByteBits)
            ELSE 0]

\* IN6_IS_ADDR_V4MAPPED and IN6_IS_ADDR_V4COMPAT
IsV4(bytes) == SubSeq(bytes, 1, 2) \in {<<0, Ones8>>, <<0, 0>>}

InetFromInet6(bytes) == SubSeq(bytes, 3, 4)

CheckInet(cli, entry) ==
    LET mask == BitsOf(SetMaskInet(entry.bits))
    IN  BitsOf(Number(cli)) \cap mask = BitsOf(Number(entry.addr)) \cap mask

CheckInet6(cli, entry) ==
    LET mask == SetMaskInet6(entry.bits)
    IN  \A i \in 1..Bytes("inet6") :
            BitsOf(cli[i]) \cap BitsOf(mask[i]) = BitsOf(entry.addr[i]) \cap BitsOf(mask[i])

CheckEntry(cli, entry) ==
    IF cli.family = "inet"
    THEN entry.family = "inet" /\ CheckInet(cli.addr, entry)
    ELSE IF entry.family = "inet"
         THEN IsV4(cli.addr) /\ CheckInet(InetFromInet6(cli.addr), entry)
         ELSE CheckInet6(cli.addr, entry)

\* dcc_check_client; without a list everyone may come in.
CheckClient(cli, allowed) ==
    allowed = <<>> \/ \E i \in DOMAIN allowed : CheckEntry(cli, allowed[i])

(***************************************************************************)
(* dcc_gssapi_bin_search over the sorted lines of the list file; a         *)
(* principal is a number, its order that of strcmp.                        *)
(***************************************************************************)
\* Mutant: the search ends one step early.
BinSearchShort(list, key) ==
    LET found[span \in (1..(Len(list) + 1)) \X (0..Len(list))] ==
            LET middle == (span[1] + span[2]) \div 2
            IN  /\ span[1] < span[2]
                /\ \/ key = list[middle]
                   \/ key < list[middle] /\ found[<<span[1], middle - 1>>]
                   \/ key > list[middle] /\ found[<<middle + 1, span[2]>>]
    IN  found[<<1, Len(list)>>]

BinSearch(list, key) ==
    LET found[span \in (1..(Len(list) + 1)) \X (0..Len(list))] ==
            LET bottom == span[1]
                top == span[2]
                middle == (bottom + top) \div 2
            IN  /\ bottom <= top
                /\ \/ key = list[middle]
                   \/ key < list[middle] /\ found[<<bottom, middle - 1>>]
                   \/ key > list[middle] /\ found[<<middle + 1, top>>]
    IN  found[<<1, Len(list)>>]

\* An order of the lines in which none is smaller than one before it.
Sorts(order, lines) ==
    /\ \A j \in DOMAIN lines : \E i \in DOMAIN lines : order[i] = j
    /\ \A i, j \in DOMAIN lines : i < j => lines[order[i]] <= lines[order[j]]

\* dcc_gssapi_obtain_list, with qsort
ReadList(lines) ==
    LET order == CHOOSE p \in [DOMAIN lines -> DOMAIN lines] : Sorts(p, lines)
    IN  [i \in DOMAIN lines |-> lines[order[i]]]

CheckList(login) ==
    \/ login.mode = "none"
    \/ login.mode = "black" /\ ~BinSearch(ReadList(login.lines), login.principal)
    \/ login.mode = "white" /\ BinSearch(ReadList(login.lines), login.principal)

(***************************************************************************)
(* dcc_socket_listen: the address bound is always the first one, on a      *)
(* socket of the first family the kernel supports.                         *)
(***************************************************************************)
Listens(families, supported) ==
    \E i \in DOMAIN families :
        /\ families[i] \in supported
        /\ \A j \in 1..(i - 1) : families[j] \notin supported
        /\ families[i] = families[1]

SessionInit ==
    /\ Init
    /\ cs = "connect" /\ ss = "access"
    /\ leg = [client |-> 1, server |-> 2]
    /\ left = Addresses /\ permitted = TRUE /\ late = FALSE
    /\ \E supported \in SUBSET {"inet", "inet6"} :
          conf \in [client : BOOLEAN, server : BOOLEAN, ssh : BOOLEAN, legs : {2, 3},
                    flags : BOOLEAN, listens : {Listens(<<"inet6", "inet">>, supported)}]

-----------------------------------------------------------------------------
(***************************************************************************)
(* The client.                                                             *)
(***************************************************************************)
ClientRefuses == ClientEnds("error") /\ UNCHANGED cs

ClientOn(next) == cs' = next /\ UNCHANGED <<cpc, cat, cret>>

KeepClient == UNCHANGED <<cstatus, output, deps>>
KeepServer == UNCHANGED <<server, ss>>

(***************************************************************************)
(* dcc_connect_by_name tries one address after the other, each of them     *)
(* with its repetitions and its time limit (dcc_connect_by_addr);          *)
(* dcc_ssh_connect starts a process.  To authenticate, the address of the  *)
(* server is looked up, which a pipe or a pair of sockets does not have.   *)
(***************************************************************************)
Reachable == conf.listens \/ conf.ssh

Connect ==
    /\ cs = "connect" /\ ClientOpen /\ Reachable
    /\ IF conf.client /\ conf.ssh THEN ClientEnds("error") /\ cs' = "hello"
       ELSE ClientOn(IF conf.client THEN "hello" ELSE "request")
    /\ KeepClient /\ KeepServer
    /\ UNCHANGED <<request, c2s, s2c, up, faults, leg, conf, left, permitted, late>>

ConnectFails ==
    /\ cs = "connect" /\ ClientOpen
    /\ Reachable => faults < MaxFaults
    /\ faults' = faults + (IF Reachable THEN 1 ELSE 0)
    /\ left' = left - 1
    /\ IF left > 1 /\ ~conf.ssh THEN UNCHANGED <<cpc, cat, cret, spc>>
                   ELSE ClientEnds("error") /\ spc' = "done"
    /\ KeepClient
    /\ UNCHANGED <<request, c2s, s2c, up, cs, ss, leg, conf, permitted, late,
                   sat, input, compiled, sret>>

SendHandshake ==
    /\ cs = "hello" /\ ClientOpen
    /\ \E r \in Put(c2s, ServerOpen, "*", "*") :
          /\ c2s' = r.chan
          /\ IF r.ok THEN ClientOn("answer") ELSE ClientRefuses
    /\ KeepClient /\ KeepServer
    /\ UNCHANGED <<request, s2c, up, faults, leg, conf, left, permitted, late>>

TakeAnswer(tok) == Take(s2c, ~ServerOpen \/ ~up, tok, FALSE)

ReadHandshake ==
    /\ cs = "answer" /\ ClientOpen
    /\ \E r \in TakeAnswer("*") :
          /\ s2c' = r.chan
          /\ IF r.tok THEN ClientOn("init") ELSE ClientRefuses
    /\ KeepClient /\ KeepServer
    /\ UNCHANGED <<request, c2s, up, faults, leg, conf, left, permitted, late>>

\* send_token, if the call has produced one.
PutToken(chan, open, call) ==
    IF call <= conf.legs THEN Put(chan, open, "TLEN", "TLEN") ELSE {Sent(TRUE, chan, 0)}

(***************************************************************************)
(* gss_init_sec_context: the odd calls of the mechanism.  A call may       *)
(* produce a token and may be the last one of its end.                     *)
(***************************************************************************)
InitContext ==
    /\ cs = "init" /\ ClientOpen
    /\ \E r \in PutToken(c2s, ServerOpen, leg.client) :
          /\ c2s' = r.chan
          /\ IF ~r.ok THEN ClientRefuses
             ELSE IF leg.client < conf.legs THEN ClientOn("token")
             ELSE IF conf.flags THEN ClientOn("note") ELSE ClientRefuses
    /\ KeepClient /\ KeepServer
    /\ UNCHANGED <<request, s2c, up, faults, leg, conf, left, permitted, late>>

ReadToken ==
    /\ cs = "token" /\ ClientOpen
    /\ \E r \in TakeAnswer("TLEN") :
          /\ s2c' = r.chan
          /\ IF Complete(r) THEN ClientOn("init") ELSE ClientRefuses
    /\ leg' = [leg EXCEPT !.client = @ + 2]
    /\ KeepClient /\ KeepServer
    /\ UNCHANGED <<request, c2s, up, faults, conf, left, permitted, late>>

\* Mutant: the answer is taken for a yes.
ReadAnyNotification ==
    /\ cs = "note" /\ ClientOpen
    /\ \E r \in TakeAnswer("NOTE") :
          /\ s2c' = r.chan
          /\ IF r.tok THEN ClientOn("request") ELSE ClientRefuses
    /\ KeepClient /\ KeepServer
    /\ UNCHANGED <<request, c2s, up, faults, leg, conf, left, permitted, late>>

ReadNotification ==
    /\ cs = "note" /\ ClientOpen
    /\ \E r \in TakeAnswer("NOTE") :
          /\ s2c' = r.chan
          /\ IF r.tok /\ r.body = "y" THEN ClientOn("request") ELSE ClientRefuses
    /\ KeepClient /\ KeepServer
    /\ UNCHANGED <<request, c2s, up, faults, leg, conf, left, permitted, late>>

\* The handshake and the notification are waited for one second, a token
\* DISTCC_IO_TIMEOUT.
SessionTimesOut ==
    /\ ClientOpen
    /\ \/ cs = "answer" /\ TakeAnswer("*") = {}
       \/ cs = "token" /\ TakeAnswer("TLEN") = {}
       \/ cs = "note" /\ TakeAnswer("NOTE") = {}
    /\ late' = TRUE /\ ClientRefuses
    /\ KeepClient /\ KeepServer
    /\ UNCHANGED <<request, c2s, s2c, up, faults, leg, conf, left, permitted>>

-----------------------------------------------------------------------------
(***************************************************************************)
(* The server.                                                             *)
(***************************************************************************)
ServerRefuses == spc' = "done" /\ UNCHANGED ss

ServerOn(next) == ss' = next /\ UNCHANGED spc

KeepJob == UNCHANGED <<sat, input, compiled, sret>>
KeepCaller == UNCHANGED <<client, cs, late, left, conf>>

(***************************************************************************)
(* The networks of the list, as --allow describes them: the addresses that *)
(* begin with the same bits; those of IPv4 also in their IPv6 notation.    *)
(***************************************************************************)
Covers(entry, cli) ==
    LET addr == IF entry.family = "inet" /\ cli.family = "inet6"
                THEN InetFromInet6(cli.addr) ELSE cli.addr
        rest == 2^(Width(entry.family) - entry.bits)
    IN  /\ \/ entry.family = cli.family
           \/ entry.family = "inet" /\ IsV4(cli.addr)
        /\ Number(addr) \div rest = Number(entry.addr) \div rest

\* What the code finds of each peer, beside what it ought to find.
Visits ==
    {[granted |-> CheckClient(p.client, p.allowed),
      ought |-> p.allowed = <<>> \/ \E i \in DOMAIN p.allowed : Covers(p.allowed[i], p.client)] :
         p \in Peers}

\* The server ssh starts has no allow list (dcc_ssh_connect).
CheckAddress ==
    /\ ss = "access" /\ ServerOpen /\ cs # "connect"
    /\ \E v \in IF conf.ssh THEN {[granted |-> TRUE, ought |-> TRUE]} ELSE Visits :
          /\ permitted' = v.ought
          /\ IF v.granted
             THEN ServerOn(IF conf.server THEN "hello" ELSE "job")
             ELSE ServerRefuses
    /\ KeepJob /\ KeepCaller
    /\ UNCHANGED <<request, c2s, s2c, up, faults, leg>>

TakeAsked(tok) == Take(c2s, ~ClientOpen \/ ~up, tok, FALSE)

AnswerHandshake ==
    /\ ss = "hello" /\ ServerOpen
    /\ \E r \in TakeAsked("*") :
          /\ c2s' = r.chan
          /\ \/ ~r.tok /\ ServerRefuses /\ UNCHANGED s2c
             \/ r.tok /\ \E w \in Put(s2c, ClientOpen, "*", "*") :
                   s2c' = w.chan /\ IF w.ok THEN ServerOn("token") ELSE ServerRefuses
    /\ KeepJob /\ KeepCaller
    /\ UNCHANGED <<request, up, faults, leg, permitted>>

(***************************************************************************)
(* recv_token and gss_accept_sec_context: the even calls.  Flags that do   *)
(* not match end the connection without a notification.                    *)
(***************************************************************************)
AcceptContext ==
    /\ ss = "token" /\ ServerOpen
    /\ \E r \in TakeAsked("TLEN") :
          /\ c2s' = r.chan
          /\ \/ ~Complete(r) /\ ServerRefuses /\ UNCHANGED s2c
             \/ /\ Complete(r)
                /\ \E w \in PutToken(s2c, ClientOpen, leg.server) :
                      /\ s2c' = w.chan
                      /\ IF ~w.ok THEN ServerRefuses
                         ELSE IF leg.server < conf.legs THEN ServerOn("token")
                         ELSE IF conf.flags THEN ServerOn("list") ELSE ServerRefuses
    /\ leg' = [leg EXCEPT !.server = @ + 2]
    /\ KeepJob /\ KeepCaller
    /\ UNCHANGED <<request, up, faults, permitted>>

\* The same of each principal.
Grants ==
    {[granted |-> CheckList(l),
      ought |-> l.mode = "none" \/ (l.mode = "white" <=> \E i \in DOMAIN l.lines : l.lines[i] = l.principal)] :
         l \in Logins}

NotifyClient ==
    /\ ss = "list" /\ ServerOpen
    /\ \E g \in Grants :
          /\ permitted' = g.ought
          /\ \E w \in Put(s2c, ClientOpen, "NOTE", IF g.granted THEN "y" ELSE "n") :
                /\ s2c' = w.chan
                /\ IF w.ok /\ g.granted THEN ServerOn("job") ELSE ServerRefuses
    /\ KeepJob /\ KeepCaller
    /\ UNCHANGED <<request, c2s, up, faults, leg>>

\* A call of the mechanism fails: no credentials, another server's name.
ClientMechanismFails ==
    /\ cs = "init" /\ ClientOpen /\ faults < MaxFaults
    /\ faults' = faults + 1 /\ ClientRefuses
    /\ KeepClient /\ KeepServer
    /\ UNCHANGED <<request, c2s, s2c, up, leg, conf, left, permitted, late>>

ServerMechanismFails ==
    /\ ss = "token" /\ ServerOpen /\ faults < MaxFaults
    /\ c2s # <<>> /\ faults' = faults + 1 /\ c2s' = Tail(c2s) /\ ServerRefuses
    /\ KeepJob /\ KeepCaller
    /\ UNCHANGED <<request, s2c, up, leg, permitted>>

-----------------------------------------------------------------------------
(***************************************************************************)
(* A server that does not authenticate waits for the rest of a token after *)
(* the one character of the handshake.                                     *)
(***************************************************************************)
HandshakeOnly == c2s # <<>> /\ Head(c2s).tok = "*" /\ ClientOpen /\ up

ClientSide ==
    \/ Connect \/ ConnectFails \/ SendHandshake \/ ReadHandshake \/ InitContext
    \/ ReadToken \/ ReadNotification \/ SessionTimesOut
    \/ cs = "request" /\ ClientStep /\ UNCHANGED session

ServerSide ==
    \/ CheckAddress \/ AnswerHandshake \/ AcceptContext \/ NotifyClient
    \/ ss = "job" /\ ~HandshakeOnly /\ ServerStep /\ UNCHANGED session

Trouble ==
    \/ ClientMechanismFails \/ ServerMechanismFails
    \/ cs = "request" /\ ClientFailure /\ UNCHANGED session
    \/ ss = "job" /\ ServerFailure /\ UNCHANGED session
    \/ cs # "connect" /\ Break /\ UNCHANGED session

SessionNext == ClientSide \/ ServerSide \/ Trouble \/ (Finished /\ UNCHANGED session)

SessionFairness == WF_svars(ClientSide) /\ WF_svars(ServerSide)

SessionSpec == SessionInit /\ [][SessionNext]_svars /\ SessionFairness

-----------------------------------------------------------------------------
(***************************************************************************)
(* A client told to authenticate sends nothing of its request before the   *)
(* server has let it in, whichever message is lost or refused              *)
(* (dcc_gssapi_perform_requested_security, before dcc_send_header).        *)
(***************************************************************************)
LetInFirst == cs = "request" /\ conf.client => conf.server /\ ss = "job"

(***************************************************************************)
(* The two ends agree on who may do what: only a client the lists of the   *)
(* server let in has its job done; and as long as nothing fails and the    *)
(* options of the ends match, no one else is turned away, by either end.   *)
(***************************************************************************)
SessionsAgree ==
    /\ ss = "job" => permitted
    /\ faults = 0 /\ ~late /\ conf.client = conf.server /\ Reachable
           /\ (conf.client => conf.flags /\ ~conf.ssh) =>
          /\ ~ServerOpen /\ ss # "job" => ~permitted
          /\ ~ClientOpen /\ cs # "request" => ~permitted

(***************************************************************************)
(* As soon as both ends have come to the request, its scripts agree.       *)
(***************************************************************************)
JobScriptsAgree == cs = "request" /\ ss = "job" => ScriptsAgree
=============================================================================
