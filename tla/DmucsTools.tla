----------------------------- MODULE DmucsTools -----------------------------
(***************************************************************************)
(* The texts between the dmucs server and its surroundings: the message    *)
(* addhost, remhost, loadavg and gethost make of their command line and    *)
(* the server of its words; the hosts-info file, read and appended to; the *)
(* page the server sends to a monitor, and what the monitor posts to the   *)
(* applications of its machine of as much of it as its buffer holds.       *)
(*                                                                         *)
(* A text is a sequence of words or lines, an address a number.            *)
(***************************************************************************)
EXTENDS DmucsServer
LOCAL INSTANCE SequencesExt
LOCAL INSTANCE TLC

CONSTANTS
    AddrOf,     \* the address of each host: they are sorted by it
    Namings,    \* what the resolver may call the addresses
    Rooms,      \* how many elements of a page a buffer may hold
    Commands,   \* command lines: [prog, opts, own], see Sent
    FileTexts   \* hosts-info files: [lines, ended, named], see ReadFileIntoDb

ASSUME DmucsToolsAssumption ==
    /\ AddrOf \in [Hosts -> Nat \ {0}]
    /\ \A g, h \in Hosts : AddrOf[g] = AddrOf[h] /\ DpropOf[g] = DpropOf[h] => g = h
    /\ \A called \in Namings : DOMAIN called = {0} \cup {AddrOf[h] : h \in Hosts}
    /\ Rooms \subseteq Nat

----------------------------------------------------------------------------
(* The tools.  An option is [name, vals].                                  *)

Needs(name) == CASE name = "-D" -> 0 [] name = "-A" -> 2 [] OTHER -> 1

Knows(prog) ==
    {"-s", "-p", "-t", "-D"}
        \cup IF prog \in {"addhost", "remhost"} THEN {"-ip", "--host", "-A"} ELSE {}

\* remhost and gethost stop at what they do not know: the command to run.
Options(command) ==
    LET Known(i) == command.opts[i].name \in Knows(command.prog)
    IN  SelectSeq([i \in 1..Len(command.opts) |-> [o |-> command.opts[i], before |-> \A j \in 1..i : Known(j)]],
                  LAMBDA x : x.before)

\* usage(): an option without its values, or one that loadavg does not know.
Misused(command) ==
    \/ \E i \in 1..Len(Options(command)) :
          LET option == Options(command)[i].o IN Len(option.vals) < Needs(option.name)
    \/ command.prog = "loadavg" /\ Len(Options(command)) < Len(command.opts)

\* The values of an option: the last of its name counts.
Given(command, name, default) ==
    LET options == Options(command)
        given == {i \in 1..Len(options) : options[i].o.name = name}
    IN  IF given = {} THEN default
        ELSE options[CHOOSE i \in given : \A j \in given : j <= i].o.vals

\* gethostbyname: the names that it knows are the addresses themselves.
Resolved(name) == IF name = 0 THEN <<>> ELSE <<name>>

\* The address of the message; own is what the machine's name resolves to,
\* and <<>> if it does not.  -ip replaces what has been resolved.
Address(command) ==
    LET host == Given(command, "--host", <<>>)
        resolved == IF host = <<>> THEN command.own ELSE Resolved(host[1])
    IN  IF resolved = <<>> THEN <<>> ELSE Given(command, "-ip", resolved)

Num(n) == [num |-> TRUE, val |-> n]
Word(w) == [num |-> FALSE, val |-> w]

\* What is written to the socket: <<>> if the tool ends before.  A type that
\* is the empty string leaves no word.
Sent(command) ==
    LET distingProp == Given(command, "-t", <<>>)
        add == Given(command, "-A", <<>>)
        op == IF add # <<>> THEN "add" ELSE IF command.prog = "addhost" THEN "up" ELSE "down"
    IN  IF Misused(command) \/ Address(command) = <<>> THEN <<>>
        ELSE CASE command.prog \in {"addhost", "remhost"} ->
                     <<Word("status"), Word(Address(command)[1]), Word(op)>> \o distingProp \o add
               [] command.prog = "loadavg" ->
                     <<Word("load"), Word(command.own[1])>> \o command.load \o distingProp
               [] command.prog = "gethost" ->
                     <<Word("host"), Word(command.own[1])>> \o distingProp

----------------------------------------------------------------------------
(* parseMsg: %s takes any word, %d and %f only a number.                   *)

Scanned(format, words) ==
    LET Fits(n) == \A i \in 1..n : format[i] = "s" \/ words[i].num
        most == IF Len(words) < Len(format) THEN Len(words) ELSE Len(format)
    IN  CHOOSE n \in 0..most : Fits(n) /\ (n = most \/ ~Fits(n + 1))

Malformed == [kind |-> "malformed"]

\* Mutant: the type that the first scan has read is kept.
ParseStatusKeeps(w) ==
    IF Scanned(<<"s", "s", "s", "d", "d">>, w) >= 3
    THEN [kind |-> w[2].val, addr |-> w[1].val, type |-> <<w[3]>>, spec |-> SubSeq(w, Len(w) - 1, Len(w))]
    ELSE [kind |-> w[2].val, addr |-> w[1].val, type |-> <<>>, spec |-> <<>>]

\* The four scans.  A message without numbers has the spec <<>>, for 1 and 1.
ParseStatus(w) ==
    LET Told(type, spec) == [kind |-> w[2].val, addr |-> w[1].val, type |-> type, spec |-> spec]
    IN  CASE Scanned(<<"s", "s", "s", "d", "d">>, w) = 5 -> Told(<<w[3]>>, <<w[4], w[5]>>)
          [] Scanned(<<"s", "s", "d", "d">>, w) = 4 -> Told(<<>>, <<w[3], w[4]>>)
          [] Scanned(<<"s", "s", "s">>, w) = 3 -> Told(<<w[3]>>, <<>>)
          [] Scanned(<<"s", "s">>, w) = 2 -> Told(<<>>, <<>>)
          [] OTHER -> Malformed

ParseLoad(w) ==
    LET Told(type) == [kind |-> "load", addr |-> w[1].val, type |-> type, load |-> SubSeq(w, 2, 4)]
    IN  CASE Scanned(<<"s", "d", "d", "d", "s">>, w) = 5 -> Told(<<w[5]>>)
          [] Scanned(<<"s", "d", "d", "d">>, w) = 4 -> Told(<<>>)
          [] OTHER -> Malformed

ParseHost(w) ==
    IF w = <<>> THEN Malformed
    ELSE [kind |-> "host", addr |-> w[1].val, type |-> SubSeq(w, 2, Scanned(<<"s", "s">>, w))]

ParseMsg(words) ==
    LET rest == Tail(words)
    IN  CASE Head(words).val = "host" -> ParseHost(rest)
          [] Head(words).val = "load" -> ParseLoad(rest)
          [] Head(words).val = "status" -> ParseStatus(rest)
          [] Head(words).val = "monitor" -> [kind |-> "monitor"]
          [] OTHER -> Malformed

----------------------------------------------------------------------------
(* The hosts-info file.  A line is [kind, addr, spec]: a comment, a line   *)
(* that cannot be read, one whose machine has no address, or an entry.     *)
(* "ended" says that the last line has its end; gethostbyaddr finds the    *)
(* addresses of "named", without which no line of an address is an entry.  *)

Entries(lines) ==
    LET bad == {i \in 1..Len(lines) : lines[i].kind = "bad"}
        end == IF bad = {} THEN Len(lines) ELSE (CHOOSE i \in bad : \A j \in bad : i <= j) - 1
    IN  SelectSeq(SubSeq(lines, 1, end), LAMBDA line : line.kind = "entry")

\* db_.insert: the first entry of an address stays.
ReadFileIntoDb(text) ==
    LET entries == Entries(text.lines)
        First(i) == \A j \in 1..(i - 1) : entries[j].addr # entries[i].addr
    IN  {[addr |-> entries[i].addr, spec |-> entries[i].spec] : i \in {j \in 1..Len(entries) : First(j)}}

\* Read again if it has changed, and if the host is not found.
GetDataForHost(text, addr) == {e.spec : e \in {f \in ReadFileIntoDb(text) : f.addr = addr}}

\* The line is put behind the last one: behind its last digit if it has no
\* end, which is then read as another number, or in its comment.
SetDataForHost(text, addr, spec) ==
    LET line == [kind |-> IF addr \in text.named THEN "entry" ELSE "unknown",
                 addr |-> addr, spec |-> spec]
        n == Len(text.lines)
    IN  IF GetDataForHost(text, addr) # {} THEN text
        ELSE IF text.ended \/ n = 0
        THEN [text EXCEPT !.lines = Append(@, line), !.ended = TRUE]
        ELSE [text EXCEPT !.lines[n].spec.pindex = 10 * @ + 1, !.ended = TRUE]

----------------------------------------------------------------------------
(* The page of the server.                                                 *)

StateAsInt == [Avail |-> 1, Unavail |-> 2, Overloaded |-> 3, Silent |-> 4]

ByAddress(hosts) == SetToSortSeq(hosts, LAMBDA g, h : AddrOf[g] < AddrOf[h])

ListedAt(d, t) == {h \in Hosts : DpropOf[h] = d /\ db.cpus[h][t] > 0}

TierHead(t) == <<[line |-> "tier", tier |-> t]>>

CpusItem(h, t) == [line |-> "cpus", addr |-> AddrOf[h], ncpus |-> db.cpus[h][t]]

\* Mutant: the last address of the sorted list is not counted.
TierLineShort(d, t) ==
    TierHead(t) \o Front([i \in 1..Cardinality(ListedAt(d, t)) |-> CpusItem(ByAddress(ListedAt(d, t))[i], t)])

TierLine(d, t) ==
    TierHead(t) \o [i \in 1..Cardinality(ListedAt(d, t)) |-> CpusItem(ByAddress(ListedAt(d, t))[i], t)]

\* A type, its hosts in whatever state, and its tiers that list any CPU from
\* the highest down.
SerializeDprop(d) ==
    LET all == {h \in Hosts : HaveHost(db, h) /\ DpropOf[h] = d}
        hosts == ByAddress(all)
        tiers == SetToSortSeq({t \in db.tiers[d] : ListedAt(d, t) # {}}, >)
    IN  <<[line |-> "type", type |-> d]>>
        \o [i \in 1..Len(hosts) |-> [line |-> "host", addr |-> AddrOf[hosts[i]],
                                    state |-> StateAsInt[db.state[hosts[i]]],
                                    load |-> db.load[hosts[i]]]]
        \o FlattenSeq([i \in 1..Len(tiers) |-> TierLine(d, tiers[i])])

\* A type has a database once it has had a host.
Serialize ==
    LET types == SetToSeq({DpropOf[h] : h \in {g \in Hosts : HaveHost(db, g)}})
    IN  FlattenSeq([i \in 1..Len(types) |-> SerializeDprop(types[i])])

\* What is left of the element in which the page is cut: of a number its
\* first digits, a smaller one; of what has not come anything.
Elsewhere == 0

Cut(e) ==
    CASE e.line = "host" ->
           {<<[e EXCEPT !.addr = a, !.state = s]>> :
               a \in {Elsewhere} \cup {AddrOf[h] : h \in Hosts}, s \in 0..4}
      [] e.line = "cpus" -> {<<[e EXCEPT !.ncpus = n]>> : n \in 1..e.ncpus}
      [] OTHER -> {<<>>}

\* Sgets, until the null byte or until the buffer is full.
Sgets(page, room) ==
    IF Len(page) <= room THEN {page}
    ELSE {SubSeq(page, 1, room) \o rest : rest \in {<<>>} \cup Cut(page[room + 1])}

----------------------------------------------------------------------------
(* The monitor.                                                            *)

\* The list each state is printed in; any other int is of unknown state.
Heading(state) ==
    CASE state = 1 -> "Avail" [] state = 2 -> "Unavail"
      [] state = 3 -> "Overloaded" [] state = 4 -> "Silent"
      [] OTHER -> "Unknown state"

NothingPosted == [n \in {} |-> 0]

\* Hosts, the tier and type being read, the names collected by state, and
\* what has been printed.
Blank == [hosts |-> NothingPosted, tier |-> 0, type |-> <<>>, lists |-> {}, printed |-> <<>>]

DumpSummaryInfo(p) == [p EXCEPT !.printed = Append(@, [type |-> p.type, lists |-> p.lists]),
                                !.lists = {}]

\* A host is posted under its name, or its address if the resolver knows
\* none: one that has the name of an earlier one replaces it.
ParseHostLine(p, e, called) ==
    LET name == called[e.addr]
        info == [ip |-> e.addr, status |-> e.state, load |-> e.load, cpus |-> <<>>]
    IN  [p EXCEPT !.hosts = (name :> info) @@ @,
                  !.lists = @ \cup {[heading |-> Heading(e.state), name |-> name]}]

ParseCpusItem(p, e, called) ==
    LET name == called[e.addr]
    IN  IF name \in DOMAIN p.hosts
        THEN [p EXCEPT !.hosts[name].cpus = <<[tier |-> p.tier, ncpus |-> e.ncpus, type |-> p.type]>>]
        ELSE p

ParseResults(text, called) ==
    LET Read(p, e) ==
            CASE e.line = "type" -> [DumpSummaryInfo(p) EXCEPT !.type = <<e.type>>]
              [] e.line = "host" -> ParseHostLine(p, e, called)
              [] e.line = "tier" -> [p EXCEPT !.tier = e.tier]
              [] e.line = "cpus" -> ParseCpusItem(p, e, called)
    IN  DumpSummaryInfo(FoldLeft(Read, Blank, text))

\* A round of the monitor: what it reads, what it posts, and whether there is
\* another one.  Nothing is posted of a server that cannot be reached, or
\* that goes before the end of its page; the latter ends the monitor.
Round(answer, called) ==
    CASE answer.kind = "refused" -> [posted |-> NothingPosted, printed |-> <<>>, again |-> TRUE]
      [] answer.kind = "lost" -> [posted |-> NothingPosted, printed |-> <<>>, again |-> FALSE]
      [] answer.kind = "text" ->
           LET p == ParseResults(answer.text, called)
           IN  [posted |-> p.hosts, printed |-> p.printed, again |-> TRUE]

Answers(page, room) ==
    IF up THEN {[kind |-> "text", text |-> t] : t \in Sgets(page, room)} \cup {[kind |-> "lost"]}
    ELSE {[kind |-> "refused"]}

----------------------------------------------------------------------------
(* Properties.                                                             *)

\* The server understands of a command what was meant with it, although the
\* type and the numbers of its message may be missing (dmucs_msg.cc:81-100).
CommandsMeant ==
    \A command \in Commands :
        LET words == Sent(command)
            m == ParseMsg(words)
            add == Given(command, "-A", <<>>)
        IN  words # <<>> =>
                /\ m.addr = Address(command)[1]
                /\ m.type = Given(command, "-t", <<>>)
                /\ m.kind = CASE command.prog = "loadavg" -> "load"
                              [] command.prog = "gethost" -> "host"
                              [] add # <<>> -> "add"
                              [] command.prog = "addhost" -> "up"
                              [] OTHER -> "down"
                /\ m.kind = "add" => m.spec = add
                /\ m.kind = "load" => m.load = command.load

\* An entry that is appended changes no other one, and is found from then
\* on, unless the file has a line that cannot be read, or one without its
\* end, or the address has no name (dmucs_hosts_file.cc:95-116, 166-177).
AppendsLast ==
    \A text \in FileTexts, h \in Hosts, spec \in Specs :
        LET after == SetDataForHost(text, AddrOf[h], spec)
        IN  /\ text.ended => ReadFileIntoDb(text) \subseteq ReadFileIntoDb(after)
            /\ /\ text.ended /\ AddrOf[h] \in text.named
               /\ \A i \in 1..Len(text.lines) : text.lines[i].kind # "bad"
               => GetDataForHost(after, AddrOf[h]) # {}

\* What the page should say of h.
StateTrue(h, info) ==
    info.ip = AddrOf[h] /\ info.status = StateAsInt[db.state[h]] /\ info.load = db.load[h]

Offers(h) ==
    IF IsAvail(db, h) /\ Listed(db, h) > 0
    THEN <<[tier |-> GetTier(db, h), ncpus |-> Listed(db, h), type |-> <<DpropOf[h]>>]>>
    ELSE <<>>

PrintedOnce(printed, h, name) ==
    \E i \in 1..Len(printed) :
        /\ printed[i].type = <<DpropOf[h]>>
        /\ [heading |-> db.state[h], name |-> name] \in printed[i].lists
        /\ \A j \in 1..Len(printed) : printed[j].type = printed[i].type => j = i

\* What a monitor posts is true of the database at the time of the request:
\* each host under its name, with its state, and the CPUs it has to give
\* under the one tier it has, whatever order of loads, requests and releases
\* has gone before (dmucs_db.cc:219-272, monitor.cc:210-361).  A page that
\* is cut may leave out hosts and CPUs and is wrong about one host at most.
PageTrue ==
    MutexFree =>
        LET page == Serialize
            known == {h \in Hosts : HaveHost(db, h)}
        IN  \A room \in Rooms, called \in Namings :
            LET Name(h) == called[AddrOf[h]]
                sole == {h \in known : \A g \in known \ {h} : Name(g) # Name(h)}
            IN  \A answer \in Answers(page, room) :
                    LET round == Round(answer, called)
                        About(h) == round.posted[Name(h)]
                        posted == {h \in sole : Name(h) \in DOMAIN round.posted}
                        wrong == {h \in posted : ~(StateTrue(h, About(h)) /\ About(h).cpus \in {<<>>, Offers(h)})}
                    IN  /\ Cardinality(wrong) <= 1
                        /\ answer.kind = "text" /\ answer.text = page =>
                             /\ sole = posted /\ wrong = {}
                             /\ \A h \in sole : About(h).cpus = Offers(h)
                             /\ DOMAIN round.posted = {Name(h) : h \in known}
                             /\ \A h \in known : PrintedOnce(round.printed, h, Name(h))

\* Together: what goes in and out of the server as text is what is meant.
TextsTrue == CommandsMeant /\ AppendsLast /\ PageTrue
=============================================================================
