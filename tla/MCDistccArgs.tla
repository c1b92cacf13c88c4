---------------------------- MODULE MCDistccArgs ----------------------------
(* A small menu of phrases for DistccArgs, and samples of the other inputs. *)
EXTENDS DistccInputs

Source == Arg("abs", "a", "c")
Object == Arg("there", "b", "o")
Header == Arg("abs", "h", "h")
Dir == Arg("abs", "inc", "")

MCMenu ==
    { <<Flag("-c")>>, <<Flag("-S"), Bare(Source)>>, <<Flag("-c"), Bare(Source)>>, <<Bare(Arg("", "a", "i"))>>,
      <<Flag("-o"), Bare(Object)>>, <<W("-o", Object)>>, <<Bare(Object)>>,
      <<Flag("-MD")>>, <<Flag("-MF"), Bare(Arg("", "f", "d"))>>,
      <<Flag("-MT"), Bare(Arg("", "t", "o"))>>, <<W("-MT", Arg("", "u", "o"))>>,
      <<Flag("-I"), Bare(Dir), Flag("-include"), Bare(Header)>>,
      <<W("-D", Arg("", "M", "c"))>>, <<W("-frandom-seed", Arg("", "a", "c"))>>,
      <<W("-Wp,-MD", Arg("", "g", "d"))>>, <<W("-Wp,-D", Arg("", "N", ""))>>,
      <<Flag("-x"), Bare(Arg("", "c", ""))>>, <<Flag("-march=native")>> }

\* Lists of hosts: one word of every form, or several of them with blanks and
\* comments in between.
Spec0 == [form |-> "tcp", name |-> <<"a">>, user |-> <<>>, limit |-> <<>>, port |-> <<>>,
          command |-> <<>>, opts |-> <<>>]
Opts == {<<>>, <<"lzo">>, <<"cpp">>, <<"lzo", "cpp">>, <<"cpp", "lzo">>, <<"auth">>}
Specs ==
    [form : {"tcp", "oldtcp"}, name : {<<"a">>, <<":", ":", "8">>}, user : {<<>>}, limit : {<<>>, <<"2">>},
     port : {<<>>, <<"8">>}, command : {<<>>}, opts : Opts]
    \cup [form : {"ssh"}, name : {<<"a">>}, user : {<<>>, <<"u">>}, limit : {<<>>, <<"2">>},
           port : {<<>>}, command : {<<>>, <<"/", "c">>}, opts : Opts]
    \cup [form : {"local", "localslots", "localslots_cpp"}, name : {<<>>}, user : {<<>>},
           limit : {<<"2">>, <<"8">>}, port : {<<>>}, command : {<<>>}, opts : {<<>>}]
    \cup [form : {"local", "randomize", "zeroconf"}, name : {<<>>}, user : {<<>>}, limit : {<<>>},
           port : {<<>>}, command : {<<>>}, opts : {<<>>}]
Others == {[Spec0 EXCEPT !.limit = <<"8">>], [Spec0 EXCEPT !.form = "ssh", !.opts = <<"lzo">>],
           [Spec0 EXCEPT !.name = <<>>, !.form = "local"], [Spec0 EXCEPT !.name = <<>>, !.form = "randomize"]}
Gaps == {<<" ">>, <<"\n", " ">>, <<"#", "a", " ", "@", "\n">>}

Zeroconf == <<[Hosts!NewHost EXCEPT !.mode = "tcp", !.name = <<"z">>, !.port = 8]>>

HostList(specs, gap) ==
    [kind |-> "hosts", specs |-> specs, zeroconf |-> Zeroconf, rand |-> <<2, 3, 1, 4>>,
     text |-> FlattenSeq([i \in DOMAIN specs |-> Hosts!Written(specs[i]) \o gap])]

MCHostLists ==
    {HostList(<<a>>, g) : a \in Specs, g \in Gaps}
    \cup {HostList(<<a, b>>, g) : a \in Specs, b \in Others, g \in Gaps}
    \cup {HostList(<<a, b, c>>, <<" ">>) : a \in Specs, b, c \in Others}

\* Events of a statistics server, close together and far apart, and many long
\* jobs that may come first.
Event(kind, wait, time, name) == [kind |-> kind, wait |-> wait, time |-> time, name |-> name, at |-> 0]

MCStatsEvents ==
    {Event("error", w, 0, "f") : w \in {2, 898}}
    \cup {Event("request", w, 0, "f") : w \in {2, 290, 898}}
    \cup {Event("ok", w, t, "g") : w \in {2, 64, 150}, t \in {1, 50}}
    \cup {Event("accept", 2, 0, "h"), Event("ok", 1, 50, "h"), Event("ok", 5, 500, "h")}
MCStart == 90000    \* DistccStats, Start, spelt out: Histories is one of the constants of that module
MCHistories == {<<>>, [i \in 1..12 |-> [Event("ok", 5, 500, "h") EXCEPT !.at = MCStart + 5 * i]]}

\* A build: a project in /p and /q, a compiler whose default directories are
\* nested, and a cross compiler with one in which the project has files.
PumpDirs ==
    {<<"p">>, <<"p", "sub">>, <<"q">>, <<"q", "d">>, <<"usr">>, <<"usr", "inc">>, <<"usr", "inc", "c++">>,
     <<"usr", "inc2">>, <<"opt">>, <<"opt", "inc">>}
PumpFiles ==
    {<<"p", "m.c">>, <<"p", "h.h">>, <<"q", "g.h">>, <<"q", "d", "k.h">>, <<"q", "a.hmap">>, <<"usr", "inc", "s.h">>,
     <<"usr", "inc", "c++", "v.h">>, <<"usr", "inc2", "t.h">>, <<"opt", "inc", "o.h">>}

\* The nodes of a disk (PumpMirror, Dir, File and Link), spelt out: the disk is
\* one of the constants of that module.
DirNode == [kind |-> "dir"]
FileNode(p) == [kind |-> "file", of |-> p]
LinkNode(p) == [kind |-> "link", to |-> p, above |-> FALSE]

MCDisk ==
    [p \in PumpDirs |-> DirNode] @@ [p \in PumpFiles |-> FileNode(p)]
    @@ <<"p", "l">> :> LinkNode(<<"q", "d">>) @@ <<"p", "n.h">> :> LinkNode(<<"p", "l", "..", "g.h">>)
    @@ <<"p", "s">> :> LinkNode(<<"usr", "inc">>) @@ <<"usr", "inc", "x">> :> LinkNode(<<"q">>)
    @@ <<"p", "b.hmap">> :> LinkNode(<<"q", "a.hmap">>)
MCOwn == [p \in {q \in DOMAIN MCDisk : Head(q) \in {"usr", "opt"}} |-> MCDisk[p]]
MCDefaults == [cc |-> <<<<"usr", "inc", "c++">>, <<"usr", "inc">>>>, cross |-> <<<<"usr", "inc2">>, <<"opt", "inc">>>>]
MCLonger == {<<"inc", "inc2">>}

PumpCommand(compiler, paths, maps) ==
    [compiler |-> compiler, paths |-> <<<<"p", "m.c">>>> \o paths, maps |-> maps]
MCPumpCommands ==
    {PumpCommand(c, ps, <<>>) : c \in {"cc", "cross"}, ps \in
        {<<<<"p", "h.h">>>>, <<<<"p", "sub", "..", "h.h">>>>, <<<<"p", "l", "k.h">>, <<"p", "l", "..", "g.h">>>>,
         <<<<"p", "n.h">>>>, <<<<"p", "s", "s.h">>, <<"usr", "inc", "c++", "..", "s.h">>>>,
         <<<<"usr", "inc", "x", "g.h">>>>, <<<<"usr", "inc2", "t.h">>>>, <<<<"opt", "inc", "o.h">>>>}}
    \cup {PumpCommand("cc", <<>>, <<m>>) : m \in {<<"q", "a.hmap">>, <<"p", "b.hmap">>}}
    \cup {PumpCommand("icc", <<>>, <<>>)}

\* Objects: one section of every text; and every shape of a file, with sections
\* of few texts.
Root == Debug!ServerRoot
ObjectTexts == UNION {[1..n -> {Root, "x", Debug!Nul}] : n \in 1..3}
FewTexts == {<<Root, Debug!Nul>>, <<Root, "x", Debug!Nul, Root, Debug!Nul>>}
Section(name, text, inside) == [name |-> name, text |-> text, inside |-> inside]
LoadCommand(kind, bits, fits, holds, sections) ==
    [kind |-> kind, bits |-> bits, fits |-> fits, holds |-> holds, sections |-> sections]
Image(order, bits, whole, names, inside, cmds) ==
    [order |-> order, bits |-> bits, whole |-> whole, names |-> names, inside |-> inside, commands |-> cmds]
Table(sections) == <<LoadCommand("segment", 64, TRUE, TRUE, sections)>>
ElfImages ==
    {Image("server", 64, TRUE, TRUE, TRUE, Table(<<Section(n, t, TRUE)>>)) : n \in {"info", "str"}, t \in ObjectTexts}
    \cup {Image(o, b, w, n, TRUE, Table(<<Section("text", <<Root, "x">>, TRUE), Section("str", t, TRUE),
                    Section("info", u, TRUE), Section("info", v, TRUE), Section("line", v, TRUE)>>))
            : o \in {"server", "other"}, b \in {32, 64, 0}, w, n \in BOOLEAN, t, v \in FewTexts, u \in FewTexts \cup {<<>>}}
LoadCommands ==
    {LoadCommand("segment", b, f, h, <<Section(n, t, i), Section(m, <<Root, "x", "x">>, TRUE)>>)
        : b \in {32, 64}, f, h, i \in BOOLEAN, n, m \in {"info", "text"}, t \in FewTexts}
    \cup {LoadCommand("symtab", 0, f, TRUE, <<Section("strings", t, i)>>) : f, i \in BOOLEAN, t \in FewTexts}
    \cup {LoadCommand("uuid", 0, TRUE, TRUE, <<>>)}
SecondCommands ==
    {LoadCommand("segment", 64, TRUE, TRUE, <<Section(n, <<Root, "x", "x">>, TRUE)>>) : n \in {"info", "str"}}
    \cup {LoadCommand("symtab", 0, TRUE, TRUE, <<Section("strings", <<Root, "x", "x">>, TRUE)>>)}
MachoImages ==
    {Image("other", 64, w, TRUE, TRUE, <<c>>) : c \in LoadCommands, w \in BOOLEAN}
    \cup {Image("other", 64, TRUE, TRUE, TRUE, <<c, d>>) : c \in LoadCommands, d \in SecondCommands}
FatImage(text, inside) ==
    Image("other", 32, TRUE, TRUE, inside,
          IF text = <<>> THEN <<>>
          ELSE <<LoadCommand("segment", 32, TRUE, TRUE, <<Section("str", text, TRUE)>>)>>)
ObjectFile(format, images) == [kind |-> "object", format |-> format, images |-> images]
MCObjects ==
    {ObjectFile(f, <<i>>) : f \in {"elf", "unknown"}, i \in ElfImages} \cup {ObjectFile("macho", <<i>>) : i \in MachoImages}
    \cup {ObjectFile("fat", <<FatImage(t, a), FatImage(u, b), FatImage(t, TRUE)>>)
            : t \in FewTexts, u \in FewTexts \cup {<<>>}, a, b \in BOOLEAN}

\* Texts with up to three components of a path, between machines that know
\* their developer directory from each source, or not.
Machine(option, printed, order) == [option |-> option, printed |-> printed, order |-> order]
Default == Machine(Xcode!None, Xcode!None, "little")
Elsewhere == Machine(<<"/", "d">>, <<"\n">>, "little")
Machines == {Default, Elsewhere, Machine(Xcode!None, <<"/", "x", "/", "d", "\n">>, "little"),
             Machine(Xcode!None, <<"\n">>, "little"), Machine(Xcode!None, <<"/", "d">>, "little")}
Components == {<<"Developer">>, <<"Developer", "2">>, <<"x">>, <<"d">>, <<Xcode!Token[2]>>}
TextPaths ==
    {<<"/">> \o a : a \in Components} \cup {<<"/">> \o a \o <<"/">> \o b : a, b \in Components}
    \cup {<<"/">> \o a \o <<"/">> \o b \o <<"/">> \o c : a, b, c \in Components} \cup {<<"x", "/">> \o a : a \in Components}
MCXcodeTexts ==
    [kind : {"text"}, option : {<<>>}, path : TextPaths, client : Machines, server : Machines \ {Default}]
    \cup [kind : {"text"}, option : {<<"-I">>}, path : TextPaths, client : {Default}, server : {Elsewhere}]

\* Header maps of one or two keys, of which some differ in case only.
HeaderStrings ==
    <<<<>>, <<"a">>, <<"A">>, <<"b">>, <<"F", "/", "a">>, <<"/", "p", "/">>, <<"/", "Developer", "/">>,
      <<"/", "p", "/", "b">>, <<"q", "/">>, <<"/", "Developer", "2", "/">>, <<"/", "a">>>>
HeaderEntries == [key : 2..5, prefix : {1, 6, 7, 9, 10}, suffix : {2, 8, 11}]
SecondEntries == [key : {2, 3, 5}, prefix : {6, 7}, suffix : {2}]
HeaderMap(entries, order, magic, fits) ==
    [strings |-> HeaderStrings, buckets |-> Xcode!Written(entries, HeaderStrings, 4), order |-> order,
     known |-> magic, fits |-> fits]
MCHeaderMaps ==
    [kind : {"headermap"}, client : {Default}, server : {[Default EXCEPT !.order = "big"], Elsewhere}, map :
        {HeaderMap(<<e, f>>, o, TRUE, TRUE) : e \in HeaderEntries, f \in SecondEntries, o \in {"little", "big"}}
        \cup {HeaderMap(<<e>>, "little", k, f) : e \in HeaderEntries, k, f \in BOOLEAN}
        \cup {[HeaderMap(<<e>>, "big", TRUE, TRUE) EXCEPT !.strings = Front(@)] : e \in HeaderEntries}]
MCHeaderKeys == {<<"a">>, <<"A">>, <<"b">>, <<"F", "/", "a">>}

\* Calls of a compiler: every PATH of up to four of three directories with links,
\* two with compilers, one with a script, one with a directory of the compiler's
\* name and one with nothing; and servers with and without lists.
MCBin == [m |-> "distcc", n |-> "distcc", o |-> "distcc", u |-> "compiler", v |-> "compiler", s |-> "script",
          d |-> "directory", z |-> "nothing"]
MCNames == [dir \in DOMAIN MCBin |-> IF dir \in {"u", "v"} THEN <<"", dir, "bin", "gcc">> ELSE <<"", dir, "gcc">>]
SearchPaths ==
    UNION {{p \in [1..n -> DOMAIN MCBin] : Cardinality(ToSet(p)) = n} : n \in 0..4}
UserCalls(explicit, compilers) ==
    [kind : {"call"}, explicit : {explicit}, compiler : compilers, path : SearchPaths, serverPath : {<<"u">>},
     listing : {"none"}, list : {<<>>}, words : {1}]
MCCalls ==
    UserCalls(FALSE, {"bare", "m", "z"}) \cup UserCalls(TRUE, {"bare", "z"})
    \cup [kind : {"call"}, explicit : BOOLEAN, compiler : {"bare", "u", "z"}, path : {<<"m", "u">>, <<"s">>},
          serverPath : {<<"u">>, <<"m", "v">>, <<"m", "n", "u">>, <<"s">>}, listing : {"none", "read", "unreadable"},
          list : {<<"u">>, <<"v", "u">>, <<"z">>, <<"m", "u">>}, words : {1, 2, 3}]

\* Servers: every outcome of what tells the system, the compilers and the
\* processors; and SDKs of every kind, in every order that two processes read.
Tool(there, fails, lines) == [there |-> there, fails |-> fails, lines |-> lines]
Vers(key, first, value, ended) == [key |-> key, first |-> first, value |-> value, ended |-> ended]
SwVers == {Tool(FALSE, TRUE, <<>>), Tool(TRUE, TRUE, <<>>)}
    \cup {Tool(TRUE, FALSE, <<Vers("ProductName:", TRUE, <<"Mac">>, TRUE), Vers("ProductVersion:", f, v, TRUE),
                             Vers("BuildVersion:", TRUE, <<"9">>, e)>>) : f, e \in BOOLEAN, v \in {<<>>, <<"10">>}}
Version(v) == [text |-> <<v>>, version |-> TRUE]
Other == [text |-> <<"Target">>, version |-> FALSE]
Compilers == {Tool(FALSE, TRUE, <<>>), Tool(TRUE, TRUE, <<Version("a")>>), Tool(TRUE, FALSE, <<Other>>),
              Tool(TRUE, FALSE, <<Other, Version("a"), Version("b")>>), Tool(TRUE, FALSE, <<Version("b")>>)}
Entry(path, type, matches) == [path |-> path, type |-> type, matches |-> matches]
Str(text) == [type |-> "string", text |-> <<text>>]
Settings(name) == <<[CanonicalName |-> name]>>
Versions(v, b) == <<[ProductVersion |-> Str(v), ProductBuildVersion |-> b]>>
Sdk(path, settings, version) ==
    [path |-> path, type |-> "dir", matches |-> TRUE, settings |-> settings, version |-> version]
Sdk1 == Sdk("1.sdk", Settings(Str("one")), Versions("1", Str("b1")))
Sdk2 == Sdk("2.sdk", Settings(Str("two")), Versions("2", Str("b2")))
Sdk3 == Sdk("p/3.sdk", Settings(Str("three")), Versions("3", Str("b3")))
NoArray == [type |-> "array", text |-> <<>>]
OddSdks == {Sdk("4.sdk", None, None), Sdk("4.sdk", Settings(NoArray), Versions("4", Str("b4"))),
            Sdk("4.sdk", <<[Name |-> Str("four")]>>, Versions("4", Str("b4"))),
            Sdk("4.sdk", Settings(Str("four")), None), Sdk("4.sdk", Settings(Str("four")), Versions("4", NoArray)),
            [Sdk1 EXCEPT !.path = "4.sdk", !.type = "link"], [Sdk1 EXCEPT !.path = "4", !.matches = FALSE]}
Platform(sdks) == [path |-> "p", type |-> "dir", matches |-> TRUE, sdks |-> sdks]
Server == [kind |-> "server", option |-> None, uname |-> <<"Darwin">>, swvers |-> Tool(FALSE, TRUE, <<>>),
    xcode |-> Elsewhere, compilers |-> <<>>, sdks |-> <<>>, platforms |-> <<>>, ncpus |-> <<2>>, cpuspeed |-> <<9>>,
    memory |-> <<8>>, maxKids |-> None, priority |-> None, hosts |-> {}]
MCServers ==
    {[Server EXCEPT !.option = o, !.uname = u, !.swvers = s, !.hosts = {None, <<0>>, <<1>>, <<2>>}]
        : o \in {None, <<"Mac">>}, u \in {None, <<"Darwin">>}, s \in SwVers}
    \cup {[Server EXCEPT !.compilers = <<a, b, c>>, !.xcode = x]
        : a, b, c \in Compilers, x \in {Elsewhere, Machine(Xcode!None, <<"\n">>, "little")}}
    \cup {[Server EXCEPT !.ncpus = n, !.cpuspeed = s, !.memory = m, !.maxKids = k, !.priority = p]
        : n \in {None, <<0>>, <<2>>}, s, m \in {None, <<9>>}, k, p \in {None, <<4>>}}
    \cup {[Server EXCEPT !.sdks = s, !.platforms = p]
        : s \in {<<Sdk1, Sdk2>>, <<>>}, p \in {<<>>, <<Platform(<<>>), Platform(<<Sdk3>>)>>}}
    \cup {[Server EXCEPT !.sdks = <<a, o, b>>] : a \in {Sdk1}, o \in OddSdks, b \in {Sdk2}}
    \cup {[Server EXCEPT !.sdks = <<o>>, !.platforms = <<Platform(<<Sdk3>>)>>] : o \in OddSdks}

\* Command lines of distccd: those that serve, alone and with up to two options
\* more, on descriptors that are a terminal's, inetd's, or closed.
Option(name, value) == [name |-> name, value |-> value]
Allow == Option("allow", 1)
Serving == {<<>>, <<Allow>>, <<Allow, Option("lifetime", 9)>>, <<Allow, Option("lifetime", 9), Option("no-detach", 1)>>,
            <<Allow, Option("lifetime", 9), Option("pid-file", 1)>>, <<Option("inetd", 1), Option("lifetime", 9)>>}
MoreOptions ==
    {Option(n, 1) : n \in {"auth", "blacklist", "whitelist", "daemon", "inetd", "no-detach", "no-fork", "log-stderr",
                            "log-file", "pid-file", "wizard", "help", "host-info", "unknown", "log-level"}}
    \cup {Option(n, 0) : n \in {"allow", "log-file", "pid-file", "listen", "port"}}
    \cup {Option("jobs", n) : n \in {0, 1, 200, 201}} \cup {Option("port", n) : n \in {65535, 65536, 80}}
    \cup {Option("user", u) : u \in {0 - 1, 0, 34}}
    \cup {Option("job-lifetime", 0 - 5), Option("lifetime", 0)}
AllOn(what) == [fd \in 0..2 |-> what]
Descriptors == {AllOn("tty"), AllOn("socket"), [fd \in 0..2 |-> IF fd = 2 THEN "file" ELSE "socket"], <<>>, [fd \in {1, 2} |-> "tty"]}
StartOf(args, uid, table) ==
    [kind |-> "start", args |-> args, uid |-> uid, table |-> table, ncpus |-> 1, taken |-> {80},
     families |-> <<"inet6", "inet">>, supported |-> {"inet6", "inet"}]
MCStarts ==
    {StartOf(a, u, t) : a \in Serving, u \in {0, 34}, t \in Descriptors}
    \cup {StartOf(a \o <<o>>, 0, t) : a \in Serving, o \in MoreOptions, t \in Descriptors}
    \cup {StartOf(<<Allow, o, p>>, 0, AllOn("tty")) : o, p \in MoreOptions}
    \cup {[StartOf(<<Allow>>, 34, AllOn("tty")) EXCEPT !.supported = s] : s \in SUBSET {"inet6", "inet"}}
=============================================================================
