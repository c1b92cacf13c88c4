---------------------------- MODULE DistccInputs ---------------------------
(***************************************************************************)
(* The sequential algorithms of distcc, each on inputs of its own: the     *)
(* command (DistccArgs, step by step), the reports that reach a statistics *)
(* server (DistccStats, one by one), the compiles of a build in pump mode  *)
(* (PumpMirror), the programs that a call of a compiler runs (Masquerade), *)
(* what a server tells of itself (XcodeInfo), how it is started            *)
(* (DistccdStart), and the samples of what is computed in one go: lists of *)
(* hosts, object files, paths and header maps (DistccHosts, DebugInfo,     *)
(* XcodePaths).                                                            *)
(***************************************************************************)
EXTENDS DistccArgs, Masquerade, DistccdStart

CONSTANTS
    HostLists,              \* lists of hosts: what is meant, and the text
    Objects,                \* object files, see DebugInfo
    XcodeTexts,             \* texts sent between two machines, see XcodePaths
    HeaderMaps, HeaderKeys, \* header maps, and what is looked up in them
    Calls,                  \* calls of a compiler, see Masquerade
    Servers, Asked,         \* what is asked of itself, and by whom, see XcodeInfo
    Starts,                 \* command lines of distccd, see DistccdStart
    StatsEvents, Histories, MaxStats,   \* see DistccStats
    Disk, Own, Defaults, Longer, PumpCommands, MaxCommands   \* see PumpMirror

VARIABLES
    sample,                 \* what is read
    asker, tmp, shown,      \* see XcodeInfo
    server, events,         \* see DistccStats
    clientDisk, inc, jobs, delivery, overlaps, commands      \* see PumpMirror

Hosts == INSTANCE DistccHosts
Stats == INSTANCE DistccStats
Pump == INSTANCE PumpMirror
Debug == INSTANCE DebugInfo
Xcode == INSTANCE XcodePaths
Info == INSTANCE XcodeInfo WITH machine <- sample

Command == [kind |-> "command"]
Reports == [kind |-> "reports"]
\* Of the other samples: distcc that has not run yet, and distccd.
NoCall == [explicit |-> TRUE, compiler |-> NoDirectory, path |-> <<>>, serverPath |-> <<>>,
           listing |-> "none", list |-> <<>>]
NoStart == [args |-> <<>>, uid |-> 1, ncpus |-> 1, table |-> <<>>]
Builds == [kind : {"build"}, writable : BOOLEAN]   \* may users write in system directories?

statistics == <<server, events>>
build == <<clientDisk, inc, jobs, delivery, overlaps, commands>>
answers == <<asker, tmp, shown>>
calling == <<call, chain>>
daemon == <<start, boot, launcher, pidfile>>
InputsVars == <<vars, sample, calling, statistics, build, answers, daemon>>

InputsInit ==
    /\ Init
    /\ sample \in {Command, Reports} \cup Builds \cup HostLists \cup Objects \cup XcodeTexts \cup HeaderMaps
                \cup Calls \cup Servers \cup Starts
    /\ call = (IF sample.kind = "call" THEN sample ELSE NoCall) /\ MasqueradeInit
    /\ IF sample.kind = "reports" THEN Stats!StatsInit ELSE server = None /\ events = None
    /\ IF sample.kind = "server" THEN Info!InfoInit ELSE asker = None /\ tmp = None /\ shown = None
    /\ start = (IF sample.kind = "start" THEN sample ELSE NoStart) /\ StartInit
    /\ IF sample.kind = "build" THEN Pump!PumpInit
       ELSE /\ clientDisk = None /\ inc = None /\ jobs = None
            /\ delivery = None /\ overlaps = None /\ commands = None

InputsNext ==
    /\ UNCHANGED sample
    /\ \/ sample = Command /\ Next /\ UNCHANGED <<calling, statistics, build, answers, daemon>>
       \/ sample = Reports /\ Stats!StatsNext /\ UNCHANGED <<vars, calling, build, answers, daemon>>
       \/ sample \in Builds /\ Pump!PumpNext(sample.writable) /\ UNCHANGED <<vars, calling, statistics, answers, daemon>>
       \/ sample.kind = "call" /\ MasqueradeNext /\ UNCHANGED <<vars, call, statistics, build, answers, daemon>>
       \/ sample.kind = "server" /\ Info!InfoNext /\ UNCHANGED <<vars, calling, statistics, build, daemon>>
       \/ sample.kind = "start" /\ StartNext /\ UNCHANGED <<vars, start, calling, statistics, build, answers>>

InputsSpec == InputsInit /\ [][InputsNext]_InputsVars

\* What a command compiles with distcc is what it compiles without (DistccArgs,
\* Transparent), the names of its dependencies included (DepsFound).
SameCompile == Transparent /\ DepsFound

\* What is told of servers is true: a list of hosts written by the manual is read
\* as the manual says (DistccHosts, ReadAsMeant), a server's description of
\* itself is that of its machine (XcodeInfo, HostInfoTrue), and every report of
\* its statistics is true (DistccStats, ReportTrue).
ServersDescribed ==
    /\ sample.kind = "hosts" =>
            Hosts!ReadAsMeant(sample.specs, sample.text, sample.zeroconf, sample.rand)
    /\ sample.kind = "server" => Info!HostInfoTrue
    /\ sample = Reports => Stats!ReportTrue

\* What names a file means the same on both machines: the server of a job finds
\* what its analysis has followed (PumpMirror, Mirrored), the debugging information
\* of an object names the client's files (DebugInfo, DebugNames), an argument
\* or a name that was sent the server's counterpart (XcodePaths,
\* PathsMeanTheSame), and a header map the file the client would include
\* (XcodePaths, HeadersTheSame).
NamesTranslated ==
    /\ sample \in Builds => Pump!Mirrored
    /\ sample.kind = "object" => Debug!DebugNames(sample)
    /\ sample.kind = "text" =>
            Xcode!PathsMeanTheSame(sample.option, sample.path, sample.client, sample.server)
    /\ sample.kind = "headermap" =>
            Xcode!HeadersTheSame(sample.map, HeaderKeys, sample.client, sample.server)
=============================================================================
