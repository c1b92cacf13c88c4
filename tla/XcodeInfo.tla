------------------------------ MODULE XcodeInfo ------------------------------
(***************************************************************************)
(* What a server tells of itself to "distcc --host-info" and "distccd      *)
(* --host-info" (xci_versinfo.c, ncpus.c): its system, its compilers, its  *)
(* processors and every SDK of Xcode. Each process that is asked finds it  *)
(* out and keeps it. The settings of an SDK are first converted to XML, by *)
(* a program that writes a file of one name in /tmp for every SDK and      *)
(* every process, and then read from there.                                *)
(*                                                                         *)
(* The machine is a record of what its programs, its system calls and its  *)
(* directories answer. What may be missing, or may fail, is a sequence of  *)
(* one, or None. Speeds are multiples of 250 MHz, memories of a gigabyte.  *)
(***************************************************************************)
EXTENDS Naturals, Sequences, FiniteSets
LOCAL INSTANCE SequencesExt
LOCAL INSTANCE FiniteSetsExt
LOCAL INSTANCE Functions

Xcode == INSTANCE XcodePaths

None == <<>>

CONSTANT Asked              \* the processes that are asked

VARIABLES
    machine,                \* what they are asked about: it does not change
    asker,                  \* [Asked -> what it has found, and is about to do]
    tmp,                    \* the SDK whose file is /tmp/SDKSettings.plist, or SystemVersion.plist: 0 if none is
    shown                   \* what the client has ended with and printed

(* ---------------------------- the components ---------------------------- *)

\* The lines that a program prints, if it succeeds.
RunCommand(program) == IF program.fails THEN None ELSE program.lines

\* The value of the first line that has the key, if that line begins with it,
\* has a value and an end.
SwVersValue(lines, key) ==
    LET found == {i \in DOMAIN lines : lines[i].key = key}
        line == lines[Min(found)]
    IN IF found # {} /\ line.first /\ line.ended THEN line.value ELSE None

\* The option, what sw_vers prints, or uname where there is no sw_vers.
SystemVersion ==
    LET lines == RunCommand(machine.swvers)
        product == SwVersValue(lines, "ProductVersion:")
        build == SwVersValue(lines, "BuildVersion:")
    IN IF machine.option # None THEN machine.option
       ELSE IF machine.uname = None \/ ~machine.swvers.there THEN machine.uname
       ELSE IF None \in {product, build} THEN None
       ELSE product \o build \o machine.uname

DeveloperDir == Xcode!XcodeselectPath(machine.xcode)

\* A compiler's version is its first line that says so.
VersionOf(compiler) ==
    LET lines == SelectSeq(RunCommand(compiler), LAMBDA l : l.version)
    IN IF lines = <<>> THEN None ELSE Head(lines).text

\* The versions of the compilers that are there and tell one: none at all where
\* there is no developer directory.
ParseDistccCompilers ==
    LET there == SelectSeq(machine.compilers, LAMBDA c : c.there /\ VersionOf(c) # None)
    IN IF DeveloperDir = Xcode!None THEN <<>> ELSE [i \in DOMAIN there |-> VersionOf(there[i])]

\* Each version once, where it is first.
AllCompilerVersions ==
    FoldLeft(LAMBDA result, v : IF v \in ToSet(result) THEN result ELSE Append(result, v), <<>>, ParseDistccCompilers)

\* A directory's entries that are directories, and of the kind looked for.
DirectoryList(entries) == SelectSeq(entries, LAMBDA e : e.type = "dir" /\ e.matches)

\* The directories of SDKs, in the order in which they are read: those of the
\* developer directory, then those of each platform.
SdkPlaces ==
    IF DeveloperDir = Xcode!None THEN <<>>
    ELSE DirectoryList(machine.sdks)
         \o FlattenSeq([i \in DOMAIN DirectoryList(machine.platforms) |->
                            DirectoryList(DirectoryList(machine.platforms)[i].sdks)])

\* A key's value in a file of settings: the key, then a string.
PlistStringValue(plist, key) ==
    IF key \in DOMAIN plist /\ plist[key].type = "string" THEN plist[key].text ELSE None

Line(key, value) == <<[key |-> key, value |-> value]>>
Known(key, value) == IF value = None THEN <<>> ELSE Line(key, value)

\* There is always a processor to count.
Ncpus == IF machine.ncpus \in {None, <<0>>} THEN 1 ELSE machine.ncpus[1]
Cpuspeed == IF machine.cpuspeed = None THEN 0 ELSE machine.cpuspeed[1]
Memory == IF machine.memory = None THEN 0 ELSE machine.memory[1]

\* The option, or faster processors first, then more memory for each.
Priority == IF machine.priority # None THEN machine.priority[1] ELSE Cpuspeed + Memory \div Ncpus

\* What a process answers that has found these SDKs.
HostInfoString(sdks) ==
    Known("SYSTEM", SystemVersion) \o Line("DISTCC", "version")
    \o [i \in DOMAIN AllCompilerVersions |-> [key |-> "COMPILER", value |-> AllCompilerVersions[i]]]
    \o (IF machine.ncpus = None THEN <<>> ELSE Line("CPUS", <<Ncpus>>))
    \o Known("CPUSPEED", machine.cpuspeed) \o Known("MEMORY", machine.memory) \o Known("JOBS", machine.maxKids)
    \o Line("PRIORITY", <<Priority>>)
    \o [i \in DOMAIN sdks |-> [key |-> "SDK", value |-> sdks[i]]]

(* ------------------------------- the scan ------------------------------- *)

Asker(step, place) ==
    [step |-> step, place |-> place, name |-> None, sdks |-> <<>>, info |-> None, spoiled |-> {}]

InfoInit ==
    /\ asker = [a \in Asked |-> Asker("idle", 0)]
    /\ tmp = [settings |-> 0, version |-> 0]
    /\ shown = None

Place(a) == SdkPlaces[asker[a].place]

\* A process that is asked, looks for the SDKs the first time only.
Ask(a) ==
    /\ asker[a].step = "idle"
    /\ asker' = [asker EXCEPT ![a] = Asker("settings", 1)]
    /\ UNCHANGED <<tmp, shown>>

\* plutil: a file that is there is converted. What becomes of it is not looked
\* at, and the file of the last conversion stays when there is none. History: the
\* other process that is about to read the file, reads of another SDK than its own.
Convert(file, own, steps) ==
    \E a \in Asked :
        LET spoils == {b \in Asked \ {a} : asker[b].step \in steps} IN
        /\ asker[a].step = file /\ asker[a].place \in DOMAIN SdkPlaces
        /\ tmp' = IF Place(a)[file] = None THEN tmp ELSE [tmp EXCEPT ![file] = asker[a].place]
        /\ asker' = [b \in Asked |->
                        IF b = a THEN [asker[a] EXCEPT !.step = own]
                        ELSE IF b \in spoils /\ asker[b].place # asker[a].place /\ Place(a)[file] # None
                        THEN [asker[b] EXCEPT !.spoiled = @ \cup {asker[b].place}]
                        ELSE asker[b]]
        /\ UNCHANGED shown

ConvertSettings == Convert("settings", "readSettings", {"readSettings"})
ConvertVersion == Convert("version", "readVersion", {"readVersion"})

\* What the file in /tmp says of a key.
Told(file, key) ==
    IF tmp[file] = 0 THEN None ELSE PlistStringValue(SdkPlaces[tmp[file]][file][1], key)

\* The next SDK, whether this one has been told of or not.
NextSdk(a, sdks) ==
    [asker[a] EXCEPT !.step = "settings", !.place = @ + 1, !.name = None, !.sdks = sdks]

\* Mutant: the first SDK that cannot be read ends the scan.
ReadSettingsLast(a) ==
    /\ asker[a].step = "readSettings"
    /\ asker' = [asker EXCEPT ![a] =
                    IF Told("settings", "CanonicalName") = None
                    THEN [NextSdk(a, asker[a].sdks) EXCEPT !.place = Len(SdkPlaces) + 1]
                    ELSE [@ EXCEPT !.step = "version", !.name = Told("settings", "CanonicalName")]]
    /\ UNCHANGED <<tmp, shown>>

\* An SDK without a name is left out.
ReadSettings(a) ==
    /\ asker[a].step = "readSettings"
    /\ asker' = [asker EXCEPT ![a] =
                    IF Told("settings", "CanonicalName") = None THEN NextSdk(a, asker[a].sdks)
                    ELSE [@ EXCEPT !.step = "version", !.name = Told("settings", "CanonicalName")]]
    /\ UNCHANGED <<tmp, shown>>

\* So is one without a version or a build.
ReadVersion(a) ==
    LET version == Told("version", "ProductVersion")
        build == Told("version", "ProductBuildVersion")
        sdk == [name |-> asker[a].name, version |-> version, build |-> build, path |-> Place(a).path]
    IN /\ asker[a].step = "readVersion"
       /\ asker' = [asker EXCEPT ![a] =
                        NextSdk(a, IF None \in {version, build} THEN @.sdks ELSE Append(@.sdks, sdk))]
       /\ UNCHANGED <<tmp, shown>>

Answer(a) ==
    /\ asker[a].step = "settings" /\ asker[a].place = Len(SdkPlaces) + 1
    /\ asker' = [asker EXCEPT ![a].step = "answered", ![a].info = HostInfoString(asker[a].sdks)]
    /\ UNCHANGED <<tmp, shown>>

\* The client: one host, of which it prints the answer or an error. A server
\* that ends before it has answered leaves nothing to print.
ShowHostInfo(a, hosts, fails) ==
    /\ shown = None
    /\ hosts # <<1>> \/ fails # "no" \/ asker[a].step = "answered"
    /\ shown' =
        IF hosts = None THEN <<[exit |-> "bad host", printed |-> <<>>]>>
        ELSE IF hosts # <<1>> THEN <<[exit |-> "bad arguments", printed |-> <<>>]>>
        ELSE IF fails \in {"connect", "send", "token"} THEN <<[exit |-> fails, printed |-> Line("ERROR", fails)]>>
        ELSE IF fails = "header" THEN <<[exit |-> fails, printed |-> <<>>]>>
        ELSE <<[exit |-> "success", printed |-> asker[a].info]>>
    /\ UNCHANGED <<asker, tmp>>

InfoNext ==
    \/ ConvertSettings \/ ConvertVersion
    \/ \E a \in Asked :
        \/ Ask(a) \/ ReadSettings(a) \/ ReadVersion(a) \/ Answer(a)
        \/ \E hosts \in machine.hosts, fails \in {"connect", "send", "header", "token", "no"} :
                ShowHostInfo(a, hosts, fails)

(* ------------------------------- properties ------------------------------ *)

\* Both files of the SDK can be converted.
Convertible(sdk) == sdk.settings # None /\ sdk.version # None

\* The line of an SDK whose files say what is asked of them.
OwnLine(sdk) ==
    LET name == PlistStringValue(sdk.settings[1], "CanonicalName")
        version == PlistStringValue(sdk.version[1], "ProductVersion")
        build == PlistStringValue(sdk.version[1], "ProductBuildVersion")
    IN IF None \in {name, version, build} THEN None
       ELSE <<[name |-> name, version |-> version, build |-> build, path |-> sdk.path]>>

Values(info, key) ==
    LET lines == SelectSeq(info, LAMBDA l : l.key = key) IN [i \in DOMAIN lines |-> lines[i].value]

\* An answer has the line of every SDK whose files say enough, and none for the
\* others, but for those that cannot be converted and those that the other
\* process has spoiled. No SDK has two lines, and they are in the order of the
\* scan. Every version of a compiler is told once. The client prints a whole
\* answer, or ends with an error.
HostInfoTrue ==
    /\ \A a \in {b \in Asked : asker[b].step = "answered"} :
        LET sdks == Values(asker[a].info, "SDK")
            versions == Values(asker[a].info, "COMPILER")
            ofPath(i) == {p \in DOMAIN SdkPlaces : SdkPlaces[p].path = sdks[i].path}
        IN /\ \A p \in DOMAIN SdkPlaces \ asker[a].spoiled : Convertible(SdkPlaces[p]) =>
                OwnLine(SdkPlaces[p]) = SelectSeq(sdks, LAMBDA line : line.path = SdkPlaces[p].path)
           /\ \A i, j \in DOMAIN sdks : i < j => \A p \in ofPath(i), q \in ofPath(j) : p < q
           /\ IsInjective(versions) /\ ToSet(versions) = ToSet(ParseDistccCompilers)
    /\ (shown # None /\ shown[1].exit = "success") =>
            \E a \in Asked : asker[a].step = "answered" /\ shown[1].printed = asker[a].info
=============================================================================
