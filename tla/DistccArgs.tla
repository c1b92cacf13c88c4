----------------------------- MODULE DistccArgs -----------------------------
(* What becomes of a compiler command on its way through distcc: arg.c,    *)
(* strip.c, implicit.c, dotd.c, filename.c, cpp.c and dcc_build_somewhere  *)
(* on the client, parse_command.py in the include server, serve.c on the   *)
(* server.  Six scanners with tables of their own read and rewrite the     *)
(* same words; what they do together is compared with what the command     *)
(* means to the compiler.                                                  *)
(*                                                                         *)
(*   word      a record of an option ("" if none) and an argument, which   *)
(*             is Nothing if it comes as the next word or not at all       *)
(*   argument  a record of a place, a base name and an extension           *)
(*   typed     the command as it was typed, a sequence of phrases          *)
(*   mode      "plain" or "pump"                                           *)
(*   argv      the client's words; scan: what dcc_scan_args has found in   *)
(*             them; cppArgv and sent: what is run here and sent away      *)
(*   known     the files and directories the include server sends along    *)
(*   result    what has been compiled                                      *)
(***************************************************************************)
EXTENDS Naturals, Sequences, SequencesExt

CONSTANTS Menu, MaxPhrases   \* phrases to build commands from

VARIABLES typed, pc, mode, argv, scan, cppArgv, sent, known, result

vars == <<typed, pc, mode, argv, scan, cppArgv, sent, known, result>>

Arg(p, b, e) == [place |-> p, base |-> b, ext |-> e]
Nothing == Arg("", "", "")
W(o, a) == [opt |-> o, arg |-> a]
Flag(o) == W(o, Nothing)
Bare(a) == W("", a)
None == <<>>

\* Names made up by distcc: temporary files and the server's directory.
TempInput == Arg("tmp", "distccd", "i")
TempOutput == Arg("tmp", "distccd", "o")
DepsFile == Arg("tmp", "distcc", "deps")
Rooted(a) == IF a.place = "abs" THEN Arg("root", a.base, a.ext) ELSE a
Unrooted(a) == IF a.place = "root" THEN Arg("abs", a.base, a.ext) ELSE a

SourceExts == {"c", "i"}
IsSource(a) == a.ext \in SourceExts
IsPreprocessed(a) == a.ext = "i"
IsObject(a) == a.ext = "o"
SourceNeedsLocal(a) == a.base = "conftest"
OutputFromSource(a, e) == Arg("", a.base, e)

-----------------------------------------------------------------------------
(* What a command means to the compiler.                                   *)

Separable == {"-o", "-x", "-D", "-I", "-isystem", "-iquote", "-include", "-MF", "-MT", "-MQ"}
SearchOptions == {"-I", "-isystem", "-iquote"}
TargetOptions == {"-MT", "-MQ"}
NotesDeps == {"-MD", "-MMD"}
Understood == Separable \cup NotesDeps \cup {"", "-c", "-S", "-E", "-Wp,-MD", "-Wp,-D"}

\* Words to phrases: an option in the table without its argument takes the
\* next word.
SplitWord(table, s, w) ==
    IF s.open # "" THEN [open |-> "", out |-> Append(s.out, W(s.open, w.arg))]
    ELSE IF w.opt \in table /\ w.arg = Nothing THEN [s EXCEPT !.open = w.opt]
    ELSE [s EXCEPT !.out = Append(@, w)]

Split(table, words) ==
    LET step(s, w) == SplitWord(table, s, w)
    IN  FoldLeft(step, [open |-> "", out |-> <<>>], words).out

Args(ps, opts) ==
    LET hit(w) == w.opt \in opts
        of(w) == w.arg
        hits == SelectSeq(ps, hit)
    IN  [i \in DOMAIN hits |-> of(hits[i])]

Has(ps, o) == \E i \in DOMAIN ps : ps[i].opt = o
LastOr(s, default) == IF s = <<>> THEN default ELSE Last(s)

Understand(ps) ==
    LET source == LastOr(SelectSeq(Args(ps, {""}), IsSource), Nothing)
        action == IF Has(ps, "-E") THEN "E" ELSE IF Has(ps, "-S") THEN "S"
                  ELSE IF Has(ps, "-c") THEN "c" ELSE "link"
        output == LastOr(Args(ps, {"-o"}),
                         OutputFromSource(source, IF action = "S" THEN "s" ELSE "o"))
        searched(w) == w.opt \in SearchOptions
        generating(w) == w.opt \notin Understood
        language == LastOr(Args(ps, {"-x"}), Nothing)
        preprocessed == IF language = Nothing THEN IsPreprocessed(source)
                        ELSE language.ext = "cpp-output"
        driven == \E o \in NotesDeps : Has(ps, o)
        noted == IF Has(ps, "-o") /\ action # "E" THEN output ELSE OutputFromSource(source, "o")
        target == IF driven THEN noted ELSE OutputFromSource(source, "o")
    IN  [sources |-> SelectSeq(Args(ps, {""}), IsSource),
         action |-> action,
         output |-> output,
         language |-> language.base,
         codegen |-> SelectSeq(ps, generating),
         search |-> IF preprocessed THEN <<>> ELSE SelectSeq(ps, searched),
         includes |-> IF preprocessed THEN <<>> ELSE Args(ps, {"-include"}),
         macros |-> IF preprocessed THEN <<>> ELSE Args(ps, {"-D", "-Wp,-D"}),
         deps |-> IF ~preprocessed /\ (driven \/ Has(ps, "-Wp,-MD"))
                  THEN [file |-> LastOr(Args(ps, {"-MF", "-Wp,-MD"}), [noted EXCEPT !.ext = "d"]),
                        targets |-> IF Args(ps, TargetOptions) = <<>> THEN <<target>>
                                    ELSE Args(ps, TargetOptions)]
                  ELSE None]

Meaning(words) == Understand(Split(Separable, Tail(words)))

-----------------------------------------------------------------------------
(* The client.                                                             *)

Typed == FlattenSeq(typed)

\* "distcc -c a.c" and "distcc gcc -c a.c".
FindCompiler(words) ==
    IF words # <<>> /\ (words[1].opt # "" \/ IsSource(words[1].arg) \/ IsObject(words[1].arg))
    THEN <<Bare(Arg("", "cc", ""))>> \o words
    ELSE words

Parts(w) ==
    CASE w.opt = "-Wp,-MD" -> <<Flag("-MD"), Flag("-MF"), Bare(w.arg)>>
      [] w.opt = "-Wp,-D" -> <<W("-D", w.arg)>>
      [] OTHER -> <<w>>

IsPacked(w) == w.opt \in {"-Wp,-MD", "-Wp,-D"}

\* The array for an expansion is as long as the command was at first, plus the
\* parts: after one that grew it, the next one cuts off the end.
Overruns(words) ==
    \E i, j \in DOMAIN words : i < j /\ words[i].opt = "-Wp,-MD" /\ IsPacked(words[j])

ExpandPreprocessorOptions(words) ==
    FlattenSeq([i \in DOMAIN words |-> Parts(words[i])])

MustBeLocal == {"-E", "-M", "-march=native", "-frepo"}

GotOutput(s, a) ==
    IF s.output # Nothing THEN [s EXCEPT !.local = TRUE] ELSE [s EXCEPT !.output = a]

GotInput(s, a) ==
    IF s.input # Nothing THEN [s EXCEPT !.local = TRUE] ELSE [s EXCEPT !.input = a]

ScanWord(s, w) ==
    CASE s.local -> s
      [] s.next = "argument" -> [s EXCEPT !.next = ""]
      [] s.next = "output" -> [GotOutput(s, w.arg) EXCEPT !.next = ""]
      [] s.next = "language" ->
            [s EXCEPT !.next = "", !.x = TRUE, !.local = s.x \/ s.input # Nothing]
      [] OTHER ->
            CASE w.opt \in MustBeLocal -> [s EXCEPT !.local = TRUE]
              [] w.opt \in {"-MF", "-MT", "-MQ"} /\ w.arg = Nothing -> [s EXCEPT !.next = "argument"]
              [] w.opt = "-x" -> [s EXCEPT !.next = "language"]
              [] w.opt \in {"-c", "-S"} -> [s EXCEPT !.actions = @ \cup {w.opt}]
              [] w.opt = "-o" /\ w.arg = Nothing -> [s EXCEPT !.next = "output"]
              [] w.opt = "-o" /\ w.arg # Nothing -> GotOutput(s, w.arg)
              [] w.opt = "" /\ IsSource(w.arg) -> GotInput(s, w.arg)
              [] w.opt = "" /\ IsObject(w.arg) -> GotOutput(s, w.arg)
              [] OTHER -> s

Unscanned ==
    [next |-> "", local |-> FALSE, x |-> FALSE, actions |-> {}, input |-> Nothing, output |-> Nothing]

\* Without an output the name the compiler would choose is added to the words.
ScanResult(words, s, chosen) ==
    LET named == s.output # Nothing
        local == \/ s.local \/ s.actions = {} \/ s.input = Nothing
                 \/ SourceNeedsLocal(s.input)
    IN  [local |-> local,
         input |-> s.input,
         output |-> IF named THEN s.output ELSE chosen,
         argv |-> IF named \/ local THEN words ELSE words \o <<Flag("-o"), Bare(chosen)>>]

\* Mutant: -c takes precedence over -S.
ScanArgsAsObject(words) ==
    LET s == FoldLeft(ScanWord, Unscanned, words)
    IN  ScanResult(words, s, OutputFromSource(s.input, IF "-c" \in s.actions THEN "o" ELSE "s"))

ScanArgs(words) ==
    LET s == FoldLeft(ScanWord, Unscanned, words)
    IN  ScanResult(words, s, OutputFromSource(s.input, IF "-S" \in s.actions THEN "s" ELSE "o"))

SetActionOpt(words, o) ==
    [i \in DOMAIN words |-> IF words[i].opt \in {"-c", "-S"} THEN Flag(o) ELSE words[i]]

\* None if there is no -o.
SetOutput(words, a) ==
    LET isO(w) == w.opt = "-o"
        i == SelectInSeq(words, isO)
    IN  IF i = 0 THEN None
        ELSE IF words[i].arg # Nothing THEN [words EXCEPT ![i].arg = a]
        ELSE [words EXCEPT ![i + 1] = Bare(a)]

\* The first word that ends like a source, be it an option.
SetInput(words, a) ==
    LET ends(w) == IsSource(w.arg)
        i == SelectInSeq(words, ends)
    IN  IF i = 0 THEN None ELSE [words EXCEPT ![i] = Bare(a)]

\* Words without the options in the table and their arguments.
StripWord(table, s, w) ==
    IF s.skip THEN [s EXCEPT !.skip = FALSE]
    ELSE IF w.opt \in table.flags \cup table.joined /\ (w.arg # Nothing \/ w.opt \in table.flags) THEN s
    ELSE IF w.opt \in table.separate /\ w.arg = Nothing THEN [s EXCEPT !.skip = TRUE]
    ELSE [s EXCEPT !.out = Append(@, w)]

Strip(table, words) ==
    LET step(s, w) == StripWord(table, s, w)
    IN  FoldLeft(step, [skip |-> FALSE, out |-> <<>>], words).out

LocalOptions ==
    [separate |-> {"-D", "-I", "-MF", "-MT", "-MQ", "-include", "-isystem", "-iquote"},
     joined |-> {"-D", "-I", "-MF", "-MT", "-MQ", "-iquote", "-Wp,-MD", "-Wp,-D"},
     flags |-> {"-MD", "-MMD"}]
StripLocalArgs(words) == Strip(LocalOptions, words)

StripDashO(words) == Strip([separate |-> {"-o"}, joined |-> {"-o"}, flags |-> {}], words)

\* "-x c" becomes "-x cpp-output".
FixLanguage(words) ==
    LET isX(w) == w = Flag("-x")
        i == SelectInSeq(words, isX)
    IN  IF i = 0 THEN words ELSE [words EXCEPT ![i + 1].arg.ext = "cpp-output"]

\* dcc_get_dotd_info, without DEPENDENCIES_OUTPUT.
DotdWord(s, w) ==
    CASE s.next = "target" -> [s EXCEPT !.next = ""]
      [] s.next = "file" -> [s EXCEPT !.next = "", !.file = w.arg]
      [] s.next = "" /\ w.opt \in TargetOptions /\ w.arg = Nothing ->
            [s EXCEPT !.next = "target", !.sets = TRUE]
      [] s.next = "" /\ w.opt = "-MF" /\ w.arg = Nothing -> [s EXCEPT !.next = "file", !.needs = TRUE]
      [] s.next = "" /\ w.opt = "-MF" /\ w.arg # Nothing -> [s EXCEPT !.file = w.arg, !.needs = TRUE]
      [] s.next = "" /\ w.opt \in {"-MT", "-MQ", "-MD", "-MMD"} /\ (w.arg # Nothing \/ w.opt \notin TargetOptions) ->
            [s EXCEPT !.needs = TRUE]
      [] s.next = "" /\ w.opt = "-o" /\ w.arg = Nothing -> [s EXCEPT !.dashO = TRUE]
      [] OTHER -> s

DotdInfo(s, named) ==
    [needs |-> s.needs, sets |-> s.sets,
     file |-> IF s.file # Nothing THEN s.file
              ELSE [(IF s.dashO THEN named.output ELSE named.input) EXCEPT !.ext = "d"]]

GetDotdInfo(words) ==
    DotdInfo(FoldLeft(DotdWord, [next |-> "", needs |-> FALSE, sets |-> FALSE,
                                 dashO |-> FALSE, file |-> Nothing], words),
             ScanArgs(words))

\* parse_command.py: the files and directories the include server looks at.
CPP_OPTIONS_TWO_WORDS ==
    {"-D", "-I", "-o", "-x", "-MF", "-MT", "-MQ", "-include", "-isystem", "-iquote"}

ParseCommandArgs(words) ==
    LET ps == Split(CPP_OPTIONS_TWO_WORDS, Tail(words))
        files == Args(ps, {""})
    IN  [covered |-> Len(files) = 1 /\ (Has(ps, "-x") \/ IsSource(files[1])),
         files |-> ToSet(files) \cup ToSet(Args(ps, {"-include"})),
         dirs |-> ToSet(Args(ps, SearchOptions))]

-----------------------------------------------------------------------------
(* The server.                                                             *)

\* Mutant: -MT stays in the command, and adds a target to the .d file.
ConvertMtAdding(words) == [argv |-> words, target |-> Nothing]

\* "-MT" and its argument are taken out, the argument becomes the target the
\* .d file is given when it is cleaned up.
ConvertMt(words) ==
    LET isMt(w) == w = Flag("-MT")
        i == SelectInSeq(words, isMt)
    IN  IF i = 0 THEN [argv |-> words, target |-> Nothing]
        ELSE [argv |-> SubSeq(words, 1, i - 1) \o SubSeq(words, i + 2, Len(words)),
              target |-> words[i + 1].arg]

include_options == {"-I", "-include", "-isystem", "-iquote"}

TweakIncludeArguments(words) ==
    [i \in DOMAIN words |->
        IF words[i].opt \in include_options \/ (i > 1 /\ words[i - 1] \in {Flag(o) : o \in include_options})
        THEN [words[i] EXCEPT !.arg = Rooted(@)]
        ELSE words[i]]

TweakInputArgument(words) ==
    LET absolute(w) == w.opt = "" /\ IsSource(w.arg) /\ w.arg.place = "abs"
        i == SelectInSeq(words, absolute)
    IN  [j \in DOMAIN words |-> IF j = i THEN Bare(Rooted(words[j].arg)) ELSE words[j]]

Tweaked(words, needs) ==
    LET converted == IF needs THEN ConvertMt(words) ELSE [argv |-> words, target |-> Nothing]
        noting == IF needs THEN <<Flag("-MMD"), Flag("-MF"), Bare(DepsFile)>> ELSE <<>>
    IN  [argv |-> TweakInputArgument(TweakIncludeArguments(converted.argv \o noting)),
         target |-> converted.target, needs |-> needs]

TweakArguments(words) == Tweaked(words, GetDotdInfo(words).needs)

-----------------------------------------------------------------------------
Init ==
    /\ typed = <<>> /\ pc = "type"
    /\ mode = "plain"
    /\ argv = None /\ scan = None /\ cppArgv = None /\ sent = None
    /\ known = None /\ result = None

Type(p) ==
    /\ pc = "type" /\ Len(typed) < MaxPhrases
    /\ ~Contains(typed, p)
    /\ typed' = Append(typed, p)
    /\ UNCHANGED <<pc, mode, argv, scan, cppArgv, sent, known, result>>

Invoke ==
    /\ pc = "type" /\ typed # <<>>
    /\ mode' \in {"plain", "pump"}
    /\ LET words == FindCompiler(Typed) IN
       IF Overruns(words) THEN pc' = "undefined" /\ UNCHANGED argv
       ELSE pc' = "scan" /\ argv' = ExpandPreprocessorOptions(words)
    /\ UNCHANGED <<typed, scan, cppArgv, sent, known, result>>

RunLocally(words) == pc' = "done" /\ result' = Meaning(words)

Scanned(s) ==
    /\ argv' = s.argv
    /\ scan' = [input |-> s.input, output |-> s.output]
    /\ IF s.local THEN RunLocally(s.argv)
       ELSE /\ pc' = IF mode = "pump" /\ ~IsPreprocessed(s.input) THEN "pump" ELSE "plain"
            /\ UNCHANGED result
    /\ UNCHANGED <<typed, mode, cppArgv, sent, known>>

Scan == pc = "scan" /\ Scanned(ScanArgs(argv))

\* If the include server cannot do it, the file is preprocessed here.
Answered(answer, dotd) ==
    /\ IF ~answer.covered THEN pc' = "plain" /\ UNCHANGED <<sent, known>>
       ELSE /\ pc' = "sentPump"
            /\ known' = [files |-> answer.files, dirs |-> answer.dirs]
            /\ sent' = IF dotd.needs /\ ~dotd.sets
                       THEN argv \o <<Flag("-MT"), Bare(scan.output)>> ELSE argv
    /\ UNCHANGED <<typed, mode, argv, scan, cppArgv, result>>

AskIncludeServer == pc = "pump" /\ Answered(ParseCommandArgs(argv), GetDotdInfo(argv))

Preprocess ==
    /\ pc = "plain"
    /\ pc' = "sentPlain"
    /\ cppArgv' = IF IsPreprocessed(scan.input) THEN None
                  ELSE SetActionOpt(StripDashO(argv), "-E")
    /\ sent' = FixLanguage(StripLocalArgs(argv))
    /\ UNCHANGED <<typed, mode, argv, scan, known, result>>

\* The server compiles the text it was sent and nothing else.
CompilesText(m) ==
    m.sources = <<TempInput>> /\ m.includes = <<>> /\ m.output = TempOutput

FromText(m) ==
    IF cppArgv = None
    THEN [m EXCEPT !.sources = <<scan.input>>, !.output = scan.output]
    ELSE [Meaning(cppArgv) EXCEPT !.action = m.action, !.codegen = m.codegen,
                                  !.language = m.language, !.output = scan.output]

\* The command for the temporary files.
OnTemporaries(words) ==
    LET input == SetInput(words, TempInput)
    IN  IF input = None THEN None ELSE SetOutput(input, TempOutput)

ServeText(s, words, m) ==
    /\ IF s.local \/ words = None \/ ~CompilesText(m) THEN pc' = "refused" /\ UNCHANGED result
       ELSE pc' = "done" /\ result' = FromText(m)
    /\ UNCHANGED <<typed, mode, argv, scan, cppArgv, sent, known>>

ServePlain ==
    LET s == ScanArgs(sent)
        words == OnTemporaries(s.argv)
    IN  pc = "sentPlain" /\ ServeText(s, words, Meaning(words))

\* The server finds every file it opens among those it was sent.
CompilesFiles(m) ==
    /\ Len(m.sources) = 1 /\ m.output = TempOutput
    /\ ToSet(m.sources) \cup ToSet(m.includes) \subseteq {Rooted(f) : f \in known.files}
    /\ ToSet(Args(m.search, SearchOptions)) \subseteq {Rooted(d) : d \in known.dirs}

AtHome(args) == [i \in DOMAIN args |-> Unrooted(args[i])]

\* dcc_cleanup_dotd and the client's name for the .d file.
ReturnedDeps(m, target, dotd) ==
    LET name(t) == IF t = TempOutput THEN target ELSE t
    IN  IF dotd.needs
        THEN [file |-> dotd.file,
              targets |-> [i \in DOMAIN m.deps.targets |-> name(m.deps.targets[i])]]
        ELSE None

FromFiles(m, target) ==
    [m EXCEPT !.sources = AtHome(@), !.includes = AtHome(@), !.output = scan.output,
              !.search = [i \in DOMAIN @ |-> [@[i] EXCEPT !.arg = Unrooted(@)]],
              !.deps = ReturnedDeps(m, target, GetDotdInfo(argv))]

ServeFiles(s, words, tweaked, m) ==
    /\ IF s.local \/ words = None \/ ~CompilesFiles(m) THEN pc' = "refused" /\ UNCHANGED result
       ELSE /\ pc' = "done"
            /\ result' = FromFiles(m, IF tweaked.target # Nothing THEN tweaked.target ELSE s.output)
    /\ UNCHANGED <<typed, mode, argv, scan, cppArgv, sent, known>>

ServePump ==
    LET s == ScanArgs(sent)
        words == SetOutput(s.argv, TempOutput)
        tweaked == TweakArguments(words)
    IN  pc = "sentPump" /\ ServeFiles(s, words, tweaked, Meaning(tweaked.argv))

Fallback ==
    /\ pc = "refused"
    /\ RunLocally(argv)
    /\ UNCHANGED <<typed, mode, argv, scan, cppArgv, sent, known>>

Next ==
    \/ \E p \in Menu : Type(p)
    \/ Invoke \/ Scan \/ AskIncludeServer \/ Preprocess \/ ServePlain \/ ServePump \/ Fallback

Spec == Init /\ [][Next]_vars

-----------------------------------------------------------------------------
(* Properties.                                                             *)

Original == Meaning(FindCompiler(Typed))
Apart(m) == [m EXCEPT !.deps = None]

Given(opts) == Len(Args(Split(Separable, Typed), opts))
GivenJoined(o) == \E i \in DOMAIN Typed : Typed[i].opt = o /\ Typed[i].arg # Nothing

\* The argument of an option that dcc_scan_args does not know is a word like
\* any other to it, and may be taken for the input or the output.
Misread ==
    \E i, j \in DOMAIN Typed :
        /\ j = i + 1 /\ Typed[i].arg = Nothing
        /\ Typed[i].opt \in Separable \ {"-o", "-x", "-MF", "-MT", "-MQ"}
        /\ IsSource(Typed[j].arg) \/ IsObject(Typed[j].arg)

\* A file that -x says needs preprocessing goes without by its name.
LanguageOverName ==
    Given({"-x"}) > 0 /\ \E i \in DOMAIN Typed : Typed[i].opt = "" /\ IsPreprocessed(Typed[i].arg)

\* Where the dependencies come out in another file or for another target: the
\* output of -S is only named by distcc, -Wp,-MD becomes -MD, two targets are
\* one too many, "-ofile" is not seen, and cpp does not see -o.
DepsElsewhere ==
    \/ Original.action = "S" /\ Given({"-o"}) = 0
    \/ Given({"-Wp,-MD"}) > 0 /\ Given({"-o"}) > 0
    \/ Given(TargetOptions) > 1
    \/ known # None /\ Given({"-MF"}) = 0 /\ GivenJoined("-o")
    \/ cppArgv # None /\ Given({"-o"}) > 0 /\ (Given({"-MF"}) = 0 \/ Given(TargetOptions) = 0)

\* What has been compiled, by whichever way, is what the command says: the
\* same source, output, action, macros, headers and options, whatever six
\* scanners have rewritten in between.
Transparent ==
    pc = "done" /\ ~Misread /\ ~LanguageOverName => Apart(result) = Apart(Original)

\* A command that asks for dependencies gets them in the file and for the
\* target it names: -MT is added by the client, taken out by the server and put
\* back in the text of the .d file, or cpp writes the file here.
DepsFound ==
    pc = "done" /\ Original.deps # None /\ ~Misread /\ ~LanguageOverName /\ ~DepsElsewhere
        => result.deps = Original.deps

=============================================================================
