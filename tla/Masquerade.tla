------------------------------ MODULE Masquerade -----------------------------
(***************************************************************************)
(* How one call of a compiler gets from the user's make to the compiler:   *)
(* the file found may be a link to distcc in a masquerade directory, a     *)
(* script that calls distcc, or the compiler, and what distcc calls may be *)
(* a link to distcc again, on the client and on the server. PATH is        *)
(* trimmed (climasq.c), a level in the environment stops the recursion     *)
(* (safeguard.c), and a server may serve only the compilers of a list      *)
(* (serve.c, stringmap.c).                                                 *)
(*                                                                         *)
(* There is one compiler name. A compiler is named by its directory, or by *)
(* NoDirectory without one. Bin says what a directory has of that name;    *)
(* Names are the words of the file's name, between slashes.                *)
(***************************************************************************)
EXTENDS Naturals, Sequences, FiniteSets

CONSTANTS
    Bin,            \* [directory -> "distcc", "script", "compiler", "directory" or "nothing"]
    Names,          \* [directory -> sequence of words], the file's name, from the root or not
    Scripted        \* the directory of the compiler that the scripts name

VARIABLES
    call,           \* the user's call (explicit: by way of distcc), its PATH, and the
                    \* server's PATH and list of compilers (none, read or unreadable)
    chain           \* the program now running for it

NoDirectory == "bare"
NotFound == "none"
Directories == DOMAIN Bin

ASSUME MasqueradeAssumption ==
    /\ {NoDirectory, NotFound} \cap Directories = {}
    /\ Scripted \in Directories /\ Bin[Scripted] = "compiler"

\* The directories whose program file can be executed. access() also takes a
\* directory of that name.
Having(kinds) == {dir \in Directories : Bin[dir] \in kinds}
Executable == Having({"distcc", "script", "compiler"})
Accessible == Executable \cup Having({"directory"})

\* The place of the first of dirs on a path, 0 if it has none.
First(path, dirs) ==
    LET found == {i \in DOMAIN path : path[i] \in dirs}
    IN IF found = {} THEN 0 ELSE CHOOSE i \in found : \A j \in found : i <= j

(* ------------------------------ the client ------------------------------ *)

\* The program that execvp starts: the file named or, without one, the first
\* on PATH.
ExecFile(compiler, path) ==
    LET i == First(path, Executable) IN
    IF compiler \in Executable THEN compiler
    ELSE IF i = 0 THEN NotFound ELSE path[i]

\* Mutant: PATH is trimmed before the directory of the link, not after it.
SupportMasqueradeBefore(path, named) ==
    LET i == First(path, IF named = NoDirectory THEN Accessible ELSE {named})
    IN IF i \in {0, 1} THEN [path |-> path, tweaked |-> 0]
       ELSE [path |-> SubSeq(path, i, Len(path)), tweaked |-> 1]

\* PATH from after the directory by which distcc was called, or after the
\* first one with something of this name; unless nothing is left.
SupportMasquerade(path, named) ==
    LET i == First(path, IF named = NoDirectory THEN Accessible ELSE {named})
    IN IF i \in {0, Len(path)} THEN [path |-> path, tweaked |-> 0]
       ELSE [path |-> SubSeq(path, i + 1, Len(path)), tweaked |-> 1]

(* ------------------------------ the server ------------------------------ *)

\* The last words of a name; the slash that begins it does not count.
Key(words, n) ==
    IF Len(words) > n /\ ~(Len(words) = n + 1 /\ Head(words) = "")
    THEN SubSeq(words, Len(words) - n + 1, Len(words))
    ELSE words

NameOf(compiler) == IF compiler = NoDirectory THEN <<"gcc">> ELSE Names[compiler]

StringmapLookup(list, n, compiler) ==
    LET i == First(list, {dir \in Directories : Key(Names[dir], n) = Key(NameOf(compiler), n)})
    IN IF i = 0 THEN NotFound ELSE list[i]

\* The compiler of the list with the same last words. Without a list, and when
\* it cannot be read, every compiler is served.
RemapCompiler(compiler) ==
    IF call.listing = "read" THEN StringmapLookup(call.list, call.words, compiler) ELSE compiler

(* ------------------------------- the chain ------------------------------ *)

\* asked: what was asked for on this machine; named: by what name dir was
\* started; runs: how often distcc ran.
Asks(machine, compiler, path, level) ==
    [machine |-> machine, asked |-> compiler, named |-> compiler, dir |-> NotFound, path |-> path,
     level |-> level, runs |-> 0, state |-> "explicit"]

Exec(process, compiler, path, level) ==
    LET dir == ExecFile(compiler, path) IN
    [process EXCEPT !.named = compiler, !.dir = dir, !.path = path, !.level = level,
                    !.state = IF dir = NotFound THEN "missing" ELSE Bin[dir]]

Callable == call.explicit \in BOOLEAN /\ {call.path, call.serverPath, call.list} \subseteq Seq(Directories)

MasqueradeInit ==
    LET process == Asks("client", call.compiler, call.path, 0)
    IN /\ Callable
       /\ chain = IF call.explicit THEN process ELSE Exec(process, call.compiler, call.path, 0)

Increment(level) == IF level > 0 THEN level + 1 ELSE 1

\* distcc runs: called as the compiler, or as distcc with the compiler's name.
Explicit == chain.state = "explicit"

Tweak ==
    IF Explicit THEN [path |-> chain.path, tweaked |-> 0]
    ELSE SupportMasquerade(chain.path, chain.named)

\* The compiler that is then looked for: the one named after distcc, or the
\* one of the name by which it was called.
Compiler == IF Explicit THEN chain.named ELSE NoDirectory

Distcc == chain.state \in {"distcc", "explicit"}

\* Mutant: the directory that was trimmed is counted as one call more.
TooDeepLate == chain.level > Tweak.tweaked + 1

\* distcc has run before, and not as the link that was trimmed.
TooDeep == chain.level > Tweak.tweaked

Recursion ==
    /\ Distcc
    /\ TooDeep
    /\ chain' = [chain EXCEPT !.state = "recursion", !.runs = @ + 1]

\* The preprocessor, or the compiler, on this machine.
RunHere ==
    /\ Distcc
    /\ ~TooDeep
    /\ chain' = Exec([chain EXCEPT !.runs = @ + 1], Compiler, Tweak.path, Increment(chain.level))

\* The compiler on the server, which a recursive distcc does not ask.
RunThere ==
    /\ Distcc
    /\ chain.level = 0
    /\ chain' = LET compiler == RemapCompiler(Compiler) IN
                IF compiler = NotFound THEN [chain EXCEPT !.machine = "server", !.state = "refused"]
                ELSE Exec(Asks("server", compiler, call.serverPath, 0), compiler, call.serverPath, Increment(0))

\* A script in place of the link calls distcc with the name of the compiler.
RunScript ==
    /\ chain.state = "script"
    /\ chain' = [chain EXCEPT !.state = "explicit", !.named = Scripted]

MasqueradeNext == Recursion \/ RunHere \/ RunThere \/ RunScript

MasqueradeSpec == MasqueradeInit /\ [][MasqueradeNext /\ UNCHANGED call]_<<call, chain>>

(* ------------------------------- property ------------------------------- *)

Path == IF chain.machine = "client" THEN call.path ELSE call.serverPath

Link == Having({"distcc"})
Plainly == Having({"script", "compiler"})

\* The program that would run, and the compiler in the end, if there was no
\* masquerade directory: the one asked for or, where that is not, the first of its
\* name on PATH.
Plain(asked, path) ==
    LET i == First(path, Plainly) IN
    IF asked \in Plainly THEN asked ELSE IF i = 0 THEN NotFound ELSE path[i]

Scripts(asked, path) == Plain(asked, path) \in Having({"script"})
Wanted(asked, path) == IF Scripts(asked, path) THEN Scripted ELSE Plain(asked, path)

\* The links to distcc that are found before anything else; and a directory of
\* the compiler's name, which is taken for a link.
Links(path) ==
    LET plain == First(path, Plainly)
    IN {i \in DOMAIN path : path[i] \in Accessible \ Plainly /\ (plain = 0 \/ i < plain)}

\* Called by the directory of a link that is not on PATH, or comes after a
\* compiler; or the compiler is not where it is said to be, and a link to distcc
\* is found.
Behind(asked, path) ==
    /\ asked \in Link
    /\ \A j \in DOMAIN path : path[j] = asked => \E i \in 1..j - 1 : path[i] \in Accessible
Misnamed(asked, path) == asked \notin Executable \cup {NoDirectory} /\ Links(path) # {}

\* Each distcc that runs has counted itself in the environment, and trims PATH at
\* most once: the third says that it has called itself, whatever PATH is.
CallsBounded ==
    /\ chain.runs <= 3
    /\ chain.state \in {"distcc", "explicit"} => chain.runs <= 2

\* distcc ends with the compiler that would run without any masquerade directory.
\* It says that it has called itself only where it would have had to pass a link
\* more than it may: one, when called by its own name or by the server, else two.
\* A server with a list of compilers, unless it cannot read the list, takes one of
\* the list for the one that is asked for, and runs that one if it is there and no
\* link or script itself. If it is not there, the server runs the first of that
\* name on its own PATH, which the list need not have: execvp is tried again with
\* the name only (Wanted).
CompilerRuns ==
    /\ (chain.machine = "server" /\ chain.state # "refused" /\ call.listing = "read") =>
            \E i \in DOMAIN call.list : chain.asked = call.list[i]
    /\ \/ Behind(chain.asked, Path) \/ Misnamed(chain.asked, Path)
       \/ /\ chain.state = "compiler" => chain.dir = Wanted(chain.asked, Path)
          /\ chain.state = "missing" => Wanted(chain.asked, Path) = NotFound
          /\ chain.state = "recursion" =>
                \/ Cardinality(Links(Path)) > IF chain.machine = "server" \/ call.explicit THEN 1 ELSE 2
                \/ Wanted(chain.asked, Path) = NotFound
                \/ Scripts(chain.asked, Path) /\ (call.explicit \/ chain.machine = "server" \/ Links(Path) # {})
=============================================================================
