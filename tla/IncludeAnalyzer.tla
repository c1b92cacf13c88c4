-------------------------- MODULE IncludeAnalyzer --------------------------
(***************************************************************************)
(* The include server of distcc's pump mode: one compilation command after *)
(* another, each answered with the files a preprocessor may read or with   *)
(* nothing (include_analyzer.py, include_analyzer_memoizing_node.py,       *)
(* parse_file.py, macro_eval.py, compress_files.py and the handler of      *)
(* include_server.py).                                                     *)
(*                                                                         *)
(* The analysis is a recursion (FindNode) over caches that live from one   *)
(* command to the next, so the model keeps its stack: a command may stop   *)
(* at any point of it, and what it leaves in the caches is what the next   *)
(* one starts from.  One include configuration is modelled, in which every *)
(* name but those of #include_next stands for one file.                    *)
(***************************************************************************)
EXTENDS Naturals, Sequences, FiniteSets, SequencesExt

CONSTANTS
    Files, Macros,
    Absolute,     \* absolute paths a macro may expand to
    NoFile,       \* the file of a node that stands for none
    System,       \* files below a default directory of the compiler
    Malformed,    \* files with a directive the parser refuses
    Named,        \* Named[f]: the files an #include_next of f's name may mean
    Triggers,     \* the paths of --stat_reset_triggers
    Edited,       \* the files that change during the build
    Programs,     \* the directives of the files
    Commands,     \* [files |-> -include files and the unit, defs |-> -Dm=v]
    MaxCommands, MaxEdits, MaxTimeouts     \* bounds

Definitions == Macros \X (Macros \cup Files \cup Absolute)
Program == [quote : [Files -> Seq(Files)], angle : [Files -> Seq(Files)],
            expr : [Files -> Seq(Macros)], next : [Files -> Seq(Files)],
            defs : [Files -> SUBSET Definitions]]

ASSUME FilesAssumption ==
    /\ IsFiniteSet(Files) /\ IsFiniteSet(Macros) /\ Files \cap Macros = {}
    /\ Absolute \cap (Files \cup Macros) = {}
    /\ NoFile \notin Files
    /\ System \subseteq Files /\ Malformed \subseteq Files
    /\ Triggers \subseteq Files /\ Edited \subseteq Files
    /\ Named \in [Files -> SUBSET Files]
ASSUME ProgramsAssumption ==
    /\ Programs \subseteq Program
    /\ Commands \subseteq [files : Seq(Files) \ {<<>>}, defs : SUBSET Definitions]
ASSUME BoundsAssumption == {MaxCommands, MaxEdits, MaxTimeouts} \subseteq Nat

VARIABLES
    prog,       \* the directives of each file
    disk,       \* the version of each file, 0 when there is none
    clock,      \* the newest version
    mem,        \* what ClearStatCaches forgets: see EmptyCaches
    stamps,     \* stat_reset_triggers: the last version seen, 0 never
    phase,      \* "idle", "file", "search", "copy", "dead"
    cmd,        \* the command: what is left of its files, its -D options
    stack,      \* the calls of FindNode: the node, the includes left to do
    root,       \* the node of the file from the command line
    closure,    \* include_closure so far
    answer,     \* "files", "nothing"
    seen,       \* history: the disk and clock when the command came
    damaged,    \* history: files whose includes were abandoned half-way
    cmds, timeouts

work == <<phase, cmd, stack, root, closure, answer>>
analyzerVars == <<prog, disk, clock, mem, stamps, work, seen, damaged, cmds, timeouts>>

(***************************************************************************)
(* The caches.  A node is [file, kids, rec]; rec is its support record,    *)
(* whose support is the set of macros its meaning depends on.  A key is a  *)
(* name and the way it is resolved; "real" is the key of the resolved file *)
(* and its directory.                                                      *)
(***************************************************************************)
EmptyCaches ==
    [known  |-> [f \in Files |-> "unknown"],   \* build_stat_cache
     parsed |-> [f \in Files |-> 0],           \* file_cache: the version read
     copied |-> [f \in Files |-> 0],           \* the copy under client_root
     table  |-> [m \in Macros |-> {}],         \* symbol_table
     cache  |-> <<>>,                          \* key to node
     nodes  |-> <<>>,
     recs   |-> <<>>]

AnalyzerInit ==
    /\ prog \in Programs
    /\ disk \in [Files -> {0, 1}] /\ \A f \in Files \ Edited : disk[f] = 1
    /\ clock = 1
    /\ mem = EmptyCaches
    /\ stamps = [f \in Triggers |-> disk[f]]
    /\ phase = "idle" /\ cmd = [files |-> <<>>, defs |-> {}]
    /\ stack = <<>> /\ root = 0 /\ closure = {} /\ answer = "nothing"
    /\ seen = [disk |-> disk, clock |-> clock]
    /\ damaged = {} /\ cmds = 0 /\ timeouts = 0

-----------------------------------------------------------------------------
(***************************************************************************)
(* macro_eval: every expansion of a macro by every definition so far.      *)
(***************************************************************************)
Expansions(table, m) ==
    LET step[i \in 0..Cardinality(Macros)] ==
            IF i = 0 THEN {m}
            ELSE LET reached == step[i-1] IN reached \cup UNION {table[x] : x \in reached \cap Macros}
    IN  step[Cardinality(Macros)]

\* Mutant: a definition does not invalidate what depends on its symbol.
InsertNoCallback(c, defs) ==
    [c EXCEPT !.table = [m \in Macros |-> @[m] \cup {d[2] : d \in {e \in defs : e[1] = m}}]]

(***************************************************************************)
(* InsertMacroDefInTable with InvalidateRecords as its callback.           *)
(***************************************************************************)
Insert(c, defs) ==
    [c EXCEPT !.table = [m \in Macros |-> @[m] \cup {d[2] : d \in {e \in defs : e[1] = m}}],
              !.recs = [r \in DOMAIN @ |->
                          IF @[r].support \cap {d[1] : d \in defs} = {} THEN @[r]
                          ELSE [@[r] EXCEPT !.valid = FALSE]]]

Probe(c, fs) ==
    [c EXCEPT !.known = [f \in Files |->
        IF f \notin fs \/ @[f] # "unknown" THEN @[f]
        ELSE IF disk[f] = 0 THEN "no" ELSE "yes"]]

Exists(c, f) == c.known[f] = "yes"

\* cache[key] = node
Put(cache, key, node) ==
    [k \in DOMAIN cache \cup {key} |-> IF k = key THEN node ELSE cache[k]]

Valid(c, n) == c.recs[c.nodes[n].rec].valid

(***************************************************************************)
(* The first half of FindNode: a new node under the key, with the file and *)
(* the record of the old one if there was one whose record is invalid.     *)
(***************************************************************************)
NewNode(c0, f, how) ==
    LET key == <<f, how>>
        old == key \in DOMAIN c0.cache
        c   == IF old \/ how \in {"resolved", "next"} THEN c0 ELSE Probe(c0, {f})
        file == IF old THEN c.nodes[c.cache[key]].file
                ELSE IF how = "resolved" \/ (how # "next" /\ Exists(c, f)) THEN f
                ELSE NoFile
        rec == IF old THEN c.nodes[c.cache[key]].rec ELSE Len(c.recs) + 1
    IN  [c EXCEPT
            !.recs = IF old THEN @ ELSE Append(@, [valid |-> TRUE, support |-> {}]),
            !.nodes = Append(@, [file |-> file, kids |-> {}, rec |-> rec]),
            !.cache = Put(@, key, Len(c.nodes) + 1)]

(***************************************************************************)
(* What the loops of FindNode go through: the includes of a file in its    *)
(* four lists.                                                             *)
(***************************************************************************)
Todo(f) ==
    LET Each(how, list) == [i \in DOMAIN list |-> [how |-> how, of |-> list[i]]]
    IN  Each("quote", prog.quote[f]) \o Each("angle", prog.angle[f])
        \o Each("expr", prog.expr[f]) \o Each("next", prog.next[f])

Top == stack[Len(stack)]
Below == SubSeq(stack, 1, Len(stack) - 1)
Item == Head(Top.todo)
Rest == [Top EXCEPT !.todo = Tail(@)]

(***************************************************************************)
(* FindNode returns node n to the frame that called it: one more child,    *)
(* whose support is added unless the caller is the dummy of a next.        *)
(***************************************************************************)
WithChild(c, parent, n) ==
    IF parent = 0 THEN c
    ELSE LET c1 == [c EXCEPT !.nodes[parent].kids = @ \cup {n}]
         IN  IF c.nodes[parent].file = NoFile THEN c1
             ELSE [c1 EXCEPT !.recs[c.nodes[parent].rec].support =
                                 @ \cup c.recs[c.nodes[n].rec].support]

Return(c, frames, n) ==
    LET caller == frames[Len(frames)]
    IN  /\ mem' = WithChild(c, caller.node, n)
        /\ stack' = frames
        /\ root' = IF caller.node = 0 THEN n ELSE root

Searching(hows) == phase = "search" /\ Top.todo # <<>> /\ Item.how \in hows

Unchanged == UNCHANGED <<prog, disk, clock, stamps, seen, cmds>>
SearchOn == Unchanged /\ UNCHANGED <<phase, cmd, closure, answer, damaged, timeouts>>

Ways == {"resolved", "quote", "angle", "next"}
Key == <<Item.of, Item.how>>
Cached == Key \in DOMAIN mem.cache
CallerWaits == Append(Below, Rest)

\* A node under this key whose record is valid is the answer.
FindCached ==
    /\ Searching(Ways) /\ Cached /\ Valid(mem, mem.cache[Key])
    /\ Return(mem, CallerWaits, mem.cache[Key])
    /\ SearchOn

Fresh == NewNode(mem, Item.of, Item.how)
Node == Len(Fresh.nodes)
Missed == Searching(Ways) /\ ~ (Cached /\ Valid(mem, mem.cache[Key]))
Resolved == Fresh.nodes[Node].file # NoFile
RealKey == <<Item.of, "real">>

\* The name resolves to no file: a node without children.
FindNothing ==
    /\ Missed /\ ~ Resolved /\ Item.how # "next"
    /\ Return(Fresh, CallerWaits, Node)
    /\ SearchOn

\* #include_next: a dummy, whose children are the files of this name.
FindNext ==
    /\ Missed /\ Item.how = "next"
    /\ mem' = Fresh
    /\ stack' = Append(CallerWaits,
                   [node |-> Node,
                    todo |-> LET fs == SetToSeq(Named[Item.of])
                             IN  [i \in DOMAIN fs |-> [how |-> "dir", of |-> fs[i]]]])
    /\ UNCHANGED root /\ SearchOn

\* Known after its resolution: the node that is there, whatever its record; the
\* new one is dropped.
KnownAsReal ==
    /\ Item.how # "resolved" /\ RealKey \in DOMAIN Fresh.cache /\ Valid(Fresh, Node)

FindReal ==
    /\ Missed /\ Resolved /\ KnownAsReal
    /\ Return([mem EXCEPT !.known = Fresh.known,
                          !.cache = Put(@, Key, Fresh.cache[RealKey])],
              CallerWaits, Fresh.cache[RealKey])
    /\ SearchOn

(***************************************************************************)
(* The rest of FindNode: the node is remembered and made valid before its  *)
(* file is parsed and its children are known.                              *)
(***************************************************************************)
Remembered ==
    LET c == [Fresh EXCEPT !.recs[Fresh.nodes[Node].rec].valid = TRUE]
    IN  IF Item.how = "resolved" THEN c
        ELSE [c EXCEPT !.cache = Put(@, RealKey, Node)]

Visiting == Missed /\ Resolved /\ ~ KnownAsReal
Parses == mem.parsed[Item.of] = 0

Visit ==
    /\ Visiting
    /\ Parses => disk[Item.of] > 0 /\ Item.of \notin Malformed
    /\ LET c == IF Parses
                THEN [Insert(Remembered, prog.defs[Item.of])
                         EXCEPT !.parsed[Item.of] = disk[Item.of]]
                ELSE Remembered
       IN  IF Item.of \in System
           THEN Return(c, CallerWaits, Node)
           ELSE /\ mem' = c /\ UNCHANGED root
                /\ stack' = Append(CallerWaits, [node |-> Node, todo |-> Todo(Item.of)])
    /\ SearchOn

\* The children are done: return to the caller.
Finish ==
    /\ phase = "search" /\ Top.todo = <<>> /\ Top.node # 0
    /\ Return(mem, Below, Top.node)
    /\ SearchOn

\* One directory of the loop of a next.
TryDirectory ==
    /\ Searching({"dir"})
    /\ mem' = Probe(mem, {Item.of})
    /\ stack' = Append(Below, [Top EXCEPT !.todo =
                    (IF Exists(mem', Item.of) THEN <<[how |-> "resolved", of |-> Item.of]>>
                     ELSE <<>>) \o Tail(@)])
    /\ UNCHANGED root /\ SearchOn

(***************************************************************************)
(* A computed include: ResolveExpr gives the files it may mean now, in the *)
(* order of a Python set, and the symbols it depends on, which become part *)
(* of the support after the files have been visited.  An absolute path     *)
(* among its values is refused (see EvaluateFails).                        *)
(***************************************************************************)
Values == Expansions(mem.table, Item.of)

Evaluate ==
    /\ Searching({"expr"}) /\ Values \cap Absolute = {}
    /\ LET values == Values
           c == Probe(mem, values \cap Files)
           files == {f \in values \cap Files : Exists(c, f)}
       IN  /\ mem' = c
           /\ \E order \in SetToSeqs(files) :
                stack' = Append(Below, [Top EXCEPT !.todo =
                    [i \in DOMAIN order |-> [how |-> "resolved", of |-> order[i]]]
                    \o <<[how |-> "symbols", of |-> values \cap Macros]>> \o Tail(@)])
    /\ UNCHANGED root /\ SearchOn

AddSupport ==
    /\ Searching({"symbols"})
    /\ mem' = [mem EXCEPT !.recs[mem.nodes[Top.node].rec].support = @ \cup Item.of]
    /\ stack' = CallerWaits
    /\ UNCHANGED root /\ SearchOn

-----------------------------------------------------------------------------
(***************************************************************************)
(* The command around the search.                                          *)
(***************************************************************************)
ReachedFrom(n) ==
    LET step[i \in 0..Len(mem.nodes)] ==
            IF i = 0 THEN {n}
            ELSE LET reached == step[i-1] IN reached \cup UNION {mem.nodes[k].kids : k \in reached}
    IN  step[Len(mem.nodes)]

\* _CalculateIncludeClosureExceptSystem
Collected == {mem.nodes[n].file : n \in ReachedFrom(root)} \ (System \cup {NoFile})

\* FindNode has returned to RunAlgorithm.
Collect ==
    /\ phase = "search" /\ Top.todo = <<>> /\ Top.node = 0
    /\ closure' = closure \cup Collected
    /\ stack' = <<>> /\ root' = 0
    /\ phase' = IF cmd.files = <<>> THEN "copy" ELSE "file"
    /\ Unchanged /\ UNCHANGED <<mem, cmd, answer, damaged, timeouts>>

\* Mutant: a path that comes into existence is noted, the caches stay.
ChangedOnly == {f \in Triggers : stamps[f] # 0 /\ disk[f] \notin {0, stamps[f]}}

Changed == {f \in Triggers : disk[f] \notin {0, stamps[f]}}
Removed == {f \in Triggers : disk[f] = 0 /\ stamps[f] # 0}

(***************************************************************************)
(* A command comes; DoStatResetTriggers.  The first path that is new or    *)
(* changed ends the loop; a path that is gone stays in the map.            *)
(***************************************************************************)
Receive ==
    /\ phase = "idle" /\ cmds < MaxCommands
    /\ cmd' \in Commands
    /\ cmds' = cmds + 1
    /\ seen' = [disk |-> disk, clock |-> clock]
    /\ \/ /\ Changed # {}
          /\ \E f \in Changed : stamps' = [stamps EXCEPT ![f] = disk[f]]
       \/ Changed = {} /\ UNCHANGED stamps
    /\ IF Changed \cup Removed # {} THEN mem' = EmptyCaches /\ damaged' = {}
                                    ELSE UNCHANGED <<mem, damaged>>
    /\ phase' = "file" /\ closure' = {} /\ answer' = "nothing"
    /\ UNCHANGED <<prog, disk, clock, stack, root, timeouts>>

\* _ProcessFileFromCommandLine, RunAlgorithm up to its call of FindNode.
OpenFile ==
    /\ phase = "file"
    /\ LET f == Head(cmd.files)
           c == Probe(mem, {f})
       IN  IF Exists(c, f)
           THEN /\ mem' = Insert(c, cmd.defs)
                /\ stack' = <<[node |-> 0, todo |-> <<[how |-> "resolved", of |-> f]>>]>>
                /\ phase' = "search" /\ cmd' = [cmd EXCEPT !.files = Tail(@)]
           ELSE /\ mem' = c /\ phase' = "idle" /\ UNCHANGED <<stack, cmd>>
    /\ Unchanged /\ UNCHANGED <<root, closure, answer, damaged, timeouts>>

GiveUp ==
    /\ phase' = "idle" /\ stack' = <<>> /\ root' = 0 /\ closure' = {}
    /\ Unchanged /\ UNCHANGED <<cmd, answer>>

\* The files whose nodes are in the making, and those that share the node of an
\* #include_next which is.
OnStack == {mem.nodes[stack[i].node].file : i \in {j \in DOMAIN stack : stack[j].node # 0}}
NextOnStack ==
    {h \in Files : /\ <<h, "next">> \in DOMAIN mem.cache
                   /\ \E i \in DOMAIN stack : stack[i].node = mem.cache[<<h, "next">>]}
Sharing == {f \in Files : ToSet(prog.next[f]) \cap NextOnStack # {}}

(***************************************************************************)
(* NotCoveredError out of the parser: a file that cannot be opened or that *)
(* it does not understand.  A timeout that comes during _ParseFine is      *)
(* caught there and raised again as such an error.  Nothing is cleared.    *)
(***************************************************************************)
ParseFails ==
    /\ Visiting /\ Parses
    /\ \/ disk[Item.of] = 0 /\ mem' = Remembered /\ UNCHANGED timeouts
       \/ /\ disk[Item.of] > 0
          /\ \/ Item.of \in Malformed /\ UNCHANGED timeouts
             \/ timeouts < MaxTimeouts /\ timeouts' = timeouts + 1
          /\ \E defs \in SUBSET prog.defs[Item.of] : mem' = Insert(Remembered, defs)
    /\ damaged' = (damaged \cup OnStack \cup Sharing \cup {Item.of}) \ {NoFile}
    /\ GiveUp

(***************************************************************************)
(* NotCoveredError out of ResolveExpr: the index of an absolute path, when *)
(* some of the other values have been looked up.  The nodes on the stack   *)
(* stay valid, without the rest of their children and of their support.    *)
(***************************************************************************)
EvaluateFails ==
    /\ Searching({"expr"}) /\ Values \cap Absolute # {}
    /\ \E before \in SUBSET (Values \cap Files) : mem' = Probe(mem, before)
    /\ damaged' = (damaged \cup OnStack \cup Sharing) \ {NoFile}
    /\ GiveUp /\ UNCHANGED timeouts

\* Mutant: a timeout leaves the caches as they are.
TimeoutKeepsCaches ==
    /\ phase \in {"file", "search"} /\ timeouts < MaxTimeouts
    /\ timeouts' = timeouts + 1
    /\ UNCHANGED <<mem, damaged>>
    /\ GiveUp

\* NotCoveredTimeOutError: the caches are cleared.
Timeout ==
    /\ phase \in {"file", "search"} /\ timeouts < MaxTimeouts
    /\ timeouts' = timeouts + 1
    /\ mem' = EmptyCaches /\ damaged' = {}
    /\ GiveUp

(***************************************************************************)
(* Compress, and the answer.  Files are copied once; the timer is off.     *)
(***************************************************************************)
Copy ==
    /\ phase = "copy" /\ \A f \in closure : disk[f] > 0 \/ mem.copied[f] > 0
    /\ mem' = [mem EXCEPT !.copied = [f \in Files |->
                   IF f \in closure /\ @[f] = 0 THEN disk[f] ELSE @[f]]]
    /\ phase' = "idle" /\ answer' = "files"
    /\ Unchanged /\ UNCHANGED <<cmd, stack, root, closure, damaged, timeouts>>

\* A file that cannot be copied ends the include server.
CopyFails ==
    /\ phase = "copy" /\ \E f \in closure : disk[f] = 0 /\ mem.copied[f] = 0
    /\ phase' = "dead"
    /\ Unchanged
    /\ UNCHANGED <<mem, cmd, stack, root, closure, answer, damaged, timeouts>>

\* The build writes, rewrites or removes a file.
Edit ==
    /\ clock <= MaxEdits /\ clock' = clock + 1
    /\ \E f \in Edited : \E v \in {0, clock + 1} \ {disk[f]} :
           disk' = [disk EXCEPT ![f] = v]
    /\ UNCHANGED <<prog, mem, stamps, work, seen, damaged, cmds, timeouts>>

Search == \/ FindCached \/ FindNothing \/ FindNext \/ FindReal \/ Visit
          \/ Finish \/ TryDirectory \/ Evaluate \/ AddSupport
Serve == OpenFile \/ Search \/ Collect \/ ParseFails \/ EvaluateFails \/ Copy \/ CopyFails

AnalyzerNext == Receive \/ Serve \/ Timeout \/ Edit

AnalyzerSpec == AnalyzerInit /\ [][AnalyzerNext]_analyzerVars

-----------------------------------------------------------------------------
AnalyzerTypeOK ==
    /\ prog \in Programs /\ disk \in [Files -> 0..clock] /\ clock \in 1..MaxEdits + 1
    /\ mem.known \in [Files -> {"unknown", "yes", "no"}]
    /\ mem.parsed \in [Files -> 0..clock] /\ mem.copied \in [Files -> 0..clock]
    /\ mem.table \in [Macros -> SUBSET (Macros \cup Files \cup Absolute)]
    /\ DOMAIN mem.cache \subseteq Files \X (Ways \cup {"real"})
    /\ \A k \in DOMAIN mem.cache : mem.cache[k] \in DOMAIN mem.nodes
    /\ \A n \in DOMAIN mem.nodes :
          /\ mem.nodes[n].file \in Files \cup {NoFile}
          /\ mem.nodes[n].kids \subseteq DOMAIN mem.nodes
          /\ mem.nodes[n].rec \in DOMAIN mem.recs
    /\ \A r \in DOMAIN mem.recs :
          mem.recs[r].valid \in BOOLEAN /\ mem.recs[r].support \subseteq Macros
    /\ stamps \in [Triggers -> 0..clock]
    /\ phase \in {"idle", "file", "search", "copy", "dead"}
    /\ phase = "search" <=> stack # <<>>
    /\ \A i \in DOMAIN stack : stack[i].node = 0 <=> i = 1
    /\ root \in {0} \cup DOMAIN mem.nodes /\ closure \subseteq Files
    /\ answer \in {"files", "nothing"} /\ damaged \subseteq Files
    /\ cmds \in 0..MaxCommands /\ timeouts \in 0..MaxTimeouts

Answered == phase = "idle" /\ answer = "files"

\* A file the stat cache knows, or does not know although it was there.
There(f) == Exists(mem, f) \/ (/\ mem.known[f] = "unknown"
                               /\ disk[f] # 0 /\ disk[f] = seen.disk[f])

\* The files the static includes of f mean, and those of its computed ones.
StaticIncludes(f) ==
    {g \in ToSet(prog.quote[f]) \cup ToSet(prog.angle[f])
            \cup UNION {Named[h] : h \in ToSet(prog.next[f])} : There(g)}

ComputedIncludes(f) ==
    {g \in Files \cap UNION {Expansions(mem.table, m) : m \in ToSet(prog.expr[f])} :
        There(g)}

\* What an answer is told of: the included files below no system directory.
Closed(Includes(_), fs) == \A f \in fs : Includes(f) \ System \subseteq closure

(***************************************************************************)
(* However the caches were filled, by earlier commands, across cycles and  *)
(* after timeouts, an answer has every file that the unconditional         *)
(* includes of its files name, as far as the stat cache knows them.  Only  *)
(* files whose analysis was broken off, by the parser or by an absolute    *)
(* path for a computed include, are excepted, and those that share with    *)
(* them the node of an #include_next: it stays in the cache.               *)
(***************************************************************************)
StaticClosed == Answered => Closed(StaticIncludes, closure \ damaged)

Acyclic ==
    LET named(f) == ToSet(prog.quote[f]) \cup ToSet(prog.angle[f])
                    \cup IF prog.expr[f] = <<>> THEN {}
                         ELSE Files \cap UNION {{d[2] : d \in c.defs} : c \in Commands}
        below[f \in Files, k \in 1..Cardinality(Files)] ==
            IF k = 1 THEN named(f)
            ELSE LET reached == below[f, k-1] IN reached \cup UNION {named(g) : g \in reached}
    IN  \A f \in Files : f \notin below[f, Cardinality(Files)]

\* Macros from the command line, no cycle, one way to include a file, no next.
Tame ==
    /\ \A f \in Files : prog.defs[f] = {} /\ prog.next[f] = <<>>
    /\ \A f, g \in Files : ToSet(prog.quote[f]) \cap ToSet(prog.angle[g]) = {}
    /\ Acyclic

(***************************************************************************)
(* A computed include is answered with the files of every definition of    *)
(* its macros, those of this command too, although the nodes above it were *)
(* cached by a command with other definitions: the support records find    *)
(* what a definition makes stale.  For programs whose macros are all       *)
(* defined before the search begins, and for files whose analysis was not  *)
(* broken off: the node of one lacks its support too.                      *)
(***************************************************************************)
ComputedCovered == Answered /\ Tame => Closed(ComputedIncludes, closure \ damaged)

(***************************************************************************)
(* No answer is older than its command for a path of --stat_reset_triggers:*)
(* the version that was parsed and copied is the one the command found or  *)
(* a later one, and a path held to be missing was missing then or has been *)
(* changed since.  Not so for a path the command did not find: one that    *)
(* came into existence and has gone again between two commands is not      *)
(* noticed (DoStatResetTriggers), and a copy of it may be answered.        *)
(***************************************************************************)
TriggersSeen ==
    LET Current(f, v) == v > 0 /\ (v > seen.clock \/ seen.disk[f] \in {0, v})
    IN  Answered =>
          \A f \in Triggers :
             /\ f \in closure => Current(f, mem.copied[f])
             /\ f \in closure \ damaged => Current(f, mem.parsed[f])
             /\ Exists(mem, f) \/ mem.known[f] = "unknown"
                \/ seen.disk[f] = 0 \/ disk[f] # seen.disk[f]

=============================================================================
