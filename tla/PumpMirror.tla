---------------------------- MODULE PumpMirror -----------------------------
(***************************************************************************)
(* How pump mode takes the files of a compile to the server.  The include  *)
(* server keeps a mirror of what its analyses have followed (mirror_path,  *)
(* compress_files and compiler_defaults.py) under a root of its own, one   *)
(* per generation of its caches.  It answers a client with names in the    *)
(* mirror; the client reads them whenever it gets to it, and the server    *)
(* rebuilds them under a directory of the job (clirpc.c, srvrpc.c).        *)
(*                                                                         *)
(* A path is a sequence of names.  A disk is a function from paths to      *)
(* directories, files and links; the three components of a root are one    *)
(* name, and the server's directory is "T".                                *)
(***************************************************************************)
EXTENDS Naturals, FiniteSets, SequencesExt, TLC

CONSTANTS
    Disk, Own,      \* the disks of the client and of the server
    Defaults,       \* Defaults[c]: the default directories of compiler c
    Longer,         \* the pairs of names of which the second is longer
    PumpCommands,   \* [compiler, paths followed, header maps of -I]
    MaxCommands     \* bound

Nowhere == <<"nowhere">>
Dir == [kind |-> "dir"]
File(p) == [kind |-> "file", of |-> p]
Link(p) == [kind |-> "link", to |-> p, above |-> FALSE]
AboveLink(p) == [kind |-> "link", to |-> p, above |-> TRUE]   \* with all the "../" there are

\* The real path of a name in the directory "at".
RECURSIVE Walk(_, _, _)
Walk(disk, at, rest) ==
    IF rest = <<>> THEN at
    ELSE LET here == Append(at, Head(rest))
         IN  IF Head(rest) = ".." THEN Walk(disk, Front(at), Tail(rest))
             ELSE IF here \notin DOMAIN disk THEN Nowhere
             ELSE IF disk[here].kind = "link" THEN Walk(disk, <<>>, disk[here].to \o Tail(rest))
             ELSE IF disk[here].kind = "file" /\ Len(rest) > 1 THEN Nowhere
             ELSE Walk(disk, here, Tail(rest))

Canonicalize(disk, p) == Walk(disk, <<>>, p)
Exists(disk, p) == Canonicalize(disk, p) # Nowhere
IsDir(disk, p) == Exists(disk, p) /\ (p = <<>> \/ disk[Canonicalize(disk, p)] = Dir)

\* The name itself, which may be a link.
Place(disk, p) == LET at == Canonicalize(disk, Front(p)) IN IF at = Nowhere THEN Nowhere ELSE Append(at, Last(p))
IsLink(disk, p) == Place(disk, p) \in DOMAIN disk /\ disk[Place(disk, p)].kind = "link"

Under(d, p) == IsPrefix(d, p)

\* p.startswith(d), on the text.
StartsWith(d, p) ==
    /\ Len(d) <= Len(p) /\ IsPrefix(Front(d), p)
    /\ p[Len(d)] = Last(d) \/ <<Last(d), p[Len(d)]>> \in Longer

MakeDirs(disk, p) == disk @@ [q \in {SubSeq(p, 1, n) : n \in 1 .. Len(p)} |-> Dir]

\* What the include server remembers of a generation.
Generation(root) ==
    [root |-> root, asked |-> {}, systemDirs |-> {}, systemLinks |-> <<>>, links |-> <<>>, mustExist |-> <<>>,
     linkStat |-> {}, system |-> <<>>, compressed |-> {}]

VARIABLES
    clientDisk, \* the client's disk, with the mirrors
    inc,        \* the include server: its generation, and "alive"
    jobs,       \* the commands that are answered, not yet sent
    delivery,   \* what became of the last job
    overlaps,   \* history: roots in which a mirrored file became a system file
    commands

PumpVars == <<clientDisk, inc, jobs, delivery, overlaps, commands>>

Root(n) == <<"R" \o ToString(n)>>

PumpInit ==
    /\ clientDisk = Root(1) :> Dir @@ Disk
    /\ inc = Generation(Root(1)) @@ [alive |-> TRUE, generation |-> 1]
    /\ jobs = {} /\ delivery = [outcome |-> "none"] /\ overlaps = {} /\ commands = 0

-----------------------------------------------------------------------------
(* The include server, on s = its memory and "disk".                       *)

\* SystemdirPrefixCache: a path is judged once, by the directories known then.
Index(s, p) ==
    [s EXCEPT !.system = @ @@ (p :> \E d \in s.systemDirs : StartsWith(d, p))]

\* _MakeLinkFromMirrorToRealLocation: a directory under the root becomes a
\* link, unless there is a link already, here or above.
MakeLink(s, d) ==
    LET path(n) == s.root \o SubSeq(d, 1, n)
        node(n) == IF path(n) \in DOMAIN s.disk THEN s.disk[path(n)] ELSE File(Nowhere)
        real == CHOOSE n \in 0 .. Len(d) :
                    /\ \A k \in 0 .. n : node(k) = Dir
                    /\ n < Len(d) => node(n + 1) # Dir
        inside == {p \in DOMAIN s.disk : Under(path(Len(d)), p)}
        removed == [s EXCEPT !.disk = [p \in DOMAIN @ \ inside |-> @[p]],
                             !.systemLinks = SelectSeq(@, LAMBDA p : ~StartsWith(path(Len(d)), p))]
        linked(t) == [t EXCEPT !.disk = path(Len(d)) :> AboveLink(d) @@ MakeDirs(@, path(Len(d) - 1)),
                               !.systemLinks = Append(@, path(Len(d)))]
    IN  IF real = Len(d) THEN linked(removed)
        ELSE IF node(real + 1).kind = "link" THEN s
        ELSE linked(s)

SetSystemDirsDefaults(s, compiler) ==
    IF compiler \in s.asked THEN s
    ELSE FoldLeft(MakeLink, [s EXCEPT !.asked = @ \cup {compiler}, !.systemDirs = @ \cup ToSet(Defaults[compiler])],
                  Defaults[compiler])

\* A link is mirrored as a link to what it leads to in the end.
MirrorLink(s, p) ==
    LET name == s.root \o Place(s.disk, p)
    IN  IF ~IsLink(s.disk, p) \/ Exists(s.disk, name) THEN s
        ELSE [s EXCEPT !.disk = name :> Link(Canonicalize(s.disk, p)) @@ @, !.links = Append(@, name)]

\* Mutant: the directories that only ".." needs are not noted.
MakeParentQuietly(s, real) == [s EXCEPT !.disk = MakeDirs(@, s.root \o real)]

MakeParent(s, real) ==
    [s EXCEPT !.disk = MakeDirs(@, s.root \o real), !.mustExist = Append(@, s.root \o real)]

\* MirrorPath.DoPath, from the last name to the first.
RECURSIVE DoPath(_, _)
DoPath(s, p) ==
    IF p = <<>> \/ p \in s.linkStat THEN s
    ELSE LET t == [s EXCEPT !.linkStat = @ \cup {p}]
             real == Canonicalize(t.disk, Front(p))
             known == Index(t, real)
         IN  IF IsDir(t.disk, t.root \o real) THEN DoPath(MirrorLink(t, p), Front(p))
             ELSE IF known.system[real] THEN known
             ELSE DoPath(MirrorLink(MakeParent(known, real), p), Front(p))

\* FindNode: what is resolved has an index, and is mirrored.
Follow(s, p) == DoPath(Index(s, Canonicalize(s.disk, p)), p)

\* A file is created, if it may be: below a link only where users may write.
Create(s, name, node, writable) ==
    LET place == Place(s.disk, name)
    IN  IF place \in DOMAIN s.disk THEN s
        ELSE IF Under(s.root, place) \/ (writable /\ place # Nowhere) THEN [s EXCEPT !.disk = place :> node @@ @]
        ELSE [s EXCEPT !.alive = FALSE]

\* CompressFiles.Compress: a copy is made once, and then taken to be there.
Compress(s, real, writable) ==
    IF real \in s.compressed THEN s
    ELSE LET t == [s EXCEPT !.compressed = @ \cup {real}]
             u == IF IsDir(t.disk, t.root \o Front(real)) THEN t ELSE DoPath(t, real)
         IN  Create(u, t.root \o real, File(real), writable)

Special == "forcing_technique_271828"

\* A file in every directory that must be there, for the server's sake.
ForceDirectoriesToExist(s, writable) ==
    FoldLeft(LAMBDA t, d : Create(t, Append(d, Special), File(<<Special>>), writable), s, s.mustExist)

\* The real paths that are not system files.
ClosureExceptSystem(s, paths) ==
    SelectSeq([i \in DOMAIN paths |-> Canonicalize(Disk, paths[i])], LAMBDA p : ~s.system[p])

\* DoCompilationCommand: what is followed, the files to be copied, and what is
\* remembered when they have been.
AnalysisOf(followed, copies, copied, writable) ==
    [after |-> ForceDirectoriesToExist(copied, writable),
     list |-> [i \in DOMAIN copies |-> followed.root \o copies[i]] \o followed.systemLinks \o followed.links
                 \o [i \in DOMAIN copied.mustExist |-> Append(copied.mustExist[i], Special)]]

Copying(followed, copies, writable) ==
    AnalysisOf(followed, copies, FoldLeft(LAMBDA t, p : Compress(t, p, writable), followed, copies), writable)

Following(followed, cmd, writable) ==
    LET maps == [i \in DOMAIN cmd.maps |-> Canonicalize(Disk, cmd.maps[i])]
    IN  Copying(followed, ClosureExceptSystem(followed, cmd.paths) \o maps, writable)

Analysis(s, cmd, writable) ==
    Following(FoldLeft(Follow, SetSystemDirsDefaults(s, cmd.compiler), cmd.paths), cmd, writable)

Memory == inc @@ [disk |-> clientDisk]
Forget(s) == [f \in DOMAIN s \ {"disk"} |-> s[f]]

\* The roots are removed when the include server ends.
WithoutRoots(disk) == [p \in {q \in DOMAIN disk : \A n \in 1 .. inc.generation : ~Under(Root(n), q)} |-> disk[p]]

Ends(disk) == clientDisk' = WithoutRoots(disk) /\ inc' = [inc EXCEPT !.alive = FALSE]

Answers(cmd, list, after) ==
    LET covered == \E p \in DOMAIN after.system :
                       ~after.system[p] /\ \E d \in after.systemDirs : Under(d, p)
    IN  /\ commands' = commands + 1
        /\ overlaps' = IF covered THEN overlaps \cup {inc.root} ELSE overlaps
        /\ IF after.alive
           THEN /\ clientDisk' = after.disk /\ inc' = Forget(after)
                /\ jobs' = jobs \cup {[root |-> inc.root, cmd |-> cmd, list |-> list]}
           ELSE Ends(after.disk) /\ UNCHANGED jobs
        /\ UNCHANGED delivery

Answer(cmd, writable) ==
    LET a == Analysis(Memory, cmd, writable)
    IN  /\ inc.alive /\ commands < MaxCommands /\ cmd.compiler \in DOMAIN Defaults
        /\ Answers(cmd, a.list, a.after)

\* A compiler that does not tell its directories: the client is on its own.
NotCovered(cmd) ==
    /\ inc.alive /\ commands < MaxCommands /\ cmd.compiler \notin DOMAIN Defaults
    /\ commands' = commands + 1
    /\ UNCHANGED <<clientDisk, inc, jobs, delivery, overlaps>>

\* ClearStatCaches, after a timeout or a trigger: the old root stays, for
\* clients that are slow.
ClearStatCaches ==
    LET n == inc.generation + 1
    IN  /\ inc.alive /\ commands \in 1 .. MaxCommands - 1 /\ n <= MaxCommands
        /\ inc' = Generation(Root(n)) @@ [alive |-> TRUE, generation |-> n]
        /\ clientDisk' = Root(n) :> Dir @@ clientDisk
        /\ UNCHANGED <<jobs, delivery, overlaps, commands>>

\* pump --shutdown, or a signal.
Shutdown ==
    /\ inc.alive /\ commands > 0
    /\ Ends(clientDisk)
    /\ UNCHANGED <<jobs, delivery, overlaps, commands>>

-----------------------------------------------------------------------------
(* The client and the server of a job.                                     *)

Top == <<"T">>

\* The name without the root.
OriginalName(name) == Tail(name)

\* --scan-includes: what a name of the answer stands for.
Category(name) ==
    LET node == clientDisk[Place(clientDisk, name)]
        original == OriginalName(name)
    IN  IF node.kind = "link" THEN IF node.above /\ node.to = original THEN <<"SYSTEMDIR", original>>
                                                                      ELSE <<"SYMLINK", original>>
        ELSE IF Last(original) = Special THEN <<"DIRECTORY", Front(original)>>
        ELSE <<"FILE", original>>

\* dcc_r_many_files: links on the server start at the directory of the job,
\* but for those that lead above it.
Receive(server, name, node, writable) ==
    LET path == Top \o OriginalName(name)
        made == IF Exists(server, Front(path)) THEN server ELSE MakeDirs(server, Front(path))
        place == Place(made, path)
        allowed == place # Nowhere /\ (Under(Top, place) \/ writable)
    IN  IF server = <<>> \/ ~allowed \/ (node.kind = "link" /\ place \in DOMAIN made) THEN <<>>
        ELSE (place :> IF node.kind = "link" /\ ~node.above THEN Link(Top \o node.to) ELSE node) @@ made

\* dcc_x_many_files: what is in the mirror now.  An empty disk is a failure.
Received(job, writable) ==
    LET placed(name) == Place(clientDisk, name)
        transfer(server, name) ==
            IF placed(name) \in DOMAIN clientDisk THEN Receive(server, name, clientDisk[placed(name)], writable) ELSE <<>>
    IN  FoldLeft(transfer, Top :> Dir @@ Own, job.list)

Send(job, writable) ==
    LET server == Received(job, writable)
        sees(p) == LET at == Canonicalize(server, Top \o p)
                   IN  [at |-> at, node |-> IF at = Nowhere THEN Dir ELSE server[at]]
    IN  /\ job \in jobs
        /\ jobs' = jobs \ {job}
        /\ delivery' = IF server = <<>> THEN [outcome |-> "failed", job |-> job]
                   ELSE [outcome |-> "sent", job |-> job,
                         sees |-> [p \in ToSet(job.cmd.paths \o job.cmd.maps) |-> sees(p)],
                         own |-> {p \in DOMAIN server : ~Under(Top, p)} = DOMAIN Own]
        /\ UNCHANGED <<clientDisk, inc, overlaps, commands>>

PumpNext(writable) ==
    \/ \E cmd \in PumpCommands : Answer(cmd, writable) \/ NotCovered(cmd)
    \/ \E job \in jobs : Send(job, writable)
    \/ ClearStatCaches \/ Shutdown

-----------------------------------------------------------------------------
(* Where the mirror is known to fall short.                                *)

AllDefaults == UNION {ToSet(Defaults[c]) : c \in DOMAIN Defaults}

\* Not below a default directory, but its text starts with the name of one.
LooksSystem(p) ==
    \E d \in AllDefaults : StartsWith(d, Canonicalize(Disk, p)) /\ ~Under(d, Canonicalize(Disk, p))

\* A link in a default directory that leads out of it: the server has its own.
LeavesSystem(p) ==
    \E d \in AllDefaults, n \in DOMAIN p :
        IsLink(Disk, SubSeq(p, 1, n)) /\ Under(d, Place(Disk, SubSeq(p, 1, n)))

\* A header map is sent by its real name, and no link to it is.
LinkedMap(job, p) == p \in ToSet(job.cmd.maps) /\ Canonicalize(Disk, p) # p

Excused(job, p) == job.root \in overlaps \/ LooksSystem(p) \/ LeavesSystem(p) \/ LinkedMap(job, p)

Wanted(job) == ToSet(job.cmd.paths \o job.cmd.maps)

\* The client's own file, in the directory of the job; or the server's.
Found(p, seen) ==
    LET real == Canonicalize(Disk, p)
    IN  /\ seen.node = File(real)
        /\ \/ seen.at = Top \o real
           \/ seen.at = real /\ \E d \in AllDefaults : Under(d, real)

Displayed(job, p) ==
    LET real == Canonicalize(Disk, p)
        shown == {Category(name) : name \in ToSet(job.list)}
    IN  <<"FILE", real>> \in shown \/ \E d \in AllDefaults : Under(d, real) /\ <<"SYSTEMDIR", d>> \in shown

(***************************************************************************)
(* Whatever was compiled before, in whichever order clients get to send    *)
(* what they have been answered, and however often the caches are cleared  *)
(* meanwhile: --scan-includes displays every file of a job, or its         *)
(* directory; the job arrives whole; every path its analysis has followed  *)
(* leads on the server to the same file, below a default directory to the  *)
(* server's own; and nothing is written on either machine outside the      *)
(* mirror and the directory of the job.                                    *)
(***************************************************************************)
Mirrored ==
    /\ overlaps = {} => WithoutRoots(clientDisk) = Disk
    /\ inc.alive => \A job \in jobs : \A p \in Wanted(job) :
           (job.root \notin overlaps /\ ~LooksSystem(p)) => Displayed(job, p)
    /\ delivery.outcome = "failed" => delivery.job.root \in overlaps \/ ~inc.alive
    /\ delivery.outcome = "sent" =>
           /\ delivery.own \/ delivery.job.root \in overlaps
           /\ \A p \in DOMAIN delivery.sees : Found(p, delivery.sees[p]) \/ Excused(delivery.job, p)
=============================================================================
