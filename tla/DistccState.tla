---------------------------- MODULE DistccState ----------------------------
(***************************************************************************)
(* The state files: every distcc client notes what it does in a file named *)
(* by its pid (state.c), and a monitor polls the directory (mon.c,         *)
(* mon-text.c) while the files are truncated, written, removed, left       *)
(* behind by killed clients and taken over by clients with the same pid.   *)
(*                                                                         *)
(* A file is empty or whole, since a note is one short write.  Of what is  *)
(* in it only the host and the slot are kept, in the two structures it is  *)
(* written from.                                                           *)
(***************************************************************************)
EXTENDS Naturals, FiniteSets

CONSTANTS
    Pids,         \* what clients are called, one after another
    RemoteSlots,  \* the slots of the server
    LocalSlots,   \* those of this machine
    MaxAge        \* dcc_phase_max_age (60 seconds in the code)

ASSUME PidsAssumption == IsFiniteSet(Pids) /\ Pids # {}
ASSUME SlotsAssumption == {RemoteSlots, LocalSlots} \subseteq SUBSET Nat \ {{}}
ASSUME MaxAgeAssumption == MaxAge \in Nat

VARIABLES
    at,        \* the client: "none" (there is no such process), or its last note
    states,    \* local_state and remote_state: host and slot
    held,      \* the slots it has locked last, by host
    writing,   \* its open file: "no", "linked", or "unlinked" meanwhile
    file,      \* its state file: NoFile, or what is in it and its age
    step,      \* the monitor: "idle", "next", "stat", "unlink", "read", "check"
    todo,      \* names it has yet to come to in the directory
    cur,       \* the name it is at
    fd,        \* the file it has open: "path", the one of that name, or an
               \* unlinked one
    listed,    \* the list of this poll
    steady     \* clients that have noted something before the poll, and since
               \* then done nothing

clientVars == <<at, states, held, writing>>
monVars == <<step, todo, cur, fd, listed>>
vars == <<clientVars, file, monVars, steady>>

Hosts == {"remote", "localhost"}
NoFile == [kind |-> "none", age |-> 0]
Empty == [kind |-> "empty", age |-> 0]
Whole == [kind |-> "whole", age |-> 0]
ThePath == [kind |-> "path", age |-> 0]
Runs(c) == at[c] # "none"
Blank == [h \in Hosts |-> [host |-> "", slot |-> 0]]
NoSlot == [h \in Hosts |-> 0]

-----------------------------------------------------------------------------
(* The clients *)

\* The notes of a build, in the order of compile.c, where.c and remote.c; a
\* build that fails anywhere on the way compiles locally.
Notes == {"cpp", "connect", "send", "wait", "compile", "receive", "local"}
Follows ==
    [start |-> {"local"}, picked |-> {"cpp", "local"}, cpp |-> {"connect", "local"},
     connect |-> {"send", "local"}, send |-> {"wait", "compile", "local"},
     wait |-> {"compile", "local"}, compile |-> {"receive", "local"},
     receive |-> {"local"}, local |-> {}]
\* What each note is about, and the host it gives; the others keep the host.
Target(n) == IF n \in {"cpp", "wait", "local"} THEN "localhost" ELSE "remote"
GivesHost(n) == n \in {"cpp", "connect", "compile", "local"}
TakesSlot(n) == n \in {"cpp", "local"}

\* direct_my_state: the structure for a target, named by its host here.
Direct(target) == target

\* dcc_note_state_slot, after dcc_lock_one has taken the slot.
NoteSlot(st, h, s) == [st EXCEPT ![Direct(h)].slot = s]

\* The name is gone; who has the file open keeps it.
Unlink(c) ==
    /\ file' = [file EXCEPT ![c] = NoFile]
    /\ writing' = [writing EXCEPT ![c] = IF @ = "linked" THEN "unlinked" ELSE @]

Start(c) ==
    /\ ~Runs(c)
    /\ at' = [at EXCEPT ![c] = "start"]
    /\ UNCHANGED <<states, held, writing, file, monVars, steady>>

\* dcc_pick_host_from_list_and_lock_it
Pick(c) ==
    /\ at[c] = "start"
    /\ \E s \in RemoteSlots :
         /\ held' = [held EXCEPT ![c]["remote"] = s]
         /\ states' = [states EXCEPT ![c] = NoteSlot(@, "remote", s)]
    /\ at' = [at EXCEPT ![c] = "picked"]
    /\ UNCHANGED <<writing, file, monVars, steady>>

\* dcc_note_state up to the open, which truncates; before it, where the code
\* does so, the lock on a local slot.
Note(c, n) ==
    /\ Runs(c) /\ n \in Follows[at[c]] /\ writing[c] = "no"
    /\ \E s \in LocalSlots :
         LET locked == IF TakesSlot(n) THEN NoteSlot(states[c], "localhost", s) ELSE states[c]
             t == Direct(Target(n))
         IN /\ held' = IF TakesSlot(n) THEN [held EXCEPT ![c]["localhost"] = s] ELSE held
            /\ states' = [states EXCEPT ![c] =
                 IF GivesHost(n) THEN [locked EXCEPT ![t].host = Target(n)] ELSE locked]
    /\ at' = [at EXCEPT ![c] = n]
    /\ file' = [file EXCEPT ![c] = Empty]
    /\ writing' = [writing EXCEPT ![c] = "linked"]
    /\ steady' = steady \ {c}
    /\ UNCHANGED monVars

\* dcc_write_state, and close
Write(c) ==
    /\ writing[c] # "no"
    /\ writing' = [writing EXCEPT ![c] = "no"]
    /\ file' = IF writing[c] = "linked" THEN [file EXCEPT ![c] = Whole] ELSE file
    /\ UNCHANGED <<at, states, held, monVars, steady>>

Ends(c) ==
    /\ at' = [at EXCEPT ![c] = "none"]
    /\ steady' = steady \ {c}
    /\ states' = [states EXCEPT ![c] = Blank]
    /\ held' = [held EXCEPT ![c] = NoSlot]

\* exit, and dcc_remove_state_file with it
Exit(c) ==
    /\ at[c] \in {"receive", "local"} /\ writing[c] = "no"
    /\ Ends(c)
    /\ IF file[c] # NoFile THEN Unlink(c) ELSE UNCHANGED <<file, writing>>
    /\ fd' = IF step \in {"stat", "unlink", "read"} /\ cur = c /\ fd = ThePath THEN file[c] ELSE fd
    /\ UNCHANGED <<step, todo, cur, listed>>

\* A signal: its handler does not remove the state file.
Kill(c) ==
    /\ Runs(c)
    /\ Ends(c)
    /\ writing' = [writing EXCEPT ![c] = "no"]
    /\ UNCHANGED <<file, monVars>>

Age(c) ==
    /\ file[c] # NoFile /\ file[c].age <= MaxAge
    /\ file' = [file EXCEPT ![c].age = @ + 1]
    /\ UNCHANGED <<clientVars, monVars, steady>>

-----------------------------------------------------------------------------
(* The monitor *)

\* Noted, and not between the two halves of a note.
Settled(c) == at[c] \in Notes /\ writing[c] = "no"
Opened == IF fd = ThePath THEN file[cur] ELSE fd
\* The file is closed, and the next name read.
Back == step' = "next" /\ UNCHANGED todo /\ fd' = ThePath

\* opendir
Poll ==
    /\ step = "idle"
    /\ step' = "next"
    /\ todo' = Pids
    /\ steady' = {c \in Pids : Settled(c)}
    /\ UNCHANGED <<clientVars, file, cur, fd, listed>>

\* readdir, and open; a file that has disappeared is passed over.
Open(c) ==
    /\ step = "next" /\ c \in todo
    /\ todo' = todo \ {c}
    /\ IF file[c] = NoFile THEN UNCHANGED <<step, cur, fd>>
       ELSE step' = "stat" /\ cur' = c /\ fd' = ThePath
    /\ UNCHANGED <<clientVars, file, listed, steady>>

\* dcc_mon_kill_old: fstat
Stat ==
    /\ step = "stat"
    /\ step' = IF Opened.age > MaxAge THEN "unlink" ELSE "read"
    /\ UNCHANGED <<clientVars, file, todo, cur, fd, listed, steady>>

\* dcc_mon_kill_old: whatever has the name by now goes.
UnlinkOld ==
    /\ step = "unlink"
    /\ Back
    /\ IF file[cur] # NoFile THEN Unlink(cur) ELSE UNCHANGED <<file, writing>>
    /\ UNCHANGED <<at, states, held, cur, listed, steady>>

\* Mutant: a file that cannot be read ends the poll.
ReadOrStop ==
    /\ step = "read"
    /\ fd' = ThePath
    /\ IF Opened.kind = "whole" THEN step' = "check" /\ UNCHANGED todo
       ELSE step' = "next" /\ todo' = {}
    /\ UNCHANGED <<clientVars, file, cur, listed, steady>>
\* dcc_mon_read_state: an empty file is bad timing.
Read ==
    /\ step = "read"
    /\ IF Opened.kind = "whole" THEN step' = "check" /\ fd' = ThePath /\ UNCHANGED todo ELSE Back
    /\ UNCHANGED <<clientVars, file, cur, listed, steady>>

\* dcc_mon_check_orphans
Check ==
    /\ step = "check"
    /\ listed' = IF Runs(cur) THEN listed \cup {cur} ELSE listed
    /\ Back
    /\ UNCHANGED <<clientVars, file, cur, steady>>

\* closedir: the list is printed and freed, and the monitor sleeps.
Show ==
    /\ step = "next" /\ todo = {}
    /\ step' = "idle" /\ listed' = {} /\ steady' = {}
    /\ UNCHANGED <<clientVars, file, todo, cur, fd>>

MonitorStep == Poll \/ Stat \/ UnlinkOld \/ Read \/ Check \/ Show \/ \E c \in Pids : Open(c)

Init ==
    /\ at = [c \in Pids |-> "none"]
    /\ states = [c \in Pids |-> Blank]
    /\ held = [c \in Pids |-> NoSlot]
    /\ writing = [c \in Pids |-> "no"]
    /\ file = [c \in Pids |-> NoFile]
    /\ step = "idle" /\ todo = {} /\ fd = ThePath /\ listed = {} /\ steady = {}
    /\ cur = CHOOSE c \in Pids : TRUE

Next ==
    \/ MonitorStep
    \/ \E c \in Pids :
         \/ Start(c) \/ Pick(c) \/ Write(c) \/ Exit(c) \/ Kill(c) \/ Age(c)
         \/ \E n \in Notes : Note(c, n)

Spec == Init /\ [][Next]_vars

-----------------------------------------------------------------------------
TypeOK ==
    /\ at \in [Pids -> Notes \cup {"none", "start", "picked"}]
    /\ states \in [Pids -> [Hosts -> [host : Hosts \cup {""}, slot : Nat]]]
    /\ held \in [Pids -> [Hosts -> Nat]]
    /\ writing \in [Pids -> {"no", "linked", "unlinked"}]
    /\ file \in [Pids -> [kind : {"none", "empty", "whole"}, age : 0..(MaxAge + 1)]]
    /\ step \in {"idle", "next", "stat", "unlink", "read", "check"}
    /\ todo \subseteq Pids /\ cur \in Pids /\ listed \subseteq Pids /\ steady \subseteq Pids
    /\ fd \in [kind : {"path", "empty", "whole"}, age : 0..(MaxAge + 1)]

\* Every file of the directory has been looked at.
PollEnds == step = "next" /\ todo = {}

\* A poll lists every client that runs and has done nothing since the poll
\* began, whatever the others do to their files meanwhile; only a client
\* whose file has grown old, or is gone for that, may be missing.
SteadyListed ==
    PollEnds => \A c \in steady : c \in listed \/ file[c] = NoFile \/ file[c].age > MaxAge

=============================================================================
