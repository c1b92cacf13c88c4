-------------------------- MODULE DistccStateProofs -------------------------
(***************************************************************************)
(* Proofs about DistccState, for any number of clients and slots and any *)
(* age: what a file may contain follows from where its client is in a    *)
(* note, and a poll that has begun loses no client that keeps still. And *)
(* about Masquerade, for any PATH: distcc stops calling itself, and ends *)
(* with the compiler that would run without it.                          *)
(***************************************************************************)
EXTENDS DistccState, Masquerade, FiniteSetTheorems, WellFoundedInduction, TLAPS

----------------------------------------------------------------------------
(* The inductive invariant.                                              *)

\* The file of a client that has noted something: open and empty, removed
\* while it was open, or closed; and nothing has an age but a file.
FileKnown(c) ==
    /\ file[c].kind = "none" => file[c] = NoFile
    /\ at[c] \in Notes => /\ writing[c] = "linked" => file[c].kind = "empty"
                          /\ writing[c] = "unlinked" => file[c].kind = "none"
                          /\ writing[c] = "no" => file[c].kind \in {"whole", "none"}
    /\ at[c] \notin Notes => writing[c] = "no"

\* The monitor has its file open by the name that is in the directory, until
\* that name is removed.
OpenKnown == step \in {"stat", "unlink", "read"} /\ fd = ThePath => file[cur] # NoFile

\* Old, or removed for being old.
Old(c) == file[c] = NoFile \/ file[c].age > MaxAge

\* A steady client is ahead of the poll, or in hand, or listed.
Accounted(c) ==
    \/ c \in todo \/ c \in listed \/ Old(c)
    \/ cur = c /\ fd = ThePath /\ step \in {"stat", "read"}
    \/ cur = c /\ step = "check"

StateInv ==
    /\ TypeOK
    /\ \A c \in Pids : FileKnown(c)
    /\ OpenKnown
    /\ \A c \in steady : Settled(c) /\ Accounted(c)
    /\ step = "idle" => steady = {}

----------------------------------------------------------------------------
(* The records.                                                          *)

States == [Hosts -> [host : Hosts \cup {""}, slot : Nat]]
Files == [kind : {"none", "empty", "whole"}, age : 0..(MaxAge + 1)]
Opens == [kind : {"path", "empty", "whole"}, age : 0..(MaxAge + 1)]

LEMMA Constants ==
    /\ NoFile \in Files /\ Empty \in Files /\ Whole \in Files /\ ThePath \in Opens
    /\ NoFile.kind = "none" /\ Empty.kind = "empty" /\ Whole.kind = "whole"
    /\ Whole.age = 0 /\ Empty.age = 0
    /\ Blank \in States /\ NoSlot \in [Hosts -> Nat]
BY MaxAgeAssumption DEF NoFile, Empty, Whole, ThePath, Files, Opens, Blank, NoSlot, States

\* A slot is taken for a host, and a host given, in the structure it is of.
LEMMA NoteSlotType ==
    ASSUME NEW st \in States, NEW h \in Hosts, NEW s \in Nat
    PROVE  NoteSlot(st, h, s) \in States
BY DEF NoteSlot, Direct, States

LEMMA HostType ==
    ASSUME NEW st \in States, NEW h \in Hosts
    PROVE  [st EXCEPT ![h].host = h] \in States
BY DEF States

LEMMA SlotType ==
    ASSUME NEW s \in RemoteSlots \cup LocalSlots
    PROVE  s \in Nat
BY SlotsAssumption

\* What has been opened under a name is one of the files of a directory.
LEMMA OpenedType ==
    ASSUME NEW f \in Files, f.kind # "none"
    PROVE  f \in Opens
BY DEF Files, Opens

LEMMA AgedType ==
    ASSUME NEW f \in Files, f.age <= MaxAge
    PROVE  /\ [f EXCEPT !.age = @ + 1] \in Files
           /\ [f EXCEPT !.age = @ + 1].kind = f.kind
           /\ [f EXCEPT !.age = @ + 1].age = f.age + 1
BY MaxAgeAssumption DEF Files

----------------------------------------------------------------------------
(* Types.                                                                *)

ClientTypes ==
    /\ at \in [Pids -> Notes \cup {"none", "start", "picked"}]
    /\ states \in [Pids -> States]
    /\ held \in [Pids -> [Hosts -> Nat]]
    /\ writing \in [Pids -> {"no", "linked", "unlinked"}]

MonTypes ==
    /\ step \in {"idle", "next", "stat", "unlink", "read", "check"}
    /\ todo \subseteq Pids /\ cur \in Pids /\ listed \subseteq Pids
    /\ fd \in Opens

LEMMA TypeParts ==
    TypeOK <=> /\ ClientTypes /\ MonTypes /\ file \in [Pids -> Files] /\ steady \subseteq Pids
BY DEF TypeOK, ClientTypes, MonTypes, States, Files, Opens

LEMMA TypePartsNext ==
    TypeOK' <=> /\ ClientTypes' /\ MonTypes' /\ file' \in [Pids -> Files] /\ steady' \subseteq Pids
BY DEF TypeOK, ClientTypes, MonTypes, States, Files, Opens

LEMMA UnlinkType ==
    ASSUME TypeOK, NEW c \in Pids, Unlink(c)
    PROVE  /\ file' \in [Pids -> Files]
           /\ writing' \in [Pids -> {"no", "linked", "unlinked"}]
BY TypeParts, Constants DEF Unlink, ClientTypes

LEMMA ClientType ==
    ASSUME StateInv, NEW c \in Pids,
           Start(c) \/ Pick(c) \/ Write(c) \/ Exit(c) \/ Kill(c) \/ Age(c)
    PROVE  TypeOK'
<1>1. TypeOK /\ ClientTypes /\ MonTypes /\ file \in [Pids -> Files] /\ steady \subseteq Pids
  BY TypeParts DEF StateInv
<1>2. CASE Start(c)
  BY <1>1, <1>2, TypePartsNext DEF Start, ClientTypes, MonTypes, monVars
<1>3. CASE Pick(c)
  <2>1. PICK s \in RemoteSlots :
          /\ held' = [held EXCEPT ![c]["remote"] = s]
          /\ states' = [states EXCEPT ![c] = NoteSlot(@, "remote", s)]
    BY <1>3 DEF Pick
  <2>2. s \in Nat /\ "remote" \in Hosts
    BY SlotType DEF Hosts
  <2>3. NoteSlot(states[c], "remote", s) \in States
    BY <1>1, <2>2, NoteSlotType DEF ClientTypes
  <2>4. states' \in [Pids -> States]
    BY <1>1, <2>1, <2>3 DEF ClientTypes
  <2>5. held' \in [Pids -> [Hosts -> Nat]]
    BY <1>1, <2>1, <2>2 DEF ClientTypes
  <2> QED BY <1>1, <1>3, <2>4, <2>5, TypePartsNext DEF Pick, ClientTypes, MonTypes, monVars
<1>4. CASE Write(c)
  <2>1. file' \in [Pids -> Files]
    BY <1>1, <1>4, Constants DEF Write
  <2> QED BY <1>1, <1>4, <2>1, TypePartsNext DEF Write, ClientTypes, MonTypes, monVars
<1>5. CASE Exit(c)
  <2>1. file' \in [Pids -> Files] /\ writing' \in [Pids -> {"no", "linked", "unlinked"}]
    BY <1>1, <1>5, UnlinkType DEF Exit, ClientTypes
  <2>2. fd' \in Opens
    <3>1. CASE step \in {"stat", "unlink", "read"} /\ cur = c /\ fd = ThePath
      <4>1. file[c] # NoFile /\ file[c] \in Files
        BY <1>1, <3>1 DEF StateInv, OpenKnown
      <4>2. file[c].kind # "none"
        BY <4>1 DEF StateInv, FileKnown
      <4> QED BY <1>5, <3>1, <4>1, <4>2, OpenedType DEF Exit
    <3>2. CASE ~(step \in {"stat", "unlink", "read"} /\ cur = c /\ fd = ThePath)
      BY <1>1, <1>5, <3>2 DEF Exit, MonTypes
    <3> QED BY <3>1, <3>2
  <2>3. ClientTypes' /\ steady' \subseteq Pids
    BY <1>1, <1>5, <2>1, Constants DEF Exit, Ends, ClientTypes
  <2>4. MonTypes'
    BY <1>1, <1>5, <2>2 DEF Exit, MonTypes
  <2> QED BY <2>1, <2>3, <2>4, TypePartsNext
<1>6. CASE Kill(c)
  BY <1>1, <1>6, Constants, TypePartsNext DEF Kill, Ends, ClientTypes, MonTypes, monVars
<1>7. CASE Age(c)
  <2>1. file[c] \in Files /\ file[c].age <= MaxAge
    BY <1>1, <1>7 DEF Age
  <2>2. [file[c] EXCEPT !.age = @ + 1] \in Files
    BY <2>1, AgedType
  <2>3. file' = [file EXCEPT ![c] = [file[c] EXCEPT !.age = @ + 1]]
    BY <1>1, <1>7 DEF Age
  <2>4. file' \in [Pids -> Files]
    BY <1>1, <2>2, <2>3
  <2> QED BY <1>1, <1>7, <2>4, TypePartsNext DEF Age, ClientTypes, MonTypes, monVars, clientVars
<1> QED BY <1>2, <1>3, <1>4, <1>5, <1>6, <1>7

LEMMA NoteType ==
    ASSUME StateInv, NEW c \in Pids, NEW n \in Notes, Note(c, n)
    PROVE  TypeOK'
<1>1. TypeOK /\ ClientTypes /\ MonTypes /\ file \in [Pids -> Files] /\ steady \subseteq Pids
  BY TypeParts DEF StateInv
<1> DEFINE Locked(s) == IF TakesSlot(n) THEN NoteSlot(states[c], "localhost", s) ELSE states[c]
<1>2. PICK s \in LocalSlots :
        /\ held' = IF TakesSlot(n) THEN [held EXCEPT ![c]["localhost"] = s] ELSE held
        /\ states' = [states EXCEPT ![c] =
             IF GivesHost(n) THEN [Locked(s) EXCEPT ![Direct(Target(n))].host = Target(n)]
                             ELSE Locked(s)]
  BY DEF Note
<1>3. s \in Nat /\ "localhost" \in Hosts /\ Target(n) \in Hosts
  BY SlotType DEF Hosts, Target
<1>4. Locked(s) \in States
  BY <1>1, <1>3, NoteSlotType DEF ClientTypes
<1>5. [Locked(s) EXCEPT ![Direct(Target(n))].host = Target(n)] \in States
  <2> HIDE DEF Locked
  <2> QED BY <1>3, <1>4, HostType DEF Direct
<1>6. states' \in [Pids -> States]
  <2> HIDE DEF Locked
  <2> QED BY <1>1, <1>2, <1>4, <1>5 DEF ClientTypes
<1>7. held' \in [Pids -> [Hosts -> Nat]]
  BY <1>1, <1>2, <1>3 DEF ClientTypes
<1>8. file' \in [Pids -> Files] /\ steady' \subseteq Pids
  BY <1>1, Constants DEF Note
<1>9. MonTypes'
  BY <1>1 DEF Note, MonTypes, monVars
<1>10. at' \in [Pids -> Notes \cup {"none", "start", "picked"}]
       /\ writing' \in [Pids -> {"no", "linked", "unlinked"}]
  BY <1>1 DEF Note, ClientTypes
<1> QED BY <1>6, <1>7, <1>8, <1>9, <1>10, TypePartsNext DEF ClientTypes

LEMMA MonType ==
    ASSUME StateInv, MonitorStep
    PROVE  TypeOK'
<1>1. TypeOK /\ ClientTypes /\ MonTypes /\ file \in [Pids -> Files] /\ steady \subseteq Pids
  BY TypeParts DEF StateInv
<1>2. CASE Poll
  BY <1>1, <1>2, TypePartsNext DEF Poll, ClientTypes, MonTypes, clientVars
<1>3. CASE Stat
  BY <1>1, <1>3, TypePartsNext DEF Stat, ClientTypes, MonTypes, clientVars
<1>4. CASE UnlinkOld
  <2>1. cur \in Pids
    BY <1>1 DEF MonTypes
  <2>2. file' \in [Pids -> Files] /\ writing' \in [Pids -> {"no", "linked", "unlinked"}]
    BY <1>1, <1>4, <2>1, UnlinkType DEF UnlinkOld, ClientTypes
  <2> QED BY <1>1, <1>4, <2>2, Constants, TypePartsNext DEF UnlinkOld, Back, ClientTypes, MonTypes
<1>5. CASE Read
  BY <1>1, <1>5, Constants, TypePartsNext DEF Read, Back, ClientTypes, MonTypes, clientVars
<1>6. CASE Check
  BY <1>1, <1>6, Constants, TypePartsNext DEF Check, Back, ClientTypes, MonTypes, clientVars
<1>7. CASE Show
  BY <1>1, <1>7, TypePartsNext DEF Show, ClientTypes, MonTypes, clientVars
<1>8. ASSUME NEW c \in Pids, Open(c) PROVE TypeOK'
  BY <1>1, <1>8, Constants, TypePartsNext DEF Open, ClientTypes, MonTypes, clientVars
<1> QED BY <1>2, <1>3, <1>4, <1>5, <1>6, <1>7, <1>8 DEF MonitorStep

----------------------------------------------------------------------------
(* What the files contain.                                               *)

\* A step that leaves a client and its file alone.
Same(c) == at'[c] = at[c] /\ writing'[c] = writing[c] /\ file'[c] = file[c]

LEMMA SameKnown ==
    ASSUME NEW c \in Pids, FileKnown(c), Same(c)
    PROVE  FileKnown(c)'
BY DEF FileKnown, Same

LEMMA UnlinkKnown ==
    ASSUME StateInv, NEW c \in Pids, Unlink(c), file[c] # NoFile
    PROVE  /\ file'[c] = NoFile
           /\ writing[c] = "no" => writing'[c] = "no"
           /\ writing[c] # "no" => writing'[c] = "unlinked"
           /\ \A d \in Pids \ {c} : file'[d] = file[d] /\ writing'[d] = writing[d]
BY DEF Unlink, StateInv, TypeOK

LEMMA ClientKnown ==
    ASSUME StateInv, NEW c \in Pids,
           \/ Start(c) \/ Pick(c) \/ Write(c) \/ Exit(c) \/ Kill(c) \/ Age(c)
           \/ \E n \in Notes : Note(c, n)
    PROVE  /\ FileKnown(c)'
           /\ \A d \in Pids \ {c} : Same(d)
<1>1. /\ FileKnown(c)
      /\ at \in [Pids -> Notes \cup {"none", "start", "picked"}]
      /\ writing \in [Pids -> {"no", "linked", "unlinked"}]
      /\ file \in [Pids -> Files]
  BY TypeParts DEF StateInv, ClientTypes
<1>2. "none" \notin Notes /\ "start" \notin Notes /\ "picked" \notin Notes
      /\ "receive" \in Notes /\ "local" \in Notes
  BY DEF Notes
<1>3. CASE Start(c)
  <2>1. at'[c] = "start" /\ writing'[c] = "no" /\ file'[c] = file[c]
    BY <1>1, <1>2, <1>3 DEF Start, Runs, FileKnown
  <2> QED BY <1>1, <1>2, <1>3, <2>1 DEF Start, FileKnown, Same
<1>4. CASE Pick(c)
  <2>1. at'[c] = "picked" /\ writing'[c] = "no" /\ file'[c] = file[c]
    BY <1>1, <1>2, <1>4 DEF Pick, FileKnown
  <2> QED BY <1>1, <1>2, <1>4, <2>1 DEF Pick, FileKnown, Same
<1>5. CASE Write(c)
  <2>1. at[c] \in Notes /\ at' = at
    BY <1>1, <1>5 DEF Write, FileKnown
  <2>2. writing'[c] = "no"
    BY <1>1, <1>5 DEF Write
  <2>3. CASE writing[c] = "linked"
    BY <1>1, <1>5, <2>1, <2>2, <2>3, Constants DEF Write, FileKnown, Same
  <2>4. CASE writing[c] = "unlinked"
    BY <1>1, <1>5, <2>1, <2>2, <2>4 DEF Write, FileKnown, Same
  <2> QED BY <1>1, <1>5, <2>3, <2>4 DEF Write
<1>6. CASE Exit(c)
  <2>1. at'[c] = "none" /\ \A d \in Pids \ {c} : at'[d] = at[d]
    BY <1>1, <1>6 DEF Exit, Ends
  <2>2. writing[c] = "no" /\ (file[c] # NoFile => Unlink(c))
        /\ (file[c] = NoFile => UNCHANGED <<file, writing>>)
    BY <1>6 DEF Exit
  <2>3. writing'[c] = "no" /\ (file'[c].kind = "none" => file'[c] = NoFile)
        /\ \A d \in Pids \ {c} : file'[d] = file[d] /\ writing'[d] = writing[d]
    <3>1. CASE file[c] # NoFile
      BY <2>2, <3>1, UnlinkKnown, Constants
    <3>2. CASE file[c] = NoFile
      BY <2>2, <3>2
    <3> QED BY <3>1, <3>2
  <2> QED BY <1>2, <2>1, <2>3 DEF FileKnown, Same
<1>7. CASE Kill(c)
  <2>1. at'[c] = "none" /\ writing'[c] = "no" /\ file' = file
    BY <1>1, <1>7 DEF Kill, Ends
  <2> QED BY <1>1, <1>2, <1>7, <2>1 DEF Kill, Ends, FileKnown, Same
<1>8. CASE Age(c)
  <2>1. file[c].age <= MaxAge /\ file' = [file EXCEPT ![c] = [file[c] EXCEPT !.age = @ + 1]]
    BY <1>1, <1>8 DEF Age
  <2>2. file'[c].kind = file[c].kind /\ file[c].kind # "none"
    BY <1>1, <1>8, <2>1, AgedType DEF FileKnown, Age
  <2>3. at' = at /\ writing' = writing /\ \A d \in Pids \ {c} : file'[d] = file[d]
    BY <1>1, <1>8, <2>1 DEF Age, clientVars
  <2> QED BY <1>1, <2>2, <2>3 DEF FileKnown, Same
<1>9. ASSUME NEW n \in Notes, Note(c, n)
      PROVE  FileKnown(c)' /\ \A d \in Pids \ {c} : Same(d)
  <2>1. at'[c] = n /\ file'[c] = Empty /\ writing'[c] = "linked"
    BY <1>1, <1>9 DEF Note
  <2> QED BY <1>1, <1>9, <2>1, Constants DEF Note, FileKnown, Same
<1> QED BY <1>3, <1>4, <1>5, <1>6, <1>7, <1>8, <1>9

LEMMA MonKnown ==
    ASSUME StateInv, MonitorStep
    PROVE  /\ at' = at
           /\ \A d \in Pids : FileKnown(d)'
           /\ \A d \in Pids : Same(d) \/ (UnlinkOld /\ d = cur /\ file'[d] = NoFile)
           /\ \A d \in Pids : writing[d] = "no" => writing'[d] = "no"
<1>1. /\ \A d \in Pids : FileKnown(d)
      /\ cur \in Pids
      /\ writing \in [Pids -> {"no", "linked", "unlinked"}]
  BY TypeParts DEF StateInv, ClientTypes, MonTypes
<1>2. CASE UnlinkOld /\ file[cur] # NoFile
  <2>1. Unlink(cur) /\ at' = at
    BY <1>2 DEF UnlinkOld
  <2>2. /\ file'[cur] = NoFile
        /\ writing[cur] = "no" => writing'[cur] = "no"
        /\ writing[cur] # "no" => writing'[cur] = "unlinked"
        /\ \A d \in Pids \ {cur} : file'[d] = file[d] /\ writing'[d] = writing[d]
    BY <1>1, <1>2, <2>1, UnlinkKnown
  <2>3. ASSUME NEW d \in Pids, d = cur PROVE FileKnown(d)'
    BY <1>1, <2>1, <2>2, <2>3, Constants DEF FileKnown
  <2>4. \A d \in Pids \ {cur} : Same(d)
    BY <2>1, <2>2 DEF Same
  <2> QED BY <1>1, <1>2, <2>1, <2>2, <2>3, <2>4, SameKnown DEF Same
<1>3. CASE ~(UnlinkOld /\ file[cur] # NoFile)
  <2>1. at' = at /\ writing' = writing /\ file' = file
    BY <1>3 DEF MonitorStep, Poll, Stat, UnlinkOld, Read, Check, Show, Open, clientVars
  <2> QED BY <1>1, <2>1, SameKnown DEF Same
<1> QED BY <1>2, <1>3

----------------------------------------------------------------------------
(* What the monitor has open.                                            *)

ClientStep(c) ==
    \/ Start(c) \/ Pick(c) \/ Write(c) \/ Exit(c) \/ Kill(c) \/ Age(c)
    \/ \E n \in Notes : Note(c, n)

\* Of the monitor's state a client changes nothing; its exit only makes the
\* file the monitor may have open a nameless one.
LEMMA ClientLeaves ==
    ASSUME StateInv, NEW c \in Pids, ClientStep(c)
    PROVE  /\ step' = step /\ todo' = todo /\ cur' = cur /\ listed' = listed
           /\ fd' = fd \/ (cur = c /\ fd' # ThePath)
           /\ cur = c /\ fd' = ThePath /\ step \in {"stat", "unlink", "read"} =>
                 file'[c] = file[c] \/ file'[c] # NoFile
<1>1. file[c] \in Files /\ file \in [Pids -> Files]
  BY TypeParts DEF StateInv
<1>2. CASE Exit(c)
  <2>1. file[c] # ThePath
    BY <1>1 DEF Files, ThePath
  <2> QED BY <1>2, <2>1 DEF Exit, Unlink
<1>3. CASE Age(c)
  <2>1. file[c].age <= MaxAge /\ file' = [file EXCEPT ![c] = [file[c] EXCEPT !.age = @ + 1]]
    BY <1>1, <1>3 DEF Age
  <2>2. file'[c].kind # "none"
    BY <1>1, <1>3, <2>1, AgedType DEF Age, StateInv, FileKnown
  <2> QED BY <1>3, <2>2, Constants DEF Age, monVars
<1>4. CASE Write(c)
  <2>1. file'[c] = file[c] \/ file'[c] = Whole
    BY <1>1, <1>4 DEF Write
  <2> QED BY <1>4, <2>1, Constants DEF Write, monVars
<1>5. ASSUME NEW n \in Notes, Note(c, n)
      PROVE  UNCHANGED monVars /\ file'[c] # NoFile
  <2>1. file'[c] = Empty
    BY <1>1, <1>5 DEF Note
  <2> QED BY <1>5, <2>1, Constants DEF Note
<1>6. CASE Start(c) \/ Pick(c) \/ Kill(c)
  BY <1>6 DEF Start, Pick, Kill, monVars
<1> QED BY <1>2, <1>3, <1>4, <1>5, <1>6 DEF ClientStep, monVars

LEMMA ClientOpen ==
    ASSUME StateInv, NEW c \in Pids, ClientStep(c)
    PROVE  OpenKnown'
<1>1. \A d \in Pids \ {c} : file'[d] = file[d]
  BY ClientKnown DEF ClientStep, Same
<1>2. OpenKnown /\ cur \in Pids
  BY TypeParts DEF StateInv, MonTypes
<1> QED BY <1>1, <1>2, ClientLeaves DEF OpenKnown

LEMMA MonOpen ==
    ASSUME StateInv, MonitorStep
    PROVE  OpenKnown'
<1>1. OpenKnown
  BY DEF StateInv
<1>2. CASE Stat
  BY <1>1, <1>2 DEF Stat, OpenKnown
<1>3. ASSUME NEW c \in Pids, Open(c)
      PROVE  OpenKnown'
  BY <1>3 DEF Open, OpenKnown
<1>4. CASE Poll \/ UnlinkOld \/ Read \/ Check \/ Show
  BY <1>4 DEF Poll, UnlinkOld, Read, Check, Show, Back, OpenKnown
<1> QED BY <1>2, <1>3, <1>4 DEF MonitorStep

----------------------------------------------------------------------------
(* The steady clients.                                                   *)

SteadyKnown == \A d \in steady : Settled(d) /\ Accounted(d)

LEMMA ClientSteady ==
    ASSUME StateInv, NEW c \in Pids, ClientStep(c)
    PROVE  SteadyKnown' /\ (step' = "idle" => steady' = {})
<1>1. /\ SteadyKnown /\ (step = "idle" => steady = {})
      /\ file \in [Pids -> Files] /\ steady \subseteq Pids
  BY TypeParts DEF StateInv, SteadyKnown
<1>2. steady' \subseteq steady
  BY DEF ClientStep, Start, Pick, Write, Exit, Kill, Age, Note, Ends
<1>3. ASSUME NEW d \in steady', d # c
      PROVE  Settled(d)' /\ Accounted(d)'
  <2>1. d \in Pids /\ Settled(d) /\ Accounted(d) /\ Same(d)
    BY <1>1, <1>2, <1>3, ClientKnown DEF SteadyKnown, ClientStep
  <2>2. Settled(d)'
    BY <2>1 DEF Settled, Same
  <2>3. cur = d => fd' = fd
    BY <1>3, ClientLeaves
  <2>4. Accounted(d)'
    BY <2>1, <2>3, ClientLeaves DEF Accounted, Old, Same
  <2> QED BY <2>2, <2>4
<1>4. ASSUME c \in steady'
      PROVE  Settled(c)' /\ Accounted(c)'
  <2>1. Settled(c) /\ Accounted(c)
    BY <1>1, <1>2, <1>4 DEF SteadyKnown
  <2>2. Age(c)
    BY <1>1, <1>4, <2>1
    DEF ClientStep, Start, Pick, Write, Exit, Kill, Note, Ends, Settled, Runs, Notes
  <2>3. ~Old(c)
    BY <1>1, <2>2, MaxAgeAssumption DEF Age, Old, Files
  <2>4. UNCHANGED <<at, writing, step, todo, cur, fd, listed>>
    BY <2>2 DEF Age, clientVars, monVars
  <2> QED BY <2>1, <2>3, <2>4 DEF Settled, Accounted
<1> QED BY <1>1, <1>2, <1>3, <1>4, ClientLeaves DEF SteadyKnown

LEMMA OldStays ==
    ASSUME NEW d \in Pids, Old(d), file'[d] = file[d] \/ file'[d] = NoFile
    PROVE  Old(d)'
BY DEF Old

LEMMA MonSteady ==
    ASSUME StateInv, MonitorStep
    PROVE  SteadyKnown' /\ (step' = "idle" => steady' = {})
<1>1. /\ SteadyKnown /\ OpenKnown /\ cur \in Pids
      /\ \A d \in Pids : FileKnown(d)
      /\ file \in [Pids -> Files] /\ steady \subseteq Pids
  BY TypeParts DEF StateInv, SteadyKnown, MonTypes
<1>2. /\ \A d \in Pids : Settled(d) => Settled(d)'
      /\ \A d \in Pids : Old(d) => Old(d)'
  BY MonKnown, OldStays DEF Settled, Same
<1>3. CASE Poll
  BY <1>2, <1>3 DEF Poll, SteadyKnown, Accounted
<1>4. CASE Show
  BY <1>4 DEF Show, SteadyKnown
<1>5. ASSUME NEW c \in Pids, Open(c)
      PROVE  SteadyKnown' /\ step' # "idle"
  <2>1. step = "next" /\ step' # "idle" /\ steady' = steady
    BY <1>5 DEF Open
  <2>2. ASSUME NEW d \in steady, d # c PROVE Accounted(d)'
    BY <1>1, <1>2, <1>5, <2>1, <2>2 DEF SteadyKnown, Accounted, Open
  <2>3. ASSUME c \in steady PROVE Accounted(c)'
    BY <1>1, <1>2, <1>5, <2>1, <2>3 DEF Accounted, Open, Old
  <2> QED BY <1>1, <1>2, <2>1, <2>2, <2>3 DEF SteadyKnown
<1>6. CASE Stat
  <2>1. ASSUME NEW d \in steady PROVE Accounted(d)'
    BY <1>1, <1>2, <1>6 DEF Stat, SteadyKnown, Accounted, Opened, Old
  <2> QED BY <1>1, <1>2, <1>6, <2>1 DEF SteadyKnown, Stat
<1>7. CASE UnlinkOld
  <2>1. ASSUME NEW d \in steady PROVE Accounted(d)'
    BY <1>1, <1>2, <1>7, <2>1 DEF UnlinkOld, Back, SteadyKnown, Accounted
  <2> QED BY <1>1, <1>2, <1>7, <2>1 DEF SteadyKnown, UnlinkOld, Back
<1>8. CASE Read
  <2>1. ASSUME NEW d \in steady PROVE Accounted(d)'
    <3>1. CASE cur = d /\ fd = ThePath /\ step \in {"stat", "read"}
      <4>1. Settled(d) /\ FileKnown(d) /\ file[d] # NoFile
        BY <1>1, <1>8, <2>1, <3>1 DEF SteadyKnown, OpenKnown
      <4>2. Opened.kind = "whole"
        BY <3>1, <4>1 DEF Settled, FileKnown, Opened
      <4> QED BY <1>8, <3>1, <4>2 DEF Read, Accounted
    <3>2. CASE ~(cur = d /\ fd = ThePath /\ step \in {"stat", "read"})
      BY <1>1, <1>2, <1>8, <2>1, <3>2 DEF SteadyKnown, Read, Back, Accounted
    <3> QED BY <3>1, <3>2
  <2> QED BY <1>1, <1>2, <1>8, <2>1 DEF SteadyKnown, Read, Back
<1>9. CASE Check
  <2>1. ASSUME NEW d \in steady PROVE Accounted(d)'
    BY <1>1, <1>2, <1>9, <2>1
    DEF Check, Back, SteadyKnown, Accounted, Settled, Runs, Notes
  <2> QED BY <1>1, <1>2, <1>9, <2>1 DEF SteadyKnown, Check, Back
<1> QED BY <1>3, <1>4, <1>5, <1>6, <1>7, <1>8, <1>9 DEF MonitorStep

----------------------------------------------------------------------------
(* The theorems.                                                         *)

LEMMA InvInit == Init => StateInv
<1> SUFFICES ASSUME Init PROVE StateInv
  OBVIOUS
<1>1. cur \in Pids
  BY PidsAssumption DEF Init
<1>2. TypeOK
  BY <1>1, Constants, TypeParts DEF Init, ClientTypes, MonTypes
<1> QED BY <1>2, Constants DEF Init, StateInv, FileKnown, OpenKnown, Notes

LEMMA InvStep == StateInv /\ [Next]_vars => StateInv'
<1> SUFFICES ASSUME StateInv, [Next]_vars PROVE StateInv'
  OBVIOUS
<1>1. ASSUME NEW c \in Pids, ClientStep(c) PROVE StateInv'
  <2>1. TypeOK'
    BY <1>1, ClientType, NoteType DEF ClientStep
  <2>2. \A d \in Pids : FileKnown(d)'
    <3>1. ASSUME NEW d \in Pids, d # c PROVE FileKnown(d)'
      BY <1>1, <3>1, ClientKnown, SameKnown DEF ClientStep, StateInv
    <3> QED BY <1>1, <3>1, ClientKnown DEF ClientStep
  <2> QED BY <1>1, <2>1, <2>2, ClientOpen, ClientSteady DEF StateInv, SteadyKnown
<1>2. CASE MonitorStep
  BY <1>2, MonType, MonKnown, MonOpen, MonSteady DEF StateInv, SteadyKnown
<1>3. CASE UNCHANGED vars
  BY <1>3
  DEF StateInv, TypeOK, FileKnown, OpenKnown, Settled, Accounted, Old,
      vars, clientVars, monVars
<1> QED BY <1>1, <1>2, <1>3 DEF Next, ClientStep

LEMMA InvAlways == Spec => []StateInv
BY InvInit, InvStep, PTL DEF Spec

\* Clients, files and monitor keep their types: a slot noted in the local
\* structure is a slot, and no file is older than it can be.
THEOREM StateType == Spec => []TypeOK
<1>1. StateInv => TypeOK
  BY DEF StateInv
<1> QED BY <1>1, InvAlways, PTL

\* A poll that ends has listed every client that has been running and has
\* done nothing since it began, unless its state file is old or gone.
THEOREM SteadyAreListed == Spec => []SteadyListed
<1>1. StateInv => SteadyListed
  BY DEF StateInv, SteadyListed, PollEnds, Accounted, Old
<1> QED BY <1>1, InvAlways, PTL

----------------------------------------------------------------------------
(* How often distcc calls itself (Masquerade), whatever the directories of*)
(* PATH hold, on the client and on the server.                           *)

\* A distcc that runs has counted itself, and trimmed PATH once or not at all.
CallInv ==
    /\ {"machine", "asked", "named", "dir", "path", "level", "runs", "state"} \subseteq DOMAIN chain
    /\ chain.level \in Nat /\ chain.runs \in Nat
    /\ IF chain.state = "recursion" THEN chain.runs <= 3 ELSE chain.runs <= chain.level /\ chain.level <= 2

LEMMA AsksIs ==
    ASSUME NEW machine, NEW compiler, NEW path
    PROVE  LET process == Asks(machine, compiler, path, 0)
           IN /\ {"machine", "asked", "named", "dir", "path", "level", "runs", "state"} \subseteq DOMAIN process
              /\ process.level = 0 /\ process.runs = 0 /\ process.state = "explicit"
BY DEF Asks

\* What is executed is no state of distcc's own: it may only call itself again.
LEMMA ExecIs ==
    ASSUME NEW process, NEW compiler, NEW path, NEW level \in Nat,
           {"machine", "asked", "named", "dir", "path", "level", "runs", "state"} \subseteq DOMAIN process,
           process.runs \in Nat, process.runs <= level, level <= 2
    PROVE  LET next == Exec(process, compiler, path, level)
           IN /\ {"machine", "asked", "named", "dir", "path", "level", "runs", "state"} \subseteq DOMAIN next
              /\ next.level = level /\ next.runs = process.runs
<1> DEFINE dir == ExecFile(compiler, path)
           state == IF dir = NotFound THEN "missing" ELSE Bin[dir]
<1>1. Exec(process, compiler, path, level) =
        [process EXCEPT !.named = compiler, !.dir = dir, !.path = path, !.level = level, !.state = state]
  BY DEF Exec
<1> HIDE DEF dir, state
<1> QED BY <1>1

LEMMA TweakedOnce == Tweak.tweaked \in {0, 1}
BY DEF Tweak, SupportMasquerade

LEMMA CallInvInit == MasqueradeInit => CallInv
<1> SUFFICES ASSUME MasqueradeInit PROVE CallInv
  OBVIOUS
<1> DEFINE process == Asks("client", call.compiler, call.path, 0)
<1>1. /\ {"machine", "asked", "named", "dir", "path", "level", "runs", "state"} \subseteq DOMAIN process
      /\ process.level = 0 /\ process.runs = 0 /\ process.state = "explicit"
  BY AsksIs
<1>2. chain = process \/ chain = Exec(process, call.compiler, call.path, 0)
  BY DEF MasqueradeInit
<1> HIDE DEF process
<1>3. CASE chain = process
  BY <1>1, <1>3 DEF CallInv
<1>4. CASE chain = Exec(process, call.compiler, call.path, 0)
  BY <1>1, <1>4, ExecIs DEF CallInv
<1> QED BY <1>2, <1>3, <1>4

LEMMA CallInvNext == CallInv /\ [MasqueradeNext /\ UNCHANGED call]_<<call, chain>> => CallInv'
<1> SUFFICES ASSUME CallInv, [MasqueradeNext /\ UNCHANGED call]_<<call, chain>> PROVE CallInv'
  OBVIOUS
<1>1. CASE Recursion
  BY <1>1 DEF Recursion, Distcc, Explicit, CallInv
<1>2. CASE RunHere
  <2> DEFINE process == [chain EXCEPT !.runs = @ + 1]
             level == Increment(chain.level)
  <2>1. chain.level <= 1 /\ chain.state # "recursion" /\ chain' = Exec(process, Compiler, Tweak.path, level)
    BY <1>2, TweakedOnce DEF RunHere, TooDeep, Distcc, Explicit, CallInv
  <2>2. level = chain.level + 1
    BY DEF Increment, CallInv
  <2>3. /\ {"machine", "asked", "named", "dir", "path", "level", "runs", "state"} \subseteq DOMAIN process
        /\ process.runs = chain.runs + 1
    BY DEF CallInv
  <2> HIDE DEF process, level
  <2>4. level \in Nat /\ level <= 2 /\ process.runs \in Nat /\ process.runs <= level
    BY <2>1, <2>2, <2>3 DEF CallInv
  <2> QED BY <2>1, <2>3, <2>4, ExecIs DEF CallInv
<1>3. CASE RunThere
  <2> DEFINE compiler == RemapCompiler(Compiler)
             process == Asks("server", compiler, call.serverPath, 0)
  <2>1. chain.state # "recursion" /\ chain.runs <= 0
    BY <1>3 DEF RunThere, Distcc, Explicit, CallInv
  <2>2. \/ chain' = [chain EXCEPT !.machine = "server", !.state = "refused"]
        \/ chain' = Exec(process, compiler, call.serverPath, 1)
    BY <1>3 DEF RunThere, Increment
  <2>3. /\ {"machine", "asked", "named", "dir", "path", "level", "runs", "state"} \subseteq DOMAIN process
        /\ process.level = 0 /\ process.runs = 0
    BY AsksIs
  <2> HIDE DEF process, compiler
  <2>4. CASE chain' = [chain EXCEPT !.machine = "server", !.state = "refused"]
    BY <2>1, <2>4 DEF CallInv
  <2>5. CASE chain' = Exec(process, compiler, call.serverPath, 1)
    BY <2>3, <2>5, ExecIs DEF CallInv
  <2> QED BY <2>2, <2>4, <2>5
<1>4. CASE RunScript
  BY <1>4 DEF RunScript, CallInv
<1>5. CASE UNCHANGED <<call, chain>>
  BY <1>5 DEF CallInv
<1> QED BY <1>1, <1>2, <1>3, <1>4, <1>5 DEF MasqueradeNext

\* For any PATH, any links, scripts and directories on it and any list of a
\* server, no call of a compiler runs distcc more than three times on a machine
\* (Masquerade, CallsBounded).
THEOREM CallsAlwaysBounded == MasqueradeSpec => []CallsBounded
<1>1. CallInv => CallsBounded
  BY DEF CallInv, CallsBounded
<1> QED BY <1>1, CallInvInit, CallInvNext, PTL DEF MasqueradeSpec

----------------------------------------------------------------------------
(* Which compiler a call ends with (Masquerade): the searches of PATH.   *)

LEMMA LeastNat ==
    ASSUME NEW S \in SUBSET Nat, S # {}
    PROVE  \E m \in S : \A k \in S : m <= k
<1> DEFINE R == StrictSubsetOrdering(Nat)
           F == FiniteSubsetsOf(Nat)
           U == {0..(n - 1) : n \in S}
<1>1. IsWellFoundedOn(R, F)
  BY FS_StrictSubsetOrderingWellFounded
<1>2. U \subseteq F /\ U # {}
  <2>1. ASSUME NEW n \in S PROVE 0..(n - 1) \in F
    <3>1. IsFiniteSet(0..(n - 1))
      BY FS_Interval
    <3>2. 0..(n - 1) \in SUBSET Nat
      OBVIOUS
    <3> QED BY <3>1, <3>2 DEF FiniteSubsetsOf
  <2>2. U # {}
    OBVIOUS
  <2> HIDE DEF F
  <2> QED BY <2>1, <2>2
<1>3. PICK x \in U : \A y \in U : <<y, x>> \notin R
  <2> HIDE DEF R, F, U
  <2> QED BY <1>1, <1>2, WFMin
<1>4. PICK m \in S : x = 0..(m - 1)
  BY <1>3
<1>5. ASSUME NEW k \in S, k < m PROVE FALSE
  <2>1. 0..(k - 1) \in U
    BY <1>5
  <2>2. 0..(k - 1) \subseteq 0..(m - 1) /\ 0..(k - 1) # 0..(m - 1)
    BY <1>5
  <2>3. 0..(k - 1) \in SUBSET Nat /\ 0..(m - 1) \in SUBSET Nat
    OBVIOUS
  <2> QED BY <1>3, <1>4, <2>1, <2>2, <2>3 DEF StrictSubsetOrdering
<1> QED BY <1>5

\* The place that First gives is that of the first one.
LEMMA FirstIs ==
    ASSUME NEW path \in Seq(Directories), NEW dirs
    PROVE  LET i == First(path, dirs)
           IN /\ i \in 0..Len(path)
              /\ i = 0 => \A j \in 1..Len(path) : path[j] \notin dirs
              /\ i # 0 => path[i] \in dirs /\ \A j \in 1..(i - 1) : path[j] \notin dirs
<1> DEFINE found == {i \in DOMAIN path : path[i] \in dirs}
<1>1. found \subseteq 1..Len(path) /\ Len(path) \in Nat
  OBVIOUS
<1>2. CASE found = {}
  <2>1. First(path, dirs) = 0
    BY <1>2 DEF First
  <2> QED BY <1>1, <1>2, <2>1
<1>3. CASE found # {}
  <2>1. \E m \in found : \A k \in found : m <= k
    <3>1. found \in SUBSET Nat
      BY <1>1
    <3> HIDE DEF found
    <3> QED BY <3>1, <1>3, LeastNat
  <2>2. First(path, dirs) = CHOOSE m \in found : \A k \in found : m <= k
    BY <1>3 DEF First
  <2>3. First(path, dirs) \in found /\ \A k \in found : First(path, dirs) <= k
    <3> HIDE DEF found
    <3> QED BY <2>1, <2>2
  <2> QED BY <1>1, <2>3
<1> QED BY <1>2, <1>3

\* What a search of the rest of a path finds, if no compiler and no script has
\* been passed.
LEMMA SearchIs ==
    ASSUME NEW path \in Seq(Directories), NEW k \in 0..Len(path),
           First(path, Plainly) = 0 \/ k < First(path, Plainly)
    PROVE  LET rest == SubSeq(path, k + 1, Len(path))
               i == First(rest, Executable)
           IN /\ rest \in Seq(Directories) /\ Len(rest) = Len(path) - k
              /\ \A j \in 1..Len(rest) : rest[j] = path[k + j]
              /\ i \in 0..Len(rest)
              /\ i = 0 => First(path, Plainly) = 0
              /\ (i # 0 /\ rest[i] \in Plainly) => First(path, Plainly) = k + i
              /\ (i # 0 /\ rest[i] \notin Plainly) => rest[i] \in Link /\ k + i \in Links(path)
<1> DEFINE rest == SubSeq(path, k + 1, Len(path))
           i == First(rest, Executable)
           plain == First(path, Plainly)
<1>1. rest \in Seq(Directories) /\ Len(rest) = Len(path) - k /\ \A j \in 1..Len(rest) : rest[j] = path[k + j]
  OBVIOUS
<1>2. /\ i \in 0..Len(rest)
      /\ i = 0 => \A j \in 1..Len(rest) : rest[j] \notin Executable
      /\ i # 0 => rest[i] \in Executable /\ \A j \in 1..(i - 1) : rest[j] \notin Executable
  <2> HIDE DEF rest
  <2> QED BY <1>1, FirstIs
<1>3. /\ plain \in 0..Len(path)
      /\ plain = 0 => \A j \in 1..Len(path) : path[j] \notin Plainly
      /\ plain # 0 => path[plain] \in Plainly /\ \A j \in 1..(plain - 1) : path[j] \notin Plainly
  BY FirstIs
<1>4. Plainly \subseteq Executable /\ Executable \subseteq Plainly \cup Link /\ Executable \subseteq Accessible
  BY DEF Plainly, Executable, Link, Accessible, Having
<1>5. Len(path) \in Nat
  OBVIOUS
<1>6. plain = 0 \/ k < plain
  OBVIOUS
<1> HIDE DEF rest, i, plain
<1>7. plain # 0 => plain - k \in 1..Len(rest) /\ rest[plain - k] = path[plain]
  BY <1>1, <1>3, <1>5, <1>6
<1>8. i = 0 => plain = 0
  BY <1>2, <1>3, <1>4, <1>7
<1>9. i # 0 /\ rest[i] \in Plainly => plain = k + i
  <2> SUFFICES ASSUME i # 0, rest[i] \in Plainly PROVE plain = k + i
    OBVIOUS
  <2>1. path[k + i] \in Plainly /\ k + i \in 1..Len(path)
    BY <1>1, <1>2, <1>5
  <2>2. plain # 0 /\ plain <= k + i
    BY <1>3, <1>5, <2>1
  <2>3. ~(plain < k + i)
    BY <1>2, <1>3, <1>4, <1>5, <1>7, <2>2
  <2> QED BY <1>2, <1>3, <1>5, <2>2, <2>3
<1>10. i # 0 /\ rest[i] \notin Plainly => rest[i] \in Link /\ k + i \in Links(path)
  <2> SUFFICES ASSUME i # 0, rest[i] \notin Plainly PROVE rest[i] \in Link /\ k + i \in Links(path)
    OBVIOUS
  <2>1. rest[i] \in Link /\ rest[i] \in Accessible /\ rest[i] = path[k + i] /\ k + i \in 1..Len(path)
    BY <1>1, <1>2, <1>4, <1>5
  <2>2. plain = 0 \/ k + i < plain
    BY <1>2, <1>3, <1>4, <1>5, <1>6, <1>7, <2>1
  <2> QED BY <2>1, <2>2 DEF Links, plain
<1> QED BY <1>1, <1>2, <1>8, <1>9, <1>10 DEF rest, i, plain

----------------------------------------------------------------------------
(* What a process is: it has been asked for a program, and searched PATH *)
(* from after the links that it has passed.                              *)

\* What the links before k have cost: every one of them is a level.
Trims(level, path, k, base) ==
    \/ k = 0 /\ level = base
    \/ k \in Links(path) /\ level = base + 1
    \/ k \in Links(path) /\ level = 2 /\ base = 0 /\ \E j \in Links(path) : j < k

\* Nothing that compiles has been passed.
NonePassed(path, k) == First(path, Plainly) = 0 \/ k < First(path, Plainly)

AtExplicit(p, path, base) ==
    p.state = "explicit" /\ base = 1 /\ p.level = 0 /\ p.named = p.asked /\ p.path = path
AtScript(p, path, base) ==
    /\ p.state = "script" \/ (p.state = "explicit" /\ p.named = Scripted)
    /\ Scripts(p.asked, path)
    /\ p.level = 0 \/ base = 1 \/ Links(path) # {}
AtNamed(p, path, base) ==
    p.state = "distcc" /\ p.asked \in Link /\ p.named = p.asked /\ p.path = path /\ p.level = base
AtLink(p, path, base) ==
    /\ p.state = "distcc" /\ p.named = NoDirectory /\ p.asked \notin Plainly
    /\ \E k \in 0..Len(path) :
          /\ NonePassed(path, k) /\ Trims(p.level, path, k, base)
          /\ p.path = SubSeq(path, k + 1, Len(path))
          /\ First(p.path, Executable) # 0 /\ p.path[First(p.path, Executable)] \in Link
\* The only link is the last directory of PATH: nothing is trimmed.
DeadEnd(p, path) ==
    /\ p.state = "distcc" /\ p.named = NoDirectory /\ p.level # 0
    /\ First(p.path, Accessible) \in {0, Len(p.path)}
    /\ Wanted(p.asked, path) = NotFound
Ended(p, path, base) ==
    \/ p.state = "compiler" /\ p.dir = Wanted(p.asked, path)
    \/ p.state = "missing" /\ Wanted(p.asked, path) = NotFound
    \/ /\ p.state = "recursion"
       /\ \/ Cardinality(Links(path)) > IF base = 1 THEN 1 ELSE 2
          \/ Wanted(p.asked, path) = NotFound
          \/ Scripts(p.asked, path) /\ (base = 1 \/ Links(path) # {})

Right(p, path, base) ==
    \/ Behind(p.asked, path) \/ Misnamed(p.asked, path)
    \/ AtExplicit(p, path, base) \/ AtScript(p, path, base) \/ AtNamed(p, path, base)
    \/ AtLink(p, path, base) \/ DeadEnd(p, path) \/ Ended(p, path, base)

Fields == {"machine", "asked", "named", "dir", "path", "level", "runs", "state"}

\* The program that a process has executed.
Executed(p) ==
    /\ p.dir = ExecFile(p.named, p.path)
    /\ p.state = IF p.dir = NotFound THEN "missing" ELSE Bin[p.dir]

LEMMA Kinds ==
    /\ Executable = Plainly \cup Link /\ Executable \subseteq Accessible /\ Plainly \cap Link = {}
    /\ Accessible \subseteq Directories /\ NoDirectory \notin Directories /\ NotFound \notin Directories
    /\ Scripted \in Plainly /\ Bin[Scripted] = "compiler"
    /\ \A dir \in Link : Bin[dir] = "distcc"
    /\ \A dir \in Plainly : Bin[dir] \in {"script", "compiler"}
    /\ \A dir \in Plainly : Bin[dir] = "script" <=> dir \in Having({"script"})
BY MasqueradeAssumption DEF Executable, Plainly, Link, Accessible, Having

\* There is no compiler: what distcc is to do does not matter.
LEMMA NoneWanted ==
    ASSUME NEW asked, asked \notin Plainly, NEW path, First(path, Plainly) = 0
    PROVE  Wanted(asked, path) = NotFound
BY Kinds DEF Wanted, Scripts, Plain, Having

LEMMA Found ==
    ASSUME NEW asked, asked \notin Plainly, NEW path, First(path, Plainly) # 0, path[First(path, Plainly)] \in Plainly
    PROVE  LET dir == path[First(path, Plainly)]
           IN /\ Plain(asked, path) = dir
              /\ Scripts(asked, path) <=> Bin[dir] = "script"
              /\ Bin[dir] = "compiler" => Wanted(asked, path) = dir
<1>1. Plain(asked, path) = path[First(path, Plainly)]
  BY DEF Plain
<1> QED BY <1>1, Kinds DEF Wanted, Scripts

LEMMA LinksIs ==
    ASSUME NEW path \in Seq(Directories)
    PROVE  Links(path) \subseteq 1..Len(path) /\ IsFiniteSet(Links(path))
<1>1. Links(path) \subseteq 1..Len(path) /\ Len(path) \in Nat
  BY DEF Links
<1>2. IsFiniteSet(1..Len(path))
  <2>1. 1 \in Int /\ Len(path) \in Int
    BY <1>1
  <2> QED BY <2>1, FS_Interval
<1> QED BY <1>1, <1>2, FS_Subset

\* A search from k on: the compiler that is wanted, the script, the next link,
\* or nothing, and then there is nothing to be found.
LEMMA SearchRight ==
    ASSUME NEW p, NEW path \in Seq(Directories), NEW k \in 0..Len(path), NEW base \in {0, 1},
           Executed(p), p.named \notin Executable, p.asked \notin Plainly,
           p.path = SubSeq(path, k + 1, Len(path)), NonePassed(path, k), Trims(p.level, path, k, base),
           p.named = NoDirectory \/ (p.named = p.asked /\ k = 0)
    PROVE  Right(p, path, base)
<1> DEFINE i == First(p.path, Executable)
           plain == First(path, Plainly)
<1>1. /\ p.path \in Seq(Directories)
      /\ \A j \in 1..Len(p.path) : p.path[j] = path[k + j]
      /\ i \in 0..Len(p.path)
      /\ i = 0 => plain = 0
      /\ (i # 0 /\ p.path[i] \in Plainly) => plain = k + i
      /\ (i # 0 /\ p.path[i] \notin Plainly) => p.path[i] \in Link /\ k + i \in Links(path)
  BY SearchIs DEF NonePassed
<1>2. p.dir = IF i = 0 THEN NotFound ELSE p.path[i]
  BY DEF Executed, ExecFile
<1>3. CASE i = 0
  BY <1>1, <1>2, <1>3, NoneWanted DEF Executed, Right, Ended
<1>4. CASE i # 0 /\ p.path[i] \in Plainly
  <2>1. p.dir = path[plain] /\ plain # 0 /\ p.dir \in Plainly /\ p.state = Bin[p.dir]
    BY <1>1, <1>2, <1>4, Kinds DEF Executed
  <2>2. CASE Bin[p.dir] = "compiler"
    BY <2>1, <2>2, Found DEF Right, Ended
  <2>3. CASE Bin[p.dir] = "script"
    <3>1. Scripts(p.asked, path)
      BY <2>1, <2>3, Found
    <3>2. p.level = 0 \/ base = 1 \/ Links(path) # {}
      BY DEF Trims
    <3> QED BY <2>1, <2>3, <3>1, <3>2 DEF Right, AtScript
  <2> QED BY <2>1, <2>2, <2>3, Kinds
<1>5. CASE i # 0 /\ p.path[i] \notin Plainly
  <2>1. p.dir = p.path[i] /\ p.dir \in Link /\ p.state = "distcc" /\ Links(path) # {}
    BY <1>1, <1>2, <1>5, Kinds DEF Executed
  <2>2. CASE p.named = NoDirectory
    BY <1>5, <2>1, <2>2 DEF Right, AtLink
  <2>3. CASE p.named # NoDirectory
    BY <2>1, <2>3 DEF Right, Misnamed
  <2> QED BY <2>2, <2>3
<1> QED BY <1>3, <1>4, <1>5

\* A program that has been asked for is executed.
LEMMA BeginRight ==
    ASSUME NEW p, NEW path \in Seq(Directories), NEW base \in {0, 1},
           Executed(p), p.named = p.asked, p.path = path, p.level = base
    PROVE  Right(p, path, base)
<1>1. CASE p.asked \in Plainly
  <2>1. p.dir = p.asked /\ p.state = Bin[p.asked]
    BY <1>1, Kinds DEF Executed, ExecFile
  <2>2. Plain(p.asked, path) = p.asked
    BY <1>1 DEF Plain
  <2>3. CASE Bin[p.asked] = "compiler"
    BY <1>1, <2>1, <2>2, <2>3, Kinds DEF Right, Ended, Wanted, Scripts
  <2>4. CASE Bin[p.asked] = "script"
    BY <1>1, <2>1, <2>2, <2>4, Kinds DEF Right, AtScript, Scripts
  <2> QED BY <1>1, <2>3, <2>4, Kinds
<1>2. CASE p.asked \in Link
  BY <1>2, Kinds DEF Executed, ExecFile, Right, AtNamed
<1>3. CASE p.asked \notin Executable
  <2>1. path = SubSeq(path, 0 + 1, Len(path)) /\ 0 \in 0..Len(path)
    OBVIOUS
  <2>2. NonePassed(path, 0)
    <3>1. First(path, Plainly) \in 0..Len(path) /\ Len(path) \in Nat
      BY FirstIs
    <3> QED BY <3>1 DEF NonePassed
  <2>3. Trims(p.level, path, 0, base)
    BY DEF Trims
  <2> QED BY <1>3, <2>1, <2>2, <2>3, SearchRight, Kinds
<1> QED BY <1>1, <1>2, <1>3, Kinds

LEMMA TwoOf ==
    ASSUME NEW S, IsFiniteSet(S), NEW j \in S, NEW k \in S, j # k
    PROVE  Cardinality(S) > 1
<1>1. IsFiniteSet({j}) /\ Cardinality({j}) = 1
  BY FS_Singleton
<1>2. {j} \subseteq S /\ {j} # S
  OBVIOUS
<1>3. Cardinality({j}) <= Cardinality(S) /\ Cardinality(S) # Cardinality({j})
  BY <1>2, FS_Subset
<1>4. Cardinality(S) \in Nat
  BY FS_CardinalityType
<1> QED BY <1>1, <1>3, <1>4

LEMMA ThreeOf ==
    ASSUME NEW S, IsFiniteSet(S), NEW i \in S, NEW j \in S, NEW k \in S, i # j, i # k, j # k
    PROVE  Cardinality(S) > 2
<1>1. Cardinality({i, j}) > 1 /\ Cardinality({i, j}) \in Nat /\ Cardinality(S) \in Nat
  <2>1. {i, j} \subseteq S
    OBVIOUS
  <2>2. IsFiniteSet({i, j})
    BY <2>1, FS_Subset
  <2> QED BY <2>2, TwoOf, FS_CardinalityType
<1>2. {i, j} \subseteq S /\ {i, j} # S
  OBVIOUS
<1>3. Cardinality({i, j}) <= Cardinality(S) /\ Cardinality(S) # Cardinality({i, j})
  BY <1>2, FS_Subset
<1> QED BY <1>1, <1>3

\* What SupportMasquerade takes off the path of a link is that link, or a
\* directory before it; it leaves the path only if there is no compiler on it.
Trimmed(p, path, base) ==
    LET t == SupportMasquerade(p.path, p.named)
    IN /\ p.path \in Seq(Directories) /\ p.asked \notin Plainly
       /\ \/ /\ t.tweaked = 0 /\ t.path = p.path
             /\ First(p.path, Accessible) \in {0, Len(p.path)}
             /\ First(path, Plainly) = 0
             /\ \A j \in 1..Len(p.path) : p.path[j] \notin Plainly
          \/ /\ t.tweaked = 1
             /\ \E k \in 0..Len(path), m \in 1..Len(path) :
                   /\ k < m /\ m \in Links(path) /\ NonePassed(path, m)
                   /\ Trims(p.level, path, k, base)
                   /\ t.path = SubSeq(path, m + 1, Len(path))

LEMMA RestIs ==
    ASSUME NEW path \in Seq(Directories), NEW k \in 0..Len(path)
    PROVE  LET rest == SubSeq(path, k + 1, Len(path))
           IN rest \in Seq(Directories) /\ Len(rest) = Len(path) - k /\ \A n \in 1..Len(rest) : rest[n] = path[k + n]
OBVIOUS

LEMMA RestOf ==
    ASSUME NEW path \in Seq(Directories), NEW k \in 0..Len(path)
    PROVE  LET rest == SubSeq(path, k + 1, Len(path))
           IN /\ rest \in Seq(Directories) /\ Len(rest) = Len(path) - k
              /\ \A n \in 1..Len(rest) : rest[n] = path[k + n]
              /\ \A n \in 1..Len(rest) : SubSeq(rest, n + 1, Len(rest)) = SubSeq(path, k + n + 1, Len(path))
<1> DEFINE rest == SubSeq(path, k + 1, Len(path))
<1>1. rest \in Seq(Directories) /\ Len(rest) = Len(path) - k /\ \A n \in 1..Len(rest) : rest[n] = path[k + n]
  OBVIOUS
<1>2. ASSUME NEW n \in 1..Len(rest)
      PROVE  SubSeq(rest, n + 1, Len(rest)) = SubSeq(path, k + n + 1, Len(path))
  <2> HIDE DEF rest
  <2>1. n \in Nat /\ k \in Nat /\ Len(path) \in Nat /\ Len(rest) \in Nat /\ n <= Len(rest) /\ k + n <= Len(path)
    BY <1>1
  <2> DEFINE one == SubSeq(rest, n + 1, Len(rest))
             two == SubSeq(path, k + n + 1, Len(path))
  <2>2. one \in Seq(Directories) /\ Len(one) = Len(rest) - n /\ \A m \in 1..Len(one) : one[m] = rest[n + m]
    <3>1. n \in 0..Len(rest)
      BY <2>1
    <3> QED BY <1>1, <3>1, RestIs
  <2>3. two \in Seq(Directories) /\ Len(two) = Len(path) - (k + n) /\ \A m \in 1..Len(two) : two[m] = path[k + n + m]
    <3>1. k + n \in 0..Len(path)
      BY <2>1
    <3> QED BY <3>1, RestIs
  <2> HIDE DEF one, two
  <2>4. Len(one) = Len(two)
    BY <1>1, <2>1, <2>2, <2>3
  <2>5. ASSUME NEW m \in 1..Len(one) PROVE one[m] = two[m]
    <3>1. n + m \in 1..Len(rest) /\ k + (n + m) = k + n + m
      BY <2>1, <2>2
    <3> QED BY <1>1, <2>2, <2>3, <2>4, <3>1
  <2>6. one = two
    BY <2>2, <2>3, <2>4, <2>5
  <2> QED BY <2>6 DEF one, two
<1> QED BY <1>1, <1>2

\* A directory on what is left of the path, with no compiler before it.
LEMMA TrimAt ==
    ASSUME NEW p, NEW path \in Seq(Directories), NEW base \in {0, 1},
           NEW k \in 0..Len(path), NEW rest \in Seq(Directories), p.path = rest, Len(rest) = Len(path) - k,
           \A n \in 1..Len(rest) : rest[n] = path[k + n],
           \A n \in 1..Len(rest) : SubSeq(rest, n + 1, Len(rest)) = SubSeq(path, k + n + 1, Len(path)),
           Trims(p.level, path, k, base), p.asked \notin Plainly,
           NEW j \in 1..Len(rest), rest[j] \in Accessible,
           \A n \in 1..j : rest[n] \notin Plainly, NonePassed(path, k),
           j = First(rest, IF p.named = NoDirectory THEN Accessible ELSE {p.named}),
           j = First(rest, Accessible)
    PROVE  Trimmed(p, path, base)
<1> DEFINE t == SupportMasquerade(p.path, p.named)
           plain == First(path, Plainly)
<1>1. j \in Int /\ k \in Nat /\ Len(path) \in Nat /\ Len(rest) \in Nat /\ 1 <= j /\ j <= Len(path) - k
  OBVIOUS
<1>2. /\ plain \in 0..Len(path)
      /\ plain = 0 => \A n \in 1..Len(path) : path[n] \notin Plainly
      /\ plain # 0 => path[plain] \in Plainly
  BY FirstIs
<1>3. t = IF j \in {0, Len(rest)} THEN [path |-> rest, tweaked |-> 0]
          ELSE [path |-> SubSeq(rest, j + 1, Len(rest)), tweaked |-> 1]
  BY DEF SupportMasquerade
<1> HIDE DEF t
<1>4. plain = 0 \/ k + j < plain
  <2> SUFFICES ASSUME plain # 0, plain <= k + j PROVE FALSE
    <3> HIDE DEF plain
    <3>1. plain \in Int /\ k + j \in Int
      BY <1>1, <1>2
    <3> QED BY <3>1
  <2>1. k < plain
    BY DEF NonePassed
  <2> HIDE DEF plain
  <2>2. plain - k \in 1..j /\ plain - k \in 1..Len(rest) /\ k + (plain - k) = plain
    BY <1>1, <1>2, <2>1
  <2>3. rest[plain - k] = path[plain]
    BY <2>2
  <2> QED BY <1>2, <2>2, <2>3
<1>5. k + j \in 1..Len(path) /\ path[k + j] \in Accessible \ Plainly /\ k < k + j
  <2>1. rest[j] = path[k + j]
    OBVIOUS
  <2>2. j \in 1..j
    BY <1>1
  <2>3. rest[j] \notin Plainly
    BY <2>2
  <2>4. k + j \in 1..Len(path) /\ k < k + j
    BY <1>1
  <2> QED BY <2>1, <2>3, <2>4
<1>6. k + j \in Links(path)
  BY <1>4, <1>5 DEF Links
<1>7. CASE j = Len(rest)
  <2>1. t.tweaked = 0 /\ t.path = p.path
    BY <1>3, <1>7
  <2>2. plain = 0
    <3> HIDE DEF plain
    <3> QED BY <1>1, <1>2, <1>4, <1>7
  <2>3. \A n \in 1..Len(p.path) : p.path[n] \notin Plainly
    BY <1>7
  <2>4. First(p.path, Accessible) \in {0, Len(p.path)} /\ p.path \in Seq(Directories)
    BY <1>7
  <2> HIDE DEF plain
  <2> QED BY <2>1, <2>2, <2>3, <2>4 DEF Trimmed, t, plain
<1>8. CASE j # Len(rest)
  <2>1. t.tweaked = 1 /\ t.path = SubSeq(rest, j + 1, Len(rest))
    <3>1. j \notin {0, Len(rest)}
      BY <1>1, <1>8
    <3> QED BY <1>3, <3>1
  <2>2. t.path = SubSeq(path, k + j + 1, Len(path))
    BY <2>1
  <2>3. NonePassed(path, k + j)
    BY <1>4 DEF NonePassed
  <2>4. p.path \in Seq(Directories)
    OBVIOUS
  <2>5. \E k_1 \in 0..Len(path), m \in 1..Len(path) :
          /\ k_1 < m /\ m \in Links(path) /\ NonePassed(path, m)
          /\ Trims(p.level, path, k_1, base)
          /\ t.path = SubSeq(path, m + 1, Len(path))
    <3> HIDE DEF plain
    <3> QED BY <1>5, <1>6, <2>2, <2>3
  <2> HIDE DEF plain
  <2> QED BY <2>1, <2>4, <2>5 DEF Trimmed, t
<1> QED BY <1>7, <1>8

LEMMA LinkTrims ==
    ASSUME NEW p, NEW path \in Seq(Directories), NEW base \in {0, 1}, AtLink(p, path, base)
    PROVE  Trimmed(p, path, base)
<1>1. PICK k \in 0..Len(path) :
          /\ NonePassed(path, k) /\ Trims(p.level, path, k, base)
          /\ p.path = SubSeq(path, k + 1, Len(path))
          /\ First(p.path, Executable) # 0 /\ p.path[First(p.path, Executable)] \in Link
  BY DEF AtLink
<1> DEFINE j == First(p.path, Accessible)
           e == First(p.path, Executable)
<1>2. p.path \in Seq(Directories)
  BY <1>1
<1>3. /\ e \in 1..Len(p.path) /\ p.path[e] \in Link
      /\ \A n \in 1..(e - 1) : p.path[n] \notin Executable
  <2>1. e \in 0..Len(p.path) /\ (e # 0 => \A n \in 1..(e - 1) : p.path[n] \notin Executable)
    BY <1>2, FirstIs
  <2> QED BY <1>1, <2>1
<1>4. /\ j \in 0..Len(p.path)
      /\ j = 0 => \A n \in 1..Len(p.path) : p.path[n] \notin Accessible
      /\ j # 0 => p.path[j] \in Accessible /\ \A n \in 1..(j - 1) : p.path[n] \notin Accessible
  BY <1>2, FirstIs
<1> HIDE DEF j, e
<1>5. j # 0 /\ j <= e
  BY <1>3, <1>4, Kinds
<1>6. \A n \in 1..j : p.path[n] \notin Plainly
  BY <1>3, <1>4, <1>5, Kinds
<1>7. p.named = NoDirectory /\ p.asked \notin Plainly
  BY DEF AtLink
<1>8. j = First(p.path, IF p.named = NoDirectory THEN Accessible ELSE {p.named})
  BY <1>7 DEF j
<1>9. j \in 1..Len(p.path) /\ p.path[j] \in Accessible
  BY <1>4, <1>5
<1>10. j = First(p.path, Accessible)
  BY DEF j
<1>11. /\ Len(p.path) = Len(path) - k
       /\ \A n \in 1..Len(p.path) : p.path[n] = path[k + n]
       /\ \A n \in 1..Len(p.path) : SubSeq(p.path, n + 1, Len(p.path)) = SubSeq(path, k + n + 1, Len(path))
  <2> DEFINE rest == SubSeq(path, k + 1, Len(path))
  <2>1. /\ Len(rest) = Len(path) - k
        /\ \A n \in 1..Len(rest) : rest[n] = path[k + n]
        /\ \A n \in 1..Len(rest) : SubSeq(rest, n + 1, Len(rest)) = SubSeq(path, k + n + 1, Len(path))
    BY RestOf
  <2>2. p.path = rest
    BY <1>1
  <2> HIDE DEF rest
  <2> QED BY <2>1, <2>2
<1> QED BY <1>1, <1>2, <1>6, <1>7, <1>8, <1>9, <1>10, <1>11, TrimAt

LEMMA NamedTrims ==
    ASSUME NEW p, NEW path \in Seq(Directories), NEW base \in {0, 1},
           AtNamed(p, path, base), ~Behind(p.asked, path)
    PROVE  Trimmed(p, path, base)
<1>1. p.named = p.asked /\ p.asked \in Link /\ p.path = path /\ p.level = base
  BY DEF AtNamed
<1>2. PICK i \in 1..Len(path) : path[i] = p.asked /\ \A n \in 1..(i - 1) : path[n] \notin Accessible
  BY <1>1 DEF Behind
<1> DEFINE j == First(path, {p.asked})
           a == First(path, Accessible)
<1>3. /\ j \in 0..Len(path)
      /\ j = 0 => \A n \in 1..Len(path) : path[n] \notin {p.asked}
      /\ j # 0 => path[j] \in {p.asked} /\ \A n \in 1..(j - 1) : path[n] \notin {p.asked}
  BY FirstIs
<1>4. /\ a \in 0..Len(path)
      /\ a = 0 => \A n \in 1..Len(path) : path[n] \notin Accessible
      /\ a # 0 => path[a] \in Accessible /\ \A n \in 1..(a - 1) : path[n] \notin Accessible
  BY FirstIs
<1> HIDE DEF j, a
<1>5. p.asked \in Accessible /\ p.asked \notin Plainly /\ p.asked # NoDirectory /\ Plainly \subseteq Accessible
  BY <1>1, Kinds
<1>6. j = i
  <2>1. j # 0 /\ j <= i
    BY <1>2, <1>3
  <2>2. ~(j < i)
    BY <1>2, <1>3, <1>5, <2>1
  <2> QED BY <1>3, <2>1, <2>2
<1>7. a = i
  <2>1. a # 0 /\ a <= i
    BY <1>2, <1>4, <1>5
  <2>2. ~(a < i)
    BY <1>2, <1>4, <2>1
  <2> QED BY <1>4, <2>1, <2>2
<1>8. j = First(p.path, IF p.named = NoDirectory THEN Accessible ELSE {p.named}) /\ j = First(p.path, Accessible)
  BY <1>1, <1>5, <1>6, <1>7 DEF j, a
<1>9. j \in 1..Len(p.path) /\ p.path[j] \in Accessible /\ \A n \in 1..j : p.path[n] \notin Plainly
  BY <1>1, <1>2, <1>5, <1>6
<1>10. /\ 0 \in 0..Len(path) /\ Trims(p.level, path, 0, base) /\ p.path \in Seq(Directories)
       /\ Len(p.path) = Len(path) - 0
       /\ \A n \in 1..Len(p.path) : p.path[n] = path[0 + n]
       /\ \A n \in 1..Len(p.path) : SubSeq(p.path, n + 1, Len(p.path)) = SubSeq(path, 0 + n + 1, Len(path))
  BY <1>1 DEF Trims
<1>11. NonePassed(path, 0)
  <2>1. First(path, Plainly) \in 0..Len(path)
    BY FirstIs
  <2> QED BY <2>1 DEF NonePassed
<1> QED BY <1>5, <1>8, <1>9, <1>10, <1>11, TrimAt

\* What a link calls next, if it may: PATH has been trimmed, or there is no
\* compiler on it.
LEMMA TrimmedRuns ==
    ASSUME NEW p, NEW next, NEW path \in Seq(Directories), NEW base \in {0, 1},
           p.level \in Nat, Trimmed(p, path, base), Executed(next), next.asked = p.asked, next.named = NoDirectory,
           next.path = SupportMasquerade(p.path, p.named).path, next.level = p.level + 1,
           p.level <= SupportMasquerade(p.path, p.named).tweaked
    PROVE  Right(next, path, base)
<1> DEFINE t == SupportMasquerade(p.path, p.named)
<1> HIDE DEF t
<1>1. next.named \notin Executable /\ next.asked \notin Plainly
  BY Kinds DEF Trimmed
<1>2. CASE t.tweaked = 0
  <2>1. /\ next.path = p.path /\ p.path \in Seq(Directories)
        /\ First(next.path, Accessible) \in {0, Len(next.path)} /\ First(path, Plainly) = 0
        /\ \A j \in 1..Len(next.path) : next.path[j] \notin Plainly
    BY <1>2 DEF Trimmed, t
  <2>2. Wanted(next.asked, path) = NotFound
    BY <1>1, <2>1, NoneWanted
  <2> DEFINE i == First(next.path, Executable)
  <2>3. i \in 0..Len(next.path) /\ (i # 0 => next.path[i] \in Executable)
    BY <2>1, FirstIs
  <2>4. next.dir = IF i = 0 THEN NotFound ELSE next.path[i]
    BY <1>1 DEF Executed, ExecFile
  <2>5. CASE i = 0
    BY <2>2, <2>4, <2>5 DEF Executed, Right, Ended
  <2>6. CASE i # 0
    <3>1. next.dir \in Link
      BY <2>1, <2>3, <2>4, <2>6, Kinds
    <3>2. next.state = "distcc"
      BY <3>1, Kinds DEF Executed
    <3> QED BY <2>1, <2>2, <3>2 DEF Right, DeadEnd
  <2> QED BY <2>5, <2>6
<1>3. CASE t.tweaked = 1
  <2>1. PICK k \in 0..Len(path), m \in 1..Len(path) :
           /\ k < m /\ m \in Links(path) /\ NonePassed(path, m)
           /\ Trims(p.level, path, k, base)
           /\ t.path = SubSeq(path, m + 1, Len(path))
    BY <1>3 DEF Trimmed, t
  <2>2. p.level \in {0, 1}
    BY <1>3 DEF t
  <2>3. Trims(next.level, path, m, base)
    BY <2>1, <2>2 DEF Trims
  <2>4. m \in 0..Len(path) /\ next.path = SubSeq(path, m + 1, Len(path))
    BY <2>1 DEF t
  <2> QED BY <1>1, <2>1, <2>3, <2>4, SearchRight
<1> QED BY <1>2, <1>3 DEF Trimmed, t

\* A link that has run too often: there are more links, or no compiler.
LEMMA TrimmedEnds ==
    ASSUME NEW p, NEW path \in Seq(Directories), NEW base \in {0, 1},
           p.level \in Nat, Trimmed(p, path, base), p.level > SupportMasquerade(p.path, p.named).tweaked
    PROVE  Cardinality(Links(path)) > (IF base = 1 THEN 1 ELSE 2) \/ Wanted(p.asked, path) = NotFound
<1> DEFINE t == SupportMasquerade(p.path, p.named)
<1> HIDE DEF t
<1>1. CASE t.tweaked = 0
  BY <1>1, NoneWanted DEF Trimmed, t
<1>2. CASE t.tweaked = 1
  <2>1. PICK k \in 0..Len(path), m \in 1..Len(path) :
           k < m /\ m \in Links(path) /\ Trims(p.level, path, k, base)
    BY <1>2 DEF Trimmed, t
  <2>2. p.level >= 2
    BY <1>2 DEF t
  <2>3. k \in Links(path) /\ k # m
    BY <2>1, <2>2 DEF Trims
  <2>4. CASE base = 1
    BY <2>1, <2>3, <2>4, LinksIs, TwoOf
  <2>5. CASE base = 0
    <3>1. PICK j \in Links(path) : j < k
      BY <2>1, <2>2, <2>5 DEF Trims
    <3>2. j \in Int
      BY LinksIs
    <3>3. j # k /\ j # m
      BY <2>1, <3>1, <3>2
    <3> QED BY <2>1, <2>3, <2>5, <3>3, LinksIs, ThreeOf
  <2> QED BY <2>4, <2>5
<1> QED BY <1>1, <1>2 DEF Trimmed, t

----------------------------------------------------------------------------
(* The inductive invariant, and its steps.                               *)

Base == IF chain.machine = "server" \/ call.explicit THEN 1 ELSE 0

Listed ==
    (chain.machine = "server" /\ chain.state # "refused" /\ call.listing = "read") =>
        \E i \in DOMAIN call.list : chain.asked = call.list[i]

CompilerInv ==
    /\ Fields \subseteq DOMAIN chain /\ chain.level \in Nat
    /\ chain.machine \in {"client", "server"}
    /\ Callable /\ Listed
    /\ chain.state # "refused" => Right(chain, Path, Base)

LEMMA PathsAre == Callable => Path \in Seq(Directories) /\ Base \in {0, 1}
BY DEF Callable, Path, Base

LEMMA ExecRuns ==
    ASSUME NEW process, NEW compiler, NEW path, NEW level, Fields \subseteq DOMAIN process
    PROVE  LET next == Exec(process, compiler, path, level)
           IN /\ Fields \subseteq DOMAIN next /\ Executed(next)
              /\ next.named = compiler /\ next.path = path /\ next.level = level
              /\ next.asked = process.asked /\ next.machine = process.machine
<1> DEFINE dir == ExecFile(compiler, path)
           state == IF dir = NotFound THEN "missing" ELSE Bin[dir]
           next == Exec(process, compiler, path, level)
<1>1. next = [process EXCEPT !.named = compiler, !.dir = dir, !.path = path, !.level = level, !.state = state]
  BY DEF Exec
<1> HIDE DEF dir, state, next
<1>2. /\ Fields \subseteq DOMAIN next
      /\ next.named = compiler /\ next.path = path /\ next.level = level /\ next.dir = dir /\ next.state = state
      /\ next.asked = process.asked /\ next.machine = process.machine
  BY <1>1 DEF Fields
<1>3. Executed(next)
  BY <1>2 DEF Executed, dir, state
<1> QED BY <1>2, <1>3 DEF next

LEMMA CompilerInvInit == MasqueradeInit => CompilerInv
<1> SUFFICES ASSUME MasqueradeInit PROVE CompilerInv
  OBVIOUS
<1> DEFINE process == Asks("client", call.compiler, call.path, 0)
<1>1. /\ Fields \subseteq DOMAIN process /\ process.machine = "client" /\ process.level = 0
      /\ process.asked = call.compiler /\ process.named = call.compiler /\ process.path = call.path
      /\ process.state = "explicit"
  BY DEF Asks, Fields
<1>2. Callable /\ chain = IF call.explicit THEN process ELSE Exec(process, call.compiler, call.path, 0)
  BY DEF MasqueradeInit
<1>3. call.explicit \in BOOLEAN
  BY <1>2 DEF Callable
<1> HIDE DEF process
<1>4. CASE call.explicit
  <2>1. chain = process
    BY <1>2, <1>4
  <2>2. Path = call.path /\ Base = 1
    BY <1>1, <1>4, <2>1 DEF Path, Base
  <2>3. AtExplicit(chain, Path, Base)
    BY <1>1, <2>1, <2>2 DEF AtExplicit
  <2> QED BY <1>1, <1>2, <2>1, <2>3 DEF CompilerInv, Listed, Right
<1>5. CASE ~call.explicit
  <2>1. chain = Exec(process, call.compiler, call.path, 0)
    BY <1>2, <1>5
  <2>2. /\ Fields \subseteq DOMAIN chain /\ Executed(chain)
        /\ chain.named = chain.asked /\ chain.path = call.path /\ chain.level = 0 /\ chain.machine = "client"
    BY <1>1, <2>1, ExecRuns
  <2>3. Path = call.path /\ Base = 0 /\ Path \in Seq(Directories)
    BY <1>2, <1>5, <2>2, PathsAre DEF Path, Base
  <2>4. Right(chain, Path, Base)
    BY <2>2, <2>3, BeginRight
  <2> QED BY <1>2, <2>2, <2>4 DEF CompilerInv, Listed
<1> QED BY <1>3, <1>4, <1>5

\* What a step of distcc on the same machine has to show.
LEMMA StaysListed ==
    ASSUME CompilerInv, call' = call, chain'.machine = chain.machine, chain'.asked = chain.asked,
           chain.state # "refused", Fields \subseteq DOMAIN chain', chain'.level \in Nat,
           Right(chain', Path, Base)
    PROVE  CompilerInv'
<1>1. Path' = Path /\ Base' = Base
  BY DEF Path, Base
<1>2. Right(chain, Path, Base)'
  BY <1>1
<1> QED BY <1>2 DEF CompilerInv, Callable, Listed, Directories

LEMMA RecursionKeeps == CompilerInv /\ Recursion /\ call' = call => CompilerInv'
<1> SUFFICES ASSUME CompilerInv, Recursion, call' = call PROVE CompilerInv'
  OBVIOUS
<1>1. /\ chain' = [chain EXCEPT !.state = "recursion", !.runs = @ + 1]
      /\ chain.state \in {"distcc", "explicit"} /\ chain.level > Tweak.tweaked
  BY DEF Recursion, Distcc, TooDeep
<1>2. /\ Fields \subseteq DOMAIN chain' /\ chain'.level = chain.level /\ chain'.state = "recursion"
      /\ chain'.machine = chain.machine /\ chain'.asked = chain.asked
  BY <1>1 DEF CompilerInv, Fields
<1>3. /\ Right(chain, Path, Base) /\ Path \in Seq(Directories) /\ Base \in {0, 1} /\ chain.level \in Nat
      /\ chain.state # "refused"
  BY <1>1, PathsAre DEF CompilerInv
<1>4. ASSUME Trimmed(chain, Path, Base), chain.state = "distcc" PROVE Ended(chain', Path, Base)
  <2>1. Tweak = SupportMasquerade(chain.path, chain.named)
    BY <1>4 DEF Tweak, Explicit
  <2>2. Cardinality(Links(Path)) > (IF Base = 1 THEN 1 ELSE 2) \/ Wanted(chain.asked, Path) = NotFound
    BY <1>1, <1>3, <1>4, <2>1, TrimmedEnds
  <2> QED BY <1>2, <2>2 DEF Ended
<1>5. CASE Behind(chain.asked, Path) \/ Misnamed(chain.asked, Path)
  BY <1>2, <1>3, <1>5, StaysListed DEF Right, CompilerInv
<1>6. CASE ~Behind(chain.asked, Path) /\ ~Misnamed(chain.asked, Path)
  <2> SUFFICES Ended(chain', Path, Base)
    BY <1>2, <1>3, StaysListed DEF Right
  <2>1. CASE AtExplicit(chain, Path, Base)
    BY <1>1, <1>3, <2>1 DEF AtExplicit, Tweak, Explicit
  <2>2. CASE AtScript(chain, Path, Base)
    <3>1. chain.state = "explicit"
      BY <1>1, <2>2 DEF AtScript
    <3>2. chain.level # 0
      BY <1>1, <1>3, <3>1 DEF Tweak, Explicit
    <3> QED BY <1>2, <2>2, <3>2 DEF AtScript, Ended
  <2>3. CASE AtNamed(chain, Path, Base)
    BY <1>3, <1>4, <1>6, <2>3, NamedTrims DEF AtNamed
  <2>4. CASE AtLink(chain, Path, Base)
    BY <1>3, <1>4, <2>4, LinkTrims DEF AtLink
  <2>5. CASE DeadEnd(chain, Path)
    BY <1>2, <2>5 DEF DeadEnd, Ended
  <2>6. CASE Ended(chain, Path, Base)
    BY <1>1, <2>6 DEF Ended
  <2> QED BY <1>3, <1>6, <2>1, <2>2, <2>3, <2>4, <2>5, <2>6 DEF Right
<1> QED BY <1>5, <1>6

LEMMA HereKeeps == CompilerInv /\ RunHere /\ call' = call => CompilerInv'
<1> SUFFICES ASSUME CompilerInv, RunHere, call' = call PROVE CompilerInv'
  OBVIOUS
<1> DEFINE process == [chain EXCEPT !.runs = @ + 1]
<1>1. /\ chain' = Exec(process, Compiler, Tweak.path, Increment(chain.level))
      /\ chain.state \in {"distcc", "explicit"} /\ ~(chain.level > Tweak.tweaked)
  BY DEF RunHere, Distcc, TooDeep
<1>2. Fields \subseteq DOMAIN process /\ process.asked = chain.asked /\ process.machine = chain.machine
  BY DEF CompilerInv, Fields
<1> HIDE DEF process
<1>3. /\ Right(chain, Path, Base) /\ Path \in Seq(Directories) /\ Base \in {0, 1} /\ chain.level \in Nat
      /\ chain.state # "refused"
  BY <1>1, PathsAre DEF CompilerInv
<1>4. Increment(chain.level) = chain.level + 1
  BY <1>3 DEF Increment
<1>5. /\ Fields \subseteq DOMAIN chain' /\ Executed(chain')
      /\ chain'.named = Compiler /\ chain'.path = Tweak.path /\ chain'.level = chain.level + 1
      /\ chain'.asked = chain.asked /\ chain'.machine = chain.machine
  BY <1>1, <1>2, <1>4, ExecRuns
<1>6. Tweak.tweaked \in {0, 1} /\ chain.level <= Tweak.tweaked
  BY <1>1, <1>3 DEF Tweak, SupportMasquerade
<1>7. ASSUME Trimmed(chain, Path, Base), chain.state = "distcc" PROVE Right(chain', Path, Base)
  <2>1. Tweak = SupportMasquerade(chain.path, chain.named) /\ Compiler = NoDirectory
    BY <1>7 DEF Tweak, Compiler, Explicit
  <2> QED BY <1>3, <1>5, <1>6, <1>7, <2>1, TrimmedRuns
<1>8. CASE Behind(chain.asked, Path) \/ Misnamed(chain.asked, Path)
  BY <1>3, <1>5, <1>8, StaysListed DEF Right
<1>9. CASE ~Behind(chain.asked, Path) /\ ~Misnamed(chain.asked, Path)
  <2> SUFFICES Right(chain', Path, Base)
    BY <1>3, <1>5, StaysListed
  <2>1. CASE AtExplicit(chain, Path, Base)
    <3>1. Tweak.path = chain.path /\ Compiler = chain.named
      BY <2>1 DEF AtExplicit, Tweak, Compiler, Explicit
    <3>2. chain'.named = chain'.asked /\ chain'.path = Path /\ chain'.level = Base
      BY <1>5, <2>1, <3>1 DEF AtExplicit
    <3> QED BY <1>3, <1>5, <3>2, BeginRight
  <2>2. CASE AtScript(chain, Path, Base)
    <3>1. chain.state = "explicit" /\ chain.named = Scripted /\ Scripts(chain.asked, Path)
      BY <1>1, <2>2 DEF AtScript
    <3>2. chain'.named = Scripted
      BY <1>5, <3>1 DEF Compiler, Explicit
    <3>3. chain'.dir = Scripted /\ chain'.state = "compiler"
      BY <1>5, <3>2, Kinds DEF Executed, ExecFile
    <3> QED BY <1>5, <3>1, <3>3 DEF Right, Ended, Wanted
  <2>3. CASE AtNamed(chain, Path, Base)
    BY <1>3, <1>7, <1>9, <2>3, NamedTrims DEF AtNamed
  <2>4. CASE AtLink(chain, Path, Base)
    BY <1>3, <1>7, <2>4, LinkTrims DEF AtLink
  <2>5. CASE DeadEnd(chain, Path)
    <3>1. Tweak.tweaked = 0
      BY <2>5 DEF DeadEnd, Tweak, Explicit, SupportMasquerade
    <3> QED BY <1>3, <1>6, <2>5, <3>1 DEF DeadEnd
  <2>6. CASE Ended(chain, Path, Base)
    BY <1>1, <2>6 DEF Ended
  <2> QED BY <1>3, <1>9, <2>1, <2>2, <2>3, <2>4, <2>5, <2>6 DEF Right
<1> QED BY <1>8, <1>9

LEMMA ThereKeeps == CompilerInv /\ RunThere /\ call' = call => CompilerInv'
<1> SUFFICES ASSUME CompilerInv, RunThere, call' = call PROVE CompilerInv'
  OBVIOUS
<1> DEFINE compiler == RemapCompiler(Compiler)
           process == Asks("server", compiler, call.serverPath, 0)
<1>1. chain' = IF compiler = NotFound THEN [chain EXCEPT !.machine = "server", !.state = "refused"]
               ELSE Exec(process, compiler, call.serverPath, Increment(0))
  BY DEF RunThere
<1>2. Fields \subseteq DOMAIN process /\ process.asked = compiler /\ process.machine = "server"
  BY DEF Asks, Fields
<1>3. call.listing = "read" /\ compiler # NotFound => \E i \in DOMAIN call.list : compiler = call.list[i]
  <2> SUFFICES ASSUME call.listing = "read", compiler # NotFound
               PROVE  \E i \in DOMAIN call.list : compiler = call.list[i]
    OBVIOUS
  <2> DEFINE same == {dir \in Directories : Key(Names[dir], call.words) = Key(NameOf(Compiler), call.words)}
             i == First(call.list, same)
  <2>1. compiler = IF i = 0 THEN NotFound ELSE call.list[i]
    BY DEF RemapCompiler, StringmapLookup
  <2>2. call.list \in Seq(Directories)
    BY DEF CompilerInv, Callable
  <2> HIDE DEF same
  <2>3. i \in 0..Len(call.list)
    BY <2>2, FirstIs
  <2> HIDE DEF i, compiler
  <2> QED BY <2>1, <2>2, <2>3
<1> HIDE DEF compiler, process
<1>4. Callable' /\ call' = call
  BY DEF CompilerInv, Callable, Directories
<1>5. CASE compiler = NotFound
  <2>1. chain' = [chain EXCEPT !.machine = "server", !.state = "refused"]
    BY <1>1, <1>5
  <2>2. /\ Fields \subseteq DOMAIN chain' /\ chain'.level = chain.level
        /\ chain'.state = "refused" /\ chain'.machine = "server"
    BY <2>1 DEF CompilerInv, Fields
  <2> QED BY <1>4, <2>2 DEF CompilerInv, Listed
<1>6. CASE compiler # NotFound
  <2>1. chain' = Exec(process, compiler, call.serverPath, 1)
    BY <1>1, <1>6 DEF Increment
  <2>2. /\ Fields \subseteq DOMAIN chain' /\ Executed(chain') /\ chain'.named = chain'.asked /\ chain'.asked = compiler
        /\ chain'.path = call.serverPath /\ chain'.level = 1 /\ chain'.machine = "server"
    BY <1>2, <2>1, ExecRuns
  <2>3. call.serverPath \in Seq(Directories)
    BY DEF CompilerInv, Callable
  <2>4. Right(chain', call.serverPath, 1)
    BY <2>2, <2>3, BeginRight
  <2>5. Path' = call.serverPath /\ Base' = 1
    BY <2>2 DEF Path, Base
  <2>6. Right(chain, Path, Base)'
    BY <2>4, <2>5
  <2>7. Listed'
    BY <1>3, <1>6, <2>2 DEF Listed
  <2> QED BY <1>4, <2>2, <2>6, <2>7 DEF CompilerInv
<1> QED BY <1>5, <1>6

LEMMA ScriptKeeps == CompilerInv /\ RunScript /\ call' = call => CompilerInv'
<1> SUFFICES ASSUME CompilerInv, RunScript, call' = call PROVE CompilerInv'
  OBVIOUS
<1>1. chain.state = "script" /\ chain' = [chain EXCEPT !.state = "explicit", !.named = Scripted]
  BY DEF RunScript
<1>2. /\ Fields \subseteq DOMAIN chain' /\ chain'.level = chain.level /\ chain'.level \in Nat
      /\ chain'.state = "explicit" /\ chain'.named = Scripted
      /\ chain'.machine = chain.machine /\ chain'.asked = chain.asked
  BY <1>1 DEF CompilerInv, Fields
<1>3. Right(chain, Path, Base)
  BY <1>1 DEF CompilerInv
<1>4. Right(chain', Path, Base)
  BY <1>1, <1>2, <1>3 DEF Right, AtExplicit, AtScript, AtNamed, AtLink, DeadEnd, Ended
<1> QED BY <1>1, <1>2, <1>4, StaysListed

LEMMA CompilerInvNext == CompilerInv /\ [MasqueradeNext /\ UNCHANGED call]_<<call, chain>> => CompilerInv'
<1> SUFFICES ASSUME CompilerInv, [MasqueradeNext /\ UNCHANGED call]_<<call, chain>> PROVE CompilerInv'
  OBVIOUS
<1>1. CASE UNCHANGED <<call, chain>>
  BY <1>1 DEF CompilerInv, Callable, Listed, Path, Base, Directories
<1> QED BY <1>1, RecursionKeeps, HereKeeps, ThereKeeps, ScriptKeeps DEF MasqueradeNext

LEMMA CompilerInvRuns == CompilerInv => CompilerRuns
<1> SUFFICES ASSUME CompilerInv PROVE CompilerRuns
  OBVIOUS
<1> DEFINE most == IF chain.machine = "server" \/ call.explicit THEN 1 ELSE 2
<1>1. most = IF Base = 1 THEN 1 ELSE 2
  BY DEF Base
<1>2. Base = 1 => call.explicit \/ chain.machine = "server"
  BY DEF Base
<1>3. \/ Behind(chain.asked, Path) \/ Misnamed(chain.asked, Path)
      \/ /\ chain.state = "compiler" => chain.dir = Wanted(chain.asked, Path)
         /\ chain.state = "missing" => Wanted(chain.asked, Path) = NotFound
         /\ chain.state = "recursion" =>
               \/ Cardinality(Links(Path)) > most
               \/ Wanted(chain.asked, Path) = NotFound
               \/ Scripts(chain.asked, Path) /\ (call.explicit \/ chain.machine = "server" \/ Links(Path) # {})
  <2> HIDE DEF most
  <2> QED BY <1>1, <1>2 DEF CompilerInv, Right, AtExplicit, AtScript, AtNamed, AtLink, DeadEnd, Ended
<1> QED BY <1>3 DEF CompilerRuns, CompilerInv, Listed

\* Whatever the directories of PATH hold and whatever the user calls, distcc ends
\* with the compiler that would run without it, or says that it has called itself
\* only for more links than it may pass (Masquerade, CompilerRuns).
THEOREM CompilerAlwaysRuns == MasqueradeSpec => []CompilerRuns
BY CompilerInvInit, CompilerInvNext, CompilerInvRuns, PTL DEF MasqueradeSpec
=============================================================================
