------------------------------ MODULE DebugInfo ------------------------------
(***************************************************************************)
(* The object of a job in pump mode, before the server sends it back: the  *)
(* compiler has run below a directory of the server that stands for the    *)
(* client's root, so its debugging information names paths of the server,  *)
(* and dcc_fix_debug_info replaces the one by the other, byte for byte.    *)
(*                                                                         *)
(* An object file is a format and a sequence of images (one, but for a fat *)
(* file); an image a sequence of commands (one for ELF: its table of       *)
(* sections); a command a sequence of sections, with a name (and segment)  *)
(* and a text. A text is a sequence of characters and of ServerRoot, which *)
(* stands for the many characters of the server's directory. The order of  *)
(* bytes of a Mach-O file makes no difference, and is left out.            *)
(***************************************************************************)
EXTENDS Naturals, Sequences, FiniteSets
LOCAL INSTANCE FiniteSetsExt
LOCAL INSTANCE SequencesExt

ServerRoot == "/var/tmp/distccd-XXXXXX"     \* the temporary directory of the job
ClientRoot == "/"                           \* padded with slashes to the same length
Nul == "nul"

None == <<>>

(* ------------------------------ replacement ----------------------------- *)

\* Mutant: the first occurrence of a section is the only one.
ReplaceFirst(text) ==
    [i \in DOMAIN text |->
        IF text[i] = ServerRoot /\ \A j \in 1..i - 1 : text[j] # ServerRoot THEN ClientRoot ELSE text[i]]

\* The loop ends two characters too early for an occurrence at the end.
ReplaceString(text) ==
    [i \in DOMAIN text |->
        IF text[i] = ServerRoot /\ (Len(text) > i + 1 \/ (Len(text) > i /\ Last(text) = ServerRoot))
        THEN ClientRoot ELSE text[i]]

(* ------------------------- the section of a name ------------------------ *)

Named(command, name) == {s \in DOMAIN command.sections : command.sections[s].name = name}

\* An ELF file is read only in the server's order of bytes, of a class it
\* knows, whole, and with a table of the names of its sections.
ElfReadable(image) ==
    image.order = "server" /\ image.bits \in {32, 64} /\ image.whole /\ image.names

\* The first section of the name; an empty one ends the search.
FindElfSection(image, name) ==
    LET found == Named(image.commands[1], name) IN
    IF ~ElfReadable(image) \/ found = {} THEN None
    ELSE IF image.commands[1].sections[Min(found)].text = <<>> THEN None
    ELSE <<1, Min(found)>>

\* A load command that ends the search for a section: one that does not fit in
\* the space of all of them or, unless the symbol table is looked for, a
\* segment of the other width or with more sections than fit.
BadCommand(image, command, name) ==
    \/ ~command.fits
    \/ /\ name # "strings"
       /\ command.kind = "segment"
       /\ command.bits # image.bits \/ ~command.holds

\* The commands that are searched for a section of the name.
Searched(command, name) == command.kind = IF name = "strings" THEN "symtab" ELSE "segment"

\* The first such section of a Mach-O image, which must lie in it.
FindMachOSection(image, name) ==
    LET Hit(k) == Searched(image.commands[k], name) /\ Named(image.commands[k], name) # {}
        ends == {k \in DOMAIN image.commands : BadCommand(image, image.commands[k], name) \/ Hit(k)}
        k == Min(ends)
        s == Min(Named(image.commands[k], name))
    IN IF ~image.whole \/ ends = {} THEN None
       ELSE IF BadCommand(image, image.commands[k], name) THEN None
       ELSE IF ~image.commands[k].sections[s].inside THEN None
       ELSE <<k, s>>

(* ------------------------------ the object ------------------------------ *)

UpdateSection(image, at) ==
    IF at = None THEN image
    ELSE [image EXCEPT !.commands[at[1]].sections[at[2]].text = ReplaceString(@)]

UpdateDebugInfoElf(image) ==
    FoldLeft(LAMBDA im, name : UpdateSection(im, FindElfSection(im, name)), image, <<"info", "str">>)

UpdateDebugInfoMachoThin(image) ==
    FoldLeft(LAMBDA im, name : UpdateSection(im, FindMachOSection(im, name)), image,
             <<"info", "str", "strings">>)

\* One after the other, up to an image outside the file; empty ones are skipped.
UpdateDebugInfoMachoFat(images) ==
    [a \in DOMAIN images |->
        IF images[a].commands = <<>> \/ \E b \in 1..a : ~images[b].inside THEN images[a]
        ELSE UpdateDebugInfoMachoThin(images[a])]

\* A file that cannot be mapped, or of no known format, is sent as it is.
FixDebugInfo(object) ==
    IF object.format = "elf" THEN [object EXCEPT !.images[1] = UpdateDebugInfoElf(@)]
    ELSE IF object.format = "macho" THEN [object EXCEPT !.images[1] = UpdateDebugInfoMachoThin(@)]
    ELSE IF object.format = "fat" THEN [object EXCEPT !.images = UpdateDebugInfoMachoFat(@)]
    ELSE object

(* ------------------------------- property ------------------------------- *)

\* What the debugger reads: the paths of the client.
Translated(text) == [i \in DOMAIN text |-> IF text[i] = ServerRoot THEN ClientRoot ELSE text[i]]

\* The sections that name paths: of the DWARF debugging information, and the
\* strings of the symbol table, for STABS, in a Mach-O file.
NamesPaths(object, name) == name \in {"info", "str"} \/ (name = "strings" /\ object.format # "elf")

\* The server does not read a section of this name and command.
Unread(object, a, k, name) ==
    LET image == object.images[a] IN
    \/ object.format = "unknown" \/ ~image.whole
    \/ object.format = "elf" /\ ~ElfReadable(image)
    \/ object.format = "fat" /\ \E b \in 1..a : ~object.images[b].inside
    \/ object.format # "elf" /\ \E l \in 1..k : BadCommand(image, image.commands[l], name)

\* Another section of the name comes before this one: every function that may
\* be in several objects has sections of its own.
Later(image, k, s) ==
    LET name == image.commands[k].sections[s].name IN
    \E l \in 1..k : \E t \in Named(image.commands[l], name) : l < k \/ t < s

\* The root itself, at the end of its section: the directory of a compiler
\* that ran in "/".
AtTheEnd(text, i) == i = Len(text) \/ (i = Len(text) - 1 /\ Last(text) # ServerRoot)

\* The debugger of the client finds its own paths in the object, and no other
\* byte of the file has changed: but for what the server cannot read, a
\* second section of a name, and a name at the very end.
DebugNames(object) ==
    \A a \in DOMAIN object.images : \A k \in DOMAIN object.images[a].commands :
        \A s \in DOMAIN object.images[a].commands[k].sections :
            LET old == object.images[a].commands[k].sections[s]
                new == FixDebugInfo(object).images[a].commands[k].sections[s]
            IN /\ [new EXCEPT !.text = old.text] = old /\ Len(new.text) = Len(old.text)
               /\ IF NamesPaths(object, old.name)
                  THEN \A i \in DOMAIN old.text :
                          \/ new.text[i] = Translated(old.text)[i]
                          \/ /\ new.text[i] = old.text[i]
                             /\ \/ Unread(object, a, k, old.name)
                                \/ ~old.inside
                                \/ Later(object.images[a], k, s)
                                \/ AtTheEnd(old.text, i)
                  ELSE new = old
=============================================================================
