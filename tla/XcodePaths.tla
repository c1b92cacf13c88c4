------------------------------ MODULE XcodePaths -----------------------------
(***************************************************************************)
(* What distcc built for Xcode does to the paths of a job. Every argument  *)
(* and every name of a file is sent with the client's developer directory  *)
(* replaced by a token, and received with the token replaced by the        *)
(* server's own (util.c, xci_utils.c). A header map is a hash table from   *)
(* what an #include spells to the path of a file: the include server reads *)
(* it (headermap.py), and the server rewrites it so that its paths are     *)
(* below the root of the job and its bytes in its own order                *)
(* (xci_headermap.c).                                                      *)
(*                                                                         *)
(* A text is a sequence of characters and names. The strings of a map are  *)
(* a sequence, an offset is an index of it, and 0 is no key. How gcc looks *)
(* up a map, and how Xcode writes one, is external.                        *)
(***************************************************************************)
EXTENDS Naturals, Sequences, FiniteSets
LOCAL INSTANCE FiniteSetsExt
LOCAL INSTANCE SequencesExt

None == <<"none">>
Failed == <<"failed">>
Token == <<"/", "_^_XCODE_DEV_DIRECTORY_^_">>
RootDir == <<"/", "tmp">>                  \* of the job, on the server

(* ------------------------ the developer directory ----------------------- *)

\* The command line's, or /Developer when there is no xcode-select, or the one
\* line that xcode-select prints.
XcodeselectPath(machine) ==
    IF machine.option # None THEN machine.option
    ELSE IF machine.printed = None THEN <<"/", "Developer">>
    ELSE IF machine.printed # <<>> /\ Head(machine.printed) # "\n"
            /\ {i \in DOMAIN machine.printed : machine.printed[i] = "\n"} = {Len(machine.printed)}
    THEN Front(machine.printed)
    ELSE None

\* Mutant: after a match the next character is skipped.
ReplaceSkipping(text, find, replace) ==
    LET rest[i \in 1..Len(text) + Len(find) + 1] ==
            IF i > Len(text) THEN <<>>
            ELSE IF IsPrefix(find, SubSeq(text, i, Len(text)))
            THEN replace \o rest[i + Len(find) + 1]
            ELSE <<text[i]>> \o rest[i + 1]
    IN rest[1]

ReplaceSubstring(text, find, replace) ==
    LET rest[i \in 1..Len(text) + 1] ==
            IF i > Len(text) THEN <<>>
            ELSE IF IsPrefix(find, SubSeq(text, i, Len(text)))
            THEN replace \o rest[i + Len(find)]
            ELSE <<text[i]>> \o rest[i + 1]
    IN rest[1]

MaskDeveloperDir(text, machine) ==
    LET dir == XcodeselectPath(machine) IN
    IF dir = None THEN Failed ELSE ReplaceSubstring(text, dir, Token)

UnmaskDeveloperDir(text, machine) ==
    LET dir == XcodeselectPath(machine) IN
    IF dir = None \/ text = Failed THEN Failed ELSE ReplaceSubstring(text, Token, dir)

(* ------------------------------ header maps ----------------------------- *)

Absolute(text) == text # <<>> /\ Head(text) = "/"

\* The offset of the string below the root: itself if it is not absolute, the
\* one made before for this offset, or a new one at the end of the strings.
FixString(st, offset) ==
    LET text == st.strings[offset] IN
    IF ~Absolute(text) THEN [st EXCEPT !.offset = offset]
    ELSE IF offset \in DOMAIN st.replacements
    THEN [st EXCEPT !.offset = st.replacements[offset]]
    ELSE LET new == Len(st.strings) + 1 IN
         [st EXCEPT !.strings = Append(@, RootDir \o text), !.offset = new,
                    !.replacements = [o \in DOMAIN @ \cup {offset} |-> IF o = offset THEN new ELSE @[o]]]

FixPrefix(st, b) ==
    LET fixed == FixString(st, st.buckets[b].prefix)
    IN [fixed EXCEPT !.buckets[b].prefix = fixed.offset]

FixSuffix(st, b) ==
    LET fixed == FixString(st, st.buckets[b].suffix)
    IN [fixed EXCEPT !.buckets[b].suffix = fixed.offset]

\* Mutant: the suffix is looked at whatever the prefix is.
FixBucketTwice(st, b, size) ==
    LET bucket == st.buckets[b] IN
    IF bucket.key = 0 \/ st.failed THEN st
    ELSE IF ~({bucket.key, bucket.prefix, bucket.suffix} \subseteq 1..size) THEN [st EXCEPT !.failed = TRUE]
    ELSE FixSuffix(FixPrefix(st, b), b)

\* A bucket whose strings are not all in the original file fails the whole map.
FixBucket(st, b, size) ==
    LET bucket == st.buckets[b] IN
    IF bucket.key = 0 \/ st.failed THEN st
    ELSE IF ~({bucket.key, bucket.prefix, bucket.suffix} \subseteq 1..size) THEN [st EXCEPT !.failed = TRUE]
    ELSE LET prefixed == FixPrefix(st, b) IN
         IF prefixed.strings[prefixed.buckets[b].prefix] = <<>> THEN FixSuffix(prefixed, b) ELSE prefixed

\* What is no header map, or of another version, stays as it is. One whose
\* parts do not fit in the file fails the job, as a bad bucket does.
HeadermapFix(map, machine) ==
    LET start == [strings |-> map.strings, buckets |-> map.buckets, replacements |-> <<>>,
                  offset |-> 0, failed |-> ~map.fits]
        end == FoldLeft(LAMBDA st, b : FixBucket(st, b, Len(map.strings)), start,
                        [b \in DOMAIN map.buckets |-> b])
    IN IF ~map.known \/ end.failed THEN [failed |-> map.known, map |-> map]
       ELSE [failed |-> FALSE, map |-> [map EXCEPT !.strings = end.strings, !.buckets = end.buckets,
                                                   !.order = machine.order]]

LowercaseASCII(text) == [i \in DOMAIN text |-> IF text[i] = "A" THEN "a" ELSE text[i]]

ValueOf(map, bucket) == map.strings[bucket.prefix] \o map.strings[bucket.suffix]

IsKey(map, b, key) ==
    /\ map.buckets[b].key # 0
    /\ LowercaseASCII(map.strings[map.buckets[b].key]) = LowercaseASCII(key)

\* The include server: the first bucket of the key, whatever the order of bytes.
Resolve(map, key) ==
    LET found == {b \in DOMAIN map.buckets : IsKey(map, b, key)} IN
    IF ~map.known \/ found = {} THEN None ELSE ValueOf(map, map.buckets[Min(found)])

(* ------------------------------- external ------------------------------- *)

Code == [a |-> 3, b |-> 7, F |-> 1] @@ ("/" :> 0)

Hash(key) == FoldLeft(LAMBDA n, c : n + Code[c], 0, LowercaseASCII(key))

\* The buckets in which a key may be, in the order in which they are searched.
Probes(capacity, key) == [i \in 1..capacity |-> ((Hash(key) + i - 1) % capacity) + 1]

\* gcc: from the bucket of the key's hash to the first empty one, in a map of
\* the machine's own order of bytes.
GccLookup(map, key, machine) ==
    LET probes == Probes(Len(map.buckets), key)
        empty == {i \in DOMAIN probes : map.buckets[probes[i]].key = 0}
        found == {i \in DOMAIN probes : IsKey(map, probes[i], key) /\ \A e \in empty : i < e}
    IN IF ~map.known \/ map.order # machine.order \/ found = {} THEN None
       ELSE ValueOf(map, map.buckets[probes[Min(found)]])

\* Xcode: every entry in the first free bucket from that of its key's hash.
Written(entries, strings, capacity) ==
    FoldLeft(LAMBDA buckets, e :
                LET probes == Probes(capacity, strings[e.key])
                    free == {i \in 1..capacity : buckets[probes[i]].key = 0}
                IN [buckets EXCEPT ![probes[Min(free)]] = e],
             [i \in 1..capacity |-> [key |-> 0, prefix |-> 0, suffix |-> 0]], entries)

(* ------------------------------ properties ------------------------------ *)

\* The text of an option and a path, or of a path alone, means on the server
\* what it means on the client: below the server's developer directory if it
\* is below the client's, and itself otherwise.
Rehosted(option, path, client, server) ==
    LET from == XcodeselectPath(client) IN
    option \o IF IsPrefix(from, path) /\ (Len(path) = Len(from) \/ path[Len(from) + 1] = "/")
              THEN XcodeselectPath(server) \o SubSeq(path, Len(from) + 1, Len(path))
              ELSE path

\* The client's directory is in the text, but not as its first components; or
\* the token is, or appears once the directory has been replaced.
Occurrences(find, text) == {i \in DOMAIN text : IsPrefix(find, SubSeq(text, i, Len(text)))}

Misleading(option, path, client) ==
    LET from == XcodeselectPath(client) IN
    \/ Occurrences(Token, path) # {}
    \/ \E i \in Occurrences(from, path) : i > 1 \/ (Len(path) > Len(from) /\ path[Len(from) + 1] # "/")

\* The job fails only where a machine does not know its own directory.
PathsMeanTheSame(option, path, client, server) ==
    LET received == UnmaskDeveloperDir(MaskDeveloperDir(option \o path, client), server) IN
    IF None \in {XcodeselectPath(client), XcodeselectPath(server)} THEN received = Failed
    ELSE received = Rehosted(option, path, client, server) \/ Misleading(option, path, client)

Rehomed(value) == IF Absolute(value) THEN RootDir \o value ELSE value

Sound(map) ==
    /\ map.fits
    /\ \A b \in DOMAIN map.buckets : LET bucket == map.buckets[b] IN
          bucket.key = 0 \/ {bucket.key, bucket.prefix, bucket.suffix} \subseteq DOMAIN map.strings

\* gcc finds on the server, below the root of the job, the file it finds on
\* the client, and the include server has sent that file to that place: but
\* for a map in an order of bytes that the client's gcc refuses, keys that
\* differ in case only and whose buckets wrap around the table, and files in a
\* developer directory that the server has elsewhere (the map keeps the
\* client's). A map that is not sound fails the job.
HeadersTheSame(map, keys, client, server) ==
    LET fixed == HeadermapFix(map, server) IN
    IF map.known /\ ~Sound(map) THEN fixed.failed
    ELSE ~fixed.failed /\ \A key \in keys :
        LET value == GccLookup(map, key, client)
            include == Resolve(map, key)
            remote == GccLookup(fixed.map, key, server)
            place == RootDir \o UnmaskDeveloperDir(MaskDeveloperDir(include, client), server)
            probes == Probes(Len(map.buckets), key)
        IN \/ map.order # client.order
           \/ /\ remote = Rehomed(value)
              /\ \/ include = value
                 \/ \E i, j \in DOMAIN probes : i < j /\ probes[j] < probes[i]
                        /\ IsKey(map, probes[i], key) /\ IsKey(map, probes[j], key)
              /\ (include = value /\ Absolute(value)) =>
                    \/ place = remote
                    \/ Rehosted(<<>>, value, client, server) # value
                    \/ Misleading(<<>>, value, client)
=============================================================================
