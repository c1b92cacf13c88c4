---------------------------- MODULE DistccHosts ----------------------------
(***************************************************************************)
(* Reading the list of hosts (hosts.c, hostfile.c).  A text is a sequence  *)
(* of pieces: names, numbers, options and the characters the scanner stops *)
(* at.  The second half writes a list in the grammar of man/distcc.1 and   *)
(* says what it means.                                                     *)
(***************************************************************************)
EXTENDS Naturals, SequencesExt

Digits == [x \in {"2", "8", "0"} |-> CASE x = "2" -> 2 [] x = "8" -> 8 [] x = "0" -> 0]
DefaultPort == 3632

Blank == {" ", "\n"}

\* dcc_parse_hosts: words between blanks, without comments.
Words(text) ==
    LET Close(s) == IF s.word = <<>> THEN s.words ELSE Append(s.words, s.word)
        Step(s, x) ==
            CASE s.comment -> [s EXCEPT !.comment = x # "\n"]
              [] ~s.comment /\ x \in Blank \cup {"#"} ->
                     [words |-> Close(s), word |-> <<>>, comment |-> x = "#"]
              [] OTHER -> [s EXCEPT !.word = Append(@, x)]
    IN  Close(FoldLeft(Step, [words |-> <<>>, word |-> <<>>, comment |-> FALSE], text))

-----------------------------------------------------------------------------
(* A word is read from left to right: what has been found, what is left,   *)
(* and whether it was understood.                                          *)

NewHost == [mode |-> "none", user |-> <<>>, name |-> <<>>, port |-> 0, slots |-> 4, command |-> <<>>,
            lzo |-> FALSE, cpp |-> FALSE, auth |-> FALSE, up |-> TRUE]

Reading(host, rest) == [ok |-> TRUE, host |-> host, rest |-> rest]
Fails(r) == [r EXCEPT !.ok = FALSE]
Sees(r, x) == r.rest # <<>> /\ Head(r.rest) = x
Next1(r) == [r EXCEPT !.rest = Tail(@)]

\* dcc_dup_part
PartOf(rest, stops) ==
    LET at == SelectInSeq(rest, LAMBDA x : x \in stops)
    IN  IF at = 0 THEN rest ELSE SubSeq(rest, 1, at - 1)
Skip(r, part) == [r EXCEPT !.rest = SubSeq(@, Len(part) + 1, Len(@))]

\* dcc_parse_multiplier
Multiplier(r) ==
    IF ~r.ok \/ ~(Sees(r, "/") \/ Sees(r, "=")) THEN r
    ELSE LET value == IF Len(r.rest) > 1 /\ r.rest[2] \in DOMAIN Digits THEN Digits[r.rest[2]] ELSE 0
         IN  IF value = 0 THEN Fails(r) ELSE [Next1(Next1(r)) EXCEPT !.host.slots = value]

\* dcc_parse_options, dcc_get_protover_from_features
Options(r) ==
    LET words == SelectSeq(r.rest, LAMBDA x : x # ",")
        known == Len(r.rest) = 2 * Len(words)
                 /\ \A i \in DOMAIN r.rest : r.rest[i] = "," <=> i % 2 = 1
                 /\ Range(words) \subseteq {"lzo", "cpp", "auth", "down"}
        given == [r.host EXCEPT !.lzo = "lzo" \in Range(words), !.cpp = "cpp" \in Range(words),
                                !.auth = "auth" \in Range(words), !.up = "down" \notin Range(words)]
    IN  IF ~r.ok \/ ~Sees(r, ",") THEN r
        ELSE IF ~known \/ (given.cpp /\ ~given.lzo) THEN Fails(r)
        ELSE [r EXCEPT !.host = given, !.rest = <<>>]

\* Mutant: the limit is only looked for before the port.
PortOnly(r) ==
    IF ~r.ok \/ ~Sees(r, ":") THEN r
    ELSE LET q == Next1(r)
             number == q.rest # <<>> /\ Head(q.rest) \in DOMAIN Digits
             tail == IF number THEN Next1(q) ELSE q
         IN  IF tail.rest # <<>> /\ Head(tail.rest) \notin {"/", ","} THEN Fails(r)
             ELSE [tail EXCEPT !.host.port = IF number THEN Digits[Head(q.rest)] ELSE 0]

Port(r) ==
    IF ~r.ok \/ ~Sees(r, ":") THEN r
    ELSE LET q == Next1(r)
             number == q.rest # <<>> /\ Head(q.rest) \in DOMAIN Digits
             tail == IF number THEN Next1(q) ELSE q
         IN  IF tail.rest # <<>> /\ Head(tail.rest) \notin {"/", ","} THEN Fails(r)
             ELSE Multiplier([tail EXCEPT !.host.port = IF number THEN Digits[Head(q.rest)] ELSE 0])

\* Between brackets the opening one belongs to the name.
TcpHost(word) ==
    LET bracket == Head(word) = "["
        name == PartOf(word, IF bracket THEN {"/", "]", ","} ELSE {"/", ":", ","})
        r == Skip(Reading([NewHost EXCEPT !.mode = "tcp", !.name = name, !.port = DefaultPort], word), name)
    IN  IF name = <<>> \/ (bracket /\ ~Sees(r, "]")) THEN Fails(r)
        ELSE Options(Port(Multiplier(IF bracket THEN Next1(r) ELSE r)))

\* The host, the limit and the command that follow the user.
SshCommand(q) ==
    LET command == PartOf(Tail(q.rest), {","})
    IN  Options(IF q.ok /\ Sees(q, ":") THEN [Skip(Next1(q), command) EXCEPT !.host.command = command] ELSE q)

SshName(r) ==
    LET name == PartOf(r.rest, {"/", ":", ","})
    IN  IF name = <<>> THEN Fails(r) ELSE SshCommand(Multiplier([Skip(r, name) EXCEPT !.host.name = name]))

SshHost(word) ==
    LET user == PartOf(word, {"@"})
    IN  SshName(Next1(Skip(Reading([NewHost EXCEPT !.mode = "ssh", !.user = user], word), user)))

LocalHost(word) ==
    Multiplier(Reading([NewHost EXCEPT !.mode = "local", !.name = <<"localhost">>, !.slots = 2], Tail(word)))

Host(word) ==
    IF Head(word) = "localhost" /\ (Len(word) = 1 \/ word[2] = "/") THEN LocalHost(word)
    ELSE IF "@" \in Range(word) THEN SshHost(word)
    ELSE TcpHost(word)

-----------------------------------------------------------------------------
Unread == [ok |-> TRUE, hosts |-> <<>>, local |-> 4, localCpp |-> 8, randomize |-> FALSE]

\* A wrong --localslots_cpp is taken for a --localslots without a number.
ReadWord(s, word, zeroconf) ==
    LET slots(n) == Multiplier(Reading([NewHost EXCEPT !.slots = 0], SubSeq(word, n, Len(word))))
        set(old, n) == IF n > 0 THEN n ELSE old
    IN  CASE ~s.ok -> s
          [] s.ok /\ Head(word) = "--randomize" -> [s EXCEPT !.randomize = TRUE]
          [] s.ok /\ Head(word) = "--localslots" /\ Len(word) > 1 /\ word[2] = "_cpp" ->
                 [s EXCEPT !.localCpp = set(@, slots(3).host.slots)]
          [] s.ok /\ Head(word) = "--localslots" /\ ~(Len(word) > 1 /\ word[2] = "_cpp") /\ slots(2).ok ->
                 [s EXCEPT !.local = set(@, slots(2).host.slots)]
          [] s.ok /\ word = <<"+zeroconf">> -> [s EXCEPT !.hosts = @ \o zeroconf]
          [] OTHER -> LET r == Host(word) IN
                 IF r.ok THEN [s EXCEPT !.hosts = Append(@, r.host)] ELSE [s EXCEPT !.ok = FALSE]

\* dcc_randomize_host_list, by the random number each host gets.
Randomized(hosts, rand) ==
    LET order == SortSeq([i \in DOMAIN hosts |-> i], LAMBDA i, j : rand[i] < rand[j])
    IN  [i \in DOMAIN hosts |-> hosts[order[i]]]

\* dcc_parse_hosts
Parsed(s, rand) ==
    IF ~s.ok \/ s.hosts = <<>> THEN [s EXCEPT !.ok = FALSE]
    ELSE IF s.randomize THEN [s EXCEPT !.hosts = Randomized(@, rand)] ELSE s

ParseHosts(text, zeroconf, rand) ==
    Parsed(FoldLeft(LAMBDA t, word : ReadWord(t, word, zeroconf), Unread, Words(text)), rand)

\* dcc_get_hostlist: the first source there is, even if it names no host.
NoText == <<"no such file">>
Source(environment, home, system) ==
    IF environment # NoText THEN environment ELSE IF home # NoText THEN home ELSE system

GetHostlist(environment, home, system, zeroconf, rand) ==
    LET text == Source(environment, home, system)
    IN  IF text = NoText THEN [Unread EXCEPT !.ok = FALSE] ELSE ParseHosts(text, zeroconf, rand)

-----------------------------------------------------------------------------
(* The grammar of man/distcc.1, "host specifications".                     *)

Optional(x, written) == IF x = <<>> THEN <<>> ELSE written \o x

Written(spec) ==
    LET id == IF ":" \in Range(spec.name) THEN <<"[">> \o spec.name \o <<"]">> ELSE spec.name
        opts == FlattenSeq([i \in DOMAIN spec.opts |-> <<",", spec.opts[i]>>])
    IN  CASE spec.form = "local" -> <<"localhost">> \o Optional(spec.limit, <<"/">>)
          [] spec.form = "localslots" -> <<"--localslots", "=">> \o spec.limit
          [] spec.form = "localslots_cpp" -> <<"--localslots", "_cpp", "=">> \o spec.limit
          [] spec.form = "randomize" -> <<"--randomize">>
          [] spec.form = "zeroconf" -> <<"+zeroconf">>
          [] spec.form = "ssh" -> spec.user \o <<"@">> \o id \o Optional(spec.limit, <<"/">>)
                                  \o Optional(spec.command, <<":">>) \o opts
          [] spec.form = "tcp" -> id \o Optional(spec.port, <<":">>) \o Optional(spec.limit, <<"/">>) \o opts
          [] spec.form = "oldtcp" -> id \o Optional(spec.limit, <<"/">>) \o Optional(spec.port, <<":">>) \o opts

Decimal(x, default) == IF x = <<>> THEN default ELSE Digits[x[1]]

Named(spec) ==
    [NewHost EXCEPT
        !.mode = IF spec.form = "oldtcp" THEN "tcp" ELSE spec.form,
        !.name = IF spec.form = "local" THEN <<"localhost">> ELSE spec.name,
        !.user = spec.user, !.command = spec.command,
        !.port = IF spec.form \in {"tcp", "oldtcp"} THEN Decimal(spec.port, DefaultPort) ELSE 0,
        !.slots = Decimal(spec.limit, IF spec.form = "local" THEN 2 ELSE 4),
        !.lzo = "lzo" \in Range(spec.opts), !.cpp = "cpp" \in Range(spec.opts),
        !.auth = "auth" \in Range(spec.opts)]

IsHost(spec) == spec.form \in {"tcp", "oldtcp", "ssh", "local"}

HostsMeant(specs, zeroconf) ==
    FlattenSeq([i \in DOMAIN specs |-> IF IsHost(specs[i]) THEN <<Named(specs[i])>>
                                       ELSE IF specs[i].form = "zeroconf" THEN zeroconf ELSE <<>>])

LimitMeant(specs, form, default) ==
    LET given == SelectSeq(specs, LAMBDA s : s.form = form)
    IN  IF given = <<>> THEN default ELSE Decimal(Last(given).limit, default)

\* "pump mode requires compression" (hosts.c): the whole list is refused.
Refused(specs) ==
    \E i \in DOMAIN specs : "cpp" \in Range(specs[i].opts) /\ "lzo" \notin Range(specs[i].opts)

\* An address in brackets keeps the opening one, and ssh does not know them:
\* such a host is never reached.
Bracketed(specs) == \E i \in DOMAIN specs : ":" \in Range(specs[i].name)

\* The hosts in the order given, or the same hosts.
SameHosts(specs, hosts, meant) ==
    IF \E i \in DOMAIN specs : specs[i].form = "randomize"
    THEN \A h \in Range(meant) \cup Range(hosts) :
            Len(SelectSeq(hosts, LAMBDA x : x = h)) = Len(SelectSeq(meant, LAMBDA x : x = h))
    ELSE hosts = meant

AsMeant(specs, s, meant) ==
    Bracketed(specs) \/
    IF Refused(specs) \/ meant = <<>> THEN ~s.ok
    ELSE /\ s.ok
         /\ s.local = LimitMeant(specs, "localslots", 4)
         /\ s.localCpp = LimitMeant(specs, "localslots_cpp", 8)
         /\ SameHosts(specs, s.hosts, meant)

(***************************************************************************)
(* A list written as the manual says is read as the manual says: every     *)
(* host with its slots, port, user, command and protocol, in the order     *)
(* given or a permutation of it, wherever blanks and comments stand.       *)
(***************************************************************************)
ReadAsMeant(specs, text, zeroconf, rand) ==
    AsMeant(specs, GetHostlist(NoText, text, NoText, zeroconf, rand), HostsMeant(specs, zeroconf))
=============================================================================
