--------------------------- MODULE MCDmucsServer ---------------------------
(* Small instances of DmucsServer: a fast host that the hosts-info file    *)
(* names and a slow one, of power index 1, that it does not.               *)
EXTENDS DmucsTools, Sequences

CONSTANTS fast, slow, type, c1, c2, none, nospec

Fast == [ncpus |-> 2, pindex |-> 2]
Slow == [ncpus |-> 1, pindex |-> 1]

MCHosts == {fast, slow}
MCDprops == {type}
MCDpropOf == [h \in MCHosts |-> type]
MCSpecs == {Fast, Slow}
MCLoads == {[calm1 |-> TRUE, calm5 |-> TRUE, calm10 |-> TRUE],
            [calm1 |-> FALSE, calm5 |-> FALSE, calm10 |-> TRUE],
            [calm1 |-> FALSE, calm5 |-> FALSE, calm10 |-> FALSE]}
MCConfiguredFile == [h \in MCHosts |-> IF h = fast THEN Fast ELSE nospec]

\* A page of both hosts and the CPUs of both is cut by the smaller rooms.
MCAddrOf == [h \in MCHosts |-> IF h = fast THEN 1 ELSE 2]
MCNamings == {[a \in 0..2 |-> a], [a \in 0..2 |-> IF a = 0 THEN 0 ELSE 3]}
MCRooms == {2, 4, 9}

\* The options of the commands, in orders that repeat, omit and replace.
Opt(name, vals) == [name |-> name, vals |-> vals]
Typed == {<<Word("linux")>>, <<Num(64)>>}
Heads == {<<>>} \cup {<<Opt("-t", t)>> : t \in Typed}
            \cup {<<Opt("-D", <<>>), Opt("-t", <<Word("old")>>), Opt("-t", t)>> : t \in Typed}
            \cup {<<Opt("-t", <<>>)>>}
Tails == {<<>>, <<Opt("-ip", <<2>>)>>, <<Opt("--host", <<2>>)>>, <<Opt("--host", <<0>>)>>,
          <<Opt("-A", <<Num(4), Num(2)>>)>>, <<Opt("-A", <<Num(4)>>)>>,
          <<Opt("--host", <<2>>), Opt("-A", <<Num(4), Num(2)>>), Opt("-ip", <<3>>)>>,
          <<Opt("make", <<>>), Opt("-ip", <<3>>)>>}
MCCommands ==
    [prog : {"addhost", "remhost", "loadavg", "gethost"},
     opts : {h \o t : h \in Heads, t \in Tails},
     own : {<<>>, <<1>>},
     load : {<<Num(0), Num(1), Num(2)>>}]

Lines == {[kind |-> k, addr |-> AddrOf[h], spec |-> s] :
            k \in {"entry", "comment", "bad", "unknown"}, h \in MCHosts, s \in MCSpecs}
MCFileTexts ==
    [lines : UNION {[1..n -> Lines] : n \in 0..2},
     ended : BOOLEAN, named : SUBSET {1, 2}]
=============================================================================
