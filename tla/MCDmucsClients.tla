--------------------------- MODULE MCDmucsClients ---------------------------
(* Small instances of DmucsClients: one host of one CPU, two gethost       *)
(* processes and one tool.                                                 *)
EXTENDS DmucsClients

CONSTANTS host, type, c1, c2, tool, none, nospec

Slow == [ncpus |-> 1, pindex |-> 1]
Calm == [calm1 |-> TRUE, calm5 |-> TRUE, calm10 |-> TRUE]

MCDpropOf == [h \in {host} |-> type]
MCSpecs == {Slow}
MCLoads == {Calm}
MCConfiguredFile == [h \in {host} |-> Slow]
MCSends == [t \in {tool} |-> [kind : {"load"}, host : {host}, load : {Calm}]
                \cup [kind : {"up"}, host : {host}]
                \cup [kind : {"malformed"}]]

\* One process waits without a limit, the other for no time.
MCWait == [c \in {c1, c2} |-> IF c = c1 THEN -1 ELSE 0]
=============================================================================
