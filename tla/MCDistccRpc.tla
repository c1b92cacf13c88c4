----------------------------- MODULE MCDistccRpc ---------------------------
(***************************************************************************)
(* Values for model checking DistccRpc with the session around it.         *)
(***************************************************************************)
EXTENDS DistccSession

AllVersions == {1, 2, 3}

TwoFiles == <<"LINK", "FILE">>

\* An IPv4 address, the same in its IPv6 notation, and others of both kinds.
Callers ==
    {[family |-> "inet", addr |-> a] : a \in {<<1, 2>>, <<1, 3>>, <<2, 2>>}} \cup
    {[family |-> "inet6", addr |-> a] :
        a \in {<<0, 3, 1, 2>>, <<2, 1, 3, 0>>, <<2, 1, 2, 3>>, <<2, 2, 3, 0>>}}

Entries ==
    {[family |-> "inet", addr |-> <<1, 2>>, bits |-> b] : b \in 0..4} \cup
    {[family |-> "inet6", addr |-> <<2, 1, 3, 1>>, bits |-> b] : b \in 0..8}

MCPeers ==
    [client : Callers,
     allowed : {<<>>} \cup {<<e>> : e \in Entries} \cup {<<e, f>> : e, f \in Entries}]

Files3 == {<<>>} \cup {<<a>> : a \in 1..3} \cup {<<3, 1>>, <<2, 3>>, <<3, 1, 2>>, <<2, 2, 3>>}

MCLogins == [mode : {"none", "black", "white"}, principal : 1..3, lines : Files3]
=============================================================================
