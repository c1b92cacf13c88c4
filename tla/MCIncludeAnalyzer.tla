------------------------- MODULE MCIncludeAnalyzer -------------------------
EXTENDS IncludeAnalyzer, TLC

CONSTANTS a, b, h, i, t, s, z, X, Y, p, none

MCFiles == {a, b, h, i, t, s, z}
MCMacros == {X, Y}

Lists(ls) == [f \in MCFiles |-> IF f \in DOMAIN ls THEN ls[f] ELSE <<>>]
Prog(q, an, e, n, d) ==
    [quote |-> Lists(q), angle |-> Lists(an), expr |-> Lists(e), next |-> Lists(n),
     defs |-> [f \in MCFiles |-> IF f \in DOMAIN d THEN d[f] ELSE {}]]

\* A diamond with a generated header.
Diamond == Prog(a :> <<h, i>> @@ b :> <<i>>, h :> <<t>> @@ i :> <<t>>, <<>>, <<>>, <<>>)
\* A cycle, in which the macro of a computed include is defined on the way.
Cycle == Prog(a :> <<h>> @@ b :> <<i>> @@ i :> <<h>>, h :> <<i>> @@ b :> <<s>>, h :> <<X>>, <<>>,
              i :> {<<X, t>>} @@ s :> {<<X, i>>})
\* Computed includes below a common header, by macros of the command line.
Computed == Prog(a :> <<h>> @@ b :> <<h>>, <<>>, h :> <<X>> @@ i :> <<Y>>, <<>>, <<>>)
\* The include_next of a header that may be missing.
Wrapper == Prog(a :> <<h>> @@ b :> <<i>> @@ t :> <<s>>, <<>>, i :> <<X>>, h :> <<t>>, <<>>)

\* A computed include in a cycle; the same below an include_next.
Loop == Prog(a :> <<h>> @@ b :> <<i>> @@ h :> <<i>> @@ i :> <<h>>, <<>>, h :> <<X>>, <<>>, <<>>)
NextBelow == Prog(b :> <<h>>, <<>>, i :> <<X>>, h :> <<t>>, <<>>)
\* Two files with one #include_next.
NextTwice == Prog(a :> <<b>>, <<>>, <<>>, a :> <<t>> @@ b :> <<t>>, <<>>)
\* A header that is included in two ways.
TwoWays == Prog(a :> <<h>> @@ b :> <<i>>, i :> <<h>>, h :> <<X>>, <<>>, <<>>)

MCPrograms == {Diamond, Cycle, Computed, Wrapper, Loop, NextBelow, NextTwice, TwoWays}
MCCommands ==
    {[files |-> <<a>>, defs |-> {}], [files |-> <<a>>, defs |-> {<<X, t>>, <<Y, z>>}],
     [files |-> <<h, b>>, defs |-> {<<X, Y>>}], [files |-> <<b>>, defs |-> {<<X, z>>}],
     [files |-> <<a>>, defs |-> {<<X, p>>}]}
MCNamed == [f \in MCFiles |-> IF f = t THEN {i, t} ELSE {f}]
=============================================================================
