--------------------------- MODULE MCDmucsThreads --------------------------
(* A small instance of DmucsThreadsSerial: the host is named by the hosts-info*)
(* file with the same two CPUs.                                            *)
EXTENDS DmucsThreadsSerial

CONSTANTS type, nospec

Spec2 == [ncpus |-> 2, pindex |-> 2]

MCDpropOf == [h \in Hosts |-> type]
MCSpecs == {Spec2}
MCLoads == {[calm1 |-> TRUE, calm5 |-> TRUE, calm10 |-> TRUE],
            [calm1 |-> FALSE, calm5 |-> FALSE, calm10 |-> TRUE],
            [calm1 |-> FALSE, calm5 |-> FALSE, calm10 |-> FALSE]}
MCConfiguredFile == [h \in Hosts |-> Spec2]
=============================================================================
