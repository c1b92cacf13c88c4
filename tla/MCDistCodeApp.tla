--------------------------- MODULE MCDistCodeApp ---------------------------
EXTENDS DistCodeApp

MCCpus == [h \in Machines |-> 1]
MCUsedBy == [s \in Coordinators |-> IF s = Own THEN {} ELSE Machines \ {Me}]
=============================================================================
