--------------------------- MODULE MCDistccClient --------------------------
(***************************************************************************)
(* Values for model checking DistccClient.                                 *)
(***************************************************************************)
EXTENDS DistccClient

CONSTANTS pump, plain

ClientHosts == <<pump, plain, "localhost">>

OneSlotEach == [h \in AllHosts |-> 1]
=============================================================================
