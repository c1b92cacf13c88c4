------------------------- MODULE DmucsThreadsSerial ------------------------
(***************************************************************************)
(* DmucsThreads, and the handlers that DmucsServer takes as one action     *)
(* each.  As long as no search begins between two calls of a handler, and  *)
(* no handler while the search is at work on a host, the steps implement   *)
(* DmucsServer: settled is the database as the last handler, or the search *)
(* at its last host, left it.                                              *)
(***************************************************************************)
EXTENDS DmucsThreads

VARIABLES settled, overlapped

MainBusy == thread.main # Idle

SearchBusy == thread.silent.pc \notin {"idle", "visit"}

\* The step leaves a thread that is busy to its work.
Apart ==
    /\ MainBusy => MainContinues
    /\ SearchBusy => Transition("silent")

SerialInit == Init /\ settled = db /\ overlapped = FALSE

SerialNext ==
    /\ Next
    /\ overlapped' = (overlapped \/ ~Apart)
    /\ settled' = IF overlapped' THEN EmptyDb
                  ELSE IF MainBusy' \/ SearchBusy' THEN settled ELSE db'

SerialSpec == SerialInit /\ [][SerialNext]_<<vars, settled, overlapped>> /\ Fairness

\* The host the search is at is still to be visited.
ToVisit == todo \cup (IF SearchBusy THEN {thread.silent.host} ELSE {})

Server == INSTANCE DmucsServer
    WITH db <- settled, hostsFile <- ConfiguredFile, sweep <- ToVisit, up <- TRUE

\* Call by call, in the order the code makes them, the handlers and the search
\* have the effect of the atomic actions of DmucsServer, until they overlap.
ImplementsServer ==
    Server!Init /\ [][overlapped' \/ Server!Next]_<<settled, ToVisit>>
=============================================================================
