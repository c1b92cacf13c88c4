---------------------------- MODULE DistccRemote ---------------------------
(***************************************************************************)
(* What a client of distccd may rely on (the comment of dcc_compile_remote *)
(* in remote.c): the exchange gives one answer.  Success and failure of    *)
(* the compiler are only reported when the compiler has ended that way,    *)
(* an object is delivered whole or not at all, and anything else is an     *)
(* error after which the client builds locally (over an object that came   *)
(* before the error).  A client that keeps a log of errors for an e-mail   *)
(* may miss the object: where it cannot write the log, it takes the        *)
(* success of the compiler for its own and reads no further.               *)
(***************************************************************************)
CONSTANT LogsErrors     \* the client keeps that log

VARIABLES
    compiled,   \* how the compiler on the server has ended: "no", "ok", "fail"
    answer,     \* what the client was told: "none", "object", "failed",
                \* "cpp_failed", "error"; "unread" is success without the
                \* object, which the client takes for "object"
    output      \* the client's object file: "old", "gone", "object"

vars == <<compiled, answer, output>>

Init == compiled = "no" /\ answer = "none" /\ output = "old"

(***************************************************************************)
(* The server may still compile for a client that has given up.            *)
(***************************************************************************)
Compile ==
    /\ compiled = "no"
    /\ answer \in {"none", "error"}
    /\ compiled' \in {"ok", "fail"}
    /\ UNCHANGED <<answer, output>>

Deliver ==
    /\ answer = "none" /\ compiled = "ok"
    /\ answer' = "object" /\ output' = "object"
    /\ UNCHANGED compiled

Report ==
    /\ answer = "none"
    /\ \/ compiled = "fail" /\ answer' = "failed"
       \/ compiled = "no" /\ answer' = "cpp_failed"
    /\ UNCHANGED <<compiled, output>>

GiveUp ==
    /\ answer = "none" /\ answer' = "error"
    /\ output' \in {"old", "gone"} \/ (compiled = "ok" /\ output' = "object")
    /\ UNCHANGED compiled

Overlook ==
    /\ LogsErrors
    /\ answer = "none" /\ compiled = "ok"
    /\ answer' = "unread"
    /\ UNCHANGED <<compiled, output>>

Next == Compile \/ Deliver \/ Report \/ GiveUp \/ Overlook

Spec == Init /\ [][Next]_vars
=============================================================================
