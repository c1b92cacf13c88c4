----------------------------- MODULE DistccRpc -----------------------------
(***************************************************************************)
(* One request of the distcc protocol: dcc_compile_remote (remote.c,       *)
(* clirpc.c) on the client and dcc_run_job (serve.c, srvrpc.c) in a child  *)
(* of distccd, over the connection made of rpc.c, bulk.c, pump.c,          *)
(* sendfile.c, compress.c and io.c.                                        *)
(*                                                                         *)
(* A message of the protocol is an element of a channel: a token of four   *)
(* characters and what follows it, named by the token it belongs to.  Both *)
(* ends run down the same script.                                          *)
(* Nothing else tells the reader where a body ends or what comes next, and *)
(* several errors of the sender are dropped by dcc_x_file: a body may be   *)
(* shorter than its token says, and a whole element may be missing.        *)
(***************************************************************************)
EXTENDS Naturals, Sequences

CONSTANTS
    Versions,   \* the protocols to check: 1 plain, 2 compressed, 3 pump
    Files,      \* what a pump client sends: "FILE" and "LINK", in order
    MaxFaults,  \* bound on the failures of one exchange
    LogsErrors  \* the client keeps a log for the discrepancy e-mail

ASSUME VersionsAssumption == Versions \subseteq {1, 2, 3}
ASSUME FilesAssumption == Files \in Seq({"FILE", "LINK"})
ASSUME FaultsAssumption == MaxFaults \in Nat
ASSUME LogsAssumption == LogsErrors \in BOOLEAN

VARIABLES
    ver,        \* the protocol of the request
    wantDeps,   \* the command asks for a .d file (dcc_get_dotd_info)
    c2s, s2c,   \* the two directions of the connection
    up,         \* the connection has not broken
    faults,     \* failures so far
    cpc,        \* the client: "send", "recv", "done"
    cat,        \* its place in the script it sends or reads
    cret,       \* what dcc_compile_remote returned: "none", "ok", "error"
    cstatus,    \* *status: "ok", "fail", "cpp" (the status of a failed cpp)
    output,     \* output_fname: "old", "gone", "object", "mixed"
    deps,       \* deps_fname, likewise
    spc,        \* the server: "recv", "check", "cc", "reply", "done"
    sat,        \* its place in the script it reads or sends
    input,      \* what it compiles: "none", "whole", "mixed"
    compiled,   \* how the compiler ended: "no", "ok", "fail"
    sret        \* ret of the chain of dcc_x_ calls after the compilation

client == <<cpc, cat, cret, cstatus, output, deps>>
server == <<spc, sat, input, compiled, sret>>
request == <<ver, wantDeps>>
vars == <<request, c2s, s2c, up, faults, client, server>>

Compressed == ver > 1
CppOnServer == ver > 2

(***************************************************************************)
(* The scripts, each from the code of its own end.  ARGV stands for ARGC   *)
(* and the ARGVs; FILE and LINK include the NAME before them.              *)
(***************************************************************************)
Sends == IF CppOnServer THEN <<"DIST", "CDIR", "ARGV", "NFIL">> \o Files
                        ELSE <<"DIST", "ARGV", "DOTI">>

\* Mutant: the working directory is read after the arguments.
ExpectsCdirLate == IF CppOnServer THEN <<"DIST", "ARGV", "CDIR", "NFIL">> \o Files
                                  ELSE <<"DIST", "ARGV", "DOTI">>

Expects == IF CppOnServer THEN <<"DIST", "CDIR", "ARGV", "NFIL">> \o Files
                          ELSE <<"DIST", "ARGV", "DOTI">>

Reply == <<"DONE", "STAT", "SERR", "SOUT", "DOTO", "DOTD">>

Garbled == [tok |-> "?", body |-> "?"]

TypeOK ==
    LET Elements(toks) == [tok : toks \cup {"?"},
                           body : toks \cup {"?", "short", "zero", "ok", "fail"}]
        Range(s) == {s[i] : i \in DOMAIN s}
    IN  /\ ver \in Versions /\ wantDeps \in BOOLEAN
        /\ c2s \in Seq(Elements(Range(Sends)))
        /\ s2c \in Seq(Elements(Range(Reply)))
        /\ up \in BOOLEAN /\ faults \in 0..MaxFaults
        /\ cpc \in {"send", "recv", "done"}
        /\ cat \in DOMAIN (IF cpc = "recv" THEN Reply ELSE Sends) \/ cpc = "done"
        /\ cret \in {"none", "ok", "error"} /\ cstatus \in {"ok", "fail", "cpp"}
        /\ output \in {"old", "gone", "object", "mixed"}
        /\ deps \in {"old", "gone", "object", "mixed"}
        /\ spc \in {"recv", "check", "cc", "reply", "done"}
        /\ sat \in DOMAIN (IF spc = "recv" THEN Expects ELSE Reply) \/ spc = "done"
        /\ input \in {"none", "whole", "mixed"}
        /\ compiled \in {"no", "ok", "fail"} /\ sret \in {"ok", "error"}

Init ==
    /\ ver \in Versions /\ wantDeps \in BOOLEAN
    /\ c2s = <<>> /\ s2c = <<>> /\ up = TRUE /\ faults = 0
    /\ cpc = "send" /\ cat = 1 /\ cret = "none" /\ cstatus = "ok"
    /\ output = "old" /\ deps = "old"
    /\ spc = "recv" /\ sat = 1 /\ input = "none" /\ compiled = "no" /\ sret = "ok"

-----------------------------------------------------------------------------
(***************************************************************************)
(* Sending.  The outcomes of a call are the return value, the channel and  *)
(* whether something failed on the way.  A write to a connection that is   *)
(* gone may still succeed: the data is lost.                               *)
(***************************************************************************)
Sent(ok, chan, fault) == [ok |-> ok, chan |-> chan, fault |-> fault]

Put(chan, open, tok, body) ==
    IF up /\ open
    THEN {Sent(TRUE, Append(chan, [tok |-> tok, body |-> body]), 0)}
    ELSE {Sent(ok, chan, 0) : ok \in BOOLEAN}

(***************************************************************************)
(* dcc_x_file.  A file that cannot be opened is an error; one that cannot  *)
(* be compressed sends nothing and returns 0; a body that cannot be read   *)
(* or written to its end is short and returns 0 too.                       *)
(***************************************************************************)
PutFile(chan, open, tok, compr) ==
    Put(chan, open, tok, tok) \cup
    (IF faults = MaxFaults THEN {}
     ELSE {Sent(FALSE, chan, 1)}
          \cup {Sent(TRUE, r.chan, 1) : r \in Put(chan, open, tok, "short")}
          \cup IF compr THEN {Sent(TRUE, chan, 1)} ELSE {})

-----------------------------------------------------------------------------
(***************************************************************************)
(* Reading one element (dcc_r_token_int and what the caller reads of the   *)
(* body): whether the token was the expected one, the body, and what is    *)
(* left.  A short body is filled with what follows it, whole elements or   *)
(* a part of one; if that was compressed it does not decompress.  No       *)
(* outcome: the reader waits for the rest.                                 *)
(***************************************************************************)
Got(tok, body, chan) == [tok |-> tok, body |-> body, chan |-> chan]

\* Mutant: the token is not compared with the expected one.
TakeAny(chan, closed, want, compr) ==
    IF chan = <<>>
    THEN IF closed THEN {Got(FALSE, "none", chan)} ELSE {}
    ELSE IF Head(chan).body # "short" THEN {Got(TRUE, Head(chan).body, Tail(chan))}
    ELSE IF closed THEN {Got(TRUE, "none", <<>>)} ELSE {}

Take(chan, closed, want, compr) ==
    IF chan = <<>>
    THEN IF closed THEN {Got(FALSE, "none", chan)} ELSE {}
    ELSE IF Head(chan).tok # want THEN {Got(FALSE, "none", chan)}
    ELSE IF Head(chan).body # "short" THEN {Got(TRUE, Head(chan).body, Tail(chan))}
    ELSE LET filled == IF compr THEN "none" ELSE "mixed"
             rest(n) == SubSeq(chan, n + 1, Len(chan))
         IN  {Got(TRUE, filled, rest(n)) : n \in 2..Len(chan)}
             \cup {Got(TRUE, filled, <<Garbled>> \o rest(n)) : n \in 2..Len(chan)}
             \cup IF closed THEN {Got(TRUE, "none", <<>>)} ELSE {}

-----------------------------------------------------------------------------
(***************************************************************************)
(* The client.                                                             *)
(***************************************************************************)
ClientOpen == cpc # "done"
ServerOpen == spc # "done"

ClientEnds(ret) == cpc' = "done" /\ cret' = ret /\ UNCHANGED cat

ClientSent(r) ==
    /\ c2s' = r.chan /\ faults' = faults + r.fault
    /\ IF cat < Len(Sends) THEN cpc' = "send" /\ cat' = cat + 1
                             ELSE cpc' = "recv" /\ cat' = 1
    /\ UNCHANGED cret

ClientFails(r) ==
    /\ c2s' = r.chan /\ faults' = faults + r.fault
    /\ ClientEnds("error")

(***************************************************************************)
(* dcc_send_header and the links of dcc_x_many_files.  The result of NFIL  *)
(* is not looked at; without a working directory CDIR is not sent at all.  *)
(***************************************************************************)
SendToken ==
    /\ cpc = "send"
    /\ Sends[cat] \in {"DIST", "CDIR", "ARGV", "NFIL", "LINK"}
    /\ \E r \in Put(c2s, ServerOpen, Sends[cat], Sends[cat]) :
           IF r.ok \/ Sends[cat] = "NFIL" THEN ClientSent(r) ELSE ClientFails(r)
    /\ UNCHANGED <<request, s2c, up, cstatus, output, deps, server>>

NoWorkingDirectory ==
    /\ cpc = "send" /\ Sends[cat] = "CDIR" /\ faults < MaxFaults
    /\ ClientSent(Sent(TRUE, c2s, 1))
    /\ UNCHANGED <<request, s2c, up, cstatus, output, deps, server>>

\* A failure before an element is sent: a file that cannot be looked at, no
\* memory, a -x language that cannot be mapped.
LocalFailure ==
    /\ cpc = "send" /\ faults < MaxFaults
    /\ ClientFails(Sent(FALSE, c2s, 1))
    /\ UNCHANGED <<request, s2c, up, cstatus, output, deps, server>>

SendSource ==
    /\ cpc = "send" /\ Sends[cat] \in {"DOTI", "FILE"}
    /\ \E r \in PutFile(c2s, ServerOpen, Sends[cat], Sends[cat] = "DOTI" /\ Compressed) :
           IF r.ok THEN ClientSent(r) ELSE ClientFails(r)
    /\ UNCHANGED <<request, s2c, up, cstatus, output, deps, server>>

(***************************************************************************)
(* dcc_wait_for_cpp: the connection is dropped, and 0 returned with the    *)
(* status of cpp.                                                          *)
(***************************************************************************)
CppFails ==
    /\ cpc = "send" /\ Sends[cat] = "DOTI"
    /\ cstatus' = "cpp" /\ ClientEnds("ok")
    /\ UNCHANGED <<request, c2s, s2c, up, faults, output, deps, server>>

-----------------------------------------------------------------------------
(***************************************************************************)
(* dcc_retrieve_results, one token at a time.                              *)
(***************************************************************************)
Reading(tok) == cpc = "recv" /\ Reply[cat] = tok

\* What dcc_r_file leaves behind: a transfer that fails removes the file.
Stored(body, tok) == CASE body = tok -> "object"
                       [] body = "none" -> "gone"
                       [] OTHER -> "mixed"

NextToken == cat' = cat + 1 /\ UNCHANGED <<cpc, cret>>

TakeReply == Take(s2c, ~ServerOpen \/ ~up, Reply[cat], Compressed)

ReadDone ==
    /\ Reading("DONE")
    /\ \E r \in TakeReply :
          /\ s2c' = r.chan
          /\ IF r.tok THEN NextToken ELSE ClientEnds("error")
    /\ UNCHANGED <<request, c2s, up, faults, cstatus, output, deps, server>>

ReadStatus ==
    /\ Reading("STAT")
    /\ \E r \in TakeReply :
          /\ s2c' = r.chan
          /\ IF r.tok THEN NextToken /\ cstatus' = r.body
                      ELSE ClientEnds("error") /\ UNCHANGED cstatus
    /\ UNCHANGED <<request, c2s, up, faults, output, deps, server>>

ReadMessages ==
    /\ Reading("SERR") \/ Reading("SOUT")
    /\ \E r \in TakeReply :
          /\ s2c' = r.chan
          /\ IF r.tok /\ r.body # "none" THEN NextToken ELSE ClientEnds("error")
    /\ UNCHANGED <<request, c2s, up, faults, cstatus, output, deps, server>>

(***************************************************************************)
(* dcc_add_file_to_log_email: the messages of the server cannot be copied  *)
(* to the log of the discrepancy e-mail, or the log was never opened.  The *)
(* caller then returns ret, which is 0: success, with the rest unread.     *)
(***************************************************************************)
LogFails ==
    /\ LogsErrors /\ Reading("SERR") /\ faults < MaxFaults
    /\ \E r \in TakeReply : r.tok /\ r.body # "none" /\ s2c' = r.chan
    /\ faults' = faults + 1
    /\ ClientEnds("ok")
    /\ UNCHANGED <<request, c2s, up, cstatus, output, deps, server>>

(***************************************************************************)
(* A failed compilation ends the exchange at the token of the object file. *)
(***************************************************************************)
ReadObject ==
    /\ Reading("DOTO")
    /\ \E r \in TakeReply :
          /\ s2c' = r.chan
          /\ \/ ~r.tok /\ ClientEnds("error") /\ UNCHANGED output
             \/ r.tok /\ cstatus # "ok" /\ ClientEnds("ok") /\ UNCHANGED output
             \/ /\ r.tok /\ cstatus = "ok"
                /\ output' = Stored(r.body, "DOTO")
                /\ IF r.body = "none" THEN ClientEnds("error")
                   ELSE IF CppOnServer THEN NextToken ELSE ClientEnds("ok")
    /\ UNCHANGED <<request, c2s, up, faults, cstatus, deps, server>>

(***************************************************************************)
(* ret is assigned the comparison of the result of dcc_r_token_int with 0: *)
(* when the token cannot be read, ret is 0 and so is the result.  The body *)
(* is read only if the client wants it.                                    *)
(***************************************************************************)
ReadDeps ==
    /\ Reading("DOTD")
    /\ \/ /\ wantDeps
          /\ \E r \in TakeReply :
                /\ s2c' = r.chan
                /\ deps' = IF r.tok THEN Stored(r.body, "DOTD") ELSE deps
                /\ ClientEnds(IF r.tok /\ r.body = "none" THEN "error" ELSE "ok")
       \/ /\ ~wantDeps /\ (s2c # <<>> \/ ~ServerOpen \/ ~up)
          /\ ClientEnds("ok") /\ UNCHANGED <<s2c, deps>>
    /\ UNCHANGED <<request, c2s, up, faults, cstatus, output, server>>

(***************************************************************************)
(* A result that cannot be stored (dcc_r_file, dcc_r_bulk); the socket of  *)
(* the client does not block, so a wait ends after DISTCC_IO_TIMEOUT.      *)
(***************************************************************************)
StoreFails ==
    /\ cpc = "recv" /\ cat > 2 /\ faults < MaxFaults
    /\ s2c # <<>> /\ Head(s2c).tok = Reply[cat]
    /\ Reply[cat] = "DOTO" => cstatus = "ok"
    /\ Reply[cat] = "DOTD" => wantDeps
    /\ faults' = faults + 1
    /\ output' = IF Reply[cat] = "DOTO" THEN "gone" ELSE output
    /\ deps' = IF Reply[cat] = "DOTD" THEN "gone" ELSE deps
    /\ ClientEnds("error")
    /\ UNCHANGED <<request, c2s, s2c, up, cstatus, server>>

\* Mutant: only the answer itself is waited for with a time limit.
ClientTimesOutLate ==
    /\ cpc = "recv" /\ cat > 1 /\ TakeReply = {}
    /\ ClientEnds("error")
    /\ UNCHANGED <<request, c2s, s2c, up, faults, cstatus, output, deps, server>>

ClientTimesOut ==
    /\ cpc = "recv" /\ TakeReply = {}
    /\ \/ Reply[cat] = "DOTD" /\ s2c = <<>> /\ ClientEnds("ok")
       \/ ~(Reply[cat] = "DOTD" /\ s2c = <<>>) /\ ClientEnds("error")
    /\ output' = IF Reply[cat] = "DOTO" /\ s2c # <<>> /\ cstatus = "ok" THEN "gone" ELSE output
    /\ deps' = IF Reply[cat] = "DOTD" /\ s2c # <<>> THEN "gone" ELSE deps
    /\ UNCHANGED <<request, c2s, s2c, up, faults, cstatus, server>>

-----------------------------------------------------------------------------
(***************************************************************************)
(* The server.  Whatever stops it before the compiler has run closes the   *)
(* connection without an answer.                                           *)
(***************************************************************************)
ServerEnds == spc' = "done" /\ UNCHANGED sat

Complete(r) == r.tok /\ r.body # "none"

\* What is to be compiled, once r is received.
Kept(r) == IF r.tok /\ r.body \in {"none", "mixed"} THEN "mixed"
           ELSE IF r.tok /\ sat = Len(Expects) /\ input = "none" THEN "whole"
           ELSE input

ReadRequest ==
    /\ spc = "recv"
    /\ \E r \in Take(c2s, ~ClientOpen \/ ~up, Expects[sat],
                     Expects[sat] = "FILE" \/ Compressed) :
          /\ c2s' = r.chan
          /\ input' = Kept(r)
          /\ IF ~Complete(r) THEN ServerEnds
             ELSE IF sat < Len(Expects) THEN sat' = sat + 1 /\ UNCHANGED spc
             ELSE spc' = "check" /\ sat' = 1
    /\ UNCHANGED <<request, s2c, up, faults, client, compiled, sret>>

(***************************************************************************)
(* A temporary file, a directory, a link or the working directory cannot   *)
(* be made, or a received file not be stored.                              *)
(***************************************************************************)
ServerFails ==
    /\ spc \in {"recv", "check"} /\ faults < MaxFaults
    /\ faults' = faults + 1 /\ ServerEnds
    /\ UNCHANGED <<request, c2s, s2c, up, client, input, compiled, sret>>

(***************************************************************************)
(* dcc_scan_args, dcc_remap_compiler, dcc_check_compiler_masq and          *)
(* dcc_spawn_child.  A compiler that cannot be started counts as one that  *)
(* failed.                                                                 *)
(***************************************************************************)
CheckCommand ==
    /\ spc = "check"
    /\ \/ ServerEnds /\ UNCHANGED compiled
       \/ spc' = "cc" /\ UNCHANGED <<sat, compiled>>
       \/ spc' = "reply" /\ compiled' = "fail" /\ UNCHANGED sat
    /\ UNCHANGED <<request, c2s, s2c, up, faults, client, input, sret>>

(***************************************************************************)
(* dcc_collect_child: the compiler exits by itself, or is killed because   *)
(* the job takes too long or, seen in the same loop, the client is gone.   *)
(***************************************************************************)
CollectCompiler ==
    /\ spc = "cc"
    /\ compiled' \in {"ok", "fail"}
    /\ spc' = "reply"
    /\ UNCHANGED <<request, c2s, s2c, up, faults, client, sat, input, sret>>

-----------------------------------------------------------------------------
Replying(tok) == spc = "reply" /\ Reply[sat] = tok

ServerSent(r) ==
    /\ s2c' = r.chan /\ faults' = faults + r.fault
    /\ sat' = sat + 1 /\ UNCHANGED spc

(***************************************************************************)
(* DONE, STAT, SERR and SOUT are one chain of calls: the first error, or   *)
(* the status of the compiler, leads to an empty object.                   *)
(***************************************************************************)
ObjectAt == 5

Chained(r) ==
    /\ s2c' = r.chan /\ faults' = faults + r.fault
    /\ sat' = IF r.ok THEN sat + 1 ELSE ObjectAt
    /\ sret' = IF r.ok THEN "ok" ELSE "error"
    /\ UNCHANGED spc

SendStatus ==
    /\ Replying("DONE") \/ Replying("STAT")
    /\ \E r \in Put(s2c, ClientOpen, Reply[sat],
                    IF Reply[sat] = "STAT" THEN compiled ELSE Reply[sat]) : Chained(r)
    /\ UNCHANGED <<request, c2s, up, client, input, compiled>>

SendMessages ==
    /\ Replying("SERR") \/ Replying("SOUT")
    /\ \E r \in PutFile(s2c, ClientOpen, Reply[sat], Compressed) : Chained(r)
    /\ UNCHANGED <<request, c2s, up, client, input, compiled>>

SendNoObject ==
    /\ Replying("DOTO") /\ (sret = "error" \/ compiled = "fail")
    /\ \E r \in Put(s2c, ClientOpen, "DOTO", "zero") : s2c' = r.chan
    /\ ServerEnds
    /\ UNCHANGED <<request, c2s, up, faults, client, input, compiled, sret>>

SendObject ==
    /\ Replying("DOTO") /\ sret = "ok" /\ compiled = "ok"
    /\ \E r \in PutFile(s2c, ClientOpen, "DOTO", Compressed) :
          IF r.ok /\ CppOnServer THEN ServerSent(r)
          ELSE s2c' = r.chan /\ faults' = faults + r.fault /\ ServerEnds
    /\ UNCHANGED <<request, c2s, up, client, input, compiled, sret>>

\* dcc_fix_debug_info or, before the .d file, dcc_cleanup_dotd fails.
CannotRewrite ==
    /\ CppOnServer /\ compiled = "ok" /\ sret = "ok" /\ faults < MaxFaults
    /\ Replying("DOTO") \/ (Replying("DOTD") /\ wantDeps)
    /\ faults' = faults + 1 /\ ServerEnds
    /\ UNCHANGED <<request, c2s, s2c, up, client, input, compiled, sret>>

(***************************************************************************)
(* The client expects the token of the .d file even if it wants none.      *)
(***************************************************************************)
SendDeps ==
    /\ Replying("DOTD")
    /\ \E r \in IF wantDeps THEN PutFile(s2c, ClientOpen, "DOTD", Compressed)
                            ELSE Put(s2c, ClientOpen, "DOTD", "zero") :
          s2c' = r.chan /\ faults' = faults + r.fault
    /\ ServerEnds
    /\ UNCHANGED <<request, c2s, up, client, input, compiled, sret>>

-----------------------------------------------------------------------------
(***************************************************************************)
(* The connection breaks: what is under way arrives in part or not at all. *)
(***************************************************************************)
NoBody == {"DIST", "NFIL", "DONE", "STAT", "*", "NOTE"}

PartsOf(chan) ==
    {SubSeq(chan, 1, n) : n \in 0..Len(chan)}
    \cup {[SubSeq(chan, 1, n) EXCEPT ![n].body = "short"] :
              n \in {m \in DOMAIN chan : chan[m].body \notin {"short", "zero"} /\ chan[m].tok \notin NoBody}}

Break ==
    /\ up /\ faults < MaxFaults
    /\ ClientOpen \/ ServerOpen
    /\ up' = FALSE /\ faults' = faults + 1
    /\ c2s' \in PartsOf(c2s) /\ s2c' \in PartsOf(s2c)
    /\ UNCHANGED <<request, client, server>>

ClientStep ==
    \/ SendToken \/ SendSource
    \/ ReadDone \/ ReadStatus \/ ReadMessages \/ ReadObject \/ ReadDeps
    \/ ClientTimesOut

ServerStep ==
    \/ ReadRequest \/ CheckCommand \/ CollectCompiler
    \/ SendStatus \/ SendMessages \/ SendNoObject \/ SendObject \/ SendDeps

ClientFailure == NoWorkingDirectory \/ LocalFailure \/ CppFails \/ LogFails \/ StoreFails

ServerFailure == ServerFails \/ CannotRewrite

Failure == ClientFailure \/ ServerFailure \/ Break

Finished ==
    /\ ~ClientOpen /\ ~ServerOpen
    /\ UNCHANGED vars

Next == ClientStep \/ ServerStep \/ Failure \/ Finished

\* Each end is a process that runs; nothing has to fail.
Fairness == WF_vars(ClientStep) /\ WF_vars(ServerStep)

Spec == Init /\ [][Next]_vars

FairSpec == Spec /\ Fairness

-----------------------------------------------------------------------------
(***************************************************************************)
(* The two ends agree on the script of every protocol: as long as nothing  *)
(* fails, each reads the token the other has sent, and the server starts   *)
(* the compiler with nothing left to read - dcc_collect_child reads the    *)
(* connection to see whether the client is gone, and would eat it.         *)
(***************************************************************************)
ScriptsAgree ==
    faults = 0 =>
        /\ spc = "recv" /\ c2s # <<>> => Head(c2s).tok = Expects[sat]
        /\ cpc = "recv" /\ s2c # <<>> => Head(s2c).tok = Reply[cat]
        /\ spc \in {"cc", "reply"} => c2s = <<>>

(***************************************************************************)
(* Both ends finish, also when each waits for the other (a short DOTI):    *)
(* the client gives up after its timeout and closes, which the server      *)
(* sees (dcc_readx, dcc_select_for_read).                                  *)
(***************************************************************************)
BothEnd == <>(~ClientOpen /\ ~ServerOpen)

(***************************************************************************)
(* The exchange implements what dcc_compile_remote promises: a status is   *)
(* that of the compiler, an object is whole, everything else is an error.  *)
(* The one exception is the answer "unread": success of the compiler,      *)
(* reported by a client that keeps a log of errors and could not write it  *)
(* (LogFails), with what follows the messages unread.                      *)
(***************************************************************************)
Answer == IF ClientOpen THEN "none"
          ELSE IF cret = "error" THEN "error"
          ELSE CASE cstatus = "ok" -> IF Reply[cat] = "SERR" THEN "unread" ELSE "object"
                 [] cstatus = "fail" -> "failed"
                 [] cstatus = "cpp" -> "cpp_failed"
                 [] OTHER -> cstatus    \* no status of a compiler

Delivered == IF ClientOpen THEN "old" ELSE output

Remote == INSTANCE DistccRemote WITH answer <- Answer, output <- Delivered

ImplementsRemote == Remote!Spec

=============================================================================
