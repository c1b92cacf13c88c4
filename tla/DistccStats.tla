---------------------------- MODULE DistccStats ----------------------------
(***************************************************************************)
(* The statistics server (stats.c): the parent of the pool reads what its  *)
(* children report through a pipe, and answers requests.  The server is a  *)
(* loop over what happens: a report, a request, or 60 seconds of nothing.  *)
(***************************************************************************)
EXTENDS Integers, FiniteSets, SequencesExt

Start == 90000            \* when the server starts, in seconds
Slots == 300
SlotOf(t) == t \div 3
DiskRate == 7             \* sectors per second, at all times

Kinds == {"accept", "rej_overload", "ok", "error", "timeout", "disconnect", "other"}

\* The jobs that tax the processor, successful or not.
Taxing == {"ok", "error", "timeout", "disconnect"}

Cleared ==
    [now |-> Start, counters |-> [k \in Kinds |-> 0], longest |-> [time |-> -1, name |-> "none"],
     jobs |-> <<>>, ring |-> [i \in 0 .. Slots - 1 |-> 0], slot |-> 0, total |-> 0, last |-> 0,
     kids |-> <<0, 0, 0>>, five |-> [i \in 1 .. 5 |-> 0], fifteen |-> [i \in 1 .. 15 |-> 0], kidsAt |-> 0,
     io |-> -1, disk |-> -1, ioAt |-> 0, report |-> <<>>,
     sampled |-> <<>>]    \* when averages were taken: the server does not keep it

\* dcc_stats_minutely_update
MinutelyUpdate(s) ==
    LET disk == DiskRate * s.now
    IN  IF s.ioAt + 50 >= s.now THEN s
        ELSE [s EXCEPT !.io = IF s.disk = -1 THEN -1 ELSE (disk - s.disk) \div (s.now - s.ioAt),
                       !.disk = disk, !.ioAt = s.now]

Mean(q) == FoldLeft(+, 0, q) \div Len(q)

\* The minute before the last, in which most jobs that ran have been reported.
MinuteMean(jobs, now) ==
    LET seconds(j) == Cardinality({t \in 60 .. 119 : j.start <= now - t /\ now - t <= j.stop})
    IN  FoldLeft(LAMBDA n, j : n + seconds(j), 0, jobs) \div 60

CalcKidAvg(s) ==
    LET one == MinuteMean(s.jobs, s.now)
        five == Append(Tail(s.five), one)
        fifteen == Append(Tail(s.fifteen), one)
    IN  IF s.now - 60 < s.kidsAt THEN s
        ELSE [s EXCEPT !.kids = <<one, Mean(five), Mean(fifteen)>>, !.five = five, !.fifteen = fifteen,
                       !.kidsAt = s.now, !.sampled = Append(@, s.now)]

\* The job is kept for the averages, and those older than two minutes dropped.
UpdateCompileTimes(s, job) ==
    [s EXCEPT !.longest = IF @.time < job.time THEN [time |-> job.time, name |-> job.name] ELSE @,
              !.jobs = SelectSeq(<<job>> \o @, LAMBDA j : j.stop >= s.now - 120)]

\* Mutant: the compile is counted in the slots it ends.
UpdateRunningTotalEarly(s, increment) ==
    LET cur == SlotOf(s.now) % Slots
        passed == {(s.slot + i) % Slots : i \in 0 .. ((cur - s.slot) % Slots) - 1}
    IN  [s EXCEPT !.ring = [i \in DOMAIN @ |->
                               IF s.last + 900 < s.now \/ i \in passed THEN s.total + increment ELSE @[i]],
                  !.slot = cur, !.total = @ + increment, !.last = s.now]

\* ring[i] is the total when slot i ended.
UpdateRunningTotal(s, increment) ==
    LET cur == SlotOf(s.now) % Slots
        passed == {(s.slot + i) % Slots : i \in 0 .. ((cur - s.slot) % Slots) - 1}
    IN  [s EXCEPT !.ring = [i \in DOMAIN @ |-> IF s.last + 900 < s.now \/ i \in passed THEN s.total ELSE @[i]],
                  !.slot = cur, !.total = @ + increment, !.last = s.now]

CompileTotals(s) ==
    LET since(n) == s.ring[(s.slot + 299) % Slots] - s.ring[(s.slot + n) % Slots]
    IN  <<since(280), since(200), since(1)>>

ServiceRequest(s) ==
    LET t == UpdateRunningTotal(MinutelyUpdate(s), 0)
    IN  [t EXCEPT !.report = [at |-> t.now, counters |-> t.counters, longest |-> t.longest, kids |-> t.kids,
                                  kidsAt |-> t.kidsAt, io |-> t.io, compiles |-> CompileTotals(t)]]

\* dcc_stats_process
Process(s, e) ==
    LET timed == IF e.kind = "ok"
                 THEN UpdateCompileTimes(s, [time |-> e.time, name |-> e.name, start |-> s.now - e.time, stop |-> s.now])
                 ELSE s
        counted == IF e.kind \in Taxing THEN UpdateRunningTotal(timed, 1) ELSE timed
    IN  [counted EXCEPT !.counters[e.kind] = @ + 1]

\* One round of dcc_stats_server: select returns after at most 60 seconds.
Round(s) == CalcKidAvg(MinutelyUpdate(s))

Happens(s, e) ==
    LET idle == FoldLeft(LAMBDA t, i : Round([t EXCEPT !.now = @ + 60]), s, [i \in 1 .. e.wait \div 60 |-> i])
        ready == [idle EXCEPT !.now = @ + (e.wait % 60)]
    IN  Round(IF e.kind = "request" THEN ServiceRequest(ready) ELSE Process(ready, e))

-----------------------------------------------------------------------------
CONSTANTS
    StatsEvents,  \* what may happen: its kind, after how long, and of what job
    Histories,    \* how a behaviour may begin
    MaxStats      \* bound on the events that follow

VARIABLES
    server,       \* the state of the server
    events        \* all that has happened, and when

StatsVars == <<server, events>>

Bounded(met) ==
    \E past \in Histories :
        \/ IsPrefix(met, past)
        \/ IsPrefix(past, met) /\ Len(met) <= Len(past) + MaxStats

StatsInit == server = Round(Cleared) /\ events = <<>>

Meet(e) ==
    /\ events' = Append(events, [e EXCEPT !.at = server.now + e.wait])
    /\ Bounded(events')
    /\ server' = Happens(server, e)

StatsNext == \E e \in StatsEvents : Meet(e)

StatsSpec == StatsInit /\ [][StatsNext]_StatsVars

-----------------------------------------------------------------------------
(* What a report should say, from the events themselves.                   *)

Were(kinds) == {i \in DOMAIN events : events[i].kind \in kinds}

\* A ring that is not looked at for just as long as it lasts is not renewed.
RingStale ==
    LET looks == SelectSeq(events, LAMBDA e : e.kind \in Taxing \cup {"request"})
    IN  \E i \in 2 .. Len(looks) :
            /\ SlotOf(looks[i].at) - SlotOf(looks[i - 1].at) = Slots
            /\ looks[i].at - looks[i - 1].at <= 900

\* How many seconds of that minute a job ran, if it has ended by then.
Seconds(job, time) ==
    IF job.at > time THEN 0
    ELSE Cardinality(Max({time - 119, job.at - job.time}) .. Min({time - 60, job.at}))

ExactMinute(time) == SumFunction([i \in Were({"ok"}) |-> Seconds(events[i], time)]) \div 60

\* The mean of the last n of those minutes; there is nothing before the first.
ExactMean(times, n) ==
    SumFunction([i \in {j \in DOMAIN times : j > Len(times) - n} |-> ExactMinute(times[i])]) \div n

Requested == events # <<>> /\ Last(events).kind = "request"

\* Compiles that ended in the n slots before the present one.
CompilesInSlots(n) ==
    Cardinality({i \in Were(Taxing) : SlotOf(Last(events).at) - SlotOf(events[i].at) \in 1 .. n})

(***************************************************************************)
(* A report is true: the jobs of each outcome, the longest of them, how    *)
(* many ran on average in the minute before last (none forgotten that      *)
(* falls into it), the means of the last five and fifteen such minutes,    *)
(* each from one to two minutes after the one before, and how many         *)
(* compiles ended in the 19, 99 and 298 slots of three seconds before the  *)
(* present one: whatever time lies between the reports and the requests.   *)
(* Those slots are 57, 297 and 894 seconds, not the one, five and fifteen  *)
(* minutes that the comments at stats.c:261 and 301 promise.               *)
(***************************************************************************)
ReportTrue ==
    LET report == server.report
        times == SelectSeq(server.sampled, LAMBDA t : t <= report.kidsAt)
        jobs == Were({"ok"})
    IN  Requested =>
        /\ report.at = Last(events).at
        /\ \A k \in Kinds : report.counters[k] = Cardinality(Were({k}))
        /\ IF jobs = {} THEN report.longest.name = "none"
           ELSE \E i \in jobs : /\ report.longest = [time |-> events[i].time, name |-> events[i].name]
                                /\ \A j \in jobs : events[j].time <= events[i].time
        /\ times # <<>> /\ Last(times) = report.kidsAt /\ report.kidsAt > report.at - 120
        /\ \A i \in 1 .. Len(times) - 1 : times[i + 1] - times[i] \in 60 .. 119
        /\ \A i \in 1 .. 3 : report.kids[i] = ExactMean(times, <<1, 5, 15>>[i])
        /\ report.io \in {-1, DiskRate}
        /\ RingStale \/ \A i \in 1 .. 3 : report.compiles[i] = CompilesInSlots(<<19, 99, 298>>[i])
=============================================================================
