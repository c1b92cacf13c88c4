-------------------------- MODULE DistccdPoolProofs -------------------------
(***************************************************************************)
(* Proofs about DistccdPool, for any number of children, requests, seconds *)
(* and signals: what a child has registered and has on the disk follows    *)
(* from its place in the script, however far it gets; and the master's     *)
(* count of its children is exact. About DistccdStart, for any command     *)
(* line: what serves is what was asked for.                                *)
(***************************************************************************)
EXTENDS DistccdPool, DistccdStart, FiniteSetTheorems, SequenceTheorems, TLAPS

----------------------------------------------------------------------------
(* The inductive invariant.                                                *)

\* The steps of a job that make something are its first ones.
Makes(j) == IF j = "plain" THEN 2 ELSE 3

\* A child has registered what the steps before its own have made, in order.
ListKnown(k) ==
    /\ Len(list[k]) = IF at[k] <= Makes(job[k]) THEN at[k] - 1 ELSE Makes(job[k])
    /\ \A i \in 1..Len(list[k]) : list[k][i] = Script[job[k]][i].kind

\* A file of a child that is busy is registered, or is being made.
FilesKnown(k) ==
    \A x \in Kinds : File(k, x) \in disk =>
        \/ \E i \in 1..Len(list[k]) : list[k][i] = x
        \/ half[k] /\ Step(k).kind = x

KidInv(k) ==
    /\ ~Alive(k) => job[k] = "none"
    /\ job[k] = "none" => at[k] = 1 /\ ~half[k] /\ ~cc[k] /\ list[k] = <<>>
    /\ job[k] # "none" => /\ served[k] < Lifetime
                          /\ ListKnown(k)
                          /\ FilesKnown(k)
    /\ half[k] => Step(k).op \in {"make", "file"}
    /\ cc[k] => Step(k).op = "cc"

PoolInv ==
    /\ TypeOK
    /\ NkidsExact
    /\ \A k \in Kids : KidInv(k)

----------------------------------------------------------------------------
(* The script.                                                             *)

LEMMA JobNames == Jobs = {"plain", "pump"}
BY DEF Jobs, Script

LEMMA PlainSteps ==
    /\ Script["plain"][1].op = "make" /\ Script["plain"][1].kind = "object"
    /\ Script["plain"][2].op = "make" /\ Script["plain"][2].kind = "input"
    /\ Script["plain"][3].op = "recv" /\ Script["plain"][3].kind = "input"
    /\ Script["plain"][4].op = "cc" /\ Script["plain"][4].kind = "object"
    /\ Script["plain"][5].op = "send" /\ Script["plain"][5].kind = "object"
BY DEF Script

LEMMA PumpSteps ==
    /\ Script["pump"][1].op = "make" /\ Script["pump"][1].kind = "dir"
    /\ Script["pump"][2].op = "make" /\ Script["pump"][2].kind = "object"
    /\ Script["pump"][3].op = "file" /\ Script["pump"][3].kind = "input"
    /\ Script["pump"][4].op = "cc" /\ Script["pump"][4].kind = "object"
    /\ Script["pump"][5].op = "send" /\ Script["pump"][5].kind = "object"
BY DEF Script

\* What a step does is known from its place.
LEMMA StepFacts ==
    ASSUME TypeOK, NEW k \in Kids, job[k] # "none"
    PROVE  /\ job[k] \in {"plain", "pump"} /\ at[k] \in 1..5
           /\ Step(k).kind \in Kinds
           /\ Step(k).op \in {"make", "file"} <=> at[k] <= Makes(job[k])
           /\ Step(k).op = "file" <=> job[k] = "pump" /\ at[k] = 3
           /\ Step(k).op = "recv" <=> job[k] = "plain" /\ at[k] = 3
           /\ Step(k).op = "cc" <=> at[k] = 4
           /\ Step(k).op = "send" <=> at[k] = 5
           /\ Step(k).kind = Script[job[k]][at[k]].kind
<1>1. job[k] \in {"plain", "pump"} /\ at[k] \in 1..5
  BY JobNames DEF TypeOK
<1>2. CASE job[k] = "plain"
  BY <1>1, <1>2, PlainSteps DEF Step, Makes, Kinds
<1>3. CASE job[k] = "pump"
  BY <1>1, <1>3, PumpSteps DEF Step, Makes, Kinds
<1> QED BY <1>1, <1>2, <1>3

LEMMA FileNames ==
    ASSUME NEW o, NEW p, NEW x, NEW y, File(o, x) = File(p, y)
    PROVE  o = p /\ x = y
BY DEF File

----------------------------------------------------------------------------
(* A step of the child k leaves the other children alone.                  *)

Same(j) ==
    /\ kid'[j] = kid[j] /\ job'[j] = job[j] /\ at'[j] = at[j]
    /\ half'[j] = half[j] /\ list'[j] = list[j] /\ served'[j] = served[j]
    /\ cc'[j] = cc[j]
    /\ \A x \in Kinds : File(j, x) \in disk' => File(j, x) \in disk

LEMMA SameKept ==
    ASSUME NEW j \in Kids, KidInv(j), Same(j)
    PROVE  KidInv(j)'
<1>1. Step(j)' = Step(j)
  BY DEF Same, Step
<1>2. ListKnown(j) => ListKnown(j)'
  BY DEF Same, ListKnown
<1>3. FilesKnown(j) => FilesKnown(j)'
  BY <1>1 DEF Same, FilesKnown
<1> QED BY <1>1, <1>2, <1>3 DEF Same, KidInv, Alive

Does(k) ==
    /\ TypeOK' /\ KidInv(k)'
    /\ \A j \in Kids \ {k} : Same(j)

LEMMA AcceptDoes ==
    ASSUME PoolInv, NEW k \in Kids, Accept(k)
    PROVE  Does(k)
<1> USE DEF PoolInv, Accept, Idle, outside, masterVars
<1>1. PICK j \in Jobs : job' = [job EXCEPT ![k] = j]
  OBVIOUS
<1>2. TypeOK'
  BY <1>1, JobNames DEF TypeOK
<1>3. at[k] = 1 /\ ~half[k] /\ ~cc[k] /\ list[k] = <<>> /\ job'[k] = j /\ j # "none"
  BY <1>1, JobNames DEF KidInv, TypeOK
<1>4. ListKnown(k)'
  BY <1>3 DEF ListKnown, Makes
<1>5. FilesKnown(k)'
  BY DEF FilesKnown, FilesOf, File
<1>6. KidInv(k)'
  BY <1>3, <1>4, <1>5 DEF KidInv, Alive
<1>7. ASSUME NEW i \in Kids \ {k} PROVE Same(i)
  BY <1>1, <1>7 DEF Same, FilesOf, TypeOK
<1> QED BY <1>2, <1>6, <1>7 DEF Does

LEMMA RefuseDoes ==
    ASSUME PoolInv, NEW k \in Kids, Refuse(k)
    PROVE  Does(k)
<1> USE DEF PoolInv, Refuse, Idle, outside, masterVars
<1>1. TypeOK'
  BY PoolAssumption, SMTT(30) DEF TypeOK
<1>2. KidInv(k)'
  BY DEF KidInv, Alive, TypeOK
<1>3. ASSUME NEW i \in Kids \ {k} PROVE Same(i)
  BY <1>3 DEF Same, TypeOK
<1> QED BY <1>1, <1>2, <1>3 DEF Does

LEMMA CreateDoes ==
    ASSUME PoolInv, NEW k \in Kids, Create(k)
    PROVE  Does(k)
<1> USE DEF PoolInv, Create, Doing, Busy, outside, masterVars
<1>1. TypeOK'
  <2>1. File(k, Step(k).kind) \in {File(o, x) : o \in Kids, x \in Kinds}
    BY StepFacts
  <2> QED BY <2>1 DEF TypeOK
<1>2. half'[k] /\ Step(k)' = Step(k)
  BY DEF TypeOK, Step
<1>3. ListKnown(k)' /\ FilesKnown(k)'
  <2>1. ListKnown(k)'
    BY DEF KidInv, ListKnown
  <2>2. FilesKnown(k)'
    BY <1>2, FileNames DEF KidInv, FilesKnown
  <2> QED BY <2>1, <2>2
<1>4. KidInv(k)'
  BY <1>2, <1>3 DEF KidInv, Alive
<1>5. ASSUME NEW i \in Kids \ {k} PROVE Same(i)
  BY <1>5, FileNames DEF Same, TypeOK
<1> QED BY <1>1, <1>4, <1>5 DEF Does

LEMMA KindsSize == IsFiniteSet(Kinds) /\ Cardinality(Kinds) = 3
<1>1. IsFiniteSet({"dir"}) /\ Cardinality({"dir"}) = 1
  BY FS_Singleton
<1>2. IsFiniteSet({"dir"} \cup {"object"}) /\ Cardinality({"dir"} \cup {"object"}) = 2
  BY <1>1, FS_AddElement
<1>3. /\ IsFiniteSet(({"dir"} \cup {"object"}) \cup {"input"})
      /\ Cardinality(({"dir"} \cup {"object"}) \cup {"input"}) = 3
  BY <1>2, FS_AddElement
<1>4. Kinds = ({"dir"} \cup {"object"}) \cup {"input"}
  BY DEF Kinds
<1> QED BY <1>3, <1>4

LEMMA RegisterDoes ==
    ASSUME PoolInv, NEW k \in Kids, Register(k)
    PROVE  Does(k)
<1> USE DEF PoolInv, Register, Doing, Busy, Advance, outside, masterVars
<1>1. /\ job[k] # "none" /\ at[k] <= Makes(job[k]) /\ at[k] \in 1..3
      /\ Step(k).kind \in Kinds /\ Step(k).kind = Script[job[k]][at[k]].kind
  BY StepFacts DEF Makes
<1>2. list[k] \in Seq(Kinds) /\ Len(list[k]) = at[k] - 1
  BY <1>1 DEF KidInv, ListKnown, TypeOK
<1>3. /\ list' = [list EXCEPT ![k] = Append(list[k], Step(k).kind)]
      /\ at' = [at EXCEPT ![k] = at[k] + 1]
  OBVIOUS
<1>4. /\ Append(list[k], Step(k).kind) \in Seq(Kinds)
      /\ Len(Append(list[k], Step(k).kind)) = at[k]
      /\ \A i \in 1..(at[k] - 1) : Append(list[k], Step(k).kind)[i] = list[k][i]
      /\ Append(list[k], Step(k).kind)[at[k]] = Step(k).kind
  BY <1>1, <1>2
<1>5. /\ list'[k] = Append(list[k], Step(k).kind) /\ at'[k] = at[k] + 1
      /\ \A i \in Kids \ {k} : list'[i] = list[i] /\ at'[i] = at[i]
  BY <1>3 DEF TypeOK
<1>6. TypeOK'
  <2>1. \A i \in Kids : list'[i] \in Seq(Kinds) /\ Len(list'[i]) <= Cardinality(Kinds)
    BY <1>1, <1>4, <1>5, KindsSize DEF TypeOK
  <2>2. DOMAIN list' = Kids /\ at' \in [Kids -> 1..5]
    BY <1>1, <1>3 DEF TypeOK
  <2> QED BY <2>1, <2>2 DEF TypeOK
<1>7. ListKnown(k)'
  BY <1>1, <1>2, <1>4, <1>5 DEF ListKnown, KidInv, Makes
<1>8. FilesKnown(k)'
  BY <1>1, <1>2, <1>4, <1>5 DEF FilesKnown, KidInv
<1>9. KidInv(k)'
  <2>1. cc[k] = FALSE
    BY <1>1, StepFacts, SMTT(30) DEF KidInv, TypeOK
  <2> QED BY <1>1, <1>7, <1>8, <2>1 DEF KidInv, Alive, TypeOK
<1>10. ASSUME NEW i \in Kids \ {k} PROVE Same(i)
  BY <1>5, <1>10 DEF Same, TypeOK
<1> QED BY <1>6, <1>9, <1>10 DEF Does

\* A step to the next place in the script, with nothing made.
LEMMA NextPlace ==
    ASSUME PoolInv, NEW k \in Kids, Busy(k), Advance(k), Step(k).op \in {"recv", "cc"},
           UNCHANGED <<kid, job, half, served, list, disk>>, cc'[k] = FALSE
    PROVE  KidInv(k)' /\ at' \in [Kids -> 1..5]
<1> USE DEF PoolInv, Busy, Advance
<1>1. job[k] # "none" /\ at[k] > Makes(job[k]) /\ at[k] \in 1..4
  BY StepFacts DEF Makes
<1>2. at'[k] = at[k] + 1 /\ ~half[k]
  BY <1>1, StepFacts DEF KidInv, TypeOK
<1>3. ListKnown(k)'
  BY <1>1, <1>2 DEF ListKnown, KidInv, Makes
<1>4. FilesKnown(k)'
  BY <1>1, <1>2 DEF FilesKnown, KidInv
<1>5. at' \in [Kids -> 1..5]
  BY <1>1 DEF TypeOK
<1> QED BY <1>1, <1>2, <1>3, <1>4, <1>5 DEF KidInv, Alive

LEMMA ReceivedDoes ==
    ASSUME PoolInv, NEW k \in Kids, Received(k)
    PROVE  Does(k)
<1> USE DEF Received, Doing, outside, masterVars
<1>1. ~cc[k] /\ cc'[k] = cc[k] /\ cc[k] \in BOOLEAN
  BY StepFacts DEF PoolInv, KidInv, Busy, TypeOK
<1>2. KidInv(k)' /\ at' \in [Kids -> 1..5]
  <2>1. cc'[k] = FALSE
    BY <1>1
  <2> QED BY <2>1, NextPlace
<1>3. TypeOK'
  BY <1>2 DEF PoolInv, TypeOK
<1>4. ASSUME NEW i \in Kids \ {k} PROVE Same(i)
  BY <1>4 DEF Same, PoolInv, TypeOK, Advance
<1> QED BY <1>2, <1>3, <1>4 DEF Does

LEMMA SpawnDoes ==
    ASSUME PoolInv, NEW k \in Kids, Spawn(k)
    PROVE  Does(k)
<1> USE DEF Spawn, Doing, outside, masterVars
<1>1. CASE cc' = [cc EXCEPT ![k] = TRUE] /\ UNCHANGED at
  <2>1. TypeOK'
    BY <1>1 DEF PoolInv, TypeOK
  <2>2. Step(k)' = Step(k) /\ ListKnown(k)' = ListKnown(k) /\ FilesKnown(k)' = FilesKnown(k)
    BY <1>1 DEF Step, ListKnown, FilesKnown
  <2>3. KidInv(k)'
    BY <1>1, <2>2 DEF PoolInv, TypeOK, KidInv, Alive, Busy
  <2>4. ASSUME NEW i \in Kids \ {k} PROVE Same(i)
    BY <1>1, <2>4 DEF Same, PoolInv, TypeOK
  <2> QED BY <2>1, <2>3, <2>4 DEF Does
<1>2. CASE Advance(k) /\ UNCHANGED cc
  <2>0. ~cc[k] /\ cc'[k] = cc[k] /\ cc[k] \in BOOLEAN
    BY <1>2 DEF PoolInv, TypeOK
  <2>1. KidInv(k)' /\ at' \in [Kids -> 1..5]
    <3>1. cc'[k] = FALSE
      BY <2>0
    <3> QED BY <1>2, <3>1, NextPlace
  <2>2. TypeOK'
    BY <1>2, <2>1 DEF PoolInv, TypeOK
  <2>3. ASSUME NEW i \in Kids \ {k} PROVE Same(i)
    BY <1>2, <2>3 DEF Same, PoolInv, TypeOK, Advance
  <2> QED BY <2>1, <2>2, <2>3 DEF Does
<1> QED BY <1>1, <1>2

\* The compiler ends, or nobody waits for it any longer.
LEMMA CollectedDoes ==
    ASSUME PoolInv, NEW k \in Kids, Doing(k, "cc"), Collected(k), pidFile' \in BOOLEAN
    PROVE  Does(k)
<1> USE DEF Collected, Doing, outside, masterVars
<1>1. cc'[k] = FALSE
  BY DEF PoolInv, TypeOK
<1>2. KidInv(k)' /\ at' \in [Kids -> 1..5]
  BY <1>1, NextPlace
<1>3. waited' \in [Kids -> 0..(JobLifetime + 1)] /\ cc' \in [Kids -> BOOLEAN]
  BY PoolAssumption DEF PoolInv, TypeOK
<1>4. TypeOK'
  BY <1>2, <1>3 DEF PoolInv, TypeOK
<1>5. ASSUME NEW i \in Kids \ {k} PROVE Same(i)
  BY <1>5 DEF Same, PoolInv, TypeOK, Advance
<1> QED BY <1>2, <1>4, <1>5 DEF Does

\* A child that has given up its job has nothing of it but files on the disk.
LEMMA FreshKid ==
    ASSUME PoolInv, NEW k \in Kids, Fresh(k), list' = [list EXCEPT ![k] = <<>>]
    PROVE  /\ KidInv(k)'
           /\ job' \in [Kids -> Jobs \cup {"none"}] /\ at' \in [Kids -> 1..5]
           /\ half' \in [Kids -> BOOLEAN] /\ cc' \in [Kids -> BOOLEAN]
           /\ age' \in [Kids -> 0..AlarmAt] /\ waited' \in [Kids -> 0..(JobLifetime + 1)]
           /\ DOMAIN list' = Kids
           /\ \A i \in Kids : list'[i] \in Seq(Kinds) /\ Len(list'[i]) <= Cardinality(Kinds)
<1>1. TypeOK
  BY DEF PoolInv
<1>2. job'[k] = "none" /\ at'[k] = 1 /\ ~half'[k] /\ ~cc'[k] /\ list'[k] = <<>>
  BY <1>1 DEF TypeOK, Fresh
<1>3. KidInv(k)'
  BY <1>2 DEF KidInv, Alive
<1>4. AlarmAt \in Nat /\ JobLifetime \in Nat
  BY PoolAssumption DEF AlarmAt
<1>5. <<>> \in Seq(Kinds) /\ Len(<<>>) <= Cardinality(Kinds)
  BY KindsSize
<1>6. DOMAIN list' = Kids /\ \A i \in Kids : list'[i] = IF i = k THEN <<>> ELSE list[i]
  BY <1>1 DEF TypeOK
<1>7. \A i \in Kids : list'[i] \in Seq(Kinds) /\ Len(list'[i]) <= Cardinality(Kinds)
  BY <1>1, <1>5, <1>6 DEF TypeOK
<1>8. job' \in [Kids -> Jobs \cup {"none"}] /\ at' \in [Kids -> 1..5]
  BY <1>1, SMTT(30) DEF TypeOK, Fresh
<1>9. half' \in [Kids -> BOOLEAN] /\ cc' \in [Kids -> BOOLEAN]
  BY <1>1 DEF TypeOK, Fresh
<1>10. age' \in [Kids -> 0..AlarmAt] /\ waited' \in [Kids -> 0..(JobLifetime + 1)]
  BY <1>1, <1>4 DEF TypeOK, Fresh
<1> QED BY <1>3, <1>6, <1>7, <1>8, <1>9, <1>10

LEMMA JobEndsDoes ==
    ASSUME PoolInv, NEW k \in Kids, JobEnds(k)
    PROVE  Does(k)
<1>1. /\ KidInv(k)'
      /\ job' \in [Kids -> Jobs \cup {"none"}] /\ at' \in [Kids -> 1..5]
      /\ half' \in [Kids -> BOOLEAN] /\ cc' \in [Kids -> BOOLEAN]
      /\ age' \in [Kids -> 0..AlarmAt] /\ waited' \in [Kids -> 0..(JobLifetime + 1)]
      /\ DOMAIN list' = Kids
      /\ \A i \in Kids : list'[i] \in Seq(Kinds) /\ Len(list'[i]) <= Cardinality(Kinds)
  BY FreshKid DEF JobEnds, Cleanup
<1>2. disk' \subseteq disk
  BY DEF JobEnds, Cleanup, Unlinked
<1>3. served' \in [Kids -> 0..Lifetime]
  BY PoolAssumption, SMTT(30) DEF PoolInv, TypeOK, KidInv, Busy, JobEnds
<1>4. TypeOK'
  <2>1. UNCHANGED <<stats, signals, master, nkids, kid, pending, pidFile>>
    BY DEF JobEnds, outside, masterVars
  <2> QED BY <1>1, <1>2, <1>3, <2>1, SMTT(30) DEF PoolInv, TypeOK
<1>5. ASSUME NEW i \in Kids \ {k} PROVE Same(i)
  <2>1. kid'[i] = kid[i] /\ served'[i] = served[i] /\ list'[i] = list[i]
    BY <1>5 DEF PoolInv, TypeOK, JobEnds, Cleanup
  <2>2. job'[i] = job[i] /\ at'[i] = at[i] /\ half'[i] = half[i] /\ cc'[i] = cc[i]
    BY <1>5 DEF PoolInv, TypeOK, Fresh, JobEnds
  <2> QED BY <1>2, <2>1, <2>2 DEF Same
<1> QED BY <1>1, <1>4, <1>5 DEF Does

LEMMA KidExitsDoes ==
    ASSUME PoolInv, NEW k \in Kids, KidExits(k)
    PROVE  Does(k)
<1> USE DEF KidExits, Leaves, AtExit, Idle, outside, masterVars
<1>1. kid' \in [Kids -> {"none", "alive", "zombie"}] /\ served' \in [Kids -> 0..Lifetime]
  BY PoolAssumption DEF PoolInv, TypeOK
<1>2. TypeOK'
  BY <1>1 DEF PoolInv, TypeOK
<1>3. KidInv(k)'
  BY DEF PoolInv, KidInv, Alive
<1>4. ASSUME NEW i \in Kids \ {k} PROVE Same(i)
  BY <1>4 DEF Same, PoolInv, TypeOK
<1> QED BY <1>2, <1>3, <1>4 DEF Does

LEMMA KidDiesDoes ==
    ASSUME PoolInv, NEW k \in Kids, KidDies(k)
    PROVE  Does(k)
<1>1. /\ KidInv(k)'
      /\ job' \in [Kids -> Jobs \cup {"none"}] /\ at' \in [Kids -> 1..5]
      /\ half' \in [Kids -> BOOLEAN] /\ cc' \in [Kids -> BOOLEAN]
      /\ age' \in [Kids -> 0..AlarmAt] /\ waited' \in [Kids -> 0..(JobLifetime + 1)]
      /\ DOMAIN list' = Kids
      /\ \A i \in Kids : list'[i] \in Seq(Kinds) /\ Len(list'[i]) <= Cardinality(Kinds)
  BY FreshKid DEF KidDies, Cleanup
<1>2. disk' \subseteq disk
  BY DEF KidDies, Cleanup, Unlinked
<1>3. /\ kid' \in [Kids -> {"none", "alive", "zombie"}] /\ served' \in [Kids -> 0..Lifetime]
      /\ pending' \in [Kids -> BOOLEAN]
  BY PoolAssumption DEF PoolInv, TypeOK, KidDies, Leaves
<1>4. TypeOK'
  <2>1. UNCHANGED <<stats, signals, master, nkids, pidFile>>
    BY DEF KidDies, outside, masterVars
  <2> QED BY <1>1, <1>2, <1>3, <2>1 DEF PoolInv, TypeOK
<1>5. ASSUME NEW i \in Kids \ {k} PROVE Same(i)
  <2>1. kid'[i] = kid[i] /\ served'[i] = served[i] /\ list'[i] = list[i]
    BY <1>5 DEF PoolInv, TypeOK, KidDies, Leaves, Cleanup
  <2>2. job'[i] = job[i] /\ at'[i] = at[i] /\ half'[i] = half[i] /\ cc'[i] = cc[i]
    BY <1>5 DEF PoolInv, TypeOK, Fresh, KidDies
  <2> QED BY <1>2, <2>1, <2>2 DEF Same
<1> QED BY <1>1, <1>4, <1>5 DEF Does

\* Time passes, or a signal is sent.
LEMMA PassesDoes ==
    ASSUME PoolInv, NEW k \in Kids, Passes(k) \/ SignalKid(k)
    PROVE  Does(k)
<1>1. UNCHANGED <<kid, job, at, half, served, cc, list, disk, stats, master, nkids, pidFile>>
  BY DEF Passes, Tick, Alarm, SignalKid, outside, masterVars, jobVars
<1>2. age' \in [Kids -> 0..AlarmAt] /\ waited' \in [Kids -> 0..(JobLifetime + 1)]
  <2>1. CASE Tick(k)
    <3>1. age[k] + 1 \in 0..AlarmAt /\ waited[k] + 1 \in 0..(JobLifetime + 1)
      BY <2>1, PoolAssumption, SMTT(30) DEF PoolInv, TypeOK, AlarmAt, Tick
    <3>2. age' = [age EXCEPT ![k] = age[k] + 1]
      BY <2>1 DEF Tick
    <3>3. waited' = [waited EXCEPT ![k] = waited[k] + 1] \/ waited' = waited
      BY <2>1 DEF Tick
    <3> QED BY <3>1, <3>2, <3>3, SMTT(30) DEF PoolInv, TypeOK
  <2>2. CASE UNCHANGED <<age, waited>>
    BY <2>2 DEF PoolInv, TypeOK
  <2>3. Alarm(k) \/ SignalKid(k) => UNCHANGED <<age, waited>>
    BY DEF Alarm, SignalKid, jobVars
  <2> QED BY <2>1, <2>2, <2>3 DEF Passes
<1>3. pending' \in [Kids -> BOOLEAN] /\ signals' \in 0..MaxSignals
  <2>1. pending' = pending \/ pending' = [pending EXCEPT ![k] = TRUE]
    BY DEF Passes, Tick, Alarm, SignalKid
  <2>2. signals' = signals \/ (signals < MaxSignals /\ signals' = signals + 1)
    BY DEF Passes, Tick, Alarm, SignalKid, outside
  <2>3. pending' \in [Kids -> BOOLEAN]
    <3>1. pending \in [Kids -> BOOLEAN]
      BY DEF PoolInv, TypeOK
    <3> QED BY <2>1, <3>1
  <2>4. signals' \in 0..MaxSignals
    BY <2>2, PoolAssumption, SMTT(30) DEF PoolInv, TypeOK
  <2> QED BY <2>3, <2>4
<1>4. TypeOK'
  BY <1>1, <1>2, <1>3 DEF PoolInv, TypeOK
<1>5. \A i \in Kids : Same(i)
  BY <1>1 DEF Same
<1> QED BY <1>4, <1>5, SameKept DEF Does, PoolInv

----------------------------------------------------------------------------
(* The master's count.                                                     *)

Started == {k \in Kids : kid[k] # "none"}

LEMMA StartedFinite ==
    IsFiniteSet(Started) /\ Cardinality(Started) \in 0..MaxKids /\ MaxKids \in Nat
<1>1. Started \subseteq Kids
  BY DEF Started
<1> QED BY <1>1, PoolAssumption, FS_Subset, FS_CardinalityType DEF MaxKids

LEMMA OneStarted ==
    ASSUME NEW k \in Kids, kid[k] = "none", kid' = [kid EXCEPT ![k] = "alive"], TypeOK
    PROVE  Cardinality(Started') = Cardinality(Started) + 1
<1>1. Started' = Started \cup {k} /\ k \notin Started
  BY DEF Started, TypeOK
<1> QED BY <1>1, StartedFinite, FS_AddElement

LEMMA OneReaped ==
    ASSUME NEW k \in Kids, kid[k] = "zombie", kid' = [kid EXCEPT ![k] = "none"], TypeOK
    PROVE  /\ Cardinality(Started') = Cardinality(Started) - 1
           /\ Cardinality(Started) \in Nat /\ Cardinality(Started) >= 1
<1>1. Started' = Started \ {k} /\ k \in Started
  BY DEF Started, TypeOK
<1>2. Cardinality(Started) >= 1
  <2>1. Cardinality(Started) # 0
    BY <1>1, StartedFinite, FS_EmptySet
  <2> QED BY <2>1, StartedFinite
<1> QED BY <1>1, <1>2, StartedFinite, FS_RemoveElement, SMTT(30)

\* What the master does to the children is seen in kid alone, or by nobody.
LEMMA MasterKept ==
    ASSUME PoolInv, UNCHANGED <<jobVars, disk>>,
           \A k \in Kids : job[k] # "none" => kid'[k] = kid[k]
    PROVE  \A k \in Kids : KidInv(k)'
<1> SUFFICES ASSUME NEW k \in Kids
             PROVE  KidInv(k)'
  OBVIOUS
<1>1. UNCHANGED <<job, at, half, served, cc, list, disk>>
  BY DEF jobVars
<1>2. KidInv(k)
  BY DEF PoolInv
<1>3. Step(k)' = Step(k) /\ ListKnown(k)' = ListKnown(k) /\ FilesKnown(k)' = FilesKnown(k)
  BY <1>1 DEF Step, ListKnown, FilesKnown
<1> QED BY <1>1, <1>2, <1>3 DEF KidInv, Alive

LEMMA ForkKeeps ==
    ASSUME PoolInv, NEW k \in Kids, Fork(k)
    PROVE  PoolInv'
<1>1. TypeOK /\ NkidsExact
  BY DEF PoolInv
<1>2. TypeOK'
  <2>1. nkids' \in 0..MaxKids
    BY <1>1, StartedFinite DEF TypeOK, Fork
  <2>2. kid' \in [Kids -> {"none", "alive", "zombie"}]
    BY <1>1 DEF TypeOK, Fork
  <2> QED BY <1>1, <2>1, <2>2 DEF TypeOK, Fork, outside, jobVars
<1>3. NkidsExact'
  BY <1>1, OneStarted DEF NkidsExact, Fork, Started, MasterRuns
<1>4. \A i \in Kids : KidInv(i)'
  <2>1. job[k] = "none"
    BY DEF PoolInv, KidInv, Alive, Fork
  <2>2. \A i \in Kids : job[i] # "none" => kid'[i] = kid[i]
    BY <1>1, <2>1 DEF TypeOK, Fork
  <2> QED BY <2>2, MasterKept DEF Fork
<1> QED BY <1>2, <1>3, <1>4 DEF PoolInv

LEMMA ReapKeeps ==
    ASSUME PoolInv, NEW k \in Kids, Reap(k), master \in {"wait", "reap"},
           master' \in {"fork", "wait", "reap"}
    PROVE  PoolInv'
<1>1. TypeOK /\ NkidsExact
  BY DEF PoolInv
<1>2. nkids = Cardinality(Started) /\ nkids >= 1 /\ nkids' = Cardinality(Started')
  BY <1>1, OneReaped DEF NkidsExact, Reap, Started, MasterRuns
<1>3. TypeOK'
  <2>1. nkids' \in 0..MaxKids
    BY <1>1, <1>2, StartedFinite DEF TypeOK, Reap
  <2>2. kid' \in [Kids -> {"none", "alive", "zombie"}]
    BY <1>1 DEF TypeOK, Reap
  <2> QED BY <1>1, <2>1, <2>2 DEF TypeOK, Reap, outside, jobVars
<1>4. NkidsExact'
  BY <1>2 DEF NkidsExact, Started
<1>5. \A i \in Kids : KidInv(i)'
  <2>1. job[k] = "none"
    BY DEF PoolInv, KidInv, Alive, Reap
  <2>2. \A i \in Kids : job[i] # "none" => kid'[i] = kid[i]
    BY <1>1, <2>1 DEF TypeOK, Reap
  <2> QED BY <2>2, MasterKept DEF Reap
<1> QED BY <1>3, <1>4, <1>5 DEF PoolInv

\* When the master goes, what was left of its children goes with it.
LEMMA GoneKeeps ==
    ASSUME PoolInv, ForkFails \/ Stop
    PROVE  PoolInv'
<1>1. TypeOK
  BY DEF PoolInv
<1>2. /\ kid' = [k \in Kids |-> IF kid[k] = "zombie" THEN "none" ELSE kid[k]]
      /\ UNCHANGED <<stats, nkids, jobVars, disk>>
      /\ master' \in {"stopped", "exited"}
  BY DEF ForkFails, Stop, outside
<1>3. TypeOK'
  <2>1. kid' \in [Kids -> {"none", "alive", "zombie"}]
    BY <1>1, <1>2 DEF TypeOK
  <2>2. signals' \in 0..MaxSignals
    <3>1. signals' = signals \/ (signals < MaxSignals /\ signals' = signals + 1)
      BY DEF ForkFails, Stop, outside
    <3> QED BY <1>1, <3>1, PoolAssumption DEF TypeOK
  <2>3. pending' \in [Kids -> BOOLEAN]
    <3>1. pending \in [Kids -> BOOLEAN]
      BY <1>1 DEF TypeOK
    <3>2. pending' = pending \/ pending' = [k \in Kids |-> pending[k] \/ Alive(k)]
      BY DEF ForkFails, Stop
    <3>3. \A k \in Kids : (pending[k] \/ Alive(k)) \in BOOLEAN
      OBVIOUS
    <3> QED BY <3>1, <3>2, <3>3
  <2>4. pidFile' \in BOOLEAN
    BY DEF ForkFails, Stop, AtExit
  <2> QED BY <1>1, <1>2, <2>1, <2>2, <2>3, <2>4 DEF TypeOK, jobVars
<1>4. NkidsExact'
  BY <1>2 DEF NkidsExact, MasterRuns
<1>5. \A i \in Kids : KidInv(i)'
  <2>1. \A k \in Kids : job[k] # "none" => kid'[k] = kid[k]
    BY <1>2 DEF PoolInv, KidInv, Alive
  <2> QED BY <1>2, <2>1, MasterKept
<1> QED BY <1>3, <1>4, <1>5 DEF PoolInv

LEMMA MasterKeeps ==
    ASSUME PoolInv, MasterStep \/ Stop
    PROVE  PoolInv'
<1>1. CASE PoolFull \/ SelectReturns \/ NoneExited
  <2>1. /\ UNCHANGED <<stats, signals, nkids, kid, jobVars, pending, disk, pidFile>>
        /\ master' \in {"fork", "wait", "reap"} /\ MasterRuns
    BY <1>1 DEF PoolFull, SelectReturns, NoneExited, MasterRuns, outside
  <2>2. TypeOK'
    BY <2>1 DEF PoolInv, TypeOK, jobVars
  <2>3. NkidsExact'
    BY <2>1 DEF PoolInv, NkidsExact
  <2> QED BY <2>1, <2>2, <2>3, MasterKept DEF PoolInv
<1>2. CASE \E k \in Kids : Fork(k)
  BY <1>2, ForkKeeps
<1>3. CASE \E k \in Kids : WaitForKid(k) \/ ReapAnother(k)
  BY <1>3, ReapKeeps DEF WaitForKid, ReapAnother
<1>4. CASE ForkFails \/ Stop
  BY <1>4, GoneKeeps
<1> QED BY <1>1, <1>2, <1>3, <1>4 DEF MasterStep

\* A step of a child keeps the invariant: it may leave, but it has not been
\* waited for while there is a master to do so.
LEMMA KidKeeps ==
    ASSUME PoolInv, NEW k \in Kids, KidStep(k) \/ Passes(k) \/ SignalKid(k) \/ KidDies(k)
    PROVE  PoolInv'
<1>1. Does(k)
  <2>1. CASE CompilerEnds(k) \/ Disconnected(k) \/ CompilerTimesOut(k)
    <3>1. Doing(k, "cc") /\ Collected(k)
      BY <2>1 DEF CompilerEnds, Disconnected, CompilerTimesOut
    <3>2. pidFile' \in BOOLEAN
      <4>1. pidFile \in BOOLEAN
        BY DEF PoolInv, TypeOK
      <4>2. pidFile' = pidFile \/ AtExit
        BY <2>1 DEF CompilerEnds, Disconnected, CompilerTimesOut
      <4> QED BY <4>1, <4>2 DEF AtExit
    <3> QED BY <3>1, <3>2, CollectedDoes
  <2>2. CASE WornOut(k) \/ AcceptFails(k)
    BY <2>2, KidExitsDoes DEF WornOut, AcceptFails
  <2> QED
    BY <2>1, <2>2, AcceptDoes, RefuseDoes, CreateDoes, RegisterDoes, ReceivedDoes,
       SpawnDoes, JobEndsDoes, PassesDoes, KidDiesDoes DEF KidStep
<1>2. UNCHANGED <<master, nkids>>
  BY DEF KidStep, Passes, Accept, Refuse, Create, Register, Received, Spawn, CompilerEnds,
         Disconnected, CompilerTimesOut, Collected, JobEnds, WornOut, AcceptFails, KidExits,
         Tick, Alarm, SignalKid, KidDies, masterVars
<1>3. NkidsExact'
  <2>1. MasterRuns => (kid'[k] = "none" <=> kid[k] = "none")
    BY DEF KidStep, Passes, Accept, Refuse, Create, Register, Received, Spawn, CompilerEnds,
         Disconnected, CompilerTimesOut, Collected, JobEnds, WornOut, AcceptFails, KidExits,
         Tick, Alarm, SignalKid, KidDies, Leaves, Idle, Alive, PoolInv, TypeOK
  <2>2. \A i \in Kids \ {k} : kid'[i] = kid[i]
    BY <1>1 DEF Does, Same
  <2>3. MasterRuns => {i \in Kids : kid'[i] # "none"} = {i \in Kids : kid[i] # "none"}
    BY <2>1, <2>2
  <2> QED BY <1>2, <2>3 DEF PoolInv, NkidsExact, MasterRuns
<1>4. \A i \in Kids : KidInv(i)'
  BY <1>1, SameKept DEF Does, PoolInv
<1> QED BY <1>1, <1>3, <1>4 DEF Does, PoolInv

LEMMA PoolInvInit == Init => PoolInv
<1> SUFFICES ASSUME Init
             PROVE  PoolInv
  OBVIOUS
<1>1. Cardinality({}) = 0 /\ {k \in Kids : kid[k] # "none"} = {}
  BY FS_EmptySet DEF Init
<1>2. \A k \in Kids : KidInv(k)
  BY DEF Init, KidInv, Alive
<1>3. TypeOK
  <2>1. MaxKids \in Nat /\ AlarmAt \in Nat /\ JobLifetime \in Nat /\ Lifetime \in Nat /\ MaxSignals \in Nat
    BY PoolAssumption, FS_CardinalityType DEF MaxKids, AlarmAt
  <2>2. <<>> \in Seq(Kinds) /\ Len(<<>>) <= Cardinality(Kinds)
    BY KindsSize
  <2> QED BY <2>1, <2>2 DEF Init, TypeOK
<1> QED BY <1>1, <1>2, <1>3 DEF PoolInv, NkidsExact, Init

LEMMA PoolInvNext == PoolInv /\ [Next]_vars => PoolInv'
<1> SUFFICES ASSUME PoolInv, [Next]_vars
             PROVE  PoolInv'
  OBVIOUS
<1>1. CASE MasterStep \/ Stop
  BY <1>1, MasterKeeps
<1>2. CASE \E k \in Kids : KidStep(k) \/ Passes(k) \/ SignalKid(k) \/ KidDies(k)
  BY <1>2, KidKeeps
<1>3. CASE UNCHANGED vars
  <2>1. UNCHANGED <<stats, signals, master, nkids, kid, jobVars, pending, disk, pidFile>>
    BY <1>3 DEF vars, outside, masterVars
  <2>2. TypeOK'
    BY <2>1 DEF PoolInv, TypeOK, jobVars
  <2>3. NkidsExact'
    BY <2>1 DEF PoolInv, NkidsExact, MasterRuns
  <2> QED BY <2>1, <2>2, <2>3, MasterKept DEF PoolInv
<1> QED BY <1>1, <1>2, <1>3 DEF Next

\* The types: whatever the life of a child, its list of files to remove and
\* its clocks stay within their bounds.
THEOREM PoolType == Spec => []TypeOK
<1>1. PoolInv => TypeOK
  BY DEF PoolInv
<1> QED BY <1>1, PoolInvInit, PoolInvNext, PTL DEF Spec

\* dcc_nkids is the number of the master's children that it has not waited
\* for, however many there may be, and whoever ends them: an exit, an alarm or
\* a signal between any two of their steps.
THEOREM NkidsAlwaysExact == Spec => []NkidsExact
<1>1. PoolInv => NkidsExact
  BY DEF PoolInv
<1> QED BY <1>1, PoolInvInit, PoolInvNext, PTL DEF Spec

\* A compiler runs only while its child waits for it: whichever of the
\* compiler, the client and the clock ends first.
THEOREM OneCompilerAlways == Spec => []OneCompiler
<1>1. PoolInv => OneCompiler
  BY DEF PoolInv, KidInv, OneCompiler, Busy, Alive
<1> QED BY <1>1, PoolInvInit, PoolInvNext, PTL DEF Spec

----------------------------------------------------------------------------
(* What a job leaves on the disk.                                          *)

\* What dcc_cleanup_tempfiles does not remove is being made, or is the
\* directory of the input that is being made.
LEMMA WhatRemains ==
    ASSUME PoolInv, NEW k \in Kids, Busy(k), NEW d \in SUBSET disk, NEW x \in Kinds,
           File(k, x) \in Unlinked(k, d)
    PROVE  /\ half[k]
           /\ \/ x = Step(k).kind
              \/ x = "dir" /\ Step(k).kind = "input" /\ File(k, "input") \in d
<1>1. job[k] \in {"plain", "pump"} /\ ListKnown(k) /\ FilesKnown(k) /\ at[k] \in 1..5
  BY StepFacts DEF PoolInv, KidInv, Busy
<1>2. File(k, x) \in d /\ File(k, x) \in disk
  BY DEF Unlinked
<1>3. DOMAIN list[k] = 1..Len(list[k]) /\ Len(list[k]) \in Nat
  BY DEF PoolInv, TypeOK
<1>4. CASE \E i \in 1..Len(list[k]) : list[k][i] = x
  <2>1. PICK i \in 1..Len(list[k]) : list[k][i] = x
    BY <1>4
  <2>2. ~Removable(k, d, list[k][i], {j \in DOMAIN list[k] : j > i})
    BY <1>3, <2>1 DEF Unlinked
  <2>3. /\ x = "dir" /\ job[k] = "pump" /\ File(k, "input") \in d
        /\ \A j \in 1..Len(list[k]) : j > i => list[k][j] # "input"
    BY <1>3, <2>1, <2>2 DEF Removable, InDirectory
  <2>4. \A j \in 1..Len(list[k]) : list[k][j] # "input"
    <3> SUFFICES ASSUME NEW j \in 1..Len(list[k]), list[k][j] = "input"
                 PROVE  FALSE
      OBVIOUS
    <3>1. i \in 1..3 /\ j \in 1..3
      BY <1>1, <1>3, <2>3 DEF ListKnown, Makes
    <3>2. Script["pump"][i].kind = "dir" /\ Script["pump"][j].kind = "input"
      BY <1>1, <2>1, <2>3 DEF ListKnown
    <3>3. i = 1 /\ j = 3
      BY <3>1, <3>2, PumpSteps
    <3> QED BY <2>3, <3>3
  <2>5. half[k] /\ Step(k).kind = "input"
    BY <1>1, <2>3, <2>4 DEF FilesKnown, Kinds
  <2> QED BY <2>3, <2>5
<1>5. CASE half[k] /\ Step(k).kind = x
  BY <1>5
<1> QED BY <1>1, <1>2, <1>4, <1>5 DEF FilesKnown

LEMMA EndOfJob ==
    ASSUME PoolInv, NEW k \in Kids, Busy(k), JobEnds(k) \/ KidDies(k), NEW x \in Kinds,
           File(k, x) \in disk'
    PROVE  x \in InTheMaking(k)
<1>1. CASE KidDies(k)
  <2>1. File(k, x) \in Unlinked(k, disk) /\ pending[k]
    BY <1>1 DEF KidDies, Cleanup
  <2> QED BY <2>1, WhatRemains DEF InTheMaking
<1>2. CASE JobEnds(k) /\ half[k] /\ Step(k).op = "make"
  <2> DEFINE d == disk \ {File(k, Step(k).kind)}
  <2>1. File(k, x) \in Unlinked(k, d) /\ d \in SUBSET disk
    BY <1>2 DEF JobEnds, Cleanup
  <2>2. File(k, x) \in d
    BY <2>1 DEF Unlinked
  <2>3. x # Step(k).kind
    BY <2>2
  <2>4. Step(k).kind = "input" /\ File(k, "input") \in d
    BY <2>1, <2>3, WhatRemains
  <2> QED BY <2>4
<1>3. CASE JobEnds(k) /\ ~(half[k] /\ Step(k).op = "make")
  <2>1. File(k, x) \in Unlinked(k, disk)
    BY <1>3 DEF JobEnds, Cleanup
  <2> QED BY <1>3, <2>1, WhatRemains DEF InTheMaking
<1> QED BY <1>1, <1>2, <1>3

\* A job ends by JobEnds or KidDies only.
LEMMA JobGone ==
    ASSUME PoolInv, [Next]_vars, NEW k \in Kids, Busy(k), job'[k] = "none"
    PROVE  JobEnds(k) \/ KidDies(k)
<1>1. CASE UNCHANGED job
  BY <1>1 DEF Busy
<1>2. CASE MasterStep \/ Stop
  <2>1. UNCHANGED job
    BY <1>2 DEF MasterStep, Stop, PoolFull, SelectReturns, NoneExited, ForkFails, Fork,
                WaitForKid, ReapAnother, Reap, jobVars
  <2> QED BY <1>1, <2>1
<1>3. CASE \E i \in Kids : KidStep(i) \/ Passes(i) \/ SignalKid(i) \/ KidDies(i)
  <2>1. PICK i \in Kids : KidStep(i) \/ Passes(i) \/ SignalKid(i) \/ KidDies(i)
    BY <1>3
  <2>2. \/ UNCHANGED job \/ JobEnds(i) \/ KidDies(i)
        \/ job[i] = "none" /\ \E j \in Jobs : job' = [job EXCEPT ![i] = j]
    BY <2>1 DEF KidStep, Passes, Accept, Refuse, Create, Register, Received, Spawn, CompilerEnds,
         Disconnected, CompilerTimesOut, Collected, WornOut, AcceptFails, KidExits,
         Tick, Alarm, SignalKid, Idle, jobVars
  <2>3. CASE i = k
    BY <1>1, <2>2, <2>3 DEF Busy
  <2>4. CASE i # k
    <3>1. JobEnds(i) \/ KidDies(i) => job'[k] = job[k]
      BY <2>4 DEF JobEnds, KidDies, Fresh, PoolInv, TypeOK
    <3>2. (\E j \in Jobs : job' = [job EXCEPT ![i] = j]) => job'[k] = job[k]
      BY <2>4 DEF PoolInv, TypeOK
    <3> QED BY <1>1, <2>2, <3>1, <3>2 DEF Busy
  <2> QED BY <2>3, <2>4
<1>4. CASE UNCHANGED vars
  BY <1>1, <1>4 DEF vars, jobVars
<1> QED BY <1>2, <1>3, <1>4 DEF Next

\* Whatever ends a job and whenever, only the file that was being made at that
\* moment, and the directory it is in, can be left: dcc_cleanup_tempfiles and
\* the makers' own removals take the rest, in an order in which rmdir works.
THEOREM NothingLeftBehind == Spec => FilesRemoved
<1>1. ASSUME PoolInv, [Next]_vars
      PROVE  \A k \in Kids : Busy(k) /\ job'[k] = "none"
                => {f.kind : f \in FilesOf(disk', k)} \subseteq InTheMaking(k)
  <2> SUFFICES ASSUME NEW k \in Kids, Busy(k), job'[k] = "none", NEW f \in FilesOf(disk', k)
               PROVE  f.kind \in InTheMaking(k)
    OBVIOUS
  <2>1. JobEnds(k) \/ KidDies(k)
    BY <1>1, JobGone
  <2>2. disk' \subseteq {File(o, x) : o \in Kids, x \in Kinds}
    BY <1>1, PoolInvNext DEF PoolInv, TypeOK
  <2>3. PICK o \in Kids, x \in Kinds : f = File(o, x)
    BY <2>2 DEF FilesOf
  <2>4. f.owner = o /\ f.kind = x /\ f.owner = k /\ f \in disk'
    BY <2>3 DEF FilesOf, File
  <2> QED BY <1>1, <2>1, <2>3, <2>4, EndOfJob
<1>2. PoolInv /\ [Next]_vars
      => [\A k \in Kids : Busy(k) /\ job'[k] = "none"
            => {f.kind : f \in FilesOf(disk', k)} \subseteq InTheMaking(k)]_vars
  BY <1>1
<1> QED BY <1>2, PoolInvInit, PoolInvNext, PTL DEF Spec, FilesRemoved

----------------------------------------------------------------------------
(* How the server is started (DistccdStart), for any options, in any order *)
(* and number, any user, and any of its first descriptors open: what holds *)
(* of the process follows from the step it is at, though some of what it   *)
(* was told is with the other process meanwhile, or on a descriptor that   *)
(* leaving the terminal overwrites.                                        *)

\* What the options are, as far as it matters here.
OptionsOK(o) == {"jobs", "logStderr"} \subseteq DOMAIN o /\ o.jobs \in Nat

Early == {"options", "lifetime", "root"}
Steps == Early \cup {"log", "directory", "credentials", "inetd", "listen", "group", "detach", "session", "signals",
                     "serving", "gone"}

\* The fields that are used, and a process that is gone has ended somehow.
BootType ==
    /\ {"step", "args", "opts", "uid", "table", "log", "alarm", "listen", "maxKids", "catches", "exit"} \subseteq DOMAIN boot
    /\ boot.step \in Steps
    /\ boot.args \in Seq(Argument)
    /\ OptionsOK(boot.opts)
    /\ boot.log \in Int /\ boot.listen \in Int
    /\ boot.exit = "no" <=> boot.step # "gone"
    /\ {"step", "alarm"} \subseteq DOMAIN launcher

Detaching == {"listen", "group", "detach", "session", "signals"}
SocketFor(table) == 0 \in DOMAIN table /\ table[0] = "socket"

\* No descriptor is closed: those that were open at the start are open, and
\* what the log has opened does not make its standard input a socket.
TableInv ==
    /\ boot.step \in Early \cup {"log"} => boot.table = start.table
    /\ boot.step \in {"directory", "credentials", "inetd", "listen"} =>
            DOMAIN boot.table \subseteq 0..4 /\ (SocketFor(boot.table) <=> SocketFor(start.table))
    /\ DOMAIN boot.table \subseteq 0..5
    /\ StandardOpen => 0..2 \subseteq DOMAIN boot.table

\* The server of inetd and the one that stands alone part at the credentials.
ModeInv ==
    /\ boot.step \notin {"options", "gone"} => boot.opts.allow # {} \/ ShouldBeInetd(boot.opts, start.table)
    /\ boot.step \in Detaching => ~ShouldBeInetd(boot.opts, start.table)
    /\ boot.step = "inetd" => ShouldBeInetd(boot.opts, start.table)
    /\ boot.step \in Detaching \ {"listen"} => Standalone
    /\ boot.step \in (Steps \ (Detaching \cup {"serving", "gone"})) \cup {"listen"} => ~Standalone
    /\ Standalone => /\ ~ShouldBeInetd(boot.opts, start.table)
                     /\ boot.opts.allow # {} /\ boot.maxKids > 0
    /\ boot.step = "serving" => IF Standalone THEN boot.catches ELSE ShouldBeInetd(boot.opts, start.table)

\* A descriptor that listens is not one of the three that are overwritten.
ListenInv ==
    Standalone /\ StandardOpen =>
            boot.listen > 2 /\ boot.listen \in DOMAIN boot.table /\ boot.table[boot.listen] = "listening"

\* Nor is that of the log; and no client reads the log unless told to.
LogInv ==
    /\ boot.log \in DOMAIN boot.table /\ boot.table[boot.log] = "socket" => boot.opts.logStderr
    /\ (boot.step \notin Early \cup {"log", "gone"} /\ StandardOpen /\ boot.opts.logFile = <<1>> /\ ~boot.opts.logStderr)
            => boot.log > 2 /\ boot.log \in DOMAIN boot.table /\ boot.table[boot.log] = "log"

\* Root is given away, and the alarm is with the process that is to serve
\* except while the other one has it.
ToldInv ==
    /\ boot.step \notin Early \cup {"gone"} => boot.uid # RootId
    /\ boot.step \notin {"options", "lifetime", "session", "gone"} => boot.alarm = boot.opts.lifetime

\* The other process has ended well only if the file is that of the daemon.
LauncherInv ==
    /\ launcher.alarm > 0 => launcher.step # "none"
    /\ launcher.step # "none" => Standalone /\ boot.step \in {"session", "signals", "serving", "gone"}
    /\ (launcher.step \in {"leaves", "success"} /\ boot.opts.pidFile = <<1>> /\ boot.exit = "no") => pidfile = "daemon"

StartInv == Startable /\ BootType /\ TableInv /\ ModeInv /\ ListenInv /\ LogInv /\ ToldInv /\ LauncherInv

----------------------------------------------------------------------------
(* Options and descriptors.                                                *)

LEMMA OptionsTyped == OptionsOK(Options)
BY DEF Options, OptionsOK

LEMMA SetTyped ==
    ASSUME NEW o, OptionsOK(o), NEW option \in Argument, ~Wrong(o, option)
    PROVE  /\ OptionsOK(Set(o, option))
           /\ o.logStderr => Set(o, option).logStderr
<1>1. option.name \in STRING /\ option.value \in Int /\ <<option.value>> \in Seq(Int)  BY DEF Argument
<1>2. CASE option.name = "allow"
  <2>1. Set(o, option) = [o EXCEPT !.allow = @ \cup {option.value}]  BY <1>2 DEF Set
  <2> QED BY <1>1, <1>2, <2>1, SMT DEF OptionsOK
<1>3. CASE option.name = "auth"
  <2>1. Set(o, option) = [o EXCEPT !.auth = TRUE]  BY <1>3 DEF Set
  <2> QED BY <1>1, <1>3, <2>1, SMT DEF OptionsOK
<1>4. CASE option.name \in {"blacklist", "whitelist"}
  <2>1. Set(o, option) = [o EXCEPT !.listed = @ \cup {option.name}]  BY <1>4 DEF Set
  <2> QED BY <1>1, <1>4, <2>1, SMT DEF OptionsOK
<1>5. CASE option.name = "jobs"
  <2>1. Set(o, option) = [o EXCEPT !.jobs = option.value]  BY <1>5 DEF Set
  <2> QED BY <1>1, <1>5, <2>1, SMT DEF OptionsOK, Wrong
<1>6. CASE option.name = "job-lifetime"
  <2>1. Set(o, option) = [o EXCEPT !.jobLifetime = IF option.value < 0 THEN 0 ELSE option.value]  BY <1>6 DEF Set
  <2> QED BY <1>1, <1>6, <2>1, SMT DEF OptionsOK
<1>7. CASE option.name = "lifetime"
  <2>1. Set(o, option) = [o EXCEPT !.lifetime = option.value]  BY <1>7 DEF Set
  <2> QED BY <1>1, <1>7, <2>1, SMT DEF OptionsOK
<1>8. CASE option.name = "daemon"
  <2>1. Set(o, option) = [o EXCEPT !.daemon = TRUE]  BY <1>8 DEF Set
  <2> QED BY <1>1, <1>8, <2>1, SMT DEF OptionsOK
<1>9. CASE option.name = "inetd"
  <2>1. Set(o, option) = [o EXCEPT !.inetd = TRUE]  BY <1>9 DEF Set
  <2> QED BY <1>1, <1>9, <2>1, SMT DEF OptionsOK
<1>10. CASE option.name = "no-detach"
  <2>1. Set(o, option) = [o EXCEPT !.noDetach = TRUE]  BY <1>10 DEF Set
  <2> QED BY <1>1, <1>10, <2>1, SMT DEF OptionsOK
<1>11. CASE option.name = "no-fork"
  <2>1. Set(o, option) = [o EXCEPT !.noFork = TRUE]  BY <1>11 DEF Set
  <2> QED BY <1>1, <1>11, <2>1, SMT DEF OptionsOK
<1>12. CASE option.name = "log-stderr"
  <2>1. Set(o, option) = [o EXCEPT !.logStderr = TRUE]  BY <1>12 DEF Set
  <2> QED BY <1>1, <1>12, <2>1, SMT DEF OptionsOK
<1>13. CASE option.name = "log-file"
  <2>1. Set(o, option) = [o EXCEPT !.logFile = <<option.value>>]  BY <1>13 DEF Set
  <2> QED BY <1>1, <1>13, <2>1, SMT DEF OptionsOK
<1>14. CASE option.name = "pid-file"
  <2>1. Set(o, option) = [o EXCEPT !.pidFile = <<option.value>>]  BY <1>14 DEF Set
  <2> QED BY <1>1, <1>14, <2>1, SMT DEF OptionsOK
<1>15. CASE option.name = "port"
  <2>1. Set(o, option) = [o EXCEPT !.port = option.value]  BY <1>15 DEF Set
  <2> QED BY <1>1, <1>15, <2>1, SMT DEF OptionsOK
<1>16. CASE option.name = "listen"
  <2>1. Set(o, option) = [o EXCEPT !.listen = option.value]  BY <1>16 DEF Set
  <2> QED BY <1>1, <1>16, <2>1, SMT DEF OptionsOK
<1>17. CASE option.name = "user"
  <2>1. Set(o, option) = [o EXCEPT !.user = option.value]  BY <1>17 DEF Set
  <2> QED BY <1>1, <1>17, <2>1, SMT DEF OptionsOK
<1>18. CASE option.name = "wizard"
  <2>1. Set(o, option) = Wizard(o)  BY <1>18 DEF Set
  <2> QED BY <1>1, <1>18, <2>1, SMT DEF OptionsOK, Wizard
<1>19. CASE option.name \notin {"allow", "auth", "blacklist", "whitelist", "jobs", "job-lifetime", "lifetime", "daemon", "inetd", "no-detach", "no-fork", "log-stderr", "log-file", "pid-file", "port", "listen", "user", "wizard"}
  BY <1>19 DEF Set
<1> QED BY <1>2, <1>3, <1>4, <1>5, <1>6, <1>7, <1>8, <1>9, <1>10, <1>11, <1>12, <1>13, <1>14, <1>15, <1>16, <1>17, <1>18, <1>19

LEMMA FreeIs ==
    ASSUME NEW table, DOMAIN table \subseteq 0..4
    PROVE  /\ Free(table) \in 0..5 /\ Free(table) \notin DOMAIN table
           /\ 0..2 \subseteq DOMAIN table => Free(table) > 2
           /\ DOMAIN table \subseteq 0..3 => Free(table) \in 0..4
<1> DEFINE P(fd) == fd \notin DOMAIN table /\ \A lower \in 0..fd - 1 : lower \in DOMAIN table
<1>1. \E fd \in 0..5 : P(fd)
  <2>1. P(0) \/ P(1) \/ P(2) \/ P(3) \/ P(4) \/ P(5)  BY SMT
  <2> QED BY <2>1, SMT
<1>2. Free(table) = CHOOSE fd \in 0..5 : P(fd) BY DEF Free
<1>3. Free(table) \in 0..5 /\ P(Free(table)) BY <1>1, <1>2
<1>4. DOMAIN table \subseteq 0..3 => Free(table) # 5 BY <1>3, SMT
<1> QED BY <1>3, <1>4

LEMMA OpenIs ==
    ASSUME NEW table, NEW what, DOMAIN table \subseteq 0..4
    PROVE  /\ DOMAIN Open(table, what) = DOMAIN table \cup {Free(table)}
           /\ Open(table, what)[Free(table)] = what
           /\ \A fd \in DOMAIN table : Open(table, what)[fd] = table[fd]
BY FreeIs DEF Open

----------------------------------------------------------------------------
(* Each step keeps the invariant.                                          *)

LEMMA ExitKeeps ==
    ASSUME NEW code, code # "no", StartInv, Exit(code), UNCHANGED <<start, launcher>>
    PROVE  StartInv'
<1> USE DEF StartInv, Exit, Standalone, StandardOpen
<1>0. Startable'  BY DEF Startable
<1>1. BootType'  BY DEF BootType, Steps, Early
<1>2. TableInv'  BY DEF TableInv, BootType, SocketFor, Early, Steps, Startable
<1>3. ModeInv'  BY DEF ModeInv, BootType, ShouldBeInetd, SocketFor, Detaching, Steps, Early, TableInv
<1>4. ListenInv'  BY DEF ListenInv, TableInv, BootType, ModeInv, Detaching, Steps, Early
<1>5. LogInv'  BY DEF LogInv, TableInv, BootType, Early, Steps
<1>6. ToldInv'  BY DEF ToldInv, BootType, Early, Steps
<1>7. LauncherInv'  BY DEF LauncherInv, BootType, ModeInv, Detaching, Steps, Early
<1> QED BY <1>0, <1>1, <1>2, <1>3, <1>4, <1>5, <1>6, <1>7

LEMMA CheckAllowedKeeps == StartInv /\ CheckAllowed /\ UNCHANGED start => StartInv'
<1> SUFFICES ASSUME StartInv, CheckAllowed, UNCHANGED start PROVE StartInv'
    OBVIOUS
<1> USE DEF StartInv, At, GoTo, Alone, RootId, Syslog, NotGiven, Standalone, StandardOpen
<1>0. Startable'  BY DEF Startable
<1>a. CASE Exit("bad arguments") /\ Alone
  BY <1>a, ExitKeeps DEF CheckAllowed
<1>b. CASE ~(Exit("bad arguments") /\ Alone)
<2>0. At("options") /\ (ShouldBeInetd(boot.opts, boot.table) \/ boot.opts.allow # {}) /\ GoTo("lifetime") /\ Alone
  BY <1>b DEF CheckAllowed
<2> HIDE DEF At, GoTo
<2> USE DEF GoTo, At
<2>1. BootType'  BY <2>0 DEF BootType, Steps, Early
<2>2. TableInv'  BY <2>0 DEF TableInv, BootType, SocketFor, Early, Steps, Startable
<2>3. ModeInv'  BY <2>0 DEF ModeInv, BootType, ShouldBeInetd, SocketFor, Detaching, Steps, Early, TableInv
<2>4. ListenInv'  BY <2>0 DEF ListenInv, TableInv, BootType, ModeInv, Detaching, Steps, Early
<2>5. LogInv'  BY <2>0 DEF LogInv, TableInv, BootType, Early, Steps
<2>6. ToldInv'  BY <2>0 DEF ToldInv, BootType, Early, Steps
<2>7. LauncherInv'  BY <2>0 DEF LauncherInv, BootType, ModeInv, Detaching, Steps, Early
<2> QED BY <1>0, <2>1, <2>2, <2>3, <2>4, <2>5, <2>6, <2>7
<1> QED BY <1>a, <1>b

LEMMA DiscardRootKeeps == StartInv /\ DiscardRoot /\ UNCHANGED start => StartInv'
<1> SUFFICES ASSUME StartInv, DiscardRoot, UNCHANGED start PROVE StartInv'
    OBVIOUS
<1> USE DEF StartInv, At, GoTo, Alone, RootId, Syslog, NotGiven, Standalone, StandardOpen
<1>0. Startable'  BY DEF Startable
<1>a. CASE Exit("setuid failed") /\ Alone
  BY <1>a, ExitKeeps
<1>b. CASE boot.uid # RootId /\ At("root") /\ GoTo("log") /\ Alone
<2>1. BootType'  BY <1>b DEF BootType, Steps, Early
<2>2. TableInv'  BY <1>b DEF TableInv, BootType, SocketFor, Early, Steps, Startable
<2>3. ModeInv'  BY <1>b DEF ModeInv, BootType, ShouldBeInetd, SocketFor, Detaching, Steps, Early, TableInv
<2>4. ListenInv'  BY <1>b DEF ListenInv, TableInv, BootType, ModeInv, Detaching, Steps, Early
<2>5. LogInv'  BY <1>b DEF LogInv, TableInv, BootType, Early, Steps
<2>6. ToldInv'  BY <1>b DEF ToldInv, BootType, Early, Steps
<2>7. LauncherInv'  BY <1>b DEF LauncherInv, BootType, ModeInv, Detaching, Steps, Early
<2> QED BY <1>0, <2>1, <2>2, <2>3, <2>4, <2>5, <2>6, <2>7
<1>c. ASSUME NEW uid, uid # RootId, At("root"), Alone, boot' = [boot EXCEPT !.step = "log", !.uid = uid]
      PROVE  StartInv'
<2>1. BootType'  BY <1>c DEF BootType, Steps, Early
<2>2. TableInv'  BY <1>c DEF TableInv, BootType, SocketFor, Early, Steps, Startable
<2>3. ModeInv'  BY <1>c DEF ModeInv, BootType, ShouldBeInetd, SocketFor, Detaching, Steps, Early, TableInv
<2>4. ListenInv'  BY <1>c DEF ListenInv, TableInv, BootType, ModeInv, Detaching, Steps, Early
<2>5. LogInv'  BY <1>c DEF LogInv, TableInv, BootType, Early, Steps
<2>6. ToldInv'  BY <1>c DEF ToldInv, BootType, Early, Steps
<2>7. LauncherInv'  BY <1>c DEF LauncherInv, BootType, ModeInv, Detaching, Steps, Early
<2> QED BY <1>0, <2>1, <2>2, <2>3, <2>4, <2>5, <2>6, <2>7
<1>d. (Exit("setuid failed") /\ Alone) \/ (boot.uid # RootId /\ At("root") /\ GoTo("log") /\ Alone)
      \/ \E uid : uid # RootId /\ At("root") /\ Alone /\ boot' = [boot EXCEPT !.step = "log", !.uid = uid]
  BY DEF DiscardRoot
<1> QED BY <1>a, <1>b, <1>c, <1>d

LEMMA ParseOptionKeeps == StartInv /\ ParseOption /\ UNCHANGED start => StartInv'
<1> SUFFICES ASSUME StartInv, ParseOption, UNCHANGED start PROVE StartInv'
    OBVIOUS
<1> USE DEF StartInv, At, GoTo, Alone, RootId, Syslog, NotGiven, Standalone, StandardOpen
<1>0. Startable'  BY DEF Startable
<1> DEFINE option == Head(boot.args)
<1>a. CASE (Exit("success") \/ Exit("bad arguments") \/ Exit("distcc failed")) /\ Alone
  BY <1>a, ExitKeeps
<1>b. CASE ~((Exit("success") \/ Exit("bad arguments") \/ Exit("distcc failed")) /\ Alone)
<2>0. /\ At("options") /\ boot.args # <<>> /\ Alone
      /\ ~Wrong(boot.opts, option)
      /\ boot' = [boot EXCEPT !.args = Tail(@), !.opts = Set(@, option)]
  BY <1>b DEF ParseOption
<2>a. option \in Argument /\ Tail(boot.args) \in Seq(Argument)
  BY <2>0, HeadTailProperties DEF BootType
<2> DEFINE opts == Set(boot.opts, option)
<2>b. OptionsOK(opts) /\ (boot.opts.logStderr => opts.logStderr)
  BY <2>0, <2>a, SetTyped DEF BootType
<2>c. boot' = [boot EXCEPT !.args = Tail(@), !.opts = opts]
  BY <2>0
<2> HIDE DEF opts, option
<2>1. BootType'  BY <2>0, <2>a, <2>b, <2>c DEF BootType, Steps, Early
<2>2. TableInv'  BY <2>0, <2>a, <2>b, <2>c DEF TableInv, BootType, SocketFor, Early, Steps, Startable
<2>3. ModeInv'  BY <2>0, <2>a, <2>b, <2>c DEF ModeInv, BootType, ShouldBeInetd, SocketFor, Detaching, Steps, Early, TableInv
<2>4. ListenInv'  BY <2>0, <2>a, <2>b, <2>c DEF ListenInv, TableInv, BootType, ModeInv, Detaching, Steps, Early
<2>5. LogInv'  BY <2>0, <2>a, <2>b, <2>c DEF LogInv, TableInv, BootType, Early, Steps
<2>6. ToldInv'  BY <2>0, <2>a, <2>b, <2>c DEF ToldInv, BootType, Early, Steps
<2>7. LauncherInv'  BY <2>0, <2>a, <2>b, <2>c DEF LauncherInv, BootType, ModeInv, Detaching, Steps, Early
<2> QED BY <1>0, <2>1, <2>2, <2>3, <2>4, <2>5, <2>6, <2>7
<1> QED BY <1>a, <1>b

LEMMA SocketListenKeeps == StartInv /\ SocketListen /\ UNCHANGED start => StartInv'
<1> SUFFICES ASSUME StartInv, SocketListen, UNCHANGED start PROVE StartInv'
    OBVIOUS
<1> USE DEF StartInv, At, GoTo, Alone, RootId, Syslog, NotGiven, Standalone, StandardOpen
<1>0. Startable'  BY DEF Startable
<1> DEFINE fd == Free(boot.table)
           table == Open(boot.table, "listening")
           next == IF boot.opts.noDetach THEN "group" ELSE "detach"
           kids == IF boot.opts.jobs # 0 THEN boot.opts.jobs ELSE 2 + start.ncpus
           Serves == boot' = [boot EXCEPT !.step = next, !.listen = fd, !.table = table, !.maxKids = kids]
<1>z. At("listen") /\ Alone /\ (Exit("bad arguments") \/ Exit("bind failed") \/ Serves)
  BY DEF SocketListen
<1>a. CASE Exit("bind failed") \/ Exit("bad arguments")
  BY <1>a, <1>z, ExitKeeps
<1>b. CASE Serves
<2>0. At("listen") /\ Alone
      /\ boot' = [boot EXCEPT !.step = next, !.listen = fd, !.table = table, !.maxKids = kids]
  BY <1>b, <1>z
<2>a. next \in {"group", "detach"}
  OBVIOUS
<2>b. kids > 0
  BY DEF BootType, OptionsOK, Startable
<2>c. DOMAIN boot.table \subseteq 0..4
  BY <2>0 DEF TableInv
<2>d. /\ DOMAIN table = DOMAIN boot.table \cup {fd} /\ table[fd] = "listening"
      /\ \A d \in DOMAIN boot.table : table[d] = boot.table[d]
  BY <2>c, OpenIs
<2>e. fd \in 0..5 /\ fd \notin DOMAIN boot.table /\ (0..2 \subseteq DOMAIN boot.table => fd > 2)
  BY <2>c, FreeIs
<2> HIDE DEF next, kids, fd, table
<2>1. BootType'  BY <2>0, <2>a, <2>b, <2>c, <2>d, <2>e DEF BootType, Steps, Early
<2>2. TableInv'  BY <2>0, <2>a, <2>b, <2>c, <2>d, <2>e DEF TableInv, BootType, SocketFor, Early, Steps, Startable
<2>3. ModeInv'  BY <2>0, <2>a, <2>b, <2>c, <2>d, <2>e DEF ModeInv, BootType, ShouldBeInetd, SocketFor, Detaching, Steps, Early, TableInv
<2>4. ListenInv'  BY <2>0, <2>a, <2>b, <2>c, <2>d, <2>e DEF ListenInv, TableInv, BootType, ModeInv, Detaching, Steps, Early
<2>5. LogInv'  BY <2>0, <2>a, <2>b, <2>c, <2>d, <2>e DEF LogInv, TableInv, BootType, Early, Steps
<2>6. ToldInv'  BY <2>0, <2>a, <2>b, <2>c, <2>d, <2>e DEF ToldInv, BootType, Early, Steps
<2>7. LauncherInv'  BY <2>0, <2>a, <2>b, <2>c, <2>d, <2>e DEF LauncherInv, BootType, ModeInv, Detaching, Steps, Early
<2> QED BY <1>0, <2>1, <2>2, <2>3, <2>4, <2>5, <2>6, <2>7
<1> HIDE DEF Serves
<1> QED BY <1>a, <1>b, <1>z

LEMMA EnterTmpTopKeeps == StartInv /\ EnterTmpTop /\ UNCHANGED start => StartInv'
<1> SUFFICES ASSUME StartInv, EnterTmpTop, UNCHANGED start PROVE StartInv'
    OBVIOUS
<1> USE DEF StartInv, At, GoTo, Alone, RootId, Syslog, NotGiven, Standalone, StandardOpen
<1>0. Startable'  BY DEF Startable
<1>a. CASE Exit("I/O error") /\ Alone
  BY <1>a, ExitKeeps DEF EnterTmpTop
<1>b. CASE ~(Exit("I/O error") /\ Alone)
<2>0. At("directory") /\ GoTo("credentials") /\ Alone
  BY <1>b DEF EnterTmpTop
<2> HIDE DEF At, GoTo
<2> USE DEF GoTo, At
<2>1. BootType'  BY <2>0 DEF BootType, Steps, Early
<2>2. TableInv'  BY <2>0 DEF TableInv, BootType, SocketFor, Early, Steps, Startable
<2>3. ModeInv'  BY <2>0 DEF ModeInv, BootType, ShouldBeInetd, SocketFor, Detaching, Steps, Early, TableInv
<2>4. ListenInv'  BY <2>0 DEF ListenInv, TableInv, BootType, ModeInv, Detaching, Steps, Early
<2>5. LogInv'  BY <2>0 DEF LogInv, TableInv, BootType, Early, Steps
<2>6. ToldInv'  BY <2>0 DEF ToldInv, BootType, Early, Steps
<2>7. LauncherInv'  BY <2>0 DEF LauncherInv, BootType, ModeInv, Detaching, Steps, Early
<2> QED BY <1>0, <2>1, <2>2, <2>3, <2>4, <2>5, <2>6, <2>7
<1> QED BY <1>a, <1>b

LEMMA AcquireCredentialsKeeps == StartInv /\ AcquireCredentials /\ UNCHANGED start => StartInv'
<1> SUFFICES ASSUME StartInv, AcquireCredentials, UNCHANGED start PROVE StartInv'
    OBVIOUS
<1> USE DEF StartInv, At, GoTo, Alone, RootId, Syslog, NotGiven, Standalone, StandardOpen
<1>0. Startable'  BY DEF Startable
<1>a. CASE Exit("gssapi failed") /\ Alone
  BY <1>a, ExitKeeps DEF AcquireCredentials
<1>b. CASE ~(Exit("gssapi failed") /\ Alone)
<2>0. At("credentials") /\ GoTo(IF ShouldBeInetd(boot.opts, boot.table) THEN "inetd" ELSE "listen") /\ Alone
  BY <1>b DEF AcquireCredentials
<2> HIDE DEF At, GoTo
<2> USE DEF GoTo, At
<2>1. BootType'  BY <2>0 DEF BootType, Steps, Early
<2>2. TableInv'  BY <2>0 DEF TableInv, BootType, SocketFor, Early, Steps, Startable
<2>3. ModeInv'  BY <2>0 DEF ModeInv, BootType, ShouldBeInetd, SocketFor, Detaching, Steps, Early, TableInv
<2>4. ListenInv'  BY <2>0 DEF ListenInv, TableInv, BootType, ModeInv, Detaching, Steps, Early
<2>5. LogInv'  BY <2>0 DEF LogInv, TableInv, BootType, Early, Steps
<2>6. ToldInv'  BY <2>0 DEF ToldInv, BootType, Early, Steps
<2>7. LauncherInv'  BY <2>0 DEF LauncherInv, BootType, ModeInv, Detaching, Steps, Early
<2> QED BY <1>0, <2>1, <2>2, <2>3, <2>4, <2>5, <2>6, <2>7
<1> QED BY <1>a, <1>b

LEMMA NewGroupKeeps == StartInv /\ NewGroup /\ UNCHANGED start => StartInv'
<1> SUFFICES ASSUME StartInv, NewGroup, UNCHANGED start PROVE StartInv'
    OBVIOUS
<1> USE DEF StartInv, At, GoTo, Alone, RootId, Syslog, NotGiven, Standalone, StandardOpen
<1>0. Startable'  BY DEF Startable
<1>a. CASE Exit("distcc failed") /\ UNCHANGED launcher
  BY <1>a, ExitKeeps DEF NewGroup
<1>b. CASE ~(Exit("distcc failed") /\ UNCHANGED launcher)
<2>0. At("group") /\ GoTo("signals") /\ pidfile' = Written(pidfile) /\ UNCHANGED launcher
  BY <1>b DEF NewGroup
<2> HIDE DEF At, GoTo
<2> USE DEF GoTo, At
<2>1. BootType'  BY <2>0 DEF BootType, Steps, Early, Written
<2>2. TableInv'  BY <2>0 DEF TableInv, BootType, SocketFor, Early, Steps, Startable, Written
<2>3. ModeInv'  BY <2>0 DEF ModeInv, BootType, ShouldBeInetd, SocketFor, Detaching, Steps, Early, TableInv, Written
<2>4. ListenInv'  BY <2>0 DEF ListenInv, TableInv, BootType, ModeInv, Detaching, Steps, Early, Written
<2>5. LogInv'  BY <2>0 DEF LogInv, TableInv, BootType, Early, Steps, Written
<2>6. ToldInv'  BY <2>0 DEF ToldInv, BootType, Early, Steps, Written
<2>7. LauncherInv'  BY <2>0 DEF LauncherInv, BootType, ModeInv, Detaching, Steps, Early, Written
<2> QED BY <1>0, <2>1, <2>2, <2>3, <2>4, <2>5, <2>6, <2>7
<1> QED BY <1>a, <1>b

LEMMA DetachKeeps == StartInv /\ Detach /\ UNCHANGED start => StartInv'
<1> SUFFICES ASSUME StartInv, Detach, UNCHANGED start PROVE StartInv'
    OBVIOUS
<1> USE DEF StartInv, At, GoTo, Alone, RootId, Syslog, NotGiven, Standalone, StandardOpen
<1>0. Startable'  BY DEF Startable
<1>a. CASE Exit("distcc failed") /\ UNCHANGED launcher
  BY <1>a, ExitKeeps DEF Detach
<1>b. CASE ~(Exit("distcc failed") /\ UNCHANGED launcher)
<2>0. At("detach") /\ UNCHANGED pidfile /\ boot' = [boot EXCEPT !.step = "session", !.alarm = 0] /\ launcher' = [step |-> "saves", alarm |-> boot.alarm]
  BY <1>b DEF Detach
<2> HIDE DEF At, GoTo
<2> USE DEF GoTo, At
<2>1. BootType'  BY <2>0 DEF BootType, Steps, Early
<2>2. TableInv'  BY <2>0 DEF TableInv, BootType, SocketFor, Early, Steps, Startable
<2>3. ModeInv'  BY <2>0 DEF ModeInv, BootType, ShouldBeInetd, SocketFor, Detaching, Steps, Early, TableInv
<2>4. ListenInv'  BY <2>0 DEF ListenInv, TableInv, BootType, ModeInv, Detaching, Steps, Early
<2>5. LogInv'  BY <2>0 DEF LogInv, TableInv, BootType, Early, Steps
<2>6. ToldInv'  BY <2>0 DEF ToldInv, BootType, Early, Steps
<2>7. LauncherInv'  BY <2>0 DEF LauncherInv, BootType, ModeInv, Detaching, Steps, Early
<2> QED BY <1>0, <2>1, <2>2, <2>3, <2>4, <2>5, <2>6, <2>7
<1> QED BY <1>a, <1>b

LEMMA SetLifetimeKeeps == StartInv /\ SetLifetime /\ UNCHANGED start => StartInv'
<1> SUFFICES ASSUME StartInv, SetLifetime, UNCHANGED start PROVE StartInv'
    OBVIOUS
<1> USE DEF StartInv, At, GoTo, Alone, RootId, Syslog, NotGiven, Standalone, StandardOpen
<1>0. Startable'  BY DEF Startable
<1> USE DEF SetLifetime
<1>1. BootType'  BY DEF BootType, Steps, Early
<1>2. TableInv'  BY DEF TableInv, BootType, SocketFor, Early, Steps, Startable
<1>3. ModeInv'  BY DEF ModeInv, BootType, ShouldBeInetd, SocketFor, Detaching, Steps, Early, TableInv
<1>4. ListenInv'  BY DEF ListenInv, TableInv, BootType, ModeInv, Detaching, Steps, Early
<1>5. LogInv'  BY DEF LogInv, TableInv, BootType, Early, Steps
<1>6. ToldInv'  BY DEF ToldInv, BootType, Early, Steps
<1>7. LauncherInv'  BY DEF LauncherInv, BootType, ModeInv, Detaching, Steps, Early
<1> QED BY <1>0, <1>1, <1>2, <1>3, <1>4, <1>5, <1>6, <1>7

LEMMA LeaveTerminalKeeps == StartInv /\ LeaveTerminal /\ UNCHANGED start => StartInv'
<1> SUFFICES ASSUME StartInv, LeaveTerminal, UNCHANGED start PROVE StartInv'
    OBVIOUS
<1> USE DEF StartInv, At, GoTo, Alone, RootId, Syslog, NotGiven, Standalone, StandardOpen
<1>0. Startable'  BY DEF Startable
<1> USE DEF LeaveTerminal
<1>1. BootType'  BY DEF BootType, Steps, Early
<1>2. TableInv'  BY DEF TableInv, BootType, SocketFor, Early, Steps, Startable
<1>3. ModeInv'  BY DEF ModeInv, BootType, ShouldBeInetd, SocketFor, Detaching, Steps, Early, TableInv
<1>4. ListenInv'  BY DEF ListenInv, TableInv, BootType, ModeInv, Detaching, Steps, Early
<1>5. LogInv'  BY DEF LogInv, TableInv, BootType, Early, Steps
<1>6. ToldInv'  BY DEF ToldInv, BootType, Early, Steps
<1>7. LauncherInv'  BY DEF LauncherInv, BootType, ModeInv, Detaching, Steps, Early
<1> QED BY <1>0, <1>1, <1>2, <1>3, <1>4, <1>5, <1>6, <1>7

LEMMA LauncherKilledKeeps == StartInv /\ LauncherKilled /\ UNCHANGED start => StartInv'
<1> SUFFICES ASSUME StartInv, LauncherKilled, UNCHANGED start PROVE StartInv'
    OBVIOUS
<1> USE DEF StartInv, At, GoTo, Alone, RootId, Syslog, NotGiven, Standalone, StandardOpen
<1>0. Startable'  BY DEF Startable
<1> USE DEF LauncherKilled
<1>1. BootType'  BY DEF BootType, Steps, Early
<1>2. TableInv'  BY DEF TableInv, BootType, SocketFor, Early, Steps, Startable
<1>3. ModeInv'  BY DEF ModeInv, BootType, ShouldBeInetd, SocketFor, Detaching, Steps, Early, TableInv
<1>4. ListenInv'  BY DEF ListenInv, TableInv, BootType, ModeInv, Detaching, Steps, Early
<1>5. LogInv'  BY DEF LogInv, TableInv, BootType, Early, Steps
<1>6. ToldInv'  BY DEF ToldInv, BootType, Early, Steps
<1>7. LauncherInv'  BY DEF LauncherInv, BootType, ModeInv, Detaching, Steps, Early
<1> QED BY <1>0, <1>1, <1>2, <1>3, <1>4, <1>5, <1>6, <1>7

LEMMA CatchSignalsKeeps == StartInv /\ CatchSignals /\ UNCHANGED start => StartInv'
<1> SUFFICES ASSUME StartInv, CatchSignals, UNCHANGED start PROVE StartInv'
    OBVIOUS
<1> USE DEF StartInv, At, GoTo, Alone, RootId, Syslog, NotGiven, Standalone, StandardOpen
<1>0. Startable'  BY DEF Startable
<1> USE DEF CatchSignals
<1>1. BootType'  BY DEF BootType, Steps, Early
<1>2. TableInv'  BY DEF TableInv, BootType, SocketFor, Early, Steps, Startable
<1>3. ModeInv'  BY DEF ModeInv, BootType, ShouldBeInetd, SocketFor, Detaching, Steps, Early, TableInv
<1>4. ListenInv'  BY DEF ListenInv, TableInv, BootType, ModeInv, Detaching, Steps, Early
<1>5. LogInv'  BY DEF LogInv, TableInv, BootType, Early, Steps
<1>6. ToldInv'  BY DEF ToldInv, BootType, Early, Steps
<1>7. LauncherInv'  BY DEF LauncherInv, BootType, ModeInv, Detaching, Steps, Early
<1> QED BY <1>0, <1>1, <1>2, <1>3, <1>4, <1>5, <1>6, <1>7

LEMMA ServeInetdKeeps == StartInv /\ ServeInetd /\ UNCHANGED start => StartInv'
<1> SUFFICES ASSUME StartInv, ServeInetd, UNCHANGED start PROVE StartInv'
    OBVIOUS
<1> USE DEF StartInv, At, GoTo, Alone, RootId, Syslog, NotGiven, Standalone, StandardOpen
<1>0. Startable'  BY DEF Startable
<1> USE DEF ServeInetd
<1>1. BootType'  BY DEF BootType, Steps, Early
<1>2. TableInv'  BY DEF TableInv, BootType, SocketFor, Early, Steps, Startable
<1>3. ModeInv'  BY DEF ModeInv, BootType, ShouldBeInetd, SocketFor, Detaching, Steps, Early, TableInv
<1>4. ListenInv'  BY DEF ListenInv, TableInv, BootType, ModeInv, Detaching, Steps, Early
<1>5. LogInv'  BY DEF LogInv, TableInv, BootType, Early, Steps
<1>6. ToldInv'  BY DEF ToldInv, BootType, Early, Steps
<1>7. LauncherInv'  BY DEF LauncherInv, BootType, ModeInv, Detaching, Steps, Early
<1> QED BY <1>0, <1>1, <1>2, <1>3, <1>4, <1>5, <1>6, <1>7

LEMMA SavePidKeeps == StartInv /\ SavePid /\ UNCHANGED start => StartInv'
<1> SUFFICES ASSUME StartInv, SavePid, UNCHANGED start PROVE StartInv'
    OBVIOUS
<1> USE DEF StartInv, At, GoTo, Alone, RootId, Syslog, NotGiven, Standalone, StandardOpen
<1>0. Startable'  BY DEF Startable
<1> USE DEF SavePid, Written
<1>1. BootType'  BY DEF BootType, Steps, Early
<1>2. TableInv'  BY DEF TableInv, BootType, SocketFor, Early, Steps, Startable
<1>3. ModeInv'  BY DEF ModeInv, BootType, ShouldBeInetd, SocketFor, Detaching, Steps, Early, TableInv
<1>4. ListenInv'  BY DEF ListenInv, TableInv, BootType, ModeInv, Detaching, Steps, Early
<1>5. LogInv'  BY DEF LogInv, TableInv, BootType, Early, Steps
<1>6. ToldInv'  BY DEF ToldInv, BootType, Early, Steps
<1>7. LauncherInv'  BY DEF LauncherInv, BootType, ModeInv, Detaching, Steps, Early
<1> QED BY <1>0, <1>1, <1>2, <1>3, <1>4, <1>5, <1>6, <1>7

LEMMA LauncherExitsKeeps == StartInv /\ LauncherExits /\ UNCHANGED start => StartInv'
<1> SUFFICES ASSUME StartInv, LauncherExits, UNCHANGED start PROVE StartInv'
    OBVIOUS
<1> USE DEF StartInv, At, GoTo, Alone, RootId, Syslog, NotGiven, Standalone, StandardOpen
<1>0. Startable'  BY DEF Startable
<1> USE DEF LauncherExits
<1>1. BootType'  BY DEF BootType, Steps, Early
<1>2. TableInv'  BY DEF TableInv, BootType, SocketFor, Early, Steps, Startable
<1>3. ModeInv'  BY DEF ModeInv, BootType, ShouldBeInetd, SocketFor, Detaching, Steps, Early, TableInv
<1>4. ListenInv'  BY DEF ListenInv, TableInv, BootType, ModeInv, Detaching, Steps, Early
<1>5. LogInv'  BY DEF LogInv, TableInv, BootType, Early, Steps
<1>6. ToldInv'  BY DEF ToldInv, BootType, Early, Steps
<1>7. LauncherInv'  BY DEF LauncherInv, BootType, ModeInv, Detaching, Steps, Early
<1> QED BY <1>0, <1>1, <1>2, <1>3, <1>4, <1>5, <1>6, <1>7

LEMMA SetupRealLogKeeps == StartInv /\ SetupRealLog /\ UNCHANGED start => StartInv'
<1> SUFFICES ASSUME StartInv, SetupRealLog, UNCHANGED start PROVE StartInv'
    OBVIOUS
<1> USE DEF StartInv, At, GoTo, Alone, RootId, Syslog, NotGiven, Standalone, StandardOpen
<1>0. Startable'  BY DEF Startable
<1> DEFINE fd == Free(boot.table)
           table == Open(boot.table, "log")
<1>a. At("log") /\ Alone /\ boot.table = start.table /\ DOMAIN boot.table \subseteq 0..3
  BY DEF SetupRealLog, TableInv, Startable
<1>b. CASE boot.opts.logStderr /\ boot' = [boot EXCEPT !.step = "directory", !.log = 2]
<2>1. BootType'  BY <1>a, <1>b DEF BootType, Steps, Early
<2>2. TableInv'  BY <1>a, <1>b DEF TableInv, BootType, SocketFor, Early, Steps, Startable
<2>3. ModeInv'  BY <1>a, <1>b DEF ModeInv, BootType, ShouldBeInetd, SocketFor, Detaching, Steps, Early, TableInv
<2>4. ListenInv'  BY <1>a, <1>b DEF ListenInv, TableInv, BootType, ModeInv, Detaching, Steps, Early
<2>5. LogInv'  BY <1>a, <1>b DEF LogInv, TableInv, BootType, Early, Steps
<2>6. ToldInv'  BY <1>a, <1>b DEF ToldInv, BootType, Early, Steps
<2>7. LauncherInv'  BY <1>a, <1>b DEF LauncherInv, BootType, ModeInv, Detaching, Steps, Early
<2> QED BY <1>0, <2>1, <2>2, <2>3, <2>4, <2>5, <2>6, <2>7
<1>c. CASE boot.opts.logFile # <<1>> /\ boot' = [boot EXCEPT !.step = "directory", !.log = Syslog]
<2>1. BootType'  BY <1>a, <1>c DEF BootType, Steps, Early
<2>2. TableInv'  BY <1>a, <1>c DEF TableInv, BootType, SocketFor, Early, Steps, Startable
<2>3. ModeInv'  BY <1>a, <1>c DEF ModeInv, BootType, ShouldBeInetd, SocketFor, Detaching, Steps, Early, TableInv
<2>4. ListenInv'  BY <1>a, <1>c DEF ListenInv, TableInv, BootType, ModeInv, Detaching, Steps, Early
<2>5. LogInv'  BY <1>a, <1>c DEF LogInv, TableInv, BootType, Early, Steps
<2>6. ToldInv'  BY <1>a, <1>c DEF ToldInv, BootType, Early, Steps
<2>7. LauncherInv'  BY <1>a, <1>c DEF LauncherInv, BootType, ModeInv, Detaching, Steps, Early
<2> QED BY <1>0, <2>1, <2>2, <2>3, <2>4, <2>5, <2>6, <2>7
<1>d. CASE boot' = [boot EXCEPT !.step = "directory", !.log = fd, !.table = table]
<2>c. DOMAIN boot.table \subseteq 0..4
  BY <1>a
<2>d. /\ DOMAIN table = DOMAIN boot.table \cup {fd} /\ table[fd] = "log"
      /\ \A d \in DOMAIN boot.table : table[d] = boot.table[d]
  BY <2>c, OpenIs
<2>e. fd \in 0..4 /\ fd \notin DOMAIN boot.table /\ (0..2 \subseteq DOMAIN boot.table => fd > 2)
  BY <1>a, <2>c, FreeIs
<2> HIDE DEF fd, table
<2>1. BootType'  BY <1>a, <1>d, <2>d, <2>e DEF BootType, Steps, Early
<2>2. TableInv'  BY <1>a, <1>d, <2>d, <2>e DEF TableInv, BootType, SocketFor, Early, Steps, Startable
<2>3. ModeInv'  BY <1>a, <1>d, <2>d, <2>e DEF ModeInv, BootType, ShouldBeInetd, SocketFor, Detaching, Steps, Early, TableInv
<2>4. ListenInv'  BY <1>a, <1>d, <2>d, <2>e DEF ListenInv, TableInv, BootType, ModeInv, Detaching, Steps, Early
<2>5. LogInv'  BY <1>a, <1>d, <2>d, <2>e DEF LogInv, TableInv, BootType, Early, Steps
<2>6. ToldInv'  BY <1>a, <1>d, <2>d, <2>e DEF ToldInv, BootType, Early, Steps
<2>7. LauncherInv'  BY <1>a, <1>d, <2>d, <2>e DEF LauncherInv, BootType, ModeInv, Detaching, Steps, Early
<2> QED BY <1>0, <2>1, <2>2, <2>3, <2>4, <2>5, <2>6, <2>7
<1> QED BY <1>a, <1>b, <1>c, <1>d DEF SetupRealLog

LEMMA CannotAcceptKeeps == StartInv /\ CannotAccept /\ UNCHANGED start => StartInv'
BY ExitKeeps DEF CannotAccept

LEMMA AlarmRingsKeeps == StartInv /\ AlarmRings /\ UNCHANGED start => StartInv'
<1> SUFFICES ASSUME StartInv, AlarmRings, UNCHANGED start PROVE StartInv'
    OBVIOUS
<1> USE DEF StartInv, At, GoTo, Alone, RootId, Syslog, NotGiven, Standalone, StandardOpen, AlarmRings
<1>0. Startable'  BY DEF Startable
<1>1. BootType'  BY DEF BootType, Steps, Early
<1>2. TableInv'  BY DEF TableInv, BootType, SocketFor, Early, Steps, Startable
<1>3. ModeInv'  BY DEF ModeInv, BootType, ShouldBeInetd, SocketFor, Detaching, Steps, Early, TableInv
<1>4. ListenInv'  BY DEF ListenInv, TableInv, BootType, ModeInv, Detaching, Steps, Early
<1>5. LogInv'  BY DEF LogInv, TableInv, BootType, Early, Steps
<1>6. ToldInv'  BY DEF ToldInv, BootType, Early, Steps
<1>7. LauncherInv'  BY DEF LauncherInv, BootType, ModeInv, Detaching, Steps, Early
<1> QED BY <1>0, <1>1, <1>2, <1>3, <1>4, <1>5, <1>6, <1>7

LEMMA StartInvHolds == StartSpec => []StartInv
<1>1. StartInit => StartInv
  <2> SUFFICES ASSUME StartInit PROVE StartInv
    OBVIOUS
  <2> USE DEF StartInit, StartInv, Startable, Standalone, StandardOpen, Syslog, StartupLog
  <2>1. BootType  BY OptionsTyped DEF BootType, Steps, Early
  <2>2. TableInv  BY DEF TableInv, Early
  <2>3. ModeInv  BY DEF ModeInv, Detaching, Steps, Early
  <2>4. ListenInv  BY DEF ListenInv
  <2>5. LogInv  BY DEF LogInv, Early
  <2>6. ToldInv  BY DEF ToldInv, Early
  <2>7. LauncherInv  BY DEF LauncherInv
  <2> QED BY <2>1, <2>2, <2>3, <2>4, <2>5, <2>6, <2>7
<1>2. StartInv /\ [StartNext /\ UNCHANGED start]_<<start, boot, launcher, pidfile>> => StartInv'
  <2>1. ASSUME StartInv, StartNext, UNCHANGED start PROVE StartInv'
    BY <2>1, ParseOptionKeeps, CheckAllowedKeeps, SetLifetimeKeeps, DiscardRootKeeps, SetupRealLogKeeps,
       EnterTmpTopKeeps, AcquireCredentialsKeeps, SocketListenKeeps, NewGroupKeeps, CatchSignalsKeeps,
       ServeInetdKeeps, CannotAcceptKeeps, DetachKeeps, LeaveTerminalKeeps, SavePidKeeps, LauncherExitsKeeps,
       AlarmRingsKeeps, LauncherKilledKeeps DEF StartNext
  <2>2. ASSUME StartInv, UNCHANGED <<start, boot, launcher, pidfile>> PROVE StartInv'
    BY <2>2 DEF StartInv, Startable, BootType, TableInv, SocketFor, ModeInv, ListenInv, LogInv, ToldInv, LauncherInv,
                Standalone, StandardOpen, ShouldBeInetd
  <2> QED BY <2>1, <2>2
<1> QED BY <1>1, <1>2, PTL DEF StartSpec

\* What serves is what the command line says: the process is not root, ends
\* when its lifetime is over, knows who may connect, listens and logs where it
\* was told, and writes nothing to inetd's client; and where the launcher ends
\* well, the pid file is the daemon's (DistccdStart, StartedAsTold).
THEOREM StartedAlways == StartSpec => []StartedAsTold
<1>1. StartInv => StartedAsTold
  <2> SUFFICES ASSUME StartInv PROVE StartedAsTold
    OBVIOUS
  <2> USE DEF StartInv, At, Standalone, StandardOpen
  <2>1. ASSUME At("serving")
        PROVE  /\ boot.uid # RootId /\ boot.alarm = boot.opts.lifetime
               /\ Standalone => boot.opts.allow # {} /\ boot.maxKids > 0 /\ boot.catches
               /\ ~Standalone => ShouldBeInetd(boot.opts, start.table)
               /\ (StandardOpen /\ boot.opts.logFile = <<1>> /\ ~boot.opts.logStderr) => boot.table[boot.log] = "log"
    BY <2>1 DEF ToldInv, ModeInv, LogInv, Early
  <2>2. Standalone /\ StandardOpen => boot.table[boot.listen] = "listening"
    BY DEF ListenInv
  <2>3. (boot.log \in DOMAIN boot.table /\ boot.table[boot.log] = "socket") => boot.opts.logStderr
    BY DEF LogInv
  <2>4. launcher.step = "success" =>
            Standalone /\ ((boot.opts.pidFile = <<1>> /\ boot.exit = "no") => pidfile = "daemon")
    BY DEF LauncherInv
  <2> QED BY <2>1, <2>2, <2>3, <2>4 DEF StartedAsTold
<1> QED BY <1>1, StartInvHolds, PTL

=============================================================================
