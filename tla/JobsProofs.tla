------------------------------- MODULE JobsProofs -------------------------------
(***************************************************************************)
(* What Jobs keeps, for any number of processes and any exit statuses: no   *)
(* process is forgotten, the terminal comes back, a status is the last      *)
(* child's, and a job is resumed as a whole.                                *)
(***************************************************************************)
EXTENDS Jobs, ListFacts

-----------------------------------------------------------------------------
(* The inductive invariant. *)

\* Where the shell has no job in hand.
Idle == {"prompt", "wait all", "wait next"}

\* A job, given the processes pr and the next id n: its children were started,
\* all of them in the group of the first if it has one, and only such a job is
\* ever marked stopped.
Sound(j, pr, n) ==
    /\ Len(j.pids) > 0 /\ j.id < n
    /\ \A p \in PidsOf(j) : pr[p].st # "none" /\ (j.grouped => pr[p].group = j.pids[1])
    /\ j.stopped => j.grouped

Apart(a, b) == a.id # b.id /\ PidsOf(a) \cap PidsOf(b) = {}

\* The table t beside the job c in hand.
TableSound(t, c, pr, n) ==
    /\ \A i \in 1..Len(t) : Sound(t[i], pr, n) /\ t[i].id # 0 /\ Apart(t[i], c)
    /\ \A i, k \in 1..Len(t) : i # k => Apart(t[i], t[k])

\* The job in hand and the terminal y, the shell being at a.
HandSound(a, c, pr, n, y) ==
    /\ IF a \in Idle THEN c = NoJob ELSE Sound(c, pr, n)
    /\ a = "foreground" => c.grouped
    /\ y # 0 => a = "foreground" /\ y = c.pids[1]

\* The first b processes were started, and every id is of a job that has one of
\* them: the command in the foreground has not had its id yet.
Numbered(b, a, c, pr, n) ==
    /\ \A p \in Pid : pr[p].st # "none" <=> p <= b
    /\ n <= b + 1
    /\ a = "foreground" /\ c.id = 0 => n <= b

\* NoneForgotten, of the processes pr with the statuses re collected.
Remembered(t, c, pr, re, given) ==
    \A p \in Pid : pr[p].st # "none" /\ re[p] = NoCode =>
        p \in PidsOf(c) \cup given \/ \E i \in 1..Len(t) : p \in PidsOf(t[i])

TypeInv ==
    /\ proc \in [Pid -> ProcessRecords]
    /\ reaped \in [Pid -> {NoCode, 137} \cup Codes]
    /\ table \in Seq(JobRecords) /\ cur \in JobRecords /\ nextId \in Nat \ {0}
    /\ at \in {"prompt", "foreground", "wait", "wait pid", "wait all", "wait one of all", "wait next"}
    /\ status \in Codes \cup {0, 1, 127, 137, 148}

HasCode(r) == r.st = "ended" => r.code # NoCode

JobsInv ==
    /\ TypeInv
    /\ \A p \in Pid : HasCode(proc[p])
    /\ \E b \in 0..MaxPids : Numbered(b, at, cur, proc, nextId)
    /\ TableSound(table, cur, proc, nextId)
    /\ HandSound(at, cur, proc, nextId, tty)
    /\ Remembered(table, cur, proc, reaped, disowned \cup behind)

LEMMA Types ==
    ASSUME JobsInv
    PROVE  /\ proc \in [Pid -> ProcessRecords] /\ \A p \in Pid : proc[p] \in ProcessRecords
           /\ reaped \in [Pid -> {NoCode, 137} \cup Codes]
           /\ table \in Seq(JobRecords) /\ cur \in JobRecords /\ nextId \in Nat /\ nextId # 0
           /\ at \in {"prompt", "foreground", "wait", "wait pid", "wait all", "wait one of all", "wait next"}
           /\ status \in Codes \cup {0, 1, 127, 137, 148}
<1>1. TypeInv
  BY Zenon DEF JobsInv
<1> HIDE DEF JobsInv
<1> QED  BY <1>1 DEF TypeInv

LEMMA Entries == ASSUME JobsInv PROVE \A i \in 1..Len(table) : table[i] \in JobRecords
<1>1. table \in Seq(JobRecords)
  BY Types, Zenon
<1> QED  BY <1>1

LEMMA NextIdFacts == ASSUME JobsInv PROVE nextId <= nextId /\ nextId \in Nat \ {0}
<1>1. nextId \in Nat /\ nextId # 0
  BY Types, Zenon
<1> QED  BY <1>1

LEMMA Parts ==
    ASSUME JobsInv
    PROVE  /\ \A p \in Pid : HasCode(proc[p])
           /\ TableSound(table, cur, proc, nextId) /\ HandSound(at, cur, proc, nextId, tty)
           /\ Remembered(table, cur, proc, reaped, disowned \cup behind)
  BY Zenon DEF JobsInv

-----------------------------------------------------------------------------
(* Processes. *)

LEMMA Facts == MaxPids \in Nat /\ Codes \subseteq 0..255 /\ NoCode \notin Codes /\ NoCode # 137
  BY JobsAssumption DEF JobsAssumption, NoCode

LEMMA PidFacts ==
    ASSUME NEW j \in JobRecords
    PROVE  /\ PidsOf(j) \subseteq Pid
           /\ Len(j.pids) \in Nat
           /\ Len(j.pids) > 0 => j.pids[1] \in PidsOf(j) /\ LastPid(j) \in PidsOf(j)
           /\ Len(j.pids) > 0 => Len(j.pids) > 1 \/ LastPid(j) = j.pids[1]
<1>1. j.pids \in Seq(Pid)
  BY DEF JobRecords
<1>2. j.pids \in [1..Len(j.pids) -> Pid] /\ Len(j.pids) \in Nat /\ DOMAIN j.pids = 1..Len(j.pids)
  BY <1>1
<1> QED  BY <1>2 DEF PidsOf, LastPid, ToSet

LEMMA NoJobFacts == NoJob \in JobRecords /\ PidsOf(NoJob) = {} /\ NoJob.id = 0
  BY Facts DEF NoJob, JobRecords, PidsOf, ToSet

\* What a signal or the passing of time does to a process: it neither appears nor
\* goes, and keeps its group.
Later(r, s) == (s.st = "none" <=> r.st = "none") /\ s.group = r.group

\* The processes ps are pr and others.
Grown(pr, ps) == \A p \in Pid : pr[p].st # "none" => ps[p].st # "none" /\ ps[p].group = pr[p].group

LEMMA SignalFacts ==
    ASSUME NEW r \in ProcessRecords, HasCode(r)
    PROVE  /\ Killed(r) \in ProcessRecords /\ Later(r, Killed(r)) /\ HasCode(Killed(r))
           /\ Stopped(r) \in ProcessRecords /\ Later(r, Stopped(r)) /\ HasCode(Stopped(r))
           /\ Continued(r) \in ProcessRecords /\ Later(r, Continued(r)) /\ HasCode(Continued(r))
           /\ Continued(r).st # "stopped"
<1>1. /\ r.st \in {"none", "running", "stopped", "ended"} /\ r.code \in {NoCode, 137} \cup Codes
      /\ r.group \in {0} \cup Pid /\ r.news \in BOOLEAN
      /\ r = [st |-> r.st, code |-> r.code, group |-> r.group, news |-> r.news]
  BY DEF ProcessRecords
<1>2. NoCode # 137
  BY DEF NoCode
<1>3. Killed(r) \in ProcessRecords /\ Later(r, Killed(r)) /\ HasCode(Killed(r))
  <2>1. CASE r.st \in {"running", "stopped"}
    <3>1. Killed(r) = [st |-> "ended", code |-> 137, group |-> r.group, news |-> FALSE]
      BY <1>1, <2>1 DEF Killed
    <3> QED  BY <1>1, <1>2, <2>1, <3>1 DEF ProcessRecords, Later, HasCode
  <2>2. CASE r.st \notin {"running", "stopped"}
    BY <2>2 DEF Killed, Later
  <2> QED  BY <2>1, <2>2
<1>4. Stopped(r) \in ProcessRecords /\ Later(r, Stopped(r)) /\ HasCode(Stopped(r))
  <2>1. CASE r.st = "running"
    <3>1. Stopped(r) = [st |-> "stopped", code |-> r.code, group |-> r.group, news |-> TRUE]
      BY <1>1, <2>1 DEF Stopped
    <3> QED  BY <1>1, <2>1, <3>1 DEF ProcessRecords, Later, HasCode
  <2>2. CASE r.st # "running"
    BY <2>2 DEF Stopped, Later
  <2> QED  BY <2>1, <2>2
<1>5. Continued(r) \in ProcessRecords /\ Later(r, Continued(r)) /\ HasCode(Continued(r)) /\ Continued(r).st # "stopped"
  <2>1. CASE r.st = "stopped"
    <3>1. Continued(r) = [st |-> "running", code |-> r.code, group |-> r.group, news |-> FALSE]
      BY <1>1, <2>1 DEF Continued
    <3> QED  BY <1>1, <2>1, <3>1 DEF ProcessRecords, Later, HasCode
  <2>2. CASE r.st # "stopped"
    BY <2>2 DEF Continued, Later
  <2> QED  BY <2>1, <2>2
<1> QED  BY <1>3, <1>4, <1>5

-----------------------------------------------------------------------------
(* Tables. *)

LEMMA DrawnSound ==
    ASSUME NEW s \in Seq(JobRecords), NEW t \in Seq(JobRecords), NEW c, NEW d, NEW pr, NEW n,
           TableSound(s, c, pr, n), Drawn(t, s), \A i \in 1..Len(t) : Apart(t[i], d)
    PROVE  TableSound(t, d, pr, n)
<1>1. \A i \in 1..Len(t) : Sound(t[i], pr, n) /\ t[i].id # 0
  BY DEF TableSound, Drawn
<1>2. ASSUME NEW i \in 1..Len(t), NEW k \in 1..Len(t), i # k PROVE Apart(t[i], t[k])
  <2>1. PICK a \in 1..Len(s), b \in 1..Len(s) : a # b /\ t[i] = s[a] /\ t[k] = s[b]
    BY <1>2 DEF Drawn
  <2> QED  BY <2>1 DEF TableSound
<1> QED  BY <1>1, <1>2 DEF TableSound

\* What a job has does not go.
LEMMA SoundLater ==
    ASSUME NEW j \in JobRecords, NEW pr, NEW ps, NEW n \in Nat, NEW m \in Nat, n <= m,
           Grown(pr, ps), Sound(j, pr, n)
    PROVE  Sound(j, ps, m)
<1>1. \A p \in PidsOf(j) : p \in Pid
  BY PidFacts
<1>2. j.id \in Int
  BY Facts DEF JobRecords
<1> QED  BY <1>1, <1>2 DEF Sound, Grown

LEMMA TableLater ==
    ASSUME NEW s \in Seq(JobRecords), NEW c, NEW pr, NEW ps, NEW n \in Nat, NEW m \in Nat, n <= m,
           Grown(pr, ps), TableSound(s, c, pr, n)
    PROVE  TableSound(s, c, ps, m)
<1>1. ASSUME NEW i \in 1..Len(s) PROVE Sound(s[i], ps, m)
  <2>1. s[i] \in JobRecords /\ Sound(s[i], pr, n)
    BY DEF TableSound
  <2> QED  BY <2>1, SoundLater
<1> QED  BY <1>1 DEF TableSound

LEMMA AppendSound ==
    ASSUME NEW s \in Seq(JobRecords), NEW j \in JobRecords, NEW c, NEW d, NEW pr, NEW n,
           TableSound(s, c, pr, n), Sound(j, pr, n), j.id # 0, Apart(j, d),
           \A i \in 1..Len(s) : Apart(s[i], j) /\ Apart(s[i], d)
    PROVE  TableSound(Append(s, j), d, pr, n)
<1> DEFINE t == Append(s, j)
<1>1. Len(s) \in Nat /\ Len(t) = Len(s) + 1 /\ t[Len(t)] = j /\ \A i \in 1..Len(s) : t[i] = s[i]
  OBVIOUS
<1>2. \A i \in 1..Len(t) : i = Len(t) \/ i \in 1..Len(s)
  BY <1>1
<1> HIDE DEF t
<1>3. \A i \in 1..Len(t) : Sound(t[i], pr, n) /\ t[i].id # 0 /\ Apart(t[i], d)
  BY <1>1, <1>2 DEF TableSound
<1>4. \A i \in 1..Len(s) : Apart(j, s[i])
  BY DEF Apart
<1>5. \A i, k \in 1..Len(t) : i # k => Apart(t[i], t[k])
  BY <1>1, <1>2, <1>4 DEF TableSound
<1> QED  BY <1>3, <1>5 DEF TableSound, t

-----------------------------------------------------------------------------
(* The processes' own steps, and signals. *)

\* A step that only changes what processes do, and the status.
LEMMA KernelStep ==
    ASSUME JobsInv, proc' \in [Pid -> ProcessRecords],
           \A p \in Pid : Later(proc[p], proc'[p]) /\ HasCode(proc'[p]),
           UNCHANGED <<reaped, table, nextId, at, cur, tty, disowned, behind>>,
           status' \in {status, 0}
    PROVE  JobsInv'
<1>0. /\ nextId \in Nat /\ nextId # 0 /\ cur \in JobRecords /\ table \in Seq(JobRecords)
      /\ status \in Codes \cup {0, 1, 127, 137, 148}
  BY Types, Zenon
<1>1. TypeInv'
  <2>1. status' \in Codes \cup {0, 1, 127, 137, 148} /\ nextId' \in Nat \ {0}
    BY <1>0
  <2> QED  BY <2>1, Types DEF TypeInv
<1>2. PICK b \in 0..MaxPids : Numbered(b, at, cur, proc, nextId)
  BY DEF JobsInv
<1>3. Numbered(b, at, cur, proc', nextId)
  BY <1>2 DEF Numbered, Later
<1>4. Grown(proc, proc')
  BY DEF Later, Grown
<1>5. nextId \in Nat /\ nextId <= nextId /\ cur \in JobRecords /\ table \in Seq(JobRecords)
  BY <1>0
<1>6. TableSound(table, cur, proc', nextId)
  BY <1>4, <1>5, TableLater, Parts
<1>7. HandSound(at, cur, proc', nextId, tty)
  <2>1. Sound(cur, proc, nextId) => Sound(cur, proc', nextId)
    BY <1>4, <1>5, SoundLater
  <2> QED  BY <2>1, Parts DEF HandSound
<1>8. Remembered(table, cur, proc', reaped, disowned \cup behind)
  BY Parts DEF Remembered, Later
<1> QED  BY <1>1, <1>3, <1>6, <1>7, <1>8 DEF JobsInv

LEMMA ExitInv == ASSUME JobsInv, NEW p \in Pid, Exit(p) PROVE JobsInv'
<1>1. PICK c \in Codes : proc' = [proc EXCEPT ![p].st = "ended", ![p].code = c]
  BY DEF Exit
<1>2. proc \in [Pid -> ProcessRecords] /\ \A q \in Pid : HasCode(proc[q])
  BY Types, Parts
<1>3. PICK r \in ProcessRecords : r = proc[p]
  BY <1>2
<1>4. PICK s : s = [r EXCEPT !.st = "ended", !.code = c]
  OBVIOUS
<1>5. r.st = "running"
  BY <1>3 DEF Exit
<1>6. s \in ProcessRecords /\ Later(r, s) /\ HasCode(s)
  BY <1>4, <1>5, Facts DEF ProcessRecords, Later, HasCode
<1>7. proc' = [q \in Pid |-> IF q = p THEN s ELSE proc[q]]
  BY <1>1, <1>2, <1>3, <1>4
<1>8. proc' \in [Pid -> ProcessRecords] /\ \A q \in Pid : Later(proc[q], proc'[q]) /\ HasCode(proc'[q])
  BY <1>2, <1>3, <1>6, <1>7 DEF Later
<1> QED  BY <1>8, KernelStep DEF Exit, notes

\* Some processes get one of the signals.
LEMMA SignalStep ==
    ASSUME JobsInv, NEW S,
           \/ proc' = [p \in Pid |-> IF p \in S THEN Killed(proc[p]) ELSE proc[p]]
           \/ proc' = [p \in Pid |-> IF p \in S THEN Stopped(proc[p]) ELSE proc[p]]
           \/ proc' = [p \in Pid |-> IF p \in S THEN Continued(proc[p]) ELSE proc[p]]
    PROVE  proc' \in [Pid -> ProcessRecords] /\ \A p \in Pid : Later(proc[p], proc'[p]) /\ HasCode(proc'[p])
<1>1. \A p \in Pid : proc[p] \in ProcessRecords /\ HasCode(proc[p]) /\ Later(proc[p], proc[p])
  <2>1. \A p \in Pid : proc[p] \in ProcessRecords
    BY Types, Zenon
  <2>2. \A p \in Pid : HasCode(proc[p])
    BY Parts, Zenon
  <2> QED  BY <2>1, <2>2, Zenon DEF Later
<1>2. CASE proc' = [p \in Pid |-> IF p \in S THEN Killed(proc[p]) ELSE proc[p]]
  <2>1. \A p \in Pid : Killed(proc[p]) \in ProcessRecords /\ Later(proc[p], Killed(proc[p])) /\ HasCode(Killed(proc[p]))
    BY <1>1, SignalFacts
  <2> QED  BY <1>1, <1>2, <2>1
<1>3. CASE proc' = [p \in Pid |-> IF p \in S THEN Stopped(proc[p]) ELSE proc[p]]
  <2>1. \A p \in Pid : Stopped(proc[p]) \in ProcessRecords /\ Later(proc[p], Stopped(proc[p])) /\ HasCode(Stopped(proc[p]))
    BY <1>1, SignalFacts
  <2> QED  BY <1>1, <1>3, <2>1
<1>4. CASE proc' = [p \in Pid |-> IF p \in S THEN Continued(proc[p]) ELSE proc[p]]
  <2>1. \A p \in Pid : /\ Continued(proc[p]) \in ProcessRecords
                       /\ Later(proc[p], Continued(proc[p])) /\ HasCode(Continued(proc[p]))
    BY <1>1, SignalFacts
  <2> QED  BY <1>1, <1>4, <2>1
<1> QED  BY <1>2, <1>3, <1>4

LEMMA CtrlZInv == ASSUME JobsInv, CtrlZ PROVE JobsInv'
<1> DEFINE S == {p \in Pid : proc[p].group = tty}
<1>1. proc' = [p \in Pid |-> IF p \in S THEN Stopped(proc[p]) ELSE proc[p]]
  BY DEF CtrlZ
<1> HIDE DEF S
<1> QED  BY <1>1, SignalStep, KernelStep DEF CtrlZ, notes

LEMMA ReadsTerminalInv == ASSUME JobsInv, NEW p \in Pid, ReadsTerminal(p) PROVE JobsInv'
<1>1. proc \in [Pid -> ProcessRecords]
  BY Types
<1>2. proc' = [q \in Pid |-> IF q \in {p} THEN Stopped(proc[q]) ELSE proc[q]]
  BY <1>1 DEF ReadsTerminal
<1> QED  BY <1>2, SignalStep, KernelStep DEF ReadsTerminal, notes

LEMMA KillInv == ASSUME JobsInv, NEW i, NEW sig \in Signals, Kill(i, sig) PROVE JobsInv'
<1> DEFINE S == PidsOf(table[i])
<1>1. proc' = [p \in Pid |-> IF p \in S THEN Signalled(sig, proc[p]) ELSE proc[p]]
  BY DEF Kill
<1> HIDE DEF S
<1>2. sig = "kill -KILL" \/ sig = "kill -STOP" \/ sig = "kill -CONT"
  BY DEF Signals
<1>3. CASE sig = "kill -KILL"
  BY <1>1, <1>3, SignalStep, KernelStep DEF Kill, notes, Signalled
<1>4. CASE sig = "kill -STOP"
  BY <1>1, <1>4, SignalStep, KernelStep DEF Kill, notes, Signalled
<1>5. CASE sig = "kill -CONT"
  BY <1>1, <1>5, SignalStep, KernelStep DEF Kill, notes, Signalled
<1> QED  BY <1>2, <1>3, <1>4, <1>5

-----------------------------------------------------------------------------
(* Starting. *)

\* The numbers handed out are the next ones.
LEMMA NextPids ==
    ASSUME JobsInv, NEW b \in 0..MaxPids, Numbered(b, at, cur, proc, nextId), NEW k \in KindNames
    PROVE  NewPids(k) = IF k = "pipeline" THEN <<b + 1, b + 2>> ELSE <<b + 1>>
<1> DEFINE B == {p \in Pid : proc[p].st # "none"}
<1>1. B = 1..b
  BY Facts DEF Numbered, Pid
<1>2. Cardinality(1..b) = b
  BY Facts, FS_Interval
<1> QED  BY <1>1, <1>2 DEF NewPids

\* The processes b+1..e are started, and are the job's.
Start(k, b, e) ==
    /\ \A p \in Pid : p \in ToSet(NewPids(k)) <=> b < p /\ p <= e
    /\ NewPids(k) \in Seq(Pid) /\ Len(NewPids(k)) > 0
    /\ proc' = [p \in Pid |-> IF b < p /\ p <= e THEN Born(p, GroupOf(k, NewPids(k))) ELSE proc[p]]
    /\ GroupOf(k, NewPids(k)) \in {0} \cup Pid

LEMMA Spawned ==
    ASSUME JobsInv, NEW b \in 0..MaxPids, Numbered(b, at, cur, proc, nextId), NEW k \in KindNames,
           Spawn(k, NewPids(k))
    PROVE  \E e \in 0..MaxPids : b < e /\ Start(k, b, e)
<1>1. PICK pids : pids = NewPids(k)
  OBVIOUS
<1>2. pids = IF k = "pipeline" THEN <<b + 1, b + 2>> ELSE <<b + 1>>
  BY <1>1, NextPids
<1>3. \A i \in 1..Len(pids) : pids[i] \in Pid
  BY <1>1 DEF Spawn
<1>4. proc' = [p \in Pid |-> IF p \in ToSet(pids) THEN Born(p, GroupOf(k, pids)) ELSE proc[p]]
  BY <1>1 DEF Spawn
<1>5. b \in Nat /\ b <= MaxPids /\ MaxPids \in Nat
  BY Facts
<1>6. \E e \in 0..MaxPids : b < e /\ (\A p \in Pid : p \in ToSet(pids) <=> b < p /\ p <= e)
                            /\ pids \in Seq(Pid) /\ Len(pids) > 0
  <2>1. CASE k = "pipeline"
    <3>1. pids = <<b + 1, b + 2>> /\ Len(pids) = 2 /\ pids[1] = b + 1 /\ pids[2] = b + 2 /\ DOMAIN pids = 1..2
      BY <1>2, <2>1
    <3>2. ToSet(pids) = {b + 1, b + 2}
      BY <3>1 DEF ToSet
    <3>3. b + 1 \in Pid /\ b + 2 \in Pid
      BY <1>3, <3>1
    <3>4. b + 2 \in 0..MaxPids /\ b < b + 2 /\ \A p \in Pid : p \in {b + 1, b + 2} <=> b < p /\ p <= b + 2
      BY <1>5, <3>3 DEF Pid
    <3>5. pids \in Seq(Pid) /\ Len(pids) > 0
      BY <3>1, <3>3
    <3> QED  BY <3>2, <3>4, <3>5
  <2>2. CASE k # "pipeline"
    <3>1. pids = <<b + 1>> /\ Len(pids) = 1 /\ pids[1] = b + 1 /\ DOMAIN pids = 1..1
      BY <1>2, <2>2
    <3>2. ToSet(pids) = {b + 1}
      BY <3>1 DEF ToSet
    <3>3. b + 1 \in Pid
      BY <1>3, <3>1
    <3>4. b + 1 \in 0..MaxPids /\ b < b + 1 /\ \A p \in Pid : p \in {b + 1} <=> b < p /\ p <= b + 1
      BY <1>5, <3>3 DEF Pid
    <3>5. pids \in Seq(Pid) /\ Len(pids) > 0
      BY <3>1, <3>3
    <3> QED  BY <3>2, <3>4, <3>5
  <2> QED  BY <2>1, <2>2
<1>7. PICK e \in 0..MaxPids : b < e /\ (\A p \in Pid : p \in ToSet(pids) <=> b < p /\ p <= e)
                            /\ pids \in Seq(Pid) /\ Len(pids) > 0
  BY <1>6
<1>8. GroupOf(k, pids) \in {0} \cup Pid
  <2>1. pids[1] \in Pid
    BY <1>7
  <2> QED  BY <2>1 DEF GroupOf
<1>9. proc' = [p \in Pid |-> IF b < p /\ p <= e THEN Born(p, GroupOf(k, pids)) ELSE proc[p]]
  BY <1>4, <1>7
<1> QED  BY <1>1, <1>7, <1>8, <1>9 DEF Start

LEMMA StartedProcesses ==
    ASSUME JobsInv, NEW b \in 0..MaxPids, NEW e \in 0..MaxPids, NEW k \in KindNames,
           Numbered(b, at, cur, proc, nextId), b < e, Start(k, b, e)
    PROVE  /\ proc' \in [Pid -> ProcessRecords] /\ \A p \in Pid : HasCode(proc'[p])
           /\ \A p \in Pid : proc'[p].st # "none" <=> p <= e
           /\ Grown(proc, proc')
<1>1. proc \in [Pid -> ProcessRecords] /\ \A p \in Pid : proc[p] \in ProcessRecords
  BY Types, Zenon
<1>2. \A p \in Pid : HasCode(proc[p])
  BY Parts
<1>3. PICK r : r = [st |-> "running", code |-> NoCode, group |-> GroupOf(k, NewPids(k)), news |-> FALSE]
  OBVIOUS
<1>4. r \in ProcessRecords /\ HasCode(r) /\ r.st = "running"
  BY <1>3 DEF Start, ProcessRecords, HasCode
<1>5. proc' = [p \in Pid |-> IF b < p /\ p <= e THEN r ELSE proc[p]]
  BY <1>3 DEF Start, Born
<1>6. proc' \in [Pid -> ProcessRecords]
  BY <1>1, <1>4, <1>5
<1>7. \A p \in Pid : HasCode(proc'[p])
  BY <1>2, <1>4, <1>5
<1>8. \A p \in Pid : (proc[p].st # "none" <=> p <= b) /\ p \in Nat
  BY Facts DEF Numbered, Pid
<1>9. \A p \in Pid : proc'[p].st # "none" <=> p <= e
  BY <1>4, <1>5, <1>8, Facts
<1>10. Grown(proc, proc')
  BY <1>5, <1>8, Facts DEF Grown
<1> QED  BY <1>6, <1>7, <1>9, <1>10

\* The new job has the processes no other has.
LEMMA StartedJob ==
    ASSUME JobsInv, NEW b \in 0..MaxPids, NEW e \in 0..MaxPids, NEW k \in KindNames,
           Numbered(b, at, cur, proc, nextId), b < e, Start(k, b, e),
           NEW j \in JobRecords, j.pids = NewPids(k), j.grouped = (k # "subshell"), ~j.stopped,
           NEW m, j.id < m
    PROVE  Sound(j, proc', m) /\ \A i \in 1..Len(table) : PidsOf(table[i]) \cap PidsOf(j) = {}
<1>1. \A p \in PidsOf(j) : p \in Pid /\ b < p /\ p <= e
  BY PidFacts DEF Start, PidsOf
<1>2. \A p \in PidsOf(j) : proc'[p] = Born(p, GroupOf(k, NewPids(k)))
  BY <1>1 DEF Start
<1>3. \A p \in PidsOf(j) : proc'[p].st # "none" /\ proc'[p].group = GroupOf(k, NewPids(k))
  BY <1>2 DEF Born
<1>4. j.grouped => GroupOf(k, NewPids(k)) = j.pids[1]
  BY DEF GroupOf
<1>5. Sound(j, proc', m)
  BY <1>3, <1>4 DEF Sound, Start
<1>6. ASSUME NEW i \in 1..Len(table) PROVE PidsOf(table[i]) \cap PidsOf(j) = {}
  <2>0. table \in Seq(JobRecords)
    BY Types, Zenon
  <2>1. table[i] \in JobRecords
    BY <2>0
  <2>2. \A p \in PidsOf(table[i]) : p \in Pid /\ proc[p].st # "none"
    BY <2>1, PidFacts, Parts DEF TableSound, Sound
  <2>3. \A p \in PidsOf(table[i]) : p \in Pid /\ p <= b
    BY <2>2 DEF Numbered
  <2> QED  BY <1>1, <2>3, Facts DEF Pid
<1> QED  BY <1>5, <1>6

LEMMA HandFacts ==
    ASSUME JobsInv
    PROVE  /\ at \in Idle => cur = NoJob /\ tty = 0
           /\ at \notin Idle => Sound(cur, proc, nextId)
           /\ \A i \in 1..Len(table) : table[i].id # 0 /\ table[i].id < nextId /\ Apart(table[i], cur)
<1>1. HandSound(at, cur, proc, nextId, tty) /\ TableSound(table, cur, proc, nextId)
  BY Parts
<1>2. "foreground" \notin Idle
  BY DEF Idle
<1> QED  BY <1>1, <1>2 DEF HandSound, TableSound, Sound

LEMMA BackgroundInv == ASSUME JobsInv, NEW k \in Kinds, Background(k) PROVE JobsInv'
<1>1. PICK b \in 0..MaxPids : Numbered(b, at, cur, proc, nextId)
  BY DEF JobsInv
<1>2. k \in KindNames /\ at = "prompt" /\ at \in Idle
  BY JobsAssumption DEF JobsAssumption, Background, Idle
<1>3. PICK e \in 0..MaxPids : b < e /\ Start(k, b, e)
  BY <1>1, <1>2, Spawned DEF Background
<1>4. nextId \in Nat /\ nextId # 0 /\ cur \in JobRecords /\ table \in Seq(JobRecords)
  BY Types, Zenon
<1>5. cur = NoJob /\ tty = 0
  BY <1>2, HandFacts
<1>6. nextId <= b + 1 /\ b \in Nat /\ e \in Nat /\ e <= MaxPids
  BY <1>1, Facts DEF Numbered
<1>7. PICK j : j = NewJob(k, NewPids(k))
  OBVIOUS
<1>8. j \in JobRecords /\ j.id = nextId /\ j.pids = NewPids(k) /\ j.grouped = (k # "subshell") /\ ~j.stopped
  <2>1. nextId \in 0..MaxPids
    BY <1>3, <1>4, <1>6, Facts
  <2> QED  BY <1>3, <1>7, <2>1 DEF NewJob, JobRecords, Start
<1>9. /\ proc' \in [Pid -> ProcessRecords] /\ \A p \in Pid : HasCode(proc'[p])
      /\ \A p \in Pid : proc'[p].st # "none" <=> p <= e
      /\ Grown(proc, proc')
  BY <1>1, <1>2, <1>3, StartedProcesses
<1>10. nextId + 1 \in Nat /\ nextId < nextId + 1 /\ nextId <= nextId + 1 /\ nextId + 1 # 0 /\ nextId + 1 <= e + 1
  BY <1>3, <1>4, <1>6
<1>11. Sound(j, proc', nextId + 1) /\ \A i \in 1..Len(table) : PidsOf(table[i]) \cap PidsOf(j) = {}
  BY <1>1, <1>2, <1>3, <1>8, <1>10, StartedJob
<1>12. /\ table' = Append(table, j) /\ nextId' = nextId + 1 /\ status' = 0 /\ at' = at /\ cur' = cur /\ tty' = tty
       /\ reaped' = reaped /\ disowned' = disowned /\ behind' = behind
  BY <1>7 DEF Background, Spawn, notes
<1>13. Numbered(e, at', cur', proc', nextId')
  BY <1>2, <1>9, <1>10, <1>12 DEF Numbered
<1>14. TableSound(table', cur', proc', nextId')
  <2>1. TableSound(table, cur, proc', nextId + 1)
    BY <1>4, <1>9, <1>10, TableLater, Parts
  <2>2. Apart(j, NoJob)
    BY <1>4, <1>8, NoJobFacts DEF Apart
  <2>3. \A i \in 1..Len(table) : table[i].id < nextId /\ table[i].id \in Nat
    <3>1. \A i \in 1..Len(table) : table[i] \in JobRecords
      BY <1>4
    <3> QED  BY <3>1, HandFacts, Facts DEF JobRecords
  <2>4. \A i \in 1..Len(table) : Apart(table[i], j) /\ Apart(table[i], NoJob)
    BY <1>4, <1>5, <1>8, <1>11, <2>3, HandFacts DEF Apart
  <2> QED  BY <1>4, <1>5, <1>8, <1>11, <1>12, <2>1, <2>2, <2>4, AppendSound
<1>15. HandSound(at', cur', proc', nextId', tty')
  BY <1>2, <1>5, <1>12 DEF HandSound
<1>16. Remembered(table', cur', proc', reaped', (disowned \cup behind)')
  <2>1. ASSUME NEW p \in Pid, proc'[p].st # "none", reaped[p] = NoCode, p \notin disowned \cup behind
        PROVE  \E i \in 1..Len(table') : p \in PidsOf(table'[i])
    <3>1. CASE b < p /\ p <= e
      <4>1. p \in PidsOf(j)
        BY <1>3, <1>8, <3>1 DEF Start, PidsOf
      <4>2. Len(table') \in 1..Len(table') /\ table'[Len(table')] = j
        BY <1>4, <1>8, <1>12
      <4> QED  BY <4>1, <4>2
    <3>2. CASE ~(b < p /\ p <= e)
      <4>1. proc[p].st # "none"
        BY <1>3, <2>1, <3>2 DEF Start
      <4>2. PICK i \in 1..Len(table) : p \in PidsOf(table[i])
        BY <1>5, <2>1, <4>1, Parts, NoJobFacts DEF Remembered
      <4>3. i \in 1..Len(table') /\ table'[i] = table[i]
        BY <1>4, <1>8, <1>12
      <4> QED  BY <4>2, <4>3
    <3> QED  BY <3>1, <3>2
  <2> QED  BY <1>12, <2>1 DEF Remembered
<1>17. TypeInv'
  <2>1. table' \in Seq(JobRecords)
    BY <1>4, <1>8, <1>12
  <2>2. nextId' \in Nat \ {0} /\ status' \in Codes \cup {0, 1, 127, 137, 148}
    BY <1>10, <1>12
  <2> QED  BY <1>9, <1>12, <2>1, <2>2, Types DEF TypeInv
<1> QED  BY <1>9, <1>13, <1>14, <1>15, <1>16, <1>17 DEF JobsInv

LEMMA ForegroundInv == ASSUME JobsInv, Foreground PROVE JobsInv'
<1>1. PICK b \in 0..MaxPids : Numbered(b, at, cur, proc, nextId)
  BY DEF JobsInv
<1>2. "command" \in KindNames /\ at = "prompt" /\ at \in Idle
  BY DEF Foreground, Idle, KindNames
<1>3. PICK e \in 0..MaxPids : b < e /\ Start("command", b, e)
  BY <1>1, <1>2, Spawned DEF Foreground
<1>4. nextId \in Nat /\ nextId # 0 /\ cur \in JobRecords /\ table \in Seq(JobRecords)
  BY Types, Zenon
<1>5. cur = NoJob /\ tty = 0
  BY <1>2, HandFacts
<1>6. nextId <= b + 1 /\ b \in Nat /\ e \in Nat /\ e <= MaxPids
  BY <1>1, Facts DEF Numbered
<1>7. PICK j : j = [NewJob("command", NewPids("command")) EXCEPT !.id = 0]
  OBVIOUS
<1>8. j \in JobRecords /\ j.id = 0 /\ j.pids = NewPids("command") /\ j.grouped = ("command" # "subshell") /\ ~j.stopped
      /\ j.grouped
  <2>1. j = [id |-> 0, pids |-> NewPids("command"), grouped |-> TRUE, stopped |-> FALSE]
    BY <1>7 DEF NewJob
  <2>2. 0 \in 0..MaxPids /\ NewPids("command") \in Seq(Pid)
    BY <1>3, Facts DEF Start
  <2> QED  BY <2>1, <2>2 DEF JobRecords
<1>9. /\ proc' \in [Pid -> ProcessRecords] /\ \A p \in Pid : HasCode(proc'[p])
      /\ \A p \in Pid : proc'[p].st # "none" <=> p <= e
      /\ Grown(proc, proc')
  BY <1>1, <1>2, <1>3, StartedProcesses
<1>10. nextId <= nextId /\ 0 < nextId /\ nextId <= e + 1 /\ nextId <= e
  BY <1>3, <1>4, <1>6
<1>11. Sound(j, proc', nextId) /\ \A i \in 1..Len(table) : PidsOf(table[i]) \cap PidsOf(j) = {}
  BY <1>1, <1>2, <1>3, <1>8, <1>10, StartedJob
<1>12. /\ table' = table /\ nextId' = nextId /\ status' = status /\ at' = "foreground" /\ cur' = j /\ tty' = j.pids[1]
       /\ reaped' = reaped /\ disowned' = disowned /\ behind' = behind
  BY <1>7, <1>8 DEF Foreground, Spawn, notes
<1>13. Numbered(e, at', cur', proc', nextId')
  BY <1>9, <1>10, <1>12 DEF Numbered
<1>14. TableSound(table', cur', proc', nextId')
  <2>1. TableSound(table, cur, proc', nextId)
    BY <1>4, <1>9, <1>10, TableLater, Parts
  <2>2. \A i \in 1..Len(table) : Apart(table[i], j)
    BY <1>8, <1>11, HandFacts DEF Apart
  <2> QED  BY <1>12, <2>1, <2>2 DEF TableSound
<1>15. HandSound(at', cur', proc', nextId', tty')
  BY <1>8, <1>11, <1>12 DEF HandSound, Idle
<1>16. Remembered(table', cur', proc', reaped', (disowned \cup behind)')
  <2>1. ASSUME NEW p \in Pid, proc'[p].st # "none", reaped[p] = NoCode, p \notin disowned \cup behind
        PROVE  p \in PidsOf(j) \/ \E i \in 1..Len(table) : p \in PidsOf(table[i])
    <3>1. CASE b < p /\ p <= e
      BY <1>3, <1>8, <3>1 DEF Start, PidsOf
    <3>2. CASE ~(b < p /\ p <= e)
      <4>1. proc[p].st # "none"
        BY <1>3, <2>1, <3>2 DEF Start
      <4> QED  BY <1>5, <2>1, <4>1, Parts, NoJobFacts DEF Remembered
    <3> QED  BY <3>1, <3>2
  <2> QED  BY <1>12, <2>1 DEF Remembered
<1>17. TypeInv'
  <2>1. nextId' \in Nat \ {0} /\ at' \in {"prompt", "foreground", "wait", "wait pid", "wait all", "wait one of all", "wait next"}
    BY <1>4, <1>12
  <2> QED  BY <1>8, <1>9, <1>12, <2>1, Types DEF TypeInv
<1> QED  BY <1>9, <1>13, <1>14, <1>15, <1>16, <1>17 DEF JobsInv

-----------------------------------------------------------------------------
(* Looking at the table. *)

\* Collecting statuses, every one of them: whose status is still missing was not
\* among those that had ended.
LEMMA ReapFacts ==
    ASSUME JobsInv, NEW S, Reap(S)
    PROVE  /\ reaped' \in [Pid -> {NoCode, 137} \cup Codes]
           /\ \A p \in Pid : reaped'[p] = NoCode => reaped[p] = NoCode /\ ~(p \in S /\ Ended(p))
<1>1. \A p \in Pid : proc[p].code \in {NoCode, 137} \cup Codes
  <2>1. \A p \in Pid : proc[p] \in ProcessRecords
    BY Types, Zenon
  <2> QED  BY <2>1 DEF ProcessRecords
<1>2. reaped \in [Pid -> {NoCode, 137} \cup Codes]
  BY Types, Zenon
<1>3. reaped' = [p \in Pid |-> IF p \in S /\ Ended(p) THEN proc[p].code ELSE reaped[p]]
  BY DEF Reap
<1>4. reaped' \in [Pid -> {NoCode, 137} \cup Codes]
  BY <1>1, <1>2, <1>3
<1>5. \A p \in Pid : Ended(p) => proc[p].code # NoCode
  BY Parts DEF HasCode, Ended
<1> QED  BY <1>3, <1>4, <1>5

\* A step from a prompt or a loop of wait, that keeps some jobs of the table, puts
\* no job in hand and accounts for the others.
LEMMA TableStep ==
    ASSUME JobsInv, at \in Idle, at' \in Idle, UNCHANGED <<proc, nextId, cur, tty, behind>>,
           NEW S, Reap(S) \/ reaped' = reaped,
           table' \in Seq(JobRecords), Drawn(table', table), disowned \subseteq disowned',
           status' \in Codes \cup {0, 1, 127, 137, 148},
           \A i \in 1..Len(table) : \/ \E k \in 1..Len(table') : table'[k] = table[i]
                                    \/ Reap(S) /\ \A p \in PidsOf(table[i]) : p \in S /\ Ended(p)
                                    \/ PidsOf(table[i]) \subseteq disowned'
    PROVE  JobsInv'
<1>1. nextId \in Nat /\ nextId # 0 /\ cur \in JobRecords /\ table \in Seq(JobRecords)
      /\ proc \in [Pid -> ProcessRecords] /\ reaped \in [Pid -> {NoCode, 137} \cup Codes]
  BY Types, Zenon
<1>2. cur = NoJob /\ tty = 0
  BY HandFacts
<1>3. PICK b \in 0..MaxPids : Numbered(b, at, cur, proc, nextId)
  BY DEF JobsInv
<1>4. Numbered(b, at', cur', proc', nextId')
  <2>1. at' # "foreground"
    BY DEF Idle
  <2> QED  BY <1>3, <2>1 DEF Numbered
<1>5. TypeInv'
  <2>1. reaped' \in [Pid -> {NoCode, 137} \cup Codes]
    BY <1>1, ReapFacts
  <2>2. at' \in {"prompt", "foreground", "wait", "wait pid", "wait all", "wait one of all", "wait next"}
    BY DEF Idle
  <2> QED  BY <1>1, <2>1, <2>2 DEF TypeInv
<1>6. TableSound(table', cur', proc', nextId')
  <2>1. \A i \in 1..Len(table') : Apart(table'[i], NoJob)
    BY HandFacts, <1>2 DEF Drawn
  <2>2. PICK t \in Seq(JobRecords) : t = table'
    OBVIOUS
  <2>3. TableSound(t, NoJob, proc, nextId)
    BY <1>1, <2>1, <2>2, DrawnSound, Parts
  <2> QED  BY <1>2, <2>2, <2>3
<1>7. HandSound(at', cur', proc', nextId', tty')
  <2>1. at' # "foreground"
    BY DEF Idle
  <2> QED  BY <1>2, <2>1 DEF HandSound
<1>8. Remembered(table', cur', proc', reaped', (disowned \cup behind)')
  <2>1. ASSUME NEW p \in Pid, proc[p].st # "none", reaped'[p] = NoCode, p \notin (disowned \cup behind)'
        PROVE  \E k \in 1..Len(table') : p \in PidsOf(table'[k])
    <3>1. reaped[p] = NoCode /\ (Reap(S) => ~(p \in S /\ Ended(p)))
      BY <2>1, ReapFacts
    <3>2. PICK i \in 1..Len(table) : p \in PidsOf(table[i])
      BY <1>2, <2>1, <3>1, Parts, NoJobFacts DEF Remembered
    <3>3. ~(Reap(S) /\ \A q \in PidsOf(table[i]) : q \in S /\ Ended(q))
      BY <3>1, <3>2
    <3>4. ~(PidsOf(table[i]) \subseteq disowned')
      BY <2>1, <3>2
    <3>5. PICK k \in 1..Len(table') : table'[k] = table[i]
      BY <3>3, <3>4
    <3> QED  BY <3>2, <3>5
  <2> QED  BY <2>1 DEF Remembered
<1>9. \A p \in Pid : HasCode(proc'[p])
  BY Parts
<1> QED  BY <1>4, <1>5, <1>6, <1>7, <1>8, <1>9 DEF JobsInv

LEMMA ToSetIn == ASSUME NEW s \in Seq(JobRecords), NEW i \in 1..Len(s) PROVE s[i] \in ToSet(s)
<1>1. DOMAIN s = 1..Len(s)
  OBVIOUS
<1> QED  BY <1>1 DEF ToSet

\* What a filter keeps is what passes it.
LEMMA OnlyKeeps ==
    ASSUME NEW s \in Seq(JobRecords), NEW K, NEW i \in 1..Len(s), s[i] \in K
    PROVE  \E k \in 1..Len(Only(s, K)) : Only(s, K)[k] = s[i]
<1> DEFINE t == Only(s, K)
<1>1. \A a \in 1..Len(s) : s[a] \in K => \E k \in 1..Len(t) : t[k] = s[a]
  BY OnlyFacts
<1> HIDE DEF t
<1>2. \E k \in 1..Len(t) : t[k] = s[i]
  BY <1>1
<1> QED  BY <1>2 DEF t

LEMMA ListInv == ASSUME JobsInv, List PROVE JobsInv'
<1> DEFINE S == UNION {PidsOf(j) : j \in {j \in ToSet(table) : ~j.stopped}}
           K == {j \in ToSet(table) : j.stopped \/ ~AllEnded(j)}
<1>1. /\ Reap(S) /\ table' = Only(table, K) /\ at \in Idle /\ at' \in Idle /\ status' = 0
      /\ UNCHANGED <<proc, nextId, cur, tty, disowned, behind>>
  BY DEF List, Idle, notes
<1>2. table \in Seq(JobRecords)
  BY Types, Zenon
<1>3. table' \in Seq(JobRecords) /\ Drawn(table', table)
  BY <1>1, <1>2, OnlyDrawn
<1>4. ASSUME NEW i \in 1..Len(table)
      PROVE  \/ \E k \in 1..Len(table') : table'[k] = table[i]
             \/ \A p \in PidsOf(table[i]) : p \in S /\ Ended(p)
  <2>1. table[i] \in ToSet(table)
    BY <1>2, ToSetIn
  <2>2. CASE table[i] \in K
    BY <1>1, <1>2, <2>2, OnlyKeeps
  <2>3. CASE table[i] \notin K
    <3>1. ~table[i].stopped /\ AllEnded(table[i])
      BY <2>1, <2>3
    <3> QED  BY <2>1, <3>1 DEF AllEnded
  <2> QED  BY <2>2, <2>3
<1> HIDE DEF S, K
<1> QED  BY <1>1, <1>3, <1>4, TableStep

LEMMA ListPidsInv == ASSUME JobsInv, ListPids PROVE JobsInv'
<1> DEFINE S == UNION {PidsOf(j) : j \in ToSet(table)}
           K == {j \in ToSet(table) : j.stopped \/ ~AllEnded(j)}
<1>1. /\ Reap(S) /\ table' = Only(table, K) /\ at \in Idle /\ at' \in Idle /\ status' = 0
      /\ UNCHANGED <<proc, nextId, cur, tty, disowned, behind>>
  BY DEF ListPids, Idle, notes
<1>2. table \in Seq(JobRecords)
  BY Types, Zenon
<1>3. table' \in Seq(JobRecords) /\ Drawn(table', table)
  BY <1>1, <1>2, OnlyDrawn
<1>4. ASSUME NEW i \in 1..Len(table)
      PROVE  \/ \E k \in 1..Len(table') : table'[k] = table[i]
             \/ \A p \in PidsOf(table[i]) : p \in S /\ Ended(p)
  <2>1. table[i] \in ToSet(table)
    BY <1>2, ToSetIn
  <2>2. CASE table[i] \in K
    BY <1>1, <1>2, <2>2, OnlyKeeps
  <2>3. CASE table[i] \notin K
    <3>1. AllEnded(table[i])
      BY <2>1, <2>3
    <3> QED  BY <2>1, <3>1 DEF AllEnded
  <2> QED  BY <2>2, <2>3
<1> HIDE DEF S, K
<1> QED  BY <1>1, <1>3, <1>4, TableStep

LEMMA DisownRunningInv == ASSUME JobsInv, DisownRunning PROVE JobsInv'
<1> DEFINE given == UNION {PidsOf(j) : j \in {k \in ToSet(table) : ~k.stopped}}
           K == {j \in ToSet(table) : j.stopped}
<1>1. /\ table' = Only(table, K) /\ disowned' = disowned \cup given /\ at \in Idle /\ at' \in Idle /\ status' = 0
      /\ UNCHANGED <<proc, reaped, nextId, cur, tty, behind>>
  BY DEF DisownRunning, Idle, kernel
<1>2. table \in Seq(JobRecords)
  BY Types, Zenon
<1>3. table' \in Seq(JobRecords) /\ Drawn(table', table)
  BY <1>1, <1>2, OnlyDrawn
<1>4. ASSUME NEW i \in 1..Len(table)
      PROVE  \/ \E k \in 1..Len(table') : table'[k] = table[i]
             \/ PidsOf(table[i]) \subseteq disowned'
  <2>1. table[i] \in ToSet(table)
    BY <1>2, ToSetIn
  <2>2. CASE table[i] \in K
    <3> HIDE DEF K, given
    <3>1. \E k \in 1..Len(Only(table, K)) : Only(table, K)[k] = table[i]
      BY <1>2, <2>2, OnlyKeeps
    <3> QED  BY <1>1, <3>1
  <2>3. CASE table[i] \notin K
    <3>1. PidsOf(table[i]) \subseteq given
      BY <2>1, <2>3
    <3> QED  BY <1>1, <3>1
  <2> QED  BY <2>2, <2>3
<1>5. disowned \subseteq disowned'
  BY <1>1
<1> HIDE DEF given, K
<1> QED  BY <1>1, <1>3, <1>4, <1>5, TableStep

LEMMA DisownInv == ASSUME JobsInv, NEW i, Disown(i) PROVE JobsInv'
<1>1. /\ i \in 1..Len(table) /\ table' = RemoveAt(table, i) /\ disowned' = disowned \cup PidsOf(table[i])
      /\ at \in Idle /\ at' \in Idle /\ status' = 0
      /\ UNCHANGED <<proc, reaped, nextId, cur, tty, behind>>
  BY DEF Disown, Idle, kernel, Without
<1>2. table \in Seq(JobRecords)
  BY Types, Zenon
<1>3. /\ table' \in Seq(JobRecords) /\ Drawn(table', table)
      /\ \A a \in 1..Len(table) : a # i => \E k \in 1..Len(table') : table'[k] = table[a]
  BY <1>1, <1>2, RemoveFacts
<1>4. \A a \in 1..Len(table) : \/ \E k \in 1..Len(table') : table'[k] = table[a]
                               \/ PidsOf(table[a]) \subseteq disowned'
  BY <1>1, <1>3
<1>5. disowned \subseteq disowned'
  BY <1>1
<1> QED  BY <1>1, <1>3, <1>4, <1>5, TableStep

LEMMA WaitAllInv == ASSUME JobsInv, WaitAll \/ \E ids : WaitNext(ids) PROVE JobsInv'
<1>1. /\ at = "prompt" /\ at' \in {"wait all", "wait next"}
      /\ UNCHANGED <<proc, reaped, table, nextId, cur, tty, status, disowned, behind>>
  BY DEF WaitAll, WaitNext, kernel, notes
<1>2. at \in Idle /\ at' \in Idle
  BY <1>1 DEF Idle
<1>3. table \in Seq(JobRecords) /\ status \in Codes \cup {0, 1, 127, 137, 148}
  BY Types, Zenon
<1>4. Drawn(table, table)
  BY <1>3 DEF Drawn
<1>5. \A i \in 1..Len(table) : \E k \in 1..Len(table') : table'[k] = table[i]
  BY <1>1
<1>6. table' = table /\ status' = status /\ reaped' = reaped /\ disowned' = disowned
  BY <1>1
<1>7. table' \in Seq(JobRecords) /\ Drawn(table', table) /\ status' \in Codes \cup {0, 1, 127, 137, 148}
      /\ disowned \subseteq disowned'
  BY <1>3, <1>4, <1>6
<1> QED  BY <1>1, <1>2, <1>5, <1>6, <1>7, TableStep

-----------------------------------------------------------------------------
(* A job is taken out of the table. *)

LEMMA Taken ==
    ASSUME JobsInv, at \in Idle, NEW i \in 1..Len(table), NEW c \in JobRecords,
           c.id = table[i].id, c.pids = table[i].pids, c.grouped = table[i].grouped, c.stopped => table[i].stopped
    PROVE  /\ RemoveAt(table, i) \in Seq(JobRecords)
           /\ TableSound(RemoveAt(table, i), c, proc, nextId) /\ Sound(c, proc, nextId) /\ c.id # 0
           /\ Remembered(RemoveAt(table, i), c, proc, reaped, disowned \cup behind)
<1>1. table \in Seq(JobRecords)
  BY Types, Zenon
<1> DEFINE t == RemoveAt(table, i)
<1>3. /\ t \in Seq(JobRecords) /\ Drawn(t, table)
      /\ \A k \in 1..Len(t) : \E a \in 1..Len(table) : a # i /\ t[k] = table[a]
      /\ \A a \in 1..Len(table) : a # i => \E k \in 1..Len(t) : t[k] = table[a]
  <2>1. PICK S : S = JobRecords
    OBVIOUS
  <2>2. table \in Seq(S)
    BY <1>1, <2>1, Zenon
  <2>3. /\ t \in Seq(S) /\ Drawn(t, table)
        /\ \A k \in 1..Len(t) : \E a \in 1..Len(table) : a # i /\ t[k] = table[a]
        /\ \A a \in 1..Len(table) : a # i => \E k \in 1..Len(t) : t[k] = table[a]
    BY <2>2, RemoveFacts
  <2> HIDE DEF t
  <2> QED  BY <2>1, <2>3, Zenon
<1> HIDE DEF t
<1>4. Sound(table[i], proc, nextId) /\ table[i].id # 0 /\ \A a \in 1..Len(table) : a # i => Apart(table[a], table[i])
  BY Parts DEF TableSound
<1>5. PidsOf(c) = PidsOf(table[i])
  BY DEF PidsOf
<1>6. \A k \in 1..Len(t) : Apart(t[k], c)
  BY <1>3, <1>4, <1>5 DEF Apart
<1>7. TableSound(t, c, proc, nextId)
  BY <1>1, <1>3, <1>6, DrawnSound, Parts
<1>8. Sound(c, proc, nextId)
  BY <1>4, <1>5 DEF Sound
<1>9. ASSUME NEW p \in Pid, proc[p].st # "none", reaped[p] = NoCode, p \notin PidsOf(c) \cup (disowned \cup behind)
      PROVE  \E k \in 1..Len(t) : p \in PidsOf(t[k])
  <2>1. PICK a \in 1..Len(table) : p \in PidsOf(table[a])
    BY <1>9, HandFacts, NoJobFacts, Parts DEF Remembered
  <2>2. a # i
    BY <1>5, <1>9, <2>1
  <2> QED  BY <1>3, <2>1, <2>2
<1>10. Remembered(t, c, proc, reaped, disowned \cup behind)
  BY <1>9 DEF Remembered
<1> QED  BY <1>3, <1>4, <1>7, <1>8, <1>10 DEF t

\* It is waited for.
LEMMA TakeOutStep ==
    ASSUME JobsInv, at \in Idle, NEW i \in 1..Len(table), TakeOut(i),
           at' \in {"wait", "wait pid", "wait one of all"}, NEW S, Reap(S) \/ reaped' = reaped,
           UNCHANGED <<proc, nextId, tty, status, disowned, behind>>
    PROVE  JobsInv'
<1>1. /\ nextId \in Nat /\ nextId # 0 /\ table \in Seq(JobRecords)
      /\ proc \in [Pid -> ProcessRecords] /\ reaped \in [Pid -> {NoCode, 137} \cup Codes]
      /\ status \in Codes \cup {0, 1, 127, 137, 148}
  BY Types, Zenon
<1>2. tty = 0
  BY HandFacts
<1>3. PICK c : c = table[i]
  OBVIOUS
<1>4. c \in JobRecords
  BY <1>3, Entries, Zenon
<1>5. PICK t : t = RemoveAt(table, i)
  OBVIOUS
<1>6. /\ t \in Seq(JobRecords) /\ TableSound(t, c, proc, nextId) /\ Sound(c, proc, nextId) /\ c.id # 0
      /\ Remembered(t, c, proc, reaped, disowned \cup behind)
  BY <1>3, <1>4, <1>5, Taken
<1>7. table' = t /\ cur' = c
  BY <1>3, <1>5 DEF TakeOut, Without
<1>8. PICK b \in 0..MaxPids : Numbered(b, at, cur, proc, nextId)
  BY DEF JobsInv
<1>9. Numbered(b, at', cur', proc', nextId')
  <2>1. at' # "foreground"
    OBVIOUS
  <2> QED  BY <1>8, <2>1 DEF Numbered
<1>10. TypeInv'
  <2>1. reaped' \in [Pid -> {NoCode, 137} \cup Codes]
    <3>1. CASE Reap(S)
      BY <3>1, ReapFacts, Zenon
    <3>2. CASE reaped' = reaped
      BY <1>1, <3>2
    <3> QED  BY <3>1, <3>2
  <2> QED  BY <1>1, <1>4, <1>6, <1>7, <2>1 DEF TypeInv
<1>11. TableSound(table', cur', proc', nextId')
  BY <1>6, <1>7
<1>12. HandSound(at', cur', proc', nextId', tty')
  BY <1>2, <1>6, <1>7 DEF HandSound, Idle
<1>13. Remembered(table', cur', proc', reaped', (disowned \cup behind)')
  <2>1. \A p \in Pid : reaped'[p] = NoCode => reaped[p] = NoCode
    BY ReapFacts
  <2> QED  BY <1>6, <1>7, <2>1 DEF Remembered
<1>14. \A p \in Pid : HasCode(proc'[p])
  BY Parts
<1> QED  BY <1>9, <1>10, <1>11, <1>12, <1>13, <1>14 DEF JobsInv

\* Nothing but the status and the place changes.
LEMMA IdleStep ==
    ASSUME JobsInv, at \in Idle, at' \in Idle, NEW S, Reap(S) \/ reaped' = reaped,
           UNCHANGED <<proc, table, nextId, cur, tty, disowned, behind>>,
           status' \in Codes \cup {0, 1, 127, 137, 148}
    PROVE  JobsInv'
<1>1. table \in Seq(JobRecords)
  BY Types, Zenon
<1>2. Drawn(table, table) /\ table' = table /\ disowned' = disowned
  BY <1>1 DEF Drawn
<1>3. table' \in Seq(JobRecords) /\ Drawn(table', table) /\ disowned \subseteq disowned'
      /\ \A i \in 1..Len(table) : \E k \in 1..Len(table') : table'[k] = table[i]
  BY <1>1, <1>2
<1> QED  BY <1>3, TableStep

LEMMA WaitIdInv == ASSUME JobsInv, NEW i, WaitId(i) PROVE JobsInv'
<1>1. /\ at = "prompt" /\ i \in 1..Len(table)
      /\ UNCHANGED <<proc, reaped, nextId, tty, disowned, behind>>
  BY DEF WaitId, kernel, notes
<1>2. at \in Idle
  BY <1>1 DEF Idle
<1>3. CASE table[i].stopped
  <2>1. status' = 127 /\ UNCHANGED <<table, cur, at>>
    BY <1>3 DEF WaitId
  <2>2. at' \in Idle
    BY <1>2, <2>1
  <2> QED  BY <1>1, <1>2, <2>1, <2>2, IdleStep
<1>4. CASE ~table[i].stopped
  <2>1. TakeOut(i) /\ at' = "wait" /\ status' = status
    BY <1>4 DEF WaitId
  <2> QED  BY <1>1, <1>2, <2>1, TakeOutStep
<1> QED  BY <1>3, <1>4

LEMMA WaitPidInv == ASSUME JobsInv, NEW i, WaitPid(i) PROVE JobsInv'
<1>1. /\ at = "prompt" /\ i \in 1..Len(table) /\ TakeOut(i) /\ at' = "wait pid"
      /\ UNCHANGED <<proc, reaped, nextId, tty, status, disowned, behind>>
  BY DEF WaitPid, kernel, notes
<1>2. at \in Idle
  BY <1>1 DEF Idle
<1> QED  BY <1>1, <1>2, TakeOutStep

LEMMA WaitAllNextInv == ASSUME JobsInv, WaitAllNext PROVE JobsInv'
<1>1. at = "wait all" /\ UNCHANGED <<proc, reaped, nextId, tty, disowned, behind>>
  BY DEF WaitAllNext, kernel, notes
<1>2. at \in Idle
  BY <1>1 DEF Idle
<1>3. CASE \A i \in 1..Len(table) : table[i].stopped
  <2>1. at' = "prompt" /\ status' = 0 /\ UNCHANGED <<table, cur>>
    BY <1>3 DEF WaitAllNext
  <2>2. at' \in Idle
    BY <2>1 DEF Idle
  <2> QED  BY <1>1, <1>2, <2>1, <2>2, IdleStep
<1>4. CASE ~\A i \in 1..Len(table) : table[i].stopped
  <2>1. PICK i \in 1..Len(table) : TakeOut(i)
    BY <1>4 DEF WaitAllNext
  <2>2. at' = "wait one of all" /\ status' = status
    BY <1>4 DEF WaitAllNext
  <2> QED  BY <1>1, <1>2, <2>1, <2>2, TakeOutStep
<1> QED  BY <1>3, <1>4

LEMMA WaitNextRoundInv == ASSUME JobsInv, WaitNextRound PROVE JobsInv'
<1> DEFINE found == {i \in 1..Len(table) : Eligible(table[i]) /\ AllEnded(table[i])}
           first == CHOOSE i \in found : \A k \in found : i <= k
           polled == {i \in 1..Len(table) : Eligible(table[i]) /\ (found # {} => i <= first)}
           S == UNION {PidsOf(table[i]) : i \in polled}
<1>1. /\ at = "wait next" /\ Reap(S)
      /\ UNCHANGED <<proc, nextId, tty, disowned, behind>>
  BY DEF WaitNextRound, notes
<1>2. at \in Idle
  BY <1>1 DEF Idle
<1>3. \/ at' = "prompt" /\ status' = 127 /\ UNCHANGED <<table, cur>>
      \/ found # {} /\ TakeOut(first) /\ at' = "wait" /\ status' = status
      \/ UNCHANGED <<table, cur, at, status>>
  BY DEF WaitNextRound
<1>4. found # {} => first \in 1..Len(table)
  <2>1. found \in SUBSET Nat
    OBVIOUS
  <2> HIDE DEF found
  <2>2. found # {} => first \in found
    BY <2>1, Least
  <2> USE DEF found
  <2> QED  BY <2>2
<1> HIDE DEF found, first, polled, S
<1>5. CASE at' = "prompt" /\ status' = 127 /\ UNCHANGED <<table, cur>>
  <2>1. at' \in Idle
    BY <1>5 DEF Idle
  <2> QED  BY <1>1, <1>2, <1>5, <2>1, IdleStep
<1>6. CASE found # {} /\ TakeOut(first) /\ at' = "wait" /\ status' = status
  <2>1. PICK i \in 1..Len(table) : i = first
    BY <1>4, <1>6
  <2> QED  BY <1>1, <1>2, <1>6, <2>1, TakeOutStep
<1>7. CASE UNCHANGED <<table, cur, at, status>>
  <2>1. status \in Codes \cup {0, 1, 127, 137, 148}
    BY Types, Zenon
  <2>2. at' \in Idle /\ status' \in Codes \cup {0, 1, 127, 137, 148}
    BY <1>2, <1>7, <2>1
  <2> QED  BY <1>1, <1>2, <1>7, <2>2, IdleStep
<1> QED  BY <1>3, <1>5, <1>6, <1>7

-----------------------------------------------------------------------------
(* Jobs resume. *)

\* The jobs but for what they are marked.
LEMMA ClearedSound ==
    ASSUME NEW s \in Seq(JobRecords), NEW t \in Seq(JobRecords), NEW c, NEW pr, NEW n,
           TableSound(s, c, pr, n), Len(t) = Len(s),
           \A k \in 1..Len(s) : /\ t[k].id = s[k].id /\ t[k].pids = s[k].pids /\ t[k].grouped = s[k].grouped
                                /\ t[k].stopped => s[k].stopped
    PROVE  TableSound(t, c, pr, n)
<1>1. \A k \in 1..Len(s) : PidsOf(t[k]) = PidsOf(s[k])
  BY DEF PidsOf
<1>2. \A k \in 1..Len(t) : Sound(t[k], pr, n) /\ t[k].id # 0
  BY <1>1 DEF TableSound, Sound
<1>3. \A k \in 1..Len(t) : Apart(t[k], c)
  BY <1>1 DEF TableSound, Apart
<1>4. ASSUME NEW k \in 1..Len(t), NEW m \in 1..Len(t), k # m PROVE Apart(t[k], t[m])
  <2>1. Apart(s[k], s[m])
    BY <1>4 DEF TableSound
  <2> QED  BY <1>1, <2>1 DEF Apart
<1> QED  BY <1>2, <1>3, <1>4 DEF TableSound

LEMMA UpdateFacts ==
    ASSUME NEW s \in Seq(JobRecords), NEW i \in 1..Len(s), NEW c \in JobRecords, NEW t, t = [s EXCEPT ![i] = c]
    PROVE  t \in Seq(JobRecords) /\ Len(t) = Len(s) /\ \A k \in 1..Len(s) : t[k] = IF k = i THEN c ELSE s[k]
  OBVIOUS

LEMMA BgInv == ASSUME JobsInv, NEW i, Bg(i) PROVE JobsInv'
<1>1. /\ i \in 1..Len(table) /\ status' = 0
      /\ UNCHANGED <<reaped, nextId, at, cur, tty, disowned, behind>>
  BY DEF Bg, notes
<1>2. CASE ~table[i].stopped
  <2>1. UNCHANGED <<proc, table>>
    BY <1>2 DEF Bg
  <2>2. proc \in [Pid -> ProcessRecords]
    BY Types, Zenon
  <2>3. proc' \in [Pid -> ProcessRecords] /\ \A p \in Pid : Later(proc[p], proc'[p]) /\ HasCode(proc'[p])
    BY <2>1, <2>2, Parts DEF Later
  <2> QED  BY <1>1, <2>1, <2>3, KernelStep
<1>3. CASE table[i].stopped
  <2> DEFINE S == {p \in Pid : proc[p].group = table[i].pids[1]}
  <2>1. /\ proc' = [p \in Pid |-> IF p \in S THEN Continued(proc[p]) ELSE proc[p]]
        /\ table' = [table EXCEPT ![i].stopped = FALSE]
    BY <1>3 DEF Bg, ResumeGroup
  <2> HIDE DEF S
  <2>2. proc' \in [Pid -> ProcessRecords] /\ \A p \in Pid : Later(proc[p], proc'[p]) /\ HasCode(proc'[p])
    BY <2>1, SignalStep
  <2>3. /\ nextId \in Nat /\ nextId # 0 /\ table \in Seq(JobRecords) /\ cur \in JobRecords
        /\ reaped \in [Pid -> {NoCode, 137} \cup Codes]
        /\ at \in {"prompt", "foreground", "wait", "wait pid", "wait all", "wait one of all", "wait next"}
    BY Types, Zenon
  <2>4. nextId <= nextId /\ nextId \in Nat \ {0}
    BY NextIdFacts, Zenon
  <2>5. Grown(proc, proc')
    BY <2>2 DEF Later, Grown
  <2>6. PICK c : c = [table[i] EXCEPT !.stopped = FALSE]
    OBVIOUS
  <2>7. /\ c \in JobRecords /\ c.id = table[i].id /\ c.pids = table[i].pids /\ c.grouped = table[i].grouped
        /\ ~c.stopped
    <3>1. table[i] \in JobRecords
      BY <1>1, Entries
    <3> QED  BY <2>6, <3>1 DEF JobRecords
  <2>8. table' = [table EXCEPT ![i] = c]
    BY <2>1, <2>6
  <2>9. table' \in Seq(JobRecords) /\ Len(table') = Len(table)
        /\ \A k \in 1..Len(table) : table'[k] = IF k = i THEN c ELSE table[k]
    <3>1. i \in 1..Len(table) /\ table \in Seq(JobRecords) /\ c \in JobRecords
      BY <1>1, <2>3, <2>7, Zenon
    <3>2. PICK t : t = table'
      OBVIOUS
    <3>3. t \in Seq(JobRecords) /\ Len(t) = Len(table) /\ \A k \in 1..Len(table) : t[k] = IF k = i THEN c ELSE table[k]
      BY <2>8, <3>1, <3>2, UpdateFacts
    <3> QED  BY <3>2, <3>3
  <2>10. PICK t \in Seq(JobRecords) : t = table'
    BY <2>9
  <2>11. \A k \in 1..Len(table) : /\ t[k].id = table[k].id /\ t[k].pids = table[k].pids
                                  /\ t[k].grouped = table[k].grouped
                                  /\ t[k].stopped => table[k].stopped
    BY <2>7, <2>9, <2>10
  <2>12. TableSound(table, cur, proc', nextId)
    BY <2>3, <2>4, <2>5, TableLater, Parts
  <2>13. TableSound(t, cur, proc', nextId)
    <3>1. Len(t) = Len(table)
      BY <2>9, <2>10
    <3> QED  BY <2>3, <2>11, <2>12, <3>1, ClearedSound
  <2>14. HandSound(at, cur, proc', nextId, tty)
    <3>1. Sound(cur, proc, nextId) => Sound(cur, proc', nextId)
      BY <2>3, <2>4, <2>5, SoundLater
    <3> QED  BY <3>1, Parts DEF HandSound
  <2>15. PICK b \in 0..MaxPids : Numbered(b, at, cur, proc, nextId)
    BY DEF JobsInv
  <2>16. Numbered(b, at, cur, proc', nextId)
    BY <2>2, <2>15 DEF Numbered, Later
  <2>17. Remembered(t, cur, proc', reaped, disowned \cup behind)
    <3>1. \A k \in 1..Len(table) : PidsOf(t[k]) = PidsOf(table[k])
      BY <2>11 DEF PidsOf
    <3>2. \A k \in 1..Len(table) : k \in 1..Len(t)
      BY <2>9, <2>10
    <3> QED  BY <2>2, <3>1, <3>2, Parts DEF Remembered, Later
  <2>18. TypeInv'
    BY <1>1, <2>2, <2>3, <2>4, <2>9 DEF TypeInv
  <2> QED  BY <1>1, <2>2, <2>10, <2>13, <2>14, <2>16, <2>17, <2>18 DEF JobsInv
<1> QED  BY <1>2, <1>3

\* The job i comes to the foreground, or is waited for because it has no group.
LEMMA FgInv == ASSUME JobsInv, NEW i, Fg(i) PROVE JobsInv'
<1>1. /\ at = "prompt" /\ i \in 1..Len(table)
      /\ table' = RemoveAt(table, i) /\ cur' = [table[i] EXCEPT !.stopped = FALSE]
      /\ UNCHANGED <<reaped, nextId, status, disowned, behind>>
  BY DEF Fg, Without, notes
<1>2. at \in Idle
  BY <1>1 DEF Idle
<1>3. tty = 0
  BY <1>2, HandFacts
<1>4. PICK c : c = [table[i] EXCEPT !.stopped = FALSE]
  OBVIOUS
<1>5. /\ c \in JobRecords /\ c.id = table[i].id /\ c.pids = table[i].pids /\ c.grouped = table[i].grouped
      /\ ~c.stopped
  <2>1. table[i] \in JobRecords
    BY <1>1, Entries
  <2> QED  BY <1>4, <2>1 DEF JobRecords
<1>6. PICK t : t = RemoveAt(table, i)
  OBVIOUS
<1>7. /\ t \in Seq(JobRecords) /\ TableSound(t, c, proc, nextId) /\ Sound(c, proc, nextId) /\ c.id # 0
      /\ Remembered(t, c, proc, reaped, disowned \cup behind)
  BY <1>1, <1>2, <1>5, <1>6, Taken
<1>8. /\ nextId \in Nat /\ nextId # 0 /\ proc \in [Pid -> ProcessRecords]
      /\ reaped \in [Pid -> {NoCode, 137} \cup Codes]
      /\ status \in Codes \cup {0, 1, 127, 137, 148}
  BY Types, Zenon
<1>9. proc' \in [Pid -> ProcessRecords] /\ \A p \in Pid : Later(proc[p], proc'[p]) /\ HasCode(proc'[p])
  <2> DEFINE S == {p \in Pid : proc[p].group = table[i].pids[1]}
  <2>1. proc' = proc \/ proc' = [p \in Pid |-> IF p \in S THEN Continued(proc[p]) ELSE proc[p]]
    BY DEF Fg, ResumeGroup
  <2> HIDE DEF S
  <2>2. CASE proc' = proc
    BY <1>8, <2>2, Parts DEF Later
  <2>3. CASE proc' = [p \in Pid |-> IF p \in S THEN Continued(proc[p]) ELSE proc[p]]
    BY <2>3, SignalStep
  <2> QED  BY <2>1, <2>2, <2>3
<1>10. Grown(proc, proc') /\ nextId <= nextId
  BY <1>8, <1>9 DEF Later, Grown
<1>11. TableSound(t, c, proc', nextId) /\ Sound(c, proc', nextId)
  <2>1. TableSound(t, c, proc', nextId)
    BY <1>7, <1>8, <1>10, TableLater
  <2>2. Sound(c, proc', nextId)
    BY <1>5, <1>7, <1>8, <1>10, SoundLater
  <2> QED  BY <2>1, <2>2
<1>12. Remembered(t, c, proc', reaped, disowned \cup behind)
  BY <1>7, <1>9 DEF Remembered, Later
<1>13. PICK b \in 0..MaxPids : Numbered(b, at, cur, proc, nextId)
  BY DEF JobsInv
<1>14. Numbered(b, at', c, proc', nextId)
  BY <1>7, <1>9, <1>13 DEF Numbered, Later
<1>15. HandSound(at', c, proc', nextId, tty')
  <2>1. CASE table[i].grouped
    <3>1. tty' = c.pids[1] /\ at' = "foreground"
      BY <1>5, <2>1 DEF Fg
    <3> QED  BY <1>5, <1>11, <2>1, <3>1 DEF HandSound, Idle
  <2>2. CASE ~table[i].grouped
    <3>1. tty' = 0 /\ at' = "wait"
      BY <1>3, <2>2 DEF Fg
    <3> QED  BY <1>11, <3>1 DEF HandSound, Idle
  <2> QED  BY <2>1, <2>2
<1>16. TypeInv'
  <2>1. at' \in {"foreground", "wait"}
    BY DEF Fg
  <2> QED  BY <1>1, <1>4, <1>5, <1>6, <1>7, <1>8, <1>9, <2>1 DEF TypeInv
<1> QED  BY <1>1, <1>4, <1>6, <1>9, <1>11, <1>12, <1>14, <1>15, <1>16 DEF JobsInv

-----------------------------------------------------------------------------
(* The job in hand is done with, or stops. *)

\* The statuses collected are those of processes that ended.
LEMMA CodeFacts == ASSUME JobsInv, NEW p \in Pid, Ended(p) PROVE proc[p].code \in Codes \cup {0, 1, 127, 137, 148}
<1>1. proc[p] \in ProcessRecords
  BY Types, Zenon
<1>2. proc[p].code # NoCode
  BY Parts DEF HasCode, Ended
<1> QED  BY <1>1, <1>2 DEF ProcessRecords

\* The shell has collected the statuses of S and given the others up.
LEMMA HandDone ==
    ASSUME JobsInv, NEW S, Reap(S), cur' = NoJob, at' \in Idle, tty' = 0,
           UNCHANGED <<proc, table, nextId, disowned>>, behind \subseteq behind',
           status' \in Codes \cup {0, 1, 127, 137, 148},
           \A p \in PidsOf(cur) : (p \in S /\ Ended(p)) \/ p \in behind'
    PROVE  JobsInv'
<1>1. /\ proc \in [Pid -> ProcessRecords] /\ table \in Seq(JobRecords)
  BY Types, Zenon
<1>2. PICK b \in 0..MaxPids : Numbered(b, at, cur, proc, nextId)
  BY DEF JobsInv
<1>3. at' # "foreground"
  BY DEF Idle
<1>4. Numbered(b, at', cur', proc', nextId')
  BY <1>2, <1>3 DEF Numbered
<1>5. \A p \in Pid : HasCode(proc'[p])
  BY Parts
<1>6. \A i \in 1..Len(table) : Apart(table[i], NoJob)
  BY HandFacts, NoJobFacts DEF Apart
<1>7. TableSound(table', cur', proc', nextId')
  <2>1. TableSound(table, NoJob, proc, nextId)
    BY <1>6, Parts DEF TableSound
  <2> QED  BY <2>1
<1>8. HandSound(at', cur', proc', nextId', tty')
  BY <1>3 DEF HandSound
<1>9. reaped' \in [Pid -> {NoCode, 137} \cup Codes]
      /\ \A p \in Pid : reaped'[p] = NoCode => reaped[p] = NoCode /\ ~(p \in S /\ Ended(p))
  BY ReapFacts
<1>10. Remembered(table', cur', proc', reaped', (disowned \cup behind)')
  <2>1. ASSUME NEW p \in Pid, proc[p].st # "none", reaped'[p] = NoCode, p \notin (disowned \cup behind)'
        PROVE  \E i \in 1..Len(table) : p \in PidsOf(table[i])
    <3>1. p \notin disowned \cup behind /\ p \notin behind'
      BY <2>1
    <3>2. p \notin PidsOf(cur)
      BY <1>9, <2>1, <3>1
    <3> QED  BY <1>9, <2>1, <3>1, <3>2, Parts DEF Remembered
  <2> QED  BY <2>1 DEF Remembered
<1>11. TypeInv'
  <2>1. at' \in {"prompt", "foreground", "wait", "wait pid", "wait all", "wait one of all", "wait next"}
    BY DEF Idle
  <2>2. nextId' \in Nat \ {0}
    BY NextIdFacts
  <2> QED  BY <1>1, <1>9, <2>1, <2>2, NoJobFacts DEF TypeInv
<1> QED  BY <1>4, <1>5, <1>7, <1>8, <1>10, <1>11 DEF JobsInv

LEMMA InHand ==
    ASSUME JobsInv, at \notin Idle
    PROVE  /\ cur # NoJob /\ PidsOf(cur) \subseteq Pid
           /\ cur.pids[1] \in PidsOf(cur) /\ LastPid(cur) \in PidsOf(cur)
<1>1. cur \in JobRecords
  BY Types, Zenon
<1>2. Len(cur.pids) > 0
  BY HandFacts DEF Sound
<1>3. Len(NoJob.pids) = 0
  BY DEF NoJob
<1> QED  BY <1>1, <1>2, <1>3, PidFacts

LEMMA ForegroundEndsInv == ASSUME JobsInv, ForegroundEnds PROVE JobsInv'
<1>1. PICK p : p = cur.pids[1]
  OBVIOUS
<1>2. /\ at = "foreground" /\ Ended(p) /\ Reap({p}) /\ tty' = 0 /\ cur' = NoJob /\ at' = "prompt"
      /\ behind' = behind \cup (PidsOf(cur) \ {p}) /\ status' \in {1, proc[p].code}
      /\ UNCHANGED <<proc, table, nextId, disowned>>
  BY <1>1 DEF ForegroundEnds
<1>3. at \notin Idle /\ at' \in Idle
  BY <1>2 DEF Idle
<1>4. p \in Pid
  BY <1>1, <1>3, InHand
<1>5. status' \in Codes \cup {0, 1, 127, 137, 148}
  BY <1>2, <1>4, CodeFacts
<1>6. behind \subseteq behind' /\ \A q \in PidsOf(cur) : (q \in {p} /\ Ended(q)) \/ q \in behind'
  BY <1>2
<1> QED  BY <1>2, <1>3, <1>5, <1>6, HandDone

LEMMA WaitedInv == ASSUME JobsInv, Waited PROVE JobsInv'
<1>1. /\ at \in {"wait", "wait pid", "wait one of all"} /\ AllEnded(cur) /\ Reap(PidsOf(cur)) /\ cur' = NoJob
      /\ at' \in {"wait all", "prompt"} /\ status' = proc[LastPid(cur)].code
      /\ UNCHANGED <<proc, table, nextId, tty, disowned, behind>>
  BY DEF Waited, notes
<1>2. at \notin Idle /\ at' \in Idle /\ at # "foreground"
  BY <1>1 DEF Idle
<1>3. LastPid(cur) \in Pid /\ Ended(LastPid(cur))
  BY <1>1, <1>2, InHand DEF AllEnded
<1>4. status' \in Codes \cup {0, 1, 127, 137, 148}
  BY <1>1, <1>3, CodeFacts
<1>5. tty' = 0
  BY <1>1, <1>2, Parts DEF HandSound
<1>6. \A q \in PidsOf(cur) : q \in PidsOf(cur) /\ Ended(q)
  BY <1>1 DEF AllEnded
<1>7. behind \subseteq behind'
  BY <1>1
<1> QED  BY <1>1, <1>2, <1>4, <1>5, <1>6, <1>7, HandDone

LEMMA ForegroundStopsInv == ASSUME JobsInv, ForegroundStops PROVE JobsInv'
<1>1. PICK p : p = cur.pids[1]
  OBVIOUS
<1>2. PICK id : id = IF cur.id = 0 THEN nextId ELSE cur.id
  OBVIOUS
<1>3. PICK j : j = [cur EXCEPT !.id = id, !.stopped = TRUE]
  OBVIOUS
<1>4. /\ at = "foreground" /\ proc[p].st = "stopped"
      /\ proc' = [proc EXCEPT ![p].news = FALSE] /\ tty' = 0 /\ cur' = NoJob /\ at' = "prompt"
      /\ table' = Append(table, j) /\ status' = 148
      /\ nextId' = IF cur.id = 0 THEN nextId + 1 ELSE nextId
      /\ UNCHANGED <<reaped, disowned, behind>>
  BY <1>1, <1>2, <1>3 DEF ForegroundStops, notes
<1>5. at \notin Idle
  BY <1>4 DEF Idle
<1>6. /\ nextId \in Nat /\ nextId # 0 /\ table \in Seq(JobRecords) /\ cur \in JobRecords
      /\ proc \in [Pid -> ProcessRecords] /\ reaped \in [Pid -> {NoCode, 137} \cup Codes]
  BY Types, Zenon
<1>7. PICK b \in 0..MaxPids : Numbered(b, at, cur, proc, nextId)
  BY DEF JobsInv
<1>8. /\ Sound(cur, proc, nextId) /\ cur.grouped
  BY <1>4, <1>5, HandFacts, Parts DEF HandSound
<1>9. PICK m : m = nextId'
  OBVIOUS
<1>10. m \in Nat /\ m # 0 /\ nextId <= m /\ id < m /\ id # 0 /\ m <= b + 1 /\ id \in 0..MaxPids
       /\ \A i \in 1..Len(table) : table[i].id # id
  <2>1. b \in Nat /\ b <= MaxPids /\ MaxPids \in Nat /\ nextId <= b + 1 /\ (cur.id = 0 => nextId <= b)
    BY <1>4, <1>7, Facts DEF Numbered
  <2>2. cur.id \in 0..MaxPids /\ cur.id < nextId
    BY <1>6, <1>8 DEF JobRecords, Sound
  <2>3. \A i \in 1..Len(table) : table[i].id # cur.id /\ table[i].id # nextId
    <3>1. ASSUME NEW i \in 1..Len(table) PROVE table[i].id # cur.id /\ table[i].id # nextId
      <4>1. table[i].id < nextId /\ Apart(table[i], cur)
        BY HandFacts
      <4>2. table[i].id \in 0..MaxPids
        BY Entries DEF JobRecords
      <4> QED  BY <1>6, <4>1, <4>2, Facts DEF Apart
    <3> QED  BY <3>1
  <2>4. CASE cur.id = 0
    <3>1. id = nextId /\ m = nextId + 1
      BY <1>2, <1>4, <1>9, <2>4
    <3> QED  BY <1>6, <2>1, <2>3, <2>4, <3>1
  <2>5. CASE cur.id # 0
    <3>1. id = cur.id /\ m = nextId
      BY <1>2, <1>4, <1>9, <2>5
    <3> QED  BY <1>6, <2>1, <2>2, <2>3, <2>5, <3>1
  <2> QED  BY <2>4, <2>5
<1>11. j \in JobRecords /\ j.id = id /\ j.pids = cur.pids /\ j.grouped = cur.grouped
  BY <1>3, <1>6, <1>10 DEF JobRecords
<1>12. proc' \in [Pid -> ProcessRecords] /\ \A q \in Pid : Later(proc[q], proc'[q]) /\ HasCode(proc'[q])
  <2>1. p \in Pid
    BY <1>1, <1>5, InHand
  <2>2. PICK r \in ProcessRecords : r = proc[p]
    BY <1>6, <2>1
  <2>3. PICK s : s = [r EXCEPT !.news = FALSE]
    OBVIOUS
  <2>4. s \in ProcessRecords /\ Later(r, s) /\ (HasCode(r) => HasCode(s))
    BY <2>3 DEF ProcessRecords, Later, HasCode
  <2>5. proc' = [proc EXCEPT ![p] = s]
    BY <1>4, <2>2, <2>3
  <2>6. \A q \in Pid : HasCode(proc[q])
    BY Parts
  <2> QED  BY <1>6, <2>1, <2>2, <2>4, <2>5, <2>6 DEF Later
<1>13. Grown(proc, proc')
  BY <1>12 DEF Later, Grown
<1>14. Numbered(b, at', cur', proc', m)
  BY <1>4, <1>7, <1>10, <1>12 DEF Numbered, Later
<1>15. Sound(j, proc', m)
  <2>1. Sound(cur, proc', m)
    BY <1>6, <1>8, <1>10, <1>13, SoundLater
  <2> QED  BY <1>8, <1>10, <1>11, <2>1 DEF Sound, PidsOf
<1>16. TableSound(table', cur', proc', m)
  <2>1. TableSound(table, cur, proc', m)
    BY <1>6, <1>10, <1>13, TableLater, Parts
  <2>2. \A i \in 1..Len(table) : Apart(table[i], j) /\ Apart(table[i], NoJob)
    BY <1>10, <1>11, HandFacts, NoJobFacts DEF Apart, PidsOf
  <2>3. Apart(j, NoJob) /\ j.id # 0
    BY <1>10, <1>11, NoJobFacts DEF Apart
  <2>4. TableSound(Append(table, j), NoJob, proc', m)
    BY <1>6, <1>11, <1>15, <2>1, <2>2, <2>3, AppendSound
  <2> QED  BY <1>4, <2>4
<1>17. HandSound(at', cur', proc', m, tty')
  BY <1>4 DEF HandSound, Idle
<1>18. Remembered(table', cur', proc', reaped', (disowned \cup behind)')
  <2>0. PICK t : t = table'
    OBVIOUS
  <2>1. Len(t) \in 1..Len(t) /\ t[Len(t)] = j /\ \A i \in 1..Len(table) : i \in 1..Len(t) /\ t[i] = table[i]
    BY <1>4, <1>6, <1>11, <2>0
  <2>2. ASSUME NEW q \in Pid, proc'[q].st # "none", reaped[q] = NoCode, q \notin disowned \cup behind
        PROVE  \E i \in 1..Len(t) : q \in PidsOf(t[i])
    <3>1. proc[q].st # "none"
      BY <1>12, <2>2 DEF Later
    <3>2. q \in PidsOf(cur) \/ \E i \in 1..Len(table) : q \in PidsOf(table[i])
      BY <2>2, <3>1, Parts DEF Remembered
    <3>3. PidsOf(j) = PidsOf(cur)
      BY <1>11 DEF PidsOf
    <3> QED  BY <2>1, <3>2, <3>3
  <2> QED  BY <1>4, <2>0, <2>2 DEF Remembered
<1>19. TypeInv'
  <2>1. table' \in Seq(JobRecords)
    BY <1>4, <1>6, <1>11
  <2>2. nextId' \in Nat \ {0} /\ status' \in Codes \cup {0, 1, 127, 137, 148}
    BY <1>4, <1>9, <1>10
  <2> QED  BY <1>4, <1>6, <1>12, <2>1, <2>2, NoJobFacts DEF TypeInv
<1> QED  BY <1>9, <1>12, <1>14, <1>16, <1>17, <1>18, <1>19 DEF JobsInv

-----------------------------------------------------------------------------
(* The invariant holds. *)

LEMMA InitInv == Init => JobsInv
<1> SUFFICES ASSUME Init PROVE JobsInv
  OBVIOUS
<1>1. /\ proc = [p \in Pid |-> Unborn] /\ reaped = [p \in Pid |-> NoCode] /\ table = <<>> /\ nextId = 1
      /\ at = "prompt" /\ cur = NoJob /\ tty = 0 /\ status = 0
  BY DEF Init
<1>2. Unborn \in ProcessRecords /\ HasCode(Unborn) /\ Unborn.st = "none"
  BY Facts DEF Unborn, ProcessRecords, HasCode
<1>3. TypeInv
  BY <1>1, <1>2, NoJobFacts DEF TypeInv
<1>4. Len(table) = 0 /\ 0 \in 0..MaxPids
  BY <1>1, Facts
<1>5. Numbered(0, at, cur, proc, nextId)
  BY <1>1, <1>2, Facts DEF Numbered, Pid
<1>6. TableSound(table, cur, proc, nextId)
  BY <1>4 DEF TableSound
<1>7. HandSound(at, cur, proc, nextId, tty)
  BY <1>1 DEF HandSound, Idle
<1>8. Remembered(table, cur, proc, reaped, disowned \cup behind)
  BY <1>1, <1>2 DEF Remembered
<1>9. \A p \in Pid : HasCode(proc[p])
  BY <1>1, <1>2
<1> QED  BY <1>3, <1>4, <1>5, <1>6, <1>7, <1>8, <1>9 DEF JobsInv

LEMMA StutterInv == ASSUME JobsInv, UNCHANGED vars PROVE JobsInv'
<1>1. UNCHANGED <<proc, reaped, table, nextId, at, cur, tty, status, disowned, behind>>
  BY DEF vars
<1>2. proc \in [Pid -> ProcessRecords]
  BY Types, Zenon
<1>3. proc' \in [Pid -> ProcessRecords] /\ \A p \in Pid : Later(proc[p], proc'[p]) /\ HasCode(proc'[p])
  BY <1>1, <1>2, Parts DEF Later
<1> QED  BY <1>1, <1>3, KernelStep

LEMMA ShellInv == ASSUME JobsInv, Shell PROVE JobsInv'
  BY ForegroundEndsInv, ForegroundStopsInv, WaitAllNextInv, WaitedInv, WaitNextRoundInv, Zenon DEF Shell

LEMMA TypedInv == ASSUME JobsInv, Typed PROVE JobsInv'
<1>1. CASE \E k \in Kinds : Background(k)
  BY <1>1, BackgroundInv, Zenon
<1>2. CASE Foreground \/ List \/ ListPids \/ DisownRunning
  BY <1>2, ForegroundInv, ListInv, ListPidsInv, DisownRunningInv, Zenon
<1>3. CASE WaitAll
  BY <1>3, WaitAllInv, Zenon
<1>4. CASE \E i \in 1..MaxPids : Disown(i) \/ Bg(i) \/ Fg(i) \/ WaitId(i) \/ WaitPid(i)
  BY <1>4, DisownInv, BgInv, FgInv, WaitIdInv, WaitPidInv, Zenon
<1>5. CASE \E i \in 1..MaxPids, sig \in Signals : Kill(i, sig)
  BY <1>5, KillInv, Zenon
<1>6. CASE \E i \in 0..nextId : WaitNext({i})
  BY <1>6, WaitAllInv, Zenon
<1> QED  BY <1>1, <1>2, <1>3, <1>4, <1>5, <1>6, Zenon DEF Typed

LEMMA NextInv == JobsInv /\ [Next]_vars => JobsInv'
<1> SUFFICES ASSUME JobsInv, [Next]_vars PROVE JobsInv'
  OBVIOUS
<1>1. CASE Shell
  BY <1>1, ShellInv, Zenon
<1>2. CASE Typed
  BY <1>2, TypedInv, Zenon
<1>3. CASE CtrlZ
  BY <1>3, CtrlZInv, Zenon
<1>4. CASE \E p \in Pid : Exit(p) \/ ReadsTerminal(p)
  BY <1>4, ExitInv, ReadsTerminalInv, Zenon
<1>5. CASE UNCHANGED vars
  BY <1>5, StutterInv, Zenon
<1> QED  BY <1>1, <1>2, <1>3, <1>4, <1>5, Zenon DEF Next

\* The inductive invariant of job control: the table's jobs and the one in hand
\* have different ids and processes, each is of processes that were started, in
\* its group if it has one, and nothing that ended goes unnoticed.
THEOREM JobsInvHolds == Spec => []JobsInv
<1>1. Init => JobsInv
  BY InitInv
<1>2. JobsInv /\ [Next]_vars => JobsInv'
  BY NextInv
<1> QED  BY <1>1, <1>2, PTL DEF Spec

LEMMA InvTypes == JobsInv => TypeOK
<1> SUFFICES ASSUME JobsInv PROVE TypeOK
  OBVIOUS
<1>1. \A i, k \in 1..Len(table) : i # k =>
          table[i].id # table[k].id /\ PidsOf(table[i]) \cap PidsOf(table[k]) = {}
  BY Parts DEF TableSound, Apart
<1>2. /\ proc \in [Pid -> ProcessRecords]
      /\ reaped \in [Pid -> {NoCode, 137} \cup Codes]
      /\ cur \in JobRecords /\ table \in Seq(JobRecords)
      /\ at \in {"prompt", "foreground", "wait", "wait pid", "wait all", "wait one of all", "wait next"}
      /\ status \in Codes \cup {0, 1, 127, 137, 148}
  BY Types, Zenon
<1> QED  BY <1>1, <1>2 DEF TypeOK

\* Every variable keeps its type, and a job spec or a process names one job
\* (JobTable, exec.rs), whatever is started, listed, resumed and waited for.
THEOREM TypeCorrect == Spec => []TypeOK
  BY JobsInvHolds, InvTypes, PTL

LEMMA InvRemembers == JobsInv => NoneForgotten
<1> SUFFICES ASSUME JobsInv PROVE NoneForgotten
  OBVIOUS
<1>1. Remembered(table, cur, proc, reaped, disowned \cup behind)
  BY Parts
<1> HIDE DEF JobsInv
<1> QED  BY <1>1 DEF Remembered, NoneForgotten, Known

\* No process is forgotten by the removals of `jobs`, `disown`, `fg`, `wait` and
\* `wait -n` (jobs.rs), for any number of processes.
THEOREM ProcessesRemembered == Spec => []NoneForgotten
  BY JobsInvHolds, InvRemembers, PTL

LEMMA InvTerminal == JobsInv => TerminalBack
<1> SUFFICES ASSUME JobsInv PROVE TerminalBack
  OBVIOUS
<1>1. HandSound(at, cur, proc, nextId, tty)
  BY Parts
<1> QED  BY <1>1 DEF HandSound, TerminalBack

\* The terminal is the shell's whenever it reads a command (run_fg, run_single).
THEOREM TerminalGivenBack == Spec => []TerminalBack
  BY JobsInvHolds, InvTerminal, PTL

-----------------------------------------------------------------------------
(* A status is the last child's. *)

StatusStep ==
    cur # NoJob /\ cur' = NoJob /\ status' # 148 =>
        \/ status' = proc[LastPid(cur)].code
        \/ at = "foreground" /\ (Len(cur.pids) > 1 \/ reaped[cur.pids[1]] # NoCode)
        \/ at' = "wait all"

\* Only the end of what is in hand empties the hand.
LEMMA EndsOfHand ==
    ASSUME JobsInv, [Next]_vars, cur # NoJob, cur' = NoJob
    PROVE  ForegroundEnds \/ ForegroundStops \/ Waited
<1>1. at \notin Idle
  BY HandFacts
<1>2. at # "prompt" /\ at # "wait all" /\ at # "wait next"
  BY <1>1 DEF Idle
<1>3. ~WaitAllNext /\ ~WaitNextRound
  BY <1>2 DEF WaitAllNext, WaitNextRound
<1>4. ~Typed
  <2>1. /\ \A k \in Kinds : ~Background(k)
        /\ ~Foreground /\ ~List /\ ~ListPids /\ ~DisownRunning /\ ~WaitAll
    BY <1>2 DEF Background, Foreground, List, ListPids, DisownRunning, WaitAll
  <2>2. \A i \in 1..MaxPids : ~Disown(i) /\ ~Bg(i) /\ ~Fg(i) /\ ~WaitId(i) /\ ~WaitPid(i)
    BY <1>2 DEF Disown, Bg, Fg, WaitId, WaitPid
  <2>3. \A i \in 1..MaxPids, sig \in Signals : ~Kill(i, sig)
    BY <1>2 DEF Kill
  <2>4. \A i \in 0..nextId : ~WaitNext({i})
    BY <1>2 DEF WaitNext
  <2> QED  BY <2>1, <2>2, <2>3, <2>4, Zenon DEF Typed
<1>5. ~CtrlZ /\ (\A p \in Pid : ~Exit(p) /\ ~ReadsTerminal(p)) /\ ~(UNCHANGED vars)
  BY DEF CtrlZ, Exit, ReadsTerminal, vars
<1> QED  BY <1>3, <1>4, <1>5, Zenon DEF Next, Shell

LEMMA StatusIsTrue == JobsInv /\ [Next]_vars => StatusStep
<1> SUFFICES ASSUME JobsInv, [Next]_vars, cur # NoJob, cur' = NoJob, status' # 148
             PROVE  \/ status' = proc[LastPid(cur)].code
                    \/ at = "foreground" /\ (Len(cur.pids) > 1 \/ reaped[cur.pids[1]] # NoCode)
                    \/ at' = "wait all"
  BY DEF StatusStep
<1>1. ForegroundEnds \/ ForegroundStops \/ Waited
  BY EndsOfHand, Zenon
<1>2. CASE ForegroundEnds
  <2>1. cur \in JobRecords
    BY Types, Zenon
  <2>3. Len(cur.pids) > 0
    <3>1. at \notin Idle
      BY HandFacts
    <3> QED  BY <3>1, HandFacts DEF Sound
  <2>4. at = "foreground" /\ status' = IF reaped[cur.pids[1]] # NoCode THEN 1 ELSE proc[cur.pids[1]].code
    BY <1>2 DEF ForegroundEnds
  <2>5. Len(cur.pids) > 1 \/ LastPid(cur) = cur.pids[1]
    BY <2>1, <2>3, PidFacts, Zenon
  <2> QED  BY <2>4, <2>5
<1>3. CASE ForegroundStops
  BY <1>3 DEF ForegroundStops
<1>4. CASE Waited
  BY <1>4 DEF Waited
<1> QED  BY <1>1, <1>2, <1>3, <1>4

\* A job's status is its last child's, also when that child had been reaped
\* before (Job::wait, wait_for_next), for any number of processes and statuses.
THEOREM StatusOfTheLast == Spec => StatusTrue
<1>1. JobsInv /\ [Next]_vars => StatusStep
  BY StatusIsTrue
<1> QED  BY <1>1, JobsInvHolds, PTL DEF Spec, StatusTrue, StatusStep

-----------------------------------------------------------------------------
(* A job is resumed as a whole. *)

ResumeStep ==
    \A i \in 1..Len(table) :
        table[i].stopped /\ (\E j \in ToSet(table') \cup {cur'} : j.id = table[i].id /\ ~j.stopped)
        => \A p \in PidsOf(table[i]) : proc'[p].st # "stopped"

\* A job there was, the one in hand, a new one, or one that is marked stopped.
From(j) ==
    \/ \E k \in 1..Len(table) : j = table[k]
    \/ j = cur \/ j.id = 0 \/ j.id = nextId \/ j.stopped

\* Such a job is none that was marked stopped and is not any more.
LEMMA FromIsNoResume ==
    ASSUME JobsInv, NEW i \in 1..Len(table), table[i].stopped, NEW j, From(j), j.id = table[i].id
    PROVE  j.stopped
<1>1. /\ table[i].id # 0 /\ Apart(table[i], cur) /\ table[i].id < nextId
      /\ \A k \in 1..Len(table) : k # i => Apart(table[k], table[i])
  BY HandFacts, Parts DEF TableSound
<1>2. table[i].id # nextId
  <2>1. table[i].id \in 0..MaxPids
    BY Entries DEF JobRecords
  <2>2. nextId \in Nat
    BY Types, Zenon
  <2> QED  BY <1>1, <2>1, <2>2, Facts
<1>3. CASE \E k \in 1..Len(table) : j = table[k]
  BY <1>1, <1>3 DEF Apart
<1>4. CASE j = cur
  BY <1>1, <1>4 DEF Apart
<1> QED  BY <1>1, <1>2, <1>3, <1>4 DEF From

LEMMA NothingResumed ==
    ASSUME JobsInv, table' \in Seq(JobRecords), \A k \in 1..Len(table') : From(table'[k]), From(cur')
    PROVE  ResumeStep
<1> SUFFICES ASSUME NEW i \in 1..Len(table), table[i].stopped,
                    NEW j \in ToSet(table') \cup {cur'}, j.id = table[i].id, ~j.stopped
             PROVE  FALSE
  BY DEF ResumeStep
<1>1. From(j)
  <2>1. CASE j \in ToSet(table')
    BY <2>1 DEF ToSet
  <2>2. CASE j = cur'
    BY <2>2
  <2> QED  BY <2>1, <2>2
<1> QED  BY <1>1, FromIsNoResume

\* A table drawn from the one there was.
LEMMA DrawnFrom ==
    ASSUME JobsInv, table' \in Seq(JobRecords), Drawn(table', table), From(cur')
    PROVE  ResumeStep
<1>1. \A k \in 1..Len(table') : From(table'[k])
  BY DEF Drawn, From
<1> QED  BY <1>1, NothingResumed

LEMMA NewTable == ASSUME JobsInv' PROVE table' \in Seq(JobRecords)
<1>1. TypeInv'
  BY Zenon DEF JobsInv
<1> HIDE DEF JobsInv
<1> QED  BY <1>1 DEF TypeInv

LEMMA SameFrom == ASSUME JobsInv, table' = table, From(cur') PROVE ResumeStep
<1>1. table \in Seq(JobRecords)
  BY Types, Zenon
<1>2. table' \in Seq(JobRecords) /\ Drawn(table', table)
  BY <1>1 DEF Drawn
<1> QED  BY <1>2, DrawnFrom

LEMMA AppendFrom ==
    ASSUME JobsInv, NEW j \in JobRecords, table' = Append(table, j), j.id = nextId \/ j.stopped, From(cur')
    PROVE  ResumeStep
<1>1. table \in Seq(JobRecords)
  BY Types, Zenon
<1>2. /\ table' \in Seq(JobRecords)
      /\ \A k \in 1..Len(table') : table'[k] = j \/ (k \in 1..Len(table) /\ table'[k] = table[k])
  BY <1>1
<1>3. \A k \in 1..Len(table') : From(table'[k])
  BY <1>2 DEF From
<1> QED  BY <1>2, <1>3, NothingResumed

LEMMA TakeOutFrom == ASSUME JobsInv, NEW i \in 1..Len(table), TakeOut(i) PROVE ResumeStep
<1>1. table \in Seq(JobRecords)
  BY Types, Zenon
<1>2. table' = RemoveAt(table, i) /\ cur' = table[i]
  BY DEF TakeOut, Without
<1>3. table' \in Seq(JobRecords) /\ Drawn(table', table)
  BY <1>1, <1>2, RemoveFacts
<1>4. From(cur')
  BY <1>2 DEF From
<1> QED  BY <1>3, <1>4, DrawnFrom

\* SIGCONT to its group reaches every process of a job marked stopped.
LEMMA GroupResumes ==
    ASSUME JobsInv, NEW i \in 1..Len(table), table[i].stopped, proc' = ResumeGroup(table[i])
    PROVE  \A p \in PidsOf(table[i]) : proc'[p].st # "stopped"
<1>1. Sound(table[i], proc, nextId)
  BY Parts DEF TableSound
<1>2. \A p \in PidsOf(table[i]) : p \in Pid /\ proc[p].group = table[i].pids[1]
  <2>1. table[i] \in JobRecords
    BY Entries
  <2> QED  BY <1>1, <2>1, PidFacts DEF Sound
<1>3. \A p \in Pid : Continued(proc[p]).st # "stopped"
  <2>1. \A p \in Pid : proc[p] \in ProcessRecords
    BY Types, Zenon
  <2> QED  BY <2>1, Parts, SignalFacts
<1> QED  BY <1>2, <1>3 DEF ResumeGroup

LEMMA BgResumes == ASSUME JobsInv, NEW i, Bg(i) PROVE ResumeStep
<1>1. i \in 1..Len(table) /\ cur' = cur
  BY DEF Bg
<1>2. From(cur')
  BY <1>1 DEF From
<1>3. CASE ~table[i].stopped
  <2>1. table' = table
    BY <1>3 DEF Bg
  <2> QED  BY <1>2, <2>1, SameFrom
<1>4. CASE table[i].stopped
  <2>1. proc' = ResumeGroup(table[i]) /\ table' = [table EXCEPT ![i].stopped = FALSE]
    BY <1>4 DEF Bg
  <2>2. PICK c : c = [table[i] EXCEPT !.stopped = FALSE]
    OBVIOUS
  <2>3. c \in JobRecords /\ c.id = table[i].id
    <3>1. table[i] \in JobRecords
      BY <1>1, Entries
    <3> QED  BY <2>2, <3>1 DEF JobRecords
  <2>4. table' = [table EXCEPT ![i] = c]
    BY <2>1, <2>2
  <2>5. table \in Seq(JobRecords)
    BY Types, Zenon
  <2>6. PICK t : t = table'
    OBVIOUS
  <2>7. t \in Seq(JobRecords) /\ Len(t) = Len(table) /\ \A k \in 1..Len(table) : t[k] = IF k = i THEN c ELSE table[k]
    BY <1>1, <2>3, <2>4, <2>5, <2>6, UpdateFacts
  <2>8. ASSUME NEW m \in 1..Len(table), table[m].stopped,
               NEW j \in ToSet(t) \cup {cur'}, j.id = table[m].id, ~j.stopped
        PROVE  \A p \in PidsOf(table[m]) : proc'[p].st # "stopped"
    <3>1. CASE From(j)
      BY <2>8, <3>1, FromIsNoResume
    <3>2. CASE j = c
      <4>1. m = i
        BY <1>1, <2>3, <2>8, <3>2, Parts DEF TableSound, Apart
      <4> QED  BY <1>1, <1>4, <2>1, <4>1, GroupResumes
    <3>3. From(j) \/ j = c
      <4>1. CASE j = cur'
        BY <1>2, <4>1
      <4>2. CASE j \in ToSet(t)
        <5>1. PICK k \in 1..Len(table) : j = t[k]
          BY <2>7, <4>2 DEF ToSet
        <5> QED  BY <2>7, <5>1 DEF From
      <4> QED  BY <2>8, <4>1, <4>2
    <3> QED  BY <3>1, <3>2, <3>3
  <2> QED  BY <2>6, <2>8 DEF ResumeStep
<1> QED  BY <1>3, <1>4

LEMMA FgResumes == ASSUME JobsInv, NEW i, Fg(i) PROVE ResumeStep
<1>1. /\ i \in 1..Len(table) /\ table' = RemoveAt(table, i) /\ cur' = [table[i] EXCEPT !.stopped = FALSE]
      /\ table[i].grouped /\ table[i].stopped => proc' = ResumeGroup(table[i])
  BY DEF Fg, Without
<1>2. table \in Seq(JobRecords)
  BY Types, Zenon
<1>3. table' \in Seq(JobRecords) /\ Drawn(table', table)
  BY <1>1, <1>2, RemoveFacts
<1>4. cur'.id = table[i].id
  <2>1. table[i] \in JobRecords
    BY <1>1, Entries
  <2> QED  BY <1>1, <2>1 DEF JobRecords
<1>5. ASSUME NEW m \in 1..Len(table), table[m].stopped,
             NEW j \in ToSet(table') \cup {cur'}, j.id = table[m].id, ~j.stopped
      PROVE  \A p \in PidsOf(table[m]) : proc'[p].st # "stopped"
  <2>1. CASE j \in ToSet(table')
    <3>1. From(j)
      BY <1>3, <2>1 DEF ToSet, Drawn, From
    <3> QED  BY <1>5, <3>1, FromIsNoResume
  <2>2. CASE j = cur'
    <3>1. m = i
      BY <1>1, <1>4, <1>5, <2>2, Parts DEF TableSound, Apart
    <3>2. table[i].grouped
      BY <1>1, <1>5, <3>1, Parts DEF TableSound, Sound
    <3> QED  BY <1>1, <1>5, <3>1, <3>2, GroupResumes
  <2> QED  BY <1>5, <2>1, <2>2
<1> QED  BY <1>5 DEF ResumeStep

\* The other builtins, and what happens by itself.
LEMMA StaysFrom ==
    ASSUME JobsInv,
           \/ \E k \in Kinds : Background(k)
           \/ Foreground \/ List \/ ListPids \/ DisownRunning \/ WaitAll
           \/ \E i \in 1..MaxPids : Disown(i)
           \/ \E i \in 1..MaxPids, sig \in Signals : Kill(i, sig)
           \/ \E i \in 0..nextId : WaitNext({i})
           \/ CtrlZ
           \/ \E p \in Pid : Exit(p) \/ ReadsTerminal(p)
           \/ UNCHANGED vars
    PROVE  ResumeStep
<1>0. table \in Seq(JobRecords) /\ From(cur) /\ From(NoJob)
  <2>1. table \in Seq(JobRecords)
    BY Types, Zenon
  <2> QED  BY <2>1, NoJobFacts DEF From
<1>1. CASE \E k \in Kinds : Background(k)
  <2>1. PICK k \in Kinds : Background(k)
    BY <1>1
  <2>2. PICK j : j = NewJob(k, NewPids(k))
    OBVIOUS
  <2>3. table' = Append(table, j) /\ cur' = cur
    BY <2>1, <2>2 DEF Background
  <2>4. j.id = nextId
    BY <2>2 DEF NewJob
  <2>5. j \in JobRecords
    <3>1. JobsInv'
      BY <2>1, BackgroundInv
    <3>2. table' \in Seq(JobRecords)
      BY <3>1, NewTable
    <3>3. Len(table') \in 1..Len(table') /\ table'[Len(table')] = j
      BY <1>0, <2>3
    <3> QED  BY <3>2, <3>3
  <2>6. From(cur')
    BY <1>0, <2>3
  <2> QED  BY <2>3, <2>4, <2>5, <2>6, AppendFrom
<1>2. CASE Foreground
  <2>1. table' = table /\ cur' = [NewJob("command", NewPids("command")) EXCEPT !.id = 0]
    BY <1>2 DEF Foreground
  <2>2. cur'.id = 0
    BY <2>1 DEF NewJob
  <2>3. From(cur')
    BY <2>2 DEF From
  <2> QED  BY <2>1, <2>3, SameFrom
<1>3. CASE List \/ ListPids
  <2>1. PICK K : table' = Only(table, K)
    BY <1>3 DEF List, ListPids
  <2>2. cur' = cur
    BY <1>3 DEF List, ListPids
  <2>3. table' \in Seq(JobRecords) /\ Drawn(table', table) /\ From(cur')
    BY <1>0, <2>1, <2>2, OnlyDrawn
  <2> QED  BY <2>3, DrawnFrom
<1>4. CASE DisownRunning
  <2>1. PICK K : table' = Only(table, K)
    BY <1>4 DEF DisownRunning
  <2>2. cur' = cur
    BY <1>4 DEF DisownRunning
  <2>3. table' \in Seq(JobRecords) /\ Drawn(table', table) /\ From(cur')
    BY <1>0, <2>1, <2>2, OnlyDrawn
  <2> QED  BY <2>3, DrawnFrom
<1>5. CASE \E i \in 1..MaxPids : Disown(i)
  <2>1. PICK i : Disown(i)
    BY <1>5
  <2>2. i \in 1..Len(table) /\ table' = RemoveAt(table, i) /\ cur' = cur
    BY <2>1 DEF Disown, Without
  <2>3. table' \in Seq(JobRecords) /\ Drawn(table', table) /\ From(cur')
    BY <1>0, <2>2, RemoveFacts
  <2> QED  BY <2>3, DrawnFrom
<1>6. CASE \/ WaitAll \/ \E i \in 1..MaxPids, sig \in Signals : Kill(i, sig)
           \/ \E i \in 0..nextId : WaitNext({i})
           \/ CtrlZ \/ \E p \in Pid : Exit(p) \/ ReadsTerminal(p)
           \/ UNCHANGED vars
  <2>1. table' = table /\ cur' = cur
    BY <1>6 DEF WaitAll, Kill, WaitNext, CtrlZ, Exit, ReadsTerminal, vars
  <2>2. From(cur')
    BY <1>0, <2>1
  <2> QED  BY <2>1, <2>2, SameFrom
<1> QED  BY <1>1, <1>2, <1>3, <1>4, <1>5, <1>6, Zenon

\* Waiting, and the end of a wait.
LEMMA WaitsFrom ==
    ASSUME JobsInv, Shell \/ \E i \in 1..MaxPids : WaitId(i) \/ WaitPid(i)
    PROVE  ResumeStep
<1>0. From(cur) /\ From(NoJob)
  BY NoJobFacts DEF From
<1>1. CASE ForegroundEnds \/ Waited
  <2>1. table' = table /\ cur' = NoJob
    BY <1>1 DEF ForegroundEnds, Waited
  <2>2. From(cur')
    BY <1>0, <2>1
  <2> QED  BY <2>1, <2>2, SameFrom
<1>2. CASE ForegroundStops
  <2>1. PICK j : table' = Append(table, j) /\ j.stopped
    <3>1. PICK id : table' = Append(table, [cur EXCEPT !.id = id, !.stopped = TRUE])
      BY <1>2 DEF ForegroundStops
    <3>2. cur \in JobRecords
      BY Types, Zenon
    <3>3. [cur EXCEPT !.id = id, !.stopped = TRUE].stopped
      BY <3>2 DEF JobRecords
    <3> QED  BY <3>1, <3>3
  <2>2. cur' = NoJob
    BY <1>2 DEF ForegroundStops
  <2>3. From(cur')
    BY <1>0, <2>2
  <2>4. j \in JobRecords
    <3>1. JobsInv'
      BY <1>2, ForegroundStopsInv
    <3>2. table' \in Seq(JobRecords)
      BY <3>1, NewTable
    <3>3. Len(table') \in 1..Len(table') /\ table'[Len(table')] = j
      <4>1. table \in Seq(JobRecords)
        BY Types, Zenon
      <4> QED  BY <2>1, <4>1
    <3> QED  BY <3>2, <3>3
  <2> QED  BY <2>1, <2>3, <2>4, AppendFrom
<1>3. CASE WaitAllNext \/ WaitNextRound \/ \E i \in 1..MaxPids : WaitId(i) \/ WaitPid(i)
  <2>1. CASE table' = table /\ cur' = cur
    BY <1>0, <2>1, SameFrom
  <2>2. CASE \E i \in 1..Len(table) : TakeOut(i)
    BY <2>2, TakeOutFrom
  <2>3. WaitAllNext \/ (\E i \in 1..MaxPids : WaitId(i) \/ WaitPid(i)) =>
            (table' = table /\ cur' = cur) \/ \E i \in 1..Len(table) : TakeOut(i)
    BY DEF WaitAllNext, WaitId, WaitPid
  <2>4. WaitNextRound => (table' = table /\ cur' = cur) \/ \E i \in 1..Len(table) : TakeOut(i)
    <3> DEFINE found == {i \in 1..Len(table) : Eligible(table[i]) /\ AllEnded(table[i])}
               first == CHOOSE i \in found : \A k \in found : i <= k
    <3>1. WaitNextRound => (table' = table /\ cur' = cur) \/ (found # {} /\ TakeOut(first))
      BY DEF WaitNextRound
    <3>2. found # {} => first \in 1..Len(table)
      <4>1. found \in SUBSET Nat
        OBVIOUS
      <4> HIDE DEF found
      <4>2. found # {} => first \in found
        BY <4>1, Least
      <4> USE DEF found
      <4> QED  BY <4>2
    <3> HIDE DEF found, first
    <3> QED  BY <3>1, <3>2
  <2> QED  BY <1>3, <2>1, <2>2, <2>3, <2>4
<1>4. CASE \E i \in 1..MaxPids : WaitId(i) \/ WaitPid(i)
  BY <1>3, <1>4
<1> QED  BY <1>1, <1>2, <1>3, <1>4, Zenon DEF Shell

LEMMA ResumesWhole == JobsInv /\ [Next]_vars => ResumeStep
<1> SUFFICES ASSUME JobsInv, [Next]_vars PROVE ResumeStep
  OBVIOUS
<1>1. CASE Typed
  BY <1>1, BgResumes, FgResumes, StaysFrom, WaitsFrom, Zenon DEF Typed
<1>2. CASE Shell
  BY <1>2, WaitsFrom, Zenon
<1>3. CASE CtrlZ \/ (\E p \in Pid : Exit(p) \/ ReadsTerminal(p)) \/ UNCHANGED vars
  BY <1>3, StaysFrom, Zenon
<1> QED  BY <1>1, <1>2, <1>3, Zenon DEF Next

\* A job stops being marked stopped only when all its processes run again or
\* have ended (run_bg, run_fg, Job::pgid), for any number of processes.
THEOREM JobsResumedWhole == Spec => ResumedWhole
<1>1. JobsInv /\ [Next]_vars => ResumeStep
  BY ResumesWhole
<1> QED  BY <1>1, JobsInvHolds, PTL DEF Spec, ResumedWhole, ResumeStep
=============================================================================
