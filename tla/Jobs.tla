---------------------------------- MODULE Jobs ----------------------------------
(***************************************************************************)
(* Job control, builtins/jobs.rs and exec.rs: the table of background and  *)
(* stopped jobs, the builtins that walk it, and the children they wait     *)
(* for.  The children run, stop and end beside the shell's one thread.     *)
(*                                                                         *)
(* The session is not a pane's (jobs have no pty) and monitor mode is on.  *)
(* A process is its number; numbers are handed out in order.               *)
(***************************************************************************)
EXTENDS Integers, Sequences, FiniteSets, SequencesExt, Lists

CONSTANTS
    MaxPids,    \* bound on the processes of a behaviour
    Kinds,      \* what the user starts
    Builtins,   \* the commands typed
    Codes       \* exit statuses of processes

Pid == 1..MaxPids
KindNames == {"command", "pipeline", "subshell"}
BuiltinNames == {"jobs", "jobs -p", "disown", "disown -r", "fg", "bg",
                 "wait", "wait id", "wait pid", "wait -n", "wait -n id",
                 "kill -KILL", "kill -STOP", "kill -CONT"}
Signals == {"kill -KILL", "kill -STOP", "kill -CONT"}

ASSUME JobsAssumption ==
    /\ MaxPids \in Nat
    /\ Kinds \subseteq KindNames /\ Builtins \subseteq BuiltinNames
    /\ Codes \subseteq 0..255

VARIABLES
    proc,       \* each process: state, status it ended with, group, stop not yet waited for
    reaped,     \* what the Child of each process remembers of its end
    table,      \* JobTable::jobs
    nextId,     \* JobTable::next_job_id
    at,         \* where the shell is
    cur,        \* the job it has taken out of the table
    watched,    \* the ids `wait -n` was given
    tty,        \* the terminal's foreground group, 0 the shell's
    status,     \* $?
    \* What only the properties read.
    disowned,   \* processes given up on purpose
    behind      \* later stages of pipelines, which `fg` does not wait for

vars == <<proc, reaped, table, nextId, at, cur, watched, tty, status, disowned, behind>>
kernel == <<proc, reaped>>
notes == <<disowned, behind>>

NoCode == -1
AnyJob == {0}
NoJob == [id |-> 0, pids |-> <<>>, grouped |-> FALSE, stopped |-> FALSE]
Unborn == [st |-> "none", code |-> NoCode, group |-> 0, news |-> FALSE]

PidsOf(j) == ToSet(j.pids)
Ended(p) == proc[p].st = "ended"
\* A fault: a pipeline is done with its first stage.
LeaderEnded(j) == Ended(j.pids[1])
\* Job::poll has an answer: every child has ended.
AllEnded(j) == \A p \in PidsOf(j) : Ended(p)
LastPid(j) == j.pids[Len(j.pids)]

-----------------------------------------------------------------------------
(* Processes. *)

Init ==
    /\ proc = [p \in Pid |-> Unborn]
    /\ reaped = [p \in Pid |-> NoCode]
    /\ table = <<>> /\ nextId = 1
    /\ at = "prompt" /\ cur = NoJob /\ watched = AnyJob
    /\ tty = 0 /\ status = 0
    /\ disowned = {} /\ behind = {}

Born(p, group) == [st |-> "running", code |-> NoCode, group |-> group, news |-> FALSE]
Killed(r) == IF r.st \in {"running", "stopped"} THEN [r EXCEPT !.st = "ended", !.code = 137, !.news = FALSE] ELSE r
Stopped(r) == IF r.st = "running" THEN [r EXCEPT !.st = "stopped", !.news = TRUE] ELSE r
Continued(r) == IF r.st = "stopped" THEN [r EXCEPT !.st = "running", !.news = FALSE] ELSE r

Exit(p) ==
    /\ proc[p].st = "running"
    /\ \E c \in Codes : proc' = [proc EXCEPT ![p].st = "ended", ![p].code = c]
    /\ UNCHANGED <<reaped, table, nextId, at, cur, watched, tty, status, notes>>

\* Ctrl-Z: the terminal stops its foreground group.
CtrlZ ==
    /\ tty # 0
    /\ proc' = [p \in Pid |-> IF proc[p].group = tty THEN Stopped(proc[p]) ELSE proc[p]]
    /\ UNCHANGED <<reaped, table, nextId, at, cur, watched, tty, status, notes>>

\* A background process reads the terminal: SIGTTIN.
ReadsTerminal(p) ==
    /\ proc[p].st = "running" /\ proc[p].group # tty
    /\ proc' = [proc EXCEPT ![p] = Stopped(@)]
    /\ UNCHANGED <<reaped, table, nextId, at, cur, watched, tty, status, notes>>

-----------------------------------------------------------------------------
(* Starting. *)

NewPids(k) ==
    LET born == Cardinality({p \in Pid : proc[p].st # "none"})
    IN IF k = "pipeline" THEN <<born + 1, born + 2>> ELSE <<born + 1>>
GroupOf(k, pids) == IF k = "subshell" THEN 0 ELSE pids[1]

\* command.spawn, and the children in the group of the first.
Spawn(k, pids) ==
    /\ \A i \in 1..Len(pids) : pids[i] \in Pid
    /\ proc' = [p \in Pid |-> IF p \in ToSet(pids) THEN Born(p, GroupOf(k, pids)) ELSE proc[p]]
    /\ UNCHANGED reaped

\* A fault: the id the table's length gives.
NewJobByLength(k, pids) == [id |-> Len(table) + 1, pids |-> pids, grouped |-> k # "subshell", stopped |-> FALSE]
NewJob(k, pids) == [id |-> nextId, pids |-> pids, grouped |-> k # "subshell", stopped |-> FALSE]

\* push_job_full: `cmd &`, `a | b &`, `( list ) &`.
Background(k) ==
    LET pids == NewPids(k)
    IN /\ at = "prompt" /\ Spawn(k, pids)
       /\ table' = Append(table, NewJob(k, pids))
       /\ nextId' = nextId + 1
       /\ status' = 0
       /\ UNCHANGED <<at, cur, watched, tty, notes>>

\* A command in the foreground gets the terminal; it is a job only once it stops.
Foreground ==
    LET pids == NewPids("command")
    IN /\ at = "prompt" /\ "command" \in Kinds /\ Spawn("command", pids)
       /\ cur' = [NewJob("command", pids) EXCEPT !.id = 0]
       /\ tty' = pids[1]
       /\ at' = "foreground"
       /\ UNCHANGED <<table, nextId, watched, status, notes>>

-----------------------------------------------------------------------------
(* Looking at the table. *)

\* The statuses of the processes in S are collected.
Reap(S) == reaped' = [p \in Pid |-> IF p \in S /\ Ended(p) THEN proc[p].code ELSE reaped[p]]

Without(i) == RemoveAt(table, i)

\* `jobs`: a job marked stopped is listed without looking at it; of the others
\* the children that ended are reaped, and the jobs that are done go.
List ==
    LET polled == {j \in ToSet(table) : ~j.stopped}
    IN /\ "jobs" \in Builtins /\ at = "prompt"
       /\ Reap(UNION {PidsOf(j) : j \in polled})
       /\ table' = Only(table, {j \in ToSet(table) : j.stopped \/ ~AllEnded(j)})
       /\ status' = 0
       /\ UNCHANGED <<proc, nextId, at, cur, watched, tty, notes>>

\* `jobs -p` looks at every job, and keeps those marked stopped.
ListPids ==
    /\ "jobs -p" \in Builtins /\ at = "prompt"
    /\ Reap(UNION {PidsOf(j) : j \in ToSet(table)})
    /\ table' = Only(table, {j \in ToSet(table) : j.stopped \/ ~AllEnded(j)})
    /\ status' = 0
    /\ UNCHANGED <<proc, nextId, at, cur, watched, tty, notes>>

Disown(i) ==
    /\ "disown" \in Builtins /\ at = "prompt" /\ i \in 1..Len(table)
    /\ table' = Without(i)
    /\ disowned' = disowned \cup PidsOf(table[i])
    /\ status' = 0
    /\ UNCHANGED <<kernel, nextId, at, cur, watched, tty, behind>>

\* Jobs not marked stopped count as running.
DisownRunning ==
    /\ "disown -r" \in Builtins /\ at = "prompt"
    /\ table' = Only(table, {j \in ToSet(table) : j.stopped})
    /\ disowned' = disowned \cup UNION {PidsOf(j) : j \in {k \in ToSet(table) : ~k.stopped}}
    /\ status' = 0
    /\ UNCHANGED <<kernel, nextId, at, cur, watched, tty, behind>>

-----------------------------------------------------------------------------
(* Signals. *)

\* A fault: the leader alone.
ResumeLeader(j) == [proc EXCEPT ![j.pids[1]] = Continued(@)]
\* SIGCONT to the group whose leader is a job's first process.
ResumeGroup(j) == [p \in Pid |-> IF proc[p].group = j.pids[1] THEN Continued(proc[p]) ELSE proc[p]]

Bg(i) ==
    /\ "bg" \in Builtins /\ at = "prompt" /\ i \in 1..Len(table)
    /\ IF table[i].stopped
       THEN /\ proc' = ResumeGroup(table[i])
            /\ table' = [table EXCEPT ![i].stopped = FALSE]
       ELSE UNCHANGED <<proc, table>>
    /\ status' = 0
    /\ UNCHANGED <<reaped, nextId, at, cur, watched, tty, notes>>

Signalled(sig, r) ==
    CASE sig = "kill -KILL" -> Killed(r)
      [] sig = "kill -STOP" -> Stopped(r)
      [] sig = "kill -CONT" -> Continued(r)

\* `kill -SIG %n`: each process of the job, whatever the table says of it.
Kill(i, sig) ==
    /\ sig \in Builtins /\ at = "prompt" /\ i \in 1..Len(table)
    /\ proc' = [p \in Pid |-> IF p \in PidsOf(table[i]) THEN Signalled(sig, proc[p]) ELSE proc[p]]
    /\ status' = 0
    /\ UNCHANGED <<reaped, table, nextId, at, cur, watched, tty, notes>>

-----------------------------------------------------------------------------
(* fg, and the foreground. *)

\* A job without a group keeps the terminal with the shell and is waited for.
Fg(i) ==
    LET j == table[i]
    IN /\ "fg" \in Builtins /\ at = "prompt" /\ i \in 1..Len(table)
       /\ table' = Without(i)
       /\ cur' = [j EXCEPT !.stopped = FALSE]
       /\ IF j.grouped
          THEN /\ proc' = IF j.stopped THEN ResumeGroup(j) ELSE proc
               /\ tty' = j.pids[1]
               /\ at' = "foreground"
          ELSE /\ at' = "wait"
               /\ UNCHANGED <<proc, tty>>
       /\ UNCHANGED <<reaped, nextId, watched, status, notes>>

\* waitpid_untraced(pids[0]) sees the end; a process whose status is already
\* collected is Gone.
ForegroundEnds ==
    LET p == cur.pids[1]
    IN /\ at = "foreground" /\ Ended(p)
       /\ status' = IF reaped[p] # NoCode THEN 1 ELSE proc[p].code
       /\ Reap({p})
       /\ tty' = 0
       /\ cur' = NoJob
       /\ at' = "prompt"
       /\ behind' = behind \cup (PidsOf(cur) \ {p})
       /\ UNCHANGED <<proc, table, nextId, watched, disowned>>

\* A fault: the terminal left with the stopped job.
ForegroundStopsKeepingTty ==
    LET p == cur.pids[1]
        id == IF cur.id = 0 THEN nextId ELSE cur.id
    IN /\ at = "foreground" /\ proc[p].st = "stopped" /\ proc[p].news
       /\ proc' = [proc EXCEPT ![p].news = FALSE]
       /\ table' = Append(table, [cur EXCEPT !.id = id, !.stopped = TRUE])
       /\ nextId' = IF cur.id = 0 THEN nextId + 1 ELSE nextId
       /\ status' = 148
       /\ cur' = NoJob
       /\ at' = "prompt"
       /\ UNCHANGED <<reaped, watched, tty, notes>>

\* It sees the process stop: the job goes (back) to the end of the table.
ForegroundStops ==
    LET p == cur.pids[1]
        id == IF cur.id = 0 THEN nextId ELSE cur.id
    IN /\ at = "foreground" /\ proc[p].st = "stopped" /\ proc[p].news
       /\ proc' = [proc EXCEPT ![p].news = FALSE]
       /\ tty' = 0
       /\ table' = Append(table, [cur EXCEPT !.id = id, !.stopped = TRUE])
       /\ nextId' = IF cur.id = 0 THEN nextId + 1 ELSE nextId
       /\ status' = 148
       /\ cur' = NoJob
       /\ at' = "prompt"
       /\ UNCHANGED <<reaped, watched, notes>>

-----------------------------------------------------------------------------
(* wait. *)

TakeOut(i) ==
    /\ table' = Without(i)
    /\ cur' = table[i]

WaitId(i) ==
    /\ "wait id" \in Builtins /\ at = "prompt" /\ i \in 1..Len(table)
    /\ IF table[i].stopped
       THEN status' = 127 /\ UNCHANGED <<table, cur, at>>
       ELSE TakeOut(i) /\ at' = "wait" /\ UNCHANGED status
    /\ UNCHANGED <<kernel, nextId, watched, tty, notes>>

\* By a process's number: the job that has it, stopped or not.
WaitPid(i) ==
    /\ "wait pid" \in Builtins /\ at = "prompt" /\ i \in 1..Len(table)
    /\ TakeOut(i)
    /\ at' = "wait pid"
    /\ UNCHANGED <<kernel, nextId, watched, tty, status, notes>>

WaitAll ==
    /\ "wait" \in Builtins /\ at = "prompt"
    /\ at' = "wait all"
    /\ UNCHANGED <<kernel, table, nextId, cur, watched, tty, status, notes>>

\* A fault: the first job, whatever its state.
Waitable(i) == i = 1
\* The next job of a bare `wait`: the first not marked stopped.
NextToWait(i) == ~table[i].stopped /\ \A k \in 1..(i - 1) : table[k].stopped

WaitAllNext ==
    /\ at = "wait all"
    /\ IF \A i \in 1..Len(table) : table[i].stopped
       THEN at' = "prompt" /\ status' = 0 /\ UNCHANGED <<table, cur>>
       ELSE /\ \E i \in 1..Len(table) : NextToWait(i) /\ TakeOut(i)
            /\ at' = "wait one of all"
            /\ UNCHANGED status
    /\ UNCHANGED <<kernel, nextId, watched, tty, notes>>

\* A fault: asked of the kernel, which has nothing to say of a child the shell
\* has already reaped.
WaitedInKernel ==
    /\ at \in {"wait", "wait pid", "wait one of all"} /\ AllEnded(cur)
    /\ Reap(PidsOf(cur))
    /\ status' = IF reaped[LastPid(cur)] # NoCode THEN 1 ELSE proc[LastPid(cur)].code
    /\ cur' = NoJob
    /\ at' = IF at = "wait one of all" THEN "wait all" ELSE "prompt"
    /\ UNCHANGED <<proc, table, nextId, watched, tty, notes>>

\* Job::wait: every child ended, the last one's status.
Waited ==
    /\ at \in {"wait", "wait pid", "wait one of all"} /\ AllEnded(cur)
    /\ Reap(PidsOf(cur))
    /\ status' = proc[LastPid(cur)].code
    /\ cur' = NoJob
    /\ at' = IF at = "wait one of all" THEN "wait all" ELSE "prompt"
    /\ UNCHANGED <<proc, table, nextId, watched, tty, notes>>

WaitNext(ids) ==
    /\ at = "prompt"
    /\ \/ "wait -n" \in Builtins /\ ids = AnyJob
       \/ "wait -n id" \in Builtins /\ \E j \in ToSet(table) : ids = {j.id}
    /\ watched' = ids
    /\ at' = "wait next"
    /\ UNCHANGED <<kernel, table, nextId, cur, tty, status, notes>>

Eligible(j) == ~j.stopped /\ (watched = AnyJob \/ j.id \in watched)

\* One round of wait_for_next: the eligible jobs are polled in order until one
\* has ended.
WaitNextRound ==
    LET found == {i \in 1..Len(table) : Eligible(table[i]) /\ AllEnded(table[i])}
        first == CHOOSE i \in found : \A k \in found : i <= k
        polled == {i \in 1..Len(table) : Eligible(table[i]) /\ (found # {} => i <= first)}
    IN /\ at = "wait next"
       /\ Reap(UNION {PidsOf(table[i]) : i \in polled})
       /\ \/ /\ polled = {}
             /\ at' = "prompt" /\ status' = 127 /\ watched' = AnyJob
             /\ UNCHANGED <<table, cur>>
          \/ /\ found # {}
             /\ TakeOut(first) /\ at' = "wait" /\ watched' = AnyJob
             /\ UNCHANGED status
          \/ /\ polled # {} /\ found = {}
             /\ UNCHANGED <<table, cur, at, watched, status>>
       /\ UNCHANGED <<proc, nextId, tty, notes>>

-----------------------------------------------------------------------------
Shell ==
    \/ ForegroundEnds \/ ForegroundStops \/ WaitAllNext \/ Waited \/ WaitNextRound

Typed ==
    \/ \E k \in Kinds : Background(k)
    \/ Foreground \/ List \/ ListPids \/ DisownRunning \/ WaitAll
    \/ \E i \in 1..MaxPids : Disown(i) \/ Bg(i) \/ Fg(i) \/ WaitId(i) \/ WaitPid(i)
    \/ \E i \in 1..MaxPids, sig \in Signals : Kill(i, sig)
    \/ \E i \in 0..nextId : WaitNext({i})

Next ==
    \/ Shell \/ Typed \/ CtrlZ
    \/ \E p \in Pid : Exit(p) \/ ReadsTerminal(p)

Spec == Init /\ [][Next]_vars

\* The shell takes its steps, and a process that runs comes to its end.
FairSpec == Spec /\ WF_vars(Shell) /\ \A p \in Pid : WF_vars(Exit(p))

-----------------------------------------------------------------------------
(* Properties. *)

ProcessRecords == [st : {"none", "running", "stopped", "ended"}, code : {NoCode, 137} \cup Codes,
                   group : {0} \cup Pid, news : BOOLEAN]
\* Every job takes a process of its own, and one id.
JobRecords == [id : 0..MaxPids, pids : Seq(Pid), grouped : BOOLEAN, stopped : BOOLEAN]

\* Every variable has its type; no two jobs have an id or a process in common,
\* so that a job spec or a process names one of them.
TypeOK ==
    /\ proc \in [Pid -> ProcessRecords]
    /\ reaped \in [Pid -> {NoCode, 137} \cup Codes]
    /\ cur \in JobRecords /\ table \in Seq(JobRecords)
    /\ at \in {"prompt", "foreground", "wait", "wait pid", "wait all", "wait one of all", "wait next"}
    /\ status \in Codes \cup {0, 1, 127, 137, 148}
    /\ \A i, k \in 1..Len(table) : i # k =>
           table[i].id # table[k].id /\ PidsOf(table[i]) \cap PidsOf(table[k]) = {}

Known == PidsOf(cur) \cup UNION {PidsOf(table[i]) : i \in 1..Len(table)}

\* No process is forgotten: one whose end the shell has not learnt of is a
\* process of a job in the table or of the one in hand, unless the user
\* disowned it or `fg` of its pipeline returned with the first stage
\* (jobs.rs: the removals of run_jobs, run_fg, run_wait and wait_for_next).
NoneForgotten ==
    \A p \in Pid : proc[p].st # "none" /\ reaped[p] = NoCode => p \in Known \cup disowned \cup behind

\* The terminal is the shell's own whenever it reads a command, and otherwise
\* that of the job it is waiting for (jobs.rs run_fg, exec.rs run_single).
TerminalBack == tty # 0 => at = "foreground" /\ tty = cur.pids[1]

\* A job's status is its last child's, also when `jobs` or `wait -n` had
\* reaped that child before (exec.rs Job::wait: the comment of wait_for_next on
\* "a status that's gone"); of a job of one command brought to the foreground
\* too, unless it had been reaped there.
StatusTrue ==
    [][cur # NoJob /\ cur' = NoJob /\ status' # 148 =>
         \/ status' = proc[LastPid(cur)].code
         \/ at = "foreground" /\ (Len(cur.pids) > 1 \/ reaped[cur.pids[1]] # NoCode)
         \/ at' = "wait all"]_vars

\* A job stops being marked stopped only when all its processes run again or
\* have ended, so that no stage sleeps in a job that `wait` takes for a
\* running one (jobs.rs run_bg and run_fg, exec.rs Job::pgid).
ResumedWhole ==
    [][\A i \in 1..Len(table) :
          table[i].stopped /\ (\E j \in ToSet(table') \cup {cur'} : j.id = table[i].id /\ ~j.stopped)
          => \A p \in PidsOf(table[i]) : proc'[p].st # "stopped"]_vars

\* The jobs a `wait` may be waiting for.
Awaited ==
    CASE at = "wait next" -> {j \in ToSet(table) : Eligible(j)}
      [] at = "prompt" \/ at = "wait all" -> {}
      [] OTHER -> {cur}

Back ==
    \/ at = "prompt"
    \/ \E j \in Awaited : ~j.stopped /\ \E p \in PidsOf(j) : proc[p].st = "stopped"

\* What the shell waits for comes to an end, unless a process of it is stopped
\* without the shell having been told (exec.rs Job::stopped), except for
\* `wait PID` (jobs.rs run_wait, wait_for_next, run_fg).
WaitReturns == at \notin {"prompt", "wait pid"} ~> Back

\* So does `wait PID`: "Stopped jobs are skipped" (jobs.rs run_wait).
WaitPidReturns == at = "wait pid" ~> Back
=============================================================================
