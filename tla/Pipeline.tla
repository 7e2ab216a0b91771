------------------------------- MODULE Pipeline -------------------------------
(***************************************************************************)
(* A pipeline with two or more stages that need a shell, as                *)
(* exec.rs:run_multi_scheduled builds it and scheduler.rs:Scheduler::run   *)
(* drives it: the shell stages are coroutines that take turns on the       *)
(* shell's one thread and on its one pair of descriptors 0 and 1, the      *)
(* other stages are real processes, and neighbours share a bounded pipe.   *)
(*                                                                         *)
(* Pipe p carries stage p's output to stage p + 1.  Pipe 0 is the shell's  *)
(* own standard input and pipe N its own standard output, so that fd0 and  *)
(* fd1 are pipe numbers whatever is installed on them.  A pipe carries     *)
(* units; a line is Chunk units and a unit is its position in its line,    *)
(* which is all it takes to see a unit lost, doubled or misdirected.       *)
(***************************************************************************)
EXTENDS Integers, Sequences, FiniteSets

CONSTANTS
    N,          \* number of stages
    External,   \* the stages that are real processes
    Roles,      \* what each stage may be asked to do
    Cap,        \* units a pipe holds
    Chunk,      \* units in a line, written by one write_fd_parking
    Quota,      \* lines "produce" writes and "head" takes
    Feed,       \* units the shell's own standard input delivers
    Terminal,   \* what the shell's own stdin and stdout are
    Outer,      \* the broken-pipe watches the pipeline may be started under
    MayFail     \* whether a stage may fail to start

Stage == 1..N
Shells == Stage \ External
RoleNames == {"produce", "endless", "copy", "head", "drain", "group", "panic"}

\* "file": stdin is always ready, stdout never fills.  "slow": both block, as
\* a terminal or a pipe does.  "pane": stdout is the pty of a window pane,
\* which only this thread empties.
Terminals == {"file", "slow", "pane"}

\* run_multi sends a pipeline here only when at least two stages need a shell.
ASSUME PipelineAssumption ==
    /\ N \in Nat
    /\ External \subseteq Stage
    /\ \E s, t \in Shells : s # t
    /\ Roles \in [Stage -> SUBSET RoleNames]
    /\ \A s \in External : Roles[s] \subseteq {"produce", "endless", "copy", "head"}
    /\ Cap \in Nat \ {0} /\ Chunk \in Nat \ {0} /\ Quota \in Nat \ {0}
    /\ Feed \in Nat
    /\ Terminal \in Terminals
    /\ Outer \subseteq {"off", "armed"}
    /\ MayFail \in BOOLEAN

VARIABLES
    pc,         \* where the thread is: "build", "pass", "run", "sleep", "reap", "returned"
    idx,        \* the stage its loop has reached
    ran,        \* run_tasks: ran_something
    role,       \* what each stage does
    co,         \* coroutine::State of each shell stage ("none" before it is added)
    park,       \* Task::park
    broken,     \* Task::broken
    watch,      \* exec::BROKEN_PIPE
    outer,      \* the watch swapped out for the running task's
    fd0, fd1,   \* the pipes the shell's descriptors 0 and 1 name
    at,         \* where each shell stage's body is
    line,       \* units of the current line already read or written
    left,       \* lines it still has to handle
    status,     \* each stage's exit status
    proc,       \* the real process of each stage: an external, or a group's child
    buf,        \* units in each pipe
    want,       \* the unit each pipe's reader expects next
    feed        \* units standard input has still to deliver

thread == <<pc, idx, ran>>
tasks  == <<co, park, broken>>
watches == <<watch, outer>>
fds    == <<fd0, fd1>>
body   == <<at, line, left>>
pipes  == <<buf, want, feed>>
vars   == <<thread, role, tasks, watches, fds, body, status, proc, pipes>>

-----------------------------------------------------------------------------
(* Units, lines and what a role does with them. *)

Unit == 1..Chunk
Ahead(k, n) == ((k - 1 + n) % Chunk) + 1
Line == [k \in Unit |-> k]

Reads(r)  == r \in {"copy", "head", "drain", "group"}
Echoes(r) == r \in {"copy", "head", "group"}
Endless(r) == r \in {"endless", "copy", "drain"}
Lines(r)  == IF r \in {"group", "panic"} THEN 1 ELSE Quota

NoProc == [st |-> "none", in |-> 0, out |-> 0, held |-> 0, left |-> 0, code |-> 0]
Alive(s) == proc[s].st = "alive"

\* What the process of stage s does: an external its role, a group's child is
\* the `cat` of `{ read l; echo "$l"; cat; }`.
ProcRole(s) == IF s \in External THEN role[s] ELSE "copy"
Generates(r) == r \in {"produce", "endless"}
Start(r, in, out) ==
    [st |-> "alive", in |-> in, out |-> out,
     held |-> IF Generates(r) THEN 1 ELSE 0, left |-> Quota, code |-> 0]

-----------------------------------------------------------------------------
(* Who holds the ends of a pipe.  Each stage's pair is in the arrays        *)
(* read_ends and write_ends, then in its Task or its process; copies are on *)
(* fd 0 and fd 1 and in every process that inherited them.                  *)

HoldsPair(s) ==
    /\ pc # "returned"
    /\ IF s \in Shells THEN co[s] # "done" ELSE pc = "build" /\ idx <= s

HasReader(p) ==
    \/ p = N
    \/ p < N /\ HoldsPair(p + 1)
    \/ fd0 = p
    \/ \E s \in Stage : Alive(s) /\ proc[s].in = p

HasWriter(p) ==
    \/ p = 0 /\ feed > 0
    \/ p > 0 /\ HoldsPair(p)
    \/ fd1 = p
    \/ \E s \in Stage : Alive(s) /\ proc[s].out = p

Room(p) == IF p = N /\ Terminal = "file" THEN Chunk ELSE Cap - Len(buf[p])

\* Faults the properties must notice: waiting for POLLIN or POLLOUT alone.
PollIn(p)  == buf[p] # <<>>
PollOut(p) == Room(p) > 0

\* poll_readable_or_eof and poll_writable: a closed peer counts as ready.
PollReadable(p) == buf[p] # <<>> \/ ~HasWriter(p)
PollWritable(p) == Room(p) > 0 \/ ~HasReader(p)

\* buf and want after units are put into pipe p; a "file" swallows them.
Put(p, units) ==
    IF p = N /\ Terminal = "file"
    THEN /\ want' = [want EXCEPT ![p] = Ahead(@, Len(units))]
         /\ buf' = buf
    ELSE /\ buf' = [buf EXCEPT ![p] = @ \o units]
         /\ want' = want

\* buf and want after n units are taken out of pipe p.
Take(p, n) ==
    /\ buf' = [buf EXCEPT ![p] = SubSeq(@, n + 1, Len(@))]
    /\ want' = [want EXCEPT ![p] = Ahead(@, n)]

\* PaneOutput::drain, when PIPELINE_DRAIN is armed.
Drain == IF Terminal = "pane" THEN Take(N, Len(buf[N])) ELSE UNCHANGED <<buf, want>>

-----------------------------------------------------------------------------
(* Building: run_multi_scheduled connects the stages left to right.         *)

Init ==
    /\ pc = "build" /\ idx = 1 /\ ran = FALSE
    /\ role \in {r \in [Stage -> RoleNames] : \A s \in Stage : r[s] \in Roles[s]}
    /\ co = [s \in Stage |-> "none"]
    /\ park = [s \in Stage |-> "ready"]
    /\ broken = [s \in Stage |-> "off"]
    /\ watch \in Outer /\ outer = watch
    /\ fd0 = 0 /\ fd1 = N
    /\ at = [s \in Stage |-> "stmt"]
    /\ line = [s \in Stage |-> 0]
    /\ left = [s \in Stage |-> Lines(role[s])]
    /\ status = [s \in Stage |-> 0]
    /\ proc = [s \in Stage |-> NoProc]
    /\ buf = [p \in 0..N |-> IF p = 0 /\ Terminal # "slow"
                             THEN [i \in 1..Feed |-> Ahead(1, i - 1)] ELSE <<>>]
    /\ want = [p \in 0..N |-> 1]
    /\ feed = IF Terminal = "slow" THEN Feed ELSE 0

\* A shell stage becomes a task of the scheduler, not yet run.
Connect ==
    /\ pc = "build" /\ idx \in Shells
    /\ co' = [co EXCEPT ![idx] = "fresh"]
    /\ idx' = idx + 1
    /\ UNCHANGED <<pc, ran, role, park, broken, watches, fds, body, status, proc, pipes>>

\* A real command is spawned on its two ends and starts at once.
Spawn ==
    /\ pc = "build" /\ idx \in External
    /\ proc' = [proc EXCEPT ![idx] = Start(role[idx], idx - 1, idx)]
    /\ idx' = idx + 1
    /\ UNCHANGED <<pc, ran, role, tasks, watches, fds, body, status, pipes>>

\* A stage that cannot start ends the pipeline: kill_all, and the scheduler is
\* dropped with the tasks it has, none of which ever ran.
BuildFails ==
    /\ MayFail /\ pc = "build" /\ idx \in Stage
    /\ proc' = [s \in Stage |-> IF Alive(s) THEN [proc[s] EXCEPT !.st = "dead", !.code = 137]
                                ELSE proc[s]]
    /\ pc' = "returned"
    /\ UNCHANGED <<idx, ran, role, tasks, watches, fds, body, status, pipes>>

EnterRun ==
    /\ pc = "build" /\ idx = N + 1
    /\ pc' = "pass" /\ idx' = 1 /\ ran' = FALSE
    /\ UNCHANGED <<role, tasks, watches, fds, body, status, proc, pipes>>

-----------------------------------------------------------------------------
(* Scheduler::run_tasks: passes over the tasks, a sleep when none can run.  *)

\* Fault: waiting on the number the stage used.
FdIn(s) == fd0

\* Task::own_fd: the task's own end, or with none, whatever the number names.
OwnIn(s)  == IF s > 1 THEN s - 1 ELSE fd0
OwnOut(s) == IF s < N THEN s ELSE fd1

CanRun(s) ==
    CASE park[s] = "ready"    -> TRUE
      [] park[s] = "readable" -> PollReadable(OwnIn(s))
      [] park[s] = "writable" -> PollWritable(OwnOut(s))

Live(s) == s \in Shells /\ co[s] # "done"
IsIdle == \A s \in Stage : ~Live(s)

Skip ==
    /\ pc = "pass" /\ idx \in Stage
    /\ ~(Live(idx) /\ CanRun(idx))
    /\ idx' = idx + 1
    /\ UNCHANGED <<pc, ran, role, tasks, watches, fds, body, status, proc, pipes>>

\* install_fds: both, every time, the shell's own where a task has none.
InstallFds(s) == fd0' = s - 1 /\ fd1' = s

\* install_shell_fds and restore_fd012: back to the shell's own.
InstallShellFds == fd0' = 0 /\ fd1' = N

\* swap_broken_pipe before a turn.  A stage's closure begins by arming it.
SwapWatchIn(s) ==
    /\ outer' = watch
    /\ watch' = IF co[s] = "fresh" THEN "armed" ELSE broken[s]

\* One turn begins.
Resume ==
    /\ pc = "pass" /\ idx \in Stage
    /\ Live(idx) /\ CanRun(idx)
    /\ pc' = "run"
    /\ SwapWatchIn(idx)
    /\ InstallFds(idx)
    /\ co' = [co EXCEPT ![idx] = "running"]
    /\ UNCHANGED <<idx, ran, role, park, broken, body, status, proc, pipes>>

\* Fault: the stage's watch is left in place of the thread's.
YieldWatching(why) ==
    /\ pc' = "pass" /\ idx' = idx + 1 /\ ran' = TRUE
    /\ co' = [co EXCEPT ![idx] = "suspended"]
    /\ park' = [park EXCEPT ![idx] = why]
    /\ broken' = [broken EXCEPT ![idx] = watch]
    /\ UNCHANGED <<watches, fds>>

\* A turn ends: park_ready, park_readable or park_writable.  What was installed
\* on fd 0 and fd 1 stays there.
Yield(why) ==
    /\ pc' = "pass" /\ idx' = idx + 1 /\ ran' = TRUE
    /\ co' = [co EXCEPT ![idx] = "suspended"]
    /\ park' = [park EXCEPT ![idx] = why]
    /\ broken' = [broken EXCEPT ![idx] = watch]
    /\ watch' = outer
    /\ UNCHANGED <<outer, fds>>

\* Fault: the task's pair is dropped, the copies on fd 0 and fd 1 are not.
LetGoOfPair(saw) ==
    /\ pc' = "pass" /\ idx' = idx + 1 /\ ran' = TRUE
    /\ co' = [co EXCEPT ![idx] = "done"]
    /\ park' = [park EXCEPT ![idx] = "ready"]
    /\ broken' = [broken EXCEPT ![idx] = saw]
    /\ watch' = outer
    /\ UNCHANGED <<outer, fds>>

\* The last turn of a stage ends: it lets go of its pair, and of the copies on
\* fd 0 and fd 1.
LetGo(saw) ==
    /\ pc' = "pass" /\ idx' = idx + 1 /\ ran' = TRUE
    /\ co' = [co EXCEPT ![idx] = "done"]
    /\ park' = [park EXCEPT ![idx] = "ready"]
    /\ broken' = [broken EXCEPT ![idx] = saw]
    /\ watch' = outer
    /\ InstallShellFds
    /\ UNCHANGED outer

\* The end of a pass.  With nothing left the shell takes its descriptors back;
\* with nothing runnable the pane's pty is drained and the thread sleeps.
EndPass ==
    /\ pc = "pass" /\ idx = N + 1
    /\ idx' = 1 /\ ran' = FALSE
    /\ CASE IsIdle -> /\ pc' = "reap" /\ InstallShellFds
                      /\ UNCHANGED <<buf, want>>
         [] ~IsIdle /\ ran -> pc' = "pass" /\ UNCHANGED <<fds, buf, want>>
         [] OTHER -> pc' = "sleep" /\ Drain /\ UNCHANGED fds
    /\ UNCHANGED <<role, tasks, watches, body, status, proc, feed>>

\* wait_for_any returns when a parked descriptor is ready, and at the latest
\* when every task has had its slice.
Wake ==
    /\ pc = "sleep"
    /\ pc' = "pass"
    /\ UNCHANGED <<idx, ran, role, tasks, watches, fds, body, status, proc, pipes>>

-----------------------------------------------------------------------------
(* A turn: the running stage's body, one system call or statement at a time. *)

Running(s, where) == pc = "run" /\ idx = s /\ at[s] = where

Goto(s, where) == at' = [at EXCEPT ![s] = where]

\* Stop at a statement boundary: the stage's reader is gone.  The closure
\* reports SIGPIPE's status.
StopBroken(s) ==
    /\ Running(s, "stmt") \/ Running(s, "echo")
    /\ watch = "seen"
    /\ status' = [status EXCEPT ![s] = 141]
    /\ LetGo("off")
    /\ UNCHANGED <<role, body, proc, pipes>>

NextStatement(s) ==
    /\ watch # "seen"
    /\ \/ /\ Running(s, "stmt") /\ left[s] > 0
          /\ Goto(s, IF Reads(role[s]) THEN "read" ELSE "write")
       \/ /\ Running(s, "echo")
          /\ Goto(s, "write")
    /\ UNCHANGED <<thread, role, tasks, watches, fds, line, left, status, proc, pipes>>

\* The body returns, its status its last command's.
Finish(s) ==
    /\ Running(s, "stmt") /\ watch # "seen"
    /\ left[s] = 0 /\ role[s] \notin {"group", "panic"}
    /\ status' = [status EXCEPT ![s] = 0]
    /\ LetGo("off")
    /\ UNCHANGED <<role, body, proc, pipes>>

\* The body panics: the trampoline catches it, the closure's last lines do not
\* run, and so neither is the watch disarmed nor the status set.
Panic(s) ==
    /\ Running(s, "stmt") /\ watch # "seen"
    /\ left[s] = 0 /\ role[s] = "panic"
    /\ LetGo(watch)
    /\ UNCHANGED <<role, body, status, proc, pipes>>

-----------------------------------------------------------------------------
(* `read`: UnbufferedFd polls before each unit and never takes one ahead.   *)

\* Fault: `read` takes whatever the pipe holds for its line.
ReadAhead(s) ==
    /\ Running(s, "read") /\ buf[fd0] # <<>>
    /\ Take(fd0, Len(buf[fd0]))
    /\ line' = [line EXCEPT ![s] = 0]
    /\ Goto(s, IF Echoes(role[s]) THEN "echo" ELSE "stmt")
    /\ UNCHANGED <<thread, role, tasks, watches, fds, left, status, proc, feed>>

ReadUnit(s) ==
    /\ Running(s, "read") /\ buf[fd0] # <<>>
    /\ Take(fd0, 1)
    /\ IF line[s] + 1 < Chunk
       THEN line' = [line EXCEPT ![s] = @ + 1] /\ UNCHANGED at
       ELSE /\ line' = [line EXCEPT ![s] = 0]
            /\ Goto(s, IF Echoes(role[s]) THEN "echo" ELSE "stmt")
    /\ UNCHANGED <<thread, role, tasks, watches, fds, left, status, proc, feed>>

\* End of input ends the loop; a line cut short is dropped.
ReadEof(s) ==
    /\ Running(s, "read") /\ buf[fd0] = <<>> /\ ~HasWriter(fd0)
    /\ line' = [line EXCEPT ![s] = 0]
    /\ left' = [left EXCEPT ![s] = 0]
    /\ Goto(s, "stmt")
    /\ UNCHANGED <<thread, role, tasks, watches, fds, status, proc, pipes>>

ParkReading(s) ==
    /\ Running(s, "read") /\ ~PollReadable(fd0)
    /\ Yield("readable")
    /\ UNCHANGED <<role, body, status, proc, pipes>>

-----------------------------------------------------------------------------
(* `echo`: write_fd_parking on fd 1, or the pane's grid.                    *)

\* What is left of the lines to handle once one has been written.
Written(s) == [left EXCEPT ![s] = IF Endless(role[s]) THEN @ ELSE @ - 1]

ToGrid(s) == s = N /\ Terminal = "pane"

\* Faults: what was written before the park is forgotten; one unit too many.
ProgressLost(s, n) == IF line[s] + n < Chunk THEN line[s] ELSE Chunk
OneMore(k) == k > Chunk

\* How much of the line is written once n more units are, and whether it all is.
Progress(s, n) == line[s] + n
WholeLine(k) == k >= Chunk

\* Fault: a line written keeps the thread.
WriteOn(s) ==
    /\ Running(s, "write") /\ ~ToGrid(s) /\ HasReader(fd1) /\ Room(fd1) > 0
    /\ LET n == IF Room(fd1) < Chunk - line[s] THEN Room(fd1) ELSE Chunk - line[s] IN
       /\ Put(fd1, SubSeq(Line, line[s] + 1, line[s] + n))
       /\ IF WholeLine(Progress(s, n))
          THEN /\ line' = [line EXCEPT ![s] = 0]
               /\ left' = Written(s)
               /\ Goto(s, "stmt")
          ELSE /\ line' = [line EXCEPT ![s] = Progress(s, n)]
               /\ UNCHANGED <<at, left>>
    /\ UNCHANGED <<thread, role, tasks, watches, fds, status, proc, feed>>

\* As much as fits; a whole line written hands the thread over.
WriteSome(s) ==
    /\ Running(s, "write") /\ ~ToGrid(s) /\ HasReader(fd1) /\ Room(fd1) > 0
    /\ LET n == IF Room(fd1) < Chunk - line[s] THEN Room(fd1) ELSE Chunk - line[s] IN
       /\ Put(fd1, SubSeq(Line, line[s] + 1, line[s] + n))
       /\ IF WholeLine(Progress(s, n))
          THEN /\ line' = [line EXCEPT ![s] = 0]
               /\ left' = Written(s)
               /\ Goto(s, "stmt")
               /\ Yield("ready")
          ELSE /\ line' = [line EXCEPT ![s] = Progress(s, n)]
               /\ UNCHANGED <<thread, tasks, watches, fds, at, left>>
    /\ UNCHANGED <<role, status, proc, feed>>

\* EPIPE: remembered by note_write for whoever watches; the line is given up.
WriteBroken(s) ==
    /\ Running(s, "write") /\ ~ToGrid(s) /\ ~HasReader(fd1)
    /\ watch' = IF watch = "off" THEN "off" ELSE "seen"
    /\ line' = [line EXCEPT ![s] = 0]
    /\ left' = Written(s)
    /\ Goto(s, "stmt")
    /\ UNCHANGED <<thread, role, tasks, outer, fds, status, proc, pipes>>

\* Fault: a pipe that is full is taken for one that is broken.
WriteFullNoted(s) ==
    /\ Running(s, "write") /\ ~ToGrid(s) /\ HasReader(fd1) /\ Room(fd1) = 0
    /\ watch' = "seen"
    /\ Goto(s, "stmt")
    /\ UNCHANGED <<thread, role, tasks, outer, fds, line, left, status, proc, pipes>>

\* A full pipe: with a pane's drain armed the write drains it and tries again,
\* otherwise the stage parks.
WriteFull(s) ==
    /\ Running(s, "write") /\ ~ToGrid(s) /\ HasReader(fd1) /\ Room(fd1) = 0
    /\ IF Terminal = "pane"
       THEN Drain /\ UNCHANGED <<thread, tasks, watches, fds>>
       ELSE Yield("writable") /\ UNCHANGED <<buf, want>>
    /\ UNCHANGED <<role, body, status, proc, feed>>

\* The last stage of a pipeline in a pane writes to the grid itself, after
\* what is already in the pty, and keeps the thread.
WriteGrid(s) ==
    /\ Running(s, "write") /\ ToGrid(s)
    /\ Drain
    /\ left' = Written(s)
    /\ Goto(s, "stmt")
    /\ UNCHANGED <<thread, role, tasks, watches, fds, line, status, proc, feed>>

-----------------------------------------------------------------------------
(* An external command inside a stage inherits fd 0 and fd 1 as they are.   *)

SpawnChild(s) ==
    /\ Running(s, "stmt") /\ watch # "seen"
    /\ left[s] = 0 /\ role[s] = "group"
    /\ proc' = [proc EXCEPT ![s] = Start("copy", fd0, fd1)]
    /\ Goto(s, "wait")
    /\ UNCHANGED <<thread, role, tasks, watches, fds, line, left, status, pipes>>

\* wait_pumping inside a coroutine: try_wait, and the thread handed over.
WaitChild(s) ==
    /\ Running(s, "wait") /\ Alive(s)
    /\ Yield("ready")
    /\ UNCHANGED <<role, body, status, proc, pipes>>

ChildDone(s) ==
    /\ Running(s, "wait") /\ ~Alive(s)
    /\ status' = [status EXCEPT ![s] = proc[s].code]
    /\ LetGo("off")
    /\ UNCHANGED <<role, body, proc, pipes>>

-----------------------------------------------------------------------------
(* The real processes.  Each runs beside the thread and blocks in the       *)
(* kernel; a write to a pipe nobody reads kills it.                         *)

ProcDies(s, code) == proc' = [proc EXCEPT ![s] = [@ EXCEPT !.st = "dead", !.code = code]]

ProcRead(s) ==
    /\ Alive(s) /\ proc[s].held = 0 /\ buf[proc[s].in] # <<>>
    /\ proc' = [proc EXCEPT ![s] = [@ EXCEPT !.held = Head(buf[proc[s].in])]]
    /\ Take(proc[s].in, 1)
    /\ UNCHANGED <<thread, role, tasks, watches, fds, body, status, feed>>

ProcEof(s) ==
    /\ Alive(s) /\ proc[s].held = 0
    /\ buf[proc[s].in] = <<>> /\ ~HasWriter(proc[s].in)
    /\ ProcDies(s, 0)
    /\ UNCHANGED <<thread, role, tasks, watches, fds, body, status, pipes>>

\* What a process has in hand, and the lines it has left, once it has written.
HeldNext(s) == IF Generates(ProcRole(s)) THEN Ahead(proc[s].held, 1) ELSE 0
LeftNext(s) == IF proc[s].held = Chunk /\ ~Endless(ProcRole(s))
               THEN proc[s].left - 1 ELSE proc[s].left

ProcWrite(s) ==
    /\ Alive(s) /\ proc[s].held > 0 /\ proc[s].left > 0
    /\ HasReader(proc[s].out) /\ Room(proc[s].out) > 0
    /\ Put(proc[s].out, <<proc[s].held>>)
    /\ proc' = [proc EXCEPT ![s] = [@ EXCEPT !.held = HeldNext(s), !.left = LeftNext(s)]]
    /\ UNCHANGED <<thread, role, tasks, watches, fds, body, status, feed>>

ProcBroken(s) ==
    /\ Alive(s) /\ proc[s].held > 0 /\ proc[s].left > 0
    /\ ~HasReader(proc[s].out)
    /\ ProcDies(s, 141)
    /\ UNCHANGED <<thread, role, tasks, watches, fds, body, status, pipes>>

ProcExit(s) ==
    /\ Alive(s) /\ proc[s].left = 0
    /\ ProcDies(s, 0)
    /\ UNCHANGED <<thread, role, tasks, watches, fds, body, status, pipes>>

\* A slow terminal: input arrives when it does, output is taken when it is.
InputArrives ==
    /\ feed > 0
    /\ feed' = feed - 1
    /\ buf' = [buf EXCEPT ![0] = Append(@, Ahead(1, Feed - feed))]
    /\ UNCHANGED <<thread, role, tasks, watches, fds, body, status, proc, want>>

OutputTaken ==
    /\ Terminal = "slow" /\ buf[N] # <<>>
    /\ Take(N, 1)
    /\ UNCHANGED <<thread, role, tasks, watches, fds, body, status, proc, feed>>

-----------------------------------------------------------------------------
(* After run: the real processes are waited for in stage order, and the     *)
(* pane's pty is drained meanwhile.                                         *)

Reap ==
    /\ pc = "reap" /\ idx \in Stage
    /\ idx \in External => ~Alive(idx)
    /\ status' = [status EXCEPT ![idx] = IF idx \in External THEN proc[idx].code ELSE @]
    /\ idx' = idx + 1
    /\ UNCHANGED <<pc, ran, role, tasks, watches, fds, body, proc, pipes>>

ReapDrain ==
    /\ pc = "reap" /\ Terminal = "pane" /\ buf[N] # <<>>
    /\ Drain
    /\ UNCHANGED <<thread, role, tasks, watches, fds, body, status, proc, feed>>

Return ==
    /\ pc = "reap" /\ idx = N + 1
    /\ pc' = "returned"
    /\ Drain
    /\ UNCHANGED <<idx, ran, role, tasks, watches, fds, body, status, proc, feed>>

-----------------------------------------------------------------------------

Body(s) ==
    \/ StopBroken(s) \/ NextStatement(s) \/ Finish(s) \/ Panic(s)
    \/ ReadUnit(s) \/ ReadEof(s) \/ ParkReading(s)
    \/ WriteSome(s) \/ WriteBroken(s) \/ WriteFull(s) \/ WriteGrid(s)
    \/ SpawnChild(s) \/ WaitChild(s) \/ ChildDone(s)

Thread ==
    \/ Connect \/ Spawn \/ BuildFails \/ EnterRun
    \/ Skip \/ Resume \/ EndPass \/ Wake
    \/ \E s \in Shells : Body(s)
    \/ Reap \/ ReapDrain \/ Return

Process(s) == ProcRead(s) \/ ProcEof(s) \/ ProcWrite(s) \/ ProcBroken(s) \/ ProcExit(s)

Returned == pc = "returned" /\ UNCHANGED vars

Next ==
    \/ Thread
    \/ \E s \in Stage : Process(s)
    \/ InputArrives \/ OutputTaken
    \/ Returned

Spec == Init /\ [][Next]_vars

\* The thread runs, the kernel schedules every process, and a terminal's user
\* and reader do their part.
FairSpec ==
    /\ Spec
    /\ WF_vars(Thread)
    /\ \A s \in Stage : WF_vars(Process(s))
    /\ WF_vars(InputArrives) /\ WF_vars(OutputTaken)

-----------------------------------------------------------------------------

ProcSet == [st : {"none", "alive", "dead"}, in : 0..N, out : 0..N,
            held : 0..Chunk, left : 0..Quota, code : {0, 137, 141}]

ThreadOK ==
    /\ pc \in {"build", "pass", "run", "sleep", "reap", "returned"}
    /\ idx \in 1..(N + 1) /\ ran \in BOOLEAN
    /\ role \in [Stage -> RoleNames]

TasksOK ==
    /\ co \in [Stage -> {"none", "fresh", "suspended", "running", "done"}]
    /\ park \in [Stage -> {"ready", "readable", "writable"}]
    /\ broken \in [Stage -> {"off", "armed", "seen"}]
    /\ watch \in {"off", "armed", "seen"} /\ outer \in {"off", "armed", "seen"}
    /\ fd0 \in 0..N /\ fd1 \in 0..N

BodyOK ==
    /\ at \in [Stage -> {"stmt", "read", "echo", "write", "wait"}]
    /\ line \in [Stage -> 0..(Chunk - 1)]
    /\ left \in [Stage -> Nat]
    /\ \A s \in Stage : at[s] \in {"read", "echo", "write"} => left[s] > 0

ProcOK ==
    /\ status \in [Stage -> {0, 137, 141}]
    /\ proc \in [Stage -> ProcSet]

PipesOK ==
    /\ buf \in [0..N -> Seq(Unit)]
    /\ want \in [0..N -> Unit]
    /\ feed \in Nat

\* The types of the state, and that a stage at a line has a line left.
TypeOK == ThreadOK /\ TasksOK /\ BodyOK /\ ProcOK /\ PipesOK

-----------------------------------------------------------------------------
(* Safety. *)

\* The unit stage s puts into its pipe next, when it is known to be at one.
Writing(s) == s \in Shells /\ at[s] # "wait" /\ co[s] # "done"
Contents(p) == Len(buf[p])
InOrder(p) == \A i \in 1..Contents(p) : buf[p][i] = Ahead(want[p], i - 1)

\* No unit of a line is lost, doubled or sent down another stage's pipe: what
\* a pipe holds carries on where its reader stopped, and its writer carries on
\* where what it holds ends, across partial writes, parks in the middle of a
\* line, and a `read` that leaves the rest to the `cat` after it.
InStep ==
    /\ \A p \in 0..N : InOrder(p)
    /\ \A s \in Shells : co[s] # "done" /\ at[s] = "read" => line[s] + 1 = want[s - 1]
    /\ \A s \in Shells : Writing(s) /\ at[s] = "write" /\ ~ToGrid(s) /\ HasReader(s)
                            => line[s] + 1 = Ahead(want[s], Contents(s))

\* Stage s has been stopped for a broken pipe, or will be at its next statement.
Stopped(s) ==
    \/ status[s] = 141 \/ broken[s] = "seen" \/ proc[s].code = 141
    \/ pc = "run" /\ idx = s /\ watch = "seen"

\* A stage is stopped for a broken pipe only when its own reader is gone: the
\* watch that is swapped in around each turn never carries another stage's.
OnlyItsOwnReader ==
    pc # "returned" => \A s \in Shells : Stopped(s) => ~HasReader(s)

\* The construct the pipeline runs in gets its own watch back, unmarked: a
\* broken pipe between two stages is no sign that its reader is gone.
WatchGivenBack == pc # "run" => watch = outer /\ watch # "seen"

\* A finished stage keeps no pipe open through the copies on fd 0 and fd 1:
\* the stage on the other end would wait on something kept alive there.
NothingKept ==
    pc \in {"pass", "sleep"} =>
      /\ \A s \in Shells : co[s] = "done" /\ s > 1 => fd0 # s - 1
      /\ \A s \in Shells : co[s] = "done" /\ s < N => fd1 # s

\* The pipes are where the stages are: a turn has the running task's pair on
\* fd 0 and fd 1, and every process has its own stage's.
OnItsOwnPipes ==
    /\ pc = "build" => /\ fd0 = 0 /\ fd1 = N
                       /\ \A s \in Shells : co[s] # "done"
    /\ pc = "run" => /\ idx \in Shells /\ co[idx] = "running"
                     /\ fd0 = idx - 1 /\ fd1 = idx
    /\ \A s \in Stage : Alive(s) => proc[s].in = s - 1 /\ proc[s].out = s

\* What the steps of the pipeline keep, and the properties above follow from.
SafetyInv ==
    /\ TypeOK /\ OnItsOwnPipes
    /\ OnlyItsOwnReader
    /\ outer # "seen" /\ WatchGivenBack
    /\ NothingKept

(* What keeps the pipes in step, stage by stage.                            *)

\* The unit pipe p is to be given next, and the end of its input.
Coming(p) == Ahead(want[p], Contents(p))
Dry(p) == buf[p] = <<>> /\ ~HasWriter(p)

PipesInStep ==
    /\ \A p \in 0..N : InOrder(p)
    /\ feed <= Feed /\ (feed > 0 => Coming(0) = Ahead(1, Feed - feed))
    /\ Terminal = "file" => buf[N] = <<>>

\* A stage's body is between two lines, or `line` units into one, on the pipe
\* it reads as on the pipe it writes; one that met the end of its input in the
\* middle of a line reads no more of it.
BodyInStep(s) ==
    Writing(s) =>
      /\ \/ want[s - 1] = (IF at[s] = "read" THEN line[s] + 1 ELSE 1)
         \/ at[s] = "stmt" /\ left[s] = 0 /\ Dry(s - 1)
      /\ HasReader(s) => Coming(s) = (IF at[s] = "write" THEN line[s] + 1 ELSE 1)
      /\ at[s] \in {"stmt", "echo"} \/ (at[s] = "write" /\ ToGrid(s)) => line[s] = 0

\* A process has in hand what its pipe is to be given next, and one that copies
\* has taken just that from the pipe it reads.  Its shell stage waits for it.
ProcInStep(s) ==
    Alive(s) =>
      /\ s \in Shells => co[s] # "done" /\ at[s] = "wait"
      /\ Generates(ProcRole(s)) => proc[s].held # 0
      /\ HasReader(s) /\ proc[s].held # 0 => proc[s].held = Coming(s)
      /\ HasReader(s) /\ ~Generates(ProcRole(s)) =>
            IF proc[s].held # 0 THEN want[s - 1] = Ahead(Coming(s), 1)
            ELSE want[s - 1] = Coming(s) \/ Dry(s - 1)

\* Nobody uses the pipes of a command before it is spawned.
Unstarted(s) ==
    s \in External /\ pc = "build" /\ idx <= s =>
        ~Alive(s) /\ want[s - 1] = 1 /\ Coming(s) = 1

\* Every stage stands where the pipes it reads and writes stand, or has met the
\* end of its input, or nobody reads it: what the steps keep, and InStep follows
\* from.
StepInv == PipesInStep /\ \A s \in Stage : BodyInStep(s) /\ ProcInStep(s) /\ Unstarted(s)

\* What stage s waits for, on the pipe it has, has happened.
OwnReady(s) ==
    /\ park[s] = "readable" => PollReadable(s - 1)
    /\ park[s] = "writable" => PollWritable(s)

\* A parked stage is resumed because the pipe it waits on is ready, not because
\* another stage's is: it would find nothing and spin.
WokenByItsOwn ==
    [][\A s \in Shells : pc = "pass" /\ pc' = "run" /\ idx = s => OwnReady(s)]_vars

\* The pipeline as the network of stages that StageNetwork specifies: a stage is
\* up while it has its ends or its process runs, has begun with its first turn or
\* its process, and has ended with the status that is returned for it.
HoldsOrRuns(s) == HoldsPair(s) \/ Alive(s)
HasBegun(s) == IF s \in Shells THEN co[s] \notin {"none", "fresh"} ELSE proc[s].st # "none"
EndedWith(s) == IF s \in External THEN proc[s].code ELSE status[s]
Up == {s \in Stage : HoldsOrRuns(s)}
Begun == {s \in Stage : HasBegun(s)}
Codes == [s \in Stage |-> EndedWith(s)]
Given == [p \in 0..N |-> Coming(p)]
Answered == IF pc = "returned" /\ idx = N + 1 THEN status ELSE <<>>
Network == INSTANCE StageNetwork WITH
    up <- Up, begun <- Begun, code <- Codes, queue <- buf, next <- Given, answer <- Answered,
    Unbounded <- Terminal = "file"

\* The stages that take turns on one thread, and the processes beside it, are to
\* each other what stages side by side are: each takes from and puts into its
\* own pipes alone, in order; one that reads to the end does so to the end of
\* what the one before it writes; one is stopped for a broken pipe when the one
\* after it has ended; and the statuses returned are theirs.
ImplementsNetwork == Network!Spec

-----------------------------------------------------------------------------
(* Liveness. *)

\* The pipeline ends, unless its last stage writes for ever.
Ends == role[N] # "endless" => <>(pc = "returned")

\* A stage whose pipe is ready gets its turn, whatever the others do: a
\* producer that never blocks hands the thread over after every line.
GetsItsTurn ==
    \A s \in Shells : (pc = "pass" /\ Live(s) /\ OwnReady(s)) ~> (pc = "run" /\ idx = s)

\* A stage that writes for ever is stopped once nothing reads it.
StoppedWhenUnread ==
    \A s \in Shells : (role[s] = "endless" /\ co[s] # "none" /\ pc # "build" /\ ~HasReader(s))
                         ~> (co[s] = "done")
=============================================================================
