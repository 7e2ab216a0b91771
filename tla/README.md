# A verification of bish

bish is a bash-compatible shell written in Rust without dependencies. One
process and, almost everywhere, one thread run the shell, its pipelines'
stages, its panes and its editors. What a unit test reaches of that is a
single order of events; this directory holds TLA+ models of the parts where
the order matters, the TLC configurations that check them on small instances,
and proofs, checked by TLAPS, of what holds for every size.

Line numbers are those of `src/src/...` at the commit the models were written
from. `PROJECT.json` maps every definition to its lines.

## The system

| component | source | state it keeps | operations | interacts with |
|---|---|---|---|---|
| in-process pipelines | `scheduler.rs`, `exec.rs` (`run_multi_scheduled`) | a task per shell stage: coroutine, pipe ends, why it is parked, its broken-pipe watch; the thread's descriptors 0 and 1 | build, pass over the tasks, park, wake, finish, reap | evaluator, real processes, pane pty |
| coroutines | `coroutine.rs` | a stack and a state per coroutine | create, resume, yield, catch a panic | scheduler |
| command and process substitution | `exec.rs` | background tasks, pumping readers and writers, `/dev/fd` names | start, pump, drain, cancel, retire | scheduler, evaluator |
| job control | `builtins/jobs.rs`, `exec.rs` | the job table: pid, state, current and previous job | start, poll, wait, wait -n, fg, bg, disown, kill | kernel, terminal |
| evaluator | `exec.rs` | variables, functions, options, traps, control flow in flight | one statement at a time | all of the above |
| interactive loop and panes | `repl.rs`, `window.rs`, `term.rs`, `vt100.rs` | a tree of panes, each with a pty and a grid | input, resize, child output, split, close, focus | sessions, evaluator |
| language server client | `lspclient.rs`, `lsp.rs`, `framing.rs`, `repl.rs` (the idle tick) | a table of servers; per server its state, what is held for it, the documents it knows, answers not collected; per buffer the question parked, the version painted | start, open, change, close, ask, collect, sync, restart | server processes, editors |
| detached sessions | `session.rs` | a host process, clients on a socket | attach, detach, forward, exit | panes |
| history | `history.rs` | a file every shell appends to; a chain of entries per session | load, fork, record, clear, delete, compact under a lock | several shells at once |
| workspace edits | `fileops.rs`, `repl.rs` (`apply_workspace_edit`) | the steps of a plan, what undoes those done, the names deleted files wait under, the files loaded | plan, commit, load, write, undo, finish | file system, open buffers, LSP client |
| DAP client and debugger | `dapclient.rs`, `dap.rs`, `debugger.rs` | request table, queue until initialized, breakpoints | launch, send, answer, stop | adapter processes |
| LSP and MCP servers | `lspserver.rs`, `mcp.rs` | open documents, sessions | request, reply | clients |
| editors | `editor.rs`, `fileeditor.rs`, `bishedit/*` | buffers, undo tree, registers, folds | keys | clients above |
| everything else | parsers, formats, viewers, platform layer | none that outlives a call | | |

`PROJECT.json` lists each with its status. The behaviours that are hard to
test, each at its line, are its `hazards`.

## Modules

| module | models | proved about in |
|---|---|---|
| `Pipeline` | a pipeline of shell stages and real processes, from `run_multi_scheduled` to its return | `PipelineProofs`, `PipelineInStep` |
| `StageNetwork` | what a pipeline is, without the thread: stages side by side on queues of their own; `Pipeline` implements it | `PipelineInStep` |
| `MCPipeline` | the instances of `Pipeline` that TLC checks | |
| `WorkspaceEdit` | a language server's edit of several files, from the plan to the last write or the rollback | `WorkspaceEditProofs` |
| `MCWorkspaceEdit` | its disks and the items its edits are made of | |
| `History` | the sessions of several shells, the file they append to and its compaction | `HistoryProofs`, `HistoryPromises` |
| `HistoryLog` | what the history file promises, without shells, locks or rewrites; `History` implements it | `HistoryProofs` |
| `MCHistory` | symmetry for TLC | |
| `Jobs` | the job table, the builtins that walk it, and the children and terminal they act on | `JobsProofs` |
| `MCJobs` | the commands typed | |
| `LspClient` | a language server's client, the editor's tick that uses it, and the server process | `LspClientProofs` |
| `MCLspClient` | what may happen in a behaviour | |
| `Lists` | `retain` and `filter`, for `Jobs` | `ListFacts` |

### Pipeline

`run_multi` sends a pipeline with two or more stages that need a shell (a
function, a group, a builtin) to `run_multi_scheduled`. Each such stage
becomes a coroutine of the shell's thread; every other stage is a process.
The model has

- `pc`, `idx`, `ran`: where the thread is. `build` connects stage `idx`,
  `pass` asks whether task `idx` can run (`run_tasks`' for loop), `run` is a
  turn of task `idx`, `sleep` is `wait_for_any`, `reap` waits for the
  processes;
- `co`, `park`, `broken`: a `Task`; `watch`, `outer`: `BROKEN_PIPE` and what
  `swap_broken_pipe` took out of it;
- `fd0`, `fd1`: which pipe each of the shell's descriptors names. Pipe `p`
  runs from stage `p` to stage `p + 1`; pipe `0` is the shell's standard input
  and pipe `N` its output;
- `at`, `line`, `left`: where a stage's body is. A body is a program of one of
  a few `Roles`: write some lines, write for ever, copy, take the first lines,
  read and discard, `{ read l; echo "$l"; cat; }`, or panic;
- `proc`: the process of an external stage, or the child of a stage;
- `buf`, `want`, `feed`: what the pipes hold. A line is `Chunk` units, and a
  unit is its position in its line, which is enough to see a unit lost,
  doubled, reordered or sent to another stage's pipe.

Whether a pipe has a reader or a writer is computed from who holds its ends
(`HasReader`, `HasWriter`): the pair of a task or of the arrays of the builder,
the copies on fd 0 and fd 1, the processes that inherited one.

An action is the code between two points where something else can act: a
statement boundary, one `read` or `write` system call, one step of the
scheduler's loop. Processes run between any two of them.

`StageNetwork` is what all of that is to the user: `N` stages side by side, each
taking from one queue and putting into the next. It has no scheduler, no turns
and no descriptors. A stage begins once and ends once. It ends by itself only
when its role is done, and one that reads to the end (`copy`, `drain`, the group)
only when its queue is empty and the stage before it has ended; it is stopped,
with 141, only when the stage after it has ended; and the codes answered are the
codes the stages ended with. In the refinement mapping a stage is `Up` while it
has its pair of ends or its process runs, `Begun` with its first turn or its
process, and the next unit a queue is to be given (`Given`) is what comes after
the pipe's contents. A turn is then a few steps of its own stage and of no other,
and parking, waking, the passes and the swaps of descriptors and of the watch are
stutters. A descriptor left on fd 0 or fd 1 is a stage that can end in one of the
two and not in the other, which is how it shows.

Left out: stages' redirections of their own, `pipefail`, variables (a stage is
a subshell and its assignments do not come back), `O_NONBLOCK` being visible
to the other holders of the description, here-documents, more than one child
per stage.

### WorkspaceEdit

A rename or a code action comes back from the language server as a list of
items: create, rename or delete a file, or change the text of one. The code
splits it: `fileops::plan` works the operations out (`PlanEdit`),
`fileops::commit` does them (`CommitStep`, one per planned step), the files
that are not open are read and edited (`Load`), written (`Save`), and the open
buffers moved and edited last (`Finish`). `CommitFails`, `LoadFails` and
`SaveFails` are the three ways out, which undo what was done except when a file
already holds its new text (`partly`). A first write that a full disk cuts short
is undone as well, but has emptied its file (`torn`).

- A path is a sequence of names, the disk a function from paths to directories
  and files. A file has an id it keeps when it moves (a pair: there before, made
  by a step or by a write, and a number), and its text is the sequence of changes
  it took, so a change in the wrong file, in the wrong order, twice, or not at
  all shows.
- `steps` is `Plan::steps`; `undo` and `aside` are `Done`'s; an aside name is a
  number, which no name in `Names` is. `loaded` is `to_load`, then `on_disk`.
- `buf` is what `apply_workspace_edit` sees of the open buffers: path, unsaved
  or not, text. The one with the cursor is `"here"`.

`Replay` is the reference the runs compare with. It is what an edit means: its
items one after the other, each on what the one before it left, with no plan,
no split and no positions. `Found`, `Destination` and `Follow` are the code's
way to the same result, and `EditedInOrder` says that they get there. `Meant`
leaves out the edits `Replay` has no result for: an item that cannot be done
after those before it, or that names a directory the edit itself makes on the way.
The comparison is of what is `Visible`, under names a user can give: what stays
under an aside name is `DeletedForGood`'s, which says what else may be there
(`TakenAlong`). `BuffersFollow` too is about files under such names.

Left out: URIs that are not files, the text inside a change, encodings (an
encoding that cannot hold the text is one more way `Save` fails), symbolic
links, other processes changing the directory meanwhile, two buffers on one
file, and buffers of files that do not exist yet.

### History

A shell is a process; its sessions (windows, splits) each have a `History`
forked from another's. All append to one file with `O_APPEND` and no lock;
`compact` rewrites it in place under a lock that only compactions take. The
system calls of one `record` are the actions: the append (`Record`), the count
(`Count`), `flock` (`TryLock`), the second read (`Reread`), `set_len(0)`
(`Truncate`), the write (`WriteBack`); between any two of them the other shells
run. `history -c` and `history -d` (`Clear`, `Delete`) make one session's chain
anew, of nodes without parents that are nobody's predecessors.

Every call may fail (`MayFail`). An append is lost, or stops inside its line
(`AppendFails`); a load or a compaction cannot read or open the file (`Load`,
`GivesUp`); a truncation or a write of `compact` fails, anywhere (`RewriteFails`);
a shell is killed (`Crash`), and the kernel drops its lock. A line that was cut
has two consequences. It lacks its end (`ragged`), and the next append runs into
it (`Added`). And if the cut is inside a character, the file is not UTF-8
(`text`): nobody can load or compact it any more, until what is written over it
happens to cover the place.

- An entry is its place in `ledger`, the order of recording, so a lost, doubled
  or reordered line shows. `Fragment` is what is left of a line whose start was
  overwritten: `write_all` after `set_len(0)` goes over what others appended
  meanwhile (`Over`). The same name stands for a line cut before what names it.
- `chain` is a session's list of `Node`s. A deletion gives the nodes that stay
  new ids, which no file has; here they keep the name of their text, and nothing
  else. `ranAfter`, `last`, `excused` and `abandoned` are read by the properties
  only.

Left out: a history without a file (no home directory), in which nothing is
shared; the format of a line; searches.

`HistoryLog` is what all of that promises: one list, in order, to which entries
are added and which is trimmed to its newest `Limit`; only what is recorded
during a trim, what an append that failed leaves out, and what runs into an
unfinished line may be missing, and only a trim that is cut short may lose more.
The refinement mapping (`Kept`) takes the content of the list to be the file,
or, between `Reread` and `WriteBack`, what is about to be written: a rewrite
takes effect at its read.

### Jobs

A shell with job control, outside a pane. `proc` is the kernel's side (running,
stopped, ended, the group, a stop not yet waited for); `reaped` is what a
`std::process::Child` remembers once `try_wait` returned a status. `table` is
`JobTable::jobs`, `cur` the job a builtin took out of it, `tty` the terminal's
foreground group. One action per builtin up to the point where it blocks, and
one for what ends the blocking: `ForegroundEnds` and `ForegroundStops`
(`waitpid_untraced`), `Waited` (`Job::wait`), `WaitNextRound` (a round of
`wait -n`'s polling). Processes end, read the terminal and stop, and the user
presses Ctrl-Z, at any moment (`Exit`, `ReadsTerminal`, `CtrlZ`).

Left out: a pane's jobs (a pty each, driven by `drive_fg_job`), scripts without
monitor mode, several operands to one builtin, `%string` specs (a spec is an
index), options that only choose what is printed.

### LspClient

`at` is where the editor's thread is: reading keys, or in one of the parts of
an idle tick, `Server::service` (`Handle`, one message), the document sync, the
diagnostics, the semantic tokens. `front` is the buffer the loop drives; only
its tick runs. `state`, `documents`, `queued`, `responses`, `nextId` are the
`Server`'s; `parked` and `applied` are the session's `lsp_semantic` and
`lsp_semantic_applied`. `up` and `down` are the pipes, `told` and `owed` what
the process made of what it read.

A text is a value, a change is the whole text or a difference, which gives the
right text only from the text it was made from and `Garbled` from any other.
An answer carries the text it is about, and so do the tokens painted
(`spans`) and the diagnostics drawn (`diags`). The process reads, answers in
any order and perhaps with an error (`Refused`), publishes with a version or
without one (`Unknown`), and exits on its own. A publication is kept and applied
again after `:diag` (`Diagnose`), which brings back what `:diag clear` removed.
An error for an answer to `initialize` leaves a process that is told nothing and
not listened to (`NotInitialized`).

Versions start again when a file is closed and opened again, so a version alone
does not say which buffer it is of. The properties need to know: `life`, in
messages, questions and publications, is the number of times the file had been
opened; `asked` is the one the tokens a buffer shows were asked for in, `drawn` the
one its diagnostics name a version of. No guard reads them.

Left out: `executeCommand` and the edits a server asks for (`WorkspaceEdit` is
what is done with them), `didSave`, progress, what `:diag`'s own tools find, highlights and
inlay hints (two more questions parked like the tokens), a server that does not
read its pipe (`MAX_OUTGOING_BYTES`), positions and encodings, several servers.

## Runs

| run | what it asks | result |
|---|---|---|
| `Pipeline_pane` | three shell stages, every combination of the seven roles, in a window pane whose grid the last one writes to | all six properties hold |
| `Pipeline_mixed` | a process between two shell stages, any of which may fail to start, on a terminal that blocks at any unit; the two inductive invariants of the proofs; `StageNetwork` as a property | both invariants and the refinement hold |
| `Pipeline_live` | finite stages, endless writers whose reader leaves, and a last stage that never blocks | the pipeline ends, unread stages are stopped, every stage gets its turns |
| `Pipeline_terminal_input` | a stage whose terminal input is there is resumed | violated: finding |
| `WorkspaceEdit_edits` | edits of three items on files side by side, of four around a directory that moves, of three that make directories, of four that empty one again and rename over it; two buffers with unsaved changes, any step failing, any write stopping half way | all eight properties hold |
| `WorkspaceEdit_stale` | the edits on files side by side with an open buffer that is saved | violated: finding |
| `Jobs_control` | every builtin, over commands, pipelines and subshells | all six properties hold |
| `Jobs_wait_pid` | `wait PID` comes back | violated: finding |
| `History_shells` | two shells, two sessions, clears and deletes, failing reads, appends and rewrites, lines cut anywhere, killed shells; `HistoryLog` as a property (446,395 states) | all five invariants and the refinement hold |
| `History_torn` | "concurrent sessions interleave whole entries" | violated: finding |
| `LspClient_documents` | files opened, edited, emptied, saved, closed, reopened, before and after the handshake; a late, refusing, exiting or restarted server, publications with and without a version, cleared and applied again (492,560 states) | all six properties hold |
| `LspClient_reopened` | the version on record as painted is one the buffer shows | violated: finding |

Bounds of `Pipeline`. `N = 3` gives a first, a middle and a last stage, the three cases of
`own_fd`. `Cap = 3` and `Chunk = 2` make a line that fits and the next one that
does not, so partial writes and full pipes both happen. `Quota` of one or two
lines lets a writer outlive its reader and the reverse. `Feed = 2` is one line
of standard input, `3` one and an unfinished one.

Bounds of `WorkspaceEdit`. Three items are what it takes to be wrong about
order: a change, a rename and something at the old name. The cases around a
directory have four, to move it away, do something, and move it back; so has the
one where a directory made on the way is emptied, renamed over, and a later step
fails. Two files
and a free name let every operation meet both a name that is taken and one that
is not. Two buffers, one with the cursor, cover both ways a text change reaches
one. In `WorkspaceEdit_edits` every open buffer has unsaved changes: the one it
fails for otherwise is `stale`.

Bounds of `Jobs`. Three processes: a pipeline and a command, so that there are
two jobs and one of them has a stage that is not its last. `Codes = {3}`, with
137 for a killed process, tells a child's status from the 0, 1, 127 and 148 the
builtins make themselves.

Bounds of `History`. `Limit = 1` and three entries, up to two of them in the file
at first. With two a shell compacts as it loads, and the third is recorded before
the rewrite, during it or after it; with none or one a shell records, counts and
compacts on its own account, and another records meanwhile. One deletion leaves a
node to be taken for a predecessor, one cut line is run into by the next append,
and is what the compaction after that cannot read. Two shells and two sessions
are two processes, or one and its fork. Without failures the same holds with
four entries; the proofs hold for every number of each.

Bounds of `LspClient`. `Bounds` is a set of scenarios, one per behaviour, which
keeps the product out: a buffer edited twice with a question beside it, one with
diagnostics published twice, with a version or without (`Watched`), one closed and
reopened with a publication that may come in either life (`Reopened`), two buffers
on one server, one whose requests are answered with errors (`Refusing`), a server
restarted. `MaxResponses = 1` makes every second answer evict one.

Fairness. `Pipeline!FairSpec` asks that the thread takes steps while it can (it
is never blocked outside `poll` and `waitpid`, both of which are enabled
conditions here), that the kernel schedules each process, and that a terminal's
user types and its display reads. Nothing is assumed of which stage the
scheduler picks: its loop decides that. `Jobs!FairSpec` asks that the shell does
what it can and that a running process comes to an end; nobody has to resume
one that is stopped. `LspClient!FairSpec` asks that the idle tick runs, that the
debounce ends (strong, as each key starts it again and the tick can be at it
only now and then), and that the server reads and answers (strong, because its
steps are interleaved with whole ticks and so are not always possible).

Deadlock is checked in the runs of `Pipeline`'s safety. It is off where the
system may stop: a shell at its prompt after the last process the bound allows,
a history with all entries recorded, an editor nobody uses.

## Proofs

Every theorem is about all values of the constants, from the assumption each
module names (`PipelineAssumption`, `BoundsAssumption`, `HistoryAssumption`,
`JobsAssumption`, `LspAssumption`) and nothing else. Those say what the constants are: numbers,
sets of names, values that are told apart. `BoundsAssumption` has disks that are
trees and items with the fields their kind has. `HistoryAssumption` also has finitely
many sessions, whose counts are added up, and a bound on the entries of a
behaviour that is not below those there are at first.

| module | proves |
|---|---|
| `PipelineProofs` | `TypeOK`, `SafetyInv`, and from it `OnlyItsOwnReader`, `WatchGivenBack`, `NothingKept`; `WokenByItsOwn` unless `Terminal = "slow"` |
| `PipelineInStep` | `StepInv`, and from it `InStep`; `NetInv`, and from these that `Pipeline` implements `StageNetwork` |
| `HistoryProofs` | `TypeOK`, `Ordered`, and that `History` implements `HistoryLog` |
| `HistoryPromises` | `ParentsTrue`, `NewestKept`, `GrowthAccounted` |
| `JobsProofs` | `JobsInv`, and from it `TypeOK`, `NoneForgotten`, `TerminalBack`, `StatusTrue`, `ResumedWhole` |
| `LspClientProofs` | `LspInv`, and from it `TypeOK`, `AskedOnce`, `InSync`, `TokensTrue`, `DiagnosticsTrue` |
| `WorkspaceEditProofs` | `EditInv`, and from it `TypeOK`, `NothingChanged`, `PlannedDisk`; `OpenInv`, and from it `UnsavedKept`, `BuffersFollow`, `DeletedForGood` |
| `ListFacts` | lemmas about lists that these cite |

### Pipeline

None of the three properties of `PipelineProofs` is inductive alone. That a
stage is stopped only because its own reader left needs two facts about other
state. The running stage must be on its own pipes (`OnItsOwnPipes`: between
`install_fds` and the end of the turn fd 0 and fd 1 are pipes `idx - 1` and
`idx`, and each process has its own stage's), or an `EPIPE` would be about
another's. And a pipe whose reader left must never get one again, or a watch
noted earlier would be wrong later: the last argument of `StoppedStep`, which
rests on `Readers`, who may hold a read end. `SafetyInv` is the conjunction, and
each lemma takes one kind of step through it. TLC checks `SafetyInv` in
`Pipeline_mixed`.

`PipelineInStep`: no unit of a line is lost, doubled or sent elsewhere, by
`StepInv`, which is inductive with `SafetyInv` and also checked in
`Pipeline_mixed`. `InStep` speaks of stages in the middle of a line only;
`StepInv` says where every stage stands, between lines too, on both of its
pipes: the reader of a pipe at `want`, its writer at what comes after the pipe's
contents (`Coming`). Two cases are excused, and must last: a stage that met the
end of its input in the middle of a line (`Dry`), and one that nobody reads any
more. They last because no step gives anyone an end of a pipe its stage did not
hold before (`KeepsEnds`, `NoNewEnds`): a pipe without a writer or without a
reader stays so. The rest is counting in a line (`AheadMore`: `m` units ahead
and then `n` are `m + n`), one lemma for what taking from a pipe does and one
for putting (`TakeKeeps`, `PutKeeps`), and that a step moves one stage
(`OthersInStep`).

`WokenByItsOwn` is an action property, and it is false on a terminal: a stage
without a pipe of its own is polled on whatever fd 0 or fd 1 names (`OwnIn`,
`OwnOut`), the finding of `Pipeline_terminal_input`. Off a terminal it is
proved, and the proof says what saves it. `OwnParks`: the first stage never
waits to read, because its input is a file or is at its end, and the last never
waits to write, because its output takes everything or is the grid. The stages
that do wait have a pipe of their own.

The refinement needs a third invariant, `NetInv`, inductive with the other two.
`BegunInOrder` and `EndedOnce`: stages are begun from left to right, nothing runs
that has not begun or after the return, and a status is set when its stage ends
and kept until it is asked for. `InputHeld`: what fd 0 keeps open is a pipe some
stage still has, so a reader by accident is never the only one (`ReaderThere`).
`InRole`: a stage that reads to the end and has nothing left to do has met the
end of its input, and a child's 0 is one that has. The other half, that the
end of an input is final, is `DryKept`. Then there is one lemma for each kind of step:
`ReadNet` and `WriteNet` say what a taking or a putting is in the network, for
turns and processes alike; `TurnEndsNet` and `ProcEndsNet` what an end is;
`ThreadStillNet` that what the thread does in between is not seen but in the output
it takes; `FirstTurnNet`, `SpawnNet`, `AbandonNet` and `AnswerNet` the rest.

### History

`TypeOK` says, beside types, that the lock is held exactly inside `compact`, so
at most one shell is there. `Ordered` is inductive with it and with `Unfinished`
(only failures leave a line without its end, and the file then has one): an append
is newer than all in the file, also when it runs into a cut line, and what was
appended after the truncation is newer than all that is written back, which is
what makes their overlap (`Over`) rise. A write that stops inside a line is one
that ended with a shorter list (`PartIsOver`, `StoppedWrite`). For
the refinement every action is taken to one of `HistoryLog` or to a stutter: the
append to `Record`, the read under the lock to `Trim`, the truncation to
nothing, `WriteBack` to `Finish`, and a failure or a crash inside the rewrite to
`CutShort`; a compaction that gives up before it is nothing.

`HistoryPromises` has one invariant for each of the other three. `ParentInv`
ties a chain to what was recorded: the newest node of a chain is a predecessor
only if this session, or the one it was forked from, recorded it, which neither a
`load` of the whole file nor a chain rebuilt by a clear or a deletion may break
(`RebuildParents`). `KeptInv` adds to `NewestKept` that the line without an end is
a fragment or excused (`TornExcused`), or an append that runs into it would take
the place of an entry the file owes. `SpaceInv` is why `compact` throws
nothing away too soon: the lines after an entry, fragments among them, are each
of an entry recorded later, so an entry that is not among the newest `Limit`
lines is not among the newest `Limit` entries; the same must hold of what
`compact` is about to write beside what was appended since it truncated.
`GrowthInv` bounds every list by what was recorded and what is written back by
`Limit`; a compaction that gives up answers for the file as it is (`GivesUpGrowth`);
the sum of the sessions' counts (`Counted`, a fold) changes by what one
of them changes, proved by induction on the number of sessions.

### Jobs

`JobsInv` says that jobs are apart: two jobs of the table, or one of them and
the job in hand, share neither id nor process; a job's processes were started,
in its group if it has one, and only a job with a group is marked stopped. With
it goes a bound that no variable keeps, how many processes were started
(`Numbered`, an existential): ids stay below it, so a new job's id and processes
are new. Each builtin is then one of a few steps: the table loses some jobs
whose processes are accounted for (`TableStep`), a job moves from the table to
the hand (`TakeOutStep`), the hand is emptied (`HandDone`), a signal goes to
processes (`SignalStep`). `StatusTrue` and `ResumedWhole` are action properties:
the first holds because only three steps empty the hand (`EndsOfHand`), the
second because every step but `bg`, `fg` and the start of a job leaves each job's
mark as it was or sets it, and those two signal the group all processes are in.

### LspClient

`LspInv` joins three parties that see each other late. What the client has on
record of a document, what the messages held, written and unread will tell, and
what the process already knows agree (`StepInv`): no prefix of those messages
loses the process (`NeverLost`), and they end with the text on record
(`EndsWith`). Every id is below the next and no two messages share one
(`IdsInv`), with which a question parked is answered by its own answer. What is
said of a version in one life of a buffer is the text it had in that life
(`FitInv`), for every life, and nothing is said of a life to come; so a diagnostic
that names a version of the present one is about its text. A question parked in
the buffer's present life, on a server that knows it (`Own`), is, if the buffer
still has the version it was asked for, about the buffer's text wherever it is:
unread, after the messages before it, or answered, unless by an error
(`WaitInv`); so what is painted is true (`PaintInv`). `HeardOf`, what a
process makes of a list of messages, is reasoned about by what an append and a
tail do to it (`HeardLast`, `HeardTail`), and each action by whether it adds to
the messages on their way, takes from them, or leaves them.

### WorkspaceEdit

`EditInv` says why the way back leads back. While steps are taken, taking back
all of `undo` gives `disk0` (`Reversible`), unless a rename went over a directory
made on the way (`Over`). That needs ids and aside names that are given once, or
an undo would find two files where it left one (`Committing`: `Known` paths use
only the aside names given so far), and it needs that no rename replaces what
the plan knows of, which `plan` sees to by deleting it first (`Sound`,
`PlanSound`). What the plan knows of is what is there (`Agree`), but for the
directories made. `Saving` keeps what was read with the file it was read from,
so a first write cut short has harmed that one file (`AlikeUndone`).

The lemmas follow the code. `RenamedFacts` says what is where after a rename,
`RenameBack` that the reverse one gives the disk back, `StepBack` the same of a
step with what it records, `DirsBack` of the directories made for it; `UndoneLast`
takes the last of `undo` off, as the loop of `Done::undo` does, so each step
taken adds one instance. `FoundLast` and `ExistsLast` do that for `Model::find`,
which walks the plan backwards, `MadeLast` and `MadeDirs` for what was made. The
paths under them are reasoned about by their points (`WithinPoints`,
`MovedPoints`).

`OpenInv` follows what an edit that stays must not lose. A file of an open
buffer is, while steps are taken, where the steps so far lead its path and
under no other name a user can give (`Placed`): a step moves the file as it
moves the path (`PlaceStep`). That it is still there at all when it has unsaved
changes takes three facts. The plan deletes no such path, under whatever name
it has by then (`Spares`, an invariant of `plan`'s loop: `unsaved` is at each
item what the steps planned make of the names at first, `SparingPlans`); no
rename is planned onto a path the plan knows of (`Sound`); and the plan knows of
the path (`PlaceExists`), which is where `Agree` comes in again, as the disk may
also hold directories it does not know of. `SetAside` does it for what was put
aside: whatever is under an aside name is still where it was put, or inside
another thing put aside there, or some rename in `undo` took the directory along
(`Traced`, `TracedStep`). Writing touches neither (`WriteOpen`), and `finish`
removes what is where it was put and nothing a user can name (`FinishedOpen`).

The proofs corrected four properties, which held on the instance only.
`DeletedForGood` and `BuffersFollow` said nothing of a file put aside in a
directory that moves afterwards: it stays on the disk, and so a buffer's file
may be under a hidden name. Both now say what is left of them, and the instance
deletes inside a directory that moves. As first written, `NothingChanged` did not except a rename over a directory made on the
way, nor a torn write of a file that was not there, and `PlannedDisk` excepted
such a directory only under its first name. The cases are now in the instance, and
in Known divergences.

### How data is reasoned about

Definitions that walk a list (`Only`, `HeardOf`, `Counted`, `Undone`) are recursive
functions or folds, not recursive operators. The library's induction theorems
take an operator as a parameter, which no prover here instantiates, so `ListFacts`
has its own `Induction`: a set of numbers with 0, and with `n + 1` for every `n`
in it, is `Nat`, proved from the least counterexample. A lemma about every list
is then one about the set of the lengths for which it holds. `Recursion` is the
one by which a recursive function is given by its equations.

Only model-checked: two properties of `WorkspaceEdit`. `EditedInOrder` and
`RefusedForAReason` compare the plan with `Replay`, two walks over the same items
with different state in between, so a proof needs a third that says at each item
what the one and the other have become. Everything about liveness is checked by TLC alone.

## Known divergences

Besides the runs that end in a violation, these were met while modelling, most
of them shown by TLC on variants of the instances above. Those that a property
excludes name the exclusion.

Pipelines.

- While the scheduler sleeps in `poll`, fd 0 and fd 1 are still the last task's
  (`scheduler.rs:282`), though "the shell owns fd 0 and fd 1 whenever no task
  runs on them" (235-236). The shell runs nothing then.
- In a pane a full pipe between two stages is answered by draining the pane's
  pty instead of parking (`exec.rs:568`): the thread spins until the reader, a
  process, empties it, and for ever when the reader is a stage.
- In a pane, a stage waiting for its own child keeps the scheduler's loop busy
  (`exec.rs:5023`), so the pane's pty, which that child fills, is not drained.

Workspace edits.

- Deleting `lib/a` and then renaming `lib` leaves `a` under its hidden name:
  `finish` removes the name the file was put aside under (`fileops.rs:240`,
  `275-283`). `DeletedForGood` excepts it (`TakenAlong`).
- `plan` does not know the directories `commit` makes on the way
  (`fileops.rs:108-114` and `248-258`): after `create new/c`, a delete of `new` is refused, or
  skipped when it may be missing. `PlannedDisk` excepts those paths (`Made`).
- For the same reason a rename may go over such a directory once it is empty:
  after `create new/c`, `rename new/c` to `b`, `rename lib` to `new`, a later
  step that fails has `lib` moved back, but `new` is gone (`fileops.rs:233-237`,
  `264-271`), so `b` cannot go back to `new/c`. The created file stays at `b`
  though the error says nothing changed. `NothingChanged` excepts it (`Overran`).
- When the first write stops half way (`textbuffer.rs:546`, a full disk) the
  file keeps what was written and the error says nothing changed
  (`repl.rs:8345-8347`). If the file was not there before, it stays, with the
  directories made for it.
- When a later write fails the renames stay and the open buffers do not follow
  (`repl.rs:8348-8351`, where the comment at 8257-8259 says an open buffer moves
  with its file).

History.

- What another shell records between `compact`'s read and its write is lost or
  torn (`History_torn`); `NewestKept` excuses those entries.
- One line cut inside a character makes the file invalid UTF-8, and `load` and
  `compact` read it with `read_to_string` (`history.rs:93`, `194`, `417`): the
  history is not loaded by any shell and not compacted by any, while all go on
  appending to it. A disk that fills up does that, and without any failure so does
  an append in the middle of a rewrite (`History_torn`): the rest of the line that
  is overwritten may begin inside a character. `GrowthAccounted` says what the file
  grows by: what is in it when a compaction gives up (`abandoned`).
- The file may outgrow twice its bound: each session counts its own appends, a
  fork goes on from its parent's count, and a session that ends takes its count
  with it. `GrowthAccounted` says by how much.

Jobs.

- `fg` of a pipeline waits for its first process alone (`jobs.rs:203`) and
  returns its status with the others running; the comment (165-166) says a
  multi-stage pipeline "is a plain blocking wait", which only a job without a
  group gets.
- `jobs -p` polls jobs marked stopped (`jobs.rs:40`). When one of them was
  killed, `fg` afterwards finds nothing to wait for and returns 1.
- `kill -CONT` leaves a job marked stopped: `wait` refuses it with 127 though it runs.
- A background job that SIGTTIN stops is not seen to stop: `jobs` says it runs,
  and `wait` for it blocks. `fg` does not resume it either and returns 148.
- A job that was disowned stays a zombie until the shell ends, having no `Child` left.

Language server client.

- A document opened before the handshake has no text on record. Emptied, it does
  not differ from it: nothing is sent though its version is recorded
  (`lspclient.rs:1195-1207`, `1579`). `InSync` excludes emptied buffers.
- `::bish lsp restart` starts ids at 1 again: a question parked for the old
  server can collect the new one's answer to another (`repl.rs:7683-7690`), and
  open buffers are not opened on the new server. `TokensTrue` leaves out a buffer
  the server does not know.
- "A publication for a revision the buffer has left is dropped" (`repl.rs:8954-8955`)
  goes by version alone: one of before the buffer was closed and opened again, read
  after it was, is drawn when the new buffer is at the same version.
  One without a version is "taken at its word" (8955-8956) whatever was typed since.
  `DiagnosticsTrue` excludes both (`drawn`). Tokens asked for in the buffer's last
  life are painted in the same way (7698), which `TokensTrue` excludes (`asked`).
- An error answer to a question for tokens becomes no tokens, on record as painted
  (`repl.rs:7701-7703`): the buffer stays without colours until it is edited.
  `Coloured` excludes it (`Refused`), and what outlives the buffer of the finding
  of `LspClient_reopened` (`Outlived`).
- The oldest of 32 answers is dropped "which nobody still awaits"
  (`lspclient.rs:768-771`), but one parked for a buffer that is not in front is
  still awaited: that buffer never asks again. `Coloured` excludes it (`Lost`).
- An edit that leaves the text as it was sends no `didChange` though the version
  is recorded; what the server publishes afterwards, under the version it knows,
  is dropped (`repl.rs:8975`).
- A document opened before the handshake is sent `didOpen` even to a server
  that answers it wants none.

## Plan

Done: `Pipeline` with `StageNetwork`, `WorkspaceEdit`, `History` with `HistoryLog`, `Jobs`,
`LspClient`; the proofs of each.

1. `WorkspaceEdit`: a proof of `RefusedForAReason`, from an invariant that ties
   the plan's loop to `Replay`'s item by item; then `EditedInOrder`.
2. `StageWatch`: pipelines inside stages, and what they do to `BROKEN_PIPE` and
   `PIPELINE_DRAIN`, one each per thread.
3. `ProcSub`: the background scheduler that drives process substitutions.
4. `ProcessState`: the working directory, umask and descriptors of a stage that
   is a subshell in the shell's own process.
5. A pane's jobs in `Jobs`; highlights, inlay hints and `executeCommand` in `LspClient`.
6. Detached sessions, file watching, the debug adapter client.

## Not modelled

Parsers, formats, globs, regular expressions, arithmetic, highlighting, layout
and the Unicode tables are functions of text: a model of one would be a
transliteration, and what TLC could compare it with is another. The editors'
keys and motions are the same with a cursor. The platform layer is a list of
system calls, which the modules model as external where they use them. What is
left with state of its own, and is worth a module, is in the plan.
