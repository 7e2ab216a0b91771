--------------------------------- MODULE History ---------------------------------
(***************************************************************************)
(* Command history, history.rs: one file that the sessions of every        *)
(* running shell append to, a chain of entries in the memory of each       *)
(* session, and compact, which rewrites the file to its newest entries     *)
(* while other shells hold it open.                                        *)
(*                                                                         *)
(* A shell is one process with one thread; its sessions are its windows    *)
(* and splits, each with a History forked from another's.  Between two     *)
(* system calls of one shell every other may run.  An entry is its place   *)
(* in ledger, the order in which entries were recorded anywhere.           *)
(***************************************************************************)
EXTENDS Integers, Sequences, FiniteSets, FiniteSetsExt, SequencesExt

CONSTANTS
    Shell,      \* processes
    Session,    \* windows and splits
    Command,    \* texts of commands
    Limit,      \* bishopt history_size
    Earlier,    \* entries the file may hold at first
    MaxEntries, \* bound on the entries of a behaviour
    MayFail     \* whether reads, appends, rewrites and shells may fail

Nobody == "nobody"

ASSUME HistoryAssumption ==
    /\ Limit \in Nat /\ Earlier \in Nat /\ MaxEntries \in Nat
    /\ Earlier <= MaxEntries
    /\ MayFail \in BOOLEAN
    /\ Nobody \notin Shell
    /\ IsFiniteSet(Session)

VARIABLES
    shell,      \* the shell each session belongs to
    chain,      \* History::tail of each session: its nodes, oldest first
    appended,   \* History::appended of each session
    at,         \* where each shell is in maybe_compact and compact
    out,        \* what compact is about to write back
    lock,       \* the shell that holds the flock
    file,       \* the entries in the file, a line each
    text,       \* whether the file can be read: no character of it is cut
    ragged,     \* whether the file's last line lacks its end
    ledger,     \* every entry ever recorded, with its -p
    \* What only the properties read.
    ranAfter,   \* the entry recorded just before each one where it was typed
    last,       \* the entry last recorded where each session is, since its chain was rebuilt
    excused,    \* entries no promise covers
    abandoned   \* appends counted by sessions that are gone, lines no rewrite looked at

vars == <<shell, chain, appended, at, out, lock, file, text, ragged, ledger,
          ranAfter, last, excused, abandoned>>
disk == <<file, text, ragged>>
notes == <<ranAfter, last, excused, abandoned>>

Places == {"idle", "count", "lock", "read", "cut", "write"}
Holding == {"read", "cut", "write"}
Up(p) == \E s \in Session : shell[s] = p
NewestOf(s, k) == IF Len(s) <= k THEN s ELSE SubSeq(s, Len(s) - k + 1, Len(s))
In(s) == {s[i] : i \in 1..Len(s)}

\* What is left of a line that names no entry: its start was overwritten, or it
\* was cut before its end.
Fragment == 0

\* A shell has read what it will write back.
Rewriting == lock # Nobody /\ at[lock] \in {"cut", "write"}

-----------------------------------------------------------------------------
Init ==
    /\ shell = [s \in Session |-> Nobody]
    /\ chain = [s \in Session |-> <<>>]
    /\ appended = [s \in Session |-> 0]
    /\ at = [p \in Shell |-> "idle"]
    /\ out = [p \in Shell |-> <<>>]
    /\ lock = Nobody
    /\ text = TRUE
    /\ ragged = FALSE
    /\ \E n \in 0..Earlier : \E c \in [1..n -> Command] :
        /\ ledger = [k \in 1..n |-> [cmd |-> c[k], parent |-> 0]]
        /\ file = [k \in 1..n |-> k]
        /\ ranAfter = [k \in 1..n |-> 0]
    /\ last = [s \in Session |-> 0]
    /\ excused = {}
    /\ abandoned = 0

\* The node load makes of the i-th entry of lines: its parent is a node only
\* when the parent's entry is among those before it.
Node(lines, i) ==
    LET p == IF lines[i] = Fragment THEN 0 ELSE ledger[lines[i]].parent
    IN [id |-> lines[i], live |-> FALSE,
        parent |-> IF p \in In(SubSeq(lines, 1, i - 1)) THEN p ELSE 0]

Loaded(lines) == [i \in 1..Len(lines) |-> Node(lines, i)]

\* A shell starts: load reads the file as it happens to be; one it cannot read
\* is as good as none.
Load(p, s) ==
    /\ ~Up(p) /\ at[p] = "idle" /\ shell[s] = Nobody
    /\ shell' = [shell EXCEPT ![s] = p]
    /\ appended' = [appended EXCEPT ![s] = 0]
    /\ last' = [last EXCEPT ![s] = 0]
    /\ \/ /\ text
          /\ chain' = [chain EXCEPT ![s] = Loaded(NewestOf(file, Limit))]
          /\ at' = [at EXCEPT ![p] = IF Len(file) > Limit THEN "lock" ELSE "idle"]
          /\ UNCHANGED abandoned
       \/ /\ ~text \/ MayFail
          /\ chain' = [chain EXCEPT ![s] = <<>>]
          /\ abandoned' = Len(file)
          /\ UNCHANGED at
    /\ UNCHANGED <<out, lock, disk, ledger, ranAfter, excused>>

\* `window new` and splits.
Fork(s, t) ==
    /\ shell[s] # Nobody /\ at[shell[s]] = "idle" /\ shell[t] = Nobody
    /\ shell' = [shell EXCEPT ![t] = shell[s]]
    /\ chain' = [chain EXCEPT ![t] = chain[s]]
    /\ appended' = [appended EXCEPT ![t] = appended[s]]
    /\ last' = [last EXCEPT ![t] = last[s]]
    /\ UNCHANGED <<at, out, lock, disk, ledger, ranAfter, excused, abandoned>>

\* `history -c` and `history -d` make a chain anew, of nodes that are nobody's
\* predecessors; the file stays as it is.
Rebuild(s, nodes) ==
    /\ shell[s] # Nobody /\ at[shell[s]] = "idle"
    /\ chain' = [chain EXCEPT ![s] = nodes]
    /\ last' = [last EXCEPT ![s] = 0]
    /\ UNCHANGED <<shell, appended, at, out, lock, disk, ledger, ranAfter, excused, abandoned>>

Clear(s) == Rebuild(s, <<>>)

\* An entry whose metadata is given up. Its new id is written nowhere: id stays
\* the name of its text.
Bare(n) == [n EXCEPT !.live = FALSE, !.parent = 0]
\* A fault: the nodes that stay are taken over as they are.
DeleteInPlace(s) == \E n \in 1..Len(chain[s]) : Rebuild(s, RemoveAt(chain[s], n))
Delete(s) ==
    \E n \in 1..Len(chain[s]) :
        LET kept == RemoveAt(chain[s], n)
        IN Rebuild(s, [i \in 1..Len(kept) |-> Bare(kept[i])])

\* Only a live node is a true predecessor.
Predecessor(nodes) ==
    IF nodes # <<>> /\ nodes[Len(nodes)].live THEN nodes[Len(nodes)].id ELSE 0

\* record skips a command that is the newest entry's.
Repeats(nodes, cmd) ==
    LET id == nodes[Len(nodes)].id IN nodes # <<>> /\ id # Fragment /\ ledger[id].cmd = cmd

\* Where maybe_compact goes once `n` entries were appended.
Responsible(n) == Limit > 0 /\ n >= Limit

\* The file with x at its end; at the end of a line that was cut, what comes
\* belongs to that line.
Added(x) ==
    IF ragged THEN {file, [file EXCEPT ![Len(file)] = Fragment]} ELSE {Append(file, x)}

\* The file cannot be opened, or the write stops in the line: after what names
\* the entry or before, or inside a character.
AppendFails(id) ==
    \/ UNCHANGED disk
    \/ /\ file' \in Added(id) \cup Added(Fragment)
       /\ ragged' = TRUE
       /\ text' \in {text, FALSE}

\* record, to the end of maybe_compact's first test.  The append is one write
\* to an O_APPEND descriptor, without the lock.
Record(s, cmd) ==
    LET p == shell[s]
        id == Len(ledger) + 1
        parent == Predecessor(chain[s])
        n == appended[s] + 1
    IN /\ p # Nobody /\ at[p] = "idle" /\ id <= MaxEntries
       /\ ~Repeats(chain[s], cmd)
       /\ chain' = [chain EXCEPT ![s] = Append(@, [id |-> id, live |-> TRUE, parent |-> parent])]
       /\ ledger' = Append(ledger, [cmd |-> cmd, parent |-> parent])
       /\ ranAfter' = Append(ranAfter, last[s])
       /\ last' = [last EXCEPT ![s] = id]
       /\ \/ /\ file' \in Added(id) /\ ragged' = FALSE /\ text' = text
             /\ excused' = IF Rewriting \/ ragged THEN excused \cup {id} ELSE excused
          \/ /\ MayFail
             /\ AppendFails(id)
             /\ excused' = excused \cup {id}
       /\ appended' = [appended EXCEPT ![s] = IF Responsible(n) THEN 0 ELSE n]
       /\ at' = [at EXCEPT ![p] = IF Responsible(n) THEN "count" ELSE "idle"]
       /\ UNCHANGED <<shell, out, lock, abandoned>>

\* A fault: the bound tested against the wrong multiple.
TooLongLate(lines) == Len(lines) > 3 * Limit
TooLong(lines) == Len(lines) > 2 * Limit

\* A compaction that gives up leaves the file as long as it is.
GivesUp(p) ==
    /\ at' = [at EXCEPT ![p] = "idle"]
    /\ abandoned' = Len(file)
    /\ UNCHANGED <<shell, chain, appended, out, disk, ledger, ranAfter, last, excused>>

\* The rest of maybe_compact: read the file, without the lock, and count.
Count(p) ==
    /\ at[p] = "count"
    /\ \/ /\ text
          /\ at' = [at EXCEPT ![p] = IF TooLong(file) THEN "lock" ELSE "idle"]
          /\ UNCHANGED <<shell, chain, appended, out, lock, disk, ledger, notes>>
       \/ (~text \/ MayFail) /\ GivesUp(p) /\ UNCHANGED lock

\* A fault: no lock.
TryNoLock(p) ==
    /\ at[p] = "lock"
    /\ at' = [at EXCEPT ![p] = "read"]
    /\ UNCHANGED <<shell, chain, appended, out, lock, disk, ledger, notes>>

\* compact: open, and a lock that does not wait.
TryLock(p) ==
    /\ at[p] = "lock"
    /\ \/ /\ IF lock = Nobody
             THEN lock' = p /\ at' = [at EXCEPT ![p] = "read"]
             ELSE lock' = lock /\ at' = [at EXCEPT ![p] = "idle"]
          /\ UNCHANGED <<shell, chain, appended, out, disk, ledger, notes>>
       \/ MayFail /\ GivesUp(p) /\ UNCHANGED lock

\* A fault: the first lines instead of the last.
KeepsFirst(lines) == IF Len(lines) <= Limit THEN lines ELSE SubSeq(lines, 1, Limit)
Keeps(lines) == NewestOf(lines, Limit)

\* The second read, under the lock.
Reread(p) ==
    /\ at[p] = "read"
    /\ \/ /\ text
          /\ out' = [out EXCEPT ![p] = Keeps(file)]
          /\ at' = [at EXCEPT ![p] = "cut"]
          /\ UNCHANGED <<shell, chain, appended, lock, disk, ledger, notes>>
       \/ (~text \/ MayFail) /\ GivesUp(p) /\ lock' = Nobody

\* set_len(0).
Truncate(p) ==
    /\ at[p] = "cut"
    /\ file' = <<>> /\ text' = TRUE /\ ragged' = FALSE
    /\ at' = [at EXCEPT ![p] = "write"]
    /\ UNCHANGED <<shell, chain, appended, out, lock, ledger, notes>>

\* A fault: the descriptor opened for appending.
AtEnd(lines, old) == {old \o lines}

\* What is left of lines whose start is overwritten: lines differ in length, so
\* how many are covered is open, and the last of those may be covered in part.
Rest(old) ==
    {SubSeq(old, k + 1, Len(old)) : k \in 1..Len(old)}
    \cup {<<Fragment>> \o SubSeq(old, k + 1, Len(old)) : k \in 1..Len(old)}

\* What may be in the file once lines are written at its start, over what was
\* appended since it was cut.
Over(lines, old) ==
    IF lines = <<>> \/ old = <<>> THEN {lines \o old} ELSE {lines \o rest : rest \in Rest(old)}

\* A write that ends where a line does.  The line it covers in part may be left
\* with part of a character; one it covers in whole may have been the unreadable.
WritesLines(lines) ==
    /\ file' \in Over(lines, file)
    /\ ragged' = (ragged /\ Len(file') > Len(lines))
    /\ text' \in BOOLEAN
    /\ Len(file') = Len(lines) => text'
    /\ lines = <<>> => text' = text
    /\ text /\ Len(file') > Len(lines) /\ file'[Len(lines) + 1] # Fragment => text'

\* A write that stops inside the line after lines, of which x is left; what it
\* did not cover of an old line is the rest of that line now.
WritesPart(lines, x) ==
    /\ \/ file' = Append(lines, x) /\ ragged' = TRUE
       \/ \E k \in 1..Len(file) :
            file' = Append(lines, x) \o SubSeq(file, k + 1, Len(file)) /\ ragged' = ragged
    /\ text' \in BOOLEAN

Released(p) == IF lock = p THEN Nobody ELSE lock
EndOfCompact(p) ==
    /\ at' = [at EXCEPT ![p] = "idle"]
    /\ out' = [out EXCEPT ![p] = <<>>]
    /\ lock' = Released(p)

\* seek, write_all and unlock.
WriteBack(p) ==
    /\ at[p] = "write"
    /\ WritesLines(out[p])
    /\ EndOfCompact(p)
    /\ abandoned' = Len(file') - Len(out[p])
    /\ UNCHANGED <<shell, chain, appended, ledger, ranAfter, last, excused>>

\* set_len fails, or write_all anywhere; the result is dropped.
RewriteFails(p) ==
    /\ MayFail
    /\ \/ at[p] = "cut" /\ UNCHANGED disk
       \/ /\ at[p] = "write"
          /\ \/ \E n \in 0..Len(out[p]) : WritesLines(SubSeq(out[p], 1, n))
             \/ \E n \in 1..Len(out[p]) : \E x \in {out[p][n], Fragment} :
                    WritesPart(SubSeq(out[p], 1, n - 1), x)
    /\ EndOfCompact(p)
    /\ excused' = excused \cup In(out[p])
    /\ abandoned' = Len(file')
    /\ UNCHANGED <<shell, chain, appended, ledger, ranAfter, last>>

\* What the sessions of S have counted.
Counted(S) == FoldSet(LAMBDA s, n : appended[s] + n, 0, S)

\* A window closes; with its last one the shell ends.
Close(s) ==
    /\ shell[s] # Nobody /\ at[shell[s]] = "idle"
    /\ shell' = [shell EXCEPT ![s] = Nobody]
    /\ chain' = [chain EXCEPT ![s] = <<>>]
    /\ appended' = [appended EXCEPT ![s] = 0]
    /\ last' = [last EXCEPT ![s] = 0]
    /\ abandoned' = Min({abandoned + appended[s], MaxEntries})
    /\ UNCHANGED <<at, out, lock, disk, ledger, ranAfter, excused>>

\* A shell is killed; the kernel gives its lock back.
Crash(p) ==
    LET gone == {s \in Session : shell[s] = p}
    IN /\ MayFail /\ gone # {}
       /\ shell' = [s \in Session |-> IF s \in gone THEN Nobody ELSE shell[s]]
       /\ chain' = [s \in Session |-> IF s \in gone THEN <<>> ELSE chain[s]]
       /\ appended' = [s \in Session |-> IF s \in gone THEN 0 ELSE appended[s]]
       /\ last' = [s \in Session |-> IF s \in gone THEN 0 ELSE last[s]]
       /\ abandoned' = Len(file)
       /\ excused' = excused \cup In(out[p])
       /\ EndOfCompact(p)
       /\ UNCHANGED <<disk, ledger, ranAfter>>

Compact(p) ==
    Count(p) \/ TryLock(p) \/ Reread(p) \/ Truncate(p) \/ WriteBack(p) \/ RewriteFails(p) \/ Crash(p)

Next ==
    \/ \E p \in Shell, s \in Session : Load(p, s)
    \/ \E s, t \in Session : Fork(s, t)
    \/ \E s \in Session, cmd \in Command : Record(s, cmd)
    \/ \E p \in Shell : Compact(p)
    \/ \E s \in Session : Clear(s) \/ Delete(s) \/ Close(s)

Spec == Init /\ [][Next]_vars

-----------------------------------------------------------------------------
NodeType == [id : Nat, live : BOOLEAN, parent : Nat]

\* Every variable has its type, and the lock is held exactly inside compact.
TypeOK ==
    /\ shell \in [Session -> Shell \cup {Nobody}]
    /\ chain \in [Session -> Seq(NodeType)]
    /\ appended \in [Session -> Nat]
    /\ at \in [Shell -> Places]
    /\ out \in [Shell -> Seq(Nat)]
    /\ file \in Seq(Nat) /\ text \in BOOLEAN /\ ragged \in BOOLEAN
    /\ ledger \in Seq([cmd : Command, parent : Nat])
    /\ lock \in Shell \cup {Nobody}
    /\ \A p \in Shell : lock = p <=> at[p] \in Holding

Rising(s) == \A i, j \in 1..Len(s) : i < j /\ s[i] # Fragment /\ s[j] # Fragment => s[i] < s[j]
Known(s) == \A i \in 1..Len(s) : s[i] \in 0..Len(ledger)
Precedes(s, t) ==
    \A i \in 1..Len(s), j \in 1..Len(t) : s[i] # Fragment /\ t[j] # Fragment => s[i] < t[j]

\* The file, and what compact is about to write to its start, hold entries in
\* the order they were recorded, none twice; what was appended while the file
\* was empty is newer than all that is written back.
Ordered ==
    /\ Rising(file) /\ Known(file)
    /\ \A p \in Shell : at[p] \in {"cut", "write"} => Rising(out[p]) /\ Known(out[p])
    /\ \A p \in Shell : at[p] = "write" => Precedes(out[p], file)

\* The parent written with an entry, and the one load finds again for it, is
\* the command recorded just before it in the same window or the one it was
\* forked from: never another shell's, whatever was appended in between.  After
\* `history -c` or `history -d` in a window its next entry has none.
ParentsTrue ==
    /\ \A k \in 1..Len(ledger) : ledger[k].parent = ranAfter[k]
    /\ \A s \in Session : \A n \in In(chain[s]) : n.parent # 0 => n.parent = ranAfter[n.id]

\* The file, or what compact makes of it.
Kept == IF Rewriting THEN out[lock] ELSE file

\* An entry is missing from the file only because Limit newer ones were
\* recorded, or it was recorded while a shell was rewriting the file or behind a
\* line that was cut, or an append or a rewrite failed.
NewestKept ==
    \A k \in 1..Len(ledger) :
        \/ k \in In(Kept) \/ k \in excused
        \/ Len(ledger) - k >= Limit

\* A file too long for its bound is too long by what was appended since the
\* sessions that are there, and those that are gone, last counted.  A compaction
\* that cannot read or open the file, fails, or dies with its shell leaves it as
\* it is, and answers for none of what is in it then.
GrowthAccounted ==
    (Limit > 0 /\ (\A p \in Shell : at[p] = "idle") /\ \E p \in Shell : Up(p))
        => Len(file) <= 2 * Limit + abandoned + Counted(Session)

\* The file keeps the promise of HistoryLog, compact's rewrite being the moment
\* of its read under the lock.
Promise == INSTANCE HistoryLog WITH
    count <- Len(ledger),
    kept <- Kept,
    unfinished <- ~Rewriting /\ ragged,
    rewriting <- Rewriting
ImplementsLog == Promise!Spec

\* "concurrent sessions interleave whole entries": no line is part of another.
WholeEntries == Fragment \notin In(file)
=============================================================================
