----------------------------- MODULE WorkspaceEdit -----------------------------
(***************************************************************************)
(* A language server's edit of several files, as repl.rs:                   *)
(* apply_workspace_edit carries it out over fileops.rs: work the file       *)
(* operations out against the disk, do them, edit the text of the files     *)
(* that are not open, write those, and take it all back when a step fails.  *)
(*                                                                         *)
(* A path is a sequence of names.  The disk is a function from the paths    *)
(* that exist to what is there; the text of a file is the sequence of the   *)
(* text changes it has taken.  A file keeps its id wherever it is moved.    *)
(***************************************************************************)
EXTENDS Integers, Sequences, FiniteSets, SequencesExt

CONSTANTS
    Names,      \* the names files and directories have; aside names are numbers
    Cases,      \* the disks an edit may find, what it may ask for there (file
                \* operations and text changes) and how many of them
    Bufs,       \* the open buffers: "here" has the cursor
    Dirty,      \* whether they may have unsaved changes, and whether they may not
    MayFail,    \* whether a step may fail for a reason of its own
    DiskFull    \* whether a write may fail half way

VARIABLES
    pc,         \* "plan", "commit", "save"; then "done", "refused", "undone", "partly",
                \* or "torn": undone after a write that a full disk cut short
    disk,
    edit,       \* the items, in the server's order
    steps,      \* Plan::steps
    next,       \* the step commit has reached, or the file save has
    undo,       \* Done::undo
    aside,      \* Done::aside
    loaded,     \* to_load, then on_disk: files not open that take text changes
    buf,        \* the open buffers
    disk0, buf0 \* what they were before the edit

vars == <<pc, disk, edit, steps, next, undo, aside, loaded, buf, disk0, buf0>>

-----------------------------------------------------------------------------
(* Paths and disks. *)

NoId == <<"none", 0>>
Dir == [kind |-> "dir", id |-> NoId, text |-> <<>>]
File(id, text) == [kind |-> "file", id |-> id, text |-> text]
Where(d, id) == {p \in DOMAIN d : d[p].id = id /\ d[p].kind = "file"}

\* Path::starts_with
Within(p, q) == IsPrefix(q, p)
Parent(p) == Front(p)
IsDir(d, p) == p = <<>> \/ (p \in DOMAIN d /\ d[p].kind = "dir")
Below(d, p) == {q \in DOMAIN d : Within(q, p)}
Empty(d, p) == Below(d, p) = {p}

\* Fault: only the renamed path itself, not what is inside it.
MovedExactly(p, from, to) == IF p = from THEN to ELSE p

\* `path` once `from` has become `to`.
Moved(p, from, to) ==
    IF Within(p, from) THEN to \o SubSeq(p, Len(from) + 1, Len(p)) ELSE p

\* The disk with what is at and below p gone, or with node there.
Without(d, p) == [q \in DOMAIN d \ Below(d, p) |-> d[q]]
With(d, p, node) == [q \in DOMAIN d \cup {p} |-> IF q = p THEN node ELSE d[q]]

\* open with create_new, create_dir, remove_file, remove_dir
CanAdd(d, p) == p \notin DOMAIN d /\ IsDir(d, Parent(p))
CanRemoveFile(d, p) == p \in DOMAIN d /\ d[p].kind = "file"
CanRemoveDir(d, p) == p \in DOMAIN d /\ d[p].kind = "dir" /\ Empty(d, p)

\* rename(2): over a file of the same kind or an empty directory, and never
\* into itself.
CanRename(d, from, to) ==
    /\ from \in DOMAIN d /\ IsDir(d, Parent(to))
    /\ from # to => ~Within(to, from)
    /\ to \in DOMAIN d => d[to].kind = d[from].kind /\ (from = to \/ Empty(d, to))

Renamed(d, from, to) ==
    IF from = to THEN d
    ELSE LET stay == DOMAIN d \ (Below(d, from) \cup Below(d, to))
             come == {Moved(p, from, to) : p \in Below(d, from)}
         IN [p \in stay \cup come |-> IF p \in come THEN d[Moved(p, to, from)] ELSE d[p]]

\* Every path is in a directory that exists, and every file in one place.
Tree(d) ==
    \A p \in DOMAIN d :
        /\ p # <<>> /\ IsDir(d, Parent(p))
        /\ d[p] = Dir \/ (d[p].kind = "file" /\ Where(d, d[p].id) = {p})

Items == UNION {case.items : case \in Cases}
Paths == Seq(Names) \ {<<>>}

ASSUME BoundsAssumption ==
    /\ Dirty \subseteq BOOLEAN /\ MayFail \in BOOLEAN /\ DiskFull \in BOOLEAN
    /\ \A name \in Names : name \notin Nat
    /\ \A case \in Cases :
          /\ case.max \in Nat \ {0}
          /\ Tree(case.disk) /\ case.disk = [p \in DOMAIN case.disk |-> case.disk[p]]
          /\ \A p \in DOMAIN case.disk :
                p \in Paths /\ case.disk[p] \in {Dir} \cup [kind : {"file"}, id : {"old"} \X Nat, text : Seq(Int)]
    /\ \A item \in Items :
          /\ item.kind \in {"create", "rename", "delete", "text"} /\ item.path \in Paths
          /\ item.kind = "rename" => item.to \in Paths
          /\ item.kind \in {"create", "rename"} => item.overwrite \in BOOLEAN /\ item.ignore \in BOOLEAN
          /\ item.kind = "delete" => item.recursive \in BOOLEAN /\ item.ignore \in BOOLEAN

-----------------------------------------------------------------------------
(* plan: the operations against the files as they will be at each step.     *)

\* Fault: what a planned rename moved away is still looked for on the disk.
FindStepUnmoved(change, r) ==
    IF r.found # "disk" THEN r
    ELSE CASE change.kind = "create" ->
                IF r.path = change.path THEN [r EXCEPT !.found = "created"] ELSE r
           [] change.kind = "delete" ->
                IF Within(r.path, change.path) THEN [r EXCEPT !.found = "missing"] ELSE r
           [] OTHER ->
                IF Within(r.path, change.to)
                THEN [r EXCEPT !.path = Moved(r.path, change.to, change.path)] ELSE r

\* Model::find, from the last change planned back to the first.
FindStep(change, r) ==
    IF r.found # "disk" THEN r
    ELSE CASE change.kind = "create" ->
                IF r.path = change.path THEN [r EXCEPT !.found = "created"] ELSE r
           [] change.kind = "delete" ->
                IF Within(r.path, change.path) THEN [r EXCEPT !.found = "missing"] ELSE r
           [] OTHER ->
                IF Within(r.path, change.to)
                THEN [r EXCEPT !.path = Moved(r.path, change.to, change.path)]
                ELSE IF Within(r.path, change.path) THEN [r EXCEPT !.found = "missing"] ELSE r

Found(changes, p) ==
    LET found[n \in 0..Len(changes)] ==
            IF n = 0 THEN [path |-> p, found |-> "disk"]
            ELSE FindStep(changes[Len(changes) + 1 - n], found[n - 1])
    IN found[Len(changes)]

\* Model::exists
Exists(d, changes, p) ==
    LET r == Found(changes, p)
    IN r.found = "created" \/ (r.found = "disk" /\ r.path \in DOMAIN d)

\* Model::is_directory_with_files
DirectoryWithFiles(d, changes, p) ==
    LET r == Found(changes, p)
    IN r.found = "disk" /\ r.path \in DOMAIN d /\ d[r.path].kind = "dir" /\ ~Empty(d, r.path)

Step(kind, p, to, position) == [kind |-> kind, path |-> p, to |-> to, position |-> position]

\* How many text changes come before item i.
Position(i) == Cardinality({j \in 1..(i - 1) : edit[j].kind = "text"})

\* refuse_unsaved
Unsaved(r, p) == \E open \in r.unsaved : Within(open, p)

\* Fault: unsaved changes are looked for under the names they were opened by.
UnsavedAsOpened(r, item) == r.unsaved

UnsavedAfter(r, item) == {Moved(p, item.path, item.to) : p \in r.unsaved}

Refuse(r) == [r EXCEPT !.refused = TRUE]
Adding(r, made) == [r EXCEPT !.steps = @ \o made]

\* An operation that makes target: over what is there with `overwrite`, and
\* without it `ignore` skips the operation.
Making(r, item, target, position, made) ==
    LET there == Exists(disk, r.steps, target)
        safe  == ~Unsaved(r, target)
    IN CASE ~there                              -> Adding(r, made)
         [] there /\ item.overwrite /\ safe      ->
              Adding(r, <<Step("delete", target, <<>>, position)>> \o made)
         [] there /\ item.overwrite /\ ~safe     -> Refuse(r)
         [] there /\ ~item.overwrite /\ item.ignore  -> r
         [] there /\ ~item.overwrite /\ ~item.ignore -> Refuse(r)

PlanCreate(r, item, position) ==
    Making(r, item, item.path, position, <<Step("create", item.path, <<>>, position)>>)

PlanRename(r, item, position) ==
    LET move == Step("rename", item.path, item.to, position)
        q    == Making(r, item, item.to, position, <<move>>)
    IN IF ~Exists(disk, r.steps, item.path) THEN Refuse(r)
       ELSE IF q.steps = r.steps THEN q ELSE [q EXCEPT !.unsaved = UnsavedAfter(r, item)]

PlanDelete(r, item, position) ==
    LET there == Exists(disk, r.steps, item.path)
        full  == ~item.recursive /\ DirectoryWithFiles(disk, r.steps, item.path)
    IN CASE ~there /\ item.ignore -> r
         [] (~there /\ ~item.ignore) \/ (there /\ (full \/ Unsaved(r, item.path))) -> Refuse(r)
         [] there /\ ~full /\ ~Unsaved(r, item.path) ->
              Adding(r, <<Step("delete", item.path, <<>>, position)>>)

PlanItem(r, i) ==
    IF r.refused THEN r
    ELSE CASE edit[i].kind = "text"   -> r
           [] edit[i].kind = "create" -> PlanCreate(r, edit[i], Position(i))
           [] edit[i].kind = "rename" -> PlanRename(r, edit[i], Position(i))
           [] edit[i].kind = "delete" -> PlanDelete(r, edit[i], Position(i))

Plan ==
    LET planned[i \in 0..Len(edit)] ==
            IF i = 0 THEN [refused |-> FALSE, steps |-> <<>>,
                           unsaved |-> {buf[b].path : b \in {c \in Bufs : buf[c].dirty}}]
            ELSE PlanItem(planned[i - 1], i)
    IN planned[Len(edit)]

\* Plan::follow; fault: the renames from the last to the first.
FollowStep(p, step) == IF step.kind = "rename" THEN Moved(p, step.path, step.to) ELSE p
FollowBackwards(all, p) == FoldRight(LAMBDA step, q : FollowStep(q, step), all, p)
Follow(all, p) ==
    LET at[n \in 0..Len(all)] == IF n = 0 THEN p ELSE FollowStep(at[n - 1], all[n])
    IN at[Len(all)]

\* Plan::destination: where the file a text change names ends up, or "gone".
Gone == <<>>
DestinationStep(p, step) ==
    CASE step.kind = "rename" /\ p # Gone -> Moved(p, step.path, step.to)
      [] step.kind = "delete" /\ p # Gone /\ Within(p, step.path) -> Gone
      [] OTHER -> p
Along(all, position, p) ==
    LET at[n \in 0..Len(all)] ==
            IF n = 0 THEN p
            ELSE IF all[n].position > position THEN DestinationStep(at[n - 1], all[n]) ELSE at[n - 1]
    IN at[Len(all)]
\* Fault: the steps before the change too.
DestinationOfAll(all, position, p) == Along(all, position - 1, p)
Destination(all, position, p) == Along(all, position, p)

-----------------------------------------------------------------------------
(* Taking a step, and taking it back.                                       *)

\* Done::parents: the directories a step needs and does not have.
Target(step) == IF step.kind = "rename" THEN step.to ELSE step.path
Missing(d, step) ==
    LET at    == Target(step)
        there == {k \in 0..(Len(at) - 1) : k = 0 \/ SubSeq(at, 1, k) \in DOMAIN d}
        last  == CHOOSE k \in there : \A j \in there : j <= k
    IN IF step.kind = "delete" THEN <<>>
       ELSE [k \in 1..(Len(at) - 1 - last) |-> SubSeq(at, 1, last + k)]
DirsMade(d, dirs) ==
    [p \in DOMAIN d \cup Range(dirs) |-> IF p \in DOMAIN d THEN d[p] ELSE Dir]
CanMakeDirs(d, dirs) == dirs # <<>> => IsDir(d, Parent(dirs[1]))

\* aside_for: a name of its own in the same directory.
AsideFor(p) == Append(Parent(p), Len(aside) + 1)

CanTake(d, step) ==
    CASE step.kind = "create" -> CanAdd(d, step.path)
      [] step.kind = "rename" -> CanRename(d, step.path, step.to)
      [] step.kind = "delete" -> step.path \in DOMAIN d

Taken(d, step) ==
    CASE step.kind = "create" -> With(d, step.path, File(<<"made", next>>, <<>>))
      [] step.kind = "rename" -> Renamed(d, step.path, step.to)
      [] step.kind = "delete" -> Renamed(d, step.path, AsideFor(step.path))

\* What undoes a directory made, and a step.
UndoDirs(dirs) == [i \in DOMAIN dirs |-> [kind |-> "rmdir", path |-> dirs[i], to |-> <<>>]]
UndoStep(step) ==
    CASE step.kind = "create" -> [kind |-> "rmfile", path |-> step.path, to |-> <<>>]
      [] step.kind = "rename" -> [kind |-> "rename", path |-> step.to, to |-> step.path]
      [] step.kind = "delete" -> [kind |-> "rename", path |-> AsideFor(step.path), to |-> step.path]

\* Done::undo, last first; one that will not go back stops none of the others.
UndoOne(u, d) ==
    CASE u.kind = "rmfile" /\ CanRemoveFile(d, u.path)     -> Without(d, u.path)
      [] u.kind = "rmdir" /\ CanRemoveDir(d, u.path)       -> Without(d, u.path)
      [] u.kind = "rename" /\ CanRename(d, u.path, u.to)   -> Renamed(d, u.path, u.to)
      [] OTHER -> d
\* Fault: first first.
UndoForwards(d, all) == FoldLeft(LAMBDA acc, u : UndoOne(u, acc), d, all)
Undone(d, all) ==
    LET back[n \in 0..Len(all)] ==
            IF n = 0 THEN d ELSE UndoOne(all[Len(all) + 1 - n], back[n - 1])
    IN back[Len(all)]

\* Done::finish; fault: it stops after the first.
FinishedFirst(d, gone) == IF gone = <<>> THEN d ELSE Without(d, gone[1])
Finished(d, gone) ==
    [p \in {q \in DOMAIN d : \A g \in Range(gone) : ~Within(q, g)} |-> d[p]]

-----------------------------------------------------------------------------
(* Which file or buffer a text change goes to.                              *)

NoPath == <<>>
Nobody == "nobody"
Holders(p) == {b \in Bufs : buf[b].path # NoPath /\ Follow(steps, buf[b].path) = p}
Taker(p) ==
    CASE Holders(p) = {}                            -> Nobody
      [] "here" \in Holders(p)                      -> "here"
      [] Holders(p) # {} /\ "here" \notin Holders(p) -> CHOOSE b \in Holders(p) : TRUE

To(i) == Destination(steps, Position(i), edit[i].path)

\* The changes buffer b takes, in order.
Changes(b) == SelectSeq([i \in DOMAIN edit |-> i],
                LAMBDA i : edit[i].kind = "text" /\ To(i) # Gone /\ b = Taker(To(i)))

\* The files that are not open, in the order their first change comes.
LoadItem(files, i) ==
    CASE edit[i].kind # "text" -> files
      [] edit[i].kind = "text" /\ (To(i) = Gone \/ Taker(To(i)) # Nobody) -> files
      [] OTHER ->
           IF \E n \in DOMAIN files : files[n].path = To(i)
           THEN [n \in DOMAIN files |-> IF files[n].path = To(i)
                                        THEN [files[n] EXCEPT !.text = Append(@, i)] ELSE files[n]]
           ELSE Append(files, [path |-> To(i), text |-> <<i>>])
ToLoad ==
    LET files[i \in 0..Len(edit)] == IF i = 0 THEN <<>> ELSE LoadItem(files[i - 1], i)
    IN files[Len(edit)]

\* TextBuffer::open: a file that is not there opens empty.
CanOpen(d, p) ==
    IF p \in DOMAIN d THEN d[p].kind = "file"
    ELSE \A q \in Prefixes(p) : q \in DOMAIN d => d[q].kind = "dir"
Opened(d, n) ==
    LET p == ToLoad[n].path IN IF p \in DOMAIN d THEN d[p] ELSE File(<<"opened", n>>, <<>>)

\* fs::write
CanWrite(d, p) == IF p \in DOMAIN d THEN d[p].kind = "file" ELSE IsDir(d, Parent(p))

-----------------------------------------------------------------------------

\* A buffer shows its file's text, and what was typed since.
Typed == <<0>>
NoBuffer == [path |-> NoPath, id |-> NoId, dirty |-> FALSE, text |-> <<>>]
Shown(p, dirty) == [path |-> p, id |-> disk[p].id, dirty |-> dirty,
                    text |-> disk[p].text \o IF dirty THEN Typed ELSE <<>>]

Init ==
    /\ pc = "plan"
    /\ \E case \in Cases :
          /\ disk = case.disk
          /\ edit \in UNION {[1..n -> case.items] : n \in 1..case.max}
    /\ disk0 = disk
    /\ steps = <<>> /\ next = 1 /\ undo = <<>> /\ aside = <<>> /\ loaded = <<>>
    /\ \E at \in [Bufs -> {NoPath} \cup {p \in DOMAIN disk : disk[p].kind = "file"}],
          dirty \in [Bufs -> Dirty] :
         /\ \A b, c \in Bufs : b # c /\ at[b] = at[c] => at[b] = NoPath
         /\ buf = [b \in Bufs |-> IF at[b] = NoPath THEN NoBuffer ELSE Shown(at[b], dirty[b])]
    /\ buf0 = buf

before == <<edit, disk0, buf0>>

\* Refused before anything was touched; taken back after a step that failed.
Refused == pc' = "refused"
TakenBack == pc' = "undone"
TakenBackTorn == pc' = "torn"

PlanEdit ==
    /\ pc = "plan"
    /\ IF Plan.refused
       THEN Refused /\ UNCHANGED steps
       ELSE pc' = "commit" /\ steps' = Plan.steps
    /\ UNCHANGED <<disk, next, undo, aside, loaded, buf, before>>

CommitStep ==
    /\ pc = "commit" /\ next <= Len(steps)
    /\ LET step == steps[next]
           dirs == Missing(disk, step)
           d    == DirsMade(disk, dirs)
       IN /\ CanMakeDirs(disk, dirs) /\ CanTake(d, step)
          /\ disk' = Taken(d, step)
          /\ undo' = undo \o UndoDirs(dirs) \o <<UndoStep(step)>>
          /\ aside' = IF step.kind = "delete" THEN Append(aside, AsideFor(step.path)) ELSE aside
    /\ next' = next + 1
    /\ UNCHANGED <<pc, steps, loaded, buf, before>>

\* The first step that fails, after k directories made for it, takes back all.
CommitFails ==
    /\ pc = "commit" /\ next <= Len(steps)
    /\ LET step == steps[next]
           dirs == Missing(disk, step)
       IN \E k \in 0..Len(dirs) :
            LET made == SubSeq(dirs, 1, k)
                d    == DirsMade(disk, made)
            IN /\ k > 0 => CanMakeDirs(disk, dirs)
               /\ \/ MayFail
                  \/ k < Len(dirs) /\ ~CanMakeDirs(disk, dirs)
                  \/ k = Len(dirs) /\ CanMakeDirs(disk, dirs) /\ ~CanTake(d, step)
               /\ disk' = Undone(d, undo \o UndoDirs(made))
    /\ TakenBack
    /\ UNCHANGED <<steps, next, undo, aside, loaded, buf, before>>

Load ==
    /\ pc = "commit" /\ next = Len(steps) + 1
    /\ \A n \in DOMAIN ToLoad : CanOpen(disk, ToLoad[n].path)
    /\ loaded' = [n \in DOMAIN ToLoad |->
                    LET file == Opened(disk, n)
                    IN [path |-> ToLoad[n].path, id |-> file.id, text |-> file.text \o ToLoad[n].text]]
    /\ pc' = "save" /\ next' = 1
    /\ UNCHANGED <<disk, steps, undo, aside, buf, before>>

LoadFails ==
    /\ pc = "commit" /\ next = Len(steps) + 1
    /\ \E n \in DOMAIN ToLoad : MayFail \/ ~CanOpen(disk, ToLoad[n].path)
    /\ disk' = Undone(disk, undo)
    /\ TakenBack
    /\ UNCHANGED <<steps, next, undo, aside, loaded, buf, before>>

Save ==
    /\ pc = "save" /\ next <= Len(loaded)
    /\ CanWrite(disk, loaded[next].path)
    /\ disk' = With(disk, loaded[next].path, File(loaded[next].id, loaded[next].text))
    /\ next' = next + 1
    /\ UNCHANGED <<pc, steps, undo, aside, loaded, buf, before>>

\* A file that cannot be written is untouched or, on a full disk, emptied.
Torn == LET file == loaded[next] IN With(disk, file.path, File(file.id, <<>>))
SaveFails ==
    /\ pc = "save" /\ next <= Len(loaded)
    /\ \E d \in {disk, Torn} :
         /\ \/ d = disk /\ (MayFail \/ ~CanWrite(disk, loaded[next].path))
            \/ d = Torn /\ DiskFull /\ CanWrite(disk, loaded[next].path)
         /\ IF next = 1
            THEN disk' = Undone(d, undo) /\ IF d = disk THEN TakenBack ELSE TakenBackTorn
            ELSE disk' = Finished(d, aside) /\ pc' = "partly"
    /\ UNCHANGED <<steps, next, undo, aside, loaded, buf, before>>

Finish ==
    /\ pc = "save" /\ next = Len(loaded) + 1
    /\ disk' = Finished(disk, aside)
    /\ buf' = [b \in Bufs |->
                 [buf[b] EXCEPT !.path = IF @ = NoPath THEN @ ELSE Follow(steps, @),
                                !.text = @ \o Changes(b),
                                !.dirty = @ \/ Changes(b) # <<>>]]
    /\ pc' = "done"
    /\ UNCHANGED <<steps, next, undo, aside, loaded, before>>

Ended == pc \in {"done", "refused", "undone", "torn", "partly"} /\ UNCHANGED vars

Next ==
    \/ PlanEdit
    \/ CommitStep \/ CommitFails
    \/ Load \/ LoadFails
    \/ Save \/ SaveFails
    \/ Finish
    \/ Ended

Spec == Init /\ [][Next]_vars

-----------------------------------------------------------------------------
(* What an edit means: its items one after the other, each on what the one  *)
(* one before it left, over the disk and what is typed and not saved.       *)

Shows(d, bs, p) ==
    LET open == {b \in Bufs : bs[b].path = p /\ bs[b].dirty}
    IN IF d[p].kind = "dir" \/ open = {} THEN d[p].text ELSE bs[CHOOSE b \in open : TRUE].text
View(d, bs) == [p \in DOMAIN d |-> [kind |-> d[p].kind, text |-> Shows(d, bs, p)]]

Parents(v, p) == {q \in Prefixes(p) \ {p, <<>>} : q \notin DOMAIN v}
WithParents(v, p) ==
    [q \in DOMAIN v \cup Parents(v, p) |->
        IF q \in DOMAIN v THEN v[q] ELSE [kind |-> "dir", text |-> <<>>]]
Cleared(v, p) == IF p \in DOMAIN v THEN Without(v, p) ELSE v

\* An item the disk will not take as it is then leaves no meaning: ok is FALSE.
\* So does one that names a directory the items before it made on the way, which
\* the plan does not know of (fileops.rs Model::exists, Done::parents).
Illegal(r) == [r EXCEPT !.ok = FALSE]
TargetOf(item) == IF item.kind = "rename" THEN item.to ELSE item.path
ReplayOver(r, item, next_) ==
    CASE TargetOf(item) \notin DOMAIN r.view \/ item.overwrite -> next_
      [] TargetOf(item) \in DOMAIN r.view /\ ~item.overwrite   -> IF item.ignore THEN r ELSE Illegal(r)

\* The view with room for the item at p, and what was made for it.
RoomFor(r, p) ==
    [r EXCEPT !.view = WithParents(Cleared(@, p), p), !.made = @ \cup Parents(Cleared(r.view, p), p)]

ReplayCreate(r, item) ==
    IF ~IsDir(RoomFor(r, item.path).view, Parent(item.path)) THEN Illegal(r)
    ELSE [RoomFor(r, item.path) EXCEPT !.view = With(@, item.path, [kind |-> "file", text |-> <<>>])]
ReplayRename(r, item) ==
    IF ~CanRename(RoomFor(r, item.to).view, item.path, item.to) THEN Illegal(r)
    ELSE [RoomFor(r, item.to) EXCEPT !.view = Renamed(@, item.path, item.to),
                                     !.made = {Moved(p, item.path, item.to) : p \in @}]

ReplayItem(r, i) ==
    LET item == edit[i]
        here == item.path \in DOMAIN r.view
    IN CASE ~r.ok -> r
         [] r.ok /\ {item.path, TargetOf(item)} \cap r.made # {} -> Illegal(r)
         [] OTHER ->
              CASE item.kind = "text" ->
                     IF here /\ r.view[item.path].kind = "file"
                     THEN [r EXCEPT !.view[item.path].text = Append(@, i)] ELSE Illegal(r)
                [] item.kind = "create" -> ReplayOver(r, item, ReplayCreate(r, item))
                [] item.kind = "rename" ->
                     IF here THEN ReplayOver(r, item, ReplayRename(r, item)) ELSE Illegal(r)
                [] item.kind = "delete" /\ ~here -> IF item.ignore THEN r ELSE Illegal(r)
                [] item.kind = "delete" /\ here ->
                     IF ~item.recursive /\ ~Empty(r.view, item.path) THEN Illegal(r)
                     ELSE [r EXCEPT !.view = Without(r.view, item.path)]

Replay == FoldLeftDomain(ReplayItem, [ok |-> TRUE, view |-> View(disk0, buf0), made |-> {}], edit)
\* The items can be done one after the other, and none names such a directory.
Meant == Replay.ok

-----------------------------------------------------------------------------
(* Properties.                                                              *)

\* Where the directories that commit made are now: undo remembers both them and
\* the renames after them.
MadeAfter(made, u) ==
    CASE u.kind = "rmdir"  -> made \cup {u.path}
      [] u.kind = "rename" -> {Moved(p, u.to, u.path) : p \in made}
      [] OTHER             -> made
Made(all) ==
    LET made[n \in 0..Len(all)] == IF n = 0 THEN {} ELSE MadeAfter(made[n - 1], all[n])
    IN made[Len(all)]
\* A rename took the place of one of them, which rename(2) does when it is empty.
Overran ==
    \E n \in DOMAIN undo : undo[n].kind = "rename" /\ undo[n].path \in Made(SubSeq(undo, 1, n - 1))

\* The disk stays a tree, with every file in one place.
TypeOK ==
    /\ pc \in {"plan", "commit", "save", "done", "refused", "undone", "torn", "partly"}
    /\ Tree(disk)
    /\ next \in 1..(Len(steps) + Len(loaded) + 1)
    /\ \A b \in Bufs :
          /\ buf[b].dirty \in BOOLEAN
          /\ buf[b].path # NoPath => buf[b].id # NoId

\* An edit that reports "nothing changed" changed nothing: no file, no
\* directory made on the way, no open buffer (repl.rs:8296, 8324, 8331, 8346).
\* A full disk that cut the first write short may have emptied that file, which
\* is all the harm when it was there before.
NothingChanged ==
    /\ pc \in {"refused", "undone", "torn"} => buf = buf0
    /\ pc = "refused" \/ (pc = "undone" /\ ~Overran) => disk = disk0
    /\ pc = "torn" /\ ~Overran /\ loaded[1].id[1] # "opened" =>
         /\ DOMAIN disk = DOMAIN disk0
         /\ \A p \in DOMAIN disk :
              \/ disk[p] = disk0[p]
              \/ disk[p] = File(loaded[1].id, <<>>) /\ disk0[p].id = loaded[1].id

\* Each check of the plan sees the disk its step will find: what the plan
\* says exists after the steps before is what exists, but for directories made
\* on the way (fileops.rs:4-5, 108).
PlannedDisk ==
    pc = "commit" =>
        \A item \in Range(edit) : \A p \in {item.path, TargetOf(item)} \ Made(undo) :
            Exists(disk0, SubSeq(steps, 1, next - 1), p) = (p \in DOMAIN disk)

\* What is under names a user gives.
Visible(v) == [p \in {q \in DOMAIN v : q \in Paths} |-> v[p]]

\* After an edit that went through, every file and open buffer shows what the
\* items give one by one in the order the server put them in: each text change
\* is in the file it was meant for, wherever that is now, and in nothing else
\* (repl.rs:8256-8260, 8301-8320).
EditedInOrder == pc = "done" /\ Meant => Visible(View(disk, buf)) = Replay.view

\* An edit whose items can be done one after the other, and which names no
\* directory it makes on the way, is refused only if it would take away what was
\* typed and not saved; and no step of its plan finds the disk against it
\* (fileops.rs:126-129).
RefusedForAReason ==
    Meant =>
        /\ pc = "refused" =>
             Cardinality({p \in DOMAIN Replay.view : Typed[1] \in Range(Replay.view[p].text)})
                 < Cardinality({b \in Bufs : buf0[b].dirty})
        /\ pc = "commit" /\ next <= Len(steps) =>
             LET dirs == Missing(disk, steps[next])
             IN CanMakeDirs(disk, dirs) /\ CanTake(DirsMade(disk, dirs), steps[next])
        /\ pc = "commit" /\ next > Len(steps) =>
             \A n \in DOMAIN ToLoad : CanOpen(disk, ToLoad[n].path)

\* A later rename took along the directory in which something was put aside at g.
TakenAlong(g) ==
    \E m, n \in DOMAIN undo :
        /\ m < n /\ undo[m].path = g
        /\ undo[n].kind = "rename" /\ undo[n].path \notin Range(aside) /\ Within(g, undo[n].to)

\* An edit that stays leaves nothing it set aside on the disk, unless the
\* directory it was in was renamed afterwards: finish looks where it was put
\* (fileops.rs:275-283).
DeletedForGood ==
    pc \in {"done", "partly"} =>
        \A p \in DOMAIN disk, k \in DOMAIN aside : k \in Range(p) => TakenAlong(aside[k])

\* No edit that stays removes a file with unsaved changes in a buffer, under
\* whatever name the edit got at it (fileops.rs:126-129).
UnsavedKept ==
    pc \in {"done", "partly"} =>
        \A b \in Bufs : buf0[b].dirty => Where(disk, buf0[b].id) # {}

InPlace == \A b \in Bufs : Where(disk, buf[b].id) \cap Paths \subseteq {buf[b].path}

\* An open buffer whose file a whole edit moved has moved with it, whatever
\* chain of renames took it there (repl.rs:8257-8259).
BuffersFollow == pc = "done" => InPlace
=============================================================================
