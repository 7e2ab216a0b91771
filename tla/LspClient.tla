------------------------------- MODULE LspClient -------------------------------
(***************************************************************************)
(* The language server client, lspclient.rs, and the editor's use of it,   *)
(* repl.rs: one server, the documents it is told about, the requests       *)
(* parked for a later tick to collect, and the child process at the other  *)
(* end of two pipes, which reads, answers, publishes and exits on its own. *)
(*                                                                         *)
(* A text is a value.  A change is the whole text, or a difference that is *)
(* only right for the text it was computed from.  Tokens and diagnostics   *)
(* are named by the text they describe.                                    *)
(***************************************************************************)
EXTENDS Integers, Sequences, FiniteSets, SequencesExt

CONSTANTS
    Files,          \* the files of one project
    Texts,          \* what a file may hold
    Incremental,    \* whether the server asks for differences
    MaxResponses,   \* MAX_PENDING_RESPONSES
    Bounds          \* bounds of a behaviour: the times each file is opened and its buffer
                    \* edited, the servers started, the answers waited for, the publications
                    \* and what may stand for their version, whether a request may be answered
                    \* by an error, the texts edits leave and the one every file starts with

Empty == "empty"
Garbled == "garbled"
NoText == "none"
Refused == "refused"
NoFile == "no file"
NoId == 0
Unknown == -1
\* Which opening of its file a text, question or publication is of (`life`), the
\* tokens a buffer shows were asked in (`asked`) and the diagnostics over it name
\* a version of (`drawn`; 0: none) is on record for the properties only.
Closed == [version |-> Unknown, text |-> NoText, spans |-> NoText, asked |-> 0, diags |-> NoText, drawn |-> 0]
NoDocument == [version |-> Unknown, sent |-> Empty, published |-> <<>>, unapplied |-> FALSE]
NotTold == [version |-> Unknown, text |-> NoText, due |-> FALSE, life |-> 0]
NotParked == [id |-> NoId, version |-> Unknown, life |-> 0]

ASSUME LspAssumption ==
    /\ Texts \cap {Garbled, NoText, Refused} = {} /\ NoFile \notin Files
    /\ Incremental \in BOOLEAN /\ MaxResponses \in Nat \ {0}
    /\ \A b \in Bounds :
        /\ {b.opens, b.edits} \subseteq [Files -> Nat] /\ b.texts \subseteq Texts /\ b.start \in Texts
        /\ {b.starts, b.asks, b.reports} \subseteq Nat /\ b.refuses \in BOOLEAN
        /\ b.unversioned \subseteq {Unknown}

VARIABLES
    at,         \* where the editor's one thread is
    front,      \* the file whose buffer is driven; NoFile: a shell pane
    buf,        \* the open buffers
    disk,       \* the files
    state,      \* Server::state; "none" and "failed": not in Table::servers
    documents,  \* Server::documents
    queued,     \* Server::queued
    responses,  \* Server::responses
    nextId,     \* Server::next_id
    parked,     \* SessionState::lsp_semantic
    applied,    \* SessionState::lsp_semantic_applied
    asking,     \* the id `ask_server` waits on
    up, down,   \* the server's stdin (what is owed to it too) and stdout
    alive,      \* whether the server process runs
    told,       \* what the process knows of each file
    owed,       \* requests it has read and not answered
    bound,      \* the member of Bounds that applies, and what counts towards it
    opens, starts, asks, reports

editor == <<at, front, buf, disk>>
client == <<state, documents, queued, responses, nextId>>
session == <<parked, applied, asking>>
process == <<alive, told, owed>>
counts == <<bound, opens, starts, asks, reports>>
vars == <<editor, client, session, up, down, process, counts>>

Init ==
    /\ at = "keys" /\ front = NoFile
    /\ buf = [f \in Files |-> Closed]
    /\ bound \in Bounds
    /\ disk = [f \in Files |-> bound.start]
    /\ state = "none" /\ nextId = 1
    /\ documents = [f \in Files |-> NoDocument]
    /\ queued = <<>> /\ responses = <<>> /\ up = <<>> /\ down = <<>>
    /\ parked = [f \in Files |-> NotParked]
    /\ applied = [f \in Files |-> Unknown]
    /\ asking = NoId
    /\ alive = FALSE /\ owed = {}
    /\ told = [f \in Files |-> NotTold]
    /\ opens = [f \in Files |-> 0] /\ starts = 0 /\ asks = 0 /\ reports = 0

Running == state \in {"initializing", "ready", "dead"}
Known(f) == documents[f].version # Unknown
Has(s, id) == \E i \in 1..Len(s) : s[i].id = id
\* The position of the first answer to a request.
At(s, id) == CHOOSE i \in 1..Len(s) : s[i].id = id /\ \A k \in 1..(i - 1) : s[k].id # id
Without(s, id) == IF Has(s, id) THEN RemoveAt(s, At(s, id)) ELSE s

-----------------------------------------------------------------------------
(* Server: what it is told of documents.  Before the handshake messages are
   held; a dead server gets none, and what is written to one that has exited
   is dropped (flush_outgoing). *)
Send(messages) ==
    /\ queued' = IF state = "initializing" THEN queued \o messages ELSE queued
    /\ up' = IF state = "ready" /\ alive THEN up \o messages ELSE up

\* The full sync assumed until the server has described itself.
UsesDifferences == Incremental /\ state # "initializing"

OpenMessage(f, b) ==
    [type |-> "didOpen", file |-> f, version |-> b.version, text |-> b.text, life |-> opens[f] + 1]
Whole(f, b) ==
    [type |-> "didChange", file |-> f, version |-> b.version, base |-> NoText, text |-> b.text, life |-> opens[f]]
\* What a change says: nothing when no line differs, the whole text when there
\* is nothing to differ from.
Changes(f, b) ==
    LET sent == documents[f].sent IN
    CASE ~UsesDifferences \/ (sent = Empty /\ b.text # Empty) -> <<Whole(f, b)>>
      [] UsesDifferences /\ sent = b.text -> <<>>
      [] OTHER -> <<[Whole(f, b) EXCEPT !.base = sent]>>
SentOf(b) == IF UsesDifferences THEN b.text ELSE Empty
Changed(f, b) == [documents EXCEPT ![f].version = b.version, ![f].sent = SentOf(b)]

ChangeDocument(f) ==
    IF Known(f) /\ documents[f].version # buf[f].version
    THEN /\ documents' = Changed(f, buf[f])
         /\ Send(Changes(f, buf[f]))
    ELSE UNCHANGED <<documents, queued, up>>

-----------------------------------------------------------------------------
(* The user, between two idle ticks. *)
AtKeys == at = "keys"

\* The buffer is new: its versions start again.
Opened(f) == [Closed EXCEPT !.version = 0, !.text = disk[f]]
\* get_or_start finds no server and starts one: `initialize` is written at once.
StartServer(f) ==
    /\ state = "none" /\ starts < bound.starts
    /\ state' = "initializing" /\ alive' = TRUE
    /\ documents' = [documents EXCEPT ![f] = [NoDocument EXCEPT !.version = 0]]
    /\ queued' = <<OpenMessage(f, Opened(f))>>
    /\ up' = <<[type |-> "initialize", id |-> 1, file |-> NoFile]>>
    /\ nextId' = 2
    /\ starts' = starts + 1
\* The command cannot be run; it is not tried again.
StartFails ==
    /\ state = "none" /\ starts < bound.starts
    /\ state' = "failed"
    /\ starts' = starts + 1
    /\ UNCHANGED <<alive, documents, queued, up, nextId>>
UseServer(f) ==
    /\ Running
    /\ documents' = [documents EXCEPT ![f] =
           [NoDocument EXCEPT !.version = 0, !.sent = SentOf(Opened(f))]]
    /\ Send(<<OpenMessage(f, Opened(f))>>)
    /\ UNCHANGED <<state, alive, nextId, starts>>
NoServer == state = "failed" /\ UNCHANGED <<state, alive, documents, queued, up, nextId, starts>>

Open(f) ==
    /\ AtKeys /\ front = NoFile /\ buf[f] = Closed /\ opens[f] < bound.opens[f]
    /\ front' = f
    /\ buf' = [buf EXCEPT ![f] = Opened(f)]
    /\ opens' = [opens EXCEPT ![f] = @ + 1]
    /\ StartServer(f) \/ StartFails \/ UseServer(f) \/ NoServer
    /\ UNCHANGED <<at, disk, responses, session, down, told, owed, bound, asks, reports>>

\* Any edit, undo and `:e!` among them; diagnostics go with the text they were
\* about, the painted tokens stay.
Edit(f, text) ==
    /\ AtKeys /\ front = f /\ buf[f].version < bound.edits[f] /\ text \in bound.texts
    /\ buf' = [buf EXCEPT ![f].version = @ + 1, ![f].text = text, ![f].diags = NoText, ![f].drawn = 0]
    /\ UNCHANGED <<at, front, disk, client, session, up, down, process, counts>>

\* `:w`: with unsent edits behind it a save would be about a text not sent.
Save(f) ==
    /\ AtKeys /\ front = f /\ disk[f] # buf[f].text
    /\ disk' = [disk EXCEPT ![f] = buf[f].text]
    /\ IF Running THEN ChangeDocument(f) ELSE UNCHANGED <<documents, queued, up>>
    /\ UNCHANGED <<at, front, buf, state, responses, nextId, session, down, process, counts>>

Close(f) ==
    /\ AtKeys /\ front = f
    /\ front' = NoFile
    /\ buf' = [buf EXCEPT ![f] = Closed]
    /\ IF Running /\ Known(f)
       THEN /\ documents' = [documents EXCEPT ![f] = NoDocument]
            /\ Send(<<[type |-> "didClose", file |-> f]>>)
       ELSE UNCHANGED <<documents, queued, up>>
    /\ UNCHANGED <<at, disk, state, responses, nextId, session, down, process, counts>>

SwitchPane(f) ==
    /\ AtKeys /\ front # f
    /\ f # NoFile => buf[f] # Closed
    /\ front' = f
    /\ UNCHANGED <<at, buf, disk, client, session, up, down, process, counts>>

\* `:diag`: the server's last publication is to be applied again.
Diagnose(f) ==
    /\ AtKeys /\ front = f /\ Running
    /\ documents' = [documents EXCEPT ![f].unapplied = documents[f].published # <<>>]
    /\ UNCHANGED <<editor, state, queued, responses, nextId, session, up, down, process, counts>>

\* `:diag clear`.
ClearDiagnostics(f) ==
    /\ AtKeys /\ front = f /\ buf[f].diags # NoText
    /\ buf' = [buf EXCEPT ![f].diags = NoText, ![f].drawn = 0]
    /\ UNCHANGED <<at, front, disk, client, session, up, down, process, counts>>

\* ask_server, after a flush when the question is about the key just typed.
Ask(f, flush) ==
    /\ AtKeys /\ front = f /\ state = "ready" /\ asks < bound.asks
    /\ LET flushed == flush /\ Known(f) /\ documents[f].version # buf[f].version
           question == <<[type |-> "ask", id |-> nextId, file |-> NoFile]>> IN
       /\ documents' = IF flushed THEN Changed(f, buf[f]) ELSE documents
       /\ Send((IF flushed THEN Changes(f, buf[f]) ELSE <<>>) \o question)
    /\ asking' = nextId /\ nextId' = nextId + 1
    /\ at' = "service"
    /\ asks' = asks + 1
    /\ UNCHANGED <<front, buf, disk, state, responses, parked, applied, down, process, bound, opens, starts, reports>>

\* `::bish lsp restart`, typed in a shell pane: the server is stopped and
\* forgotten, and the next file opened starts another.
Restart ==
    /\ AtKeys /\ front = NoFile /\ (Running \/ state = "failed")
    /\ state' = "none" /\ alive' = FALSE
    /\ documents' = [f \in Files |-> NoDocument]
    /\ told' = [f \in Files |-> NotTold] /\ owed' = {}
    /\ queued' = <<>> /\ responses' = <<>> /\ up' = <<>> /\ down' = <<>>
    /\ nextId' = 1
    /\ UNCHANGED <<editor, session, counts>>

-----------------------------------------------------------------------------
(* Server::service, one message at a time. *)
BeginTick ==
    /\ AtKeys
    /\ at' = "service"
    /\ UNCHANGED <<front, buf, disk, client, session, up, down, process, counts>>

\* The exit is found, or stdout or stdin found closed: what was owed is dropped.
FindDead ==
    /\ at = "service" /\ ~alive /\ state \in {"initializing", "ready"}
    /\ state' = "dead"
    /\ queued' = <<>> /\ up' = <<>>
    /\ UNCHANGED <<editor, documents, responses, nextId, session, down, process, counts>>

\* A fault: answers nobody collects stay.
KeptAll(r) == Append(responses, r)
\* Answers nobody has collected are bounded: the oldest goes.
Kept(r) == Append(IF Len(responses) >= MaxResponses THEN Tail(responses) ELSE responses, r)

\* The answer to `initialize` releases what was held.
\* A fault: what is held goes in the order of a stack.
ReleasedBackwards == up \o Reverse(queued)
Released == up \o queued
Handshake(m) == m.type = "response" /\ m.id = 1 /\ state = "initializing"
Initialized(m) ==
    /\ Handshake(m) /\ m.about # Refused
    /\ state' = "ready"
    /\ up' = Released
    /\ queued' = <<>>
    /\ UNCHANGED <<documents, responses, alive>>
\* An error: the process lives on, is told nothing and not listened to: as good
\* as gone.
NotInitialized(m) ==
    /\ Handshake(m) /\ m.about = Refused
    /\ state' = "dead" /\ alive' = FALSE
    /\ queued' = <<>> /\ up' = <<>>
    /\ UNCHANGED <<documents, responses>>
Answered(m) ==
    /\ m.type = "response" /\ ~Handshake(m)
    /\ responses' = Kept(m)
    /\ UNCHANGED <<state, documents, queued, up, alive>>
Published(m) ==
    /\ m.type = "publish"
    /\ documents' = IF Known(m.file)
                    THEN [documents EXCEPT ![m.file].published = <<m>>, ![m.file].unapplied = TRUE]
                    ELSE documents
    /\ UNCHANGED <<state, responses, queued, up, alive>>
Handle ==
    /\ at = "service" /\ down # <<>> /\ Running
    /\ LET m == Head(down) IN Initialized(m) \/ NotInitialized(m) \/ Answered(m) \/ Published(m)
    /\ down' = Tail(down)
    /\ UNCHANGED <<editor, nextId, session, told, owed, counts>>

EndService ==
    /\ at = "service" /\ down = <<>> /\ asking = NoId
    /\ at' = IF front = NoFile THEN "keys" ELSE "sync"
    /\ UNCHANGED <<front, buf, disk, client, session, up, down, process, counts>>

\* ask_server collects its answer, or stops at the deadline or the next key.
AskEnds ==
    /\ at = "service" /\ asking # NoId
    /\ responses' = Without(responses, asking)
    /\ asking' = NoId
    /\ at' = "keys"
    /\ UNCHANGED <<front, buf, disk, state, documents, queued, nextId, parked, applied,
                   up, down, process, counts>>

-----------------------------------------------------------------------------
(* The rest of an idle tick of the buffer in front. *)
\* A fault: only a buffer with unsaved changes has something to tell.
NeedsChangeIfDirty ==
    /\ Running /\ Known(front) /\ documents[front].version # buf[front].version
    /\ disk[front] # buf[front].text
NeedsChange == Running /\ Known(front) /\ documents[front].version # buf[front].version

\* sync_language_server_document, once the debounce is over.
SyncDocument ==
    /\ at = "sync" /\ NeedsChange
    /\ ChangeDocument(front)
    /\ at' = "diagnostics"
    /\ UNCHANGED <<front, buf, disk, state, responses, nextId, session, down, process, counts>>
\* Nothing to tell, or not settled yet.
SyncWaits ==
    /\ at = "sync"
    /\ at' = "diagnostics"
    /\ UNCHANGED <<front, buf, disk, client, session, up, down, process, counts>>

\* A fault: every publication is taken at its word.
TakenAnyway(p, b) == TRUE
\* One that names a version is for that version.
AboutThis(p, b) == p.version \in {Unknown, b.version}
Redrawn(p) == [buf EXCEPT ![front].diags = p.text, ![front].drawn = IF p.version = Unknown THEN 0 ELSE p.life]
ApplyDiagnostics ==
    /\ at = "diagnostics"
    /\ at' = "tokens"
    /\ IF ~Running \/ state = "dead"
       THEN /\ buf' = [buf EXCEPT ![front].diags = NoText, ![front].drawn = 0]
            /\ UNCHANGED documents
       ELSE LET d == documents[front] IN
            /\ documents' = [documents EXCEPT ![front].unapplied = FALSE]
            /\ buf' = IF d.unapplied /\ AboutThis(d.published[1], buf[front]) THEN Redrawn(d.published[1]) ELSE buf
    /\ UNCHANGED <<front, disk, state, queued, responses, nextId, session, up, down, process, counts>>

(* sync_semantic_tokens: an answer there is collected, else one may be asked. *)
\* A fault: a question about an older version does not count.
ParkedForThis == parked[front].id # NoId /\ parked[front].version = buf[front].version
Parked == parked[front].id # NoId
Forgotten == [parked EXCEPT ![front] = NotParked]

TokensForgotten ==
    /\ Parked /\ ~Running
    /\ parked' = Forgotten
    /\ UNCHANGED <<buf, applied, responses, queued, up, nextId>>
TokensAwaited ==
    /\ Parked /\ Running /\ ~Has(responses, parked[front].id)
    /\ UNCHANGED <<buf, parked, applied, responses, queued, up, nextId>>
\* An error is no tokens, and on record as painted like any answer.
TokensCollected ==
    /\ Parked /\ Running /\ Has(responses, parked[front].id)
    /\ responses' = Without(responses, parked[front].id)
    /\ parked' = Forgotten
    /\ IF parked[front].version = buf[front].version
       THEN /\ applied' = [applied EXCEPT ![front] = buf[front].version]
            /\ buf' = [buf EXCEPT ![front].spans = responses[At(responses, parked[front].id)].about,
                                  ![front].asked = parked[front].life]
       ELSE UNCHANGED <<applied, buf>>
    /\ UNCHANGED <<queued, up, nextId>>
\* A fault: the server is asked about a text it may not have been told of.
WorthAskingEarly ==
    /\ ~Parked /\ applied[front] # buf[front].version /\ state = "ready" /\ Known(front)
WorthAsking ==
    /\ ~Parked /\ applied[front] # buf[front].version /\ state = "ready"
    /\ documents[front].version = buf[front].version
ParkedNow == [parked EXCEPT ![front] = [id |-> nextId, version |-> buf[front].version, life |-> opens[front]]]
TokensAsked ==
    /\ WorthAsking
    /\ parked' = ParkedNow
    /\ Send(<<[type |-> "tokens", id |-> nextId, file |-> front]>>)
    /\ nextId' = nextId + 1
    /\ UNCHANGED <<buf, applied, responses>>
TokensSettled ==
    /\ ~Parked /\ ~WorthAsking
    /\ UNCHANGED <<buf, parked, applied, responses, queued, up, nextId>>

SyncTokens ==
    /\ at = "tokens"
    /\ at' = "keys"
    /\ TokensForgotten \/ TokensAwaited \/ TokensCollected \/ TokensAsked \/ TokensSettled
    /\ UNCHANGED <<front, disk, state, documents, asking, down, process, counts>>

-----------------------------------------------------------------------------
(* The server process.  It shares only the pipes with the editor, and the
   rest of a tick only writes to them: its steps are taken before a tick or
   after it, or while the editor waits for an answer. *)
Beside == alive /\ (AtKeys \/ asking # NoId)

\* What a file is to the server once it has read a message.
Heard(t, m) ==
    CASE m.type = "didOpen" -> [version |-> m.version, text |-> m.text, due |-> TRUE, life |-> m.life]
      [] m.type = "didClose" -> NotTold
      [] OTHER -> [version |-> m.version, due |-> TRUE, life |-> m.life,
                   text |-> IF t.version # Unknown /\ m.base \in {NoText, t.text} THEN m.text ELSE Garbled]
About(m) == IF m.type = "tokens" THEN told[m.file].text ELSE NoText
Reply(m) == [type |-> "response", id |-> m.id, file |-> m.file, about |-> About(m)]
Question(m) == m.type \in {"initialize", "ask", "tokens"}

Read ==
    /\ Beside /\ up # <<>>
    /\ up' = Tail(up)
    /\ LET m == Head(up) IN
       IF Question(m)
       THEN owed' = owed \cup {Reply(m)} /\ UNCHANGED told
       ELSE told' = [told EXCEPT ![m.file] = Heard(@, m)] /\ UNCHANGED owed
    /\ UNCHANGED <<editor, client, session, down, alive, counts>>

\* Answers come in any order, some of them errors.
Answer(r) ==
    /\ Beside
    /\ owed' = owed \ {r}
    /\ \/ down' = Append(down, r)
       \/ bound.refuses /\ down' = Append(down, [r EXCEPT !.about = Refused])
    /\ UNCHANGED <<editor, client, session, up, alive, told, counts>>

\* The version is optional.
Publication(f, version) ==
    [type |-> "publish", file |-> f, version |-> version, text |-> told[f].text, life |-> told[f].life]
Publish(f) ==
    /\ Beside /\ told[f].due /\ reports < bound.reports
    /\ reports' = reports + 1
    /\ \E version \in {told[f].version} \cup bound.unversioned : down' = Append(down, Publication(f, version))
    /\ told' = [told EXCEPT ![f].due = FALSE]
    /\ UNCHANGED <<editor, client, session, up, alive, owed, bound, opens, starts, asks>>

Exit ==
    /\ Beside
    /\ alive' = FALSE
    /\ told' = [f \in Files |-> NotTold] /\ owed' = {} /\ up' = <<>>
    /\ UNCHANGED <<editor, client, session, down, counts>>

-----------------------------------------------------------------------------
Tick == BeginTick \/ FindDead \/ Handle \/ EndService \/ AskEnds
            \/ SyncDocument \/ SyncWaits \/ ApplyDiagnostics \/ SyncTokens
Keys ==
    \/ \E f \in Files : Open(f) \/ Save(f) \/ Close(f) \/ Diagnose(f) \/ ClearDiagnostics(f)
    \/ \E f \in Files, text \in Texts : Edit(f, text)
    \/ \E f \in Files, flush \in BOOLEAN : Ask(f, flush)
    \/ \E f \in Files \cup {NoFile} : SwitchPane(f)
    \/ Restart
Process == Read \/ Exit \/ (\E r \in owed : Answer(r)) \/ (\E f \in Files : Publish(f))

Next == Tick \/ Keys \/ Process

Spec == Init /\ [][Next]_vars
\* The idle callback runs whenever no key waits; the debounce and the deadline
\* are times; the server reads and answers, at its own pace (strong, as its steps
\* are taken between those of a tick).
FairSpec ==
    /\ Spec
    /\ WF_vars(Tick) /\ WF_vars(Handle) /\ WF_vars(AskEnds) /\ SF_vars(SyncDocument)
    /\ SF_vars(Read) /\ SF_vars(\E r \in owed : Answer(r))

-----------------------------------------------------------------------------
(* Properties. *)

\* Every variable keeps the shape lspclient.rs and repl.rs give it, answers
\* are bounded, ids are below the next, and no message waits for a handshake
\* that is over.
TypeOK ==
    /\ at \in {"keys", "service", "sync", "diagnostics", "tokens"}
    /\ front \in Files \cup {NoFile} /\ (front # NoFile => buf[front] # Closed)
    /\ state \in {"none", "failed", "initializing", "ready", "dead"}
    /\ \A f \in Files :
        /\ buf[f].version \in Unknown..bound.edits[f] /\ disk[f] \in Texts
        /\ documents[f].version \in Unknown..bound.edits[f] /\ documents[f].sent \in Texts \cup {Empty}
        /\ applied[f] \in Unknown..bound.edits[f] /\ parked[f].version \in Unknown..bound.edits[f]
    /\ Len(responses) <= MaxResponses
    /\ queued # <<>> => state = "initializing"
    /\ \A r \in owed \cup ToSet(responses) : r.id < nextId
    /\ asking # NoId => at = "service"

\* What the server that took a file for t takes it for after n of the messages q.
HeardOf(t, f, q, n) ==
    LET heard[k \in 0..Len(q)] ==
            IF k = 0 THEN t
            ELSE IF ~Question(q[k]) /\ q[k].file = f THEN Heard(heard[k - 1], q[k]) ELSE heard[k - 1]
    IN heard[n]

\* What it will take it for once everything sent has been read.
OnItsWay == up \o queued
Arriving(f) == HeardOf(told[f], f, OnItsWay, Len(OnItsWay))

\* An emptied buffer of a server that asks for differences: a document opened
\* before the handshake has no text on record, and nothing differs from it.
Unsaid(f) == Incremental /\ buf[f].text = Empty

\* When the client takes the server to know the text of a buffer (its version
\* is the one last sent), the messages held, written and unread leave the
\* server with exactly that text, whichever of them were differences, held
\* over the handshake or sent after a close and a reopening: what an answer is
\* about (known_version, change_document, open_document).
InSync ==
    \A f \in Files :
        buf[f] # Closed /\ alive /\ state \in {"initializing", "ready"}
            /\ documents[f].version = buf[f].version /\ ~Unsaid(f)
        => Arriving(f).text = buf[f].text

Painted(f) == buf[f] # Closed /\ applied[f] = buf[f].version

\* The tokens painted for a version describe the text of that version,
\* although they were asked for ticks ago, the buffer was edited, flushed,
\* saved and left for another since, and answers come in any order, unless the
\* answer was an error.  Left out are tokens asked for before the buffer was
\* closed and opened again, which its versions do not tell from its own, and a
\* buffer the server was restarted under and does not know
\* (sync_semantic_tokens).
TokensTrue ==
    \A f \in Files :
        Painted(f) /\ Known(f) /\ buf[f].asked = opens[f] /\ ~Unsaid(f) => buf[f].spans \in {buf[f].text, Refused}

\* The diagnostics drawn are about the text they are drawn over, however late
\* a publication comes and however often it is applied again, over edits,
\* restarts, closing and reopening.  Left out are a publication that names no
\* version, taken at its word, and one that names a version of before the
\* buffer was closed and opened again, when versions start again
\* (apply_language_server_diagnostics, content_changed, redeliver_diagnostics).
DiagnosticsTrue ==
    \A f \in Files :
        buf[f] # Closed /\ buf[f].diags # NoText /\ buf[f].drawn = opens[f] => buf[f].diags = buf[f].text

\* A slow server is not piled with questions: the requests for a file's tokens
\* that are unread, unanswered or uncollected are the one that is parked for
\* it, over edits, closing and reopening ("Asking once per document",
\* sync_semantic_tokens).
AskedOnce ==
    \A m \in ToSet(up) \cup owed \cup ToSet(down) \cup ToSet(responses) :
        m.type \in {"tokens", "response"} /\ m.file # NoFile => m.id = parked[m.file].id

\* The tokens of its text.
Shown(f) == Painted(f) /\ buf[f].asked = opens[f] /\ (buf[f].spans = buf[f].text \/ Unsaid(f))
\* What is on record as painted, or the question whose answer is shown, is of the
\* buffer that was closed: see PaintedShown.
Outlived(f) == Painted(f) /\ buf[f].asked # opens[f]
\* A parked request whose answer was thrown away with the oldest, or was for a
\* server restarted since.
Lost(f) ==
    /\ parked[f].id # NoId
    /\ \A m \in owed \cup ToSet(up) \cup ToSet(down) \cup ToSet(responses) :
          m.type = "response" \/ Question(m) => m.id # parked[f].id

\* A buffer left in front of a server that runs and knows it gets, after its
\* last edit, the tokens of the text it ends with and keeps them, with these
\* exceptions: the answer was an error, which is not asked again (7701); the
\* record of the buffer's last life says painted; the answer parked for it is
\* lost (needs_change, known_version, take_response, service).
Coloured ==
    \A f \in Files :
        <>[](front = f /\ alive /\ Known(f)) =>
            []<>(front = f /\ (Shown(f) \/ (Painted(f) /\ buf[f].spans = Refused) \/ Outlived(f) \/ Lost(f)))

\* The version on record as painted is one whose tokens this buffer shows:
\* lsp_semantic_applied is "The buffer version whose tokens are painted, per
\* uri, so an unchanged buffer isn't asked about again".
PaintedShown == \A f \in Files : Painted(f) => buf[f].spans # NoText
=============================================================================
