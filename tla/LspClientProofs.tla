----------------------------- MODULE LspClientProofs -----------------------------
(***************************************************************************)
(* What LspClient promises, for any files, texts and bounds: the server     *)
(* knows the text the client takes it to know, is asked once, and what is   *)
(* painted and drawn is about the text it is painted and drawn on.          *)
(***************************************************************************)
EXTENDS LspClient, ListFacts

-----------------------------------------------------------------------------
(* The inductive invariant: types. *)

Versions == Nat \cup {Unknown}
Said == Texts \cup {Empty}
Taken == Texts \cup {NoText, Garbled, Refused}

Questions ==
    [type : {"initialize", "ask"}, id : Nat \ {0}, file : {NoFile}] \cup [type : {"tokens"}, id : Nat \ {0}, file : Files]
Openings == [type : {"didOpen"}, file : Files, version : Nat, text : Texts, life : Nat]
Alterations ==
    [type : {"didChange"}, file : Files, version : Nat, base : Said \cup {NoText}, text : Texts, life : Nat]
Closings == [type : {"didClose"}, file : Files]
Notes == Openings \cup Alterations \cup Closings
Replies == [type : {"response"}, id : Nat \ {0}, file : Files \cup {NoFile}, about : Taken]
Publications == [type : {"publish"}, file : Files, version : Versions, text : Taken, life : Nat]

Buffers ==
    [version : Versions, text : Texts \cup {NoText}, spans : Taken, asked : Nat, diags : Taken, drawn : Nat]
Documents == [version : Versions, sent : Said, published : Seq(Publications), unapplied : BOOLEAN]
Views == [version : Versions, text : Taken, due : BOOLEAN, life : Nat]
Requests == [id : Nat, version : Versions, life : Nat]

TypeInv ==
    /\ at \in {"keys", "service", "sync", "diagnostics", "tokens"}
    /\ front \in Files \cup {NoFile}
    /\ buf \in [Files -> Buffers] /\ disk \in [Files -> Texts]
    /\ state \in {"none", "failed", "initializing", "ready", "dead"}
    /\ documents \in [Files -> Documents]
    /\ queued \in Seq(Notes) /\ up \in Seq(Questions \cup Notes)
    /\ responses \in Seq(Replies) /\ down \in Seq(Replies \cup Publications)
    /\ owed \in SUBSET Replies
    /\ nextId \in Nat \ {0} /\ parked \in [Files -> Requests] /\ applied \in [Files -> Versions]
    /\ asking \in Nat /\ alive \in BOOLEAN /\ told \in [Files -> Views]
    /\ bound \in Bounds /\ opens \in [Files -> Nat]

-----------------------------------------------------------------------------
(* The inductive invariant: the rest, of what the state is made of. *)

Live == {"initializing", "ready", "dead"}

\* A process is one the client talks to; only before the handshake is anything
\* held; without a server there is nothing on the pipes.
ClientShape(s, al, q, u, d, r, o, t) ==
    /\ al => s \in {"initializing", "ready"}
    /\ q # <<>> => s = "initializing"
    /\ s \in {"none", "failed"} =>
           u = <<>> /\ d = <<>> /\ r = <<>> /\ o = {} /\ \A f \in Files : t[f] = NotTold
    /\ Len(r) <= MaxResponses
EditorShape(a, fr, b, k) ==
    /\ fr # NoFile => b[fr] # Closed
    /\ a \in {"sync", "diagnostics", "tokens"} => fr # NoFile
    /\ k # NoId => a = "service"

\* A file's versions: what is on record is not ahead of the buffer.
Held(b, d, ap, pk, limit, s) ==
    /\ b # Closed => b.version \in 0..limit /\ b.text \in Texts
    /\ d.version # Unknown => s \in Live /\ b # Closed /\ d.version <= b.version
    /\ ap <= limit /\ pk.version <= limit

\* Every id is below the next, and no two messages share one: questions on their
\* way w, owed o, on the pipe d or kept r.
Asks(m) == m.type \in {"initialize", "ask", "tokens", "response"}
Ids(S) == {m.id : m \in {x \in S : Asks(x)}}
Apart(q) == \A i, k \in 1..Len(q) : Asks(q[i]) /\ Asks(q[k]) /\ q[i].id = q[k].id => i = k
OnePer(S) == \A r, s \in S : r.id = s.id => r = s
IdsApart(w, o, d, r, n) ==
    /\ Ids(ToSet(w)) \cup Ids(o) \cup Ids(ToSet(d)) \cup Ids(ToSet(r)) \subseteq 1..(n - 1)
    /\ Ids(ToSet(w)) \cap (Ids(o) \cup Ids(ToSet(d)) \cup Ids(ToSet(r))) = {}
    /\ Ids(o) \cap (Ids(ToSet(d)) \cup Ids(ToSet(r))) = {}
    /\ Ids(ToSet(d)) \cap Ids(ToSet(r)) = {}
    /\ Apart(w) /\ Apart(d) /\ Apart(r) /\ OnePer(o)

\* AskedOnce, of the messages S.
Asked(S, pk) ==
    \A m \in S : m.type \in {"tokens", "response"} /\ m.file # NoFile => m.id = pk[m.file].id

\* The messages w do not lose a server that takes the file f for t, and it ends with
\* the text on record: of a document d of the buffer b.
Differs(b) == ~(Incremental /\ b.text = Empty)
NeverLost(f, t, w) == \A n \in 0..Len(w) : HeardOf(t, f, w, n).text # Garbled
EndsWith(d, b, h) ==
    d.version # Unknown =>
        /\ h.version # Unknown
        /\ d.sent # Empty => h.text = d.sent
        /\ d.version = b.version /\ Differs(b) => h.text = b.text
InStep(f, d, b, t, w) == NeverLost(f, t, w) /\ EndsWith(d, b, HeardOf(t, f, w, Len(w)))

\* What is said of the version v in the life l of a buffer b, opened o times.
Fits(v, x, l, o, b) ==
    /\ l <= o
    /\ b # Closed /\ l = o /\ v # Unknown => v <= b.version /\ (v = b.version => x = b.text)
Fitting(S, f, o, b) ==
    \A m \in S : m.type \in {"didOpen", "didChange", "publish"} /\ m.file = f => Fits(m.version, m.text, m.life, o, b)
Fit(f, o, b, d, t, S) ==
    /\ Fitting(S, f, o, b) /\ Fitting(ToSet(d.published), f, o, b)
    /\ \A i \in 1..Len(d.published) : d.published[i].file = f
    /\ d.unapplied => d.published # <<>>
    /\ t.due => Fits(t.version, t.text, t.life, o, b)
    /\ b # Closed /\ b.diags # NoText /\ b.drawn = o => b.diags = b.text

\* A question asked in the life l of a buffer b, opened o times, is of this life of
\* it, and the server the one that knows it.
Own(l, o, b, d) == l = o /\ b # Closed /\ d.version # Unknown
\* Tokens of the version ap painted, and the request pk parked.
Paints(o, pk, ap, b, d, next) ==
    /\ o = 0 => b = Closed
    /\ pk.life <= o
    /\ Own(pk.life, o, b, d) => pk.id < next /\ pk.version <= b.version
    /\ Own(b.asked, o, b, d) => ap <= b.version /\ (Differs(b) /\ ap = b.version => b.spans \in {b.text, Refused})
\* The question parked for the buffer's version is, or will be, about its text.
Waits(o, pk, b, d) == Own(pk.life, o, b, d) /\ Differs(b) /\ pk.id # NoId /\ pk.version = b.version
AnsweredFor(S, id, text) == \A m \in S : m.type = "response" /\ m.id = id => m.about \in {text, Refused}
AsksFor(w, f, t, id, text) ==
    \A k \in 1..Len(w) : Question(w[k]) /\ w[k].id = id =>
        w[k].type = "tokens" /\ w[k].file = f /\ HeardOf(t, f, w, k - 1).text = text

Answers == owed \cup ToSet(down) \cup ToSet(responses)

HeldInv == \A f \in Files : Held(buf[f], documents[f], applied[f], parked[f], bound.edits[f], state)
IdsInv == IdsApart(OnItsWay, owed, down, responses, nextId)
AskedInv == Asked(ToSet(OnItsWay) \cup Answers, parked)
StepInv == alive => \A f \in Files : InStep(f, documents[f], buf[f], told[f], OnItsWay)
FitInv == \A f \in Files : Fit(f, opens[f], buf[f], documents[f], told[f], ToSet(OnItsWay) \cup ToSet(down))
PaintInv == \A f \in Files : Paints(opens[f], parked[f], applied[f], buf[f], documents[f], nextId)
WaitInv ==
    \A f \in Files : Waits(opens[f], parked[f], buf[f], documents[f]) =>
        /\ AnsweredFor(Answers, parked[f].id, buf[f].text)
        /\ alive => AsksFor(OnItsWay, f, told[f], parked[f].id, buf[f].text)

LspInv ==
    /\ TypeInv
    /\ ClientShape(state, alive, queued, up, down, responses, owed, told)
    /\ EditorShape(at, front, buf, asking)
    /\ HeldInv /\ IdsInv /\ AskedInv /\ StepInv /\ FitInv /\ PaintInv /\ WaitInv

-----------------------------------------------------------------------------
(* What a file is taken for, message by message. *)

After(t, m, f) == IF ~Question(m) /\ m.file = f THEN Heard(t, m) ELSE t

\* heard is what HeardOf builds, message by message.
IsHeard(heard, t, f, q) ==
    heard = [k \in 0..Len(q) |-> IF k = 0 THEN t ELSE After(heard[k - 1], q[k], f)]

LEMMA HeardExists ==
    ASSUME NEW S, NEW q \in Seq(S), NEW t, NEW f
    PROVE  \E heard : IsHeard(heard, t, f, q)
<1> DEFINE Rule(h, k) == IF k = 0 THEN t ELSE After(h[k - 1], q[k], f)
           UpTo(h, m) == \A k \in 0..Len(q) : k <= m => h[k] = Rule(h, k)
           Some(m) == \E h : h = [k \in 0..Len(q) |-> h[k]] /\ UpTo(h, m)
           G == {m \in Nat : Some(m)}
<1>0. Len(q) \in Nat
  OBVIOUS
<1>1. 0 \in G
  <2> DEFINE h == [k \in 0..Len(q) |-> t]
  <2>1. h = [k \in 0..Len(q) |-> h[k]] /\ UpTo(h, 0)
    BY <1>0
  <2> HIDE DEF h, UpTo
  <2>2. Some(0)
    BY <2>1
  <2> QED  BY <2>2
<1>2. ASSUME NEW m \in G PROVE m + 1 \in G
  <2>1. PICK h : h = [k \in 0..Len(q) |-> h[k]] /\ UpTo(h, m)
    OBVIOUS
  <2> DEFINE g == [k \in 0..Len(q) |-> Rule(h, k)]
  <2>2. g = [k \in 0..Len(q) |-> g[k]]
    OBVIOUS
  <2>3. ASSUME NEW k \in 0..Len(q), k <= m + 1 PROVE g[k] = Rule(g, k)
    <3>1. CASE k = 0
      BY <3>1
    <3>2. CASE k # 0
      <4>1. k - 1 \in 0..Len(q) /\ k - 1 <= m
        BY <1>0, <2>3, <3>2
      <4>2. g[k - 1] = h[k - 1]
        BY <2>1, <4>1
      <4>3. g[k] = After(h[k - 1], q[k], f)
        BY <3>2
      <4> QED  BY <3>2, <4>2, <4>3
    <3> QED  BY <3>1, <3>2
  <2>4. UpTo(g, m + 1)
    BY <2>3
  <2> HIDE DEF g, UpTo
  <2>5. Some(m + 1)
    BY <2>2, <2>4
  <2>6. m + 1 \in Nat
    OBVIOUS
  <2> HIDE DEF Some
  <2> QED  BY <2>5, <2>6
<1>3. G = Nat
  <2> HIDE DEF G
  <2>1. G \in SUBSET Nat
    BY DEF G
  <2> QED  BY <1>1, <1>2, <2>1, Induction
<1>4. PICK h : h = [k \in 0..Len(q) |-> h[k]] /\ UpTo(h, Len(q))
  BY <1>0, <1>3
<1>5. \A k \in 0..Len(q) : h[k] = Rule(h, k)
  BY <1>0, <1>4
<1>6. h = [k \in 0..Len(q) |-> Rule(h, k)]
  BY <1>4, <1>5
<1> QED  BY <1>6 DEF IsHeard

LEMMA HeardFirst ==
    ASSUME NEW S, NEW q \in Seq(S), NEW t, NEW f
    PROVE  HeardOf(t, f, q, 0) = t
<1> DEFINE heard == CHOOSE h : IsHeard(h, t, f, q)
<1>1. HeardOf(t, f, q, 0) = heard[0]
  BY DEF HeardOf, IsHeard, After
<1>2. IsHeard(heard, t, f, q)
  BY HeardExists
<1> HIDE DEF heard
<1>3. Len(q) \in Nat
  OBVIOUS
<1> QED  BY <1>1, <1>2, <1>3 DEF IsHeard

LEMMA HeardNext ==
    ASSUME NEW S, NEW q \in Seq(S), NEW t, NEW f, NEW n \in Nat, n + 1 <= Len(q)
    PROVE  HeardOf(t, f, q, n + 1) = After(HeardOf(t, f, q, n), q[n + 1], f)
<1> DEFINE heard == CHOOSE h : IsHeard(h, t, f, q)
<1>1. HeardOf(t, f, q, n) = heard[n] /\ HeardOf(t, f, q, n + 1) = heard[n + 1]
  BY DEF HeardOf, IsHeard, After
<1>2. IsHeard(heard, t, f, q)
  BY HeardExists
<1> HIDE DEF heard
<1>3. Len(q) \in Nat /\ n + 1 \in 0..Len(q) /\ n + 1 # 0 /\ n + 1 - 1 = n
  OBVIOUS
<1>4. heard[n + 1] = After(heard[n], q[n + 1], f)
  BY <1>2, <1>3 DEF IsHeard
<1> QED  BY <1>1, <1>4

\* A message sent changes nothing of what those before it say.
LEMMA HeardBefore ==
    ASSUME NEW S, NEW q \in Seq(S), NEW m \in S, NEW t, NEW f, NEW i \in 0..Len(q)
    PROVE  HeardOf(t, f, Append(q, m), i) = HeardOf(t, f, q, i)
<1> DEFINE r == Append(q, m)
           G == {n \in Nat : n <= Len(q) => HeardOf(t, f, r, n) = HeardOf(t, f, q, n)}
<1>1. r \in Seq(S) /\ Len(q) \in Nat /\ Len(r) = Len(q) + 1 /\ r[Len(q) + 1] = m /\ \A n \in 1..Len(q) : r[n] = q[n]
  OBVIOUS
<1> HIDE DEF r
<1>2. 0 \in G
  BY <1>1, HeardFirst
<1>3. ASSUME NEW n \in G PROVE n + 1 \in G
  <2> SUFFICES ASSUME n + 1 <= Len(q) PROVE HeardOf(t, f, r, n + 1) = HeardOf(t, f, q, n + 1)
    OBVIOUS
  <2>1. n \in Nat /\ n <= Len(q) /\ n + 1 \in 1..Len(q) /\ n + 1 \in 1..Len(r) /\ n + 1 - 1 = n
    BY <1>1
  <2>2. HeardOf(t, f, r, n) = HeardOf(t, f, q, n)
    BY <2>1
  <2>3. HeardOf(t, f, r, n + 1) = After(HeardOf(t, f, r, n), r[n + 1], f)
    BY <1>1, <2>1, HeardNext
  <2>4. HeardOf(t, f, q, n + 1) = After(HeardOf(t, f, q, n), q[n + 1], f)
    BY <1>1, <2>1, HeardNext
  <2> QED  BY <1>1, <2>1, <2>2, <2>3, <2>4
<1>4. G = Nat
  <2> HIDE DEF G
  <2>1. G \in SUBSET Nat
    BY DEF G
  <2> QED  BY <1>2, <1>3, <2>1, Induction
<1>5. i \in Nat /\ i <= Len(q)
  BY <1>1
<1> QED  BY <1>4, <1>5 DEF r

LEMMA HeardLast ==
    ASSUME NEW S, NEW q \in Seq(S), NEW m \in S, NEW t, NEW f
    PROVE  HeardOf(t, f, Append(q, m), Len(q) + 1) = After(HeardOf(t, f, q, Len(q)), m, f)
<1> DEFINE r == Append(q, m)
<1>1. r \in Seq(S) /\ Len(q) \in Nat /\ Len(r) = Len(q) + 1 /\ r[Len(q) + 1] = m
  OBVIOUS
<1>2. Len(q) \in 0..Len(q)
  BY <1>1
<1>3. HeardOf(t, f, r, Len(q)) = HeardOf(t, f, q, Len(q))
  BY <1>2, HeardBefore
<1> HIDE DEF r
<1>4. HeardOf(t, f, r, Len(q) + 1) = After(HeardOf(t, f, r, Len(q)), r[Len(q) + 1], f)
  BY <1>1, HeardNext
<1> QED  BY <1>1, <1>3, <1>4 DEF r

\* The first message read, the others mean what they did.
LEMMA HeardTail ==
    ASSUME NEW S, NEW q \in Seq(S), q # <<>>, NEW t, NEW f
    PROVE  \A n \in 0..Len(Tail(q)) :
               HeardOf(After(t, Head(q), f), f, Tail(q), n) = HeardOf(t, f, q, n + 1)
<1> DEFINE r == Tail(q)
           u == After(t, Head(q), f)
           G == {n \in Nat : n <= Len(r) => HeardOf(u, f, r, n) = HeardOf(t, f, q, n + 1)}
<1>1. /\ r \in Seq(S) /\ Len(q) \in Nat /\ Len(q) > 0 /\ Len(r) = Len(q) - 1 /\ Head(q) = q[1]
      /\ \A n \in 1..Len(r) : r[n] = q[n + 1]
  BY TailFacts
<1> HIDE DEF r
<1>2. 0 \in G
  <2>1. 1 \in 1..Len(q) /\ 1 - 1 = 0 /\ 0 + 1 = 1
    BY <1>1
  <2>2. HeardOf(t, f, q, 1) = After(HeardOf(t, f, q, 0), q[1], f)
    BY <1>1, <2>1, HeardNext
  <2>3. HeardOf(t, f, q, 0) = t
    BY HeardFirst
  <2>4. HeardOf(u, f, r, 0) = u
    BY <1>1, HeardFirst
  <2> QED  BY <1>1, <2>1, <2>2, <2>3, <2>4
<1>3. ASSUME NEW n \in G PROVE n + 1 \in G
  <2> SUFFICES ASSUME n + 1 <= Len(r) PROVE HeardOf(u, f, r, n + 1) = HeardOf(t, f, q, n + 1 + 1)
    OBVIOUS
  <2>1. /\ n \in Nat /\ n <= Len(r) /\ n + 1 \in 1..Len(r) /\ n + 1 + 1 \in 1..Len(q)
        /\ n + 1 - 1 = n /\ n + 1 + 1 - 1 = n + 1
    BY <1>1
  <2>2. HeardOf(u, f, r, n) = HeardOf(t, f, q, n + 1)
    BY <2>1
  <2> HIDE DEF u
  <2>3. HeardOf(u, f, r, n + 1) = After(HeardOf(u, f, r, n), r[n + 1], f)
    BY <1>1, <2>1, HeardNext
  <2>4. HeardOf(t, f, q, n + 1 + 1) = After(HeardOf(t, f, q, n + 1), q[n + 1 + 1], f)
    BY <1>1, <2>1, HeardNext
  <2> QED  BY <1>1, <2>1, <2>2, <2>3, <2>4
<1>4. G = Nat
  <2> HIDE DEF G
  <2>1. G \in SUBSET Nat
    BY DEF G
  <2> QED  BY <1>2, <1>3, <2>1, Induction
<1> QED  BY <1>1, <1>4 DEF r

\* Whether a publication is due changes nothing of what is heard later.
LEMMA HeardSame ==
    ASSUME NEW S, NEW q \in Seq(S), NEW t, NEW u, NEW f, t.version = u.version, t.text = u.text
    PROVE  \A n \in 0..Len(q) : /\ HeardOf(t, f, q, n).version = HeardOf(u, f, q, n).version
                                /\ HeardOf(t, f, q, n).text = HeardOf(u, f, q, n).text
<1> DEFINE Same(n) == /\ HeardOf(t, f, q, n).version = HeardOf(u, f, q, n).version
                      /\ HeardOf(t, f, q, n).text = HeardOf(u, f, q, n).text
           G == {n \in Nat : n <= Len(q) => Same(n)}
<1>1. Len(q) \in Nat
  OBVIOUS
<1>2. 0 \in G
  <2>1. Same(0)
    BY HeardFirst
  <2> QED  BY <2>1
<1>3. ASSUME NEW n \in G PROVE n + 1 \in G
  <2> SUFFICES ASSUME n + 1 <= Len(q) PROVE Same(n + 1)
    OBVIOUS
  <2>1. n \in Nat /\ n <= Len(q) /\ n + 1 \in 1..Len(q) /\ n + 1 - 1 = n /\ n + 1 <= Len(q)
    BY <1>1
  <2>2. Same(n)
    BY <2>1
  <2>3. HeardOf(t, f, q, n + 1) = After(HeardOf(t, f, q, n), q[n + 1], f)
    BY <2>1, HeardNext
  <2>4. HeardOf(u, f, q, n + 1) = After(HeardOf(u, f, q, n), q[n + 1], f)
    BY <2>1, HeardNext
  <2>5. ASSUME NEW x, NEW y, NEW m, x.version = y.version, x.text = y.text
        PROVE  After(x, m, f).version = After(y, m, f).version /\ After(x, m, f).text = After(y, m, f).text
    BY <2>5 DEF After, Heard
  <2> QED  BY <2>2, <2>3, <2>4, <2>5
<1>4. G = Nat
  <2> HIDE DEF G
  <2>1. G \in SUBSET Nat
    BY DEF G
  <2> QED  BY <1>2, <1>3, <2>1, Induction
<1> QED  BY <1>1, <1>4

-----------------------------------------------------------------------------
(* Ids. *)

Messages == Questions \cup Notes
Heads == Replies \cup Publications

LEMMA Kinds ==
    /\ \A m \in Questions : Asks(m) /\ Question(m) /\ m.id \in Nat \ {0} /\ m.file \in Files \cup {NoFile}
    /\ \A m \in Questions : m.file \in Files => m.type = "tokens"
    /\ \A m \in Questions : m.type = "tokens" => m.file \in Files
    /\ \A m \in Questions : m.file \notin Files => m.file = NoFile
    /\ \A m \in Notes : ~Asks(m) /\ ~Question(m) /\ m.type \notin {"tokens", "response", "publish"} /\ m.file \in Files
    /\ \A m \in Replies : /\ Asks(m) /\ m.type = "response" /\ m.id \in Nat \ {0} /\ m.file \in Files \cup {NoFile}
                          /\ m.about \in Taken
    /\ \A m \in Publications : ~Asks(m) /\ m.type = "publish" /\ m.file \in Files /\ m.version \in Versions
<1>1. \A m \in Questions : Asks(m) /\ Question(m) /\ m.id \in Nat \ {0} /\ m.file \in Files \cup {NoFile}
  BY DEF Questions, Asks, Question
<1>5. ASSUME NEW m \in Questions PROVE (m.file \in Files <=> m.type = "tokens") /\ (m.file \notin Files => m.file = NoFile)
  BY LspAssumption DEF Questions, LspAssumption
<1>2. \A m \in Notes : ~Asks(m) /\ ~Question(m) /\ m.type \notin {"tokens", "response", "publish"} /\ m.file \in Files
  BY DEF Notes, Openings, Alterations, Closings, Asks, Question
<1>3. \A m \in Replies : /\ Asks(m) /\ m.type = "response" /\ m.id \in Nat \ {0} /\ m.file \in Files \cup {NoFile}
                         /\ m.about \in Taken
  BY DEF Replies, Asks
<1>4. \A m \in Publications : ~Asks(m) /\ m.type = "publish" /\ m.file \in Files /\ m.version \in Versions
  BY DEF Publications, Asks
<1> QED  BY <1>1, <1>2, <1>3, <1>4, <1>5

LEMMA IdFacts ==
    ASSUME NEW S, NEW m
    PROVE  /\ Asks(m) => Ids(S \cup {m}) = Ids(S) \cup {m.id}
           /\ ~Asks(m) => Ids(S \cup {m}) = Ids(S)
           /\ \A T : T \subseteq S => Ids(T) \subseteq Ids(S)
           /\ m \in S /\ Asks(m) => m.id \in Ids(S)
           /\ Ids({}) = {}
  BY DEF Ids

LEMMA ApartTail ==
    ASSUME NEW S, NEW q \in Seq(S), q # <<>>, Apart(q)
    PROVE  Apart(Tail(q)) /\ (Asks(Head(q)) => Head(q).id \notin Ids(ToSet(Tail(q))))
<1>1. /\ Head(q) = q[1] /\ Len(q) \in Nat /\ Len(q) > 0 /\ Len(Tail(q)) = Len(q) - 1
      /\ Tail(q) \in Seq(S) /\ \A i \in 1..Len(Tail(q)) : Tail(q)[i] = q[i + 1]
  BY TailFacts
<1> DEFINE r == Tail(q)
<1> HIDE DEF r
<1>2. \A i \in 1..Len(r) : i + 1 \in 1..Len(q) /\ i + 1 # 1 /\ r[i] = q[i + 1]
  BY <1>1 DEF r
<1>3. 1 \in 1..Len(q)
  BY <1>1
<1>4. ASSUME NEW i \in 1..Len(r), NEW k \in 1..Len(r), Asks(r[i]), Asks(r[k]), r[i].id = r[k].id
      PROVE  i = k
  <2>1. i + 1 = k + 1
    BY <1>2, <1>4 DEF Apart
  <2> QED  BY <2>1
<1>5. ASSUME Asks(Head(q)) PROVE Head(q).id \notin Ids(ToSet(r))
  <2>1. SUFFICES ASSUME NEW m \in ToSet(r), Asks(m), m.id = Head(q).id PROVE FALSE
    BY DEF Ids
  <2>2. PICK i \in 1..Len(r) : m = r[i]
    <3>1. DOMAIN r = 1..Len(r)
      BY <1>1 DEF r
    <3> QED  BY <3>1, <2>1 DEF ToSet
  <2>3. i + 1 = 1
    BY <1>1, <1>2, <1>3, <1>5, <2>1, <2>2 DEF Apart
  <2> QED  BY <1>2, <2>3
<1> QED  BY <1>4, <1>5 DEF Apart, r

LEMMA ApartAppend ==
    ASSUME NEW S, NEW q \in Seq(S), NEW m \in S, Apart(q), Asks(m) => m.id \notin Ids(ToSet(q))
    PROVE  Apart(Append(q, m))
<1> DEFINE r == Append(q, m)
<1>1. Len(q) \in Nat /\ Len(r) = Len(q) + 1 /\ r[Len(q) + 1] = m /\ \A i \in 1..Len(q) : r[i] = q[i]
  BY AppendFacts
<1> HIDE DEF r
<1>2. \A i \in 1..Len(r) : i = Len(q) + 1 \/ i \in 1..Len(q)
  BY <1>1
<1>3. \A i \in 1..Len(q) : q[i] \in ToSet(q)
  BY DEF ToSet
<1>4. \A i \in 1..Len(q) : Asks(q[i]) => q[i].id \in Ids(ToSet(q))
  BY <1>3, IdFacts
<1>5. ASSUME NEW i \in 1..Len(r), NEW k \in 1..Len(r), Asks(r[i]), Asks(r[k]), r[i].id = r[k].id
      PROVE  i = k
  <2>1. CASE i \in 1..Len(q) /\ k \in 1..Len(q)
    BY <1>1, <1>5, <2>1 DEF Apart
  <2>2. CASE i = Len(q) + 1 /\ k \in 1..Len(q)
    BY <1>1, <1>4, <1>5, <2>2
  <2>3. CASE k = Len(q) + 1 /\ i \in 1..Len(q)
    BY <1>1, <1>4, <1>5, <2>3
  <2> QED  BY <1>2, <2>1, <2>2, <2>3
<1> QED  BY <1>5 DEF Apart, r

LEMMA ApartDrawn ==
    ASSUME NEW S, NEW q \in Seq(S), NEW r \in Seq(S), Drawn(r, q), Apart(q)
    PROVE  Apart(r)
<1>1. ASSUME NEW i \in 1..Len(r), NEW k \in 1..Len(r), Asks(r[i]), Asks(r[k]), r[i].id = r[k].id, i # k
      PROVE  FALSE
  <2>1. PICK a \in 1..Len(q), b \in 1..Len(q) : a # b /\ r[i] = q[a] /\ r[k] = q[b]
    BY <1>1 DEF Drawn
  <2> QED  BY <1>1, <2>1 DEF Apart
<1> QED  BY <1>1 DEF Apart

\* What a request collects is the first answer with its id.
LEMMA AtFacts ==
    ASSUME NEW S, NEW q \in Seq(S), NEW id, Has(q, id)
    PROVE  At(q, id) \in 1..Len(q) /\ q[At(q, id)].id = id
<1> DEFINE T == {i \in 1..Len(q) : q[i].id = id}
<1>1. Len(q) \in Nat /\ T \in SUBSET Nat /\ T # {}
  BY DEF Has
<1>2. PICK x \in T : \A y \in T : x <= y
  <2> HIDE DEF T
  <2> QED  BY <1>1, Least
<1>3. x \in 1..Len(q) /\ q[x].id = id /\ \A k \in 1..(x - 1) : q[k].id # id
  <2>1. \A k \in 1..(x - 1) : k \in 1..Len(q) /\ ~(x <= k)
    BY <1>1
  <2> QED  BY <1>2, <2>1
<1> HIDE DEF T
<1>4. \E i \in 1..Len(q) : q[i].id = id /\ \A k \in 1..(i - 1) : q[k].id # id
  BY <1>3
<1> QED  BY <1>4 DEF At

LEMMA WithoutFacts ==
    ASSUME NEW S, NEW q \in Seq(S), NEW id
    PROVE  /\ Without(q, id) \in Seq(S) /\ Len(Without(q, id)) <= Len(q)
           /\ ToSet(Without(q, id)) \subseteq ToSet(q) /\ Drawn(Without(q, id), q)
           /\ Apart(q) /\ (\A m \in S : Asks(m)) => id \notin Ids(ToSet(Without(q, id)))
<1> DEFINE r == Without(q, id)
<1>0. DOMAIN q = 1..Len(q) /\ Len(q) \in Nat
  OBVIOUS
<1>1. CASE ~Has(q, id)
  <2>1. r = q
    BY <1>1 DEF Without
  <2>2. Drawn(q, q)
    BY DEF Drawn
  <2>3. id \notin Ids(ToSet(q))
    BY <1>0, <1>1 DEF Ids, ToSet, Has
  <2> QED  BY <1>0, <2>1, <2>2, <2>3
<1>2. CASE Has(q, id)
  <2>1. PICK i \in 1..Len(q) : i = At(q, id) /\ q[i].id = id
    BY <1>2, AtFacts
  <2>2. r = RemoveAt(q, i)
    BY <1>2, <2>1 DEF Without
  <2> HIDE DEF r
  <2>3. /\ r \in Seq(S) /\ Drawn(r, q) /\ \A k \in 1..Len(r) : \E a \in 1..Len(q) : a # i /\ r[k] = q[a]
    BY <2>2, RemoveFacts
  <2>4. Len(r) <= Len(q)
    BY <1>0, <2>2, RemoveFacts
  <2>5. DOMAIN r = 1..Len(r)
    BY <2>3
  <2>6. ToSet(r) \subseteq ToSet(q)
    BY <1>0, <2>3, <2>5 DEF ToSet
  <2>7. ASSUME Apart(q), \A m \in S : Asks(m), NEW k \in 1..Len(r) PROVE r[k].id # id
    <3>1. PICK a \in 1..Len(q) : a # i /\ r[k] = q[a]
      BY <2>3, <2>7
    <3>2. q[a] \in S /\ q[i] \in S
      OBVIOUS
    <3> QED  BY <2>1, <2>7, <3>1, <3>2 DEF Apart
  <2>8. Apart(q) /\ (\A m \in S : Asks(m)) => id \notin Ids(ToSet(r))
    BY <2>5, <2>7 DEF Ids, ToSet
  <2> QED  BY <2>3, <2>4, <2>6, <2>8 DEF r
<1> QED  BY <1>1, <1>2

-----------------------------------------------------------------------------
(* What each step does to the ids. *)

LEMMA SendIds ==
    ASSUME NEW w \in Seq(Messages), NEW o, NEW d, NEW r, NEW n \in Nat \ {0}, IdsApart(w, o, d, r, n)
    PROVE  /\ IdsApart(w, o, d, r, n + 1)
           /\ \A m \in Notes : IdsApart(Append(w, m), o, d, r, n)
           /\ \A m \in Questions : m.id = n => IdsApart(Append(w, m), o, d, r, n + 1)
<1>1. \A m \in Messages : Append(w, m) \in Seq(Messages) /\ ToSet(Append(w, m)) = ToSet(w) \cup {m}
  BY AppendFacts
<1>2. 1..(n - 1) \subseteq 1..(n + 1 - 1) /\ n \notin 1..(n - 1) /\ n \in 1..(n + 1 - 1)
  OBVIOUS
<1>3. IdsApart(w, o, d, r, n + 1)
  <2>1. Ids(ToSet(w)) \cup Ids(o) \cup Ids(ToSet(d)) \cup Ids(ToSet(r)) \subseteq 1..(n + 1 - 1)
    BY <1>2 DEF IdsApart
  <2> QED  BY <2>1 DEF IdsApart
<1>4. ASSUME NEW m \in Notes PROVE IdsApart(Append(w, m), o, d, r, n)
  <2>1. m \in Messages /\ ~Asks(m)
    BY Kinds DEF Messages
  <2>2. Ids(ToSet(Append(w, m))) = Ids(ToSet(w))
    <3>1. Ids(ToSet(w) \cup {m}) = Ids(ToSet(w))
      BY <2>1, IdFacts
    <3>2. ToSet(Append(w, m)) = ToSet(w) \cup {m}
      BY <1>1, <2>1
    <3> QED  BY <3>1, <3>2, Zenon
  <2>3. Apart(Append(w, m))
    BY <2>1, ApartAppend DEF IdsApart
  <2> QED  BY <2>2, <2>3, Zenon DEF IdsApart
<1>5. ASSUME NEW m \in Questions, m.id = n PROVE IdsApart(Append(w, m), o, d, r, n + 1)
  <2>1. m \in Messages /\ Asks(m)
    BY Kinds DEF Messages
  <2>2. Ids(ToSet(Append(w, m))) = Ids(ToSet(w)) \cup {n}
    <3>1. Ids(ToSet(w) \cup {m}) = Ids(ToSet(w)) \cup {m.id}
      BY <2>1, IdFacts
    <3> QED  BY <1>1, <1>5, <2>1, <3>1
  <2>3. Apart(Append(w, m))
    BY <1>2, <1>5, <2>1, ApartAppend DEF IdsApart
  <2>4. n \notin Ids(ToSet(w)) \cup Ids(o) \cup Ids(ToSet(d)) \cup Ids(ToSet(r))
    BY <1>2, Zenon DEF IdsApart
  <2> QED  BY <1>2, <2>2, <2>3, <2>4 DEF IdsApart
<1> QED  BY <1>3, <1>4, <1>5

\* The server reads a message: a question becomes an answer it owes.
LEMMA ReadIds ==
    ASSUME NEW w \in Seq(Messages), w # <<>>, NEW o \in SUBSET Replies, NEW d, NEW r, NEW n \in Nat \ {0}, IdsApart(w, o, d, r, n)
    PROVE  /\ IdsApart(Tail(w), o, d, r, n)
           /\ \A a \in Replies : Asks(Head(w)) /\ a.id = Head(w).id => IdsApart(Tail(w), o \cup {a}, d, r, n)
<1>1. Head(w) \in Messages /\ ToSet(w) = ToSet(Tail(w)) \cup {Head(w)}
  BY TailFacts
<1>2. Apart(Tail(w)) /\ (Asks(Head(w)) => Head(w).id \notin Ids(ToSet(Tail(w))))
  BY ApartTail DEF IdsApart
<1>3. /\ Asks(Head(w)) => Ids(ToSet(w)) = Ids(ToSet(Tail(w))) \cup {Head(w).id}
      /\ ~Asks(Head(w)) => Ids(ToSet(w)) = Ids(ToSet(Tail(w)))
  <2>1. /\ Asks(Head(w)) => Ids(ToSet(Tail(w)) \cup {Head(w)}) = Ids(ToSet(Tail(w))) \cup {Head(w).id}
        /\ ~Asks(Head(w)) => Ids(ToSet(Tail(w)) \cup {Head(w)}) = Ids(ToSet(Tail(w)))
    BY IdFacts
  <2> QED  BY <1>1, <2>1, Zenon
<1>4. IdsApart(Tail(w), o, d, r, n)
  BY <1>2, <1>3 DEF IdsApart
<1>5. ASSUME NEW a \in Replies, Asks(Head(w)), a.id = Head(w).id PROVE IdsApart(Tail(w), o \cup {a}, d, r, n)
  <2>1. Ids(o \cup {a}) = Ids(o) \cup {a.id}
    BY Kinds, IdFacts
  <2>2. a.id \notin Ids(o)
    BY <1>3, <1>5 DEF IdsApart
  <2>3. OnePer(o \cup {a})
    <3>1. OnePer(o)
      BY DEF IdsApart
    <3>2. \A x \in o : x.id # a.id
      BY <2>2, Kinds DEF Ids
    <3> QED  BY <3>1, <3>2 DEF OnePer
  <2> QED  BY <1>2, <1>3, <1>5, <2>1, <2>2, <2>3 DEF IdsApart
<1> QED  BY <1>4, <1>5

\* It answers, or refuses to.
LEMMA AnswerIds ==
    ASSUME NEW w, NEW o \in SUBSET Replies, NEW d \in Seq(Heads), NEW r, NEW n \in Nat \ {0},
           IdsApart(w, o, d, r, n), NEW a \in o, NEW x \in Replies, x.id = a.id
    PROVE  IdsApart(w, o \ {a}, Append(d, x), r, n)
<1>1. a \in Heads /\ Asks(a) /\ x \in Heads /\ Asks(x)
  BY Kinds DEF Heads
<1>2. Ids(o) = Ids(o \ {a}) \cup {a.id}
  <2>1. (o \ {a}) \cup {a} = o
    OBVIOUS
  <2>2. Ids((o \ {a}) \cup {a}) = Ids(o \ {a}) \cup {a.id}
    BY <1>1, IdFacts
  <2> QED  BY <2>1, <2>2
<1>3. a.id \notin Ids(o \ {a})
  BY DEF IdsApart, OnePer, Ids
<1>4. Ids(ToSet(Append(d, x))) = Ids(ToSet(d)) \cup {a.id}
  <2>1. ToSet(Append(d, x)) = ToSet(d) \cup {x}
    BY <1>1, AppendFacts
  <2>2. Ids(ToSet(d) \cup {x}) = Ids(ToSet(d)) \cup {x.id}
    BY <1>1, IdFacts
  <2> QED  BY <2>1, <2>2
<1>5. Apart(Append(d, x))
  <2>1. x.id \notin Ids(ToSet(d))
    BY <1>2 DEF IdsApart
  <2> QED  BY <1>1, <2>1, ApartAppend DEF IdsApart
<1>6. OnePer(o \ {a})
  BY DEF OnePer, IdsApart
<1> QED  BY <1>2, <1>3, <1>4, <1>5, <1>6 DEF IdsApart

\* It publishes.
LEMMA PublishIds ==
    ASSUME NEW w, NEW o, NEW d \in Seq(Heads), NEW r, NEW n, IdsApart(w, o, d, r, n), NEW p \in Publications
    PROVE  IdsApart(w, o, Append(d, p), r, n)
<1>1. p \in Heads /\ ~Asks(p)
  BY Kinds DEF Heads
<1>2. Ids(ToSet(Append(d, p))) = Ids(ToSet(d))
  <2>1. ToSet(Append(d, p)) = ToSet(d) \cup {p}
    BY <1>1, AppendFacts
  <2>2. Ids(ToSet(d) \cup {p}) = Ids(ToSet(d))
    BY <1>1, IdFacts
  <2> QED  BY <2>1, <2>2, Zenon
<1>3. Apart(Append(d, p))
  BY <1>1, ApartAppend DEF IdsApart
<1> QED  BY <1>2, <1>3, Zenon DEF IdsApart

\* The editor reads a message, and may keep it.
LEMMA HandleIds ==
    ASSUME NEW w, NEW o, NEW d \in Seq(Heads), d # <<>>, NEW r \in Seq(Replies), NEW n, IdsApart(w, o, d, r, n)
    PROVE  /\ IdsApart(w, o, Tail(d), r, n)
           /\ \A k \in Seq(Replies) :
                  ToSet(k) \subseteq ToSet(r) /\ Apart(k) /\ Head(d) \in Replies
                  => IdsApart(w, o, Tail(d), Append(k, Head(d)), n)
<1>1. Head(d) \in Heads /\ ToSet(d) = ToSet(Tail(d)) \cup {Head(d)}
  BY TailFacts
<1>2. Apart(Tail(d)) /\ (Asks(Head(d)) => Head(d).id \notin Ids(ToSet(Tail(d))))
  BY ApartTail DEF IdsApart
<1>3. /\ Asks(Head(d)) => Ids(ToSet(d)) = Ids(ToSet(Tail(d))) \cup {Head(d).id}
      /\ ~Asks(Head(d)) => Ids(ToSet(d)) = Ids(ToSet(Tail(d)))
  <2>1. /\ Asks(Head(d)) => Ids(ToSet(Tail(d)) \cup {Head(d)}) = Ids(ToSet(Tail(d))) \cup {Head(d).id}
        /\ ~Asks(Head(d)) => Ids(ToSet(Tail(d)) \cup {Head(d)}) = Ids(ToSet(Tail(d)))
    BY IdFacts
  <2> QED  BY <1>1, <2>1, Zenon
<1>4. IdsApart(w, o, Tail(d), r, n)
  BY <1>2, <1>3 DEF IdsApart
<1>5. ASSUME NEW k \in Seq(Replies), ToSet(k) \subseteq ToSet(r), Apart(k), Head(d) \in Replies
      PROVE  IdsApart(w, o, Tail(d), Append(k, Head(d)), n)
  <2> DEFINE m == Head(d)
             j == Append(k, m)
  <2>1. Asks(m)
    BY <1>5, Kinds
  <2>2. Ids(ToSet(k)) \subseteq Ids(ToSet(r))
    BY <1>5, IdFacts
  <2>3. Ids(ToSet(j)) = Ids(ToSet(k)) \cup {m.id}
    <3>1. ToSet(j) = ToSet(k) \cup {m}
      BY <1>5, AppendFacts
    <3>2. Ids(ToSet(k) \cup {m}) = Ids(ToSet(k)) \cup {m.id}
      BY <2>1, IdFacts
    <3> QED  BY <3>1, <3>2
  <2>4. m.id \notin Ids(ToSet(k))
    BY <1>3, <2>1, <2>2 DEF IdsApart
  <2>5. Apart(j)
    BY <1>5, <2>4, ApartAppend
  <2> HIDE DEF m, j
  <2>6. IdsApart(w, o, Tail(d), j, n)
    BY <1>2, <1>3, <2>1, <2>2, <2>3, <2>5 DEF IdsApart, m
  <2> QED  BY <2>6 DEF j, m
<1> QED  BY <1>4, <1>5

\* Messages go.
LEMMA FewerIds ==
    ASSUME NEW w, NEW o, NEW d, NEW r, NEW n, IdsApart(w, o, d, r, n)
    PROVE  /\ IdsApart(<<>>, {}, d, r, n) /\ IdsApart(<<>>, o, d, r, n)
           /\ \A v \in Seq(Notes) : IdsApart(v, {}, d, r, n)
           /\ \A k : Ids(ToSet(k)) \subseteq Ids(ToSet(r)) /\ Apart(k) => IdsApart(w, o, d, k, n)
<1>1. ASSUME NEW v \in Seq(Notes) PROVE Ids(ToSet(v)) = {} /\ Apart(v)
  <2>1. \A i \in 1..Len(v) : v[i] \in Notes
    BY <1>1
  <2>2. \A i \in 1..Len(v) : ~Asks(v[i])
    BY <2>1, Kinds
  <2>3. DOMAIN v = 1..Len(v)
    BY <1>1
  <2> QED  BY <2>2, <2>3 DEF Ids, ToSet, Apart
<1>2. <<>> \in Seq(Notes)
  OBVIOUS
<1>3. Ids({}) = {} /\ OnePer({})
  BY DEF Ids, OnePer
<1>4. \A v \in Seq(Notes) : IdsApart(v, {}, d, r, n)
  <2> TAKE v \in Seq(Notes)
  <2>1. Ids(ToSet(v)) = {} /\ Apart(v)
    BY <1>1
  <2> QED  BY <1>3, <2>1 DEF IdsApart
<1>5. IdsApart(<<>>, o, d, r, n)
  <2>1. Ids(ToSet(<<>>)) = {} /\ Apart(<<>>)
    BY <1>1, <1>2
  <2> QED  BY <2>1 DEF IdsApart
<1>6. ASSUME NEW k, Ids(ToSet(k)) \subseteq Ids(ToSet(r)), Apart(k) PROVE IdsApart(w, o, d, k, n)
  BY <1>6 DEF IdsApart
<1> QED  BY <1>2, <1>4, <1>5, <1>6

-----------------------------------------------------------------------------
(* What each step does to what the server will take a file for. *)

LEMMA AppendInStep ==
    ASSUME NEW S, NEW w \in Seq(S), NEW m \in S, NEW f, NEW t, NEW d, NEW b, NeverLost(f, t, w),
           After(HeardOf(t, f, w, Len(w)), m, f).text # Garbled,
           EndsWith(d, b, After(HeardOf(t, f, w, Len(w)), m, f))
    PROVE  InStep(f, d, b, t, Append(w, m))
<1> DEFINE v == Append(w, m)
<1>1. v \in Seq(S) /\ Len(w) \in Nat /\ Len(v) = Len(w) + 1
  BY AppendFacts
<1>2. \A n \in 0..Len(w) : HeardOf(t, f, v, n) = HeardOf(t, f, w, n)
  <2> TAKE n \in 0..Len(w)
  <2> QED  BY HeardBefore
<1>3. HeardOf(t, f, v, Len(v)) = After(HeardOf(t, f, w, Len(w)), m, f)
  BY <1>1, HeardLast
<1> HIDE DEF v
<1>4. \A n \in 0..Len(v) : n \in 0..Len(w) \/ n = Len(v)
  BY <1>1
<1>5. NeverLost(f, t, v)
  BY <1>2, <1>3, <1>4 DEF NeverLost
<1> QED  BY <1>3, <1>5 DEF InStep, v

\* A question, or a message about another file.
LEMMA OtherInStep ==
    ASSUME NEW S, NEW w \in Seq(S), NEW m \in S, NEW f, NEW t, NEW d, NEW b, InStep(f, d, b, t, w),
           Question(m) \/ m.file # f
    PROVE  InStep(f, d, b, t, Append(w, m))
<1>1. After(HeardOf(t, f, w, Len(w)), m, f) = HeardOf(t, f, w, Len(w))
  BY DEF After
<1>2. Len(w) \in 0..Len(w)
  OBVIOUS
<1>3. HeardOf(t, f, w, Len(w)).text # Garbled
  BY <1>2 DEF InStep, NeverLost
<1> QED  BY <1>1, <1>3, AppendInStep DEF InStep

LEMMA ReadInStep ==
    ASSUME NEW S, NEW w \in Seq(S), w # <<>>, NEW f, NEW t, NEW d, NEW b, InStep(f, d, b, t, w)
    PROVE  InStep(f, d, b, After(t, Head(w), f), Tail(w)) /\ After(t, Head(w), f).text # Garbled
<1> DEFINE v == Tail(w)
           u == After(t, Head(w), f)
<1>1. v \in Seq(S) /\ Len(w) \in Nat /\ Len(w) > 0 /\ Len(v) = Len(w) - 1
  BY TailFacts
<1>2. \A n \in 0..Len(v) : HeardOf(u, f, v, n) = HeardOf(t, f, w, n + 1)
  BY HeardTail
<1>3. HeardOf(u, f, v, 0) = u
  BY <1>1, HeardFirst
<1> HIDE DEF v, u
<1>4. \A n \in 0..Len(v) : n + 1 \in 0..Len(w)
  BY <1>1
<1>5. NeverLost(f, u, v)
  BY <1>2, <1>4 DEF InStep, NeverLost
<1>6. Len(v) \in 0..Len(v) /\ 0 \in 0..Len(v) /\ Len(v) + 1 = Len(w)
  BY <1>1
<1>7. HeardOf(u, f, v, Len(v)) = HeardOf(t, f, w, Len(w))
  BY <1>2, <1>6
<1>8. u.text # Garbled
  BY <1>3, <1>5, <1>6 DEF NeverLost
<1> QED  BY <1>5, <1>7, <1>8 DEF InStep, v, u

LEMMA SameInStep ==
    ASSUME NEW S, NEW w \in Seq(S), NEW f, NEW t, NEW u, NEW d, NEW b, InStep(f, d, b, t, w),
           t.version = u.version, t.text = u.text
    PROVE  InStep(f, d, b, u, w)
<1>1. \A n \in 0..Len(w) : /\ HeardOf(t, f, w, n).version = HeardOf(u, f, w, n).version
                           /\ HeardOf(t, f, w, n).text = HeardOf(u, f, w, n).text
  BY HeardSame
<1>2. Len(w) \in 0..Len(w)
  OBVIOUS
<1>3. NeverLost(f, u, w)
  BY <1>1 DEF InStep, NeverLost
<1>4. EndsWith(d, b, HeardOf(u, f, w, Len(w)))
  BY <1>1, <1>2 DEF InStep, EndsWith
<1> QED  BY <1>3, <1>4 DEF InStep

\* The same, of a question on its way.
LEMMA AppendAsks ==
    ASSUME NEW S, NEW w \in Seq(S), NEW m \in S, NEW f, NEW t, NEW id, NEW text, AsksFor(w, f, t, id, text),
           Question(m) /\ m.id = id => m.type = "tokens" /\ m.file = f /\ HeardOf(t, f, w, Len(w)).text = text
    PROVE  AsksFor(Append(w, m), f, t, id, text)
<1> DEFINE v == Append(w, m)
<1>1. /\ v \in Seq(S) /\ Len(w) \in Nat /\ Len(v) = Len(w) + 1 /\ v[Len(w) + 1] = m
      /\ \A k \in 1..Len(w) : v[k] = w[k]
  BY AppendFacts
<1>2. \A n \in 0..Len(w) : HeardOf(t, f, v, n) = HeardOf(t, f, w, n)
  <2> TAKE n \in 0..Len(w)
  <2> QED  BY HeardBefore
<1> HIDE DEF v
<1>3. \A k \in 1..Len(v) : k - 1 \in 0..Len(w) /\ (k \in 1..Len(w) \/ (k = Len(w) + 1 /\ k - 1 = Len(w)))
  BY <1>1
<1>4. ASSUME NEW k \in 1..Len(v), Question(v[k]), v[k].id = id
      PROVE  v[k].type = "tokens" /\ v[k].file = f /\ HeardOf(t, f, v, k - 1).text = text
  <2>1. HeardOf(t, f, v, k - 1) = HeardOf(t, f, w, k - 1)
    BY <1>2, <1>3
  <2>2. CASE k \in 1..Len(w)
    BY <1>1, <1>4, <2>1, <2>2 DEF AsksFor
  <2>3. CASE k = Len(w) + 1 /\ k - 1 = Len(w)
    BY <1>1, <1>4, <2>1, <2>3
  <2> QED  BY <1>3, <2>2, <2>3
<1> QED  BY <1>4 DEF AsksFor, v

LEMMA ReadAsks ==
    ASSUME NEW w \in Seq(Messages), w # <<>>, NEW f, NEW t, NEW id, NEW text, AsksFor(w, f, t, id, text)
    PROVE  /\ AsksFor(Tail(w), f, After(t, Head(w), f), id, text)
           /\ Question(Head(w)) /\ Head(w).id = id =>
                  Head(w).type = "tokens" /\ Head(w).file = f /\ t.text = text
<1> DEFINE v == Tail(w)
           u == After(t, Head(w), f)
<1>1. /\ v \in Seq(Messages) /\ Len(w) \in Nat /\ Len(w) > 0 /\ Len(v) = Len(w) - 1 /\ Head(w) = w[1]
      /\ \A k \in 1..Len(v) : v[k] = w[k + 1]
  BY TailFacts
<1>2. \A n \in 0..Len(v) : HeardOf(u, f, v, n) = HeardOf(t, f, w, n + 1)
  BY HeardTail
<1>3. HeardOf(t, f, w, 0) = t
  BY HeardFirst
<1> HIDE DEF v, u
<1>4. \A k \in 1..Len(v) : k - 1 \in 0..Len(v) /\ k - 1 + 1 = k /\ k + 1 \in 1..Len(w) /\ k + 1 - 1 = k
  BY <1>1
<1>5. ASSUME NEW k \in 1..Len(v), Question(v[k]), v[k].id = id
      PROVE  v[k].type = "tokens" /\ v[k].file = f /\ HeardOf(u, f, v, k - 1).text = text
  <2>1. HeardOf(u, f, v, k - 1) = HeardOf(t, f, w, k)
    BY <1>2, <1>4
  <2>2. /\ w[k + 1].type = "tokens" /\ w[k + 1].file = f /\ HeardOf(t, f, w, k + 1 - 1).text = text
    <3>1. k + 1 \in 1..Len(w) /\ v[k] = w[k + 1]
      BY <1>1, <1>4
    <3> QED  BY <1>5, <3>1 DEF AsksFor
  <2> QED  BY <1>1, <1>4, <2>1, <2>2
<1>6. 1 \in 1..Len(w) /\ 1 - 1 = 0
  BY <1>1
<1>7. ASSUME Question(w[1]), w[1].id = id PROVE w[1].type = "tokens" /\ w[1].file = f /\ t.text = text
  BY <1>3, <1>6, <1>7 DEF AsksFor
<1> QED  BY <1>1, <1>5, <1>7 DEF AsksFor, v, u

LEMMA SameAsks ==
    ASSUME NEW w \in Seq(Messages), NEW f, NEW t, NEW u, NEW id, NEW text, AsksFor(w, f, t, id, text),
           t.version = u.version, t.text = u.text
    PROVE  AsksFor(w, f, u, id, text)
<1>1. \A n \in 0..Len(w) : /\ HeardOf(t, f, w, n).version = HeardOf(u, f, w, n).version
                           /\ HeardOf(t, f, w, n).text = HeardOf(u, f, w, n).text
  BY HeardSame
<1>2. \A k \in 1..Len(w) : k - 1 \in 0..Len(w)
  OBVIOUS
<1> QED  BY <1>1, <1>2 DEF AsksFor

-----------------------------------------------------------------------------
(* The parts of the invariant. *)

LEMMA Types ==
    ASSUME LspInv
    PROVE  /\ at \in {"keys", "service", "sync", "diagnostics", "tokens"}
           /\ front \in Files \cup {NoFile}
           /\ buf \in [Files -> Buffers] /\ disk \in [Files -> Texts]
           /\ state \in {"none", "failed", "initializing", "ready", "dead"}
           /\ documents \in [Files -> Documents]
           /\ queued \in Seq(Notes) /\ up \in Seq(Questions \cup Notes)
           /\ responses \in Seq(Replies) /\ down \in Seq(Replies \cup Publications)
           /\ owed \in SUBSET Replies
           /\ nextId \in Nat \ {0} /\ parked \in [Files -> Requests] /\ applied \in [Files -> Versions]
           /\ asking \in Nat /\ alive \in BOOLEAN /\ told \in [Files -> Views]
           /\ bound \in Bounds /\ opens \in [Files -> Nat]
<1>1. TypeInv
  BY Zenon DEF LspInv
<1> QED  BY <1>1, Zenon DEF TypeInv

LEMMA Parts ==
    ASSUME LspInv
    PROVE  /\ ClientShape(state, alive, queued, up, down, responses, owed, told)
           /\ EditorShape(at, front, buf, asking)
           /\ HeldInv /\ IdsInv /\ AskedInv /\ StepInv /\ FitInv /\ PaintInv /\ WaitInv
  BY Zenon DEF LspInv

\* A record's parts.
LEMMA Fields ==
    /\ \A b \in Buffers : /\ b.version \in Nat \cup {Unknown} /\ b.text \in Texts \cup {NoText}
                          /\ b.spans \in Taken /\ b.diags \in Taken /\ b.asked \in Nat /\ b.drawn \in Nat
    /\ \A d \in Documents : /\ d.version \in Nat \cup {Unknown} /\ d.sent \in Said
                            /\ d.published \in Seq(Publications) /\ d.unapplied \in BOOLEAN
    /\ \A t \in Views : /\ t.version \in Nat \cup {Unknown} /\ t.text \in Taken /\ t.due \in BOOLEAN
                        /\ t.life \in Nat
    /\ \A p \in Requests : p.id \in Nat /\ p.version \in Nat \cup {Unknown} /\ p.life \in Nat
    /\ Closed \in Buffers /\ NoDocument \in Documents /\ NotTold \in Views /\ NotParked \in Requests
    /\ Texts \subseteq Taken /\ NoText \in Taken /\ Refused \in Taken /\ Garbled \notin Texts /\ NoText \notin Texts
    /\ NoFile \notin Files /\ MaxResponses \in Nat \ {0} /\ Incremental \in BOOLEAN
<1>1. \A b \in Buffers : /\ b.version \in Nat \cup {Unknown} /\ b.text \in Texts \cup {NoText}
                         /\ b.spans \in Taken /\ b.diags \in Taken /\ b.asked \in Nat /\ b.drawn \in Nat
  BY DEF Buffers, Versions
<1>2. \A d \in Documents : /\ d.version \in Nat \cup {Unknown} /\ d.sent \in Said
                           /\ d.published \in Seq(Publications) /\ d.unapplied \in BOOLEAN
  BY DEF Documents, Versions
<1>3. \A t \in Views : /\ t.version \in Nat \cup {Unknown} /\ t.text \in Taken /\ t.due \in BOOLEAN
                       /\ t.life \in Nat
  BY DEF Views, Versions
<1>4. \A p \in Requests : p.id \in Nat /\ p.version \in Nat \cup {Unknown} /\ p.life \in Nat
  BY DEF Requests, Versions
<1>5. Closed \in Buffers /\ NotTold \in Views /\ NotParked \in Requests
  BY DEF Closed, Buffers, NotTold, Views, NotParked, Requests, Versions, Unknown, NoId, Taken
<1>6. NoDocument \in Documents
  BY DEF NoDocument, Documents, Versions, Said
<1>7. Texts \subseteq Taken /\ NoText \in Taken /\ Refused \in Taken
  BY DEF Taken
<1>8. /\ Garbled \notin Texts /\ NoText \notin Texts
      /\ NoFile \notin Files /\ MaxResponses \in Nat \ {0} /\ Incremental \in BOOLEAN
  BY LspAssumption DEF LspAssumption
<1> QED  BY <1>1, <1>2, <1>3, <1>4, <1>5, <1>6, <1>7, <1>8

LEMMA Bounded ==
    ASSUME NEW b \in Bounds
    PROVE  /\ b.edits \in [Files -> Nat] /\ b.texts \subseteq Texts /\ b.start \in Texts
           /\ b.unversioned \subseteq {Unknown}
  BY LspAssumption DEF LspAssumption

\* An open buffer, and its file.
LEMMA OpenBuffer ==
    ASSUME LspInv, NEW f \in Files
    PROVE  /\ Held(buf[f], documents[f], applied[f], parked[f], bound.edits[f], state)
           /\ buf[f] \in Buffers /\ documents[f] \in Documents /\ disk[f] \in Texts
           /\ parked[f] \in Requests /\ applied[f] \in Versions /\ told[f] \in Views /\ opens[f] \in Nat
           /\ bound.edits[f] \in Nat
           /\ buf[f] # Closed => buf[f].version \in Nat /\ buf[f].version <= bound.edits[f] /\ buf[f].text \in Texts
<1>1. Held(buf[f], documents[f], applied[f], parked[f], bound.edits[f], state)
  BY Parts, Zenon DEF HeldInv
<1>2. /\ buf[f] \in Buffers /\ documents[f] \in Documents /\ disk[f] \in Texts
      /\ parked[f] \in Requests /\ applied[f] \in Versions /\ told[f] \in Views /\ opens[f] \in Nat
  <2>1. /\ buf \in [Files -> Buffers] /\ documents \in [Files -> Documents] /\ disk \in [Files -> Texts]
        /\ parked \in [Files -> Requests] /\ applied \in [Files -> Versions] /\ told \in [Files -> Views]
        /\ opens \in [Files -> Nat]
    BY Types, Zenon
  <2> QED  BY <2>1, Zenon
<1>3. bound.edits[f] \in Nat
  <2>1. bound.edits \in [Files -> Nat]
    BY Types, Bounded, Zenon
  <2> QED  BY <2>1, Zenon
<1>4. ASSUME buf[f] # Closed
      PROVE  buf[f].version \in Nat /\ buf[f].version <= bound.edits[f] /\ buf[f].text \in Texts
  <2>1. buf[f].version \in 0..bound.edits[f] /\ buf[f].text \in Texts
    BY <1>1, <1>4, Zenon DEF Held
  <2> QED  BY <1>3, <2>1
<1> QED  BY <1>1, <1>2, <1>3, <1>4

-----------------------------------------------------------------------------
(* Sending. *)

LEMMA WayFacts ==
    ASSUME LspInv
    PROVE  /\ OnItsWay \in Seq(Messages) /\ up \in Seq(Messages) /\ queued \in Seq(Messages)
           /\ queued \in Seq(Notes) /\ down \in Seq(Heads) /\ responses \in Seq(Replies) /\ owed \in SUBSET Replies
           /\ (state = "ready" => queued = <<>>) /\ (alive => state \in {"initializing", "ready"})
           /\ queued = <<>> => OnItsWay = up
<1>1. up \in Seq(Messages) /\ queued \in Seq(Notes) /\ down \in Seq(Heads) /\ responses \in Seq(Replies) /\ owed \in SUBSET Replies
  BY Types, Zenon DEF Messages, Heads
<1>2. Notes \subseteq Messages
  BY DEF Messages
<1>3. queued \in Seq(Messages)
  <2> PICK S : S = Messages
    OBVIOUS
  <2>1. \A i \in 1..Len(queued) : queued[i] \in Notes
    BY <1>1
  <2> QED  BY <1>1, <1>2, <2>1
<1>4. OnItsWay \in Seq(Messages) /\ (queued = <<>> => OnItsWay = up)
  BY <1>1, <1>3, ConcatFacts DEF OnItsWay
<1>5. (queued # <<>> => state = "initializing") /\ (alive => state \in {"initializing", "ready"})
  BY Parts, Zenon DEF ClientShape
<1> QED  BY <1>1, <1>3, <1>4, <1>5

LEMMA ConcatTwice ==
    ASSUME NEW S, NEW q \in Seq(S), NEW r \in Seq(S), NEW s \in Seq(S)
    PROVE  (q \o r) \o s = q \o (r \o s)
  OBVIOUS

\* What is sent comes last, or is lost with the process.
LEMMA SendFacts ==
    ASSUME LspInv, NEW ms \in Seq(Messages), state = "initializing" => ms \in Seq(Notes), Send(ms)
    PROVE  /\ queued' \in Seq(Notes) /\ up' \in Seq(Messages)
           /\ OnItsWay' = OnItsWay \/ OnItsWay' = OnItsWay \o ms
           /\ alive => OnItsWay' = OnItsWay \o ms
           /\ queued' # <<>> => state = "initializing"
           /\ state # "ready" => up' = up
<1>1. /\ OnItsWay \in Seq(Messages) /\ up \in Seq(Messages) /\ queued \in Seq(Messages) /\ queued \in Seq(Notes)
      /\ state = "ready" => queued = <<>> /\ OnItsWay = up
      /\ alive => state \in {"initializing", "ready"}
      /\ queued # <<>> => state = "initializing"
  <2>1. queued # <<>> => state = "initializing"
    BY Parts, Zenon DEF ClientShape
  <2> QED  BY <2>1, WayFacts
<1>2. /\ queued' = IF state = "initializing" THEN queued \o ms ELSE queued
      /\ up' = IF state = "ready" /\ alive THEN up \o ms ELSE up
  BY DEF Send
<1>3. CASE state = "initializing"
  <2>1. queued' = queued \o ms /\ up' = up
    BY <1>2, <1>3
  <2>2. queued \o ms \in Seq(Notes)
    BY <1>1, <1>3, ConcatFacts
  <2>3. up \o (queued \o ms) = (up \o queued) \o ms
    <3> PICK S : S = Messages
      OBVIOUS
    <3>1. up \in Seq(S) /\ queued \in Seq(S) /\ ms \in Seq(S)
      BY <1>1, Zenon
    <3> QED  BY <3>1, ConcatTwice
  <2>4. OnItsWay' = OnItsWay \o ms
    BY <2>1, <2>3 DEF OnItsWay
  <2> QED  BY <1>1, <1>3, <2>1, <2>2, <2>4
<1>4. CASE state = "ready" /\ alive
  <2>1. queued' = queued /\ up' = up \o ms /\ queued = <<>>
    BY <1>1, <1>2, <1>4
  <2>2. up \o ms \in Seq(Messages)
    BY <1>1, ConcatFacts
  <2>3. OnItsWay' = up \o ms
    <3>1. OnItsWay' = (up \o ms) \o <<>>
      BY <2>1 DEF OnItsWay
    <3> QED  BY <2>2, <3>1, ConcatFacts
  <2> QED  BY <1>1, <1>4, <2>1, <2>2, <2>3
<1>5. CASE state # "initializing" /\ ~(state = "ready" /\ alive)
  <2>1. queued' = queued /\ up' = up
    BY <1>2, <1>5
  <2>2. OnItsWay' = OnItsWay
    BY <2>1 DEF OnItsWay
  <2> QED  BY <1>1, <1>5, <2>1, <2>2
<1> QED  BY <1>3, <1>4, <1>5

-----------------------------------------------------------------------------
(* Steps that leave buffers and messages alone. *)

LEMMA StillInv ==
    ASSUME LspInv, UNCHANGED <<buf, client, parked, applied, up, down, process, bound, opens>>, disk' \in [Files -> Texts],
           at' \in {"keys", "service", "sync", "diagnostics", "tokens"}, front' \in Files \cup {NoFile}, asking' \in Nat,
           EditorShape(at, front, buf, asking)'
    PROVE  LspInv'
<1>0. UNCHANGED <<buf, state, documents, queued, responses, nextId, parked, applied, up, down, alive, told, owed,
                  bound, opens>>
  BY DEF client, process
<1>1. TypeInv'
  BY <1>0, Types, Zenon DEF TypeInv
<1>2. ClientShape(state, alive, queued, up, down, responses, owed, told)'
  BY <1>0, Parts, Zenon
<1>3. HeldInv'
  BY <1>0, Parts, Zenon DEF HeldInv
<1>4. OnItsWay' = OnItsWay /\ Answers' = Answers
  BY <1>0, Zenon DEF OnItsWay, Answers
<1>5. IdsInv' /\ AskedInv'
  BY <1>0, <1>4, Parts, Zenon DEF IdsInv, AskedInv
<1>6. StepInv' /\ FitInv'
  BY <1>0, <1>4, Parts, Zenon DEF StepInv, FitInv
<1>7. PaintInv' /\ WaitInv'
  BY <1>0, <1>4, Parts, Zenon DEF PaintInv, WaitInv
<1> QED  BY <1>1, <1>2, <1>3, <1>5, <1>6, <1>7, Zenon DEF LspInv

LEMMA QuietInv ==
    ASSUME LspInv, BeginTick \/ EndService \/ SyncWaits \/ (\E f \in Files \cup {NoFile} : SwitchPane(f)) \/ UNCHANGED vars
    PROVE  LspInv'
<1>0. /\ EditorShape(at, front, buf, asking) /\ asking \in Nat /\ front \in Files \cup {NoFile}
      /\ disk \in [Files -> Texts]
  BY Parts, Types, Zenon
<1>1. CASE BeginTick
  BY <1>0, <1>1, StillInv DEF BeginTick, AtKeys, EditorShape, client, session, counts, NoId
<1>2. CASE EndService
  BY <1>0, <1>2, StillInv DEF EndService, EditorShape, client, session, counts, NoId
<1>3. CASE SyncWaits
  BY <1>0, <1>3, StillInv DEF SyncWaits, EditorShape, client, session, counts, NoId
<1>4. ASSUME NEW f \in Files \cup {NoFile}, SwitchPane(f) PROVE LspInv'
  BY <1>0, <1>4, StillInv DEF SwitchPane, AtKeys, EditorShape, client, session, counts, NoId
<1>5. CASE UNCHANGED vars
  BY <1>0, <1>5, Types, StillInv DEF vars, EditorShape, editor, client, session, counts, NoId
<1> QED  BY <1>1, <1>2, <1>3, <1>4, <1>5

-----------------------------------------------------------------------------
(* What is said of a file while its buffer changes. *)

LEMMA Elements == ASSUME NEW S, NEW q \in Seq(S) PROVE ToSet(q) \subseteq S
<1>1. DOMAIN q = 1..Len(q) /\ \A i \in 1..Len(q) : q[i] \in S
  OBVIOUS
<1> QED  BY <1>1 DEF ToSet

LEMMA Versioned ==
    \A m \in Messages \cup Heads : m.type \in {"didOpen", "didChange", "publish"} => m.version \in Versions /\ m.life \in Nat
<1>1. \A m \in Questions \cup Replies \cup Closings : m.type \notin {"didOpen", "didChange", "publish"}
  BY DEF Questions, Replies, Closings
<1>2. \A m \in Openings \cup Alterations \cup Publications : m.version \in Versions /\ m.life \in Nat
  BY DEF Openings, Alterations, Publications, Versions
<1> QED  BY <1>1, <1>2 DEF Messages, Heads, Notes

LEMMA OnThePipes == ASSUME LspInv PROVE ToSet(OnItsWay) \cup ToSet(down) \in SUBSET (Messages \cup Heads)
<1>1. ToSet(OnItsWay) \subseteq Messages
  BY WayFacts, Elements, Zenon
<1>2. ToSet(down) \subseteq Heads
  BY WayFacts, Elements, Zenon
<1> QED  BY <1>1, <1>2

LEMMA FitLater ==
    ASSUME NEW f, NEW o, NEW b, NEW c, NEW d \in Documents, NEW t \in Views, NEW S \in SUBSET (Messages \cup Heads),
           Fit(f, o, b, d, t, S), \A v \in Versions, l \in Nat : \A x : Fits(v, x, l, o, b) => Fits(v, x, l, o, c),
           c # Closed /\ c.diags # NoText /\ c.drawn = o => c.diags = c.text
    PROVE  Fit(f, o, c, d, t, S)
<1>1. Fitting(S, f, o, c)
  BY Versioned, Zenon DEF Fit, Fitting
<1>2. Fitting(ToSet(d.published), f, o, c)
  <2>1. ToSet(d.published) \subseteq Publications
    BY Fields, Elements
  <2>2. ToSet(d.published) \subseteq Messages \cup Heads
    BY <2>1 DEF Heads
  <2> QED  BY <2>2, Versioned, Zenon DEF Fit, Fitting
<1>3. t.due => Fits(t.version, t.text, t.life, o, c)
  BY Fields, Zenon DEF Fit, Versions
<1> QED  BY <1>1, <1>2, <1>3, Zenon DEF Fit

-----------------------------------------------------------------------------
(* An edit: nothing said, painted or parked is of the new version. *)

LEMMA EditInv == ASSUME LspInv, NEW f \in Files, NEW text \in Texts, Edit(f, text) PROVE LspInv'
<1> DEFINE b == buf[f]
           c == [b EXCEPT !.version = @ + 1, !.text = text, !.diags = NoText, !.drawn = 0]
<1>1. /\ UNCHANGED <<at, front, disk, state, documents, queued, responses, nextId, parked, applied, asking, up, down,
                     alive, told, owed, bound, opens>>
      /\ front = f /\ b.version < bound.edits[f]
      /\ buf' = [buf EXCEPT ![f] = c]
  BY DEF Edit, client, session, process, counts
<1>2. /\ EditorShape(at, front, buf, asking) /\ b # Closed
      /\ b \in Buffers /\ b.version \in Nat /\ b.version <= bound.edits[f] /\ bound.edits[f] \in Nat
      /\ f # NoFile /\ buf \in [Files -> Buffers]
  <2>1. f # NoFile /\ EditorShape(at, front, buf, asking)
    BY Parts, Fields, Zenon
  <2>2. b # Closed
    BY <1>1, <2>1, Zenon DEF EditorShape
  <2> QED  BY <2>1, <2>2, OpenBuffer, Types
<1>3. /\ c \in Buffers /\ c.version = b.version + 1 /\ c.text = text /\ c.diags = NoText /\ c.spans = b.spans
      /\ c.asked = b.asked /\ c # Closed
  <2>1. b.version + 1 \in Versions /\ b.version + 1 # Unknown /\ text \in Texts \cup {NoText} /\ NoText \in Taken
    BY <1>2, Fields DEF Unknown, Versions
  <2>2. c \in Buffers
    BY <1>2, <2>1 DEF Buffers
  <2>3. c.version = b.version + 1 /\ c.text = text /\ c.diags = NoText /\ c.spans = b.spans /\ c.asked = b.asked
    BY <1>2 DEF Buffers
  <2> HIDE DEF c
  <2>4. c # Closed
    BY <2>1, <2>3 DEF Closed
  <2> QED  BY <2>2, <2>3, <2>4
<1>4. buf' \in [Files -> Buffers] /\ buf'[f] = c /\ \A g \in Files : g # f => buf'[g] = buf[g]
  <2> HIDE DEF c
  <2> QED  BY <1>1, <1>2, <1>3
<1> HIDE DEF b, c
<1>5. TypeInv'
  BY <1>1, <1>4, Types, Zenon DEF TypeInv
<1>6. ClientShape(state, alive, queued, up, down, responses, owed, told)'
  BY <1>1, Parts, Zenon
<1>7. EditorShape(at, front, buf, asking)'
  BY <1>1, <1>2, <1>3, <1>4, Zenon DEF EditorShape
<1>8. ASSUME NEW g \in Files PROVE Held(buf'[g], documents'[g], applied'[g], parked'[g], bound'.edits[g], state')
  <2>1. Held(buf[g], documents[g], applied[g], parked[g], bound.edits[g], state) /\ documents[g] \in Documents
    BY OpenBuffer
  <2>2. CASE g # f
    BY <1>1, <1>4, <2>1, <2>2, Zenon
  <2>3. CASE g = f
    <3>1. documents[f].version # Unknown => documents[f].version <= c.version
      BY <1>2, <1>3, <2>1, <2>3, Fields DEF Held, b
    <3>2. c.version \in 0..bound.edits[f]
      BY <1>1, <1>2, <1>3
    <3>3. Held(c, documents[f], applied[f], parked[f], bound.edits[f], state)
      BY <1>3, <2>1, <2>3, <3>1, <3>2, Zenon DEF Held
    <3> QED  BY <1>1, <1>4, <2>3, <3>3, Zenon
  <2> QED  BY <2>2, <2>3
<1>9. OnItsWay' = OnItsWay /\ Answers' = Answers
  BY <1>1, Zenon DEF OnItsWay, Answers
<1>10. IdsInv' /\ AskedInv'
  BY <1>1, <1>9, Parts, Zenon DEF IdsInv, AskedInv
<1>11. StepInv'
  <2> SUFFICES ASSUME alive, NEW g \in Files PROVE InStep(g, documents[g], buf'[g], told[g], OnItsWay)
    BY <1>1, <1>9, Zenon DEF StepInv
  <2>1. InStep(g, documents[g], buf[g], told[g], OnItsWay)
    BY Parts, Zenon DEF StepInv
  <2>2. CASE g # f
    BY <1>4, <2>1, <2>2, Zenon
  <2>3. CASE g = f
    <3>1. documents[f].version # c.version \/ documents[f].version = Unknown
      BY <1>2, <1>3, OpenBuffer, Fields DEF Held, b
    <3>2. InStep(f, documents[f], c, told[f], OnItsWay)
      BY <2>1, <2>3, <3>1, Zenon DEF InStep, EndsWith
    <3> QED  BY <1>4, <2>3, <3>2, Zenon
  <2> QED  BY <2>2, <2>3
<1>12. FitInv'
  <2> SUFFICES ASSUME NEW g \in Files
               PROVE  Fit(g, opens[g], buf'[g], documents[g], told[g], ToSet(OnItsWay) \cup ToSet(down))
    BY <1>1, <1>9, Zenon DEF FitInv
  <2>1. Fit(g, opens[g], buf[g], documents[g], told[g], ToSet(OnItsWay) \cup ToSet(down))
    BY Parts, Zenon DEF FitInv
  <2>2. CASE g # f
    BY <1>4, <2>1, <2>2, Zenon
  <2>3. CASE g = f
    <3>1. \A v \in Versions, l \in Nat : \A x : Fits(v, x, l, opens[f], b) => Fits(v, x, l, opens[f], c)
      BY <1>2, <1>3 DEF Fits, Unknown, Versions
    <3>2. documents[f] \in Documents /\ told[f] \in Views
      BY OpenBuffer, Zenon
    <3>3. Fit(f, opens[f], b, documents[f], told[f], ToSet(OnItsWay) \cup ToSet(down))
      BY <2>1, <2>3, Zenon DEF b
    <3>4. Fit(f, opens[f], c, documents[f], told[f], ToSet(OnItsWay) \cup ToSet(down))
      BY <1>3, <3>1, <3>2, <3>3, OnThePipes, FitLater, Zenon
    <3> QED  BY <1>4, <2>3, <3>4, Zenon
  <2> QED  BY <2>2, <2>3
<1>13. PaintInv'
  <2> SUFFICES ASSUME NEW g \in Files
               PROVE  Paints(opens[g], parked[g], applied[g], buf'[g], documents[g], nextId)
    BY <1>1, Zenon DEF PaintInv
  <2>1. Paints(opens[g], parked[g], applied[g], buf[g], documents[g], nextId)
    BY Parts, Zenon DEF PaintInv
  <2>2. CASE g # f
    BY <1>4, <2>1, <2>2, Zenon
  <2>3. CASE g = f
    <3>1. applied[f] \in Versions /\ parked[f].version \in Versions
      BY OpenBuffer, Fields DEF Versions
    <3>2. Paints(opens[f], parked[f], applied[f], c, documents[f], nextId)
      BY <1>2, <1>3, <2>1, <2>3, <3>1 DEF Paints, Own, b, Versions, Unknown
    <3> QED  BY <1>4, <2>3, <3>2, Zenon
  <2> QED  BY <2>2, <2>3
<1>14. WaitInv'
  <2> SUFFICES ASSUME NEW g \in Files, Waits(opens[g], parked[g], buf'[g], documents[g])
               PROVE  /\ AnsweredFor(Answers, parked[g].id, buf'[g].text)
                      /\ alive => AsksFor(OnItsWay, g, told[g], parked[g].id, buf'[g].text)
    BY <1>1, <1>9, Zenon DEF WaitInv
  <2>1. CASE g # f
    BY <1>4, <2>1, Parts, Zenon DEF WaitInv
  <2>2. CASE g = f
    <3>1. Paints(opens[f], parked[f], applied[f], b, documents[f], nextId)
      BY Parts, Zenon DEF PaintInv, b
    <3>2. parked[f].version <= b.version /\ parked[f].version = c.version /\ parked[f].version \in Versions
      BY <1>2, <1>4, <2>2, <3>1, OpenBuffer, Fields DEF Waits, Paints, Own, Versions
    <3> QED  BY <1>2, <1>3, <3>2
  <2> QED  BY <2>1, <2>2
<1>15. HeldInv'
  BY <1>8, Zenon DEF HeldInv
<1> QED  BY <1>5, <1>6, <1>7, <1>10, <1>11, <1>12, <1>13, <1>14, <1>15, Zenon DEF LspInv

-----------------------------------------------------------------------------
(* Steps that only lose messages. *)

LEMMA Fewer ==
    ASSUME NEW S, NEW T \in SUBSET S
    PROVE  /\ \A pk : Asked(S, pk) => Asked(T, pk)
           /\ \A f, o, b, d, t : Fit(f, o, b, d, t, S) => Fit(f, o, b, d, t, T)
           /\ \A f, o, b, d, t : Fit(f, o, b, d, t, S) => Fit(f, o, b, d, NotTold, T)
           /\ \A id, text : AnsweredFor(S, id, text) => AnsweredFor(T, id, text)
<1>1. \A pk : Asked(S, pk) => Asked(T, pk)
  BY DEF Asked
<1>2. \A f, o, b : Fitting(S, f, o, b) => Fitting(T, f, o, b)
  BY DEF Fitting
<1>3. ASSUME NEW f, NEW o, NEW b, NEW d, NEW t, Fit(f, o, b, d, t, S)
      PROVE  Fit(f, o, b, d, t, T) /\ Fit(f, o, b, d, NotTold, T)
  <2>1. ~NotTold.due
    BY DEF NotTold
  <2>2. Fitting(T, f, o, b)
    BY <1>2, <1>3, Zenon DEF Fit
  <2> QED  BY <1>3, <2>1, <2>2, Zenon DEF Fit
<1>5. \A id, text : AnsweredFor(S, id, text) => AnsweredFor(T, id, text)
  BY DEF AnsweredFor
<1> QED  BY <1>1, <1>3, <1>5

LEMMA NoElements == ToSet(<<>>) = {} /\ \A S : <<>> \in Seq(S)
<1>1. ToSet(<<>>) = {}
  BY DEF ToSet
<1>2. \A S : <<>> \in Seq(S)
  OBVIOUS
<1> QED  BY <1>1, <1>2

LEMMA FindDeadInv == ASSUME LspInv, FindDead PROVE LspInv'
<1>1. /\ UNCHANGED <<at, front, buf, disk, documents, responses, nextId, parked, applied, asking, down,
                     alive, told, owed, bound, opens>>
      /\ ~alive /\ state \in {"initializing", "ready"} /\ state' = "dead" /\ queued' = <<>> /\ up' = <<>>
  BY DEF FindDead, editor, session, process, counts
<1>2. OnItsWay' = <<>> /\ Answers' = Answers
  BY <1>1 DEF OnItsWay, Answers
<1>3. ToSet(OnItsWay') = {}
  BY <1>2, NoElements, Zenon
<1>4. TypeInv'
  <2>1. queued' \in Seq(Notes) /\ up' \in Seq(Questions \cup Notes)
    BY <1>1
  <2> QED  BY <1>1, <2>1, Types, Zenon DEF TypeInv
<1>5. ClientShape(state, alive, queued, up, down, responses, owed, told)'
  BY <1>1, Parts DEF ClientShape
<1>6. EditorShape(at, front, buf, asking)'
  BY <1>1, Parts DEF EditorShape
<1>7. state \in Live /\ state' \in Live
  BY <1>1 DEF Live
<1>8. HeldInv' /\ PaintInv'
  BY <1>1, <1>7, Parts, Zenon DEF HeldInv, Held, PaintInv, Paints
<1>9. IdsInv'
  BY <1>1, <1>2, Parts, FewerIds DEF IdsInv
<1>10. AskedInv'
  <2>1. ToSet(OnItsWay') \cup Answers' \subseteq ToSet(OnItsWay) \cup Answers
    BY <1>2, <1>3
  <2> QED  BY <1>1, <2>1, Parts, Fewer DEF AskedInv
<1>11. StepInv'
  BY <1>1, Zenon DEF StepInv
<1>12. FitInv'
  <2>1. ToSet(OnItsWay') \cup ToSet(down') \subseteq ToSet(OnItsWay) \cup ToSet(down)
    BY <1>1, <1>3
  <2>2. ASSUME NEW f \in Files
        PROVE  Fit(f, opens[f], buf[f], documents[f], told[f], ToSet(OnItsWay') \cup ToSet(down'))
    <3>1. Fit(f, opens[f], buf[f], documents[f], told[f], ToSet(OnItsWay) \cup ToSet(down))
      BY Parts, Zenon DEF FitInv
    <3> QED  BY <2>1, <3>1, Fewer
  <2> QED  BY <1>1, <2>2, Zenon DEF FitInv
<1>13. WaitInv'
  BY <1>1, <1>2, <1>7, Parts, Zenon DEF WaitInv, Waits
<1> QED  BY <1>4, <1>5, <1>6, <1>8, <1>9, <1>10, <1>11, <1>12, <1>13, Zenon DEF LspInv

LEMMA AskEndsInv == ASSUME LspInv, AskEnds PROVE LspInv'
<1>1. /\ UNCHANGED <<front, buf, disk, state, documents, queued, nextId, parked, applied, up, down,
                     alive, told, owed, bound, opens>>
      /\ at' = "keys" /\ asking' = NoId /\ responses' = Without(responses, asking)
  BY DEF AskEnds, process, counts
<1>2. OnItsWay' = OnItsWay
  BY <1>1, Zenon DEF OnItsWay
<1>3. /\ responses' \in Seq(Replies) /\ Len(responses') <= Len(responses) /\ Len(responses) \in Nat
      /\ ToSet(responses') \subseteq ToSet(responses) /\ Drawn(responses', responses)
  BY <1>1, WayFacts, WithoutFacts
<1>4. Answers' \subseteq Answers
  BY <1>1, <1>3 DEF Answers
<1>5. TypeInv'
  <2>1. at' \in {"keys", "service", "sync", "diagnostics", "tokens"} /\ asking' \in Nat
    BY <1>1 DEF NoId
  <2> QED  BY <1>1, <1>3, <2>1, Types, Zenon DEF TypeInv
<1>6. ClientShape(state, alive, queued, up, down, responses, owed, told)'
  <2>1. responses = <<>> => responses' = <<>>
    BY <1>3, WayFacts
  <2>2. Len(responses') <= MaxResponses
    <3>1. Len(responses) <= MaxResponses
      BY Parts, Zenon DEF ClientShape
    <3>2. Len(responses') \in Nat
      BY <1>3
    <3> QED  BY <1>3, <3>1, <3>2, Fields
  <2> QED  BY <1>1, <2>1, <2>2, Parts, Zenon DEF ClientShape
<1>7. EditorShape(at, front, buf, asking)'
  BY <1>1, Parts DEF EditorShape
<1>8. HeldInv' /\ PaintInv'
  BY <1>1, Parts, Zenon DEF HeldInv, PaintInv
<1>9. IdsInv'
  <2>1. IdsApart(OnItsWay, owed, down, responses, nextId)
    BY Parts, Zenon DEF IdsInv
  <2>2. Ids(ToSet(responses')) \subseteq Ids(ToSet(responses))
    BY <1>3, IdFacts
  <2>3. Apart(responses')
    <3>1. Apart(responses)
      BY <2>1, Zenon DEF IdsApart
    <3> QED  BY <1>3, <3>1, WayFacts, ApartDrawn
  <2>4. IdsApart(OnItsWay, owed, down, responses', nextId)
    BY <2>1, <2>2, <2>3, FewerIds
  <2> QED  BY <1>1, <1>2, <2>4, Zenon DEF IdsInv
<1>10. AskedInv'
  <2>1. ToSet(OnItsWay') \cup Answers' \subseteq ToSet(OnItsWay) \cup Answers
    BY <1>2, <1>4
  <2> QED  BY <1>1, <2>1, Parts, Fewer DEF AskedInv
<1>11. StepInv' /\ FitInv'
  BY <1>1, <1>2, Parts, Zenon DEF StepInv, FitInv
<1>12. WaitInv'
  <2>1. \A id, text : AnsweredFor(Answers, id, text) => AnsweredFor(Answers', id, text)
    BY <1>4, Fewer
  <2> QED  BY <1>1, <1>2, <2>1, Parts, Zenon DEF WaitInv
<1> QED  BY <1>5, <1>6, <1>7, <1>8, <1>9, <1>10, <1>11, <1>12, Zenon DEF LspInv

\* The server process goes.
LEMMA ExitInv == ASSUME LspInv, Exit PROVE LspInv'
<1>1. /\ UNCHANGED <<at, front, buf, disk, state, documents, queued, responses, nextId, parked, applied, asking, down,
                     bound, opens>>
      /\ ~alive' /\ told' = [f \in Files |-> NotTold] /\ owed' = {} /\ up' = <<>>
      /\ state \in {"initializing", "ready"}
  <2>1. alive => state \in {"initializing", "ready"}
    BY WayFacts
  <2> QED  BY <2>1 DEF Exit, Beside, editor, client, session, counts
<1>2. OnItsWay' = queued /\ Answers' \subseteq Answers
  <2>1. <<>> \o queued = queued
    BY WayFacts, ConcatFacts
  <2>2. OnItsWay' = queued
    BY <1>1, <2>1, Zenon DEF OnItsWay
  <2> QED  BY <1>1, <2>2 DEF Answers
<1>3. ToSet(OnItsWay') \subseteq ToSet(OnItsWay)
  <2>1. ASSUME NEW i \in 1..Len(queued) PROVE queued[i] \in ToSet(OnItsWay)
    <3>1. /\ Len(up) \in Nat /\ Len(queued) \in Nat /\ Len(OnItsWay) = Len(up) + Len(queued)
          /\ OnItsWay[Len(up) + i] = queued[i] /\ DOMAIN OnItsWay = 1..Len(OnItsWay)
      BY WayFacts DEF OnItsWay
    <3>2. Len(up) + i \in 1..Len(OnItsWay)
      BY <3>1
    <3> QED  BY <3>1, <3>2 DEF ToSet
  <2>2. DOMAIN queued = 1..Len(queued)
    BY WayFacts
  <2> QED  BY <1>2, <2>1, <2>2 DEF ToSet
<1>4. TypeInv'
  <2>1. up' \in Seq(Questions \cup Notes)
    BY <1>1, NoElements, Zenon
  <2>3. owed' \in SUBSET Replies /\ alive' \in BOOLEAN
    BY <1>1 DEF Exit
  <2>2. told' \in [Files -> Views]
    BY <1>1, Fields
  <2> QED  BY <1>1, <2>1, <2>2, <2>3, Types, Zenon DEF TypeInv
<1>5. ClientShape(state, alive, queued, up, down, responses, owed, told)'
  <2>1. \A f \in Files : told'[f] = NotTold
    BY <1>1
  <2> QED  BY <1>1, <2>1, Parts DEF ClientShape
<1>6. EditorShape(at, front, buf, asking)'
  BY <1>1, Parts DEF EditorShape
<1>7. HeldInv' /\ PaintInv'
  BY <1>1, Parts, Zenon DEF HeldInv, PaintInv
<1>8. IdsInv'
  <2>1. IdsApart(OnItsWay, owed, down, responses, nextId)
    BY Parts, Zenon DEF IdsInv
  <2>2. IdsApart(queued, {}, down, responses, nextId)
    BY <2>1, WayFacts, FewerIds
  <2> QED  BY <1>1, <1>2, <2>2 DEF IdsInv
<1>9. AskedInv'
  <2>1. ToSet(OnItsWay') \cup Answers' \subseteq ToSet(OnItsWay) \cup Answers
    BY <1>2, <1>3
  <2> QED  BY <1>1, <2>1, Parts, Fewer DEF AskedInv
<1>10. StepInv'
  BY <1>1, Zenon DEF StepInv
<1>11. FitInv'
  <2>1. ToSet(OnItsWay') \cup ToSet(down') \subseteq ToSet(OnItsWay) \cup ToSet(down)
    BY <1>1, <1>3
  <2>2. ASSUME NEW f \in Files
        PROVE  Fit(f, opens[f], buf[f], documents[f], told'[f], ToSet(OnItsWay') \cup ToSet(down'))
    <3>1. Fit(f, opens[f], buf[f], documents[f], told[f], ToSet(OnItsWay) \cup ToSet(down))
      BY Parts, Zenon DEF FitInv
    <3>2. told'[f] = NotTold
      BY <1>1
    <3> QED  BY <2>1, <3>1, <3>2, Fewer
  <2> QED  BY <1>1, <2>2, Zenon DEF FitInv
<1>12. WaitInv'
  <2>1. \A id, text : AnsweredFor(Answers, id, text) => AnsweredFor(Answers', id, text)
    BY <1>2, Fewer
  <2> QED  BY <1>1, <2>1, Parts, Zenon DEF WaitInv
<1> QED  BY <1>4, <1>5, <1>6, <1>7, <1>8, <1>9, <1>10, <1>11, <1>12, Zenon DEF LspInv

LEMMA RestartInv == ASSUME LspInv, Restart PROVE LspInv'
<1>1. /\ UNCHANGED <<at, front, buf, disk, parked, applied, asking, bound, opens>>
      /\ state' = "none" /\ alive' = FALSE /\ nextId' = 1
      /\ documents' = [f \in Files |-> NoDocument] /\ told' = [f \in Files |-> NotTold]
      /\ owed' = {} /\ queued' = <<>> /\ responses' = <<>> /\ up' = <<>> /\ down' = <<>>
  BY DEF Restart, editor, session, counts
<1>2. OnItsWay' = <<>>
  BY <1>1 DEF OnItsWay
<1>3. ToSet(OnItsWay') = {} /\ ToSet(down') = {} /\ ToSet(responses') = {}
  BY <1>1, <1>2, NoElements, Zenon
<1>4. TypeInv'
  <2>1. /\ queued' \in Seq(Notes) /\ up' \in Seq(Questions \cup Notes) /\ responses' \in Seq(Replies)
        /\ down' \in Seq(Replies \cup Publications)
    BY <1>1, NoElements, Zenon
  <2>2. documents' \in [Files -> Documents] /\ told' \in [Files -> Views]
    BY <1>1, Fields
  <2>3. owed' \in SUBSET Replies /\ nextId' \in Nat \ {0}
    BY <1>1
  <2>4. alive' \in BOOLEAN
    BY <1>1, Zenon
  <2>5. state' \in {"none", "failed", "initializing", "ready", "dead"}
    BY <1>1, Zenon
  <2> QED  BY <1>1, <2>1, <2>2, <2>3, <2>4, <2>5, Types, Zenon DEF TypeInv
<1>5. ClientShape(state, alive, queued, up, down, responses, owed, told)'
  <2>1. \A f \in Files : told'[f] = NotTold
    BY <1>1
  <2> QED  BY <1>1, <2>1, Fields DEF ClientShape
<1>6. EditorShape(at, front, buf, asking)'
  BY <1>1, Parts DEF EditorShape
<1>7. HeldInv'
  <2>1. ASSUME NEW f \in Files PROVE Held(buf[f], documents'[f], applied[f], parked[f], bound.edits[f], state')
    <3>1. documents'[f].version = Unknown
      BY <1>1 DEF NoDocument
    <3> QED  BY <3>1, OpenBuffer, Zenon DEF Held
  <2> QED  BY <1>1, <2>1, Zenon DEF HeldInv
<1>8. \A f \in Files : documents'[f].version = Unknown
  BY <1>1 DEF NoDocument
<1>9. PaintInv' /\ WaitInv'
  BY <1>1, <1>8, Parts, Zenon DEF PaintInv, Paints, WaitInv, Waits, Own
<1>10. IdsInv'
  <2>1. Ids(ToSet(<<>>)) = {} /\ Ids({}) = {} /\ Apart(<<>>) /\ OnePer({})
    BY NoElements DEF Ids, Apart, OnePer
  <2>2. IdsApart(<<>>, {}, <<>>, <<>>, 1)
    BY <2>1 DEF IdsApart
  <2> QED  BY <1>1, <1>2, <2>2 DEF IdsInv
<1>11. AskedInv'
  BY <1>1, <1>3 DEF AskedInv, Asked, Answers
<1>12. StepInv'
  BY <1>1, Zenon DEF StepInv
<1>13. FitInv'
  <2>1. ASSUME NEW f \in Files PROVE Fit(f, opens[f], buf[f], documents'[f], told'[f], {})
    <3>1. documents'[f].published = <<>> /\ ~documents'[f].unapplied /\ ~told'[f].due
      BY <1>1 DEF NoDocument, NotTold
    <3>2. buf[f] # Closed /\ buf[f].diags # NoText /\ buf[f].drawn = opens[f] => buf[f].diags = buf[f].text
      BY Parts, Zenon DEF FitInv, Fit
    <3>3. Fitting({}, f, opens[f], buf[f]) /\ Len(<<>>) = 0
      BY DEF Fitting
    <3>4. \A i \in 1..Len(documents'[f].published) : documents'[f].published[i].file = f
      BY <3>1
    <3>5. Fitting(ToSet(documents'[f].published), f, opens[f], buf[f])
      BY <3>1, <3>3, NoElements, Zenon
    <3> QED  BY <3>1, <3>2, <3>3, <3>4, <3>5, Zenon DEF Fit
  <2>2. ToSet(OnItsWay') \cup ToSet(down') = {}
    BY <1>3
  <2> QED  BY <1>1, <2>1, <2>2, Zenon DEF FitInv
<1> QED  BY <1>4, <1>5, <1>6, <1>7, <1>9, <1>10, <1>11, <1>12, <1>13, Zenon DEF LspInv

-----------------------------------------------------------------------------
(* What is shown of a buffer changes. *)

\* Two buffers of one version and text.
Alike(b, c) == b # Closed /\ c # Closed /\ c.version = b.version /\ c.text = b.text

LEMMA AlikeFacts ==
    ASSUME NEW b, NEW c, Alike(b, c)
    PROVE  /\ \A v, x, l, o : Fits(v, x, l, o, b) => Fits(v, x, l, o, c)
           /\ \A d, h : EndsWith(d, b, h) => EndsWith(d, c, h)
           /\ \A d, ap, pk, n, s : Held(b, d, ap, pk, n, s) => Held(c, d, ap, pk, n, s)
           /\ \A l, o, d : Own(l, o, c, d) => Own(l, o, b, d)
           /\ \A o, pk, d : Waits(o, pk, c, d) => Waits(o, pk, b, d)
<1>1. Differs(c) <=> Differs(b)
  BY DEF Alike, Differs
<1>2. \A v, x, l, o : Fits(v, x, l, o, b) => Fits(v, x, l, o, c)
  BY DEF Alike, Fits
<1>3. \A d, h : EndsWith(d, b, h) => EndsWith(d, c, h)
  BY <1>1 DEF Alike, EndsWith
<1>4. \A d, ap, pk, n, s : Held(b, d, ap, pk, n, s) => Held(c, d, ap, pk, n, s)
  BY DEF Alike, Held
<1>5. \A l, o, d : Own(l, o, c, d) => Own(l, o, b, d)
  BY DEF Alike, Own
<1>6. \A o, pk, d : Waits(o, pk, c, d) => Waits(o, pk, b, d)
  BY <1>1, <1>5 DEF Alike, Waits
<1> QED  BY <1>2, <1>3, <1>4, <1>5, <1>6

LEMMA FitFacts ==
    ASSUME LspInv, NEW f \in Files
    PROVE  /\ Fit(f, opens[f], buf[f], documents[f], told[f], ToSet(OnItsWay) \cup ToSet(down))
           /\ documents[f] \in Documents /\ told[f] \in Views
<1>1. Fit(f, opens[f], buf[f], documents[f], told[f], ToSet(OnItsWay) \cup ToSet(down))
  BY Parts, Zenon DEF FitInv
<1> QED  BY <1>1, OpenBuffer, Zenon

\* What is drawn over f is replaced, and a publication is taken or is to be taken.
LEMMA ShownStep ==
    ASSUME LspInv, NEW f \in Files, Alike(buf[f], buf'[f]),
           buf'[f].spans = buf[f].spans, buf'[f].asked = buf[f].asked,
           UNCHANGED <<front, disk, state, queued, responses, nextId, parked, applied, asking, up, down, alive, told, owed,
                       bound, opens>>,
           at' \in {"keys", "service", "sync", "diagnostics", "tokens"}, at' # "service" => asking = NoId, front # NoFile,
           buf' \in [Files -> Buffers], documents' \in [Files -> Documents],
           \A g \in Files : g # f => buf'[g] = buf[g] /\ documents'[g] = documents[g],
           documents'[f].version = documents[f].version, documents'[f].sent = documents[f].sent,
           documents'[f].published = documents[f].published, documents'[f].unapplied => documents[f].published # <<>>,
           buf'[f].diags # NoText /\ buf'[f].drawn = opens[f] => buf'[f].diags = buf[f].text
    PROVE  LspInv'
<1>1. OnItsWay' = OnItsWay /\ Answers' = Answers
  BY Zenon DEF OnItsWay, Answers
<1>2. TypeInv'
  BY Types, Zenon DEF TypeInv
<1>3. ClientShape(state, alive, queued, up, down, responses, owed, told)'
  BY Parts, Zenon
<1>4. EditorShape(at, front, buf, asking)'
  <2>1. EditorShape(at, front, buf, asking)
    BY Parts, Zenon
  <2>2. buf'[front] # Closed
    <3>1. front \in Files
      BY Types, Zenon
    <3> QED  BY <2>1, <3>1 DEF EditorShape, Alike
  <2> QED  BY <2>1, <2>2, Zenon DEF EditorShape
<1>5. HeldInv'
  <2>1. ASSUME NEW g \in Files PROVE Held(buf'[g], documents'[g], applied[g], parked[g], bound.edits[g], state)
    <3>1. Held(buf[g], documents[g], applied[g], parked[g], bound.edits[g], state)
      BY OpenBuffer, Zenon
    <3>2. CASE g # f
      BY <3>1, <3>2, Zenon
    <3>3. CASE g = f
      <4>1. Held(buf'[f], documents[f], applied[f], parked[f], bound.edits[f], state)
        BY <3>1, <3>3, AlikeFacts, Zenon
      <4> QED  BY <3>3, <4>1, Zenon DEF Held
    <3> QED  BY <3>2, <3>3
  <2> QED  BY <2>1, Zenon DEF HeldInv
<1>6. IdsInv' /\ AskedInv'
  BY <1>1, Parts, Zenon DEF IdsInv, AskedInv
<1>7. StepInv'
  <2> SUFFICES ASSUME alive, NEW g \in Files PROVE InStep(g, documents'[g], buf'[g], told[g], OnItsWay)
    BY <1>1, Zenon DEF StepInv
  <2>1. InStep(g, documents[g], buf[g], told[g], OnItsWay)
    BY Parts, Zenon DEF StepInv
  <2>2. CASE g # f
    BY <2>1, <2>2, Zenon
  <2>3. CASE g = f
    <3>1. EndsWith(documents[f], buf'[f], HeardOf(told[f], f, OnItsWay, Len(OnItsWay)))
      BY <2>1, <2>3, AlikeFacts, Zenon DEF InStep
    <3>2. EndsWith(documents'[f], buf'[f], HeardOf(told[f], f, OnItsWay, Len(OnItsWay)))
      BY <3>1, Zenon DEF EndsWith
    <3> QED  BY <2>1, <2>3, <3>2, Zenon DEF InStep
  <2> QED  BY <2>2, <2>3
<1>8. FitInv'
  <2> SUFFICES ASSUME NEW g \in Files
               PROVE  Fit(g, opens[g], buf'[g], documents'[g], told[g], ToSet(OnItsWay) \cup ToSet(down))
    BY <1>1, Zenon DEF FitInv
  <2>1. CASE g # f
    BY <2>1, FitFacts, Zenon
  <2>2. CASE g = f
    <3>1. Fit(f, opens[f], buf'[f], documents[f], told[f], ToSet(OnItsWay) \cup ToSet(down))
      <4>1. buf'[f].text = buf[f].text
        BY DEF Alike
      <4>2. \A v \in Versions, l \in Nat : \A x : Fits(v, x, l, opens[f], buf[f]) => Fits(v, x, l, opens[f], buf'[f])
        BY AlikeFacts, Zenon
      <4>3. buf'[f] # Closed /\ buf'[f].diags # NoText /\ buf'[f].drawn = opens[f] => buf'[f].diags = buf'[f].text
        BY <4>1, Zenon
      <4> QED  BY <4>2, <4>3, FitFacts, FitLater, OnThePipes, Zenon
    <3> QED  BY <2>2, <3>1, Zenon DEF Fit
  <2> QED  BY <2>1, <2>2
<1>9. PaintInv'
  <2> SUFFICES ASSUME NEW g \in Files
               PROVE  Paints(opens[g], parked[g], applied[g], buf'[g], documents'[g], nextId)
    BY Zenon DEF PaintInv
  <2>1. Paints(opens[g], parked[g], applied[g], buf[g], documents[g], nextId)
    BY Parts, Zenon DEF PaintInv
  <2>2. CASE g # f
    BY <2>1, <2>2, Zenon
  <2>3. CASE g = f
    <3>1. Paints(opens[f], parked[f], applied[f], buf'[f], documents'[f], nextId)
      BY <2>1, <2>3 DEF Paints, Own, Alike, Differs
    <3> QED  BY <2>3, <3>1, Zenon
  <2> QED  BY <2>2, <2>3
<1>10. WaitInv'
  <2> SUFFICES ASSUME NEW g \in Files, Waits(opens[g], parked[g], buf'[g], documents'[g])
               PROVE  /\ AnsweredFor(Answers, parked[g].id, buf'[g].text)
                      /\ alive => AsksFor(OnItsWay, g, told[g], parked[g].id, buf'[g].text)
    BY <1>1, Zenon DEF WaitInv
  <2>1. CASE g # f
    BY <2>1, Parts, Zenon DEF WaitInv
  <2>2. CASE g = f
    <3>1. buf'[f].text = buf[f].text
      BY DEF Alike
    <3>2. Waits(opens[f], parked[f], buf[f], documents[f])
      <4>1. Waits(opens[f], parked[f], buf'[f], documents[f])
        BY <2>2, Zenon DEF Waits, Own
      <4> QED  BY <4>1, AlikeFacts, Zenon
    <3> QED  BY <2>2, <3>1, <3>2, Parts, Zenon DEF WaitInv
  <2> QED  BY <2>1, <2>2
<1> QED  BY <1>2, <1>3, <1>4, <1>5, <1>6, <1>7, <1>8, <1>9, <1>10, Zenon DEF LspInv

\* A buffer with other diagnostics over it.
Draws(f, x, y) == buf' = [buf EXCEPT ![f].diags = x, ![f].drawn = y]

LEMMA RedrawnFacts ==
    ASSUME LspInv, NEW f \in Files, buf[f] # Closed, NEW x \in Taken, NEW y \in Nat, Draws(f, x, y)
    PROVE  /\ buf' \in [Files -> Buffers] /\ \A g \in Files : g # f => buf'[g] = buf[g]
           /\ Alike(buf[f], buf'[f]) /\ buf'[f].spans = buf[f].spans /\ buf'[f].asked = buf[f].asked
           /\ buf'[f].diags = x /\ buf'[f].drawn = y
<1> DEFINE b == buf[f]
           c == [b EXCEPT !.diags = x, !.drawn = y]
<1>1. /\ buf \in [Files -> Buffers] /\ b \in Buffers /\ b.version \in Nat
  BY Types, OpenBuffer
<1>2. /\ c \in Buffers /\ c.diags = x /\ c.drawn = y /\ c.version = b.version /\ c.text = b.text
      /\ c.spans = b.spans /\ c.asked = b.asked
  BY <1>1 DEF Buffers
<1>3. buf' = [buf EXCEPT ![f] = c]
  BY DEF Draws
<1> HIDE DEF c
<1>4. c # Closed
  BY <1>1, <1>2 DEF Closed, Unknown
<1>5. buf' \in [Files -> Buffers] /\ buf'[f] = c /\ \A g \in Files : g # f => buf'[g] = buf[g]
  BY <1>1, <1>2, <1>3
<1> QED  BY <1>2, <1>4, <1>5 DEF Alike

\* A document whose publication is to be taken, or has been.
LEMMA DueFacts ==
    ASSUME LspInv, NEW f \in Files, NEW u \in BOOLEAN, documents' = [documents EXCEPT ![f].unapplied = u]
    PROVE  /\ documents' \in [Files -> Documents] /\ \A g \in Files : g # f => documents'[g] = documents[g]
           /\ documents'[f].version = documents[f].version /\ documents'[f].sent = documents[f].sent
           /\ documents'[f].published = documents[f].published /\ documents'[f].unapplied = u
<1> DEFINE d == documents[f]
           e == [d EXCEPT !.unapplied = u]
<1>1. documents \in [Files -> Documents] /\ d \in Documents
  BY Types, OpenBuffer
<1>2. /\ e \in Documents /\ e.version = d.version /\ e.sent = d.sent /\ e.published = d.published
      /\ e.unapplied = u
  BY <1>1 DEF Documents
<1>3. documents' = [documents EXCEPT ![f] = e]
  OBVIOUS
<1> HIDE DEF e
<1> QED  BY <1>1, <1>2, <1>3

\* Where a tick is past its service the editor is in a file, and asks nothing.
LEMMA InFront ==
    ASSUME LspInv, at \in {"sync", "diagnostics", "tokens"}
    PROVE  front \in Files /\ front # NoFile /\ buf[front] # Closed /\ asking = NoId
<1>1. EditorShape(at, front, buf, asking) /\ front \in Files \cup {NoFile}
  BY Parts, Types, Zenon
<1> QED  BY <1>1 DEF EditorShape

\* And so between two ticks, in the file whose keys are typed.
LEMMA Typed ==
    ASSUME LspInv, at = "keys", NEW f \in Files, front = f
    PROVE  f # NoFile /\ buf[f] # Closed /\ asking = NoId
<1>1. EditorShape(at, front, buf, asking) /\ f # NoFile
  BY Parts, Fields, Zenon
<1> QED  BY <1>1 DEF EditorShape

\* A buffer that is open has been opened, and is drawn what fits.
LEMMA OpenedOnce == ASSUME LspInv, NEW f \in Files, buf[f] # Closed PROVE opens[f] # 0
  BY Parts, Zenon DEF PaintInv, Paints

LEMMA DrawnFacts ==
    ASSUME LspInv, NEW f \in Files, buf[f] # Closed
    PROVE  buf[f].diags # NoText /\ buf[f].drawn = opens[f] => buf[f].diags = buf[f].text
  BY FitFacts, Zenon DEF Fit

LEMMA DiagnoseInv == ASSUME LspInv, NEW f \in Files, Diagnose(f) PROVE LspInv'
<1> DEFINE u == documents[f].published # <<>>
<1>1. /\ at = "keys" /\ front = f
      /\ UNCHANGED <<at, front, buf, disk, state, queued, responses, nextId, parked, applied, asking, up, down, alive, told,
                     owed, bound, opens>>
      /\ documents' = [documents EXCEPT ![f].unapplied = u]
  BY DEF Diagnose, AtKeys, editor, session, process, counts
<1>2. f # NoFile /\ buf[f] # Closed /\ asking = NoId
  BY <1>1, Typed
<1>3. u \in BOOLEAN
  OBVIOUS
<1> HIDE DEF u
<1>4. /\ documents' \in [Files -> Documents] /\ \A g \in Files : g # f => documents'[g] = documents[g]
      /\ documents'[f].version = documents[f].version /\ documents'[f].sent = documents[f].sent
      /\ documents'[f].published = documents[f].published /\ documents'[f].unapplied = u
  BY <1>1, <1>3, DueFacts
<1>5. Alike(buf[f], buf'[f]) /\ buf' \in [Files -> Buffers]
  BY <1>1, <1>2, Types DEF Alike
<1>6. buf'[f].diags # NoText /\ buf'[f].drawn = opens[f] => buf'[f].diags = buf[f].text
  BY <1>1, <1>2, DrawnFacts
<1>7. documents'[f].unapplied => documents[f].published # <<>>
  BY <1>4, Zenon DEF u
<1>8. at' \in {"keys", "service", "sync", "diagnostics", "tokens"}
  BY <1>1
<1> QED  BY <1>1, <1>2, <1>4, <1>5, <1>6, <1>7, <1>8, ShownStep, Zenon

LEMMA ClearDiagnosticsInv == ASSUME LspInv, NEW f \in Files, ClearDiagnostics(f) PROVE LspInv'
<1>1. /\ at = "keys" /\ front = f
      /\ UNCHANGED <<at, front, disk, state, documents, queued, responses, nextId, parked, applied, asking, up, down, alive,
                     told, owed, bound, opens>>
      /\ buf' = [buf EXCEPT ![f].diags = NoText, ![f].drawn = 0]
  BY DEF ClearDiagnostics, AtKeys, client, session, process, counts
<1>2. f # NoFile /\ buf[f] # Closed /\ asking = NoId
  BY <1>1, Typed
<1>3. /\ buf' \in [Files -> Buffers] /\ \A g \in Files : g # f => buf'[g] = buf[g]
      /\ Alike(buf[f], buf'[f]) /\ buf'[f].spans = buf[f].spans /\ buf'[f].asked = buf[f].asked
      /\ buf'[f].diags = NoText
  <2>1. Draws(f, NoText, 0) /\ 0 \in Nat
    BY <1>1 DEF Draws
  <2> QED  BY <1>2, <2>1, RedrawnFacts, Fields, Zenon
<1>4. documents' \in [Files -> Documents] /\ (documents[f].unapplied => documents[f].published # <<>>)
  <2>1. documents[f].unapplied => documents[f].published # <<>>
    BY FitFacts, Zenon DEF Fit
  <2> QED  BY <1>1, <2>1, Types, Zenon
<1>5. at' \in {"keys", "service", "sync", "diagnostics", "tokens"}
  BY <1>1
<1> QED  BY <1>1, <1>2, <1>3, <1>4, <1>5, ShownStep, Zenon

LEMMA ApplyDiagnosticsInv == ASSUME LspInv, ApplyDiagnostics PROVE LspInv'
<1>1. /\ at = "diagnostics" /\ at' = "tokens"
      /\ UNCHANGED <<front, disk, state, queued, responses, nextId, parked, applied, asking, up, down, alive, told, owed,
                     bound, opens>>
  BY DEF ApplyDiagnostics, session, process, counts
<1>2. front \in Files /\ front # NoFile /\ buf[front] # Closed /\ asking = NoId
  BY <1>1, InFront
<1> DEFINE b == buf[front]
           d == documents[front]
           p == d.published[1]
<1>3. buf \in [Files -> Buffers] /\ documents \in [Files -> Documents] /\ (d.unapplied => d.published # <<>>)
  <2>1. d.unapplied => d.published # <<>>
    BY <1>2, FitFacts, Zenon DEF Fit
  <2> QED  BY <2>1, Types, Zenon
<1>4. ASSUME d.unapplied, AboutThis(p, b)
      PROVE  /\ p.text \in Taken /\ p.life \in Nat
             /\ p.version # Unknown /\ p.life = opens[front] => p.text = b.text
  <2>1. d.published \in Seq(Publications) /\ d.published # <<>>
    BY <1>2, <1>3, <1>4, OpenBuffer, Fields
  <2>2. p \in Publications /\ 1 \in 1..Len(d.published) /\ p \in ToSet(d.published)
    <3>1. 1 \in 1..Len(d.published) /\ DOMAIN d.published = 1..Len(d.published)
      BY <2>1
    <3> QED  BY <2>1, <3>1 DEF ToSet
  <2>3. p.text \in Taken /\ p.life \in Nat /\ p.type = "publish"
    BY <2>2 DEF Publications
  <2>4. p.file = front /\ Fitting(ToSet(d.published), front, opens[front], b)
    BY <1>2, <2>2, FitFacts, Zenon DEF Fit
  <2>5. Fits(p.version, p.text, p.life, opens[front], b)
    BY <2>2, <2>3, <2>4 DEF Fitting
  <2>6. p.version # Unknown => p.version = b.version
    BY <1>4, Zenon DEF AboutThis
  <2> QED  BY <1>2, <2>3, <2>5, <2>6, Zenon DEF Fits
<1>5. \/ buf' = buf
      \/ \E x \in Taken, y \in Nat : Draws(front, x, y) /\ (x # NoText /\ y = opens[front] => x = b.text)
  <2>1. CASE ~Running \/ state = "dead"
    <3>1. Draws(front, NoText, 0) /\ 0 \in Nat
      BY <2>1 DEF ApplyDiagnostics, Draws
    <3> QED  BY <3>1, Fields, Zenon
  <2>2. CASE ~(~Running \/ state = "dead") /\ ~(d.unapplied /\ AboutThis(p, b))
    BY <2>2 DEF ApplyDiagnostics
  <2>3. CASE ~(~Running \/ state = "dead") /\ d.unapplied /\ AboutThis(p, b)
    <3> DEFINE y == IF p.version = Unknown THEN 0 ELSE p.life
    <3>1. Draws(front, p.text, y)
      BY <2>3 DEF ApplyDiagnostics, Redrawn, Draws
    <3>2. y \in Nat /\ p.text \in Taken
      BY <1>4, <2>3
    <3>3. y = opens[front] => p.text = b.text
      <4>1. opens[front] # 0
        BY <1>2, OpenedOnce
      <4> QED  BY <1>4, <2>3, <4>1
    <3> HIDE DEF y, p
    <3> QED  BY <3>1, <3>2, <3>3
  <2> QED  BY <2>1, <2>2, <2>3
<1>6. /\ buf' \in [Files -> Buffers] /\ \A g \in Files : g # front => buf'[g] = buf[g]
      /\ Alike(b, buf'[front]) /\ buf'[front].spans = b.spans /\ buf'[front].asked = b.asked
      /\ buf'[front].diags # NoText /\ buf'[front].drawn = opens[front] => buf'[front].diags = b.text
  <2>1. CASE buf' = buf
    BY <1>2, <1>3, <2>1, DrawnFacts DEF Alike
  <2>2. ASSUME NEW x \in Taken, NEW y \in Nat, Draws(front, x, y),
               x # NoText /\ y = opens[front] => x = b.text
        PROVE  /\ buf' \in [Files -> Buffers] /\ \A g \in Files : g # front => buf'[g] = buf[g]
               /\ Alike(b, buf'[front]) /\ buf'[front].spans = b.spans /\ buf'[front].asked = b.asked
               /\ buf'[front].diags # NoText /\ buf'[front].drawn = opens[front] => buf'[front].diags = b.text
    <3>1. /\ buf' \in [Files -> Buffers] /\ \A g \in Files : g # front => buf'[g] = buf[g]
          /\ Alike(buf[front], buf'[front]) /\ buf'[front].spans = buf[front].spans
          /\ buf'[front].asked = buf[front].asked /\ buf'[front].diags = x /\ buf'[front].drawn = y
      BY <1>2, <2>2, RedrawnFacts, Zenon
    <3> QED  BY <2>2, <3>1, Zenon
  <2> QED  BY <1>5, <2>1, <2>2
<1>7. /\ documents' \in [Files -> Documents]
      /\ \A g \in Files : g # front => documents'[g] = documents[g]
      /\ documents'[front].version = d.version /\ documents'[front].sent = d.sent
      /\ documents'[front].published = d.published /\ (documents'[front].unapplied => d.published # <<>>)
  <2>1. CASE documents' = documents
    BY <1>2, <1>3, <2>1
  <2>2. CASE documents' = [documents EXCEPT ![front].unapplied = FALSE]
    BY <1>2, <2>2, DueFacts
  <2> QED  BY <2>1, <2>2 DEF ApplyDiagnostics
<1>8. at' \in {"keys", "service", "sync", "diagnostics", "tokens"}
  BY <1>1
<1> QED  BY <1>1, <1>2, <1>6, <1>7, <1>8, ShownStep, Zenon

-----------------------------------------------------------------------------
(* Steps of the server process. *)

\* One more message: it says nothing of f that does not fit.
LEMMA FitMore ==
    ASSUME NEW S, NEW m, NEW f, NEW o, NEW b, NEW d, NEW t, Fit(f, o, b, d, t, S),
           m.type \in {"didOpen", "didChange", "publish"} /\ m.file = f => Fits(m.version, m.text, m.life, o, b)
    PROVE  Fit(f, o, b, d, t, S \cup {m})
<1>1. Fitting(S \cup {m}, f, o, b)
  BY DEF Fit, Fitting
<1> QED  BY <1>1, Zenon DEF Fit

\* The client is as it was.
LEMMA BesideInv ==
    ASSUME LspInv, UNCHANGED <<editor, client, session, alive, bound, opens>>
    PROVE  /\ UNCHANGED <<at, front, buf, disk, state, documents, queued, responses, nextId, parked, applied, asking,
                          alive, bound, opens>>
           /\ EditorShape(at, front, buf, asking)' /\ HeldInv' /\ PaintInv'
<1>1. UNCHANGED <<at, front, buf, disk, state, documents, queued, responses, nextId, parked, applied, asking,
                  alive, bound, opens>>
  BY DEF editor, client, session
<1>2. EditorShape(at, front, buf, asking)'
  BY <1>1, Parts, Zenon
<1>3. HeldInv' /\ PaintInv'
  BY <1>1, Parts, Zenon DEF HeldInv, PaintInv
<1> QED  BY <1>1, <1>2, <1>3

LEMMA AnswerInv == ASSUME LspInv, NEW r \in owed, Answer(r) PROVE LspInv'
<1>01. PICK x \in {r, [r EXCEPT !.about = Refused]} : down' = Append(down, x)
  BY DEF Answer
<1>0. /\ UNCHANGED <<editor, client, session, alive, bound, opens>>
      /\ up' = up /\ told' = told /\ owed' = owed \ {r} /\ down' = Append(down, x)
      /\ alive
  BY <1>01 DEF Answer, Beside, counts
<1>1. /\ UNCHANGED <<at, front, buf, disk, state, documents, queued, responses, nextId, parked, applied, asking,
                     alive, bound, opens>>
      /\ EditorShape(at, front, buf, asking)' /\ HeldInv' /\ PaintInv'
  BY <1>0, BesideInv
<1>2. OnItsWay' = OnItsWay
  BY <1>0, <1>1, Zenon DEF OnItsWay
<1>3. /\ r \in Replies /\ x \in Replies /\ x \in Heads /\ x.type = "response" /\ x.id = r.id /\ x.file = r.file
      /\ x.about \in {r.about, Refused}
  <2>1. r \in Replies
    BY WayFacts
  <2>2. x \in Replies /\ x.id = r.id /\ x.file = r.file /\ x.about \in {r.about, Refused}
    BY <1>01, <2>1, Fields DEF Replies
  <2> QED  BY <2>1, <2>2, Kinds DEF Heads
<1>4. down' \in Seq(Heads) /\ ToSet(down') = ToSet(down) \cup {x}
  BY <1>0, <1>3, WayFacts, AppendFacts
<1>5. Answers' \subseteq Answers \cup {x} /\ r \in Answers
  BY <1>0, <1>1, <1>4 DEF Answers
<1>6. TypeInv'
  <2>1. owed' \in SUBSET Replies
    BY <1>0, WayFacts
  <2> QED  BY <1>0, <1>1, <1>4, <2>1, Types, Zenon DEF TypeInv, Heads
<1>7. ClientShape(state, alive, queued, up, down, responses, owed, told)'
  <2>1. ClientShape(state, alive, queued, up, down, responses, owed, told)
    BY Parts, Zenon
  <2>2. state \notin {"none", "failed"}
    BY <1>0, <2>1 DEF ClientShape
  <2> QED  BY <1>0, <1>1, <2>1, <2>2, Zenon DEF ClientShape
<1>8. IdsInv'
  <2>1. IdsApart(OnItsWay, owed \ {r}, Append(down, x), responses, nextId)
    <3>1. IdsApart(OnItsWay, owed, down, responses, nextId) /\ nextId \in Nat \ {0}
      BY Parts, Types, Zenon DEF IdsInv
    <3> QED  BY <1>3, <3>1, WayFacts, AnswerIds
  <2> QED  BY <1>0, <1>1, <1>2, <2>1, Zenon DEF IdsInv
<1>9. AskedInv' /\ StepInv'
  <2>1. Asked(ToSet(OnItsWay) \cup Answers, parked) /\ r.type = "response"
    BY <1>3, Parts, Kinds, Zenon DEF AskedInv
  <2>2. Asked(ToSet(OnItsWay) \cup Answers', parked)
    BY <1>3, <1>5, <2>1 DEF Asked
  <2>3. AskedInv'
    BY <1>1, <1>2, <2>2, Zenon DEF AskedInv
  <2>4. StepInv'
    BY <1>0, <1>1, <1>2, Parts, Zenon DEF StepInv
  <2> QED  BY <2>3, <2>4
<1>10. FitInv'
  <2> DEFINE S == ToSet(OnItsWay) \cup ToSet(down)
  <2>1. ASSUME NEW f \in Files PROVE Fit(f, opens[f], buf[f], documents[f], told[f], S \cup {x})
    BY <1>3, FitFacts, FitMore
  <2>2. ToSet(OnItsWay) \cup ToSet(down') = S \cup {x}
    BY <1>4
  <2> QED  BY <1>0, <1>1, <1>2, <2>1, <2>2, Zenon DEF FitInv
<1>11. WaitInv'
  <2>1. ASSUME NEW id, NEW text, AnsweredFor(Answers, id, text) PROVE AnsweredFor(Answers', id, text)
    <3>1. r.type = "response" /\ (r.id = id => r.about \in {text, Refused})
      BY <1>3, <1>5, <2>1, Kinds DEF AnsweredFor
    <3> QED  BY <1>3, <1>5, <2>1, <3>1 DEF AnsweredFor
  <2> QED  BY <1>0, <1>1, <1>2, <2>1, Parts, Zenon DEF WaitInv
<1> QED  BY <1>1, <1>6, <1>7, <1>8, <1>9, <1>10, <1>11, Zenon DEF LspInv

LEMMA PublishInv == ASSUME LspInv, NEW f \in Files, Publish(f) PROVE LspInv'
<1> DEFINE t == told[f]
           u == [t EXCEPT !.due = FALSE]
<1>a. PICK v \in {t.version} \cup bound.unversioned : down' = Append(down, Publication(f, v))
  BY DEF Publish
<1>b. v \in {t.version, Unknown}
  <2>1. bound.unversioned \subseteq {Unknown}
    BY Types, Bounded, Zenon
  <2> QED  BY <2>1
<1> DEFINE p == Publication(f, v)
<1>c. /\ UNCHANGED <<editor, client, session, alive, bound, opens>>
      /\ up' = up /\ owed' = owed /\ alive /\ t.due /\ down' = Append(down, p) /\ told' = [told EXCEPT ![f] = u]
  BY <1>a DEF Publish, Beside
<1>1. /\ UNCHANGED <<at, front, buf, disk, state, documents, queued, responses, nextId, parked, applied, asking,
                     alive, bound, opens>>
      /\ EditorShape(at, front, buf, asking)' /\ HeldInv' /\ PaintInv'
  BY <1>c, BesideInv
<1>2. OnItsWay' = OnItsWay
  BY <1>c, <1>1, Zenon DEF OnItsWay
<1>3. t \in Views /\ told \in [Files -> Views]
  BY OpenBuffer, Types
<1>4. u \in Views /\ u.version = t.version /\ u.text = t.text /\ ~u.due
  BY <1>3 DEF Views
<1>5. /\ p \in Publications /\ p \in Heads /\ p.type = "publish" /\ p.file = f /\ p.version \in {t.version, Unknown}
      /\ p.text = t.text /\ p.life = t.life
  <2>1. v \in Versions
    BY <1>b, <1>3 DEF Views, Versions
  <2> QED  BY <1>b, <1>3, <2>1 DEF Publication, Views, Publications, Heads
<1> HIDE DEF p, u
<1>6. told' \in [Files -> Views] /\ told'[f] = u /\ \A g \in Files : g # f => told'[g] = told[g]
  BY <1>c, <1>3, <1>4
<1>7. down' \in Seq(Heads) /\ ToSet(down') = ToSet(down) \cup {p}
  BY <1>c, <1>5, WayFacts, AppendFacts
<1>8. TypeInv'
  BY <1>c, <1>1, <1>6, <1>7, Types, Zenon DEF TypeInv, Heads
<1>9. ClientShape(state, alive, queued, up, down, responses, owed, told)'
  <2>1. ClientShape(state, alive, queued, up, down, responses, owed, told)
    BY Parts, Zenon
  <2>2. state \notin {"none", "failed"}
    BY <1>c, <2>1 DEF ClientShape
  <2> QED  BY <1>c, <1>1, <2>1, <2>2, Zenon DEF ClientShape
<1>10. IdsInv'
  <2>1. IdsApart(OnItsWay, owed, Append(down, p), responses, nextId)
    BY <1>5, Parts, WayFacts, PublishIds DEF IdsInv
  <2> QED  BY <1>c, <1>1, <1>2, <2>1, Zenon DEF IdsInv
<1>11. AskedInv'
  <2>1. ToSet(OnItsWay') \cup Answers' = (ToSet(OnItsWay) \cup Answers) \cup {p}
    BY <1>c, <1>1, <1>2, <1>7 DEF Answers
  <2>2. Asked((ToSet(OnItsWay) \cup Answers) \cup {p}, parked)
    BY <1>5, Parts DEF AskedInv, Asked
  <2> QED  BY <1>1, <2>1, <2>2, Zenon DEF AskedInv
<1>12. StepInv'
  <2>1. ASSUME NEW g \in Files PROVE InStep(g, documents[g], buf[g], told'[g], OnItsWay)
    <3>1. InStep(g, documents[g], buf[g], told[g], OnItsWay)
      BY <1>c, Parts, Zenon DEF StepInv
    <3>2. CASE g # f
      BY <1>6, <3>1, <3>2, Zenon
    <3>3. CASE g = f
      BY <1>4, <1>6, <3>1, <3>3, WayFacts, SameInStep
    <3> QED  BY <3>2, <3>3
  <2> QED  BY <1>1, <1>2, <2>1, Zenon DEF StepInv
<1>13. FitInv'
  <2> DEFINE S == ToSet(OnItsWay) \cup ToSet(down)
  <2>1. ASSUME NEW g \in Files PROVE Fit(g, opens[g], buf[g], documents[g], told'[g], S \cup {p})
    <3>1. Fit(g, opens[g], buf[g], documents[g], told[g], S)
      BY FitFacts
    <3>2. p.file = g => Fits(p.version, p.text, p.life, opens[g], buf[g])
      <4>1. p.file = g => Fits(t.version, p.text, p.life, opens[g], buf[g])
        BY <1>c, <1>5, <3>1, Zenon DEF Fit
      <4> QED  BY <1>5, <4>1 DEF Fits
    <3>3. Fit(g, opens[g], buf[g], documents[g], told[g], S \cup {p})
      BY <3>1, <3>2, FitMore
    <3>4. told'[g].due => told'[g] = told[g]
      BY <1>4, <1>6
    <3> QED  BY <3>3, <3>4, Zenon DEF Fit
  <2>2. ToSet(OnItsWay) \cup ToSet(down') = S \cup {p}
    BY <1>7
  <2> QED  BY <1>1, <1>2, <2>1, <2>2, Zenon DEF FitInv
<1>14. WaitInv'
  <2> SUFFICES ASSUME NEW g \in Files, Waits(opens[g], parked[g], buf[g], documents[g])
               PROVE  /\ AnsweredFor(Answers', parked[g].id, buf[g].text)
                      /\ AsksFor(OnItsWay, g, told'[g], parked[g].id, buf[g].text)
    BY <1>1, <1>2, Zenon DEF WaitInv
  <2>1. AnsweredFor(Answers, parked[g].id, buf[g].text) /\ AsksFor(OnItsWay, g, told[g], parked[g].id, buf[g].text)
    BY <1>c, Parts, Zenon DEF WaitInv
  <2>2. Answers' = Answers \cup {p}
    BY <1>c, <1>1, <1>7 DEF Answers
  <2>3. AnsweredFor(Answers', parked[g].id, buf[g].text)
    BY <1>5, <2>1, <2>2 DEF AnsweredFor
  <2>4. CASE g # f
    BY <1>6, <2>1, <2>3, <2>4, Zenon
  <2>5. CASE g = f
    <3>1. AsksFor(OnItsWay, f, u, parked[g].id, buf[g].text)
      BY <1>4, <2>1, <2>5, WayFacts, SameAsks
    <3> QED  BY <1>6, <2>3, <2>5, <3>1, Zenon
  <2> QED  BY <2>4, <2>5
<1> QED  BY <1>1, <1>8, <1>9, <1>10, <1>11, <1>12, <1>13, <1>14, Zenon DEF LspInv

\* What a message read makes of a file, and of a question.
LEMMA ReadFacts ==
    ASSUME LspInv, alive, OnItsWay # <<>>, NEW m, m = Head(OnItsWay), NEW f \in Files
    PROVE  /\ m \in Messages /\ After(told[f], m, f) \in Views /\ After(told[f], m, f).text # Garbled
           /\ After(told[f], m, f).due =>
                  Fits(After(told[f], m, f).version, After(told[f], m, f).text, After(told[f], m, f).life,
                       opens[f], buf[f])
<1>1. m \in Messages /\ m \in ToSet(OnItsWay)
  BY WayFacts, TailFacts
<1>2. After(told[f], m, f).text # Garbled
  BY Parts, WayFacts, ReadInStep DEF StepInv
<1>3. told[f] \in Views /\ Fit(f, opens[f], buf[f], documents[f], told[f], ToSet(OnItsWay) \cup ToSet(down))
  BY FitFacts, Zenon
<1>4. CASE Question(m) \/ m.file # f
  <2>1. After(told[f], m, f) = told[f]
    BY <1>4 DEF After
  <2> QED  BY <1>1, <1>2, <1>3, <2>1, Zenon DEF Fit
<1>5. CASE ~Question(m) /\ m.file = f
  <2>1. After(told[f], m, f) = Heard(told[f], m) /\ m \in Notes
    BY <1>1, <1>5, Kinds DEF After, Messages
  <2>2. m.type \in {"didOpen", "didChange"} => Fits(m.version, m.text, m.life, opens[f], buf[f])
    BY <1>1, <1>3, <1>5, Zenon DEF Fit, Fitting
  <2>3. CASE m \in Openings
    <3>1. m.type = "didOpen" /\ m.version \in Nat /\ m.text \in Texts /\ m.life \in Nat
      BY <2>3 DEF Openings
    <3>2. Heard(told[f], m) = [version |-> m.version, text |-> m.text, due |-> TRUE, life |-> m.life]
      BY <3>1 DEF Heard
    <3>3. Heard(told[f], m) \in Views
      BY <3>1, <3>2, Fields DEF Views, Versions
    <3> QED  BY <1>1, <1>2, <2>1, <2>2, <3>1, <3>2, <3>3
  <2>4. CASE m \in Closings
    <3>1. Heard(told[f], m) = NotTold
      BY <2>4 DEF Closings, Heard
    <3>2. ~NotTold.due
      BY DEF NotTold
    <3> QED  BY <1>1, <1>2, <2>1, <3>1, <3>2, Fields
  <2>5. CASE m \in Alterations
    <3>1. m.type = "didChange" /\ m.version \in Nat /\ m.text \in Texts /\ m.life \in Nat
      BY <2>5 DEF Alterations
    <3>2. \/ Heard(told[f], m) = [version |-> m.version, due |-> TRUE, life |-> m.life, text |-> m.text]
          \/ Heard(told[f], m) = [version |-> m.version, due |-> TRUE, life |-> m.life, text |-> Garbled]
      BY <3>1 DEF Heard
    <3>3. Heard(told[f], m) = [version |-> m.version, due |-> TRUE, life |-> m.life, text |-> m.text]
      BY <1>2, <2>1, <3>2
    <3>4. Heard(told[f], m) \in Views
      BY <3>1, <3>3, Fields DEF Views, Versions
    <3> QED  BY <1>1, <1>2, <2>1, <2>2, <3>1, <3>3, <3>4
  <2> QED  BY <2>1, <2>3, <2>4, <2>5 DEF Notes
<1> QED  BY <1>4, <1>5

LEMMA ReadInv == ASSUME LspInv, Read PROVE LspInv'
<1> DEFINE m == Head(OnItsWay)
           S == ToSet(OnItsWay) \cup ToSet(down)
<1>0. /\ UNCHANGED <<editor, client, session, alive, bound, opens>>
      /\ down' = down /\ alive /\ up # <<>> /\ up' = Tail(up)
      /\ IF Question(Head(up)) THEN owed' = owed \cup {Reply(Head(up))} /\ told' = told
         ELSE told' = [told EXCEPT ![Head(up).file] = Heard(@, Head(up))] /\ owed' = owed
  BY DEF Read, Beside, counts
<1>1. /\ UNCHANGED <<at, front, buf, disk, state, documents, queued, responses, nextId, parked, applied, asking,
                     alive, bound, opens>>
      /\ EditorShape(at, front, buf, asking)' /\ HeldInv' /\ PaintInv'
  BY <1>0, BesideInv
<1>2. OnItsWay # <<>> /\ Tail(OnItsWay) = Tail(up) \o queued /\ m = Head(up)
  BY <1>0, WayFacts, ConcatFacts DEF OnItsWay
<1>3. OnItsWay' = Tail(OnItsWay)
  BY <1>0, <1>1, <1>2, Zenon DEF OnItsWay
<1>4. m \in Messages /\ Tail(OnItsWay) \in Seq(Messages) /\ ToSet(OnItsWay) = ToSet(Tail(OnItsWay)) \cup {m}
  BY <1>2, WayFacts, TailFacts
<1> HIDE DEF m
<1>5. \A f \in Files : told'[f] = After(told[f], m, f)
  <2>1. told \in [Files -> Views]
    BY Types, Zenon
  <2>2. CASE Question(m)
    BY <1>0, <1>2, <2>2 DEF After
  <2>3. CASE ~Question(m)
    <3>1. m.file \in Files /\ told' = [told EXCEPT ![m.file] = Heard(told[m.file], m)]
      BY <1>0, <1>2, <1>4, <2>3, Kinds DEF Messages
    <3> QED  BY <2>1, <2>3, <3>1 DEF After
  <2> QED  BY <2>2, <2>3
<1>6. told' \in [Files -> Views]
  <2>1. \A f \in Files : told'[f] \in Views
    BY <1>0, <1>2, <1>5, ReadFacts DEF m
  <2>2. told' = [f \in Files |-> told'[f]]
    <3>1. told \in [Files -> Views]
      BY Types, Zenon
    <3>2. CASE told' = told
      BY <3>1, <3>2
    <3>3. CASE told' = [told EXCEPT ![Head(up).file] = Heard(told[Head(up).file], Head(up))]
      BY <3>1, <3>3
    <3> QED  BY <1>0, <3>2, <3>3
  <2> QED  BY <2>1, <2>2
<1>7. Question(m) => /\ m \in Questions /\ Reply(m) \in Replies /\ Reply(m).id = m.id /\ Reply(m).file = m.file
                     /\ Reply(m).type = "response" /\ Reply(m).about = About(m)
  <2> SUFFICES ASSUME Question(m)
               PROVE  /\ m \in Questions /\ Reply(m) \in Replies /\ Reply(m).id = m.id /\ Reply(m).file = m.file
                      /\ Reply(m).type = "response" /\ Reply(m).about = About(m)
    OBVIOUS
  <2>1. m \in Questions
    BY <1>4, Kinds DEF Messages
  <2>2. About(m) \in Taken
    <3>1. m.type = "tokens" => m.file \in Files
      BY <2>1, Kinds
    <3>2. \A f \in Files : told[f].text \in Taken
      BY OpenBuffer, Fields
    <3> QED  BY <3>1, <3>2, Fields DEF About
  <2>3. m.id \in Nat \ {0} /\ m.file \in Files \cup {NoFile}
    BY <2>1, Kinds
  <2> QED  BY <2>1, <2>2, <2>3 DEF Reply, Replies
<1>8. TypeInv'
  <2>1. up' \in Seq(Messages)
    BY <1>0, WayFacts, TailFacts
  <2>2. owed' \in SUBSET Replies
    BY <1>0, <1>2, <1>7, WayFacts
  <2> QED  BY <1>0, <1>1, <1>6, <2>1, <2>2, Types, Zenon DEF TypeInv, Messages
<1>9. ClientShape(state, alive, queued, up, down, responses, owed, told)'
  <2>1. ClientShape(state, alive, queued, up, down, responses, owed, told)
    BY Parts, Zenon
  <2>2. state \notin {"none", "failed"}
    BY <1>0, <2>1 DEF ClientShape
  <2> QED  BY <1>0, <1>1, <2>1, <2>2, Zenon DEF ClientShape
<1>10. Answers' = Answers \/ (Question(m) /\ Answers' = Answers \cup {Reply(m)})
  BY <1>0, <1>1, <1>2 DEF Answers
<1>11. IdsInv'
  <2>1. IdsApart(OnItsWay, owed, down, responses, nextId) /\ nextId \in Nat \ {0}
    BY Parts, Types, Zenon DEF IdsInv
  <2>2. IdsApart(Tail(OnItsWay), owed', down, responses, nextId)
    <3>1. CASE Question(m)
      <4>1. Asks(m)
        BY <1>7, <3>1, Kinds
      <4> QED  BY <1>0, <1>2, <1>7, <2>1, <3>1, <4>1, WayFacts, ReadIds DEF m
    <3>2. CASE ~Question(m)
      BY <1>0, <1>2, <2>1, <3>2, WayFacts, ReadIds
    <3> QED  BY <3>1, <3>2
  <2> QED  BY <1>0, <1>1, <1>3, <2>2, Zenon DEF IdsInv
<1>12. AskedInv'
  <2>1. Asked(ToSet(OnItsWay) \cup Answers, parked)
    BY Parts, Zenon DEF AskedInv
  <2>2. Question(m) /\ m.file # NoFile => m.id = parked[m.file].id
    <3>1. m \in ToSet(OnItsWay)
      BY <1>4
    <3> QED  BY <1>7, <2>1, <3>1, Kinds DEF Asked
  <2>3. Asked(ToSet(Tail(OnItsWay)) \cup Answers', parked)
    BY <1>4, <1>7, <1>10, <2>1, <2>2 DEF Asked
  <2> QED  BY <1>1, <1>3, <2>3, Zenon DEF AskedInv
<1>13. StepInv'
  <2>1. ASSUME NEW f \in Files PROVE InStep(f, documents[f], buf[f], told'[f], Tail(OnItsWay))
    <3>1. InStep(f, documents[f], buf[f], told[f], OnItsWay)
      BY <1>0, Parts, Zenon DEF StepInv
    <3>2. InStep(f, documents[f], buf[f], After(told[f], m, f), Tail(OnItsWay))
      BY <1>2, <3>1, WayFacts, ReadInStep DEF m
    <3> QED  BY <1>5, <3>2, Zenon
  <2> QED  BY <1>1, <1>3, <2>1, Zenon DEF StepInv
<1>14. FitInv'
  <2>1. ASSUME NEW f \in Files
        PROVE  Fit(f, opens[f], buf[f], documents[f], told'[f], ToSet(Tail(OnItsWay)) \cup ToSet(down))
    <3>1. Fit(f, opens[f], buf[f], documents[f], told[f], S)
      BY FitFacts
    <3>2. ToSet(Tail(OnItsWay)) \cup ToSet(down) \subseteq S
      BY <1>4
    <3> HIDE DEF S
    <3>3. Fit(f, opens[f], buf[f], documents[f], told[f], ToSet(Tail(OnItsWay)) \cup ToSet(down))
      BY <3>1, <3>2, Fewer
    <3>4. told'[f].due => Fits(told'[f].version, told'[f].text, told'[f].life, opens[f], buf[f])
      <4>1. After(told[f], m, f).due =>
                Fits(After(told[f], m, f).version, After(told[f], m, f).text, After(told[f], m, f).life,
                     opens[f], buf[f])
        BY <1>0, <1>2, ReadFacts DEF m
      <4> QED  BY <1>5, <4>1, Zenon
    <3> QED  BY <3>3, <3>4, Zenon DEF Fit
  <2> QED  BY <1>0, <1>1, <1>3, <2>1, Zenon DEF FitInv
<1>15. WaitInv'
  <2> SUFFICES ASSUME NEW f \in Files, Waits(opens[f], parked[f], buf[f], documents[f])
               PROVE  /\ AnsweredFor(Answers', parked[f].id, buf[f].text)
                      /\ AsksFor(Tail(OnItsWay), f, told'[f], parked[f].id, buf[f].text)
    BY <1>1, <1>3, Zenon DEF WaitInv
  <2>1. AnsweredFor(Answers, parked[f].id, buf[f].text) /\ AsksFor(OnItsWay, f, told[f], parked[f].id, buf[f].text)
    BY <1>0, Parts, Zenon DEF WaitInv
  <2>2. /\ AsksFor(Tail(OnItsWay), f, After(told[f], m, f), parked[f].id, buf[f].text)
        /\ Question(m) /\ m.id = parked[f].id => m.type = "tokens" /\ m.file = f /\ told[f].text = buf[f].text
    BY <1>2, <2>1, WayFacts, ReadAsks DEF m
  <2>3. Question(m) /\ m.id = parked[f].id => Reply(m).about = buf[f].text
    BY <1>7, <2>2 DEF About
  <2>4. AnsweredFor(Answers', parked[f].id, buf[f].text)
    BY <1>7, <1>10, <2>1, <2>3 DEF AnsweredFor
  <2> QED  BY <1>5, <2>2, <2>4, Zenon
<1> QED  BY <1>1, <1>8, <1>9, <1>11, <1>12, <1>13, <1>14, <1>15, Zenon DEF LspInv

-----------------------------------------------------------------------------
(* The editor reads a message. *)

LEMMA HandledWay ==
    ASSUME LspInv, Handle, ~NotInitialized(Head(down))
    PROVE  /\ alive' = alive
           /\ OnItsWay' = OnItsWay /\ up' \in Seq(Messages) /\ queued' \in Seq(Notes)
           /\ queued' # <<>> => state' = "initializing"
           /\ state \in Live /\ state' \in Live /\ (alive => state' \in {"initializing", "ready"})
           /\ state' # "none"
<1>1. /\ up \in Seq(Messages) /\ queued \in Seq(Messages) /\ queued \in Seq(Notes)
      /\ OnItsWay \in Seq(Messages) /\ OnItsWay \o <<>> = OnItsWay
  BY WayFacts, ConcatFacts
<1>2. (queued # <<>> => state = "initializing") /\ (alive => state \in {"initializing", "ready"})
  BY Parts, Zenon DEF ClientShape
<1>3. state \in Live /\ state # "none"
  BY DEF Handle, Running, Live
<1>4. CASE Initialized(Head(down))
  <2>1. state' = "ready" /\ up' = OnItsWay /\ queued' = <<>> /\ alive' = alive
    BY <1>4 DEF Initialized, Released, OnItsWay
  <2>2. OnItsWay' = OnItsWay
    BY <1>1, <2>1, Zenon DEF OnItsWay
  <2>3. queued' \in Seq(Notes)
    BY <2>1, NoElements, Zenon
  <2> QED  BY <1>1, <1>3, <2>1, <2>2, <2>3 DEF Live
<1>5. CASE Answered(Head(down)) \/ Published(Head(down))
  <2>1. state' = state /\ up' = up /\ queued' = queued /\ alive' = alive
    BY <1>5 DEF Answered, Published
  <2> QED  BY <1>1, <1>2, <1>3, <2>1 DEF OnItsWay
<1> QED  BY <1>4, <1>5 DEF Handle

LEMMA HandledAnswers ==
    ASSUME LspInv, Handle
    PROVE  /\ down' = Tail(down) /\ down' \in Seq(Heads) /\ ToSet(down') \subseteq ToSet(down)
           /\ Head(down) \in ToSet(down) /\ Head(down) \in Heads
           /\ responses' \in Seq(Replies) /\ Len(responses') <= MaxResponses /\ Answers' \subseteq Answers
           /\ IdsApart(OnItsWay, owed, down', responses', nextId)
<1> DEFINE m == Head(down)
<1>1. /\ down # <<>> /\ down' = Tail(down) /\ owed' = owed
      /\ Initialized(m) \/ NotInitialized(m) \/ Answered(m) \/ Published(m)
  BY DEF Handle
<1>2. m \in Heads /\ down' \in Seq(Heads) /\ ToSet(down) = ToSet(down') \cup {m}
  BY <1>1, WayFacts, TailFacts
<1>3. IdsApart(OnItsWay, owed, down, responses, nextId) /\ Len(responses) <= MaxResponses
  BY Parts, Zenon DEF IdsInv, ClientShape
<1>4. responses \in Seq(Replies) /\ owed \in SUBSET Replies /\ down \in Seq(Heads)
  BY WayFacts
<1> HIDE DEF m
<1>5. CASE Initialized(m) \/ NotInitialized(m) \/ Published(m)
  <2>1. responses' = responses
    BY <1>5 DEF Initialized, NotInitialized, Published
  <2>2. Answers' \subseteq Answers
    BY <1>1, <1>2, <2>1 DEF Answers
  <2>3. IdsApart(OnItsWay, owed, down', responses', nextId)
    BY <1>1, <1>3, <1>4, <2>1, HandleIds
  <2> QED  BY <1>1, <1>2, <1>3, <1>4, <2>1, <2>2, <2>3 DEF m
<1>6. CASE Answered(m)
  <2> DEFINE k == IF Len(responses) >= MaxResponses THEN Tail(responses) ELSE responses
  <2>1. responses' = Append(k, m) /\ m.type = "response"
    BY <1>6 DEF Answered, Kept
  <2>2. m \in Replies
    BY <1>2, <2>1, Kinds DEF Heads
  <2>3. Apart(responses)
    BY <1>3, Zenon DEF IdsApart
  <2>4. k \in Seq(Replies) /\ ToSet(k) \subseteq ToSet(responses) /\ Apart(k) /\ Len(k) + 1 <= MaxResponses
    <3>1. MaxResponses \in Nat \ {0} /\ Len(responses) \in Nat
      BY <1>4, Fields
    <3>2. CASE Len(responses) >= MaxResponses
      <4>1. responses # <<>>
        BY <3>1, <3>2
      <4>2. /\ Tail(responses) \in Seq(Replies) /\ ToSet(Tail(responses)) \subseteq ToSet(responses)
            /\ Len(Tail(responses)) = Len(responses) - 1
        BY <1>4, <4>1, TailFacts
      <4>3. Apart(Tail(responses))
        BY <1>4, <2>3, <4>1, ApartTail
      <4> QED  BY <1>3, <3>1, <3>2, <4>2, <4>3
    <3>3. CASE ~(Len(responses) >= MaxResponses)
      BY <1>4, <2>3, <3>1, <3>3
    <3> QED  BY <3>2, <3>3
  <2> HIDE DEF k
  <2>5. /\ responses' \in Seq(Replies) /\ Len(responses') = Len(k) + 1
        /\ ToSet(responses') = ToSet(k) \cup {m}
    BY <2>1, <2>2, <2>4, AppendFacts
  <2>6. Answers' \subseteq Answers
    BY <1>1, <1>2, <2>4, <2>5 DEF Answers
  <2>7. IdsApart(OnItsWay, owed, Tail(down), Append(k, m), nextId)
    BY <1>1, <1>3, <1>4, <2>2, <2>4, HandleIds DEF m
  <2> QED  BY <1>1, <1>2, <2>1, <2>4, <2>5, <2>6, <2>7 DEF m
<1> QED  BY <1>1, <1>5, <1>6

LEMMA HandledDocuments ==
    ASSUME LspInv, Handle
    PROVE  /\ documents' \in [Files -> Documents]
           /\ \A f \in Files :
                /\ documents'[f].version = documents[f].version /\ documents'[f].sent = documents[f].sent
                /\ Fitting(ToSet(documents'[f].published), f, opens[f], buf[f])
                /\ \A i \in 1..Len(documents'[f].published) : documents'[f].published[i].file = f
                /\ documents'[f].unapplied => documents'[f].published # <<>>
<1> DEFINE m == Head(down)
<1>1. documents \in [Files -> Documents]
  BY Types, Zenon
<1>2. \A f \in Files : /\ Fitting(ToSet(documents[f].published), f, opens[f], buf[f])
                       /\ \A i \in 1..Len(documents[f].published) : documents[f].published[i].file = f
                       /\ documents[f].unapplied => documents[f].published # <<>>
  BY FitFacts, Zenon DEF Fit
<1>3. m \in ToSet(down) /\ m \in Heads
  BY HandledAnswers
<1> HIDE DEF m
<1>4. CASE documents' = documents
  BY <1>1, <1>2, <1>4
<1>5. CASE m.type = "publish" /\ documents' = [documents EXCEPT ![m.file].published = <<m>>, ![m.file].unapplied = TRUE]
  <2>1. m \in Publications /\ m.file \in Files
    BY <1>3, <1>5, Kinds DEF Heads
  <2>2. PICK f \in Files : f = m.file
    BY <2>1
  <2>3. documents[f] \in Documents /\ <<m>> \in Seq(Publications)
    BY <1>1, <2>1, <2>2
  <2>4. PICK e \in Documents : e = [documents[f] EXCEPT !.published = <<m>>, !.unapplied = TRUE]
    BY <2>3 DEF Documents
  <2>5. e.version = documents[f].version /\ e.sent = documents[f].sent /\ e.published = <<m>>
    BY <2>3, <2>4 DEF Documents
  <2>6. documents' = [documents EXCEPT ![f] = e]
    BY <1>5, <2>2, <2>4
  <2>7. Fits(m.version, m.text, m.life, opens[f], buf[f])
    <3>1. Fit(f, opens[f], buf[f], documents[f], told[f], ToSet(OnItsWay) \cup ToSet(down))
      BY FitFacts
    <3> QED  BY <1>3, <1>5, <2>2, <3>1 DEF Fit, Fitting
  <2>8. Fitting(ToSet(e.published), f, opens[f], buf[f])
    <3>1. ToSet(<<m>>) = {m}
      BY DEF ToSet
    <3> QED  BY <2>5, <2>7, <3>1 DEF Fitting
  <2>9. e.published # <<>> /\ \A i \in 1..Len(e.published) : e.published[i].file = f
    BY <2>2, <2>5
  <2> QED  BY <1>1, <1>2, <2>5, <2>6, <2>8, <2>9
<1> QED  BY <1>4, <1>5 DEF Handle, Initialized, NotInitialized, Answered, Published, m

\* The server's refusal of the handshake.
LEMMA NotInitializedInv == ASSUME LspInv, Handle, NotInitialized(Head(down)) PROVE LspInv'
<1>1. /\ UNCHANGED <<at, front, buf, disk, documents, responses, nextId, parked, applied, asking, told, owed, bound, opens>>
      /\ ~alive' /\ alive' \in BOOLEAN /\ state' = "dead" /\ queued' = <<>> /\ up' = <<>> /\ state \in Live
  <2>1. alive' = FALSE
    BY DEF NotInitialized
  <2> QED  BY <2>1, Zenon DEF Handle, NotInitialized, Handshake, Live, editor, session, counts
<1>2. /\ down' \in Seq(Heads) /\ ToSet(down') \subseteq ToSet(down) /\ Answers' \subseteq Answers
      /\ IdsApart(OnItsWay, owed, down', responses', nextId)
  BY HandledAnswers
<1>3. OnItsWay' = <<>> /\ ToSet(OnItsWay') = {}
  <2>1. OnItsWay' = <<>>
    BY <1>1 DEF OnItsWay
  <2> QED  BY <2>1, NoElements, Zenon
<1>4. TypeInv'
  <2>1. queued' \in Seq(Notes) /\ up' \in Seq(Questions \cup Notes)
    BY <1>1, NoElements, Zenon
  <2>2. state' \in {"none", "failed", "initializing", "ready", "dead"}
    BY <1>1, Zenon
  <2> QED  BY <1>1, <1>2, <2>1, <2>2, Types, Zenon DEF TypeInv, Heads
<1>5. ClientShape(state, alive, queued, up, down, responses, owed, told)'
  <2>1. state' \notin {"none", "failed"}
    BY <1>1
  <2> QED  BY <1>1, <2>1, Parts, Zenon DEF ClientShape
<1>6. EditorShape(at, front, buf, asking)'
  BY <1>1, Parts, Zenon
<1>7. state' \in Live
  BY <1>1 DEF Live
<1>8. HeldInv' /\ PaintInv'
  BY <1>1, <1>7, Parts, Zenon DEF HeldInv, Held, PaintInv
<1>9. IdsInv'
  <2>1. IdsApart(<<>>, owed, down', responses', nextId)
    BY <1>2, FewerIds
  <2> QED  BY <1>1, <1>3, <2>1, Zenon DEF IdsInv
<1>10. AskedInv'
  <2>1. ToSet(OnItsWay') \cup Answers' \subseteq ToSet(OnItsWay) \cup Answers
    BY <1>2, <1>3
  <2> QED  BY <1>1, <2>1, Parts, Fewer DEF AskedInv
<1>11. StepInv'
  BY <1>1, Zenon DEF StepInv
<1>12. FitInv'
  <2>1. ToSet(OnItsWay') \cup ToSet(down') \subseteq ToSet(OnItsWay) \cup ToSet(down)
    BY <1>2, <1>3
  <2>2. ASSUME NEW f \in Files
        PROVE  Fit(f, opens[f], buf[f], documents[f], told[f], ToSet(OnItsWay') \cup ToSet(down'))
    BY <2>1, FitFacts, Fewer
  <2> QED  BY <1>1, <2>2, Zenon DEF FitInv
<1>13. WaitInv'
  <2>1. \A id, text : AnsweredFor(Answers, id, text) => AnsweredFor(Answers', id, text)
    BY <1>2, Fewer
  <2> QED  BY <1>1, <2>1, Parts, Zenon DEF WaitInv
<1> QED  BY <1>4, <1>5, <1>6, <1>8, <1>9, <1>10, <1>11, <1>12, <1>13, Zenon DEF LspInv

LEMMA HandleInv == ASSUME LspInv, Handle PROVE LspInv'
<1>0. SUFFICES ASSUME ~NotInitialized(Head(down)) PROVE LspInv'
  BY NotInitializedInv
<1>1. /\ UNCHANGED <<at, front, buf, disk, nextId, parked, applied, asking, alive, told, owed, bound, opens>>
  BY <1>0, HandledWay DEF Handle, editor, session, counts
<1>2. /\ OnItsWay' = OnItsWay /\ up' \in Seq(Messages) /\ queued' \in Seq(Notes)
      /\ queued' # <<>> => state' = "initializing"
      /\ state \in Live /\ state' \in Live /\ (alive => state' \in {"initializing", "ready"})
      /\ state' # "none"
  BY <1>0, HandledWay
<1>3. /\ down' \in Seq(Heads) /\ ToSet(down') \subseteq ToSet(down)
      /\ responses' \in Seq(Replies) /\ Len(responses') <= MaxResponses /\ Answers' \subseteq Answers
      /\ IdsApart(OnItsWay, owed, down', responses', nextId)
  BY HandledAnswers
<1>4. /\ documents' \in [Files -> Documents]
      /\ \A f \in Files :
            /\ documents'[f].version = documents[f].version /\ documents'[f].sent = documents[f].sent
            /\ Fitting(ToSet(documents'[f].published), f, opens[f], buf[f])
            /\ \A i \in 1..Len(documents'[f].published) : documents'[f].published[i].file = f
            /\ documents'[f].unapplied => documents'[f].published # <<>>
  BY HandledDocuments
<1>5. TypeInv'
  <2>1. state' \in {"none", "failed", "initializing", "ready", "dead"}
    BY <1>2 DEF Live
  <2> QED  BY <1>1, <1>2, <1>3, <1>4, <2>1, Types, Zenon DEF TypeInv, Messages, Heads
<1>6. ClientShape(state, alive, queued, up, down, responses, owed, told)'
  <2>1. state' \notin {"none", "failed"}
    BY <1>2 DEF Live
  <2> QED  BY <1>1, <1>2, <1>3, <2>1, Zenon DEF ClientShape
<1>7. EditorShape(at, front, buf, asking)'
  <2>1. EditorShape(at, front, buf, asking) /\ state # "none"
    BY <1>2, Parts DEF Live
  <2> QED  BY <1>1, <2>1, Zenon DEF EditorShape
<1>8. HeldInv'
  <2>1. ASSUME NEW f \in Files PROVE Held(buf[f], documents'[f], applied[f], parked[f], bound.edits[f], state')
    <3>1. Held(buf[f], documents[f], applied[f], parked[f], bound.edits[f], state)
      BY OpenBuffer, Zenon
    <3> QED  BY <1>2, <1>4, <3>1, Zenon DEF Held
  <2> QED  BY <1>1, <2>1, Zenon DEF HeldInv
<1>9. IdsInv'
  BY <1>1, <1>2, <1>3, Zenon DEF IdsInv
<1>10. AskedInv'
  <2>1. ToSet(OnItsWay) \cup Answers' \subseteq ToSet(OnItsWay) \cup Answers
    BY <1>3
  <2>2. Asked(ToSet(OnItsWay) \cup Answers', parked)
    BY <2>1, Parts, Fewer DEF AskedInv
  <2> QED  BY <1>1, <1>2, <2>2, Zenon DEF AskedInv
<1>11. StepInv'
  <2> SUFFICES ASSUME alive, NEW f \in Files PROVE InStep(f, documents'[f], buf[f], told[f], OnItsWay)
    BY <1>1, <1>2, Zenon DEF StepInv
  <2>1. InStep(f, documents[f], buf[f], told[f], OnItsWay)
    BY Parts, Zenon DEF StepInv
  <2> QED  BY <1>4, <2>1, Zenon DEF InStep, EndsWith
<1>12. FitInv'
  <2>1. ASSUME NEW f \in Files
        PROVE  Fit(f, opens[f], buf[f], documents'[f], told[f], ToSet(OnItsWay) \cup ToSet(down'))
    <3>1. Fit(f, opens[f], buf[f], documents[f], told[f], ToSet(OnItsWay) \cup ToSet(down))
      BY FitFacts
    <3>2. ToSet(OnItsWay) \cup ToSet(down') \subseteq ToSet(OnItsWay) \cup ToSet(down)
      BY <1>3
    <3>3. Fit(f, opens[f], buf[f], documents[f], told[f], ToSet(OnItsWay) \cup ToSet(down'))
      BY <3>1, <3>2, Fewer
    <3> QED  BY <1>4, <3>3, Zenon DEF Fit
  <2> QED  BY <1>1, <1>2, <2>1, Zenon DEF FitInv
<1>13. PaintInv'
  BY <1>1, <1>4, Parts, Zenon DEF PaintInv, Paints, Own
<1>14. WaitInv'
  <2>1. \A id, text : AnsweredFor(Answers, id, text) => AnsweredFor(Answers', id, text)
    BY <1>3, Fewer
  <2> QED  BY <1>1, <1>2, <1>4, <2>1, Parts, Zenon DEF WaitInv, Waits, Own
<1> QED  BY <1>5, <1>6, <1>7, <1>8, <1>9, <1>10, <1>11, <1>12, <1>13, <1>14, Zenon DEF LspInv

-----------------------------------------------------------------------------
(* The tokens of the buffer in front. *)

\* The request parked for f is forgotten: no message with its id is left.
LEMMA ForgetInv ==
    ASSUME LspInv, NEW f \in Files, f = front, f # NoFile, asking = NoId, at' = "keys",
           UNCHANGED <<front, disk, state, documents, queued, nextId, asking, up, down, alive, told, owed, bound, opens>>,
           parked' = Forgotten,
           responses' \in Seq(Replies), Len(responses') <= MaxResponses, ToSet(responses') \subseteq ToSet(responses),
           responses = <<>> => responses' = <<>>,
           Apart(responses'), \A m \in ToSet(OnItsWay) \cup Answers' : Asks(m) => m.id # parked[f].id,
           buf' \in [Files -> Buffers], Alike(buf[f], buf'[f]), buf'[f].diags = buf[f].diags, buf'[f].drawn = buf[f].drawn,
           applied' \in [Files -> Versions],
           \A g \in Files : g # f => buf'[g] = buf[g] /\ applied'[g] = applied[g],
           \/ applied'[f] = applied[f] /\ buf'[f] = buf[f]
           \/ /\ applied'[f] = buf[f].version
              /\ Own(buf'[f].asked, opens[f], buf[f], documents[f]) /\ Differs(buf[f])
                 => buf'[f].spans \in {buf[f].text, Refused}
    PROVE  LspInv'
<1>1. OnItsWay' = OnItsWay /\ Answers' \subseteq Answers
  BY DEF OnItsWay, Answers
<1>2. parked' \in [Files -> Requests] /\ parked'[f] = NotParked /\ \A g \in Files : g # f => parked'[g] = parked[g]
  <2>1. parked \in [Files -> Requests] /\ NotParked \in Requests
    BY Types, Fields, Zenon
  <2> QED  BY <2>1 DEF Forgotten
<1>3. /\ buf[f] # Closed /\ buf'[f] # Closed /\ buf[f] \in Buffers /\ buf[f].version \in Nat
      /\ buf[f].version <= bound.edits[f] /\ buf'[f].version = buf[f].version /\ buf'[f].text = buf[f].text
      /\ applied[f] \in Versions /\ bound.edits[f] \in Nat /\ applied'[f] \in Versions
  BY OpenBuffer DEF Alike
<1>4. TypeInv'
  BY <1>2, Types, Zenon DEF TypeInv
<1>5. ClientShape(state, alive, queued, up, down, responses, owed, told)'
  BY Parts, Zenon DEF ClientShape
<1>6. EditorShape(at, front, buf, asking)'
  <2>1. EditorShape(at, front, buf, asking)
    BY Parts, Zenon
  <2>2. at' \notin {"sync", "diagnostics", "tokens"}
    OBVIOUS
  <2> QED  BY <1>3, <2>1, <2>2, Zenon DEF EditorShape
<1>7. HeldInv'
  <2>1. ASSUME NEW g \in Files PROVE Held(buf'[g], documents[g], applied'[g], parked'[g], bound.edits[g], state)
    <3>1. Held(buf[g], documents[g], applied[g], parked[g], bound.edits[g], state)
      BY OpenBuffer, Zenon
    <3>2. CASE g # f
      BY <1>2, <3>1, <3>2, Zenon
    <3>3. CASE g = f
      <4>1. Held(buf'[f], documents[f], applied[f], parked[f], bound.edits[f], state)
        BY <3>1, <3>3, AlikeFacts, Zenon
      <4>2. applied'[f] <= bound.edits[f]
        BY <1>3, <4>1 DEF Held
      <4>3. NotParked.version <= bound.edits[f]
        BY <1>3 DEF NotParked, Unknown
      <4> QED  BY <1>2, <3>3, <4>1, <4>2, <4>3, Zenon DEF Held
    <3> QED  BY <3>2, <3>3
  <2> QED  BY <2>1, Zenon DEF HeldInv
<1>8. IdsInv'
  <2>1. IdsApart(OnItsWay, owed, down, responses, nextId)
    BY Parts, Zenon DEF IdsInv
  <2>2. Ids(ToSet(responses')) \subseteq Ids(ToSet(responses))
    BY IdFacts
  <2>3. IdsApart(OnItsWay, owed, down, responses', nextId)
    BY <2>1, <2>2, FewerIds
  <2> QED  BY <1>1, <2>3, Zenon DEF IdsInv
<1>9. AskedInv'
  <2>1. Asked(ToSet(OnItsWay) \cup Answers, parked)
    BY Parts, Zenon DEF AskedInv
  <2>2. \A m \in ToSet(OnItsWay) \cup Answers : m.file # NoFile /\ m.type \in {"tokens", "response"} => m.file \in Files
    <3>1. ToSet(OnItsWay) \subseteq Messages /\ ToSet(down) \subseteq Heads /\ ToSet(responses) \subseteq Replies
          /\ owed \subseteq Replies
      BY WayFacts, Elements
    <3>2. \A m \in Messages \cup Heads : m.file # NoFile => m.file \in Files
      BY Kinds DEF Messages, Heads
    <3> QED  BY <3>1, <3>2 DEF Answers, Heads
  <2>3. Asked(ToSet(OnItsWay) \cup Answers', parked')
    <3> SUFFICES ASSUME NEW m \in ToSet(OnItsWay) \cup Answers', m.type \in {"tokens", "response"}, m.file # NoFile
                 PROVE  m.id = parked'[m.file].id
      BY DEF Asked
    <3>1. m \in ToSet(OnItsWay) \cup Answers
      BY <1>1
    <3>2. m.id = parked[m.file].id /\ Asks(m) /\ m.file \in Files
      BY <2>1, <2>2, <3>1 DEF Asked, Asks
    <3>3. m.file # f
      BY <3>2
    <3> QED  BY <1>2, <3>2, <3>3
  <2> QED  BY <1>1, <2>3, Zenon DEF AskedInv
<1>10. StepInv'
  <2> SUFFICES ASSUME alive, NEW g \in Files PROVE InStep(g, documents[g], buf'[g], told[g], OnItsWay)
    BY <1>1, Zenon DEF StepInv
  <2>1. InStep(g, documents[g], buf[g], told[g], OnItsWay)
    BY Parts, Zenon DEF StepInv
  <2>2. CASE g # f
    BY <2>1, <2>2, Zenon
  <2>3. CASE g = f
    BY <2>1, <2>3, AlikeFacts, Zenon DEF InStep
  <2> QED  BY <2>2, <2>3
<1>11. FitInv'
  <2> SUFFICES ASSUME NEW g \in Files
               PROVE  Fit(g, opens[g], buf'[g], documents[g], told[g], ToSet(OnItsWay) \cup ToSet(down))
    BY <1>1, Zenon DEF FitInv
  <2>1. CASE g # f
    BY <2>1, FitFacts, Zenon
  <2>2. CASE g = f
    <3>1. \A v \in Versions, l \in Nat : \A x : Fits(v, x, l, opens[f], buf[f]) => Fits(v, x, l, opens[f], buf'[f])
      BY AlikeFacts, Zenon
    <3>2. buf'[f] # Closed /\ buf'[f].diags # NoText /\ buf'[f].drawn = opens[f] => buf'[f].diags = buf'[f].text
      BY <1>3, FitFacts, Zenon DEF Fit
    <3>3. Fit(f, opens[f], buf'[f], documents[f], told[f], ToSet(OnItsWay) \cup ToSet(down))
      BY <3>1, <3>2, FitFacts, FitLater, OnThePipes, Zenon
    <3> QED  BY <2>2, <3>3, Zenon
  <2> QED  BY <2>1, <2>2
<1>12. PaintInv'
  <2> SUFFICES ASSUME NEW g \in Files
               PROVE  Paints(opens[g], parked'[g], applied'[g], buf'[g], documents[g], nextId)
    BY Zenon DEF PaintInv
  <2>1. Paints(opens[g], parked[g], applied[g], buf[g], documents[g], nextId)
    BY Parts, Zenon DEF PaintInv
  <2>2. CASE g # f
    BY <1>2, <2>1, <2>2, Zenon
  <2>3. CASE g = f
    <3>1. opens[f] # 0 /\ opens[f] \in Nat
      BY <1>3, <2>1, <2>3, OpenBuffer, Zenon DEF Paints
    <3>2. NotParked.id < nextId /\ NotParked.version <= buf'[f].version /\ NotParked.life <= opens[f]
      <4>1. nextId \in Nat \ {0}
        BY Types, Zenon
      <4> QED  BY <1>3, <3>1, <4>1 DEF NotParked, NoId, Unknown
    <3>3. Differs(buf'[f]) <=> Differs(buf[f])
      BY <1>3, Zenon DEF Differs
    <3>4. \A l : Own(l, opens[f], buf'[f], documents[f]) => Own(l, opens[f], buf[f], documents[f])
      BY AlikeFacts, Zenon
    <3>5. CASE applied'[f] = applied[f] /\ buf'[f] = buf[f]
      <4>1. Paints(opens[f], NotParked, applied'[f], buf'[f], documents[f], nextId)
        BY <2>1, <2>3, <3>1, <3>2, <3>5, Zenon DEF Paints
      <4> QED  BY <1>2, <2>3, <4>1, Zenon
    <3>6. CASE /\ applied'[f] = buf[f].version
               /\ Own(buf'[f].asked, opens[f], buf[f], documents[f]) /\ Differs(buf[f])
                  => buf'[f].spans \in {buf[f].text, Refused}
      <4>1. applied'[f] <= buf'[f].version
        BY <1>3, <3>6
      <4>2. Paints(opens[f], NotParked, applied'[f], buf'[f], documents[f], nextId)
        BY <1>3, <3>1, <3>2, <3>3, <3>4, <3>6, <4>1, Zenon DEF Paints
      <4> QED  BY <1>2, <2>3, <4>2, Zenon
    <3> QED  BY <3>5, <3>6
  <2> QED  BY <2>2, <2>3
<1>13. WaitInv'
  <2> SUFFICES ASSUME NEW g \in Files, Waits(opens[g], parked'[g], buf'[g], documents[g])
               PROVE  /\ AnsweredFor(Answers', parked'[g].id, buf'[g].text)
                      /\ alive => AsksFor(OnItsWay, g, told[g], parked'[g].id, buf'[g].text)
    BY <1>1, Zenon DEF WaitInv
  <2>1. g # f
    BY <1>2 DEF Waits, NotParked
  <2>2. Waits(opens[g], parked[g], buf[g], documents[g]) /\ parked'[g] = parked[g] /\ buf'[g] = buf[g]
    BY <1>2, <2>1, Zenon
  <2>3. /\ AnsweredFor(Answers, parked[g].id, buf[g].text)
        /\ alive => AsksFor(OnItsWay, g, told[g], parked[g].id, buf[g].text)
    BY <2>2, Parts, Zenon DEF WaitInv
  <2>4. AnsweredFor(Answers', parked[g].id, buf[g].text)
    BY <1>1, <2>3, Fewer
  <2> QED  BY <2>2, <2>3, <2>4, Zenon
<1> QED  BY <1>4, <1>5, <1>6, <1>7, <1>8, <1>9, <1>10, <1>11, <1>12, <1>13, Zenon DEF LspInv

\* Without a server nothing is on the pipes.
LEMMA NothingLeft ==
    ASSUME LspInv, ~Running
    PROVE  /\ up = <<>> /\ down = <<>> /\ responses = <<>> /\ owed = {} /\ queued = <<>> /\ OnItsWay = <<>>
           /\ ToSet(OnItsWay) \cup Answers = {} /\ ~alive /\ state \in {"none", "failed"}
<1>1. state \in {"none", "failed"} /\ ClientShape(state, alive, queued, up, down, responses, owed, told)
  <2>1. state \in {"none", "failed", "initializing", "ready", "dead"}
        /\ ClientShape(state, alive, queued, up, down, responses, owed, told)
    BY Types, Parts, Zenon
  <2> QED  BY <2>1 DEF Running
<1>2. up = <<>> /\ down = <<>> /\ responses = <<>> /\ owed = {} /\ queued = <<>> /\ ~alive
  BY <1>1 DEF ClientShape
<1>3. OnItsWay = <<>>
  BY <1>2 DEF OnItsWay
<1>4. ToSet(OnItsWay) \cup Answers = {}
  BY <1>2, <1>3, NoElements DEF Answers
<1> QED  BY <1>1, <1>2, <1>3, <1>4

LEMMA TokensForgottenInv == ASSUME LspInv, SyncTokens, TokensForgotten PROVE LspInv'
<1>1. /\ UNCHANGED <<front, disk, state, documents, queued, nextId, asking, up, down, alive, told, owed, bound, opens,
                     buf, applied, responses>>
      /\ at = "tokens" /\ at' = "keys" /\ parked' = Forgotten
  BY DEF SyncTokens, TokensForgotten, process, counts
<1>2. PICK f \in Files : f = front /\ f # NoFile /\ buf[f] # Closed /\ asking = NoId
  BY <1>1, InFront
<1>3. ToSet(OnItsWay) \cup Answers = {} /\ responses = <<>>
  BY NothingLeft DEF TokensForgotten
<1>4. Answers' = Answers
  BY <1>1 DEF Answers
<1>5. \A m \in ToSet(OnItsWay) \cup Answers' : Asks(m) => m.id # parked[f].id
  BY <1>3, <1>4
<1>6. responses' \in Seq(Replies) /\ Len(responses') <= MaxResponses /\ Apart(responses')
  <2>1. responses \in Seq(Replies) /\ Len(responses) <= MaxResponses /\ IdsApart(OnItsWay, owed, down, responses, nextId)
    BY Types, Parts, Zenon DEF ClientShape, IdsInv
  <2> QED  BY <1>1, <2>1, Zenon DEF IdsApart
<1>7. buf' \in [Files -> Buffers] /\ applied' \in [Files -> Versions]
  BY <1>1, Types, Zenon
<1>8. Alike(buf[f], buf'[f]) /\ buf'[f].diags = buf[f].diags /\ buf'[f].drawn = buf[f].drawn
  BY <1>1, <1>2 DEF Alike
<1>9. ToSet(responses') \subseteq ToSet(responses) /\ (responses = <<>> => responses' = <<>>)
  BY <1>1
<1>10. \A g \in Files : buf'[g] = buf[g] /\ applied'[g] = applied[g]
  BY <1>1
<1> QED  BY <1>1, <1>2, <1>5, <1>6, <1>7, <1>8, <1>9, <1>10, ForgetInv, Zenon

LEMMA TokensCollectedInv == ASSUME LspInv, SyncTokens, TokensCollected PROVE LspInv'
<1> DEFINE f == front
           b == buf[f]
           id == parked[f].id
           life == parked[f].life
           about == responses[At(responses, id)].about
<1>1. /\ UNCHANGED <<front, disk, state, documents, queued, nextId, asking, up, down, alive, told, owed, bound, opens>>
      /\ at = "tokens" /\ at' = "keys" /\ parked' = Forgotten /\ responses' = Without(responses, id) /\ Has(responses, id)
      /\ id # NoId /\ Running
      /\ IF parked[f].version = b.version
         THEN applied' = [applied EXCEPT ![f] = b.version] /\ buf' = [buf EXCEPT ![f].spans = about, ![f].asked = life]
         ELSE applied' = applied /\ buf' = buf
  BY DEF SyncTokens, TokensCollected, process, counts, Parked
<1>2. f \in Files /\ f # NoFile /\ b # Closed /\ asking = NoId
  BY <1>1, InFront
<1>3. /\ b \in Buffers /\ b.version \in Nat /\ buf \in [Files -> Buffers] /\ applied \in [Files -> Versions]
      /\ responses \in Seq(Replies)
  BY <1>2, OpenBuffer, Types
<1>4. life \in Nat
  BY <1>2, OpenBuffer, Fields
<1>5. PICK r \in Replies : r = responses[At(responses, id)] /\ r.id = id /\ r \in ToSet(responses)
  <2>1. At(responses, id) \in 1..Len(responses) /\ responses[At(responses, id)].id = id
    BY <1>1, <1>3, AtFacts
  <2>2. DOMAIN responses = 1..Len(responses)
    BY <1>3
  <2> QED  BY <1>3, <2>1, <2>2 DEF ToSet
<1>6. r.type = "response" /\ r.about \in Taken /\ Asks(r) /\ r.about = about
  BY <1>5, Kinds
<1>7. IdsApart(OnItsWay, owed, down, responses, nextId) /\ Len(responses) <= MaxResponses
  BY Parts, Zenon DEF IdsInv, ClientShape
<1>8. Apart(responses)
  BY <1>7, Zenon DEF IdsApart
<1> HIDE DEF about, id, life, b, f
<1>9. /\ responses' \in Seq(Replies) /\ Len(responses') <= Len(responses) /\ ToSet(responses') \subseteq ToSet(responses)
      /\ Drawn(responses', responses) /\ id \notin Ids(ToSet(responses'))
  <2>1. \A m \in Replies : Asks(m)
    BY Kinds
  <2> QED  BY <1>1, <1>3, <1>8, <2>1, WithoutFacts
<1>10. Apart(responses') /\ Len(responses') <= MaxResponses /\ (responses = <<>> => responses' = <<>>)
  <2>1. Apart(responses')
    BY <1>3, <1>8, <1>9, ApartDrawn
  <2>2. Len(responses') \in Nat /\ Len(responses) \in Nat
    BY <1>3, <1>9
  <2>3. responses # <<>>
    BY <1>5, NoElements
  <2> QED  BY <1>7, <1>9, <2>1, <2>2, <2>3, Fields
<1>11. \A m \in ToSet(OnItsWay) \cup Answers' : Asks(m) => m.id # id
  <2>1. id \in Ids(ToSet(responses))
    BY <1>5, <1>6 DEF Ids
  <2>2. id \notin Ids(ToSet(OnItsWay)) \cup Ids(owed) \cup Ids(ToSet(down)) \cup Ids(ToSet(responses'))
    BY <1>7, <1>9, <2>1 DEF IdsApart
  <2>3. Answers' = owed \cup ToSet(down) \cup ToSet(responses')
    BY <1>1, Zenon DEF Answers
  <2> QED  BY <2>2, <2>3 DEF Ids
<1>12. ASSUME parked[f].version = b.version
       PROVE  Own(life, opens[f], b, documents[f]) /\ Differs(b) => r.about \in {b.text, Refused}
  <2> SUFFICES ASSUME Own(life, opens[f], b, documents[f]), Differs(b) PROVE r.about \in {b.text, Refused}
    OBVIOUS
  <2>1. Waits(opens[f], parked[f], b, documents[f])
    BY <1>1, <1>12, Zenon DEF Waits, id, life
  <2>2. AnsweredFor(Answers, id, b.text)
    BY <1>2, <2>1, Parts, Zenon DEF WaitInv, id, b
  <2>3. r \in Answers
    BY <1>5 DEF Answers
  <2> QED  BY <1>5, <1>6, <2>2, <2>3, Zenon DEF AnsweredFor
<1>13. \A x \in Taken : LET c == [b EXCEPT !.spans = x, !.asked = life] IN
           /\ c \in Buffers /\ c.spans = x /\ c.asked = life /\ c.version = b.version /\ c.text = b.text
           /\ c.diags = b.diags /\ c.drawn = b.drawn
  BY <1>3, <1>4 DEF Buffers
<1>14. b.version # Unknown
  BY <1>3 DEF Unknown
<1>15. \A x \in Taken : [b EXCEPT !.spans = x, !.asked = life] # Closed
  BY <1>13, <1>14 DEF Closed
<1>16. CASE parked[f].version = b.version
  <2>1. applied' = [applied EXCEPT ![f] = b.version] /\ buf' = [buf EXCEPT ![f] = [b EXCEPT !.spans = r.about, !.asked = life]]
    BY <1>1, <1>6, <1>16 DEF b
  <2>2. b.version \in Versions
    BY <1>3 DEF Versions
  <2>3. /\ applied' \in [Files -> Versions] /\ applied'[f] = b.version
        /\ \A g \in Files : g # f => applied'[g] = applied[g]
    BY <1>2, <1>3, <2>1, <2>2
  <2>4. PICK c \in Buffers : c = [b EXCEPT !.spans = r.about, !.asked = life]
    BY <1>6, <1>13
  <2>5. /\ c.spans = r.about /\ c.asked = life /\ c.version = b.version /\ c.text = b.text /\ c.diags = b.diags
        /\ c.drawn = b.drawn /\ c # Closed
    BY <1>6, <1>13, <1>15, <2>4
  <2>6. buf' \in [Files -> Buffers] /\ buf'[f] = c /\ \A g \in Files : g # f => buf'[g] = buf[g]
    BY <1>2, <1>3, <2>1, <2>4
  <2>7. Alike(buf[f], buf'[f]) /\ buf'[f].diags = buf[f].diags /\ buf'[f].drawn = buf[f].drawn
    BY <1>2, <2>5, <2>6, Zenon DEF Alike, b
  <2>8. Own(buf'[f].asked, opens[f], buf[f], documents[f]) /\ Differs(buf[f])
        => buf'[f].spans \in {buf[f].text, Refused}
    BY <1>12, <1>16, <2>5, <2>6, Zenon DEF b
  <2>9. applied'[f] = buf[f].version
    BY <2>3 DEF b
  <2>10. f = front /\ \A m \in ToSet(OnItsWay) \cup Answers' : Asks(m) => m.id # parked[f].id
    BY <1>11 DEF f, id
  <2>11. UNCHANGED <<front, disk, state, documents, queued, nextId, asking, up, down, alive, told, owed, bound, opens>>
         /\ at' = "keys" /\ parked' = Forgotten
    BY <1>1, Zenon
  <2> QED  BY <1>2, <1>9, <1>10, <2>3, <2>6, <2>7, <2>8, <2>9, <2>10, <2>11, ForgetInv, Zenon
<1>17. CASE parked[f].version # b.version
  <2>1. applied' = applied /\ buf' = buf
    BY <1>1, <1>17
  <2>2. Alike(buf[f], buf'[f]) /\ buf'[f].diags = buf[f].diags /\ buf'[f].drawn = buf[f].drawn
    BY <1>2, <2>1, Zenon DEF Alike, b
  <2>3. buf' \in [Files -> Buffers] /\ applied' \in [Files -> Versions]
        /\ \A g \in Files : buf'[g] = buf[g] /\ applied'[g] = applied[g]
    BY <1>3, <2>1, Zenon
  <2>10. f = front /\ \A m \in ToSet(OnItsWay) \cup Answers' : Asks(m) => m.id # parked[f].id
    BY <1>11 DEF f, id
  <2>11. UNCHANGED <<front, disk, state, documents, queued, nextId, asking, up, down, alive, told, owed, bound, opens>>
         /\ at' = "keys" /\ parked' = Forgotten
    BY <1>1, Zenon
  <2> QED  BY <1>2, <1>9, <1>10, <2>2, <2>3, <2>10, <2>11, ForgetInv, Zenon
<1> QED  BY <1>16, <1>17

\* A question is sent.
LEMMA QuestionSent ==
    ASSUME LspInv, NEW q \in Questions, q.id = nextId, state = "ready", Send(<<q>>)
    PROVE  /\ OnItsWay' \in {OnItsWay, Append(OnItsWay, q)} /\ (alive => OnItsWay' = Append(OnItsWay, q))
           /\ queued' \in Seq(Notes) /\ up' \in Seq(Messages) /\ queued' = <<>>
           /\ IdsApart(OnItsWay', owed, down, responses, nextId + 1)
           /\ ToSet(OnItsWay') \subseteq ToSet(OnItsWay) \cup {q}
           /\ \A f \in Files : alive /\ InStep(f, documents[f], buf[f], told[f], OnItsWay)
                                => InStep(f, documents[f], buf[f], told[f], OnItsWay')
<1>1. q \in Messages /\ Question(q) /\ <<q>> \in Seq(Messages)
  BY Kinds DEF Messages
<1>2. /\ queued' \in Seq(Notes) /\ up' \in Seq(Messages)
      /\ OnItsWay' = OnItsWay \/ OnItsWay' = OnItsWay \o <<q>>
      /\ alive => OnItsWay' = OnItsWay \o <<q>>
      /\ queued' # <<>> => state = "initializing"
  <2>1. state = "initializing" => <<q>> \in Seq(Notes)
    OBVIOUS
  <2> QED  BY <1>1, <2>1, SendFacts
<1>3. OnItsWay \in Seq(Messages) /\ nextId \in Nat \ {0} /\ IdsApart(OnItsWay, owed, down, responses, nextId)
  BY WayFacts, Types, Parts, Zenon DEF IdsInv
<1>4. OnItsWay \o <<q>> = Append(OnItsWay, q) /\ ToSet(Append(OnItsWay, q)) = ToSet(OnItsWay) \cup {q}
  BY <1>1, <1>3, AppendFacts
<1>5. /\ IdsApart(OnItsWay, owed, down, responses, nextId + 1)
      /\ IdsApart(Append(OnItsWay, q), owed, down, responses, nextId + 1)
  BY <1>3, SendIds
<1>6. ASSUME NEW f \in Files, alive, InStep(f, documents[f], buf[f], told[f], OnItsWay)
      PROVE  InStep(f, documents[f], buf[f], told[f], Append(OnItsWay, q))
  BY <1>1, <1>3, <1>6, OtherInStep
<1> QED  BY <1>2, <1>4, <1>5, <1>6

LEMMA TokensAskedInv == ASSUME LspInv, SyncTokens, TokensAsked PROVE LspInv'
<1> DEFINE f == front
           b == buf[f]
           q == [type |-> "tokens", id |-> nextId, file |-> f]
           pk == [id |-> nextId, version |-> b.version, life |-> opens[f]]
<1>1. /\ UNCHANGED <<front, buf, disk, state, documents, responses, applied, asking, down, alive, told, owed, bound, opens>>
      /\ at = "tokens" /\ at' = "keys" /\ Send(<<q>>) /\ nextId' = nextId + 1 /\ parked' = [parked EXCEPT ![f] = pk]
      /\ state = "ready" /\ documents[f].version = b.version /\ parked[f].id = NoId
  BY DEF SyncTokens, TokensAsked, WorthAsking, ParkedNow, Parked, process, counts
<1>2. f \in Files /\ f # NoFile /\ b # Closed /\ asking = NoId
  BY <1>1, InFront
<1>3. /\ b.version \in Nat /\ b.version <= bound.edits[f] /\ nextId \in Nat \ {0}
      /\ parked \in [Files -> Requests] /\ opens[f] \in Nat
  BY <1>2, OpenBuffer, Types
<1>4. q \in Questions /\ q.id = nextId /\ q.type = "tokens" /\ q.file = f
  BY <1>2, <1>3 DEF Questions
<1>5. pk \in Requests /\ pk.id = nextId /\ pk.version = b.version /\ pk.life = opens[f] /\ pk.life <= opens[f]
  BY <1>3 DEF Requests, Versions
<1> HIDE DEF q, pk
<1>6. parked' \in [Files -> Requests] /\ parked'[f] = pk /\ \A g \in Files : g # f => parked'[g] = parked[g]
  BY <1>1, <1>2, <1>3, <1>5
<1> HIDE DEF b, f
<1>7. /\ OnItsWay' \in {OnItsWay, Append(OnItsWay, q)} /\ (alive => OnItsWay' = Append(OnItsWay, q))
      /\ queued' \in Seq(Notes) /\ up' \in Seq(Messages) /\ queued' = <<>>
      /\ IdsApart(OnItsWay', owed, down, responses, nextId + 1)
      /\ ToSet(OnItsWay') \subseteq ToSet(OnItsWay) \cup {q}
      /\ \A g \in Files : alive /\ InStep(g, documents[g], buf[g], told[g], OnItsWay)
                          => InStep(g, documents[g], buf[g], told[g], OnItsWay')
  BY <1>1, <1>4, QuestionSent
<1>8. Answers' = Answers
  BY <1>1, Zenon DEF Answers
<1>9. /\ IdsApart(OnItsWay, owed, down, responses, nextId)
      /\ Ids(ToSet(OnItsWay)) \cup Ids(owed) \cup Ids(ToSet(down)) \cup Ids(ToSet(responses)) \subseteq 1..(nextId - 1)
  BY Parts, Zenon DEF IdsInv, IdsApart
<1>10. \A m \in ToSet(OnItsWay) \cup Answers : Asks(m) => m.id \in 1..(nextId - 1)
  BY <1>9 DEF Answers, Ids
<1>11. TypeInv'
  <2>1. at' \in {"keys", "service", "sync", "diagnostics", "tokens"} /\ nextId' \in Nat \ {0}
    BY <1>1, <1>3
  <2> QED  BY <1>1, <1>6, <1>7, <2>1, Types, Zenon DEF TypeInv, Messages
<1>12. ClientShape(state, alive, queued, up, down, responses, owed, told)'
  BY <1>1, <1>7, Parts DEF ClientShape
<1>13. EditorShape(at, front, buf, asking)'
  BY <1>1, <1>2, Parts DEF EditorShape
<1>14. HeldInv'
  <2>1. ASSUME NEW g \in Files PROVE Held(buf[g], documents[g], applied[g], parked'[g], bound.edits[g], state)
    <3>1. Held(buf[g], documents[g], applied[g], parked[g], bound.edits[g], state)
      BY OpenBuffer, Zenon
    <3>2. CASE g # f
      BY <1>6, <3>1, <3>2, Zenon
    <3>3. CASE g = f
      BY <1>3, <1>5, <1>6, <3>1, <3>3, Zenon DEF Held
    <3> QED  BY <3>2, <3>3
  <2> QED  BY <1>1, <2>1, Zenon DEF HeldInv
<1>15. IdsInv'
  BY <1>1, <1>7, Zenon DEF IdsInv
<1>16. AskedInv'
  <2>1. Asked(ToSet(OnItsWay) \cup Answers, parked)
    BY Parts, Zenon DEF AskedInv
  <2>2. Asked(ToSet(OnItsWay') \cup Answers, parked')
    <3> SUFFICES ASSUME NEW m \in ToSet(OnItsWay') \cup Answers, m.type \in {"tokens", "response"}, m.file # NoFile
                 PROVE  m.id = parked'[m.file].id
      BY DEF Asked
    <3>1. CASE m = q
      BY <1>4, <1>5, <1>6, <3>1
    <3>2. CASE m \in ToSet(OnItsWay) \cup Answers
      <4>1. m.id = parked[m.file].id /\ m.id \in 1..(nextId - 1)
        BY <1>10, <2>1, <3>2 DEF Asked, Asks
      <4>2. m.file # f
        BY <1>1, <4>1 DEF NoId
      <4>3. m.file \in Files
        <5>1. ToSet(OnItsWay) \subseteq Messages /\ ToSet(down) \subseteq Heads /\ ToSet(responses) \subseteq Replies
              /\ owed \subseteq Replies
          BY WayFacts, Elements
        <5>2. \A x \in Messages \cup Heads : x.file # NoFile => x.file \in Files
          BY Kinds DEF Messages, Heads
        <5> QED  BY <3>2, <5>1, <5>2 DEF Answers, Heads
      <4> QED  BY <1>6, <4>1, <4>2, <4>3
    <3> QED  BY <1>7, <3>1, <3>2
  <2> QED  BY <1>8, <2>2, Zenon DEF AskedInv
<1>17. StepInv'
  BY <1>1, <1>7, Parts, Zenon DEF StepInv
<1>18. FitInv'
  <2>1. ASSUME NEW g \in Files
        PROVE  Fit(g, opens[g], buf[g], documents[g], told[g], ToSet(OnItsWay') \cup ToSet(down))
    <3> DEFINE S == ToSet(OnItsWay) \cup ToSet(down)
    <3>1. Fit(g, opens[g], buf[g], documents[g], told[g], S \cup {q})
      BY <1>4, FitFacts, FitMore
    <3>2. ToSet(OnItsWay') \cup ToSet(down) \subseteq S \cup {q}
      BY <1>7
    <3> HIDE DEF S
    <3> QED  BY <3>1, <3>2, Fewer
  <2> QED  BY <1>1, <2>1, Zenon DEF FitInv
<1>19. PaintInv'
  <2> SUFFICES ASSUME NEW g \in Files
               PROVE  Paints(opens[g], parked'[g], applied[g], buf[g], documents[g], nextId + 1)
    BY <1>1, Zenon DEF PaintInv
  <2>1. Paints(opens[g], parked[g], applied[g], buf[g], documents[g], nextId)
    BY Parts, Zenon DEF PaintInv
  <2>2. parked[g].id < nextId => parked[g].id < nextId + 1
    BY <1>3, OpenBuffer, Fields
  <2>3. CASE g # f
    <3>1. Paints(opens[g], parked[g], applied[g], buf[g], documents[g], nextId + 1)
      BY <2>1, <2>2, Zenon DEF Paints
    <3> QED  BY <1>6, <2>3, <3>1, Zenon
  <2>4. CASE g = f
    <3>1. opens[f] # 0
      BY <1>2, <2>1, <2>4, Zenon DEF Paints, b
    <3>2. pk.id < nextId + 1 /\ pk.version <= b.version
      BY <1>3, <1>5
    <3>3. Paints(opens[f], pk, applied[f], b, documents[f], nextId + 1)
      BY <1>5, <2>1, <2>4, <3>1, <3>2, Zenon DEF Paints, b
    <3> QED  BY <1>6, <2>4, <3>3, Zenon DEF b
  <2> QED  BY <2>3, <2>4
<1>20. WaitInv'
  <2> SUFFICES ASSUME NEW g \in Files, Waits(opens[g], parked'[g], buf[g], documents[g])
               PROVE  /\ AnsweredFor(Answers, parked'[g].id, buf[g].text)
                      /\ alive => AsksFor(OnItsWay', g, told[g], parked'[g].id, buf[g].text)
    BY <1>1, <1>8, Zenon DEF WaitInv
  <2>1. CASE g # f
    <3>1. Waits(opens[g], parked[g], buf[g], documents[g]) /\ parked'[g] = parked[g]
      BY <1>6, <2>1, Zenon
    <3>2. /\ AnsweredFor(Answers, parked[g].id, buf[g].text)
          /\ alive => AsksFor(OnItsWay, g, told[g], parked[g].id, buf[g].text)
      BY <3>1, Parts, Zenon DEF WaitInv
    <3>3. q.id # parked[g].id
      <4>1. Paints(opens[g], parked[g], applied[g], buf[g], documents[g], nextId)
        BY Parts, Zenon DEF PaintInv
      <4>2. parked[g].id < nextId
        BY <3>1, <4>1, Zenon DEF Paints, Waits
      <4> QED  BY <1>3, <1>4, <4>2
    <3>4. alive => AsksFor(Append(OnItsWay, q), g, told[g], parked[g].id, buf[g].text)
      <4>1. q \in Messages /\ OnItsWay \in Seq(Messages)
        BY <1>4, WayFacts DEF Messages
      <4> QED  BY <3>2, <3>3, <4>1, AppendAsks
    <3> QED  BY <1>7, <3>1, <3>2, <3>4, Zenon
  <2>2. CASE g = f
    <3>1. \A m \in ToSet(OnItsWay) \cup Answers : Asks(m) => m.id # nextId
      BY <1>3, <1>10
    <3>2. AnsweredFor(Answers, nextId, b.text)
      BY <3>1 DEF AnsweredFor, Asks
    <3>3. ASSUME alive PROVE AsksFor(Append(OnItsWay, q), f, told[f], nextId, b.text)
      <4>1. q \in Messages /\ OnItsWay \in Seq(Messages) /\ DOMAIN OnItsWay = 1..Len(OnItsWay)
        BY <1>4, WayFacts DEF Messages
      <4>2. \A k \in 1..Len(OnItsWay) : OnItsWay[k] \in ToSet(OnItsWay)
        BY <4>1 DEF ToSet
      <4>3. AsksFor(OnItsWay, f, told[f], nextId, b.text)
        BY <3>1, <4>2 DEF AsksFor, Asks, Question
      <4>4. InStep(f, documents[f], b, told[f], OnItsWay)
        BY <1>2, <3>3, Parts, Zenon DEF StepInv, b
      <4>5. HeardOf(told[f], f, OnItsWay, Len(OnItsWay)).text = b.text
        <5>1. documents[f].version # Unknown /\ documents[f].version = b.version
          BY <1>1, <1>3 DEF Unknown, f, b
        <5>2. Differs(b)
          BY <2>2, Zenon DEF Waits, b
        <5> QED  BY <4>4, <5>1, <5>2, Zenon DEF InStep, EndsWith
      <4> QED  BY <1>4, <4>1, <4>3, <4>5, AppendAsks
    <3> QED  BY <1>5, <1>6, <1>7, <2>2, <3>2, <3>3, Zenon DEF b
  <2> QED  BY <2>1, <2>2
<1> QED  BY <1>11, <1>12, <1>13, <1>14, <1>15, <1>16, <1>17, <1>18, <1>19, <1>20, Zenon DEF LspInv

LEMMA SyncTokensInv == ASSUME LspInv, SyncTokens PROVE LspInv'
<1>1. CASE TokensAwaited \/ TokensSettled
  <2>1. /\ UNCHANGED <<front, buf, disk, client, asking, parked, applied, up, down, process, bound, opens>>
        /\ at = "tokens" /\ at' = "keys"
    BY <1>1 DEF SyncTokens, TokensAwaited, TokensSettled, client, counts
  <2>2. /\ EditorShape(at, front, buf, asking) /\ front \in Files \cup {NoFile} /\ asking \in Nat
        /\ disk \in [Files -> Texts]
    BY Parts, Types, Zenon
  <2>3. state' = state
    BY <2>1 DEF client
  <2>4. EditorShape(at, front, buf, asking)'
    BY <2>1, <2>2, <2>3 DEF EditorShape
  <2> QED  BY <2>1, <2>2, <2>4, StillInv
<1> QED  BY <1>1, TokensForgottenInv, TokensCollectedInv, TokensAskedInv DEF SyncTokens

-----------------------------------------------------------------------------
(* A change is sent, or a question, or one after the other. *)

\* What is new on the way v: the buffer of f as it is, and questions about no file.
SaysNow(m, f, b) ==
    m \in Alterations /\ m.file = f /\ m.version = b.version /\ m.text = b.text /\ m.life = opens[f]
AsksNothing(m) == m \in Questions /\ m.type = "ask" /\ m.file = NoFile

\* The messages on their way may become v, the records D and the next id n.
Way(v, D, f, n) ==
    /\ v \in Seq(Messages) /\ IdsApart(v, owed, down, responses, n)
    /\ \A m \in ToSet(v) : m \in ToSet(OnItsWay) \/ SaysNow(m, f, buf[f]) \/ AsksNothing(m)
    /\ alive => \A g \in Files :
         /\ InStep(g, D[g], buf[g], told[g], v)
         /\ Waits(opens[g], parked[g], buf[g], documents[g]) =>
                AsksFor(v, g, told[g], parked[g].id, buf[g].text)

LEMMA WaySame == ASSUME LspInv, NEW f PROVE Way(OnItsWay, documents, f, nextId)
<1>1. OnItsWay \in Seq(Messages)
  BY WayFacts
<1> QED  BY <1>1, Parts, Zenon DEF Way, IdsInv, StepInv, WaitInv

LEMMA WayLost ==
    ASSUME LspInv, ~alive, NEW f, NEW D
    PROVE  Way(OnItsWay, D, f, nextId) /\ Way(OnItsWay, D, f, nextId + 1)
<1>1. OnItsWay \in Seq(Messages) /\ IdsApart(OnItsWay, owed, down, responses, nextId) /\ nextId \in Nat \ {0}
  BY WayFacts, Parts, Types, Zenon DEF IdsInv
<1>2. IdsApart(OnItsWay, owed, down, responses, nextId + 1)
  BY <1>1, SendIds
<1> QED  BY <1>1, <1>2, Zenon DEF Way

LEMMA WayAsked ==
    ASSUME LspInv, NEW v, NEW D, NEW f, Way(v, D, f, nextId), NEW q \in Questions, AsksNothing(q), q.id = nextId
    PROVE  Way(Append(v, q), D, f, nextId + 1)
<1>1. /\ v \in Seq(Messages) /\ IdsApart(v, owed, down, responses, nextId) /\ nextId \in Nat \ {0}
      /\ q \in Messages /\ Question(q) /\ q.type = "ask" /\ q.file = NoFile
  BY Types, Kinds DEF Way, Messages, AsksNothing
<1>2. Append(v, q) \in Seq(Messages) /\ ToSet(Append(v, q)) = ToSet(v) \cup {q}
  BY <1>1, AppendFacts
<1>3. IdsApart(Append(v, q), owed, down, responses, nextId + 1)
  BY <1>1, SendIds
<1>4. \A m \in ToSet(Append(v, q)) : m \in ToSet(OnItsWay) \/ SaysNow(m, f, buf[f]) \/ AsksNothing(m)
  BY <1>2, Zenon DEF Way
<1>5. ASSUME alive, NEW g \in Files PROVE InStep(g, D[g], buf[g], told[g], Append(v, q))
  <2>1. InStep(g, D[g], buf[g], told[g], v)
    BY <1>5, Zenon DEF Way
  <2> QED  BY <1>1, <2>1, OtherInStep
<1>6. ASSUME alive, NEW g \in Files, Waits(opens[g], parked[g], buf[g], documents[g])
      PROVE  AsksFor(Append(v, q), g, told[g], parked[g].id, buf[g].text)
  <2>1. AsksFor(v, g, told[g], parked[g].id, buf[g].text)
    BY <1>6, Zenon DEF Way
  <2>2. parked[g].id < nextId
    BY <1>6, Parts, Zenon DEF PaintInv, Paints, Waits
  <2>3. q.id # parked[g].id
    BY <1>1, <2>2
  <2> QED  BY <1>1, <2>1, <2>3, AppendAsks
<1> QED  BY <1>2, <1>3, <1>4, <1>5, <1>6, Zenon DEF Way

\* What a change says, and what the server is left with.
LEMMA ChangesFacts ==
    ASSUME LspInv, NEW f \in Files, Known(f)
    PROVE  /\ \/ Changes(f, buf[f]) = <<>> /\ (alive => InStep(f, Changed(f, buf[f])[f], buf[f], told[f], OnItsWay))
              \/ \E m \in Alterations :
                    /\ Changes(f, buf[f]) = <<m>> /\ SaysNow(m, f, buf[f])
                    /\ alive => InStep(f, Changed(f, buf[f])[f], buf[f], told[f], Append(OnItsWay, m))
           /\ Changed(f, buf[f]) \in [Files -> Documents]
           /\ \A g \in Files : g # f => Changed(f, buf[f])[g] = documents[g]
           /\ Changed(f, buf[f])[f].version = buf[f].version
           /\ Changed(f, buf[f])[f].published = documents[f].published
           /\ Changed(f, buf[f])[f].unapplied = documents[f].unapplied
           /\ buf[f] # Closed /\ state \in Live /\ buf[f].version \in Nat /\ buf[f].text \in Texts
<1> DEFINE b == buf[f]
           d == documents[f]
           D == Changed(f, b)
           h == HeardOf(told[f], f, OnItsWay, Len(OnItsWay))
<1>1. d \in Documents /\ documents \in [Files -> Documents] /\ d.version # Unknown /\ opens[f] \in Nat
  BY OpenBuffer, Types DEF Known
<1>2. b # Closed /\ state \in Live /\ b.version \in Nat /\ b.text \in Texts
  <2>1. Held(b, d, applied[f], parked[f], bound.edits[f], state)
    BY OpenBuffer, Zenon
  <2>2. b # Closed /\ state \in Live
    BY <1>1, <2>1, Zenon DEF Held
  <2> QED  BY <2>2, OpenBuffer, Zenon
<1>3. SentOf(b) \in Said /\ b.version \in Versions /\ d.sent \in Said
  BY <1>1, <1>2, Fields DEF SentOf, Said, Versions
<1>4. PICK e \in Documents : /\ D = [documents EXCEPT ![f] = e] /\ e.version = b.version
                             /\ e.sent = SentOf(b) /\ e.published = d.published /\ e.unapplied = d.unapplied
  <2> DEFINE e == [d EXCEPT !.version = b.version, !.sent = SentOf(b)]
  <2>1. /\ e \in Documents /\ e.version = b.version /\ e.sent = SentOf(b) /\ e.published = d.published
        /\ e.unapplied = d.unapplied
    BY <1>1, <1>3 DEF Documents
  <2>2. D = [documents EXCEPT ![f] = e]
    BY <1>1 DEF Changed
  <2> HIDE DEF e, D
  <2> QED  BY <2>1, <2>2
<1>5. D \in [Files -> Documents] /\ D[f] = e /\ \A g \in Files : g # f => D[g] = documents[g]
  <2> HIDE DEF D
  <2> QED  BY <1>1, <1>4
<1> HIDE DEF D
<1>6. ASSUME alive
      PROVE  /\ NeverLost(f, told[f], OnItsWay)
             /\ h.version # Unknown /\ (d.sent # Empty => h.text = d.sent)
  BY <1>1, <1>6, Parts, Zenon DEF StepInv, InStep, EndsWith
<1>7. b.text # Garbled /\ b.version # Unknown /\ NoText \notin Texts
  BY <1>2, Fields DEF Unknown
<1> HIDE DEF h
<1>8. CASE Changes(f, b) = <<>> /\ UsesDifferences /\ d.sent = b.text
  <2>1. ASSUME alive PROVE InStep(f, D[f], b, told[f], OnItsWay)
    <3>1. EndsWith(e, b, h)
      BY <1>4, <1>6, <1>8, <2>1 DEF EndsWith, SentOf, Differs, UsesDifferences
    <3> QED  BY <1>5, <1>6, <2>1, <3>1, Zenon DEF InStep, h
  <2> QED  BY <1>2, <1>4, <1>5, <1>8, <2>1 DEF D
<1>9. ASSUME NEW m \in Alterations, Changes(f, b) = <<m>>, m.file = f, m.version = b.version, m.text = b.text,
             m.life = opens[f], m.base = NoText \/ (d.sent # Empty /\ m.base = d.sent)
      PROVE  SaysNow(m, f, b) /\ (alive => InStep(f, D[f], b, told[f], Append(OnItsWay, m)))
  <2>1. SaysNow(m, f, b)
    BY <1>9 DEF SaysNow
  <2>2. m \in Messages /\ ~Question(m) /\ m.type = "didChange"
    BY Kinds DEF Messages, Notes, Alterations
  <2>3. ASSUME alive PROVE InStep(f, D[f], b, told[f], Append(OnItsWay, m))
    <3>1. After(h, m, f) = [version |-> b.version, due |-> TRUE, life |-> m.life, text |-> b.text]
      BY <1>6, <1>9, <2>2, <2>3 DEF After, Heard
    <3>2. After(h, m, f).text = b.text /\ After(h, m, f).version = b.version
      BY <3>1
    <3>3. EndsWith(e, b, After(h, m, f)) /\ After(h, m, f).text # Garbled
      BY <1>4, <1>7, <3>2 DEF EndsWith, SentOf
    <3>4. OnItsWay \in Seq(Messages)
      BY WayFacts
    <3> QED  BY <1>5, <1>6, <2>2, <2>3, <3>3, <3>4, AppendInStep DEF h
  <2> QED  BY <2>1, <2>3
<1>10. \/ Changes(f, b) = <<>> /\ UsesDifferences /\ d.sent = b.text
       \/ \E m \in Alterations :
             /\ Changes(f, b) = <<m>> /\ m.file = f /\ m.version = b.version /\ m.text = b.text /\ m.life = opens[f]
             /\ m.base = NoText \/ (d.sent # Empty /\ m.base = d.sent)
  <2> DEFINE w == Whole(f, b)
             v == [type |-> "didChange", file |-> f, version |-> b.version, base |-> d.sent, text |-> b.text,
                   life |-> opens[f]]
  <2>1. /\ w \in Alterations /\ w.file = f /\ w.version = b.version /\ w.text = b.text /\ w.base = NoText
        /\ w.life = opens[f]
    BY <1>1, <1>2 DEF Whole, Alterations
  <2>2. /\ v \in Alterations /\ v.file = f /\ v.version = b.version /\ v.text = b.text /\ v.base = d.sent
        /\ v.life = opens[f]
    BY <1>1, <1>2, <1>3 DEF Alterations
  <2>3. [w EXCEPT !.base = d.sent] = v
    BY DEF Whole
  <2> HIDE DEF w, v
  <2>4. CASE ~UsesDifferences \/ (d.sent = Empty /\ b.text # Empty)
    <3>1. Changes(f, b) = <<w>>
      BY <2>4 DEF Changes, w
    <3> QED  BY <2>1, <3>1
  <2>5. CASE UsesDifferences /\ d.sent = b.text /\ ~(d.sent = Empty /\ b.text # Empty)
    <3>1. Changes(f, b) = <<>>
      BY <2>5 DEF Changes
    <3> QED  BY <2>5, <3>1
  <2>6. CASE UsesDifferences /\ d.sent # b.text /\ ~(d.sent = Empty /\ b.text # Empty)
    <3>1. Changes(f, b) = <<v>> /\ d.sent # Empty
      BY <2>3, <2>6 DEF Changes, w
    <3> QED  BY <2>2, <3>1
  <2> QED  BY <2>4, <2>5, <2>6
<1>11. ASSUME NEW m \in Alterations, Changes(f, b) = <<m>>, m.file = f, m.version = b.version, m.text = b.text,
              m.life = opens[f], m.base = NoText \/ (d.sent # Empty /\ m.base = d.sent)
       PROVE  \E x \in Alterations :
                    /\ Changes(f, buf[f]) = <<x>> /\ SaysNow(x, f, buf[f])
                    /\ alive => InStep(f, Changed(f, buf[f])[f], buf[f], told[f], Append(OnItsWay, x))
  BY <1>9, <1>11 DEF D
<1> QED  BY <1>2, <1>4, <1>5, <1>8, <1>10, <1>11 DEF D

LEMMA WayChanged ==
    ASSUME LspInv, NEW f \in Files, Known(f)
    PROVE  /\ Way(OnItsWay \o Changes(f, buf[f]), Changed(f, buf[f]), f, nextId)
           /\ Changes(f, buf[f]) \in Seq(Notes) /\ Changes(f, buf[f]) \in Seq(Messages)
<1> DEFINE b == buf[f]
           D == Changed(f, b)
<1>0. /\ OnItsWay \in Seq(Messages) /\ nextId \in Nat \ {0} /\ IdsApart(OnItsWay, owed, down, responses, nextId)
  BY WayFacts, Types, Parts, Zenon DEF IdsInv
<1>1. /\ \/ Changes(f, b) = <<>> /\ (alive => InStep(f, D[f], b, told[f], OnItsWay))
         \/ \E m \in Alterations :
               /\ Changes(f, b) = <<m>> /\ SaysNow(m, f, b)
               /\ alive => InStep(f, D[f], b, told[f], Append(OnItsWay, m))
      /\ \A g \in Files : g # f => D[g] = documents[g]
  BY ChangesFacts
<1> HIDE DEF D, b
<1>2. CASE Changes(f, b) = <<>> /\ (alive => InStep(f, D[f], b, told[f], OnItsWay))
  <2>1. OnItsWay \o <<>> = OnItsWay
    BY <1>0, ConcatFacts
  <2>2. ASSUME alive, NEW g \in Files PROVE InStep(g, D[g], buf[g], told[g], OnItsWay)
    <3>1. InStep(g, documents[g], buf[g], told[g], OnItsWay)
      BY <2>2, Parts, Zenon DEF StepInv
    <3> QED  BY <1>1, <1>2, <2>2, <3>1, Zenon DEF b
  <2>3. Way(OnItsWay, documents, f, nextId)
    BY WaySame
  <2>4. Way(OnItsWay, D, f, nextId)
    BY <2>2, <2>3, Zenon DEF Way
  <2> QED  BY <1>2, <2>1, <2>4, NoElements, Zenon DEF b, D
<1>3. ASSUME NEW m \in Alterations, Changes(f, b) = <<m>>, SaysNow(m, f, b),
             alive => InStep(f, D[f], b, told[f], Append(OnItsWay, m))
      PROVE  Way(OnItsWay \o <<m>>, D, f, nextId) /\ <<m>> \in Seq(Notes) /\ <<m>> \in Seq(Messages)
  <2>1. m \in Notes /\ m \in Messages /\ ~Question(m) /\ m.file = f
    BY <1>3, Kinds DEF Notes, Messages, SaysNow
  <2>2. /\ OnItsWay \o <<m>> = Append(OnItsWay, m) /\ Append(OnItsWay, m) \in Seq(Messages)
        /\ ToSet(Append(OnItsWay, m)) = ToSet(OnItsWay) \cup {m}
    BY <1>0, <2>1, AppendFacts
  <2>3. IdsApart(Append(OnItsWay, m), owed, down, responses, nextId)
    BY <1>0, <2>1, SendIds
  <2>4. \A x \in ToSet(Append(OnItsWay, m)) : x \in ToSet(OnItsWay) \/ SaysNow(x, f, buf[f]) \/ AsksNothing(x)
    BY <1>3, <2>2 DEF b
  <2>5. ASSUME alive, NEW g \in Files PROVE InStep(g, D[g], buf[g], told[g], Append(OnItsWay, m))
    <3>1. CASE g = f
      BY <1>3, <2>5, <3>1, Zenon DEF b
    <3>2. CASE g # f
      <4>1. InStep(g, documents[g], buf[g], told[g], OnItsWay)
        BY <2>5, Parts, Zenon DEF StepInv
      <4>2. InStep(g, documents[g], buf[g], told[g], Append(OnItsWay, m))
        BY <1>0, <2>1, <3>2, <4>1, OtherInStep
      <4> QED  BY <1>1, <3>2, <4>2, Zenon
    <3> QED  BY <3>1, <3>2
  <2>6. ASSUME alive, NEW g \in Files, Waits(opens[g], parked[g], buf[g], documents[g])
        PROVE  AsksFor(Append(OnItsWay, m), g, told[g], parked[g].id, buf[g].text)
    <3>1. AsksFor(OnItsWay, g, told[g], parked[g].id, buf[g].text)
      BY <2>6, Parts, Zenon DEF WaitInv
    <3> QED  BY <1>0, <2>1, <3>1, AppendAsks
  <2>7. Way(Append(OnItsWay, m), D, f, nextId)
    BY <2>2, <2>3, <2>4, <2>5, <2>6, Zenon DEF Way
  <2>8. <<m>> \in Seq(Notes) /\ <<m>> \in Seq(Messages)
    BY <2>1
  <2> QED  BY <2>2, <2>7, <2>8, Zenon
<1> QED  BY <1>1, <1>2, <1>3 DEF b, D

\* What is sent is on its way, or lost with the process.
LEMMA SentWay ==
    ASSUME LspInv, NEW ms \in Seq(Messages), state = "initializing" => ms \in Seq(Notes), Send(ms),
           NEW D, NEW f, NEW n \in {nextId, nextId + 1}, Way(OnItsWay \o ms, D, f, n)
    PROVE  /\ Way(OnItsWay', D, f, n)
           /\ queued' \in Seq(Notes) /\ up' \in Seq(Messages) /\ (queued' # <<>> => state = "initializing")
<1>1. /\ queued' \in Seq(Notes) /\ up' \in Seq(Messages)
      /\ OnItsWay' = OnItsWay \/ OnItsWay' = OnItsWay \o ms
      /\ alive => OnItsWay' = OnItsWay \o ms
      /\ queued' # <<>> => state = "initializing"
  BY SendFacts
<1>2. CASE OnItsWay' = OnItsWay \o ms
  BY <1>1, <1>2
<1>3. CASE OnItsWay' = OnItsWay /\ ~alive
  BY <1>1, <1>3, WayLost
<1> QED  BY <1>1, <1>2, <1>3

\* The records and the messages change; the buffers, and what is parked and
\* answered, do not.
LEMMA ChangeStep ==
    ASSUME LspInv, NEW f \in Files, state \in Live, buf[f] # Closed,
           UNCHANGED <<front, buf, state, responses, parked, applied, down, alive, told, owed, bound, opens>>,
           disk' \in [Files -> Texts], at' \in {"keys", "service", "sync", "diagnostics", "tokens"}, asking' \in Nat,
           EditorShape(at, front, buf, asking)',
           nextId' \in {nextId, nextId + 1},
           queued' \in Seq(Notes), up' \in Seq(Messages), queued' # <<>> => state = "initializing",
           documents' \in [Files -> Documents],
           \A g \in Files : g # f => documents'[g] = documents[g],
           documents'[f] = documents[f] \/ (Known(f) /\ documents'[f].version = buf[f].version),
           documents'[f].published = documents[f].published, documents'[f].unapplied = documents[f].unapplied,
           Way(OnItsWay', documents', f, nextId')
    PROVE  LspInv'
<1>1. Answers' = Answers
  BY DEF Answers
<1>2. nextId \in Nat \ {0} /\ nextId' \in Nat \ {0} /\ nextId <= nextId'
  <2>1. nextId \in Nat \ {0}
    BY Types, Zenon
  <2> QED  BY <2>1
<1>3. /\ buf[f].version \in Nat /\ buf[f].version <= bound.edits[f] /\ buf[f].text \in Texts
      /\ opens[f] \in Nat /\ opens[f] <= opens[f]
  BY OpenBuffer
<1>4. TypeInv'
  BY <1>2, Types, Zenon DEF TypeInv, Messages
<1>5. ClientShape(state, alive, queued, up, down, responses, owed, told)'
  <2>1. state \notin {"none", "failed"}
    BY DEF Live
  <2> QED  BY <2>1, Parts, Zenon DEF ClientShape
<1>6. HeldInv'
  <2>1. ASSUME NEW g \in Files PROVE Held(buf[g], documents'[g], applied[g], parked[g], bound.edits[g], state)
    <3>1. Held(buf[g], documents[g], applied[g], parked[g], bound.edits[g], state)
      BY OpenBuffer, Zenon
    <3>2. CASE documents'[g] = documents[g]
      BY <3>1, <3>2, Zenon
    <3>3. CASE g = f /\ documents'[f].version = buf[f].version
      <4>1. documents'[f].version <= buf[f].version
        BY <1>3, <3>3
      <4> QED  BY <3>1, <3>3, <4>1, Zenon DEF Held
    <3> QED  BY <3>2, <3>3
  <2> QED  BY <2>1, Zenon DEF HeldInv
<1>7. IdsInv'
  BY Zenon DEF Way, IdsInv
<1>8. AskedInv'
  <2>1. Asked(ToSet(OnItsWay) \cup Answers, parked)
    BY Parts, Zenon DEF AskedInv
  <2>2. ASSUME NEW m \in ToSet(OnItsWay'), m.type \in {"tokens", "response"}, m.file # NoFile PROVE m \in ToSet(OnItsWay)
    <3>1. m \in ToSet(OnItsWay) \/ SaysNow(m, f, buf[f]) \/ AsksNothing(m)
      BY Zenon DEF Way
    <3> QED  BY <2>2, <3>1 DEF SaysNow, AsksNothing, Alterations
  <2>3. Asked(ToSet(OnItsWay') \cup Answers, parked)
    BY <2>1, <2>2 DEF Asked
  <2> QED  BY <1>1, <2>3, Zenon DEF AskedInv
<1>9. StepInv'
  BY Zenon DEF Way, StepInv
<1>10. FitInv'
  <2>1. ASSUME NEW g \in Files
        PROVE  Fit(g, opens[g], buf[g], documents'[g], told[g], ToSet(OnItsWay') \cup ToSet(down))
    <3>1. Fit(g, opens[g], buf[g], documents[g], told[g], ToSet(OnItsWay) \cup ToSet(down))
      BY FitFacts, Zenon
    <3>2. ASSUME NEW m \in ToSet(OnItsWay') \cup ToSet(down), m.type \in {"didOpen", "didChange", "publish"}, m.file = g
          PROVE  Fits(m.version, m.text, m.life, opens[g], buf[g])
      <4>1. CASE m \in ToSet(OnItsWay) \cup ToSet(down)
        BY <3>1, <3>2, <4>1, Zenon DEF Fit, Fitting
      <4>2. CASE SaysNow(m, f, buf[f])
        BY <1>3, <3>2, <4>2 DEF SaysNow, Fits
      <4>3. CASE AsksNothing(m)
        BY <3>2, <4>3 DEF AsksNothing
      <4>4. m \in ToSet(OnItsWay) \cup ToSet(down) \/ SaysNow(m, f, buf[f]) \/ AsksNothing(m)
        <5>1. \A x \in ToSet(OnItsWay') : x \in ToSet(OnItsWay) \/ SaysNow(x, f, buf[f]) \/ AsksNothing(x)
          BY Zenon DEF Way
        <5> QED  BY <5>1
      <4> QED  BY <4>1, <4>2, <4>3, <4>4
    <3>3. Fitting(ToSet(OnItsWay') \cup ToSet(down), g, opens[g], buf[g])
      BY <3>2, Zenon DEF Fitting
    <3>4. documents'[g].published = documents[g].published /\ documents'[g].unapplied = documents[g].unapplied
      BY Zenon
    <3> QED  BY <3>1, <3>3, <3>4, Zenon DEF Fit
  <2> QED  BY <2>1, Zenon DEF FitInv
<1>11. ASSUME NEW g \in Files
       PROVE  \A l : Own(l, opens[g], buf[g], documents'[g]) => Own(l, opens[g], buf[g], documents[g])
  BY <1>11, Zenon DEF Own, Known
<1>12. PaintInv'
  <2> SUFFICES ASSUME NEW g \in Files
               PROVE  Paints(opens[g], parked[g], applied[g], buf[g], documents'[g], nextId')
    BY Zenon DEF PaintInv
  <2>1. Paints(opens[g], parked[g], applied[g], buf[g], documents[g], nextId)
    BY Parts, Zenon DEF PaintInv
  <2>2. parked[g].id < nextId => parked[g].id < nextId'
    BY <1>2, OpenBuffer, Fields
  <2> QED  BY <1>11, <2>1, <2>2, Zenon DEF Paints
<1>13. WaitInv'
  <2> SUFFICES ASSUME NEW g \in Files, Waits(opens[g], parked[g], buf[g], documents'[g])
               PROVE  /\ AnsweredFor(Answers, parked[g].id, buf[g].text)
                      /\ alive => AsksFor(OnItsWay', g, told[g], parked[g].id, buf[g].text)
    BY <1>1, Zenon DEF WaitInv
  <2>1. Waits(opens[g], parked[g], buf[g], documents[g])
    BY <1>11, Zenon DEF Waits
  <2> QED  BY <2>1, Parts, Zenon DEF Way, WaitInv
<1> QED  BY <1>4, <1>5, <1>6, <1>7, <1>8, <1>9, <1>10, <1>12, <1>13, Zenon DEF LspInv

\* What change_document does.
LEMMA ChangeDocumentFacts ==
    ASSUME LspInv, NEW f \in Files, ChangeDocument(f)
    PROVE  /\ Way(OnItsWay', documents', f, nextId)
           /\ queued' \in Seq(Notes) /\ up' \in Seq(Messages) /\ (queued' # <<>> => state = "initializing")
           /\ documents' \in [Files -> Documents] /\ \A g \in Files : g # f => documents'[g] = documents[g]
           /\ documents'[f] = documents[f] \/ (Known(f) /\ documents'[f].version = buf[f].version)
           /\ documents'[f].published = documents[f].published /\ documents'[f].unapplied = documents[f].unapplied
<1>1. CASE Known(f) /\ documents[f].version # buf[f].version
  <2>1. documents' = Changed(f, buf[f]) /\ Send(Changes(f, buf[f]))
    BY <1>1 DEF ChangeDocument
  <2>2. /\ Way(OnItsWay \o Changes(f, buf[f]), Changed(f, buf[f]), f, nextId)
        /\ Changes(f, buf[f]) \in Seq(Notes) /\ Changes(f, buf[f]) \in Seq(Messages)
    BY <1>1, WayChanged
  <2>3. /\ Way(OnItsWay', Changed(f, buf[f]), f, nextId)
        /\ queued' \in Seq(Notes) /\ up' \in Seq(Messages) /\ (queued' # <<>> => state = "initializing")
    BY <2>1, <2>2, SentWay
  <2>4. /\ Changed(f, buf[f]) \in [Files -> Documents]
        /\ \A g \in Files : g # f => Changed(f, buf[f])[g] = documents[g]
        /\ Changed(f, buf[f])[f].version = buf[f].version
        /\ Changed(f, buf[f])[f].published = documents[f].published /\ Changed(f, buf[f])[f].unapplied = documents[f].unapplied
    BY <1>1, ChangesFacts
  <2> QED  BY <1>1, <2>1, <2>3, <2>4, Zenon
<1>2. CASE ~(Known(f) /\ documents[f].version # buf[f].version)
  <2>1. documents' = documents /\ queued' = queued /\ up' = up
    BY <1>2 DEF ChangeDocument
  <2>2. OnItsWay' = OnItsWay
    BY <2>1, Zenon DEF OnItsWay
  <2>3. Way(OnItsWay, documents, f, nextId)
    BY WaySame
  <2>4. queued \in Seq(Notes) /\ up \in Seq(Messages) /\ documents \in [Files -> Documents]
        /\ (queued # <<>> => state = "initializing")
    BY WayFacts, Types, Parts, Zenon DEF ClientShape
  <2> QED  BY <2>1, <2>2, <2>3, <2>4, Zenon
<1> QED  BY <1>1, <1>2

LEMMA SyncDocumentInv == ASSUME LspInv, SyncDocument PROVE LspInv'
<1>1. /\ UNCHANGED <<front, buf, disk, state, responses, nextId, parked, applied, asking, down, alive, told, owed,
                     bound, opens>>
      /\ at = "sync" /\ at' = "diagnostics" /\ ChangeDocument(front) /\ Running
  BY DEF SyncDocument, NeedsChange, session, process, counts
<1>2. front \in Files /\ front # NoFile /\ buf[front] # Closed /\ asking = NoId
  BY <1>1, InFront
<1>3. /\ Way(OnItsWay', documents', front, nextId)
      /\ queued' \in Seq(Notes) /\ up' \in Seq(Messages) /\ (queued' # <<>> => state = "initializing")
      /\ documents' \in [Files -> Documents] /\ \A g \in Files : g # front => documents'[g] = documents[g]
      /\ documents'[front] = documents[front] \/ (Known(front) /\ documents'[front].version = buf[front].version)
      /\ documents'[front].published = documents[front].published /\ documents'[front].unapplied = documents[front].unapplied
  BY <1>1, <1>2, ChangeDocumentFacts
<1>4. EditorShape(at, front, buf, asking)'
  BY <1>1, <1>2, Parts DEF EditorShape
<1>5. state \in Live /\ at' \in {"keys", "service", "sync", "diagnostics", "tokens"}
  BY <1>1 DEF Running, Live
<1>6. disk' \in [Files -> Texts] /\ asking' \in Nat /\ nextId' \in {nextId, nextId + 1} /\ nextId' = nextId
  <2>1. disk \in [Files -> Texts] /\ asking \in Nat
    BY Types, Zenon
  <2> QED  BY <1>1, <2>1
<1>7. Way(OnItsWay', documents', front, nextId')
  BY <1>3, <1>6, Zenon
<1> QED  BY <1>1, <1>2, <1>3, <1>4, <1>5, <1>6, <1>7, ChangeStep, Zenon

LEMMA SaveInv == ASSUME LspInv, NEW f \in Files, Save(f) PROVE LspInv'
<1>1. /\ UNCHANGED <<at, front, buf, state, responses, nextId, parked, applied, asking, down, alive, told, owed,
                     bound, opens>>
      /\ at = "keys" /\ front = f /\ disk' = [disk EXCEPT ![f] = buf[f].text]
  BY DEF Save, AtKeys, session, process, counts
<1>2. /\ EditorShape(at, front, buf, asking) /\ front \in Files \cup {NoFile} /\ asking \in Nat
      /\ disk \in [Files -> Texts] /\ f # NoFile
  BY Parts, Types, Fields, Zenon
<1>3. buf[f] # Closed /\ buf[f].text \in Texts
  <2>1. buf[f] # Closed
    BY <1>1, <1>2, Zenon DEF EditorShape
  <2> QED  BY <2>1, OpenBuffer
<1>4. disk' \in [Files -> Texts]
  BY <1>1, <1>2, <1>3
<1>5. EditorShape(at, front, buf, asking)'
  BY <1>1, <1>2, Zenon
<1>6. CASE Running
  <2>1. ChangeDocument(f)
    BY <1>6 DEF Save
  <2>2. /\ Way(OnItsWay', documents', f, nextId)
        /\ queued' \in Seq(Notes) /\ up' \in Seq(Messages) /\ (queued' # <<>> => state = "initializing")
        /\ documents' \in [Files -> Documents] /\ \A g \in Files : g # f => documents'[g] = documents[g]
        /\ documents'[f] = documents[f] \/ (Known(f) /\ documents'[f].version = buf[f].version)
        /\ documents'[f].published = documents[f].published /\ documents'[f].unapplied = documents[f].unapplied
    BY <2>1, ChangeDocumentFacts
  <2>3. state \in Live /\ at' \in {"keys", "service", "sync", "diagnostics", "tokens"}
    BY <1>1, <1>6 DEF Running, Live
  <2>4. asking' \in Nat /\ nextId' \in {nextId, nextId + 1} /\ nextId' = nextId
    BY <1>1, <1>2
  <2>5. Way(OnItsWay', documents', f, nextId')
    BY <2>2, <2>4, Zenon
  <2> QED  BY <1>1, <1>3, <1>4, <1>5, <2>2, <2>3, <2>4, <2>5, ChangeStep, Zenon
<1>7. CASE ~Running
  <2>1. UNCHANGED <<buf, client, parked, applied, up, down, process, bound, opens>>
    BY <1>1, <1>7 DEF Save, client, process
  <2>2. at' \in {"keys", "service", "sync", "diagnostics", "tokens"} /\ front' \in Files \cup {NoFile} /\ asking' \in Nat
    BY <1>1, <1>2
  <2> QED  BY <1>4, <1>5, <2>1, <2>2, StillInv
<1> QED  BY <1>6, <1>7

LEMMA AskInv == ASSUME LspInv, NEW f \in Files, NEW flush \in BOOLEAN, Ask(f, flush) PROVE LspInv'
<1> DEFINE q == [type |-> "ask", id |-> nextId, file |-> NoFile]
           flushed == flush /\ Known(f) /\ documents[f].version # buf[f].version
           said == IF flushed THEN Changes(f, buf[f]) ELSE <<>>
           D == IF flushed THEN Changed(f, buf[f]) ELSE documents
<1>1. /\ UNCHANGED <<front, buf, disk, state, responses, parked, applied, down, alive, told, owed, bound, opens>>
      /\ at = "keys" /\ front = f /\ state = "ready" /\ documents' = D /\ Send(said \o <<q>>)
      /\ asking' = nextId /\ nextId' = nextId + 1 /\ at' = "service"
  BY DEF Ask, AtKeys, process
<1>2. /\ EditorShape(at, front, buf, asking) /\ nextId \in Nat \ {0}
      /\ disk \in [Files -> Texts] /\ f # NoFile
  BY Parts, Types, Fields, Zenon
<1>3. buf[f] # Closed
  BY <1>1, <1>2, Zenon DEF EditorShape
<1>4. q \in Questions /\ AsksNothing(q) /\ q.id = nextId /\ q \in Messages
  BY <1>2 DEF Questions, AsksNothing, Messages
<1> HIDE DEF q
<1>5. /\ said \in Seq(Messages) /\ Way(OnItsWay \o said, D, f, nextId)
      /\ D \in [Files -> Documents] /\ \A g \in Files : g # f => D[g] = documents[g]
      /\ D[f] = documents[f] \/ (Known(f) /\ D[f].version = buf[f].version)
      /\ D[f].published = documents[f].published /\ D[f].unapplied = documents[f].unapplied
  <2>1. CASE flushed
    BY <2>1, WayChanged, ChangesFacts
  <2>2. CASE ~flushed
    <3>1. OnItsWay \o <<>> = OnItsWay /\ documents \in [Files -> Documents]
      BY WayFacts, ConcatFacts, Types
    <3>2. Way(OnItsWay, documents, f, nextId)
      BY WaySame
    <3> QED  BY <2>2, <3>1, <3>2, NoElements
  <2> QED  BY <2>1, <2>2
<1> HIDE DEF said, D
<1>6. Way(OnItsWay \o (said \o <<q>>), D, f, nextId + 1) /\ said \o <<q>> \in Seq(Messages)
  <2>1. <<q>> \in Seq(Messages) /\ OnItsWay \in Seq(Messages)
    BY <1>4, WayFacts
  <2>2. /\ OnItsWay \o (said \o <<q>>) = (OnItsWay \o said) \o <<q>> /\ said \o <<q>> \in Seq(Messages)
        /\ OnItsWay \o said \in Seq(Messages)
    BY <1>5, <2>1, ConcatFacts
  <2>3. (OnItsWay \o said) \o <<q>> = Append(OnItsWay \o said, q)
    BY <1>4, <2>2, AppendFacts
  <2>4. Way(Append(OnItsWay \o said, q), D, f, nextId + 1)
    BY <1>4, <1>5, WayAsked
  <2> QED  BY <2>2, <2>3, <2>4, Zenon
<1>7. /\ Way(OnItsWay', D, f, nextId + 1)
      /\ queued' \in Seq(Notes) /\ up' \in Seq(Messages) /\ (queued' # <<>> => state = "initializing")
  <2>1. state = "initializing" => said \o <<q>> \in Seq(Notes)
    BY <1>1
  <2> QED  BY <1>1, <1>6, <2>1, SentWay
<1>8. EditorShape(at, front, buf, asking)'
  BY <1>1, <1>2 DEF EditorShape
<1>9. state \in Live /\ at' \in {"keys", "service", "sync", "diagnostics", "tokens"}
  BY <1>1 DEF Live
<1>10. asking' \in Nat /\ nextId' \in {nextId, nextId + 1} /\ nextId' = nextId + 1 /\ disk' \in [Files -> Texts]
  BY <1>1, <1>2
<1>11. /\ Way(OnItsWay', documents', f, nextId')
       /\ documents' \in [Files -> Documents] /\ \A g \in Files : g # f => documents'[g] = documents[g]
       /\ documents'[f] = documents[f] \/ (Known(f) /\ documents'[f].version = buf[f].version)
       /\ documents'[f].published = documents[f].published /\ documents'[f].unapplied = documents[f].unapplied
  BY <1>1, <1>5, <1>7, <1>10, Zenon
<1> QED  BY <1>1, <1>3, <1>7, <1>8, <1>9, <1>10, <1>11, ChangeStep, Zenon

-----------------------------------------------------------------------------
(* A buffer is closed. *)

\* What a note does to the way, but for the record of its file.
LEMMA WayTold ==
    ASSUME LspInv, NEW f \in Files, NEW m \in Notes, m.file = f
    PROVE  /\ OnItsWay \o <<m>> = Append(OnItsWay, m) /\ <<m>> \in Seq(Notes) /\ <<m>> \in Seq(Messages)
           /\ IdsApart(Append(OnItsWay, m), owed, down, responses, nextId)
           /\ ToSet(Append(OnItsWay, m)) = ToSet(OnItsWay) \cup {m}
           /\ alive => \A g \in Files :
                /\ g # f => InStep(g, documents[g], buf[g], told[g], Append(OnItsWay, m))
                /\ Waits(opens[g], parked[g], buf[g], documents[g]) =>
                       AsksFor(Append(OnItsWay, m), g, told[g], parked[g].id, buf[g].text)
<1>0. /\ OnItsWay \in Seq(Messages) /\ nextId \in Nat \ {0} /\ IdsApart(OnItsWay, owed, down, responses, nextId)
  BY WayFacts, Types, Parts, Zenon DEF IdsInv
<1>1. m \in Messages /\ ~Question(m)
  BY Kinds DEF Messages
<1>2. <<m>> \in Seq(Notes) /\ <<m>> \in Seq(Messages)
  BY <1>1
<1>3. OnItsWay \o <<m>> = Append(OnItsWay, m) /\ ToSet(Append(OnItsWay, m)) = ToSet(OnItsWay) \cup {m}
  BY <1>0, <1>1, AppendFacts
<1>4. IdsApart(Append(OnItsWay, m), owed, down, responses, nextId)
  BY <1>0, SendIds
<1>5. ASSUME alive, NEW g \in Files, g # f PROVE InStep(g, documents[g], buf[g], told[g], Append(OnItsWay, m))
  <2>1. InStep(g, documents[g], buf[g], told[g], OnItsWay)
    BY <1>5, Parts, Zenon DEF StepInv
  <2> QED  BY <1>0, <1>1, <1>5, <2>1, OtherInStep
<1>6. ASSUME alive, NEW g \in Files, Waits(opens[g], parked[g], buf[g], documents[g])
      PROVE  AsksFor(Append(OnItsWay, m), g, told[g], parked[g].id, buf[g].text)
  <2>1. AsksFor(OnItsWay, g, told[g], parked[g].id, buf[g].text)
    BY <1>6, Parts, Zenon DEF WaitInv
  <2> QED  BY <1>0, <1>1, <2>1, AppendAsks
<1> QED  BY <1>2, <1>3, <1>4, <1>5, <1>6, Zenon

\* What is sent of f, and its record, as it is closed.
LEMMA ClosedFacts ==
    ASSUME LspInv, NEW f \in Files, Close(f), NEW m, m = [type |-> "didClose", file |-> f]
    PROVE  /\ documents' \in [Files -> Documents] /\ documents'[f].version = Unknown
           /\ documents'[f].published \in {<<>>, documents[f].published}
           /\ documents'[f].unapplied => documents'[f].published # <<>>
           /\ \A g \in Files : g # f => documents'[g] = documents[g]
           /\ queued' \in Seq(Notes) /\ up' \in Seq(Messages) /\ (queued' # <<>> => state = "initializing")
           /\ state \in Live \/ (queued' = queued /\ up' = up)
           /\ IdsApart(OnItsWay', owed, down, responses, nextId)
           /\ ToSet(OnItsWay') \subseteq ToSet(OnItsWay) \cup {m}
           /\ alive => \A g \in Files :
                /\ g # f => InStep(g, documents[g], buf[g], told[g], OnItsWay')
                /\ Waits(opens[g], parked[g], buf[g], documents[g]) =>
                       AsksFor(OnItsWay', g, told[g], parked[g].id, buf[g].text)
           /\ alive => NeverLost(f, told[f], OnItsWay')
<1>1. documents \in [Files -> Documents] /\ queued \in Seq(Notes) /\ up \in Seq(Messages)
      /\ (queued # <<>> => state = "initializing") /\ IdsApart(OnItsWay, owed, down, responses, nextId)
  BY WayFacts, Types, Parts, Zenon DEF ClientShape, IdsInv
<1>2. m \in Notes /\ m \in Messages /\ m.file = f /\ ~Question(m) /\ m.type = "didClose"
  BY Kinds DEF Closings, Notes, Messages
<1>3. CASE Running /\ Known(f)
  <2>1. documents' = [documents EXCEPT ![f] = NoDocument] /\ Send(<<m>>)
    BY <1>3 DEF Close
  <2>2. /\ OnItsWay \o <<m>> = Append(OnItsWay, m) /\ <<m>> \in Seq(Notes) /\ <<m>> \in Seq(Messages)
        /\ IdsApart(Append(OnItsWay, m), owed, down, responses, nextId)
        /\ ToSet(Append(OnItsWay, m)) = ToSet(OnItsWay) \cup {m}
        /\ alive => \A g \in Files :
             /\ g # f => InStep(g, documents[g], buf[g], told[g], Append(OnItsWay, m))
             /\ Waits(opens[g], parked[g], buf[g], documents[g]) =>
                    AsksFor(Append(OnItsWay, m), g, told[g], parked[g].id, buf[g].text)
    BY <1>2, WayTold
  <2>3. /\ queued' \in Seq(Notes) /\ up' \in Seq(Messages)
        /\ OnItsWay' = OnItsWay \/ OnItsWay' = OnItsWay \o <<m>>
        /\ alive => OnItsWay' = OnItsWay \o <<m>>
        /\ queued' # <<>> => state = "initializing"
    BY <2>1, <2>2, SendFacts
  <2>4. /\ documents' \in [Files -> Documents] /\ documents'[f].version = Unknown /\ documents'[f].published = <<>>
        /\ ~documents'[f].unapplied
        /\ \A g \in Files : g # f => documents'[g] = documents[g]
    <3>1. NoDocument \in Documents /\ NoDocument.version = Unknown /\ NoDocument.published = <<>> /\ ~NoDocument.unapplied
      BY Fields DEF NoDocument
    <3> QED  BY <1>1, <2>1, <3>1
  <2>5. state \in Live
    BY <1>3 DEF Running, Live
  <2>6. ASSUME alive PROVE NeverLost(f, told[f], Append(OnItsWay, m))
    <3>1. NeverLost(f, told[f], OnItsWay)
      BY <2>6, Parts, Zenon DEF StepInv, InStep
    <3>2. After(HeardOf(told[f], f, OnItsWay, Len(OnItsWay)), m, f) = NotTold
      BY <1>2 DEF After, Heard
    <3>3. NotTold.text # Garbled
      BY DEF NotTold, NoText, Garbled
    <3>4. EndsWith(NoDocument, Closed, NotTold)
      BY DEF EndsWith, NoDocument
    <3>5. OnItsWay \in Seq(Messages)
      BY WayFacts
    <3>6. InStep(f, NoDocument, Closed, told[f], Append(OnItsWay, m))
      BY <1>2, <3>1, <3>2, <3>3, <3>4, <3>5, AppendInStep
    <3> QED  BY <3>6, Zenon DEF InStep
  <2>7. CASE OnItsWay' = OnItsWay \o <<m>>
    <3>1. OnItsWay' = Append(OnItsWay, m)
      BY <2>2, <2>7
    <3>2. ToSet(OnItsWay') \subseteq ToSet(OnItsWay) \cup {m} /\ IdsApart(OnItsWay', owed, down, responses, nextId)
      BY <2>2, <3>1
    <3> QED  BY <2>2, <2>3, <2>4, <2>5, <2>6, <3>1, <3>2
  <2>8. CASE OnItsWay' = OnItsWay /\ ~alive
    BY <1>1, <2>3, <2>4, <2>5, <2>8
  <2> QED  BY <2>3, <2>7, <2>8
<1>4. CASE ~(Running /\ Known(f))
  <2>1. documents' = documents /\ queued' = queued /\ up' = up
    BY <1>4 DEF Close
  <2>2. OnItsWay' = OnItsWay
    BY <2>1, Zenon DEF OnItsWay
  <2>3. documents[f].version = Unknown
    <3>1. state \notin Live => documents[f].version = Unknown
      BY OpenBuffer, Zenon DEF Held
    <3>2. ~Running => state \notin Live
      BY DEF Running, Live
    <3> QED  BY <1>4, <3>1, <3>2 DEF Known
  <2>4. ASSUME alive, NEW g \in Files
        PROVE  /\ InStep(g, documents[g], buf[g], told[g], OnItsWay)
               /\ Waits(opens[g], parked[g], buf[g], documents[g]) =>
                      AsksFor(OnItsWay, g, told[g], parked[g].id, buf[g].text)
    BY <2>4, Parts, Zenon DEF StepInv, WaitInv
  <2>5. alive => NeverLost(f, told[f], OnItsWay)
    BY <2>4, Zenon DEF InStep
  <2>6. ToSet(OnItsWay') \subseteq ToSet(OnItsWay) \cup {m}
    BY <2>2
  <2>7. documents[f].unapplied => documents[f].published # <<>>
    BY FitFacts, Zenon DEF Fit
  <2> QED  BY <1>1, <2>1, <2>2, <2>3, <2>4, <2>5, <2>6, <2>7
<1> QED  BY <1>3, <1>4

LEMMA CloseInv == ASSUME LspInv, NEW f \in Files, Close(f) PROVE LspInv'
<1>1. /\ UNCHANGED <<at, disk, state, responses, nextId, parked, applied, asking, down, alive, told, owed,
                     bound, opens>>
      /\ at = "keys" /\ front = f /\ front' = NoFile /\ buf' = [buf EXCEPT ![f] = Closed]
  BY DEF Close, AtKeys, session, process, counts
<1>2. PICK m : m = [type |-> "didClose", file |-> f]
  OBVIOUS
<1>3. /\ documents' \in [Files -> Documents] /\ documents'[f].version = Unknown
      /\ documents'[f].published \in {<<>>, documents[f].published}
      /\ documents'[f].unapplied => documents'[f].published # <<>>
      /\ \A g \in Files : g # f => documents'[g] = documents[g]
      /\ queued' \in Seq(Notes) /\ up' \in Seq(Messages) /\ (queued' # <<>> => state = "initializing")
      /\ state \in Live \/ (queued' = queued /\ up' = up)
      /\ IdsApart(OnItsWay', owed, down, responses, nextId)
      /\ ToSet(OnItsWay') \subseteq ToSet(OnItsWay) \cup {m}
      /\ alive => \A g \in Files :
           /\ g # f => InStep(g, documents[g], buf[g], told[g], OnItsWay')
           /\ Waits(opens[g], parked[g], buf[g], documents[g]) =>
                  AsksFor(OnItsWay', g, told[g], parked[g].id, buf[g].text)
      /\ alive => NeverLost(f, told[f], OnItsWay')
  BY <1>2, ClosedFacts, Zenon
<1>4. /\ EditorShape(at, front, buf, asking) /\ front \in Files \cup {NoFile} /\ asking \in Nat
      /\ disk \in [Files -> Texts] /\ f # NoFile /\ Closed \in Buffers /\ buf \in [Files -> Buffers]
  BY Parts, Types, Fields, Zenon
<1>5. buf' \in [Files -> Buffers] /\ buf'[f] = Closed /\ \A g \in Files : g # f => buf'[g] = buf[g]
  BY <1>1, <1>4
<1>6. m.type = "didClose"
  BY <1>2
<1>7. Answers' = Answers
  BY <1>1, Zenon DEF Answers
<1>8. TypeInv'
  BY <1>1, <1>3, <1>5, Types, Zenon DEF TypeInv, Messages
<1>9. ClientShape(state, alive, queued, up, down, responses, owed, told)'
  <2>1. state \in Live => state \notin {"none", "failed"}
    BY DEF Live
  <2> QED  BY <1>1, <1>3, <2>1, Parts, Zenon DEF ClientShape
<1>10. EditorShape(at, front, buf, asking)'
  BY <1>1, <1>4 DEF EditorShape
<1>11. HeldInv'
  <2>1. ASSUME NEW g \in Files PROVE Held(buf'[g], documents'[g], applied[g], parked[g], bound.edits[g], state)
    <3>1. Held(buf[g], documents[g], applied[g], parked[g], bound.edits[g], state)
      BY OpenBuffer, Zenon
    <3>2. CASE g # f
      BY <1>3, <1>5, <3>1, <3>2, Zenon
    <3>3. CASE g = f
      BY <1>3, <1>5, <3>1, <3>3, Zenon DEF Held
    <3> QED  BY <3>2, <3>3
  <2> QED  BY <1>1, <2>1, Zenon DEF HeldInv
<1>12. IdsInv'
  BY <1>1, <1>3, Zenon DEF IdsInv
<1>13. AskedInv'
  <2>1. Asked(ToSet(OnItsWay) \cup Answers, parked)
    BY Parts, Zenon DEF AskedInv
  <2>2. Asked(ToSet(OnItsWay') \cup Answers, parked)
    BY <1>3, <1>6, <2>1 DEF Asked
  <2> QED  BY <1>1, <1>7, <2>2, Zenon DEF AskedInv
<1>14. StepInv'
  <2>1. ASSUME alive, NEW g \in Files PROVE InStep(g, documents'[g], buf'[g], told[g], OnItsWay')
    <3>1. CASE g # f
      BY <1>3, <1>5, <2>1, <3>1, Zenon
    <3>2. CASE g = f
      BY <1>3, <2>1, <3>2, Zenon DEF InStep, EndsWith
    <3> QED  BY <3>1, <3>2
  <2> QED  BY <1>1, <2>1, Zenon DEF StepInv
<1>15. FitInv'
  <2>1. ASSUME NEW g \in Files
        PROVE  Fit(g, opens[g], buf'[g], documents'[g], told[g], ToSet(OnItsWay') \cup ToSet(down))
    <3> DEFINE S == ToSet(OnItsWay) \cup ToSet(down)
    <3>1. Fit(g, opens[g], buf[g], documents[g], told[g], S)
      BY FitFacts, Zenon
    <3>2. Fit(g, opens[g], buf'[g], documents[g], told[g], S)
      <4>1. CASE g # f
        BY <1>5, <3>1, <4>1, Zenon
      <4>2. CASE g = f
        <5>1. \A v \in Versions, l \in Nat : \A x : Fits(v, x, l, opens[f], buf[f]) => Fits(v, x, l, opens[f], Closed)
          BY Zenon DEF Fits
        <5>2. Closed # Closed /\ Closed.diags # NoText /\ Closed.drawn = opens[f] => Closed.diags = Closed.text
          OBVIOUS
        <5>3. Fit(f, opens[f], Closed, documents[f], told[f], ToSet(OnItsWay) \cup ToSet(down))
          BY <3>1, <4>2, <5>1, <5>2, FitFacts, OnThePipes, FitLater, Zenon
        <5> QED  BY <1>5, <4>2, <5>3, Zenon
      <4> QED  BY <4>1, <4>2
    <3>3. Fit(g, opens[g], buf'[g], documents[g], told[g], S \cup {m})
      BY <1>6, <3>2, FitMore
    <3>4. ToSet(OnItsWay') \cup ToSet(down) \subseteq S \cup {m}
      BY <1>3
    <3> HIDE DEF S
    <3>5. Fit(g, opens[g], buf'[g], documents[g], told[g], ToSet(OnItsWay') \cup ToSet(down))
      BY <3>3, <3>4, Fewer
    <3>6. documents'[g].unapplied => documents'[g].published # <<>>
      BY <1>3, <3>5, Zenon DEF Fit
    <3>7. /\ Fitting(ToSet(documents'[g].published), g, opens[g], buf'[g])
          /\ \A i \in 1..Len(documents'[g].published) : documents'[g].published[i].file = g
      <4>1. CASE documents'[g].published = <<>>
        <5>1. Fitting({}, g, opens[g], buf'[g])
          BY DEF Fitting
        <5>2. \A i \in 1..Len(<<>>) : FALSE
          OBVIOUS
        <5> QED  BY <4>1, <5>1, <5>2, NoElements
      <4>2. CASE documents'[g].published = documents[g].published
        BY <3>5, <4>2, Zenon DEF Fit
      <4> QED  BY <1>3, <4>1, <4>2
    <3> QED  BY <3>5, <3>6, <3>7, Zenon DEF Fit
  <2> QED  BY <1>1, <2>1, Zenon DEF FitInv
<1>16. ASSUME NEW g \in Files
       PROVE  \A l : Own(l, opens[g], buf'[g], documents'[g]) => g # f /\ Own(l, opens[g], buf[g], documents[g])
  BY <1>3, <1>5, <1>16, Zenon DEF Own
<1>17. PaintInv'
  <2> SUFFICES ASSUME NEW g \in Files
               PROVE  Paints(opens[g], parked[g], applied[g], buf'[g], documents'[g], nextId)
    BY <1>1, Zenon DEF PaintInv
  <2>1. Paints(opens[g], parked[g], applied[g], buf[g], documents[g], nextId)
    BY Parts, Zenon DEF PaintInv
  <2>2. CASE g # f
    BY <1>3, <1>5, <2>1, <2>2, Zenon
  <2>3. CASE g = f
    BY <1>5, <1>16, <2>1, <2>3, Zenon DEF Paints
  <2> QED  BY <2>2, <2>3
<1>18. WaitInv'
  <2> SUFFICES ASSUME NEW g \in Files, Waits(opens[g], parked[g], buf'[g], documents'[g])
               PROVE  /\ AnsweredFor(Answers, parked[g].id, buf'[g].text)
                      /\ alive => AsksFor(OnItsWay', g, told[g], parked[g].id, buf'[g].text)
    BY <1>1, <1>7, Zenon DEF WaitInv
  <2>1. g # f
    BY <1>16, Zenon DEF Waits
  <2> QED  BY <1>3, <1>5, <2>1, Parts, Zenon DEF WaitInv
<1> QED  BY <1>8, <1>9, <1>10, <1>11, <1>12, <1>13, <1>14, <1>15, <1>17, <1>18, Zenon DEF LspInv

-----------------------------------------------------------------------------
(* A buffer is opened. *)

LEMMA OpenedFacts ==
    ASSUME LspInv, NEW f \in Files
    PROVE  /\ Opened(f) \in Buffers /\ Opened(f).version = 0 /\ Opened(f).text = disk[f] /\ disk[f] \in Texts
           /\ Opened(f).diags = NoText /\ Opened(f).asked = 0 /\ Opened(f) # Closed
           /\ OpenMessage(f, Opened(f)) \in Notes /\ OpenMessage(f, Opened(f)).type = "didOpen"
           /\ OpenMessage(f, Opened(f)).file = f /\ OpenMessage(f, Opened(f)).version = 0
           /\ OpenMessage(f, Opened(f)).text = disk[f] /\ OpenMessage(f, Opened(f)).life = opens[f] + 1
           /\ \A t : After(t, OpenMessage(f, Opened(f)), f) =
                        [version |-> 0, text |-> disk[f], due |-> TRUE, life |-> opens[f] + 1]
<1> DEFINE b == Opened(f)
           m == [type |-> "didOpen", file |-> f, version |-> 0, text |-> disk[f], life |-> opens[f] + 1]
<1>1. disk[f] \in Texts /\ opens[f] \in Nat
  BY OpenBuffer
<1>2. Closed \in Buffers /\ Closed.diags = NoText /\ Closed.version = Unknown /\ Closed.asked = 0
  BY Fields DEF Closed
<1>3. b \in Buffers /\ b.version = 0 /\ b.text = disk[f] /\ b.diags = NoText /\ b.asked = 0
  BY <1>1, <1>2 DEF Buffers, Versions, Opened
<1> HIDE DEF b
<1>4. b # Closed
  BY <1>2, <1>3 DEF Unknown
<1>5. OpenMessage(f, b) = m
  BY <1>3 DEF OpenMessage
<1>6. /\ m \in Openings /\ m.type = "didOpen" /\ m.file = f /\ m.version = 0 /\ m.text = disk[f]
      /\ m.life = opens[f] + 1
  BY <1>1 DEF Openings
<1> HIDE DEF m
<1>7. \A t : After(t, m, f) = [version |-> 0, text |-> disk[f], due |-> TRUE, life |-> opens[f] + 1]
  BY <1>6 DEF After, Heard, Question
<1> QED  BY <1>1, <1>3, <1>4, <1>5, <1>6, <1>7 DEF Notes, b

\* What is said of a buffer of an earlier life fits the next one.
LEMMA FitOpened ==
    ASSUME NEW f, NEW o \in Nat, NEW b, NEW c, NEW d \in Documents, NEW t \in Views,
           NEW S \in SUBSET (Messages \cup Heads), Fit(f, o, b, d, t, S), c.diags = NoText
    PROVE  Fit(f, o + 1, c, d, t, S)
<1>1. \A l \in Nat : \A v, x : Fits(v, x, l, o, b) => Fits(v, x, l, o + 1, c)
  BY DEF Fits
<1>2. Fitting(S, f, o + 1, c)
  BY <1>1, Versioned, Zenon DEF Fit, Fitting
<1>3. Fitting(ToSet(d.published), f, o + 1, c)
  <2>1. ToSet(d.published) \subseteq Publications
    BY Fields, Elements
  <2>2. ToSet(d.published) \subseteq Messages \cup Heads
    BY <2>1 DEF Heads
  <2> QED  BY <1>1, <2>2, Versioned, Zenon DEF Fit, Fitting
<1>4. t.due => Fits(t.version, t.text, t.life, o + 1, c)
  BY <1>1, Fields, Zenon DEF Fit
<1> QED  BY <1>2, <1>3, <1>4, Zenon DEF Fit

\* What the buffers and the counts of openings become.
Opens(f) ==
    /\ UNCHANGED <<at, disk, responses, parked, applied, asking, down, told, owed, bound>>
    /\ at = "keys" /\ buf[f] = Closed /\ front' = f
    /\ buf' = [buf EXCEPT ![f] = Opened(f)] /\ opens' = [opens EXCEPT ![f] = @ + 1]

LEMMA OpensFacts ==
    ASSUME LspInv, NEW f \in Files, Opens(f)
    PROVE  /\ buf' \in [Files -> Buffers] /\ buf'[f] = Opened(f) /\ \A g \in Files : g # f => buf'[g] = buf[g]
           /\ opens' \in [Files -> Nat] /\ opens'[f] = opens[f] + 1 /\ \A g \in Files : g # f => opens'[g] = opens[g]
           /\ UNCHANGED <<at, disk, responses, parked, applied, asking, down, told, owed, bound>>
           /\ at = "keys" /\ buf[f] = Closed /\ front' = f /\ opens[f] \in Nat /\ Answers' = Answers
<1>1. buf \in [Files -> Buffers] /\ opens \in [Files -> Nat] /\ Opened(f) \in Buffers /\ opens[f] \in Nat
  BY Types, OpenedFacts
<1>2. opens[f] + 1 \in Nat
  BY <1>1
<1>3. Answers' = Answers
  BY DEF Opens, Answers
<1> QED  BY <1>1, <1>2, <1>3 DEF Opens

LEMMA OpenStep ==
    ASSUME LspInv, NEW f \in Files, Opens(f),
           state' \in {"none", "failed", "initializing", "ready", "dead"}, alive' \in BOOLEAN,
           documents' \in [Files -> Documents], queued' \in Seq(Notes), up' \in Seq(Messages),
           nextId' \in Nat \ {0},
           alive' => state' \in {"initializing", "ready"}, queued' # <<>> => state' = "initializing",
           state' \in {"none", "failed"} => up' = <<>> /\ state \in {"none", "failed"},
           \A g \in Files : g # f => documents'[g] = documents[g],
           documents'[f].version \in {Unknown, 0}, documents'[f].version = 0 => state' \in Live,
           documents'[f].published \in {<<>>, documents[f].published},
           documents'[f].unapplied => documents'[f].published # <<>>,
           state \in Live => state' \in Live,
           IdsApart(OnItsWay', owed, down, responses, nextId'),
           \A m \in ToSet(OnItsWay') : \/ m \in ToSet(OnItsWay) \/ m = OpenMessage(f, Opened(f))
                                       \/ m.type = "initialize" /\ m.file = NoFile,
           alive' => InStep(f, documents'[f], Opened(f), told[f], OnItsWay'),
           alive' => \A g \in Files : g # f => InStep(g, documents[g], buf[g], told[g], OnItsWay'),
           \/ /\ UNCHANGED <<state, alive, nextId>>
              /\ alive => \A g \in Files : g # f /\ Waits(opens[g], parked[g], buf[g], documents[g]) =>
                              AsksFor(OnItsWay', g, told[g], parked[g].id, buf[g].text)
           \/ state = "none"
    PROVE  LspInv'
<1> DEFINE b == Opened(f)
<1>1. /\ buf' \in [Files -> Buffers] /\ buf'[f] = b /\ \A g \in Files : g # f => buf'[g] = buf[g]
      /\ opens' \in [Files -> Nat] /\ opens'[f] = opens[f] + 1 /\ \A g \in Files : g # f => opens'[g] = opens[g]
      /\ UNCHANGED <<at, disk, responses, parked, applied, asking, down, told, owed, bound>>
      /\ at = "keys" /\ buf[f] = Closed /\ front' = f /\ opens[f] \in Nat /\ Answers' = Answers
  BY OpensFacts, Zenon
<1>2. /\ b \in Buffers /\ b.version = 0 /\ b.text = disk[f] /\ disk[f] \in Texts /\ b.diags = NoText /\ b # Closed
      /\ b.asked = 0
      /\ OpenMessage(f, b).type = "didOpen" /\ OpenMessage(f, b).file = f /\ OpenMessage(f, b).version = 0
      /\ OpenMessage(f, b).text = disk[f] /\ OpenMessage(f, b).life = opens[f] + 1
  BY OpenedFacts, Zenon
<1> HIDE DEF b
<1>3. /\ EditorShape(at, front, buf, asking) /\ asking \in Nat /\ nextId \in Nat \ {0}
      /\ ClientShape(state, alive, queued, up, down, responses, owed, told) /\ f # NoFile
  BY Parts, Types, Fields, Zenon
<1>4. opens'[f] \in Nat /\ opens'[f] # 0 /\ opens'[f] <= opens'[f]
  BY <1>1
<1>5. TypeInv'
  BY <1>1, Types, Zenon DEF TypeInv, Messages
<1>6. ClientShape(state, alive, queued, up, down, responses, owed, told)'
  BY <1>1, <1>3, Zenon DEF ClientShape
<1>7. EditorShape(at, front, buf, asking)'
  BY <1>1, <1>2, <1>3 DEF EditorShape
<1>8. HeldInv'
  <2>1. ASSUME NEW g \in Files PROVE Held(buf'[g], documents'[g], applied[g], parked[g], bound.edits[g], state')
    <3>1. Held(buf[g], documents[g], applied[g], parked[g], bound.edits[g], state)
      BY OpenBuffer, Zenon
    <3>2. CASE g # f
      BY <1>1, <3>1, <3>2, Zenon DEF Held
    <3>3. CASE g = f
      <4>1. b.version \in 0..bound.edits[f] /\ (documents'[f].version # Unknown => documents'[f].version <= b.version)
        BY <1>2, OpenBuffer
      <4>2. documents'[f].version # Unknown => state' \in Live
        OBVIOUS
      <4> QED  BY <1>1, <1>2, <3>1, <3>3, <4>1, <4>2, Zenon DEF Held
    <3> QED  BY <3>2, <3>3
  <2> QED  BY <1>1, <2>1, Zenon DEF HeldInv
<1>9. IdsInv'
  BY <1>1, Zenon DEF IdsInv
<1>10. AskedInv'
  <2>1. Asked(ToSet(OnItsWay) \cup Answers, parked)
    BY Parts, Zenon DEF AskedInv
  <2>2. Asked(ToSet(OnItsWay') \cup Answers, parked)
    BY <1>2, <2>1 DEF Asked, b
  <2> QED  BY <1>1, <2>2, Zenon DEF AskedInv
<1>11. StepInv'
  <2>1. ASSUME alive', NEW g \in Files PROVE InStep(g, documents'[g], buf'[g], told[g], OnItsWay')
    <3>1. CASE g # f
      BY <1>1, <2>1, <3>1, Zenon
    <3>2. CASE g = f
      BY <1>1, <2>1, <3>2, Zenon DEF b
    <3> QED  BY <3>1, <3>2
  <2> QED  BY <1>1, <2>1, Zenon DEF StepInv
<1>12. FitInv'
  <2>1. ASSUME NEW g \in Files
        PROVE  Fit(g, opens'[g], buf'[g], documents'[g], told[g], ToSet(OnItsWay') \cup ToSet(down))
    <3> DEFINE S == ToSet(OnItsWay) \cup ToSet(down)
    <3>1. Fit(g, opens[g], buf[g], documents[g], told[g], S)
      BY FitFacts, Zenon
    <3>2. Fit(g, opens'[g], buf'[g], documents[g], told[g], S)
      <4>1. CASE g # f
        BY <1>1, <3>1, <4>1, Zenon
      <4>2. CASE g = f
        <5>1. Fit(f, opens[f] + 1, b, documents[f], told[f], S)
          BY <1>1, <1>2, <3>1, <4>2, FitFacts, OnThePipes, FitOpened
        <5> QED  BY <1>1, <4>2, <5>1, Zenon
      <4> QED  BY <4>1, <4>2
    <3>3. ASSUME NEW m \in ToSet(OnItsWay') \cup ToSet(down), m.type \in {"didOpen", "didChange", "publish"}, m.file = g
          PROVE  Fits(m.version, m.text, m.life, opens'[g], buf'[g])
      <4>1. CASE m \in S
        BY <3>2, <3>3, <4>1, Zenon DEF Fit, Fitting
      <4>2. CASE m = OpenMessage(f, b)
        BY <1>1, <1>2, <1>4, <3>3, <4>2 DEF Fits
      <4>3. CASE m.type = "initialize"
        BY <3>3, <4>3
      <4> QED  BY <3>3, <4>1, <4>2, <4>3 DEF b
    <3>4. Fitting(ToSet(OnItsWay') \cup ToSet(down), g, opens'[g], buf'[g])
      BY <3>3, Zenon DEF Fitting
    <3> HIDE DEF S
    <3>5. documents'[g].unapplied => documents'[g].published # <<>>
      BY <3>1, Zenon DEF Fit
    <3>6. /\ Fitting(ToSet(documents'[g].published), g, opens'[g], buf'[g])
          /\ \A i \in 1..Len(documents'[g].published) : documents'[g].published[i].file = g
      <4>1. CASE documents'[g].published = <<>>
        <5>1. Fitting({}, g, opens'[g], buf'[g])
          BY DEF Fitting
        <5>2. \A i \in 1..Len(<<>>) : FALSE
          OBVIOUS
        <5> QED  BY <4>1, <5>1, <5>2, NoElements
      <4>2. CASE documents'[g].published = documents[g].published
        BY <3>2, <4>2, Zenon DEF Fit
      <4>3. documents'[g].published \in {<<>>, documents[g].published}
        OBVIOUS
      <4> QED  BY <4>1, <4>2, <4>3
    <3> QED  BY <3>2, <3>4, <3>5, <3>6, Zenon DEF Fit
  <2> QED  BY <1>1, <2>1, Zenon DEF FitInv
<1>13. ASSUME NEW g \in Files PROVE Paints(opens[g], parked[g], applied[g], buf[g], documents[g], nextId)
  BY <1>13, Parts, Zenon DEF PaintInv
<1>14. parked[f].life <= opens'[f] /\ parked[f].life # opens'[f] /\ b.asked # opens'[f]
  <2>1. parked[f].life <= opens[f]
    BY <1>13, Zenon DEF Paints
  <2>2. parked[f].life \in Nat
    BY OpenBuffer, Fields
  <2> QED  BY <1>1, <1>2, <2>1, <2>2
\* Nothing parked or shown is of a buffer just opened, or known to a server just started.
<1>15. ASSUME NEW g \in Files, g = f \/ state = "none"
       PROVE  ~Own(parked[g].life, opens'[g], buf'[g], documents'[g]) /\ ~Own(buf'[g].asked, opens'[g], buf'[g], documents'[g])
  <2>1. CASE g = f
    BY <1>1, <1>14, <2>1, Zenon DEF Own
  <2>2. CASE g # f /\ state = "none"
    <3>1. state \notin Live
      BY <2>2 DEF Live
    <3>2. documents'[g].version = Unknown
      BY <2>2, <3>1, OpenBuffer, Zenon DEF Held
    <3> QED  BY <3>2, Zenon DEF Own
  <2> QED  BY <1>15, <2>1, <2>2
<1>16. PaintInv'
  <2> SUFFICES ASSUME NEW g \in Files
               PROVE  Paints(opens'[g], parked[g], applied[g], buf'[g], documents'[g], nextId')
    BY <1>1, Zenon DEF PaintInv
  <2>1. Paints(opens[g], parked[g], applied[g], buf[g], documents[g], nextId)
    BY <1>13
  <2>2. (opens'[g] = 0 => buf'[g] = Closed) /\ parked[g].life <= opens'[g]
    <3>1. CASE g = f
      BY <1>4, <1>14, <3>1
    <3>2. CASE g # f
      BY <1>1, <2>1, <3>2, Zenon DEF Paints
    <3> QED  BY <3>1, <3>2
  <2>3. CASE g = f \/ state = "none"
    BY <1>15, <2>2, <2>3, Zenon DEF Paints
  <2>4. CASE g # f /\ nextId' = nextId
    BY <1>1, <2>1, <2>4, Zenon
  <2> QED  BY <2>3, <2>4
<1>17. WaitInv'
  <2> SUFFICES ASSUME NEW g \in Files, Waits(opens'[g], parked[g], buf'[g], documents'[g])
               PROVE  /\ AnsweredFor(Answers, parked[g].id, buf'[g].text)
                      /\ alive' => AsksFor(OnItsWay', g, told[g], parked[g].id, buf'[g].text)
    BY <1>1, Zenon DEF WaitInv
  <2>1. g # f /\ state # "none"
    BY <1>15, Zenon DEF Waits
  <2>2. /\ UNCHANGED <<state, alive, nextId>>
        /\ alive => \A h \in Files : h # f /\ Waits(opens[h], parked[h], buf[h], documents[h]) =>
                        AsksFor(OnItsWay', h, told[h], parked[h].id, buf[h].text)
    BY <2>1
  <2>3. Waits(opens[g], parked[g], buf[g], documents[g]) /\ buf'[g] = buf[g]
    BY <1>1, <2>1, Zenon
  <2>4. AnsweredFor(Answers, parked[g].id, buf[g].text)
    BY <2>3, Parts, Zenon DEF WaitInv
  <2> QED  BY <2>1, <2>2, <2>3, <2>4, Zenon
<1> QED  BY <1>5, <1>6, <1>7, <1>8, <1>9, <1>10, <1>11, <1>12, <1>16, <1>17, Zenon DEF LspInv

\* A server told of the buffer opened has its text.
LEMMA OpenedInStep ==
    ASSUME LspInv, NEW f \in Files, NEW w \in Seq(Messages), NEW d, d.version = 0, d.sent \in {Empty, disk[f]},
           NeverLost(f, told[f], w)
    PROVE  InStep(f, d, Opened(f), told[f], Append(w, OpenMessage(f, Opened(f))))
<1> DEFINE b == Opened(f)
           m == OpenMessage(f, Opened(f))
           h == After(HeardOf(told[f], f, w, Len(w)), m, f)
<1>1. /\ h = [version |-> 0, text |-> disk[f], due |-> TRUE, life |-> opens[f] + 1] /\ m \in Notes
      /\ b.version = 0 /\ b.text = disk[f] /\ disk[f] \in Texts
  BY OpenedFacts, Zenon
<1>2. m \in Messages
  BY <1>1 DEF Messages
<1> HIDE DEF b, m, h
<1>3. h.version = 0 /\ h.text = disk[f]
  BY <1>1
<1>4. h.text # Garbled
  BY <1>1, <1>3, Fields
<1>5. EndsWith(d, b, h)
  BY <1>1, <1>3 DEF EndsWith, Unknown
<1> QED  BY <1>2, <1>4, <1>5, AppendInStep DEF b, m, h

\* The pipes of a server that has only just been started.
LEMMA StartedWay ==
    ASSUME LspInv, NEW f \in Files, state = "none", NEW i, i = [type |-> "initialize", id |-> 1, file |-> NoFile]
    PROVE  /\ i \in Questions /\ <<i>> \in Seq(Messages) /\ \A g \in Files : told[g] = NotTold
           /\ \A g \in Files : documents[g].version = Unknown /\ InStep(g, documents[g], buf[g], told[g], <<i>>)
           /\ IdsApart(<<i>>, {}, <<>>, <<>>, 2)
<1>1. i \in Questions /\ Question(i) /\ i.id = 1
  BY DEF Questions, Question
<1>2. i \in Messages
  BY <1>1 DEF Messages
<1>3. <<>> \in Seq(Messages) /\ Append(<<>>, i) = <<i>> /\ <<i>> \in Seq(Messages)
  BY <1>2
<1>4. \A g \in Files : told[g] = NotTold
  BY Parts, Zenon DEF ClientShape
<1>5. ASSUME NEW g \in Files PROVE documents[g].version = Unknown
  <2>1. Held(buf[g], documents[g], applied[g], parked[g], bound.edits[g], state)
    BY OpenBuffer, Zenon
  <2>2. state \notin Live
    BY DEF Live
  <2> QED  BY <2>1, <2>2, Zenon DEF Held
<1>6. ASSUME NEW g \in Files PROVE InStep(g, documents[g], buf[g], told[g], <<i>>)
  <2>1. HeardOf(NotTold, g, <<>>, 0) = NotTold
    BY <1>3, HeardFirst
  <2>2. NotTold.text # Garbled
    BY DEF NotTold, NoText, Garbled
  <2>3. NeverLost(g, NotTold, <<>>)
    BY <2>1, <2>2 DEF NeverLost
  <2>4. InStep(g, documents[g], buf[g], NotTold, <<>>)
    BY <1>5, <2>3 DEF InStep, EndsWith
  <2>5. InStep(g, documents[g], buf[g], NotTold, Append(<<>>, i))
    BY <1>1, <1>2, <1>3, <2>4, OtherInStep
  <2> QED  BY <1>3, <1>4, <2>5
<1>7. IdsApart(<<>>, {}, <<>>, <<>>, 1)
  BY NoElements DEF IdsApart, Apart, OnePer, Ids
<1>8. IdsApart(Append(<<>>, i), {}, <<>>, <<>>, 2)
  <2>1. 1 \in Nat \ {0} /\ 1 + 1 = 2
    OBVIOUS
  <2>2. IdsApart(Append(<<>>, i), {}, <<>>, <<>>, 1 + 1)
    BY <1>1, <1>3, <1>7, <2>1, SendIds
  <2> QED  BY <2>1, <2>2
<1> QED  BY <1>1, <1>3, <1>4, <1>5, <1>6, <1>8

LEMMA StartServerInv == ASSUME LspInv, NEW f \in Files, Opens(f), StartServer(f) PROVE LspInv'
<1> DEFINE b == Opened(f)
           m == OpenMessage(f, Opened(f))
           d == [NoDocument EXCEPT !.version = 0]
<1>1. PICK i : i = [type |-> "initialize", id |-> 1, file |-> NoFile]
  OBVIOUS
<1>2. /\ state = "none" /\ state' = "initializing" /\ alive' = TRUE /\ documents' = [documents EXCEPT ![f] = d]
      /\ queued' = <<m>> /\ up' = <<i>> /\ nextId' = 2
  BY <1>1 DEF StartServer
<1>3. /\ i \in Questions /\ <<i>> \in Seq(Messages) /\ \A g \in Files : told[g] = NotTold
      /\ \A g \in Files : documents[g].version = Unknown /\ InStep(g, documents[g], buf[g], told[g], <<i>>)
      /\ IdsApart(<<i>>, {}, <<>>, <<>>, 2)
  BY <1>1, <1>2, StartedWay
<1>4. m \in Notes /\ m.type = "didOpen" /\ m.file = f
  BY OpenedFacts, Zenon
<1>5. m \in Messages /\ <<m>> \in Seq(Notes)
  BY <1>4 DEF Messages
<1>6. down = <<>> /\ responses = <<>> /\ owed = {} /\ queued = <<>> /\ ~alive
  BY <1>2, NothingLeft DEF Running
<1>7. d.version = 0 /\ d.sent = Empty /\ d.published = <<>> /\ ~d.unapplied /\ d \in Documents
  BY Fields DEF NoDocument, Documents, Versions, Said
<1> HIDE DEF m, d
<1>8. documents \in [Files -> Documents]
  BY Types, Zenon
<1>9. documents' \in [Files -> Documents] /\ documents'[f] = d /\ \A g \in Files : g # f => documents'[g] = documents[g]
  BY <1>2, <1>7, <1>8
<1>10. OnItsWay' = Append(<<i>>, m) /\ ToSet(OnItsWay') = ToSet(<<i>>) \cup {m}
  <2>1. OnItsWay' = <<i>> \o <<m>>
    BY <1>2, Zenon DEF OnItsWay
  <2>2. PICK w : w = <<i>>
    OBVIOUS
  <2>3. w \in Seq(Messages)
    BY <1>3, <2>2
  <2>4. w \o <<m>> = Append(w, m) /\ ToSet(Append(w, m)) = ToSet(w) \cup {m}
    BY <1>5, <2>3, AppendFacts
  <2> QED  BY <2>1, <2>2, <2>4, Zenon
<1>11. ToSet(<<i>>) = {i}
  BY DEF ToSet
<1>12. IdsApart(OnItsWay', owed, down, responses, nextId')
  <2>1. PICK w : w = <<i>>
    OBVIOUS
  <2>2. w \in Seq(Messages) /\ IdsApart(w, {}, <<>>, <<>>, 2)
    BY <1>3, <2>1, Zenon
  <2>3. 2 \in Nat \ {0}
    OBVIOUS
  <2>4. IdsApart(Append(w, m), {}, <<>>, <<>>, 2)
    BY <1>4, <2>2, <2>3, SendIds, Zenon
  <2> QED  BY <1>2, <1>6, <1>10, <2>1, <2>4, Zenon
<1>13. \A n \in ToSet(OnItsWay') : \/ n \in ToSet(OnItsWay) \/ n = m
                                   \/ n.type = "initialize" /\ n.file = NoFile
  BY <1>1, <1>10, <1>11
<1>14. InStep(f, documents'[f], Opened(f), told[f], OnItsWay')
  <2>1. NeverLost(f, told[f], <<i>>)
    BY <1>3, Zenon DEF InStep
  <2>2. InStep(f, d, Opened(f), told[f], Append(<<i>>, OpenMessage(f, Opened(f))))
    BY <1>3, <1>7, <2>1, OpenedInStep
  <2> QED  BY <1>9, <1>10, <2>2, Zenon DEF m
<1>15. ASSUME NEW g \in Files, g # f PROVE InStep(g, documents[g], buf[g], told[g], OnItsWay')
  <2>1. InStep(g, documents[g], buf[g], told[g], <<i>>) /\ m.file # g
    BY <1>3, <1>4, <1>15
  <2>2. InStep(g, documents[g], buf[g], told[g], Append(<<i>>, m))
    BY <1>3, <1>5, <2>1, OtherInStep
  <2> QED  BY <1>10, <2>2, Zenon
<1>16. /\ state' \in {"none", "failed", "initializing", "ready", "dead"} /\ alive' \in BOOLEAN
       /\ queued' \in Seq(Notes) /\ up' \in Seq(Messages) /\ nextId' \in Nat \ {0}
       /\ (alive' => state' \in {"initializing", "ready"}) /\ (queued' # <<>> => state' = "initializing")
       /\ (state' \in {"none", "failed"} => up' = <<>> /\ state \in {"none", "failed"})
       /\ (documents'[f].version \in {Unknown, 0}) /\ (documents'[f].version = 0 => state' \in Live)
       /\ documents'[f].published \in {<<>>, documents[f].published} /\ ~documents'[f].unapplied
       /\ (state \in Live => state' \in Live)
  BY <1>2, <1>3, <1>5, <1>7, <1>8, <1>9 DEF Live
<1> QED  BY <1>2, <1>9, <1>12, <1>13, <1>14, <1>15, <1>16, OpenStep, Zenon DEF m

\* No server: it cannot be started, or could not be.
LEMMA NoServerInv == ASSUME LspInv, NEW f \in Files, Opens(f), StartFails \/ NoServer PROVE LspInv'
<1>1. /\ UNCHANGED <<alive, documents, queued, up, nextId>> /\ state \in {"none", "failed"} /\ state' = "failed"
      /\ state = "none" \/ state' = state
  BY DEF StartFails, NoServer
<1>2. up = <<>> /\ queued = <<>> /\ ~alive
  BY <1>1, NothingLeft DEF Running
<1>3. /\ documents \in [Files -> Documents] /\ queued \in Seq(Notes) /\ up \in Seq(Messages) /\ nextId \in Nat \ {0}
      /\ EditorShape(at, front, buf, asking) /\ alive \in BOOLEAN
      /\ IdsApart(OnItsWay, owed, down, responses, nextId)
  BY Types, Parts, Zenon DEF Messages, IdsInv
<1>4. documents[f].version = Unknown
  <2>1. Held(buf[f], documents[f], applied[f], parked[f], bound.edits[f], state)
    BY OpenBuffer, Zenon
  <2>2. state \notin Live
    BY <1>1 DEF Live
  <2> QED  BY <2>1, <2>2, Zenon DEF Held
<1>5. OnItsWay' = OnItsWay
  BY <1>1, Zenon DEF OnItsWay
<1>6. /\ state' \in {"none", "failed", "initializing", "ready", "dead"}
      /\ (state' \in {"none", "failed"} => up' = <<>> /\ state \in {"none", "failed"})
      /\ (documents'[f].version \in {Unknown, 0}) /\ documents'[f].version # 0
      /\ documents'[f].published \in {<<>>, documents[f].published} /\ state \notin Live /\ state' \notin Live
      /\ ~alive' /\ queued' = <<>>
  BY <1>1, <1>2, <1>3, <1>4 DEF Live, Unknown
<1>7. \/ UNCHANGED <<state, alive, nextId>> /\ ~alive
      \/ state = "none"
  BY <1>1, <1>2
<1>8. /\ documents' \in [Files -> Documents] /\ queued' \in Seq(Notes) /\ up' \in Seq(Messages) /\ nextId' \in Nat \ {0}
      /\ alive' \in BOOLEAN /\ \A g \in Files : g # f => documents'[g] = documents[g]
      /\ IdsApart(OnItsWay', owed, down, responses, nextId')
  BY <1>1, <1>3, <1>5, Zenon
<1>9. documents'[f].unapplied => documents'[f].published # <<>>
  BY <1>1, FitFacts, Zenon DEF Fit
<1> QED  BY <1>5, <1>6, <1>7, <1>8, <1>9, OpenStep, Zenon

LEMMA UseServerInv == ASSUME LspInv, NEW f \in Files, Opens(f), UseServer(f) PROVE LspInv'
<1> DEFINE m == OpenMessage(f, Opened(f))
           d == [NoDocument EXCEPT !.version = 0, !.sent = SentOf(Opened(f))]
<1>1. /\ Running /\ documents' = [documents EXCEPT ![f] = d] /\ Send(<<m>>) /\ UNCHANGED <<state, alive, nextId>>
  BY DEF UseServer
<1>2. m \in Notes /\ m.type = "didOpen" /\ m.file = f /\ Opened(f).text = disk[f] /\ disk[f] \in Texts
  BY OpenedFacts, Zenon
<1>3. SentOf(Opened(f)) \in {Empty, disk[f]}
  BY <1>2 DEF SentOf
<1>4. SentOf(Opened(f)) \in Said
  BY <1>2, <1>3 DEF Said
<1>5. d.version = 0 /\ d.sent \in {Empty, disk[f]} /\ d.published = <<>> /\ ~d.unapplied /\ d \in Documents
  <2>1. PICK s : s = SentOf(Opened(f))
    OBVIOUS
  <2>2. PICK e : e = [NoDocument EXCEPT !.version = 0, !.sent = s]
    OBVIOUS
  <2>3. s \in Said /\ s \in {Empty, disk[f]}
    BY <1>3, <1>4, <2>1
  <2>4. e.version = 0 /\ e.sent = s /\ e.published = <<>> /\ ~e.unapplied /\ e \in Documents
    BY <2>2, <2>3, Fields DEF NoDocument, Documents, Versions
  <2> QED  BY <2>1, <2>2, <2>3, <2>4
<1> HIDE DEF m, d
<1>6. /\ documents \in [Files -> Documents] /\ alive \in BOOLEAN /\ nextId \in Nat \ {0}
      /\ state \in {"none", "failed", "initializing", "ready", "dead"}
      /\ EditorShape(at, front, buf, asking) /\ IdsApart(OnItsWay, owed, down, responses, nextId)
      /\ (alive => state \in {"initializing", "ready"}) /\ OnItsWay \in Seq(Messages)
  BY Types, Parts, WayFacts, Zenon DEF IdsInv
<1>7. documents' \in [Files -> Documents] /\ documents'[f] = d /\ \A g \in Files : g # f => documents'[g] = documents[g]
  BY <1>1, <1>5, <1>6
<1>8. /\ OnItsWay \o <<m>> = Append(OnItsWay, m) /\ <<m>> \in Seq(Notes) /\ <<m>> \in Seq(Messages)
      /\ IdsApart(Append(OnItsWay, m), owed, down, responses, nextId)
      /\ ToSet(Append(OnItsWay, m)) = ToSet(OnItsWay) \cup {m}
      /\ alive => \A g \in Files :
           /\ g # f => InStep(g, documents[g], buf[g], told[g], Append(OnItsWay, m))
           /\ Waits(opens[g], parked[g], buf[g], documents[g]) =>
                  AsksFor(Append(OnItsWay, m), g, told[g], parked[g].id, buf[g].text)
  BY <1>2, WayTold
<1>9. /\ queued' \in Seq(Notes) /\ up' \in Seq(Messages)
      /\ OnItsWay' = OnItsWay \/ OnItsWay' = OnItsWay \o <<m>>
      /\ alive => OnItsWay' = OnItsWay \o <<m>>
      /\ queued' # <<>> => state = "initializing"
  BY <1>1, <1>8, SendFacts
<1>10. state \in Live /\ state \notin {"none", "failed"}
  BY <1>1, <1>6 DEF Running, Live
<1>11. IdsApart(OnItsWay', owed, down, responses, nextId) /\ \A n \in ToSet(OnItsWay') : n \in ToSet(OnItsWay) \/ n = m
  <2>1. CASE OnItsWay' = OnItsWay
    BY <1>6, <2>1
  <2>2. CASE OnItsWay' = Append(OnItsWay, m)
    <3>1. \A n \in ToSet(OnItsWay) \cup {m} : n \in ToSet(OnItsWay) \/ n = m
      OBVIOUS
    <3> QED  BY <1>8, <2>2, <3>1, Zenon
  <2> QED  BY <1>8, <1>9, <2>1, <2>2
<1>12. ASSUME alive PROVE InStep(f, documents'[f], Opened(f), told[f], OnItsWay')
  <2>1. NeverLost(f, told[f], OnItsWay)
    BY <1>12, Parts, Zenon DEF StepInv, InStep
  <2>2. InStep(f, d, Opened(f), told[f], Append(OnItsWay, OpenMessage(f, Opened(f))))
    BY <1>5, <1>6, <2>1, OpenedInStep
  <2>3. OnItsWay' = Append(OnItsWay, m)
    BY <1>8, <1>9, <1>12
  <2> QED  BY <1>7, <2>2, <2>3, Zenon DEF m
<1>13. ASSUME alive, NEW g \in Files
       PROVE  /\ g # f => InStep(g, documents[g], buf[g], told[g], OnItsWay')
              /\ Waits(opens[g], parked[g], buf[g], documents[g]) =>
                     AsksFor(OnItsWay', g, told[g], parked[g].id, buf[g].text)
  <2>1. OnItsWay' = Append(OnItsWay, m)
    BY <1>8, <1>9, <1>13
  <2> QED  BY <1>8, <1>13, <2>1, Zenon
<1>14. /\ (documents'[f].version \in {Unknown, 0}) /\ documents'[f].published \in {<<>>, documents[f].published}
       /\ ~documents'[f].unapplied
  BY <1>5, <1>7
<1>15. /\ UNCHANGED <<state, alive, nextId>> /\ state' \in Live /\ state' \notin {"none", "failed"}
       /\ alive' \in BOOLEAN /\ nextId' \in Nat \ {0}
       /\ state' \in {"none", "failed", "initializing", "ready", "dead"}
       /\ (alive' => state' \in {"initializing", "ready"}) /\ (queued' # <<>> => state' = "initializing")
       /\ IdsApart(OnItsWay', owed, down, responses, nextId')
  BY <1>1, <1>6, <1>9, <1>10, <1>11, Zenon
<1>16. alive' = alive
  BY <1>15
<1>17. \A n \in ToSet(OnItsWay') : \/ n \in ToSet(OnItsWay) \/ n = m
                                   \/ n.type = "initialize" /\ n.file = NoFile
  BY <1>11, Zenon
<1>18. alive' => InStep(f, documents'[f], Opened(f), told[f], OnItsWay')
  BY <1>12, <1>16, Zenon
<1>19. alive' => \A g \in Files : g # f => InStep(g, documents[g], buf[g], told[g], OnItsWay')
  BY <1>13, <1>16, Zenon
<1>20. /\ UNCHANGED <<state, alive, nextId>>
       /\ alive => \A g \in Files : g # f /\ Waits(opens[g], parked[g], buf[g], documents[g]) =>
                       AsksFor(OnItsWay', g, told[g], parked[g].id, buf[g].text)
  BY <1>13, <1>15, Zenon
<1>21. /\ documents' \in [Files -> Documents] /\ \A g \in Files : g # f => documents'[g] = documents[g]
       /\ queued' \in Seq(Notes) /\ up' \in Seq(Messages) /\ (documents'[f].version = 0 => state' \in Live)
       /\ (state' \in {"none", "failed"} => up' = <<>> /\ state \in {"none", "failed"})
       /\ (state \in Live => state' \in Live)
  BY <1>7, <1>9, <1>15, Zenon
<1> QED  BY <1>14, <1>15, <1>17, <1>18, <1>19, <1>20, <1>21, OpenStep, Zenon DEF m

LEMMA OpenInv == ASSUME LspInv, NEW f \in Files, Open(f) PROVE LspInv'
<1>1. Opens(f)
  BY DEF Open, Opens, AtKeys, session
<1>2. StartServer(f) \/ StartFails \/ UseServer(f) \/ NoServer
  BY DEF Open
<1> QED  BY <1>1, <1>2, StartServerInv, NoServerInv, UseServerInv, Zenon

-----------------------------------------------------------------------------
(* The specification. *)

LEMMA InitInv == ASSUME Init PROVE LspInv
<1>1. /\ at = "keys" /\ front = NoFile /\ state = "none" /\ nextId = 1 /\ asking = NoId /\ alive = FALSE /\ owed = {}
      /\ queued = <<>> /\ responses = <<>> /\ up = <<>> /\ down = <<>> /\ bound \in Bounds
      /\ buf = [f \in Files |-> Closed] /\ disk = [f \in Files |-> bound.start]
      /\ documents = [f \in Files |-> NoDocument] /\ parked = [f \in Files |-> NotParked]
      /\ applied = [f \in Files |-> Unknown] /\ told = [f \in Files |-> NotTold] /\ opens = [f \in Files |-> 0]
  BY DEF Init
<1>2. /\ OnItsWay = <<>> /\ Answers = {} /\ ToSet(OnItsWay) = {} /\ ToSet(down) = {}
  BY <1>1, NoElements DEF OnItsWay, Answers
<1>3. TypeInv
  <2>1. bound.start \in Texts /\ Closed \in Buffers /\ NoDocument \in Documents /\ NotTold \in Views /\ NotParked \in Requests
    BY <1>1, Fields, Bounded
  <2>2. /\ buf \in [Files -> Buffers] /\ disk \in [Files -> Texts] /\ documents \in [Files -> Documents]
        /\ parked \in [Files -> Requests] /\ applied \in [Files -> Versions] /\ told \in [Files -> Views]
        /\ opens \in [Files -> Nat] /\ owed \in SUBSET Replies
    BY <1>1, <2>1 DEF Versions
  <2>3. /\ queued \in Seq(Notes) /\ up \in Seq(Questions \cup Notes)
        /\ responses \in Seq(Replies) /\ down \in Seq(Replies \cup Publications)
    BY <1>1, NoElements, Zenon
  <2>4. 1 \in Nat \ {0} /\ NoId \in Nat /\ 0 \in Nat /\ FALSE \in BOOLEAN
    BY DEF NoId
  <2>5. nextId \in Nat \ {0} /\ asking \in Nat /\ alive \in BOOLEAN
    BY <1>1, <2>4, Zenon
  <2>6. /\ at \in {"keys", "service", "sync", "diagnostics", "tokens"} /\ front \in Files \cup {NoFile}
        /\ state \in {"none", "failed", "initializing", "ready", "dead"}
    BY <1>1
  <2> QED  BY <1>1, <2>2, <2>3, <2>5, <2>6, Zenon DEF TypeInv
<1>4. ClientShape(state, alive, queued, up, down, responses, owed, told)
  <2>1. Len(<<>>) = 0 /\ MaxResponses \in Nat
    BY Fields
  <2> QED  BY <1>1, <2>1 DEF ClientShape
<1>5. EditorShape(at, front, buf, asking)
  BY <1>1 DEF EditorShape
<1>6. HeldInv
  <2>1. ASSUME NEW f \in Files PROVE Held(Closed, NoDocument, Unknown, NotParked, bound.edits[f], state)
    <3>1. bound.edits[f] \in Nat
      <4>1. bound.edits \in [Files -> Nat]
        BY <1>1, Bounded
      <4> QED  BY <4>1
    <3> QED  BY <3>1 DEF Held, NoDocument, NotParked, Unknown
  <2> QED  BY <1>1, <2>1 DEF HeldInv
<1>7. IdsInv
  BY <1>1, <1>2, NoElements DEF IdsInv, IdsApart, Apart, OnePer, Ids
<1>8. AskedInv
  BY <1>2 DEF AskedInv, Asked
<1>9. StepInv
  BY <1>1 DEF StepInv
<1>10. FitInv
  <2>1. ASSUME NEW f PROVE Fit(f, 0, Closed, NoDocument, NotTold, {})
    BY NoElements DEF Fit, Fitting, NoDocument, NotTold
  <2> QED  BY <1>1, <1>2, <2>1 DEF FitInv
<1>11. PaintInv
  <2>1. Paints(0, NotParked, Unknown, Closed, NoDocument, nextId)
    BY DEF Paints, Own, NotParked
  <2> QED  BY <1>1, <2>1 DEF PaintInv
<1>12. WaitInv
  <2>1. ~Waits(0, NotParked, Closed, NoDocument)
    BY DEF Waits, Own
  <2> QED  BY <1>1, <2>1 DEF WaitInv
<1> QED  BY <1>3, <1>4, <1>5, <1>6, <1>7, <1>8, <1>9, <1>10, <1>11, <1>12, Zenon DEF LspInv

LEMMA NextInv == ASSUME LspInv, [Next]_vars PROVE LspInv'
<1>1. CASE Tick
  BY <1>1, QuietInv, FindDeadInv, HandleInv, AskEndsInv, SyncDocumentInv, ApplyDiagnosticsInv, SyncTokensInv, Zenon DEF Tick
<1>2. CASE Keys
  BY <1>2, OpenInv, EditInv, SaveInv, CloseInv, DiagnoseInv, ClearDiagnosticsInv, QuietInv, AskInv, RestartInv, Zenon DEF Keys
<1>3. CASE Process
  BY <1>3, ReadInv, ExitInv, AnswerInv, PublishInv, Zenon DEF Process
<1>4. CASE UNCHANGED vars
  BY <1>4, QuietInv, Zenon
<1> QED  BY <1>1, <1>2, <1>3, <1>4, Zenon DEF Next

\* Every state the editor and the server reach is one of LspInv: what the client
\* has on record, the messages on their way and what the process knows agree.
THEOREM LspInvHolds == Spec => []LspInv
<1>1. Init => LspInv
  BY InitInv
<1>2. LspInv /\ [Next]_vars => LspInv'
  BY NextInv
<1> QED  BY <1>1, <1>2, PTL DEF Spec

\* Every variable keeps its shape: answers stay bounded, every id owed or kept
\* is below the next, and nothing waits for a handshake that is over.
THEOREM TypeCorrect == Spec => []TypeOK
<1>1. ASSUME LspInv PROVE TypeOK
  <2>1. /\ at \in {"keys", "service", "sync", "diagnostics", "tokens"} /\ front \in Files \cup {NoFile}
        /\ state \in {"none", "failed", "initializing", "ready", "dead"} /\ asking \in Nat
        /\ EditorShape(at, front, buf, asking) /\ IdsInv /\ nextId \in Nat \ {0}
        /\ ClientShape(state, alive, queued, up, down, responses, owed, told) /\ responses \in Seq(Replies)
        /\ owed \in SUBSET Replies
    BY <1>1, Types, Parts, Zenon
  <2>2. ASSUME NEW f \in Files
        PROVE  /\ buf[f].version \in Unknown..bound.edits[f] /\ disk[f] \in Texts
               /\ documents[f].version \in Unknown..bound.edits[f] /\ documents[f].sent \in Texts \cup {Empty}
               /\ applied[f] \in Unknown..bound.edits[f] /\ parked[f].version \in Unknown..bound.edits[f]
    <3>1. /\ Held(buf[f], documents[f], applied[f], parked[f], bound.edits[f], state)
          /\ buf[f] \in Buffers /\ documents[f] \in Documents /\ disk[f] \in Texts
          /\ parked[f] \in Requests /\ applied[f] \in Versions /\ bound.edits[f] \in Nat
      BY <1>1, OpenBuffer
    <3>2. buf[f].version \in Nat \cup {Unknown} /\ documents[f].version \in Nat \cup {Unknown}
          /\ documents[f].sent \in Texts \cup {Empty} /\ parked[f].version \in Nat \cup {Unknown}
          /\ applied[f] \in Nat \cup {Unknown}
      BY <3>1, Fields DEF Said, Versions
    <3>3. buf[f].version = Unknown \/ buf[f].version \in 0..bound.edits[f]
      BY <3>1 DEF Held, Closed
    <3>4. documents[f].version <= bound.edits[f]
      BY <3>1, <3>2, <3>3 DEF Held, Closed, Unknown
    <3>5. applied[f] <= bound.edits[f] /\ parked[f].version <= bound.edits[f]
      BY <3>1 DEF Held
    <3> QED  BY <3>1, <3>2, <3>3, <3>4, <3>5 DEF Unknown
  <2>3. ASSUME NEW r \in owed \cup ToSet(responses) PROVE r.id < nextId
    <3>1. Ids(owed) \subseteq 1..(nextId - 1) /\ Ids(ToSet(responses)) \subseteq 1..(nextId - 1)
      BY <2>1 DEF IdsInv, IdsApart
    <3>2. ToSet(responses) \subseteq Replies
      BY <2>1, Elements
    <3>3. Asks(r)
      BY <2>1, <3>2, Kinds
    <3>4. r.id \in 1..(nextId - 1)
      BY <3>1, <3>3, IdFacts
    <3> QED  BY <2>1, <3>4
  <2>4. /\ front # NoFile => buf[front] # Closed
        /\ asking # NoId => at = "service"
        /\ Len(responses) <= MaxResponses
        /\ queued # <<>> => state = "initializing"
    BY <2>1, Zenon DEF EditorShape, ClientShape
  <2> QED  BY <2>1, <2>2, <2>3, <2>4, Zenon DEF TypeOK
<1> QED  BY <1>1, LspInvHolds, PTL

\* The questions for a file's tokens that are unread, unanswered or uncollected
\* are the one parked for it (sync_semantic_tokens).
THEOREM AskedOnceAlways == Spec => []AskedOnce
<1>1. ASSUME LspInv PROVE AskedOnce
  <2>1. Asked(ToSet(OnItsWay) \cup Answers, parked)
    BY <1>1, Parts, Zenon DEF AskedInv
  <2>2. ToSet(up) \subseteq ToSet(OnItsWay)
    <3>1. up \in Seq(Messages) /\ queued \in Seq(Messages)
      BY <1>1, WayFacts
    <3>2. \A i \in 1..Len(up) : i \in 1..Len(up \o queued) /\ (up \o queued)[i] = up[i]
      BY <3>1
    <3> QED  BY <3>2 DEF OnItsWay, ToSet
  <2>3. ToSet(up) \cup owed \cup ToSet(down) \cup ToSet(responses) \subseteq ToSet(OnItsWay) \cup Answers
    BY <2>2 DEF Answers
  <2> QED  BY <2>1, <2>3 DEF AskedOnce, Asked
<1> QED  BY <1>1, LspInvHolds, PTL

\* A text the client takes the server to know is the text the messages on their
\* way leave it with, in whatever order documents were opened, changed, closed
\* and released by the handshake (change_document, open_document).
THEOREM InStepAlways == Spec => []InSync
<1>1. ASSUME LspInv PROVE InSync
  <2>1. SUFFICES ASSUME NEW f \in Files, buf[f] # Closed, alive, documents[f].version = buf[f].version, ~Unsaid(f)
                 PROVE  Arriving(f).text = buf[f].text
    BY Zenon DEF InSync
  <2>2. InStep(f, documents[f], buf[f], told[f], OnItsWay)
    BY <1>1, <2>1, Parts, Zenon DEF StepInv
  <2>3. documents[f].version # Unknown
    <3>1. buf[f].version \in Nat
      BY <1>1, <2>1, OpenBuffer
    <3> QED  BY <2>1, <3>1 DEF Unknown
  <2>4. Differs(buf[f])
    BY <2>1 DEF Differs, Unsaid
  <2> QED  BY <2>1, <2>2, <2>3, <2>4, Zenon DEF InStep, EndsWith, Arriving
<1> QED  BY <1>1, LspInvHolds, PTL

\* Painted tokens, asked for in the buffer's present life from the server that
\* knows it, describe the text they are painted on, however long the answer
\* took, or are the none an error leaves (sync_semantic_tokens).
THEOREM TokensAreTrue == Spec => []TokensTrue
<1>1. ASSUME LspInv PROVE TokensTrue
  <2>1. SUFFICES ASSUME NEW f \in Files, buf[f] # Closed, applied[f] = buf[f].version, documents[f].version # Unknown,
                        buf[f].asked = opens[f], Differs(buf[f])
                 PROVE  buf[f].spans \in {buf[f].text, Refused}
    BY Zenon DEF TokensTrue, Painted, Known, Unsaid, Differs
  <2>2. Paints(opens[f], parked[f], applied[f], buf[f], documents[f], nextId)
    BY <1>1, Parts, Zenon DEF PaintInv
  <2> QED  BY <2>1, <2>2, Zenon DEF Paints, Own
<1> QED  BY <1>1, LspInvHolds, PTL

\* Drawn diagnostics that name a version of the buffer's present life are about
\* the text they are drawn over, however late they came and however often they
\* are applied (apply_language_server_diagnostics, redeliver_diagnostics).
THEOREM DiagnosticsAreTrue == Spec => []DiagnosticsTrue
<1>1. ASSUME LspInv PROVE DiagnosticsTrue
  BY <1>1, DrawnFacts, Zenon DEF DiagnosticsTrue
<1> QED  BY <1>1, LspInvHolds, PTL
=============================================================================
