---------------------------- MODULE PipelineInStep ----------------------------
(***************************************************************************)
(* No unit of a line is lost, doubled or sent down another stage's pipe,    *)
(* for any number of stages, any capacity and any length of a line; and the *)
(* stages that share one thread implement a network of stages side by side. *)
(*                                                                         *)
(* StepInv is inductive with SafetyInv.  A step moves one stage, and takes  *)
(* from or puts into one pipe; the others keep what the invariant says of   *)
(* them because a pipe that has lost its last reader, or its last writer,   *)
(* never gets one again.                                                   *)
(*                                                                         *)
(* For the network the order the stages begin and end in is added, NetInv.  *)
(* Then each turn and each process' step is a step of its own stage, and    *)
(* what the thread does in between is not seen, but for the first turn of a *)
(* stage and the output it takes.                                          *)
(***************************************************************************)
EXTENDS PipelineProofs

-----------------------------------------------------------------------------
(* Units.                                                                   *)

LEMMA Multiple == \A d \in Int : d >= 1 => Chunk * d >= Chunk
  BY PipelineAssumption DEF PipelineAssumption

LEMMA Remainder ==
    ASSUME NEW q \in Int, NEW r \in 0..(Chunk - 1), NEW a \in Int, a = Chunk * q + r
    PROVE  a % Chunk = r
<1> USE PipelineAssumption DEF PipelineAssumption
<1>1. /\ a % Chunk \in 0..(Chunk - 1) /\ a \div Chunk \in Int
      /\ a = Chunk * (a \div Chunk) + (a % Chunk)
  OBVIOUS
<1> QED  BY <1>1, Multiple

\* n units ahead of m units ahead.
LEMMA AheadMore == \A k \in Unit, m \in Nat, n \in Nat : Ahead(Ahead(k, m), n) = Ahead(k, m + n)
<1> SUFFICES ASSUME NEW k \in Unit, NEW m \in Nat, NEW n \in Nat
             PROVE  Ahead(Ahead(k, m), n) = Ahead(k, m + n)
  OBVIOUS
<1> USE PipelineAssumption DEF PipelineAssumption
<1> DEFINE a == k - 1 + m
           r == a % Chunk
           b == r + n
           t == b % Chunk
           c == k - 1 + (m + n)
<1>1. a \in Int /\ r \in 0..(Chunk - 1) /\ a = Chunk * (a \div Chunk) + r /\ (a \div Chunk) \in Int
  BY DEF Unit
<1>2. b \in Int /\ t \in 0..(Chunk - 1) /\ b = Chunk * (b \div Chunk) + t /\ (b \div Chunk) \in Int
  BY <1>1 DEF Unit
<1>3. c \in Int /\ c = a + n
  BY DEF Unit
<1>4. Chunk * ((a \div Chunk) + (b \div Chunk)) = Chunk * (a \div Chunk) + Chunk * (b \div Chunk)
  BY <1>1, <1>2
<1> HIDE DEF a, r, b, t, c
<1>5. c = Chunk * ((a \div Chunk) + (b \div Chunk)) + t
  BY <1>1, <1>2, <1>3, <1>4 DEF b
<1>6. c % Chunk = t
  <2> DEFINE q == (a \div Chunk) + (b \div Chunk)
  <2>1. q \in Int /\ t \in 0..(Chunk - 1) /\ c \in Int /\ c = Chunk * q + t
    BY <1>1, <1>2, <1>3, <1>5
  <2> HIDE DEF q
  <2> QED  BY <2>1, Remainder
<1> QED  BY <1>1, <1>2, <1>6 DEF Ahead, a, r, b, t, c

\* Within a line the units are counted; after its last comes a first.
LEMMA AheadWithin ==
    \A k \in Unit, n \in Nat :
      /\ k + n <= Chunk => Ahead(k, n) = k + n
      /\ k + n = Chunk + 1 => Ahead(k, n) = 1
  BY PipelineAssumption DEF PipelineAssumption, Ahead, Unit

-----------------------------------------------------------------------------
(* Pipes.                                                                   *)

LEMMA Bounds ==
    /\ N >= 2 /\ N \in Nat /\ N \in Stage /\ Stage \subseteq 0..N
    /\ \A s \in Stage : s - 1 \in 0..N /\ s - 1 # N /\ s \in Int /\ s > 0
  BY PipelineAssumption DEF PipelineAssumption, Shells, Stage

LEMMA PartOf ==
    ASSUME NEW S, NEW q \in Seq(S), NEW a \in Nat, NEW n \in Nat, a + n <= Len(q)
    PROVE  /\ Len(SubSeq(q, a + 1, a + n)) = n
           /\ \A i \in 1..n : SubSeq(q, a + 1, a + n)[i] = q[a + i]
<1>1. Len(q) \in Nat
  OBVIOUS
<1>2. (a + n) - (a + 1) + 1 = n /\ a + 1 \in Int /\ a + n \in Int
  OBVIOUS
<1>3. Len(SubSeq(q, a + 1, a + n)) = n
  BY <1>1, <1>2
<1>4. ASSUME NEW i \in 1..n PROVE SubSeq(q, a + 1, a + n)[i] = q[a + i]
  <2>1. i \in 1..((a + n) - (a + 1) + 1) /\ (a + 1) + i - 1 = a + i /\ i \in Int
    BY <1>2
  <2> QED  BY <1>1, <1>2, <2>1
<1> QED  BY <1>3, <1>4

\* The units of a part of a line are those that carry on from its first.
LEMMA PartOfLine ==
    ASSUME NEW a \in 0..(Chunk - 1), NEW n \in Nat, n >= 1, a + n <= Chunk
    PROVE  LET u == SubSeq(Line, a + 1, a + n)
           IN  /\ u \in Seq(Unit) /\ Len(u) = n /\ n \in 1..Chunk
               /\ \A i \in 1..Len(u) : u[i] = Ahead(a + 1, i - 1)
<1> DEFINE u == SubSeq(Line, a + 1, a + n)
<1>0. Chunk \in Nat /\ a \in Nat
  BY PipelineAssumption DEF PipelineAssumption
<1>1. Line \in Seq(Unit) /\ Len(Line) = Chunk /\ \A k \in 1..Chunk : Line[k] = k
  BY <1>0 DEF Line, Unit
<1>2. u \in Seq(Unit)
  <2>1. a + 1 \in 1..(Len(Line) + 1) /\ a + n \in 0..Len(Line)
    BY <1>0, <1>1
  <2> QED  BY <1>1, <2>1, SubSeqType
<1>3. Len(u) = n /\ \A i \in 1..n : u[i] = Line[a + i]
  <2>1. Line \in Seq(Unit) /\ a \in Nat /\ n \in Nat /\ a + n <= Len(Line)
    BY <1>0, <1>1
  <2> QED  BY <2>1, PartOf
<1> HIDE DEF u
<1>4. ASSUME NEW i \in 1..n PROVE u[i] = Ahead(a + 1, i - 1)
  <2>1. i - 1 \in Nat /\ (a + 1) + (i - 1) <= Chunk /\ (a + 1) + (i - 1) = a + i /\ a + i \in 1..Chunk
        /\ a + 1 \in Unit
    BY <1>0 DEF Unit
  <2>2. Ahead(a + 1, i - 1) = a + i
    BY <2>1, AheadWithin
  <2> QED  BY <1>1, <1>3, <2>1, <2>2
<1>5. n \in 1..Chunk
  BY <1>0
<1>6. u \in Seq(Unit) /\ Len(u) = n /\ n \in 1..Chunk /\ \A i \in 1..Len(u) : u[i] = Ahead(a + 1, i - 1)
  BY <1>2, <1>3, <1>4, <1>5
<1> QED  BY <1>6 DEF u

\* What is taken from a pipe moves its reader on and its writer not.
LEMMA TakeKeeps ==
    ASSUME PipesOK, NEW p \in 0..N, NEW n \in Nat, n <= Len(buf[p]), Take(p, n), InOrder(p)
    PROVE  /\ InOrder(p)' /\ Coming(p)' = Coming(p)
           /\ want'[p] = Ahead(want[p], n)
           /\ \A q \in 0..N : q # p => buf'[q] = buf[q] /\ want'[q] = want[q]
           /\ buf[p] = <<>> => buf'[p] = <<>>
<1>1. buf[p] \in Seq(Unit) /\ Len(buf[p]) \in Nat /\ want[p] \in Unit
  BY PipeType
<1>2. DOMAIN buf = 0..N /\ DOMAIN want = 0..N
  BY DEF PipesOK
<1>3. buf'[p] = SubSeq(buf[p], n + 1, Len(buf[p])) /\ want'[p] = Ahead(want[p], n)
  BY <1>2 DEF Take
<1>4. Len(buf'[p]) = Len(buf[p]) - n
  BY <1>1, <1>3
<1>5. \A i \in 1..(Len(buf[p]) - n) : buf'[p][i] = buf[p][n + i] /\ n + i \in 1..Len(buf[p])
  BY <1>1, <1>3
<1>6. Coming(p)' = Coming(p)
  <2>0. Len(buf[p]) - n \in Nat
    BY <1>1
  <2>1. Ahead(Ahead(want[p], n), Len(buf[p]) - n) = Ahead(want[p], n + (Len(buf[p]) - n))
    BY <1>1, <2>0, AheadMore
  <2>2. n + (Len(buf[p]) - n) = Len(buf[p])
    BY <1>1
  <2> QED  BY <1>3, <1>4, <2>1, <2>2 DEF Coming, Contents
<1>7. InOrder(p)'
  <2> SUFFICES ASSUME NEW i \in 1..(Len(buf[p]) - n)
               PROVE  buf'[p][i] = Ahead(Ahead(want[p], n), i - 1)
    BY <1>3, <1>4 DEF InOrder, Contents
  <2>1. buf[p][n + i] = Ahead(want[p], (n + i) - 1)
    BY <1>5 DEF InOrder, Contents
  <2>2. i - 1 \in Nat /\ n + (i - 1) = (n + i) - 1
    BY <1>1
  <2>3. Ahead(Ahead(want[p], n), i - 1) = Ahead(want[p], n + (i - 1))
    BY <1>1, <2>2, AheadMore
  <2> QED  BY <1>5, <2>1, <2>2, <2>3
<1>8. \A q \in 0..N : q # p => buf'[q] = buf[q] /\ want'[q] = want[q]
  BY <1>2 DEF Take
<1>9. buf[p] = <<>> => buf'[p] = <<>>
  BY <1>1, <1>3
<1> QED  BY <1>3, <1>6, <1>7, <1>8, <1>9

\* What is put into a pipe in its order moves its writer on and its reader not.
LEMMA PutKeeps ==
    ASSUME PipesOK, NEW p \in 0..N, NEW u \in Seq(Unit), Put(p, u), InOrder(p),
           Terminal = "file" => buf[N] = <<>>,
           \A i \in 1..Len(u) : u[i] = Ahead(Coming(p), i - 1)
    PROVE  /\ InOrder(p)' /\ Coming(p)' = Ahead(Coming(p), Len(u))
           /\ \A q \in 0..N : q # N => want'[q] = want[q]
           /\ \A q \in 0..N : q # p => buf'[q] = buf[q] /\ want'[q] = want[q]
           /\ Terminal = "file" => buf'[N] = <<>>
<1>1. buf[p] \in Seq(Unit) /\ Len(buf[p]) \in Nat /\ want[p] \in Unit /\ Len(u) \in Nat
  BY PipeType
<1>2. DOMAIN buf = 0..N /\ DOMAIN want = 0..N /\ N \in 0..N
  BY Bounds DEF PipesOK
<1>3. CASE p = N /\ Terminal = "file"
  <2>1. buf' = buf /\ want' = [want EXCEPT ![p] = Ahead(@, Len(u))]
    BY <1>3 DEF Put
  <2>2. buf[p] = <<>> /\ Len(buf[p]) = 0
    BY <1>3
  <2>3. Coming(p) = want[p] /\ Coming(p)' = want'[p]
    <3>1. want'[p] \in Unit
      BY <1>1, <1>2, <2>1, AheadType
    <3>2. \A k \in Unit : Ahead(k, 0) = k
      BY AheadWithin DEF Unit
    <3> QED  BY <1>1, <2>1, <2>2, <3>1, <3>2 DEF Coming, Contents
  <2>4. want'[p] = Ahead(want[p], Len(u))
    BY <1>2, <2>1
  <2>5. InOrder(p)'
    BY <2>1, <2>2 DEF InOrder, Contents
  <2> QED  BY <1>2, <1>3, <2>1, <2>2, <2>3, <2>4, <2>5
<1>4. CASE ~(p = N /\ Terminal = "file")
  <2>1. want' = want /\ buf' = [buf EXCEPT ![p] = buf[p] \o u]
    BY <1>4 DEF Put
  <2>2. buf'[p] = buf[p] \o u /\ Len(buf'[p]) = Len(buf[p]) + Len(u)
    BY <1>1, <1>2, <2>1
  <2>3. Coming(p)' = Ahead(Coming(p), Len(u))
    BY <1>1, <2>1, <2>2, AheadMore DEF Coming, Contents
  <2>4. InOrder(p)'
    <3> SUFFICES ASSUME NEW i \in 1..(Len(buf[p]) + Len(u))
                 PROVE  buf'[p][i] = Ahead(want[p], i - 1)
      BY <2>1, <2>2 DEF InOrder, Contents
    <3>1. CASE i <= Len(buf[p])
      <4>1. i \in 1..Len(buf[p]) /\ buf'[p][i] = buf[p][i]
        BY <1>1, <2>2, <3>1
      <4> QED  BY <4>1 DEF InOrder, Contents
    <3>2. CASE i > Len(buf[p])
      <4> DEFINE j == i - Len(buf[p])
      <4>1. j \in 1..Len(u) /\ j - 1 \in Nat /\ Len(buf[p]) + (j - 1) = i - 1
        BY <1>1, <3>2
      <4>2. buf'[p][i] = u[j]
        BY <1>1, <2>2, <3>2
      <4>3. u[j] = Ahead(Coming(p), j - 1)
        BY <4>1
      <4>4. Ahead(Coming(p), j - 1) = Ahead(want[p], Len(buf[p]) + (j - 1))
        BY <1>1, <4>1, AheadMore DEF Coming, Contents
      <4> QED  BY <4>1, <4>2, <4>3, <4>4
    <3> QED  BY <1>1, <3>1, <3>2
  <2>5. \A q \in 0..N : q # p => buf'[q] = buf[q]
    BY <1>2, <2>1
  <2> QED  BY <1>2, <1>4, <2>1, <2>3, <2>4, <2>5
<1> QED  BY <1>3, <1>4

-----------------------------------------------------------------------------
(* The ends of the pipes.                                                   *)

\* A step gives nobody the end of a pipe its stage did not hold before.
KeepsEnds ==
    /\ \A s \in Stage : HoldsPair(s)' => HoldsPair(s)
    /\ \A s \in Stage : Alive(s)' => Alive(s) \/ HoldsPair(s)
    /\ fd0' \in {fd0, 0} \/ (fd0' + 1 \in Stage /\ HoldsPair(fd0' + 1))
    /\ fd1' \in {fd1, N} \/ (fd1' \in Stage /\ HoldsPair(fd1'))
    /\ feed' > 0 => feed > 0

\* A pipe without a reader, or without a writer, gets none.
NoNewEnds ==
    /\ \A p \in Stage : HasReader(p)' => HasReader(p)
    /\ \A p \in 0..N : p # N /\ HasWriter(p)' => HasWriter(p)

LEMMA EndsKept ==
    ASSUME OnItsOwnPipes, OnItsOwnPipes', KeepsEnds
    PROVE  NoNewEnds
<1>1. ASSUME NEW p \in Stage, HasReader(p)' PROVE HasReader(p)
  <2>1. CASE p = N
    BY <2>1 DEF HasReader
  <2>2. CASE p # N
    <3>1. p < N /\ p + 1 \in Stage /\ p \in Int /\ p > 0 /\ (p + 1) - 1 = p
      BY <2>2, Bounds DEF Stage
    <3>2. HoldsPair(p + 1) => HasReader(p)
      BY <3>1 DEF HasReader
    <3>3. CASE HoldsPair(p + 1)'
      BY <3>1, <3>2, <3>3 DEF KeepsEnds
    <3>4. CASE fd0' = p
      BY <3>1, <3>2, <3>4 DEF KeepsEnds, HasReader
    <3>5. ASSUME NEW s \in Stage, Alive(s)', proc'[s].in = p PROVE HasReader(p)
      <4>1. s = p + 1
        BY <3>1, <3>5 DEF OnItsOwnPipes, Stage
      <4>2. CASE Alive(s)
        BY <3>1, <3>5, <4>1, <4>2 DEF OnItsOwnPipes, HasReader
      <4> QED  BY <3>2, <3>5, <4>1, <4>2 DEF KeepsEnds
    <3> QED  BY <1>1, <2>2, <3>3, <3>4, <3>5 DEF HasReader
  <2> QED  BY <2>1, <2>2
<1>2. ASSUME NEW p \in 0..N, p # N, HasWriter(p)' PROVE HasWriter(p)
  <2>1. CASE p = 0 /\ feed' > 0
    BY <2>1 DEF KeepsEnds, HasWriter
  <2>2. CASE p > 0 /\ HoldsPair(p)'
    BY <1>2, <2>2 DEF KeepsEnds, HasWriter, Stage
  <2>3. CASE fd1' = p
    <3>1. p \in Stage => p > 0
      BY Bounds
    <3> QED  BY <1>2, <2>3, <3>1 DEF KeepsEnds, HasWriter
  <2>4. ASSUME NEW s \in Stage, Alive(s)', proc'[s].out = p PROVE HasWriter(p)
    <3>1. s = p /\ p > 0
      BY <2>4, Bounds DEF OnItsOwnPipes
    <3>2. CASE Alive(s)
      BY <2>4, <3>1, <3>2 DEF OnItsOwnPipes, HasWriter
    <3> QED  BY <2>4, <3>1, <3>2 DEF KeepsEnds, HasWriter
  <2> QED  BY <1>2, <2>1, <2>2, <2>3, <2>4 DEF HasWriter
<1> QED  BY <1>1, <1>2 DEF NoNewEnds

LEMMA BodyEnds ==
    ASSUME SafetyInv, NEW s \in Shells, Body(s)
    PROVE  KeepsEnds
<1>0. /\ s \in Stage /\ idx = s /\ pc = "run" /\ co[s] = "running" /\ HoldsPair(s)
      /\ DOMAIN co = Stage /\ DOMAIN proc = Stage
  BY BodyTurn DEF SafetyInv, TypeOK, TasksOK, ProcOK, OnItsOwnPipes, HoldsPair
<1>1. feed' = feed
  BY DEF Body, StopBroken, NextStatement, Finish, Panic, ReadUnit, ReadEof, ParkReading,
         WriteSome, WriteBroken, WriteFull, WriteGrid, SpawnChild, WaitChild, ChildDone, pipes
<1>2. \A t \in Stage : Alive(t)' => Alive(t) \/ t = s
  <2>1. CASE SpawnChild(s)
    BY <1>0, <2>1 DEF SpawnChild, Alive
  <2>2. CASE ~SpawnChild(s)
    <3>1. proc' = proc
      BY <2>2 DEF Body, StopBroken, NextStatement, Finish, Panic, ReadUnit, ReadEof, ParkReading,
             WriteSome, WriteBroken, WriteFull, WriteGrid, WaitChild, ChildDone
    <3> QED  BY <3>1 DEF Alive
  <2> QED  BY <2>1, <2>2
<1>3. \/ UNCHANGED <<pc, idx, co, fd0, fd1>>
      \/ \E why \in {"ready", "readable", "writable"} : Yield(why)
      \/ \E saw \in {"off", watch} : LetGo(saw)
  BY DEF Body, StopBroken, NextStatement, Finish, Panic, ReadUnit, ReadEof, ParkReading,
         WriteSome, WriteBroken, WriteFull, WriteGrid, SpawnChild, WaitChild, ChildDone,
         thread, tasks, fds
<1>4. /\ \A t \in Stage : HoldsPair(t)' => HoldsPair(t)
      /\ fd0' \in {fd0, 0} /\ fd1' \in {fd1, N}
  <2>1. CASE UNCHANGED <<pc, idx, co, fd0, fd1>>
    BY <2>1 DEF HoldsPair
  <2>2. CASE \E why \in {"ready", "readable", "writable"} : Yield(why)
    <3>1. co' = [co EXCEPT ![s] = "suspended"] /\ pc' = "pass" /\ fd0' = fd0 /\ fd1' = fd1
      BY <1>0, <2>2 DEF Yield, fds
    <3> QED  BY <1>0, <3>1 DEF HoldsPair
  <2>3. CASE \E saw \in {"off", watch} : LetGo(saw)
    <3>1. co' = [co EXCEPT ![s] = "done"] /\ pc' = "pass" /\ fd0' = 0 /\ fd1' = N
      BY <1>0, <2>3 DEF LetGo, InstallShellFds
    <3> QED  BY <1>0, <3>1 DEF HoldsPair
  <2> QED  BY <1>3, <2>1, <2>2, <2>3
<1> QED  BY <1>0, <1>1, <1>2, <1>4 DEF KeepsEnds

LEMMA ProcessEnds ==
    ASSUME SafetyInv, NEW s \in Stage, Process(s)
    PROVE  KeepsEnds
<1>0. Alive(s) /\ UNCHANGED <<pc, idx, co, fd0, fd1, feed>>
  BY DEF Process, ProcRead, ProcEof, ProcWrite, ProcBroken, ProcExit, thread, tasks, fds, pipes
<1>1. \A t \in Stage : t # s => proc'[t] = proc[t]
  BY DEF Process, ProcRead, ProcEof, ProcWrite, ProcBroken, ProcExit, ProcDies, SafetyInv, TypeOK,
         ProcOK
<1>2. \A t \in Stage : Alive(t)' => Alive(t)
  BY <1>0, <1>1 DEF Alive
<1>3. \A t \in Stage : HoldsPair(t)' => HoldsPair(t)
  BY <1>0 DEF HoldsPair
<1> QED  BY <1>0, <1>2, <1>3 DEF KeepsEnds

LEMMA BuildEnds ==
    ASSUME SafetyInv, Connect \/ Spawn \/ BuildFails
    PROVE  KeepsEnds
<1> USE DEF fds, tasks, pipes
<1>0. /\ pc = "build" /\ idx \in Int /\ DOMAIN co = Stage /\ DOMAIN proc = Stage
      /\ UNCHANGED <<fd0, fd1, feed>>
      /\ \A t \in Shells : co[t] # "done"
  <2>1. pc = "build" /\ UNCHANGED <<fd0, fd1, feed>>
    BY DEF Connect, Spawn, BuildFails
  <2>2. idx \in Int /\ DOMAIN co = Stage /\ DOMAIN proc = Stage
    BY Bounds DEF SafetyInv, TypeOK, ThreadOK, TasksOK, ProcOK
  <2> QED  BY <2>1, <2>2 DEF SafetyInv, OnItsOwnPipes
<1>1. CASE Connect
  <2>1. \A t \in Stage : HoldsPair(t)' => HoldsPair(t)
    <3> SUFFICES ASSUME NEW t \in Stage, HoldsPair(t)' PROVE HoldsPair(t)
      OBVIOUS
    <3>1. CASE t \in Shells
      BY <1>0, <3>1 DEF HoldsPair
    <3>2. CASE t \notin Shells
      BY <1>0, <1>1, <3>2, Bounds DEF HoldsPair, Connect
    <3> QED  BY <3>1, <3>2
  <2> QED  BY <1>0, <1>1, <2>1 DEF KeepsEnds, Connect, Alive
<1>2. CASE Spawn
  <2>1. idx \in Stage /\ idx \notin Shells /\ HoldsPair(idx) /\ co' = co
    BY <1>0, <1>2, PipelineAssumption DEF PipelineAssumption, Spawn, Shells, HoldsPair
  <2>2. \A t \in Stage : HoldsPair(t)' => HoldsPair(t)
    BY <1>0, <1>2, <2>1, Bounds DEF HoldsPair, Spawn
  <2>3. \A t \in Stage : Alive(t)' => Alive(t) \/ t = idx
    BY <1>0, <1>2 DEF Spawn, Alive
  <2> QED  BY <1>0, <2>1, <2>2, <2>3 DEF KeepsEnds
<1>3. CASE BuildFails
  <2>1. \A t \in Stage : ~HoldsPair(t)'
    BY <1>3 DEF BuildFails, HoldsPair
  <2>2. \A t \in Stage : Alive(t)' => Alive(t)
    BY <1>3 DEF BuildFails, Alive
  <2> QED  BY <1>0, <2>1, <2>2 DEF KeepsEnds
<1> QED  BY <1>1, <1>2, <1>3

LEMMA PassEnds ==
    ASSUME SafetyInv,
           \/ EnterRun \/ Skip \/ Resume \/ EndPass \/ Wake \/ Reap \/ ReapDrain \/ Return
           \/ InputArrives \/ OutputTaken \/ UNCHANGED vars
    PROVE  KeepsEnds
<1> USE DEF thread, fds, tasks, pipes
<1>1. proc' = proc /\ (feed' > 0 => feed > 0)
  BY DEF EnterRun, Skip, Resume, EndPass, Wake, Reap, ReapDrain, Return, InputArrives, OutputTaken, vars,
         SafetyInv, TypeOK, PipesOK
<1>2. /\ fd0' \in {fd0, 0} \/ Resume
      /\ fd1' \in {fd1, N} \/ Resume
  BY DEF EnterRun, Skip, EndPass, Wake, Reap, ReapDrain, Return, InputArrives, OutputTaken, vars,
         InstallShellFds
<1>3. Resume => fd0' + 1 = idx /\ fd1' = idx /\ idx \in Stage /\ HoldsPair(idx)
  BY Bounds DEF Resume, InstallFds, Live, HoldsPair
<1>4. \A t \in Shells : co'[t] # "done" => co[t] # "done"
  <2>1. CASE Resume
    <3>1. co' = [co EXCEPT ![idx] = "running"] /\ co[idx] # "done" /\ DOMAIN co = Stage
      BY <2>1 DEF Resume, Live, SafetyInv, TypeOK, TasksOK
    <3> QED  BY <3>1 DEF Shells
  <2>2. CASE ~Resume
    BY <2>2 DEF EnterRun, Skip, EndPass, Wake, Reap, ReapDrain, Return, InputArrives, OutputTaken, vars
  <2> QED  BY <2>1, <2>2
<1>5. (pc' # "returned" => pc # "returned") /\ (pc' = "build" => pc = "build" /\ idx' = idx)
  BY DEF EnterRun, Skip, Resume, EndPass, Wake, Reap, ReapDrain, Return, InputArrives, OutputTaken, vars
<1>6. \A t \in Stage : HoldsPair(t)' => HoldsPair(t)
  BY <1>4, <1>5 DEF HoldsPair
<1> QED  BY <1>1, <1>2, <1>3, <1>6 DEF KeepsEnds, Alive

LEMMA NextEnds == SafetyInv /\ [Next]_vars => NoNewEnds
<1> SUFFICES ASSUME SafetyInv, [Next]_vars PROVE NoNewEnds
  OBVIOUS
<1>1. KeepsEnds
  BY BodyEnds, ProcessEnds, BuildEnds, PassEnds DEF Next, Thread, Returned
<1>2. OnItsOwnPipes /\ OnItsOwnPipes'
  BY NextSafe DEF SafetyInv
<1> QED  BY <1>1, <1>2, EndsKept

-----------------------------------------------------------------------------
(* The stages that do not move.                                             *)

StageInStep(t) == BodyInStep(t) /\ ProcInStep(t) /\ Unstarted(t)

\* A step of others: of stage t's own state only its coroutine's may change,
\* or its process end; its reader and its writer are where they were.
Unmoved(t) ==
    /\ role' = role
    /\ at'[t] = at[t] /\ line'[t] = line[t] /\ left'[t] = left[t]
    /\ proc'[t] = proc[t] \/ proc'[t].st = "dead"
    /\ co'[t] # co[t] => co[t] # "done" /\ (co'[t] = "done" => ~Alive(t))
    /\ want'[t - 1] = want[t - 1] /\ Coming(t)' = Coming(t)
    /\ Dry(t - 1) => Dry(t - 1)'

\* The stages are started once, from left to right.
Onwards == /\ idx \in Int /\ idx' \in Int
           /\ pc' = "build" => pc = "build" /\ idx <= idx'

LEMMA NextOnwards == SafetyInv /\ [Next]_vars => Onwards
<1> SUFFICES ASSUME SafetyInv, [Next]_vars PROVE Onwards
  OBVIOUS
<1>1. idx \in Int /\ idx' \in Int
  BY NextSafe, Bounds DEF SafetyInv, TypeOK, ThreadOK
<1>2. ASSUME NEW s \in Shells, Body(s) PROVE pc' # "build"
  <2>1. pc = "run"
    BY <1>2, BodyTurn DEF SafetyInv, TypeOK
  <2> QED  BY <1>2, <2>1 DEF Body, StopBroken, NextStatement, Finish, Panic, ReadUnit, ReadEof,
             ParkReading, WriteSome, WriteBroken, WriteFull, WriteGrid, SpawnChild, WaitChild,
             ChildDone, Yield, LetGo, thread
<1>3. ASSUME NEW s \in Stage, Process(s) PROVE UNCHANGED thread
  BY <1>3 DEF Process, ProcRead, ProcEof, ProcWrite, ProcBroken, ProcExit
<1>4. CASE Connect \/ Spawn
  BY <1>1, <1>4 DEF Connect, Spawn, Onwards
<1>5. CASE \/ BuildFails \/ EnterRun \/ Skip \/ Resume \/ EndPass \/ Wake
           \/ Reap \/ Return
  <2>1. pc' # "build"
    BY <1>5 DEF BuildFails, EnterRun, Skip, Resume, EndPass, Wake, Reap, Return
  <2> QED  BY <1>1, <2>1 DEF Onwards
<1>6. CASE ReapDrain \/ InputArrives \/ OutputTaken
  <2>1. UNCHANGED thread
    BY <1>6 DEF ReapDrain, InputArrives, OutputTaken
  <2> QED  BY <1>1, <2>1 DEF thread, Onwards
<1> QED  BY <1>1, <1>2, <1>3, <1>4, <1>5, <1>6 DEF Next, Thread, Returned, Onwards, vars, thread

LEMMA UnmovedInStep ==
    ASSUME NEW t \in Stage, Unmoved(t), NoNewEnds, Onwards, StageInStep(t)
    PROVE  StageInStep(t)'
<1>1. HasReader(t)' => HasReader(t)
  BY DEF NoNewEnds
<1>2. BodyInStep(t)'
  <2> SUFFICES ASSUME Writing(t)' PROVE BodyInStep(t)'
    BY DEF BodyInStep
  <2>1. Writing(t)
    BY DEF Writing, Unmoved
  <2> QED  BY <1>1, <2>1 DEF StageInStep, BodyInStep, Unmoved, ToGrid
<1>3. ProcInStep(t)'
  <2> SUFFICES ASSUME Alive(t)' PROVE ProcInStep(t)'
    BY DEF ProcInStep
  <2>1. Alive(t) /\ proc'[t] = proc[t]
    BY DEF Alive, Unmoved
  <2>2. ProcRole(t)' = ProcRole(t)
    BY DEF ProcRole, Unmoved
  <2> QED  BY <1>1, <2>1, <2>2 DEF StageInStep, ProcInStep, Unmoved, Generates
<1>4. Unstarted(t)'
  <2>1. Alive(t)' => Alive(t)
    BY DEF Alive, Unmoved
  <2>2. t \in Int
    BY Bounds
  <2> QED  BY <2>1, <2>2 DEF StageInStep, Unstarted, Unmoved, Onwards
<1> QED  BY <1>2, <1>3, <1>4 DEF StageInStep

\* A pipe that has run dry stays so unless it is put into.
LEMMA DryStays ==
    ASSUME NoNewEnds, NEW p \in 0..N, p # N, Dry(p), buf'[p] = <<>>
    PROVE  Dry(p)'
  BY DEF NoNewEnds, Dry

-----------------------------------------------------------------------------
(* The pipes, as the steps use them.                                        *)

LEMMA PipesTake ==
    ASSUME SafetyInv, PipesInStep, NoNewEnds, feed' = feed,
           NEW p \in 0..N, NEW n \in Nat, n <= Len(buf[p]), Take(p, n)
    PROVE  /\ PipesInStep'
           /\ want'[p] = Ahead(want[p], n)
           /\ \A q \in 0..N : q # p => want'[q] = want[q]
           /\ \A q \in 0..N : Coming(q)' = Coming(q)
           /\ \A q \in 0..N : q # N /\ Dry(q) => Dry(q)'
<1>1. PipesOK /\ InOrder(p)
  BY DEF SafetyInv, TypeOK, PipesInStep
<1>2. /\ InOrder(p)' /\ Coming(p)' = Coming(p)
      /\ want'[p] = Ahead(want[p], n)
      /\ \A q \in 0..N : q # p => buf'[q] = buf[q] /\ want'[q] = want[q]
      /\ buf[p] = <<>> => buf'[p] = <<>>
  BY <1>1, TakeKeeps
<1>3. \A q \in 0..N : Coming(q)' = Coming(q)
  BY <1>2 DEF Coming, Contents
<1>4. \A q \in 0..N : InOrder(q)'
  BY <1>2 DEF PipesInStep, InOrder, Contents
<1>5. \A q \in 0..N : buf[q] = <<>> => buf'[q] = <<>>
  BY <1>2
<1>6. PipesInStep'
  BY <1>3, <1>4, <1>5, Bounds DEF PipesInStep
<1>7. \A q \in 0..N : q # N /\ Dry(q) => Dry(q)'
  BY <1>5, DryStays DEF Dry
<1> QED  BY <1>2, <1>3, <1>6, <1>7

LEMMA PipesPut ==
    ASSUME SafetyInv, PipesInStep, NoNewEnds, feed' = feed,
           NEW p \in Stage, NEW u \in Seq(Unit), Put(p, u), HasWriter(p),
           \A i \in 1..Len(u) : u[i] = Ahead(Coming(p), i - 1)
    PROVE  /\ PipesInStep'
           /\ Coming(p)' = Ahead(Coming(p), Len(u))
           /\ \A q \in 0..N : q # N => want'[q] = want[q]
           /\ \A q \in 0..N : q # p => Coming(q)' = Coming(q)
           /\ \A q \in 0..N : q # N /\ Dry(q) => Dry(q)'
<1>0. p \in 0..N /\ p # 0 /\ 0 \in 0..N
  BY Bounds
<1>1. PipesOK /\ InOrder(p) /\ (Terminal = "file" => buf[N] = <<>>)
  BY <1>0 DEF SafetyInv, TypeOK, PipesInStep
<1>2. /\ InOrder(p)' /\ Coming(p)' = Ahead(Coming(p), Len(u))
      /\ \A q \in 0..N : q # N => want'[q] = want[q]
      /\ \A q \in 0..N : q # p => buf'[q] = buf[q] /\ want'[q] = want[q]
      /\ Terminal = "file" => buf'[N] = <<>>
  BY <1>0, <1>1, PutKeeps
<1>3. \A q \in 0..N : q # p => Coming(q)' = Coming(q)
  BY <1>2 DEF Coming, Contents
<1>4. \A q \in 0..N : InOrder(q)'
  BY <1>2 DEF PipesInStep, InOrder, Contents
<1>6. PipesInStep'
  BY <1>0, <1>2, <1>3, <1>4 DEF PipesInStep
<1>7. \A q \in 0..N : q # N /\ Dry(q) => Dry(q)'
  BY <1>2, DryStays DEF Dry
<1> QED  BY <1>2, <1>3, <1>6, <1>7

LEMMA PipesSame ==
    ASSUME PipesInStep, NoNewEnds, UNCHANGED pipes
    PROVE  /\ PipesInStep'
           /\ \A q \in 0..N : want'[q] = want[q] /\ Coming(q)' = Coming(q)
           /\ \A q \in 0..N : q # N /\ Dry(q) => Dry(q)'
<1>1. \A q \in 0..N : want'[q] = want[q] /\ Coming(q)' = Coming(q)
  BY DEF pipes, Coming, Contents
<1>2. PipesInStep'
  BY DEF PipesInStep, pipes, InOrder, Contents, Coming
<1>3. \A q \in 0..N : q # N /\ Dry(q) => Dry(q)'
  BY DryStays DEF Dry, pipes
<1> QED  BY <1>1, <1>2, <1>3

\* The pane's drain, and a terminal's reader, take from the last pipe.
LEMMA PipesDrain ==
    ASSUME SafetyInv, PipesInStep, NoNewEnds, feed' = feed,
           Drain \/ UNCHANGED <<buf, want>> \/ OutputTaken
    PROVE  /\ PipesInStep'
           /\ \A q \in 0..N : q # N => want'[q] = want[q]
           /\ \A q \in 0..N : Coming(q)' = Coming(q)
           /\ \A q \in 0..N : q # N /\ Dry(q) => Dry(q)'
<1>0. N \in 0..N /\ buf[N] \in Seq(Unit) /\ Len(buf[N]) \in Nat
  BY Bounds, PipeType DEF SafetyInv, TypeOK
<1>1. CASE UNCHANGED <<buf, want>>
  BY <1>1, PipesSame DEF pipes
<1>2. CASE \E n \in Nat : n <= Len(buf[N]) /\ Take(N, n)
  BY <1>0, <1>2, PipesTake
<1>3. OutputTaken => Take(N, 1) /\ 1 <= Len(buf[N])
  BY <1>0 DEF OutputTaken
<1>4. Drain => Take(N, Len(buf[N])) \/ UNCHANGED <<buf, want>>
  BY DEF Drain
<1> QED  BY <1>0, <1>1, <1>2, <1>3, <1>4

-----------------------------------------------------------------------------
(* Steps that move no stage's body and put nothing into a pipe.             *)

Still ==
    /\ UNCHANGED <<role, body, feed>>
    /\ Drain \/ UNCHANGED <<buf, want>> \/ OutputTaken
    /\ \A t \in Stage : proc'[t] = proc[t] \/ proc'[t].st = "dead"
    /\ \A t \in Stage : co'[t] # co[t] => co[t] # "done" /\ (co'[t] = "done" => ~Alive(t))

LEMMA StillKeeps ==
    ASSUME SafetyInv, StepInv, NoNewEnds, Onwards, Still
    PROVE  StepInv'
<1>1. /\ PipesInStep'
      /\ \A q \in 0..N : q # N => want'[q] = want[q]
      /\ \A q \in 0..N : Coming(q)' = Coming(q)
      /\ \A q \in 0..N : q # N /\ Dry(q) => Dry(q)'
  BY PipesDrain DEF Still, StepInv
<1>2. \A t \in Stage : t - 1 \in 0..N /\ t - 1 # N /\ t \in 0..N
  BY Bounds
<1>3. \A t \in Stage : Unmoved(t)
  BY <1>1, <1>2 DEF Still, Unmoved, body
<1>4. \A t \in Stage : StageInStep(t)'
  BY <1>3, UnmovedInStep DEF StepInv, StageInStep
<1> QED  BY <1>1, <1>4 DEF StepInv, StageInStep

\* A stage that lets go has no process left.
LEMMA LetGoStill ==
    ASSUME SafetyInv, NEW s \in Shells, idx = s, pc = "run", ~Alive(s),
           NEW saw, LetGo(saw), UNCHANGED <<role, body, proc, pipes>>
    PROVE  Still
<1>1. co' = [co EXCEPT ![s] = "done"] /\ co[s] = "running" /\ DOMAIN co = Stage
  BY DEF LetGo, SafetyInv, OnItsOwnPipes, TypeOK, TasksOK
<1> QED  BY <1>1 DEF Still, pipes

LEMMA YieldStill ==
    ASSUME SafetyInv, NEW s \in Shells, idx = s, pc = "run",
           NEW why, Yield(why), UNCHANGED <<role, body, proc, feed>>,
           UNCHANGED <<buf, want>>
    PROVE  Still
<1>1. co' = [co EXCEPT ![s] = "suspended"] /\ co[s] = "running" /\ DOMAIN co = Stage
  BY DEF Yield, SafetyInv, OnItsOwnPipes, TypeOK, TasksOK
<1> QED  BY <1>1 DEF Still

LEMMA BodyStill ==
    ASSUME SafetyInv, StepInv, NEW s \in Shells,
           \/ StopBroken(s) \/ Finish(s) \/ Panic(s) \/ ParkReading(s) \/ WriteFull(s)
           \/ WaitChild(s) \/ ChildDone(s)
    PROVE  Still
<1>0. s \in Stage /\ idx = s /\ pc = "run"
  BY BodyTurn DEF Body, SafetyInv, TypeOK
<1>1. at[s] # "wait" => ~Alive(s)
  BY <1>0 DEF StepInv, ProcInStep
<1>2. CASE StopBroken(s) \/ Finish(s) \/ Panic(s) \/ ChildDone(s)
  <2>1. ~Alive(s) /\ (LetGo("off") \/ LetGo(watch)) /\ UNCHANGED <<role, body, proc, pipes>>
    BY <1>1, <1>2 DEF StopBroken, Finish, Panic, ChildDone, Running
  <2> QED  BY <1>0, <2>1, LetGoStill
<1>3. CASE ParkReading(s) \/ WaitChild(s)
  <2>1. (Yield("readable") \/ Yield("ready")) /\ UNCHANGED <<role, body, proc, feed>>
        /\ UNCHANGED <<buf, want>>
    BY <1>3 DEF ParkReading, WaitChild, pipes
  <2> QED  BY <1>0, <2>1, YieldStill
<1>4. CASE WriteFull(s)
  <2>1. UNCHANGED <<role, body, proc, feed>>
    BY <1>4 DEF WriteFull
  <2>2. CASE Terminal = "pane"
    BY <1>4, <2>1, <2>2 DEF WriteFull, tasks, Still
  <2>3. CASE Terminal # "pane"
    <3>1. Yield("writable") /\ UNCHANGED <<buf, want>>
      BY <1>4, <2>3 DEF WriteFull
    <3> QED  BY <1>0, <2>1, <3>1, YieldStill
  <2> QED  BY <2>2, <2>3
<1> QED  BY <1>2, <1>3, <1>4

LEMMA ThreadStill ==
    ASSUME SafetyInv,
           \/ Connect \/ BuildFails \/ EnterRun \/ Skip \/ Resume \/ EndPass \/ Wake
           \/ Reap \/ ReapDrain \/ Return \/ OutputTaken \/ UNCHANGED vars
    PROVE  Still
<1> USE DEF tasks, pipes
<1>0. /\ DOMAIN co = Stage /\ DOMAIN proc = Stage
      /\ pc = "build" => \A t \in Shells : co[t] # "done"
  BY DEF SafetyInv, TypeOK, TasksOK, ProcOK, OnItsOwnPipes
<1>1. UNCHANGED <<role, body, feed>>
  BY DEF Connect, BuildFails, EnterRun, Skip, Resume, EndPass, Wake, Reap, ReapDrain, Return,
         OutputTaken, vars
<1>2. Drain \/ UNCHANGED <<buf, want>> \/ OutputTaken
  <2>1. CASE EndPass
    BY <2>1 DEF EndPass
  <2>2. CASE ReapDrain \/ Return \/ OutputTaken
    BY <2>2 DEF ReapDrain, Return
  <2>3. CASE \/ Connect \/ BuildFails \/ EnterRun \/ Skip \/ Resume \/ Wake \/ Reap
             \/ UNCHANGED vars
    BY <2>3 DEF Connect, BuildFails, EnterRun, Skip, Resume, Wake, Reap, vars
  <2> QED  BY <2>1, <2>2, <2>3
<1>3. \A t \in Stage : proc'[t] = proc[t] \/ proc'[t].st = "dead"
  <2>1. CASE BuildFails
    <3>1. proc' = [t \in Stage |-> IF Alive(t) THEN [proc[t] EXCEPT !.st = "dead", !.code = 137]
                                   ELSE proc[t]]
      BY <2>1 DEF BuildFails
    <3>2. \A t \in Stage : proc[t] \in ProcSet
      BY DEF SafetyInv, TypeOK, ProcOK
    <3>3. ASSUME NEW t \in Stage PROVE proc'[t] = proc[t] \/ proc'[t].st = "dead"
      <4>1. CASE Alive(t)
        <5>1. proc'[t] = [proc[t] EXCEPT !.st = "dead", !.code = 137]
          BY <3>1, <4>1
        <5> QED  BY <3>2, <5>1 DEF ProcSet
      <4>2. CASE ~Alive(t)
        BY <3>1, <4>2
      <4> QED  BY <4>1, <4>2
    <3> QED  BY <3>3
  <2>2. CASE ~BuildFails
    <3>1. CASE Connect \/ EnterRun \/ Skip \/ Resume \/ EndPass \/ Wake
      BY <3>1 DEF Connect, EnterRun, Skip, Resume, EndPass, Wake
    <3>2. CASE Reap \/ ReapDrain \/ Return \/ OutputTaken \/ UNCHANGED vars
      BY <3>2 DEF Reap, ReapDrain, Return, OutputTaken, vars
    <3> QED  BY <2>2, <3>1, <3>2
  <2> QED  BY <2>1, <2>2
<1>4. \A t \in Stage : co'[t] # co[t] => co[t] # "done" /\ (co'[t] = "done" => ~Alive(t))
  <2>1. CASE Connect
    BY <1>0, <2>1 DEF Connect
  <2>2. CASE Resume
    BY <1>0, <2>2 DEF Resume, Live
  <2>3. CASE ~Connect /\ ~Resume
    <3>1. co' = co
      BY <2>3 DEF BuildFails, EnterRun, Skip, EndPass, Wake, Reap, ReapDrain, Return,
         OutputTaken, vars
    <3> QED  BY <3>1
  <2> QED  BY <2>1, <2>2, <2>3
<1> QED  BY <1>1, <1>2, <1>3, <1>4 DEF Still

LEMMA ProcStill ==
    ASSUME SafetyInv, NEW s \in Stage, ProcEof(s) \/ ProcBroken(s) \/ ProcExit(s)
    PROVE  Still
<1>0. DOMAIN proc = Stage /\ proc[s] \in ProcSet
  BY DEF SafetyInv, TypeOK, ProcOK
<1>1. UNCHANGED <<role, body, feed, buf, want, co>>
  BY DEF ProcEof, ProcBroken, ProcExit, pipes, tasks
<1>2. \E code : ProcDies(s, code)
  BY DEF ProcEof, ProcBroken, ProcExit
<1>3. proc'[s].st = "dead" /\ \A t \in Stage : t # s => proc'[t] = proc[t]
  BY <1>0, <1>2 DEF ProcDies, ProcSet
<1> QED  BY <1>1, <1>3 DEF Still

-----------------------------------------------------------------------------
(* Steps that move one stage.                                               *)

\* The other stages, when only s moves and the pipes elsewhere are the same.
LEMMA OthersInStep ==
    ASSUME StepInv, NoNewEnds, Onwards, NEW s \in Stage, role' = role,
           \A t \in Stage : t # s => /\ at'[t] = at[t] /\ line'[t] = line[t] /\ left'[t] = left[t]
                                    /\ proc'[t] = proc[t] /\ co'[t] = co[t],
           \A q \in 0..N : q # N /\ q # s - 1 => want'[q] = want[q],
           \A q \in 0..N : q # s => Coming(q)' = Coming(q),
           \A q \in 0..N : q # N /\ Dry(q) => Dry(q)',
           PipesInStep', StageInStep(s)'
    PROVE  StepInv'
<1>1. ASSUME NEW t \in Stage, t # s PROVE Unmoved(t)
  <2>1. /\ at'[t] = at[t] /\ line'[t] = line[t] /\ left'[t] = left[t]
        /\ proc'[t] = proc[t] /\ co'[t] = co[t]
    BY <1>1
  <2>2. t - 1 \in 0..N /\ t - 1 # N /\ t - 1 # s - 1 /\ t \in 0..N
    BY <1>1, Bounds
  <2> QED  BY <2>1, <2>2 DEF Unmoved
<1>2. \A t \in Stage : t # s => StageInStep(t)'
  BY <1>1, UnmovedInStep DEF StepInv, StageInStep
<1> QED  BY <1>2 DEF StepInv, StageInStep

\* A shell stage without a process goes on with its body.
LEMMA BodyMoves ==
    ASSUME SafetyInv, StepInv, NoNewEnds, Onwards, NEW s \in Shells, at[s] # "wait",
           role' = role, proc' = proc,
           \A t \in Stage : t # s => /\ at'[t] = at[t] /\ line'[t] = line[t] /\ left'[t] = left[t]
                                    /\ co'[t] = co[t],
           \A q \in 0..N : q # N /\ q # s - 1 => want'[q] = want[q],
           \A q \in 0..N : q # s => Coming(q)' = Coming(q),
           \A q \in 0..N : q # N /\ Dry(q) => Dry(q)',
           PipesInStep', BodyInStep(s)'
    PROVE  StepInv'
<1>1. s \in Stage /\ s \notin External
  BY DEF Shells
<1>2. ~Alive(s)'
  BY <1>1 DEF StepInv, ProcInStep, Alive
<1>3. StageInStep(s)'
  BY <1>1, <1>2 DEF StageInStep, ProcInStep, Unstarted
<1> QED  BY <1>1, <1>3, OthersInStep

\* What holds of a stage during its turn.
LEMMA Turn ==
    ASSUME SafetyInv, StepInv, NEW s \in Shells, Body(s)
    PROVE  /\ s \in Stage /\ idx = s /\ pc = "run" /\ co[s] = "running"
           /\ fd0 = s - 1 /\ fd1 = s /\ HasWriter(s)
           /\ s - 1 \in 0..N /\ s - 1 # N /\ s \in 0..N /\ s # s - 1
           /\ at[s] # "wait" => Writing(s) /\ BodyInStep(s)
           /\ DOMAIN at = Stage /\ DOMAIN line = Stage /\ DOMAIN left = Stage /\ DOMAIN co = Stage
           /\ line[s] \in 0..(Chunk - 1) /\ left[s] \in Nat
<1>1. s \in Stage /\ idx = s /\ pc = "run"
  BY BodyTurn DEF SafetyInv, TypeOK
<1>2. co[s] = "running" /\ fd0 = s - 1 /\ fd1 = s
  BY <1>1 DEF SafetyInv, OnItsOwnPipes
<1>3. s - 1 \in 0..N /\ s - 1 # N /\ s \in 0..N /\ s # s - 1
  BY <1>1, Bounds
<1>4. at[s] # "wait" => Writing(s) /\ BodyInStep(s)
  BY <1>1, <1>2 DEF Writing, StepInv
<1>5. HasWriter(s)
  BY <1>2 DEF HasWriter
<1>6. /\ DOMAIN at = Stage /\ DOMAIN line = Stage /\ DOMAIN left = Stage /\ DOMAIN co = Stage
      /\ line[s] \in 0..(Chunk - 1) /\ left[s] \in Nat
  BY <1>1 DEF SafetyInv, TypeOK, BodyOK, TasksOK
<1> QED  BY <1>1, <1>2, <1>3, <1>4, <1>5, <1>6

LEMMA NextStatementInStep ==
    ASSUME SafetyInv, StepInv, NoNewEnds, Onwards, NEW s \in Shells, NextStatement(s)
    PROVE  StepInv'
<1>0. /\ s \in Stage /\ s - 1 \in 0..N /\ s - 1 # N /\ s \in 0..N /\ DOMAIN at = Stage
      /\ at[s] # "wait" => Writing(s) /\ BodyInStep(s)
      /\ left[s] \in Nat
  BY Turn DEF Body
<1>1. /\ UNCHANGED <<role, line, left, proc>> /\ UNCHANGED pipes /\ co' = co
      /\ \/ at[s] = "stmt" /\ left[s] > 0 /\ (at' = [at EXCEPT ![s] = "read"] \/ at' = [at EXCEPT ![s] = "write"])
         \/ at[s] = "echo" /\ at' = [at EXCEPT ![s] = "write"]
  BY DEF NextStatement, Running, Goto, tasks
<1>2. /\ PipesInStep'
      /\ \A q \in 0..N : want'[q] = want[q] /\ Coming(q)' = Coming(q)
      /\ \A q \in 0..N : q # N /\ Dry(q) => Dry(q)'
  BY <1>1, PipesSame DEF StepInv
<1>3. HasReader(s)' => HasReader(s)
  BY <1>0 DEF NoNewEnds
<1>4. want[s - 1] = 1 /\ line[s] = 0 /\ (HasReader(s) => Coming(s) = 1)
  BY <1>0, <1>1 DEF BodyInStep
<1>5. BodyInStep(s)'
  <2>1. at'[s] \in {"read", "write"} /\ line'[s] = 0
    BY <1>0, <1>1, <1>4
  <2> QED  BY <1>0, <1>2, <1>3, <1>4, <2>1 DEF BodyInStep
<1> QED  BY <1>0, <1>1, <1>2, <1>5, BodyMoves

LEMMA ReadUnitInStep ==
    ASSUME SafetyInv, StepInv, NoNewEnds, Onwards, NEW s \in Shells, ReadUnit(s)
    PROVE  StepInv'
<1>0. /\ s \in Stage /\ s - 1 \in 0..N /\ s - 1 # N /\ s \in 0..N
      /\ DOMAIN at = Stage /\ DOMAIN line = Stage /\ fd0 = s - 1
      /\ line[s] \in 0..(Chunk - 1)
      /\ at[s] # "wait" => Writing(s) /\ BodyInStep(s)
  BY Turn DEF Body
<1>1. /\ UNCHANGED <<role, left, proc>> /\ feed' = feed /\ co' = co /\ at[s] = "read"
      /\ buf[s - 1] # <<>> /\ Take(s - 1, 1)
  BY <1>0 DEF ReadUnit, Running, tasks
<1>2. \/ line[s] + 1 < Chunk /\ line' = [line EXCEPT ![s] = line[s] + 1] /\ at' = at
      \/ /\ ~(line[s] + 1 < Chunk) /\ line' = [line EXCEPT ![s] = 0]
         /\ at' = [at EXCEPT ![s] = "echo"] \/ at' = [at EXCEPT ![s] = "stmt"]
  BY DEF ReadUnit, Goto
<1>3. 1 \in Nat /\ 1 <= Len(buf[s - 1])
  BY <1>0, <1>1, PipeType DEF SafetyInv, TypeOK
<1>4. /\ PipesInStep' /\ want'[s - 1] = Ahead(want[s - 1], 1)
      /\ \A q \in 0..N : q # s - 1 => want'[q] = want[q]
      /\ \A q \in 0..N : Coming(q)' = Coming(q)
      /\ \A q \in 0..N : q # N /\ Dry(q) => Dry(q)'
  BY <1>0, <1>1, <1>3, PipesTake DEF StepInv
<1>5. HasReader(s)' => HasReader(s)
  BY <1>0 DEF NoNewEnds
<1>6. want[s - 1] = line[s] + 1 /\ (HasReader(s) => Coming(s) = 1)
  BY <1>0, <1>1 DEF BodyInStep
<1>7. line[s] + 1 \in Unit /\ line[s] \in Int /\ Chunk \in Int
  BY <1>0, PipelineAssumption DEF PipelineAssumption, Unit
<1>8. want'[s - 1] = IF line[s] + 1 < Chunk THEN line[s] + 2 ELSE 1
  <2>1. CASE line[s] + 1 < Chunk
    <3>1. (line[s] + 1) + 1 <= Chunk
      BY <1>7, <2>1
    <3>2. Ahead(line[s] + 1, 1) = (line[s] + 1) + 1
      BY <1>3, <1>7, <3>1, AheadWithin
    <3> QED  BY <1>4, <1>6, <1>7, <2>1, <3>2
  <2>2. CASE ~(line[s] + 1 < Chunk)
    <3>1. (line[s] + 1) + 1 = Chunk + 1
      BY <1>0, <1>7, <2>2
    <3>2. Ahead(line[s] + 1, 1) = 1
      BY <1>3, <1>7, <3>1, AheadWithin
    <3> QED  BY <1>4, <1>6, <2>2, <3>2
  <2> QED  BY <2>1, <2>2
<1>9. BodyInStep(s)'
  <2>1. CASE line[s] + 1 < Chunk
    <3>1. line'[s] = line[s] + 1 /\ at'[s] = "read" /\ want'[s - 1] = (line[s] + 1) + 1
      BY <1>0, <1>1, <1>2, <1>7, <1>8, <2>1
    <3> QED  BY <1>0, <1>4, <1>5, <1>6, <3>1 DEF BodyInStep
  <2>2. CASE ~(line[s] + 1 < Chunk)
    <3>1. line'[s] = 0 /\ at'[s] \in {"stmt", "echo"} /\ want'[s - 1] = 1
      BY <1>0, <1>2, <1>8, <2>2
    <3> QED  BY <1>0, <1>4, <1>5, <1>6, <3>1 DEF BodyInStep
  <2> QED  BY <2>1, <2>2
<1>10. \A t \in Stage : t # s => at'[t] = at[t] /\ line'[t] = line[t]
  BY <1>0, <1>2
<1> QED  BY <1>0, <1>1, <1>4, <1>9, <1>10, BodyMoves

LEMMA ReadEofInStep ==
    ASSUME SafetyInv, StepInv, NoNewEnds, Onwards, NEW s \in Shells, ReadEof(s)
    PROVE  StepInv'
<1>0. /\ s \in Stage /\ s - 1 \in 0..N /\ s - 1 # N /\ s \in 0..N /\ fd0 = s - 1
      /\ DOMAIN at = Stage /\ DOMAIN line = Stage /\ DOMAIN left = Stage
      /\ at[s] # "wait" => Writing(s) /\ BodyInStep(s)
  BY Turn DEF Body
<1>1. /\ UNCHANGED <<role, proc>> /\ UNCHANGED pipes /\ co' = co /\ at[s] = "read"
      /\ Dry(s - 1)
      /\ line' = [line EXCEPT ![s] = 0] /\ left' = [left EXCEPT ![s] = 0]
      /\ at' = [at EXCEPT ![s] = "stmt"]
  BY <1>0 DEF ReadEof, Running, Goto, tasks, Dry
<1>2. /\ PipesInStep'
      /\ \A q \in 0..N : want'[q] = want[q] /\ Coming(q)' = Coming(q)
      /\ \A q \in 0..N : q # N /\ Dry(q) => Dry(q)'
  BY <1>1, PipesSame DEF StepInv
<1>3. HasReader(s)' => HasReader(s)
  BY <1>0 DEF NoNewEnds
<1>4. HasReader(s) => Coming(s) = 1
  BY <1>0, <1>1 DEF BodyInStep
<1>5. BodyInStep(s)'
  BY <1>0, <1>1, <1>2, <1>3, <1>4 DEF BodyInStep
<1> QED  BY <1>0, <1>1, <1>2, <1>5, BodyMoves

LEMMA WriteSomeInStep ==
    ASSUME SafetyInv, StepInv, NoNewEnds, Onwards, NEW s \in Shells, WriteSome(s)
    PROVE  StepInv'
<1> DEFINE n == IF Room(fd1) < Chunk - line[s] THEN Room(fd1) ELSE Chunk - line[s]
           u == SubSeq(Line, line[s] + 1, line[s] + n)
<1>0. /\ s \in Stage /\ s - 1 \in 0..N /\ s - 1 # N /\ s \in 0..N /\ fd1 = s /\ s # s - 1
      /\ DOMAIN at = Stage /\ DOMAIN line = Stage /\ DOMAIN left = Stage /\ DOMAIN co = Stage
      /\ line[s] \in 0..(Chunk - 1) /\ idx = s /\ HasWriter(s)
      /\ at[s] # "wait" => Writing(s) /\ BodyInStep(s)
  BY Turn DEF Body
<1>1. /\ UNCHANGED <<role, proc>> /\ feed' = feed /\ at[s] = "write" /\ ~ToGrid(s) /\ HasReader(s)
      /\ Room(s) > 0 /\ Put(s, u)
  BY <1>0 DEF WriteSome, Running
<1>2. Chunk \in Nat /\ Room(s) \in Int
  <2>1. Len(buf[s]) \in Nat
    BY <1>0, PipeType DEF SafetyInv, TypeOK
  <2> QED  BY <2>1, PipelineAssumption DEF PipelineAssumption, Room
<1>3. n \in Nat /\ n >= 1 /\ line[s] + n <= Chunk /\ line[s] \in Nat
  BY <1>0, <1>1, <1>2
<1>4. \/ /\ WholeLine(Progress(s, n))
         /\ line' = [line EXCEPT ![s] = 0] /\ left' = Written(s)
         /\ at' = [at EXCEPT ![s] = "stmt"] /\ co' = [co EXCEPT ![s] = "suspended"]
      \/ /\ ~WholeLine(Progress(s, n))
         /\ line' = [line EXCEPT ![s] = Progress(s, n)] /\ UNCHANGED <<at, left, co>>
  BY <1>0 DEF WriteSome, Goto, Yield, tasks
<1> HIDE DEF n
<1>6. want[s - 1] = 1 /\ Coming(s) = line[s] + 1
  BY <1>0, <1>1 DEF BodyInStep
<1>7. line[s] + 1 \in Unit
  BY <1>2, <1>3 DEF Unit
<1>8. u \in Seq(Unit) /\ Len(u) = n /\ \A i \in 1..Len(u) : u[i] = Ahead(Coming(s), i - 1)
  BY <1>0, <1>3, <1>6, PartOfLine
<1> HIDE DEF u
<1>9. /\ PipesInStep' /\ Coming(s)' = Ahead(line[s] + 1, n)
      /\ \A q \in 0..N : q # N => want'[q] = want[q]
      /\ \A q \in 0..N : q # s => Coming(q)' = Coming(q)
      /\ \A q \in 0..N : q # N /\ Dry(q) => Dry(q)'
  <2>1. /\ PipesInStep' /\ Coming(s)' = Ahead(Coming(s), Len(u))
        /\ \A q \in 0..N : q # N => want'[q] = want[q]
        /\ \A q \in 0..N : q # s => Coming(q)' = Coming(q)
        /\ \A q \in 0..N : q # N /\ Dry(q) => Dry(q)'
    BY <1>0, <1>1, <1>8, PipesPut DEF StepInv
  <2> QED  BY <1>6, <1>8, <2>1
<1>10. BodyInStep(s)'
  <2>1. CASE WholeLine(Progress(s, n))
    <3>1. (line[s] + 1) + n = Chunk + 1
      BY <1>2, <1>3, <2>1 DEF WholeLine, Progress
    <3>2. Coming(s)' = 1
      BY <1>3, <1>7, <1>9, <3>1, AheadWithin
    <3>3. at'[s] = "stmt" /\ line'[s] = 0
      BY <1>0, <1>4, <2>1
    <3> QED  BY <1>0, <1>6, <1>9, <3>2, <3>3 DEF BodyInStep
  <2>2. CASE ~WholeLine(Progress(s, n))
    <3>1. (line[s] + 1) + n <= Chunk /\ (line[s] + 1) + n = (line[s] + n) + 1
      BY <1>2, <1>3, <2>2 DEF WholeLine, Progress
    <3>2. Coming(s)' = (line[s] + n) + 1
      BY <1>3, <1>7, <1>9, <3>1, AheadWithin
    <3>3. at'[s] = "write" /\ line'[s] = line[s] + n
      BY <1>0, <1>1, <1>4, <2>2 DEF Progress
    <3>4. ~ToGrid(s)'
      BY <1>1 DEF ToGrid
    <3> QED  BY <1>0, <1>6, <1>9, <3>2, <3>3, <3>4 DEF BodyInStep
  <2> QED  BY <2>1, <2>2
<1>11. \A t \in Stage : t # s => at'[t] = at[t] /\ line'[t] = line[t] /\ left'[t] = left[t] /\ co'[t] = co[t]
  BY <1>0, <1>4 DEF Written
<1> QED  BY <1>0, <1>1, <1>9, <1>10, <1>11, BodyMoves

LEMMA WriteBrokenInStep ==
    ASSUME SafetyInv, StepInv, NoNewEnds, Onwards, NEW s \in Shells, WriteBroken(s)
    PROVE  StepInv'
<1>0. /\ s \in Stage /\ s - 1 \in 0..N /\ s - 1 # N /\ s \in 0..N /\ fd1 = s
      /\ DOMAIN at = Stage /\ DOMAIN line = Stage /\ DOMAIN left = Stage
      /\ at[s] # "wait" => Writing(s) /\ BodyInStep(s)
  BY Turn DEF Body
<1>1. /\ UNCHANGED <<role, proc>> /\ UNCHANGED pipes /\ co' = co /\ at[s] = "write"
      /\ ~HasReader(s) /\ line' = [line EXCEPT ![s] = 0] /\ left' = Written(s)
      /\ at' = [at EXCEPT ![s] = "stmt"]
  BY <1>0 DEF WriteBroken, Running, Goto, tasks
<1>2. /\ PipesInStep'
      /\ \A q \in 0..N : want'[q] = want[q] /\ Coming(q)' = Coming(q)
      /\ \A q \in 0..N : q # N /\ Dry(q) => Dry(q)'
  BY <1>1, PipesSame DEF StepInv
<1>3. ~HasReader(s)'
  BY <1>0, <1>1 DEF NoNewEnds
<1>4. want[s - 1] = 1
  BY <1>0, <1>1 DEF BodyInStep
<1>5. BodyInStep(s)'
  BY <1>0, <1>1, <1>2, <1>3, <1>4 DEF BodyInStep
<1>6. \A t \in Stage : t # s => left'[t] = left[t]
  BY <1>0, <1>1 DEF Written
<1> QED  BY <1>0, <1>1, <1>2, <1>5, <1>6, BodyMoves

LEMMA WriteGridInStep ==
    ASSUME SafetyInv, StepInv, NoNewEnds, Onwards, NEW s \in Shells, WriteGrid(s)
    PROVE  StepInv'
<1>0. /\ s \in Stage /\ s - 1 \in 0..N /\ s - 1 # N /\ s \in 0..N
      /\ DOMAIN at = Stage /\ DOMAIN left = Stage
      /\ at[s] # "wait" => Writing(s) /\ BodyInStep(s)
  BY Turn DEF Body
<1>1. /\ UNCHANGED <<role, proc, line>> /\ feed' = feed /\ co' = co /\ at[s] = "write"
      /\ ToGrid(s) /\ Drain /\ left' = Written(s) /\ at' = [at EXCEPT ![s] = "stmt"]
  BY DEF WriteGrid, Running, Goto, tasks
<1>2. /\ PipesInStep'
      /\ \A q \in 0..N : q # N => want'[q] = want[q]
      /\ \A q \in 0..N : Coming(q)' = Coming(q)
      /\ \A q \in 0..N : q # N /\ Dry(q) => Dry(q)'
  BY <1>1, PipesDrain DEF StepInv
<1>3. HasReader(s)' => HasReader(s)
  BY <1>0 DEF NoNewEnds
<1>4. want[s - 1] = 1 /\ line[s] = 0 /\ (HasReader(s) => Coming(s) = 1)
  BY <1>0, <1>1 DEF BodyInStep
<1>5. BodyInStep(s)'
  BY <1>0, <1>1, <1>2, <1>3, <1>4 DEF BodyInStep
<1>6. \A t \in Stage : t # s => left'[t] = left[t]
  BY <1>0, <1>1 DEF Written
<1> QED  BY <1>0, <1>1, <1>2, <1>5, <1>6, BodyMoves

LEMMA SpawnChildInStep ==
    ASSUME SafetyInv, StepInv, NoNewEnds, Onwards, NEW s \in Shells, SpawnChild(s)
    PROVE  StepInv'
<1>0. /\ s \in Stage /\ s \notin External /\ s - 1 \in 0..N /\ s - 1 # N /\ s \in 0..N
      /\ co[s] = "running" /\ DOMAIN at = Stage /\ DOMAIN proc = Stage
      /\ at[s] # "wait" => Writing(s) /\ BodyInStep(s)
  BY Turn DEF Body, Shells, SafetyInv, TypeOK, ProcOK
<1>1. /\ UNCHANGED <<role, line, left>> /\ UNCHANGED pipes /\ co' = co /\ at[s] = "stmt"
      /\ proc' = [proc EXCEPT ![s] = Start("copy", fd0, fd1)] /\ at' = [at EXCEPT ![s] = "wait"]
  BY DEF SpawnChild, Running, Goto, tasks
<1>2. /\ PipesInStep'
      /\ \A q \in 0..N : want'[q] = want[q] /\ Coming(q)' = Coming(q)
      /\ \A q \in 0..N : q # N /\ Dry(q) => Dry(q)'
  BY <1>1, PipesSame DEF StepInv
<1>3. HasReader(s)' => HasReader(s)
  BY <1>0 DEF NoNewEnds
<1>4. (want[s - 1] = 1 \/ Dry(s - 1)) /\ (HasReader(s) => Coming(s) = 1)
  BY <1>0, <1>1 DEF BodyInStep
<1>5. proc'[s].held = 0 /\ at'[s] = "wait" /\ ~Generates(ProcRole(s)')
  BY <1>0, <1>1 DEF Start, Generates, ProcRole
<1>6. ProcInStep(s)'
  <2>1. Generates(ProcRole(s))' = Generates(ProcRole(s)')
    BY DEF Generates
  <2> QED  BY <1>0, <1>1, <1>2, <1>3, <1>4, <1>5, <2>1 DEF ProcInStep
<1>7. StageInStep(s)'
  BY <1>0, <1>5, <1>6 DEF StageInStep, BodyInStep, Writing, Unstarted
<1> QED  BY <1>0, <1>1, <1>2, <1>7, OthersInStep

\* What holds of a running process.
LEMMA Works ==
    ASSUME SafetyInv, StepInv, NEW s \in Stage, Alive(s)
    PROVE  /\ proc[s].in = s - 1 /\ proc[s].out = s /\ HasWriter(s)
           /\ s - 1 \in 0..N /\ s - 1 # N /\ s \in 0..N /\ s # s - 1
           /\ DOMAIN proc = Stage /\ proc[s] \in ProcSet
           /\ ProcInStep(s)
           /\ ~Writing(s) /\ ~(s \in External /\ pc = "build" /\ idx <= s)
<1>1. proc[s].in = s - 1 /\ proc[s].out = s
  BY DEF SafetyInv, OnItsOwnPipes
<1>2. s - 1 \in 0..N /\ s - 1 # N /\ s \in 0..N /\ s # s - 1
  BY Bounds
<1>3. HasWriter(s)
  BY <1>1 DEF HasWriter
<1>4. DOMAIN proc = Stage /\ proc[s] \in ProcSet
  BY DEF SafetyInv, TypeOK, ProcOK
<1>5. ProcInStep(s) /\ Unstarted(s)
  BY DEF StepInv
<1>6. ~Writing(s)
  BY <1>5 DEF ProcInStep, Writing
<1> QED  BY <1>1, <1>2, <1>3, <1>4, <1>5, <1>6 DEF Unstarted

LEMMA ProcReadInStep ==
    ASSUME SafetyInv, StepInv, NoNewEnds, Onwards, NEW s \in Stage, ProcRead(s)
    PROVE  StepInv'
<1>0. /\ Alive(s)
      /\ proc[s].in = s - 1 /\ s - 1 \in 0..N /\ s - 1 # N /\ s \in 0..N /\ s # s - 1
      /\ DOMAIN proc = Stage /\ proc[s] \in ProcSet
      /\ ProcInStep(s)
      /\ ~Writing(s) /\ ~(s \in External /\ pc = "build" /\ idx <= s)
  <2>1. Alive(s)
    BY DEF ProcRead
  <2> QED  BY <2>1, Works
<1>1. /\ UNCHANGED <<role, at, line, left, co, pc, idx>> /\ feed' = feed
      /\ proc[s].held = 0 /\ buf[s - 1] # <<>> /\ Take(s - 1, 1)
      /\ proc' = [proc EXCEPT ![s] = [proc[s] EXCEPT !.held = Head(buf[s - 1])]]
  BY <1>0 DEF ProcRead, body, tasks, thread
<1>2. buf[s - 1] \in Seq(Unit) /\ want[s - 1] \in Unit
  BY <1>0, PipeType DEF SafetyInv, TypeOK
<1>3. 1 \in Nat /\ 1 <= Len(buf[s - 1]) /\ Head(buf[s - 1]) = buf[s - 1][1] /\ Len(buf[s - 1]) \in Nat
  BY <1>1, <1>2
<1>4. /\ PipesInStep' /\ want'[s - 1] = Ahead(want[s - 1], 1)
      /\ \A q \in 0..N : q # s - 1 => want'[q] = want[q]
      /\ \A q \in 0..N : Coming(q)' = Coming(q)
      /\ \A q \in 0..N : q # N /\ Dry(q) => Dry(q)'
  BY <1>0, <1>1, <1>3, PipesTake DEF StepInv
<1>5. HasReader(s)' => HasReader(s)
  BY DEF NoNewEnds
<1>6. Head(buf[s - 1]) = want[s - 1]
  <2>1. InOrder(s - 1) /\ 1 \in 1..Contents(s - 1)
    BY <1>0, <1>3 DEF StepInv, PipesInStep, Contents
  <2>2. buf[s - 1][1] = Ahead(want[s - 1], 1 - 1)
    BY <2>1 DEF InOrder
  <2>3. Ahead(want[s - 1], 0) = want[s - 1]
    <3>1. want[s - 1] + 0 <= Chunk /\ 0 \in Nat /\ want[s - 1] + 0 = want[s - 1]
      BY <1>2 DEF Unit
    <3> QED  BY <1>2, <3>1, AheadWithin
  <2> QED  BY <1>3, <2>2, <2>3
<1>7. want[s - 1] # 0
  BY <1>2 DEF Unit
<1>8. proc'[s].held = want[s - 1] /\ proc'[s].st = proc[s].st
  BY <1>0, <1>1, <1>6 DEF ProcSet
<1>9. HasReader(s) => ~Generates(ProcRole(s)) /\ want[s - 1] = Coming(s)
  BY <1>0, <1>1 DEF ProcInStep, Dry
<1>10. ProcRole(s)' = ProcRole(s) /\ Generates(ProcRole(s))' = Generates(ProcRole(s))
  BY <1>1 DEF ProcRole, Generates
<1>11. ProcInStep(s)'
  <2>1. s \in Shells => co'[s] # "done" /\ at'[s] = "wait"
    BY <1>0, <1>1 DEF ProcInStep
  <2>2. proc'[s].held # 0
    BY <1>7, <1>8
  <2>3. HasReader(s)' => proc'[s].held = Coming(s)' /\ want'[s - 1] = Ahead(Coming(s)', 1)
    BY <1>0, <1>4, <1>5, <1>8, <1>9
  <2> QED  BY <2>1, <2>2, <2>3 DEF ProcInStep
<1>12. StageInStep(s)'
  <2>1. ~Writing(s)'
    BY <1>0, <1>1 DEF Writing
  <2>2. Unstarted(s)'
    BY <1>0, <1>1 DEF Unstarted
  <2> QED  BY <1>11, <2>1, <2>2 DEF StageInStep, BodyInStep
<1>13. \A t \in Stage : t # s => proc'[t] = proc[t]
  BY <1>0, <1>1
<1> QED  BY <1>0, <1>1, <1>4, <1>12, <1>13, OthersInStep

LEMMA ProcWriteInStep ==
    ASSUME SafetyInv, StepInv, NoNewEnds, Onwards, NEW s \in Stage, ProcWrite(s)
    PROVE  StepInv'
<1> DEFINE u == <<proc[s].held>>
<1>0. /\ Alive(s)
      /\ proc[s].out = s /\ s - 1 \in 0..N /\ s - 1 # N /\ s \in 0..N /\ s # s - 1 /\ HasWriter(s)
      /\ DOMAIN proc = Stage /\ proc[s] \in ProcSet
      /\ ProcInStep(s)
      /\ ~Writing(s) /\ ~(s \in External /\ pc = "build" /\ idx <= s)
  <2>1. Alive(s)
    BY DEF ProcWrite
  <2> QED  BY <2>1, Works
<1>1. /\ UNCHANGED <<role, at, line, left, co, pc, idx>> /\ feed' = feed
      /\ proc[s].held > 0 /\ HasReader(s) /\ Put(s, u)
      /\ proc' = [proc EXCEPT ![s] = [proc[s] EXCEPT !.held = HeldNext(s), !.left = LeftNext(s)]]
  BY <1>0 DEF ProcWrite, body, tasks, thread
<1>2. proc[s].held \in Unit /\ proc[s].held # 0
  BY <1>0, <1>1, PipelineAssumption DEF PipelineAssumption, ProcSet, Unit
<1>3. proc[s].held = Coming(s)
  BY <1>0, <1>1, <1>2 DEF ProcInStep
<1>4. u \in Seq(Unit) /\ Len(u) = 1 /\ \A i \in 1..Len(u) : u[i] = Ahead(Coming(s), i - 1)
  <2>1. proc[s].held + 0 <= Chunk /\ proc[s].held + 0 = proc[s].held /\ 0 \in Nat
    BY <1>2 DEF Unit
  <2>2. Ahead(proc[s].held, 0) = proc[s].held
    BY <1>2, <2>1, AheadWithin
  <2>3. u \in Seq(Unit) /\ Len(u) = 1 /\ u[1] = proc[s].held
    BY <1>2
  <2>4. \A i \in 1..Len(u) : i = 1 /\ i - 1 = 0
    BY <2>3
  <2> QED  BY <1>3, <2>2, <2>3, <2>4
<1> HIDE DEF u
<1>5. /\ PipesInStep' /\ Coming(s)' = Ahead(Coming(s), 1)
      /\ \A q \in 0..N : q # N => want'[q] = want[q]
      /\ \A q \in 0..N : q # s => Coming(q)' = Coming(q)
      /\ \A q \in 0..N : q # N /\ Dry(q) => Dry(q)'
  <2>1. /\ PipesInStep' /\ Coming(s)' = Ahead(Coming(s), Len(u))
        /\ \A q \in 0..N : q # N => want'[q] = want[q]
        /\ \A q \in 0..N : q # s => Coming(q)' = Coming(q)
        /\ \A q \in 0..N : q # N /\ Dry(q) => Dry(q)'
    BY <1>0, <1>1, <1>4, PipesPut DEF StepInv
  <2> QED  BY <1>4, <2>1
<1>6. Ahead(proc[s].held, 1) # 0
  BY <1>2, AheadType DEF Unit
<1>7. proc'[s].held = HeldNext(s) /\ proc'[s].st = proc[s].st
  BY <1>0, <1>1 DEF ProcSet
<1>8. ProcRole(s)' = ProcRole(s) /\ Generates(ProcRole(s))' = Generates(ProcRole(s)')
  BY <1>1 DEF ProcRole, Generates
<1>9. s \in Shells => co'[s] # "done" /\ at'[s] = "wait"
  BY <1>0, <1>1 DEF ProcInStep
<1>10. ProcInStep(s)'
  <2>1. CASE Generates(ProcRole(s))
    <3>1. proc'[s].held = Coming(s)' /\ proc'[s].held # 0
      BY <1>3, <1>5, <1>6, <1>7, <2>1 DEF HeldNext
    <3> QED  BY <1>8, <1>9, <2>1, <3>1 DEF ProcInStep
  <2>2. CASE ~Generates(ProcRole(s))
    <3>1. proc'[s].held = 0
      BY <1>7, <2>2 DEF HeldNext
    <3>2. want[s - 1] = Ahead(Coming(s), 1)
      BY <1>0, <1>1, <1>2, <2>2 DEF ProcInStep
    <3>3. want'[s - 1] = Coming(s)'
      BY <1>0, <1>5, <3>2
    <3> QED  BY <1>8, <1>9, <2>2, <3>1, <3>3 DEF ProcInStep
  <2> QED  BY <2>1, <2>2
<1>11. StageInStep(s)'
  <2>1. ~Writing(s)'
    BY <1>0, <1>1 DEF Writing
  <2>2. Unstarted(s)'
    BY <1>0, <1>1 DEF Unstarted
  <2> QED  BY <1>10, <2>1, <2>2 DEF StageInStep, BodyInStep
<1>12. \A t \in Stage : t # s => proc'[t] = proc[t]
  BY <1>0, <1>1
<1> QED  BY <1>0, <1>1, <1>5, <1>11, <1>12, OthersInStep

\* A command is started: on two pipes nobody has used.
LEMMA SpawnInStep ==
    ASSUME SafetyInv, StepInv, NoNewEnds, Onwards, Spawn
    PROVE  StepInv'
<1>0. idx \in External /\ idx \in Stage /\ idx \notin Shells
  BY PipelineAssumption DEF PipelineAssumption, Spawn, Shells
<1> PICK s \in Stage : s = idx
  BY <1>0
<1>1. /\ UNCHANGED <<role, at, line, left, co>> /\ UNCHANGED pipes
      /\ proc' = [proc EXCEPT ![s] = Start(role[s], s - 1, s)] /\ idx' = s + 1 /\ pc = "build"
  BY DEF Spawn, body, tasks
<1>2. /\ PipesInStep'
      /\ \A q \in 0..N : want'[q] = want[q] /\ Coming(q)' = Coming(q)
      /\ \A q \in 0..N : q # N /\ Dry(q) => Dry(q)'
  BY <1>1, PipesSame DEF StepInv
<1>3. s - 1 \in 0..N /\ s - 1 # N /\ s \in 0..N /\ s \in Int /\ DOMAIN proc = Stage
  BY Bounds DEF SafetyInv, TypeOK, ProcOK
<1>4. want[s - 1] = 1 /\ Coming(s) = 1
  BY <1>0, <1>1, <1>3 DEF StepInv, Unstarted
<1>5. /\ ProcRole(s)' = role[s] /\ Generates(ProcRole(s))' = Generates(role[s])
      /\ proc'[s].held = IF Generates(role[s]) THEN 1 ELSE 0
  BY <1>0, <1>1, <1>3 DEF Start, Generates, ProcRole
<1>6. ProcInStep(s)'
  BY <1>0, <1>2, <1>3, <1>4, <1>5 DEF ProcInStep
<1>7. StageInStep(s)'
  BY <1>0, <1>1, <1>3, <1>6 DEF StageInStep, BodyInStep, Writing, Unstarted
<1>8. \A t \in Stage : t # s => proc'[t] = proc[t]
  BY <1>1, <1>3
<1> QED  BY <1>1, <1>2, <1>7, <1>8, OthersInStep

\* More of the shell's own input arrives.
LEMMA InputInStep ==
    ASSUME SafetyInv, StepInv, NoNewEnds, Onwards, InputArrives
    PROVE  StepInv'
<1> DEFINE k == Ahead(1, Feed - feed)
<1>0. 0 \in 0..N /\ 0 # N /\ buf[0] \in Seq(Unit) /\ want[0] \in Unit /\ DOMAIN buf = 0..N
      /\ Feed \in Nat /\ feed \in Nat /\ 1 \in Unit
  BY Bounds, PipeType, PipelineAssumption DEF PipelineAssumption, SafetyInv, TypeOK, PipesOK, Unit
<1>1. /\ feed > 0 /\ feed' = feed - 1 /\ buf' = [buf EXCEPT ![0] = Append(buf[0], k)]
      /\ UNCHANGED <<role, at, line, left, proc, co, want>>
  BY DEF InputArrives, body, tasks
<1>2. feed <= Feed /\ Coming(0) = k /\ InOrder(0)
  BY <1>0, <1>1 DEF StepInv, PipesInStep
<1>3. Feed - feed \in Nat /\ Feed - feed' = (Feed - feed) + 1 /\ feed' <= Feed
  BY <1>0, <1>1, <1>2
<1>4. k \in Unit
  BY <1>0, <1>3, AheadType
<1>5. /\ Len(buf'[0]) = Len(buf[0]) + 1 /\ Len(buf[0]) \in Nat
      /\ buf'[0][Len(buf[0]) + 1] = k
      /\ \A i \in 1..Len(buf[0]) : buf'[0][i] = buf[0][i]
  BY <1>0, <1>1, <1>4
<1> HIDE DEF k
<1>6. Coming(0)' = Ahead(1, Feed - feed')
  <2>1. Coming(0)' = Ahead(want[0], Len(buf[0]) + 1)
    BY <1>1, <1>5 DEF Coming, Contents
  <2>2. Ahead(want[0], Len(buf[0]) + 1) = Ahead(Ahead(want[0], Len(buf[0])), 1)
    BY <1>0, <1>5, AheadMore
  <2>3. Ahead(want[0], Len(buf[0])) = Ahead(1, Feed - feed)
    BY <1>2 DEF Coming, Contents, k
  <2>4. Ahead(Ahead(1, Feed - feed), 1) = Ahead(1, (Feed - feed) + 1)
    BY <1>0, <1>3, AheadMore
  <2> QED  BY <1>3, <2>1, <2>2, <2>3, <2>4
<1>7. InOrder(0)'
  <2> SUFFICES ASSUME NEW i \in 1..(Len(buf[0]) + 1) PROVE buf'[0][i] = Ahead(want[0], i - 1)
    BY <1>1, <1>5 DEF InOrder, Contents
  <2>1. CASE i = Len(buf[0]) + 1
    <3>1. i - 1 = Len(buf[0])
      BY <1>5, <2>1
    <3> QED  BY <1>2, <1>5, <2>1, <3>1 DEF Coming, Contents
  <2>2. CASE i # Len(buf[0]) + 1
    <3>1. i \in 1..Len(buf[0])
      BY <1>5, <2>2
    <3> QED  BY <1>2, <1>5, <3>1 DEF InOrder, Contents
  <2> QED  BY <2>1, <2>2
<1>8. \A q \in 0..N : q # 0 => buf'[q] = buf[q] /\ Coming(q)' = Coming(q)
  BY <1>0, <1>1 DEF Coming, Contents
<1>9. PipesInStep'
  <2>1. \A q \in 0..N : InOrder(q)'
    BY <1>1, <1>7, <1>8 DEF StepInv, PipesInStep, InOrder, Contents
  <2>2. Terminal = "file" => buf'[N] = <<>>
    BY <1>0, <1>8, Bounds DEF StepInv, PipesInStep
  <2> QED  BY <1>3, <1>6, <2>1, <2>2 DEF PipesInStep
<1>10. \A q \in 0..N : q # N /\ Dry(q) => Dry(q)'
  <2> SUFFICES ASSUME NEW q \in 0..N, q # N, Dry(q) PROVE Dry(q)'
    OBVIOUS
  <2>1. q # 0
    BY <1>1 DEF Dry, HasWriter
  <2> QED  BY <1>8, <2>1, DryStays DEF Dry
<1>11. ASSUME NEW t \in Stage PROVE Unmoved(t)
  <2>1. t - 1 \in 0..N /\ t - 1 # N /\ t \in 0..N /\ t # 0
    BY Bounds
  <2> QED  BY <1>1, <1>8, <1>10, <2>1 DEF Unmoved
<1>12. \A t \in Stage : StageInStep(t)'
  BY <1>11, UnmovedInStep DEF StepInv, StageInStep
<1> QED  BY <1>9, <1>12 DEF StepInv, StageInStep

-----------------------------------------------------------------------------
(* The theorems.                                                            *)

LEMMA InitInStep == Init => StepInv
<1> SUFFICES ASSUME Init PROVE StepInv
  OBVIOUS
<1>0. N \in Int /\ Feed \in Nat /\ 1 \in Unit /\ N > 0 /\ Chunk \in Nat /\ Chunk >= 1
  BY Bounds, PipelineAssumption DEF PipelineAssumption, Unit
<1>1. /\ \A p \in 0..N : want[p] = 1
      /\ \A p \in 0..N : p # 0 \/ Terminal = "slow" => buf[p] = <<>>
      /\ Terminal # "slow" => buf[0] = [i \in 1..Feed |-> Ahead(1, i - 1)]
      /\ feed = IF Terminal = "slow" THEN Feed ELSE 0
  BY <1>0 DEF Init
<1>2. Ahead(1, 0) = 1 /\ 0 \in Nat /\ Feed - Feed = 0
  <2>1. 1 + 0 <= Chunk /\ 0 \in Nat /\ 1 + 0 = 1
    BY <1>0
  <2> QED  BY <1>0, <2>1, AheadWithin
<1>3. \A p \in 0..N : buf[p] = <<>> => Coming(p) = 1 /\ InOrder(p)
  BY <1>1, <1>2 DEF Coming, InOrder, Contents
<1>4. PipesInStep
  <2>1. Terminal # "slow" => InOrder(0)
    <3> SUFFICES ASSUME Terminal # "slow" PROVE InOrder(0)
      OBVIOUS
    <3>1. buf[0] \in Seq(Unit)
      BY <1>0, InitType, PipeType DEF TypeOK
    <3>2. Len(buf[0]) = Feed
      BY <1>0, <1>1, <3>1
    <3>3. \A i \in 1..Feed : buf[0][i] = Ahead(1, i - 1)
      BY <1>1
    <3> QED  BY <1>0, <1>1, <3>2, <3>3 DEF InOrder, Contents
  <2>2. \A p \in 0..N : InOrder(p)
    BY <1>1, <1>3, <2>1
  <2>3. feed <= Feed /\ (feed > 0 => Coming(0) = Ahead(1, Feed - feed))
    BY <1>0, <1>1, <1>2, <1>3
  <2> QED  BY <1>0, <1>1, <2>2, <2>3 DEF PipesInStep
<1>5. ASSUME NEW s \in Stage PROVE BodyInStep(s) /\ ProcInStep(s) /\ Unstarted(s)
  <2>1. s - 1 \in 0..N /\ s \in 0..N /\ s # 0
    BY Bounds
  <2>2. want[s - 1] = 1 /\ Coming(s) = 1
    BY <1>1, <1>3, <2>1
  <2>3. at[s] = "stmt" /\ line[s] = 0 /\ ~Alive(s)
    BY DEF Init, NoProc, Alive
  <2> QED  BY <2>2, <2>3 DEF BodyInStep, ProcInStep, Unstarted
<1> QED  BY <1>4, <1>5 DEF StepInv

LEMMA NextInStep == SafetyInv /\ StepInv /\ [Next]_vars => StepInv'
<1> SUFFICES ASSUME SafetyInv, StepInv, [Next]_vars PROVE StepInv'
  OBVIOUS
<1>1. NoNewEnds /\ Onwards
  BY NextEnds, NextOnwards
<1>2. ASSUME NEW s \in Shells, Body(s) PROVE StepInv'
  BY <1>1, <1>2, BodyStill, StillKeeps, NextStatementInStep, ReadUnitInStep, ReadEofInStep,
     WriteSomeInStep, WriteBrokenInStep, WriteGridInStep, SpawnChildInStep DEF Body
<1>3. ASSUME NEW s \in Stage, Process(s) PROVE StepInv'
  BY <1>1, <1>3, ProcStill, StillKeeps, ProcReadInStep, ProcWriteInStep DEF Process
<1>4. CASE Spawn
  BY <1>1, <1>4, SpawnInStep
<1>5. CASE InputArrives
  BY <1>1, <1>5, InputInStep
<1>6. CASE \/ Connect \/ BuildFails \/ EnterRun \/ Skip \/ Resume \/ EndPass \/ Wake
           \/ Reap \/ ReapDrain \/ Return \/ OutputTaken \/ UNCHANGED vars
  BY <1>1, <1>6, ThreadStill, StillKeeps
<1> QED  BY <1>2, <1>3, <1>4, <1>5, <1>6 DEF Next, Thread, Returned

\* Every pipe, body and process is in step with its neighbours.
THEOREM StepInvHolds == Spec => []StepInv
<1>1. Init => SafetyInv /\ StepInv
  BY InitSafe, InitInStep
<1>2. (SafetyInv /\ StepInv) /\ [Next]_vars => (SafetyInv /\ StepInv)'
  BY NextSafe, NextInStep
<1> QED  BY <1>1, <1>2, PTL DEF Spec

LEMMA InStepFollows == StepInv => InStep
<1> SUFFICES ASSUME StepInv PROVE InStep
  OBVIOUS
<1>1. ASSUME NEW s \in Shells, co[s] # "done", at[s] = "read" PROVE line[s] + 1 = want[s - 1]
  <2>1. BodyInStep(s) /\ Writing(s)
    BY <1>1 DEF StepInv, Shells, Writing
  <2> QED  BY <1>1, <2>1 DEF BodyInStep
<1>2. ASSUME NEW s \in Shells, Writing(s), at[s] = "write", HasReader(s)
      PROVE  line[s] + 1 = Ahead(want[s], Contents(s))
  BY <1>2 DEF StepInv, Shells, BodyInStep, Coming
<1>3. \A p \in 0..N : InOrder(p)
  BY DEF StepInv, PipesInStep
<1> QED  BY <1>1, <1>2, <1>3 DEF InStep

\* No unit of a line is lost, doubled or sent down another stage's pipe.
THEOREM UnitsInStep == Spec => []InStep
<1> QED  BY StepInvHolds, InStepFollows, PTL

-----------------------------------------------------------------------------
(* What else the steps keep, that the network of stages needs.              *)

\* The stages are begun from left to right, a shell stage with its first turn.
BegunInOrder ==
    /\ pc = "build" => /\ \A s \in Shells : co[s] \in {"none", "fresh"}
                       /\ \A s \in External : proc[s].st = "none" <=> idx <= s
    /\ pc \notin {"build", "returned"} => \A s \in External : proc[s].st # "none"
    /\ \A s \in Shells : co[s] \in {"none", "fresh"} => at[s] = "stmt"
    /\ \A s \in Stage : proc[s].st = "none" => proc[s].code = 0

\* A status is set when its stage ends, and the thread waits for all of them.
EndedOnce ==
    /\ \A s \in Shells : co[s] # "done" => status[s] = 0
    /\ pc = "reap" => IsIdle /\ \A s \in External : s < idx => ~Alive(s) /\ status[s] = proc[s].code
    /\ pc = "returned" => \A s \in Stage : ~Alive(s)

\* What fd 0 keeps open is a pipe that a stage still has.
InputHeld == fd0 # 0 => fd0 + 1 \in Stage /\ HoldsPair(fd0 + 1)

\* A stage that reads to the end has met it before it has nothing left to do.
InRole(s) ==
    /\ role[s] \in Roles[s]
    /\ Alive(s) /\ ProcRole(s) \in {"copy", "endless"} => proc[s].left > 0
    /\ s \in Shells =>
        /\ role[s] \in {"copy", "drain"} /\ left[s] = 0 => Dry(s - 1)
        /\ role[s] = "endless" => left[s] > 0 /\ at[s] \in {"stmt", "write"}
        /\ at[s] = "wait" => /\ role[s] = "group"
                             /\ ~Alive(s) => \/ proc[s].code = 141
                                             \/ proc[s].code = 0 /\ Dry(s - 1)

Places == BegunInOrder /\ EndedOnce /\ InputHeld
NetInv == Places /\ \A s \in Stage : InRole(s)

LEMMA ProcessStages ==
    ASSUME NEW s \in External
    PROVE  s \in Stage /\ s \notin Shells /\ s \in Int /\ 1 <= s /\ s <= N /\ ~(s < 1) /\ ~(N + 1 <= s)
<1>1. s \in Stage
  BY PipelineAssumption DEF PipelineAssumption
<1>2. s \in Int /\ 1 <= s /\ s <= N /\ N \in Nat
  BY <1>1, Bounds DEF Stage
<1> QED  BY <1>1, <1>2 DEF Shells

LEMMA InitPlaces ==
    ASSUME Init
    PROVE  NetInv
<1> USE PipelineAssumption DEF PipelineAssumption
<1>1. /\ pc = "build" /\ idx = 1 /\ fd0 = 0
      /\ \A s \in Stage : /\ co[s] = "none" /\ at[s] = "stmt" /\ status[s] = 0
                          /\ left[s] = Lines(role[s]) /\ proc[s] = NoProc /\ role[s] \in Roles[s]
  BY DEF Init
<1>2. \A s \in Stage : s \in Int /\ 1 <= s
  BY DEF Stage
<1>3. NoProc.st = "none" /\ NoProc.code = 0
  BY DEF NoProc
<1>4. Places
  BY <1>1, <1>2, <1>3 DEF Places, BegunInOrder, EndedOnce, InputHeld, Shells
<1>5. \A s \in Stage : InRole(s)
  BY <1>1, <1>3 DEF InRole, Lines, Alive
<1> QED  BY <1>4, <1>5 DEF NetInv

\* What a process does that is not a start of a command: it goes on, or ends,
\* or is a stage's child.
ProcGoesOn(t) ==
    \/ proc'[t] = proc[t]
    \/ Alive(t) /\ proc'[t].st \in {"alive", "dead"}
    \/ t \in Shells /\ pc = "run" /\ proc'[t].st = "alive"

LEMMA PlacesKept ==
    ASSUME Places, UNCHANGED <<pc, idx, co, fd0, status>>,
           \A t \in Shells : co[t] \in {"none", "fresh"} => at'[t] = at[t],
           \A t \in Stage : ProcGoesOn(t)
    PROVE  Places'
<1> USE PipelineAssumption DEF PipelineAssumption
<1>1. BegunInOrder'
  <2>1. \A t \in External : proc'[t].st = "none" <=> proc[t].st = "none"
    BY DEF ProcGoesOn, Shells, Alive
  <2>2. \A t \in Stage : proc'[t].st = "none" => proc'[t] = proc[t]
    BY DEF ProcGoesOn
  <2> QED  BY <2>1, <2>2 DEF Places, BegunInOrder
<1>2. EndedOnce'
  <2>1. \A t \in External : ~Alive(t) => proc'[t] = proc[t]
    BY DEF ProcGoesOn, Shells
  <2>2. pc = "returned" => \A t \in Stage : ~Alive(t) => proc'[t] = proc[t]
    BY DEF ProcGoesOn
  <2> QED  BY <2>1, <2>2 DEF Places, EndedOnce, IsIdle, Live, Alive
<1>3. InputHeld'
  BY DEF Places, InputHeld, HoldsPair
<1> QED  BY <1>1, <1>2, <1>3 DEF Places

LEMMA YieldPlaces ==
    ASSUME SafetyInv, Places, pc = "run", NEW why, Yield(why), UNCHANGED <<status, proc>>,
           \A t \in Stage : t # idx => at'[t] = at[t]
    PROVE  Places'
<1>0. idx \in Shells /\ idx \in Stage /\ co[idx] = "running" /\ fd0 = idx - 1 /\ idx - 1 + 1 = idx
  <2>1. idx \in Shells /\ idx \in Stage /\ co[idx] = "running" /\ fd0 = idx - 1
    BY DEF SafetyInv, OnItsOwnPipes, Shells
  <2> QED  BY <2>1, Bounds
<1>1. co' = [co EXCEPT ![idx] = "suspended"] /\ DOMAIN co = Stage /\ pc' = "pass" /\ fd0' = fd0
  BY DEF Yield, SafetyInv, TypeOK, TasksOK, fds
<1>2. co'[idx] = "suspended" /\ \A t \in Stage : t # idx => co'[t] = co[t]
  BY <1>0, <1>1
<1>3. BegunInOrder'
  BY <1>0, <1>1, <1>2 DEF Places, BegunInOrder, Shells
<1>4. EndedOnce'
  BY <1>0, <1>1, <1>2 DEF Places, EndedOnce, Shells
<1>5. InputHeld'
  BY <1>0, <1>1, <1>2 DEF InputHeld, HoldsPair
<1> QED  BY <1>3, <1>4, <1>5 DEF Places

LEMMA LetGoPlaces ==
    ASSUME SafetyInv, Places, pc = "run", NEW saw, LetGo(saw), UNCHANGED <<at, proc>>,
           \A t \in Stage : t # idx => status'[t] = status[t]
    PROVE  Places'
<1>0. idx \in Shells /\ idx \in Stage
  BY DEF SafetyInv, OnItsOwnPipes, Shells
<1>1. co' = [co EXCEPT ![idx] = "done"] /\ DOMAIN co = Stage /\ pc' = "pass" /\ fd0' = 0
  BY DEF LetGo, InstallShellFds, SafetyInv, TypeOK, TasksOK
<1>2. co'[idx] = "done" /\ \A t \in Stage : t # idx => co'[t] = co[t]
  BY <1>0, <1>1
<1>3. BegunInOrder'
  BY <1>0, <1>1, <1>2 DEF Places, BegunInOrder, Shells
<1>4. EndedOnce'
  BY <1>0, <1>1, <1>2 DEF Places, EndedOnce, Shells
<1>5. InputHeld'
  BY <1>1 DEF InputHeld
<1> QED  BY <1>3, <1>4, <1>5 DEF Places

LEMMA BodyPlaces ==
    ASSUME SafetyInv, StepInv, Places, NEW s \in Shells, Body(s)
    PROVE  Places'
<1>0. /\ s \in Stage /\ idx = s /\ pc = "run" /\ co[s] = "running" /\ DOMAIN at = Stage
      /\ DOMAIN proc = Stage /\ DOMAIN status = Stage
  BY Turn DEF SafetyInv, TypeOK, ProcOK
<1>1. CASE \/ NextStatement(s) \/ ReadUnit(s) \/ ReadEof(s) \/ WriteBroken(s) \/ WriteGrid(s)
           \/ WriteSome(s) /\ UNCHANGED <<thread, tasks, watches, fds, at, left>>
           \/ WriteFull(s) /\ UNCHANGED <<thread, tasks, watches, fds>>
  <2>1. UNCHANGED <<pc, idx, co, fd0, status, proc>>
    BY <1>1 DEF NextStatement, ReadUnit, ReadEof, WriteBroken, WriteGrid, WriteSome, WriteFull, thread,
                tasks, fds
  <2>2. \A t \in Shells : t # s => at'[t] = at[t]
    BY <1>0, <1>1 DEF NextStatement, ReadUnit, ReadEof, WriteBroken, WriteGrid, WriteSome, WriteFull,
                Goto, Shells, body
  <2> QED  BY <1>0, <2>1, <2>2, PlacesKept DEF ProcGoesOn
<1>2. CASE \/ ParkReading(s) \/ WaitChild(s)
           \/ WriteSome(s) /\ Yield("ready")
           \/ WriteFull(s) /\ Yield("writable")
  <2>1. (\E why : Yield(why)) /\ UNCHANGED <<status, proc>>
    BY <1>2 DEF ParkReading, WaitChild, WriteSome, WriteFull
  <2>2. \A t \in Stage : t # s => at'[t] = at[t]
    BY <1>0, <1>2 DEF ParkReading, WaitChild, WriteSome, WriteFull, Goto, body
  <2> QED  BY <1>0, <2>1, <2>2, YieldPlaces
<1>3. CASE StopBroken(s) \/ Finish(s) \/ Panic(s) \/ ChildDone(s)
  <2>1. (\E saw : LetGo(saw)) /\ UNCHANGED <<at, proc>>
    BY <1>3 DEF StopBroken, Finish, Panic, ChildDone, body
  <2>2. \A t \in Stage : t # s => status'[t] = status[t]
    BY <1>0, <1>3 DEF StopBroken, Finish, Panic, ChildDone
  <2> QED  BY <1>0, <2>1, <2>2, LetGoPlaces
<1>4. CASE SpawnChild(s)
  <2>1. /\ UNCHANGED <<pc, idx, co, fd0, status>>
        /\ proc' = [proc EXCEPT ![s] = Start("copy", fd0, fd1)] /\ at' = [at EXCEPT ![s] = "wait"]
    BY <1>4 DEF SpawnChild, Goto, thread, tasks, fds
  <2>2. \A t \in Stage : ProcGoesOn(t)
    BY <1>0, <2>1 DEF ProcGoesOn, Start
  <2> QED  BY <1>0, <2>1, <2>2, PlacesKept
<1>5. WriteSome(s) => Yield("ready") \/ UNCHANGED <<thread, tasks, watches, fds, at, left>>
  BY DEF WriteSome
<1>6. WriteFull(s) => Yield("writable") \/ UNCHANGED <<thread, tasks, watches, fds>>
  BY DEF WriteFull
<1> QED  BY <1>1, <1>2, <1>3, <1>4, <1>5, <1>6 DEF Body

LEMMA ProcessPlaces ==
    ASSUME SafetyInv, Places, NEW s \in Stage, Process(s)
    PROVE  Places'
<1>0. Alive(s) /\ UNCHANGED <<pc, idx, co, fd0, status, at>>
  BY DEF Process, ProcRead, ProcEof, ProcWrite, ProcBroken, ProcExit, thread, tasks, fds, body
<1>1. DOMAIN proc = Stage /\ proc[s] \in ProcSet
  BY DEF SafetyInv, TypeOK, ProcOK
<1>2. \A t \in Stage : t # s => proc'[t] = proc[t]
  BY <1>1 DEF Process, ProcRead, ProcEof, ProcWrite, ProcBroken, ProcExit, ProcDies
<1>3. proc'[s].st \in {"alive", "dead"}
  <2>1. CASE ProcRead(s) \/ ProcWrite(s)
    <3>1. \/ proc'[s] = [proc[s] EXCEPT !.held = Head(buf[proc[s].in])]
          \/ proc'[s] = [proc[s] EXCEPT !.held = HeldNext(s), !.left = LeftNext(s)]
      BY <1>1, <2>1 DEF ProcRead, ProcWrite
    <3> QED  BY <1>0, <1>1, <3>1 DEF ProcSet, Alive
  <2>2. CASE ProcEof(s) \/ ProcBroken(s) \/ ProcExit(s)
    <3>1. \E code : proc'[s] = [proc[s] EXCEPT !.st = "dead", !.code = code]
      BY <1>1, <2>2 DEF ProcEof, ProcBroken, ProcExit, ProcDies
    <3> QED  BY <1>1, <3>1 DEF ProcSet
  <2> QED  BY <2>1, <2>2 DEF Process
<1> QED  BY <1>0, <1>2, <1>3, PlacesKept DEF ProcGoesOn

LEMMA BuildPlaces ==
    ASSUME SafetyInv, Places, Connect \/ Spawn \/ BuildFails \/ EnterRun
    PROVE  Places'
<1>0. /\ pc = "build" /\ fd0 = 0 /\ idx \in Int /\ DOMAIN co = Stage /\ DOMAIN proc = Stage
      /\ \A t \in Shells : co[t] # "done" /\ t \in Stage
  <2>1. pc = "build"
    BY DEF Connect, Spawn, BuildFails, EnterRun
  <2>2. idx \in Int /\ DOMAIN co = Stage /\ DOMAIN proc = Stage
    BY Bounds DEF SafetyInv, TypeOK, ThreadOK, TasksOK, ProcOK
  <2> QED  BY <2>1, <2>2 DEF SafetyInv, OnItsOwnPipes, Shells
<1>1. /\ \A s \in Shells : co[s] \in {"none", "fresh"} /\ at[s] = "stmt" /\ status[s] = 0
      /\ \A s \in External : (proc[s].st = "none" <=> idx <= s) /\ s \in Stage /\ s \in Int
      /\ \A s \in Stage : proc[s].st = "none" => proc[s].code = 0
  BY <1>0, Bounds, PipelineAssumption DEF PipelineAssumption, Places, BegunInOrder, EndedOnce
<1>2. CASE Connect
  <2>1. /\ pc' = pc /\ idx' = idx + 1 /\ idx \in Shells /\ UNCHANGED <<fd0, status, proc, at>>
        /\ co' = [co EXCEPT ![idx] = "fresh"]
    BY <1>2 DEF Connect, fds, body
  <2>2. \A s \in Shells : co'[s] \in {"none", "fresh"}
    BY <1>0, <1>1, <2>1
  <2>3. \A s \in External : idx <= s <=> idx' <= s
    BY <1>0, <1>1, <2>1 DEF Shells
  <2> QED  BY <1>0, <1>1, <2>1, <2>2, <2>3 DEF Places, BegunInOrder, EndedOnce, InputHeld
<1>3. CASE Spawn
  <2>1. /\ pc' = pc /\ idx' = idx + 1 /\ idx \in External /\ UNCHANGED <<fd0, status, co, at>>
        /\ proc' = [proc EXCEPT ![idx] = Start(role[idx], idx - 1, idx)]
    BY <1>3 DEF Spawn, fds, body, tasks
  <2>2. \A s \in External : proc'[s].st = "none" <=> idx' <= s
    BY <1>0, <1>1, <2>1 DEF Start
  <2>3. \A s \in Stage : proc'[s].st = "none" => proc'[s].code = 0
    BY <1>0, <1>1, <2>1 DEF Start
  <2> QED  BY <1>0, <1>1, <2>1, <2>2, <2>3 DEF Places, BegunInOrder, EndedOnce, InputHeld
<1>4. CASE BuildFails
  <2>1. pc' = "returned" /\ UNCHANGED <<fd0, status, co, at>>
    BY <1>4 DEF BuildFails, fds, body, tasks
  <2>2. \A s \in Stage : proc'[s].st = "none" => proc'[s].code = 0
    <3>1. \A s \in Stage : proc'[s] = IF Alive(s) THEN [proc[s] EXCEPT !.st = "dead", !.code = 137] ELSE proc[s]
      BY <1>4 DEF BuildFails
    <3>2. \A s \in Stage : proc[s] \in ProcSet
      BY DEF SafetyInv, TypeOK, ProcOK
    <3>3. \A r \in ProcSet : [r EXCEPT !.st = "dead", !.code = 137].st = "dead"
      BY DEF ProcSet
    <3> QED  BY <1>1, <3>1, <3>2, <3>3
  <2>3. \A s \in Stage : ~Alive(s)'
    <3>1. \A s \in Stage : proc'[s] = IF Alive(s) THEN [proc[s] EXCEPT !.st = "dead", !.code = 137] ELSE proc[s]
      BY <1>4 DEF BuildFails
    <3>2. \A s \in Stage : proc[s] \in ProcSet
      BY DEF SafetyInv, TypeOK, ProcOK
    <3>3. \A r \in ProcSet : [r EXCEPT !.st = "dead", !.code = 137].st = "dead"
      BY DEF ProcSet
    <3> QED  BY <3>1, <3>2, <3>3 DEF Alive
  <2> QED  BY <1>0, <1>1, <2>1, <2>2, <2>3 DEF Places, BegunInOrder, EndedOnce, InputHeld
<1>5. CASE EnterRun
  <2>1. pc' = "pass" /\ idx = N + 1 /\ UNCHANGED <<fd0, status, co, at, proc>>
    BY <1>5 DEF EnterRun, fds, body, tasks
  <2>2. \A s \in External : proc[s].st # "none"
    <3>1. \A s \in External : s \in Int /\ s <= N /\ ~(N + 1 <= s)
      BY ProcessStages
    <3> QED  BY <1>0, <1>1, <2>1, <3>1
  <2> QED  BY <1>0, <1>1, <2>1, <2>2 DEF Places, BegunInOrder, EndedOnce, InputHeld
<1> QED  BY <1>2, <1>3, <1>4, <1>5

LEMMA PassPlaces ==
    ASSUME SafetyInv, Places, Skip \/ Resume \/ EndPass \/ Wake
    PROVE  Places'
<1>0. /\ pc \in {"pass", "sleep"} /\ UNCHANGED <<status, at, proc>> /\ DOMAIN co = Stage
      /\ pc' \in {"pass", "sleep", "run", "reap"}
  BY DEF Skip, Resume, EndPass, Wake, body, SafetyInv, TypeOK, TasksOK
<1>1. CASE Resume
  <2>1. /\ idx \in Shells /\ idx \in Stage /\ pc' = "run" /\ co[idx] # "done" /\ fd0' = idx - 1
        /\ co' = [co EXCEPT ![idx] = "running"] /\ idx - 1 + 1 = idx
    BY <1>1, Bounds DEF Resume, Live, InstallFds, Shells
  <2>2. \A s \in Stage : s # idx => co'[s] = co[s]
    BY <1>0, <2>1
  <2>3. co'[idx] = "running"
    BY <1>0, <2>1
  <2>4. BegunInOrder'
    BY <1>0, <2>1, <2>2, <2>3 DEF Places, BegunInOrder, Shells
  <2>5. EndedOnce'
    BY <1>0, <2>1, <2>2, <2>3 DEF Places, EndedOnce, Shells
  <2>6. InputHeld'
    BY <2>1, <2>3 DEF InputHeld, HoldsPair
  <2> QED  BY <2>4, <2>5, <2>6 DEF Places
<1>2. CASE Skip \/ EndPass \/ Wake
  <2>1. /\ co' = co
        /\ pc' = "reap" => IsIdle /\ fd0' = 0 /\ idx' = 1
        /\ pc' # "reap" => fd0' = fd0
    BY <1>0, <1>2 DEF Skip, EndPass, Wake, tasks, fds, InstallShellFds
  <2>2. BegunInOrder'
    BY <1>0, <2>1 DEF Places, BegunInOrder
  <2>3. EndedOnce'
    <3>1. \A s \in External : s \in Int /\ ~(s < 1)
      BY ProcessStages
    <3> QED  BY <1>0, <2>1, <3>1 DEF Places, EndedOnce, IsIdle, Live
  <2>4. InputHeld'
    BY <1>0, <2>1 DEF Places, InputHeld, HoldsPair
  <2> QED  BY <2>2, <2>3, <2>4 DEF Places
<1> QED  BY <1>1, <1>2

LEMMA ReapPlaces ==
    ASSUME SafetyInv, StepInv, Places, Reap \/ Return
    PROVE  Places'
<1>0. /\ pc = "reap" /\ UNCHANGED <<at, proc, co, fd0>> /\ DOMAIN status = Stage
      /\ IsIdle /\ idx \in Int
  BY Bounds DEF Reap, Return, body, tasks, fds, Places, EndedOnce, SafetyInv, TypeOK, ProcOK, ThreadOK
<1>1. fd0 = 0
  <2>1. \A s \in Stage : ~HoldsPair(s)
    BY <1>0 DEF IsIdle, Live, HoldsPair
  <2> QED  BY <2>1 DEF Places, InputHeld
<1>2. BegunInOrder' /\ InputHeld'
  BY <1>0, <1>1 DEF Reap, Return, Places, BegunInOrder, InputHeld
<1>3. EndedOnce'
  <2>1. CASE Reap
    <3>1. /\ idx \in Stage /\ idx' = idx + 1 /\ pc' = pc /\ (idx \in External => ~Alive(idx))
          /\ status' = [status EXCEPT ![idx] = IF idx \in External THEN proc[idx].code ELSE status[idx]]
      BY <2>1 DEF Reap
    <3>2. \A s \in Shells : status'[s] = status[s]
      BY <1>0, <3>1 DEF Shells
    <3>3. \A s \in External : s < idx' => ~Alive(s) /\ status'[s] = proc[s].code
      <4>1. ASSUME NEW s \in External, s < idx' PROVE ~Alive(s) /\ status'[s] = proc[s].code
        <5>1. s \in Stage /\ s \in Int
          BY Bounds, PipelineAssumption DEF PipelineAssumption
        <5>2. CASE s = idx
          BY <1>0, <3>1, <4>1, <5>1, <5>2
        <5>3. CASE s # idx
          BY <1>0, <3>1, <4>1, <5>1, <5>3 DEF Places, EndedOnce
        <5> QED  BY <5>2, <5>3
      <4> QED  BY <4>1
    <3> QED  BY <1>0, <3>1, <3>2, <3>3 DEF Places, EndedOnce, IsIdle, Live, Alive
  <2>2. CASE Return
    <3>1. \A s \in Shells : ~Alive(s)
      BY <1>0 DEF IsIdle, Live, Shells, StepInv, ProcInStep
    <3>2. \A s \in External : ~Alive(s)
      BY <1>0, <2>2, ProcessStages DEF Return, Places, EndedOnce
    <3>3. \A s \in Stage : ~Alive(s)'
      BY <1>0, <3>1, <3>2 DEF Shells, Alive
    <3> QED  BY <1>0, <2>2, <3>3 DEF Return, Places, EndedOnce
  <2> QED  BY <2>1, <2>2
<1> QED  BY <1>2, <1>3 DEF Places

LEMMA NextPlaces ==
    ASSUME SafetyInv, StepInv, Places, [Next]_vars
    PROVE  Places'
<1>1. CASE ReapDrain \/ InputArrives \/ OutputTaken \/ UNCHANGED vars
  <2>1. UNCHANGED <<pc, idx, co, fd0, status, at, proc>>
    BY <1>1 DEF ReapDrain, InputArrives, OutputTaken, vars, thread, tasks, fds, body
  <2> QED  BY <2>1, PlacesKept DEF ProcGoesOn
<1> QED  BY <1>1, BodyPlaces, ProcessPlaces, BuildPlaces, PassPlaces, ReapPlaces DEF Next, Thread, Returned
-----------------------------------------------------------------------------

\* The end of the input of a stage is final.
LEMMA DryKept ==
    ASSUME SafetyInv, StepInv, [Next]_vars
    PROVE  \A q \in 0..N : q # N /\ Dry(q) => Dry(q)'
<1> SUFFICES ASSUME NEW q \in 0..N, q # N, Dry(q) PROVE buf'[q] = <<>>
  BY NextEnds, DryStays
<1>0. buf[q] = <<>> /\ ~HasWriter(q) /\ N \in 0..N /\ DOMAIN buf = 0..N
  BY Bounds DEF Dry, SafetyInv, TypeOK, PipesOK
<1>1. CASE buf' = buf
  BY <1>0, <1>1
<1>2. ASSUME NEW p \in 0..N, NEW n, Take(p, n), p # q PROVE buf'[q] = <<>>
  BY <1>0, <1>2 DEF Take
<1>3. ASSUME NEW p \in 0..N, NEW u, Put(p, u), HasWriter(p) PROVE buf'[q] = <<>>
  <2>1. p # q
    BY <1>0, <1>3
  <2> QED  BY <1>0, <1>3, <2>1 DEF Put
<1>4. CASE Drain
  BY <1>0, <1>1, <1>2, <1>4 DEF Drain
<1>5. ASSUME NEW s \in Shells, Body(s) PROVE buf'[q] = <<>>
  <2>1. fd0 = s - 1 /\ s - 1 \in 0..N /\ fd1 = s /\ s \in 0..N /\ HasWriter(s)
    BY <1>5, Turn
  <2>2. CASE ReadUnit(s)
    BY <1>0, <1>2, <2>1, <2>2 DEF ReadUnit
  <2>3. CASE WriteSome(s)
    BY <1>3, <2>1, <2>3 DEF WriteSome
  <2>4. CASE WriteFull(s) \/ WriteGrid(s)
    BY <1>1, <1>4, <2>4 DEF WriteFull, WriteGrid
  <2>5. CASE \/ StopBroken(s) \/ NextStatement(s) \/ Finish(s) \/ Panic(s) \/ ReadEof(s)
             \/ ParkReading(s) \/ WriteBroken(s) \/ SpawnChild(s) \/ WaitChild(s) \/ ChildDone(s)
    BY <1>1, <2>5 DEF StopBroken, NextStatement, Finish, Panic, ReadEof, ParkReading, WriteBroken,
       SpawnChild, WaitChild, ChildDone, pipes
  <2> QED  BY <1>5, <2>2, <2>3, <2>4, <2>5 DEF Body
<1>6. ASSUME NEW s \in Stage, Process(s) PROVE buf'[q] = <<>>
  <2>1. Alive(s)
    BY <1>6 DEF Process, ProcRead, ProcEof, ProcWrite, ProcBroken, ProcExit
  <2>2. /\ proc[s].in = s - 1 /\ s - 1 \in 0..N /\ proc[s].out = s /\ s \in 0..N /\ HasWriter(s)
    BY <2>1, Works
  <2>3. CASE ProcRead(s)
    BY <1>0, <1>2, <2>2, <2>3 DEF ProcRead
  <2>4. CASE ProcWrite(s)
    BY <1>3, <2>2, <2>4 DEF ProcWrite
  <2>5. CASE ProcEof(s) \/ ProcBroken(s) \/ ProcExit(s)
    BY <1>1, <2>5 DEF ProcEof, ProcBroken, ProcExit, pipes
  <2> QED  BY <1>6, <2>3, <2>4, <2>5 DEF Process
<1>7. CASE InputArrives
  <2>1. HasWriter(0) /\ 0 \in 0..N
    BY <1>7, Bounds DEF InputArrives, HasWriter
  <2> QED  BY <1>0, <1>7, <2>1 DEF InputArrives
<1>8. CASE EndPass \/ ReapDrain \/ Return
  BY <1>1, <1>4, <1>8 DEF EndPass, ReapDrain, Return
<1>9. CASE OutputTaken
  BY <1>0, <1>2, <1>9 DEF OutputTaken
<1>10. CASE \/ Connect \/ Spawn \/ BuildFails \/ EnterRun \/ Skip \/ Resume \/ Wake \/ Reap
            \/ Returned \/ UNCHANGED vars
  BY <1>1, <1>10 DEF Connect, Spawn, BuildFails, EnterRun, Skip, Resume, Wake, Reap, Returned, vars, pipes
<1> QED  BY <1>5, <1>6, <1>7, <1>8, <1>9, <1>10 DEF Next, Thread

\* A stage that does not move keeps to its role.
LEMMA RoleKept ==
    ASSUME NEW t \in Stage, InRole(t), role' = role, at'[t] = at[t], left'[t] = left[t],
           proc'[t] = proc[t], Dry(t - 1) => Dry(t - 1)'
    PROVE  InRole(t)'
<1>1. ProcRole(t)' = ProcRole(t) /\ (Alive(t)' <=> Alive(t))
  BY DEF ProcRole, Alive
<1> QED  BY <1>1 DEF InRole

LEMMA BodyRole ==
    ASSUME SafetyInv, StepInv, NEW s \in Shells, Body(s),
           \A t \in Stage : InRole(t),
           \A q \in 0..N : q # N /\ Dry(q) => Dry(q)'
    PROVE  \A t \in Stage : InRole(t)'
<1>0. /\ s \in Stage /\ s \notin External /\ idx = s /\ fd0 = s - 1 /\ fd1 = s
      /\ DOMAIN at = Stage /\ DOMAIN left = Stage /\ DOMAIN proc = Stage
      /\ left[s] \in Nat
      /\ InRole(s) /\ (at[s] # "wait" => ~Alive(s)) /\ at[s] \in {"stmt", "read", "echo", "write", "wait"}
      /\ Quota \in Nat \ {0} /\ (Dry(s - 1) => Dry(s - 1)')
      /\ (at[s] \in {"read", "echo", "write"} => left[s] > 0)
  <2>1. at[s] # "wait" => ~Alive(s)
    BY DEF StepInv, ProcInStep, Shells
  <2>2. DOMAIN proc = Stage /\ at[s] \in {"stmt", "read", "echo", "write", "wait"}
        /\ (at[s] \in {"read", "echo", "write"} => left[s] > 0)
    BY DEF SafetyInv, TypeOK, ProcOK, BodyOK, Shells
  <2> QED  BY <2>1, <2>2, Turn, PipelineAssumption DEF PipelineAssumption, Shells
<1>1. role' = role
  BY DEF Body, StopBroken, NextStatement, Finish, Panic, ReadUnit, ReadEof, ParkReading,
         WriteSome, WriteBroken, WriteFull, WriteGrid, SpawnChild, WaitChild, ChildDone
<1>2. ASSUME NEW t \in Stage, t # s PROVE InRole(t)'
  <2>1. at'[t] = at[t] /\ left'[t] = left[t] /\ proc'[t] = proc[t]
    BY <1>0, <1>2 DEF Body, StopBroken, NextStatement, Finish, Panic, ReadUnit, ReadEof, ParkReading,
         WriteSome, WriteBroken, WriteFull, WriteGrid, SpawnChild, WaitChild, ChildDone, Goto, Written, body
  <2>2. Dry(t - 1) => Dry(t - 1)'
    BY Bounds
  <2> QED  BY <1>1, <1>2, <2>1, <2>2, RoleKept
<1>3. ASSUME UNCHANGED <<at, left, proc>> PROVE InRole(s)'
  BY <1>0, <1>1, <1>3, RoleKept
\* The body goes on.
<1>4. ASSUME proc' = proc, at[s] # "wait", at'[s] \in {"stmt", "read", "echo", "write"},
             at'[s] \in {"read", "echo"} => role[s] # "endless",
             \/ left'[s] = left[s]
             \/ left' = Written(s) /\ left[s] > 0
             \/ left'[s] = 0 /\ role[s] # "endless" /\ Dry(s - 1)
      PROVE  InRole(s)'
  <2>1. ~Alive(s)' /\ (role[s] \in Roles[s])
    BY <1>0, <1>4 DEF Alive, InRole
  <2>2. role[s] \in {"copy", "drain"} /\ left'[s] = 0 => Dry(s - 1)'
    BY <1>0, <1>4 DEF InRole, Written, Endless
  <2>3. role[s] = "endless" => left'[s] > 0 /\ at'[s] \in {"stmt", "write"}
    BY <1>0, <1>4 DEF InRole, Written, Endless
  <2> QED  BY <1>0, <1>1, <1>4, <2>1, <2>2, <2>3 DEF InRole
<1>5. at[s] = "read" \/ at[s] = "echo" => role[s] # "endless"
  BY <1>0 DEF InRole
<1>6. ASSUME NextStatement(s) PROVE InRole(s)'
  BY <1>0, <1>4, <1>5, <1>6 DEF NextStatement, Running, Goto, Reads
<1>7. ASSUME ReadUnit(s) PROVE InRole(s)'
  <2>1. at[s] = "read" /\ proc' = proc /\ left' = left /\ at'[s] \in {"read", "echo", "stmt"}
    BY <1>0, <1>7 DEF ReadUnit, Running, Goto
  <2>2. at[s] # "wait" /\ at'[s] \in {"stmt", "read", "echo", "write"} /\ role[s] # "endless"
    BY <1>5, <2>1
  <2> QED  BY <1>4, <2>1, <2>2
<1>8. ASSUME ReadEof(s) PROVE InRole(s)'
  <2>1. at[s] = "read" /\ proc' = proc /\ left'[s] = 0 /\ at'[s] = "stmt" /\ Dry(s - 1)
    BY <1>0, <1>8 DEF ReadEof, Running, Goto, Dry
  <2> QED  BY <1>4, <1>5, <2>1
<1>9. ASSUME WriteSome(s) \/ WriteBroken(s) \/ WriteGrid(s) PROVE InRole(s)'
  <2>1. at[s] = "write" /\ proc' = proc /\ at'[s] \in {"write", "stmt"}
    BY <1>0, <1>9 DEF WriteSome, WriteBroken, WriteGrid, Running, Goto
  <2>2. left' = Written(s) \/ left' = left
    BY <1>9 DEF WriteSome, WriteBroken, WriteGrid
  <2> QED  BY <1>0, <1>4, <2>1, <2>2
<1>10. ASSUME SpawnChild(s) PROVE InRole(s)'
  <2>1. /\ role[s] = "group" /\ left' = left /\ at'[s] = "wait"
        /\ proc'[s] = Start("copy", fd0, fd1)
    BY <1>0, <1>10 DEF SpawnChild, Goto
  <2>2. Alive(s)' /\ proc'[s].left > 0
    BY <1>0, <2>1 DEF Alive, Start
  <2> QED  BY <1>0, <1>1, <2>1, <2>2 DEF InRole
<1>11. InRole(s)'
  <2>1. CASE \/ StopBroken(s) \/ Finish(s) \/ Panic(s) \/ ParkReading(s) \/ WriteFull(s)
             \/ WaitChild(s) \/ ChildDone(s)
    <3>1. UNCHANGED <<at, left, proc>>
      BY <2>1 DEF StopBroken, Finish, Panic, ParkReading, WriteFull, WaitChild, ChildDone, body
    <3> QED  BY <1>3, <3>1
  <2> QED  BY <2>1, <1>6, <1>7, <1>8, <1>9, <1>10 DEF Body
<1> QED  BY <1>2, <1>11

LEMMA ProcessRole ==
    ASSUME SafetyInv, StepInv, NEW s \in Stage, Process(s),
           \A t \in Stage : InRole(t),
           \A q \in 0..N : q # N /\ Dry(q) => Dry(q)'
    PROVE  \A t \in Stage : InRole(t)'
<1>0. /\ Alive(s) /\ role' = role /\ UNCHANGED body
      /\ DOMAIN proc = Stage /\ proc[s] \in ProcSet /\ InRole(s) /\ (Dry(s - 1) => Dry(s - 1)')
      /\ proc[s].in = s - 1 /\ proc[s].out = s /\ ProcInStep(s)
  <2>1. Alive(s) /\ role' = role /\ UNCHANGED body
    BY DEF Process, ProcRead, ProcEof, ProcWrite, ProcBroken, ProcExit
  <2> QED  BY <2>1, Works
<1>1. UNCHANGED <<at, left>>
  BY <1>0 DEF body
<1>2. ASSUME NEW t \in Stage, t # s PROVE InRole(t)'
  <2>1. proc'[t] = proc[t]
    BY <1>0, <1>2 DEF Process, ProcRead, ProcEof, ProcWrite, ProcBroken, ProcExit, ProcDies
  <2>2. Dry(t - 1) => Dry(t - 1)'
    BY Bounds
  <2> QED  BY <1>0, <1>1, <1>2, <2>1, <2>2, RoleKept
<1>3. ProcRole(s)' = ProcRole(s)
  BY <1>0 DEF ProcRole
<1>4. ASSUME ProcRead(s) \/ ProcWrite(s) PROVE InRole(s)'
  <2>1. proc'[s].st = "alive" /\ proc'[s].left \in {proc[s].left, LeftNext(s)}
    <3>1. CASE ProcRead(s)
      <4>1. \E h : proc' = [proc EXCEPT ![s] = [proc[s] EXCEPT !.held = h]]
        BY <3>1 DEF ProcRead
      <4> QED  BY <1>0, <4>1 DEF ProcSet, Alive
    <3>2. CASE ProcWrite(s)
      <4>1. \E h : proc' = [proc EXCEPT ![s] = [proc[s] EXCEPT !.held = h, !.left = LeftNext(s)]]
        BY <3>2 DEF ProcWrite
      <4> QED  BY <1>0, <4>1 DEF ProcSet, Alive
    <3> QED  BY <1>4, <3>1, <3>2
  <2>2. ProcRole(s) \in {"copy", "endless"} => proc'[s].left = proc[s].left
    BY <2>1 DEF LeftNext, Endless
  <2> QED  BY <1>0, <1>1, <1>3, <2>1, <2>2 DEF InRole, Alive
<1>5. ASSUME ProcEof(s) \/ ProcBroken(s) \/ ProcExit(s) PROVE InRole(s)'
  <2>1. s \in Shells => ProcRole(s) = "copy"
    BY DEF ProcRole, Shells
  <2>2. s \in Shells => ~ProcExit(s)
    BY <1>0, <2>1 DEF InRole, ProcExit
  <2>3. ProcEof(s) => Dry(s - 1)
    BY <1>0 DEF ProcEof, Dry
  <2>4. proc'[s].st = "dead" /\ (s \in Shells => proc'[s].code = 141 \/ (proc'[s].code = 0 /\ Dry(s - 1)'))
    <3>1. CASE ProcEof(s)
      <4>1. proc' = [proc EXCEPT ![s] = [proc[s] EXCEPT !.st = "dead", !.code = 0]]
        BY <3>1 DEF ProcEof, ProcDies
      <4>2. proc'[s].st = "dead" /\ proc'[s].code = 0
        BY <1>0, <4>1 DEF ProcSet
      <4> QED  BY <1>0, <2>3, <3>1, <4>2
    <3>2. CASE ProcBroken(s)
      <4>1. proc' = [proc EXCEPT ![s] = [proc[s] EXCEPT !.st = "dead", !.code = 141]]
        BY <3>2 DEF ProcBroken, ProcDies
      <4> QED  BY <1>0, <4>1 DEF ProcSet
    <3>3. CASE ProcExit(s)
      <4>1. proc' = [proc EXCEPT ![s] = [proc[s] EXCEPT !.st = "dead", !.code = 0]]
        BY <3>3 DEF ProcExit, ProcDies
      <4> QED  BY <1>0, <2>2, <3>3, <4>1 DEF ProcSet
    <3> QED  BY <1>5, <3>1, <3>2, <3>3
  <2>5. ~Alive(s)'
    BY <2>4 DEF Alive
  <2> QED  BY <1>0, <1>1, <2>4, <2>5 DEF InRole
<1> QED  BY <1>2, <1>4, <1>5 DEF Process

LEMMA BuildRole ==
    ASSUME SafetyInv, StepInv, NetInv, Spawn \/ BuildFails,
           \A q \in 0..N : q # N /\ Dry(q) => Dry(q)'
    PROVE  \A t \in Stage : InRole(t)'
<1>0. /\ pc = "build" /\ role' = role /\ UNCHANGED body /\ DOMAIN proc = Stage
  BY DEF Spawn, BuildFails, SafetyInv, TypeOK, ProcOK
<1>1. ASSUME NEW t \in Stage, proc'[t] = proc[t] PROVE InRole(t)'
  <2>1. Dry(t - 1) => Dry(t - 1)'
    BY Bounds
  <2> QED  BY <1>0, <1>1, <2>1, RoleKept DEF body, NetInv
<1>2. ASSUME NEW t \in Stage, t \notin Shells,
             Alive(t)' /\ ProcRole(t) \in {"copy", "endless"} => proc'[t].left > 0
      PROVE  InRole(t)'
  <2>1. ProcRole(t)' = ProcRole(t)
    BY <1>0 DEF ProcRole
  <2> QED  BY <1>0, <1>2, <2>1 DEF InRole, NetInv
<1>3. \A t \in Shells : t \in Stage /\ ~Alive(t)
  <2>1. \A t \in Shells : at[t] = "stmt" /\ t \in Stage
    BY <1>0 DEF NetInv, Places, BegunInOrder, Shells
  <2> QED  BY <2>1 DEF StepInv, ProcInStep
<1>4. CASE Spawn
  <2>1. /\ proc' = [proc EXCEPT ![idx] = Start(role[idx], idx - 1, idx)]
        /\ idx \in Stage /\ idx \notin Shells
    BY <1>4, ProcessStages DEF Spawn
  <2>2. proc'[idx].left > 0
    BY <1>0, <2>1, PipelineAssumption DEF PipelineAssumption, Start
  <2>3. \A t \in Stage : t # idx => proc'[t] = proc[t]
    BY <1>0, <2>1
  <2> QED  BY <1>1, <1>2, <2>1, <2>2, <2>3
<1>5. CASE BuildFails
  <2>1. \A t \in Stage : proc'[t] = IF Alive(t) THEN [proc[t] EXCEPT !.st = "dead", !.code = 137] ELSE proc[t]
    BY <1>5 DEF BuildFails
  <2>2. \A t \in Stage : proc[t] \in ProcSet
    BY DEF SafetyInv, TypeOK, ProcOK
  <2>3. \A r \in ProcSet : [r EXCEPT !.st = "dead", !.code = 137].st = "dead"
    BY DEF ProcSet
  <2>4. \A t \in Stage : ~Alive(t)'
    BY <2>1, <2>2, <2>3 DEF Alive
  <2> QED  BY <1>1, <1>2, <1>3, <2>1, <2>4
<1> QED  BY <1>4, <1>5

LEMMA NextNet == SafetyInv /\ StepInv /\ NetInv /\ [Next]_vars => NetInv'
<1> SUFFICES ASSUME SafetyInv, StepInv, NetInv, [Next]_vars PROVE NetInv'
  OBVIOUS
<1>1. Places'
  BY NextPlaces DEF NetInv
<1>2. \A q \in 0..N : q # N /\ Dry(q) => Dry(q)'
  BY DryKept
<1>3. \A t \in Stage : InRole(t)
  BY DEF NetInv
<1>4. ASSUME UNCHANGED <<role, at, left, proc>>, NEW t \in Stage PROVE InRole(t)'
  <2>1. Dry(t - 1) => Dry(t - 1)'
    BY <1>2, Bounds
  <2> QED  BY <1>3, <1>4, <2>1, RoleKept
<1>5. CASE \/ Connect \/ EnterRun \/ Skip \/ Resume \/ EndPass \/ Wake \/ Reap \/ ReapDrain \/ Return
           \/ InputArrives \/ OutputTaken \/ UNCHANGED vars
  <2>1. UNCHANGED <<role, at, left, proc>>
    BY <1>5 DEF Connect, EnterRun, Skip, Resume, EndPass, Wake, Reap, ReapDrain, Return, InputArrives,
       OutputTaken, vars, body
  <2> QED  BY <1>1, <1>4, <2>1 DEF NetInv
<1>6. CASE Spawn \/ BuildFails
  BY <1>1, <1>2, <1>6, BuildRole DEF NetInv
<1>7. ASSUME NEW s \in Shells, Body(s) PROVE NetInv'
  BY <1>1, <1>2, <1>3, <1>7, BodyRole DEF NetInv
<1>8. ASSUME NEW s \in Stage, Process(s) PROVE NetInv'
  BY <1>1, <1>2, <1>3, <1>8, ProcessRole DEF NetInv
<1> QED  BY <1>5, <1>6, <1>7, <1>8 DEF Next, Thread, Returned

-----------------------------------------------------------------------------
(* The network of stages.                                                   *)

LEMMA StagesKept ==
    ASSUME \A t \in Stage : /\ HoldsOrRuns(t)' <=> HoldsOrRuns(t)
                            /\ HasBegun(t)' <=> HasBegun(t)
                            /\ EndedWith(t)' = EndedWith(t)
    PROVE  UNCHANGED <<Up, Begun, Codes>>
  BY DEF Up, Begun, Codes

LEMMA GivenKept ==
    ASSUME \A q \in 0..N : Coming(q)' = Coming(q)
    PROVE  Given' = Given
  BY DEF Given

LEMMA NotYetAnswered ==
    ASSUME pc # "returned", pc' # "returned"
    PROVE  Answered' = Answered
  BY DEF Answered

LEMMA Unanswered ==
    ASSUME UNCHANGED <<pc, idx, status>>
    PROVE  Answered' = Answered
  BY DEF Answered

\* What the network sees of who is there at the other end.
LEMMA InputEnds ==
    ASSUME SafetyInv, NEW s \in Stage, Dry(s - 1)
    PROVE  Network!InputEnded(s)
<1>1. buf[s - 1] = <<>> /\ ~HasWriter(s - 1)
  BY DEF Dry
<1>2. CASE s = 1
  <2>1. feed \in Nat /\ ~(feed > 0)
    BY <1>1, <1>2 DEF HasWriter, SafetyInv, TypeOK, PipesOK
  <2> QED  BY <1>1, <1>2, <2>1 DEF Network!InputEnded
<1>3. CASE s # 1
  <2>1. s - 1 \in Stage /\ s - 1 > 0
    BY <1>3, Bounds DEF Stage
  <2>2. ~HoldsPair(s - 1) /\ ~Alive(s - 1)
    BY <1>1, <2>1 DEF HasWriter, SafetyInv, OnItsOwnPipes
  <2> QED  BY <1>1, <1>3, <2>2 DEF Network!InputEnded, Up, HoldsOrRuns
<1> QED  BY <1>2, <1>3

LEMMA ReaderThere ==
    ASSUME SafetyInv, NetInv, NEW s \in Stage
    PROVE  HasReader(s) <=> Network!IsRead(s)
<1>1. HasReader(s) <=> s = N \/ ReadsOwn(s + 1)
  BY Readers DEF SafetyInv
<1>2. s # N => s + 1 \in Stage /\ (s + 1) - 1 = s /\ s # 0
  BY Bounds DEF Stage
<1>3. s # N /\ fd0 = s => HoldsPair(s + 1)
  BY <1>2 DEF NetInv, Places, InputHeld
<1> QED  BY <1>1, <1>2, <1>3 DEF Network!IsRead, ReadsOwn, Up, HoldsOrRuns

LEMMA AtWork ==
    ASSUME StepInv, NetInv, NEW s \in Stage, Alive(s)
    PROVE  Network!Works(s)
<1>1. s \in Shells => at[s] = "wait"
  BY DEF StepInv, ProcInStep
<1>2. HasBegun(s)
  BY <1>1 DEF NetInv, Places, BegunInOrder, HasBegun, Alive
<1> QED  BY <1>2 DEF Network!Works, Up, Begun, HoldsOrRuns

LEMMA TurnAtWork ==
    ASSUME SafetyInv, StepInv, NEW s \in Shells, Body(s)
    PROVE  Network!Works(s)
<1>1. s \in Stage /\ co[s] = "running" /\ pc = "run"
  BY Turn
<1> QED  BY <1>1 DEF Network!Works, Up, Begun, HoldsOrRuns, HasBegun, HoldsPair

\* What a step does to the queues.
LEMMA ReadNet ==
    ASSUME SafetyInv, NEW s \in Stage, Network!Works(s), buf[s - 1] # <<>>, Take(s - 1, 1),
           UNCHANGED <<role, Up, Begun, Codes, Given, feed, Answered>>
    PROVE  Network!Read(s)
<1>1. buf[s - 1] \in Seq(Unit)
  BY Bounds, PipeType DEF SafetyInv, TypeOK
<1>2. Tail(buf[s - 1]) = SubSeq(buf[s - 1], 1 + 1, Len(buf[s - 1]))
  <2>1. \A q \in Seq(Unit) : q # <<>> => Tail(q) = SubSeq(q, 2, Len(q))
    OBVIOUS
  <2> QED  BY <1>1, <2>1
<1>3. buf' = [buf EXCEPT ![s - 1] = Tail(buf[s - 1])]
  BY <1>2 DEF Take
<1> QED  BY <1>3 DEF Network!Read

LEMMA WriteNet ==
    ASSUME SafetyInv, NetInv, NEW s \in Stage, Network!Works(s), HasReader(s),
           NEW u \in Seq(Unit), Len(u) \in 1..Chunk, Len(u) <= Room(s), Put(s, u),
           \A i \in 1..Len(u) : u[i] = Ahead(Coming(s), i - 1),
           Coming(s)' = Ahead(Coming(s), Len(u)),
           \A q \in 0..N : q # s => Coming(q)' = Coming(q),
           UNCHANGED <<role, Up, Begun, Codes, feed, Answered>>
    PROVE  Network!Write(s)
<1> DEFINE n == Len(u)
           v == [i \in 1..n |-> Network!Carry(Given[s], i - 1)]
<1>1. s \in 0..N /\ Network!IsRead(s) /\ n \in 1..Chunk
  BY Bounds, ReaderThere
<1>2. \A k, m : Network!Carry(k, m) = Ahead(k, m)
  BY DEF Network!Carry, Ahead
<1>3. Given[s] = Coming(s)
  BY <1>1 DEF Given
<1>4. u = v
  <2>1. u = [i \in 1..n |-> u[i]]
    OBVIOUS
  <2>2. \A i \in 1..n : u[i] = Network!Carry(Given[s], i - 1)
    BY <1>2, <1>3
  <2> QED  BY <2>1, <2>2
<1>5. Given' = [Given EXCEPT ![s] = Network!Carry(Given[s], n)]
  <2>1. Given' = [q \in 0..N |-> Coming(q)']
    BY DEF Given
  <2> QED  BY <1>1, <1>2, <1>3, <2>1 DEF Given
<1>6. CASE s = N /\ Terminal = "file"
  <2>1. buf' = buf
    BY <1>6 DEF Put
  <2> QED  BY <1>1, <1>5, <1>6, <2>1 DEF Network!Write
<1>7. CASE ~(s = N /\ Terminal = "file")
  <2>1. buf' = [buf EXCEPT ![s] = buf[s] \o v]
    BY <1>4, <1>7 DEF Put
  <2>2. Len(buf[s]) + n <= Cap
    <3>1. Len(buf[s]) \in Nat /\ Cap \in Nat
      BY <1>1, PipeType, PipelineAssumption DEF SafetyInv, TypeOK, PipelineAssumption
    <3> QED  BY <1>1, <1>7, <3>1 DEF Room
  <2> QED  BY <1>1, <1>5, <1>7, <2>1, <2>2 DEF Network!Write
<1> QED  BY <1>6, <1>7

LEMMA SameNet ==
    ASSUME UNCHANGED <<role, Up, Begun, Codes, buf, Given, feed, Answered>>
    PROVE  UNCHANGED Network!network
  BY DEF Network!network

LEMMA EmptyDrain ==
    ASSUME SafetyInv, Take(N, Len(buf[N])), buf[N] = <<>>
    PROVE  buf' = buf
<1>1. N \in 0..N /\ DOMAIN buf = 0..N
  BY Bounds DEF SafetyInv, TypeOK, PipesOK
<1>2. SubSeq(buf[N], Len(buf[N]) + 1, Len(buf[N])) = buf[N]
  OBVIOUS
<1> QED  BY <1>1, <1>2 DEF Take, SafetyInv, TypeOK, PipesOK

LEMMA DrainNet ==
    ASSUME SafetyInv, Drain \/ OutputTaken \/ UNCHANGED <<buf, want>>,
           UNCHANGED <<role, Up, Begun, Codes, Given, feed, Answered>>
    PROVE  Network!OutputTaken \/ UNCHANGED Network!network
<1>1. N \in 0..N /\ buf[N] \in Seq(Unit) /\ Len(buf[N]) \in Nat /\ (buf[N] # <<>> => 1 <= Len(buf[N]))
  BY Bounds, PipeType DEF SafetyInv, TypeOK
<1>2. ASSUME NEW n \in 1..Len(buf[N]), Take(N, n) PROVE Network!OutputTaken
  BY <1>2 DEF Take, Network!OutputTaken
<1>3. CASE OutputTaken
  BY <1>1, <1>2, <1>3 DEF OutputTaken
<1>4. CASE buf' = buf
  BY <1>4, SameNet
<1>5. CASE Drain
  BY <1>1, <1>2, <1>4, <1>5, EmptyDrain DEF Drain
<1> QED  BY <1>3, <1>4, <1>5

LEMMA ComingKept ==
    ASSUME SafetyInv, StepInv, NoNewEnds, feed' = feed,
           Drain \/ OutputTaken \/ UNCHANGED <<buf, want>>
    PROVE  Given' = Given
  BY PipesDrain, GivenKept DEF StepInv

-----------------------------------------------------------------------------
(* The turns.                                                               *)

\* A turn that does not end its stage leaves the stages as they are.
LEMMA TurnGoesOn ==
    ASSUME SafetyInv, NEW s \in Shells, Body(s), co'[s] # "done"
    PROVE  UNCHANGED <<role, Up, Begun, Codes, feed, Answered>>
<1>0. /\ s \in Stage /\ s \notin External /\ idx = s /\ pc = "run" /\ co[s] = "running"
      /\ DOMAIN co = Stage /\ DOMAIN proc = Stage
  BY BodyTurn DEF SafetyInv, TypeOK, TasksOK, ProcOK, OnItsOwnPipes, Shells
<1>1. UNCHANGED <<role, feed>>
  BY DEF Body, StopBroken, NextStatement, Finish, Panic, ReadUnit, ReadEof, ParkReading,
         WriteSome, WriteBroken, WriteFull, WriteGrid, SpawnChild, WaitChild, ChildDone, pipes
<1>2. UNCHANGED <<pc, idx, co>> \/ (\E why : Yield(why)) \/ (\E saw : LetGo(saw))
  BY DEF Body, StopBroken, NextStatement, Finish, Panic, ReadUnit, ReadEof, ParkReading,
         WriteSome, WriteBroken, WriteFull, WriteGrid, SpawnChild, WaitChild, ChildDone, thread, tasks
<1>3. ~(\E saw : LetGo(saw))
  BY <1>0 DEF LetGo
<1>4. status' = status
  BY <1>3 DEF Body, StopBroken, NextStatement, Finish, Panic, ReadUnit, ReadEof, ParkReading,
         WriteSome, WriteBroken, WriteFull, WriteGrid, SpawnChild, WaitChild, ChildDone
<1>5. \A t \in Stage : t # s => proc'[t] = proc[t]
  BY <1>0 DEF Body, StopBroken, NextStatement, Finish, Panic, ReadUnit, ReadEof, ParkReading,
         WriteSome, WriteBroken, WriteFull, WriteGrid, SpawnChild, WaitChild, ChildDone
<1>6. pc' \in {"run", "pass"} /\ (co' = co \/ co' = [co EXCEPT ![s] = "suspended"])
  BY <1>0, <1>2, <1>3 DEF Yield
<1>7. co'[s] \in {"running", "suspended"} /\ \A t \in Stage : t # s => co'[t] = co[t]
  BY <1>0, <1>6
<1>8. ASSUME NEW t \in Stage
      PROVE  /\ HoldsOrRuns(t)' <=> HoldsOrRuns(t)
             /\ HasBegun(t)' <=> HasBegun(t)
             /\ EndedWith(t)' = EndedWith(t)
  <2>1. CASE t = s
    BY <1>0, <1>4, <1>6, <1>7, <2>1 DEF HoldsOrRuns, HoldsPair, HasBegun, EndedWith
  <2>2. CASE t # s
    BY <1>0, <1>4, <1>5, <1>6, <1>7, <2>2 DEF HoldsOrRuns, HoldsPair, Alive, HasBegun, EndedWith
  <2> QED  BY <2>1, <2>2
<1>9. Answered' = Answered
  BY <1>0, <1>6, NotYetAnswered
<1> QED  BY <1>1, <1>8, <1>9, StagesKept

\* One that ends it ends nothing else.
LEMMA TurnEnds ==
    ASSUME SafetyInv, StepInv, NEW s \in Shells, ~Alive(s), Body(s), NEW saw, LetGo(saw),
           UNCHANGED <<role, proc, pipes>>, status' = [status EXCEPT ![s] = status'[s]]
    PROVE  /\ UNCHANGED <<role, Begun, buf, Given, feed, Answered>>
           /\ Up' = Up \ {s} /\ Codes' = [Codes EXCEPT ![s] = status'[s]]
<1>0. /\ s \in Stage /\ s \notin External /\ idx = s /\ pc = "run" /\ co[s] = "running"
      /\ DOMAIN co = Stage /\ DOMAIN status = Stage
  BY BodyTurn DEF SafetyInv, TypeOK, TasksOK, ProcOK, OnItsOwnPipes, Shells
<1>1. pc' = "pass" /\ co' = [co EXCEPT ![s] = "done"]
  BY <1>0 DEF LetGo
<1>2. co'[s] = "done" /\ \A t \in Stage : t # s => co'[t] = co[t] /\ status'[t] = status[t]
  BY <1>0, <1>1
<1>3. \A t \in Stage : HasBegun(t)' <=> HasBegun(t)
  BY <1>0, <1>2 DEF HasBegun
<1>4. ~HoldsOrRuns(s)'
  BY <1>2 DEF HoldsOrRuns, HoldsPair, Alive
<1>5. \A t \in Stage : t # s => (HoldsOrRuns(t)' <=> HoldsOrRuns(t))
  BY <1>0, <1>1, <1>2 DEF HoldsOrRuns, HoldsPair, Alive
<1>6. Up' = Up \ {s}
  BY <1>4, <1>5 DEF Up
<1>7. Codes' = [Codes EXCEPT ![s] = status'[s]]
  <2>1. \A t \in Stage : EndedWith(t)' = IF t = s THEN status'[s] ELSE EndedWith(t)
    BY <1>0, <1>2 DEF EndedWith
  <2> QED  BY <1>0, <2>1 DEF Codes
<1>8. Begun' = Begun
  BY <1>3 DEF Begun
<1>9. Answered' = Answered
  BY <1>0, <1>1, NotYetAnswered
<1>10. Given' = Given
  BY GivenKept DEF pipes, Coming, Contents
<1> QED  BY <1>6, <1>7, <1>8, <1>9, <1>10 DEF pipes

LEMMA TurnEndsNet ==
    ASSUME SafetyInv, StepInv, NetInv, NEW s \in Shells,
           StopBroken(s) \/ Finish(s) \/ Panic(s) \/ ChildDone(s)
    PROVE  Network!End(s) \/ Network!Stop(s)
<1>0. /\ s \in Stage /\ s \notin External /\ idx = s /\ pc = "run" /\ co[s] = "running"
      /\ InRole(s) /\ DOMAIN status = Stage /\ Body(s) /\ Network!Works(s)
  <2>1. Body(s)
    BY DEF Body
  <2>2. s \in Stage /\ idx = s /\ pc = "run" /\ co[s] = "running" /\ Network!Works(s)
    BY <2>1, Turn, TurnAtWork
  <2> QED  BY <2>1, <2>2 DEF NetInv, Shells, SafetyInv, TypeOK, ProcOK
<1>1. ~Alive(s)
  BY <1>0 DEF StepInv, ProcInStep, StopBroken, Finish, Panic, ChildDone, Running
<1>2. (\E saw : LetGo(saw)) /\ UNCHANGED <<role, proc, pipes>>
  BY DEF StopBroken, Finish, Panic, ChildDone
<1>3. status' = [status EXCEPT ![s] = status'[s]]
  BY <1>0 DEF StopBroken, Finish, Panic, ChildDone, SafetyInv, TypeOK, ProcOK
<1>4. /\ UNCHANGED <<role, Begun, buf, Given, feed, Answered>>
      /\ Up' = Up \ {s} /\ Codes' = [Codes EXCEPT ![s] = status'[s]]
  BY <1>0, <1>1, <1>2, <1>3, TurnEnds
<1>5. ASSUME status'[s] = 141, Stopped(s) PROVE Network!Stop(s)
  <2>1. ~Network!IsRead(s)
    BY <1>0, <1>5, ReaderThere DEF SafetyInv, OnlyItsOwnReader
  <2> QED  BY <1>0, <1>4, <1>5, <2>1 DEF Network!Stop, Network!Broken
<1>6. ASSUME status'[s] = 0, role[s] # "endless", role[s] \in {"copy", "drain", "group"} => Dry(s - 1)
      PROVE  Network!End(s)
  <2>1. role[s] \in Network!ReadsAll => Network!InputEnded(s)
    BY <1>0, <1>6, InputEnds DEF Network!ReadsAll
  <2> QED  BY <1>0, <1>4, <1>6, <2>1 DEF Network!End
<1>7. CASE StopBroken(s)
  BY <1>0, <1>5, <1>7 DEF StopBroken, Stopped
<1>8. CASE Finish(s)
  BY <1>0, <1>6, <1>8 DEF Finish, InRole
<1>9. CASE Panic(s)
  <2>1. status[s] = 0
    BY <1>0 DEF NetInv, Places, EndedOnce
  <2> QED  BY <1>0, <1>6, <1>9, <2>1 DEF Panic
<1>10. CASE ChildDone(s)
  <2>1. at[s] = "wait" /\ status'[s] = proc[s].code
    BY <1>0, <1>10 DEF ChildDone, Running
  <2>2. role[s] = "group" /\ (proc[s].code = 141 \/ (proc[s].code = 0 /\ Dry(s - 1)))
    BY <1>0, <1>1, <2>1 DEF InRole
  <2> QED  BY <1>5, <1>6, <2>1, <2>2 DEF Stopped
<1> QED  BY <1>7, <1>8, <1>9, <1>10

LEMMA ReadUnitNet ==
    ASSUME SafetyInv, StepInv, NoNewEnds, NEW s \in Shells, ReadUnit(s)
    PROVE  Network!Read(s)
<1>0. /\ s \in Stage /\ fd0 = s - 1 /\ s - 1 \in 0..N /\ co[s] = "running" /\ Body(s)
      /\ Network!Works(s)
  BY Turn, TurnAtWork DEF Body
<1>1. buf[s - 1] # <<>> /\ Take(s - 1, 1) /\ co' = co
  BY <1>0 DEF ReadUnit, tasks
<1>2. UNCHANGED <<role, Up, Begun, Codes, feed, Answered>>
  BY <1>0, <1>1, TurnGoesOn
<1>3. Given' = Given
  <2>1. buf[s - 1] \in Seq(Unit)
    BY <1>0, PipeType DEF SafetyInv, TypeOK
  <2>2. 1 \in Nat /\ 1 <= Len(buf[s - 1])
    BY <1>1, <2>1
  <2> QED  BY <1>0, <1>1, <1>2, <2>2, PipesTake, GivenKept DEF StepInv
<1> QED  BY <1>0, <1>1, <1>2, <1>3, ReadNet

LEMMA WriteSomeNet ==
    ASSUME SafetyInv, StepInv, NetInv, NoNewEnds, NEW s \in Shells, WriteSome(s)
    PROVE  Network!Write(s)
<1> DEFINE n == IF Room(fd1) < Chunk - line[s] THEN Room(fd1) ELSE Chunk - line[s]
           u == SubSeq(Line, line[s] + 1, line[s] + n)
<1>0. /\ s \in Stage /\ s \in 0..N /\ fd1 = s /\ co[s] = "running" /\ DOMAIN co = Stage /\ idx = s
      /\ line[s] \in 0..(Chunk - 1) /\ Body(s) /\ Network!Works(s) /\ HasWriter(s)
      /\ at[s] # "wait" => BodyInStep(s) /\ Writing(s)
  BY Turn, TurnAtWork DEF Body
<1>1. /\ at[s] = "write" /\ ~ToGrid(s) /\ HasReader(s) /\ Room(s) > 0 /\ Put(s, u) /\ feed' = feed
  BY <1>0 DEF WriteSome, Running
<1>2. co'[s] # "done"
  BY <1>0 DEF WriteSome, Yield, tasks
<1>3. UNCHANGED <<role, Up, Begun, Codes, feed, Answered>>
  BY <1>0, <1>2, TurnGoesOn
<1>4. n \in Nat /\ n >= 1 /\ line[s] + n <= Chunk /\ n <= Room(s)
  <2>1. Len(buf[s]) \in Nat /\ Chunk \in Nat /\ Cap \in Nat
    BY <1>0, PipeType, PipelineAssumption DEF SafetyInv, TypeOK, PipelineAssumption
  <2>2. Room(s) \in Int
    BY <2>1 DEF Room
  <2> QED  BY <1>0, <1>1, <2>1, <2>2
<1>5. Coming(s) = line[s] + 1
  BY <1>0, <1>1 DEF BodyInStep
<1> HIDE DEF n
<1>6. u \in Seq(Unit) /\ Len(u) = n /\ n \in 1..Chunk /\ \A i \in 1..Len(u) : u[i] = Ahead(Coming(s), i - 1)
  BY <1>0, <1>4, <1>5, PartOfLine
<1> HIDE DEF u
<1>7. Coming(s)' = Ahead(Coming(s), Len(u)) /\ \A q \in 0..N : q # s => Coming(q)' = Coming(q)
  BY <1>0, <1>1, <1>6, PipesPut DEF StepInv
<1> QED  BY <1>0, <1>1, <1>3, <1>4, <1>6, <1>7, WriteNet

LEMMA TurnNet ==
    ASSUME SafetyInv, StepInv, NetInv, NoNewEnds, NEW s \in Shells, Body(s)
    PROVE  Network!Next \/ UNCHANGED Network!network
<1>0. s \in Network!Stage /\ s \in Stage /\ co[s] = "running" /\ idx = s /\ DOMAIN co = Stage
  BY Turn DEF Network!Stage, Stage
<1>1. CASE StopBroken(s) \/ Finish(s) \/ Panic(s) \/ ChildDone(s)
  BY <1>0, <1>1, TurnEndsNet DEF Network!Next
<1>2. CASE ReadUnit(s)
  BY <1>0, <1>2, ReadUnitNet DEF Network!Next
<1>3. CASE WriteSome(s)
  BY <1>0, <1>3, WriteSomeNet DEF Network!Next
<1>4. CASE \/ NextStatement(s) \/ ReadEof(s) \/ ParkReading(s) \/ WriteBroken(s) \/ WriteFull(s)
           \/ WriteGrid(s) \/ SpawnChild(s) \/ WaitChild(s)
  <2>1. co'[s] # "done"
    BY <1>0, <1>4 DEF NextStatement, ReadEof, ParkReading, WriteBroken, WriteFull, WriteGrid, SpawnChild,
       WaitChild, Yield, tasks
  <2>2. UNCHANGED <<role, Up, Begun, Codes, feed, Answered>>
    BY <2>1, TurnGoesOn
  <2>3. Drain \/ UNCHANGED <<buf, want>>
    BY <1>4 DEF NextStatement, ReadEof, ParkReading, WriteBroken, WriteFull, WriteGrid, SpawnChild,
       WaitChild, pipes
  <2>4. Given' = Given
    BY <2>2, <2>3, ComingKept
  <2>5. Network!OutputTaken \/ UNCHANGED Network!network
    BY <2>2, <2>3, <2>4, DrainNet
  <2> QED  BY <2>5 DEF Network!Next
<1> QED  BY <1>1, <1>2, <1>3, <1>4 DEF Body

-----------------------------------------------------------------------------
(* The processes.                                                           *)

LEMMA ProcGoesOnNet ==
    ASSUME NEW s \in Stage, Process(s), Alive(s),
           proc'[s].st = "alive", proc'[s].code = proc[s].code,
           \A t \in Stage : t # s => proc'[t] = proc[t]
    PROVE  UNCHANGED <<role, Up, Begun, Codes, Answered>>
<1>1. UNCHANGED <<role, pc, idx, co, status>>
  BY DEF Process, ProcRead, ProcEof, ProcWrite, ProcBroken, ProcExit, thread, tasks
<1>2. ASSUME NEW t \in Stage
      PROVE  /\ HoldsOrRuns(t)' <=> HoldsOrRuns(t)
             /\ HasBegun(t)' <=> HasBegun(t)
             /\ EndedWith(t)' = EndedWith(t)
  <2>1. (Alive(t)' <=> Alive(t)) /\ (proc'[t].st = proc[t].st) /\ proc'[t].code = proc[t].code
    BY DEF Alive
  <2>2. HoldsPair(t)' <=> HoldsPair(t)
    BY <1>1 DEF HoldsPair
  <2> QED  BY <1>1, <2>1, <2>2 DEF HoldsOrRuns, HasBegun, EndedWith
<1>3. Answered' = Answered
  BY <1>1, Unanswered
<1> QED  BY <1>1, <1>2, <1>3, StagesKept

LEMMA ProcReadNet ==
    ASSUME SafetyInv, StepInv, NetInv, NoNewEnds, NEW s \in Stage, ProcRead(s)
    PROVE  Network!Read(s)
<1>0. /\ Alive(s) /\ proc[s].in = s - 1 /\ s - 1 \in 0..N /\ s - 1 # N
      /\ DOMAIN proc = Stage /\ proc[s] \in ProcSet
  <2>1. Alive(s)
    BY DEF ProcRead
  <2> QED  BY <2>1, Works
<1>1. /\ feed' = feed /\ buf[s - 1] # <<>> /\ Take(s - 1, 1)
      /\ proc' = [proc EXCEPT ![s] = [proc[s] EXCEPT !.held = Head(buf[s - 1])]]
  BY <1>0 DEF ProcRead
<1>2. proc'[s].st = "alive" /\ proc'[s].code = proc[s].code /\ \A t \in Stage : t # s => proc'[t] = proc[t]
  <2>1. \E h : proc' = [proc EXCEPT ![s] = [proc[s] EXCEPT !.held = h]]
    BY <1>1
  <2> QED  BY <1>0, <2>1 DEF ProcSet, Alive
<1>3. UNCHANGED <<role, Up, Begun, Codes, Answered>>
  BY <1>0, <1>2, ProcGoesOnNet DEF Process
<1>4. Given' = Given
  <2>1. buf[s - 1] \in Seq(Unit)
    BY <1>0, PipeType DEF SafetyInv, TypeOK
  <2>2. 1 \in Nat /\ 1 <= Len(buf[s - 1])
    BY <1>1, <2>1
  <2> QED  BY <1>0, <1>1, <2>2, PipesTake, GivenKept DEF StepInv
<1> QED  BY <1>0, <1>1, <1>3, <1>4, AtWork, ReadNet

LEMMA ProcWriteNet ==
    ASSUME SafetyInv, StepInv, NetInv, NoNewEnds, NEW s \in Stage, ProcWrite(s)
    PROVE  Network!Write(s)
<1> DEFINE u == <<proc[s].held>>
<1>0. /\ Alive(s) /\ proc[s].out = s /\ s \in 0..N /\ HasWriter(s)
      /\ DOMAIN proc = Stage /\ proc[s] \in ProcSet /\ ProcInStep(s)
  <2>1. Alive(s)
    BY DEF ProcWrite
  <2> QED  BY <2>1, Works
<1>1. /\ feed' = feed /\ proc[s].held > 0 /\ HasReader(s) /\ Room(s) > 0 /\ Put(s, u)
      /\ proc' = [proc EXCEPT ![s] = [proc[s] EXCEPT !.held = HeldNext(s), !.left = LeftNext(s)]]
  BY <1>0 DEF ProcWrite
<1>2. proc'[s].st = "alive" /\ proc'[s].code = proc[s].code /\ \A t \in Stage : t # s => proc'[t] = proc[t]
  BY <1>0, <1>1 DEF ProcSet, Alive
<1>3. UNCHANGED <<role, Up, Begun, Codes, Answered>>
  BY <1>0, <1>2, ProcGoesOnNet DEF Process
<1>4. proc[s].held \in Unit /\ proc[s].held = Coming(s)
  BY <1>0, <1>1, PipelineAssumption DEF PipelineAssumption, ProcSet, Unit, ProcInStep
<1>5. u \in Seq(Unit) /\ Len(u) = 1 /\ \A i \in 1..Len(u) : u[i] = Ahead(Coming(s), i - 1)
  <2>1. proc[s].held + 0 <= Chunk /\ proc[s].held + 0 = proc[s].held /\ 0 \in Nat
    BY <1>4 DEF Unit
  <2>2. Ahead(proc[s].held, 0) = proc[s].held
    BY <1>4, <2>1, AheadWithin
  <2>3. u \in Seq(Unit) /\ Len(u) = 1 /\ u[1] = proc[s].held
    BY <1>4
  <2>4. \A i \in 1..Len(u) : i = 1 /\ i - 1 = 0
    BY <2>3
  <2> QED  BY <1>4, <2>2, <2>3, <2>4
<1>6. Len(u) \in 1..Chunk /\ Len(u) <= Room(s)
  <2>1. Len(buf[s]) \in Nat /\ Chunk \in Nat /\ Cap \in Nat
    BY <1>0, PipeType, PipelineAssumption DEF SafetyInv, TypeOK, PipelineAssumption
  <2>2. Room(s) \in Int /\ Chunk >= 1
    BY <1>4, <2>1 DEF Room, Unit
  <2> QED  BY <1>1, <1>5, <2>1, <2>2
<1> HIDE DEF u
<1>7. Coming(s)' = Ahead(Coming(s), Len(u)) /\ \A q \in 0..N : q # s => Coming(q)' = Coming(q)
  BY <1>0, <1>1, <1>5, PipesPut DEF StepInv
<1> QED  BY <1>0, <1>1, <1>3, <1>5, <1>6, <1>7, AtWork, WriteNet

\* A real process that ends is its stage's end; a child's is not.
LEMMA ProcEndsNet ==
    ASSUME SafetyInv, StepInv, NetInv, NEW s \in Stage, ProcEof(s) \/ ProcBroken(s) \/ ProcExit(s)
    PROVE  Network!End(s) \/ Network!Stop(s) \/ UNCHANGED Network!network
<1>0. /\ Alive(s) /\ proc[s].in = s - 1 /\ proc[s].out = s
      /\ DOMAIN proc = Stage /\ proc[s] \in ProcSet /\ ProcInStep(s) /\ InRole(s)
  <2>1. Alive(s)
    BY DEF ProcEof, ProcBroken, ProcExit
  <2> QED  BY <2>1, Works DEF NetInv
<1>1. UNCHANGED <<role, pc, idx, co, status, pipes>>
  BY DEF ProcEof, ProcBroken, ProcExit, thread, tasks
<1>2. Answered' = Answered /\ Given' = Given /\ UNCHANGED <<buf, feed>>
  <2>1. Given' = Given
    BY <1>1, GivenKept DEF pipes, Coming, Contents
  <2> QED  BY <1>1, <2>1, Unanswered DEF pipes
<1>3. \A t \in Stage : t # s => proc'[t] = proc[t]
  BY <1>0 DEF ProcEof, ProcBroken, ProcExit, ProcDies
<1>4. \A t \in Stage : t # s =>
        /\ HoldsOrRuns(t)' <=> HoldsOrRuns(t)
        /\ HasBegun(t)' <=> HasBegun(t)
        /\ EndedWith(t)' = EndedWith(t)
  <2> SUFFICES ASSUME NEW t \in Stage, t # s
               PROVE  /\ HoldsOrRuns(t)' <=> HoldsOrRuns(t)
                      /\ HasBegun(t)' <=> HasBegun(t)
                      /\ EndedWith(t)' = EndedWith(t)
    OBVIOUS
  <2>1. (Alive(t)' <=> Alive(t)) /\ proc'[t] = proc[t]
    BY <1>3 DEF Alive
  <2>2. HoldsPair(t)' <=> HoldsPair(t)
    BY <1>1 DEF HoldsPair
  <2> QED  BY <1>1, <2>1, <2>2 DEF HoldsOrRuns, HasBegun, EndedWith
<1>5. proc'[s].st = "dead"
  <2>1. \E code : proc' = [proc EXCEPT ![s] = [proc[s] EXCEPT !.st = "dead", !.code = code]]
    BY DEF ProcEof, ProcBroken, ProcExit, ProcDies
  <2> QED  BY <1>0, <2>1 DEF ProcSet
<1>6. CASE s \in Shells
  <2>1. s \notin External /\ co[s] # "done" /\ pc # "returned"
    BY <1>0, <1>6 DEF Shells, ProcInStep, NetInv, Places, EndedOnce
  <2>2. HoldsOrRuns(s) /\ HoldsOrRuns(s)'
    BY <1>1, <1>6, <2>1 DEF HoldsOrRuns, HoldsPair
  <2>3. (HasBegun(s)' <=> HasBegun(s)) /\ EndedWith(s)' = EndedWith(s)
    BY <1>1, <1>6, <2>1 DEF HasBegun, EndedWith
  <2>4. UNCHANGED <<Up, Begun, Codes>>
    BY <1>4, <2>2, <2>3, StagesKept
  <2> QED  BY <1>1, <1>2, <2>4, SameNet
<1>7. CASE s \in External
  <2>0. s \notin Shells /\ Network!Works(s) /\ ProcRole(s) = role[s]
    BY <1>0, <1>7, AtWork DEF Shells, ProcRole
  <2>1. Up' = Up \ {s}
    <3>1. ~HoldsPair(s)
      BY <1>0, <1>7, <2>0 DEF NetInv, Places, BegunInOrder, Alive, HoldsPair
    <3>2. ~HoldsOrRuns(s)'
      BY <1>1, <1>5, <2>0, <3>1 DEF HoldsOrRuns, HoldsPair, Alive
    <3> QED  BY <1>4, <3>2 DEF Up
  <2>2. Begun' = Begun
    <3>1. HasBegun(s) /\ HasBegun(s)'
      BY <1>0, <1>5, <2>0 DEF HasBegun, Alive
    <3> QED  BY <1>4, <3>1 DEF Begun
  <2>3. Codes' = [Codes EXCEPT ![s] = proc'[s].code]
    <3>1. \A t \in Stage : EndedWith(t)' = IF t = s THEN proc'[s].code ELSE EndedWith(t)
      BY <1>4, <1>7 DEF EndedWith
    <3> QED  BY <3>1 DEF Codes
  <2>4. CASE ProcBroken(s)
    <3>1. proc' = [proc EXCEPT ![s] = [proc[s] EXCEPT !.st = "dead", !.code = 141]] /\ ~HasReader(s)
      BY <1>0, <2>4 DEF ProcBroken, ProcDies
    <3>2. proc'[s].code = 141
      BY <1>0, <3>1 DEF ProcSet
    <3>3. ~Network!IsRead(s)
      BY <3>1, ReaderThere
    <3> QED  BY <1>1, <1>2, <2>0, <2>1, <2>2, <2>3, <3>2, <3>3 DEF Network!Stop, Network!Broken
  <2>5. CASE ProcEof(s) \/ ProcExit(s)
    <3>1. proc' = [proc EXCEPT ![s] = [proc[s] EXCEPT !.st = "dead", !.code = 0]]
      BY <2>5 DEF ProcEof, ProcExit, ProcDies
    <3>2. proc'[s].code = 0
      BY <1>0, <3>1 DEF ProcSet
    <3>3. role[s] \in {"produce", "endless", "copy", "head"}
      BY <1>0, <1>7, PipelineAssumption DEF PipelineAssumption, InRole
    <3>4. ProcEof(s) => Dry(s - 1) /\ role[s] # "endless"
      BY <1>0, <2>0 DEF ProcEof, Dry, ProcInStep, Generates
    <3>5. ProcExit(s) => role[s] \notin {"copy", "endless"}
      BY <1>0, <2>0 DEF ProcExit, InRole
    <3>6. role[s] # "endless" /\ (role[s] \in Network!ReadsAll => Network!InputEnded(s))
      BY <2>5, <3>3, <3>4, <3>5, InputEnds DEF Network!ReadsAll
    <3> QED  BY <1>1, <1>2, <2>0, <2>1, <2>2, <2>3, <3>2, <3>6 DEF Network!End
  <2> QED  BY <2>4, <2>5
<1> QED  BY <1>6, <1>7 DEF Shells

LEMMA ProcessNet ==
    ASSUME SafetyInv, StepInv, NetInv, NoNewEnds, NEW s \in Stage, Process(s)
    PROVE  Network!Next \/ UNCHANGED Network!network
<1>1. s \in Network!Stage
  BY DEF Network!Stage, Stage
<1> QED  BY <1>1, ProcReadNet, ProcWriteNet, ProcEndsNet DEF Process, Network!Next

-----------------------------------------------------------------------------
(* The thread between the turns.                                            *)

\* A step that ends no stage and begins none is seen, at most, in the output.
LEMMA ThreadGoesOnNet ==
    ASSUME SafetyInv, StepInv, NoNewEnds, UNCHANGED <<role, proc, feed>>, Answered' = Answered,
           pc = "returned" <=> pc' = "returned",
           \A t \in Shells : /\ co'[t] = "done" <=> co[t] = "done"
                             /\ co'[t] \in {"none", "fresh"} <=> co[t] \in {"none", "fresh"}
                             /\ status'[t] = status[t],
           \A t \in External : pc' = "build" /\ idx' <= t <=> pc = "build" /\ idx <= t,
           Drain \/ OutputTaken \/ UNCHANGED <<buf, want>>
    PROVE  Network!OutputTaken \/ UNCHANGED Network!network
<1>1. ASSUME NEW t \in Stage
      PROVE  /\ HoldsOrRuns(t)' <=> HoldsOrRuns(t)
             /\ HasBegun(t)' <=> HasBegun(t)
             /\ EndedWith(t)' = EndedWith(t)
  <2>1. Alive(t)' <=> Alive(t)
    BY DEF Alive
  <2>2. CASE t \in Shells
    <3>1. HoldsPair(t)' <=> HoldsPair(t)
      BY <2>2 DEF HoldsPair
    <3>2. t \notin External
      BY <2>2 DEF Shells
    <3> QED  BY <2>1, <2>2, <3>1, <3>2 DEF HoldsOrRuns, HasBegun, EndedWith
  <2>3. CASE t \in External
    <3>1. t \notin Shells
      BY <2>3 DEF Shells
    <3>2. HoldsPair(t)' <=> HoldsPair(t)
      BY <2>3, <3>1 DEF HoldsPair
    <3> QED  BY <2>1, <2>3, <3>1, <3>2 DEF HoldsOrRuns, HasBegun, EndedWith
  <2> QED  BY <2>2, <2>3 DEF Shells
<1>2. UNCHANGED <<Up, Begun, Codes>>
  BY <1>1, StagesKept
<1>3. Given' = Given
  BY ComingKept
<1> QED  BY <1>2, <1>3, DrainNet

LEMMA ThreadStillNet ==
    ASSUME SafetyInv, StepInv, NetInv, NoNewEnds,
           \/ Connect \/ EnterRun \/ Skip \/ Wake \/ EndPass \/ Reap \/ ReapDrain \/ OutputTaken
           \/ Resume /\ co[idx] \notin {"none", "fresh"}
    PROVE  Network!OutputTaken \/ UNCHANGED Network!network
<1>0. /\ idx \in Int /\ DOMAIN co = Stage /\ DOMAIN status = Stage
      /\ \A t \in Shells : t \in Stage /\ t \notin External
  BY Bounds DEF SafetyInv, TypeOK, ThreadOK, TasksOK, ProcOK, Shells
<1>1. UNCHANGED <<role, proc, feed>>
  BY DEF Connect, EnterRun, Skip, Wake, EndPass, Reap, ReapDrain, OutputTaken, Resume, pipes
<1>2. CASE ReapDrain \/ OutputTaken
  <2>1. UNCHANGED <<pc, idx, co, status>> /\ (Drain \/ OutputTaken)
    BY <1>2 DEF ReapDrain, OutputTaken, thread, tasks
  <2>2. Answered' = Answered
    BY <2>1, Unanswered
  <2> QED  BY <1>1, <2>1, <2>2, ThreadGoesOnNet
<1>3. CASE Skip \/ Wake \/ EndPass
  <2>1. /\ UNCHANGED <<co, status>> /\ (Drain \/ UNCHANGED <<buf, want>>)
        /\ pc \in {"pass", "sleep"} /\ pc' \in {"pass", "sleep", "reap"}
    BY <1>3 DEF Skip, Wake, EndPass, tasks, pipes
  <2>2. Answered' = Answered
    BY <2>1, NotYetAnswered
  <2> QED  BY <1>1, <2>1, <2>2, ThreadGoesOnNet
<1>4. CASE Connect
  <2>1. /\ idx \in Shells /\ idx' = idx + 1 /\ pc = "build" /\ pc' = pc /\ UNCHANGED <<status, buf, want>>
        /\ co' = [co EXCEPT ![idx] = "fresh"]
    BY <1>4 DEF Connect, pipes
  <2>2. co[idx] \in {"none", "fresh"} /\ co[idx] # "done"
    BY <2>1 DEF NetInv, Places, BegunInOrder
  <2>3. \A t \in Shells : /\ co'[t] = "done" <=> co[t] = "done"
                          /\ co'[t] \in {"none", "fresh"} <=> co[t] \in {"none", "fresh"}
    BY <1>0, <2>1, <2>2
  <2>4. \A t \in External : idx' <= t <=> idx <= t
    <3>1. \A t \in External : t \in Int /\ t # idx
      BY <1>0, <2>1, ProcessStages
    <3> QED  BY <1>0, <2>1, <3>1
  <2>5. Answered' = Answered
    BY <2>1, NotYetAnswered
  <2> QED  BY <1>1, <2>1, <2>3, <2>4, <2>5, ThreadGoesOnNet
<1>5. CASE EnterRun
  <2>1. pc = "build" /\ idx = N + 1 /\ pc' = "pass" /\ UNCHANGED <<co, status, buf, want>>
    BY <1>5 DEF EnterRun, tasks, pipes
  <2>2. \A t \in External : ~(idx <= t)
    BY <2>1, ProcessStages
  <2>3. Answered' = Answered
    BY <2>1, NotYetAnswered
  <2> QED  BY <1>1, <2>1, <2>2, <2>3, ThreadGoesOnNet
<1>6. CASE Reap
  <2>1. /\ pc = "reap" /\ pc' = pc /\ UNCHANGED <<co, buf, want>>
        /\ status' = [status EXCEPT ![idx] = IF idx \in External THEN proc[idx].code ELSE @]
    BY <1>6 DEF Reap, tasks, pipes
  <2>2. \A t \in Shells : status'[t] = status[t]
    BY <1>0, <2>1
  <2>3. Answered' = Answered
    BY <2>1, NotYetAnswered
  <2> QED  BY <1>1, <2>1, <2>2, <2>3, ThreadGoesOnNet
<1>7. CASE Resume /\ co[idx] \notin {"none", "fresh"}
  <2>1. /\ pc = "pass" /\ pc' = "run" /\ UNCHANGED <<status, buf, want>>
        /\ co[idx] # "done" /\ co' = [co EXCEPT ![idx] = "running"]
    BY <1>7 DEF Resume, Live, pipes
  <2>2. \A t \in Shells : /\ co'[t] = "done" <=> co[t] = "done"
                          /\ co'[t] \in {"none", "fresh"} <=> co[t] \in {"none", "fresh"}
    BY <1>0, <1>7, <2>1
  <2>3. Answered' = Answered
    BY <2>1, NotYetAnswered
  <2> QED  BY <1>1, <2>1, <2>2, <2>3, ThreadGoesOnNet
<1> QED  BY <1>2, <1>3, <1>4, <1>5, <1>6, <1>7

\* A stage begins.
LEMMA BeginNet ==
    ASSUME NEW s \in Stage, UNCHANGED <<role, buf, want, feed>>, Answered' = Answered,
           HoldsOrRuns(s), HoldsOrRuns(s)', ~HasBegun(s), HasBegun(s)', EndedWith(s)' = EndedWith(s),
           \A t \in Stage : t # s => /\ HoldsOrRuns(t)' <=> HoldsOrRuns(t)
                                     /\ HasBegun(t)' <=> HasBegun(t)
                                     /\ EndedWith(t)' = EndedWith(t)
    PROVE  Network!Begin(s)
<1>1. Up' = Up /\ s \in Up
  BY DEF Up
<1>2. Begun' = Begun \cup {s} /\ s \notin Begun
  BY DEF Begun
<1>3. Codes' = Codes
  BY DEF Codes
<1>4. Given' = Given
  BY GivenKept DEF Coming, Contents
<1> QED  BY <1>1, <1>2, <1>3, <1>4 DEF Network!Begin

LEMMA SpawnNet ==
    ASSUME SafetyInv, NetInv, Spawn
    PROVE  \E s \in Stage : Network!Begin(s)
<1>0. /\ pc = "build" /\ pc' = pc /\ idx \in External /\ idx' = idx + 1 /\ idx \in Stage /\ idx \notin Shells
      /\ proc' = [proc EXCEPT ![idx] = Start(role[idx], idx - 1, idx)] /\ DOMAIN proc = Stage
      /\ UNCHANGED <<role, co, status, buf, want, feed>> /\ idx \in Int
  BY ProcessStages DEF Spawn, tasks, pipes, SafetyInv, TypeOK, ProcOK
<1>s. PICK s \in Stage : s = idx
  BY <1>0
<1>1. proc[s].st = "none" /\ proc[s].code = 0
  BY <1>0, <1>s DEF NetInv, Places, BegunInOrder
<1>2. proc'[s].st = "alive" /\ proc'[s].code = 0 /\ \A t \in Stage : t # s => proc'[t] = proc[t]
  BY <1>0, <1>s DEF Start
<1>3. HoldsOrRuns(s) /\ HoldsOrRuns(s)' /\ ~HasBegun(s) /\ EndedWith(s)' = EndedWith(s)
  BY <1>0, <1>s, <1>1, <1>2 DEF HoldsOrRuns, HoldsPair, Alive, HasBegun, EndedWith
<1>4. HasBegun(s)'
  BY <1>0, <1>s, <1>2 DEF HasBegun
<1>5. ASSUME NEW t \in Stage, t # s
      PROVE  /\ HoldsOrRuns(t)' <=> HoldsOrRuns(t)
             /\ HasBegun(t)' <=> HasBegun(t)
             /\ EndedWith(t)' = EndedWith(t)
  <2>1. (Alive(t)' <=> Alive(t)) /\ proc'[t] = proc[t]
    BY <1>2, <1>5 DEF Alive
  <2>2. t \in Int
    BY Bounds
  <2>3. HoldsPair(t)' <=> HoldsPair(t)
    BY <1>0, <1>s, <1>5, <2>2 DEF HoldsPair
  <2> QED  BY <1>0, <1>s, <2>1, <2>3 DEF HoldsOrRuns, HasBegun, EndedWith
<1>6. Answered' = Answered
  BY <1>0, <1>s, NotYetAnswered
<1> QED  BY <1>0, <1>s, <1>3, <1>4, <1>5, <1>6, BeginNet

LEMMA FirstTurnNet ==
    ASSUME SafetyInv, Resume, co[idx] \in {"none", "fresh"}
    PROVE  Network!Begin(idx)
<1>0. /\ pc = "pass" /\ pc' = "run" /\ idx' = idx /\ idx \in Shells /\ idx \in Stage /\ idx \notin External
      /\ co' = [co EXCEPT ![idx] = "running"] /\ DOMAIN co = Stage /\ co[idx] # "done"
      /\ UNCHANGED <<role, proc, status, buf, want, feed>>
  BY DEF Resume, Live, Shells, pipes, SafetyInv, TypeOK, TasksOK
<1>1. co'[idx] = "running" /\ \A t \in Stage : t # idx => co'[t] = co[t]
  BY <1>0
<1>2. HoldsOrRuns(idx) /\ ~HasBegun(idx) /\ EndedWith(idx)' = EndedWith(idx)
  BY <1>0 DEF HoldsOrRuns, HoldsPair, HasBegun, EndedWith
<1>3. HoldsOrRuns(idx)' /\ HasBegun(idx)'
  BY <1>0, <1>1 DEF HoldsOrRuns, HoldsPair, HasBegun
<1>4. ASSUME NEW t \in Stage, t # idx
      PROVE  /\ HoldsOrRuns(t)' <=> HoldsOrRuns(t)
             /\ HasBegun(t)' <=> HasBegun(t)
             /\ EndedWith(t)' = EndedWith(t)
  <2>1. (Alive(t)' <=> Alive(t)) /\ (HoldsPair(t)' <=> HoldsPair(t))
    BY <1>0, <1>1, <1>4 DEF Alive, HoldsPair
  <2> QED  BY <1>0, <1>1, <1>4, <2>1 DEF HoldsOrRuns, HasBegun, EndedWith
<1>5. Answered' = Answered
  BY <1>0, NotYetAnswered
<1> QED  BY <1>0, <1>2, <1>3, <1>4, <1>5, BeginNet

\* A stage cannot be started: a shell stage has had no turn yet.
LEMMA AbandonNet ==
    ASSUME SafetyInv, NetInv, BuildFails
    PROVE  Network!Abandon
<1>0. /\ MayFail /\ pc = "build" /\ idx \in Stage /\ pc' = "returned"
      /\ UNCHANGED <<idx, role, co, status, buf, want, feed>>
      /\ \A t \in Stage : proc'[t] = IF Alive(t) THEN [proc[t] EXCEPT !.st = "dead", !.code = 137] ELSE proc[t]
  BY DEF BuildFails, tasks, pipes
<1>1. \A t \in Stage : Alive(t) => proc'[t].st = "dead" /\ proc'[t].code = 137
  <2> SUFFICES ASSUME NEW t \in Stage, Alive(t) PROVE proc'[t].st = "dead" /\ proc'[t].code = 137
    OBVIOUS
  <2>1. proc[t] \in ProcSet /\ proc'[t] = [proc[t] EXCEPT !.st = "dead", !.code = 137]
    BY <1>0 DEF SafetyInv, TypeOK, ProcOK
  <2> QED  BY <2>1 DEF ProcSet
<1>2. \A t \in Stage : ~Alive(t) => proc'[t] = proc[t]
  BY <1>0
<1>3. \A t \in Shells : ~HasBegun(t) /\ t \in Stage /\ t \notin External
  BY <1>0 DEF NetInv, Places, BegunInOrder, HasBegun, Shells
<1>4. Begun # Network!Stage
  <2>1. PICK t \in Shells : TRUE
    BY PipelineAssumption DEF PipelineAssumption
  <2> QED  BY <1>3, <2>1 DEF Begun, Network!Stage, Stage
<1>5. Up' = {}
  <2>1. \A t \in Stage : ~HoldsOrRuns(t)'
    BY <1>0, <1>1, <1>2 DEF HoldsOrRuns, HoldsPair, Alive
  <2> QED  BY <2>1 DEF Up
<1>6. ASSUME NEW t \in Stage
      PROVE  /\ HasBegun(t)' <=> HasBegun(t)
             /\ EndedWith(t)' = IF Network!Works(t) THEN 137 ELSE Codes[t]
  <2>1. Network!Works(t) <=> HoldsOrRuns(t) /\ HasBegun(t)
    BY DEF Network!Works, Up, Begun
  <2>2. CASE t \in Shells
    BY <1>0, <1>3, <2>1, <2>2 DEF HasBegun, EndedWith, Codes
  <2>3. CASE t \notin Shells
    <3>1. t \in External
      BY <2>3 DEF Shells
    <3>2. proc[t].st # "none" => ~HoldsPair(t)
      BY <1>0, <2>3, <3>1 DEF NetInv, Places, BegunInOrder, HoldsPair
    <3>3. Network!Works(t) <=> Alive(t)
      BY <2>1, <2>3, <3>2 DEF HoldsOrRuns, HasBegun, Alive
    <3> QED  BY <1>1, <1>2, <2>3, <3>1, <3>3 DEF HasBegun, EndedWith, Codes, Alive
  <2> QED  BY <2>2, <2>3
<1>7. Begun' = Begun
  BY <1>6 DEF Begun
<1>8. Codes' = [t \in Network!Stage |-> IF Network!Works(t) THEN Network!Killed ELSE Codes[t]]
  BY <1>6 DEF Codes, Network!Stage, Stage, Network!Killed
<1>9. Given' = Given
  BY <1>0, GivenKept DEF Coming, Contents
<1>10. Answered' = Answered
  <2>1. \A t \in Stage : t # N + 1
    BY Bounds DEF Stage
  <2> QED  BY <1>0, <2>1 DEF Answered
<1> QED  BY <1>0, <1>4, <1>5, <1>7, <1>8, <1>9, <1>10 DEF Network!Abandon

LEMMA AnswerNet ==
    ASSUME SafetyInv, StepInv, NetInv, NoNewEnds, Return
    PROVE  Network!Answer
<1>0. /\ pc = "reap" /\ idx = N + 1 /\ pc' = "returned" /\ Drain
      /\ UNCHANGED <<idx, role, co, status, proc, feed>>
  BY DEF Return, tasks
<1>1. IsIdle /\ \A t \in External : ~Alive(t) /\ status[t] = proc[t].code /\ proc[t].st # "none"
  BY <1>0, ProcessStages DEF NetInv, Places, EndedOnce, BegunInOrder
<1>2. \A t \in Shells : co[t] = "done" /\ ~Alive(t) /\ t \in Stage /\ t \notin External
  BY <1>1 DEF IsIdle, Live, Shells, StepInv, ProcInStep
<1>3. ASSUME NEW t \in Stage
      PROVE  /\ ~HoldsOrRuns(t) /\ ~HoldsOrRuns(t)' /\ HasBegun(t) /\ HasBegun(t)'
             /\ EndedWith(t) = status[t] /\ EndedWith(t)' = status[t]
  <2>1. CASE t \in Shells
    BY <1>0, <1>2, <2>1 DEF HoldsOrRuns, HoldsPair, Alive, HasBegun, EndedWith
  <2>2. CASE t \notin Shells
    <3>1. t \in External
      BY <2>2 DEF Shells
    <3> QED  BY <1>0, <1>1, <2>2, <3>1 DEF HoldsOrRuns, HoldsPair, Alive, HasBegun, EndedWith
  <2> QED  BY <2>1, <2>2
<1>4. Up = {} /\ Up' = {}
  BY <1>3 DEF Up
<1>5. Begun = Network!Stage /\ Begun' = Begun
  BY <1>3 DEF Begun, Network!Stage, Stage
<1>6. Codes = status /\ Codes' = Codes
  <2>1. status = [t \in Stage |-> status[t]]
    BY DEF SafetyInv, TypeOK, ProcOK
  <2> QED  BY <1>3, <2>1 DEF Codes
<1>7. Answered = <<>> /\ Answered' = status
  BY <1>0 DEF Answered
<1>8. Given' = Given
  BY <1>0, ComingKept
<1>9. buf' \in {buf, [buf EXCEPT ![N] = <<>>]}
  <2>1. SubSeq(buf[N], Len(buf[N]) + 1, Len(buf[N])) = <<>>
    <3>1. buf[N] \in Seq(Unit)
      BY Bounds, PipeType DEF SafetyInv, TypeOK
    <3> QED  BY <3>1
  <2> QED  BY <1>0, <2>1 DEF Drain, Take
<1> QED  BY <1>0, <1>4, <1>5, <1>6, <1>7, <1>8, <1>9 DEF Network!Answer

LEMMA InputNet ==
    ASSUME SafetyInv, StepInv, InputArrives
    PROVE  Network!InputArrives
<1> DEFINE k == Ahead(1, Feed - feed)
<1>0. /\ 0 \in 0..N /\ buf[0] \in Seq(Unit) /\ want[0] \in Unit /\ DOMAIN buf = 0..N
      /\ Feed \in Nat /\ feed \in Nat /\ 1 \in Unit
  BY Bounds, PipeType, PipelineAssumption DEF PipelineAssumption, SafetyInv, TypeOK, PipesOK, Unit
<1>1. /\ feed > 0 /\ feed' = feed - 1 /\ buf' = [buf EXCEPT ![0] = Append(buf[0], k)]
      /\ UNCHANGED <<role, pc, idx, co, status, proc, want>>
  BY DEF InputArrives, thread, tasks
<1>2. feed <= Feed /\ Coming(0) = k /\ Given[0] = k
  BY <1>0, <1>1 DEF StepInv, PipesInStep, Given
<1>3. k \in Unit
  <2>1. Feed - feed \in Nat
    BY <1>0, <1>2
  <2> QED  BY <1>0, <2>1, AheadType
<1>4. Len(buf'[0]) = Len(buf[0]) + 1 /\ Len(buf[0]) \in Nat
  BY <1>0, <1>1, <1>3
<1> HIDE DEF k
<1>5. Coming(0)' = Network!Carry(Given[0], 1)
  <2>1. Coming(0)' = Ahead(want[0], Len(buf[0]) + 1)
    BY <1>1, <1>4 DEF Coming, Contents
  <2>2. Ahead(want[0], Len(buf[0]) + 1) = Ahead(Ahead(want[0], Len(buf[0])), 1)
    BY <1>0, <1>4, AheadMore
  <2>3. Ahead(want[0], Len(buf[0])) = Given[0]
    BY <1>2 DEF Coming, Contents
  <2> QED  BY <2>1, <2>2, <2>3 DEF Network!Carry, Ahead
<1>6. \A q \in 0..N : q # 0 => Coming(q)' = Coming(q)
  BY <1>0, <1>1 DEF Coming, Contents
<1>7. Given' = [Given EXCEPT ![0] = Network!Carry(Given[0], 1)]
  <2>1. Given' = [q \in 0..N |-> Coming(q)']
    BY DEF Given
  <2> QED  BY <1>0, <1>5, <1>6, <2>1 DEF Given
<1>8. UNCHANGED <<Up, Begun, Codes>>
  BY <1>1 DEF Up, Begun, Codes, HoldsOrRuns, HoldsPair, Alive, HasBegun, EndedWith
<1>9. Answered' = Answered
  BY <1>1, Unanswered
<1> QED  BY <1>1, <1>2, <1>7, <1>8, <1>9 DEF Network!InputArrives

-----------------------------------------------------------------------------
(* The network implemented.                                                 *)

LEMMA InitNet == Init => Network!Init
<1> SUFFICES ASSUME Init PROVE Network!Init
  OBVIOUS
<1> USE PipelineAssumption DEF PipelineAssumption
<1>0. N \in Int /\ N > 0 /\ Feed \in Nat /\ Network!Stage = Stage
  BY Bounds DEF Network!Stage, Stage
<1>1. /\ pc = "build" /\ idx = 1
      /\ role \in [Stage -> RoleNames] /\ \A t \in Stage : role[t] \in Roles[t]
      /\ \A t \in Stage : co[t] = "none" /\ status[t] = 0 /\ proc[t] = NoProc
  BY DEF Init
<1>2. role \in [Stage -> UNION {Roles[t] : t \in Stage}]
  BY <1>1
<1>3. \A t \in Stage : HoldsOrRuns(t) /\ ~HasBegun(t) /\ EndedWith(t) = 0
  <2>1. \A t \in Stage : 1 <= t
    BY DEF Stage
  <2> QED  BY <1>1, <2>1 DEF HoldsOrRuns, HoldsPair, HasBegun, EndedWith, NoProc
<1>4. Up = Stage /\ Begun = {} /\ Codes = [t \in Stage |-> 0]
  BY <1>3 DEF Up, Begun, Codes
<1>5. Answered = <<>>
  BY <1>1 DEF Answered
<1>6. \A c, n : Network!Carry(c, n) = Ahead(c, n)
  BY DEF Network!Carry, Ahead
<1>7. \A p \in 0..N : want[p] = 1
  BY DEF Init
<1>8. Ahead(1, 0) = 1
  <2>1. 1 \in Unit /\ 0 \in Nat /\ 1 + 0 <= Chunk /\ 1 + 0 = 1
    BY DEF Unit
  <2> QED  BY <2>1, AheadWithin
<1>9. /\ feed \in 0..Feed
      /\ buf = [p \in 0..N |-> IF p = 0 THEN [i \in 1..(Feed - feed) |-> Ahead(1, i - 1)] ELSE <<>>]
  <2>1. CASE Terminal = "slow"
    <3>1. feed = Feed /\ buf = [p \in 0..N |-> <<>>]
      BY <2>1 DEF Init
    <3>2. [i \in 1..(Feed - feed) |-> Ahead(1, i - 1)] = <<>>
      BY <1>0, <3>1
    <3> QED  BY <1>0, <3>1, <3>2
  <2>2. CASE Terminal # "slow"
    <3>1. feed = 0 /\ buf = [p \in 0..N |-> IF p = 0 THEN [i \in 1..Feed |-> Ahead(1, i - 1)] ELSE <<>>]
      BY <2>2 DEF Init
    <3>2. Feed - 0 = Feed
      BY <1>0
    <3> QED  BY <1>0, <3>1, <3>2
  <2> QED  BY <2>1, <2>2
<1>10. Len(buf[0]) = Feed - feed /\ \A p \in 0..N : p # 0 => Len(buf[p]) = 0
  <2>1. buf[0] = [i \in 1..(Feed - feed) |-> Ahead(1, i - 1)] /\ Feed - feed \in Nat
    BY <1>0, <1>9
  <2>2. \A p \in 0..N : p # 0 => buf[p] = <<>>
    BY <1>9
  <2> QED  BY <2>1, <2>2
<1>11. Given = [p \in 0..N |-> IF p = 0 THEN Ahead(1, Feed - feed) ELSE 1]
  BY <1>0, <1>7, <1>8, <1>10 DEF Given, Coming, Contents
<1>12. buf = [p \in 0..N |-> IF p = 0 THEN [i \in 1..(Feed - feed) |-> Network!Carry(1, i - 1)] ELSE <<>>]
  BY <1>9 DEF Network!Carry, Ahead
<1>13. Given = [p \in 0..N |-> IF p = 0 THEN Network!Carry(1, Feed - feed) ELSE 1]
  BY <1>11 DEF Network!Carry, Ahead
<1> QED  BY <1>0, <1>1, <1>2, <1>4, <1>5, <1>9, <1>12, <1>13 DEF Network!Init

\* A step of the pipeline is one of the network, or is not seen there.
LEMMA StepNet ==
    SafetyInv /\ StepInv /\ NetInv /\ [Next]_vars => [Network!Next]_(Network!network)
<1> SUFFICES ASSUME SafetyInv, StepInv, NetInv, [Next]_vars
             PROVE  Network!Next \/ UNCHANGED Network!network
  OBVIOUS
<1>0. NoNewEnds
  BY NextEnds
<1>1. \A s \in Stage : s \in Network!Stage
  BY DEF Network!Stage, Stage
<1>2. ASSUME NEW s \in Shells, Body(s) PROVE Network!Next \/ UNCHANGED Network!network
  BY <1>0, <1>2, TurnNet
<1>3. ASSUME NEW s \in Stage, Process(s) PROVE Network!Next \/ UNCHANGED Network!network
  BY <1>0, <1>3, ProcessNet
<1>4. CASE Connect \/ EnterRun \/ Skip \/ Wake \/ EndPass \/ Reap \/ ReapDrain \/ OutputTaken
  BY <1>0, <1>4, ThreadStillNet DEF Network!Next
<1>5. CASE Resume
  <2>1. idx \in Stage
    BY <1>5 DEF Resume
  <2>2. CASE co[idx] \in {"none", "fresh"}
    BY <1>1, <1>5, <2>1, <2>2, FirstTurnNet DEF Network!Next
  <2>3. CASE co[idx] \notin {"none", "fresh"}
    BY <1>0, <1>5, <2>3, ThreadStillNet DEF Network!Next
  <2> QED  BY <2>2, <2>3
<1>6. CASE Spawn
  BY <1>1, <1>6, SpawnNet DEF Network!Next
<1>7. CASE BuildFails
  BY <1>7, AbandonNet DEF Network!Next
<1>8. CASE Return
  BY <1>0, <1>8, AnswerNet DEF Network!Next
<1>9. CASE InputArrives
  BY <1>9, InputNet DEF Network!Next
<1>10. CASE Returned \/ UNCHANGED vars
  <2>1. UNCHANGED <<role, pc, idx, co, status, proc, buf, want, feed>>
    BY <1>10 DEF Returned, vars, thread, tasks, pipes
  <2>2. Given' = Given
    BY <2>1, GivenKept DEF Coming, Contents
  <2>3. UNCHANGED <<Up, Begun, Codes>>
    BY <2>1 DEF Up, Begun, Codes, HoldsOrRuns, HoldsPair, Alive, HasBegun, EndedWith
  <2> QED  BY <2>1, <2>2, <2>3, SameNet, Unanswered
<1> QED  BY <1>2, <1>3, <1>4, <1>5, <1>6, <1>7, <1>8, <1>9, <1>10 DEF Next, Thread

\* Stages begin and end once, statuses are kept till they are asked for, and a
\* stage that reads to the end has met it before it ends.
THEOREM NetInvHolds == Spec => []NetInv
<1>1. Init => SafetyInv /\ StepInv /\ NetInv
  BY InitSafe, InitInStep, InitPlaces
<1>2. (SafetyInv /\ StepInv /\ NetInv) /\ [Next]_vars => (SafetyInv /\ StepInv /\ NetInv)'
  BY NextSafe, NextInStep, NextNet
<1> QED  BY <1>1, <1>2, PTL DEF Spec

\* The stages that take turns on one thread, and the processes beside it, are a
\* network of stages side by side.
THEOREM NetworkImplemented == Spec => ImplementsNetwork
<1>1. Init => Network!Init
  BY InitNet
<1>2. SafetyInv /\ StepInv /\ NetInv /\ [Next]_vars => [Network!Next]_(Network!network)
  BY StepNet
<1> QED  BY <1>1, <1>2, SafetyHolds, StepInvHolds, NetInvHolds, PTL
         DEF Spec, ImplementsNetwork, Network!Spec
=============================================================================
