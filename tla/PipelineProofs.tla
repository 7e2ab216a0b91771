---------------------------- MODULE PipelineProofs ----------------------------
(***************************************************************************)
(* What holds of a pipeline of any length, whatever its stages do: the      *)
(* theorems about Pipeline, checked by TLAPS.                               *)
(***************************************************************************)
EXTENDS Pipeline, TLAPS

LEMMA AheadType == \A k \in Unit, n \in Nat : Ahead(k, n) \in Unit
  BY PipelineAssumption DEF PipelineAssumption, Ahead, Unit

LEMMA SubSeqType ==
    ASSUME NEW S, NEW q \in Seq(S), NEW m \in 1..(Len(q) + 1), NEW n \in 0..Len(q)
    PROVE  SubSeq(q, m, n) \in Seq(S)
  OBVIOUS

LEMMA PipeType ==
    ASSUME PipesOK, NEW p \in 0..N
    PROVE  /\ buf[p] \in Seq(Unit) /\ Len(buf[p]) \in Nat
           /\ want[p] \in Unit
  BY DEF PipesOK

LEMMA TakeType ==
    ASSUME PipesOK, NEW p \in 0..N, NEW n \in Nat, n <= Len(buf[p]), Take(p, n), feed' \in Nat
    PROVE  PipesOK'
<1>1. buf[p] \in Seq(Unit) /\ Len(buf[p]) \in Nat /\ want[p] \in Unit
  BY PipeType
<1>2. SubSeq(buf[p], n + 1, Len(buf[p])) \in Seq(Unit)
  <2> DEFINE q == buf[p]
  <2>1. q \in Seq(Unit) /\ n + 1 \in 1..(Len(q) + 1) /\ Len(q) \in 0..Len(q)
    BY <1>1
  <2> HIDE DEF q
  <2>2. SubSeq(q, n + 1, Len(q)) \in Seq(Unit)
    BY <2>1, SubSeqType
  <2> QED  BY <2>2 DEF q
<1>3. Ahead(want[p], n) \in Unit
  BY <1>1, AheadType
<1> QED  BY <1>2, <1>3 DEF Take, PipesOK

LEMMA PutType ==
    ASSUME PipesOK, NEW p \in 0..N, NEW u \in Seq(Unit), Put(p, u), feed' \in Nat
    PROVE  PipesOK'
<1>1. buf[p] \in Seq(Unit) /\ want[p] \in Unit
  BY PipeType
<1>2. Len(u) \in Nat
  OBVIOUS
<1>3. Ahead(want[p], Len(u)) \in Unit
  BY <1>1, <1>2, AheadType
<1>4. buf[p] \o u \in Seq(Unit)
  BY <1>1
<1> QED  BY <1>3, <1>4 DEF Put, PipesOK

LEMMA DrainType ==
    ASSUME PipesOK, Drain, feed' \in Nat
    PROVE  PipesOK'
<1>1. N \in 0..N
  BY PipelineAssumption DEF PipelineAssumption
<1>2. Len(buf[N]) \in Nat /\ Len(buf[N]) <= Len(buf[N])
  BY <1>1, PipeType
<1>3. CASE Terminal = "pane"
  BY <1>1, <1>2, <1>3, TakeType DEF Drain
<1>4. CASE Terminal # "pane"
  BY <1>4 DEF Drain, PipesOK
<1> QED  BY <1>3, <1>4

LEMMA InitType == Init => TypeOK
<1> SUFFICES ASSUME Init PROVE TypeOK
  OBVIOUS
<1> USE PipelineAssumption DEF PipelineAssumption
<1>1. \A s \in Stage : Lines(role[s]) \in Nat
  BY DEF Lines
<1>2. [i \in 1..Feed |-> Ahead(1, i - 1)] \in Seq(Unit)
  <2>1. \A i \in 1..Feed : Ahead(1, i - 1) \in Unit
    BY AheadType DEF Unit
  <2> QED  BY <2>1
<1>3. PipesOK
  <2>1. \A p \in 0..N : buf[p] \in Seq(Unit)
    BY <1>2 DEF Init
  <2>2. buf \in [0..N -> Seq(Unit)]
    BY <2>1 DEF Init
  <2>3. want \in [0..N -> Unit] /\ feed \in Nat
    BY DEF Init, Unit
  <2> QED  BY <2>2, <2>3 DEF PipesOK
<1>4. ProcOK
  BY DEF Init, NoProc, ProcSet, ProcOK
<1>5. TasksOK
  BY DEF Init, TasksOK
<1>6. BodyOK
  BY <1>1 DEF Init, BodyOK
<1>7. ThreadOK
  <2>1. ran \in BOOLEAN
    BY DEF Init
  <2>2. idx \in 1..(N + 1)
    BY DEF Init
  <2> QED  BY <2>1, <2>2 DEF Init, ThreadOK
<1> QED  BY <1>3, <1>4, <1>5, <1>6, <1>7 DEF TypeOK

LEMMA YieldType ==
    ASSUME ThreadOK, TasksOK, idx \in Stage,
           NEW why \in {"ready", "readable", "writable"}, Yield(why), role' = role
    PROVE  ThreadOK' /\ TasksOK'
<1> USE PipelineAssumption DEF PipelineAssumption
<1>1. ThreadOK'
  BY DEF ThreadOK, Yield, Stage
<1>2. TasksOK'
  BY DEF TasksOK, Yield, fds
<1> QED  BY <1>1, <1>2

LEMMA LetGoType ==
    ASSUME ThreadOK, TasksOK, idx \in Stage,
           NEW saw \in {"off", "armed", "seen"}, LetGo(saw), role' = role
    PROVE  ThreadOK' /\ TasksOK'
<1> USE PipelineAssumption DEF PipelineAssumption
<1>1. ThreadOK'
  BY DEF ThreadOK, LetGo, Stage
<1>2. TasksOK'
  BY DEF TasksOK, LetGo, InstallShellFds
<1> QED  BY <1>1, <1>2

LEMMA StartType ==
    ASSUME NEW r \in RoleNames, NEW in \in 0..N, NEW out \in 0..N
    PROVE  Start(r, in, out) \in ProcSet
  BY PipelineAssumption DEF PipelineAssumption, Start, ProcSet, Generates

\* What an action leaves alone keeps its type.
LEMMA Frame ==
    /\ ThreadOK /\ UNCHANGED <<thread, role>> => ThreadOK'
    /\ TasksOK /\ UNCHANGED <<tasks, watches, fds>> => TasksOK'
    /\ BodyOK /\ UNCHANGED body => BodyOK'
    /\ ProcOK /\ UNCHANGED <<status, proc>> => ProcOK'
    /\ PipesOK /\ UNCHANGED pipes => PipesOK'
  BY DEF ThreadOK, TasksOK, BodyOK, ProcOK, PipesOK, thread, tasks, watches, fds, body, pipes

LEMMA BuildType ==
    ASSUME TypeOK, Connect \/ Spawn \/ BuildFails \/ EnterRun
    PROVE  TypeOK'
<1> USE PipelineAssumption DEF PipelineAssumption, TypeOK
<1>1. CASE Connect
  <2>1. ThreadOK'
    BY <1>1 DEF Connect, ThreadOK, Shells, Stage
  <2>2. TasksOK'
    BY <1>1 DEF Connect, TasksOK, watches, fds
  <2> QED  BY <1>1, <2>1, <2>2, Frame DEF Connect
<1>2. CASE Spawn
  <2>1. idx \in Stage /\ idx - 1 \in 0..N /\ idx \in 0..N /\ role[idx] \in RoleNames
    BY <1>2 DEF Spawn, ThreadOK, Stage
  <2>2. Start(role[idx], idx - 1, idx) \in ProcSet
    BY <2>1, StartType
  <2>3. ThreadOK'
    BY <1>2, <2>1 DEF Spawn, ThreadOK, Stage
  <2>4. ProcOK'
    BY <1>2, <2>1, <2>2 DEF Spawn, ProcOK
  <2> QED  BY <1>2, <2>3, <2>4, Frame DEF Spawn
<1>3. CASE BuildFails
  <2>1. \A s \in Stage : [proc[s] EXCEPT !.st = "dead", !.code = 137] \in ProcSet
    <3>1. \A s \in Stage : proc[s] \in ProcSet
      BY DEF ProcOK
    <3>2. \A r \in ProcSet : [r EXCEPT !.st = "dead", !.code = 137] \in ProcSet
      BY DEF ProcSet
    <3> QED  BY <3>1, <3>2
  <2>2. ProcOK'
    BY <1>3, <2>1 DEF BuildFails, ProcOK
  <2>3. ThreadOK'
    BY <1>3 DEF BuildFails, ThreadOK
  <2> QED  BY <1>3, <2>2, <2>3, Frame DEF BuildFails
<1>4. CASE EnterRun
  <2>0. ran' \in BOOLEAN
    BY <1>4, Zenon DEF EnterRun
  <2>1. ran' \in BOOLEAN /\ idx' \in 1..(N + 1)
    BY <1>4, <2>0 DEF EnterRun
  <2>2. ThreadOK'
    BY <1>4, <2>1 DEF EnterRun, ThreadOK
  <2> QED  BY <1>4, <2>2, Frame DEF EnterRun
<1> QED  BY <1>1, <1>2, <1>3, <1>4

LEMMA PassType ==
    ASSUME TypeOK, Skip \/ Resume \/ EndPass \/ Wake
    PROVE  TypeOK'
<1> USE PipelineAssumption DEF PipelineAssumption, TypeOK
<1>1. CASE Skip
  <2>1. ThreadOK'
    BY <1>1 DEF Skip, ThreadOK, Stage
  <2> QED  BY <1>1, <2>1, Frame DEF Skip
<1>2. CASE Resume
  <2>1. idx \in Stage /\ idx - 1 \in 0..N /\ idx \in 0..N
    BY <1>2 DEF Resume, ThreadOK, Stage
  <2>2. TasksOK'
    BY <1>2, <2>1 DEF Resume, SwapWatchIn, InstallFds, TasksOK
  <2>3. ThreadOK'
    BY <1>2 DEF Resume, ThreadOK
  <2> QED  BY <1>2, <2>2, <2>3, Frame DEF Resume
<1>3. CASE EndPass
  <2>0. ran' \in BOOLEAN
    BY <1>3, Zenon DEF EndPass
  <2>1. ThreadOK'
    <3>1. idx' \in 1..(N + 1) /\ pc' \in {"pass", "sleep", "reap"} /\ role' = role
      BY <1>3 DEF EndPass
    <3> QED  BY <2>0, <3>1 DEF ThreadOK
  <2>2. TasksOK'
    BY <1>3 DEF EndPass, InstallShellFds, TasksOK, tasks, watches, fds
  <2>3. PipesOK'
    BY <1>3, DrainType DEF EndPass, PipesOK
  <2> QED  BY <1>3, <2>1, <2>2, <2>3, Frame DEF EndPass
<1>4. CASE Wake
  <2>1. ThreadOK'
    BY <1>4 DEF Wake, ThreadOK
  <2> QED  BY <1>4, <2>1, Frame DEF Wake
<1> QED  BY <1>1, <1>2, <1>3, <1>4

LEMMA BodyTurn ==
    ASSUME ThreadOK, NEW s \in Shells, Body(s)
    PROVE  s \in Stage /\ idx = s /\ pc = "run"
  BY DEF Body, StopBroken, NextStatement, Finish, Panic, ReadUnit, ReadEof, ParkReading,
         WriteSome, WriteBroken, WriteFull, WriteGrid, SpawnChild, WaitChild, ChildDone,
         Running, Shells

\* The body moves to another place, with one line less when one was written.
LEMMA WrittenType ==
    ASSUME BodyOK, NEW s \in Stage, left[s] > 0,
           line' = [line EXCEPT ![s] = 0] \/ line' = line,
           left' = Written(s), Goto(s, "stmt")
    PROVE  BodyOK'
<1> USE PipelineAssumption DEF PipelineAssumption
<1>1. left' \in [Stage -> Nat]
  BY DEF BodyOK, Written
<1>2. \A t \in Stage : at'[t] \in {"read", "echo", "write"} => left'[t] > 0
  BY DEF BodyOK, Written, Goto
<1>3. line' \in [Stage -> 0..(Chunk - 1)]
  BY DEF BodyOK
<1> QED  BY <1>1, <1>2, <1>3 DEF BodyOK, Goto

LEMMA ReadType ==
    ASSUME TypeOK, NEW s \in Stage, idx = s, ReadUnit(s) \/ ReadEof(s) \/ ParkReading(s)
    PROVE  TypeOK'
<1> USE PipelineAssumption DEF PipelineAssumption, TypeOK
<1>1. CASE ReadUnit(s)
  <2>1. Take(fd0, 1) /\ fd0 \in 0..N /\ buf[fd0] # <<>> /\ feed' \in Nat
    BY <1>1 DEF ReadUnit, TasksOK, PipesOK
  <2>2. 1 <= Len(buf[fd0])
    BY <2>1, PipeType
  <2>3. PipesOK'
    BY <2>1, <2>2, TakeType
  <2>4. BodyOK'
    <3>1. line' \in [Stage -> 0..(Chunk - 1)]
      BY <1>1 DEF ReadUnit, BodyOK
    <3>2. at' \in [Stage -> {"stmt", "read", "echo", "write", "wait"}] /\ left' = left
      BY <1>1 DEF ReadUnit, BodyOK, Goto
    <3>3. \A t \in Stage : at'[t] \in {"read", "echo", "write"} => left'[t] > 0
      BY <1>1 DEF ReadUnit, Running, BodyOK, Goto
    <3> QED  BY <3>1, <3>2, <3>3 DEF BodyOK
  <2> QED  BY <1>1, <2>3, <2>4, Frame DEF ReadUnit
<1>2. CASE ReadEof(s)
  <2>1. BodyOK'
    BY <1>2 DEF ReadEof, BodyOK, Goto
  <2> QED  BY <1>2, <2>1, Frame DEF ReadEof
<1>3. CASE ParkReading(s)
  <2>1. Yield("readable") /\ role' = role
    BY <1>3 DEF ParkReading
  <2> QED  BY <1>3, <2>1, YieldType, Frame DEF ParkReading
<1> QED  BY <1>1, <1>2, <1>3

LEMMA WriteSomeType ==
    ASSUME TypeOK, NEW s \in Stage, idx = s, WriteSome(s)
    PROVE  TypeOK'
<1> USE PipelineAssumption DEF PipelineAssumption, TypeOK
<1> DEFINE n == IF Room(fd1) < Chunk - line[s] THEN Room(fd1) ELSE Chunk - line[s]
<1>1. fd1 \in 0..N /\ line[s] \in 0..(Chunk - 1) /\ Room(fd1) > 0
  BY DEF WriteSome, TasksOK, BodyOK
<1>2. Room(fd1) \in Int
  BY <1>1, PipeType DEF Room
<1>3. n \in 1..(Chunk - line[s])
  BY <1>1, <1>2
<1>4. Put(fd1, SubSeq(Line, line[s] + 1, line[s] + n)) /\ feed' \in Nat /\ role' = role
  BY DEF WriteSome, PipesOK
<1>5. Line \in Seq(Unit) /\ Len(Line) = Chunk
  BY DEF Line, Unit
<1>6. left[s] > 0
  BY DEF WriteSome, Running, BodyOK
<1>7. /\ WholeLine(Progress(s, n)) =>
            Yield("ready") /\ left' = Written(s) /\ line' = [line EXCEPT ![s] = 0]
              /\ Goto(s, "stmt")
      /\ ~WholeLine(Progress(s, n)) =>
            line' = [line EXCEPT ![s] = Progress(s, n)]
              /\ UNCHANGED <<thread, tasks, watches, fds, at, left>>
  BY DEF WriteSome
<1> HIDE DEF n
<1>8. SubSeq(Line, line[s] + 1, line[s] + n) \in Seq(Unit)
  BY <1>1, <1>3, <1>5, SubSeqType
<1>9. PipesOK'
  BY <1>1, <1>4, <1>8, PutType
<1>10. ProcOK'
  BY Frame DEF WriteSome
<1>11. CASE WholeLine(Progress(s, n))
  <2>1. ThreadOK' /\ TasksOK'
    BY <1>4, <1>7, <1>11, YieldType
  <2>2. BodyOK'
    BY <1>6, <1>7, <1>11, WrittenType
  <2> QED  BY <1>9, <1>10, <2>1, <2>2
<1>12. CASE ~WholeLine(Progress(s, n))
  <2>1. Progress(s, n) \in 0..(Chunk - 1)
    BY <1>1, <1>3, <1>12 DEF Progress, WholeLine
  <2>2. BodyOK'
    BY <1>7, <1>12, <2>1 DEF BodyOK
  <2>3. ThreadOK' /\ TasksOK'
    BY <1>4, <1>7, <1>12, Frame
  <2> QED  BY <1>9, <1>10, <2>2, <2>3
<1> QED  BY <1>11, <1>12

LEMMA WriteType ==
    ASSUME TypeOK, NEW s \in Stage, idx = s, WriteBroken(s) \/ WriteFull(s) \/ WriteGrid(s)
    PROVE  TypeOK'
<1> USE PipelineAssumption DEF PipelineAssumption, TypeOK
<1>1. CASE WriteBroken(s)
  <2>1. left[s] > 0
    BY <1>1 DEF WriteBroken, Running, BodyOK
  <2>2. BodyOK'
    BY <1>1, <2>1, WrittenType DEF WriteBroken
  <2>3. TasksOK'
    BY <1>1 DEF WriteBroken, TasksOK, tasks, fds
  <2> QED  BY <1>1, <2>2, <2>3, Frame DEF WriteBroken
<1>2. CASE WriteFull(s)
  <2>0. feed' \in Nat /\ role' = role
    BY <1>2 DEF WriteFull, PipesOK
  <2>1. CASE Terminal = "pane"
    <3>1. PipesOK'
      BY <1>2, <2>0, <2>1, DrainType DEF WriteFull
    <3> QED  BY <1>2, <2>1, <3>1, Frame DEF WriteFull
  <2>2. CASE Terminal # "pane"
    <3>1. ThreadOK' /\ TasksOK'
      BY <1>2, <2>0, <2>2, YieldType DEF WriteFull
    <3>2. PipesOK'
      BY <1>2, <2>2 DEF WriteFull, PipesOK
    <3> QED  BY <1>2, <3>1, <3>2, Frame DEF WriteFull
  <2> QED  BY <2>1, <2>2
<1>3. CASE WriteGrid(s)
  <2>1. left[s] > 0
    BY <1>3 DEF WriteGrid, Running, BodyOK
  <2>2. BodyOK'
    BY <1>3, <2>1, WrittenType DEF WriteGrid
  <2>3. PipesOK'
    BY <1>3, DrainType DEF WriteGrid, PipesOK
  <2> QED  BY <1>3, <2>2, <2>3, Frame DEF WriteGrid
<1> QED  BY <1>1, <1>2, <1>3

LEMMA StatementType ==
    ASSUME TypeOK, NEW s \in Stage, idx = s,
           StopBroken(s) \/ NextStatement(s) \/ Finish(s) \/ Panic(s)
    PROVE  TypeOK'
<1> USE PipelineAssumption DEF PipelineAssumption, TypeOK
<1>1. CASE StopBroken(s)
  <2>1. LetGo("off") /\ role' = role
    BY <1>1 DEF StopBroken
  <2>2. ProcOK'
    BY <1>1 DEF StopBroken, ProcOK
  <2> QED  BY <1>1, <2>1, <2>2, LetGoType, Frame DEF StopBroken
<1>2. CASE NextStatement(s)
  <2>1. BodyOK'
    BY <1>2 DEF NextStatement, Running, Goto, BodyOK
  <2> QED  BY <1>2, <2>1, Frame DEF NextStatement
<1>3. CASE Finish(s)
  <2>1. LetGo("off") /\ role' = role
    BY <1>3 DEF Finish
  <2>2. ProcOK'
    BY <1>3 DEF Finish, ProcOK
  <2> QED  BY <1>3, <2>1, <2>2, LetGoType, Frame DEF Finish
<1>4. CASE Panic(s)
  <2>1. LetGo(watch) /\ role' = role /\ watch \in {"off", "armed", "seen"}
    BY <1>4 DEF Panic, TasksOK
  <2> QED  BY <1>4, <2>1, LetGoType, Frame DEF Panic
<1> QED  BY <1>1, <1>2, <1>3, <1>4

LEMMA ChildType ==
    ASSUME TypeOK, NEW s \in Stage, idx = s, SpawnChild(s) \/ WaitChild(s) \/ ChildDone(s)
    PROVE  TypeOK'
<1> USE PipelineAssumption DEF PipelineAssumption, TypeOK
<1>1. CASE SpawnChild(s)
  <2>1. Start("copy", fd0, fd1) \in ProcSet
    BY StartType DEF TasksOK, RoleNames
  <2>2. ProcOK'
    BY <1>1, <2>1 DEF SpawnChild, ProcOK
  <2>3. BodyOK'
    BY <1>1 DEF SpawnChild, Goto, BodyOK
  <2> QED  BY <1>1, <2>2, <2>3, Frame DEF SpawnChild
<1>2. CASE WaitChild(s)
  <2>1. Yield("ready") /\ role' = role
    BY <1>2 DEF WaitChild
  <2> QED  BY <1>2, <2>1, YieldType, Frame DEF WaitChild
<1>3. CASE ChildDone(s)
  <2>1. LetGo("off") /\ role' = role
    BY <1>3 DEF ChildDone
  <2>2. proc[s].code \in {0, 137, 141}
    BY DEF ProcOK, ProcSet
  <2>3. ProcOK'
    BY <1>3, <2>2 DEF ChildDone, ProcOK
  <2> QED  BY <1>3, <2>1, <2>3, LetGoType, Frame DEF ChildDone
<1> QED  BY <1>1, <1>2, <1>3

LEMMA DiesType ==
    ASSUME ProcOK, NEW s \in Stage, NEW code \in {0, 137, 141}, ProcDies(s, code), status' = status
    PROVE  ProcOK'
<1>1. proc[s] \in ProcSet
  BY DEF ProcOK
<1>2. [proc[s] EXCEPT !.st = "dead", !.code = code] \in ProcSet
  BY <1>1 DEF ProcSet
<1>3. proc' = [proc EXCEPT ![s] = [proc[s] EXCEPT !.st = "dead", !.code = code]]
  BY <1>1 DEF ProcDies, ProcOK, ProcSet
<1> QED  BY <1>2, <1>3 DEF ProcOK

LEMMA ProcessType ==
    ASSUME TypeOK, NEW s \in Stage, Process(s)
    PROVE  TypeOK'
<1> USE PipelineAssumption DEF PipelineAssumption, TypeOK
<1>0. proc[s] \in ProcSet /\ proc[s].in \in 0..N /\ proc[s].out \in 0..N
  BY DEF ProcOK, ProcSet
<1>1. CASE ProcRead(s)
  <2>1. PipesOK'
    <3>1. buf[proc[s].in] \in Seq(Unit) /\ buf[proc[s].in] # <<>>
      BY <1>0, <1>1, PipeType DEF ProcRead
    <3>2. 1 <= Len(buf[proc[s].in])
      BY <3>1
    <3>3. feed' \in Nat /\ Take(proc[s].in, 1)
      BY <1>1 DEF ProcRead, PipesOK
    <3> QED  BY <1>0, <3>2, <3>3, TakeType
  <2>2. Head(buf[proc[s].in]) \in 0..Chunk
    <3>1. buf[proc[s].in] \in Seq(Unit) /\ buf[proc[s].in] # <<>>
      BY <1>0, <1>1, PipeType DEF ProcRead
    <3>2. Head(buf[proc[s].in]) \in Unit
      BY <3>1
    <3> QED  BY <3>2 DEF Unit
  <2>3. [proc[s] EXCEPT !.held = Head(buf[proc[s].in])] \in ProcSet
    BY <1>0, <2>2 DEF ProcSet
  <2>4. ProcOK'
    BY <1>1, <2>3 DEF ProcRead, ProcOK
  <2> QED  BY <1>1, <2>1, <2>4, Frame DEF ProcRead
<1>2. CASE ProcEof(s)
  BY <1>2, DiesType, Frame DEF ProcEof
<1>3. CASE ProcWrite(s)
  <2>1. proc[s].held \in Unit /\ proc[s].left \in 1..Quota
    BY <1>0, <1>3 DEF ProcWrite, ProcSet, Unit
  <2>2. PipesOK'
    <3>1. <<proc[s].held>> \in Seq(Unit) /\ feed' \in Nat
      BY <1>3, <2>1 DEF ProcWrite, PipesOK
    <3> QED  BY <1>0, <1>3, <3>1, PutType DEF ProcWrite
  <2>3. Ahead(proc[s].held, 1) \in 0..Chunk
    <3>1. Ahead(proc[s].held, 1) \in Unit
      BY <2>1, AheadType
    <3> QED  BY <3>1 DEF Unit
  <2>4. HeldNext(s) \in 0..Chunk /\ LeftNext(s) \in 0..Quota
    BY <2>1, <2>3 DEF HeldNext, LeftNext
  <2>5. [proc[s] EXCEPT !.held = HeldNext(s), !.left = LeftNext(s)] \in ProcSet
    BY <1>0, <2>4 DEF ProcSet
  <2>6. ProcOK'
    BY <1>3, <2>5 DEF ProcWrite, ProcOK
  <2> QED  BY <1>3, <2>2, <2>6, Frame DEF ProcWrite
<1>4. CASE ProcBroken(s)
  BY <1>4, DiesType, Frame DEF ProcBroken
<1>5. CASE ProcExit(s)
  BY <1>5, DiesType, Frame DEF ProcExit
<1> QED  BY <1>1, <1>2, <1>3, <1>4, <1>5 DEF Process

LEMMA ReapType ==
    ASSUME TypeOK, Reap \/ ReapDrain \/ Return
    PROVE  TypeOK'
<1> USE PipelineAssumption DEF PipelineAssumption, TypeOK
<1>1. CASE Reap
  <2>1. ThreadOK'
    BY <1>1 DEF Reap, ThreadOK, Stage
  <2>2. ProcOK'
    <3>1. \A s \in Stage : proc[s].code \in {0, 137, 141}
      BY DEF ProcOK, ProcSet
    <3> QED  BY <1>1, <3>1 DEF Reap, ProcOK
  <2> QED  BY <1>1, <2>1, <2>2, Frame DEF Reap
<1>2. CASE ReapDrain
  <2>1. PipesOK'
    BY <1>2, DrainType DEF ReapDrain, PipesOK
  <2> QED  BY <1>2, <2>1, Frame DEF ReapDrain
<1>3. CASE Return
  <2>1. PipesOK'
    BY <1>3, DrainType DEF Return, PipesOK
  <2>2. ThreadOK'
    BY <1>3 DEF Return, ThreadOK
  <2> QED  BY <1>3, <2>1, <2>2, Frame DEF Return
<1> QED  BY <1>1, <1>2, <1>3

LEMMA OutsideType ==
    ASSUME TypeOK, InputArrives \/ OutputTaken
    PROVE  TypeOK'
<1> USE PipelineAssumption DEF PipelineAssumption, TypeOK
<1>1. CASE InputArrives
  <2>1. PipesOK'
    <3>1. feed > 0 /\ feed' \in Nat
      BY <1>1 DEF InputArrives, PipesOK
    <3>2. Append(buf[0], Ahead(1, Feed - feed)) \in Seq(Unit)
      BY PipeType DEF Ahead, Unit, PipesOK
    <3> QED  BY <1>1, <3>1, <3>2 DEF InputArrives, PipesOK
  <2> QED  BY <1>1, <2>1, Frame DEF InputArrives
<1>2. CASE OutputTaken
  <2>1. N \in 0..N /\ 1 <= Len(buf[N]) /\ feed' \in Nat
    BY <1>2, PipeType DEF OutputTaken, PipesOK
  <2>2. PipesOK'
    BY <1>2, <2>1, TakeType DEF OutputTaken
  <2> QED  BY <1>2, <2>2, Frame DEF OutputTaken
<1> QED  BY <1>1, <1>2

LEMMA NextType == TypeOK /\ [Next]_vars => TypeOK'
<1> SUFFICES ASSUME TypeOK, [Next]_vars PROVE TypeOK'
  OBVIOUS
<1>1. CASE UNCHANGED vars
  BY <1>1, Frame DEF vars, TypeOK
<1>2. CASE Thread
  <2>1. ASSUME NEW s \in Shells, Body(s) PROVE TypeOK'
    BY <2>1, BodyTurn, StatementType, ReadType, WriteSomeType, WriteType, ChildType
       DEF Body, TypeOK
  <2> QED  BY <1>2, <2>1, BuildType, PassType, ReapType DEF Thread
<1>3. CASE \E s \in Stage : Process(s)
  BY <1>3, ProcessType
<1>4. CASE InputArrives \/ OutputTaken
  BY <1>4, OutsideType
<1> QED  BY <1>1, <1>2, <1>3, <1>4 DEF Next, Returned

\* Every variable of the pipeline keeps its type, and a stage that is at a line
\* has a line left to handle.
THEOREM TypeCorrect == Spec => []TypeOK
<1>1. Init => TypeOK
  BY InitType
<1>2. TypeOK /\ [Next]_vars => TypeOK'
  BY NextType
<1> QED  BY <1>1, <1>2, PTL DEF Spec

-----------------------------------------------------------------------------
(***************************************************************************)
(* The safety properties: whose reader stops a stage, whose watch is whose, *)
(* and who keeps a pipe open.                                              *)
(*                                                                         *)
(* SafetyInv is inductive.  Its steps fall into a few shapes as far as the  *)
(* properties can tell, one lemma each.  Under them all lies that a pipe    *)
(* whose reader is gone never gets one again.                               *)
(***************************************************************************)

\* What of the state the safety properties read, the processes apart.
control == <<pc, idx, co, broken, watch, outer, fds, status>>

\* Stage s holds the read end of its own input.
ReadsOwn(s) == HoldsPair(s) \/ fd0 = s - 1 \/ Alive(s)

LEMMA Readers ==
    ASSUME OnItsOwnPipes
    PROVE  \A p \in Stage : HasReader(p) <=> p = N \/ ReadsOwn(p + 1)
<1> USE PipelineAssumption DEF PipelineAssumption
<1> SUFFICES ASSUME NEW p \in Stage PROVE HasReader(p) <=> p = N \/ ReadsOwn(p + 1)
  OBVIOUS
<1>1. CASE p = N
  BY <1>1 DEF HasReader
<1>2. CASE p # N
  <2>1. p + 1 \in Stage /\ p < N /\ (p + 1) - 1 = p
    BY <1>2 DEF Stage
  <2>2. \A s \in Stage : Alive(s) => (proc[s].in = p <=> s = p + 1)
    BY DEF OnItsOwnPipes, Stage
  <2> QED  BY <1>2, <2>1, <2>2 DEF HasReader, ReadsOwn
<1> QED  BY <1>1, <1>2

LEMMA ReadersAfter ==
    ASSUME OnItsOwnPipes'
    PROVE  \A p \in Stage : HasReader(p)' <=> p = N \/ ReadsOwn(p + 1)'
<1> USE PipelineAssumption DEF PipelineAssumption
<1> SUFFICES ASSUME NEW p \in Stage PROVE HasReader(p)' <=> p = N \/ ReadsOwn(p + 1)'
  OBVIOUS
<1>1. CASE p = N
  BY <1>1 DEF HasReader
<1>2. CASE p # N
  <2>1. p + 1 \in Stage /\ p < N /\ (p + 1) - 1 = p
    BY <1>2 DEF Stage
  <2>2. \A s \in Stage : Alive(s)' => (proc'[s].in = p <=> s = p + 1)
    BY DEF OnItsOwnPipes, Stage
  <2> QED  BY <1>2, <2>1, <2>2 DEF HasReader, ReadsOwn
<1> QED  BY <1>1, <1>2

\* A step that gives no pipe a reader anew, and stops no stage whose reader is
\* there, keeps OnlyItsOwnReader.
LEMMA StoppedStep ==
    ASSUME SafetyInv, OnItsOwnPipes', pc # "returned",
           \A s \in Stage : s > 1 /\ ReadsOwn(s)' => ReadsOwn(s),
           \A s \in Shells : Stopped(s)' => Stopped(s) \/ ~HasReader(s)
    PROVE  OnlyItsOwnReader'
<1> SUFFICES ASSUME NEW s \in Shells, Stopped(s)' PROVE ~HasReader(s)'
  BY DEF OnlyItsOwnReader
<1>1. ~HasReader(s)
  BY DEF SafetyInv, OnlyItsOwnReader
<1>2. s \in Stage /\ OnItsOwnPipes
  BY DEF Shells, SafetyInv
<1>3. s # N /\ ~ReadsOwn(s + 1)
  BY <1>1, <1>2, Readers
<1>4. s + 1 \in Stage /\ s + 1 > 1
  BY <1>2, <1>3, PipelineAssumption DEF PipelineAssumption, Stage
<1>5. ~ReadsOwn(s + 1)'
  BY <1>3, <1>4
<1> QED  BY <1>2, <1>3, <1>5, ReadersAfter

\* The rest of the invariant once a step has kept its types and its pipes.
Kept == OnItsOwnPipes /\ outer # "seen" /\ WatchGivenBack /\ NothingKept

\* A process moves: it neither starts nor changes its pipes.
Moves == \A s \in Stage :
    /\ Alive(s)' => Alive(s)
    /\ proc'[s].in = proc[s].in /\ proc'[s].out = proc[s].out
    /\ proc'[s].code = 141 => proc[s].code = 141 \/ ~HasReader(s)

LEMMA QuietSafe ==
    ASSUME SafetyInv, UNCHANGED control, Moves
    PROVE  Kept' /\ OnlyItsOwnReader'
<1> USE DEF control, fds
<1>1. OnItsOwnPipes'
  BY DEF SafetyInv, OnItsOwnPipes, Moves
<1>2. Kept'
  BY <1>1 DEF SafetyInv, Kept, WatchGivenBack, NothingKept
<1>3. OnlyItsOwnReader'
  <2>1. CASE pc = "returned"
    BY <2>1 DEF OnlyItsOwnReader
  <2>2. CASE pc # "returned"
    <3>1. \A s \in Stage : ReadsOwn(s)' => ReadsOwn(s)
      BY DEF ReadsOwn, HoldsPair, Moves
    <3>2. \A s \in Shells : Stopped(s)' => Stopped(s) \/ ~HasReader(s)
      BY DEF Stopped, Moves, Shells
    <3> QED  BY <1>1, <2>2, <3>1, <3>2, StoppedStep
  <2> QED  BY <2>1, <2>2
<1> QED  BY <1>2, <1>3

\* The kinds of a turn's end.
LEMMA YieldSafe ==
    ASSUME SafetyInv, pc = "run", NEW why \in {"ready", "readable", "writable"}, Yield(why),
           UNCHANGED <<status, proc>>
    PROVE  Kept' /\ OnlyItsOwnReader'
<1> USE DEF fds
<1>0. idx \in Shells /\ idx \in Stage /\ co[idx] = "running" /\ fd0 = idx - 1 /\ fd1 = idx
  BY DEF SafetyInv, OnItsOwnPipes, Shells
<1>1. OnItsOwnPipes'
  BY DEF SafetyInv, OnItsOwnPipes, Yield, Alive
<1>2. co' = [co EXCEPT ![idx] = "suspended"] /\ broken' = [broken EXCEPT ![idx] = watch]
  BY DEF Yield
<1>3. DOMAIN co = Stage /\ DOMAIN broken = Stage
  BY DEF SafetyInv, TypeOK, TasksOK
<1>4. \A s \in Shells : co'[s] = "done" => s # idx /\ s \in Int
  BY <1>0, <1>2, <1>3 DEF Shells, Stage
<1>5. NothingKept'
  BY <1>0, <1>4 DEF NothingKept, Yield, Shells, Stage
<1>6. Kept'
  BY <1>1, <1>5 DEF SafetyInv, Kept, WatchGivenBack, Yield
<1>7. \A s \in Stage : ReadsOwn(s)' => ReadsOwn(s)
  BY <1>0, <1>2, <1>3 DEF ReadsOwn, HoldsPair, Yield, Alive
<1>8. \A s \in Shells : Stopped(s)' => Stopped(s) \/ ~HasReader(s)
  BY <1>0, <1>2, <1>3 DEF Stopped, Yield, Shells
<1> QED  BY <1>1, <1>6, <1>7, <1>8, StoppedStep

LEMMA LetGoSafe ==
    ASSUME SafetyInv, pc = "run", NEW saw \in {"off", "armed"}, LetGo(saw), proc' = proc,
           \A s \in Shells : status'[s] = 141 => status[s] = 141 \/ ~HasReader(s)
    PROVE  Kept' /\ OnlyItsOwnReader'
<1> USE DEF InstallShellFds
<1>0. idx \in Shells /\ idx \in Stage
  BY DEF SafetyInv, OnItsOwnPipes, Shells
<1>1. OnItsOwnPipes'
  BY DEF SafetyInv, OnItsOwnPipes, LetGo, Alive
<1>2. co' = [co EXCEPT ![idx] = "done"] /\ broken' = [broken EXCEPT ![idx] = saw]
  BY DEF LetGo
<1>3. DOMAIN co = Stage /\ DOMAIN broken = Stage
  BY DEF SafetyInv, TypeOK, TasksOK
<1>4. NothingKept'
  BY DEF NothingKept, LetGo, Shells, Stage
<1>5. Kept'
  BY <1>1, <1>4 DEF SafetyInv, Kept, WatchGivenBack, LetGo
<1>6. \A s \in Stage : s > 1 /\ ReadsOwn(s)' => ReadsOwn(s)
  BY <1>0, <1>2, <1>3 DEF ReadsOwn, HoldsPair, LetGo, Alive, Stage
<1>7. \A s \in Shells : Stopped(s)' => Stopped(s) \/ ~HasReader(s)
  BY <1>0, <1>2, <1>3 DEF Stopped, LetGo, Shells
<1> QED  BY <1>1, <1>5, <1>6, <1>7, StoppedStep

\* A turn that goes on, and takes note of a broken pipe at most.
LEMMA NoteSafe ==
    ASSUME SafetyInv, NEW s \in Shells, WriteBroken(s)
    PROVE  Kept' /\ OnlyItsOwnReader'
<1> USE DEF WriteBroken, Running, tasks, thread, fds
<1>0. pc = "run" /\ idx = s /\ ~HasReader(s)
  BY DEF SafetyInv, OnItsOwnPipes
<1>1. OnItsOwnPipes'
  BY DEF SafetyInv, OnItsOwnPipes, Alive
<1>2. Kept'
  BY <1>0, <1>1 DEF SafetyInv, Kept, WatchGivenBack, NothingKept
<1>3. \A t \in Stage : ReadsOwn(t)' => ReadsOwn(t)
  BY DEF ReadsOwn, HoldsPair, Alive
<1>4. \A t \in Shells : Stopped(t)' => Stopped(t) \/ ~HasReader(t)
  BY <1>0 DEF Stopped
<1> QED  BY <1>0, <1>1, <1>2, <1>3, <1>4, StoppedStep

LEMMA ForkSafe ==
    ASSUME SafetyInv, NEW s \in Shells, SpawnChild(s)
    PROVE  Kept' /\ OnlyItsOwnReader'
<1> USE DEF SpawnChild, Running, tasks, thread, fds, watches
<1>0. /\ pc = "run" /\ idx = s /\ s \in Stage /\ co[s] = "running"
      /\ fd0 = s - 1 /\ fd1 = s
  BY DEF SafetyInv, OnItsOwnPipes, Shells
<1>1. DOMAIN proc = Stage
  BY DEF SafetyInv, TypeOK, ProcOK
<1>2. \A t \in Stage : proc'[t] = IF t = s THEN Start("copy", fd0, fd1) ELSE proc[t]
  BY <1>1
<1>3. Start("copy", fd0, fd1).in = s - 1 /\ Start("copy", fd0, fd1).out = s
      /\ Start("copy", fd0, fd1).code = 0
  BY <1>0 DEF Start
<1>4. OnItsOwnPipes'
  BY <1>0, <1>2, <1>3 DEF SafetyInv, OnItsOwnPipes, Alive
<1>5. Kept'
  BY <1>0, <1>4 DEF SafetyInv, Kept, WatchGivenBack, NothingKept
<1>6. \A t \in Stage : ReadsOwn(t)' => ReadsOwn(t)
  BY <1>0, <1>2 DEF ReadsOwn, HoldsPair, Alive, Shells
<1>7. \A t \in Shells : Stopped(t)' => Stopped(t) \/ ~HasReader(t)
  BY <1>0, <1>2, <1>3 DEF Stopped, Shells
<1> QED  BY <1>0, <1>4, <1>5, <1>6, <1>7, StoppedStep

\* What the stages that are being connected, and the passes, do.
LEMMA ConnectSafe ==
    ASSUME SafetyInv, Connect
    PROVE  Kept' /\ OnlyItsOwnReader'
<1> USE DEF Connect, watches, fds
<1>0. /\ idx \in Stage /\ DOMAIN co = Stage /\ pc = "build" /\ idx \in Shells
      /\ co[idx] # "done"
  BY DEF SafetyInv, TypeOK, TasksOK, Shells, OnItsOwnPipes
<1>1. OnItsOwnPipes'
  BY DEF SafetyInv, OnItsOwnPipes, Alive
<1>2. Kept'
  BY <1>1 DEF SafetyInv, Kept, WatchGivenBack, NothingKept
<1>3. \A t \in Stage : ReadsOwn(t)' => ReadsOwn(t)
  <2> SUFFICES ASSUME NEW t \in Stage, ReadsOwn(t)' PROVE ReadsOwn(t)
    OBVIOUS
  <2>1. HoldsPair(t)' => HoldsPair(t)
    <3>1. CASE t \in Shells
      BY <1>0, <3>1 DEF HoldsPair
    <3>2. CASE t \notin Shells
      BY <1>0, <3>2 DEF HoldsPair, Stage
    <3> QED  BY <3>1, <3>2
  <2> QED  BY <2>1 DEF ReadsOwn, Alive
<1>4. \A t \in Shells : Stopped(t)' => Stopped(t) \/ ~HasReader(t)
  BY DEF Stopped
<1> QED  BY <1>0, <1>1, <1>2, <1>3, <1>4, StoppedStep

LEMMA SpawnSafe ==
    ASSUME SafetyInv, Spawn
    PROVE  Kept' /\ OnlyItsOwnReader'
<1> USE DEF Spawn, watches, fds, tasks
<1>0. /\ idx \in Stage /\ pc = "build" /\ idx \in External /\ DOMAIN proc = Stage
  BY PipelineAssumption DEF PipelineAssumption, SafetyInv, TypeOK, ProcOK
<1>1. \A t \in Stage : proc'[t] = IF t = idx THEN Start(role[idx], idx - 1, idx) ELSE proc[t]
  BY <1>0
<1>2. LET p == Start(role[idx], idx - 1, idx) IN p.in = idx - 1 /\ p.out = idx
  BY DEF Start
<1>3. OnItsOwnPipes'
  BY <1>0, <1>1, <1>2 DEF SafetyInv, OnItsOwnPipes, Alive
<1>4. Kept'
  BY <1>3 DEF SafetyInv, Kept, WatchGivenBack, NothingKept
<1>5. \A t \in Stage : ReadsOwn(t)' => ReadsOwn(t)
  BY <1>0, <1>1 DEF ReadsOwn, HoldsPair, Alive, Shells, Stage
<1>6. \A t \in Shells : Stopped(t)' => Stopped(t) \/ ~HasReader(t)
  BY <1>0, <1>1 DEF Stopped, Shells
<1> QED  BY <1>0, <1>3, <1>4, <1>5, <1>6, StoppedStep

LEMMA ResumeSafe ==
    ASSUME SafetyInv, Resume
    PROVE  Kept' /\ OnlyItsOwnReader'
<1> USE DEF Resume, SwapWatchIn, InstallFds, Live
<1>0. idx \in Stage /\ idx \in Shells /\ pc = "pass" /\ co[idx] # "done"
  BY DEF Shells
<1>1. DOMAIN co = Stage
  BY DEF SafetyInv, TypeOK, TasksOK
<1>2. OnItsOwnPipes'
  BY <1>0, <1>1 DEF SafetyInv, OnItsOwnPipes, Alive
<1>3. Kept'
  BY <1>0, <1>2 DEF SafetyInv, Kept, WatchGivenBack, NothingKept
<1>4. \A t \in Stage : ReadsOwn(t)' => ReadsOwn(t)
  BY <1>0, <1>1 DEF ReadsOwn, HoldsPair, Alive, Stage
<1>5. \A t \in Shells : Stopped(t)' => Stopped(t) \/ ~HasReader(t)
  BY <1>0 DEF Stopped
<1> QED  BY <1>0, <1>2, <1>3, <1>4, <1>5, StoppedStep

LEMMA PassSafe ==
    ASSUME SafetyInv, EnterRun \/ Skip \/ EndPass \/ Wake
    PROVE  Kept' /\ OnlyItsOwnReader'
<1> USE DEF EnterRun, Skip, EndPass, Wake, watches, fds, tasks, InstallShellFds
<1>0. pc \in {"build", "pass", "sleep"} /\ pc' \in {"pass", "sleep", "reap"}
  OBVIOUS
<1>1. UNCHANGED <<co, broken, watch, outer, status, proc>>
  OBVIOUS
<1>2. \/ fd0' = fd0 /\ fd1' = fd1
      \/ fd0' = 0 /\ fd1' = N
  OBVIOUS
<1>3. OnItsOwnPipes'
  BY <1>0, <1>1 DEF SafetyInv, OnItsOwnPipes, Alive
<1>4. NothingKept'
  BY <1>0, <1>1, <1>2 DEF SafetyInv, OnItsOwnPipes, NothingKept, Shells, Stage
<1>5. Kept'
  BY <1>0, <1>1, <1>3, <1>4 DEF SafetyInv, Kept, WatchGivenBack
<1>6. \A t \in Stage : t > 1 /\ ReadsOwn(t)' => ReadsOwn(t)
  BY <1>0, <1>1, <1>2 DEF ReadsOwn, HoldsPair, Alive, Stage
<1>7. \A t \in Shells : Stopped(t)' => Stopped(t) \/ ~HasReader(t)
  BY <1>0, <1>1 DEF Stopped
<1> QED  BY <1>0, <1>3, <1>5, <1>6, <1>7, StoppedStep

LEMMA ReapSafe ==
    ASSUME SafetyInv, Reap
    PROVE  Kept' /\ OnlyItsOwnReader'
<1> USE DEF Reap, watches, fds, tasks
<1>0. pc = "reap" /\ DOMAIN status = Stage
  BY DEF SafetyInv, TypeOK, ProcOK
<1>1. OnItsOwnPipes'
  BY <1>0 DEF SafetyInv, OnItsOwnPipes, Alive
<1>2. Kept'
  BY <1>0, <1>1 DEF SafetyInv, Kept, WatchGivenBack, NothingKept
<1>3. \A t \in Stage : ReadsOwn(t)' => ReadsOwn(t)
  BY <1>0 DEF ReadsOwn, HoldsPair, Alive
<1>4. \A t \in Shells : Stopped(t)' => Stopped(t) \/ ~HasReader(t)
  BY <1>0 DEF Stopped, Shells
<1> QED  BY <1>0, <1>1, <1>2, <1>3, <1>4, StoppedStep

LEMMA ReturnSafe ==
    ASSUME SafetyInv, BuildFails \/ Return
    PROVE  Kept' /\ OnlyItsOwnReader'
<1> USE DEF BuildFails, Return, watches, fds, tasks
<1>0. pc' = "returned" /\ pc # "run"
  OBVIOUS
<1>1. \A s \in Stage : Alive(s)' => proc'[s] = proc[s] /\ Alive(s)
  <2>1. CASE BuildFails
    <3>1. \A s \in Stage : Alive(s) => proc'[s].st = "dead"
      <4>1. \A r \in ProcSet : [r EXCEPT !.st = "dead", !.code = 137].st = "dead"
        BY DEF ProcSet
      <4>2. \A s \in Stage : proc[s] \in ProcSet
        BY DEF SafetyInv, TypeOK, ProcOK
      <4> QED  BY <2>1, <4>1, <4>2
    <3> QED  BY <2>1, <3>1 DEF Alive
  <2>2. CASE Return
    BY <2>2 DEF Alive
  <2> QED  BY <2>1, <2>2
<1>2. OnItsOwnPipes'
  BY <1>0, <1>1 DEF SafetyInv, OnItsOwnPipes, Alive
<1>3. Kept'
  BY <1>0, <1>2 DEF SafetyInv, Kept, WatchGivenBack, NothingKept
<1> QED  BY <1>0, <1>3 DEF OnlyItsOwnReader

\* A process that reads, writes or dies keeps its pipes; SIGPIPE kills it only
\* when its own reader is gone.
LEMMA ProcessSafe ==
    ASSUME SafetyInv, NEW s \in Stage, Process(s)
    PROVE  Kept' /\ OnlyItsOwnReader'
<1>0. UNCHANGED control
  BY DEF Process, ProcRead, ProcEof, ProcWrite, ProcBroken, ProcExit, control, thread, tasks,
         watches
<1>1. \A t \in Stage : proc[t] \in ProcSet
  BY DEF SafetyInv, TypeOK, ProcOK
<1>2. Alive(s) /\ DOMAIN proc = Stage
  BY DEF Process, ProcRead, ProcEof, ProcWrite, ProcBroken, ProcExit, SafetyInv, TypeOK, ProcOK
<1>3. ProcBroken(s) => ~HasReader(s)
  BY <1>2 DEF ProcBroken, SafetyInv, OnItsOwnPipes
<1> DEFINE Same(r) == r.in = proc[s].in /\ r.out = proc[s].out
           Marked(r) == r.code = 141 => proc[s].code = 141 \/ ~HasReader(s)
<1>4. ASSUME NEW code \in {0, 137, 141}, ProcDies(s, code), code = 141 => ~HasReader(s)
      PROVE  proc' = [proc EXCEPT ![s] = proc'[s]] /\ Same(proc'[s]) /\ Marked(proc'[s])
  <2>1. proc'[s] = [proc[s] EXCEPT !.st = "dead", !.code = code]
    BY <1>2, <1>4 DEF ProcDies
  <2> QED  BY <1>1, <1>2, <1>4, <2>1 DEF ProcDies, ProcSet
<1>5. proc' = [proc EXCEPT ![s] = proc'[s]] /\ Same(proc'[s]) /\ Marked(proc'[s])
  <2>1. CASE ProcRead(s)
    <3>1. proc'[s] = [proc[s] EXCEPT !.held = Head(buf[proc[s].in])]
      BY <1>2, <2>1 DEF ProcRead
    <3> QED  BY <1>1, <1>2, <2>1, <3>1 DEF ProcRead, ProcSet
  <2>2. CASE ProcWrite(s)
    <3>1. proc'[s] = [proc[s] EXCEPT !.held = HeldNext(s), !.left = LeftNext(s)]
      BY <1>2, <2>2 DEF ProcWrite
    <3> QED  BY <1>1, <1>2, <2>2, <3>1 DEF ProcWrite, ProcSet
  <2>3. CASE ProcEof(s) \/ ProcExit(s)
    BY <1>4, <2>3 DEF ProcEof, ProcExit
  <2>4. CASE ProcBroken(s)
    BY <1>3, <1>4, <2>4 DEF ProcBroken
  <2> QED  BY <2>1, <2>2, <2>3, <2>4 DEF Process
<1>6. Moves
  BY <1>2, <1>5 DEF Moves, Alive
<1> QED  BY <1>0, <1>6, QuietSafe

LEMMA TurnSafe ==
    ASSUME SafetyInv, NEW s \in Shells, Body(s)
    PROVE  Kept' /\ OnlyItsOwnReader'
<1>0. s \in Stage /\ idx = s /\ pc = "run" /\ DOMAIN status = Stage
  BY BodyTurn DEF SafetyInv, TypeOK, ProcOK
<1>1. CASE \/ NextStatement(s) \/ ReadUnit(s) \/ ReadEof(s) \/ WriteGrid(s)
           \/ WriteSome(s) /\ UNCHANGED <<thread, tasks, watches, fds>>
           \/ WriteFull(s) /\ UNCHANGED <<thread, tasks, watches, fds>>
  <2>1. UNCHANGED control /\ proc' = proc
    BY <1>1 DEF NextStatement, ReadUnit, ReadEof, WriteSome, WriteFull, WriteGrid, control,
                thread, tasks, watches
  <2>2. Moves
    BY <2>1 DEF Moves, Alive
  <2> QED  BY <2>1, <2>2, QuietSafe
<1>2. CASE \/ ParkReading(s) \/ WaitChild(s)
           \/ WriteSome(s) /\ Yield("ready")
           \/ WriteFull(s) /\ Yield("writable")
  <2>1. \E why \in {"ready", "readable", "writable"} : Yield(why)
    BY <1>2 DEF ParkReading, WaitChild
  <2>2. UNCHANGED <<status, proc>>
    BY <1>2 DEF ParkReading, WaitChild, WriteSome, WriteFull
  <2> QED  BY <1>0, <2>1, <2>2, YieldSafe
<1>3. CASE StopBroken(s)
  <2>1. ~HasReader(s)
    BY <1>0, <1>3 DEF SafetyInv, OnlyItsOwnReader, Stopped, StopBroken
  <2>2. LetGo("off") /\ proc' = proc /\ status' = [status EXCEPT ![s] = 141]
    BY <1>3 DEF StopBroken
  <2> QED  BY <1>0, <2>1, <2>2, LetGoSafe DEF Shells
<1>4. CASE Finish(s)
  <2>1. LetGo("off") /\ proc' = proc /\ status' = [status EXCEPT ![s] = 0]
    BY <1>4 DEF Finish
  <2> QED  BY <1>0, <2>1, LetGoSafe DEF Shells
<1>5. CASE Panic(s)
  <2>1. watch \in {"off", "armed"} /\ LetGo(watch) /\ proc' = proc /\ status' = status
    BY <1>5 DEF Panic, SafetyInv, TypeOK, TasksOK
  <2> QED  BY <1>0, <2>1, LetGoSafe
<1>6. CASE WriteBroken(s)
  BY <1>6, NoteSafe
<1>7. CASE SpawnChild(s)
  BY <1>7, ForkSafe
<1>8. CASE ChildDone(s)
  <2>1. LetGo("off") /\ proc' = proc /\ status' = [status EXCEPT ![s] = proc[s].code]
    BY <1>8 DEF ChildDone
  <2>2. proc[s].code = 141 => ~HasReader(s)
    BY <1>0 DEF SafetyInv, OnlyItsOwnReader, Stopped
  <2> QED  BY <1>0, <2>1, <2>2, LetGoSafe DEF Shells
<1>9. WriteSome(s) => Yield("ready") \/ UNCHANGED <<thread, tasks, watches, fds>>
  BY DEF WriteSome
<1>10. WriteFull(s) => Yield("writable") \/ UNCHANGED <<thread, tasks, watches, fds>>
  BY DEF WriteFull
<1> QED  BY <1>1, <1>2, <1>3, <1>4, <1>5, <1>6, <1>7, <1>8, <1>9, <1>10 DEF Body

LEMMA OtherSafe ==
    ASSUME SafetyInv, ReapDrain \/ InputArrives \/ OutputTaken \/ UNCHANGED vars
    PROVE  Kept' /\ OnlyItsOwnReader'
<1>1. UNCHANGED control /\ proc' = proc
  BY DEF ReapDrain, InputArrives, OutputTaken, vars, control, thread, tasks, watches
<1>2. Moves
  BY <1>1 DEF Moves, Alive
<1> QED  BY <1>1, <1>2, QuietSafe

LEMMA InitSafe == Init => SafetyInv
<1> SUFFICES ASSUME Init PROVE SafetyInv
  OBVIOUS
<1>1. TypeOK
  BY InitType
<1>2. OnItsOwnPipes
  BY DEF Init, OnItsOwnPipes, Alive, NoProc, Shells
<1>3. watch # "seen" /\ outer = watch
  BY PipelineAssumption DEF PipelineAssumption, Init
<1>4. WatchGivenBack /\ NothingKept
  BY <1>3 DEF Init, WatchGivenBack, NothingKept
<1>5. \A s \in Shells : ~Stopped(s)
  BY DEF Init, Stopped, NoProc, Shells
<1> QED  BY <1>1, <1>2, <1>3, <1>4, <1>5 DEF SafetyInv, OnlyItsOwnReader

LEMMA NextSafe == SafetyInv /\ [Next]_vars => SafetyInv'
<1> SUFFICES ASSUME SafetyInv, [Next]_vars PROVE SafetyInv'
  OBVIOUS
<1>1. TypeOK'
  BY NextType DEF SafetyInv
<1>2. Kept' /\ OnlyItsOwnReader'
  <2>1. CASE Thread
    BY <2>1, ConnectSafe, SpawnSafe, ReturnSafe, PassSafe, ResumeSafe, TurnSafe, ReapSafe,
       OtherSafe DEF Thread
  <2>2. CASE \E s \in Stage : Process(s)
    BY <2>2, ProcessSafe
  <2>3. CASE InputArrives \/ OutputTaken \/ Returned \/ UNCHANGED vars
    BY <2>3, OtherSafe DEF Returned
  <2> QED  BY <2>1, <2>2, <2>3 DEF Next
<1> QED  BY <1>1, <1>2 DEF SafetyInv, Kept

\* The inductive invariant of the pipeline's descriptors and watches.
THEOREM SafetyHolds == Spec => []SafetyInv
  BY InitSafe, NextSafe, PTL DEF Spec

\* A stage is stopped for a broken pipe, at a statement, with 141, or through
\* the SIGPIPE of its child, only when its own reader is gone.
THEOREM OnlyOwnReaderStops == Spec => []OnlyItsOwnReader
<1>1. SafetyInv => OnlyItsOwnReader
  BY DEF SafetyInv
<1> QED  BY <1>1, SafetyHolds, PTL

\* Between turns the thread has the watch of the construct that runs the
\* pipeline, with nothing noted on it.
THEOREM OuterWatchGivenBack == Spec => []WatchGivenBack
<1>1. SafetyInv => WatchGivenBack
  BY DEF SafetyInv
<1> QED  BY <1>1, SafetyHolds, PTL

\* While the scheduler looks for a stage to run, or sleeps, no finished stage's
\* pipe is kept open by the shell's own fd 0 and fd 1.
THEOREM NothingKeptOpen == Spec => []NothingKept
<1>1. SafetyInv => NothingKept
  BY DEF SafetyInv
<1> QED  BY <1>1, SafetyHolds, PTL
-----------------------------------------------------------------------------
(* Off a terminal the numbers 0 and 1 never stand for the pipe of the wrong  *)
(* stage: the two ends that a task has no number of its own for are the      *)
(* shell's own input, which is always ready, and its own output, which never *)
(* fills or is drained instead of waited for.                                *)

\* Nobody waits on the shell's own input or output.
OwnParks == feed = 0 /\ park[1] # "readable" /\ park[N] # "writable"

LEMMA Ends1N == 1 \in Stage /\ N \in Stage /\ N \in Nat
<1> USE PipelineAssumption DEF PipelineAssumption
<1>1. PICK s \in Shells : TRUE
  OBVIOUS
<1> QED  BY <1>1 DEF Shells, Stage

LEMMA InputReady ==
    ASSUME SafetyInv, feed = 0, pc = "run", idx = 1
    PROVE  fd0 = 0 /\ PollReadable(fd0)
<1>1. fd0 = 0 /\ fd1 = 1
  BY DEF SafetyInv, OnItsOwnPipes
<1>2. \A s \in Stage : Alive(s) => proc[s].out # 0
  BY DEF SafetyInv, OnItsOwnPipes, Stage
<1> QED  BY <1>1, <1>2 DEF PollReadable, HasWriter

LEMMA TurnParks ==
    ASSUME Terminal # "slow", SafetyInv, OwnParks, NEW s \in Shells, Body(s)
    PROVE  OwnParks'
<1>0. s \in Stage /\ idx = s /\ pc = "run" /\ DOMAIN park = Stage
  BY BodyTurn DEF SafetyInv, TypeOK, TasksOK
<1>1. feed' = feed
  BY DEF Body, StopBroken, NextStatement, Finish, Panic, ReadUnit, ReadEof, ParkReading, WriteSome,
         WriteBroken, WriteFull, WriteGrid, SpawnChild, WaitChild, ChildDone, pipes
<1>2. ASSUME NEW why \in {"ready", "readable", "writable"}, park' = [park EXCEPT ![s] = why],
             why = "readable" => s # 1, why = "writable" => s # N
      PROVE  OwnParks'
  BY <1>0, <1>1, <1>2, Ends1N DEF OwnParks
<1>3. CASE ParkReading(s)
  <2>1. s # 1
    BY <1>0, <1>3, InputReady DEF ParkReading, OwnParks
  <2>2. park' = [park EXCEPT ![s] = "readable"]
    BY <1>0, <1>3 DEF ParkReading, Yield
  <2> QED  BY <1>2, <2>1, <2>2
<1>4. CASE WriteFull(s)
  <2>1. CASE Terminal = "pane"
    BY <1>1, <1>4, <2>1 DEF WriteFull, OwnParks, tasks
  <2>2. CASE Terminal # "pane"
    <3>1. Room(fd1) = 0 /\ fd1 = s
      BY <1>0, <1>4 DEF WriteFull, SafetyInv, OnItsOwnPipes
    <3>2. s # N
      BY <2>2, <3>1, PipelineAssumption DEF PipelineAssumption, Room, Terminals
    <3>3. park' = [park EXCEPT ![s] = "writable"]
      BY <1>0, <1>4, <2>2 DEF WriteFull, Yield
    <3> QED  BY <1>2, <3>2, <3>3
  <2> QED  BY <2>1, <2>2
<1>5. CASE park' = park
  BY <1>1, <1>5 DEF OwnParks
<1>6. CASE park' = [park EXCEPT ![s] = "ready"]
  BY <1>2, <1>6
<1>7. ParkReading(s) \/ WriteFull(s) \/ park' = park \/ park' = [park EXCEPT ![s] = "ready"]
  BY <1>0 DEF Body, StopBroken, NextStatement, Finish, Panic, ReadUnit, ReadEof, WriteSome,
         WriteBroken, WriteGrid, SpawnChild, WaitChild, ChildDone, Yield, LetGo, tasks
<1> QED  BY <1>3, <1>4, <1>5, <1>6, <1>7

LEMMA NextParks ==
    ASSUME Terminal # "slow", SafetyInv, OwnParks, [Next]_vars
    PROVE  OwnParks'
<1>1. CASE \E s \in Shells : Body(s)
  BY <1>1, TurnParks
<1>2. CASE Connect \/ Spawn \/ BuildFails \/ EnterRun
  BY <1>2 DEF Connect, Spawn, BuildFails, EnterRun, OwnParks, tasks, pipes
<1>3. CASE Skip \/ Resume \/ EndPass \/ Wake
  BY <1>3 DEF Skip, Resume, EndPass, Wake, OwnParks, tasks, pipes
<1>4. CASE Reap \/ ReapDrain \/ Return
  BY <1>4 DEF Reap, ReapDrain, Return, OwnParks, tasks, pipes
<1>5. CASE \E s \in Stage : Process(s)
  BY <1>5 DEF Process, ProcRead, ProcEof, ProcWrite, ProcBroken, ProcExit, OwnParks, tasks, pipes
<1>6. CASE InputArrives \/ OutputTaken \/ Returned \/ UNCHANGED vars
  BY <1>6 DEF InputArrives, OutputTaken, Returned, vars, OwnParks, tasks, pipes
<1> QED  BY <1>1, <1>2, <1>3, <1>4, <1>5, <1>6 DEF Next, Thread

LEMMA InitParks ==
    ASSUME Terminal # "slow", Init
    PROVE  OwnParks
  BY Ends1N DEF Init, OwnParks

\* Where a task waits it has a number of its own.
LEMMA WokenOnce ==
    ASSUME OwnParks, [Next]_vars, NEW s \in Shells, pc = "pass", pc' = "run", idx = s
    PROVE  OwnReady(s)
<1>1. Resume
  BY BodyTurn DEF Next, Thread, Connect, Spawn, BuildFails, EnterRun, Skip, EndPass, Wake, Body,
     StopBroken, NextStatement, Finish, Panic, ReadUnit, ReadEof, ParkReading, WriteSome,
     WriteBroken, WriteFull, WriteGrid, SpawnChild, WaitChild, ChildDone, Running, Reap, ReapDrain,
     Return, Process, ProcRead, ProcEof, ProcWrite, ProcBroken, ProcExit, InputArrives,
     OutputTaken, Returned, vars, thread
<1>2. CanRun(s) /\ s \in 1..N
  BY <1>1 DEF Resume, Shells, Stage
<1>3. park[s] = "readable" => s > 1
  BY <1>2 DEF OwnParks
<1>4. park[s] = "writable" => s < N
  BY <1>2, Ends1N DEF OwnParks
<1> QED  BY <1>2, <1>3, <1>4 DEF CanRun, OwnReady, OwnIn, OwnOut

\* Off a terminal a parked stage is resumed only when its own pipe is ready.
THEOREM OffATerminalWokenByItsOwn ==
    ASSUME Terminal # "slow"
    PROVE  Spec => WokenByItsOwn
<1>1. Init => SafetyInv /\ OwnParks
  BY InitSafe, InitParks
<1>2. SafetyInv /\ OwnParks /\ [Next]_vars => (SafetyInv /\ OwnParks)'
  BY NextSafe, NextParks
<1>3. OwnParks /\ [Next]_vars => [\A s \in Shells : pc = "pass" /\ pc' = "run" /\ idx = s => OwnReady(s)]_vars
  BY WokenOnce
<1> QED  BY <1>1, <1>2, <1>3, PTL DEF Spec, WokenByItsOwn
=============================================================================
