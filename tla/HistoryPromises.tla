----------------------------- MODULE HistoryPromises -----------------------------
(***************************************************************************)
(* What History promises of its entries, for any number of shells, sessions *)
(* and entries and any history_size: an entry's parent is the command       *)
(* before it where it was typed, and the newest entries are in the file.    *)
(***************************************************************************)
EXTENDS HistoryProofs

-----------------------------------------------------------------------------
(* The inductive invariants. *)

\* A parent other than 0 is only written with an entry that is recorded, and the
\* newest node of a chain is a predecessor exactly when this session, or the one
\* it was forked from, recorded it.
ParentInv ==
    /\ ranAfter \in Seq(Nat) /\ Len(ranAfter) = Len(ledger)
    /\ last \in [Session -> Nat]
    /\ \A k \in 1..Len(ledger) : ledger[k].parent = ranAfter[k]
    /\ \A s \in Session : last[s] = Predecessor(chain[s])
    /\ \A s \in Session : \A i \in 1..Len(chain[s]) :
           LET n == chain[s][i]
           IN n.parent # 0 => n.id \in 1..Len(ledger) /\ n.parent = ranAfter[n.id]

\* Every line after an entry's, whole or what is left of one, stands for an
\* entry recorded later.
Spaced(s, after) == \A i \in 1..Len(s) : s[i] # Fragment => Len(ledger) - s[i] >= Len(s) - i + after

\* The file is spaced; so is what compact is about to write, with what was
\* appended after it since the file was cut.
SpaceInv ==
    /\ Spaced(file, 0)
    /\ \A p \in Shell : at[p] = "cut" => Spaced(out[p], 0)
    /\ \A p \in Shell : at[p] = "write" => Spaced(out[p], Len(file))

\* No list is longer than what was recorded, what compact writes is within the
\* bound, and a session that is not there has counted nothing.
GrowthInv ==
    /\ abandoned \in Nat
    /\ Len(ledger) <= MaxEntries
    /\ Len(file) <= Len(ledger)
    /\ \A p \in Shell : at[p] = "cut" => Len(out[p]) <= Limit /\ Len(out[p]) <= Len(ledger)
    /\ \A p \in Shell : at[p] = "write" => Len(out[p]) <= Limit /\ Len(out[p]) + Len(file) <= Len(ledger)
    /\ \A s \in Session : shell[s] = Nobody => appended[s] = 0
    /\ GrowthAccounted

-----------------------------------------------------------------------------
(* Parents. *)

LEMMA ParentsAreTrue == ParentInv => ParentsTrue
  BY DEF ParentInv, ParentsTrue, In

LEMMA InitParents == Init => ParentInv
<1> SUFFICES ASSUME Init PROVE ParentInv
  OBVIOUS
<1>1. PICK n \in 0..Earlier : \E c \in [1..n -> Command] :
        /\ ledger = [k \in 1..n |-> [cmd |-> c[k], parent |-> 0]]
        /\ file = [k \in 1..n |-> k]
        /\ ranAfter = [k \in 1..n |-> 0]
  BY Zenon DEF Init
<1>2. n \in Nat /\ Len(ledger) = n /\ ranAfter = [k \in 1..n |-> 0]
      /\ \A k \in 1..n : ledger[k].parent = 0
  BY <1>1, HistoryAssumption DEF HistoryAssumption
<1>3. ranAfter \in Seq(Nat) /\ Len(ranAfter) = n
  BY <1>2
<1>4. \A s \in Session : chain[s] = <<>> /\ last[s] = 0 /\ Len(chain[s]) = 0
  BY DEF Init
<1>5. last \in [Session -> Nat]
  BY DEF Init
<1> QED  BY <1>2, <1>3, <1>4, <1>5 DEF ParentInv, Predecessor

\* A step that records nothing, and gives every session the chain it had, that of
\* another session or none.
LEMMA ParentsKept ==
    ASSUME ParentInv, UNCHANGED <<ledger, ranAfter>>,
           \A s \in Session : \/ \E t \in Session : chain'[s] = chain[t] /\ last'[s] = last[t]
                              \/ chain'[s] = <<>> /\ last'[s] = 0,
           last' \in [Session -> Nat]
    PROVE  ParentInv'
<1>1. ASSUME NEW s \in Session
      PROVE  /\ last'[s] = Predecessor(chain'[s])
             /\ \A i \in 1..Len(chain'[s]) :
                  chain'[s][i].parent # 0 =>
                      /\ chain'[s][i].id \in 1..Len(ledger)
                      /\ chain'[s][i].parent = ranAfter[chain'[s][i].id]
  <2>1. CASE chain'[s] = <<>> /\ last'[s] = 0
    BY <2>1 DEF Predecessor
  <2>2. ASSUME NEW t \in Session, chain'[s] = chain[t] /\ last'[s] = last[t]
        PROVE  /\ last'[s] = Predecessor(chain'[s])
               /\ \A i \in 1..Len(chain'[s]) :
                    chain'[s][i].parent # 0 =>
                        /\ chain'[s][i].id \in 1..Len(ledger)
                        /\ chain'[s][i].parent = ranAfter[chain'[s][i].id]
    BY <2>2 DEF ParentInv
  <2> QED  BY <2>1, <2>2
<1>2. \A s \in Session : Predecessor(chain[s])' = Predecessor(chain'[s])
  BY DEF Predecessor
<1> QED  BY <1>1, <1>2 DEF ParentInv

LEMMA LoadParents ==
    ASSUME IInv, ParentInv, NEW p \in Shell, NEW s \in Session, Load(p, s)
    PROVE  ParentInv'
<1> DEFINE w == NewestOf(file, Limit)
           c == Loaded(w)
<1>1. w \in Seq(Nat) /\ Known(w)
  BY NewestFacts, NewestOrdered, HistoryAssumption DEF IInv, TypeOK, Ordered, HistoryAssumption
<1>2. /\ chain' = [chain EXCEPT ![s] = c] \/ chain' = [chain EXCEPT ![s] = <<>>]
      /\ last' = [last EXCEPT ![s] = 0]
      /\ UNCHANGED <<ledger, ranAfter>>
  BY DEF Load
<1> HIDE DEF w
<1>3. Len(c) = Len(w) /\ \A i \in 1..Len(w) : c[i] = Node(w, i)
  BY <1>1 DEF Loaded
<1>4. ASSUME NEW i \in 1..Len(w), c[i].parent # 0
      PROVE  c[i].id \in 1..Len(ledger) /\ c[i].parent = ranAfter[c[i].id]
  <2> DEFINE p0 == IF w[i] = Fragment THEN 0 ELSE ledger[w[i]].parent
         found == IF p0 \in In(SubSeq(w, 1, i - 1)) THEN p0 ELSE 0
  <2>1. c[i] = [id |-> w[i], live |-> FALSE, parent |-> found]
    BY <1>3 DEF Node
  <2>2. c[i].id = w[i] /\ c[i].parent = p0 /\ p0 # 0
    <3>1. found = p0 \/ found = 0
      OBVIOUS
    <3> HIDE DEF found, c
    <3> QED  BY <1>4, <2>1, <3>1
  <2>3. w[i] # 0 /\ p0 = ledger[w[i]].parent
    BY <2>2 DEF Fragment
  <2>4. w[i] \in 1..Len(ledger)
    BY <1>1, <2>3 DEF Known
  <2> QED  BY <2>2, <2>3, <2>4 DEF ParentInv
<1>5. Predecessor(c) = 0
  <2>1. CASE c = <<>>
    BY <2>1 DEF Predecessor
  <2>2. CASE Len(w) \in 1..Len(w)
    <3>1. c[Len(c)] = Node(w, Len(w))
      BY <1>3, <2>2
    <3>2. c[Len(c)].live = FALSE
      BY <3>1 DEF Node
    <3> QED  BY <3>2, Zenon DEF Predecessor
  <2>3. c = <<>> \/ Len(w) \in 1..Len(w)
    <3>1. c \in Seq(NodeType)
      BY <1>1, LoadedType
    <3> HIDE DEF c
    <3> QED  BY <1>1, <1>3, <3>1
  <2> QED  BY <2>1, <2>2, <2>3
<1> HIDE DEF c
<1>6. ASSUME NEW t \in Session
      PROVE  /\ last'[t] = Predecessor(chain'[t])
             /\ \A i \in 1..Len(chain'[t]) :
                  chain'[t][i].parent # 0 =>
                      /\ chain'[t][i].id \in 1..Len(ledger)
                      /\ chain'[t][i].parent = ranAfter[chain'[t][i].id]
  <2>1. CASE t = s
    <3>1. (chain'[t] = c \/ chain'[t] = <<>>) /\ last'[t] = 0
      BY <1>2, <2>1 DEF IInv, TypeOK, ParentInv
    <3>2. CASE chain'[t] = c
      BY <1>3, <1>4, <1>5, <3>1, <3>2
    <3>3. CASE chain'[t] = <<>>
      BY <3>1, <3>3 DEF Predecessor
    <3> QED  BY <3>1, <3>2, <3>3
  <2>2. CASE t # s
    <3>1. chain'[t] = chain[t] /\ last'[t] = last[t]
      BY <1>2, <2>2 DEF IInv, TypeOK, ParentInv
    <3> QED  BY <3>1 DEF ParentInv
  <2> QED  BY <2>1, <2>2
<1>7. \A t \in Session : Predecessor(chain[t])' = Predecessor(chain'[t])
  BY DEF Predecessor
<1>8. last' \in [Session -> Nat]
  BY <1>2 DEF ParentInv
<1> QED  BY <1>2, <1>6, <1>7, <1>8 DEF ParentInv

LEMMA RecordParents ==
    ASSUME IInv, ParentInv, NEW s \in Session, NEW cmd \in Command, Record(s, cmd)
    PROVE  ParentInv'
<1> DEFINE id == Len(ledger) + 1
           parent == Predecessor(chain[s])
           node == [id |-> id, live |-> TRUE, parent |-> parent]
           c == Append(chain[s], node)
<1>1. /\ chain' = [chain EXCEPT ![s] = c]
      /\ ledger' = Append(ledger, [cmd |-> cmd, parent |-> parent])
      /\ ranAfter' = Append(ranAfter, last[s])
      /\ last' = [last EXCEPT ![s] = id]
  BY DEF Record
<1>2. parent = last[s] /\ last[s] \in Nat /\ Len(ledger) \in Nat /\ id \in Nat
  BY DEF ParentInv, IInv, TypeOK
<1>3. /\ ranAfter' \in Seq(Nat) /\ Len(ranAfter') = id /\ Len(ledger') = id
      /\ ranAfter'[id] = last[s] /\ \A k \in 1..Len(ledger) : ranAfter'[k] = ranAfter[k]
  BY <1>1, <1>2 DEF ParentInv, IInv, TypeOK
<1>4. /\ ledger'[id].parent = parent
      /\ \A k \in 1..Len(ledger) : ledger'[k] = ledger[k]
  BY <1>1 DEF IInv, TypeOK
<1>5. \A k \in 1..Len(ledger') : ledger'[k].parent = ranAfter'[k]
  <2>1. \A k \in 1..Len(ledger') : k = id \/ k \in 1..Len(ledger)
    BY <1>2, <1>3
  <2> QED  BY <1>2, <1>3, <1>4, <2>1 DEF ParentInv
<1>6. /\ Len(c) = Len(chain[s]) + 1 /\ c[Len(c)] = node /\ c # <<>>
      /\ \A i \in 1..Len(c) : c[i] = node \/ (i \in 1..Len(chain[s]) /\ c[i] = chain[s][i])
  <2>1. chain[s] \in Seq(NodeType)
    BY DEF IInv, TypeOK
  <2>2. node \in NodeType
    BY <1>2 DEF NodeType
  <2> HIDE DEF node
  <2>3. /\ Len(c) = Len(chain[s]) + 1 /\ c[Len(c)] = node
        /\ \A i \in 1..Len(chain[s]) : c[i] = chain[s][i]
    BY <2>1, <2>2
  <2>4. c # <<>> /\ \A i \in 1..Len(c) : i = Len(c) \/ i \in 1..Len(chain[s])
    BY <2>1, <2>2
  <2> HIDE DEF c
  <2> QED  BY <2>3, <2>4
<1>7. node.id = id /\ node.parent = parent /\ node.live = TRUE
  OBVIOUS
<1> HIDE DEF node, c, parent
<1>8. ASSUME NEW t \in Session
      PROVE  /\ last'[t] = Predecessor(chain'[t])
             /\ \A i \in 1..Len(chain'[t]) :
                  chain'[t][i].parent # 0 =>
                      /\ chain'[t][i].id \in 1..Len(ledger')
                      /\ chain'[t][i].parent = ranAfter'[chain'[t][i].id]
  <2>1. CASE t = s
    <3>1. chain'[t] = c /\ last'[t] = id
      BY <1>1, <2>1 DEF IInv, TypeOK, ParentInv
    <3>2. Predecessor(c) = id
      BY <1>6, <1>7 DEF Predecessor
    <3>3. ASSUME NEW i \in 1..Len(c), c[i].parent # 0
          PROVE  c[i].id \in 1..Len(ledger') /\ c[i].parent = ranAfter'[c[i].id]
      <4>1. CASE c[i] = node
        BY <1>2, <1>3, <1>7, <4>1
      <4>2. CASE i \in 1..Len(chain[s]) /\ c[i] = chain[s][i]
        <5>1. c[i].id \in 1..Len(ledger) /\ c[i].parent = ranAfter[c[i].id]
          BY <3>3, <4>2 DEF ParentInv
        <5> QED  BY <1>2, <1>3, <5>1
      <4> QED  BY <1>6, <4>1, <4>2
    <3> QED  BY <3>1, <3>2, <3>3
  <2>2. CASE t # s
    <3>1. chain'[t] = chain[t] /\ last'[t] = last[t]
      BY <1>1, <2>2 DEF IInv, TypeOK, ParentInv
    <3>2. ASSUME NEW i \in 1..Len(chain[t]), chain[t][i].parent # 0
          PROVE  chain[t][i].id \in 1..Len(ledger') /\ chain[t][i].parent = ranAfter'[chain[t][i].id]
      <4>1. chain[t][i].id \in 1..Len(ledger) /\ chain[t][i].parent = ranAfter[chain[t][i].id]
        BY <3>2 DEF ParentInv
      <4> QED  BY <1>2, <1>3, <4>1
    <3> QED  BY <3>1, <3>2 DEF ParentInv
  <2> QED  BY <2>1, <2>2
<1>9. \A t \in Session : Predecessor(chain[t])' = Predecessor(chain'[t])
  BY DEF Predecessor
<1>10. last' \in [Session -> Nat]
  BY <1>1, <1>2 DEF ParentInv
<1> QED  BY <1>3, <1>5, <1>8, <1>9, <1>10 DEF ParentInv

\* A chain made anew is of nodes that are nobody's predecessors.
LEMMA RebuildParents ==
    ASSUME IInv, ParentInv, NEW s \in Session, Clear(s) \/ Delete(s)
    PROVE  ParentInv'
<1>1. PICK nodes \in Seq(NodeType) :
        Rebuild(s, nodes) /\ \A i \in 1..Len(nodes) : nodes[i].parent = 0 /\ nodes[i].live = FALSE
  <2>1. CASE Clear(s)
    <3>1. <<>> \in Seq(NodeType) /\ ~\E i \in 1..Len(<<>>) : TRUE
      OBVIOUS
    <3> QED  BY <2>1, <3>1 DEF Clear
  <2>2. CASE Delete(s)
    <3>1. PICK n \in 1..Len(chain[s]) :
            LET kept == RemoveAt(chain[s], n) IN Rebuild(s, [i \in 1..Len(kept) |-> Bare(kept[i])])
      BY <2>2 DEF Delete
    <3> DEFINE kept == RemoveAt(chain[s], n)
               nodes == [i \in 1..Len(kept) |-> Bare(kept[i])]
    <3>2. chain[s] \in Seq(NodeType)
      BY DEF IInv, TypeOK
    <3>3. kept \in Seq(NodeType)
      BY <3>2, RemoveFacts
    <3>4. Rebuild(s, nodes)
      BY <3>1
    <3> HIDE DEF kept
    <3>5. \A i \in 1..Len(kept) : Bare(kept[i]) \in NodeType /\ Bare(kept[i]).parent = 0 /\ Bare(kept[i]).live = FALSE
      <4> SUFFICES ASSUME NEW i \in 1..Len(kept)
                   PROVE  Bare(kept[i]) \in NodeType /\ Bare(kept[i]).parent = 0 /\ Bare(kept[i]).live = FALSE
        OBVIOUS
      <4>1. kept[i] \in NodeType
        BY <3>3, ElementType
      <4> QED  BY <4>1 DEF Bare, NodeType
    <3>6. nodes \in Seq(NodeType) /\ \A i \in 1..Len(nodes) : nodes[i] = Bare(kept[i]) /\ i \in 1..Len(kept)
      BY <3>3, <3>5
    <3> HIDE DEF nodes
    <3> QED  BY <3>4, <3>5, <3>6
  <2> QED  BY <2>1, <2>2
<1>2. /\ chain' = [chain EXCEPT ![s] = nodes] /\ last' = [last EXCEPT ![s] = 0]
      /\ UNCHANGED <<ledger, ranAfter>>
  BY <1>1 DEF Rebuild
<1>3. Predecessor(nodes) = 0
  <2>1. nodes # <<>> => Len(nodes) \in 1..Len(nodes)
    OBVIOUS
  <2>2. nodes # <<>> => nodes[Len(nodes)].live = FALSE
    BY <1>1, <2>1
  <2> QED  BY <2>2, Zenon DEF Predecessor
<1>4. ASSUME NEW t \in Session
      PROVE  /\ last'[t] = Predecessor(chain'[t])
             /\ \A i \in 1..Len(chain'[t]) :
                  chain'[t][i].parent # 0 =>
                      /\ chain'[t][i].id \in 1..Len(ledger)
                      /\ chain'[t][i].parent = ranAfter[chain'[t][i].id]
  <2>1. CASE t = s
    <3>1. chain'[t] = nodes /\ last'[t] = 0
      BY <1>2, <2>1 DEF IInv, TypeOK, ParentInv
    <3> QED  BY <1>1, <1>3, <3>1
  <2>2. CASE t # s
    <3>1. chain'[t] = chain[t] /\ last'[t] = last[t]
      BY <1>2, <2>2 DEF IInv, TypeOK, ParentInv
    <3> QED  BY <3>1 DEF ParentInv
  <2> QED  BY <2>1, <2>2
<1>5. \A t \in Session : Predecessor(chain[t])' = Predecessor(chain'[t])
  BY DEF Predecessor
<1>6. last' \in [Session -> Nat]
  BY <1>2 DEF ParentInv
<1> QED  BY <1>2, <1>4, <1>5, <1>6 DEF ParentInv

LEMMA StepParents ==
    ASSUME IInv, ParentInv, [Next]_vars
    PROVE  ParentInv'
<1>1. CASE UNCHANGED vars
  BY <1>1, ParentsKept DEF vars, ParentInv
<1>2. ASSUME NEW p \in Shell, NEW s \in Session, Load(p, s) PROVE ParentInv'
  BY <1>2, LoadParents
<1>3. ASSUME NEW s \in Session, NEW t \in Session, Fork(s, t) PROVE ParentInv'
  BY <1>3, ParentsKept DEF Fork, IInv, TypeOK, ParentInv
<1>4. ASSUME NEW s \in Session, NEW cmd \in Command, Record(s, cmd) PROVE ParentInv'
  BY <1>4, RecordParents
<1>5. ASSUME NEW p \in Shell, Compact(p) PROVE ParentInv'
  <2>1. CASE Crash(p)
    BY <2>1, ParentsKept DEF Crash, IInv, TypeOK, ParentInv
  <2>2. CASE ~Crash(p)
    <3>1. UNCHANGED <<ledger, ranAfter, chain, last>>
      BY <1>5, <2>2 DEF Compact, Count, TryLock, Reread, Truncate, WriteBack, RewriteFails, GivesUp, notes
    <3> QED  BY <3>1, ParentsKept DEF ParentInv
  <2> QED  BY <2>1, <2>2
<1>6. ASSUME NEW s \in Session, Clear(s) \/ Delete(s) \/ Close(s) PROVE ParentInv'
  <2>1. CASE Clear(s) \/ Delete(s)
    BY <2>1, RebuildParents
  <2>2. CASE Close(s)
    BY <2>2, ParentsKept DEF Close, IInv, TypeOK, ParentInv
  <2> QED  BY <1>6, <2>1, <2>2
<1> QED  BY <1>1, <1>2, <1>3, <1>4, <1>5, <1>6 DEF Next

\* No entry is written with, nor loaded again under, a parent that another shell
\* recorded: however many shells append to the file at once, and whatever is
\* deleted or cleared, the parent is what was recorded before it in the same
\* window or the one it was forked from since its history was last rebuilt, and
\* none when nothing was.
THEOREM ParentIsOwn == Spec => []ParentsTrue
<1>1. Init => IInv /\ ParentInv
  BY InitInv, InitParents
<1>2. IInv /\ ParentInv /\ [Next]_vars => (IInv /\ ParentInv)'
  BY StepInv, StepParents
<1> QED  BY <1>1, <1>2, ParentsAreTrue, PTL DEF Spec

-----------------------------------------------------------------------------
(* The newest entries. *)

\* A list that loses its oldest lines is still spaced.
LEMMA NewestSpaced ==
    ASSUME NEW q \in Seq(Nat), NEW k \in Nat, Spaced(q, 0)
    PROVE  Spaced(NewestOf(q, k), 0)
<1>1. PICK d \in Nat : /\ Len(NewestOf(q, k)) = Len(q) - d
                       /\ \A i \in 1..Len(NewestOf(q, k)) : NewestOf(q, k)[i] = q[i + d]
  BY NewestFacts
<1> DEFINE w == NewestOf(q, k)
<1>2. w \in Seq(Nat)
  BY NewestFacts
<1> HIDE DEF w
<1>3. ASSUME NEW i \in 1..Len(w), w[i] # Fragment PROVE Len(ledger) - w[i] >= Len(w) - i + 0
  <2>1. i + d \in 1..Len(q) /\ w[i] = q[i + d] /\ Len(q) - (i + d) + 0 = Len(w) - i + 0
    BY <1>1, <1>2 DEF w
  <2>2. Len(ledger) - q[i + d] >= Len(q) - (i + d) + 0
    BY <1>3, <2>1 DEF Spaced
  <2> QED  BY <2>1, <2>2
<1> QED  BY <1>3 DEF Spaced, w

\* What is written over the start of a list it is spaced from is spaced with the
\* rest of that list.
LEMMA OverSpaced ==
    ASSUME NEW q \in Seq(Nat), NEW r \in Seq(Nat), Spaced(q, Len(r)), Spaced(r, 0),
           NEW f \in Over(q, r), Len(ledger) \in Nat
    PROVE  Spaced(f, 0)
<1>1. ASSUME NEW t \in Seq(Nat), f = q \o t, Len(t) <= Len(r), Spaced(t, 0)
      PROVE  Spaced(f, 0)
  <2>1. /\ Len(f) = Len(q) + Len(t)
        /\ \A i \in 1..Len(q) : f[i] = q[i]
        /\ \A i \in 1..Len(t) : f[Len(q) + i] = t[i]
    BY <1>1, JoinFacts
  <2>2. ASSUME NEW i \in 1..Len(f), f[i] # Fragment PROVE Len(ledger) - f[i] >= Len(f) - i + 0
    <3>1. CASE i \in 1..Len(q)
      <4>1. Len(ledger) - q[i] >= Len(q) - i + Len(r) /\ q[i] \in Nat
        BY <2>1, <2>2, <3>1 DEF Spaced
      <4>2. f[i] = q[i] /\ Len(t) <= Len(r) /\ Len(t) \in Nat /\ Len(r) \in Nat /\ Len(q) \in Nat
        BY <1>1, <2>1, <3>1
      <4> QED  BY <2>1, <4>1, <4>2
    <3>2. CASE ~(i \in 1..Len(q))
      <4> DEFINE j == i - Len(q)
      <4>1. j \in 1..Len(t) /\ i = Len(q) + j
        BY <1>1, <2>1, <3>2
      <4>2. f[i] = t[j]
        BY <2>1, <4>1
      <4>3. Len(ledger) - t[j] >= Len(t) - j + 0
        BY <1>1, <2>2, <4>1, <4>2 DEF Spaced
      <4>4. Len(f) - i = Len(t) - j
        BY <1>1, <2>1
      <4> QED  BY <4>2, <4>3, <4>4
    <3> QED  BY <3>1, <3>2
  <2> QED  BY <2>2 DEF Spaced
<1>2. CASE q = <<>> \/ r = <<>>
  <2>1. f = q \o r
    BY <1>2, Zenon DEF Over
  <2> QED  BY <1>1, <2>1
<1>3. CASE ~(q = <<>> \/ r = <<>>)
  <2>1. PICK rest \in Rest(r) : f = q \o rest
    BY <1>3 DEF Over
  <2>2. PICK k \in 1..Len(r) : \/ rest = SubSeq(r, k + 1, Len(r))
                              \/ rest = <<Fragment>> \o SubSeq(r, k + 1, Len(r))
    BY <2>1 DEF Rest
  <2> DEFINE tail == SubSeq(r, k + 1, Len(r))
  <2>3. /\ tail \in Seq(Nat) /\ Len(tail) = Len(r) - k
        /\ \A i \in 1..Len(tail) : tail[i] = r[k + i] /\ k + i \in 1..Len(r)
    <3>1. k + 1 \in 1..(Len(r) + 1)
      OBVIOUS
    <3>2. /\ tail \in Seq(Nat)
          /\ Len(tail) = Len(r) - (k + 1) + 1
          /\ \A i \in 1..(Len(r) - (k + 1) + 1) : tail[i] = r[k + 1 + i - 1]
      BY <3>1, SubSeqFacts
    <3> HIDE DEF tail
    <3> QED  BY <3>2
  <2> HIDE DEF tail
  <2>4. ASSUME NEW i \in 1..Len(tail), tail[i] # Fragment
        PROVE  Len(ledger) - tail[i] >= Len(tail) - i
    <3>1. k + i \in 1..Len(r) /\ tail[i] = r[k + i]
      BY <2>3
    <3>2. Len(ledger) - r[k + i] >= Len(r) - (k + i) + 0
      BY <2>4, <3>1 DEF Spaced
    <3>3. Len(r) - (k + i) + 0 = Len(tail) - i
      BY <2>3
    <3> QED  BY <3>1, <3>2, <3>3
  <2>5. CASE rest = tail
    <3>1. Spaced(tail, 0)
      <4>1. Len(tail) \in Nat /\ \A i \in 1..Len(tail) : Len(tail) - i + 0 = Len(tail) - i
        BY <2>3
      <4> QED  BY <2>4, <4>1 DEF Spaced
    <3>2. Len(tail) <= Len(r)
      BY <2>3
    <3> HIDE DEF tail
    <3> QED  BY <1>1, <2>1, <2>3, <2>5, <3>1, <3>2
  <2>6. CASE rest = <<Fragment>> \o tail
    <3> DEFINE one == <<Fragment>>
    <3>1. one \in Seq(Nat) /\ Len(one) = 1 /\ one[1] = Fragment
      BY DEF Fragment
    <3>2. rest = one \o tail
      BY <2>6
    <3> HIDE DEF one
    <3>3. /\ rest \in Seq(Nat) /\ Len(rest) = Len(tail) + 1
          /\ rest[1] = Fragment
          /\ \A i \in 1..Len(tail) : rest[1 + i] = tail[i]
      <4>1. /\ rest \in Seq(Nat) /\ Len(rest) = Len(one) + Len(tail)
            /\ \A i \in 1..Len(one) : rest[i] = one[i]
            /\ \A i \in 1..Len(tail) : rest[Len(one) + i] = tail[i]
        BY <2>3, <3>1, <3>2, JoinFacts
      <4>2. 1 \in 1..Len(one)
        BY <3>1
      <4>3. rest[1] = Fragment /\ Len(rest) = 1 + Len(tail)
        BY <3>1, <4>1, <4>2
      <4>4. \A i \in 1..Len(tail) : rest[1 + i] = tail[i]
        BY <3>1, <4>1
      <4> QED  BY <2>3, <4>1, <4>3, <4>4
    <3>4. ASSUME NEW i \in 1..Len(rest), rest[i] # Fragment
          PROVE  Len(ledger) - rest[i] >= Len(rest) - i + 0
      <4>1. i - 1 \in 1..Len(tail) /\ i = 1 + (i - 1)
        <5>1. i # 1 /\ Len(rest) = Len(tail) + 1 /\ Len(tail) \in Nat
          BY <2>3, <3>3, <3>4
        <5> HIDE DEF tail
        <5> QED  BY <5>1
      <4>2. rest[i] = tail[i - 1]
        BY <3>3, <4>1
      <4>3. Len(ledger) - tail[i - 1] >= Len(tail) - (i - 1)
        BY <2>4, <3>4, <4>1, <4>2
      <4>4. Len(rest) - i + 0 = Len(tail) - (i - 1)
        <5>1. Len(tail) \in Nat /\ Len(rest) = Len(tail) + 1 /\ i \in Int
          BY <2>3, <3>3
        <5> HIDE DEF tail
        <5> QED  BY <5>1
      <4> QED  BY <4>2, <4>3, <4>4
    <3>5. Len(rest) <= Len(r)
      BY <2>3, <3>3
    <3>6. Spaced(rest, 0)
      BY <3>4 DEF Spaced
    <3> QED  BY <1>1, <2>1, <3>3, <3>5, <3>6
  <2> QED  BY <2>2, <2>5, <2>6 DEF tail
<1> QED  BY <1>2, <1>3

LEMMA InitSpace == Init => SpaceInv
<1> SUFFICES ASSUME Init PROVE SpaceInv
  OBVIOUS
<1>1. PICK n \in 0..Earlier : \E c \in [1..n -> Command] :
        /\ ledger = [k \in 1..n |-> [cmd |-> c[k], parent |-> 0]]
        /\ file = [k \in 1..n |-> k]
        /\ ranAfter = [k \in 1..n |-> 0]
  BY Zenon DEF Init
<1>2. n \in Nat /\ Len(ledger) = n /\ Len(file) = n /\ \A k \in 1..n : file[k] = k
  BY <1>1, HistoryAssumption DEF HistoryAssumption
<1>3. \A p \in Shell : at[p] = "idle"
  BY DEF Init
<1> QED  BY <1>2, <1>3 DEF SpaceInv, Spaced

\* What does not touch the file, nor what compact holds, keeps the spacing.
LEMMA SpaceKept ==
    ASSUME SpaceInv, UNCHANGED <<disk, out, ledger>>,
           \A p \in Shell : at'[p] \in {"cut", "write"} => at'[p] = at[p]
    PROVE  SpaceInv'
  BY DEF SpaceInv, Spaced, disk

LEMMA RecordSpace ==
    ASSUME IInv, SpaceInv, NEW s \in Session, NEW cmd \in Command, Record(s, cmd)
    PROVE  SpaceInv'
<1> DEFINE p == shell[s]
           id == Len(ledger) + 1
<1>1. /\ p \in Shell /\ at[p] = "idle" /\ Len(ledger) \in Nat /\ file \in Seq(Nat) /\ Len(ledger') = id
      /\ out \in [Shell -> Seq(Nat)]
  BY DEF Record, IInv, TypeOK
<1>2. /\ at' = [at EXCEPT ![p] = IF Responsible(appended[s] + 1) THEN "count" ELSE "idle"]
      /\ out' = out
  BY DEF Record
<1>3. \A q \in Shell : at'[q] \in {"cut", "write"} => at'[q] = at[q]
  BY <1>1, <1>2 DEF IInv, TypeOK
<1>4. /\ Len(file') \in Nat /\ Len(file) \in Nat /\ Len(file') <= Len(file) + 1
      /\ \A i \in 1..Len(file') : \/ file'[i] = Fragment
                                  \/ i \in 1..Len(file) /\ file'[i] = file[i]
                                  \/ i = Len(file) + 1 /\ file'[i] = id
  <2>1. Longer(file', Len(ledger) + 1)
    BY RecordedFile
  <2>2. file' \in Seq(Nat)
    BY <2>1 DEF Longer
  <2> QED  BY <1>1, <2>1, <2>2 DEF Longer
<1>5. ASSUME NEW i \in 1..Len(file'), file'[i] # Fragment
      PROVE  Len(ledger') - file'[i] >= Len(file') - i + 0
  <2>1. CASE i \in 1..Len(file) /\ file'[i] = file[i]
    <3>1. Len(ledger) - file[i] >= Len(file) - i + 0 /\ file[i] \in Nat
      BY <1>1, <1>5, <2>1 DEF SpaceInv, Spaced
    <3> QED  BY <1>1, <1>4, <2>1, <3>1
  <2>2. CASE i = Len(file) + 1 /\ file'[i] = id
    BY <1>1, <1>4, <2>2
  <2> QED  BY <1>4, <1>5, <2>1, <2>2
<1>6. ASSUME NEW q \in Shell, at'[q] = "cut", NEW i \in 1..Len(out'[q]), out'[q][i] # Fragment
      PROVE  Len(ledger') - out'[q][i] >= Len(out'[q]) - i + 0
  <2>1. Len(ledger) - out[q][i] >= Len(out[q]) - i + 0
    BY <1>2, <1>3, <1>6 DEF SpaceInv, Spaced
  <2>2. out[q] \in Seq(Nat) /\ i \in 1..Len(out[q])
    BY <1>1, <1>2, <1>6
  <2>3. out[q][i] \in Nat /\ Len(out[q]) \in Nat
    BY <2>2
  <2> QED  BY <1>1, <1>2, <2>1, <2>2, <2>3
<1>7. ASSUME NEW q \in Shell, at'[q] = "write", NEW i \in 1..Len(out'[q]), out'[q][i] # Fragment
      PROVE  Len(ledger') - out'[q][i] >= Len(out'[q]) - i + Len(file')
  <2>1. Len(ledger) - out[q][i] >= Len(out[q]) - i + Len(file)
    BY <1>2, <1>3, <1>7 DEF SpaceInv, Spaced
  <2>2. out[q] \in Seq(Nat) /\ i \in 1..Len(out[q])
    BY <1>1, <1>2, <1>7
  <2>3. out[q][i] \in Nat /\ Len(out[q]) \in Nat
    BY <2>2
  <2> QED  BY <1>1, <1>2, <1>4, <2>1, <2>2, <2>3
<1> QED  BY <1>5, <1>6, <1>7 DEF SpaceInv, Spaced

LEMMA RereadSpace ==
    ASSUME IInv, SpaceInv, NEW p \in Shell, Reread(p), ~GivesUp(p)
    PROVE  SpaceInv'
<1> DEFINE w == NewestOf(file, Limit)
<1>1. Spaced(w, 0)
  BY NewestSpaced, HistoryAssumption DEF SpaceInv, IInv, TypeOK, HistoryAssumption
<1>2. /\ out' = [out EXCEPT ![p] = w] /\ at' = [at EXCEPT ![p] = "cut"]
      /\ UNCHANGED <<file, ledger>>
  BY DEF Reread, Keeps, disk
<1> HIDE DEF w
<1>3. ASSUME NEW q \in Shell
      PROVE  /\ at'[q] = "cut" => Spaced(out'[q], 0)
             /\ at'[q] = "write" => Spaced(out'[q], Len(file))
  <2>1. CASE q = p
    BY <1>1, <1>2, <2>1 DEF IInv, TypeOK
  <2>2. CASE q # p
    BY <1>2, <2>2 DEF SpaceInv, IInv, TypeOK
  <2> QED  BY <2>1, <2>2
<1> QED  BY <1>2, <1>3 DEF SpaceInv, Spaced

LEMMA TruncateSpace ==
    ASSUME IInv, SpaceInv, NEW p \in Shell, Truncate(p)
    PROVE  SpaceInv'
<1>1. /\ file' = <<>> /\ at' = [at EXCEPT ![p] = "write"] /\ at[p] = "cut"
      /\ UNCHANGED <<out, ledger>>
  BY DEF Truncate
<1>2. Len(file') = 0
  BY <1>1
<1>3. ASSUME NEW q \in Shell
      PROVE  /\ at'[q] = "cut" => Spaced(out[q], 0)
             /\ at'[q] = "write" => Spaced(out[q], 0)
  <2>1. at'[q] = "write" => q = p
    BY <1>1, Alone DEF Holding, IInv, TypeOK
  <2>2. at'[q] = "cut" => at[q] = "cut"
    BY <1>1 DEF IInv, TypeOK
  <2> QED  BY <1>1, <2>1, <2>2 DEF SpaceInv
<1> QED  BY <1>1, <1>2, <1>3 DEF SpaceInv, Spaced

\* The end of compact, however the file is left.
LEMMA EndSpace ==
    ASSUME IInv, SpaceInv, NEW p \in Shell, EndOfCompact(p), Spaced(file', 0), ledger' = ledger,
           file' = file \/ at[p] \in Holding
    PROVE  SpaceInv'
<1>1. at' = [at EXCEPT ![p] = "idle"] /\ out' = [out EXCEPT ![p] = <<>>]
  BY DEF EndOfCompact
<1>2. ASSUME NEW q \in Shell, at'[q] \in {"cut", "write"}
      PROVE  file' = file /\ at'[q] = at[q] /\ out'[q] = out[q]
  <2>1. q # p /\ at'[q] = at[q] /\ out'[q] = out[q]
    BY <1>1, <1>2 DEF IInv, TypeOK
  <2> QED  BY <1>2, <2>1, Alone DEF Holding, IInv
<1> QED  BY <1>2 DEF SpaceInv, Spaced

LEMMA StepSpace ==
    ASSUME IInv, SpaceInv, [Next]_vars
    PROVE  SpaceInv'
<1>1. CASE UNCHANGED vars
  BY <1>1, SpaceKept DEF vars, disk
<1>2. ASSUME NEW p \in Shell, NEW s \in Session, Load(p, s) PROVE SpaceInv'
  BY <1>2, SpaceKept DEF Load, IInv, TypeOK
<1>3. ASSUME NEW s \in Session, NEW t \in Session, Fork(s, t) PROVE SpaceInv'
  BY <1>3, SpaceKept DEF Fork
<1>4. ASSUME NEW s \in Session, NEW cmd \in Command, Record(s, cmd) PROVE SpaceInv'
  BY <1>4, RecordSpace
<1>5. ASSUME NEW p \in Shell, Compact(p) PROVE SpaceInv'
  <2>1. CASE Count(p) \/ TryLock(p) \/ GivesUp(p)
    BY <2>1, SpaceKept DEF Count, TryLock, GivesUp, IInv, TypeOK
  <2>2. CASE Reread(p) /\ ~GivesUp(p)
    BY <2>2, RereadSpace
  <2>3. CASE Truncate(p)
    BY <2>3, TruncateSpace
  <2>4. CASE WriteBack(p)
    <3>1. at[p] = "write" /\ file' \in Over(out[p], file) /\ EndOfCompact(p) /\ ledger' = ledger
      BY <2>4 DEF WriteBack, WritesLines
    <3>2. Spaced(file', 0)
      BY <3>1, OverSpaced DEF SpaceInv, IInv, TypeOK
    <3> QED  BY <3>1, <3>2, EndSpace DEF Holding
  <2>5. CASE RewriteFails(p)
    <3>1. at[p] \in {"cut", "write"} /\ EndOfCompact(p) /\ ledger' = ledger
      BY <2>5 DEF RewriteFails
    <3>2. CASE at[p] = "cut"
      <4>1. file' = file
        BY <2>5, <3>2 DEF RewriteFails, disk
      <4>2. Spaced(file', 0)
        BY <4>1 DEF SpaceInv
      <4> QED  BY <3>1, <4>1, <4>2, EndSpace
    <3>3. CASE at[p] = "write"
      <4>1. PICK w \in Seq(Nat) : /\ file' \in Over(w, file) /\ Len(w) <= Len(out[p])
                                  /\ \A i \in 1..Len(w) : w[i] = Fragment \/ w[i] = out[p][i]
        BY <2>5, <3>3, StoppedWrite DEF IInv
      <4>2. out[p] \in Seq(Nat) /\ file \in Seq(Nat) /\ Len(ledger) \in Nat
        BY DEF IInv, TypeOK
      <4>3. Len(w) \in Nat /\ Len(w) <= Len(out[p])
        BY <4>1
      <4>4. ASSUME NEW i \in 1..Len(w), w[i] # Fragment
            PROVE  Len(ledger) - w[i] >= Len(w) - i + Len(file)
        <5>1. i \in 1..Len(out[p]) /\ w[i] = out[p][i] /\ w[i] \in Nat
          BY <4>1, <4>2, <4>3, <4>4
        <5>2. Len(ledger) - out[p][i] >= Len(out[p]) - i + Len(file)
          BY <3>3, <4>4, <5>1 DEF SpaceInv, Spaced
        <5>3. Len(w) <= Len(out[p]) /\ Len(w) \in Nat /\ Len(out[p]) \in Nat /\ Len(file) \in Nat
          BY <4>2, <4>3
        <5>4. Len(ledger) - w[i] >= Len(out[p]) - i + Len(file)
          BY <5>1, <5>2
        <5>5. w[i] \in Int /\ i \in Int /\ Len(ledger) \in Int
          BY <4>2, <5>1
        <5> QED  BY <5>3, <5>4, <5>5
      <4>5. Spaced(w, Len(file))
        BY <4>4 DEF Spaced
      <4>6. Spaced(file, 0)
        BY DEF SpaceInv
      <4>7. Spaced(file', 0)
        BY <4>1, <4>2, <4>5, <4>6, OverSpaced
      <4> QED  BY <3>1, <4>7, EndSpace DEF Holding
    <3> QED  BY <3>1, <3>2, <3>3
  <2>6. CASE Crash(p)
    <3>1. EndOfCompact(p) /\ UNCHANGED <<file, ledger>>
      BY <2>6 DEF Crash, disk
    <3>2. Spaced(file', 0)
      BY <3>1 DEF SpaceInv
    <3> QED  BY <3>1, <3>2, EndSpace
  <2> QED  BY <1>5, <2>1, <2>2, <2>3, <2>4, <2>5, <2>6 DEF Compact
<1>6. ASSUME NEW s \in Session, Clear(s) \/ Delete(s) \/ Close(s) PROVE SpaceInv'
  <2>1. UNCHANGED <<disk, out, ledger, at>>
    BY <1>6, Zenon DEF Clear, Delete, Rebuild, Close
  <2> QED  BY <2>1, SpaceKept
<1> QED  BY <1>1, <1>2, <1>3, <1>4, <1>5, <1>6 DEF Next

\* A line without its end is of an entry no promise covers.
TornExcused == ragged => file[Len(file)] = Fragment \/ file[Len(file)] \in excused

KeptInv == NewestKept /\ TornExcused

LEMMA InitKept == Init => KeptInv
<1> SUFFICES ASSUME Init PROVE KeptInv
  OBVIOUS
<1>1. PICK n \in 0..Earlier : \E c \in [1..n -> Command] :
        /\ ledger = [k \in 1..n |-> [cmd |-> c[k], parent |-> 0]]
        /\ file = [k \in 1..n |-> k]
        /\ ranAfter = [k \in 1..n |-> 0]
  BY Zenon DEF Init
<1>2. n \in Nat /\ Len(ledger) = n /\ Len(file) = n /\ \A k \in 1..n : file[k] = k
  BY <1>1, HistoryAssumption DEF HistoryAssumption
<1>3. Kept = file
  BY NobodyRewrites DEF Init
<1>4. \A k \in 1..Len(ledger) : k \in In(file)
  BY <1>2 DEF In
<1>5. TornExcused
  BY DEF Init, TornExcused
<1> QED  BY <1>3, <1>4, <1>5 DEF NewestKept, KeptInv

\* What an append leaves of the lines that were there, and where its own is.
LEMMA AddedKeeps ==
    ASSUME NEW x \in Nat, NEW f \in Added(x), file \in Seq(Nat), ragged => Len(file) > 0
    PROVE  /\ f \in Seq(Nat)
           /\ \A i \in 1..Len(file) : i \in 1..Len(f) /\ (f[i] = file[i] \/ (ragged /\ i = Len(file)))
           /\ ~ragged => Len(f) \in 1..Len(f) /\ f[Len(f)] = x
           /\ ragged => f[Len(f)] = file[Len(file)] \/ f[Len(f)] = Fragment
<1>1. CASE ragged /\ f = file
  BY <1>1
<1>2. CASE ragged /\ f = [file EXCEPT ![Len(file)] = Fragment]
  <2>1. Fragment \in Nat
    BY DEF Fragment
  <2>2. /\ f \in Seq(Nat) /\ Len(f) = Len(file)
        /\ \A i \in 1..Len(file) : f[i] = IF i = Len(file) THEN Fragment ELSE file[i]
    BY <1>2, <2>1
  <2>3. Len(file) \in 1..Len(file)
    BY <1>2
  <2> QED  BY <1>2, <2>2, <2>3
<1>3. CASE ~ragged /\ f = Append(file, x)
  BY <1>3
<1> QED  BY <1>1, <1>2, <1>3 DEF Added

\* What is kept stays and no promise is withdrawn.
LEMMA KeptSame ==
    ASSUME NewestKept, UNCHANGED <<Len(ledger), Kept>>, excused \subseteq excused'
    PROVE  NewestKept'
  BY DEF NewestKept, In

LEMMA RecordKept ==
    ASSUME IInv, IInv', KeptInv, NEW s \in Session, NEW cmd \in Command, Record(s, cmd)
    PROVE  KeptInv'
<1> DEFINE p == shell[s]
           id == Len(ledger) + 1
<1>1. p \in Shell /\ at[p] = "idle" /\ Len(ledger) \in Nat /\ Len(ledger') = id
  BY DEF Record, IInv, TypeOK
<1>2. /\ \/ /\ file' \in Added(id) /\ ragged' = FALSE
            /\ excused' = IF Rewriting \/ ragged THEN excused \cup {id} ELSE excused
         \/ file' = file /\ ragged' = ragged /\ excused' = excused \cup {id}
         \/ /\ file' \in Added(id) \cup Added(Fragment) /\ ragged' = TRUE
            /\ excused' = excused \cup {id}
      /\ at' = [at EXCEPT ![p] = IF Responsible(appended[s] + 1) THEN "count" ELSE "idle"]
      /\ out' = out
  BY DEF Record, AppendFails, disk
<1>3. /\ Rewriting' <=> Rewriting
      /\ Rewriting => UNCHANGED lock /\ out'[lock] = out[lock]
  <2>1. /\ at[p] \notin {"cut", "write"} /\ at'[p] \notin {"cut", "write"}
        /\ \A q \in Shell : q # p => at'[q] = at[q] /\ out'[q] = out[q]
    BY <1>1, <1>2 DEF IInv, TypeOK
  <2> HIDE DEF p
  <2> QED  BY <1>1, <2>1, SameRewrite DEF IInv
<1>4. /\ \A i \in 1..Len(file) : /\ i \in 1..Len(file')
                                 /\ file'[i] = file[i] \/ (ragged /\ i = Len(file))
      /\ file' \in Added(id) /\ ~ragged => Len(file') \in 1..Len(file') /\ file'[Len(file')] = id
      /\ ragged /\ ragged' => file'[Len(file')] = file[Len(file)] \/ file'[Len(file')] = Fragment
      /\ ~ragged /\ ragged' => file'[Len(file')] = id \/ file'[Len(file')] = Fragment
  <2>1. /\ file \in Seq(Nat) /\ (ragged => Len(file) > 0) /\ id \in Nat /\ Fragment \in Nat
        /\ ragged \in BOOLEAN
    BY <1>1 DEF IInv, TypeOK, Unfinished, Fragment
  <2> HIDE DEF id
  <2>2. CASE file' \in Added(id)
    BY <2>1, <2>2, AddedKeeps
  <2>3. CASE file' \in Added(Fragment) /\ file' \notin Added(id)
    <3>1. \A f \in Added(Fragment) :
            /\ \A i \in 1..Len(file) : i \in 1..Len(f) /\ (f[i] = file[i] \/ (ragged /\ i = Len(file)))
            /\ ~ragged => f[Len(f)] = Fragment
            /\ ragged => f[Len(f)] = file[Len(file)] \/ f[Len(f)] = Fragment
      BY <2>1, AddedKeeps
    <3> QED  BY <2>3, <3>1
  <2>4. CASE file' = file /\ ragged' = ragged /\ file' \notin Added(id)
    BY <2>1, <2>4
  <2> QED  BY <1>2, <2>2, <2>3, <2>4
<1>5. excused \subseteq excused'
  BY <1>2
<1>6. ASSUME NEW k \in In(Kept), k # Fragment PROVE k \in In(Kept') \/ k \in excused'
  <2>1. CASE Rewriting
    BY <1>3, <1>6, <2>1 DEF Kept
  <2>2. CASE ~Rewriting
    <3>1. Kept = file /\ Kept' = file'
      BY <1>3, <2>2 DEF Kept
    <3>2. PICK i \in 1..Len(file) : k = file[i]
      BY <1>6, <3>1 DEF In
    <3>3. CASE file'[i] = file[i]
      <4>1. i \in 1..Len(file')
        BY <1>4
      <4>2. k \in In(file')
        BY <3>2, <3>3, <4>1 DEF In
      <4> QED  BY <3>1, <4>2
    <3>4. CASE ragged /\ i = Len(file)
      BY <1>5, <1>6, <3>2, <3>4 DEF KeptInv, TornExcused
    <3> QED  BY <1>4, <3>3, <3>4
  <2> QED  BY <2>1, <2>2
<1>7. id \in In(Kept') \/ id \in excused'
  <2>1. CASE ~Rewriting /\ ~ragged /\ file' \in Added(id)
    <3>1. Kept' = file'
      BY <1>3, <2>1 DEF Kept
    <3>2. Len(file') \in 1..Len(file') /\ file'[Len(file')] = id
      BY <1>4, <2>1
    <3> HIDE DEF id
    <3> QED  BY <3>1, <3>2 DEF In
  <2>2. CASE ~(~Rewriting /\ ~ragged /\ file' \in Added(id))
    BY <1>2, <2>2
  <2> QED  BY <2>1, <2>2
<1>8. TornExcused'
  <2> SUFFICES ASSUME ragged' PROVE file'[Len(file')] = Fragment \/ file'[Len(file')] \in excused'
    BY DEF TornExcused
  <2>1. ragged \in BOOLEAN
    BY DEF IInv, TypeOK
  <2>2. CASE ragged
    BY <1>4, <1>5, <2>2 DEF KeptInv, TornExcused
  <2>3. CASE ~ragged
    <3>1. id \in excused'
      BY <1>2, <2>3
    <3> QED  BY <1>4, <2>3, <3>1
  <2> QED  BY <2>1, <2>2, <2>3
<1>9. ASSUME NEW k \in 1..Len(ledger')
      PROVE  k \in In(Kept') \/ k \in excused' \/ Len(ledger') - k >= Limit
  <2>1. CASE k = id
    BY <1>7, <2>1
  <2>2. CASE k # id
    <3>1. k \in 1..Len(ledger) /\ k # Fragment
      BY <1>1, <2>2 DEF Fragment
    <3>2. k \in In(Kept) \/ k \in excused \/ Len(ledger) - k >= Limit
      BY <3>1 DEF KeptInv, NewestKept
    <3>3. Len(ledger) - k >= Limit => Len(ledger') - k >= Limit
      BY <1>1, HistoryAssumption DEF HistoryAssumption
    <3> QED  BY <1>5, <1>6, <3>1, <3>2, <3>3
  <2> QED  BY <2>1, <2>2
<1>10. NewestKept'
  BY <1>9 DEF NewestKept, In
<1> QED  BY <1>8, <1>10 DEF KeptInv

\* What is left out when the file is cut to its newest lines is old enough.
LEMMA RereadKept ==
    ASSUME IInv, IInv', SpaceInv, NewestKept, NEW p \in Shell, Reread(p), ~GivesUp(p)
    PROVE  NewestKept'
<1> DEFINE w == NewestOf(file, Limit)
<1>1. /\ at[p] = "read" /\ at'[p] = "cut" /\ out'[p] = w
      /\ UNCHANGED <<lock, file, ledger, excused>>
  BY DEF Reread, Keeps, IInv, TypeOK, notes, disk
<1>2. lock = p /\ lock' = p
  BY <1>1 DEF IInv, TypeOK, Holding
<1>3. Kept = file
  BY <1>1, <1>2, WhoRewrites DEF IInv
<1>4. Kept' = w
  BY <1>1, <1>2, HistoryAssumption DEF Rewriting, Kept, HistoryAssumption
<1>5. file \in Seq(Nat) /\ Limit \in Nat /\ Len(ledger) \in Nat
  BY HistoryAssumption DEF IInv, TypeOK, HistoryAssumption
<1>6. ASSUME NEW k \in 1..Len(ledger), k \in In(file)
      PROVE  k \in In(w) \/ Len(ledger) - k >= Limit
  <2>1. PICK i \in 1..Len(file) : file[i] = k
    BY <1>6 DEF In
  <2>2. Len(ledger) - file[i] >= Len(file) - i + 0
    BY <2>1 DEF SpaceInv, Spaced, Fragment
  <2>3. CASE Len(file) <= Limit
    <3>1. w = file
      BY <2>3 DEF NewestOf
    <3> QED  BY <1>6, <3>1
  <2>4. CASE ~(Len(file) <= Limit)
    <3> DEFINE m == Len(file) - Limit + 1
    <3>1. m \in 1..(Len(file) + 1)
      BY <1>5, <2>4
    <3>2. w = SubSeq(file, m, Len(file))
      BY <2>4 DEF NewestOf
    <3>3. /\ Len(w) = Len(file) - m + 1
          /\ \A j \in 1..(Len(file) - m + 1) : w[j] = file[m + j - 1]
      BY <1>5, <3>1, <3>2, SubSeqFacts
    <3>4. CASE i < m
      BY <1>5, <2>1, <2>2, <3>4
    <3>5. CASE i >= m
      <4> HIDE DEF w
      <4>1. i - m + 1 \in 1..(Len(file) - m + 1) /\ m + (i - m + 1) - 1 = i
        BY <1>5, <3>5
      <4>2. w[i - m + 1] = file[i] /\ i - m + 1 \in 1..Len(w)
        BY <3>3, <4>1
      <4> QED  BY <2>1, <4>2 DEF In
    <3> QED  BY <1>5, <3>4, <3>5
  <2> QED  BY <2>3, <2>4
<1> HIDE DEF w
<1> QED  BY <1>1, <1>3, <1>4, <1>6 DEF NewestKept, In

LEMMA WriteBackKept ==
    ASSUME IInv, NewestKept, NEW p \in Shell, WriteBack(p)
    PROVE  NewestKept'
<1>1. at[p] = "write" /\ EndOfCompact(p) /\ UNCHANGED <<ledger, excused>>
  BY DEF WriteBack
<1>2. lock = p /\ lock' = Nobody
  BY <1>1 DEF IInv, TypeOK, Holding, EndOfCompact, Released
<1>3. Kept = out[p]
  BY <1>1, <1>2, WhoRewrites DEF IInv
<1>4. Kept' = file'
  BY <1>2 DEF Rewriting, Kept
<1>5. Len(out[p]) <= Len(file') /\ SubSeq(file', 1, Len(out[p])) = out[p] /\ file' \in Seq(Nat) /\ out[p] \in Seq(Nat)
  BY StepWriteBack DEF IInv, TypeOK
<1>6. In(out[p]) \subseteq In(file')
  <2> SUFFICES ASSUME NEW i \in 1..Len(out[p]) PROVE out[p][i] \in In(file')
    BY DEF In
  <2>1. Len(out[p]) \in 0..Len(file') /\ i \in 1..Len(file')
    BY <1>5
  <2>2. SubSeq(file', 1, Len(out[p]))[i] = file'[i]
    BY <1>5, <2>1, PrefixFacts
  <2> QED  BY <1>5, <2>1, <2>2 DEF In
<1> QED  BY <1>1, <1>3, <1>4, <1>6 DEF NewestKept, In

\* A rewrite that ends without its write takes its lines' promise with it.
LEMMA CutShortKept ==
    ASSUME IInv, NewestKept, NEW p \in Shell, at[p] \in {"cut", "write"}, EndOfCompact(p), ledger' = ledger,
           excused' = excused \cup In(out[p])
    PROVE  NewestKept'
<1>1. lock = p
  BY DEF IInv, TypeOK, Holding
<1>2. Kept = out[p]
  BY <1>1, WhoRewrites DEF IInv
<1> QED  BY <1>2 DEF NewestKept, In

\* When what is written over a list does not cover it, the last line is that of
\* the list or what is left of it.
LEMMA OverLast ==
    ASSUME NEW q \in Seq(Nat), NEW r \in Seq(Nat), NEW f \in Over(q, r), Len(f) > Len(q)
    PROVE  f[Len(f)] = Fragment \/ f[Len(f)] = r[Len(r)]
<1>1. ASSUME NEW t \in Seq(Nat), f = q \o t
      PROVE  /\ Len(t) \in 1..Len(t) /\ f[Len(f)] = t[Len(t)]
  <2>1. Len(f) = Len(q) + Len(t) /\ \A i \in 1..Len(t) : f[Len(q) + i] = t[i]
    BY <1>1, JoinFacts
  <2>2. Len(q) \in Nat /\ Len(t) \in Nat
    OBVIOUS
  <2>3. Len(t) \in 1..Len(t)
    BY <2>1, <2>2
  <2> QED  BY <2>1, <2>3
<1>2. CASE q = <<>> \/ r = <<>>
  <2>1. f = q \o r
    BY <1>2, Zenon DEF Over
  <2> QED  BY <1>1, <2>1
<1>3. CASE ~(q = <<>> \/ r = <<>>)
  <2>1. PICK rest \in Rest(r) : f = q \o rest
    BY <1>3 DEF Over
  <2>2. PICK k \in 1..Len(r) : \/ rest = SubSeq(r, k + 1, Len(r))
                              \/ rest = <<Fragment>> \o SubSeq(r, k + 1, Len(r))
    BY <2>1 DEF Rest
  <2> DEFINE tail == SubSeq(r, k + 1, Len(r))
  <2>3. /\ tail \in Seq(Nat)
        /\ Len(tail) \in 1..Len(tail) => tail[Len(tail)] = r[Len(r)]
    <3>1. k + 1 \in 1..(Len(r) + 1)
      OBVIOUS
    <3>2. /\ tail \in Seq(Nat)
          /\ Len(tail) = Len(r) - (k + 1) + 1
          /\ \A i \in 1..(Len(r) - (k + 1) + 1) : tail[i] = r[k + 1 + i - 1]
      BY <3>1, SubSeqFacts
    <3> HIDE DEF tail
    <3>3. Len(tail) \in 1..Len(tail) => tail[Len(tail)] = r[k + 1 + Len(tail) - 1]
      BY <3>2
    <3>4. k + 1 + Len(tail) - 1 = Len(r)
      BY <3>2
    <3> QED  BY <3>2, <3>3, <3>4
  <2> HIDE DEF tail
  <2>4. CASE rest = tail
    BY <1>1, <2>1, <2>3, <2>4
  <2>5. CASE rest = <<Fragment>> \o tail
    <3> DEFINE one == <<Fragment>>
    <3>1. one \in Seq(Nat) /\ Len(one) = 1 /\ one[1] = Fragment
      BY DEF Fragment
    <3>2. rest = one \o tail
      BY <2>5
    <3> HIDE DEF one
    <3>3. /\ rest \in Seq(Nat) /\ Len(rest) = Len(one) + Len(tail)
          /\ \A i \in 1..Len(one) : rest[i] = one[i]
          /\ \A i \in 1..Len(tail) : rest[Len(one) + i] = tail[i]
      BY <2>3, <3>1, <3>2, JoinFacts
    <3>4. f[Len(f)] = rest[Len(rest)]
      BY <1>1, <2>1, <3>3
    <3>5. CASE Len(tail) \in 1..Len(tail)
      BY <2>3, <3>3, <3>4, <3>5
    <3>6. CASE Len(tail) = 0
      BY <3>1, <3>3, <3>4, <3>6
    <3>7. Len(tail) = 0 \/ Len(tail) \in 1..Len(tail)
      BY <2>3
    <3> QED  BY <3>5, <3>6, <3>7
  <2> QED  BY <2>2, <2>4, <2>5 DEF tail
<1> QED  BY <1>2, <1>3

LEMMA StepKept ==
    ASSUME IInv, IInv', SpaceInv, KeptInv, [Next]_vars
    PROVE  NewestKept'
<1>0. TypeOK /\ TypeOK' /\ NewestKept
  BY DEF IInv, KeptInv
<1>1. CASE UNCHANGED vars
  BY <1>0, <1>1, ApartLog, KeptSame DEF vars, disk, promised
<1>2. ASSUME NEW p \in Shell, NEW s \in Session, Load(p, s) PROVE NewestKept'
  <2>1. excused' = excused
    BY <1>2 DEF Load
  <2> QED  BY <1>0, <1>2, <2>1, QuietLog, KeptSame DEF promised
<1>3. ASSUME NEW s \in Session, NEW t \in Session, Fork(s, t) PROVE NewestKept'
  BY <1>0, <1>3, ApartLog, KeptSame DEF Fork, promised
<1>4. ASSUME NEW s \in Session, NEW cmd \in Command, Record(s, cmd) PROVE NewestKept'
  BY <1>4, RecordKept DEF KeptInv
<1>5. ASSUME NEW p \in Shell, Compact(p) PROVE NewestKept'
  <2>1. CASE Count(p) \/ TryLock(p)
    <3>1. excused' = excused
      BY <2>1 DEF Count, TryLock, GivesUp, notes
    <3> QED  BY <1>0, <2>1, <3>1, QuietLog, KeptSame DEF promised
  <2>2. CASE Reread(p)
    <3>1. CASE GivesUp(p)
      <4>1. excused' = excused /\ at[p] = "read"
        BY <2>2, <3>1 DEF GivesUp, Reread
      <4> QED  BY <1>0, <3>1, <4>1, QuietLog, KeptSame DEF promised
    <3>2. CASE ~GivesUp(p)
      BY <1>0, <2>2, <3>2, RereadKept
    <3> QED  BY <3>1, <3>2
  <2>3. CASE Truncate(p)
    <3>1. excused' = excused
      BY <2>3 DEF Truncate, notes
    <3> QED  BY <1>0, <2>3, <3>1, TruncateLog, KeptSame DEF promised
  <2>4. CASE WriteBack(p)
    BY <1>0, <2>4, WriteBackKept
  <2>5. CASE RewriteFails(p)
    BY <1>0, <2>5, CutShortKept DEF RewriteFails
  <2>6. CASE Crash(p)
    <3>1. EndOfCompact(p) /\ ledger' = ledger /\ excused' = excused \cup In(out[p]) /\ UNCHANGED <<file, ragged>>
      BY <2>6 DEF Crash, disk
    <3>2. CASE at[p] \in {"cut", "write"}
      BY <1>0, <3>1, <3>2, CutShortKept
    <3>3. CASE at[p] \notin {"cut", "write"}
      <4>1. /\ at'[p] \notin {"cut", "write"}
            /\ \A q \in Shell : q # p => at'[q] = at[q] /\ out'[q] = out[q]
        BY <3>1 DEF EndOfCompact, IInv, TypeOK
      <4>2. (Rewriting' <=> Rewriting) /\ (Rewriting => UNCHANGED lock /\ out'[lock] = out[lock])
        BY <1>0, <3>3, <4>1, SameRewrite
      <4>3. UNCHANGED <<Len(ledger), Kept>>
        BY <1>0, <3>1, <4>2, Unseen DEF promised
      <4> QED  BY <1>0, <3>1, <4>3, KeptSame
    <3> QED  BY <3>2, <3>3
  <2> QED  BY <1>5, <2>1, <2>2, <2>3, <2>4, <2>5, <2>6 DEF Compact
<1>6. ASSUME NEW s \in Session, Clear(s) \/ Delete(s) \/ Close(s) PROVE NewestKept'
  <2>1. UNCHANGED <<ledger, disk, out, at, lock, excused>>
    BY <1>6, Zenon DEF Clear, Delete, Rebuild, Close
  <2> QED  BY <1>0, <2>1, ApartLog, KeptSame DEF promised
<1> QED  BY <1>1, <1>2, <1>3, <1>4, <1>5, <1>6 DEF Next

\* What is left of a line that was cut stays the last line, until the file is cut.
LEMMA StepTorn ==
    ASSUME IInv, IInv', KeptInv, [Next]_vars
    PROVE  TornExcused'
<1> SUFFICES ASSUME ragged' PROVE file'[Len(file')] = Fragment \/ file'[Len(file')] \in excused'
  BY DEF TornExcused
<1>1. ASSUME file' = file, ragged' = ragged, excused \subseteq excused'
      PROVE  file'[Len(file')] = Fragment \/ file'[Len(file')] \in excused'
  BY <1>1 DEF KeptInv, TornExcused
<1>2. CASE UNCHANGED vars
  BY <1>1, <1>2 DEF vars
<1>3. ASSUME NEW s \in Session, NEW cmd \in Command, Record(s, cmd)
      PROVE  file'[Len(file')] = Fragment \/ file'[Len(file')] \in excused'
  BY <1>3, RecordKept DEF KeptInv, TornExcused
<1>4. ASSUME NEW p \in Shell, NEW s \in Session, Load(p, s)
      PROVE  file'[Len(file')] = Fragment \/ file'[Len(file')] \in excused'
  BY <1>1, <1>4 DEF Load, disk
<1>5. ASSUME NEW s \in Session, NEW t \in Session, Fork(s, t)
      PROVE  file'[Len(file')] = Fragment \/ file'[Len(file')] \in excused'
  BY <1>1, <1>5 DEF Fork, disk
<1>6. ASSUME NEW s \in Session, Clear(s) \/ Delete(s) \/ Close(s)
      PROVE  file'[Len(file')] = Fragment \/ file'[Len(file')] \in excused'
  <2>1. file' = file /\ ragged' = ragged /\ excused' = excused
    BY <1>6, Zenon DEF Clear, Delete, Rebuild, Close, disk
  <2> QED  BY <1>1, <2>1
<1>7. ASSUME NEW p \in Shell, Compact(p)
      PROVE  file'[Len(file')] = Fragment \/ file'[Len(file')] \in excused'
  <2>1. CASE Count(p) \/ TryLock(p) \/ Reread(p)
    BY <1>1, <2>1 DEF Count, TryLock, Reread, GivesUp, notes, disk
  <2>2. CASE Truncate(p)
    BY <2>2 DEF Truncate
  <2>3. CASE Crash(p)
    BY <1>1, <2>3 DEF Crash, disk
  <2>4. ASSUME NEW w \in Seq(Nat), file' \in Over(w, file), ragged, Len(file') > Len(w), excused \subseteq excused'
        PROVE  file'[Len(file')] = Fragment \/ file'[Len(file')] \in excused'
    <3>1. file \in Seq(Nat) /\ file' \in Seq(Nat)
      BY DEF IInv, TypeOK
    <3>2. file'[Len(file')] = Fragment \/ file'[Len(file')] = file[Len(file)]
      BY <2>4, <3>1, OverLast
    <3> QED  BY <2>4, <3>2 DEF KeptInv, TornExcused
  <2>5. CASE WriteBack(p)
    <3>1. /\ WritesLines(out[p]) /\ excused' = excused /\ out[p] \in Seq(Nat)
      BY <2>5 DEF WriteBack, IInv, TypeOK
    <3> QED  BY <2>4, <3>1 DEF WritesLines
  <2>6. CASE RewriteFails(p) /\ at[p] = "cut"
    BY <1>1, <2>6 DEF RewriteFails, disk
  <2>7. CASE RewriteFails(p) /\ at[p] = "write"
    <3>1. /\ excused' = excused \cup In(out[p]) /\ out[p] \in Seq(Nat) /\ file \in Seq(Nat)
          /\ \/ \E n \in 0..Len(out[p]) : WritesLines(SubSeq(out[p], 1, n))
             \/ \E n \in 1..Len(out[p]) : \E x \in {out[p][n], Fragment} : WritesPart(SubSeq(out[p], 1, n - 1), x)
      BY <2>7 DEF RewriteFails, IInv, TypeOK
    <3>2. ASSUME NEW n \in 0..Len(out[p]), WritesLines(SubSeq(out[p], 1, n))
          PROVE  file'[Len(file')] = Fragment \/ file'[Len(file')] \in excused'
      <4>1. SubSeq(out[p], 1, n) \in Seq(Nat)
        BY <3>1, PrefixFacts
      <4> QED  BY <2>4, <3>1, <3>2, <4>1 DEF WritesLines
    <3>3. ASSUME NEW n \in 1..Len(out[p]), NEW x \in {out[p][n], Fragment}, WritesPart(SubSeq(out[p], 1, n - 1), x)
          PROVE  file'[Len(file')] = Fragment \/ file'[Len(file')] \in excused'
      <4> DEFINE q == SubSeq(out[p], 1, n - 1)
      <4>1. n - 1 \in 0..Len(out[p])
        BY <3>1
      <4>2. q \in Seq(Nat)
        BY <3>1, <4>1, PrefixFacts
      <4>3. WritesPart(q, x) /\ x \in Nat /\ (x = Fragment \/ x \in excused')
        BY <3>1, <3>3 DEF In, Fragment
      <4> HIDE DEF q
      <4>4. CASE file' = Append(q, x)
        <5>1. file'[Len(file')] = x
          BY <4>2, <4>3, <4>4
        <5> QED  BY <4>3, <5>1
      <4>5. CASE file' # Append(q, x)
        <5>1. PICK k \in 1..Len(file) :
                file' = Append(q, x) \o SubSeq(file, k + 1, Len(file)) /\ ragged' = ragged
          BY <4>3, <4>5 DEF WritesPart
        <5> DEFINE w == Append(q, x)
        <5>2. w \in Seq(Nat) /\ w # <<>>
          <6>1. x \in Nat
            BY <4>3
          <6>2. w \in Seq(Nat) /\ Len(w) = Len(q) + 1 /\ Len(q) \in Nat
            BY <4>2, <6>1
          <6> HIDE DEF w
          <6> QED  BY <6>2
        <5>3. file' \in Over(w, file)
          BY <3>1, <4>2, <4>3, PartIsOver
        <5>4. Len(file') > Len(w)
          <6>1. SubSeq(file, k + 1, Len(file)) \in Seq(Nat)
            <7>1. k + 1 \in 1..(Len(file) + 1)
              BY <3>1
            <7> QED  BY <3>1, <7>1, SubSeqFacts
          <6> DEFINE r == SubSeq(file, k + 1, Len(file))
          <6>2. r # <<>>
            <7>1. w \o <<>> = w
              BY <5>2
            <7> QED  BY <4>5, <5>1, <7>1
          <6>4. file' = w \o r
            BY <5>1
          <6> HIDE DEF r, w
          <6>3. Len(w \o r) = Len(w) + Len(r) /\ Len(r) > 0 /\ Len(w) \in Nat
            BY <5>2, <6>1, <6>2, JoinFacts DEF r
          <6> QED  BY <6>3, <6>4
        <5> HIDE DEF w
        <5> QED  BY <2>4, <3>1, <5>1, <5>2, <5>3, <5>4
      <4> QED  BY <4>4, <4>5
    <3> QED  BY <3>1, <3>2, <3>3
  <2>8. RewriteFails(p) => at[p] = "cut" \/ at[p] = "write"
    BY DEF RewriteFails
  <2> QED  BY <1>7, <2>1, <2>2, <2>3, <2>5, <2>6, <2>7, <2>8 DEF Compact
<1> QED  BY <1>2, <1>3, <1>4, <1>5, <1>6, <1>7 DEF Next

\* A recorded entry is in the file, or in what compact is about to write to it,
\* until Limit newer ones were recorded, unless it was recorded while a shell
\* rewrote the file or behind a line that was cut, or its append or a rewrite was
\* cut short: compact, run by any shell at any moment, throws away nothing it
\* should keep.
THEOREM NewestAreKept == Spec => []NewestKept
<1>1. Init => IInv /\ SpaceInv /\ KeptInv
  BY InitInv, InitSpace, InitKept
<1>2. IInv /\ SpaceInv /\ KeptInv /\ [Next]_vars => (IInv /\ SpaceInv /\ KeptInv)'
  <2> SUFFICES ASSUME IInv, SpaceInv, KeptInv, [Next]_vars PROVE (IInv /\ SpaceInv /\ KeptInv)'
    OBVIOUS
  <2>1. IInv'
    BY StepInv
  <2>2. NewestKept' /\ TornExcused'
    BY <2>1, StepKept, StepTorn
  <2> QED  BY <2>1, <2>2, StepSpace DEF KeptInv
<1>3. KeptInv => NewestKept
  BY DEF KeptInv
<1> QED  BY <1>1, <1>2, <1>3, PTL DEF Spec

-----------------------------------------------------------------------------
(* Sums over the sessions, by induction on how many there are. *)

\* What FoldSet computes of the counts, one session after another.
First(S) == CHOOSE x \in S : TRUE
IsSum(sum, count) ==
    sum = [S \in SUBSET Session |-> IF S = {} THEN 0 ELSE count[First(S)] + sum[S \ {First(S)}]]
Sum(count) == CHOOSE sum : IsSum(sum, count)

LEMMA CountedIsSum == Counted(Session) = Sum(appended)[Session]
  BY DEF Counted, FoldSet, MapThenFoldSet, Sum, IsSum, First

LEMMA Smaller ==
    ASSUME NEW S \in SUBSET Session, S # {}
    PROVE  /\ First(S) \in S /\ S \ {First(S)} \in SUBSET Session
           /\ Cardinality(S) \in Nat /\ Cardinality(S \ {First(S)}) = Cardinality(S) - 1
<1>1. First(S) \in S
  BY DEF First
<1>2. IsFiniteSet(S)
  BY FS_Subset, HistoryAssumption DEF HistoryAssumption
<1> QED  BY <1>1, <1>2, FS_RemoveElement, FS_CardinalityType

LEMMA SumExists ==
    ASSUME NEW count \in [Session -> Nat]
    PROVE  IsSum(Sum(count), count)
<1> DEFINE Rule(f, S) == IF S = {} THEN 0 ELSE count[First(S)] + f[S \ {First(S)}]
           UpTo(f, n) == \A S \in SUBSET Session : Cardinality(S) <= n => f[S] = Rule(f, S)
           G == {n \in Nat : \E f \in [SUBSET Session -> Nat] : UpTo(f, n)}
<1>1. \A S \in SUBSET Session : Cardinality(S) \in Nat /\ (Cardinality(S) = 0 <=> S = {})
  BY FS_Subset, FS_CardinalityType, FS_EmptySet, HistoryAssumption DEF HistoryAssumption
<1>2. 0 \in G
  <2> DEFINE f0 == [S \in SUBSET Session |-> 0]
  <2>1. f0 \in [SUBSET Session -> Nat]
    OBVIOUS
  <2>2. UpTo(f0, 0)
    BY <1>1
  <2> QED  BY <2>1, <2>2
<1>3. ASSUME NEW n \in G PROVE n + 1 \in G
  <2>1. PICK f \in [SUBSET Session -> Nat] : UpTo(f, n)
    OBVIOUS
  <2> DEFINE g == [S \in SUBSET Session |-> Rule(f, S)]
  <2>2. g \in [SUBSET Session -> Nat]
    <3>1. ASSUME NEW S \in SUBSET Session PROVE Rule(f, S) \in Nat
      <4>1. CASE S = {}
        BY <4>1
      <4>2. CASE S # {}
        <5>1. First(S) \in Session /\ S \ {First(S)} \in SUBSET Session
          BY <4>2, Smaller
        <5>2. count[First(S)] \in Nat /\ f[S \ {First(S)}] \in Nat
          BY <5>1
        <5> QED  BY <4>2, <5>2
      <4> QED  BY <4>1, <4>2
    <3> QED  BY <3>1
  <2>3. ASSUME NEW S \in SUBSET Session, Cardinality(S) <= n + 1 PROVE g[S] = Rule(g, S)
    <3>1. CASE S = {}
      BY <3>1
    <3>2. CASE S # {}
      <4> DEFINE R == S \ {First(S)}
      <4>1. R \in SUBSET Session /\ Cardinality(R) <= n
        BY <2>3, <3>2, Smaller
      <4>2. f[R] = Rule(f, R)
        BY <2>1, <4>1
      <4>3. g[R] = Rule(f, R)
        BY <4>1
      <4>4. g[S] = count[First(S)] + f[R]
        BY <3>2
      <4> QED  BY <3>2, <4>2, <4>3, <4>4
    <3> QED  BY <3>1, <3>2
  <2>4. UpTo(g, n + 1)
    BY <2>3
  <2> HIDE DEF g, Rule
  <2>5. \E h \in [SUBSET Session -> Nat] : UpTo(h, n + 1)
    BY <2>2, <2>4
  <2>6. n + 1 \in Nat
    OBVIOUS
  <2> HIDE DEF UpTo
  <2> QED  BY <2>5, <2>6
<1>4. G = Nat
  <2> HIDE DEF G
  <2>1. G \in SUBSET Nat
    BY DEF G
  <2> QED  BY <1>2, <1>3, <2>1, Induction
<1>5. Cardinality(Session) \in Nat /\ \A S \in SUBSET Session : Cardinality(S) <= Cardinality(Session)
  BY FS_Subset, FS_CardinalityType, HistoryAssumption DEF HistoryAssumption
<1>6. PICK f \in [SUBSET Session -> Nat] : UpTo(f, Cardinality(Session))
  BY <1>4, <1>5
<1>7. \A S \in SUBSET Session : f[S] = Rule(f, S)
  BY <1>5, <1>6
<1>8. f = [S \in SUBSET Session |-> Rule(f, S)]
  BY <1>7
<1>9. IsSum(f, count)
  BY <1>8 DEF IsSum
<1> QED  BY <1>9 DEF Sum

\* A sum of counts is a count, and changes by what one of them changes.
LEMMA SumChange ==
    ASSUME NEW count \in [Session -> Nat], NEW s \in Session, NEW n \in Nat,
           NEW count2, count2 = [count EXCEPT ![s] = n]
    PROVE  /\ Sum(count)[Session] \in Nat
           /\ Sum(count2)[Session] = Sum(count)[Session] + n - count[s]
<1> DEFINE f == Sum(count)
           g == Sum(count2)
           Moved(S) == /\ f[S] \in Nat /\ g[S] \in Nat
                       /\ g[S] = IF s \in S THEN f[S] + n - count[s] ELSE f[S]
           G == {m \in Nat : \A S \in SUBSET Session : Cardinality(S) <= m => Moved(S)}
<1>1. count2 \in [Session -> Nat] /\ count[s] \in Nat
  OBVIOUS
<1>2. /\ \A S \in SUBSET Session : f[S] = IF S = {} THEN 0 ELSE count[First(S)] + f[S \ {First(S)}]
      /\ \A S \in SUBSET Session : g[S] = IF S = {} THEN 0 ELSE count2[First(S)] + g[S \ {First(S)}]
  <2>1. IsSum(f, count) /\ IsSum(g, count2)
    BY <1>1, SumExists
  <2> HIDE DEF f, g
  <2> QED  BY <2>1 DEF IsSum
<1> HIDE DEF f, g
<1>3. \A S \in SUBSET Session : Cardinality(S) \in Nat /\ (Cardinality(S) = 0 <=> S = {})
  BY FS_Subset, FS_CardinalityType, FS_EmptySet, HistoryAssumption DEF HistoryAssumption
<1>4. Moved({})
  <2>1. {} \in SUBSET Session /\ s \notin {}
    OBVIOUS
  <2>2. f[{}] = 0 /\ g[{}] = 0
    BY <1>2, <2>1
  <2> QED  BY <2>1, <2>2
<1>5. 0 \in G
  <2>1. \A S \in SUBSET Session : Cardinality(S) <= 0 => S = {}
    BY <1>3
  <2> HIDE DEF Moved
  <2> QED  BY <1>4, <2>1
<1>6. ASSUME NEW m \in G PROVE m + 1 \in G
  <2>1. ASSUME NEW S \in SUBSET Session, Cardinality(S) <= m + 1 PROVE Moved(S)
    <3>1. CASE S = {}
      BY <1>4, <3>1
    <3>2. CASE S # {}
      <4> DEFINE x == First(S)
                 R == S \ {x}
      <4>1. x \in S /\ R \in SUBSET Session /\ Cardinality(R) <= m
        BY <2>1, <3>2, Smaller
      <4>2. Moved(R)
        BY <4>1
      <4>3. f[S] = count[x] + f[R] /\ g[S] = count2[x] + g[R]
        BY <1>2, <3>2
      <4>4. x \in Session /\ count[x] \in Nat /\ count2[x] = IF x = s THEN n ELSE count[x]
        BY <4>1
      <4>5. (s \in R <=> s \in S /\ x # s)
        OBVIOUS
      <4> HIDE DEF x, R
      <4>6. CASE x = s
        BY <1>1, <4>1, <4>2, <4>3, <4>4, <4>5, <4>6
      <4>7. CASE x # s
        BY <1>1, <4>1, <4>2, <4>3, <4>4, <4>5, <4>7
      <4> QED  BY <4>6, <4>7
    <3> QED  BY <3>1, <3>2
  <2>2. m + 1 \in Nat
    OBVIOUS
  <2> HIDE DEF Moved
  <2> QED  BY <2>1, <2>2
<1>7. G = Nat
  <2> HIDE DEF G
  <2>1. G \in SUBSET Nat
    BY DEF G
  <2> QED  BY <1>5, <1>6, <2>1, Induction
<1>8. Cardinality(Session) \in Nat
  BY FS_CardinalityType, HistoryAssumption DEF HistoryAssumption
<1>9. Moved(Session)
  <2> HIDE DEF Moved
  <2> QED  BY <1>7, <1>8
<1> QED  BY <1>9 DEF f, g

LEMMA CountedNext == (Counted(Session) = Sum(appended)[Session])'
  BY CountedIsSum, PTL

\* A sum of counts is a count.
LEMMA SumNat ==
    ASSUME NEW count \in [Session -> Nat]
    PROVE  Sum(count)[Session] \in Nat
<1>1. CASE Session = {}
  <2>1. IsSum(Sum(count), count)
    BY SumExists
  <2>2. {} \in SUBSET Session
    OBVIOUS
  <2> HIDE DEF Sum
  <2>3. Sum(count)[{}] = 0
    BY <2>1, <2>2 DEF IsSum
  <2> QED  BY <1>1, <2>3
<1>2. CASE Session # {}
  <2>1. PICK s \in Session : TRUE
    BY <1>2
  <2>2. count[s] \in Nat
    OBVIOUS
  <2>3. Sum(count)[Session] \in Nat
    BY <2>2, SumChange
  <2> QED  BY <2>3
<1> QED  BY <1>1, <1>2

\* What the sessions have counted, as one of them counts or is set back.
LEMMA CountedChange ==
    ASSUME appended \in [Session -> Nat], NEW s \in Session, NEW n \in Nat, appended' = [appended EXCEPT ![s] = n]
    PROVE  /\ Counted(Session) \in Nat
           /\ Counted(Session)' = Counted(Session) + n - appended[s]
<1>1. Counted(Session)' = Sum(appended')[Session]
  BY CountedNext DEF Sum, IsSum, First
<1>2. PICK new : new = appended'
  OBVIOUS
<1>3. Sum(appended)[Session] \in Nat /\ Sum(new)[Session] = Sum(appended)[Session] + n - appended[s]
  BY <1>2, SumChange
<1>4. Counted(Session) = Sum(appended)[Session] /\ Counted(Session)' = Sum(new)[Session]
  BY <1>1, <1>2, CountedIsSum
<1> QED  BY <1>3, <1>4

LEMMA CountedNat == TypeOK => Counted(Session) \in Nat
  BY CountedIsSum, SumChange, SumNat DEF TypeOK

LEMMA CountedNatNext == (TypeOK => Counted(Session) \in Nat)'
  BY CountedNat, PTL

LEMMA CountedSame ==
    ASSUME UNCHANGED appended
    PROVE  Counted(Session)' = Counted(Session)
<1>1. PICK new : new = appended'
  OBVIOUS
<1>2. Counted(Session)' = Sum(new)[Session] /\ Counted(Session) = Sum(appended)[Session]
  BY <1>1, CountedNext, CountedIsSum DEF Sum, IsSum, First
<1> QED  BY <1>1, <1>2

-----------------------------------------------------------------------------
(* The size of the file. *)

\* A file that is within its bound by what is abandoned alone.
LEMMA Short ==
    ASSUME TypeOK', abandoned' \in Nat, file' \in Seq(Nat), Len(file') <= 2 * Limit + abandoned'
    PROVE  GrowthAccounted'
<1>1. Counted(Session)' \in Nat /\ Limit \in Nat /\ Len(file') \in Nat
  BY CountedNatNext, HistoryAssumption DEF HistoryAssumption
<1>2. Len(file') <= 2 * Limit + abandoned' + Counted(Session)'
  BY <1>1
<1> QED  BY <1>2 DEF GrowthAccounted

\* A step after which some shell is at work.
LEMMA AtWork ==
    ASSUME NEW p \in Shell, at'[p] # "idle"
    PROVE  GrowthAccounted'
  BY DEF GrowthAccounted

LEMMA InitGrowth == Init => GrowthInv
<1> SUFFICES ASSUME Init PROVE GrowthInv
  OBVIOUS
<1>1. PICK n \in 0..Earlier : \E c \in [1..n -> Command] :
        /\ ledger = [k \in 1..n |-> [cmd |-> c[k], parent |-> 0]]
        /\ file = [k \in 1..n |-> k]
        /\ ranAfter = [k \in 1..n |-> 0]
  BY Zenon DEF Init
<1>2. n \in Nat /\ n <= MaxEntries /\ Len(ledger) = n /\ Len(file) = n
  BY <1>1, HistoryAssumption DEF HistoryAssumption
<1>3. \A p \in Shell : at[p] = "idle" /\ ~Up(p)
  BY HistoryAssumption DEF Init, Up, HistoryAssumption
<1>4. GrowthAccounted
  BY <1>3 DEF GrowthAccounted
<1>5. abandoned = 0 /\ \A s \in Session : appended[s] = 0
  BY DEF Init
<1> QED  BY <1>2, <1>3, <1>4, <1>5 DEF GrowthInv

\* The part of the invariant about lengths, when the file, what is recorded and
\* what compact holds stay, and no shell enters a rewrite.
LEMMA LengthsKept ==
    ASSUME GrowthInv, UNCHANGED <<disk, ledger, out>>,
           \A p \in Shell : at'[p] \in {"cut", "write"} => at'[p] = at[p],
           abandoned' \in Nat, \A s \in Session : shell'[s] = Nobody => appended'[s] = 0,
           GrowthAccounted'
    PROVE  GrowthInv'
  BY DEF GrowthInv, disk

LEMMA QuietGrowth ==
    ASSUME IInv, IInv', GrowthInv, UNCHANGED vars
    PROVE  GrowthInv'
<1>1. Counted(Session)' = Counted(Session)
  BY CountedSame DEF vars
<1>2. GrowthAccounted'
  BY <1>1 DEF GrowthInv, GrowthAccounted, vars, Up
<1> QED  BY <1>2, LengthsKept DEF GrowthInv, vars, disk

\* A step after which no more is in the file than is abandoned.
LEMMA AllAbandoned ==
    ASSUME IInv, IInv', abandoned' = Len(file), file' = file
    PROVE  GrowthAccounted' /\ abandoned' \in Nat
<1>1. Len(file) \in Nat /\ Limit \in Nat /\ file' \in Seq(Nat)
  BY HistoryAssumption DEF IInv, TypeOK, HistoryAssumption
<1>2. Len(file') <= 2 * Limit + abandoned' /\ abandoned' \in Nat
  BY <1>1
<1> QED  BY <1>1, <1>2, Short DEF IInv

LEMMA GivesUpGrowth ==
    ASSUME IInv, IInv', GrowthInv, NEW p \in Shell, GivesUp(p)
    PROVE  GrowthInv'
<1>1. /\ at' = [at EXCEPT ![p] = "idle"] /\ abandoned' = Len(file)
      /\ UNCHANGED <<shell, appended, out, disk, ledger>>
  BY DEF GivesUp
<1>2. GrowthAccounted' /\ abandoned' \in Nat
  BY <1>1, AllAbandoned DEF disk
<1>3. \A q \in Shell : at'[q] \in {"cut", "write"} => at'[q] = at[q]
  BY <1>1 DEF IInv, TypeOK
<1> QED  BY <1>1, <1>2, <1>3, LengthsKept DEF GrowthInv

LEMMA RebuildGrowth ==
    ASSUME IInv, IInv', GrowthInv, NEW s \in Session, Clear(s) \/ Delete(s)
    PROVE  GrowthInv'
<1>1. UNCHANGED <<shell, appended, at, out, disk, ledger, abandoned>>
  BY Zenon DEF Clear, Delete, Rebuild
<1>2. Counted(Session)' = Counted(Session)
  BY <1>1, CountedSame
<1>3. GrowthAccounted'
  BY <1>1, <1>2 DEF GrowthInv, GrowthAccounted, Up, disk
<1> QED  BY <1>1, <1>3, LengthsKept DEF GrowthInv

LEMMA LoadGrowth ==
    ASSUME IInv, IInv', GrowthInv, NEW p \in Shell, NEW s \in Session, Load(p, s)
    PROVE  GrowthInv'
<1>1. /\ at[p] = "idle"
      /\ shell' = [shell EXCEPT ![s] = p] /\ appended' = [appended EXCEPT ![s] = 0]
      /\ UNCHANGED <<out, disk, ledger>>
      /\ \/ /\ at' = [at EXCEPT ![p] = IF Len(file) > Limit THEN "lock" ELSE "idle"]
            /\ UNCHANGED abandoned
         \/ at' = at /\ abandoned' = Len(file)
  BY DEF Load
<1>2. GrowthAccounted' /\ abandoned' \in Nat
  <2>1. CASE UNCHANGED abandoned /\ at'[p] # "idle"
    BY <2>1, AtWork DEF GrowthInv
  <2>2. CASE UNCHANGED abandoned /\ ~(Len(file) > Limit)
    <3>1. Len(file) \in Nat /\ Limit \in Nat /\ abandoned \in Nat /\ file' \in Seq(Nat)
      BY HistoryAssumption DEF IInv, TypeOK, GrowthInv, HistoryAssumption
    <3>2. Len(file') <= 2 * Limit + abandoned'
      BY <1>1, <2>2, <3>1 DEF disk
    <3> QED  BY <2>2, <3>1, <3>2, Short DEF IInv
  <2>3. CASE abandoned' = Len(file)
    BY <1>1, <2>3, AllAbandoned DEF disk
  <2>4. UNCHANGED abandoned /\ Len(file) > Limit => at'[p] # "idle" \/ abandoned' = Len(file)
    BY <1>1 DEF IInv, TypeOK
  <2> QED  BY <1>1, <2>1, <2>2, <2>3, <2>4
<1>3. \A q \in Shell : at'[q] \in {"cut", "write"} => at'[q] = at[q]
  BY <1>1 DEF IInv, TypeOK
<1>4. \A t \in Session : shell'[t] = Nobody => appended'[t] = 0
  BY <1>1 DEF IInv, TypeOK, GrowthInv
<1> QED  BY <1>1, <1>2, <1>3, <1>4, LengthsKept

LEMMA ForkGrowth ==
    ASSUME IInv, IInv', GrowthInv, NEW s \in Session, NEW t \in Session, Fork(s, t)
    PROVE  GrowthInv'
<1>1. /\ shell[s] # Nobody /\ shell[t] = Nobody
      /\ shell' = [shell EXCEPT ![t] = shell[s]] /\ appended' = [appended EXCEPT ![t] = appended[s]]
      /\ UNCHANGED <<at, out, disk, ledger, abandoned>>
  BY DEF Fork
<1>2. appended[s] \in Nat /\ appended[t] = 0 /\ appended \in [Session -> Nat] /\ shell[s] \in Shell
  BY <1>1 DEF IInv, TypeOK, GrowthInv
<1>3. Counted(Session) \in Nat /\ Counted(Session)' = Counted(Session) + appended[s] - appended[t]
  BY <1>1, <1>2, CountedChange
<1>4. GrowthAccounted'
  <2> SUFFICES ASSUME Limit > 0, \A p \in Shell : at[p] = "idle"
               PROVE  Len(file) <= 2 * Limit + abandoned + Counted(Session)'
    BY <1>1 DEF GrowthAccounted, disk
  <2>1. Up(shell[s])
    BY DEF Up
  <2>2. Len(file) <= 2 * Limit + abandoned + Counted(Session)
    BY <1>2, <2>1 DEF GrowthInv, GrowthAccounted
  <2>3. Len(file) \in Nat /\ Limit \in Nat /\ abandoned \in Nat
    BY HistoryAssumption DEF IInv, TypeOK, GrowthInv, HistoryAssumption
  <2> QED  BY <1>2, <1>3, <2>2, <2>3
<1>5. \A r \in Session : shell'[r] = Nobody => appended'[r] = 0
  BY <1>1 DEF IInv, TypeOK, GrowthInv
<1> QED  BY <1>1, <1>4, <1>5, LengthsKept DEF GrowthInv

LEMMA CloseGrowth ==
    ASSUME IInv, IInv', GrowthInv, NEW s \in Session, Close(s)
    PROVE  GrowthInv'
<1> DEFINE both == abandoned + appended[s]
<1>1. /\ shell[s] # Nobody /\ shell' = [shell EXCEPT ![s] = Nobody]
      /\ appended' = [appended EXCEPT ![s] = 0]
      /\ abandoned' = Min({both, MaxEntries})
      /\ UNCHANGED <<at, out, disk, ledger>>
  BY DEF Close
<1>2. /\ appended \in [Session -> Nat] /\ appended[s] \in Nat /\ shell[s] \in Shell
      /\ Len(file) \in Nat /\ Limit \in Nat /\ abandoned \in Nat /\ MaxEntries \in Nat
      /\ Len(ledger) \in Nat
  BY <1>1, HistoryAssumption DEF IInv, TypeOK, GrowthInv, HistoryAssumption
<1>3. \/ abandoned' = both
      \/ abandoned' = MaxEntries
  <2>1. both \in Int /\ MaxEntries \in Int
    BY <1>2
  <2>2. \E x \in {both, MaxEntries} : \A y \in {both, MaxEntries} : x <= y
    BY <2>1
  <2>3. Min({both, MaxEntries}) \in {both, MaxEntries}
    BY <2>2 DEF Min
  <2> QED  BY <1>1, <2>3
<1>4. Counted(Session) \in Nat /\ Counted(Session)' = Counted(Session) + 0 - appended[s]
  BY <1>1, <1>2, CountedChange
<1>5. abandoned' \in Nat
  BY <1>2, <1>3
<1>6. GrowthAccounted'
  <2> SUFFICES ASSUME Limit > 0, \A p \in Shell : at[p] = "idle"
               PROVE  Len(file) <= 2 * Limit + abandoned' + Counted(Session)'
    BY <1>1 DEF GrowthAccounted, disk
  <2>1. CASE abandoned' = both
    <3>1. Up(shell[s])
      BY DEF Up
    <3>2. Len(file) <= 2 * Limit + abandoned + Counted(Session)
      BY <1>2, <3>1 DEF GrowthInv, GrowthAccounted
    <3> QED  BY <1>2, <1>4, <2>1, <3>2
  <2>2. CASE abandoned' = MaxEntries
    <3>1. Len(file) <= Len(ledger) /\ Len(ledger) <= MaxEntries
      BY DEF GrowthInv
    <3>2. Counted(Session)' \in Nat
      BY CountedNatNext DEF IInv
    <3> QED  BY <1>2, <2>2, <3>1, <3>2
  <2> QED  BY <1>3, <2>1, <2>2
<1>7. \A r \in Session : shell'[r] = Nobody => appended'[r] = 0
  BY <1>1 DEF IInv, TypeOK, GrowthInv
<1> QED  BY <1>1, <1>5, <1>6, <1>7, LengthsKept DEF GrowthInv

LEMMA RecordGrowth ==
    ASSUME IInv, IInv', GrowthInv, NEW s \in Session, NEW cmd \in Command, Record(s, cmd)
    PROVE  GrowthInv'
<1> DEFINE p == shell[s]
           id == Len(ledger) + 1
           n == appended[s] + 1
           kept == IF Responsible(n) THEN 0 ELSE n
<1>1. /\ p \in Shell /\ at[p] = "idle" /\ id <= MaxEntries /\ p # Nobody
      /\ Len(ledger) \in Nat /\ Len(ledger') = id /\ id = Len(ledger) + 1
      /\ at' = [at EXCEPT ![p] = IF Responsible(n) THEN "count" ELSE "idle"]
      /\ appended' = [appended EXCEPT ![s] = kept]
      /\ UNCHANGED <<shell, out, abandoned>>
  BY DEF Record, IInv, TypeOK
<1>2. /\ appended \in [Session -> Nat] /\ appended[s] \in Nat /\ n \in Nat /\ kept \in Nat
      /\ Len(file) \in Nat /\ Limit \in Nat /\ abandoned \in Nat
  BY HistoryAssumption DEF IInv, TypeOK, GrowthInv, HistoryAssumption
<1>3. Len(file') \in Nat /\ Len(file') <= Len(file) + 1
  BY RecordedFile DEF Longer
<1>4. GrowthAccounted'
  <2>1. CASE Responsible(n)
    <3>1. at'[p] # "idle"
      BY <1>1, <2>1 DEF IInv, TypeOK
    <3> HIDE DEF p
    <3> QED  BY <1>1, <3>1, AtWork
  <2>2. CASE ~Responsible(n)
    <3>1. at' = at /\ appended' = [appended EXCEPT ![s] = n]
      BY <1>1, <2>2 DEF IInv, TypeOK
    <3>2. Counted(Session) \in Nat /\ Counted(Session)' = Counted(Session) + n - appended[s]
      BY <1>2, <3>1, CountedChange
    <3> SUFFICES ASSUME Limit > 0, \A q \in Shell : at[q] = "idle"
                 PROVE  Len(file') <= 2 * Limit + abandoned + Counted(Session)'
      BY <1>1, <3>1 DEF GrowthAccounted
    <3>3. Up(p)
      BY DEF Up
    <3>4. Len(file) <= 2 * Limit + abandoned + Counted(Session)
      BY <1>1, <3>3 DEF GrowthInv, GrowthAccounted
    <3> QED  BY <1>2, <1>3, <3>2, <3>4
  <2> QED  BY <2>1, <2>2
<1>5. ASSUME NEW q \in Shell, at'[q] \in {"cut", "write"}
      PROVE  at'[q] = at[q] /\ out'[q] = out[q] /\ Len(out[q]) \in Nat
  <2>1. at'[q] = at[q] /\ out'[q] = out[q]
    BY <1>1, <1>5 DEF IInv, TypeOK
  <2>2. out[q] \in Seq(Nat)
    BY DEF IInv, TypeOK
  <2> QED  BY <2>1, <2>2
<1>6. /\ \A q \in Shell : at'[q] = "cut" => Len(out'[q]) <= Limit /\ Len(out'[q]) <= Len(ledger')
      /\ \A q \in Shell : at'[q] = "write" => Len(out'[q]) <= Limit /\ Len(out'[q]) + Len(file') <= Len(ledger')
  <2>1. ASSUME NEW q \in Shell, at'[q] = "cut" PROVE Len(out'[q]) <= Limit /\ Len(out'[q]) <= Len(ledger')
    <3>1. Len(out[q]) <= Limit /\ Len(out[q]) <= Len(ledger)
      BY <1>5, <2>1 DEF GrowthInv
    <3> QED  BY <1>1, <1>5, <2>1, <3>1
  <2>2. ASSUME NEW q \in Shell, at'[q] = "write"
        PROVE  Len(out'[q]) <= Limit /\ Len(out'[q]) + Len(file') <= Len(ledger')
    <3>1. Len(out[q]) <= Limit /\ Len(out[q]) + Len(file) <= Len(ledger)
      BY <1>5, <2>2 DEF GrowthInv
    <3> QED  BY <1>1, <1>2, <1>3, <1>5, <2>2, <3>1
  <2> QED  BY <2>1, <2>2
<1>7. Len(ledger') <= MaxEntries /\ Len(file') <= Len(ledger') /\ abandoned' \in Nat
  BY <1>1, <1>2, <1>3 DEF GrowthInv
<1>8. \A r \in Session : shell'[r] = Nobody => appended'[r] = 0
  BY <1>1 DEF IInv, TypeOK, GrowthInv
<1> QED  BY <1>4, <1>6, <1>7, <1>8 DEF GrowthInv

\* maybe_compact finds the file within its bound, or the lock taken.
LEMMA TurnedAwayGrowth ==
    ASSUME IInv, IInv', GrowthInv, NEW p \in Shell, Count(p) \/ TryLock(p), ~GivesUp(p)
    PROVE  GrowthInv'
<1>1. /\ UNCHANGED <<shell, chain, appended, out, disk, ledger, abandoned>>
      /\ \A q \in Shell : at'[q] \in {"cut", "write"} => at'[q] = at[q]
  BY DEF Count, TryLock, notes, IInv, TypeOK
<1>2. Len(file) \in Nat /\ Limit \in Nat /\ abandoned \in Nat /\ file' \in Seq(Nat)
  BY HistoryAssumption DEF IInv, TypeOK, GrowthInv, HistoryAssumption
<1>3. GrowthAccounted'
  <2>1. CASE at'[p] # "idle"
    BY <2>1, AtWork
  <2>2. CASE at'[p] = "idle" /\ Count(p)
    <3>1. Len(file) <= 2 * Limit
      BY <1>2, <2>2 DEF Count, TooLong, IInv, TypeOK
    <3>2. Len(file') <= 2 * Limit + abandoned'
      BY <1>1, <1>2, <3>1 DEF disk
    <3> QED  BY <1>1, <1>2, <3>2, Short DEF IInv
  <2>3. CASE at'[p] = "idle" /\ TryLock(p)
    <3>1. lock # Nobody /\ at[p] = "lock" /\ at' = [at EXCEPT ![p] = "idle"]
      BY <2>3 DEF TryLock, IInv, TypeOK
    <3>2. lock \in Shell /\ at[lock] \in Holding
      BY <3>1 DEF IInv, TypeOK
    <3>3. lock # p /\ at'[lock] = at[lock]
      BY <3>1, <3>2 DEF Holding, IInv, TypeOK
    <3>4. PICK q \in Shell : q = lock
      BY <3>2
    <3>5. at'[q] # "idle"
      BY <3>2, <3>3, <3>4 DEF Holding
    <3> QED  BY <3>5, AtWork
  <2> QED  BY <2>1, <2>2, <2>3
<1> QED  BY <1>1, <1>2, <1>3, LengthsKept DEF GrowthInv

LEMMA RereadGrowth ==
    ASSUME IInv, IInv', GrowthInv, NEW p \in Shell, Reread(p), ~GivesUp(p)
    PROVE  GrowthInv'
<1> DEFINE w == NewestOf(file, Limit)
<1>1. /\ at' = [at EXCEPT ![p] = "cut"] /\ out' = [out EXCEPT ![p] = w] /\ at[p] = "read"
      /\ UNCHANGED <<shell, appended, file, ledger, abandoned>>
  BY DEF Reread, Keeps, notes, disk
<1>2. file \in Seq(Nat) /\ Limit \in Nat /\ Len(ledger) \in Nat
  BY HistoryAssumption DEF IInv, TypeOK, HistoryAssumption
<1>3. Len(w) <= Limit /\ Len(w) <= Len(file)
  <2>1. CASE Len(file) <= Limit
    BY <2>1 DEF NewestOf
  <2>2. CASE ~(Len(file) <= Limit)
    <3>1. Len(file) - Limit + 1 \in 1..(Len(file) + 1)
      BY <1>2, <2>2
    <3>2. w = SubSeq(file, Len(file) - Limit + 1, Len(file))
      BY <2>2 DEF NewestOf
    <3>3. Len(w) = Len(file) - (Len(file) - Limit + 1) + 1
      BY <1>2, <3>1, <3>2, SubSeqFacts
    <3> HIDE DEF w
    <3> QED  BY <1>2, <2>2, <3>3
  <2> QED  BY <2>1, <2>2
<1>4. w \in Seq(Nat)
  BY <1>2, NewestFacts
<1> HIDE DEF w
<1>5. Len(w) \in Nat /\ Len(file) \in Nat /\ Len(file) <= Len(ledger)
  BY <1>2, <1>4 DEF GrowthInv
<1>6. at'[p] # "idle" /\ at'[p] # "write"
  BY <1>1 DEF IInv, TypeOK
<1>7. GrowthAccounted'
  BY <1>6, AtWork
<1>8. ASSUME NEW q \in Shell
      PROVE  /\ at'[q] = "cut" => Len(out'[q]) <= Limit /\ Len(out'[q]) <= Len(ledger)
             /\ at'[q] = "write" => Len(out'[q]) <= Limit /\ Len(out'[q]) + Len(file) <= Len(ledger)
  <2>1. CASE q = p
    <3>1. out'[q] = w
      BY <1>1, <2>1 DEF IInv, TypeOK
    <3> QED  BY <1>2, <1>3, <1>5, <1>6, <2>1, <3>1
  <2>2. CASE q # p
    <3>1. out'[q] = out[q] /\ at'[q] = at[q]
      BY <1>1, <2>2 DEF IInv, TypeOK
    <3> QED  BY <3>1 DEF GrowthInv
  <2> QED  BY <2>1, <2>2
<1> QED  BY <1>1, <1>7, <1>8 DEF GrowthInv

LEMMA TruncateGrowth ==
    ASSUME IInv, IInv', GrowthInv, NEW p \in Shell, Truncate(p)
    PROVE  GrowthInv'
<1>1. /\ file' = <<>> /\ at' = [at EXCEPT ![p] = "write"] /\ at[p] = "cut"
      /\ UNCHANGED <<shell, appended, out, ledger, abandoned>>
  BY DEF Truncate, notes
<1>2. Len(file') = 0 /\ Len(ledger) \in Nat
  BY <1>1 DEF IInv, TypeOK
<1>3. at'[p] # "idle"
  BY <1>1 DEF IInv, TypeOK
<1>4. GrowthAccounted'
  BY <1>3, AtWork
<1>5. ASSUME NEW q \in Shell
      PROVE  /\ at'[q] = "cut" => Len(out[q]) <= Limit /\ Len(out[q]) <= Len(ledger)
             /\ at'[q] = "write" => Len(out[q]) <= Limit /\ Len(out[q]) + 0 <= Len(ledger)
  <2>1. at'[q] = "write" => q = p
    BY <1>1, Alone DEF Holding, IInv, TypeOK
  <2>2. at'[q] = "cut" => at[q] = "cut"
    BY <1>1 DEF IInv, TypeOK
  <2>3. out[q] \in Seq(Nat)
    BY DEF IInv, TypeOK
  <2>4. Len(out[q]) + 0 = Len(out[q])
    BY <2>3
  <2> QED  BY <1>1, <2>1, <2>2, <2>4 DEF GrowthInv
<1> QED  BY <1>1, <1>2, <1>4, <1>5 DEF GrowthInv

\* The end of compact, however the file is left, when its length is accounted for.
LEMMA EndGrowth ==
    ASSUME IInv, IInv', GrowthInv, NEW p \in Shell, EndOfCompact(p), ledger' = ledger,
           file' = file \/ at[p] \in Holding,
           Len(file') <= Len(ledger), abandoned' \in Nat, Len(file') <= 2 * Limit + abandoned',
           \A s \in Session : shell'[s] = Nobody => appended'[s] = 0
    PROVE  GrowthInv'
<1>1. at' = [at EXCEPT ![p] = "idle"] /\ out' = [out EXCEPT ![p] = <<>>]
  BY DEF EndOfCompact
<1>2. ASSUME NEW q \in Shell, at'[q] \in {"cut", "write"}
      PROVE  file' = file /\ at'[q] = at[q] /\ out'[q] = out[q]
  <2>1. q # p /\ at'[q] = at[q] /\ out'[q] = out[q]
    BY <1>1, <1>2 DEF IInv, TypeOK
  <2> QED  BY <1>2, <2>1, Alone DEF Holding, IInv
<1>3. file' \in Seq(Nat)
  BY DEF IInv, TypeOK
<1>4. GrowthAccounted'
  BY <1>3, Short DEF IInv
<1> QED  BY <1>2, <1>4 DEF GrowthInv

\* What is written over the start of a list is no longer than the two together.
LEMMA OverLength ==
    ASSUME NEW q \in Seq(Nat), NEW r \in Seq(Nat), NEW f \in Over(q, r)
    PROVE  Len(f) \in Nat /\ Len(q) <= Len(f) /\ Len(f) <= Len(q) + Len(r)
<1>1. ASSUME NEW t \in Seq(Nat), f = q \o t, Len(t) <= Len(r)
      PROVE  Len(f) \in Nat /\ Len(q) <= Len(f) /\ Len(f) <= Len(q) + Len(r)
  <2>1. Len(f) = Len(q) + Len(t)
    BY <1>1, JoinFacts
  <2>2. Len(q) \in Nat /\ Len(t) \in Nat /\ Len(r) \in Nat
    OBVIOUS
  <2> QED  BY <1>1, <2>1, <2>2
<1>2. CASE q = <<>> \/ r = <<>>
  <2>1. f = q \o r
    BY <1>2, Zenon DEF Over
  <2>2. Len(r) <= Len(r)
    OBVIOUS
  <2> QED  BY <1>1, <2>1, <2>2
<1>3. CASE ~(q = <<>> \/ r = <<>>)
  <2>1. PICK rest \in Rest(r) : f = q \o rest
    BY <1>3 DEF Over
  <2>2. PICK k \in 1..Len(r) : \/ rest = SubSeq(r, k + 1, Len(r))
                              \/ rest = <<Fragment>> \o SubSeq(r, k + 1, Len(r))
    BY <2>1 DEF Rest
  <2> DEFINE tail == SubSeq(r, k + 1, Len(r))
  <2>3. tail \in Seq(Nat) /\ Len(tail) = Len(r) - k
    <3>1. k + 1 \in 1..(Len(r) + 1)
      OBVIOUS
    <3>2. tail \in Seq(Nat) /\ Len(tail) = Len(r) - (k + 1) + 1
      BY <3>1, SubSeqFacts
    <3> HIDE DEF tail
    <3> QED  BY <3>2
  <2>4. <<Fragment>> \in Seq(Nat) /\ Len(<<Fragment>>) = 1
    BY DEF Fragment
  <2> HIDE DEF tail
  <2>5. rest \in Seq(Nat) /\ Len(rest) <= Len(r)
    <3>1. CASE rest = tail
      BY <2>3, <3>1
    <3>2. CASE rest = <<Fragment>> \o tail
      <4>1. rest \in Seq(Nat) /\ Len(rest) = 1 + Len(tail)
        BY <2>3, <2>4, <3>2, JoinFacts
      <4> QED  BY <2>3, <4>1
    <3> QED  BY <2>2, <3>1, <3>2 DEF tail
  <2> QED  BY <1>1, <2>1, <2>5
<1> QED  BY <1>2, <1>3

LEMMA WriteBackGrowth ==
    ASSUME IInv, IInv', GrowthInv, NEW p \in Shell, WriteBack(p)
    PROVE  GrowthInv'
<1>1. /\ at[p] = "write" /\ file' \in Over(out[p], file) /\ EndOfCompact(p)
      /\ abandoned' = Len(file') - Len(out[p]) /\ UNCHANGED <<shell, appended, ledger>>
  BY DEF WriteBack, WritesLines
<1>2. out[p] \in Seq(Nat) /\ file \in Seq(Nat) /\ Limit \in Nat /\ Len(ledger) \in Nat
  BY HistoryAssumption DEF IInv, TypeOK, HistoryAssumption
<1>3. Len(file') \in Nat /\ Len(out[p]) <= Len(file') /\ Len(file') <= Len(out[p]) + Len(file)
  BY <1>1, <1>2, OverLength
<1>4. Len(out[p]) <= Limit /\ Len(out[p]) + Len(file) <= Len(ledger)
  BY <1>1 DEF GrowthInv
<1>5. Len(out[p]) \in Nat /\ Len(file) \in Nat
  BY <1>2
<1>6. Len(file') <= Len(ledger) /\ abandoned' \in Nat /\ Len(file') <= 2 * Limit + abandoned'
  BY <1>1, <1>2, <1>3, <1>4, <1>5
<1>7. \A s \in Session : shell'[s] = Nobody => appended'[s] = 0
  BY <1>1 DEF GrowthInv
<1> QED  BY <1>1, <1>6, <1>7, EndGrowth DEF Holding

LEMMA RewriteFailsGrowth ==
    ASSUME IInv, IInv', GrowthInv, NEW p \in Shell, RewriteFails(p)
    PROVE  GrowthInv'
<1>1. /\ at[p] \in {"cut", "write"} /\ EndOfCompact(p)
      /\ abandoned' = Len(file') /\ UNCHANGED <<shell, appended, ledger>>
  BY DEF RewriteFails
<1>2. /\ out[p] \in Seq(Nat) /\ file \in Seq(Nat) /\ Limit \in Nat /\ Len(ledger) \in Nat
      /\ file' \in Seq(Nat)
  BY HistoryAssumption DEF IInv, TypeOK, HistoryAssumption
<1>3. Len(file') <= Len(ledger)
  <2>1. CASE at[p] = "cut"
    BY <2>1 DEF RewriteFails, GrowthInv, disk
  <2>2. CASE at[p] = "write"
    <3>1. PICK w \in Seq(Nat) : file' \in Over(w, file) /\ Len(w) <= Len(out[p])
      BY <2>2, StoppedWrite DEF IInv
    <3>2. Len(w) \in Nat
      OBVIOUS
    <3>3. Len(file') <= Len(w) + Len(file)
      BY <1>2, <3>1, OverLength
    <3>4. Len(out[p]) + Len(file) <= Len(ledger)
      BY <2>2 DEF GrowthInv
    <3>5. Len(out[p]) \in Nat /\ Len(file) \in Nat /\ Len(file') \in Nat
      BY <1>2
    <3> QED  BY <1>2, <3>1, <3>2, <3>3, <3>4, <3>5
  <2> QED  BY <1>1, <2>1, <2>2
<1>4. abandoned' \in Nat /\ Len(file') <= 2 * Limit + abandoned'
  BY <1>1, <1>2
<1>5. \A s \in Session : shell'[s] = Nobody => appended'[s] = 0
  BY <1>1 DEF GrowthInv
<1> QED  BY <1>1, <1>3, <1>4, <1>5, EndGrowth DEF Holding

LEMMA CrashGrowth ==
    ASSUME IInv, IInv', GrowthInv, NEW p \in Shell, Crash(p)
    PROVE  GrowthInv'
<1>1. EndOfCompact(p) /\ abandoned' = Len(file) /\ UNCHANGED <<file, ledger>>
  BY DEF Crash, disk
<1>2. file \in Seq(Nat) /\ Limit \in Nat
  BY HistoryAssumption DEF IInv, TypeOK, HistoryAssumption
<1>3. Len(file') <= Len(ledger) /\ abandoned' \in Nat /\ Len(file') <= 2 * Limit + abandoned'
  BY <1>1, <1>2 DEF GrowthInv
<1>4. \A s \in Session : shell'[s] = Nobody => appended'[s] = 0
  BY DEF Crash, GrowthInv
<1> QED  BY <1>1, <1>3, <1>4, EndGrowth

LEMMA StepGrowth ==
    ASSUME IInv, IInv', GrowthInv, [Next]_vars
    PROVE  GrowthInv'
<1>1. CASE UNCHANGED vars
  BY <1>1, QuietGrowth
<1>2. ASSUME NEW p \in Shell, NEW s \in Session, Load(p, s) PROVE GrowthInv'
  BY <1>2, LoadGrowth
<1>3. ASSUME NEW s \in Session, NEW t \in Session, Fork(s, t) PROVE GrowthInv'
  BY <1>3, ForkGrowth
<1>4. ASSUME NEW s \in Session, NEW cmd \in Command, Record(s, cmd) PROVE GrowthInv'
  BY <1>4, RecordGrowth
<1>5. ASSUME NEW p \in Shell, Compact(p) PROVE GrowthInv'
  BY <1>5, GivesUpGrowth, TurnedAwayGrowth, RereadGrowth, TruncateGrowth, WriteBackGrowth, RewriteFailsGrowth, CrashGrowth
     DEF Compact
<1>6. ASSUME NEW s \in Session, Clear(s) \/ Delete(s) \/ Close(s) PROVE GrowthInv'
  BY <1>6, RebuildGrowth, CloseGrowth
<1> QED  BY <1>1, <1>2, <1>3, <1>4, <1>5, <1>6 DEF Next

\* While no shell is at work the file is at most twice history_size longer than
\* what is accounted for: the appends the sessions have counted and not yet acted
\* on, those that went with a closed window, and what was there when a shell
\* could not open or read it, its rewrite was cut short, or it died.
THEOREM GrowthIsAccounted == Spec => []GrowthAccounted
<1>1. Init => IInv /\ GrowthInv
  BY InitInv, InitGrowth
<1>2. IInv /\ GrowthInv /\ [Next]_vars => (IInv /\ GrowthInv)'
  BY StepInv, StepGrowth
<1>3. GrowthInv => GrowthAccounted
  BY DEF GrowthInv
<1> QED  BY <1>1, <1>2, <1>3, PTL DEF Spec
=============================================================================
