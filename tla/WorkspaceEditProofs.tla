-------------------------- MODULE WorkspaceEditProofs --------------------------
(***************************************************************************)
(* Proofs about WorkspaceEdit.                                              *)
(***************************************************************************)
EXTENDS WorkspaceEdit, ListFacts, SequenceTheorems, FiniteSetTheorems

-----------------------------------------------------------------------------
(* Paths: of names, and of the numbers that aside names are.                *)

AnyPath == Seq(Names \cup Nat)

LEMMA WithinPoints ==
    ASSUME NEW S, NEW p \in Seq(S), NEW q \in Seq(S)
    PROVE  Within(p, q) <=> Len(q) <= Len(p) /\ \A i \in 1..Len(q) : p[i] = q[i]
<1>0. Len(p) \in Nat /\ Len(q) \in Nat
  OBVIOUS
<1>1. ASSUME Len(q) <= Len(p)
      PROVE  /\ SubSeq(q, 1, Len(q)) \in Seq(S) /\ Len(SubSeq(q, 1, Len(q))) = Len(q)
             /\ \A i \in 1..Len(q) : SubSeq(q, 1, Len(q))[i] = q[i]
             /\ SubSeq(p, 1, Len(q)) \in Seq(S) /\ Len(SubSeq(p, 1, Len(q))) = Len(q)
             /\ \A i \in 1..Len(q) : SubSeq(p, 1, Len(q))[i] = p[i]
  BY <1>0, <1>1, SubSeqProperties
<1>2. ASSUME Len(q) <= Len(p)
      PROVE  SubSeq(q, 1, Len(q)) = SubSeq(p, 1, Len(q)) <=> \A i \in 1..Len(q) : p[i] = q[i]
  <2>1. SubSeq(q, 1, Len(q)) = SubSeq(p, 1, Len(q))
          <=> \A i \in 1..Len(q) : SubSeq(q, 1, Len(q))[i] = SubSeq(p, 1, Len(q))[i]
    BY <1>1, <1>2, SeqEqual
  <2> QED  BY <1>1, <1>2, <2>1
<1> QED  BY <1>2, Zenon DEF Within, IsPrefix

LEMMA WithinOrder ==
    ASSUME NEW S, NEW p \in Seq(S), NEW q \in Seq(S), NEW r \in Seq(S)
    PROVE  /\ Within(p, p) /\ Within(p, <<>>)
           /\ Within(p, q) /\ Within(q, r) => Within(p, r)
           /\ Within(p, q) /\ Within(q, p) => p = q
           /\ Within(p, q) /\ Within(p, r) => Within(q, r) \/ Within(r, q)
<1>0. Len(p) \in Nat /\ Len(q) \in Nat /\ Len(r) \in Nat /\ <<>> \in Seq(S) /\ Len(<<>>) = 0
  OBVIOUS
<1>1. Within(p, p) /\ Within(p, <<>>)
  <2>1. Within(p, p)
    BY <1>0, WithinPoints
  <2>2. Within(p, <<>>) <=> Len(<<>>) <= Len(p) /\ \A i \in 1..Len(<<>>) : p[i] = <<>>[i]
    BY <1>0, WithinPoints
  <2>3. 1..Len(<<>>) = {}
    BY <1>0
  <2> QED  BY <1>0, <2>1, <2>2, <2>3
<1>2. Within(p, q) /\ Within(q, r) => Within(p, r)
  BY <1>0, WithinPoints
<1>3. Within(p, q) /\ Within(q, p) => p = q
  <2>1. Within(p, q) /\ Within(q, p) => Len(p) = Len(q) /\ \A i \in 1..Len(p) : p[i] = q[i]
    BY <1>0, WithinPoints
  <2> QED  BY <2>1, SeqEqual
<1>4. Within(p, q) /\ Within(p, r) => Within(q, r) \/ Within(r, q)
  BY <1>0, WithinPoints
<1> QED  BY <1>1, <1>2, <1>3, <1>4

LEMMA NothingWithin ==
    ASSUME NEW q \in AnyPath, q # <<>>
    PROVE  ~Within(<<>>, q)
<1>1. Len(q) \in Nat \ {0} /\ Len(<<>>) = 0 /\ <<>> \in AnyPath
  BY EmptySeq DEF AnyPath
<1>2. Within(<<>>, q) => Len(q) <= Len(<<>>)
  BY <1>1, WithinPoints, Zenon DEF AnyPath
<1> QED  BY <1>1, <1>2

\* q is what p is below from, below to.
Joined(q, p, from, to) ==
    /\ Len(q) = Len(to) + Len(p) - Len(from)
    /\ \A i \in 1..Len(to) : q[i] = to[i]
    /\ \A i \in (Len(to) + 1)..(Len(to) + Len(p) - Len(from)) : q[i] = p[i - Len(to) + Len(from)]

LEMMA MovedPoints ==
    ASSUME NEW S, NEW p \in Seq(S), NEW from \in Seq(S), NEW to \in Seq(S), Within(p, from)
    PROVE  Moved(p, from, to) \in Seq(S) /\ Joined(Moved(p, from, to), p, from, to)
<1> DEFINE r == SubSeq(p, Len(from) + 1, Len(p))
<1>0. Len(p) \in Nat /\ Len(from) \in Nat /\ Len(to) \in Nat /\ Len(from) <= Len(p)
  BY WithinPoints
<1>1. /\ r \in Seq(S) /\ Len(r) = Len(p) - Len(from)
      /\ \A i \in 1..(Len(p) - Len(from)) : r[i] = p[Len(from) + i]
  <2>1. CASE Len(from) + 1 <= Len(p)
    <3>1. Len(from) + 1 \in 1..(Len(p) + 1) /\ Len(p) \in Len(from)..Len(p)
      BY <1>0
    <3>2. Len(p) - (Len(from) + 1) + 1 = Len(p) - Len(from)
      BY <1>0
    <3> QED  BY <1>0, <2>1, <3>1, <3>2, SubSeqProperties
  <2>2. CASE ~(Len(from) + 1 <= Len(p))
    BY <1>0, <2>2, SubSeqEmpty
  <2> QED  BY <2>1, <2>2
<1> HIDE DEF r
<1>2. Moved(p, from, to) = to \o r
  BY DEF Moved, r
<1>3. /\ to \o r \in Seq(S) /\ Len(to \o r) = Len(to) + Len(r)
      /\ \A i \in 1..(Len(to) + Len(r)) : (to \o r)[i] = IF i <= Len(to) THEN to[i] ELSE r[i - Len(to)]
  BY <1>1, ConcatProperties
<1>4. ASSUME NEW i \in (Len(to) + 1)..(Len(to) + Len(p) - Len(from))
      PROVE  (to \o r)[i] = p[i - Len(to) + Len(from)]
  <2>1. i - Len(to) \in 1..(Len(p) - Len(from)) /\ i \in 1..(Len(to) + Len(r)) /\ ~(i <= Len(to))
    BY <1>0, <1>1
  <2>2. Len(from) + (i - Len(to)) = i - Len(to) + Len(from)
    BY <1>0
  <2> QED  BY <1>1, <1>3, <2>1, <2>2
<1>5. \A i \in 1..Len(to) : (to \o r)[i] = to[i]
  BY <1>0, <1>1, <1>3
<1>6. Len(to \o r) = Len(to) + Len(p) - Len(from)
  BY <1>0, <1>1, <1>3
<1>7. Joined(to \o r, p, from, to)
  BY <1>4, <1>5, <1>6 DEF Joined
<1> QED  BY <1>2, <1>3, <1>7

LEMMA MovedBack ==
    ASSUME NEW S, NEW p \in Seq(S), NEW from \in Seq(S), NEW to \in Seq(S), Within(p, from)
    PROVE  Within(Moved(p, from, to), to) /\ Moved(Moved(p, from, to), to, from) = p
<1> DEFINE q == Moved(p, from, to)
           r == Moved(q, to, from)
<1>0. Len(p) \in Nat /\ Len(from) \in Nat /\ Len(to) \in Nat /\ Len(from) <= Len(p)
      /\ \A i \in 1..Len(from) : p[i] = from[i]
  BY WithinPoints
<1>1. q \in Seq(S) /\ Joined(q, p, from, to)
  BY MovedPoints
<1>2. Within(q, to)
  <2> HIDE DEF q
  <2> QED  BY <1>0, <1>1, WithinPoints DEF Joined
<1>3. r \in Seq(S) /\ Joined(r, q, to, from)
  <2> HIDE DEF q
  <2> QED  BY <1>1, <1>2, MovedPoints
<1> HIDE DEF q, r
<1> USE DEF Joined
<1>4. Len(r) = Len(p)
  BY <1>0, <1>1, <1>3
<1>5. ASSUME NEW i \in 1..Len(p) PROVE r[i] = p[i]
  <2>1. CASE i <= Len(from)
    BY <1>0, <1>3, <2>1
  <2>2. CASE ~(i <= Len(from))
    <3>1. i \in (Len(from) + 1)..(Len(from) + Len(q) - Len(to))
      BY <1>0, <1>1, <2>2
    <3>2. i - Len(from) + Len(to) \in (Len(to) + 1)..(Len(to) + Len(p) - Len(from))
      BY <1>0, <2>2
    <3>3. (i - Len(from) + Len(to)) - Len(to) + Len(from) = i
      BY <1>0
    <3>4. r[i] = q[i - Len(from) + Len(to)]
      BY <1>3, <3>1
    <3>5. q[i - Len(from) + Len(to)] = p[(i - Len(from) + Len(to)) - Len(to) + Len(from)]
      BY <1>1, <3>2
    <3> QED  BY <3>3, <3>4, <3>5
  <2> QED  BY <2>1, <2>2
<1>6. r = p
  BY <1>3, <1>4, <1>5, SeqEqual
<1> QED  BY <1>2, <1>6 DEF q, r

LEMMA MovedKeeps ==
    ASSUME NEW S, NEW p \in Seq(S), NEW q \in Seq(S), NEW from \in Seq(S), NEW to \in Seq(S),
           Within(p, from), Within(q, from)
    PROVE  Within(Moved(p, from, to), Moved(q, from, to)) <=> Within(p, q)
<1> DEFINE x == Moved(p, from, to)
           y == Moved(q, from, to)
           m == Len(to) - Len(from)
<1>0. /\ Len(p) \in Nat /\ Len(q) \in Nat /\ Len(from) \in Nat /\ Len(to) \in Nat
      /\ Len(from) <= Len(p) /\ Len(from) <= Len(q)
      /\ \A i \in 1..Len(from) : p[i] = from[i] /\ q[i] = from[i]
  BY WithinPoints
<1>1. x \in Seq(S) /\ Joined(x, p, from, to)
  BY MovedPoints
<1>2. y \in Seq(S) /\ Joined(y, q, from, to)
  BY MovedPoints
<1> HIDE DEF x, y
<1> USE DEF Joined
<1>3. ASSUME Within(p, q) PROVE Within(x, y)
  <2>1. Len(q) <= Len(p) /\ \A i \in 1..Len(q) : p[i] = q[i]
    BY <1>3, WithinPoints
  <2>2. ASSUME NEW i \in 1..Len(y) PROVE x[i] = y[i]
    <3>1. CASE i <= Len(to)
      BY <1>0, <1>1, <1>2, <3>1
    <3>2. CASE ~(i <= Len(to))
      <4>1. i \in (Len(to) + 1)..(Len(to) + Len(q) - Len(from)) /\ i \in (Len(to) + 1)..(Len(to) + Len(p) - Len(from))
        BY <1>0, <1>2, <2>1, <3>2
      <4>2. i - Len(to) + Len(from) \in 1..Len(q)
        BY <1>0, <4>1
      <4> QED  BY <1>1, <1>2, <2>1, <4>1, <4>2
    <3> QED  BY <3>1, <3>2
  <2>3. Len(y) <= Len(x)
    BY <1>0, <1>1, <1>2, <2>1
  <2> QED  BY <1>1, <1>2, <2>2, <2>3, WithinPoints
<1>4. ASSUME Within(x, y) PROVE Within(p, q)
  <2>1. Len(y) <= Len(x) /\ \A i \in 1..Len(y) : x[i] = y[i]
    BY <1>1, <1>2, <1>4, WithinPoints
  <2>2. ASSUME NEW i \in 1..Len(q) PROVE p[i] = q[i]
    <3>1. CASE i <= Len(from)
      BY <1>0, <3>1
    <3>2. CASE ~(i <= Len(from))
      <4> DEFINE j == i + Len(to) - Len(from)
      <4>1. j \in (Len(to) + 1)..(Len(to) + Len(q) - Len(from)) /\ j \in (Len(to) + 1)..(Len(to) + Len(p) - Len(from))
        BY <1>0, <1>1, <1>2, <2>1, <3>2
      <4>2. j - Len(to) + Len(from) = i /\ j \in 1..Len(y)
        BY <1>0, <1>2, <4>1
      <4> HIDE DEF j
      <4>3. x[j] = p[j - Len(to) + Len(from)] /\ y[j] = q[j - Len(to) + Len(from)] /\ x[j] = y[j]
        BY <1>1, <1>2, <2>1, <4>1, <4>2
      <4> QED  BY <4>2, <4>3
    <3> QED  BY <3>1, <3>2
  <2>3. Len(q) <= Len(p)
    BY <1>0, <1>1, <1>2, <2>1
  <2> QED  BY <2>2, <2>3, WithinPoints
<1> QED  BY <1>3, <1>4 DEF x, y

LEMMA ParentFacts ==
    ASSUME NEW S, NEW p \in Seq(S), p # <<>>
    PROVE  /\ Parent(p) \in Seq(S) /\ Len(Parent(p)) = Len(p) - 1 /\ Len(p) \in Nat \ {0}
           /\ \A i \in 1..(Len(p) - 1) : Parent(p)[i] = p[i]
           /\ Within(p, Parent(p)) /\ Parent(p) # p /\ ~Within(Parent(p), p)
           /\ \A q \in Seq(S) : Within(p, q) /\ q # p => Within(Parent(p), q)
<1>0. Len(p) \in Nat \ {0}
  BY EmptySeq
<1>1. /\ Parent(p) \in Seq(S) /\ Len(Parent(p)) = Len(p) - 1
      /\ \A i \in 1..(Len(p) - 1) : Parent(p)[i] = p[i]
  <2>1. /\ SubSeq(p, 1, Len(p) - 1) \in Seq(S)
        /\ Len(SubSeq(p, 1, Len(p) - 1)) = IF 1 <= Len(p) - 1 THEN (Len(p) - 1) - 1 + 1 ELSE 0
        /\ \A i \in 1..((Len(p) - 1) - 1 + 1) : SubSeq(p, 1, Len(p) - 1)[i] = p[1 + i - 1]
    <3>1. \A i \in 1..(Len(p) - 1) : p[i] \in S
      BY <1>0
    <3> HIDE <1>0
    <3>2. 1 \in Int /\ Len(p) - 1 \in Int
      BY <1>0
    <3> QED  BY <3>1, <3>2, SubSeqProperties
  <2>2. (Len(p) - 1) - 1 + 1 = Len(p) - 1
    BY <1>0
  <2>3. \A i \in 1..(Len(p) - 1) : 1 + i - 1 = i
    BY <1>0
  <2> QED  BY <1>0, <2>1, <2>2, <2>3 DEF Parent, Front
<1>2. Within(p, Parent(p))
  BY <1>0, <1>1, WithinPoints
<1>3. ~Within(Parent(p), p)
  BY <1>0, <1>1, WithinPoints
<1>4. Parent(p) # p
  BY <1>0, <1>1
<1>5. ASSUME NEW q \in Seq(S), Within(p, q), q # p PROVE Within(Parent(p), q)
  <2>1. Len(q) <= Len(p) /\ \A i \in 1..Len(q) : p[i] = q[i]
    BY <1>5, WithinPoints
  <2>2. Len(q) # Len(p)
    BY <1>5, <2>1, SeqEqual
  <2>3. Len(q) \in Nat /\ Len(q) <= Len(p) - 1
    BY <1>0, <2>1, <2>2
  <2> QED  BY <1>0, <1>1, <2>1, <2>3, WithinPoints
<1> QED  BY <1>0, <1>1, <1>2, <1>3, <1>4, <1>5

LEMMA MovedParent ==
    ASSUME NEW S, NEW p \in Seq(S), NEW from \in Seq(S), NEW to \in Seq(S), Within(p, from), p # from
    PROVE  /\ p # <<>> /\ Within(Parent(p), from)
           /\ Moved(p, from, to) # <<>> /\ Parent(Moved(p, from, to)) = Moved(Parent(p), from, to)
<1>0. /\ Len(p) \in Nat /\ Len(from) \in Nat /\ Len(to) \in Nat /\ Len(from) <= Len(p)
      /\ \A i \in 1..Len(from) : p[i] = from[i]
  BY WithinPoints
<1>1. Len(p) # Len(from)
  BY <1>0, SeqEqual
<1>2. p # <<>>
  BY <1>0, <1>1
<1>3. /\ Parent(p) \in Seq(S) /\ Len(Parent(p)) = Len(p) - 1 /\ Within(Parent(p), from)
      /\ \A i \in 1..(Len(p) - 1) : Parent(p)[i] = p[i]
  BY <1>2, ParentFacts
<1> DEFINE x == Moved(p, from, to)
           y == Moved(Parent(p), from, to)
<1>4. x \in Seq(S) /\ Joined(x, p, from, to)
  BY MovedPoints
<1>5. y \in Seq(S) /\ Joined(y, Parent(p), from, to)
  BY <1>3, MovedPoints
<1> HIDE DEF x, y
<1> USE DEF Joined
<1>6. x # <<>>
  BY <1>0, <1>1, <1>4
<1>7. /\ Parent(x) \in Seq(S) /\ Len(Parent(x)) = Len(x) - 1
      /\ \A i \in 1..(Len(x) - 1) : Parent(x)[i] = x[i]
  BY <1>4, <1>6, ParentFacts
<1>8. Len(Parent(x)) = Len(y)
  BY <1>0, <1>3, <1>4, <1>5, <1>7
<1>9. ASSUME NEW i \in 1..Len(y) PROVE Parent(x)[i] = y[i]
  <2>1. Parent(x)[i] = x[i] /\ i \in 1..(Len(x) - 1)
    BY <1>7, <1>8
  <2>2. CASE i <= Len(to)
    <3>1. i \in 1..Len(to)
      BY <1>0, <1>3, <1>5, <2>2
    <3> QED  BY <1>4, <1>5, <2>1, <3>1
  <2>3. CASE ~(i <= Len(to))
    <3> DEFINE j == i - Len(to) + Len(from)
    <3>1. /\ i \in (Len(to) + 1)..(Len(to) + Len(Parent(p)) - Len(from))
          /\ i \in (Len(to) + 1)..(Len(to) + Len(p) - Len(from))
          /\ j \in 1..(Len(p) - 1)
      BY <1>0, <1>3, <1>5, <2>3
    <3>2. x[i] = p[j] /\ y[i] = Parent(p)[j]
      BY <1>4, <1>5, <3>1
    <3> HIDE DEF j
    <3> QED  BY <1>3, <2>1, <3>1, <3>2
  <2> QED  BY <2>2, <2>3
<1>10. Parent(x) = y
  BY <1>5, <1>7, <1>8, <1>9, SeqEqual
<1> QED  BY <1>2, <1>3, <1>6, <1>10 DEF x, y

LEMMA MovedWhole ==
    ASSUME NEW S, NEW from \in Seq(S), NEW to \in Seq(S)
    PROVE  Moved(from, from, to) = to
<1>1. Within(from, from)
  BY WithinOrder
<1>2. Moved(from, from, to) \in Seq(S) /\ Joined(Moved(from, from, to), from, from, to)
  BY <1>1, MovedPoints
<1> QED  BY <1>2, SeqEqual DEF Joined

LEMMA MovedNowhere ==
    ASSUME NEW S, NEW p \in Seq(S), NEW from \in Seq(S)
    PROVE  Moved(p, from, from) = p
<1>1. CASE ~Within(p, from)
  BY <1>1 DEF Moved
<1>2. CASE Within(p, from)
  <2> DEFINE x == Moved(p, from, from)
  <2>1. x \in Seq(S) /\ Joined(x, p, from, from)
    BY <1>2, MovedPoints
  <2>2. Len(p) \in Nat /\ Len(from) \in Nat /\ Len(from) <= Len(p) /\ \A i \in 1..Len(from) : p[i] = from[i]
    BY <1>2, WithinPoints
  <2> HIDE DEF x
  <2>3. Len(x) = Len(p)
    BY <2>1, <2>2 DEF Joined
  <2>4. ASSUME NEW i \in 1..Len(p) PROVE x[i] = p[i]
    <3>1. CASE i \in 1..Len(from)
      BY <2>1, <2>2, <3>1 DEF Joined
    <3>2. CASE i \notin 1..Len(from)
      <4>1. i \in (Len(from) + 1)..(Len(from) + Len(p) - Len(from)) /\ i - Len(from) + Len(from) = i
        BY <2>2, <3>2
      <4> QED  BY <2>1, <4>1 DEF Joined
    <3> QED  BY <3>1, <3>2
  <2>5. x = p
    BY <2>1, <2>3, <2>4, SeqEqual
  <2> QED  BY <2>5 DEF x
<1> QED  BY <1>1, <1>2

-----------------------------------------------------------------------------
(* Disks.                                                                   *)

Disks(N) == UNION {[D -> N] : D \in SUBSET AnyPath}

LEMMA DiskType ==
    ASSUME NEW N, NEW d \in Disks(N)
    PROVE  /\ DOMAIN d \subseteq AnyPath /\ d = [p \in DOMAIN d |-> d[p]]
           /\ \A p \in DOMAIN d : d[p] \in N
BY DEF Disks

LEMMA DiskMade ==
    ASSUME NEW N, NEW D \in SUBSET AnyPath, NEW d, d = [p \in D |-> d[p]], \A p \in D : d[p] \in N
    PROVE  d \in Disks(N)
<1>1. d \in [D -> N]
  OBVIOUS
<1> QED  BY <1>1 DEF Disks

\* Whatever is inside p, p is a directory.
LEMMA TreeClosed ==
    ASSUME NEW d, DOMAIN d \subseteq AnyPath, Tree(d), NEW q \in AnyPath,
           NEW p \in DOMAIN d, Within(p, q), p # q
    PROVE  IsDir(d, q)
<1> DEFINE G == {n \in Nat : \A x \in DOMAIN d : Len(x) = n /\ Within(x, q) /\ x # q => IsDir(d, q)}
<1>0. \A x \in DOMAIN d : x \in AnyPath /\ Len(x) \in Nat /\ x # <<>> /\ IsDir(d, Parent(x))
  BY DEF AnyPath, Tree
<1>1. 0 \in G
  BY <1>0, EmptySeq DEF AnyPath
<1>2. ASSUME NEW n \in G PROVE n + 1 \in G
  <2> SUFFICES ASSUME NEW x \in DOMAIN d, Len(x) = n + 1, Within(x, q), x # q PROVE IsDir(d, q)
    OBVIOUS
  <2>1. x \in AnyPath /\ x # <<>> /\ IsDir(d, Parent(x))
    BY <1>0
  <2>2. Parent(x) \in AnyPath /\ Len(Parent(x)) = n /\ Within(Parent(x), q)
    BY <2>1, ParentFacts DEF AnyPath
  <2>3. CASE Parent(x) = q
    BY <2>1, <2>3
  <2>4. CASE Parent(x) # q
    <3>1. Parent(x) # <<>>
      <4>1. SUFFICES ASSUME Parent(x) = <<>> PROVE FALSE
        OBVIOUS
      <4>2. Within(q, <<>>) /\ Within(<<>>, q) /\ <<>> \in AnyPath
        BY <2>2, <4>1, WithinOrder DEF AnyPath
      <4> QED  BY <2>4, <4>1, <4>2, WithinOrder DEF AnyPath
    <3>2. Parent(x) \in DOMAIN d
      BY <2>1, <3>1 DEF IsDir
    <3> QED  BY <2>2, <2>4, <3>2
  <2> QED  BY <2>3, <2>4
<1> HIDE DEF G
<1>3. G = Nat
  <2>1. G \in SUBSET Nat
    BY DEF G
  <2> QED  BY <1>1, <1>2, <2>1, Induction
<1>4. Len(p) \in G
  BY <1>0, <1>3
<1> QED  BY <1>4 DEF G

LEMMA NothingBelow ==
    ASSUME NEW d, DOMAIN d \subseteq AnyPath, Tree(d), NEW q \in AnyPath, q # <<>>, q \notin DOMAIN d
    PROVE  Below(d, q) = {}
<1>1. ASSUME NEW p \in DOMAIN d, Within(p, q) PROVE FALSE
  <2>1. IsDir(d, q)
    BY <1>1, TreeClosed
  <2> QED  BY <2>1 DEF IsDir
<1> QED  BY <1>1 DEF Below

\* A directory or a new file where there was nothing.
LEMMA WithTree ==
    ASSUME NEW N, NEW d \in Disks(N), Tree(d), NEW p \in AnyPath, p # <<>>, p \notin DOMAIN d,
           IsDir(d, Parent(p)), NEW node \in N,
           node = Dir \/ (node.kind = "file" /\ Where(d, node.id) = {})
    PROVE  /\ With(d, p, node) \in Disks(N) /\ Tree(With(d, p, node))
           /\ p \in DOMAIN With(d, p, node) /\ With(d, p, node)[p] = node
           /\ Empty(With(d, p, node), p) /\ Without(With(d, p, node), p) = d
<1> DEFINE e == With(d, p, node)
<1>0. DOMAIN d \subseteq AnyPath /\ d = [q \in DOMAIN d |-> d[q]] /\ \A q \in DOMAIN d : d[q] \in N
  BY DiskType
<1>1. /\ DOMAIN e = DOMAIN d \cup {p} /\ e = [q \in DOMAIN e |-> e[q]]
      /\ e[p] = node /\ \A q \in DOMAIN d : e[q] = d[q]
  BY DEF With
<1> HIDE DEF e
<1>2. e \in Disks(N)
  <2>1. DOMAIN e \in SUBSET AnyPath /\ \A q \in DOMAIN e : e[q] \in N
    BY <1>0, <1>1
  <2> QED  BY <1>1, <2>1, DiskMade
<1>3. ASSUME NEW q \in DOMAIN e
      PROVE  /\ q # <<>> /\ IsDir(e, Parent(q))
             /\ e[q] = Dir \/ (e[q].kind = "file" /\ Where(e, e[q].id) = {q})
  <2>1. \A x : IsDir(d, x) => IsDir(e, x)
    BY <1>1 DEF IsDir
  <2>2. CASE q = p
    <3>1. q # <<>> /\ IsDir(e, Parent(q))
      BY <2>1, <2>2
    <3>2. CASE node.kind = "file" /\ Where(d, node.id) = {}
      <4>1. Where(e, node.id) = {q}
        BY <1>1, <2>2, <3>2 DEF Where
      <4> QED  BY <1>1, <2>2, <3>1, <3>2, <4>1
    <3> QED  BY <1>1, <2>2, <3>1, <3>2
  <2>3. CASE q # p
    <3>1. q \in DOMAIN d /\ e[q] = d[q]
      BY <1>1, <2>3
    <3>2. q # <<>> /\ IsDir(d, Parent(q)) /\ (d[q] = Dir \/ (d[q].kind = "file" /\ Where(d, d[q].id) = {q}))
      BY <3>1 DEF Tree
    <3>3. CASE d[q].kind = "file" /\ Where(d, d[q].id) = {q}
      <4>1. Where(e, d[q].id) = {q}
        <5>1. CASE node = Dir
          BY <1>1, <3>1, <3>3, <5>1 DEF Where, Dir
        <5>2. CASE node.kind = "file" /\ Where(d, node.id) = {}
          <6>1. node.id # d[q].id
            BY <3>3, <5>2
          <6> QED  BY <1>1, <3>1, <3>3, <6>1 DEF Where
        <5> QED  BY <5>1, <5>2
      <4> QED  BY <2>1, <3>1, <3>2, <3>3, <4>1
    <3> QED  BY <2>1, <3>1, <3>2, <3>3
  <2> QED  BY <2>2, <2>3
<1>4. Tree(e)
  BY <1>3, Zenon DEF Tree
<1>5. Below(e, p) = {p}
  <2>1. Below(d, p) = {}
    BY <1>0, NothingBelow
  <2>2. Within(p, p)
    BY WithinOrder DEF AnyPath
  <2> QED  BY <1>1, <2>1, <2>2 DEF Below
<1>6. Without(e, p) = d
  <2>1. DOMAIN e \ Below(e, p) = DOMAIN d
    BY <1>1, <1>5
  <2>2. Without(e, p) = [q \in DOMAIN d |-> e[q]]
    BY <2>1 DEF Without
  <2> QED  BY <1>0, <1>1, <2>2
<1> QED  BY <1>1, <1>2, <1>4, <1>5, <1>6 DEF e, Empty

LEMMA WithoutTree ==
    ASSUME NEW N, NEW d \in Disks(N), Tree(d), NEW g \in AnyPath
    PROVE  Without(d, g) \in Disks(N) /\ Tree(Without(d, g))
<1> DEFINE e == Without(d, g)
<1>0. DOMAIN d \subseteq AnyPath /\ \A q \in DOMAIN d : d[q] \in N
  BY DiskType
<1>1. /\ DOMAIN e = {q \in DOMAIN d : ~Within(q, g)} /\ e = [q \in DOMAIN e |-> e[q]]
      /\ \A q \in DOMAIN e : q \in DOMAIN d /\ e[q] = d[q]
  BY DEF Without, Below
<1> HIDE DEF e
<1>2. e \in Disks(N)
  <2>1. DOMAIN e \in SUBSET AnyPath /\ \A q \in DOMAIN e : e[q] \in N
    BY <1>0, <1>1
  <2> QED  BY <1>1, <2>1, DiskMade
<1>3. ASSUME NEW q \in DOMAIN e
      PROVE  /\ q # <<>> /\ IsDir(e, Parent(q))
             /\ e[q] = Dir \/ (e[q].kind = "file" /\ Where(e, e[q].id) = {q})
  <2>1. /\ q \in DOMAIN d /\ q \in AnyPath /\ q # <<>> /\ IsDir(d, Parent(q)) /\ ~Within(q, g)
        /\ d[q] = Dir \/ (d[q].kind = "file" /\ Where(d, d[q].id) = {q})
    BY <1>0, <1>1 DEF Tree
  <2>2. IsDir(e, Parent(q))
    <3>1. Parent(q) \in AnyPath /\ Within(q, Parent(q))
      BY <2>1, ParentFacts DEF AnyPath
    <3>2. ~Within(Parent(q), g)
      BY <2>1, <3>1, WithinOrder DEF AnyPath
    <3> QED  BY <1>1, <2>1, <3>2 DEF IsDir
  <2>3. d[q].kind = "file" /\ Where(d, d[q].id) = {q} => Where(e, d[q].id) = {q}
    BY <1>1 DEF Where
  <2> QED  BY <1>1, <2>1, <2>2, <2>3
<1>4. Tree(e)
  BY <1>3, Zenon DEF Tree
<1> QED  BY <1>2, <1>4 DEF e

\* What rename(2) leaves, path by path: p has what was at Moved(p, to, from).
LEMMA RenamedFacts ==
    ASSUME NEW N, NEW d \in Disks(N), NEW from \in AnyPath, NEW to \in AnyPath, from # to
    PROVE  /\ \A p : p \in DOMAIN Renamed(d, from, to)
                 <=> /\ p \in AnyPath
                     /\ \/ Within(p, to) /\ Moved(p, to, from) \in DOMAIN d
                        \/ ~Within(p, to) /\ ~Within(p, from) /\ p \in DOMAIN d
           /\ \A p \in DOMAIN Renamed(d, from, to) :
                Renamed(d, from, to)[p] = IF Within(p, to) THEN d[Moved(p, to, from)] ELSE d[p]
           /\ Renamed(d, from, to) \in Disks(N)
<1> DEFINE e == Renamed(d, from, to)
           stay == DOMAIN d \ (Below(d, from) \cup Below(d, to))
           come == {Moved(p, from, to) : p \in Below(d, from)}
<1>0. DOMAIN d \subseteq AnyPath /\ \A q \in DOMAIN d : d[q] \in N
  BY DiskType
<1>1. \A p : p \in come <=> p \in AnyPath /\ Within(p, to) /\ Moved(p, to, from) \in DOMAIN d
  <2>1. ASSUME NEW p \in come PROVE p \in AnyPath /\ Within(p, to) /\ Moved(p, to, from) \in DOMAIN d
    <3>1. PICK x \in DOMAIN d : Within(x, from) /\ p = Moved(x, from, to)
      BY DEF Below
    <3>2. x \in AnyPath
      BY <1>0
    <3>3. p \in AnyPath /\ Within(p, to) /\ Moved(p, to, from) = x
      BY <3>1, <3>2, MovedPoints, MovedBack DEF AnyPath
    <3> QED  BY <3>3
  <2>2. ASSUME NEW p \in AnyPath, Within(p, to), Moved(p, to, from) \in DOMAIN d PROVE p \in come
    <3> DEFINE x == Moved(p, to, from)
    <3>1. Within(x, from) /\ Moved(x, from, to) = p
      BY <2>2, MovedBack DEF AnyPath
    <3>2. x \in Below(d, from)
      BY <2>2, <3>1 DEF Below
    <3> HIDE DEF x
    <3> QED  BY <3>1, <3>2
  <2> QED  BY <2>1, <2>2
<1>2. \A p : p \in stay <=> p \in DOMAIN d /\ ~Within(p, from) /\ ~Within(p, to)
  BY DEF Below
<1>3. e = [p \in stay \cup come |-> IF p \in come THEN d[Moved(p, to, from)] ELSE d[p]]
  BY DEF Renamed
<1> HIDE DEF stay, come, e
<1>4. DOMAIN e = stay \cup come /\ e = [p \in DOMAIN e |-> e[p]]
  BY <1>3
<1>5. \A p : p \in DOMAIN e <=> /\ p \in AnyPath
                                /\ \/ Within(p, to) /\ Moved(p, to, from) \in DOMAIN d
                                   \/ ~Within(p, to) /\ ~Within(p, from) /\ p \in DOMAIN d
  BY <1>0, <1>1, <1>2, <1>4
<1>6. ASSUME NEW p \in DOMAIN e PROVE e[p] = IF Within(p, to) THEN d[Moved(p, to, from)] ELSE d[p]
  <2>1. p \in come <=> Within(p, to)
    BY <1>1, <1>2, <1>4
  <2> QED  BY <1>3, <1>4, <2>1
<1>7. e \in Disks(N)
  <2>1. DOMAIN e \in SUBSET AnyPath
    BY <1>5
  <2>2. \A p \in DOMAIN e : e[p] \in N
    BY <1>0, <1>5, <1>6
  <2> QED  BY <1>4, <2>1, <2>2, DiskMade
<1> QED  BY <1>5, <1>6, <1>7 DEF e

LEMMA RenamedTree ==
    ASSUME NEW N, NEW d \in Disks(N), Tree(d), NEW from \in AnyPath, NEW to \in AnyPath,
           from # <<>>, to # <<>>, CanRename(d, from, to)
    PROVE  Renamed(d, from, to) \in Disks(N) /\ Tree(Renamed(d, from, to))
<1>1. CASE from = to
  BY <1>1 DEF Renamed
<1>2. CASE from # to
  <2> DEFINE e == Renamed(d, from, to)
             Origin(p) == IF Within(p, to) THEN Moved(p, to, from) ELSE p
  <2>0. DOMAIN d \subseteq AnyPath
    BY DiskType
  <2>1. /\ \A p : p \in DOMAIN e <=> /\ p \in AnyPath
                                     /\ \/ Within(p, to) /\ Moved(p, to, from) \in DOMAIN d
                                        \/ ~Within(p, to) /\ ~Within(p, from) /\ p \in DOMAIN d
        /\ \A p \in DOMAIN e : e[p] = IF Within(p, to) THEN d[Moved(p, to, from)] ELSE d[p]
        /\ e \in Disks(N)
    BY <1>2, RenamedFacts
  <2>2. from \in DOMAIN d /\ IsDir(d, Parent(to)) /\ ~Within(to, from)
    BY <1>2 DEF CanRename
  <2> HIDE DEF e
  <2>3. ASSUME NEW p \in DOMAIN e PROVE p \in AnyPath /\ Origin(p) \in DOMAIN d /\ e[p] = d[Origin(p)]
    BY <2>1
  <2>4. ASSUME NEW p \in DOMAIN e, NEW q \in DOMAIN e, Origin(p) = Origin(q) PROVE p = q
    <3>1. p \in AnyPath /\ q \in AnyPath
      BY <2>1
    <3>2. CASE Within(p, to) /\ Within(q, to)
      BY <2>4, <3>1, <3>2, MovedBack DEF AnyPath
    <3>3. CASE ~Within(p, to) /\ ~Within(q, to)
      BY <2>4, <3>3
    <3>4. CASE Within(p, to) /\ ~Within(q, to)
      <4>1. Within(Origin(p), from) /\ ~Within(Origin(q), from)
        BY <2>1, <3>1, <3>4, MovedBack DEF AnyPath
      <4> QED  BY <2>4, <4>1
    <3>5. CASE ~Within(p, to) /\ Within(q, to)
      <4>1. ~Within(Origin(p), from) /\ Within(Origin(q), from)
        BY <2>1, <3>1, <3>5, MovedBack DEF AnyPath
      <4> QED  BY <2>4, <4>1
    <3> QED  BY <3>2, <3>3, <3>4, <3>5
  <2>5. ASSUME NEW q \in DOMAIN d, d[q].kind = "dir", ~Within(q, to), ~Within(q, from) PROVE IsDir(e, q)
    <3>1. q \in DOMAIN e /\ e[q] = d[q]
      BY <2>0, <2>1, <2>5
    <3> QED  BY <2>5, <3>1 DEF IsDir
  <2>6. ASSUME NEW p \in DOMAIN e PROVE p # <<>> /\ IsDir(e, Parent(p))
    <3>0. p \in AnyPath /\ \A q \in DOMAIN d : q \in AnyPath /\ q # <<>> /\ IsDir(d, Parent(q))
      BY <2>0, <2>1 DEF Tree
    <3>1. CASE p = to
      <4>1. Parent(to) \in AnyPath /\ ~Within(Parent(to), to) /\ Within(to, Parent(to))
        BY ParentFacts DEF AnyPath
      <4>2. ~Within(Parent(to), from)
        BY <2>2, <4>1, WithinOrder DEF AnyPath
      <4>3. CASE Parent(to) = <<>>
        BY <3>1, <4>3 DEF IsDir
      <4>4. CASE Parent(to) # <<>>
        BY <2>2, <2>5, <3>1, <4>1, <4>2, <4>4 DEF IsDir
      <4> QED  BY <4>3, <4>4
    <3>2. CASE p # to /\ Within(p, to)
      <4> DEFINE x == Moved(p, to, from)
      <4>1. x \in DOMAIN d /\ Within(x, from) /\ Moved(x, from, to) = p /\ x \in AnyPath
        BY <2>1, <3>0, <3>2, MovedBack DEF AnyPath
      <4>2. x # from
        BY <3>2, <4>1, MovedWhole DEF AnyPath
      <4> HIDE DEF x
      <4>3. /\ x # <<>> /\ Within(Parent(x), from) /\ Parent(x) \in AnyPath
            /\ p # <<>> /\ Parent(p) = Moved(Parent(x), from, to)
        BY <4>1, <4>2, MovedParent, ParentFacts DEF AnyPath
      <4>4. Parent(x) # <<>>
        BY <4>3, NothingWithin
      <4>5. Parent(x) \in DOMAIN d /\ d[Parent(x)].kind = "dir"
        BY <3>0, <4>1, <4>4 DEF IsDir
      <4>6. Within(Parent(p), to) /\ Moved(Parent(p), to, from) = Parent(x) /\ Parent(p) \in AnyPath
        BY <4>3, MovedBack, MovedPoints DEF AnyPath
      <4>7. Parent(p) \in DOMAIN e /\ e[Parent(p)] = d[Parent(x)]
        BY <2>1, <4>5, <4>6
      <4> QED  BY <4>3, <4>5, <4>7 DEF IsDir
    <3>3. CASE ~Within(p, to)
      <4>1. p \in DOMAIN d /\ ~Within(p, from)
        BY <2>1, <3>3
      <4>2. p # <<>> /\ Parent(p) \in AnyPath /\ Within(p, Parent(p)) /\ IsDir(d, Parent(p))
        BY <3>0, <4>1, ParentFacts DEF AnyPath
      <4>3. ~Within(Parent(p), to) /\ ~Within(Parent(p), from)
        BY <3>0, <3>3, <4>1, <4>2, WithinOrder DEF AnyPath
      <4>4. CASE Parent(p) = <<>>
        BY <4>2, <4>4 DEF IsDir
      <4>5. CASE Parent(p) # <<>>
        BY <2>5, <4>2, <4>3, <4>5 DEF IsDir
      <4> QED  BY <4>4, <4>5
    <3> QED  BY <3>1, <3>2, <3>3
  <2>7. ASSUME NEW p \in DOMAIN e
        PROVE  e[p] = Dir \/ (e[p].kind = "file" /\ Where(e, e[p].id) = {p})
    <3>1. Origin(p) \in DOMAIN d /\ e[p] = d[Origin(p)]
      BY <2>3
    <3>2. d[Origin(p)] = Dir \/ (d[Origin(p)].kind = "file" /\ Where(d, d[Origin(p)].id) = {Origin(p)})
      BY <3>1 DEF Tree
    <3>3. ASSUME d[Origin(p)].kind = "file", Where(d, d[Origin(p)].id) = {Origin(p)}
          PROVE  Where(e, e[p].id) = {p}
      <4>1. ASSUME NEW q \in DOMAIN e, e[q].id = e[p].id, e[q].kind = "file" PROVE q = p
        <5>1. Origin(q) \in DOMAIN d /\ e[q] = d[Origin(q)]
          BY <2>3
        <5>2. Origin(q) \in Where(d, d[Origin(p)].id)
          BY <3>1, <4>1, <5>1 DEF Where
        <5>3. Origin(q) = Origin(p)
          BY <3>3, <5>2
        <5> QED  BY <2>4, <5>3
      <4>2. e[p].kind = "file"
        BY <3>1, <3>3
      <4> QED  BY <4>1, <4>2 DEF Where
    <3> QED  BY <3>1, <3>2, <3>3
  <2>8. Tree(e)
    BY <2>6, <2>7, Zenon DEF Tree
  <2> QED  BY <2>1, <2>8 DEF e
<1> QED  BY <1>1, <1>2

\* A rename to a free name is taken back by the rename the other way.
LEMMA RenameBack ==
    ASSUME NEW N, NEW d \in Disks(N), Tree(d), NEW from \in AnyPath, NEW to \in AnyPath,
           from # <<>>, to # <<>>, CanRename(d, from, to), from = to \/ to \notin DOMAIN d
    PROVE  /\ CanRename(Renamed(d, from, to), to, from)
           /\ Renamed(Renamed(d, from, to), to, from) = d
<1>1. CASE from = to
  BY <1>1 DEF Renamed
<1>2. CASE from # to
  <2> DEFINE e == Renamed(d, from, to)
             b == Renamed(e, to, from)
  <2>0. DOMAIN d \subseteq AnyPath /\ d = [p \in DOMAIN d |-> d[p]]
    BY DiskType
  <2>1. /\ \A p : p \in DOMAIN e <=> /\ p \in AnyPath
                                     /\ \/ Within(p, to) /\ Moved(p, to, from) \in DOMAIN d
                                        \/ ~Within(p, to) /\ ~Within(p, from) /\ p \in DOMAIN d
        /\ \A p \in DOMAIN e : e[p] = IF Within(p, to) THEN d[Moved(p, to, from)] ELSE d[p]
        /\ e \in Disks(N)
    BY <1>2, RenamedFacts
  <2> HIDE DEF e
  <2>2. /\ \A p : p \in DOMAIN b <=> /\ p \in AnyPath
                                     /\ \/ Within(p, from) /\ Moved(p, from, to) \in DOMAIN e
                                        \/ ~Within(p, from) /\ ~Within(p, to) /\ p \in DOMAIN e
        /\ \A p \in DOMAIN b : b[p] = IF Within(p, from) THEN e[Moved(p, from, to)] ELSE e[p]
        /\ b \in Disks(N)
    BY <1>2, <2>1, RenamedFacts
  <2> HIDE DEF b
  <2>3. from \in DOMAIN d /\ ~Within(to, from) /\ \A p \in DOMAIN d : ~Within(p, to)
    <3>1. Below(d, to) = {}
      BY <1>2, <2>0, NothingBelow
    <3> QED  BY <1>2, <3>1 DEF CanRename, Below
  <2>4. ASSUME NEW p \in AnyPath, Within(p, from)
        PROVE  /\ Moved(p, from, to) \in AnyPath /\ Within(Moved(p, from, to), to)
               /\ Moved(Moved(p, from, to), to, from) = p
    BY <2>4, MovedBack, MovedPoints DEF AnyPath
  <2>5. ASSUME NEW p \in AnyPath PROVE p \in DOMAIN b <=> p \in DOMAIN d
    <3>1. CASE Within(p, from)
      BY <2>1, <2>2, <2>4, <3>1
    <3>2. CASE ~Within(p, from)
      BY <2>1, <2>2, <2>3, <3>2
    <3> QED  BY <3>1, <3>2
  <2>6. DOMAIN b = DOMAIN d
    BY <2>0, <2>2, <2>5
  <2>7. ASSUME NEW p \in DOMAIN d PROVE b[p] = d[p]
    <3>1. p \in AnyPath /\ p \in DOMAIN b
      BY <2>0, <2>6
    <3>2. CASE Within(p, from)
      BY <2>1, <2>2, <2>4, <3>1, <3>2
    <3>3. CASE ~Within(p, from)
      BY <2>1, <2>2, <2>3, <3>1, <3>3
    <3> QED  BY <3>2, <3>3
  <2>8. b = [p \in DOMAIN b |-> b[p]]
    BY <2>2, DiskType
  <2>9. b = d
    BY <2>0, <2>6, <2>7, <2>8
  <2>10. to \in DOMAIN e
    <3>1. Moved(to, to, from) = from /\ Within(to, to)
      BY MovedWhole, WithinOrder DEF AnyPath
    <3> QED  BY <2>1, <2>3, <3>1
  <2>11. IsDir(e, Parent(from))
    <3>1. IsDir(d, Parent(from)) /\ Parent(from) \in AnyPath /\ ~Within(Parent(from), from)
      BY <2>3, ParentFacts DEF Tree, AnyPath
    <3> QED  BY <2>1, <2>3, <3>1 DEF IsDir
  <2>12. from \notin DOMAIN e /\ ~Within(from, to)
    <3>1. Within(from, from)
      BY WithinOrder DEF AnyPath
    <3> QED  BY <2>1, <2>3, <3>1
  <2>13. CanRename(e, to, from)
    BY <2>10, <2>11, <2>12 DEF CanRename
  <2> QED  BY <2>9, <2>13 DEF e, b
<1> QED  BY <1>1, <1>2

-----------------------------------------------------------------------------
(* Taking back.                                                             *)

Named == AnyPath \ {<<>>}
Undos == [kind : {"rmdir", "rmfile"}, path : Named, to : {<<>>}]
         \cup [kind : {"rename"}, path : Named, to : Named]
Trees(N) == {d \in Disks(N) : Tree(d)}

LEMMA UndoOneTree ==
    ASSUME NEW N, NEW d \in Trees(N), NEW u \in Undos
    PROVE  UndoOne(u, d) \in Trees(N)
<1>1. d \in Disks(N) /\ Tree(d) /\ u.path \in AnyPath /\ u.path # <<>>
  BY DEF Trees, Undos, Named
<1>2. u.kind \in {"rmdir", "rmfile", "rename"} /\ (u.kind = "rename" => u.to \in AnyPath /\ u.to # <<>>)
  BY DEF Undos, Named
<1>3. Without(d, u.path) \in Trees(N)
  BY <1>1, WithoutTree DEF Trees
<1>4. u.kind = "rename" /\ CanRename(d, u.path, u.to) => Renamed(d, u.path, u.to) \in Trees(N)
  BY <1>1, <1>2, RenamedTree DEF Trees
<1>5. CASE u.kind = "rename"
  BY <1>4, <1>5 DEF UndoOne
<1>6. CASE u.kind = "rmdir"
  BY <1>3, <1>6 DEF UndoOne
<1>7. CASE u.kind = "rmfile"
  BY <1>3, <1>7 DEF UndoOne
<1> QED  BY <1>2, <1>5, <1>6, <1>7

\* back is what Undone computes, from the last to the first.
IsBack(back, d, all) ==
    back = [n \in 0..Len(all) |-> IF n = 0 THEN d ELSE UndoOne(all[Len(all) + 1 - n], back[n - 1])]

LEMMA BackExists ==
    ASSUME NEW N, NEW d \in Trees(N), NEW all \in Seq(Undos)
    PROVE  \E back : IsBack(back, d, all)
<1> DEFINE L == Len(all)
           step == [x \in (1..L) \X Trees(N) |-> UndoOne(all[L + 1 - x[1]], x[2])]
<1>0. L \in Nat
  OBVIOUS
<1>1. step \in [(1..L) \X Trees(N) -> Trees(N)]
  <2>1. ASSUME NEW n \in 1..L, NEW e \in Trees(N) PROVE UndoOne(all[L + 1 - n], e) \in Trees(N)
    <3>1. all[L + 1 - n] \in Undos
      <4>1. L + 1 - n \in 1..L
        BY <1>0
      <4> QED  BY <4>1
    <3> QED  BY <3>1, UndoOneTree
  <2> QED  BY <2>1
<1>2. \A n \in 1..L, e \in Trees(N) : step[<<n, e>>] = UndoOne(all[L + 1 - n], e)
  OBVIOUS
<1> HIDE DEF step, L
<1>3. PICK h \in [0..L -> Trees(N)] : MadeFrom(h, L, d, step)
  BY <1>0, <1>1, Recursion, Zenon
<1>4. ASSUME NEW n \in 0..L PROVE h[n] = IF n = 0 THEN d ELSE UndoOne(all[L + 1 - n], h[n - 1])
  <2>1. CASE n = 0
    BY <1>3, <2>1 DEF MadeFrom
  <2>2. CASE n # 0
    <3>1. n \in 1..L /\ n - 1 \in 0..L
      BY <1>0, <2>2
    <3> QED  BY <1>2, <1>3, <2>2, <3>1 DEF MadeFrom
  <2> QED  BY <2>1, <2>2
<1>5. h = [n \in 0..L |-> IF n = 0 THEN d ELSE UndoOne(all[L + 1 - n], h[n - 1])]
  BY <1>4
<1> QED  BY <1>5 DEF IsBack, L

\* What it computes, step by step.
TakesBack(back, N, d, all) ==
    /\ Undone(d, all) = back[Len(all)] /\ back[0] = d
    /\ \A n \in 0..Len(all) : back[n] \in Trees(N)
    /\ \A n \in 1..Len(all) : back[n] = UndoOne(all[Len(all) + 1 - n], back[n - 1])

LEMMA BackFacts ==
    ASSUME NEW N, NEW d \in Trees(N), NEW all \in Seq(Undos)
    PROVE  \E back : TakesBack(back, N, d, all)
<1> DEFINE back == CHOOSE f : IsBack(f, d, all)
           G == {n \in Nat : n <= Len(all) => back[n] \in Trees(N)}
<1>0. Len(all) \in Nat
  OBVIOUS
<1>1. Undone(d, all) = back[Len(all)]
  BY DEF Undone, IsBack
<1>2. IsBack(back, d, all)
  BY BackExists
<1>3. \A n \in 0..Len(all) : back[n] = IF n = 0 THEN d ELSE UndoOne(all[Len(all) + 1 - n], back[n - 1])
  <2> HIDE DEF back
  <2> QED  BY <1>2 DEF IsBack
<1> HIDE DEF back
<1>4. back[0] = d
  BY <1>0, <1>3
<1>5. ASSUME NEW n \in 1..Len(all) PROVE back[n] = UndoOne(all[Len(all) + 1 - n], back[n - 1])
  <2>1. n \in 0..Len(all) /\ n # 0
    BY <1>0
  <2> QED  BY <1>3, <2>1
<1>6. 0 \in G
  BY <1>4
<1>7. ASSUME NEW n \in G PROVE n + 1 \in G
  <2> SUFFICES ASSUME n + 1 <= Len(all) PROVE back[n + 1] \in Trees(N)
    OBVIOUS
  <2>1. n \in Nat /\ n <= Len(all) /\ n + 1 \in 1..Len(all) /\ (n + 1) - 1 = n
    BY <1>0
  <2>2. back[n] \in Trees(N)
    BY <2>1
  <2>3. all[Len(all) + 1 - (n + 1)] \in Undos
    <3>1. Len(all) + 1 - (n + 1) \in 1..Len(all)
      BY <1>0, <2>1
    <3> QED  BY <3>1
  <2>4. back[n + 1] = UndoOne(all[Len(all) + 1 - (n + 1)], back[n])
    BY <1>5, <2>1
  <2> QED  BY <2>2, <2>3, <2>4, UndoOneTree
<1>8. G = Nat
  <2> HIDE DEF G
  <2>1. G \in SUBSET Nat
    BY DEF G
  <2> QED  BY <1>6, <1>7, <2>1, Induction
<1>9. \A n \in 0..Len(all) : back[n] \in Trees(N)
  <2>1. ASSUME NEW n \in 0..Len(all) PROVE back[n] \in Trees(N)
    <3>1. n \in G /\ n <= Len(all)
      BY <1>0, <1>8
    <3> QED  BY <3>1
  <2> QED  BY <2>1
<1> QED  BY <1>1, <1>4, <1>5, <1>9 DEF TakesBack

LEMMA UndoneTree ==
    ASSUME NEW N, NEW d \in Trees(N), NEW all \in Seq(Undos)
    PROVE  Undone(d, all) \in Trees(N)
<1>1. Len(all) \in 0..Len(all)
  OBVIOUS
<1> QED  BY <1>1, BackFacts DEF TakesBack

\* The last thing done is taken back first.
LEMMA UndoneLast ==
    ASSUME NEW N, NEW d \in Trees(N), NEW all \in Seq(Undos), NEW u \in Undos
    PROVE  Undone(d, Append(all, u)) = Undone(UndoOne(u, d), all)
<1> DEFINE more == Append(all, u)
           e == UndoOne(u, d)
<1>0. Len(all) \in Nat /\ more \in Seq(Undos) /\ Len(more) = Len(all) + 1 /\ more[Len(all) + 1] = u
      /\ \A i \in 1..Len(all) : more[i] = all[i]
  OBVIOUS
<1> HIDE DEF more
<1>1. PICK f : TakesBack(f, N, d, more)
  BY <1>0, BackFacts
<1>2. e \in Trees(N)
  BY UndoOneTree
<1>3. PICK g : TakesBack(g, N, e, all)
  BY <1>2, BackFacts
<1> USE DEF TakesBack
<1> DEFINE G == {n \in Nat : n <= Len(all) => f[n + 1] = g[n]}
<1>4. 0 \in G
  <2>1. 1 \in 1..Len(more) /\ Len(more) + 1 - 1 = Len(all) + 1
    BY <1>0
  <2>2. f[1] = UndoOne(u, d)
    BY <1>0, <1>1, <2>1
  <2> QED  BY <1>3, <2>2
<1>5. ASSUME NEW n \in G PROVE n + 1 \in G
  <2> SUFFICES ASSUME n + 1 <= Len(all) PROVE f[(n + 1) + 1] = g[n + 1]
    OBVIOUS
  <2>1. n \in Nat /\ n <= Len(all) /\ f[n + 1] = g[n]
    BY <1>0
  <2> DEFINE i == Len(all) + 1 - (n + 1)
  <2>2. /\ (n + 1) + 1 \in 1..Len(more) /\ n + 1 \in 1..Len(all)
        /\ ((n + 1) + 1) - 1 = n + 1 /\ (n + 1) - 1 = n
        /\ Len(more) + 1 - ((n + 1) + 1) = i /\ i \in 1..Len(all)
    <3>1. Len(more) = Len(all) + 1 /\ Len(all) \in Nat /\ n \in Nat /\ n + 1 <= Len(all)
      BY <1>0, <2>1
    <3> QED  BY <3>1
  <2> HIDE DEF i
  <2>3. f[(n + 1) + 1] = UndoOne(more[i], f[n + 1])
    BY <1>1, <2>2
  <2>4. g[n + 1] = UndoOne(all[i], g[n])
    BY <1>3, <2>2 DEF i
  <2> QED  BY <1>0, <2>1, <2>2, <2>3, <2>4
<1>6. G = Nat
  <2> HIDE DEF G
  <2>1. G \in SUBSET Nat
    BY DEF G
  <2> QED  BY <1>4, <1>5, <2>1, Induction
<1>7. f[Len(more)] = g[Len(all)]
  <2>1. Len(all) \in G /\ Len(all) <= Len(all)
    BY <1>0, <1>6
  <2> QED  BY <1>0, <2>1
<1> QED  BY <1>1, <1>3, <1>7 DEF more

LEMMA UndoneNone ==
    ASSUME NEW N, NEW d \in Trees(N)
    PROVE  Undone(d, <<>>) = d
<1>1. <<>> \in Seq(Undos) /\ Len(<<>>) = 0
  OBVIOUS
<1>2. PICK back : TakesBack(back, N, d, <<>>)
  <2> DEFINE all == <<>>
  <2>1. all \in Seq(Undos)
    OBVIOUS
  <2> HIDE DEF all
  <2>2. \E back : TakesBack(back, N, d, all)
    BY <2>1, BackFacts
  <2> QED  BY <2>2 DEF all
<1>3. Undone(d, <<>>) = back[Len(<<>>)] /\ back[0] = d
  BY <1>2 DEF TakesBack
<1> QED  BY <1>1, <1>3

-----------------------------------------------------------------------------
(* Directories made on the way.                                             *)

\* dirs are the directories on the way to t that d does not have, outermost first.
OnTheWay(dirs, d, t) ==
    /\ dirs \in Seq(Paths)
    /\ \A k \in 1..Len(dirs) : dirs[k] \notin DOMAIN d /\ Within(t, dirs[k]) /\ dirs[k] # t
    /\ \A k \in 1..(Len(dirs) - 1) : Parent(dirs[k + 1]) = dirs[k]
    /\ \A j, k \in 1..Len(dirs) : j # k => dirs[j] # dirs[k]

LEMMA MissingFacts ==
    ASSUME NEW d, NEW step, Target(step) \in Paths
    PROVE  OnTheWay(Missing(d, step), d, Target(step))
<1> DEFINE at == Target(step)
           there == {k \in 0..(Len(at) - 1) : k = 0 \/ SubSeq(at, 1, k) \in DOMAIN d}
           last == CHOOSE k \in there : \A j \in there : j <= k
           dirs == [k \in 1..(Len(at) - 1 - last) |-> SubSeq(at, 1, last + k)]
<1>0. at \in Seq(Names) /\ Len(at) \in Nat \ {0}
  BY EmptySeq DEF Paths
<1>1. CASE step.kind = "delete"
  <2>1. Missing(d, step) = <<>> /\ <<>> \in Seq(Paths) /\ Len(<<>>) = 0
    BY <1>1 DEF Missing
  <2> QED  BY <2>1 DEF OnTheWay
<1>2. CASE step.kind # "delete"
  <2>1. Missing(d, step) = dirs
    BY <1>2 DEF Missing
  <2>2. \E k \in there : \A j \in there : j <= k
    <3> DEFINE T == {Len(at) - 1 - k : k \in there}
    <3>1. there \subseteq Nat /\ 0 \in there /\ \A k \in there : k <= Len(at) - 1
      BY <1>0
    <3> HIDE DEF there
    <3>2. T \in SUBSET Nat /\ T # {}
      BY <1>0, <3>1
    <3>3. PICK x \in T : \A y \in T : x <= y
      <4> HIDE DEF T
      <4> QED  BY <3>2, Least
    <3>4. PICK k \in there : x = Len(at) - 1 - k
      BY <3>3
    <3>5. ASSUME NEW j \in there PROVE j <= k
      <4>1. x <= Len(at) - 1 - j
        BY <3>3, <3>5
      <4>2. Len(at) \in Nat /\ j \in Nat /\ k \in Nat
        BY <1>0, <3>1
      <4> QED  BY <3>4, <4>1, <4>2
    <3> QED  BY <3>5
  <2>3. last \in there /\ \A j \in there : j <= last
    <3> HIDE DEF there
    <3> QED  BY <2>2
  <2> HIDE DEF last
  <2>4. last \in Nat /\ last <= Len(at) - 1
    BY <1>0, <2>3
  <2>5. ASSUME NEW k \in 1..(Len(at) - 1 - last)
        PROVE  /\ dirs[k] = SubSeq(at, 1, last + k) /\ last + k \in 1..(Len(at) - 1)
               /\ dirs[k] \in Seq(Names) /\ Len(dirs[k]) = last + k
               /\ \A i \in 1..(last + k) : dirs[k][i] = at[i]
    <3>1. last + k \in 1..(Len(at) - 1) /\ 1 \in Int /\ last + k \in Int /\ (last + k) - 1 + 1 = last + k
      BY <1>0, <2>4
    <3>2. \A i \in 1..(last + k) : at[i] \in Names /\ 1 + i - 1 = i
      BY <1>0, <3>1
    <3>3. /\ SubSeq(at, 1, last + k) \in Seq(Names)
          /\ Len(SubSeq(at, 1, last + k)) = last + k
          /\ \A i \in 1..(last + k) : SubSeq(at, 1, last + k)[i] = at[i]
      BY <3>1, <3>2, SubSeqProperties
    <3> QED  BY <3>1, <3>3
  <2> DEFINE n == Len(at) - 1 - last
  <2>6. n \in Nat /\ DOMAIN dirs = 1..n
    BY <1>0, <2>4
  <2>7. ASSUME NEW k \in 1..n
        PROVE  /\ dirs[k] \in Paths /\ dirs[k] \notin DOMAIN d
               /\ Within(at, dirs[k]) /\ dirs[k] # at
    <3>1. /\ dirs[k] = SubSeq(at, 1, last + k) /\ last + k \in 1..(Len(at) - 1)
          /\ dirs[k] \in Seq(Names) /\ Len(dirs[k]) = last + k
          /\ \A i \in 1..(last + k) : dirs[k][i] = at[i]
      BY <2>5
    <3>2. last + k \notin there
      <4>1. ~(last + k <= last)
        BY <2>4
      <4> QED  BY <2>3, <4>1
    <3>3. dirs[k] \notin DOMAIN d
      BY <1>0, <3>1, <3>2
    <3> HIDE DEF dirs, there
    <3>4. Len(dirs[k]) # Len(at) /\ Len(dirs[k]) <= Len(at) /\ Len(dirs[k]) # 0
      BY <1>0, <3>1
    <3>5. dirs[k] # <<>> /\ dirs[k] # at
      BY <3>4
    <3>6. Within(at, dirs[k])
      BY <1>0, <3>1, <3>4, WithinPoints
    <3> QED  BY <3>1, <3>3, <3>5, <3>6 DEF Paths
  <2>8. ASSUME NEW k \in 1..(n - 1) PROVE Parent(dirs[k + 1]) = dirs[k]
    <3>1. k \in 1..n /\ k + 1 \in 1..n /\ k \in Nat
      BY <2>6
    <3>2. /\ dirs[k] \in Seq(Names) /\ Len(dirs[k]) = last + k
          /\ \A i \in 1..(last + k) : dirs[k][i] = at[i]
      BY <2>5, <3>1
    <3>3. /\ dirs[k + 1] \in Seq(Names) /\ Len(dirs[k + 1]) = last + (k + 1)
          /\ \A i \in 1..(last + (k + 1)) : dirs[k + 1][i] = at[i]
      BY <2>5, <3>1
    <3>4. dirs[k + 1] # <<>>
      BY <2>7, <3>1 DEF Paths
    <3> HIDE DEF dirs, n
    <3>5. /\ Parent(dirs[k + 1]) \in Seq(Names) /\ Len(Parent(dirs[k + 1])) = Len(dirs[k + 1]) - 1
          /\ \A i \in 1..(Len(dirs[k + 1]) - 1) : Parent(dirs[k + 1])[i] = dirs[k + 1][i]
      BY <3>3, <3>4, ParentFacts
    <3>6. Len(Parent(dirs[k + 1])) = Len(dirs[k])
      BY <2>4, <3>1, <3>2, <3>3, <3>5
    <3>7. ASSUME NEW i \in 1..Len(dirs[k]) PROVE Parent(dirs[k + 1])[i] = dirs[k][i]
      <4>1. i \in 1..(last + k) /\ i \in 1..(last + (k + 1)) /\ i \in 1..(Len(dirs[k + 1]) - 1)
        BY <2>4, <3>1, <3>2, <3>3
      <4> QED  BY <3>2, <3>3, <3>5, <4>1
    <3> QED  BY <3>2, <3>5, <3>6, <3>7, SeqEqual
  <2>9. ASSUME NEW j \in 1..n, NEW k \in 1..n, j # k PROVE dirs[j] # dirs[k]
    <3>1. Len(dirs[j]) = last + j /\ Len(dirs[k]) = last + k
      BY <2>5
    <3>2. last + j # last + k
      BY <2>4, <2>9
    <3> QED  BY <3>1, <3>2
  <2>10. dirs \in Seq(Paths) /\ Len(dirs) = n
    <3>1. \A k \in 1..n : dirs[k] \in Paths
      BY <2>7
    <3>2. dirs = [k \in 1..n |-> SubSeq(at, 1, last + k)]
      OBVIOUS
    <3> HIDE DEF n, dirs
    <3>3. dirs \in [1..n -> Paths]
      BY <3>1, <3>2
    <3> QED  BY <2>6, <3>3
  <2> HIDE DEF dirs, n
  <2> QED  BY <2>1, <2>7, <2>8, <2>9, <2>10 DEF OnTheWay
<1> QED  BY <1>1, <1>2

LEMMA PathsAny == Paths \subseteq Named /\ Named \subseteq AnyPath
<1>1. Names \subseteq Names \cup Nat
  OBVIOUS
<1>2. Seq(Names) \subseteq Seq(Names \cup Nat)
  BY <1>1, SeqMonotonic
<1> QED  BY <1>2 DEF Paths, Named, AnyPath

LEMMA UndoDirsType ==
    ASSUME NEW dirs \in Seq(Paths)
    PROVE  UndoDirs(dirs) \in Seq(Undos) /\ Len(UndoDirs(dirs)) = Len(dirs)
<1>1. \A i \in 1..Len(dirs) : [kind |-> "rmdir", path |-> dirs[i], to |-> <<>>] \in Undos
  BY PathsAny DEF Undos
<1>2. DOMAIN dirs = 1..Len(dirs) /\ Len(dirs) \in Nat
  OBVIOUS
<1> QED  BY <1>1, <1>2 DEF UndoDirs

\* Of dirs the first k made on d, and what takes them back after all.
GoesBack(N, d, dirs, k, all) ==
    LET some == SubSeq(dirs, 1, k)
        e    == DirsMade(d, some)
    IN /\ e \in Trees(N) /\ DOMAIN e = DOMAIN d \cup {dirs[i] : i \in 1..k}
       /\ \A p \in DOMAIN d : e[p] = d[p]
       /\ \A i \in 1..k : e[dirs[i]] = Dir
       /\ some \in Seq(Paths) /\ all \o UndoDirs(some) \in Seq(Undos)
       /\ Undone(e, all \o UndoDirs(some)) = Undone(d, all)

\* The first directories of those on the way: made, the disk is a tree; taken back,
\* it is what it was.
LEMMA DirsBack ==
    ASSUME NEW N, Dir \in N, NEW d \in Trees(N), NEW t, NEW dirs, OnTheWay(dirs, d, t),
           NEW k \in 0..Len(dirs), k > 0 => CanMakeDirs(d, dirs), NEW all \in Seq(Undos)
    PROVE  GoesBack(N, d, dirs, k, all)
<1> DEFINE some(n) == SubSeq(dirs, 1, n)
           e(n) == DirsMade(d, some(n))
           Good(n) == /\ e(n) \in Trees(N)
                      /\ all \o UndoDirs(some(n)) \in Seq(Undos)
                      /\ Undone(e(n), all \o UndoDirs(some(n))) = Undone(d, all)
           G == {n \in Nat : n <= k => Good(n)}
<1>0. /\ dirs \in Seq(Paths) /\ Len(dirs) \in Nat /\ k \in Nat /\ k <= Len(dirs)
      /\ d \in Disks(N) /\ Tree(d) /\ DOMAIN d \subseteq AnyPath /\ d = [p \in DOMAIN d |-> d[p]]
  BY DiskType DEF OnTheWay, Trees
<1>1. ASSUME NEW n \in 0..k
      PROVE  /\ some(n) \in Seq(Paths) /\ Len(some(n)) = n /\ \A i \in 1..n : some(n)[i] = dirs[i]
             /\ Range(some(n)) = {dirs[i] : i \in 1..n}
  <2>1. n \in Nat /\ n <= Len(dirs) /\ 1 \in Int /\ n \in Int /\ n - 1 + 1 = n
    BY <1>0
  <2>2. \A i \in 1..n : dirs[i] \in Paths /\ 1 + i - 1 = i
    BY <1>0, <2>1
  <2>3. /\ some(n) \in Seq(Paths) /\ Len(some(n)) = n /\ \A i \in 1..n : some(n)[i] = dirs[i]
    <3>1. CASE 1 <= n
      BY <2>1, <2>2, <3>1, SubSeqProperties
    <3>2. CASE n = 0
      <4>1. some(n) = <<>>
        BY <3>2, SubSeqEmpty
      <4> QED  BY <3>2, <4>1
    <3> QED  BY <2>1, <3>1, <3>2
  <2> HIDE DEF some
  <2>4. DOMAIN some(n) = 1..n
    BY <2>3
  <2> QED  BY <2>3, <2>4 DEF Range
<1>2. ASSUME NEW n \in 0..k
      PROVE  /\ DOMAIN e(n) = DOMAIN d \cup {dirs[i] : i \in 1..n}
             /\ e(n) = [p \in DOMAIN e(n) |-> e(n)[p]]
             /\ \A p \in DOMAIN d : e(n)[p] = d[p]
             /\ \A i \in 1..n : e(n)[dirs[i]] = Dir
  <2>1. Range(some(n)) = {dirs[i] : i \in 1..n}
    BY <1>1
  <2>2. \A i \in 1..n : i \in 1..Len(dirs)
    BY <1>0
  <2>3. \A i \in 1..n : dirs[i] \notin DOMAIN d
    BY <2>2 DEF OnTheWay
  <2> HIDE DEF some
  <2> QED  BY <2>1, <2>3 DEF DirsMade
<1>3. 0 \in G
  <2>1. some(0) = <<>>
    BY SubSeqEmpty
  <2>2. e(0) = d
    <3>1. 0 \in 0..k /\ 1..0 = {}
      BY <1>0
    <3>2. /\ DOMAIN e(0) = DOMAIN d \cup {dirs[i] : i \in 1..0}
          /\ e(0) = [p \in DOMAIN e(0) |-> e(0)[p]]
          /\ \A p \in DOMAIN d : e(0)[p] = d[p]
      BY <1>2, <3>1, Zenon
    <3> HIDE DEF e
    <3>3. {dirs[i] : i \in 1..0} = {}
      BY <3>1
    <3>4. DOMAIN e(0) = DOMAIN d
      BY <3>2, <3>3
    <3> QED  BY <1>0, <3>2, <3>4
  <2>3. UndoDirs(<<>>) = <<>>
    <3>1. <<>> \in Seq(Paths)
      OBVIOUS
    <3>2. UndoDirs(<<>>) \in Seq(Undos) /\ Len(UndoDirs(<<>>)) = Len(<<>>)
      BY <3>1, UndoDirsType
    <3> DEFINE w == UndoDirs(<<>>)
    <3>3. w \in Seq(Undos) /\ Len(w) = 0
      BY <3>2
    <3> HIDE DEF w
    <3>4. w = <<>>
      BY <3>3, EmptySeq
    <3> QED  BY <3>4 DEF w
  <2>4. all \o <<>> = all
    BY ConcatFacts
  <2> HIDE DEF e, some
  <2>5. Good(0)
    BY <2>1, <2>2, <2>3, <2>4
  <2> HIDE DEF Good
  <2> QED  BY <2>5
<1>4. ASSUME NEW n \in G PROVE n + 1 \in G
  <2> SUFFICES ASSUME n + 1 <= k PROVE Good(n + 1)
    <3> HIDE DEF Good
    <3> QED  OBVIOUS
  <2>1. n \in Nat /\ n <= k /\ n \in 0..k /\ n + 1 \in 0..k /\ n + 1 \in 1..Len(dirs) /\ k > 0
    BY <1>0
  <2>2. Good(n)
    <3> HIDE DEF Good
    <3> QED  BY <2>1
  <2> DEFINE p == dirs[n + 1]
             u == [kind |-> "rmdir", path |-> p, to |-> <<>>]
  <2>3. /\ p \in Paths /\ p \in AnyPath /\ p # <<>> /\ p \notin DOMAIN d
        /\ \A i \in 1..n : p # dirs[i]
    <3>1. p \in Paths /\ p \notin DOMAIN d
      BY <1>0, <2>1 DEF OnTheWay
    <3>2. \A i \in 1..n : i \in 1..Len(dirs) /\ i # n + 1
      BY <1>0, <2>1
    <3>3. \A i \in 1..n : p # dirs[i]
      BY <2>1, <3>2 DEF OnTheWay
    <3> QED  BY <3>1, <3>3, PathsAny DEF Named
  <2>4. /\ DOMAIN e(n) = DOMAIN d \cup {dirs[i] : i \in 1..n}
        /\ e(n) = [q \in DOMAIN e(n) |-> e(n)[q]]
        /\ \A q \in DOMAIN d : e(n)[q] = d[q]
        /\ \A i \in 1..n : e(n)[dirs[i]] = Dir
    BY <1>2, <2>1
  <2>5. /\ DOMAIN e(n + 1) = DOMAIN d \cup {dirs[i] : i \in 1..(n + 1)}
        /\ e(n + 1) = [q \in DOMAIN e(n + 1) |-> e(n + 1)[q]]
        /\ \A q \in DOMAIN d : e(n + 1)[q] = d[q]
        /\ \A i \in 1..(n + 1) : e(n + 1)[dirs[i]] = Dir
    BY <1>2, <2>1
  <2>6. IsDir(e(n), Parent(p))
    <3>1. CASE n = 0
      <4>1. CanMakeDirs(d, dirs) /\ dirs # <<>> /\ p = dirs[1]
        BY <1>0, <2>1, <3>1
      <4>2. IsDir(d, Parent(p))
        BY <4>1 DEF CanMakeDirs
      <4> HIDE DEF e, p
      <4> QED  BY <2>4, <4>2 DEF IsDir
    <3>2. CASE n # 0
      <4>1. n \in 1..(Len(dirs) - 1) /\ n \in 1..n
        BY <1>0, <2>1, <3>2
      <4>2. Parent(p) = dirs[n]
        BY <4>1 DEF OnTheWay
      <4> HIDE DEF e, p
      <4>3. dirs[n] \in DOMAIN e(n) /\ e(n)[dirs[n]].kind = "dir"
        BY <2>4, <4>1 DEF Dir
      <4> QED  BY <4>2, <4>3 DEF IsDir
    <3> QED  BY <3>1, <3>2
  <2>7. e(n + 1) = With(e(n), p, Dir)
    <3>1. {dirs[i] : i \in 1..(n + 1)} = {dirs[i] : i \in 1..n} \cup {p}
      <4>1. \A i \in 1..(n + 1) : i \in 1..n \/ i = n + 1
        BY <2>1
      <4>2. n + 1 \in 1..(n + 1) /\ \A i \in 1..n : i \in 1..(n + 1)
        BY <2>1
      <4> QED  BY <4>1, <4>2
    <3>2. n + 1 \in 1..(n + 1) /\ \A i \in 1..n : i \in 1..(n + 1)
      BY <2>1
    <3>3. e(n + 1)[p] = Dir
      BY <2>5, <3>2
    <3>4. ASSUME NEW q \in DOMAIN e(n) PROVE e(n + 1)[q] = e(n)[q] /\ q # p
      <4> HIDE DEF e
      <4>1. CASE q \in DOMAIN d
        BY <2>3, <2>4, <2>5, <4>1
      <4>2. CASE q \notin DOMAIN d
        <5>1. PICK i \in 1..n : q = dirs[i]
          BY <2>4, <4>2
        <5> QED  BY <2>3, <2>4, <2>5, <3>2, <5>1
      <4> QED  BY <4>1, <4>2
    <3> HIDE DEF e, p
    <3>5. DOMAIN e(n + 1) = DOMAIN e(n) \cup {p}
      BY <2>4, <2>5, <3>1
    <3> QED  BY <2>5, <3>3, <3>4, <3>5 DEF With
  <2>8. p \notin DOMAIN e(n)
    <3> HIDE DEF e, p
    <3> QED  BY <2>3, <2>4
  <2> HIDE DEF e, some
  <2>9. /\ e(n + 1) \in Trees(N)
        /\ p \in DOMAIN e(n + 1) /\ e(n + 1)[p] = Dir
        /\ Empty(e(n + 1), p) /\ Without(e(n + 1), p) = e(n)
    <3> HIDE DEF p
    <3>1. e(n) \in Disks(N) /\ Tree(e(n))
      BY <2>2 DEF Trees
    <3> QED  BY <2>3, <2>6, <2>7, <2>8, <3>1, WithTree DEF Trees
  <2>10. UndoOne(u, e(n + 1)) = e(n)
    <3> HIDE DEF p
    <3>1. CanRemoveDir(e(n + 1), p)
      BY <2>9 DEF CanRemoveDir, Dir
    <3> QED  BY <2>9, <3>1 DEF UndoOne
  <2>11. u \in Undos
    BY <2>3 DEF Undos, Named
  <2>12. UndoDirs(some(n + 1)) = Append(UndoDirs(some(n)), u)
    <3>1. some(n) \in Seq(Paths) /\ Len(some(n)) = n /\ \A i \in 1..n : some(n)[i] = dirs[i]
      BY <1>1, <2>1
    <3>2. /\ some(n + 1) \in Seq(Paths) /\ Len(some(n + 1)) = n + 1
          /\ \A i \in 1..(n + 1) : some(n + 1)[i] = dirs[i]
      BY <1>1, <2>1
    <3>3. UndoDirs(some(n)) = [i \in 1..n |-> [kind |-> "rmdir", path |-> dirs[i], to |-> <<>>]]
      BY <3>1 DEF UndoDirs
    <3>4. UndoDirs(some(n + 1)) = [i \in 1..(n + 1) |-> [kind |-> "rmdir", path |-> dirs[i], to |-> <<>>]]
      BY <3>2 DEF UndoDirs
    <3> DEFINE a == UndoDirs(some(n))
               b == UndoDirs(some(n + 1))
    <3>5. a \in Seq(Undos) /\ Len(a) = n /\ b \in Seq(Undos) /\ Len(b) = n + 1
      BY <3>1, <3>2, UndoDirsType
    <3>6. /\ Append(a, u) \in Seq(Undos) /\ Len(Append(a, u)) = n + 1 /\ Append(a, u)[n + 1] = u
          /\ \A i \in 1..n : Append(a, u)[i] = a[i]
      <4> HIDE DEF a, u
      <4> QED  BY <2>1, <2>11, <3>5
    <3>7. ASSUME NEW i \in 1..(n + 1) PROVE b[i] = Append(a, u)[i]
      <4>1. b[i] = [kind |-> "rmdir", path |-> dirs[i], to |-> <<>>]
        BY <3>4
      <4>2. CASE i = n + 1
        BY <3>6, <4>1, <4>2
      <4>3. CASE i # n + 1
        <5>1. i \in 1..n
          BY <2>1, <4>3
        <5>2. a[i] = [kind |-> "rmdir", path |-> dirs[i], to |-> <<>>]
          BY <3>3, <5>1
        <5> QED  BY <3>6, <4>1, <5>1, <5>2
      <4> QED  BY <4>2, <4>3
    <3> HIDE DEF a, b
    <3>8. b = Append(a, u)
      BY <3>5, <3>6, <3>7, SeqEqual
    <3> QED  BY <3>8 DEF a, b
  <2> DEFINE w == all \o UndoDirs(some(n))
  <2>13. all \o UndoDirs(some(n + 1)) = Append(w, u)
    <3>1. some(n) \in Seq(Paths)
      BY <1>1, <2>1
    <3>2. UndoDirs(some(n)) \in Seq(Undos)
      BY <3>1, UndoDirsType
    <3> DEFINE a == UndoDirs(some(n))
    <3> HIDE DEF a, u
    <3>3. all \o Append(a, u) = Append(all \o a, u)
      <4>1. Append(a, u) = a \o <<u>> /\ Append(all \o a, u) = (all \o a) \o <<u>> /\ <<u>> \in Seq(Undos)
            /\ all \o a \in Seq(Undos)
        BY <2>11, <3>2, AppendIsConcat, ConcatFacts DEF a
      <4> QED  BY <3>2, <4>1, ConcatAssociative DEF a
    <3> QED  BY <2>12, <3>3 DEF a
  <2>14. w \in Seq(Undos) /\ Undone(e(n), w) = Undone(d, all)
    BY <2>2
  <2> HIDE DEF w, u
  <2>15. Undone(e(n + 1), Append(w, u)) = Undone(d, all) /\ Append(w, u) \in Seq(Undos)
    BY <2>9, <2>10, <2>11, <2>14, UndoneLast
  <2> QED  BY <2>9, <2>13, <2>15
<1>5. G = Nat
  <2> HIDE DEF G
  <2>1. G \in SUBSET Nat
    BY DEF G
  <2> QED  BY <1>3, <1>4, <2>1, Induction
<1>6. Good(k)
  <2> HIDE DEF Good
  <2>1. k \in G /\ k <= k
    BY <1>0, <1>5
  <2> QED  BY <2>1
<1>7. k \in 0..k
  BY <1>0
<1> QED  BY <1>1, <1>2, <1>6, <1>7 DEF GoesBack

-----------------------------------------------------------------------------
(* A step, and what takes it back.                                          *)

Steps == [kind : {"create", "delete"}, path : Paths, to : {<<>>}, position : Nat]
         \cup [kind : {"rename"}, path : Paths, to : Paths, position : Nat]

\* The names in use are those of files and the numbers given out so far.
Known(n) == Seq(Names \cup 1..n)

\* What a step leaves, and what takes it back, where a created file is node and
\* what is deleted goes to away.
After(d, step, node, away) ==
    CASE step.kind = "create" -> With(d, step.path, node)
      [] step.kind = "rename" -> Renamed(d, step.path, step.to)
      [] step.kind = "delete" -> Renamed(d, step.path, away)
Back(step, away) ==
    CASE step.kind = "create" -> [kind |-> "rmfile", path |-> step.path, to |-> <<>>]
      [] step.kind = "rename" -> [kind |-> "rename", path |-> step.to, to |-> step.path]
      [] step.kind = "delete" -> [kind |-> "rename", path |-> away, to |-> step.path]

\* Taken back, a step leaves no trace, unless it went over what was there.
LEMMA StepBack ==
    ASSUME NEW N, NEW d \in Trees(N), NEW step \in Steps, NEW away \in Named,
           NEW node \in N, node.kind = "file", Where(d, node.id) = {},
           step.kind = "delete" => away \notin DOMAIN d /\ Parent(away) = Parent(step.path)
                                   /\ ~Within(away, step.path),
           CanTake(d, step)
    PROVE  /\ After(d, step, node, away) \in Trees(N) /\ Back(step, away) \in Undos
           /\ (step.kind = "rename" /\ step.path # step.to => step.to \notin DOMAIN d)
              => UndoOne(Back(step, away), After(d, step, node, away)) = d
<1>0. /\ step.path \in Paths /\ step.path \in AnyPath /\ step.path # <<>> /\ away \in AnyPath /\ away # <<>>
      /\ step.kind \in {"create", "rename", "delete"}
      /\ d \in Disks(N) /\ Tree(d)
  BY PathsAny DEF Steps, Named, Trees
<1>1. CASE step.kind = "create"
  <2>1. step.path \notin DOMAIN d /\ IsDir(d, Parent(step.path))
    BY <1>1 DEF CanTake, CanAdd
  <2> DEFINE e == With(d, step.path, node)
  <2>2. /\ e \in Trees(N) /\ step.path \in DOMAIN e /\ e[step.path] = node
        /\ Without(e, step.path) = d
    BY <1>0, <2>1, WithTree DEF Trees
  <2> HIDE DEF e
  <2>3. [kind |-> "rmfile", path |-> step.path, to |-> <<>>] \in Undos
    BY <1>0 DEF Undos, Named
  <2>4. UndoOne([kind |-> "rmfile", path |-> step.path, to |-> <<>>], e) = d
    BY <2>2 DEF UndoOne, CanRemoveFile
  <2> QED  BY <1>1, <2>2, <2>3, <2>4 DEF e, After, Back
<1>2. CASE step.kind = "rename"
  <2>1. step.to \in Paths /\ step.to \in AnyPath /\ step.to # <<>>
    BY <1>2, PathsAny DEF Steps, Named
  <2>2. CanRename(d, step.path, step.to)
    BY <1>2 DEF CanTake
  <2> DEFINE e == Renamed(d, step.path, step.to)
  <2>3. e \in Trees(N)
    BY <1>0, <2>1, <2>2, RenamedTree DEF Trees
  <2>6. step.path = step.to \/ step.to \notin DOMAIN d
          => CanRename(e, step.to, step.path) /\ Renamed(e, step.to, step.path) = d
    BY <1>0, <2>1, <2>2, RenameBack
  <2> HIDE DEF e
  <2>4. [kind |-> "rename", path |-> step.to, to |-> step.path] \in Undos
    BY <1>0, <2>1 DEF Undos, Named
  <2>5. step.path = step.to \/ step.to \notin DOMAIN d
          => UndoOne([kind |-> "rename", path |-> step.to, to |-> step.path], e) = d
    BY <2>6 DEF UndoOne
  <2> QED  BY <1>2, <2>3, <2>4, <2>5 DEF e, After, Back
<1>3. CASE step.kind = "delete"
  <2>1. step.path \in DOMAIN d
    BY <1>3 DEF CanTake
  <2>2. CanRename(d, step.path, away)
    <3>1. IsDir(d, Parent(step.path))
      BY <1>0, <2>1 DEF Tree
    <3> QED  BY <1>3, <2>1, <3>1 DEF CanRename
  <2> DEFINE e == Renamed(d, step.path, away)
  <2>3. e \in Trees(N) /\ CanRename(e, away, step.path) /\ Renamed(e, away, step.path) = d
    BY <1>0, <1>3, <2>2, RenamedTree, RenameBack DEF Trees
  <2> HIDE DEF e
  <2>4. [kind |-> "rename", path |-> away, to |-> step.path] \in Undos
    BY <1>0 DEF Undos, Named
  <2>5. UndoOne([kind |-> "rename", path |-> away, to |-> step.path], e) = d
    BY <2>3 DEF UndoOne
  <2> QED  BY <1>3, <2>3, <2>4, <2>5 DEF e, After, Back
<1> QED  BY <1>0, <1>1, <1>2, <1>3

-----------------------------------------------------------------------------
(* What the plan says exists.                                               *)

LookUps == [path : AnyPath, found : {"disk", "created", "missing"}]
Sought(p) == [path |-> p, found |-> "disk"]

LEMMA FindStepType ==
    ASSUME NEW change \in Steps, NEW r \in LookUps
    PROVE  FindStep(change, r) \in LookUps
<1>0. /\ r.path \in AnyPath /\ r.found \in {"disk", "created", "missing"}
      /\ r = [path |-> r.path, found |-> r.found]
  BY DEF LookUps
<1>1. \A f \in {"disk", "created", "missing"} : [r EXCEPT !.found = f] \in LookUps
  BY DEF LookUps
<1>2. ASSUME change.kind = "rename", Within(r.path, change.to)
      PROVE  [r EXCEPT !.path = Moved(r.path, change.to, change.path)] \in LookUps
  <2>1. change.to \in AnyPath /\ change.path \in AnyPath
    BY <1>2, PathsAny DEF Steps
  <2>2. Moved(r.path, change.to, change.path) \in AnyPath
    BY <1>0, <1>2, <2>1, MovedPoints DEF AnyPath
  <2> QED  BY <2>2 DEF LookUps
<1>3. change.kind \in {"create", "delete", "rename"}
  BY DEF Steps
<1>4. CASE change.kind = "create"
  BY <1>1, <1>4 DEF FindStep
<1>5. CASE change.kind = "delete"
  BY <1>1, <1>5 DEF FindStep
<1>6. CASE change.kind = "rename"
  BY <1>1, <1>2, <1>6 DEF FindStep
<1> QED  BY <1>3, <1>4, <1>5, <1>6

\* f is what Found computes, from the last change to the first.
IsFound(f, all, p) ==
    f = [n \in 0..Len(all) |-> IF n = 0 THEN [path |-> p, found |-> "disk"]
                               ELSE FindStep(all[Len(all) + 1 - n], f[n - 1])]

\* What it computes, step by step.
Finds(f, all, p) ==
    /\ Found(all, p) = f[Len(all)] /\ f[0] = Sought(p)
    /\ \A n \in 1..Len(all) : f[n] = FindStep(all[Len(all) + 1 - n], f[n - 1])

LEMMA FoundFacts ==
    ASSUME NEW all \in Seq(Steps), NEW p \in AnyPath
    PROVE  \E f : Finds(f, all, p)
<1> DEFINE L == Len(all)
           step == [x \in (1..L) \X LookUps |-> FindStep(all[L + 1 - x[1]], x[2])]
           f == CHOOSE g : IsFound(g, all, p)
<1>0. L \in Nat /\ Sought(p) \in LookUps
  BY DEF Sought, LookUps
<1>1. step \in [(1..L) \X LookUps -> LookUps]
  <2>1. ASSUME NEW n \in 1..L, NEW r \in LookUps PROVE FindStep(all[L + 1 - n], r) \in LookUps
    <3>1. L + 1 - n \in 1..L
      BY <1>0
    <3>2. all[L + 1 - n] \in Steps
      BY <3>1
    <3> QED  BY <3>2, FindStepType
  <2> QED  BY <2>1
<1>2. \A n \in 1..L, r \in LookUps : step[<<n, r>>] = FindStep(all[L + 1 - n], r)
  OBVIOUS
<1>3. \E g : IsFound(g, all, p)
  <2> HIDE DEF step, L
  <2>1. PICK h \in [0..L -> LookUps] : MadeFrom(h, L, Sought(p), step)
    BY <1>0, <1>1, Recursion, Zenon
  <2>2. ASSUME NEW n \in 0..L PROVE h[n] = IF n = 0 THEN Sought(p) ELSE FindStep(all[L + 1 - n], h[n - 1])
    <3>1. CASE n = 0
      BY <2>1, <3>1 DEF MadeFrom
    <3>2. CASE n # 0
      <4>1. n \in 1..L /\ n - 1 \in 0..L
        BY <1>0, <3>2
      <4> QED  BY <1>2, <2>1, <3>2, <4>1 DEF MadeFrom
    <3> QED  BY <3>1, <3>2
  <2>3. h = [n \in 0..L |-> IF n = 0 THEN Sought(p) ELSE FindStep(all[L + 1 - n], h[n - 1])]
    BY <2>2
  <2> QED  BY <2>3 DEF IsFound, L, Sought
<1>4. IsFound(f, all, p) /\ Found(all, p) = f[L]
  BY <1>3 DEF Found, IsFound
<1> HIDE DEF f
<1>5. \A n \in 0..L : f[n] = IF n = 0 THEN Sought(p) ELSE FindStep(all[L + 1 - n], f[n - 1])
  BY <1>4 DEF IsFound, Sought
<1>6. f[0] = Sought(p)
  BY <1>0, <1>5
<1>7. ASSUME NEW n \in 1..L PROVE f[n] = FindStep(all[L + 1 - n], f[n - 1])
  <2>1. n \in 0..L /\ n # 0
    BY <1>0
  <2> QED  BY <1>5, <2>1
<1> QED  BY <1>4, <1>6, <1>7 DEF Finds

\* The change made last is looked through first.
LEMMA FoundLast ==
    ASSUME NEW all \in Seq(Steps), NEW change \in Steps, NEW p \in AnyPath
    PROVE  LET r == FindStep(change, Sought(p))
           IN /\ r \in LookUps
              /\ Found(Append(all, change), p) = IF r.found = "disk" THEN Found(all, r.path) ELSE r
<1> DEFINE more == Append(all, change)
           r == FindStep(change, Sought(p))
<1>0. Len(all) \in Nat /\ more \in Seq(Steps) /\ Len(more) = Len(all) + 1 /\ more[Len(all) + 1] = change
      /\ \A i \in 1..Len(all) : more[i] = all[i]
  OBVIOUS
<1>1. r \in LookUps
  BY FindStepType DEF Sought, LookUps
<1> HIDE DEF more, r
<1>2. r.path \in AnyPath /\ (r.found = "disk" => r = Sought(r.path))
  BY <1>1 DEF LookUps, Sought
<1>3. PICK f : Finds(f, more, p)
  BY <1>0, FoundFacts
<1>4. PICK g : Finds(g, all, r.path)
  BY <1>2, FoundFacts
<1> USE DEF Finds
<1> DEFINE want(n) == IF r.found = "disk" THEN g[n] ELSE r
           G == {n \in Nat : n <= Len(all) => f[n + 1] = want(n)}
<1>5. 0 \in G
  <2>1. 1 \in 1..Len(more) /\ Len(more) + 1 - 1 = Len(all) + 1 /\ 1 - 1 = 0
    BY <1>0
  <2>2. f[1] = FindStep(more[Len(more) + 1 - 1], f[1 - 1])
    BY <1>3, <2>1
  <2>3. f[1] = r
    BY <1>0, <1>3, <2>1, <2>2 DEF r
  <2> QED  BY <1>2, <1>4, <2>3
<1>6. ASSUME NEW n \in G PROVE n + 1 \in G
  <2> SUFFICES ASSUME n + 1 <= Len(all) PROVE f[(n + 1) + 1] = want(n + 1)
    OBVIOUS
  <2>1. n \in Nat /\ n <= Len(all) /\ f[n + 1] = want(n)
    BY <1>0
  <2> DEFINE i == Len(all) + 1 - (n + 1)
  <2>2. /\ (n + 1) + 1 \in 1..Len(more) /\ n + 1 \in 1..Len(all) /\ i \in 1..Len(all)
        /\ Len(more) + 1 - ((n + 1) + 1) = i /\ ((n + 1) + 1) - 1 = n + 1 /\ (n + 1) - 1 = n
    BY <1>0, <2>1
  <2>3. f[(n + 1) + 1] = FindStep(more[Len(more) + 1 - ((n + 1) + 1)], f[((n + 1) + 1) - 1])
    BY <1>3, <2>2
  <2>4. g[n + 1] = FindStep(all[Len(all) + 1 - (n + 1)], g[(n + 1) - 1])
    BY <1>4, <2>2
  <2> HIDE DEF i
  <2>5. f[(n + 1) + 1] = FindStep(all[i], want(n))
    BY <1>0, <2>1, <2>2, <2>3
  <2>6. g[n + 1] = FindStep(all[i], g[n])
    BY <2>2, <2>4 DEF i
  <2>7. r.found # "disk" => FindStep(all[i], r) = r
    BY DEF FindStep
  <2> QED  BY <2>5, <2>6, <2>7
<1>7. G = Nat
  <2> HIDE DEF G
  <2>1. G \in SUBSET Nat
    BY DEF G
  <2> QED  BY <1>5, <1>6, <2>1, Induction
<1>8. f[Len(more)] = want(Len(all))
  <2>1. Len(all) \in G /\ Len(all) <= Len(all)
    BY <1>0, <1>7
  <2> QED  BY <1>0, <2>1
<1> QED  BY <1>1, <1>3, <1>4, <1>8 DEF more, r

LEMMA FoundNone ==
    ASSUME NEW p \in AnyPath
    PROVE  Found(<<>>, p) = Sought(p)
<1> DEFINE all == <<>>
<1>1. all \in Seq(Steps) /\ Len(all) = 0
  OBVIOUS
<1> HIDE DEF all
<1>2. PICK f : Finds(f, all, p)
  BY <1>1, FoundFacts
<1> QED  BY <1>1, <1>2 DEF Finds, all

\* What a change does to what exists, by its kind.
LEMMA ExistsLast ==
    ASSUME NEW d, NEW all \in Seq(Steps), NEW change \in Steps, NEW p \in AnyPath
    PROVE  Exists(d, Append(all, change), p) =
             CASE change.kind = "create" -> p = change.path \/ Exists(d, all, p)
               [] change.kind = "delete" -> ~Within(p, change.path) /\ Exists(d, all, p)
               [] change.kind = "rename" ->
                    IF Within(p, change.to) THEN Exists(d, all, Moved(p, change.to, change.path))
                    ELSE ~Within(p, change.path) /\ Exists(d, all, p)
<1> DEFINE r == FindStep(change, Sought(p))
           more == Append(all, change)
<1>1. Found(more, p) = IF r.found = "disk" THEN Found(all, r.path) ELSE r
  BY FoundLast
<1>2. change.kind \in {"create", "delete", "rename"}
  BY DEF Steps
<1>3. /\ Sought(p).found = "disk" /\ Sought(p).path = p
      /\ \A x : [Sought(p) EXCEPT !.found = x].found = x
      /\ \A x : [Sought(p) EXCEPT !.path = x] = Sought(x)
      /\ \A x : Sought(x).found = "disk" /\ Sought(x).path = x
  BY DEF Sought
<1> HIDE DEF more
<1>4. CASE change.kind = "create"
  <2>1. r = IF p = change.path THEN [Sought(p) EXCEPT !.found = "created"] ELSE Sought(p)
    BY <1>3, <1>4 DEF FindStep
  <2> HIDE DEF r
  <2> QED  BY <1>1, <1>3, <1>4, <2>1 DEF Exists, more
<1>5. CASE change.kind = "delete"
  <2>1. r = IF Within(p, change.path) THEN [Sought(p) EXCEPT !.found = "missing"] ELSE Sought(p)
    BY <1>3, <1>5 DEF FindStep
  <2> HIDE DEF r
  <2> QED  BY <1>1, <1>3, <1>5, <2>1 DEF Exists, more
<1>6. CASE change.kind = "rename"
  <2>1. r = IF Within(p, change.to) THEN Sought(Moved(p, change.to, change.path))
            ELSE IF Within(p, change.path) THEN [Sought(p) EXCEPT !.found = "missing"] ELSE Sought(p)
    BY <1>3, <1>6 DEF FindStep
  <2> HIDE DEF r
  <2> QED  BY <1>1, <1>3, <1>6, <2>1 DEF Exists, more
<1> QED  BY <1>2, <1>4, <1>5, <1>6

-----------------------------------------------------------------------------
(* The directories made on the way, as undo remembers them.                 *)

LEMMA MadeAfterType ==
    ASSUME NEW made \in SUBSET AnyPath, NEW u \in Undos
    PROVE  MadeAfter(made, u) \in SUBSET AnyPath
<1>1. u.kind \in {"rmdir", "rmfile", "rename"} /\ u.path \in AnyPath /\ (u.kind = "rename" => u.to \in AnyPath)
  BY DEF Undos, Named
<1>2. ASSUME u.kind = "rename", NEW p \in made PROVE Moved(p, u.to, u.path) \in AnyPath
  <2>1. p \in AnyPath
    OBVIOUS
  <2>2. CASE Within(p, u.to)
    BY <1>1, <1>2, <2>1, <2>2, MovedPoints DEF AnyPath
  <2>3. CASE ~Within(p, u.to)
    BY <2>1, <2>3 DEF Moved
  <2> QED  BY <2>2, <2>3
<1> QED  BY <1>1, <1>2 DEF MadeAfter

\* f is what Made computes, from the first to the last.
IsMade(f, all) == f = [n \in 0..Len(all) |-> IF n = 0 THEN {} ELSE MadeAfter(f[n - 1], all[n])]

\* What it computes, step by step.
Makes(f, all) ==
    /\ Made(all) = f[Len(all)] /\ f[0] = {}
    /\ \A n \in 1..Len(all) : f[n] = MadeAfter(f[n - 1], all[n])

LEMMA MadeFacts ==
    ASSUME NEW all \in Seq(Undos)
    PROVE  \E f : Makes(f, all)
<1> DEFINE L == Len(all)
           S == SUBSET AnyPath
           step == [x \in (1..L) \X S |-> MadeAfter(x[2], all[x[1]])]
           f == CHOOSE g : IsMade(g, all)
<1>0. L \in Nat /\ {} \in S
  OBVIOUS
<1>1. step \in [(1..L) \X S -> S]
  <2>1. ASSUME NEW n \in 1..L, NEW r \in S PROVE MadeAfter(r, all[n]) \in S
    BY MadeAfterType
  <2> QED  BY <2>1
<1>2. \A n \in 1..L, r \in S : step[<<n, r>>] = MadeAfter(r, all[n])
  OBVIOUS
<1>3. \E g : IsMade(g, all)
  <2> HIDE DEF step, L, S
  <2>1. PICK h \in [0..L -> S] : MadeFrom(h, L, {}, step)
    BY <1>0, <1>1, Recursion, Zenon
  <2>2. ASSUME NEW n \in 0..L PROVE h[n] = IF n = 0 THEN {} ELSE MadeAfter(h[n - 1], all[n])
    <3>1. CASE n = 0
      BY <2>1, <3>1 DEF MadeFrom
    <3>2. CASE n # 0
      <4>1. n \in 1..L /\ n - 1 \in 0..L
        BY <1>0, <3>2
      <4> QED  BY <1>2, <2>1, <3>2, <4>1 DEF MadeFrom
    <3> QED  BY <3>1, <3>2
  <2>3. h = [n \in 0..L |-> IF n = 0 THEN {} ELSE MadeAfter(h[n - 1], all[n])]
    BY <2>2
  <2> QED  BY <2>3 DEF IsMade, L
<1>4. IsMade(f, all) /\ Made(all) = f[L]
  BY <1>3 DEF Made, IsMade
<1> HIDE DEF f
<1>5. \A n \in 0..L : f[n] = IF n = 0 THEN {} ELSE MadeAfter(f[n - 1], all[n])
  BY <1>4 DEF IsMade
<1>6. f[0] = {}
  BY <1>0, <1>5
<1>7. ASSUME NEW n \in 1..L PROVE f[n] = MadeAfter(f[n - 1], all[n])
  <2>1. n \in 0..L /\ n # 0
    BY <1>0
  <2> QED  BY <1>5, <2>1
<1> QED  BY <1>4, <1>6, <1>7 DEF Makes

\* What was done later does not change what was made before.
LEMMA MadeBefore ==
    ASSUME NEW all \in Seq(Undos), NEW more \in Seq(Undos), Len(all) <= Len(more),
           \A i \in 1..Len(all) : more[i] = all[i], NEW f, Makes(f, more)
    PROVE  f[Len(all)] = Made(all)
<1>1. PICK g : Makes(g, all)
  BY MadeFacts
<1> USE DEF Makes
<1>0. Len(all) \in Nat /\ Len(more) \in Nat
  OBVIOUS
<1> DEFINE G == {n \in Nat : n <= Len(all) => f[n] = g[n]}
<1>2. 0 \in G
  BY <1>1
<1>3. ASSUME NEW n \in G PROVE n + 1 \in G
  <2> SUFFICES ASSUME n + 1 <= Len(all) PROVE f[n + 1] = g[n + 1]
    OBVIOUS
  <2>1. /\ n + 1 \in 1..Len(all) /\ n + 1 \in 1..Len(more) /\ (n + 1) - 1 = n
        /\ n <= Len(all)
    BY <1>0
  <2>2. f[n + 1] = MadeAfter(f[(n + 1) - 1], more[n + 1]) /\ g[n + 1] = MadeAfter(g[(n + 1) - 1], all[n + 1])
    BY <1>1, <2>1
  <2> QED  BY <2>1, <2>2
<1>4. G = Nat
  <2> HIDE DEF G
  <2>1. G \in SUBSET Nat
    BY DEF G
  <2> QED  BY <1>2, <1>3, <2>1, Induction
<1>5. Len(all) \in G /\ Len(all) <= Len(all)
  BY <1>0, <1>4
<1> QED  BY <1>1, <1>5

LEMMA MadeType ==
    ASSUME NEW all \in Seq(Undos)
    PROVE  Made(all) \in SUBSET AnyPath
<1>1. PICK f : Makes(f, all)
  BY MadeFacts
<1> USE DEF Makes
<1>0. Len(all) \in Nat
  OBVIOUS
<1> DEFINE G == {n \in Nat : n <= Len(all) => f[n] \in SUBSET AnyPath}
<1>2. 0 \in G
  BY <1>1
<1>3. ASSUME NEW n \in G PROVE n + 1 \in G
  <2> SUFFICES ASSUME n + 1 <= Len(all) PROVE f[n + 1] \in SUBSET AnyPath
    OBVIOUS
  <2>1. n + 1 \in 1..Len(all) /\ (n + 1) - 1 = n /\ n <= Len(all) /\ all[n + 1] \in Undos
    BY <1>0
  <2>2. f[n + 1] = MadeAfter(f[(n + 1) - 1], all[n + 1])
    BY <1>1, <2>1
  <2>3. f[n] \in SUBSET AnyPath
    BY <2>1
  <2> QED  BY <2>1, <2>2, <2>3, MadeAfterType
<1>4. G = Nat
  <2> HIDE DEF G
  <2>1. G \in SUBSET Nat
    BY DEF G
  <2> QED  BY <1>2, <1>3, <2>1, Induction
<1>5. Len(all) \in G /\ Len(all) <= Len(all)
  BY <1>0, <1>4
<1> QED  BY <1>1, <1>5

LEMMA MadeNone == Made(<<>>) = {}
<1> DEFINE all == <<>>
<1>1. all \in Seq(Undos) /\ Len(all) = 0
  OBVIOUS
<1> HIDE DEF all
<1>2. PICK f : Makes(f, all)
  BY <1>1, MadeFacts
<1> QED  BY <1>1, <1>2 DEF Makes, all

LEMMA MadeLast ==
    ASSUME NEW all \in Seq(Undos), NEW u \in Undos
    PROVE  Made(Append(all, u)) = MadeAfter(Made(all), u)
<1> DEFINE more == Append(all, u)
<1>0. Len(all) \in Nat /\ more \in Seq(Undos) /\ Len(more) = Len(all) + 1 /\ more[Len(all) + 1] = u
      /\ \A i \in 1..Len(all) : more[i] = all[i]
  OBVIOUS
<1> HIDE DEF more
<1>1. PICK f : Makes(f, more)
  BY <1>0, MadeFacts
<1>2. f[Len(all)] = Made(all)
  BY <1>0, <1>1, MadeBefore
<1>3. Len(more) \in 1..Len(more) /\ Len(more) - 1 = Len(all)
  BY <1>0
<1>4. f[Len(more)] = MadeAfter(f[Len(more) - 1], more[Len(more)])
  BY <1>1, <1>3 DEF Makes
<1>5. Made(more) = f[Len(more)]
  BY <1>1 DEF Makes
<1> QED  BY <1>0, <1>2, <1>3, <1>4, <1>5 DEF more

LEMMA MadeDirs ==
    ASSUME NEW all \in Seq(Undos), NEW dirs \in Seq(Paths)
    PROVE  Made(all \o UndoDirs(dirs)) = Made(all) \cup {dirs[i] : i \in 1..Len(dirs)}
<1> DEFINE w == UndoDirs(dirs)
           more == all \o w
<1>0. Len(all) \in Nat /\ Len(dirs) \in Nat /\ w \in Seq(Undos) /\ Len(w) = Len(dirs)
      /\ \A i \in 1..Len(dirs) : w[i].kind = "rmdir" /\ w[i].path = dirs[i]
  <2>1. \A i \in 1..Len(dirs) : w[i].kind = "rmdir" /\ w[i].path = dirs[i]
    BY DEF UndoDirs
  <2> QED  BY <2>1, UndoDirsType
<1> HIDE DEF w
<1>1. /\ more \in Seq(Undos) /\ Len(more) = Len(all) + Len(dirs)
      /\ \A i \in 1..Len(all) : more[i] = all[i]
      /\ \A i \in 1..Len(dirs) : more[Len(all) + i] = w[i]
  BY <1>0
<1> HIDE DEF more
<1>2. PICK f : Makes(f, more)
  BY <1>1, MadeFacts
<1>3. f[Len(all)] = Made(all)
  BY <1>0, <1>1, <1>2, MadeBefore
<1> DEFINE G == {n \in Nat : n <= Len(dirs) => f[Len(all) + n] = Made(all) \cup {dirs[i] : i \in 1..n}}
<1>4. 0 \in G
  <2>1. {dirs[i] : i \in 1..0} = {} /\ Len(all) + 0 = Len(all)
    BY <1>0
  <2> QED  BY <1>3, <2>1
<1>5. ASSUME NEW n \in G PROVE n + 1 \in G
  <2> SUFFICES ASSUME n + 1 <= Len(dirs)
               PROVE  f[Len(all) + (n + 1)] = Made(all) \cup {dirs[i] : i \in 1..(n + 1)}
    OBVIOUS
  <2>1. /\ n + 1 \in 1..Len(dirs) /\ n <= Len(dirs) /\ n \in Nat
        /\ Len(all) + (n + 1) \in 1..Len(more) /\ Len(all) + (n + 1) - 1 = Len(all) + n
    BY <1>0, <1>1
  <2>2. f[Len(all) + (n + 1)] = MadeAfter(f[Len(all) + (n + 1) - 1], more[Len(all) + (n + 1)])
    BY <1>2, <2>1 DEF Makes
  <2>3. f[Len(all) + (n + 1)] = MadeAfter(f[Len(all) + n], w[n + 1])
    BY <1>1, <2>1, <2>2
  <2>4. f[Len(all) + n] = Made(all) \cup {dirs[i] : i \in 1..n}
    BY <2>1
  <2>5. f[Len(all) + (n + 1)] = f[Len(all) + n] \cup {dirs[n + 1]}
    BY <1>0, <2>1, <2>3 DEF MadeAfter
  <2>6. {dirs[i] : i \in 1..(n + 1)} = {dirs[i] : i \in 1..n} \cup {dirs[n + 1]}
    BY <2>1
  <2> QED  BY <2>4, <2>5, <2>6
<1>6. G = Nat
  <2> HIDE DEF G
  <2>1. G \in SUBSET Nat
    BY DEF G
  <2> QED  BY <1>4, <1>5, <2>1, Induction
<1>7. f[Len(all) + Len(dirs)] = Made(all) \cup {dirs[i] : i \in 1..Len(dirs)}
  <2>1. \A n \in Nat : n \in G
    BY <1>6
  <2>2. \A n \in Nat : n <= Len(dirs) => f[Len(all) + n] = Made(all) \cup {dirs[i] : i \in 1..n}
    BY <2>1
  <2>3. Len(dirs) <= Len(dirs)
    BY <1>0
  <2> QED  BY <1>0, <2>2, <2>3
<1>8. f[Len(more)] = Made(all) \cup {dirs[i] : i \in 1..Len(dirs)}
  BY <1>1, <1>7
<1>9. Made(more) = f[Len(more)]
  BY <1>2 DEF Makes
<1> QED  BY <1>8, <1>9 DEF more, w

\* A step took the place of a directory made before it.
Over(all) == \E n \in DOMAIN all : all[n].kind = "rename" /\ all[n].path \in Made(SubSeq(all, 1, n - 1))

LEMMA OverStays ==
    ASSUME NEW all \in Seq(Undos), NEW more \in Seq(Undos), Len(all) <= Len(more),
           \A i \in 1..Len(all) : more[i] = all[i], Over(all)
    PROVE  Over(more)
<1>1. PICK n \in DOMAIN all : all[n].kind = "rename" /\ all[n].path \in Made(SubSeq(all, 1, n - 1))
  BY DEF Over
<1>2. n \in 1..Len(all) /\ n \in 1..Len(more) /\ n \in DOMAIN more /\ Len(all) \in Nat /\ Len(more) \in Nat
  OBVIOUS
<1>3. SubSeq(all, 1, n - 1) = SubSeq(more, 1, n - 1)
  <2>1. SubSeq(all, 1, n - 1) = [i \in 1..(n - 1) |-> all[1 + i - 1]] /\ SubSeq(more, 1, n - 1) = [i \in 1..(n - 1) |-> more[1 + i - 1]]
    BY <1>2, SMT
  <2>2. \A i \in 1..(n - 1) : 1 + i - 1 = i /\ i \in 1..Len(all)
    BY <1>2
  <2> QED  BY <2>1, <2>2
<1> QED  BY <1>1, <1>2, <1>3 DEF Over

LEMMA OverLast ==
    ASSUME NEW all \in Seq(Undos), NEW u \in Undos, u.kind = "rename", u.path \in Made(all)
    PROVE  Over(Append(all, u))
<1> DEFINE more == Append(all, u)
<1>0. Len(all) \in Nat /\ more \in Seq(Undos) /\ Len(more) = Len(all) + 1 /\ more[Len(all) + 1] = u
      /\ \A i \in 1..Len(all) : more[i] = all[i]
  OBVIOUS
<1> HIDE DEF more
<1>1. SubSeq(more, 1, (Len(all) + 1) - 1) = all
  <2> DEFINE s == SubSeq(more, 1, Len(all))
  <2>1. s \in Seq(Undos) /\ Len(s) = Len(all) /\ \A i \in 1..Len(all) : s[i] = more[i]
    <3>1. \A i \in 1..Len(all) : more[i] \in Undos
      BY <1>0
    <3>2. 1 \in Int /\ Len(all) \in Int /\ Len(all) - 1 + 1 = Len(all)
      BY <1>0
    <3>3. \A i \in 1..Len(all) : 1 + i - 1 = i
      BY <1>0
    <3> QED  BY <1>0, <3>1, <3>2, <3>3, SubSeqProperties
  <2> HIDE DEF s
  <2>2. s = all
    BY <1>0, <2>1, SeqEqual
  <2>3. (Len(all) + 1) - 1 = Len(all)
    BY <1>0
  <2> QED  BY <2>2, <2>3 DEF s
<1>2. Len(all) + 1 \in DOMAIN more
  BY <1>0
<1> QED  BY <1>0, <1>1, <1>2 DEF Over, more

-----------------------------------------------------------------------------
(* The plan.                                                                *)

LEMMA FrontSame ==
    ASSUME NEW S, NEW all \in Seq(S), NEW x \in S
    PROVE  /\ SubSeq(Append(all, x), 1, Len(all)) = all
           /\ \A j \in 1..Len(all) : SubSeq(Append(all, x), 1, j - 1) = SubSeq(all, 1, j - 1)
<1> DEFINE more == Append(all, x)
           s == SubSeq(more, 1, Len(all))
<1>0. Len(all) \in Nat /\ more \in Seq(S) /\ Len(more) = Len(all) + 1
      /\ \A i \in 1..Len(all) : more[i] = all[i]
  OBVIOUS
<1> HIDE DEF more
<1>1. s = all
  <2>1. s \in Seq(S) /\ Len(s) = Len(all) /\ \A i \in 1..Len(all) : s[i] = more[i]
    <3>1. \A i \in 1..Len(all) : more[i] \in S
      BY <1>0
    <3>2. 1 \in Int /\ Len(all) \in Int /\ Len(all) - 1 + 1 = Len(all)
      BY <1>0
    <3>3. \A i \in 1..Len(all) : 1 + i - 1 = i
      BY <1>0
    <3> QED  BY <1>0, <3>1, <3>2, <3>3, SubSeqProperties
  <2> HIDE DEF s
  <2> QED  BY <1>0, <2>1, SeqEqual
<1>2. ASSUME NEW j \in 1..Len(all) PROVE SubSeq(more, 1, j - 1) = SubSeq(all, 1, j - 1)
  <2>1. /\ SubSeq(all, 1, j - 1) = [i \in 1..(j - 1) |-> all[1 + i - 1]]
        /\ SubSeq(more, 1, j - 1) = [i \in 1..(j - 1) |-> more[1 + i - 1]]
    BY <1>0, SMT
  <2>2. \A i \in 1..(j - 1) : 1 + i - 1 = i /\ i \in 1..Len(all)
    BY <1>0
  <2> QED  BY <1>0, <2>1, <2>2
<1> QED  BY <1>1, <1>2 DEF more, s

\* No rename is planned onto what the plan knows of.
Sound(d, all) ==
    \A j \in 1..Len(all) : all[j].kind = "rename" => ~Exists(d, SubSeq(all, 1, j - 1), all[j].to)

LEMMA SoundLast ==
    ASSUME NEW d, NEW all \in Seq(Steps), Sound(d, all), NEW step \in Steps,
           step.kind = "rename" => ~Exists(d, all, step.to)
    PROVE  Sound(d, Append(all, step))
<1> DEFINE more == Append(all, step)
<1>0. Len(all) \in Nat /\ Len(more) = Len(all) + 1 /\ more[Len(all) + 1] = step
      /\ \A i \in 1..Len(all) : more[i] = all[i]
  OBVIOUS
<1>1. /\ SubSeq(more, 1, Len(all)) = all
      /\ \A j \in 1..Len(all) : SubSeq(more, 1, j - 1) = SubSeq(all, 1, j - 1)
  BY FrontSame
<1> HIDE DEF more
<1>2. ASSUME NEW j \in 1..Len(more), more[j].kind = "rename"
      PROVE  ~Exists(d, SubSeq(more, 1, j - 1), more[j].to)
  <2>1. CASE j \in 1..Len(all)
    BY <1>0, <1>1, <1>2, <2>1 DEF Sound
  <2>2. CASE j = Len(all) + 1
    <3>1. j - 1 = Len(all)
      BY <1>0, <2>2
    <3> QED  BY <1>0, <1>1, <1>2, <2>2, <3>1
  <2> QED  BY <1>0, <2>1, <2>2
<1> QED  BY <1>2 DEF Sound, more

SoundPlans(d) ==
    {r \in [refused : BOOLEAN, steps : Seq(Steps), unsaved : SUBSET AnyPath] : Sound(d, r.steps)}

LEMMA AddingSound ==
    ASSUME NEW d, NEW r \in SoundPlans(d), NEW step \in Steps,
           step.kind = "rename" => ~Exists(d, r.steps, step.to)
    PROVE  Adding(r, <<step>>) \in SoundPlans(d) /\ Adding(r, <<step>>).steps = Append(r.steps, step)
<1>1. r \in [refused : BOOLEAN, steps : Seq(Steps), unsaved : SUBSET AnyPath] /\ Sound(d, r.steps)
  BY DEF SoundPlans
<1>2. r.steps \in Seq(Steps)
  BY <1>1
<1>3. r.steps \o <<step>> = Append(r.steps, step) /\ Append(r.steps, step) \in Seq(Steps)
  BY <1>2, AppendFacts
<1>4. Adding(r, <<step>>) = [r EXCEPT !.steps = Append(r.steps, step)]
  BY <1>3 DEF Adding
<1>5. Sound(d, Append(r.steps, step))
  BY <1>1, <1>2, SoundLast
<1> QED  BY <1>1, <1>3, <1>4, <1>5 DEF SoundPlans

LEMMA RefuseSound ==
    ASSUME NEW d, NEW r \in SoundPlans(d)
    PROVE  Refuse(r) \in SoundPlans(d)
BY DEF SoundPlans, Refuse

LEMMA MakingSound ==
    ASSUME NEW r \in SoundPlans(disk), NEW item \in Items, item.kind \in {"create", "rename"},
           NEW target \in Paths, NEW position \in Nat, NEW step \in Steps,
           step.kind = "rename" => step.to = target
    PROVE  Making(r, item, target, position, <<step>>) \in SoundPlans(disk)
<1> DEFINE there == Exists(disk, r.steps, target)
           away == Step("delete", target, <<>>, position)
           q == Making(r, item, target, position, <<step>>)
<1>0. item.overwrite \in BOOLEAN /\ item.ignore \in BOOLEAN
  BY BoundsAssumption
<1>1. away \in Steps /\ away.kind = "delete" /\ away.path = target
  BY DEF Steps, Step
<1>2. r.steps \in Seq(Steps)
  BY DEF SoundPlans
<1> HIDE DEF away
<1>3. CASE ~there
  <2>1. Adding(r, <<step>>) \in SoundPlans(disk)
    BY <1>3, AddingSound
  <2>2. q = Adding(r, <<step>>)
    BY <1>3 DEF Making
  <2> QED  BY <2>1, <2>2
<1>4. CASE there /\ item.overwrite /\ ~Unsaved(r, target)
  <2>1. Adding(r, <<away>>) \in SoundPlans(disk) /\ Adding(r, <<away>>).steps = Append(r.steps, away)
    BY <1>1, AddingSound
  <2>2. ~Exists(disk, Append(r.steps, away), target)
    <3>1. target \in AnyPath /\ Within(target, target)
      BY PathsAny, WithinOrder DEF AnyPath
    <3> QED  BY <1>1, <1>2, <3>1, ExistsLast
  <2>3. Adding(Adding(r, <<away>>), <<step>>) \in SoundPlans(disk)
    <3> DEFINE x == Adding(r, <<away>>)
    <3> HIDE DEF x
    <3>1. x \in SoundPlans(disk) /\ (step.kind = "rename" => ~Exists(disk, x.steps, step.to))
      BY <2>1, <2>2 DEF x
    <3>2. Adding(x, <<step>>) \in SoundPlans(disk)
      BY <3>1, AddingSound
    <3> QED  BY <3>2 DEF x
  <2>4. Adding(r, <<away>> \o <<step>>) = Adding(Adding(r, <<away>>), <<step>>)
    <3>1. (r.steps \o <<away>>) \o <<step>> = r.steps \o (<<away>> \o <<step>>)
      <4>1. <<away>> \in Seq(Steps) /\ <<step>> \in Seq(Steps)
        BY <1>1
      <4> QED  BY <1>2, <4>1, ConcatFacts
    <3>2. DOMAIN r = {"refused", "steps", "unsaved"}
      BY DEF SoundPlans
    <3> QED  BY <3>1, <3>2 DEF Adding
  <2>5. q = Adding(r, <<away>> \o <<step>>)
    BY <1>4 DEF Making, away
  <2> QED  BY <2>3, <2>4, <2>5
<1>5. CASE there /\ item.overwrite /\ Unsaved(r, target)
  <2>1. q = Refuse(r)
    BY <1>5 DEF Making
  <2> QED  BY <2>1, RefuseSound
<1>6. CASE there /\ ~item.overwrite /\ item.ignore
  <2>1. q = r
    BY <1>6 DEF Making
  <2> QED  BY <2>1
<1>7. CASE there /\ ~item.overwrite /\ ~item.ignore
  <2>1. q = Refuse(r)
    BY <1>7 DEF Making
  <2> QED  BY <2>1, RefuseSound
<1> QED  BY <1>0, <1>3, <1>4, <1>5, <1>6, <1>7

LEMMA PositionType == ASSUME NEW i \in Nat PROVE Position(i) \in Nat
<1> DEFINE A == {j \in 1..(i - 1) : edit[j].kind = "text"}
<1>1. 1 \in Int /\ i - 1 \in Int
  OBVIOUS
<1>2. IsFiniteSet(1..(i - 1))
  BY <1>1, FS_Interval
<1>3. IsFiniteSet(A)
  BY <1>2, FS_Subset
<1>4. Cardinality(A) \in Nat
  BY <1>3, FS_CardinalityType
<1> QED  BY <1>4 DEF Position

LEMMA PlanItemSound ==
    ASSUME NEW r \in SoundPlans(disk), NEW i \in 1..Len(edit), edit \in Seq(Items)
    PROVE  PlanItem(r, i) \in SoundPlans(disk)
<1> DEFINE item == edit[i]
           n == Position(i)
<1>0. item \in Items /\ i \in Nat
  OBVIOUS
<1>1. n \in Nat
  BY <1>0, PositionType
<1> HIDE DEF item, n
<1>2. item.kind \in {"create", "rename", "delete", "text"} /\ item.path \in Paths
      /\ (item.kind = "rename" => item.to \in Paths)
      /\ (item.kind = "delete" => item.ignore \in BOOLEAN /\ item.recursive \in BOOLEAN)
  BY <1>0, BoundsAssumption
<1>3. CASE item.kind = "create"
  <2>1. Step("create", item.path, <<>>, n) \in Steps /\ Step("create", item.path, <<>>, n).kind = "create"
    BY <1>1, <1>2 DEF Step, Steps
  <2>2. PlanCreate(r, item, n) \in SoundPlans(disk)
    BY <1>0, <1>1, <1>2, <1>3, <2>1, MakingSound DEF PlanCreate
  <2> QED  BY <1>3, <2>2 DEF PlanItem, item, n
<1>4. CASE item.kind = "rename"
  <2> DEFINE move == Step("rename", item.path, item.to, n)
             q == Making(r, item, item.to, n, <<move>>)
  <2>1. move \in Steps /\ move.to = item.to
    BY <1>1, <1>2, <1>4 DEF Step, Steps
  <2> HIDE DEF move
  <2>2. q \in SoundPlans(disk)
    BY <1>0, <1>1, <1>2, <1>4, <2>1, MakingSound
  <2>3. UnsavedAfter(r, item) \in SUBSET AnyPath
    <3>1. item.path \in AnyPath /\ item.to \in AnyPath /\ r.unsaved \in SUBSET AnyPath
      BY <1>2, <1>4, PathsAny DEF SoundPlans
    <3>2. ASSUME NEW p \in r.unsaved PROVE Moved(p, item.path, item.to) \in AnyPath
      <4>1. p \in AnyPath
        BY <3>1
      <4>2. CASE Within(p, item.path)
        BY <3>1, <4>1, <4>2, MovedPoints DEF AnyPath
      <4>3. CASE ~Within(p, item.path)
        BY <4>1, <4>3 DEF Moved
      <4> QED  BY <4>2, <4>3
    <3> QED  BY <3>2 DEF UnsavedAfter
  <2>4. PlanRename(r, item, n) = IF ~Exists(disk, r.steps, item.path) THEN Refuse(r)
                                 ELSE IF q.steps = r.steps THEN q
                                 ELSE [q EXCEPT !.unsaved = UnsavedAfter(r, item)]
    BY Zenon DEF PlanRename, move
  <2> HIDE DEF q
  <2>5. [q EXCEPT !.unsaved = UnsavedAfter(r, item)] \in SoundPlans(disk)
    BY <2>2, <2>3 DEF SoundPlans
  <2>6. PlanRename(r, item, n) \in SoundPlans(disk)
    BY <2>2, <2>4, <2>5, RefuseSound
  <2> QED  BY <1>4, <2>6 DEF PlanItem, item, n
<1>5. CASE item.kind = "delete"
  <2> DEFINE away == Step("delete", item.path, <<>>, n)
             there == Exists(disk, r.steps, item.path)
             full == ~item.recursive /\ DirectoryWithFiles(disk, r.steps, item.path)
             q == PlanDelete(r, item, n)
  <2>1. away \in Steps /\ away.kind = "delete"
    BY <1>1, <1>2 DEF Step, Steps
  <2> HIDE DEF away
  <2>2. Adding(r, <<away>>) \in SoundPlans(disk)
    BY <2>1, AddingSound
  <2>3. ASSUME there /\ ~full /\ ~Unsaved(r, item.path) PROVE q \in SoundPlans(disk)
    <3>1. q = Adding(r, <<away>>)
      BY <2>3 DEF PlanDelete, away
    <3> QED  BY <2>2, <3>1
  <2>4. ASSUME ~there /\ item.ignore PROVE q \in SoundPlans(disk)
    <3>1. q = r
      BY <2>4 DEF PlanDelete
    <3> QED  BY <3>1
  <2>5. ASSUME (~there /\ ~item.ignore) \/ (there /\ (full \/ Unsaved(r, item.path))) PROVE q \in SoundPlans(disk)
    <3>1. q = Refuse(r)
      BY <2>5 DEF PlanDelete
    <3> QED  BY <3>1, RefuseSound
  <2> HIDE DEF q
  <2>6. q \in SoundPlans(disk)
    BY <1>2, <1>5, <2>3, <2>4, <2>5
  <2> QED  BY <1>5, <2>6 DEF PlanItem, q, item, n
<1>6. CASE item.kind = "text"
  BY <1>6 DEF PlanItem, item
<1> QED  BY <1>2, <1>3, <1>4, <1>5, <1>6

Nothing == [refused |-> FALSE, steps |-> <<>>, unsaved |-> {buf[b].path : b \in {c \in Bufs : buf[c].dirty}}]

IsPlan(f) == f = [i \in 0..Len(edit) |-> IF i = 0 THEN Nothing ELSE PlanItem(f[i - 1], i)]

\* What holds of no operation, and of what an item adds, holds of the plan.
LEMMA PlanInduction ==
    ASSUME edit \in Seq(Items), NEW S, Nothing \in S,
           \A r \in S, i \in 1..Len(edit) : PlanItem(r, i) \in S
    PROVE  Plan \in S
<1> DEFINE L == Len(edit)
           step == [x \in (1..L) \X S |-> PlanItem(x[2], x[1])]
           f == CHOOSE g : IsPlan(g)
<1>0. L \in Nat
  OBVIOUS
<1>1. step \in [(1..L) \X S -> S] /\ \A n \in 1..L, r \in S : step[<<n, r>>] = PlanItem(r, n)
  OBVIOUS
<1>2. \E g : IsPlan(g)
  <2> HIDE DEF step, L
  <2>1. PICK h \in [0..L -> S] : MadeFrom(h, L, Nothing, step)
    BY <1>0, <1>1, Recursion, Zenon
  <2>2. ASSUME NEW n \in 0..L PROVE h[n] = IF n = 0 THEN Nothing ELSE PlanItem(h[n - 1], n)
    <3>1. CASE n = 0
      BY <2>1, <3>1 DEF MadeFrom
    <3>2. CASE n # 0
      <4>1. n \in 1..L /\ n - 1 \in 0..L
        BY <1>0, <3>2
      <4> QED  BY <1>1, <2>1, <3>2, <4>1 DEF MadeFrom
    <3> QED  BY <3>1, <3>2
  <2>3. h = [n \in 0..L |-> IF n = 0 THEN Nothing ELSE PlanItem(h[n - 1], n)]
    BY <2>2
  <2> QED  BY <2>3 DEF IsPlan, L
<1>3. IsPlan(f) /\ Plan = f[L]
  BY <1>2 DEF Plan, IsPlan, Nothing
<1> HIDE DEF f, step
<1>4. \A n \in 0..L : f[n] = IF n = 0 THEN Nothing ELSE PlanItem(f[n - 1], n)
  BY <1>3 DEF IsPlan
<1> DEFINE G == {n \in Nat : n <= L => f[n] \in S}
<1>5. 0 \in G
  BY <1>0, <1>4
<1>6. ASSUME NEW n \in G PROVE n + 1 \in G
  <2> SUFFICES ASSUME n + 1 <= L PROVE f[n + 1] \in S
    OBVIOUS
  <2>1. n + 1 \in 0..L /\ n + 1 # 0 /\ (n + 1) - 1 = n /\ n <= L /\ n + 1 \in 1..L
    BY <1>0
  <2>2. f[n + 1] = PlanItem(f[(n + 1) - 1], n + 1) /\ f[n] \in S
    BY <1>4, <2>1
  <2> QED  BY <2>1, <2>2
<1>7. G = Nat
  <2> HIDE DEF G
  <2>1. G \in SUBSET Nat
    BY DEF G
  <2> QED  BY <1>5, <1>6, <2>1, Induction
<1>8. f[L] \in S
  BY <1>0, <1>7
<1> QED  BY <1>3, <1>8

LEMMA PlanSound ==
    ASSUME edit \in Seq(Items), \A b \in Bufs : buf[b].path \in AnyPath
    PROVE  Plan.steps \in Seq(Steps) /\ Sound(disk, Plan.steps)
<1>1. Nothing \in SoundPlans(disk)
  <2> DEFINE all == <<>>
  <2>1. all \in Seq(Steps) /\ 1..Len(all) = {}
    OBVIOUS
  <2> HIDE DEF all
  <2>2. Sound(disk, all)
    BY <2>1 DEF Sound
  <2> QED  BY <2>1, <2>2 DEF all, SoundPlans, Nothing
<1>2. Plan \in SoundPlans(disk)
  BY <1>1, PlanItemSound, PlanInduction
<1> QED  BY <1>2 DEF SoundPlans

-----------------------------------------------------------------------------
(* What the plan says exists is what commit finds.                          *)

LEMMA AwayFacts ==
    ASSUME NEW p \in Paths, NEW n \in Nat
    PROVE  LET away == Append(Parent(p), n + 1)
           IN /\ away \in Named /\ away \in Known(n + 1) /\ away \notin Known(n)
              /\ Parent(away) = Parent(p) /\ ~Within(away, p)
              /\ \A q \in Paths : ~Within(q, away)
<1> DEFINE away == Append(Parent(p), n + 1)
<1>0. p \in Seq(Names) /\ p # <<>> /\ p \in AnyPath
  BY PathsAny DEF Paths
<1>1. Parent(p) \in Seq(Names) /\ Len(Parent(p)) = Len(p) - 1 /\ Len(p) \in Nat \ {0}
  BY <1>0, ParentFacts
<1>2. /\ away \in Seq(Names \cup 1..(n + 1)) /\ Len(away) = Len(p) /\ away[Len(p)] = n + 1
      /\ \A i \in 1..(Len(p) - 1) : away[i] = Parent(p)[i]
  <2>1. Parent(p) \in Seq(Names \cup 1..(n + 1))
    <3>1. Names \subseteq Names \cup 1..(n + 1)
      OBVIOUS
    <3> QED  BY <1>1, <3>1, SeqMonotonic
  <2>2. n + 1 \in Names \cup 1..(n + 1)
    OBVIOUS
  <2> QED  BY <1>1, <2>1, <2>2, AppendFacts
<1>3. n + 1 \notin Names
  BY BoundsAssumption
<1> HIDE DEF away
<1>4. away # <<>> /\ away \in AnyPath
  <2>1. Names \cup 1..(n + 1) \subseteq Names \cup Nat
    OBVIOUS
  <2>2. away \in AnyPath
    BY <1>2, <2>1, SeqMonotonic DEF AnyPath
  <2> QED  BY <1>1, <1>2, <2>2
<1>5. away \notin Known(n)
  <2> SUFFICES ASSUME away \in Seq(Names \cup 1..n) PROVE FALSE
    BY DEF Known
  <2>1. away[Len(p)] \in Names \cup 1..n
    <3>1. Len(p) \in 1..Len(away)
      BY <1>1, <1>2
    <3> QED  BY <3>1
  <2> QED  BY <1>2, <1>3, <2>1
<1>6. Parent(away) = Parent(p)
  <2>1. /\ Parent(away) \in AnyPath /\ Len(Parent(away)) = Len(away) - 1
        /\ \A i \in 1..(Len(away) - 1) : Parent(away)[i] = away[i]
    BY <1>4, ParentFacts DEF AnyPath
  <2>2. Parent(p) \in AnyPath
    BY <1>0, ParentFacts DEF AnyPath
  <2> QED  BY <1>1, <1>2, <2>1, <2>2, SeqEqual DEF AnyPath
<1>7. ~Within(away, p)
  <2> SUFFICES ASSUME Within(away, p) PROVE FALSE
    OBVIOUS
  <2>1. away[Len(p)] = p[Len(p)]
    <3>1. Len(p) \in 1..Len(p)
      BY <1>1
    <3>2. \A i \in 1..Len(p) : away[i] = p[i]
      BY <1>0, <1>4, WithinPoints DEF AnyPath
    <3> QED  BY <3>1, <3>2
  <2>2. p[Len(p)] \in Names
    BY <1>0, <1>1
  <2> QED  BY <1>2, <1>3, <2>1, <2>2
<1>8. ASSUME NEW q \in Paths PROVE ~Within(q, away)
  <2> SUFFICES ASSUME Within(q, away) PROVE FALSE
    OBVIOUS
  <2>0. q \in Seq(Names) /\ q \in AnyPath
    BY PathsAny DEF Paths
  <2>1. Len(away) <= Len(q) /\ \A i \in 1..Len(away) : q[i] = away[i]
    BY <1>4, <2>0, WithinPoints DEF AnyPath
  <2>2. Len(p) \in 1..Len(away) /\ Len(p) \in 1..Len(q)
    BY <1>1, <1>2, <2>0, <2>1
  <2>3. q[Len(p)] \in Names
    BY <2>0, <2>2
  <2> QED  BY <1>2, <1>3, <2>1, <2>2, <2>3
<1> QED  BY <1>2, <1>4, <1>5, <1>6, <1>7, <1>8 DEF away, Known, Named

LEMMA MovedType ==
    ASSUME NEW S, NEW p \in Seq(S), NEW from \in Seq(S), NEW to \in Seq(S)
    PROVE  Moved(p, from, to) \in Seq(S)
<1>1. CASE Within(p, from)
  BY <1>1, MovedPoints
<1>2. CASE ~Within(p, from)
  BY <1>2 DEF Moved
<1> QED  BY <1>1, <1>2

\* The disk holds no names but those in use.
LEMMA KnownStep ==
    ASSUME NEW N, NEW d \in Disks(N), NEW step \in Steps, NEW node, NEW away \in AnyPath, NEW n \in Nat,
           DOMAIN d \subseteq Known(n), step.kind = "delete" => away \in Known(n)
    PROVE  DOMAIN After(d, step, node, away) \subseteq Known(n)
<1>0. Paths \subseteq Known(n) /\ Known(n) \subseteq AnyPath /\ Paths \subseteq AnyPath
  <2>1. Names \subseteq Names \cup 1..n /\ Names \cup 1..n \subseteq Names \cup Nat
    OBVIOUS
  <2>2. Seq(Names) \subseteq Known(n) /\ Known(n) \subseteq AnyPath
    BY <2>1, SeqMonotonic DEF Known, AnyPath
  <2> QED  BY <2>2 DEF Paths
<1>1. step.path \in Known(n) /\ step.path \in AnyPath /\ step.kind \in {"create", "rename", "delete"}
      /\ (step.kind = "rename" => step.to \in Known(n) /\ step.to \in AnyPath)
  BY <1>0 DEF Steps
<1>2. ASSUME NEW to \in Known(n), to \in AnyPath
      PROVE  DOMAIN Renamed(d, step.path, to) \subseteq Known(n)
  <2> DEFINE from == step.path
  <2>1. CASE from = to
    BY <2>1 DEF Renamed
  <2>2. ASSUME from # to, NEW p \in DOMAIN Renamed(d, from, to) PROVE p \in Known(n)
    <3>1. /\ p \in AnyPath
          /\ (Within(p, to) /\ Moved(p, to, from) \in DOMAIN d) \/ p \in DOMAIN d
      BY <1>1, <1>2, <2>2, RenamedFacts
    <3>2. ASSUME Within(p, to), Moved(p, to, from) \in DOMAIN d PROVE p \in Known(n)
      <4>0. p \in AnyPath /\ from \in AnyPath /\ to \in AnyPath
        BY <1>1, <1>2, <3>1
      <4>1. Moved(Moved(p, to, from), from, to) = p
        BY <3>2, <4>0, MovedBack DEF AnyPath
      <4>2. Moved(p, to, from) \in Known(n)
        BY <3>2
      <4> QED  BY <1>1, <1>2, <4>1, <4>2, MovedType DEF Known
    <3> QED  BY <3>1, <3>2
  <2> QED  BY <2>1, <2>2
<1>3. CASE step.kind = "create"
  BY <1>1, <1>3 DEF After, With
<1>4. CASE step.kind = "rename"
  BY <1>1, <1>2, <1>4 DEF After
<1>5. CASE step.kind = "delete"
  BY <1>2, <1>5 DEF After
<1> QED  BY <1>1, <1>3, <1>4, <1>5

\* Of the paths an item may name, those exist on d that exist after the steps in
\* all on d0, but for the directories made on the way.
Agree(d0, all, made, d) == \A p \in Paths \ made : Exists(d0, all, p) <=> p \in DOMAIN d

LEMMA AgreeStep ==
    ASSUME NEW N, NEW d \in Disks(N), NEW d0, NEW all \in Seq(Steps), NEW made \in SUBSET AnyPath,
           Agree(d0, all, made, d), NEW step \in Steps, NEW node, NEW away \in AnyPath,
           step.kind = "delete" => \A p \in Paths : ~Within(p, away)
    PROVE  Agree(d0, Append(all, step), MadeAfter(made, Back(step, away)), After(d, step, node, away))
<1> DEFINE e == After(d, step, node, away)
           more == MadeAfter(made, Back(step, away))
           whole == Append(all, step)
<1>0. step.path \in Paths /\ step.path \in AnyPath /\ step.kind \in {"create", "rename", "delete"}
      /\ (step.kind = "rename" => step.to \in Paths /\ step.to \in AnyPath) /\ Paths \subseteq AnyPath
  BY PathsAny DEF Steps
<1> SUFFICES ASSUME NEW p \in Paths, p \notin more
             PROVE  Exists(d0, whole, p) <=> p \in DOMAIN e
  BY DEF Agree
<1>1. p \in AnyPath /\ whole \in Seq(Steps)
  BY <1>0
<1> HIDE DEF e, more, whole
<1>2. \A q \in Paths : q \notin made => (Exists(d0, all, q) <=> q \in DOMAIN d)
  BY DEF Agree
<1>3. CASE step.kind = "create"
  <2>1. more = made
    BY <1>3 DEF more, MadeAfter, Back
  <2>2. DOMAIN e = DOMAIN d \cup {step.path}
    BY <1>3 DEF e, After, With
  <2>3. Exists(d0, whole, p) <=> p = step.path \/ Exists(d0, all, p)
    BY <1>1, <1>3, ExistsLast DEF whole
  <2> QED  BY <1>2, <2>1, <2>2, <2>3
\* What a rename of from to to leaves, and what was made before it.
<1>4. ASSUME NEW from \in Paths, NEW to \in AnyPath, from # to, e = Renamed(d, from, to),
             more = {Moved(q, from, to) : q \in made}
      PROVE  /\ p \in DOMAIN e <=> \/ Within(p, to) /\ Moved(p, to, from) \in DOMAIN d
                                   \/ ~Within(p, to) /\ ~Within(p, from) /\ p \in DOMAIN d
             /\ Within(p, to) => Moved(p, to, from) \notin made
             /\ ~Within(p, from) => p \notin made
  <2>1. from \in AnyPath
    BY <1>0, <1>4
  <2>2. p \in DOMAIN e <=> \/ Within(p, to) /\ Moved(p, to, from) \in DOMAIN d
                           \/ ~Within(p, to) /\ ~Within(p, from) /\ p \in DOMAIN d
    BY <1>1, <1>4, <2>1, RenamedFacts
  <2>3. ASSUME Within(p, to), Moved(p, to, from) \in made PROVE FALSE
    <3>1. Moved(Moved(p, to, from), from, to) = p
      BY <1>1, <1>4, <2>1, <2>3, MovedBack DEF AnyPath
    <3> QED  BY <1>4, <2>3, <3>1
  <2>4. ASSUME ~Within(p, from), p \in made PROVE FALSE
    <3>1. Moved(p, from, to) = p
      BY <2>4 DEF Moved
    <3> QED  BY <1>4, <2>4, <3>1
  <2> QED  BY <2>2, <2>3, <2>4
<1>5. CASE step.kind = "rename"
  <2> DEFINE from == step.path
             to == step.to
             origin == Moved(p, to, from)
  <2>1. Exists(d0, whole, p) <=> IF Within(p, to) THEN Exists(d0, all, origin)
                                 ELSE ~Within(p, from) /\ Exists(d0, all, p)
    <3>1. Exists(d0, whole, p) = IF Within(p, to) THEN Exists(d0, all, origin)
                                 ELSE ~Within(p, from) /\ Exists(d0, all, p)
      BY <1>1, <1>5, ExistsLast DEF whole
    <3> HIDE DEF from, to, origin
    <3> QED  BY <3>1
  <2>2. more = {Moved(q, from, to) : q \in made}
    BY <1>5 DEF more, MadeAfter, Back
  <2>3. e = Renamed(d, from, to)
    BY <1>5 DEF e, After
  <2>4. Within(p, to) => origin \in Paths
    <3>1. p \in Seq(Names) /\ to \in Seq(Names) /\ from \in Seq(Names) /\ from # <<>>
      BY <1>0, <1>5 DEF Paths
    <3>2. ASSUME Within(p, to) PROVE origin \in Seq(Names) /\ origin # <<>>
      <4>1. origin \in Seq(Names) /\ Within(origin, from)
        BY <3>1, <3>2, MovedPoints, MovedBack
      <4>2. from \in AnyPath
        BY <1>0
      <4> QED  BY <3>1, <4>1, <4>2, NothingWithin
    <3> QED  BY <3>2 DEF Paths
  <2>5. CASE from # to
    <3>1. /\ p \in DOMAIN e <=> \/ Within(p, to) /\ origin \in DOMAIN d
                                \/ ~Within(p, to) /\ ~Within(p, from) /\ p \in DOMAIN d
          /\ Within(p, to) => origin \notin made
          /\ ~Within(p, from) => p \notin made
      BY <1>0, <1>4, <1>5, <2>2, <2>3, <2>5
    <3> HIDE DEF from, to, origin
    <3> QED  BY <1>2, <2>1, <2>4, <3>1
  <2>6. CASE from = to
    <3>1. e = d
      BY <2>3, <2>6 DEF Renamed
    <3>2. \A q \in AnyPath : Moved(q, from, from) = q
      BY <1>0, MovedNowhere DEF AnyPath
    <3>3. more = made /\ origin = p
      BY <1>1, <2>2, <2>6, <3>2
    <3> HIDE DEF from, to, origin
    <3> QED  BY <1>2, <2>1, <2>6, <3>1, <3>3
  <2> QED  BY <2>5, <2>6
<1>6. CASE step.kind = "delete"
  <2>1. Exists(d0, whole, p) <=> ~Within(p, step.path) /\ Exists(d0, all, p)
    BY <1>1, <1>6, ExistsLast DEF whole
  <2>2. more = {Moved(q, step.path, away) : q \in made}
    BY <1>6 DEF more, MadeAfter, Back
  <2>3. e = Renamed(d, step.path, away)
    BY <1>6 DEF e, After
  <2>4. ~Within(p, away) /\ step.path # away
    BY <1>0, <1>6, WithinOrder DEF AnyPath
  <2>5. /\ p \in DOMAIN e <=> ~Within(p, step.path) /\ p \in DOMAIN d
        /\ ~Within(p, step.path) => p \notin made
    BY <1>0, <1>4, <2>2, <2>3, <2>4
  <2> QED  BY <1>2, <2>1, <2>5
<1> QED  BY <1>0, <1>3, <1>5, <1>6

-----------------------------------------------------------------------------
(* Writing a file, and what finish leaves.                                  *)

LEMMA FinishedTree ==
    ASSUME NEW N, NEW d \in Trees(N), NEW gone \in Seq(AnyPath)
    PROVE  Finished(d, gone) \in Trees(N)
<1> DEFINE e == Finished(d, gone)
<1>0. DOMAIN d \subseteq AnyPath /\ (\A q \in DOMAIN d : d[q] \in N) /\ Tree(d) /\ Range(gone) \subseteq AnyPath
  <2>1. \A i \in DOMAIN gone : gone[i] \in AnyPath
    OBVIOUS
  <2> QED  BY <2>1, DiskType DEF Trees, Range
<1>1. /\ DOMAIN e = {q \in DOMAIN d : \A g \in Range(gone) : ~Within(q, g)}
      /\ e = [q \in DOMAIN e |-> e[q]] /\ \A q \in DOMAIN e : e[q] = d[q]
  BY DEF Finished
<1> HIDE DEF e
<1>2. e \in Disks(N)
  <2>1. DOMAIN e \in SUBSET AnyPath /\ \A q \in DOMAIN e : e[q] \in N
    BY <1>0, <1>1
  <2> QED  BY <1>1, <2>1, DiskMade
<1>3. ASSUME NEW q \in DOMAIN e
      PROVE  /\ q # <<>> /\ IsDir(e, Parent(q))
             /\ e[q] = Dir \/ (e[q].kind = "file" /\ Where(e, e[q].id) = {q})
  <2>1. /\ q \in DOMAIN d /\ e[q] = d[q] /\ q \in AnyPath
        /\ q # <<>> /\ IsDir(d, Parent(q))
        /\ d[q] = Dir \/ (d[q].kind = "file" /\ Where(d, d[q].id) = {q})
    BY <1>0, <1>1 DEF Tree
  <2>2. IsDir(e, Parent(q))
    <3>1. Parent(q) \in AnyPath /\ Within(q, Parent(q))
      BY <2>1, ParentFacts DEF AnyPath
    <3>2. \A g \in Range(gone) : ~Within(Parent(q), g)
      BY <1>0, <1>1, <2>1, <3>1, WithinOrder DEF AnyPath
    <3>3. Parent(q) \in DOMAIN d => Parent(q) \in DOMAIN e /\ e[Parent(q)] = d[Parent(q)]
      BY <1>1, <3>2
    <3> QED  BY <2>1, <3>3 DEF IsDir
  <2>3. CASE d[q].kind = "file" /\ Where(d, d[q].id) = {q}
    <3>1. Where(e, e[q].id) = {q}
      BY <1>1, <2>1, <2>3 DEF Where
    <3> QED  BY <2>1, <2>2, <2>3, <3>1
  <2> QED  BY <2>1, <2>2, <2>3
<1>4. Tree(e)
  BY <1>3, Zenon DEF Tree
<1> QED  BY <1>2, <1>4 DEF e, Trees

LEMMA WriteTree ==
    ASSUME NEW N, NEW d \in Trees(N), NEW p \in Named, CanWrite(d, p), NEW node \in N, node.kind = "file",
           IF p \in DOMAIN d THEN node.id = d[p].id ELSE Where(d, node.id) = {}
    PROVE  With(d, p, node) \in Trees(N)
<1>0. /\ d \in Disks(N) /\ Tree(d) /\ DOMAIN d \subseteq AnyPath /\ (\A q \in DOMAIN d : d[q] \in N)
      /\ p \in AnyPath /\ p # <<>>
  BY DiskType DEF Trees, Named
<1>1. CASE p \notin DOMAIN d
  <2>1. IsDir(d, Parent(p)) /\ Where(d, node.id) = {}
    BY <1>1 DEF CanWrite
  <2> QED  BY <1>0, <1>1, <2>1, WithTree DEF Trees
<1>2. CASE p \in DOMAIN d
  <2> DEFINE e == With(d, p, node)
  <2>1. /\ DOMAIN e = DOMAIN d /\ e = [q \in DOMAIN e |-> e[q]]
        /\ e[p] = node /\ \A q \in DOMAIN d : q # p => e[q] = d[q]
    BY <1>2 DEF With
  <2> HIDE DEF e
  <2>2. d[p].kind = "file" /\ node.id = d[p].id
    BY <1>2 DEF CanWrite
  <2>3. e \in Disks(N)
    <3>1. DOMAIN e \in SUBSET AnyPath /\ \A q \in DOMAIN e : e[q] \in N
      BY <1>0, <2>1
    <3> QED  BY <2>1, <3>1, DiskMade
  <2>4. \A id : Where(e, id) = Where(d, id)
    BY <2>1, <2>2 DEF Where
  <2>5. \A q : IsDir(d, q) => IsDir(e, q)
    BY <2>1, <2>2 DEF IsDir
  <2>6. ASSUME NEW q \in DOMAIN e
        PROVE  /\ q # <<>> /\ IsDir(e, Parent(q))
               /\ e[q] = Dir \/ (e[q].kind = "file" /\ Where(e, e[q].id) = {q})
    <3>1. /\ q # <<>> /\ IsDir(d, Parent(q))
          /\ d[q] = Dir \/ (d[q].kind = "file" /\ Where(d, d[q].id) = {q})
      BY <1>0, <2>1, <2>6 DEF Tree
    <3>2. CASE q = p
      <4>1. d[q] # Dir
        BY <2>2, <3>2 DEF Dir
      <4> QED  BY <2>1, <2>2, <2>4, <2>5, <3>1, <3>2, <4>1
    <3>3. CASE q # p
      BY <2>1, <2>4, <2>5, <3>1, <3>3
    <3> QED  BY <3>2, <3>3
  <2>7. Tree(e)
    BY <2>6, Zenon DEF Tree
  <2> QED  BY <2>3, <2>7 DEF e, Trees
<1> QED  BY <1>1, <1>2

-----------------------------------------------------------------------------
(* A write cut short.                                                       *)

\* e is d but for the text of the file with this id, which may be gone.
Alike(e, d, id) ==
    /\ DOMAIN e = DOMAIN d
    /\ \A p \in DOMAIN d : \/ e[p] = d[p]
                           \/ e[p] = File(id, <<>>) /\ d[p].id = id /\ d[p].kind = "file"

LEMMA AlikeUndo ==
    ASSUME NEW N, NEW d \in Trees(N), NEW e \in Trees(N), NEW u \in Undos, NEW id, Alike(e, d, id)
    PROVE  Alike(UndoOne(u, e), UndoOne(u, d), id)
<1>0. DOMAIN e = DOMAIN d /\ \A p \in DOMAIN d : e[p].kind = d[p].kind
  BY DEF Alike, File
<1>1. d \in Disks(N) /\ e \in Disks(N) /\ u.path \in AnyPath /\ u.kind \in {"rmfile", "rmdir", "rename"}
      /\ (u.kind = "rename" => u.to \in AnyPath)
  BY DEF Trees, Undos, Named
<1>2. /\ CanRemoveFile(e, u.path) <=> CanRemoveFile(d, u.path)
      /\ CanRemoveDir(e, u.path) <=> CanRemoveDir(d, u.path)
      /\ CanRename(e, u.path, u.to) <=> CanRename(d, u.path, u.to)
  <2>1. \A p : Below(e, p) = Below(d, p)
    BY <1>0 DEF Below
  <2>2. \A p : Empty(e, p) <=> Empty(d, p)
    BY <2>1 DEF Empty
  <2>3. \A p : IsDir(e, p) <=> IsDir(d, p)
    BY <1>0 DEF IsDir
  <2>4. CanRemoveFile(e, u.path) <=> CanRemoveFile(d, u.path)
    BY <1>0 DEF CanRemoveFile
  <2>5. CanRemoveDir(e, u.path) <=> CanRemoveDir(d, u.path)
    BY <1>0, <2>2 DEF CanRemoveDir
  <2>6. CanRename(e, u.path, u.to) <=> CanRename(d, u.path, u.to)
    BY <1>0, <2>2, <2>3 DEF CanRename
  <2> QED  BY <2>4, <2>5, <2>6
<1>3. Alike(Without(e, u.path), Without(d, u.path), id)
  BY <1>0 DEF Alike, Without, Below
<1>4. u.kind = "rename" => Alike(Renamed(e, u.path, u.to), Renamed(d, u.path, u.to), id)
  <2> SUFFICES ASSUME u.kind = "rename" PROVE Alike(Renamed(e, u.path, u.to), Renamed(d, u.path, u.to), id)
    OBVIOUS
  <2>1. CASE u.path = u.to
    BY <2>1 DEF Renamed
  <2>2. CASE u.path # u.to
    <3> DEFINE x == Renamed(e, u.path, u.to)
               y == Renamed(d, u.path, u.to)
    <3>1. /\ \A p : p \in DOMAIN y <=> /\ p \in AnyPath
                                       /\ \/ Within(p, u.to) /\ Moved(p, u.to, u.path) \in DOMAIN d
                                          \/ ~Within(p, u.to) /\ ~Within(p, u.path) /\ p \in DOMAIN d
          /\ \A p \in DOMAIN y : y[p] = IF Within(p, u.to) THEN d[Moved(p, u.to, u.path)] ELSE d[p]
      BY <1>1, <2>2, RenamedFacts
    <3>2. /\ \A p : p \in DOMAIN x <=> /\ p \in AnyPath
                                       /\ \/ Within(p, u.to) /\ Moved(p, u.to, u.path) \in DOMAIN e
                                          \/ ~Within(p, u.to) /\ ~Within(p, u.path) /\ p \in DOMAIN e
          /\ \A p \in DOMAIN x : x[p] = IF Within(p, u.to) THEN e[Moved(p, u.to, u.path)] ELSE e[p]
      BY <1>1, <2>2, RenamedFacts
    <3> HIDE DEF x, y
    <3>3. DOMAIN x = DOMAIN y
      BY <1>0, <3>1, <3>2
    <3>4. ASSUME NEW p \in DOMAIN y
          PROVE  x[p] = y[p] \/ (x[p] = File(id, <<>>) /\ y[p].id = id /\ y[p].kind = "file")
      <4>1. CASE Within(p, u.to)
        <5>1. Moved(p, u.to, u.path) \in DOMAIN d
          BY <3>1, <3>4, <4>1
        <5> QED  BY <3>1, <3>2, <3>3, <3>4, <4>1, <5>1 DEF Alike
      <4>2. CASE ~Within(p, u.to)
        <5>1. p \in DOMAIN d
          BY <3>1, <3>4, <4>2
        <5> QED  BY <3>1, <3>2, <3>3, <3>4, <4>2, <5>1 DEF Alike
      <4> QED  BY <4>1, <4>2
    <3> QED  BY <3>3, <3>4 DEF Alike, x, y
  <2> QED  BY <2>1, <2>2
<1>5. CASE u.kind = "rename"
  BY <1>2, <1>4, <1>5 DEF UndoOne
<1>6. CASE u.kind = "rmdir"
  BY <1>2, <1>3, <1>6 DEF UndoOne
<1>7. CASE u.kind = "rmfile"
  BY <1>2, <1>3, <1>7 DEF UndoOne
<1> QED  BY <1>1, <1>5, <1>6, <1>7

LEMMA AlikeUndone ==
    ASSUME NEW N, NEW d \in Trees(N), NEW e \in Trees(N), NEW all \in Seq(Undos), NEW id, Alike(e, d, id)
    PROVE  Alike(Undone(e, all), Undone(d, all), id)
<1>0. Len(all) \in Nat
  OBVIOUS
<1>1. PICK f : TakesBack(f, N, e, all)
  BY BackFacts
<1>2. PICK g : TakesBack(g, N, d, all)
  BY BackFacts
<1> USE DEF TakesBack
<1> DEFINE G == {n \in Nat : n <= Len(all) => Alike(f[n], g[n], id)}
<1>3. 0 \in G
  BY <1>1, <1>2
<1>4. ASSUME NEW n \in G PROVE n + 1 \in G
  <2> SUFFICES ASSUME n + 1 <= Len(all) PROVE Alike(f[n + 1], g[n + 1], id)
    OBVIOUS
  <2>1. /\ n + 1 \in 1..Len(all) /\ n \in 0..Len(all) /\ n <= Len(all) /\ (n + 1) - 1 = n
        /\ Len(all) + 1 - (n + 1) \in 1..Len(all)
    BY <1>0
  <2>2. Alike(f[n], g[n], id) /\ f[n] \in Trees(N) /\ g[n] \in Trees(N)
    BY <1>1, <1>2, <2>1
  <2> DEFINE u == all[Len(all) + 1 - (n + 1)]
  <2>3. u \in Undos
    BY <2>1
  <2>4. f[n + 1] = UndoOne(u, f[(n + 1) - 1]) /\ g[n + 1] = UndoOne(u, g[(n + 1) - 1])
    BY <1>1, <1>2, <2>1
  <2> HIDE DEF u
  <2> QED  BY <2>1, <2>2, <2>3, <2>4, AlikeUndo
<1>5. G = Nat
  <2> HIDE DEF G
  <2>1. G \in SUBSET Nat
    BY DEF G
  <2> QED  BY <1>3, <1>4, <2>1, Induction
<1>6. Len(all) \in G /\ Len(all) <= Len(all)
  BY <1>0, <1>5
<1> QED  BY <1>1, <1>2, <1>6

-----------------------------------------------------------------------------
(* The files that take text changes and are not open.                       *)

LEMMA AlongType ==
    ASSUME NEW all \in Seq(Steps), NEW position, NEW p \in Seq(Names)
    PROVE  Along(all, position, p) \in Seq(Names)
<1> DEFINE L == Len(all)
           Rule(n, q) == IF all[n].position > position THEN DestinationStep(q, all[n]) ELSE q
           step == [x \in (1..L) \X Seq(Names) |-> Rule(x[1], x[2])]
           IsAlong(g) == g = [n \in 0..L |-> IF n = 0 THEN p ELSE IF all[n].position > position
                                            THEN DestinationStep(g[n - 1], all[n]) ELSE g[n - 1]]
           f == CHOOSE g : IsAlong(g)
<1>0. L \in Nat
  OBVIOUS
<1>1. ASSUME NEW n \in 1..L, NEW q \in Seq(Names) PROVE Rule(n, q) \in Seq(Names)
  <2>1. DestinationStep(q, all[n]) \in Seq(Names)
    <3>1. all[n] \in Steps /\ <<>> \in Seq(Names)
      OBVIOUS
    <3>2. all[n].path \in Seq(Names) /\ (all[n].kind = "rename" => all[n].to \in Seq(Names))
      BY <3>1 DEF Steps, Paths
    <3>3. all[n].kind = "rename" => Moved(q, all[n].path, all[n].to) \in Seq(Names)
      BY <3>2, MovedType
    <3>4. all[n].kind \in {"create", "delete", "rename"}
      BY <3>1 DEF Steps
    <3>5. CASE all[n].kind = "rename"
      BY <3>1, <3>3, <3>5 DEF DestinationStep, Gone
    <3>6. CASE all[n].kind = "delete"
      BY <3>1, <3>6 DEF DestinationStep, Gone
    <3>7. CASE all[n].kind = "create"
      BY <3>1, <3>7 DEF DestinationStep, Gone
    <3> QED  BY <3>4, <3>5, <3>6, <3>7
  <2> QED  BY <2>1
<1>2. step \in [(1..L) \X Seq(Names) -> Seq(Names)] /\ \A n \in 1..L, q \in Seq(Names) : step[<<n, q>>] = Rule(n, q)
  <2> HIDE DEF Rule
  <2> QED  BY <1>1
<1>3. \E g : IsAlong(g)
  <2> HIDE DEF step, L
  <2>1. PICK h \in [0..L -> Seq(Names)] : MadeFrom(h, L, p, step)
    BY <1>0, <1>2, Recursion, Zenon
  <2>2. ASSUME NEW n \in 0..L PROVE h[n] = IF n = 0 THEN p ELSE Rule(n, h[n - 1])
    <3>1. CASE n = 0
      BY <2>1, <3>1 DEF MadeFrom
    <3>2. CASE n # 0
      <4>1. n \in 1..L /\ n - 1 \in 0..L
        BY <1>0, <3>2
      <4>2. h[n] = step[<<n, h[n - 1]>>] /\ h[n - 1] \in Seq(Names)
        BY <2>1, <4>1 DEF MadeFrom
      <4> HIDE DEF Rule
      <4> QED  BY <1>2, <3>2, <4>1, <4>2
    <3> QED  BY <3>1, <3>2
  <2>3. h = [n \in 0..L |-> IF n = 0 THEN p ELSE Rule(n, h[n - 1])]
    BY <2>2
  <2> QED  BY <2>3
<1>4. IsAlong(f) /\ Along(all, position, p) = f[L]
  BY <1>3 DEF Along
<1>5. \A n \in 0..L : f[n] = IF n = 0 THEN p ELSE Rule(n, f[n - 1])
  <2> HIDE DEF f
  <2> QED  BY <1>4
<1> HIDE DEF f, Rule, step
<1> DEFINE G == {n \in Nat : n <= L => f[n] \in Seq(Names)}
<1>6. 0 \in G
  BY <1>0, <1>5
<1>7. ASSUME NEW n \in G PROVE n + 1 \in G
  <2> SUFFICES ASSUME n + 1 <= L PROVE f[n + 1] \in Seq(Names)
    OBVIOUS
  <2>1. n + 1 \in 0..L /\ n + 1 # 0 /\ (n + 1) - 1 = n /\ n <= L /\ n + 1 \in 1..L
    BY <1>0
  <2>2. f[n + 1] = Rule(n + 1, f[(n + 1) - 1]) /\ f[n] \in Seq(Names)
    BY <1>5, <2>1
  <2> QED  BY <1>1, <2>1, <2>2
<1>8. G = Nat
  <2> HIDE DEF G
  <2>1. G \in SUBSET Nat
    BY DEF G
  <2> QED  BY <1>6, <1>7, <2>1, Induction
<1>9. L \in G /\ L <= L
  BY <1>0, <1>8
<1> QED  BY <1>4, <1>9

Loads == {files \in Seq([path : Paths, text : Seq(Int)]) :
             \A m, n \in 1..Len(files) : files[m].path = files[n].path => m = n}

LEMMA LoadItemType ==
    ASSUME NEW files \in Loads, NEW i \in 1..Len(edit), edit \in Seq(Items), steps \in Seq(Steps)
    PROVE  LoadItem(files, i) \in Loads
<1> DEFINE item == [path : Paths, text : Seq(Int)]
           p == To(i)
           more == LoadItem(files, i)
<1>0. /\ files \in Seq(item) /\ Len(files) \in Nat /\ DOMAIN files = 1..Len(files) /\ i \in Int
      /\ \A m, n \in 1..Len(files) : files[m].path = files[n].path => m = n
  BY DEF Loads
<1>5. \A n \in 1..Len(files) : files[n] \in item
  <2>1. files \in Seq(item)
    BY <1>0
  <2> HIDE DEF item
  <2> QED  BY <2>1
<1>1. p \in Seq(Names)
  <2>1. edit[i] \in Items
    OBVIOUS
  <2>2. edit[i].path \in Seq(Names)
    BY <2>1, BoundsAssumption DEF Paths
  <2> QED  BY <2>2, AlongType DEF To, Destination
<1> HIDE DEF p
<1>2. CASE edit[i].kind # "text"
  BY <1>2 DEF LoadItem
<1>3. CASE edit[i].kind = "text" /\ (p = Gone \/ Taker(p) # Nobody)
  BY <1>3 DEF LoadItem, p
<1>4. CASE edit[i].kind = "text" /\ ~(p = Gone \/ Taker(p) # Nobody)
  <2>1. p \in Paths
    BY <1>1, <1>4 DEF Paths, Gone
  <2>2. CASE \E n \in DOMAIN files : files[n].path = p
    <3>1. more = [n \in DOMAIN files |-> IF files[n].path = p
                                         THEN [files[n] EXCEPT !.text = Append(@, i)] ELSE files[n]]
      BY <1>4, <2>2 DEF LoadItem, p
    <3> HIDE DEF more
    <3>2. ASSUME NEW n \in 1..Len(files) PROVE more[n] \in item /\ more[n].path = files[n].path
      <4>1. files[n] \in item
        BY <1>5
      <4>2. files[n].text \in Seq(Int)
        BY <4>1
      <4>3. Append(files[n].text, i) \in Seq(Int)
        BY <1>0, <4>2
      <4>4. more[n] = IF files[n].path = p
                      THEN [files[n] EXCEPT !.text = Append(files[n].text, i)] ELSE files[n]
        BY <1>0, <3>1
      <4>5. [files[n] EXCEPT !.text = Append(files[n].text, i)] \in item
        BY <4>1, <4>3
      <4>6. [files[n] EXCEPT !.text = Append(files[n].text, i)].path = files[n].path
        BY <4>1
      <4> QED  BY <4>1, <4>4, <4>5, <4>6
    <3>3. more \in Seq(item) /\ Len(more) = Len(files)
      <4>1. DOMAIN more = 1..Len(files)
        BY <1>0, <3>1
      <4>2. more = [n \in 1..Len(files) |-> more[n]]
        BY <1>0, <3>1
      <4> HIDE DEF item
      <4> QED  BY <1>0, <3>2, <4>1, <4>2
    <3>4. \A m, n \in 1..Len(more) : more[m].path = more[n].path => m = n
      BY <1>0, <3>2, <3>3
    <3> QED  BY <3>3, <3>4 DEF Loads, more
  <2>3. CASE ~\E n \in DOMAIN files : files[n].path = p
    <3> DEFINE last == [path |-> p, text |-> <<i>>]
    <3>1. more = Append(files, last)
      BY <1>4, <2>3 DEF LoadItem, p
    <3>2. last \in item /\ last.path = p
      <4>1. i \in Int
        BY <1>0
      <4>2. \A x \in Int : <<x>> \in Seq(Int)
        OBVIOUS
      <4>3. <<i>> \in Seq(Int)
        BY <4>1, <4>2
      <4> QED  BY <2>1, <4>3
    <3> HIDE DEF more, last, item
    <3>3. /\ more \in Seq(item) /\ Len(more) = Len(files) + 1 /\ more[Len(files) + 1] = last
          /\ \A n \in 1..Len(files) : more[n] = files[n]
      BY <1>0, <3>1, <3>2, AppendFacts
    <3>4. ASSUME NEW m \in 1..Len(more), NEW n \in 1..Len(more), more[m].path = more[n].path PROVE m = n
      <4>1. \A k \in 1..Len(files) : more[k].path # p
        BY <1>0, <2>3, <3>3
      <4>2. \A k \in 1..Len(more) : k \in 1..Len(files) \/ k = Len(files) + 1
        BY <1>0, <3>3
      <4>3. CASE m \in 1..Len(files) /\ n \in 1..Len(files)
        BY <1>0, <3>3, <3>4, <4>3
      <4> QED  BY <3>2, <3>3, <3>4, <4>1, <4>2, <4>3
    <3> QED  BY <3>3, <3>4 DEF Loads, more, item
  <2> QED  BY <2>2, <2>3
<1> QED  BY <1>2, <1>3, <1>4

LEMMA ToLoadType ==
    ASSUME edit \in Seq(Items), steps \in Seq(Steps)
    PROVE  ToLoad \in Loads
<1> DEFINE L == Len(edit)
           step == [x \in (1..L) \X Loads |-> LoadItem(x[2], x[1])]
           IsLoaded(g) == g = [i \in 0..L |-> IF i = 0 THEN <<>> ELSE LoadItem(g[i - 1], i)]
           f == CHOOSE g : IsLoaded(g)
<1>0. L \in Nat /\ <<>> \in Loads
  <2> DEFINE none == <<>>
  <2>1. none \in Seq([path : Paths, text : Seq(Int)]) /\ 1..Len(none) = {}
    OBVIOUS
  <2> HIDE DEF none
  <2>2. none \in Loads
    BY <2>1 DEF Loads
  <2> QED  BY <2>2 DEF none
<1>1. step \in [(1..L) \X Loads -> Loads]
  <2>1. ASSUME NEW n \in 1..L, NEW r \in Loads PROVE LoadItem(r, n) \in Loads
    BY LoadItemType
  <2> QED  BY <2>1
<1>2. \A n \in 1..L, r \in Loads : step[<<n, r>>] = LoadItem(r, n)
  OBVIOUS
<1>3. \E g : IsLoaded(g)
  <2> HIDE DEF step, L
  <2>1. PICK h \in [0..L -> Loads] : MadeFrom(h, L, <<>>, step)
    BY <1>0, <1>1, Recursion, Zenon
  <2>2. ASSUME NEW n \in 0..L PROVE h[n] = IF n = 0 THEN <<>> ELSE LoadItem(h[n - 1], n)
    <3>1. CASE n = 0
      BY <2>1, <3>1 DEF MadeFrom
    <3>2. CASE n # 0
      <4>1. n \in 1..L /\ n - 1 \in 0..L
        BY <1>0, <3>2
      <4> QED  BY <1>2, <2>1, <3>2, <4>1 DEF MadeFrom
    <3> QED  BY <3>1, <3>2
  <2>3. h = [n \in 0..L |-> IF n = 0 THEN <<>> ELSE LoadItem(h[n - 1], n)]
    BY <2>2
  <2> QED  BY <2>3
<1>4. IsLoaded(f) /\ ToLoad = f[L]
  BY <1>3 DEF ToLoad
<1>5. \A n \in 0..L : f[n] = IF n = 0 THEN <<>> ELSE LoadItem(f[n - 1], n)
  <2> HIDE DEF f
  <2> QED  BY <1>4
<1> HIDE DEF f, step
<1> DEFINE G == {n \in Nat : n <= L => f[n] \in Loads}
<1>6. 0 \in G
  BY <1>0, <1>5
<1>7. ASSUME NEW n \in G PROVE n + 1 \in G
  <2> SUFFICES ASSUME n + 1 <= L PROVE f[n + 1] \in Loads
    OBVIOUS
  <2>1. n + 1 \in 0..L /\ n + 1 # 0 /\ (n + 1) - 1 = n /\ n <= L /\ n + 1 \in 1..L
    BY <1>0
  <2>2. f[n + 1] = LoadItem(f[(n + 1) - 1], n + 1) /\ f[n] \in Loads
    BY <1>5, <2>1
  <2>3. f[n + 1] = LoadItem(f[n], n + 1)
    BY <2>1, <2>2
  <2> QED  BY <2>1, <2>2, <2>3, LoadItemType
<1>8. G = Nat
  <2> HIDE DEF G
  <2>1. G \in SUBSET Nat
    BY DEF G
  <2> QED  BY <1>6, <1>7, <2>1, Induction
<1>9. L \in G /\ L <= L
  BY <1>0, <1>8
<1> QED  BY <1>4, <1>9

-----------------------------------------------------------------------------
(* The inductive invariant.                                                 *)

Nodes(I) == {Dir} \cup [kind : {"file"}, id : I, text : Seq(Int)]
OldIds == {"old"} \X Nat
MadeIds(n) == OldIds \cup {<<"made", k>> : k \in 1..n}
AllIds == {"old", "made", "opened"} \X Nat

EditTypes ==
    /\ pc \in {"plan", "commit", "save", "done", "refused", "undone", "torn", "partly"}
    /\ edit \in Seq(Items) /\ steps \in Seq(Steps) /\ undo \in Seq(Undos) /\ aside \in Seq(AnyPath)
    /\ loaded \in Seq([path : Paths, id : AllIds, text : Seq(Int)])
    /\ next \in 1..(Len(steps) + Len(loaded) + 1)
    /\ disk0 \in Trees(Nodes(OldIds)) /\ DOMAIN disk0 \subseteq Paths /\ disk \in Trees(Nodes(AllIds))

Buffers ==
    /\ pc # "done" => buf = buf0
    /\ pc = "plan" => \A b \in Bufs : buf[b].path \in AnyPath
    /\ \A b \in Bufs :
          /\ DOMAIN buf[b] = {"path", "id", "dirty", "text"} /\ buf[b].dirty \in BOOLEAN
          /\ buf[b].path # NoPath => buf[b].id # NoId

Planning ==
    /\ pc \in {"plan", "refused"} => disk = disk0
    /\ pc = "plan" => next = 1 /\ steps = <<>> /\ undo = <<>> /\ aside = <<>> /\ loaded = <<>>

\* Each id and each aside name is given once, and what the plan says exists does.
Committing ==
    pc = "commit" =>
        /\ loaded = <<>> /\ next <= Len(steps) + 1
        /\ disk \in Trees(Nodes(MadeIds(next - 1))) /\ DOMAIN disk \subseteq Known(Len(aside))
        /\ Sound(disk0, steps) /\ Agree(disk0, SubSeq(steps, 1, next - 1), Made(undo), disk)

\* Until a file is written, taking everything back gives the disk there was.
Reversible ==
    pc = "commit" \/ (pc = "save" /\ next = 1) => Over(undo) \/ Undone(disk, undo) = disk0

\* What was read is for the file it was read from, and no file is written twice.
Saving ==
    pc = "save" =>
        /\ next <= Len(loaded) + 1
        /\ \A m, n \in 1..Len(loaded) : loaded[m].path = loaded[n].path => m = n
        /\ \A n \in next..Len(loaded) :
              IF loaded[n].path \in DOMAIN disk THEN loaded[n].id = disk[loaded[n].path].id
              ELSE loaded[n].id = <<"opened", n>> /\ Where(disk, <<"opened", n>>) = {}

EditInv ==
    /\ EditTypes /\ Buffers /\ Planning /\ Committing /\ Reversible /\ Saving
    /\ NothingChanged

LEMMA NodesGrow ==
    ASSUME NEW I, NEW J, I \subseteq J
    PROVE  Nodes(I) \subseteq Nodes(J) /\ Trees(Nodes(I)) \subseteq Trees(Nodes(J))
<1>1. Nodes(I) \subseteq Nodes(J)
  BY DEF Nodes
<1>2. ASSUME NEW d \in Trees(Nodes(I)) PROVE d \in Trees(Nodes(J))
  <2> DEFINE N == Nodes(I)
             M == Nodes(J)
  <2>1. N \subseteq M /\ d \in Trees(N)
    BY <1>1
  <2> HIDE DEF N, M
  <2>2. d \in Disks(N) /\ Tree(d)
    BY <2>1 DEF Trees
  <2>3. DOMAIN d \in SUBSET AnyPath /\ d = [p \in DOMAIN d |-> d[p]] /\ \A p \in DOMAIN d : d[p] \in M
    BY <2>1, <2>2, DiskType
  <2>4. d \in Disks(M)
    BY <2>3, DiskMade
  <2>5. d \in Trees(M)
    BY <2>2, <2>4 DEF Trees
  <2> QED  BY <2>5 DEF M
<1> QED  BY <1>1, <1>2

LEMMA NodeFacts ==
    /\ Dir.kind = "dir" /\ Dir.id = NoId
    /\ \A I : \A x \in Nodes(I) : x.kind = "file" => x.id \in I
<1>1. Dir.kind = "dir" /\ Dir.id = NoId
  BY DEF Dir
<1>2. ASSUME NEW I, NEW x \in Nodes(I), x.kind = "file" PROVE x.id \in I
  BY <1>1, <1>2 DEF Nodes
<1> QED  BY <1>1, <1>2

LEMMA IdsGrow ==
    ASSUME NEW n \in Nat
    PROVE  OldIds \subseteq MadeIds(n) /\ MadeIds(n) \subseteq MadeIds(n + 1) /\ MadeIds(n) \subseteq AllIds
<1>1. \A k \in 1..n : k \in 1..(n + 1) /\ k \in Nat
  OBVIOUS
<1>2. \A k \in 1..n : <<"made", k>> \in AllIds
  BY <1>1 DEF AllIds
<1>3. OldIds \subseteq AllIds
  BY DEF OldIds, AllIds
<1> QED  BY <1>1, <1>2, <1>3 DEF MadeIds

LEMMA InitEditInv == Init => EditInv
<1> SUFFICES ASSUME Init PROVE EditInv
  OBVIOUS
<1> USE DEF Init
<1>1. PICK case \in Cases : disk = case.disk /\ edit \in UNION {[1..n -> case.items] : n \in 1..case.max}
  OBVIOUS
<1>2. edit \in Seq(Items)
  <2>1. PICK n \in 1..case.max : edit \in [1..n -> case.items]
    BY <1>1
  <2>2. case.items \subseteq Items
    BY DEF Items
  <2>3. n \in Nat
    BY <2>1, BoundsAssumption
  <2> QED  BY <2>1, <2>2, <2>3
<1>3. disk \in Trees(Nodes(OldIds))
  <2>1. /\ Tree(disk) /\ disk = [p \in DOMAIN disk |-> disk[p]]
        /\ \A p \in DOMAIN disk : p \in Paths /\ disk[p] \in Nodes(OldIds)
    BY <1>1, BoundsAssumption DEF Nodes, OldIds
  <2>2. DOMAIN disk \in SUBSET AnyPath
    BY <2>1, PathsAny
  <2> HIDE DEF Init
  <2>3. disk \in Disks(Nodes(OldIds))
    BY <2>1, <2>2, DiskMade
  <2> QED  BY <2>1, <2>3 DEF Trees
<1>4. disk \in Trees(Nodes(AllIds))
  <2>1. OldIds \subseteq AllIds
    BY DEF OldIds, AllIds
  <2> QED  BY <1>3, <2>1, NodesGrow
<1>5. EditTypes
  <2>1. /\ steps = <<>> /\ undo = <<>> /\ aside = <<>> /\ loaded = <<>> /\ next = 1 /\ pc = "plan"
        /\ disk0 = disk
    OBVIOUS
  <2> HIDE DEF Init
  <2>2. \A S : <<>> \in Seq(S)
    OBVIOUS
  <2>3. Len(<<>>) = 0
    OBVIOUS
  <2>4. 1 \in 1..(Len(<<>>) + Len(<<>>) + 1)
    BY <2>3
  <2>5. DOMAIN disk \subseteq Paths
    BY <1>1, BoundsAssumption
  <2> QED  BY <1>2, <1>3, <1>4, <2>1, <2>2, <2>4, <2>5 DEF EditTypes
<1>6. Buffers
  <2>1. PICK at \in [Bufs -> {NoPath} \cup {p \in DOMAIN disk : disk[p].kind = "file"}], dirty \in [Bufs -> Dirty] :
           buf = [b \in Bufs |-> IF at[b] = NoPath THEN NoBuffer ELSE Shown(at[b], dirty[b])]
    OBVIOUS
  <2> HIDE DEF Init
  <2>2. ASSUME NEW b \in Bufs
        PROVE  /\ buf[b].path \in AnyPath /\ DOMAIN buf[b] = {"path", "id", "dirty", "text"}
               /\ buf[b].dirty \in BOOLEAN /\ (buf[b].path # NoPath => buf[b].id # NoId)
    <3>1. CASE at[b] = NoPath
      <4>1. buf[b] = NoBuffer
        BY <2>1, <3>1
      <4>2. NoPath \in AnyPath
        BY DEF AnyPath, NoPath
      <4> QED  BY <4>1, <4>2 DEF NoBuffer
    <3>2. CASE at[b] # NoPath
      <4>1. at[b] \in DOMAIN disk /\ disk[at[b]].kind = "file" /\ dirty[b] \in BOOLEAN
        BY <2>1, <3>2, BoundsAssumption
      <4>2. buf[b] = Shown(at[b], dirty[b])
        BY <2>1, <3>2
      <4>3. at[b] \in AnyPath /\ disk[at[b]] \in Nodes(OldIds)
        BY <1>3, <4>1, DiskType DEF Trees
      <4>4. disk[at[b]].id # NoId
        <5>1. disk[at[b]].id \in OldIds
          BY <4>1, <4>3 DEF Nodes, Dir
        <5> QED  BY <5>1 DEF OldIds, NoId
      <4> QED  BY <4>1, <4>2, <4>3, <4>4 DEF Shown
    <3> QED  BY <3>1, <3>2
  <2> QED  BY <2>2 DEF Buffers, Init
<1>7. Planning
  BY DEF Planning
<1>8. pc = "plan"
  OBVIOUS
<1> HIDE DEF Init
<1>9. NothingChanged /\ Committing /\ Reversible /\ Saving
  BY <1>8 DEF NothingChanged, Committing, Reversible, Saving
<1> QED  BY <1>5, <1>6, <1>7, <1>9 DEF EditInv

LEMMA PlanEditInv ==
    ASSUME EditInv, PlanEdit
    PROVE  EditInv'
<1> USE DEF PlanEdit
<1>1. /\ EditTypes /\ Buffers /\ Planning
      /\ UNCHANGED <<disk, next, undo, aside, loaded, buf, edit, disk0, buf0>> /\ pc = "plan"
  BY DEF EditInv, before
<1>2. disk = disk0 /\ next = 1 /\ steps = <<>> /\ undo = <<>> /\ aside = <<>> /\ loaded = <<>> /\ buf = buf0
      /\ \A b \in Bufs : buf[b].path \in AnyPath
  BY <1>1 DEF Planning, Buffers
<1>3. disk \in Trees(Nodes(OldIds)) /\ edit \in Seq(Items) /\ steps \in Seq(Steps)
  BY <1>1, <1>2 DEF EditTypes
<1>4. CASE Plan.refused
  <2>1. pc' = "refused" /\ steps' = steps
    BY <1>4 DEF Refused
  <2> HIDE DEF PlanEdit
  <2>2. EditTypes'
    BY <1>1, <2>1 DEF EditTypes
  <2>3. Buffers' /\ Planning'
    BY <1>1, <1>2, <2>1 DEF Buffers, Planning
  <2>4. Committing' /\ Reversible' /\ Saving'
    BY <2>1 DEF Committing, Reversible, Saving
  <2>5. NothingChanged'
    BY <1>1, <1>2, <2>1 DEF NothingChanged
  <2> QED  BY <2>2, <2>3, <2>4, <2>5 DEF EditInv
<1>5. CASE ~Plan.refused
  <2>1. pc' = "commit" /\ steps' = Plan.steps
    BY <1>5
  <2>2. Plan.steps \in Seq(Steps) /\ Sound(disk, Plan.steps)
    BY <1>2, <1>3, PlanSound
  <2> HIDE DEF PlanEdit
  <2>3. EditTypes'
    <3>1. 1 \in 1..(Len(steps') + Len(loaded') + 1)
      <4>1. Len(steps') \in Nat /\ Len(loaded') = 0
        BY <1>1, <1>2, <2>1, <2>2
      <4> QED  BY <4>1
    <3> QED  BY <1>1, <1>2, <2>1, <2>2, <3>1 DEF EditTypes
  <2>4. Buffers' /\ Planning' /\ Saving' /\ NothingChanged'
    BY <1>1, <1>2, <2>1 DEF Buffers, Planning, Saving, NothingChanged
  <2>5. disk \in Trees(Nodes(MadeIds(0))) /\ DOMAIN disk \subseteq Known(0)
    <3>1. 0 \in Nat /\ OldIds \subseteq MadeIds(0)
      BY IdsGrow
    <3>2. disk \in Trees(Nodes(MadeIds(0)))
      BY <1>3, <3>1, NodesGrow
    <3>3. ASSUME NEW p \in DOMAIN disk PROVE p \in Known(0)
      <4>1. p \in Seq(Names)
        BY <1>1, <1>2 DEF EditTypes, Paths
      <4>2. p \in Seq(Names \cup 1..0)
        <5>1. Names \subseteq Names \cup 1..0
          OBVIOUS
        <5> QED  BY <4>1, <5>1, SeqMonotonic
      <4> QED  BY <4>2 DEF Known
    <3> QED  BY <3>2, <3>3
  <2>6. Agree(disk0, <<>>, Made(<<>>), disk)
    <3>1. ASSUME NEW p \in AnyPath PROVE Exists(disk, <<>>, p) <=> p \in DOMAIN disk
      BY FoundNone DEF Exists, Sought
    <3> QED  BY <1>2, <3>1, PathsAny DEF Agree
  <2>7. SubSeq(Plan.steps, 1, 1 - 1) = <<>>
    BY SubSeqEmpty
  <2>8. Committing'
    <3>1. next' = 1 /\ loaded' = <<>> /\ disk' = disk /\ disk0' = disk0 /\ undo' = <<>> /\ aside' = <<>>
          /\ steps' = Plan.steps /\ next' - 1 = 0 /\ Len(aside') = 0
      BY <1>1, <1>2, <2>1
    <3>2. 1 <= Len(Plan.steps) + 1
      BY <2>2
    <3>3. Sound(disk0', steps') /\ Agree(disk0', SubSeq(steps', 1, next' - 1), Made(undo'), disk')
      BY <1>2, <2>2, <2>6, <2>7, <3>1
    <3> QED  BY <2>5, <3>1, <3>2, <3>3 DEF Committing
  <2>9. Reversible'
    <3>1. disk \in Trees(Nodes(AllIds))
      BY <1>1 DEF EditTypes
    <3>2. Undone(disk, <<>>) = disk
      BY <3>1, UndoneNone
    <3> QED  BY <1>1, <1>2, <3>2 DEF Reversible
  <2> QED  BY <2>3, <2>4, <2>8, <2>9 DEF EditInv
<1> QED  BY <1>4, <1>5

LEMMA PrefixNext ==
    ASSUME NEW S, NEW s \in Seq(S), NEW k \in 1..Len(s)
    PROVE  SubSeq(s, 1, k - 1) \in Seq(S) /\ SubSeq(s, 1, k) = Append(SubSeq(s, 1, k - 1), s[k])
<1> DEFINE a == SubSeq(s, 1, k - 1)
           b == SubSeq(s, 1, k)
<1>0. Len(s) \in Nat /\ k \in Nat /\ k <= Len(s) /\ k - 1 \in Nat /\ \A i \in 1..k : s[i] \in S
  OBVIOUS
<1>1. a \in Seq(S) /\ Len(a) = k - 1 /\ \A i \in 1..(k - 1) : a[i] = s[i]
  <2>1. CASE 1 <= k - 1
    <3>1. (k - 1) - 1 + 1 = k - 1 /\ (\A i \in 1..(k - 1) : 1 + i - 1 = i /\ s[i] \in S) /\ 1 \in Int /\ k - 1 \in Int
      BY <1>0
    <3> QED  BY <1>0, <2>1, <3>1, SubSeqProperties
  <2>2. CASE ~(1 <= k - 1)
    BY <1>0, <2>2, SubSeqEmpty
  <2> QED  BY <2>1, <2>2
<1>2. b \in Seq(S) /\ Len(b) = k /\ \A i \in 1..k : b[i] = s[i]
  <2>1. k - 1 + 1 = k /\ (\A i \in 1..k : 1 + i - 1 = i) /\ 1 \in Int /\ k \in Int /\ 1 <= k
    BY <1>0
  <2> QED  BY <1>0, <2>1, SubSeqProperties
<1> HIDE DEF a, b
<1>3. s[k] \in S
  BY <1>0
<1>4. /\ Append(a, s[k]) \in Seq(S) /\ Len(Append(a, s[k])) = k /\ Append(a, s[k])[k] = s[k]
      /\ \A i \in 1..(k - 1) : Append(a, s[k])[i] = s[i]
  BY <1>0, <1>1, <1>3, AppendFacts
<1>5. ASSUME NEW i \in 1..k PROVE b[i] = Append(a, s[k])[i]
  <2>1. CASE i = k
    BY <1>2, <1>4, <2>1
  <2>2. CASE i # k
    <3>1. i \in 1..(k - 1)
      BY <1>0, <2>2
    <3> QED  BY <1>2, <1>4, <3>1
  <2> QED  BY <2>1, <2>2
<1>6. b = Append(a, s[k])
  BY <1>2, <1>4, <1>5, SeqEqual
<1> QED  BY <1>1, <1>6 DEF a, b

LEMMA WholePrefix ==
    ASSUME NEW S, NEW s \in Seq(S)
    PROVE  SubSeq(s, 1, Len(s)) = s
<1>1. CASE s = <<>>
  <2>1. SubSeq(s, 1, 0) = <<>>
    BY SubSeqEmpty
  <2> QED  BY <1>1, <2>1
<1>2. CASE s # <<>>
  <2> DEFINE b == SubSeq(s, 1, Len(s))
  <2>1. /\ Len(s) \in Nat /\ 1 <= Len(s) /\ Len(s) - 1 + 1 = Len(s) /\ 1 \in Int /\ Len(s) \in Int
        /\ \A i \in 1..Len(s) : 1 + i - 1 = i /\ s[i] \in S
    BY <1>2
  <2>2. b \in Seq(S) /\ Len(b) = Len(s) /\ \A i \in 1..Len(s) : b[i] = s[i]
    BY <2>1, SubSeqProperties
  <2> HIDE DEF b
  <2>3. b = s
    BY <2>2, SeqEqual
  <2> QED  BY <2>3 DEF b
<1> QED  BY <1>1, <1>2

\* What the first k of the directories the next step needs leave on the disk.
DirsDone(k) ==
    LET step == steps[next]
        dirs == Missing(disk, step)
        some == SubSeq(dirs, 1, k)
        d    == DirsMade(disk, some)
    IN /\ step \in Steps /\ Target(step) \in Paths /\ dirs \in Seq(Paths)
       /\ d \in Trees(Nodes(MadeIds(next))) /\ DOMAIN d \subseteq Known(Len(aside))
       /\ DOMAIN d = DOMAIN disk \cup {dirs[i] : i \in 1..k}
       /\ \A i \in 1..k : dirs[i] # Target(step)
       /\ Where(d, <<"made", next>>) = {}
       /\ undo \o UndoDirs(some) \in Seq(Undos)
       /\ Undone(d, undo \o UndoDirs(some)) = Undone(disk, undo)

LEMMA DirsTaken ==
    ASSUME EditTypes, Committing, pc = "commit", next <= Len(steps), NEW k \in 0..Len(Missing(disk, steps[next])),
           k > 0 => CanMakeDirs(disk, Missing(disk, steps[next]))
    PROVE  DirsDone(k)
<1> DEFINE step == steps[next]
           dirs == Missing(disk, step)
           some == SubSeq(dirs, 1, k)
           d == DirsMade(disk, some)
           N == Nodes(MadeIds(next))
           M == Nodes(MadeIds(next - 1))
<1>0. /\ steps \in Seq(Steps) /\ undo \in Seq(Undos) /\ aside \in Seq(AnyPath) /\ next \in Nat \ {0}
      /\ disk \in Trees(M) /\ DOMAIN disk \subseteq Known(Len(aside))
  BY DEF EditTypes, Committing
<1>1. step \in Steps /\ Target(step) \in Paths
  <2>1. next \in 1..Len(steps)
    BY <1>0
  <2>2. step \in Steps
    BY <1>0, <2>1
  <2> QED  BY <2>2 DEF Target, Steps
<1>2. disk \in Trees(N)
  <2>1. next - 1 \in Nat /\ (next - 1) + 1 = next
    BY <1>0
  <2>2. MadeIds(next - 1) \subseteq MadeIds(next)
    BY <2>1, IdsGrow
  <2> QED  BY <1>0, <2>2, NodesGrow
<1> HIDE DEF step
<1>3. OnTheWay(dirs, disk, Target(step))
  BY <1>1, MissingFacts
<1>4. k \in 0..Len(dirs) /\ (k > 0 => CanMakeDirs(disk, dirs)) /\ Len(dirs) \in Nat /\ dirs \in Seq(Paths)
  BY <1>3 DEF step, OnTheWay
<1> HIDE DEF dirs
<1>5. Dir \in N
  BY DEF Nodes
<1> HIDE DEF N
<1>6. /\ d \in Trees(N) /\ DOMAIN d = DOMAIN disk \cup {dirs[i] : i \in 1..k}
      /\ \A p \in DOMAIN disk : d[p] = disk[p]
      /\ \A i \in 1..k : d[dirs[i]] = Dir
      /\ some \in Seq(Paths) /\ undo \o UndoDirs(some) \in Seq(Undos)
      /\ Undone(d, undo \o UndoDirs(some)) = Undone(disk, undo)
  <2>1. GoesBack(N, disk, dirs, k, undo)
    BY <1>0, <1>2, <1>3, <1>4, <1>5, DirsBack
  <2> QED  BY <2>1 DEF GoesBack
<1> HIDE DEF d, some, M
<1>7. \A i \in 1..k : dirs[i] \in Paths /\ dirs[i] # Target(step)
  <2>1. \A i \in 1..k : i \in 1..Len(dirs)
    BY <1>4
  <2> QED  BY <1>3, <1>4, <2>1 DEF OnTheWay
<1>8. DOMAIN d \subseteq Known(Len(aside))
  <2>1. Names \subseteq Names \cup 1..Len(aside)
    OBVIOUS
  <2>2. Paths \subseteq Known(Len(aside))
    BY <2>1, SeqMonotonic DEF Known, Paths
  <2> QED  BY <1>0, <1>6, <1>7, <2>2
<1>9. Where(d, <<"made", next>>) = {}
  <2> SUFFICES ASSUME NEW p \in DOMAIN d, d[p].id = <<"made", next>>, d[p].kind = "file" PROVE FALSE
    BY DEF Where
  <2>1. p \in DOMAIN disk
    <3>1. p \notin {dirs[i] : i \in 1..k}
      BY <1>6, NodeFacts
    <3> QED  BY <1>6, <3>1
  <2>2. disk[p] \in M /\ d[p] = disk[p]
    BY <1>0, <1>6, <2>1, DiskType DEF Trees
  <2>3. <<"made", next>> \in MadeIds(next - 1)
    BY <2>2, NodeFacts DEF M
  <2>4. \A j \in 1..(next - 1) : j # next
    BY <1>0
  <2>5. <<"made", next>> \notin OldIds
    BY DEF OldIds
  <2> QED  BY <2>3, <2>4, <2>5 DEF MadeIds
<1> QED  BY <1>1, <1>4, <1>6, <1>7, <1>8, <1>9 DEF step, dirs, some, d, N, DirsDone

LEMMA CommitStepInv ==
    ASSUME EditInv, CommitStep
    PROVE  EditInv'
<1> DEFINE step == steps[next]
           dirs == Missing(disk, step)
           d == DirsMade(disk, dirs)
           n == Len(aside)
           away == AsideFor(step.path)
           node == File(<<"made", next>>, <<>>)
           N == Nodes(MadeIds(next))
           w == undo \o UndoDirs(dirs)
           u == UndoStep(step)
           e == Taken(d, step)
<1>0. /\ EditTypes /\ Buffers /\ Planning /\ Committing /\ Reversible
      /\ pc = "commit" /\ next <= Len(steps) /\ CanMakeDirs(disk, dirs) /\ CanTake(d, step)
      /\ disk' = e /\ undo' = w \o <<u>> /\ next' = next + 1
      /\ aside' = IF step.kind = "delete" THEN Append(aside, away) ELSE aside
      /\ UNCHANGED <<pc, steps, loaded, buf, edit, disk0, buf0>>
  BY DEF EditInv, CommitStep, before
<1>1. /\ steps \in Seq(Steps) /\ undo \in Seq(Undos) /\ aside \in Seq(AnyPath) /\ next \in Nat \ {0}
      /\ loaded = <<>> /\ DOMAIN disk \subseteq Known(n) /\ n \in Nat
      /\ Sound(disk0, steps) /\ Agree(disk0, SubSeq(steps, 1, next - 1), Made(undo), disk)
      /\ (Over(undo) \/ Undone(disk, undo) = disk0)
  BY <1>0 DEF EditTypes, Committing, Reversible
<1>2. /\ step \in Steps /\ Target(step) \in Paths /\ dirs \in Seq(Paths)
      /\ d \in Trees(N) /\ DOMAIN d \subseteq Known(n)
      /\ DOMAIN d = DOMAIN disk \cup {dirs[i] : i \in 1..Len(dirs)}
      /\ \A i \in 1..Len(dirs) : dirs[i] # Target(step)
      /\ Where(d, <<"made", next>>) = {}
      /\ w \in Seq(Undos) /\ Undone(d, w) = Undone(disk, undo)
  <2>1. \A x \in Steps : Target(x) \in Paths
    BY DEF Target, Steps
  <2>2. step \in Steps
    BY <1>0, <1>1
  <2>3. OnTheWay(dirs, disk, Target(step))
    BY <2>1, <2>2, MissingFacts
  <2>4. dirs \in Seq(Paths)
    BY <2>3 DEF OnTheWay
  <2>5. Len(dirs) \in 0..Len(dirs) /\ SubSeq(dirs, 1, Len(dirs)) = dirs
    BY <2>4, WholePrefix
  <2>6. DirsDone(Len(dirs))
    BY <1>0, <2>5, DirsTaken
  <2> QED  BY <2>5, <2>6 DEF DirsDone
<1>3. /\ away \in Named /\ away \in Known(n + 1) /\ away \notin Known(n)
      /\ Parent(away) = Parent(step.path) /\ ~Within(away, step.path)
      /\ \A q \in Paths : ~Within(q, away)
  <2>1. step.path \in Paths
    BY <1>2 DEF Steps
  <2> QED  BY <1>1, <2>1, AwayFacts DEF AsideFor
<1>4. e = After(d, step, node, away) /\ u = Back(step, away)
  BY DEF Taken, After, UndoStep, Back
<1>5. CanTake(d, step) /\ step.kind \in {"create", "rename", "delete"} /\ away \in AnyPath /\ step.path \in AnyPath
      /\ (step.kind = "rename" => step.to = Target(step) /\ step.to \in Paths)
  BY <1>0, <1>2, <1>3, PathsAny DEF Steps, Named, Target
<1>6. node \in N /\ node.kind = "file" /\ node.id = <<"made", next>>
  <2>1. <<"made", next>> \in MadeIds(next)
    <3>1. next \in 1..next
      BY <1>1
    <3> QED  BY <3>1 DEF MadeIds
  <2>2. <<>> \in Seq(Int)
    OBVIOUS
  <2> QED  BY <2>1, <2>2 DEF Nodes, File
<1> HIDE DEF step, d, node, away, N, w, u, e
<1>7. e \in Trees(N) /\ u \in Undos
      /\ ((step.kind = "rename" /\ step.path # step.to => step.to \notin DOMAIN d) => UndoOne(u, e) = d)
  <2>1. away \notin DOMAIN d
    BY <1>2, <1>3
  <2> QED  BY <1>2, <1>3, <1>4, <1>5, <1>6, <2>1, StepBack
<1>8. undo' = Append(w, u) /\ Append(w, u) \in Seq(Undos)
  BY <1>0, <1>2, <1>7, AppendFacts
<1>9. \A i \in 1..Len(undo) : Append(w, u)[i] = undo[i]
  <2>1. UndoDirs(dirs) \in Seq(Undos)
    BY <1>2, UndoDirsType
  <2>2. \A i \in 1..Len(undo) : w[i] = undo[i] /\ i \in 1..Len(w)
    BY <1>1, <2>1 DEF w
  <2> QED  BY <1>2, <1>7, <2>2, AppendFacts
<1>10. Over(undo') \/ Undone(disk', undo') = disk0
  <2>1. CASE Over(undo)
    <3>1. Len(undo) <= Len(Append(w, u))
      <4>1. UndoDirs(dirs) \in Seq(Undos)
        BY <1>2, UndoDirsType
      <4>2. Len(w) = Len(undo) + Len(UndoDirs(dirs)) /\ Len(UndoDirs(dirs)) \in Nat /\ Len(undo) \in Nat
        BY <1>1, <4>1 DEF w
      <4>3. Len(Append(w, u)) = Len(w) + 1
        BY <1>2, <1>7, AppendFacts
      <4> QED  BY <4>2, <4>3
    <3> QED  BY <1>1, <1>8, <1>9, <2>1, <3>1, OverStays
  <2>2. CASE step.kind = "rename" /\ step.path # step.to /\ step.to \in DOMAIN d
    <3>1. step.to \in DOMAIN disk
      BY <1>2, <1>5, <2>2
    <3>2. ~Exists(disk0, SubSeq(steps, 1, next - 1), step.to)
      <4>1. next \in 1..Len(steps)
        BY <1>0, <1>1
      <4> QED  BY <1>1, <2>2, <4>1 DEF Sound, step
    <3>3. step.to \in Made(undo)
      BY <1>1, <1>5, <2>2, <3>1, <3>2 DEF Agree
    <3>4. u.kind = "rename" /\ u.path = step.to
      BY <1>4, <2>2 DEF Back
    <3>5. u.path \in Made(w)
      BY <1>1, <1>2, <3>3, <3>4, MadeDirs DEF w
    <3>6. Over(Append(w, u))
      BY <1>2, <1>7, <3>4, <3>5, OverLast
    <3> QED  BY <1>8, <3>6
  <2>3. CASE Undone(disk, undo) = disk0 /\ (step.kind = "rename" /\ step.path # step.to => step.to \notin DOMAIN d)
    <3>1. Undone(e, Append(w, u)) = Undone(UndoOne(u, e), w)
      BY <1>2, <1>7, UndoneLast
    <3> QED  BY <1>0, <1>2, <1>7, <1>8, <2>3, <3>1
  <2> QED  BY <1>1, <2>1, <2>2, <2>3
<1>11. Agree(disk0, SubSeq(steps, 1, next), Made(Append(w, u)), e)
  <2> DEFINE all == SubSeq(steps, 1, next - 1)
  <2>1. all \in Seq(Steps) /\ SubSeq(steps, 1, next) = Append(all, step)
    <3>1. next \in 1..Len(steps)
      BY <1>0, <1>1
    <3> QED  BY <1>1, <3>1, PrefixNext DEF step
  <2>2. Made(w) = Made(undo) \cup {dirs[i] : i \in 1..Len(dirs)} /\ Made(w) \in SUBSET AnyPath
    BY <1>1, <1>2, MadeDirs, MadeType DEF w
  <2> HIDE DEF all, dirs
  <2>3. Agree(disk0, all, Made(w), d)
    BY <1>1, <1>2, <2>2 DEF Agree, all
  <2>4. Made(Append(w, u)) = MadeAfter(Made(w), u)
    BY <1>2, <1>7, MadeLast
  <2>5. d \in Disks(N)
    BY <1>2 DEF Trees
  <2>6. Agree(disk0, Append(all, step), MadeAfter(Made(w), u), e)
    BY <1>2, <1>3, <1>4, <1>5, <2>1, <2>2, <2>3, <2>5, AgreeStep
  <2> QED  BY <2>1, <2>4, <2>6
<1>12. DOMAIN e \subseteq Known(Len(aside')) /\ aside' \in Seq(AnyPath)
  <2>1. d \in Disks(N)
    BY <1>2 DEF Trees
  <2>2. CASE step.kind = "delete"
    <3>1. aside' \in Seq(AnyPath) /\ Len(aside') = n + 1
      BY <1>0, <1>1, <1>5, <2>2, AppendFacts DEF n
    <3>2. DOMAIN d \subseteq Known(n + 1)
      <4>1. Names \cup 1..n \subseteq Names \cup 1..(n + 1)
        BY <1>1
      <4>2. Known(n) \subseteq Known(n + 1)
        BY <4>1, SeqMonotonic DEF Known
      <4> QED  BY <1>2, <4>2
    <3>3. n + 1 \in Nat
      BY <1>1
    <3>4. DOMAIN After(d, step, node, away) \subseteq Known(n + 1)
      BY <1>2, <1>3, <1>5, <2>1, <3>2, <3>3, KnownStep
    <3> QED  BY <1>4, <3>1, <3>4
  <2>3. CASE step.kind # "delete"
    <3>1. aside' = aside /\ Len(aside') = n
      BY <1>0, <2>3 DEF n
    <3>2. DOMAIN After(d, step, node, away) \subseteq Known(n)
      BY <1>1, <1>2, <1>5, <2>1, <2>3, KnownStep
    <3> QED  BY <1>1, <1>4, <3>1, <3>2
  <2> QED  BY <2>2, <2>3
<1>13. e \in Trees(Nodes(AllIds))
  <2>1. MadeIds(next) \subseteq AllIds
    BY <1>1, IdsGrow
  <2> QED  BY <1>7, <2>1, NodesGrow DEF N
<1>14. EditTypes'
  <2>1. next' \in 1..(Len(steps') + Len(loaded') + 1)
    <3>1. Len(steps) \in Nat /\ Len(loaded) = 0 /\ steps' = steps /\ loaded' = loaded
      BY <1>0, <1>1
    <3> QED  BY <1>0, <1>1, <3>1
  <2> QED  BY <1>0, <1>8, <1>12, <1>13, <2>1 DEF EditTypes
<1>15. Committing'
  <2>1. next' - 1 = next /\ next' <= Len(steps') + 1
    <3>1. Len(steps) \in Nat
      BY <1>1
    <3> QED  BY <1>0, <1>1, <3>1
  <2> QED  BY <1>0, <1>1, <1>7, <1>8, <1>11, <1>12, <2>1 DEF Committing, N
<1>16. Buffers' /\ Planning' /\ Saving' /\ NothingChanged' /\ Reversible'
  BY <1>0, <1>10 DEF Buffers, Planning, Saving, NothingChanged, Reversible
<1> QED  BY <1>14, <1>15, <1>16 DEF EditInv

\* What a failure before the first write leaves.
LEMMA TakenBackInv ==
    ASSUME EditInv, NEW d, d \in Trees(Nodes(AllIds)), pc \in {"commit", "save"}, next = 1 \/ pc = "commit",
           Over(undo) \/ d = disk0, disk' = d, TakenBack,
           UNCHANGED <<steps, next, undo, aside, loaded, buf, edit, disk0, buf0>>
    PROVE  EditInv'
<1>0. EditTypes /\ Buffers /\ pc' = "undone"
  BY DEF EditInv, TakenBack
<1>1. EditTypes'
  BY <1>0 DEF EditTypes
<1>2. Buffers' /\ Planning' /\ Committing' /\ Reversible' /\ Saving'
  BY <1>0 DEF Buffers, Planning, Committing, Reversible, Saving
<1>3. NothingChanged'
  <2>1. buf = buf0
    BY <1>0 DEF Buffers
  <2>2. Overran' <=> Over(undo)
    BY DEF Overran, Over
  <2> QED  BY <1>0, <2>1, <2>2 DEF NothingChanged
<1> QED  BY <1>1, <1>2, <1>3 DEF EditInv

LEMMA CommitFailsInv ==
    ASSUME EditInv, CommitFails
    PROVE  EditInv'
<1> DEFINE step == steps[next]
           dirs == Missing(disk, step)
<1>0. /\ EditTypes /\ Committing /\ Reversible /\ pc = "commit" /\ next <= Len(steps)
      /\ TakenBack /\ UNCHANGED <<steps, next, undo, aside, loaded, buf, edit, disk0, buf0>>
  BY DEF EditInv, CommitFails, before
<1>1. PICK k \in 0..Len(dirs) :
         /\ k > 0 => CanMakeDirs(disk, dirs)
         /\ disk' = Undone(DirsMade(disk, SubSeq(dirs, 1, k)), undo \o UndoDirs(SubSeq(dirs, 1, k)))
  BY DEF CommitFails
<1>2. DirsDone(k)
  BY <1>0, <1>1, DirsTaken
<1> DEFINE some == SubSeq(dirs, 1, k)
           d == DirsMade(disk, some)
           w == undo \o UndoDirs(some)
           N == Nodes(MadeIds(next))
<1>3. d \in Trees(N) /\ w \in Seq(Undos) /\ Undone(d, w) = Undone(disk, undo) /\ disk' = Undone(d, w)
  BY <1>1, <1>2 DEF DirsDone
<1> HIDE DEF dirs, some, d, w, N
<1>4. Undone(d, w) \in Trees(N)
  BY <1>3, UndoneTree
<1>5. disk' \in Trees(Nodes(AllIds))
  <2>1. next \in Nat
    BY <1>0 DEF EditTypes
  <2>2. MadeIds(next) \subseteq AllIds
    BY <2>1, IdsGrow
  <2> QED  BY <1>3, <1>4, <2>2, NodesGrow DEF N
<1>6. Over(undo) \/ disk' = disk0
  BY <1>0, <1>3 DEF Reversible
<1> QED  BY <1>0, <1>5, <1>6, TakenBackInv

LEMMA LoadFailsInv ==
    ASSUME EditInv, LoadFails
    PROVE  EditInv'
<1>0. /\ EditTypes /\ Reversible /\ pc = "commit" /\ disk' = Undone(disk, undo)
      /\ TakenBack /\ UNCHANGED <<steps, next, undo, aside, loaded, buf, edit, disk0, buf0>>
  BY DEF EditInv, LoadFails, before
<1>1. disk' \in Trees(Nodes(AllIds))
  BY <1>0, UndoneTree DEF EditTypes
<1>2. Over(undo) \/ disk' = disk0
  BY <1>0 DEF Reversible
<1> QED  BY <1>0, <1>1, <1>2, TakenBackInv

LEMMA LoadInv ==
    ASSUME EditInv, Load
    PROVE  EditInv'
<1>0. /\ EditTypes /\ Buffers /\ Committing /\ Reversible /\ pc = "commit"
      /\ \A n \in DOMAIN ToLoad : CanOpen(disk, ToLoad[n].path)
      /\ loaded' = [n \in DOMAIN ToLoad |->
                      [path |-> ToLoad[n].path, id |-> Opened(disk, n).id,
                       text |-> Opened(disk, n).text \o ToLoad[n].text]]
      /\ pc' = "save" /\ next' = 1
      /\ UNCHANGED <<disk, steps, undo, aside, buf, edit, disk0, buf0>>
  BY DEF EditInv, Load, before
<1>1. ToLoad \in Loads
  BY <1>0, ToLoadType DEF EditTypes
<1> DEFINE L == Len(ToLoad)
           M == Nodes(MadeIds(next - 1))
           file == [path : Paths, id : AllIds, text : Seq(Int)]
<1>2. /\ L \in Nat /\ DOMAIN ToLoad = 1..L
      /\ \A n \in 1..L : ToLoad[n].path \in Paths /\ ToLoad[n].text \in Seq(Int)
      /\ \A m, n \in 1..L : ToLoad[m].path = ToLoad[n].path => m = n
  <2> DEFINE pair == [path : Paths, text : Seq(Int)]
  <2>1. ToLoad \in Seq(pair)
    BY <1>1 DEF Loads
  <2>2. \A n \in 1..L : ToLoad[n] \in pair
    <3> HIDE DEF pair
    <3> QED  BY <2>1
  <2>3. L \in Nat /\ DOMAIN ToLoad = 1..L
    BY <2>1
  <2> QED  BY <1>1, <2>2, <2>3 DEF Loads
<1>3. disk \in Trees(M) /\ next - 1 \in Nat /\ MadeIds(next - 1) \subseteq AllIds
      /\ (\A p \in DOMAIN disk : disk[p] \in M)
  <2>1. disk \in Trees(M) /\ next - 1 \in Nat
    BY <1>0 DEF Committing, EditTypes
  <2>2. MadeIds(next - 1) \subseteq AllIds
    BY <2>1, IdsGrow
  <2> HIDE DEF M
  <2> QED  BY <2>1, <2>2, DiskType DEF Trees
<1>4. ASSUME NEW n \in 1..L
      PROVE  /\ Opened(disk, n).id \in AllIds /\ Opened(disk, n).text \in Seq(Int)
             /\ IF ToLoad[n].path \in DOMAIN disk THEN Opened(disk, n).id = disk[ToLoad[n].path].id
                ELSE Opened(disk, n).id = <<"opened", n>> /\ Where(disk, <<"opened", n>>) = {}
  <2> DEFINE p == ToLoad[n].path
  <2>1. CASE p \in DOMAIN disk
    <3>1. Opened(disk, n) = disk[p]
      BY <2>1 DEF Opened
    <3>2. disk[p].kind = "file"
      BY <1>0, <1>2, <2>1 DEF CanOpen
    <3>3. disk[p] \in M
      BY <1>3, <2>1
    <3>4. disk[p].id \in AllIds
      BY <1>3, <3>2, <3>3, NodeFacts
    <3>5. disk[p].text \in Seq(Int)
      BY <3>2, <3>3, NodeFacts DEF Nodes
    <3> QED  BY <2>1, <3>1, <3>4, <3>5
  <2>2. CASE p \notin DOMAIN disk
    <3>1. Opened(disk, n) = File(<<"opened", n>>, <<>>)
      BY <2>2 DEF Opened
    <3>2. <<"opened", n>> \in AllIds /\ <<>> \in Seq(Int)
      BY <1>2 DEF AllIds
    <3>3. Where(disk, <<"opened", n>>) = {}
      <4> SUFFICES ASSUME NEW q \in DOMAIN disk, disk[q].id = <<"opened", n>>, disk[q].kind = "file" PROVE FALSE
        BY DEF Where
      <4>1. disk[q] \in M
        BY <1>3
      <4>2. <<"opened", n>> \in MadeIds(next - 1)
        BY <4>1, NodeFacts
      <4> QED  BY <4>2 DEF MadeIds, OldIds
    <3> QED  BY <2>2, <3>1, <3>2, <3>3 DEF File
  <2> QED  BY <2>1, <2>2
<1>5. /\ loaded' \in Seq(file) /\ Len(loaded') = L
      /\ \A n \in 1..L : loaded'[n].path = ToLoad[n].path /\ loaded'[n].id = Opened(disk, n).id
  <2>1. ASSUME NEW n \in 1..L
        PROVE  /\ loaded'[n] \in file
               /\ loaded'[n].path = ToLoad[n].path /\ loaded'[n].id = Opened(disk, n).id
    <3>1. loaded'[n] = [path |-> ToLoad[n].path, id |-> Opened(disk, n).id,
                        text |-> Opened(disk, n).text \o ToLoad[n].text]
      BY <1>0, <1>2
    <3>2. Opened(disk, n).text \o ToLoad[n].text \in Seq(Int)
      <4>1. Opened(disk, n).text \in Seq(Int) /\ ToLoad[n].text \in Seq(Int)
        BY <1>2, <1>4
      <4> QED  BY <4>1, ConcatFacts
    <3>3. ToLoad[n].path \in Paths /\ Opened(disk, n).id \in AllIds
      BY <1>2, <1>4
    <3> DEFINE p == ToLoad[n].path
               id == Opened(disk, n).id
               text == Opened(disk, n).text \o ToLoad[n].text
    <3>4. p \in Paths /\ id \in AllIds /\ text \in Seq(Int) /\ loaded'[n] = [path |-> p, id |-> id, text |-> text]
      BY <3>1, <3>2, <3>3
    <3> HIDE DEF p, id, text
    <3>5. loaded'[n] \in file /\ loaded'[n].path = p /\ loaded'[n].id = id
      BY <3>4
    <3> QED  BY <3>5 DEF p, id
  <2>2. loaded' = [n \in 1..L |-> loaded'[n]]
    BY <1>0, <1>2
  <2> HIDE DEF file
  <2>3. loaded' \in [1..L -> file]
    BY <2>1, <2>2
  <2>4. loaded' \in Seq(file) /\ Len(loaded') = L
    BY <1>2, <2>3
  <2> QED  BY <2>1, <2>4
<1>6. EditTypes'
  <2>1. 1 \in 1..(Len(steps') + Len(loaded') + 1)
    <3>1. Len(steps) \in Nat
      BY <1>0 DEF EditTypes
    <3> QED  BY <1>0, <1>2, <1>5, <3>1
  <2> QED  BY <1>0, <1>5, <2>1 DEF EditTypes
<1> HIDE DEF L, M, file
<1>7. Saving'
  <2>1. next' <= Len(loaded') + 1
    BY <1>0, <1>2, <1>5
  <2>2. \A m, n \in 1..Len(loaded') : loaded'[m].path = loaded'[n].path => m = n
    BY <1>2, <1>5
  <2>3. ASSUME NEW n \in next'..Len(loaded')
        PROVE  IF loaded'[n].path \in DOMAIN disk' THEN loaded'[n].id = disk'[loaded'[n].path].id
               ELSE loaded'[n].id = <<"opened", n>> /\ Where(disk', <<"opened", n>>) = {}
    <3>1. n \in 1..L /\ disk' = disk
      BY <1>0, <1>5
    <3> QED  BY <1>4, <1>5, <3>1
  <2> QED  BY <2>1, <2>2, <2>3 DEF Saving
<1>8. Buffers' /\ Planning' /\ Committing' /\ Reversible' /\ NothingChanged'
  BY <1>0 DEF Buffers, Planning, Committing, Reversible, NothingChanged
<1> QED  BY <1>6, <1>7, <1>8 DEF EditInv

\* The file whose turn it is can be written and the disk is a tree still.
LEMMA Written ==
    ASSUME EditTypes, Saving, pc = "save", next <= Len(loaded), CanWrite(disk, loaded[next].path),
           NEW text \in Seq(Int)
    PROVE  /\ next \in 1..Len(loaded) /\ loaded[next].path \in Paths /\ loaded[next].id \in AllIds
           /\ loaded[next].text \in Seq(Int)
           /\ IF loaded[next].path \in DOMAIN disk
              THEN loaded[next].id = disk[loaded[next].path].id /\ disk[loaded[next].path].kind = "file"
              ELSE loaded[next].id = <<"opened", next>>
           /\ With(disk, loaded[next].path, File(loaded[next].id, text)) \in Trees(Nodes(AllIds))
<1> DEFINE file == loaded[next]
           node == File(file.id, text)
           item == [path : Paths, id : AllIds, text : Seq(Int)]
           N == Nodes(AllIds)
<1>1. next \in 1..Len(loaded) /\ next \in next..Len(loaded)
  BY DEF EditTypes
<1>2. file \in item
  <2>1. loaded \in Seq(item)
    BY DEF EditTypes
  <2> HIDE DEF item
  <2> QED  BY <1>1, <2>1
<1>3. file.path \in Paths /\ file.id \in AllIds /\ file.text \in Seq(Int)
  BY <1>2
<1>4. IF file.path \in DOMAIN disk THEN file.id = disk[file.path].id
      ELSE file.id = <<"opened", next>> /\ Where(disk, <<"opened", next>>) = {}
  BY <1>1 DEF Saving
<1> HIDE DEF file, item
<1>5. node \in N /\ node.kind = "file" /\ node.id = file.id
  BY <1>3 DEF Nodes, File
<1>6. file.path \in DOMAIN disk => disk[file.path].kind = "file"
  BY DEF CanWrite, file
<1>7. disk \in Trees(N) /\ CanWrite(disk, file.path)
  BY DEF EditTypes, file
<1> HIDE DEF node, N
<1>8. IF file.path \in DOMAIN disk THEN node.id = disk[file.path].id ELSE Where(disk, node.id) = {}
  BY <1>4, <1>5
<1>9. With(disk, file.path, node) \in Trees(N)
  BY <1>3, <1>5, <1>7, <1>8, PathsAny, WriteTree
<1> QED  BY <1>1, <1>3, <1>4, <1>6, <1>9 DEF file, node, N

LEMMA SaveInv ==
    ASSUME EditInv, Save
    PROVE  EditInv'
<1> DEFINE file == loaded[next]
           node == File(file.id, file.text)
<1>0. /\ EditTypes /\ Buffers /\ Saving /\ pc = "save" /\ next <= Len(loaded) /\ CanWrite(disk, file.path)
      /\ disk' = With(disk, file.path, node) /\ next' = next + 1
      /\ UNCHANGED <<pc, steps, undo, aside, loaded, buf, edit, disk0, buf0>>
  BY DEF EditInv, Save, before
<1>1. /\ next \in 1..Len(loaded) /\ file.path \in Paths /\ file.id \in AllIds /\ file.text \in Seq(Int)
      /\ IF file.path \in DOMAIN disk
         THEN file.id = disk[file.path].id /\ disk[file.path].kind = "file"
         ELSE file.id = <<"opened", next>>
  <2>1. <<>> \in Seq(Int)
    OBVIOUS
  <2> QED  BY <1>0, <2>1, Written
<1>2. disk' \in Trees(Nodes(AllIds))
  BY <1>0, <1>1, Written
<1>3. Len(loaded) \in Nat /\ Len(steps) \in Nat
  BY <1>0 DEF EditTypes
<1>4. EditTypes'
  <2>1. next' \in 1..(Len(steps') + Len(loaded') + 1)
    BY <1>0, <1>1, <1>3
  <2> QED  BY <1>0, <1>2, <2>1 DEF EditTypes
<1>5. ASSUME NEW n \in (next + 1)..Len(loaded)
      PROVE  IF loaded[n].path \in DOMAIN disk' THEN loaded[n].id = disk'[loaded[n].path].id
             ELSE loaded[n].id = <<"opened", n>> /\ Where(disk', <<"opened", n>>) = {}
  <2>1. n \in next..Len(loaded) /\ n \in 1..Len(loaded) /\ n # next
    BY <1>1, <1>3
  <2>2. loaded[n].path # file.path
    BY <1>0, <1>1, <2>1 DEF Saving
  <2>3. IF loaded[n].path \in DOMAIN disk THEN loaded[n].id = disk[loaded[n].path].id
        ELSE loaded[n].id = <<"opened", n>> /\ Where(disk, <<"opened", n>>) = {}
    BY <1>0, <2>1 DEF Saving
  <2>4. /\ DOMAIN disk' = DOMAIN disk \cup {file.path} /\ disk'[file.path] = node
        /\ \A q \in DOMAIN disk : q # file.path => disk'[q] = disk[q]
    BY <1>0 DEF With
  <2>5. Where(disk, <<"opened", n>>) = {} => Where(disk', <<"opened", n>>) = {}
    <3> SUFFICES ASSUME Where(disk, <<"opened", n>>) = {},
                        NEW q \in DOMAIN disk', disk'[q].id = <<"opened", n>>, disk'[q].kind = "file"
                 PROVE  FALSE
      BY DEF Where
    <3>1. CASE q = file.path
      <4>1. file.id = <<"opened", n>>
        BY <2>4, <3>1 DEF File
      <4>2. <<"opened", n>> # <<"opened", next>>
        BY <2>1
      <4>3. file.path \in DOMAIN disk /\ disk[file.path].id = <<"opened", n>> /\ disk[file.path].kind = "file"
        BY <1>1, <4>1, <4>2
      <4> QED  BY <4>3 DEF Where
    <3>2. CASE q # file.path
      BY <2>4, <3>2 DEF Where
    <3> QED  BY <3>1, <3>2
  <2> QED  BY <2>2, <2>3, <2>4, <2>5
<1>6. Saving'
  <2>1. next' <= Len(loaded') + 1
    BY <1>0, <1>1, <1>3
  <2> QED  BY <1>0, <1>5, <2>1 DEF Saving
<1>7. Reversible'
  <2>1. next' # 1 /\ pc' = "save"
    BY <1>0, <1>1
  <2> QED  BY <2>1 DEF Reversible
<1>8. Buffers' /\ Planning' /\ Committing' /\ NothingChanged'
  BY <1>0 DEF Buffers, Planning, Committing, NothingChanged
<1> QED  BY <1>4, <1>6, <1>7, <1>8 DEF EditInv

LEMMA SaveFailsInv ==
    ASSUME EditInv, SaveFails
    PROVE  EditInv'
<1> DEFINE file == loaded[next]
           N == Nodes(AllIds)
<1>0. /\ EditTypes /\ Buffers /\ Saving /\ Reversible /\ pc = "save" /\ next <= Len(loaded)
      /\ UNCHANGED <<steps, next, undo, aside, loaded, buf, edit, disk0, buf0>>
  BY DEF EditInv, SaveFails, before
<1>1. PICK d \in {disk, Torn} :
         /\ d = disk \/ (d = Torn /\ CanWrite(disk, file.path))
         /\ IF next = 1
            THEN disk' = Undone(d, undo) /\ IF d = disk THEN TakenBack ELSE TakenBackTorn
            ELSE disk' = Finished(d, aside) /\ pc' = "partly"
  BY DEF SaveFails
<1>2. disk \in Trees(N) /\ undo \in Seq(Undos) /\ aside \in Seq(AnyPath) /\ buf = buf0
  BY <1>0 DEF EditTypes, Buffers
<1>3. d # disk =>
        /\ d = With(disk, file.path, File(file.id, <<>>)) /\ d \in Trees(N)
        /\ IF file.path \in DOMAIN disk
           THEN file.id = disk[file.path].id /\ disk[file.path].kind = "file"
           ELSE file.id = <<"opened", next>>
  <2>1. <<>> \in Seq(Int)
    OBVIOUS
  <2> QED  BY <1>0, <1>1, <2>1, Written DEF Torn
<1>4. d \in Trees(N)
  BY <1>2, <1>3
<1> HIDE DEF N
<1>5. CASE next = 1 /\ d = disk
  <2>1. Undone(disk, undo) \in Trees(N) /\ disk' = Undone(disk, undo) /\ TakenBack
    BY <1>1, <1>2, <1>5, UndoneTree
  <2>2. Over(undo) \/ disk' = disk0
    BY <1>0, <1>5, <2>1 DEF Reversible
  <2>3. disk' \in Trees(Nodes(AllIds))
    BY <2>1 DEF N
  <2> QED  BY <1>0, <1>5, <2>1, <2>2, <2>3, TakenBackInv
<1>6. CASE next = 1 /\ d # disk
  <2>1. Undone(d, undo) \in Trees(N) /\ disk' = Undone(d, undo) /\ pc' = "torn"
    BY <1>1, <1>2, <1>4, <1>6, UndoneTree DEF TakenBackTorn
  <2>2. EditTypes'
    BY <1>0, <2>1 DEF EditTypes, N
  <2>3. Buffers' /\ Planning' /\ Committing' /\ Reversible' /\ Saving'
    BY <1>0, <2>1 DEF Buffers, Planning, Committing, Reversible, Saving
  <2>4. Overran' <=> Over(undo)
    BY <1>0 DEF Overran, Over
  <2>5. ASSUME ~Over(undo), file.id[1] # "opened" PROVE Alike(disk', disk0, file.id)
    <3>1. file.path \in DOMAIN disk /\ file.id = disk[file.path].id /\ disk[file.path].kind = "file"
      <4>1. <<"opened", next>>[1] = "opened"
        OBVIOUS
      <4> QED  BY <1>3, <1>6, <2>5, <4>1
    <3>2. Alike(d, disk, file.id)
      BY <1>3, <1>6, <3>1 DEF Alike, With
    <3>3. Alike(Undone(d, undo), Undone(disk, undo), file.id)
      BY <1>2, <1>4, <3>2, AlikeUndone
    <3>4. Undone(disk, undo) = disk0
      BY <1>0, <1>6, <2>5 DEF Reversible
    <3> QED  BY <2>1, <3>3, <3>4
  <2>6. file = loaded'[1] /\ disk0' = disk0 /\ buf' = buf0'
    BY <1>0, <1>2, <1>6
  <2> HIDE DEF file
  <2>7. NothingChanged'
    BY <2>1, <2>4, <2>5, <2>6 DEF NothingChanged, Alike
  <2> QED  BY <2>2, <2>3, <2>7 DEF EditInv
<1>7. CASE next # 1
  <2>1. disk' \in Trees(N) /\ pc' = "partly"
    BY <1>1, <1>2, <1>4, <1>7, FinishedTree
  <2>2. EditTypes'
    BY <1>0, <2>1 DEF EditTypes, N
  <2>3. Buffers' /\ Planning' /\ Committing' /\ Reversible' /\ Saving' /\ NothingChanged'
    BY <1>0, <2>1 DEF Buffers, Planning, Committing, Reversible, Saving, NothingChanged
  <2> QED  BY <2>2, <2>3 DEF EditInv
<1> QED  BY <1>5, <1>6, <1>7

LEMMA FinishInv ==
    ASSUME EditInv, Finish
    PROVE  EditInv'
<1>0. /\ EditTypes /\ Buffers /\ pc' = "done" /\ disk' = Finished(disk, aside)
      /\ UNCHANGED <<steps, next, undo, aside, loaded, edit, disk0, buf0>>
  BY DEF EditInv, Finish, before
<1>1. disk' \in Trees(Nodes(AllIds))
  BY <1>0, FinishedTree DEF EditTypes
<1>2. EditTypes'
  BY <1>0, <1>1 DEF EditTypes
<1>3. Buffers'
  <2>1. ASSUME NEW b \in Bufs
        PROVE  /\ DOMAIN buf'[b] = {"path", "id", "dirty", "text"} /\ buf'[b].dirty \in BOOLEAN
               /\ buf'[b].path # NoPath => buf'[b].id # NoId
    <3> DEFINE x == buf[b]
               more == Changes(b)
               at(p) == Follow(steps, p)
    <3>1. buf'[b] = [x EXCEPT !.path = IF x.path = NoPath THEN x.path ELSE at(x.path),
                              !.text = x.text \o more, !.dirty = x.dirty \/ more # <<>>]
      BY DEF Finish
    <3>2. /\ DOMAIN x = {"path", "id", "dirty", "text"} /\ x.dirty \in BOOLEAN
          /\ x.path # NoPath => x.id # NoId
      BY <1>0 DEF Buffers
    <3> HIDE DEF x, more, at
    <3>3. /\ DOMAIN buf'[b] = {"path", "id", "dirty", "text"}
          /\ buf'[b].dirty = (x.dirty \/ more # <<>>)
          /\ buf'[b].path = IF x.path = NoPath THEN x.path ELSE at(x.path)
          /\ buf'[b].id = x.id
      BY <3>1, <3>2
    <3> QED  BY <3>2, <3>3
  <2> QED  BY <1>0, <2>1 DEF Buffers
<1>4. Planning' /\ Committing' /\ Reversible' /\ Saving' /\ NothingChanged'
  BY <1>0 DEF Planning, Committing, Reversible, Saving, NothingChanged
<1> QED  BY <1>2, <1>3, <1>4 DEF EditInv

LEMMA StillInv ==
    ASSUME EditInv, UNCHANGED vars
    PROVE  EditInv'
<1> USE DEF vars
<1>1. EditTypes' /\ Buffers' /\ Planning'
  BY DEF EditInv, EditTypes, Buffers, Planning
<1>2. Committing' /\ Saving'
  BY DEF EditInv, Committing, Saving
<1>3. Reversible'
  BY DEF EditInv, Reversible
<1>4. NothingChanged'
  BY DEF EditInv, NothingChanged, Overran
<1> QED  BY <1>1, <1>2, <1>3, <1>4 DEF EditInv

-----------------------------------------------------------------------------
(* Where the steps of a plan take a path.                                   *)

LEMMA FollowStepType ==
    ASSUME NEW p \in Paths, NEW step \in Steps
    PROVE  FollowStep(p, step) \in Paths
<1>1. CASE step.kind # "rename"
  BY <1>1 DEF FollowStep
<1>2. CASE step.kind = "rename"
  <2>1. p \in Seq(Names) /\ p # <<>> /\ step.path \in Seq(Names) /\ step.to \in Seq(Names) /\ step.to # <<>>
    BY <1>2 DEF Steps, Paths
  <2> DEFINE x == Moved(p, step.path, step.to)
  <2>2. x \in Seq(Names)
    BY <2>1, MovedType
  <2>3. x # <<>>
    <3>1. CASE Within(p, step.path)
      <4>1. Within(x, step.to)
        BY <2>1, <3>1, MovedBack
      <4>2. step.to \in AnyPath
        BY <1>2, PathsAny DEF Steps
      <4> QED  BY <2>1, <4>1, <4>2, NothingWithin
    <3>2. CASE ~Within(p, step.path)
      BY <2>1, <3>2 DEF Moved
    <3> QED  BY <3>1, <3>2
  <2>4. x \in Paths
    BY <2>2, <2>3 DEF Paths
  <2> QED  BY <1>2, <2>4 DEF FollowStep
<1> QED  BY <1>1, <1>2

\* at is what Follow computes, from the first step to the last.
IsFollow(at, all, p) == at = [n \in 0..Len(all) |-> IF n = 0 THEN p ELSE FollowStep(at[n - 1], all[n])]

\* What it computes, step by step.
Follows(at, all, p) ==
    /\ Follow(all, p) = at[Len(all)] /\ at[0] = p
    /\ \A n \in 1..Len(all) : at[n] = FollowStep(at[n - 1], all[n]) /\ at[n] \in Paths

LEMMA FollowFacts ==
    ASSUME NEW all \in Seq(Steps), NEW p \in Paths
    PROVE  \E at : Follows(at, all, p)
<1> DEFINE L == Len(all)
           step == [x \in (1..L) \X Paths |-> FollowStep(x[2], all[x[1]])]
           f == CHOOSE g : IsFollow(g, all, p)
<1>0. L \in Nat
  OBVIOUS
<1>1. step \in [(1..L) \X Paths -> Paths]
  <2>1. ASSUME NEW n \in 1..L, NEW r \in Paths PROVE FollowStep(r, all[n]) \in Paths
    BY FollowStepType
  <2> QED  BY <2>1
<1>2. \A n \in 1..L, r \in Paths : step[<<n, r>>] = FollowStep(r, all[n])
  OBVIOUS
<1>3. \E g \in [0..L -> Paths] : IsFollow(g, all, p)
  <2> HIDE DEF step, L
  <2>1. PICK h \in [0..L -> Paths] : MadeFrom(h, L, p, step)
    BY <1>0, <1>1, Recursion, Zenon
  <2>2. ASSUME NEW n \in 0..L PROVE h[n] = IF n = 0 THEN p ELSE FollowStep(h[n - 1], all[n])
    <3>1. CASE n = 0
      BY <2>1, <3>1 DEF MadeFrom
    <3>2. CASE n # 0
      <4>1. n \in 1..L /\ n - 1 \in 0..L
        BY <1>0, <3>2
      <4> QED  BY <1>2, <2>1, <3>2, <4>1 DEF MadeFrom
    <3> QED  BY <3>1, <3>2
  <2>3. h = [n \in 0..L |-> IF n = 0 THEN p ELSE FollowStep(h[n - 1], all[n])]
    BY <2>2
  <2> QED  BY <2>3 DEF IsFollow, L
<1>4. IsFollow(f, all, p) /\ Follow(all, p) = f[L]
  BY <1>3 DEF Follow, IsFollow
<1> HIDE DEF f, step
<1>5. \A n \in 0..L : f[n] = IF n = 0 THEN p ELSE FollowStep(f[n - 1], all[n])
  BY <1>4 DEF IsFollow
<1>6. f[0] = p
  BY <1>0, <1>5
<1>7. ASSUME NEW n \in 1..L PROVE f[n] = FollowStep(f[n - 1], all[n])
  <2>1. n \in 0..L /\ n # 0
    BY <1>0
  <2> QED  BY <1>5, <2>1
<1> DEFINE G == {n \in Nat : n <= L => f[n] \in Paths}
<1>8. 0 \in G
  BY <1>6
<1>9. ASSUME NEW n \in G PROVE n + 1 \in G
  <2> SUFFICES ASSUME n + 1 <= L PROVE f[n + 1] \in Paths
    OBVIOUS
  <2>1. n + 1 \in 1..L /\ (n + 1) - 1 = n /\ n <= L /\ all[n + 1] \in Steps
    BY <1>0
  <2>2. f[n + 1] = FollowStep(f[(n + 1) - 1], all[n + 1]) /\ f[n] \in Paths
    BY <1>7, <2>1
  <2> QED  BY <2>1, <2>2, FollowStepType
<1>10. G = Nat
  <2> HIDE DEF G
  <2>1. G \in SUBSET Nat
    BY DEF G
  <2> QED  BY <1>8, <1>9, <2>1, Induction
<1>11. \A n \in 1..L : f[n] \in Paths
  BY <1>0, <1>10
<1> QED  BY <1>4, <1>6, <1>7, <1>11 DEF Follows

LEMMA FollowType ==
    ASSUME NEW all \in Seq(Steps), NEW p \in Paths
    PROVE  Follow(all, p) \in Paths
<1>1. PICK f : Follows(f, all, p)
  BY FollowFacts
<1>2. Len(all) = 0 \/ Len(all) \in 1..Len(all)
  OBVIOUS
<1> QED  BY <1>1, <1>2 DEF Follows

LEMMA FollowNone ==
    ASSUME NEW p \in Paths
    PROVE  Follow(<<>>, p) = p
<1> DEFINE all == <<>>
<1>1. all \in Seq(Steps) /\ Len(all) = 0
  OBVIOUS
<1> HIDE DEF all
<1>2. PICK f : Follows(f, all, p)
  BY <1>1, FollowFacts
<1> QED  BY <1>1, <1>2 DEF Follows, all

LEMMA FollowLast ==
    ASSUME NEW all \in Seq(Steps), NEW step \in Steps, NEW p \in Paths
    PROVE  Follow(Append(all, step), p) = FollowStep(Follow(all, p), step)
<1> DEFINE more == Append(all, step)
<1>0. Len(all) \in Nat /\ more \in Seq(Steps) /\ Len(more) = Len(all) + 1 /\ more[Len(all) + 1] = step
      /\ \A i \in 1..Len(all) : more[i] = all[i]
  OBVIOUS
<1> HIDE DEF more
<1>1. PICK f : Follows(f, more, p)
  BY <1>0, FollowFacts
<1>2. PICK g : Follows(g, all, p)
  BY FollowFacts
<1> USE DEF Follows
<1> DEFINE G == {n \in Nat : n <= Len(all) => f[n] = g[n]}
<1>3. 0 \in G
  BY <1>1, <1>2
<1>4. ASSUME NEW n \in G PROVE n + 1 \in G
  <2> SUFFICES ASSUME n + 1 <= Len(all) PROVE f[n + 1] = g[n + 1]
    OBVIOUS
  <2>1. n + 1 \in 1..Len(all) /\ n + 1 \in 1..Len(more) /\ (n + 1) - 1 = n /\ n <= Len(all)
    BY <1>0
  <2>2. f[n + 1] = FollowStep(f[(n + 1) - 1], more[n + 1]) /\ g[n + 1] = FollowStep(g[(n + 1) - 1], all[n + 1])
    BY <1>1, <1>2, <2>1
  <2> QED  BY <1>0, <2>1, <2>2
<1>5. G = Nat
  <2> HIDE DEF G
  <2>1. G \in SUBSET Nat
    BY DEF G
  <2> QED  BY <1>3, <1>4, <2>1, Induction
<1>6. f[Len(all)] = g[Len(all)]
  BY <1>0, <1>5
<1>7. Len(more) \in 1..Len(more) /\ Len(more) - 1 = Len(all)
  BY <1>0
<1>8. f[Len(more)] = FollowStep(f[Len(more) - 1], more[Len(more)])
  BY <1>1, <1>7
<1> QED  BY <1>0, <1>1, <1>2, <1>6, <1>7, <1>8 DEF more

-----------------------------------------------------------------------------
(* Where a step takes a file.                                               *)

\* A step that the disk takes, what it makes there and where it puts what it
\* takes away.
Takes(N, d, step, node, away) ==
    /\ d \in Trees(N) /\ step \in Steps /\ CanTake(d, step) /\ away \in AnyPath
    /\ step.kind = "delete" => \A p \in Paths : ~Within(p, away)

\* A file under a name an item may use was where the steps before have it, so
\* it is where the step takes that.
LEMMA PlaceStep ==
    ASSUME NEW N, NEW d, NEW step, NEW node, NEW away, Takes(N, d, step, node, away),
           NEW id, node.id # id, NEW q \in Paths, Where(d, id) \cap Paths \subseteq {q}
    PROVE  Where(After(d, step, node, away), id) \cap Paths \subseteq {FollowStep(q, step)}
<1> DEFINE e == After(d, step, node, away)
<1>0. /\ d \in Disks(N) /\ step \in Steps /\ step.path \in Paths /\ step.path \in AnyPath /\ away \in AnyPath
      /\ step.kind \in {"create", "rename", "delete"}
      /\ (step.kind = "rename" => step.to \in Paths /\ step.to \in AnyPath)
  BY PathsAny DEF Takes, Trees, Steps
<1> SUFFICES ASSUME NEW p \in Paths, p \in DOMAIN e, e[p].id = id, e[p].kind = "file"
             PROVE  p = FollowStep(q, step)
  BY DEF Where
<1>1. p \in AnyPath /\ p \in Seq(Names) /\ \A x \in DOMAIN d : x \in Paths /\ d[x].id = id /\ d[x].kind = "file" => x = q
  BY PathsAny DEF Where, Paths
<1> HIDE DEF e
<1>2. CASE step.kind = "create"
  <2>1. e = With(d, step.path, node)
    BY <1>2 DEF e, After
  <2>2. p \in DOMAIN d /\ e[p] = d[p]
    BY <2>1 DEF With
  <2> QED  BY <1>1, <1>2, <2>2 DEF FollowStep
<1>3. CASE step.kind = "rename"
  <2> DEFINE from == step.path
             to == step.to
  <2>1. e = Renamed(d, from, to) /\ FollowStep(q, step) = Moved(q, from, to)
    BY <1>3 DEF e, After, FollowStep
  <2>2. from \in Seq(Names) /\ to \in Seq(Names) /\ from # <<>>
    BY <1>0, <1>3 DEF Paths
  <2>3. CASE from = to
    <3>1. e = d
      BY <2>1, <2>3 DEF Renamed
    <3>2. Moved(q, from, to) = q
      BY <1>0, <2>3, PathsAny, MovedNowhere DEF AnyPath
    <3> QED  BY <1>1, <2>1, <3>1, <3>2
  <2>4. CASE from # to /\ Within(p, to)
    <3>1. Moved(p, to, from) \in DOMAIN d /\ e[p] = d[Moved(p, to, from)]
      BY <1>0, <1>3, <2>1, <2>4, RenamedFacts
    <3>2. Moved(p, to, from) \in Seq(Names) /\ Within(Moved(p, to, from), from) /\ Moved(Moved(p, to, from), from, to) = p
      BY <1>1, <2>2, <2>4, MovedPoints, MovedBack
    <3>3. Moved(p, to, from) # <<>>
      BY <1>0, <2>2, <3>2, NothingWithin
    <3>4. Moved(p, to, from) = q
      BY <1>1, <3>1, <3>2, <3>3 DEF Paths
    <3> QED  BY <2>1, <3>2, <3>4
  <2>5. CASE from # to /\ ~Within(p, to)
    <3>1. ~Within(p, from) /\ p \in DOMAIN d /\ e[p] = d[p]
      BY <1>0, <1>3, <2>1, <2>5, RenamedFacts
    <3>2. Moved(p, from, to) = p
      BY <3>1 DEF Moved
    <3> QED  BY <1>1, <2>1, <3>1, <3>2
  <2> QED  BY <2>3, <2>4, <2>5
<1>4. CASE step.kind = "delete"
  <2>1. e = Renamed(d, step.path, away) /\ FollowStep(q, step) = q
    BY <1>4 DEF e, After, FollowStep
  <2>2. ~Within(p, away) /\ step.path # away
    <3>1. Within(step.path, step.path)
      BY <1>0, WithinOrder DEF AnyPath
    <3> QED  BY <1>0, <1>4, <3>1 DEF Takes
  <2>3. p \in DOMAIN d /\ e[p] = d[p]
    BY <1>0, <2>1, <2>2, RenamedFacts
  <2> QED  BY <1>1, <2>1, <2>3
<1> QED  BY <1>0, <1>2, <1>3, <1>4

\* A file that the step does not take away is where the step takes its place.
LEMMA PlaceKept ==
    ASSUME NEW N, NEW d, NEW step, NEW node, NEW away, Takes(N, d, step, node, away),
           NEW id, NEW q \in Paths, q \in Where(d, id),
           step.kind = "delete" => ~Within(q, step.path),
           step.kind = "rename" => step.to # q
    PROVE  /\ FollowStep(q, step) \in Where(After(d, step, node, away), id)
           /\ step.kind = "rename" /\ ~Within(q, step.path) => ~Within(q, step.to)
<1> DEFINE e == After(d, step, node, away)
           r == FollowStep(q, step)
<1>0. /\ d \in Disks(N) /\ Tree(d) /\ DOMAIN d \subseteq AnyPath /\ step \in Steps /\ step.path \in AnyPath
      /\ away \in AnyPath /\ step.kind \in {"create", "rename", "delete"}
      /\ (step.kind = "rename" => step.to \in Named)
      /\ q \in AnyPath /\ q \in DOMAIN d /\ d[q].id = id /\ d[q].kind = "file" /\ CanTake(d, step)
  BY PathsAny, DiskType DEF Takes, Trees, Steps, Where
<1>1. ASSUME r \in DOMAIN e, e[r] = d[q] PROVE r \in Where(e, id)
  BY <1>0, <1>1 DEF Where
<1> HIDE DEF e, r
<1>2. CASE step.kind = "create"
  <2>1. e = With(d, step.path, node) /\ r = q /\ q # step.path
    BY <1>0, <1>2 DEF e, r, After, FollowStep, CanTake, CanAdd
  <2>2. r \in DOMAIN e /\ e[r] = d[q]
    BY <1>0, <2>1 DEF With
  <2> QED  BY <1>1, <1>2, <2>2 DEF e, r
<1>3. CASE step.kind = "rename"
  <2> DEFINE from == step.path
             to == step.to
  <2>1. e = Renamed(d, from, to) /\ r = Moved(q, from, to) /\ CanRename(d, from, to)
        /\ to \in AnyPath /\ to # <<>>
    BY <1>0, <1>3 DEF e, r, After, FollowStep, CanTake, Named
  <2>2. ASSUME ~Within(q, from) PROVE ~Within(q, to)
    <3> SUFFICES ASSUME Within(q, to) PROVE FALSE
      OBVIOUS
    <3>1. IsDir(d, to)
      BY <1>0, <1>3, <2>1, TreeClosed
    <3>2. to \in DOMAIN d /\ from # to
      BY <2>1, <2>2, <3>1 DEF IsDir
    <3>3. q = to
      BY <1>0, <2>1, <3>2 DEF CanRename, Empty, Below
    <3> QED  BY <1>3, <3>3
  <2>3. CASE from = to
    <3>1. e = d
      BY <2>1, <2>3 DEF Renamed
    <3>2. Moved(q, from, to) = q
      BY <1>0, <2>3, MovedNowhere DEF AnyPath
    <3>3. r \in Where(e, id)
      BY <1>0, <1>1, <2>1, <3>1, <3>2
    <3> QED  BY <2>2, <3>3 DEF e, r
  <2>4. CASE from # to /\ Within(q, from)
    <3>1. r \in AnyPath /\ Within(r, to) /\ Moved(r, to, from) = q
      BY <1>0, <2>1, <2>4, MovedPoints, MovedBack DEF AnyPath
    <3>2. r \in DOMAIN e /\ e[r] = d[q]
      BY <1>0, <2>1, <2>4, <3>1, RenamedFacts
    <3> QED  BY <1>1, <2>4, <3>2 DEF e, r
  <2>5. CASE from # to /\ ~Within(q, from)
    <3>1. r = q
      BY <2>1, <2>5 DEF Moved
    <3>2. r \in DOMAIN e /\ e[r] = d[q]
      BY <1>0, <2>1, <2>2, <2>5, <3>1, RenamedFacts
    <3> QED  BY <1>1, <2>2, <2>5, <3>2 DEF e, r
  <2> QED  BY <2>3, <2>4, <2>5
<1>4. CASE step.kind = "delete"
  <2>1. e = Renamed(d, step.path, away) /\ r = q /\ ~Within(q, step.path) /\ ~Within(q, away)
    BY <1>4 DEF e, r, After, FollowStep, Takes
  <2>2. step.path # away
    <3>1. Within(step.path, step.path)
      BY <1>0, WithinOrder DEF AnyPath
    <3> QED  BY <1>4, <3>1 DEF Takes, Steps
  <2>3. r \in DOMAIN e /\ e[r] = d[q]
    BY <1>0, <2>1, <2>2, RenamedFacts
  <2> QED  BY <1>1, <1>4, <2>3 DEF e, r
<1> QED  BY <1>0, <1>2, <1>3, <1>4

\* What the plan says of a place it does not take away, it says of where the
\* step takes it.
LEMMA PlaceExists ==
    ASSUME NEW d0, NEW all \in Seq(Steps), NEW step \in Steps, NEW q \in Paths, Exists(d0, all, q),
           step.kind = "delete" => ~Within(q, step.path),
           step.kind = "rename" /\ ~Within(q, step.path) => ~Within(q, step.to)
    PROVE  Exists(d0, Append(all, step), FollowStep(q, step))
<1> DEFINE r == FollowStep(q, step)
<1>0. /\ q \in AnyPath /\ step.kind \in {"create", "rename", "delete"} /\ step.path \in AnyPath
      /\ (step.kind = "rename" => step.to \in AnyPath) /\ r \in AnyPath
  BY PathsAny, FollowStepType DEF Steps
<1>1. Exists(d0, Append(all, step), r) =
         CASE step.kind = "create" -> r = step.path \/ Exists(d0, all, r)
           [] step.kind = "delete" -> ~Within(r, step.path) /\ Exists(d0, all, r)
           [] step.kind = "rename" ->
                IF Within(r, step.to) THEN Exists(d0, all, Moved(r, step.to, step.path))
                ELSE ~Within(r, step.path) /\ Exists(d0, all, r)
  BY <1>0, ExistsLast
<1>2. CASE step.kind # "rename"
  <2>1. r = q
    BY <1>2 DEF FollowStep
  <2> HIDE DEF r
  <2>2. CASE step.kind = "create"
    BY <1>1, <2>1, <2>2 DEF r
  <2>3. CASE step.kind = "delete"
    BY <1>1, <2>1, <2>3 DEF r
  <2> QED  BY <1>0, <1>2, <2>2, <2>3
<1>3. CASE step.kind = "rename" /\ Within(q, step.path)
  <2>1. r = Moved(q, step.path, step.to)
    BY <1>3 DEF FollowStep
  <2>2. Within(r, step.to) /\ Moved(r, step.to, step.path) = q
    BY <1>0, <1>3, <2>1, MovedBack DEF AnyPath
  <2> HIDE DEF r
  <2> QED  BY <1>1, <1>3, <2>2 DEF r
<1>4. CASE step.kind = "rename" /\ ~Within(q, step.path)
  <2>1. r = q
    BY <1>4 DEF FollowStep, Moved
  <2> HIDE DEF r
  <2> QED  BY <1>1, <1>4, <2>1 DEF r
<1> QED  BY <1>2, <1>3, <1>4

-----------------------------------------------------------------------------
(* No plan deletes what has unsaved changes in a buffer.                    *)

\* No delete takes away p, under the name it has by then.
Spares(all, p) ==
    \A j \in 1..Len(all) : all[j].kind = "delete" => ~Within(Follow(SubSeq(all, 1, j - 1), p), all[j].path)

LEMMA SparesLast ==
    ASSUME NEW all \in Seq(Steps), NEW step \in Steps, NEW p \in Paths, Spares(all, p),
           step.kind = "delete" => ~Within(Follow(all, p), step.path)
    PROVE  Spares(Append(all, step), p)
<1> DEFINE more == Append(all, step)
<1>0. Len(all) \in Nat /\ Len(more) = Len(all) + 1 /\ more[Len(all) + 1] = step
      /\ \A i \in 1..Len(all) : more[i] = all[i]
  OBVIOUS
<1>1. /\ SubSeq(more, 1, Len(all)) = all
      /\ \A j \in 1..Len(all) : SubSeq(more, 1, j - 1) = SubSeq(all, 1, j - 1)
  BY FrontSame
<1> HIDE DEF more
<1>2. ASSUME NEW j \in 1..Len(more), more[j].kind = "delete"
      PROVE  ~Within(Follow(SubSeq(more, 1, j - 1), p), more[j].path)
  <2>1. CASE j \in 1..Len(all)
    BY <1>0, <1>1, <1>2, <2>1 DEF Spares
  <2>2. CASE j = Len(all) + 1
    <3>1. j - 1 = Len(all)
      BY <1>0, <2>2
    <3> QED  BY <1>0, <1>1, <1>2, <2>2, <3>1
  <2> QED  BY <1>0, <2>1, <2>2
<1> QED  BY <1>2 DEF Spares, more

\* The plans that keep what is at Q when they begin and know where it goes.
Now(all, Q) == {Follow(all, p) : p \in Q}
SparingPlans(Q) ==
    {r \in [refused : BOOLEAN, steps : Seq(Steps), unsaved : SUBSET AnyPath] :
        r.unsaved = Now(r.steps, Q) /\ \A p \in Q : Spares(r.steps, p)}

\* A plan with one step more.
Longer(r, step) == [r EXCEPT !.steps = Append(@, step), !.unsaved = {FollowStep(p, step) : p \in @}]

LEMMA LongerSpares ==
    ASSUME NEW Q \in SUBSET Paths, NEW r \in SparingPlans(Q), NEW step \in Steps,
           step.kind = "delete" => ~Unsaved(r, step.path)
    PROVE  /\ Longer(r, step) \in SparingPlans(Q)
           /\ step.kind # "rename" => Adding(r, <<step>>) = Longer(r, step)
           /\ step.kind = "rename" =>
                \A q : q = Adding(r, <<step>>) =>
                    /\ q.steps = Append(r.steps, step)
                    /\ \A item : item.path = step.path /\ item.to = step.to =>
                          [q EXCEPT !.unsaved = UnsavedAfter(r, item)] = Longer(r, step)
<1> DEFINE all == r.steps
           more == Append(all, step)
           open == {FollowStep(p, step) : p \in r.unsaved}
<1>1. /\ r \in [refused : BOOLEAN, steps : Seq(Steps), unsaved : SUBSET AnyPath]
      /\ r.unsaved = Now(all, Q) /\ (\A p \in Q : Spares(all, p)) /\ all \in Seq(Steps)
  BY DEF SparingPlans
<1>2. more \in Seq(Steps) /\ all \o <<step>> = more
  BY <1>1, AppendFacts
<1>3. Longer(r, step) = [r EXCEPT !.steps = more, !.unsaved = open]
  BY <1>1 DEF Longer
<1>4. open = Now(more, Q) /\ open \in SUBSET AnyPath
  <2>1. \A p \in Q : Follow(more, p) = FollowStep(Follow(all, p), step)
    BY <1>1, FollowLast
  <2>2. \A p \in Q : Follow(more, p) \in AnyPath
    BY <1>2, FollowType, PathsAny
  <2> HIDE DEF more, all
  <2>3. open = Now(more, Q)
    BY <1>1, <2>1 DEF Now
  <2> QED  BY <2>2, <2>3 DEF Now
<1>5. \A p \in Q : Spares(more, p)
  <2>1. ASSUME NEW p \in Q, step.kind = "delete" PROVE ~Within(Follow(all, p), step.path)
    BY <1>1, <2>1 DEF Unsaved, Now
  <2> QED  BY <1>1, <2>1, SparesLast
<1> HIDE DEF all, more, open
<1>6. Longer(r, step) \in SparingPlans(Q)
  BY <1>1, <1>2, <1>3, <1>4, <1>5 DEF SparingPlans
<1>7. Adding(r, <<step>>) = [r EXCEPT !.steps = more]
  BY <1>2 DEF Adding, all
<1>8. ASSUME step.kind # "rename" PROVE Adding(r, <<step>>) = Longer(r, step)
  <2>1. open = r.unsaved
    BY <1>8 DEF open, FollowStep
  <2> QED  BY <1>1, <1>3, <1>7, <2>1
<1>9. ASSUME step.kind = "rename", NEW item, item.path = step.path, item.to = step.to
      PROVE  UnsavedAfter(r, item) = open
  BY <1>9 DEF UnsavedAfter, open, FollowStep
<1>10. [r EXCEPT !.steps = more].steps = Append(r.steps, step)
  BY <1>1 DEF all, more
<1>11. \A x : [[r EXCEPT !.steps = more] EXCEPT !.unsaved = x] = [r EXCEPT !.steps = more, !.unsaved = x]
  OBVIOUS
<1> QED  BY <1>3, <1>6, <1>7, <1>8, <1>9, <1>10, <1>11

\* What Making adds to: the plan, or the plan with what was there deleted.
LEMMA MakingCases ==
    ASSUME NEW Q \in SUBSET Paths, NEW r \in SparingPlans(Q), NEW item \in Items,
           item.kind \in {"create", "rename"}, NEW target \in Paths, NEW position \in Nat, NEW step \in Steps
    PROVE  LET made == Making(r, item, target, position, <<step>>)
           IN \/ made = r \/ made = Refuse(r)
              \/ \E x \in SparingPlans(Q) :
                   /\ made = Adding(x, <<step>>) /\ x.unsaved = r.unsaved
                   /\ Len(x.steps) >= Len(r.steps)
<1> DEFINE there == Exists(disk, r.steps, target)
           away == Step("delete", target, <<>>, position)
           made == Making(r, item, target, position, <<step>>)
           x == Adding(r, <<away>>)
<1>0. item.overwrite \in BOOLEAN /\ item.ignore \in BOOLEAN
  BY BoundsAssumption
<1>1. away \in Steps /\ away.kind = "delete" /\ away.path = target
  BY DEF Steps, Step
<1>2. r.steps \in Seq(Steps) /\ DOMAIN r = {"refused", "steps", "unsaved"}
  BY DEF SparingPlans
<1>3. CASE ~there
  <2>1. made = Adding(r, <<step>>)
    BY <1>3 DEF Making
  <2>2. Len(r.steps) >= Len(r.steps)
    BY <1>2
  <2> HIDE DEF made
  <2> QED  BY <2>1, <2>2 DEF made
<1>4. CASE there /\ item.overwrite /\ ~Unsaved(r, target)
  <2>1. made = Adding(r, <<away>> \o <<step>>)
    BY <1>4 DEF Making
  <2> HIDE DEF away, made
  <2>2. x = Longer(r, away) /\ x \in SparingPlans(Q)
    BY <1>1, <1>4, LongerSpares
  <2>3. <<away>> \in Seq(Steps) /\ <<step>> \in Seq(Steps)
    BY <1>1
  <2>4. (r.steps \o <<away>>) \o <<step>> = r.steps \o (<<away>> \o <<step>>)
    BY <1>2, <2>3, ConcatFacts
  <2>5. Adding(x, <<step>>) = Adding(r, <<away>> \o <<step>>)
    BY <1>2, <2>4 DEF Adding
  <2>6. x.unsaved = r.unsaved /\ x.steps = r.steps \o <<away>>
    BY <1>2 DEF Adding
  <2>7. Len(x.steps) >= Len(r.steps)
    BY <1>1, <1>2, <2>6, AppendFacts
  <2> HIDE DEF x
  <2> QED  BY <2>1, <2>2, <2>5, <2>6, <2>7 DEF made
<1>5. CASE there /\ item.overwrite /\ Unsaved(r, target)
  BY <1>5 DEF Making
<1>6. CASE there /\ ~item.overwrite /\ item.ignore
  BY <1>6 DEF Making
<1>7. CASE there /\ ~item.overwrite /\ ~item.ignore
  BY <1>7 DEF Making
<1> QED  BY <1>0, <1>3, <1>4, <1>5, <1>6, <1>7

LEMMA RefuseSpares ==
    ASSUME NEW Q, NEW r \in SparingPlans(Q)
    PROVE  Refuse(r) \in SparingPlans(Q)
BY DEF SparingPlans, Refuse

LEMMA PlanItemSpares ==
    ASSUME NEW Q \in SUBSET Paths, NEW r \in SparingPlans(Q), NEW i \in 1..Len(edit), edit \in Seq(Items)
    PROVE  PlanItem(r, i) \in SparingPlans(Q)
<1> DEFINE item == edit[i]
           n == Position(i)
<1>0. item \in Items /\ i \in Nat
  OBVIOUS
<1>1. n \in Nat /\ Refuse(r) \in SparingPlans(Q)
  BY <1>0, PositionType, RefuseSpares
<1> HIDE DEF item, n
<1>2. item.kind \in {"create", "rename", "delete", "text"} /\ item.path \in Paths
      /\ (item.kind = "rename" => item.to \in Paths)
      /\ (item.kind = "delete" => item.ignore \in BOOLEAN /\ item.recursive \in BOOLEAN)
  BY <1>0, BoundsAssumption
<1>3. CASE item.kind = "create"
  <2> DEFINE make == Step("create", item.path, <<>>, n)
             q == Making(r, item, item.path, n, <<make>>)
  <2>1. make \in Steps /\ make.kind = "create"
    BY <1>1, <1>2 DEF Step, Steps
  <2>2. q = PlanCreate(r, item, n)
    BY DEF PlanCreate
  <2> HIDE DEF make
  <2>3. \/ q = r \/ q = Refuse(r)
        \/ \E x \in SparingPlans(Q) : q = Adding(x, <<make>>) /\ x.unsaved = r.unsaved /\ Len(x.steps) >= Len(r.steps)
    BY <1>0, <1>1, <1>2, <1>3, <2>1, MakingCases
  <2> HIDE DEF q
  <2>4. q \in SparingPlans(Q)
    BY <1>1, <2>1, <2>3, LongerSpares
  <2> QED  BY <1>3, <2>2, <2>4 DEF PlanItem, item, n
<1>4. CASE item.kind = "rename"
  <2> DEFINE move == Step("rename", item.path, item.to, n)
             q == Making(r, item, item.to, n, <<move>>)
  <2>1. move \in Steps /\ move.kind = "rename" /\ move.path = item.path /\ move.to = item.to
    BY <1>1, <1>2, <1>4 DEF Step, Steps
  <2>2. PlanRename(r, item, n) = IF ~Exists(disk, r.steps, item.path) THEN Refuse(r)
                                 ELSE IF q.steps = r.steps THEN q
                                 ELSE [q EXCEPT !.unsaved = UnsavedAfter(r, item)]
    BY Zenon DEF PlanRename
  <2> HIDE DEF move
  <2>3. \/ q = r \/ q = Refuse(r)
        \/ \E x \in SparingPlans(Q) : q = Adding(x, <<move>>) /\ x.unsaved = r.unsaved /\ Len(x.steps) >= Len(r.steps)
    BY <1>0, <1>1, <1>2, <1>4, <2>1, MakingCases
  <2> HIDE DEF q
  <2>4. ASSUME q = r \/ q = Refuse(r) PROVE q.steps = r.steps /\ q \in SparingPlans(Q)
    <3>1. Refuse(r).steps = r.steps
      BY DEF Refuse, SparingPlans
    <3> QED  BY <1>1, <2>4, <3>1
  <2>5. ASSUME NEW x \in SparingPlans(Q), q = Adding(x, <<move>>), x.unsaved = r.unsaved, Len(x.steps) >= Len(r.steps)
        PROVE  q.steps # r.steps /\ [q EXCEPT !.unsaved = UnsavedAfter(r, item)] \in SparingPlans(Q)
    <3>1. /\ Longer(x, move) \in SparingPlans(Q) /\ q.steps = Append(x.steps, move)
          /\ [q EXCEPT !.unsaved = UnsavedAfter(x, item)] = Longer(x, move)
      BY <2>1, <2>5, LongerSpares
    <3>2. UnsavedAfter(x, item) = UnsavedAfter(r, item)
      BY <2>5 DEF UnsavedAfter
    <3>3. x.steps \in Seq(Steps) /\ r.steps \in Seq(Steps)
      BY DEF SparingPlans
    <3>4. q.steps # r.steps
      <4>1. Len(q.steps) = Len(x.steps) + 1 /\ Len(x.steps) \in Nat /\ Len(r.steps) \in Nat
        BY <2>1, <3>1, <3>3, AppendFacts
      <4> QED  BY <2>5, <4>1
    <3> QED  BY <3>1, <3>2, <3>4
  <2>6. PlanRename(r, item, n) \in SparingPlans(Q)
    BY <1>1, <2>2, <2>3, <2>4, <2>5
  <2> QED  BY <1>4, <2>6 DEF PlanItem, item, n
<1>5. CASE item.kind = "delete"
  <2> DEFINE away == Step("delete", item.path, <<>>, n)
             there == Exists(disk, r.steps, item.path)
             full == ~item.recursive /\ DirectoryWithFiles(disk, r.steps, item.path)
             q == PlanDelete(r, item, n)
  <2>1. away \in Steps /\ away.kind = "delete" /\ away.path = item.path
    BY <1>1, <1>2 DEF Step, Steps
  <2>2. ASSUME there /\ ~full /\ ~Unsaved(r, item.path) PROVE q \in SparingPlans(Q)
    <3>1. q = Adding(r, <<away>>)
      BY <2>2 DEF PlanDelete
    <3> HIDE DEF away, q
    <3> QED  BY <2>1, <2>2, <3>1, LongerSpares
  <2>3. ASSUME ~there /\ item.ignore PROVE q \in SparingPlans(Q)
    BY <2>3 DEF PlanDelete
  <2>4. ASSUME (~there /\ ~item.ignore) \/ (there /\ (full \/ Unsaved(r, item.path))) PROVE q \in SparingPlans(Q)
    BY <1>1, <2>4 DEF PlanDelete
  <2> HIDE DEF q
  <2>5. q \in SparingPlans(Q)
    BY <1>2, <1>5, <2>2, <2>3, <2>4
  <2> QED  BY <1>5, <2>5 DEF PlanItem, q, item, n
<1>6. CASE item.kind = "text"
  BY <1>6 DEF PlanItem, item
<1> QED  BY <1>2, <1>3, <1>4, <1>5, <1>6

\* Where the buffers with unsaved changes have their files.
OpenUnsaved == {buf[b].path : b \in {c \in Bufs : buf[c].dirty}}

LEMMA PlanSpares ==
    ASSUME edit \in Seq(Items), OpenUnsaved \subseteq Paths
    PROVE  \A p \in OpenUnsaved : Spares(Plan.steps, p)
<1> DEFINE Q == OpenUnsaved
<1>1. Nothing \in SparingPlans(Q)
  <2> DEFINE none == <<>>
  <2>1. none \in Seq(Steps) /\ 1..Len(none) = {}
    OBVIOUS
  <2>2. \A p \in Q : Follow(none, p) = p
    BY FollowNone
  <2>3. Nothing = [refused |-> FALSE, steps |-> none, unsaved |-> Q]
    BY DEF Nothing, OpenUnsaved
  <2> HIDE DEF none, Q
  <2>4. Now(none, Q) = Q /\ \A p \in Q : Spares(none, p)
    BY <2>1, <2>2 DEF Now, Spares
  <2>5. Q \in SUBSET AnyPath
    BY PathsAny DEF Q
  <2> QED  BY <2>1, <2>3, <2>4, <2>5 DEF SparingPlans
<1>2. \A r \in SparingPlans(Q), i \in 1..Len(edit) : PlanItem(r, i) \in SparingPlans(Q)
  BY PlanItemSpares
<1> HIDE DEF Q
<1>3. Plan \in SparingPlans(Q)
  BY <1>1, <1>2, PlanInduction
<1> QED  BY <1>3 DEF SparingPlans, Q

-----------------------------------------------------------------------------
(* Where what was set aside goes.                                           *)

LEMMA NoNumber ==
    ASSUME NEW p \in Paths, NEW k \in Nat
    PROVE  k \notin Range(p)
<1>1. p \in Seq(Names) /\ DOMAIN p = 1..Len(p) /\ \A i \in 1..Len(p) : p[i] \in Names
  BY DEF Paths
<1>2. k \notin Names
  BY BoundsAssumption
<1> QED  BY <1>1, <1>2 DEF Range

LEMMA RangeMoved ==
    ASSUME NEW S, NEW p \in Seq(S), NEW from \in Seq(S), NEW to \in Seq(S), Within(p, to),
           NEW k, k \in Range(p), k \notin Range(to)
    PROVE  k \in Range(Moved(p, to, from))
<1> DEFINE q == Moved(p, to, from)
<1>1. q \in Seq(S) /\ Joined(q, p, to, from)
  BY MovedPoints
<1>2. /\ Len(p) \in Nat /\ Len(from) \in Nat /\ Len(to) \in Nat /\ Len(to) <= Len(p)
      /\ \A i \in 1..Len(to) : p[i] = to[i]
  BY WithinPoints
<1>3. DOMAIN p = 1..Len(p) /\ DOMAIN to = 1..Len(to) /\ DOMAIN q = 1..Len(q)
  BY <1>1
<1> HIDE DEF q
<1>4. PICK i \in 1..Len(p) : p[i] = k
  BY <1>3 DEF Range
<1>5. ~(i <= Len(to))
  BY <1>2, <1>3, <1>4 DEF Range
<1> DEFINE j == i - Len(to) + Len(from)
<1>6. /\ j \in (Len(from) + 1)..(Len(from) + Len(p) - Len(to)) /\ j - Len(from) + Len(to) = i
      /\ j \in 1..Len(q)
  BY <1>1, <1>2, <1>5 DEF Joined
<1>7. q[j] = p[j - Len(from) + Len(to)]
  BY <1>1, <1>6 DEF Joined
<1> QED  BY <1>3, <1>4, <1>6, <1>7 DEF Range, q

\* Of two directories around p, the one a user names is around the other.
LEMMA InsideNamed ==
    ASSUME NEW p \in AnyPath, NEW g \in Named, NEW R \in Paths, ~Within(R, g), Within(p, g), Within(p, R)
    PROVE  Within(Parent(g), R)
<1>1. g \in AnyPath /\ R \in AnyPath /\ g # <<>>
  BY PathsAny DEF Named
<1>2. Within(g, R)
  BY <1>1, WithinOrder DEF AnyPath
<1>3. R # g
  BY <1>1, WithinOrder DEF AnyPath
<1> QED  BY <1>1, <1>2, <1>3, ParentFacts DEF AnyPath

\* Whatever is under an aside name, of gone or made of it, is in along or still
\* in a directory that was put aside where the name was.
Traced(d, gone, along) ==
    \A p \in DOMAIN d, k \in 1..Len(gone) : k \in Range(p) =>
        \/ k \in along
        \/ \E g \in Range(gone) : Within(p, g) /\ Within(gone[k], Parent(g))

AsideNames(gone) == gone \in Seq(Named) /\ \A g \in Range(gone) : \A q \in Paths : ~Within(q, g)

LEMMA AsideNamed ==
    ASSUME NEW gone, AsideNames(gone)
    PROVE  /\ Len(gone) \in Nat /\ DOMAIN gone = 1..Len(gone)
           /\ \A g \in Range(gone) : g \in Named /\ g \in AnyPath /\ Parent(g) \in AnyPath
           /\ \A k \in 1..Len(gone) : gone[k] \in Range(gone)
<1>1. gone \in Seq(Named) /\ Len(gone) \in Nat /\ DOMAIN gone = 1..Len(gone)
  BY DEF AsideNames
<1>2. \A k \in 1..Len(gone) : gone[k] \in Named
  BY <1>1
<1>3. \A g \in Range(gone) : g \in Named
  BY <1>1, <1>2 DEF Range
<1>4. \A g \in Named : g \in AnyPath /\ Parent(g) \in AnyPath
  BY ParentFacts DEF Named, AnyPath
<1> QED  BY <1>1, <1>3, <1>4 DEF Range

LEMMA TracedStep ==
    ASSUME NEW N, NEW d, NEW step, NEW node, NEW away, Takes(N, d, step, node, away),
           NEW gone, AsideNames(gone), DOMAIN d \subseteq Known(Len(gone)),
           step.kind = "delete" => away = Append(Parent(step.path), Len(gone) + 1),
           NEW along, NEW further, along \subseteq further, Traced(d, gone, along),
           step.kind = "rename" => \A k \in 1..Len(gone) : Within(gone[k], step.path) => k \in further
    PROVE  Traced(After(d, step, node, away),
                  IF step.kind = "delete" THEN Append(gone, away) ELSE gone, further)
<1> DEFINE e == After(d, step, node, away)
           more == IF step.kind = "delete" THEN Append(gone, away) ELSE gone
           n == Len(gone)
<1>0. /\ d \in Disks(N) /\ DOMAIN d \subseteq AnyPath /\ step.path \in Paths /\ step.path \in AnyPath
      /\ away \in AnyPath /\ step.kind \in {"create", "rename", "delete"}
      /\ (step.kind = "rename" => step.to \in Paths /\ step.to \in AnyPath)
  BY PathsAny, DiskType DEF Takes, Trees, Steps
<1>1. /\ n \in Nat /\ DOMAIN gone = 1..n
      /\ \A g \in Range(gone) : g \in Named /\ g \in AnyPath /\ Parent(g) \in AnyPath
      /\ \A k \in 1..n : gone[k] \in Range(gone)
  BY AsideNamed
\* What was traced so is, in a directory R that a user names, in there itself.
<1>2. ASSUME NEW p \in DOMAIN d, NEW k \in 1..n, k \in Range(p), k \notin along, NEW R \in Paths, Within(p, R)
      PROVE  Within(gone[k], R)
  <2>1. PICK g \in Range(gone) : Within(p, g) /\ Within(gone[k], Parent(g))
    BY <1>2 DEF Traced
  <2>2. p \in AnyPath /\ R \in AnyPath /\ gone[k] \in AnyPath /\ Parent(g) \in AnyPath /\ g \in Named
    BY <1>0, <1>1, <1>2, PathsAny
  <2>3. ~Within(R, g)
    BY DEF AsideNames
  <2>4. Within(Parent(g), R)
    BY <1>2, <2>1, <2>2, <2>3, InsideNamed
  <2> QED  BY <2>1, <2>2, <2>4, WithinOrder DEF AnyPath
<1> SUFFICES ASSUME NEW p \in DOMAIN e, NEW k \in 1..Len(more), k \in Range(p), k \notin further
             PROVE  \E g \in Range(more) : Within(p, g) /\ Within(more[k], Parent(g))
  BY DEF Traced
<1> HIDE DEF e, more
<1>3. k \notin along /\ k \in Nat
  OBVIOUS
<1>4. CASE step.kind = "create"
  <2>1. more = gone /\ e = With(d, step.path, node)
    BY <1>4 DEF more, e, After
  <2>2. p # step.path
    BY <1>0, <1>3, NoNumber
  <2>3. p \in DOMAIN d
    BY <2>1, <2>2 DEF With
  <2> QED  BY <1>3, <2>1, <2>3 DEF Traced
<1>5. CASE step.kind = "rename"
  <2> DEFINE from == step.path
             to == step.to
  <2>1. more = gone /\ e = Renamed(d, from, to)
    BY <1>5 DEF more, e, After
  <2>2. ASSUME p \in DOMAIN d PROVE \E g \in Range(more) : Within(p, g) /\ Within(more[k], Parent(g))
    BY <1>3, <2>1, <2>2 DEF Traced
  <2>3. CASE from = to
    BY <2>1, <2>2, <2>3 DEF Renamed
  <2>4. CASE from # to /\ ~Within(p, to)
    <3>1. p \in DOMAIN d
      BY <1>0, <1>5, <2>1, <2>4, RenamedFacts
    <3> QED  BY <2>2, <3>1
  <2>5. CASE from # to /\ Within(p, to)
    <3> DEFINE x == Moved(p, to, from)
    <3>1. p \in AnyPath /\ x \in DOMAIN d
      BY <1>0, <1>5, <2>1, <2>5, RenamedFacts
    <3>2. Within(x, from) /\ k \in Range(x)
      <4>1. k \notin Range(to)
        BY <1>0, <1>3, <1>5, NoNumber
      <4> QED  BY <1>0, <1>5, <2>5, <3>1, <4>1, MovedBack, RangeMoved DEF AnyPath
    <3> HIDE DEF x
    <3>3. Within(gone[k], from)
      BY <1>0, <1>2, <1>3, <2>1, <3>1, <3>2
    <3> QED  BY <1>5, <2>1, <3>3
  <2> QED  BY <2>3, <2>4, <2>5
<1>6. CASE step.kind = "delete"
  <2> DEFINE at == step.path
  <2>1. /\ more = Append(gone, away) /\ e = Renamed(d, at, away) /\ away = Append(Parent(at), n + 1)
        /\ \A q \in Paths : ~Within(q, away)
    BY <1>6 DEF more, e, After, Takes
  <2>2. /\ away \in Named /\ Parent(away) = Parent(at) /\ away \notin Known(n)
    BY <1>0, <1>1, <2>1, AwayFacts
  <2>3. /\ Len(more) = n + 1 /\ more[n + 1] = away /\ \A i \in 1..n : more[i] = gone[i]
        /\ DOMAIN more = 1..(n + 1) /\ away \in Range(more) /\ Range(gone) \subseteq Range(more)
    <3>1. gone \in Seq(Named)
      BY DEF AsideNames
    <3>2. /\ Len(more) = n + 1 /\ more[n + 1] = away /\ (\A i \in 1..n : more[i] = gone[i]) /\ more \in Seq(Named)
      BY <2>1, <2>2, <3>1, AppendFacts
    <3>3. DOMAIN more = 1..(n + 1)
      BY <3>2
    <3>4. away \in Range(more)
      <4>1. n + 1 \in DOMAIN more
        BY <1>1, <3>3
      <4> QED  BY <3>2, <4>1 DEF Range
    <3>5. ASSUME NEW g \in Range(gone) PROVE g \in Range(more)
      <4>1. PICK i \in 1..n : gone[i] = g
        BY <1>1 DEF Range
      <4>2. i \in DOMAIN more /\ more[i] = g
        BY <1>1, <3>2, <3>3, <4>1
      <4> QED  BY <4>2 DEF Range
    <3> QED  BY <3>2, <3>3, <3>4, <3>5
  <2>4. at # away
    <3>1. Within(at, at)
      BY <1>0, WithinOrder DEF AnyPath
    <3> QED  BY <1>0, <2>1, <3>1
  <2>5. Within(away, Parent(away)) /\ Within(at, Parent(away)) /\ Parent(at) \in AnyPath /\ away \in AnyPath
    <3>1. at # <<>>
      BY <1>0 DEF Paths
    <3> QED  BY <1>0, <2>2, <3>1, ParentFacts DEF AnyPath, Named
  <2>9. /\ p \in AnyPath /\ (Within(p, away) => Moved(p, away, at) \in DOMAIN d)
        /\ ~Within(p, away) => p \in DOMAIN d
    <3>1. p \in DOMAIN Renamed(d, at, away)
      BY <2>1
    <3> HIDE DEF at
    <3>2. at \in AnyPath /\ away \in AnyPath /\ at # away /\ d \in Disks(N)
      BY <1>0, <2>4 DEF at
    <3> QED  BY <3>1, <3>2, RenamedFacts
  <2>6. CASE ~Within(p, away)
    <3>1. p \in DOMAIN d
      BY <2>6, <2>9
    <3>2. p \in Seq(Names \cup 1..n)
      BY <3>1 DEF Known
    <3>3. k # n + 1
      <4>1. DOMAIN p = 1..Len(p) /\ \A i \in 1..Len(p) : p[i] \in Names \cup 1..n
        BY <3>2
      <4>2. k \in Names \cup 1..n
        BY <4>1 DEF Range
      <4>3. k \notin Names
        BY <1>3, BoundsAssumption
      <4> QED  BY <1>1, <4>2, <4>3
    <3>4. k \in 1..n
      BY <1>1, <2>3, <3>3
    <3>5. PICK g \in Range(gone) : Within(p, g) /\ Within(gone[k], Parent(g))
      BY <1>3, <3>1, <3>4 DEF Traced
    <3> QED  BY <2>3, <3>4, <3>5
  <2>7. CASE Within(p, away) /\ k = n + 1
    BY <2>3, <2>5, <2>7
  <2>8. CASE Within(p, away) /\ k # n + 1
    <3> DEFINE x == Moved(p, away, at)
    <3>1. p \in AnyPath /\ x \in DOMAIN d
      BY <2>8, <2>9
    <3>2. k \in 1..n
      BY <1>1, <2>3, <2>8
    <3>3. Within(x, at) /\ k \in Range(x)
      <4>1. k \notin Range(away)
        <5>1. at \in Seq(Names) /\ at # <<>>
          BY <1>0 DEF Paths
        <5>2. Parent(at) \in Seq(Names)
          BY <5>1, ParentFacts
        <5>3. DOMAIN away = 1..(Len(Parent(at)) + 1) /\ Len(Parent(at)) \in Nat
              /\ away[Len(Parent(at)) + 1] = n + 1 /\ \A i \in 1..Len(Parent(at)) : away[i] \in Names
          BY <2>1, <5>2
        <5>4. k \notin Names
          BY <1>3, BoundsAssumption
        <5>5. \A i \in DOMAIN away : i \in 1..Len(Parent(at)) \/ i = Len(Parent(at)) + 1
          BY <5>3
        <5>6. \A i \in DOMAIN away : away[i] # k
          BY <2>8, <5>3, <5>4, <5>5
        <5> QED  BY <5>6 DEF Range
      <4> QED  BY <1>0, <2>5, <2>8, <3>1, <4>1, MovedBack, RangeMoved DEF AnyPath
    <3> HIDE DEF x
    <3>4. Within(gone[k], at)
      BY <1>0, <1>2, <1>3, <3>1, <3>2, <3>3
    <3>5. Within(gone[k], Parent(away))
      <4>1. gone[k] \in AnyPath
        BY <1>1, <3>2
      <4> QED  BY <1>0, <2>2, <2>5, <3>4, <4>1, WithinOrder DEF AnyPath
    <3> QED  BY <2>3, <2>8, <3>2, <3>5
  <2> QED  BY <2>6, <2>7, <2>8
<1> QED  BY <1>0, <1>4, <1>5, <1>6

\* A later rename took g along, as TakenAlong has it of undo and aside.
TakenBy(u, gone, g) ==
    \E m, n \in DOMAIN u :
        /\ m < n /\ u[m].path = g
        /\ u[n].kind = "rename" /\ u[n].path \notin Range(gone) /\ Within(g, u[n].to)

LEMMA TakenByStays ==
    ASSUME NEW u, NEW more, NEW gone, NEW longer, DOMAIN u \subseteq DOMAIN more,
           \A i \in DOMAIN u : more[i] = u[i] /\ (u[i].path \in Range(longer) => u[i].path \in Range(gone)),
           NEW g, TakenBy(u, gone, g)
    PROVE  TakenBy(more, longer, g)
<1>1. PICK m \in DOMAIN u, n \in DOMAIN u :
         /\ m < n /\ u[m].path = g
         /\ u[n].kind = "rename" /\ u[n].path \notin Range(gone) /\ Within(g, u[n].to)
  BY DEF TakenBy
<1>2. m \in DOMAIN more /\ n \in DOMAIN more /\ more[m] = u[m] /\ more[n] = u[n] /\ u[n].path \notin Range(longer)
  BY <1>1
<1> QED  BY <1>1, <1>2 DEF TakenBy

-----------------------------------------------------------------------------
(* The files of the open buffers, and what was set aside.                   *)

Working == pc \in {"commit", "save"}

\* A buffer with a path shows the file there; the others have no file.
Opening ==
    \A b \in Bufs :
        IF buf0[b].path = NoPath THEN buf0[b].id = NoId /\ buf0[b].dirty = FALSE
        ELSE buf0[b].path \in Paths /\ buf0[b].path \in Where(disk0, buf0[b].id)

\* The plan deletes nothing that has unsaved changes.
Sparing == pc = "commit" => \A b \in Bufs : buf0[b].dirty => Spares(steps, buf0[b].path)

\* The steps taken, and where they take a buffer's file.
Reached == IF pc = "commit" THEN SubSeq(steps, 1, next - 1) ELSE steps
Place(b) == Follow(Reached, buf0[b].path)

\* The file is nowhere else under a name a user gives, and it is there if there
\* are unsaved changes to it.
Placed ==
    Working =>
        \A b \in Bufs : buf0[b].path # NoPath =>
            /\ Where(disk, buf0[b].id) \cap Paths \subseteq {Place(b)}
            /\ buf0[b].dirty =>
                 /\ Place(b) \in Where(disk, buf0[b].id)
                 /\ pc = "commit" => Exists(disk0, Reached, Place(b))

\* What undo and aside remember leads to all that was set aside.
AlongNow == {k \in 1..Len(aside) : TakenBy(undo, aside, aside[k])}
SetAside ==
    Working =>
        /\ AsideNames(aside) /\ \A n \in 1..Len(undo) : undo[n].path \in Paths \cup Range(aside)
        /\ \A k \in 1..Len(aside) : \E m \in 1..Len(undo) : undo[m].path = aside[k]
        /\ Traced(disk, aside, AlongNow)

OpenInv ==
    /\ Opening /\ Sparing /\ Placed /\ SetAside
    /\ UnsavedKept /\ BuffersFollow /\ DeletedForGood

LEMMA TakenAlongBy == \A g : TakenAlong(g) <=> TakenBy(undo, aside, g)
BY DEF TakenAlong, TakenBy

LEMMA OldFile ==
    ASSUME EditTypes, Opening, NEW b \in Bufs, buf0[b].path # NoPath
    PROVE  buf0[b].path \in Paths /\ buf0[b].id \in OldIds /\ Where(disk0, buf0[b].id) = {buf0[b].path}
<1>1. buf0[b].path \in Paths /\ buf0[b].path \in DOMAIN disk0
      /\ disk0[buf0[b].path].id = buf0[b].id /\ disk0[buf0[b].path].kind = "file"
  BY DEF Opening, Where
<1>2. disk0[buf0[b].path] \in Nodes(OldIds)
  <2> DEFINE N == Nodes(OldIds)
  <2>1. disk0 \in Trees(N)
    BY DEF EditTypes
  <2> HIDE DEF N
  <2>2. disk0[buf0[b].path] \in N
    BY <1>1, <2>1, DiskType DEF Trees
  <2> QED  BY <2>2 DEF N
<1>3. Tree(disk0)
  BY DEF EditTypes, Trees
<1>4. Where(disk0, buf0[b].id) = {buf0[b].path}
  BY <1>1, <1>3 DEF Tree, Dir
<1> QED  BY <1>1, <1>2, <1>4, NodeFacts

LEMMA InitOpen == Init => OpenInv
<1> SUFFICES ASSUME Init PROVE OpenInv
  OBVIOUS
<1>1. /\ pc = "plan" /\ disk0 = disk /\ buf0 = buf
  BY DEF Init
<1>2. DOMAIN disk \subseteq Paths
  BY BoundsAssumption DEF Init
<1>3. PICK at \in [Bufs -> {NoPath} \cup {p \in DOMAIN disk : disk[p].kind = "file"}], dirty \in [Bufs -> Dirty] :
         buf = [b \in Bufs |-> IF at[b] = NoPath THEN NoBuffer ELSE Shown(at[b], dirty[b])]
  BY DEF Init
<1>4. ASSUME NEW b \in Bufs
      PROVE  IF buf0[b].path = NoPath THEN buf0[b].id = NoId /\ buf0[b].dirty = FALSE
             ELSE buf0[b].path \in Paths /\ buf0[b].path \in Where(disk0, buf0[b].id)
  <2>1. CASE at[b] = NoPath
    <3>1. buf0[b] = NoBuffer
      BY <1>1, <1>3, <2>1
    <3> QED  BY <3>1 DEF NoBuffer
  <2>2. CASE at[b] # NoPath
    <3>1. buf0[b] = Shown(at[b], dirty[b]) /\ at[b] \in DOMAIN disk /\ disk[at[b]].kind = "file"
      BY <1>1, <1>3, <2>2
    <3>2. buf0[b].path = at[b] /\ buf0[b].id = disk[at[b]].id
      BY <3>1 DEF Shown
    <3> QED  BY <1>1, <1>2, <2>2, <3>1, <3>2 DEF Where
  <2> QED  BY <2>1, <2>2
<1>5. Opening
  BY <1>4 DEF Opening
<1>6. Sparing /\ Placed /\ SetAside
  BY <1>1 DEF Sparing, Placed, SetAside, Working
<1>7. UnsavedKept /\ BuffersFollow /\ DeletedForGood
  BY <1>1 DEF UnsavedKept, BuffersFollow, DeletedForGood
<1> QED  BY <1>5, <1>6, <1>7 DEF OpenInv

LEMMA PlanOpen ==
    ASSUME EditInv, OpenInv, PlanEdit
    PROVE  OpenInv'
<1>1. /\ EditTypes /\ Buffers /\ Planning /\ Opening /\ pc = "plan"
      /\ UNCHANGED <<disk, next, undo, aside, loaded, buf, edit, disk0, buf0>>
      /\ (pc' = "refused") \/ (pc' = "commit" /\ steps' = Plan.steps)
  BY DEF EditInv, OpenInv, PlanEdit, Refused, before
<1>2. disk = disk0 /\ next = 1 /\ undo = <<>> /\ aside = <<>> /\ buf = buf0 /\ edit \in Seq(Items)
  BY <1>1 DEF Planning, Buffers, EditTypes
<1>3. Opening'
  BY <1>1 DEF Opening
<1>4. UnsavedKept' /\ BuffersFollow' /\ DeletedForGood'
  BY <1>1 DEF UnsavedKept, BuffersFollow, DeletedForGood
<1>5. CASE pc' = "refused"
  <2>1. Sparing' /\ Placed' /\ SetAside'
    BY <1>5 DEF Sparing, Placed, SetAside, Working
  <2> QED  BY <1>3, <1>4, <2>1 DEF OpenInv
<1>6. CASE pc' = "commit" /\ steps' = Plan.steps
  <2>1. \A b \in Bufs : buf0[b].dirty => buf0[b].path # NoPath /\ buf0[b].path \in Paths
    BY <1>1 DEF Opening
  <2>2. OpenUnsaved \subseteq Paths
    BY <1>2, <2>1 DEF OpenUnsaved
  <2>3. \A p \in OpenUnsaved : Spares(Plan.steps, p)
    BY <1>2, <2>2, PlanSpares
  <2>4. \A b \in Bufs : buf0[b].dirty => buf0[b].path \in OpenUnsaved
    BY <1>2 DEF OpenUnsaved
  <2>5. Sparing'
    BY <1>1, <1>6, <2>3, <2>4 DEF Sparing
  <2>6. Reached' = <<>>
    <3>1. SubSeq(steps', 1, 1 - 1) = <<>>
      BY SubSeqEmpty
    <3>2. next' = 1
      BY <1>1, <1>2
    <3> QED  BY <1>6, <3>1, <3>2 DEF Reached
  <2>7. ASSUME NEW b \in Bufs, buf0[b].path # NoPath
        PROVE  /\ Place(b)' = buf0[b].path /\ Where(disk0, buf0[b].id) = {buf0[b].path}
               /\ Exists(disk0, <<>>, buf0[b].path)
    <3>1. buf0[b].path \in Paths /\ Where(disk0, buf0[b].id) = {buf0[b].path}
      BY <1>1, <2>7, OldFile
    <3>2. Follow(<<>>, buf0[b].path) = buf0[b].path
      BY <3>1, FollowNone
    <3>3. buf0[b].path \in AnyPath /\ buf0[b].path \in DOMAIN disk0
      BY <3>1, PathsAny DEF Where
    <3>4. Exists(disk0, <<>>, buf0[b].path)
      BY <3>3, FoundNone DEF Exists, Sought
    <3> QED  BY <1>1, <2>6, <3>1, <3>2, <3>4 DEF Place
  <2>8. ASSUME NEW b \in Bufs, buf0'[b].path # NoPath
        PROVE  /\ Where(disk', buf0'[b].id) \cap Paths \subseteq {Place(b)'}
               /\ Place(b)' \in Where(disk', buf0'[b].id) /\ Exists(disk0', Reached', Place(b)')
    <3>1. disk' = disk0 /\ disk0' = disk0 /\ buf0' = buf0
      BY <1>1, <1>2
    <3> QED  BY <2>6, <2>7, <2>8, <3>1
  <2>9. Placed'
    BY <2>8 DEF Placed
  <2>10. SetAside'
    <3> DEFINE none == <<>>
    <3>1. none \in Seq(Named) /\ 1..Len(none) = {} /\ Range(none) = {}
      BY DEF Range
    <3>2. undo' = none /\ aside' = none
      BY <1>1, <1>2
    <3> HIDE DEF none
    <3> QED  BY <3>1, <3>2 DEF SetAside, AsideNames, Traced
  <2> QED  BY <1>3, <1>4, <2>5, <2>9, <2>10 DEF OpenInv
<1> QED  BY <1>1, <1>5, <1>6

\* What a step does to the disk and to what is remembered of it.
StepDone(d, away) ==
    LET step == steps[next]
        dirs == Missing(disk, step)
        node == File(<<"made", next>>, <<>>)
    IN /\ next \in 1..Len(steps) /\ step \in Steps /\ dirs \in Seq(Paths)
       /\ Takes(Nodes(MadeIds(next)), d, step, node, away) /\ DOMAIN d \subseteq Known(Len(aside))
       /\ DOMAIN d = DOMAIN disk \cup {dirs[i] : i \in 1..Len(dirs)}
       /\ \A id : Where(d, id) = Where(disk, id)
       /\ away = Append(Parent(step.path), Len(aside) + 1) /\ away \in Named /\ \A q \in Paths : ~Within(q, away)
       /\ disk' = After(d, step, node, away)
       /\ undo' = Append(undo \o UndoDirs(dirs), Back(step, away))
       /\ aside' = IF step.kind = "delete" THEN Append(aside, away) ELSE aside

LEMMA StepTaken ==
    ASSUME EditInv, CommitStep
    PROVE  \E d, away : StepDone(d, away)
<1> DEFINE step == steps[next]
           dirs == Missing(disk, step)
           d == DirsMade(disk, dirs)
           away == AsideFor(step.path)
           u == UndoStep(step)
           w == undo \o UndoDirs(dirs)
<1>0. /\ EditTypes /\ Committing /\ pc = "commit" /\ next <= Len(steps) /\ CanMakeDirs(disk, dirs) /\ CanTake(d, step)
      /\ disk' = Taken(d, step) /\ undo' = w \o <<u>>
      /\ aside' = IF step.kind = "delete" THEN Append(aside, away) ELSE aside
  BY DEF EditInv, CommitStep
<1>1. /\ steps \in Seq(Steps) /\ next \in 1..Len(steps) /\ Len(aside) \in Nat /\ undo \in Seq(Undos)
  BY <1>0 DEF EditTypes
<1>2. step \in Steps /\ step.path \in Paths /\ Target(step) \in Paths
  <2>1. step \in Steps
    BY <1>1
  <2> QED  BY <2>1 DEF Target, Steps
<1>3. dirs \in Seq(Paths) /\ DirsDone(Len(dirs)) /\ SubSeq(dirs, 1, Len(dirs)) = dirs
  <2>1. dirs \in Seq(Paths)
    BY <1>2, MissingFacts DEF OnTheWay
  <2>2. Len(dirs) \in 0..Len(dirs)
    BY <2>1
  <2> QED  BY <1>0, <2>1, <2>2, WholePrefix, DirsTaken
<1>4. /\ d \in Trees(Nodes(MadeIds(next))) /\ DOMAIN d \subseteq Known(Len(aside))
      /\ DOMAIN d = DOMAIN disk \cup {dirs[i] : i \in 1..Len(dirs)} /\ w \in Seq(Undos)
  BY <1>3 DEF DirsDone
<1>5. away = Append(Parent(step.path), Len(aside) + 1) /\ away \in Named /\ \A q \in Paths : ~Within(q, away)
  BY <1>1, <1>2, AwayFacts DEF AsideFor
<1>6. ASSUME NEW id PROVE Where(d, id) = Where(disk, id)
  <2>1. /\ \A p \in DOMAIN disk : p \in DOMAIN d /\ d[p] = disk[p]
        /\ \A p \in DOMAIN d : p \notin DOMAIN disk => d[p] = Dir
    BY DEF DirsMade
  <2> HIDE DEF d
  <2> QED  BY <2>1 DEF Where, Dir
<1>7. Taken(d, step) = After(d, step, File(<<"made", next>>, <<>>), away) /\ u = Back(step, away)
  BY DEF Taken, After, UndoStep, Back
<1>8. w \o <<u>> = Append(w, u)
  <2>1. u \in Undos
    <3>1. Back(step, away) \in Undos
      BY <1>2, <1>5, PathsAny DEF Back, Undos, Steps
    <3> QED  BY <1>7, <3>1
  <2> HIDE DEF u, w
  <2> QED  BY <1>4, <2>1, AppendFacts
<1>9. Takes(Nodes(MadeIds(next)), d, step, File(<<"made", next>>, <<>>), away)
  BY <1>0, <1>2, <1>4, <1>5 DEF Takes, Named
<1>10. StepDone(d, away)
  <2> HIDE DEF d, away, u
  <2> QED  BY <1>0, <1>1, <1>2, <1>3, <1>4, <1>5, <1>6, <1>7, <1>8, <1>9 DEF StepDone
<1> QED  BY <1>10

LEMMA ReachedNext ==
    ASSUME EditTypes, pc = "commit", next <= Len(steps), pc' = "commit", steps' = steps, next' = next + 1
    PROVE  /\ next \in 1..Len(steps) /\ steps[next] \in Steps
           /\ Reached = SubSeq(steps, 1, next - 1) /\ Reached \in Seq(Steps)
           /\ Reached' = Append(Reached, steps[next])
<1>1. next \in 1..Len(steps) /\ steps \in Seq(Steps)
  BY DEF EditTypes
<1>2. SubSeq(steps, 1, next - 1) \in Seq(Steps)
      /\ SubSeq(steps, 1, next) = Append(SubSeq(steps, 1, next - 1), steps[next])
  BY <1>1, PrefixNext
<1>3. next' - 1 = next
  BY <1>1
<1> QED  BY <1>1, <1>2, <1>3 DEF Reached

\* Where the step takes a buffer's file.
LEMMA CommitPlaced ==
    ASSUME EditInv, OpenInv, CommitStep, NEW b \in Bufs, buf0[b].path # NoPath
    PROVE  /\ Where(disk', buf0[b].id) \cap Paths \subseteq {Place(b)'}
           /\ buf0[b].dirty =>
                Place(b)' \in Where(disk', buf0[b].id) /\ Exists(disk0, Reached', Place(b)')
<1>1. PICK d, away : StepDone(d, away)
  BY StepTaken
<1> DEFINE step == steps[next]
           node == File(<<"made", next>>, <<>>)
           N == Nodes(MadeIds(next))
           q == Place(b)
           id == buf0[b].id
<1>2. /\ EditTypes /\ Committing /\ Opening /\ Sparing /\ Placed /\ pc = "commit" /\ next <= Len(steps)
      /\ pc' = "commit" /\ next' = next + 1 /\ UNCHANGED <<steps, disk0, buf0>>
  BY DEF EditInv, OpenInv, CommitStep, before
<1>3. /\ step \in Steps /\ Takes(N, d, step, node, away) /\ disk' = After(d, step, node, away)
      /\ Where(d, id) = Where(disk, id)
  BY <1>1 DEF StepDone
<1>4. /\ next \in 1..Len(steps) /\ Reached = SubSeq(steps, 1, next - 1) /\ Reached \in Seq(Steps)
      /\ Reached' = Append(Reached, step)
  BY <1>2, ReachedNext
<1>5. buf0[b].path \in Paths /\ id \in OldIds
  BY <1>2, OldFile
<1>6. q \in Paths /\ Place(b)' = FollowStep(q, step)
  <2>1. Place(b)' = Follow(Reached', buf0[b].path)
    BY <1>2 DEF Place
  <2> QED  BY <1>3, <1>4, <1>5, <2>1, FollowType, FollowLast DEF Place
<1>7. node.id # id
  BY <1>5 DEF OldIds, File
<1>8. /\ Where(d, id) \cap Paths \subseteq {q}
      /\ buf0[b].dirty => q \in Where(d, id) /\ Exists(disk0, Reached, q)
  BY <1>2, <1>3 DEF Placed, Working
<1> HIDE DEF step, node, N, q, id
<1>9. Where(disk', id) \cap Paths \subseteq {Place(b)'}
  BY <1>3, <1>6, <1>7, <1>8, PlaceStep
<1>10. ASSUME buf0[b].dirty
       PROVE  Place(b)' \in Where(disk', id) /\ Exists(disk0, Reached', Place(b)')
  <2>1. q \in Where(d, id) /\ Exists(disk0, Reached, q)
    BY <1>8, <1>10
  <2>2. step.kind = "delete" => ~Within(q, step.path)
    BY <1>2, <1>4, <1>10 DEF Sparing, Spares, Place, q, step
  <2>3. step.kind = "rename" => step.to # q
    BY <1>2, <1>4, <2>1 DEF Committing, Sound, step
  <2>4. /\ FollowStep(q, step) \in Where(disk', id)
        /\ step.kind = "rename" /\ ~Within(q, step.path) => ~Within(q, step.to)
    BY <1>3, <1>6, <2>1, <2>2, <2>3, PlaceKept
  <2>5. Exists(disk0, Append(Reached, step), FollowStep(q, step))
    BY <1>3, <1>4, <1>6, <2>1, <2>2, <2>4, PlaceExists
  <2> QED  BY <1>4, <1>6, <2>4, <2>5
<1> QED  BY <1>9, <1>10 DEF id

\* What the step adds to undo.
LEMMA CommitUndo ==
    ASSUME EditTypes, NEW d, NEW away, StepDone(d, away)
    PROVE  LET step == steps[next]
               L == Len(undo')
           IN /\ undo' \in Seq(Undos) /\ Len(undo) \in Nat /\ L \in Nat /\ Len(undo) < L
              /\ DOMAIN undo = 1..Len(undo) /\ DOMAIN undo' = 1..L
              /\ \A i \in 1..Len(undo) : undo'[i] = undo[i]
              /\ undo'[L] = Back(step, away)
              /\ \A i \in 1..L : i <= Len(undo) \/ i = L \/ undo'[i].path \in Paths
<1> DEFINE step == steps[next]
           dirs == Missing(disk, step)
           more == UndoDirs(dirs)
           w == undo \o more
           u == Back(step, away)
<1>1. undo \in Seq(Undos) /\ dirs \in Seq(Paths) /\ undo' = Append(w, u) /\ step \in Steps /\ away \in Named
  BY DEF EditTypes, StepDone
<1>2. more \in Seq(Undos) /\ Len(more) = Len(dirs)
  BY <1>1, UndoDirsType
<1>3. \A i \in 1..Len(more) : more[i].path \in Paths
  <2>1. DOMAIN dirs = 1..Len(dirs) /\ \A i \in 1..Len(dirs) : dirs[i] \in Paths
    BY <1>1
  <2> QED  BY <1>2, <2>1 DEF UndoDirs
<1>4. u \in Undos
  BY <1>1, PathsAny DEF Back, Undos, Steps
<1> HIDE DEF more, u
<1>5. /\ w \in Seq(Undos) /\ Len(undo) \in Nat /\ Len(more) \in Nat /\ Len(w) = Len(undo) + Len(more)
      /\ \A i \in 1..Len(undo) : w[i] = undo[i] /\ i \in 1..Len(w)
      /\ \A i \in 1..Len(w) : i <= Len(undo) \/ (i - Len(undo) \in 1..Len(more) /\ w[i] = more[i - Len(undo)])
  <2>1. undo \in Seq(Undos) /\ more \in Seq(Undos)
    BY <1>1, <1>2
  <2> HIDE DEF dirs
  <2>2. w \in Seq(Undos) /\ Len(w) = Len(undo) + Len(more) /\ Len(undo) \in Nat /\ Len(more) \in Nat
    BY <2>1
  <2>3. \A i \in 1..Len(w) : w[i] = IF i <= Len(undo) THEN undo[i] ELSE more[i - Len(undo)]
    BY <2>1
  <2> HIDE DEF w
  <2> QED  BY <2>2, <2>3
<1> HIDE DEF w
<1>6. /\ Append(w, u) \in Seq(Undos) /\ Len(Append(w, u)) = Len(w) + 1 /\ Append(w, u)[Len(w) + 1] = u
      /\ \A i \in 1..Len(w) : Append(w, u)[i] = w[i]
  BY <1>4, <1>5, AppendFacts
<1>7. /\ undo' \in Seq(Undos) /\ Len(undo') = Len(w) + 1 /\ undo'[Len(undo')] = u /\ Len(w) \in Nat
      /\ \A i \in 1..Len(w) : undo'[i] = w[i]
  BY <1>1, <1>5, <1>6
<1>8. Len(undo) < Len(undo') /\ Len(undo') \in Nat
  BY <1>5, <1>7
<1>9. \A i \in 1..Len(undo) : undo'[i] = undo[i]
  BY <1>5, <1>7
<1>10. ASSUME NEW i \in 1..Len(undo') PROVE i <= Len(undo) \/ i = Len(undo') \/ undo'[i].path \in Paths
  <2>1. i = Len(undo') \/ i \in 1..Len(w)
    BY <1>5, <1>7
  <2> QED  BY <1>3, <1>5, <1>7, <2>1
<1> QED  BY <1>1, <1>5, <1>7, <1>8, <1>9, <1>10 DEF u

\* What the step adds to the names of what is set aside.
LEMMA CommitAside ==
    ASSUME AsideNames(aside), NEW d, NEW away, StepDone(d, away)
    PROVE  LET n == Len(aside)
           IN /\ AsideNames(aside') /\ Range(aside) \subseteq Range(aside')
              /\ IF steps[next].kind = "delete"
                 THEN Len(aside') = n + 1 /\ aside'[n + 1] = away ELSE aside' = aside
              /\ \A k \in 1..n : k \in 1..Len(aside') /\ aside'[k] = aside[k]
<1> DEFINE n == Len(aside)
<1>1. /\ aside \in Seq(Named) /\ n \in Nat /\ DOMAIN aside = 1..n /\ \A g \in Range(aside) : \A q \in Paths : ~Within(q, g)
      /\ away \in Named /\ \A q \in Paths : ~Within(q, away)
      /\ aside' = IF steps[next].kind = "delete" THEN Append(aside, away) ELSE aside
  BY DEF AsideNames, StepDone
<1>2. CASE steps[next].kind # "delete"
  BY <1>1, <1>2
<1>3. CASE steps[next].kind = "delete"
  <2>1. /\ aside' \in Seq(Named) /\ Len(aside') = n + 1 /\ aside'[n + 1] = away /\ \A i \in 1..n : aside'[i] = aside[i]
    BY <1>1, <1>3, AppendFacts
  <2>2. DOMAIN aside' = 1..(n + 1)
    BY <2>1
  <2>3. ASSUME NEW g \in Range(aside') PROVE g \in Range(aside) \/ g = away
    <3>1. PICK i \in 1..(n + 1) : aside'[i] = g
      BY <2>2 DEF Range
    <3>2. i = n + 1 \/ i \in 1..n
      BY <1>1
    <3> QED  BY <1>1, <2>1, <3>1, <3>2 DEF Range
  <2>4. ASSUME NEW g \in Range(aside) PROVE g \in Range(aside')
    <3>1. PICK i \in 1..n : aside[i] = g
      BY <1>1 DEF Range
    <3>2. i \in DOMAIN aside' /\ aside'[i] = g
      BY <1>1, <2>1, <2>2, <3>1
    <3> QED  BY <3>2 DEF Range
  <2>5. AsideNames(aside')
    BY <1>1, <2>1, <2>3 DEF AsideNames
  <2> QED  BY <1>1, <1>3, <2>1, <2>4, <2>5
<1> QED  BY <1>2, <1>3

LEMMA CommitSetAside ==
    ASSUME EditInv, OpenInv, CommitStep
    PROVE  /\ AsideNames(aside') /\ \A n \in 1..Len(undo') : undo'[n].path \in Paths \cup Range(aside')
           /\ \A k \in 1..Len(aside') : \E m \in 1..Len(undo') : undo'[m].path = aside'[k]
           /\ Traced(disk', aside', AlongNow')
<1>1. PICK d, away : StepDone(d, away)
  BY StepTaken
<1> DEFINE step == steps[next]
           node == File(<<"made", next>>, <<>>)
           N == Nodes(MadeIds(next))
           n == Len(aside)
           L == Len(undo')
<1>2. /\ EditTypes /\ pc = "commit" /\ AsideNames(aside) /\ Traced(disk, aside, AlongNow)
      /\ \A i \in 1..Len(undo) : undo[i].path \in Paths \cup Range(aside)
      /\ \A k \in 1..n : \E m \in 1..Len(undo) : undo[m].path = aside[k]
  BY DEF EditInv, OpenInv, CommitStep, SetAside, Working
<1>3. /\ step \in Steps /\ step.path \in Paths /\ step.kind \in {"create", "rename", "delete"}
      /\ (step.kind = "rename" => step.to \in Paths)
      /\ Takes(N, d, step, node, away) /\ DOMAIN d \subseteq Known(n)
      /\ Missing(disk, step) \in Seq(Paths)
      /\ DOMAIN d = DOMAIN disk \cup {Missing(disk, step)[i] : i \in 1..Len(Missing(disk, step))}
      /\ disk' = After(d, step, node, away) /\ away = Append(Parent(step.path), n + 1)
      /\ aside' = IF step.kind = "delete" THEN Append(aside, away) ELSE aside
  BY <1>1 DEF StepDone, Steps
<1>4. /\ Len(undo) \in Nat /\ L \in Nat /\ Len(undo) < L
      /\ DOMAIN undo = 1..Len(undo) /\ DOMAIN undo' = 1..L
      /\ \A i \in 1..Len(undo) : undo'[i] = undo[i]
      /\ undo'[L] = Back(step, away)
      /\ \A i \in 1..L : i <= Len(undo) \/ i = L \/ undo'[i].path \in Paths
  BY <1>1, <1>2, CommitUndo
<1>5. /\ AsideNames(aside') /\ Range(aside) \subseteq Range(aside')
      /\ (step.kind = "delete" => Len(aside') = n + 1 /\ aside'[n + 1] = away)
      /\ (step.kind # "delete" => aside' = aside)
      /\ \A k \in 1..n : k \in 1..Len(aside') /\ aside'[k] = aside[k]
  BY <1>1, <1>2, CommitAside
<1>6. /\ n \in Nat /\ \A k \in 1..n : aside[k] \in Range(aside)
      /\ Len(aside') \in Nat /\ \A k \in 1..Len(aside') : aside'[k] \in Range(aside')
  BY <1>2, <1>5, AsideNamed
<1>7. \A q \in Paths : q \notin Range(aside')
  <2>1. \A q \in Paths : Within(q, q)
    BY PathsAny, WithinOrder DEF AnyPath
  <2> QED  BY <1>5, <2>1 DEF AsideNames
<1>8. L \in 1..L /\ \A i \in 1..Len(undo) : i \in 1..L /\ i < L
  BY <1>4
<1> HIDE DEF step, node, N, n, L
<1>9. undo'[L].path \in Paths \cup Range(aside')
  <2>1. step.kind = "delete" => away \in Range(aside')
    <3>1. step.kind = "delete" => n + 1 \in 1..Len(aside')
      BY <1>5, <1>6
    <3> QED  BY <1>5, <1>6, <3>1
  <2> QED  BY <1>3, <1>4, <2>1 DEF Back
<1>10. ASSUME NEW i \in 1..L PROVE undo'[i].path \in Paths \cup Range(aside')
  <2>1. CASE i <= Len(undo)
    <3>1. i \in 1..Len(undo)
      BY <1>4, <2>1
    <3> QED  BY <1>2, <1>4, <1>5, <3>1
  <2>2. CASE i = L
    BY <1>9, <2>2
  <2> QED  BY <1>4, <2>1, <2>2
<1>11. ASSUME NEW k \in 1..Len(aside') PROVE \E m \in 1..L : undo'[m].path = aside'[k]
  <2>1. CASE k \in 1..n
    <3>1. PICK m \in 1..Len(undo) : undo[m].path = aside[k]
      BY <1>2, <2>1 DEF n
    <3> QED  BY <1>4, <1>5, <1>8, <2>1, <3>1
  <2>2. CASE k \notin 1..n
    <3>1. step.kind = "delete" /\ k = n + 1
      BY <1>5, <1>6, <2>2 DEF n
    <3>2. undo'[L].path = away
      BY <1>4, <3>1 DEF Back
    <3> QED  BY <1>5, <1>8, <3>1, <3>2
  <2> QED  BY <2>1, <2>2
<1>12. AlongNow \subseteq AlongNow'
  <2> SUFFICES ASSUME NEW k \in 1..n, TakenBy(undo, aside, aside[k])
               PROVE  k \in 1..Len(aside') /\ TakenBy(undo', aside', aside'[k])
    BY DEF AlongNow, n
  <2>1. DOMAIN undo \subseteq DOMAIN undo'
    BY <1>4, <1>8
  <2>2. \A i \in DOMAIN undo : undo'[i] = undo[i] /\ (undo[i].path \in Range(aside') => undo[i].path \in Range(aside))
    BY <1>2, <1>4, <1>7
  <2>3. TakenBy(undo', aside', aside[k])
    BY <2>1, <2>2, TakenByStays
  <2> QED  BY <1>5, <2>3
<1>13. ASSUME step.kind = "rename", NEW k \in 1..n, Within(aside[k], step.path) PROVE k \in AlongNow'
  <2>1. PICK m \in 1..Len(undo) : undo[m].path = aside[k]
    BY <1>2 DEF n
  <2>2. undo'[L].kind = "rename" /\ undo'[L].path = step.to /\ undo'[L].to = step.path
    BY <1>4, <1>13 DEF Back
  <2>3. m \in DOMAIN undo' /\ L \in DOMAIN undo' /\ m < L /\ undo'[m].path = aside[k]
    BY <1>4, <1>8, <2>1
  <2>4. undo'[L].path \notin Range(aside')
    BY <1>3, <1>7, <1>13, <2>2
  <2>5. TakenBy(undo', aside', aside'[k])
    BY <1>5, <1>13, <2>2, <2>3, <2>4 DEF TakenBy
  <2> QED  BY <1>5, <2>5 DEF AlongNow
<1>14. Traced(d, aside, AlongNow)
  <2> SUFFICES ASSUME NEW p \in DOMAIN d, NEW k \in 1..Len(aside), k \in Range(p)
               PROVE  k \in AlongNow \/ \E g \in Range(aside) : Within(p, g) /\ Within(aside[k], Parent(g))
    BY DEF Traced
  <2>1. p \notin Paths
    BY NoNumber
  <2>2. p \in DOMAIN disk
    <3>1. \A i \in 1..Len(Missing(disk, step)) : Missing(disk, step)[i] \in Paths
      BY <1>3
    <3> QED  BY <1>3, <2>1, <3>1
  <2> QED  BY <1>2, <2>2 DEF Traced
<1>15. Traced(disk', IF step.kind = "delete" THEN Append(aside, away) ELSE aside, AlongNow')
  BY <1>2, <1>3, <1>12, <1>13, <1>14, TracedStep DEF n
<1> QED  BY <1>3, <1>5, <1>10, <1>11, <1>15 DEF L

LEMMA CommitOpen ==
    ASSUME EditInv, OpenInv, CommitStep
    PROVE  OpenInv'
<1>1. /\ Opening /\ Sparing /\ pc = "commit" /\ pc' = "commit" /\ UNCHANGED <<steps, disk0, buf0>>
  BY DEF OpenInv, CommitStep, before
<1>2. Opening' /\ Sparing'
  BY <1>1 DEF Opening, Sparing
<1>3. Placed'
  BY <1>1, CommitPlaced DEF Placed
<1>4. SetAside'
  BY CommitSetAside DEF SetAside
<1>5. UnsavedKept' /\ BuffersFollow' /\ DeletedForGood'
  BY <1>1 DEF UnsavedKept, BuffersFollow, DeletedForGood
<1> QED  BY <1>2, <1>3, <1>4, <1>5 DEF OpenInv

LEMMA LoadOpen ==
    ASSUME EditInv, OpenInv, Load
    PROVE  OpenInv'
<1>1. /\ EditTypes /\ Opening /\ Placed /\ SetAside /\ pc = "commit" /\ next = Len(steps) + 1 /\ pc' = "save"
      /\ UNCHANGED <<disk, steps, undo, aside, buf, disk0, buf0>>
  BY DEF EditInv, OpenInv, Load, before
<1>2. Opening' /\ Sparing' /\ SetAside'
  BY <1>1 DEF Opening, Sparing, SetAside, Working, AlongNow
<1>3. Reached' = Reached
  <2>1. next - 1 = Len(steps) /\ steps \in Seq(Steps)
    BY <1>1 DEF EditTypes
  <2> QED  BY <1>1, <2>1, WholePrefix DEF Reached
<1>4. Placed'
  <2>1. \A b \in Bufs : Place(b)' = Place(b)
    BY <1>1, <1>3 DEF Place
  <2> QED  BY <1>1, <2>1 DEF Placed, Working
<1>5. UnsavedKept' /\ BuffersFollow' /\ DeletedForGood'
  BY <1>1 DEF UnsavedKept, BuffersFollow, DeletedForGood
<1> QED  BY <1>2, <1>4, <1>5 DEF OpenInv

\* Nothing is claimed of an edit that was taken back.
LEMMA TakenBackOpen ==
    ASSUME OpenInv, pc' \in {"undone", "torn"}, UNCHANGED <<disk0, buf0>>
    PROVE  OpenInv'
<1>1. Opening'
  BY DEF OpenInv, Opening
<1>2. Sparing' /\ Placed' /\ SetAside' /\ UnsavedKept' /\ BuffersFollow' /\ DeletedForGood'
  BY DEF Sparing, Placed, SetAside, Working, UnsavedKept, BuffersFollow, DeletedForGood
<1> QED  BY <1>1, <1>2 DEF OpenInv

\* What a file that is written next leaves of the others.
Writes(d, text) == d = With(disk, loaded[next].path, File(loaded[next].id, text))

LEMMA WriteOpen ==
    ASSUME EditInv, OpenInv, pc = "save", next <= Len(loaded), CanWrite(disk, loaded[next].path),
           NEW text \in Seq(Int), NEW d, Writes(d, text)
    PROVE  /\ \A id \in OldIds : Where(d, id) = Where(disk, id)
           /\ Traced(d, aside, AlongNow)
<1> DEFINE file == loaded[next]
           node == File(file.id, text)
<1>1. /\ file.path \in Paths
      /\ IF file.path \in DOMAIN disk
         THEN file.id = disk[file.path].id /\ disk[file.path].kind = "file"
         ELSE file.id = <<"opened", next>>
  BY Written DEF EditInv
<1>2. d = With(disk, file.path, node) /\ node.id = file.id /\ node.kind = "file"
  BY DEF Writes, File
<1> HIDE DEF file, node
<1>3. ASSUME NEW id \in OldIds PROVE Where(d, id) = Where(disk, id)
  <2>1. id # <<"opened", next>>
    BY DEF OldIds
  <2> QED  BY <1>1, <1>2, <2>1 DEF Where, With
<1>4. ASSUME NEW p \in DOMAIN d, NEW k \in 1..Len(aside), k \in Range(p)
      PROVE  k \in AlongNow \/ \E g \in Range(aside) : Within(p, g) /\ Within(aside[k], Parent(g))
  <2>1. p # file.path
    BY <1>1, <1>4, NoNumber
  <2>2. p \in DOMAIN disk
    BY <1>2, <2>1 DEF With
  <2>3. Traced(disk, aside, AlongNow)
    BY DEF OpenInv, SetAside, Working
  <2> QED  BY <1>4, <2>2, <2>3 DEF Traced
<1> QED  BY <1>3, <1>4 DEF Traced

LEMMA SaveOpen ==
    ASSUME EditInv, OpenInv, Save
    PROVE  OpenInv'
<1>1. /\ EditTypes /\ Saving /\ Opening /\ Placed /\ SetAside /\ pc = "save" /\ next <= Len(loaded)
      /\ CanWrite(disk, loaded[next].path)
      /\ disk' = With(disk, loaded[next].path, File(loaded[next].id, loaded[next].text))
      /\ pc' = "save" /\ UNCHANGED <<steps, undo, aside, buf, disk0, buf0>>
  BY DEF EditInv, OpenInv, Save, before
<1>2. loaded[next].text \in Seq(Int)
  <2>1. <<>> \in Seq(Int)
    OBVIOUS
  <2> QED  BY <1>1, <2>1, Written
<1>3. (\A id \in OldIds : Where(disk', id) = Where(disk, id)) /\ Traced(disk', aside, AlongNow)
  <2>1. Writes(disk', loaded[next].text)
    BY <1>1 DEF Writes
  <2> QED  BY <1>1, <1>2, <2>1, WriteOpen
<1>4. Opening' /\ Sparing'
  BY <1>1 DEF Opening, Sparing
<1>5. Placed'
  <2>1. ASSUME NEW b \in Bufs, buf0[b].path # NoPath
        PROVE  /\ Place(b)' = Place(b) /\ Where(disk', buf0[b].id) = Where(disk, buf0[b].id)
    <3>1. Place(b)' = Place(b)
      BY <1>1 DEF Place, Reached
    <3> QED  BY <1>1, <1>3, <2>1, <3>1, OldFile
  <2> QED  BY <1>1, <2>1 DEF Placed, Working
<1>6. SetAside'
  <2>1. AlongNow' = AlongNow
    BY <1>1 DEF AlongNow
  <2> QED  BY <1>1, <1>3, <2>1 DEF SetAside, Working
<1>7. UnsavedKept' /\ BuffersFollow' /\ DeletedForGood'
  BY <1>1 DEF UnsavedKept, BuffersFollow, DeletedForGood
<1> QED  BY <1>4, <1>5, <1>6, <1>7 DEF OpenInv

\* What finish leaves of a disk where all is in its place.
LEMMA FinishedOpen ==
    ASSUME EditInv, OpenInv, pc = "save", NEW d, NEW e, e = Finished(d, aside), Traced(d, aside, AlongNow),
           \A id \in OldIds : Where(d, id) = Where(disk, id)
    PROVE  /\ \A p \in DOMAIN e, k \in DOMAIN aside : k \in Range(p) => TakenAlong(aside[k])
           /\ \A b \in Bufs : buf0[b].dirty => Where(e, buf0[b].id) # {}
           /\ \A b \in Bufs : buf0[b].path # NoPath =>
                Where(e, buf0[b].id) \cap Paths \subseteq {Follow(steps, buf0[b].path)}
<1>1. EditTypes /\ Opening /\ Placed /\ AsideNames(aside)
  BY DEF EditInv, OpenInv, SetAside, Working
<1>2. /\ DOMAIN e = {q \in DOMAIN d : \A g \in Range(aside) : ~Within(q, g)}
      /\ \A p \in DOMAIN e : e[p] = d[p]
  BY DEF Finished
<1>3. \A p \in DOMAIN e, k \in DOMAIN aside : k \in Range(p) => TakenAlong(aside[k])
  <2> SUFFICES ASSUME NEW p \in DOMAIN e, NEW k \in DOMAIN aside, k \in Range(p) PROVE TakenAlong(aside[k])
    OBVIOUS
  <2>1. k \in 1..Len(aside)
    BY <1>1, AsideNamed
  <2>2. k \in AlongNow
    BY <1>2, <2>1 DEF Traced
  <2> QED  BY <2>2, TakenAlongBy DEF AlongNow
<1>4. ASSUME NEW b \in Bufs, buf0[b].path # NoPath
      PROVE  /\ Where(e, buf0[b].id) \cap Paths \subseteq {Follow(steps, buf0[b].path)}
             /\ buf0[b].dirty => Where(e, buf0[b].id) # {}
  <2> DEFINE q == Follow(steps, buf0[b].path)
             id == buf0[b].id
  <2>1. /\ buf0[b].path \in Paths /\ id \in OldIds /\ steps \in Seq(Steps) /\ Place(b) = q
    BY <1>1, <1>4, OldFile DEF EditTypes, Place, Reached
  <2>2. q \in Paths
    BY <2>1, FollowType
  <2>3. /\ Where(d, id) \cap Paths \subseteq {q}
        /\ buf0[b].dirty => q \in Where(d, id)
    BY <1>1, <1>4, <2>1 DEF Placed, Working
  <2> HIDE DEF q, id
  <2>4. Where(e, id) \subseteq Where(d, id)
    BY <1>2 DEF Where
  <2>5. q \in Where(d, id) => q \in Where(e, id)
    BY <1>1, <1>2, <2>2 DEF Where, AsideNames
  <2> QED  BY <2>3, <2>4, <2>5 DEF q, id
<1>5. \A b \in Bufs : buf0[b].dirty => buf0[b].path # NoPath
  BY <1>1 DEF Opening
<1> QED  BY <1>3, <1>4, <1>5

LEMMA SaveFailsOpen ==
    ASSUME EditInv, OpenInv, SaveFails
    PROVE  OpenInv'
<1>1. /\ EditTypes /\ Opening /\ SetAside /\ pc = "save" /\ next <= Len(loaded)
      /\ UNCHANGED <<steps, undo, aside, disk0, buf0>>
  BY DEF EditInv, OpenInv, SaveFails, before
<1>2. PICK d \in {disk, Torn} :
         /\ d = disk \/ (d = Torn /\ CanWrite(disk, loaded[next].path))
         /\ IF next = 1
            THEN IF d = disk THEN TakenBack ELSE TakenBackTorn
            ELSE disk' = Finished(d, aside) /\ pc' = "partly"
  BY DEF SaveFails
<1>3. CASE next = 1
  <2>1. pc' \in {"undone", "torn"}
    BY <1>2, <1>3 DEF TakenBack, TakenBackTorn
  <2> QED  BY <1>1, <2>1, TakenBackOpen
<1>4. CASE next # 1
  <2>1. disk' = Finished(d, aside) /\ pc' = "partly"
    BY <1>2, <1>4
  <2>2. (\A id \in OldIds : Where(d, id) = Where(disk, id)) /\ Traced(d, aside, AlongNow)
    <3>1. CASE d = disk
      BY <1>1, <3>1 DEF SetAside, Working
    <3>2. CASE d = Torn /\ CanWrite(disk, loaded[next].path)
      <4>1. Writes(d, <<>>)
        BY <3>2 DEF Writes, Torn
      <4>2. <<>> \in Seq(Int)
        OBVIOUS
      <4> QED  BY <1>1, <3>2, <4>1, <4>2, WriteOpen
    <3> QED  BY <1>2, <3>1, <3>2
  <2>3. /\ \A p \in DOMAIN disk', k \in DOMAIN aside : k \in Range(p) => TakenAlong(aside[k])
        /\ \A b \in Bufs : buf0[b].dirty => Where(disk', buf0[b].id) # {}
    BY <1>1, <2>1, <2>2, FinishedOpen
  <2>4. UnsavedKept' /\ BuffersFollow' /\ DeletedForGood'
    BY <1>1, <2>1, <2>3 DEF UnsavedKept, BuffersFollow, DeletedForGood, TakenAlong
  <2>5. Opening' /\ Sparing' /\ Placed' /\ SetAside'
    BY <1>1, <2>1 DEF Opening, Sparing, Placed, SetAside, Working
  <2> QED  BY <2>4, <2>5 DEF OpenInv
<1> QED  BY <1>3, <1>4

LEMMA FinishOpen ==
    ASSUME EditInv, OpenInv, Finish
    PROVE  OpenInv'
<1>1. /\ EditTypes /\ Buffers /\ Opening /\ SetAside /\ pc = "save" /\ pc' = "done" /\ disk' = Finished(disk, aside)
      /\ UNCHANGED <<steps, undo, aside, disk0, buf0>>
  BY DEF EditInv, OpenInv, Finish, before
<1>2. /\ \A p \in DOMAIN disk', k \in DOMAIN aside : k \in Range(p) => TakenAlong(aside[k])
      /\ \A b \in Bufs : buf0[b].dirty => Where(disk', buf0[b].id) # {}
      /\ \A b \in Bufs : buf0[b].path # NoPath =>
           Where(disk', buf0[b].id) \cap Paths \subseteq {Follow(steps, buf0[b].path)}
  BY <1>1, FinishedOpen DEF SetAside, Working
<1>3. UnsavedKept' /\ DeletedForGood'
  BY <1>1, <1>2 DEF UnsavedKept, DeletedForGood, TakenAlong
<1>4. ASSUME NEW b \in Bufs
      PROVE  /\ buf'[b].id = buf0[b].id
             /\ buf'[b].path = IF buf0[b].path = NoPath THEN NoPath ELSE Follow(steps, buf0[b].path)
  <2> DEFINE x == buf[b]
             more == Changes(b)
             at(p) == Follow(steps, p)
  <2>1. buf'[b] = [x EXCEPT !.path = IF x.path = NoPath THEN x.path ELSE at(x.path),
                            !.text = x.text \o more, !.dirty = x.dirty \/ more # <<>>]
    BY DEF Finish
  <2>2. DOMAIN x = {"path", "id", "dirty", "text"} /\ x = buf0[b]
    BY <1>1 DEF Buffers
  <2> HIDE DEF x, more, at
  <2>3. buf'[b].path = (IF x.path = NoPath THEN x.path ELSE at(x.path)) /\ buf'[b].id = x.id
    BY <2>1, <2>2
  <2> QED  BY <2>2, <2>3 DEF at
<1>5. ASSUME NEW b \in Bufs PROVE Where(disk', buf'[b].id) \cap Paths \subseteq {buf'[b].path}
  <2>1. CASE buf0[b].path # NoPath
    BY <1>2, <1>4, <2>1
  <2>2. CASE buf0[b].path = NoPath
    <3>1. buf'[b].id = NoId
      BY <1>1, <1>4, <2>2 DEF Opening
    <3>2. disk' \in Trees(Nodes(AllIds))
      BY FinishInv DEF EditInv, EditTypes
    <3>3. ASSUME NEW p \in DOMAIN disk', disk'[p].kind = "file" PROVE disk'[p].id # NoId
      <4> DEFINE N == Nodes(AllIds)
      <4>1. disk' \in Trees(N)
        BY <3>2
      <4> HIDE DEF N
      <4>2. disk'[p] \in N
        BY <4>1, DiskType DEF Trees
      <4>3. disk'[p].id \in AllIds
        BY <3>3, <4>2, NodeFacts DEF N
      <4> QED  BY <4>3 DEF AllIds, NoId
    <3> QED  BY <3>1, <3>3 DEF Where
  <2> QED  BY <2>1, <2>2
<1>6. BuffersFollow'
  BY <1>5 DEF BuffersFollow, InPlace
<1>7. Opening' /\ Sparing' /\ Placed' /\ SetAside'
  BY <1>1 DEF Opening, Sparing, Placed, SetAside, Working
<1> QED  BY <1>3, <1>6, <1>7 DEF OpenInv

LEMMA StillOpen ==
    ASSUME OpenInv, UNCHANGED vars
    PROVE  OpenInv'
<1> USE DEF vars
<1>1. Opening' /\ Sparing'
  BY DEF OpenInv, Opening, Sparing
<1>2. Placed'
  BY DEF OpenInv, Placed, Working, Place, Reached
<1>3. SetAside'
  BY DEF OpenInv, SetAside, Working, AlongNow
<1>4. UnsavedKept' /\ BuffersFollow' /\ DeletedForGood'
  BY DEF OpenInv, UnsavedKept, BuffersFollow, InPlace, DeletedForGood, TakenAlong
<1> QED  BY <1>1, <1>2, <1>3, <1>4 DEF OpenInv

-----------------------------------------------------------------------------
(* The theorems.                                                            *)

LEMMA NextEditInv ==
    ASSUME EditInv, [Next]_vars
    PROVE  EditInv'
BY PlanEditInv, CommitStepInv, CommitFailsInv, LoadInv, LoadFailsInv, SaveInv, SaveFailsInv,
   FinishInv, StillInv DEF Next, Ended

\* The invariant holds whatever the cases, the buffers and the failures.
THEOREM EditInvHolds == Spec => []EditInv
<1>1. Init => EditInv
  BY InitEditInv
<1>2. EditInv /\ [Next]_vars => EditInv'
  BY NextEditInv
<1> QED  BY <1>1, <1>2, PTL DEF Spec

\* The disk stays a tree with every file in one place, through every step taken,
\* every step taken back and every write (fileops.rs Done, repl.rs
\* apply_workspace_edit).
THEOREM TypeCorrect == Spec => []TypeOK
<1>1. EditInv => TypeOK
  BY DEF EditInv, EditTypes, Buffers, TypeOK, Trees
<1> QED  BY <1>1, EditInvHolds, PTL

\* An edit that says it changed nothing changed nothing (repl.rs:8296, 8324,
\* 8331, 8346), but for what a rename over a directory made on the way and a
\* full disk do.
THEOREM UndoneIsWhole == Spec => []NothingChanged
<1>1. EditInv => NothingChanged
  BY DEF EditInv
<1> QED  BY <1>1, EditInvHolds, PTL

\* Each check of the plan sees the disk its step will find (fileops.rs:4-5, 108).
THEOREM PlanIsTrue == Spec => []PlannedDisk
<1>1. ASSUME EditInv PROVE PlannedDisk
  <2> SUFFICES ASSUME pc = "commit", NEW item \in Range(edit),
                      NEW p \in {item.path, TargetOf(item)} \ Made(undo)
               PROVE  Exists(disk0, SubSeq(steps, 1, next - 1), p) = (p \in DOMAIN disk)
    BY DEF PlannedDisk
  <2>1. item \in Items
    <3>1. edit \in Seq(Items)
      BY <1>1 DEF EditInv, EditTypes
    <3> QED  BY <3>1 DEF Range
  <2>2. p \in Paths
    BY <2>1, BoundsAssumption DEF TargetOf
  <2>3. Exists(disk0, SubSeq(steps, 1, next - 1), p) <=> p \in DOMAIN disk
    BY <1>1, <2>2 DEF EditInv, Committing, Agree
  <2>4. Exists(disk0, SubSeq(steps, 1, next - 1), p) \in BOOLEAN
    BY DEF Exists
  <2> QED  BY <2>3, <2>4
<1> QED  BY <1>1, EditInvHolds, PTL

LEMMA NextOpen ==
    ASSUME EditInv, OpenInv, [Next]_vars
    PROVE  OpenInv'
<1>1. ASSUME CommitFails \/ LoadFails PROVE OpenInv'
  <2>1. pc' = "undone" /\ UNCHANGED <<disk0, buf0>>
    BY <1>1 DEF CommitFails, LoadFails, TakenBack, before
  <2> QED  BY <2>1, TakenBackOpen
<1> QED  BY <1>1, PlanOpen, CommitOpen, LoadOpen, SaveOpen, SaveFailsOpen, FinishOpen, StillOpen DEF Next, Ended

\* What is known of the open buffers and of what was set aside holds as well.
THEOREM OpenInvHolds == Spec => []OpenInv
<1>1. Init => OpenInv
  BY InitOpen
<1>2. EditInv /\ OpenInv /\ [Next]_vars => OpenInv'
  BY NextOpen
<1> QED  BY <1>1, <1>2, EditInvHolds, PTL DEF Spec

\* An edit that stays removes no file with unsaved changes in a buffer,
\* whatever renames it got at it by (fileops.rs:126-129).
THEOREM UnsavedStays == Spec => []UnsavedKept
<1>1. OpenInv => UnsavedKept
  BY DEF OpenInv
<1> QED  BY <1>1, OpenInvHolds, PTL

\* An open buffer goes where the edit's renames took its file
\* (repl.rs:8257-8259).
THEOREM BuffersGoAlong == Spec => []BuffersFollow
<1>1. OpenInv => BuffersFollow
  BY DEF OpenInv
<1> QED  BY <1>1, OpenInvHolds, PTL

\* What an edit that stays has deleted is gone, but for what a later rename of
\* the directory it was in took along (fileops.rs:275-283).
THEOREM DeletedIsGone == Spec => []DeletedForGood
<1>1. OpenInv => DeletedForGood
  BY DEF OpenInv
<1> QED  BY <1>1, OpenInvHolds, PTL
==============================================================================
