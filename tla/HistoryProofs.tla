------------------------------ MODULE HistoryProofs ------------------------------
(***************************************************************************)
(* The theorems about History, for any number of shells, sessions and      *)
(* entries and any history_size: types, the order of the file, and that    *)
(* History implements HistoryLog.                                          *)
(***************************************************************************)
EXTENDS History, ListFacts

-----------------------------------------------------------------------------
(* Sequences of entries. *)

LEMMA SubSeqFacts ==
    ASSUME NEW q \in Seq(Nat), NEW m \in 1..(Len(q) + 1)
    PROVE  /\ SubSeq(q, m, Len(q)) \in Seq(Nat)
           /\ Len(SubSeq(q, m, Len(q))) = Len(q) - m + 1
           /\ \A i \in 1..(Len(q) - m + 1) : SubSeq(q, m, Len(q))[i] = q[m + i - 1]
  OBVIOUS

LEMMA NewestFacts ==
    ASSUME NEW q \in Seq(Nat), NEW k \in Nat
    PROVE  /\ NewestOf(q, k) \in Seq(Nat)
           /\ \E d \in Nat : /\ Len(NewestOf(q, k)) = Len(q) - d
                             /\ \A i \in 1..Len(NewestOf(q, k)) : NewestOf(q, k)[i] = q[i + d]
<1>1. CASE Len(q) <= k
  <2>1. NewestOf(q, k) = q
    BY <1>1 DEF NewestOf
  <2>2. 0 \in Nat /\ Len(q) = Len(q) - 0 /\ \A i \in 1..Len(q) : q[i] = q[i + 0]
    OBVIOUS
  <2> QED  BY <2>1, <2>2
<1>2. CASE ~(Len(q) <= k)
  <2> DEFINE m == Len(q) - k + 1
  <2>1. m \in 1..(Len(q) + 1)
    BY <1>2
  <2>2. NewestOf(q, k) = SubSeq(q, m, Len(q))
    BY <1>2 DEF NewestOf
  <2>3. /\ SubSeq(q, m, Len(q)) \in Seq(Nat)
        /\ Len(SubSeq(q, m, Len(q))) = Len(q) - m + 1
        /\ \A i \in 1..(Len(q) - m + 1) : SubSeq(q, m, Len(q))[i] = q[m + i - 1]
    BY <2>1, SubSeqFacts
  <2>4. m - 1 \in Nat /\ Len(q) - m + 1 = Len(q) - (m - 1) /\ \A i \in Nat : m + i - 1 = i + (m - 1)
    BY <1>2
  <2> HIDE DEF m
  <2> DEFINE w == NewestOf(q, k)
             d == m - 1
  <2>5. /\ w \in Seq(Nat) /\ d \in Nat /\ Len(w) = Len(q) - d
        /\ \A i \in 1..Len(w) : w[i] = q[i + d]
    BY <2>1, <2>2, <2>3, <2>4
  <2> HIDE DEF w, d
  <2>6. \E e \in Nat : Len(w) = Len(q) - e /\ \A i \in 1..Len(w) : w[i] = q[i + e]
    BY <2>5
  <2> QED  BY <2>5, <2>6 DEF w
<1> QED  BY <1>1, <1>2

\* The newest entries of a list in order are in order.
LEMMA NewestOrdered ==
    ASSUME NEW q \in Seq(Nat), NEW k \in Nat, Rising(q), Known(q)
    PROVE  Rising(NewestOf(q, k)) /\ Known(NewestOf(q, k))
<1>1. PICK d \in Nat : /\ Len(NewestOf(q, k)) = Len(q) - d
                       /\ \A i \in 1..Len(NewestOf(q, k)) : NewestOf(q, k)[i] = q[i + d]
  BY NewestFacts
<1> DEFINE w == NewestOf(q, k)
<1>2. Len(w) \in Nat /\ \A i \in 1..Len(w) : i + d \in 1..Len(q) /\ w[i] = q[i + d]
  BY <1>1, NewestFacts
<1> HIDE DEF w
<1>3. Known(w)
  BY <1>2 DEF Known
<1>4. Rising(w)
  <2> SUFFICES ASSUME NEW i \in 1..Len(w), NEW j \in 1..Len(w), i < j, w[i] # Fragment, w[j] # Fragment
               PROVE  w[i] < w[j]
    BY DEF Rising
  <2>1. i + d < j + d /\ i + d \in 1..Len(q) /\ j + d \in 1..Len(q) /\ w[i] = q[i + d] /\ w[j] = q[j + d]
    BY <1>2
  <2> QED  BY <2>1 DEF Rising
<1> QED  BY <1>3, <1>4 DEF w

LEMMA PrefixFacts ==
    ASSUME NEW q \in Seq(Nat), NEW n \in 0..Len(q)
    PROVE  /\ SubSeq(q, 1, n) \in Seq(Nat)
           /\ Len(SubSeq(q, 1, n)) = n
           /\ \A i \in 1..n : SubSeq(q, 1, n)[i] = q[i]
  OBVIOUS

LEMMA JoinFacts ==
    ASSUME NEW q \in Seq(Nat), NEW r \in Seq(Nat)
    PROVE  /\ q \o r \in Seq(Nat)
           /\ Len(q \o r) = Len(q) + Len(r)
           /\ \A i \in 1..Len(q) : (q \o r)[i] = q[i]
           /\ \A i \in 1..Len(r) : (q \o r)[Len(q) + i] = r[i]
           /\ SubSeq(q \o r, 1, Len(q)) = q
  OBVIOUS

\* Two lists in order, the first before the second, are in order together.
LEMMA JoinOrdered ==
    ASSUME NEW q \in Seq(Nat), NEW r \in Seq(Nat), Rising(q), Rising(r), Precedes(q, r), Known(q), Known(r)
    PROVE  Rising(q \o r) /\ Known(q \o r)
<1> DEFINE j == q \o r
<1>1. \A i \in 1..Len(j) : \/ i \in 1..Len(q) /\ j[i] = q[i]
                           \/ i - Len(q) \in 1..Len(r) /\ j[i] = r[i - Len(q)]
  <2> SUFFICES ASSUME NEW i \in 1..Len(j), ~(i \in 1..Len(q))
               PROVE  i - Len(q) \in 1..Len(r) /\ j[i] = r[i - Len(q)]
    BY JoinFacts
  <2>1. i - Len(q) \in 1..Len(r) /\ i = Len(q) + (i - Len(q))
    BY JoinFacts
  <2> QED  BY <2>1, JoinFacts
<1>2. Len(j) = Len(q) + Len(r)
  BY JoinFacts
<1> HIDE DEF j
<1>3. Known(j)
  BY <1>1 DEF Known
<1>4. ASSUME NEW a \in 1..Len(j), NEW b \in 1..Len(j), a < b, j[a] # Fragment, j[b] # Fragment
      PROVE  j[a] < j[b]
  <2>1. CASE b \in 1..Len(q) /\ j[b] = q[b]
    <3>1. a \in 1..Len(q) /\ j[a] = q[a]
      BY <1>1, <1>4, <2>1
    <3> QED  BY <1>4, <2>1, <3>1 DEF Rising
  <2>2. CASE b - Len(q) \in 1..Len(r) /\ j[b] = r[b - Len(q)]
    <3>1. CASE a \in 1..Len(q) /\ j[a] = q[a]
      BY <1>4, <2>2, <3>1 DEF Precedes
    <3>2. CASE a - Len(q) \in 1..Len(r) /\ j[a] = r[a - Len(q)]
      <4>1. a - Len(q) < b - Len(q)
        BY <1>4
      <4> QED  BY <1>4, <2>2, <3>2, <4>1 DEF Rising
    <3> QED  BY <1>1, <3>1, <3>2
  <2> QED  BY <1>1, <2>1, <2>2
<1>5. Rising(j)
  BY <1>4 DEF Rising
<1> QED  BY <1>3, <1>5 DEF j

\* What is written over the start of a list starts with what was written, and is
\* in order when the list was newer.
LEMMA OverOrdered ==
    ASSUME NEW q \in Seq(Nat), NEW r \in Seq(Nat), Rising(q), Rising(r), Precedes(q, r), Known(q), Known(r),
           NEW f \in Over(q, r), Len(ledger) \in Nat
    PROVE  /\ f \in Seq(Nat) /\ Rising(f) /\ Known(f)
           /\ Len(q) <= Len(f) /\ SubSeq(f, 1, Len(q)) = q
<1> DEFINE Good(t) == t \in Seq(Nat) /\ Rising(t) /\ Precedes(q, t) /\ Known(t)
<1>1. ASSUME NEW t, Good(t), f = q \o t
      PROVE  /\ f \in Seq(Nat) /\ Rising(f) /\ Known(f)
             /\ Len(q) <= Len(f) /\ SubSeq(f, 1, Len(q)) = q
  BY <1>1, JoinFacts, JoinOrdered
<1>2. CASE q = <<>> \/ r = <<>>
  <2>1. f = q \o r
    BY <1>2, Zenon DEF Over
  <2> QED  BY <1>1, <2>1
<1>3. CASE ~(q = <<>> \/ r = <<>>)
  <2>1. PICK rest \in Rest(r) : f = q \o rest
    BY <1>3 DEF Over
  <2>2. PICK k \in 1..Len(r) : \/ rest = SubSeq(r, k + 1, Len(r))
                              \/ rest = <<Fragment>> \o SubSeq(r, k + 1, Len(r))
    BY <2>1 DEF Rest
  <2> DEFINE tail == SubSeq(r, k + 1, Len(r))
  <2>3. /\ tail \in Seq(Nat) /\ Len(tail) = Len(r) - k
        /\ \A i \in 1..Len(tail) : tail[i] = r[k + i] /\ k + i \in 1..Len(r)
    <3>1. k + 1 \in 1..(Len(r) + 1)
      OBVIOUS
    <3>2. /\ tail \in Seq(Nat)
          /\ Len(tail) = Len(r) - (k + 1) + 1
          /\ \A i \in 1..(Len(r) - (k + 1) + 1) : tail[i] = r[k + 1 + i - 1]
      BY <3>1, SubSeqFacts
    <3> HIDE DEF tail
    <3> QED  BY <3>2
  <2> HIDE DEF tail
  <2>4. Good(tail)
    <3>1. Known(tail)
      BY <2>3 DEF Known
    <3>2. Precedes(q, tail)
      BY <2>3 DEF Precedes
    <3>3. Rising(tail)
      <4> SUFFICES ASSUME NEW i \in 1..Len(tail), NEW j \in 1..Len(tail), i < j,
                          tail[i] # Fragment, tail[j] # Fragment
                   PROVE  tail[i] < tail[j]
        BY DEF Rising
      <4>1. /\ k + i \in 1..Len(r) /\ tail[i] = r[k + i]
            /\ k + j \in 1..Len(r) /\ tail[j] = r[k + j]
        BY <2>3
      <4>2. k + i < k + j
        OBVIOUS
      <4> QED  BY <4>1, <4>2 DEF Rising
    <3> QED  BY <2>3, <3>1, <3>2, <3>3
  <2>5. CASE rest = tail
    BY <1>1, <2>1, <2>4, <2>5
  <2>6. CASE rest = <<Fragment>> \o tail
    <3> DEFINE one == <<Fragment>>
    <3>1. one \in Seq(Nat) /\ Len(one) = 1 /\ one[1] = Fragment /\ Fragment = 0
      BY DEF Fragment
    <3>2. rest = one \o tail
      BY <2>6
    <3> HIDE DEF one
    <3>3. Rising(one) /\ Known(one) /\ Precedes(one, tail) /\ Precedes(q, one)
      <4>1. \A i \in 1..Len(one) : i = 1
        BY <3>1
      <4>2. Rising(one) /\ Precedes(one, tail)
        BY <3>1, <4>1 DEF Rising, Precedes
      <4>3. Precedes(q, one)
        BY <3>1, <4>1 DEF Precedes
      <4>4. Known(one)
        BY <3>1, <4>1 DEF Known
      <4> QED  BY <4>2, <4>3, <4>4
    <3>4. Rising(rest) /\ Known(rest) /\ rest \in Seq(Nat)
      BY <2>4, <3>1, <3>2, <3>3, JoinOrdered, JoinFacts
    <3>5. /\ Len(rest) = Len(one) + Len(tail)
          /\ \A i \in 1..Len(one) : rest[i] = one[i]
          /\ \A i \in 1..Len(tail) : rest[Len(one) + i] = tail[i]
      BY <2>3, <3>1, <3>2, JoinFacts
    <3>6. ASSUME NEW i \in 1..Len(rest), rest[i] # Fragment
          PROVE  \E j \in 1..Len(tail) : rest[i] = tail[j]
      <4>1. i # 1
        BY <3>1, <3>5, <3>6
      <4>2. i - 1 \in 1..Len(tail) /\ Len(one) + (i - 1) = i
        BY <2>3, <3>1, <3>5, <4>1
      <4>3. rest[Len(one) + (i - 1)] = tail[i - 1]
        BY <3>5, <4>2
      <4> QED  BY <4>2, <4>3
    <3>7. Precedes(q, rest)
      BY <2>4, <3>6 DEF Precedes
    <3> QED  BY <1>1, <2>1, <3>4, <3>7
  <2> QED  BY <2>2, <2>5, <2>6 DEF tail
<1> QED  BY <1>2, <1>3

\* What an append of the entry id may make of the file: each line is one that was
\* there, what is left of one, or the entry at the end.
Longer(f, id) ==
    /\ f \in Seq(Nat) /\ Len(file) <= Len(f) /\ Len(f) <= Len(file) + 1
    /\ \A i \in 1..Len(f) :
          \/ f[i] = Fragment
          \/ i \in 1..Len(file) /\ f[i] = file[i]
          \/ i = Len(file) + 1 /\ f[i] = id

LEMMA AddedFacts ==
    ASSUME NEW id \in Nat, NEW x \in {id, Fragment}, NEW f \in Added(x),
           file \in Seq(Nat), ragged \in BOOLEAN, ragged => Len(file) > 0
    PROVE  Longer(f, id) /\ Len(f) > 0
<1>1. x \in Nat /\ Fragment \in Nat
  BY DEF Fragment
<1>2. CASE ragged
  <2>1. f = file \/ f = [file EXCEPT ![Len(file)] = Fragment]
    BY <1>2 DEF Added
  <2>2. CASE f = file
    BY <1>2, <2>2 DEF Longer
  <2>3. CASE f = [file EXCEPT ![Len(file)] = Fragment]
    <3>1. /\ f \in Seq(Nat) /\ Len(f) = Len(file)
          /\ \A i \in 1..Len(file) : f[i] = IF i = Len(file) THEN Fragment ELSE file[i]
      BY <1>1, <1>2, <2>3
    <3> QED  BY <1>2, <3>1 DEF Longer
  <2> QED  BY <2>1, <2>2, <2>3
<1>3. CASE ~ragged
  <2>1. f = Append(file, x)
    BY <1>3 DEF Added
  <2>2. /\ f \in Seq(Nat) /\ Len(f) = Len(file) + 1 /\ f[Len(file) + 1] = x
        /\ \A i \in 1..Len(file) : f[i] = file[i]
    BY <1>1, <2>1
  <2>3. \A i \in 1..Len(f) : i = Len(file) + 1 \/ i \in 1..Len(file)
    BY <2>2
  <2> QED  BY <2>2, <2>3 DEF Longer
<1> QED  BY <1>2, <1>3

\* A known entry is older than the next to be recorded.
LEMMA LongerOrdered ==
    ASSUME NEW id, id = Len(ledger) + 1, Len(ledger) \in Nat, NEW f, Longer(f, id),
           file \in Seq(Nat), Rising(file), Known(file)
    PROVE  /\ f \in Seq(Nat) /\ Rising(f) /\ \A i \in 1..Len(f) : f[i] \in 0..id
           /\ \A q \in Seq(Nat) : Precedes(q, file) /\ Known(q) => Precedes(q, f)
<1>1. /\ f \in Seq(Nat)
      /\ \A i \in 1..Len(f) : \/ f[i] = 0
                              \/ i \in 1..Len(file) /\ f[i] = file[i] /\ f[i] < id
                              \/ i = Len(file) + 1 /\ f[i] = id
  <2>1. \A i \in 1..Len(file) : file[i] < id
    BY DEF Known
  <2> QED  BY <2>1 DEF Longer, Fragment
<1>2. Rising(f)
  <2> SUFFICES ASSUME NEW i \in 1..Len(f), NEW j \in 1..Len(f), i < j, f[i] # 0, f[j] # 0
               PROVE  f[i] < f[j]
    BY DEF Rising, Fragment
  <2>1. CASE j \in 1..Len(file) /\ f[j] = file[j]
    <3>1. i \in 1..Len(file) /\ f[i] = file[i]
      BY <1>1, <2>1
    <3> QED  BY <2>1, <3>1 DEF Rising, Fragment
  <2>2. CASE j = Len(file) + 1 /\ f[j] = id
    BY <1>1, <2>2
  <2> QED  BY <1>1, <2>1, <2>2
<1>3. \A i \in 1..Len(f) : f[i] \in 0..id
  <2>1. \A i \in 1..Len(f) : f[i] \in Nat
    BY <1>1
  <2> QED  BY <1>1, <2>1
<1>4. ASSUME NEW q \in Seq(Nat), Precedes(q, file), Known(q) PROVE Precedes(q, f)
  <2> SUFFICES ASSUME NEW i \in 1..Len(q), NEW j \in 1..Len(f), q[i] # 0, f[j] # 0
               PROVE  q[i] < f[j]
    BY DEF Precedes, Fragment
  <2>1. q[i] < id
    BY <1>4 DEF Known
  <2> QED  BY <1>1, <1>4, <2>1 DEF Precedes, Fragment
<1> QED  BY <1>1, <1>2, <1>3, <1>4

\* A write that stops inside a line leaves what a whole line there would have.
LEMMA PartIsOver ==
    ASSUME NEW q \in Seq(Nat), NEW x \in Nat, file \in Seq(Nat), WritesPart(q, x)
    PROVE  file' \in Over(Append(q, x), file)
<1> DEFINE w == Append(q, x)
<1>1. w \in Seq(Nat) /\ w # <<>>
  OBVIOUS
<1>2. \/ file' = w
      \/ \E k \in 1..Len(file) : file' = w \o SubSeq(file, k + 1, Len(file))
  BY DEF WritesPart
<1> HIDE DEF w
<1>3. w \o <<>> = w
  BY <1>1
<1>4. CASE file = <<>>
  <2>1. ~\E k \in 1..Len(file) : TRUE
    BY <1>4
  <2>2. file' = w \o file
    BY <1>2, <1>3, <1>4, <2>1
  <2> QED  BY <1>4, <2>2 DEF Over, w
<1>5. CASE file # <<>>
  <2>1. \E k \in 1..Len(file) : file' = w \o SubSeq(file, k + 1, Len(file))
    <3>1. CASE file' = w
      <4>1. Len(file) \in 1..Len(file) /\ SubSeq(file, Len(file) + 1, Len(file)) = <<>>
        BY <1>5
      <4> QED  BY <1>3, <3>1, <4>1
    <3> QED  BY <1>2, <3>1
  <2>2. PICK k \in 1..Len(file) : file' = w \o SubSeq(file, k + 1, Len(file))
    BY <2>1
  <2>3. SubSeq(file, k + 1, Len(file)) \in Rest(file)
    BY DEF Rest
  <2> QED  BY <1>1, <1>5, <2>2, <2>3 DEF Over, w
<1> QED  BY <1>4, <1>5

\* What a rewrite that stopped wrote: its lines up to where it stopped, the last
\* of which may be left in part.
LEMMA StoppedWrite ==
    ASSUME TypeOK, NEW p \in Shell, RewriteFails(p), at[p] = "write"
    PROVE  \E w \in Seq(Nat) : /\ file' \in Over(w, file) /\ Len(w) <= Len(out[p])
                               /\ \A i \in 1..Len(w) : w[i] = Fragment \/ w[i] = out[p][i]
<1>1. out[p] \in Seq(Nat) /\ file \in Seq(Nat) /\ Fragment \in Nat
  BY DEF TypeOK, Fragment
<1>2. \/ \E n \in 0..Len(out[p]) : WritesLines(SubSeq(out[p], 1, n))
      \/ \E n \in 1..Len(out[p]) : \E x \in {out[p][n], Fragment} : WritesPart(SubSeq(out[p], 1, n - 1), x)
  BY DEF RewriteFails
<1>3. ASSUME NEW n \in 0..Len(out[p]), WritesLines(SubSeq(out[p], 1, n))
      PROVE  \E w \in Seq(Nat) : /\ file' \in Over(w, file) /\ Len(w) <= Len(out[p])
                                 /\ \A i \in 1..Len(w) : w[i] = Fragment \/ w[i] = out[p][i]
  <2> DEFINE w == SubSeq(out[p], 1, n)
  <2>1. w \in Seq(Nat) /\ Len(w) = n /\ \A i \in 1..n : w[i] = out[p][i]
    BY <1>1, PrefixFacts
  <2>2. file' \in Over(w, file)
    BY <1>3 DEF WritesLines
  <2> HIDE DEF w
  <2> QED  BY <2>1, <2>2
<1>4. ASSUME NEW n \in 1..Len(out[p]), NEW x \in {out[p][n], Fragment}, WritesPart(SubSeq(out[p], 1, n - 1), x)
      PROVE  \E w \in Seq(Nat) : /\ file' \in Over(w, file) /\ Len(w) <= Len(out[p])
                                 /\ \A i \in 1..Len(w) : w[i] = Fragment \/ w[i] = out[p][i]
  <2> DEFINE q == SubSeq(out[p], 1, n - 1)
             w == Append(q, x)
  <2>1. n - 1 \in 0..Len(out[p])
    BY <1>1
  <2>2. q \in Seq(Nat) /\ Len(q) = n - 1 /\ \A i \in 1..(n - 1) : q[i] = out[p][i]
    BY <1>1, <2>1, PrefixFacts
  <2>3. x \in Nat
    BY <1>1
  <2>4. WritesPart(q, x)
    BY <1>4
  <2> HIDE DEF q
  <2>5. file' \in Over(w, file)
    BY <1>1, <2>2, <2>3, <2>4, PartIsOver
  <2>6. w \in Seq(Nat) /\ Len(w) = n /\ w[n] = x /\ \A i \in 1..(n - 1) : w[i] = q[i]
    BY <2>2, <2>3
  <2> HIDE DEF w
  <2>7. \A i \in 1..Len(w) : w[i] = Fragment \/ w[i] = out[p][i]
    <3> SUFFICES ASSUME NEW i \in 1..Len(w) PROVE w[i] = Fragment \/ w[i] = out[p][i]
      OBVIOUS
    <3>1. CASE i = n
      BY <2>6, <3>1
    <3>2. CASE i # n
      <4>1. i \in 1..(n - 1)
        BY <2>6, <3>2
      <4> QED  BY <2>2, <2>6, <4>1
    <3> QED  BY <3>1, <3>2
  <2> QED  BY <2>5, <2>6, <2>7
<1> QED  BY <1>2, <1>3, <1>4

-----------------------------------------------------------------------------
(* The inductive invariant. *)

\* Only an append or a rewrite that failed leaves a line without its end.
Unfinished == ragged => MayFail /\ Len(file) > 0

IInv == TypeOK /\ Ordered /\ Unfinished

LEMMA ElementType ==
    ASSUME NEW S, NEW q \in Seq(S), NEW i \in 1..Len(q)
    PROVE  q[i] \in S
  OBVIOUS

LEMMA LoadedType ==
    ASSUME IInv, NEW lines \in Seq(Nat), Known(lines)
    PROVE  Loaded(lines) \in Seq(NodeType)
<1>1. ASSUME NEW i \in 1..Len(lines) PROVE Node(lines, i) \in NodeType
  <2> DEFINE p == IF lines[i] = Fragment THEN 0 ELSE ledger[lines[i]].parent
  <2>1. lines[i] \in 0..Len(ledger) /\ ledger \in Seq([cmd : Command, parent : Nat])
    BY DEF Known, IInv, TypeOK
  <2>2. p \in Nat
    <3>1. CASE lines[i] # 0
      <4>1. lines[i] \in 1..Len(ledger)
        BY <2>1, <3>1
      <4>2. ledger[lines[i]] \in [cmd : Command, parent : Nat]
        BY <2>1, <4>1, ElementType
      <4> QED  BY <3>1, <4>2 DEF Fragment
    <3>2. CASE lines[i] = 0
      BY <3>2 DEF Fragment
    <3> QED  BY <3>1, <3>2
  <2>3. Node(lines, i) = [id |-> lines[i], live |-> FALSE,
                          parent |-> IF p \in In(SubSeq(lines, 1, i - 1)) THEN p ELSE 0]
    BY DEF Node
  <2> HIDE DEF p
  <2>4. lines[i] \in Nat /\ (IF p \in In(SubSeq(lines, 1, i - 1)) THEN p ELSE 0) \in Nat
    BY <2>1, <2>2
  <2> QED  BY <2>3, <2>4 DEF NodeType
<1> QED  BY <1>1 DEF Loaded

LEMMA InitInv == Init => IInv
<1> SUFFICES ASSUME Init PROVE IInv
  OBVIOUS
<1>1. PICK n \in 0..Earlier : \E c \in [1..n -> Command] :
        /\ ledger = [k \in 1..n |-> [cmd |-> c[k], parent |-> 0]]
        /\ file = [k \in 1..n |-> k]
        /\ ranAfter = [k \in 1..n |-> 0]
  BY Zenon DEF Init
<1>2. PICK c \in [1..n -> Command] :
        /\ ledger = [k \in 1..n |-> [cmd |-> c[k], parent |-> 0]]
        /\ file = [k \in 1..n |-> k]
        /\ ranAfter = [k \in 1..n |-> 0]
  BY <1>1
<1>3. n \in Nat
  BY HistoryAssumption DEF HistoryAssumption
<1>4. /\ file \in Seq(Nat) /\ Len(file) = n /\ \A k \in 1..n : file[k] = k
  BY <1>2, <1>3
<1>5. ledger \in Seq([cmd : Command, parent : Nat]) /\ Len(ledger) = n
  <2>1. \A k \in 1..n : [cmd |-> c[k], parent |-> 0] \in [cmd : Command, parent : Nat]
    OBVIOUS
  <2> QED  BY <1>2, <1>3, <2>1
<1>6. TypeOK
  <2>1. chain \in [Session -> Seq(NodeType)] /\ out \in [Shell -> Seq(Nat)]
    BY DEF Init
  <2> QED  BY <1>4, <1>5, <2>1, HistoryAssumption DEF TypeOK, Init, Places, Holding, HistoryAssumption
<1>7. Ordered
  <2>1. \A p \in Shell : at[p] = "idle"
    BY DEF Init
  <2>2. Rising(file) /\ Known(file)
    BY <1>3, <1>4, <1>5 DEF Rising, Known
  <2> QED  BY <2>1, <2>2 DEF Ordered
<1>8. Unfinished
  BY DEF Init, Unfinished
<1> QED  BY <1>6, <1>7, <1>8 DEF IInv

\* What does not touch the file, nor what compact holds, keeps the order.
LEMMA OrderKept ==
    ASSUME IInv, UNCHANGED <<disk, out, ledger>>,
           \A p \in Shell : at'[p] \in {"cut", "write"} => at'[p] = at[p]
    PROVE  Ordered' /\ Unfinished'
  BY DEF IInv, Ordered, Rising, Known, Precedes, Unfinished, disk

LEMMA StepLoad ==
    ASSUME IInv, NEW p \in Shell, NEW s \in Session, Load(p, s)
    PROVE  IInv'
<1> USE DEF IInv
<1> DEFINE c == Loaded(NewestOf(file, Limit))
<1>1. NewestOf(file, Limit) \in Seq(Nat) /\ Known(NewestOf(file, Limit))
  BY NewestFacts, NewestOrdered, HistoryAssumption DEF TypeOK, Ordered, HistoryAssumption
<1>2. c \in Seq(NodeType)
  BY <1>1, LoadedType
<1> HIDE DEF c
<1>3. /\ chain' = [chain EXCEPT ![s] = c] \/ chain' = [chain EXCEPT ![s] = <<>>]
      /\ at[p] = "idle"
      /\ \E a \in {"lock", "idle"} : at' = [at EXCEPT ![p] = a]
      /\ shell' = [shell EXCEPT ![s] = p] /\ appended' = [appended EXCEPT ![s] = 0]
      /\ UNCHANGED <<out, lock, disk, ledger>>
  <2>1. at' = at => at' = [at EXCEPT ![p] = "idle"]
    BY DEF Load, TypeOK
  <2> QED  BY <2>1 DEF Load, c
<1>4. chain' \in [Session -> Seq(NodeType)]
  <2>1. <<>> \in Seq(NodeType)
    OBVIOUS
  <2> QED  BY <1>2, <1>3, <2>1 DEF TypeOK
<1>5. TypeOK'
  BY <1>3, <1>4 DEF TypeOK, Places, Holding, disk
<1>6. Ordered' /\ Unfinished'
  BY <1>3, OrderKept DEF TypeOK
<1> QED  BY <1>5, <1>6

LEMMA StepFork ==
    ASSUME IInv, NEW s \in Session, NEW t \in Session, Fork(s, t)
    PROVE  IInv'
<1> USE DEF IInv
<1>1. TypeOK'
  BY DEF TypeOK, Fork, disk
<1>2. Ordered' /\ Unfinished'
  BY OrderKept DEF Fork, TypeOK
<1> QED  BY <1>1, <1>2

LEMMA StepRebuild ==
    ASSUME IInv, NEW s \in Session, Clear(s) \/ Delete(s)
    PROVE  IInv'
<1> USE DEF IInv
<1>1. PICK nodes \in Seq(NodeType) : Rebuild(s, nodes)
  <2>1. CASE Clear(s)
    <3>1. <<>> \in Seq(NodeType)
      OBVIOUS
    <3> QED  BY <2>1, <3>1 DEF Clear
  <2>2. CASE Delete(s)
    <3>1. PICK n \in 1..Len(chain[s]) :
            LET kept == RemoveAt(chain[s], n) IN Rebuild(s, [i \in 1..Len(kept) |-> Bare(kept[i])])
      BY <2>2 DEF Delete
    <3> DEFINE kept == RemoveAt(chain[s], n)
    <3>2. chain[s] \in Seq(NodeType)
      BY DEF TypeOK
    <3>3. kept \in Seq(NodeType)
      BY <3>2, RemoveFacts
    <3>4. Rebuild(s, [i \in 1..Len(kept) |-> Bare(kept[i])])
      BY <3>1
    <3> HIDE DEF kept
    <3>5. \A i \in 1..Len(kept) : Bare(kept[i]) \in NodeType
      <4> SUFFICES ASSUME NEW i \in 1..Len(kept) PROVE Bare(kept[i]) \in NodeType
        OBVIOUS
      <4>1. kept[i] \in NodeType
        BY <3>3, ElementType
      <4> QED  BY <4>1 DEF Bare, NodeType
    <3>6. [i \in 1..Len(kept) |-> Bare(kept[i])] \in Seq(NodeType)
      BY <3>3, <3>5
    <3> QED  BY <3>4, <3>6
  <2> QED  BY <2>1, <2>2
<1>2. TypeOK'
  BY <1>1 DEF TypeOK, Rebuild, disk
<1>3. Ordered' /\ Unfinished'
  BY <1>1, OrderKept DEF Rebuild, TypeOK
<1> QED  BY <1>2, <1>3

LEMMA StepClose ==
    ASSUME IInv, NEW s \in Session, Close(s)
    PROVE  IInv'
<1> USE DEF IInv
<1>1. TypeOK'
  BY DEF TypeOK, Close, disk
<1>2. Ordered' /\ Unfinished'
  BY OrderKept DEF Close, TypeOK
<1> QED  BY <1>1, <1>2

\* What record leaves of the file.
LEMMA RecordedFile ==
    ASSUME IInv, NEW s \in Session, NEW cmd \in Command, Record(s, cmd)
    PROVE  /\ Longer(file', Len(ledger) + 1) /\ file \in Seq(Nat)
           /\ text' \in BOOLEAN /\ ragged' \in BOOLEAN /\ Unfinished'
<1> DEFINE id == Len(ledger) + 1
<1>1. /\ id \in Nat /\ file \in Seq(Nat) /\ ragged \in BOOLEAN /\ text \in BOOLEAN
      /\ ragged => MayFail /\ Len(file) > 0
  BY DEF IInv, TypeOK, Unfinished
<1>2. \/ file' \in Added(id) /\ ragged' = FALSE /\ text' = text
      \/ MayFail /\ AppendFails(id)
  BY DEF Record
<1> HIDE DEF id
<1>3. CASE file' \in Added(id) /\ ragged' = FALSE /\ text' = text
  <2>1. Longer(file', id)
    BY <1>1, <1>3, AddedFacts
  <2> QED  BY <1>1, <1>3, <2>1 DEF Unfinished, id
<1>4. CASE MayFail /\ UNCHANGED disk
  <2>1. file' = file /\ text' = text /\ ragged' = ragged
    BY <1>4 DEF disk
  <2>2. Longer(file, id)
    BY <1>1 DEF Longer
  <2>3. Longer(file', id) /\ Unfinished'
    BY <1>1, <2>1, <2>2 DEF Unfinished
  <2> QED  BY <1>1, <2>1, <2>3 DEF id
<1>5. CASE MayFail /\ file' \in Added(id) \cup Added(Fragment) /\ ragged' = TRUE /\ text' \in {text, FALSE}
  <2>1. Longer(file', id) /\ Len(file') > 0
    BY <1>1, <1>5, AddedFacts
  <2> QED  BY <1>1, <1>5, <2>1 DEF Unfinished, id
<1> QED  BY <1>2, <1>3, <1>4, <1>5 DEF AppendFails

LEMMA StepRecord ==
    ASSUME IInv, NEW s \in Session, NEW cmd \in Command, Record(s, cmd)
    PROVE  IInv'
<1> USE DEF IInv
<1> DEFINE p == shell[s]
           id == Len(ledger) + 1
           entry == [cmd |-> cmd, parent |-> Predecessor(chain[s])]
           node == [id |-> id, live |-> TRUE, parent |-> Predecessor(chain[s])]
<1>1. p \in Shell /\ at[p] = "idle"
  BY DEF Record, TypeOK
<1>2. Len(ledger) \in Nat /\ id \in Nat
  BY DEF TypeOK
<1>3. Predecessor(chain[s]) \in Nat
  <2>1. chain[s] \in Seq(NodeType)
    BY DEF TypeOK
  <2>2. CASE chain[s] # <<>>
    <3>1. chain[s][Len(chain[s])] \in NodeType
      BY <2>1, <2>2
    <3> QED  BY <3>1 DEF Predecessor, NodeType
  <2>3. CASE chain[s] = <<>>
    BY <2>3 DEF Predecessor
  <2> QED  BY <2>2, <2>3
<1>4. /\ ledger' = Append(ledger, entry)
      /\ chain' = [chain EXCEPT ![s] = Append(chain[s], node)]
      /\ at' = [at EXCEPT ![p] = IF Responsible(appended[s] + 1) THEN "count" ELSE "idle"]
      /\ appended' = [appended EXCEPT ![s] = IF Responsible(appended[s] + 1) THEN 0 ELSE appended[s] + 1]
      /\ UNCHANGED <<shell, out, lock>>
  BY DEF Record
<1>5. /\ ledger' \in Seq([cmd : Command, parent : Nat]) /\ Len(ledger') = id
  BY <1>3, <1>4 DEF TypeOK
<1>6. chain' \in [Session -> Seq(NodeType)]
  <2>1. node \in NodeType
    BY <1>2, <1>3 DEF NodeType
  <2> HIDE DEF node
  <2>2. Append(chain[s], node) \in Seq(NodeType)
    BY <2>1 DEF TypeOK
  <2> QED  BY <1>4, <2>2 DEF TypeOK
<1> HIDE DEF node, entry
<1>7. /\ Longer(file', id) /\ file \in Seq(Nat)
      /\ text' \in BOOLEAN /\ ragged' \in BOOLEAN /\ Unfinished'
  BY RecordedFile
<1>8. PICK f : f = file'
  OBVIOUS
<1>9. /\ f \in Seq(Nat) /\ Rising(f) /\ \A i \in 1..Len(f) : f[i] \in 0..id
      /\ \A q \in Seq(Nat) : Precedes(q, file) /\ Known(q) => Precedes(q, f)
  <2>1. Longer(f, id) /\ Rising(file) /\ Known(file) /\ id = Len(ledger) + 1
    BY <1>7, <1>8 DEF Ordered
  <2> HIDE DEF id
  <2> QED  BY <1>2, <1>7, <2>1, LongerOrdered
<1>10. TypeOK'
  BY <1>1, <1>4, <1>5, <1>6, <1>7, <1>8, <1>9 DEF TypeOK, Places, Holding
<1>11. ASSUME NEW q \in Shell, at'[q] \in {"cut", "write"}
       PROVE  /\ at[q] = at'[q] /\ out'[q] = out[q] /\ out[q] \in Seq(Nat)
              /\ Rising(out[q]) /\ Known(out[q])
              /\ \A i \in 1..Len(out[q]) : out[q][i] \in 0..Len(ledger')
  <2>1. at[q] = at'[q] /\ out'[q] = out[q] /\ out[q] \in Seq(Nat)
    BY <1>1, <1>4, <1>11 DEF TypeOK
  <2>2. Rising(out[q]) /\ Known(out[q])
    BY <1>11, <2>1 DEF Ordered
  <2> QED  BY <1>2, <1>5, <2>1, <2>2 DEF Known
<1>12. ASSUME NEW q \in Shell, at'[q] = "write"
       PROVE  Precedes(out[q], f)
  BY <1>9, <1>11, <1>12 DEF Ordered
<1>13. Ordered'
  <2>1. Rising(file)' /\ Known(file)'
    BY <1>5, <1>8, <1>9 DEF Rising, Known
  <2>2. \A q \in Shell : at'[q] \in {"cut", "write"} => Rising(out[q])' /\ Known(out[q])'
    BY <1>11 DEF Rising, Known
  <2>3. \A q \in Shell : at'[q] = "write" => Precedes(out[q], file)'
    BY <1>8, <1>11, <1>12 DEF Precedes
  <2> QED  BY <2>1, <2>2, <2>3 DEF Ordered
<1> QED  BY <1>7, <1>10, <1>13

\* compact: each step that leaves the file alone.
LEMMA StepQuiet ==
    ASSUME IInv, NEW p \in Shell, Count(p) \/ TryLock(p)
    PROVE  IInv'
<1> USE DEF IInv
<1>1. /\ UNCHANGED <<shell, chain, appended, out, disk, ledger>>
      /\ \/ at[p] = "count" /\ UNCHANGED lock /\ \E a \in {"lock", "idle"} : at' = [at EXCEPT ![p] = a]
         \/ at[p] = "lock" /\ lock = Nobody /\ lock' = p /\ at' = [at EXCEPT ![p] = "read"]
         \/ at[p] = "lock" /\ UNCHANGED lock /\ at' = [at EXCEPT ![p] = "idle"]
  BY DEF Count, TryLock, GivesUp
<1>2. TypeOK'
  BY <1>1, HistoryAssumption DEF TypeOK, Places, Holding, HistoryAssumption, disk
<1>3. Ordered' /\ Unfinished'
  BY <1>1, OrderKept DEF TypeOK
<1> QED  BY <1>2, <1>3

LEMMA StepReread ==
    ASSUME IInv, NEW p \in Shell, Reread(p)
    PROVE  IInv'
<1> USE DEF IInv
<1> DEFINE w == NewestOf(file, Limit)
<1>1. w \in Seq(Nat) /\ Rising(w) /\ Known(w)
  BY NewestFacts, NewestOrdered, HistoryAssumption DEF TypeOK, Ordered, HistoryAssumption
<1>2. CASE /\ out' = [out EXCEPT ![p] = w] /\ at' = [at EXCEPT ![p] = "cut"] /\ at[p] = "read"
           /\ UNCHANGED <<shell, chain, appended, lock, disk, ledger>>
  <2> HIDE DEF w
  <2>1. TypeOK'
    BY <1>1, <1>2 DEF TypeOK, Places, Holding, disk
  <2>2. ASSUME NEW q \in Shell, at'[q] \in {"cut", "write"}
        PROVE  /\ Rising(out'[q]) /\ Known(out'[q])
               /\ at'[q] = "write" => Precedes(out'[q], file)
    <3>1. CASE q = p
      BY <1>1, <1>2, <3>1 DEF TypeOK
    <3>2. CASE q # p
      BY <1>2, <2>2, <3>2 DEF TypeOK, Ordered
    <3> QED  BY <3>1, <3>2
  <2>3. Ordered' /\ Unfinished'
    BY <1>2, <2>2 DEF Ordered, Rising, Known, Precedes, Unfinished, disk
  <2> QED  BY <2>1, <2>3
<1>3. CASE at[p] = "read" /\ GivesUp(p) /\ lock' = Nobody
  <2>1. /\ at' = [at EXCEPT ![p] = "idle"] /\ lock = p
        /\ UNCHANGED <<shell, chain, appended, out, disk, ledger>>
    BY <1>3 DEF GivesUp, TypeOK, Holding
  <2>2. TypeOK'
    BY <1>3, <2>1, HistoryAssumption DEF TypeOK, Places, Holding, HistoryAssumption, disk
  <2>3. Ordered' /\ Unfinished'
    BY <2>1, OrderKept DEF TypeOK
  <2> QED  BY <2>2, <2>3
<1> QED  BY <1>2, <1>3 DEF Reread, Keeps

\* Only the shell with the lock is inside compact.
LEMMA Alone ==
    ASSUME TypeOK, NEW p \in Shell, NEW q \in Shell, at[p] \in Holding, at[q] \in Holding
    PROVE  p = q
  BY DEF TypeOK

LEMMA StepTruncate ==
    ASSUME IInv, NEW p \in Shell, Truncate(p)
    PROVE  IInv'
<1> USE DEF IInv
<1>1. /\ file' = <<>> /\ text' = TRUE /\ ragged' = FALSE
      /\ at' = [at EXCEPT ![p] = "write"] /\ at[p] = "cut"
      /\ UNCHANGED <<shell, chain, appended, out, lock, ledger>>
  BY DEF Truncate
<1>2. file' \in Seq(Nat) /\ Len(file') = 0
  BY <1>1
<1>3. TypeOK'
  BY <1>1, <1>2 DEF TypeOK, Places, Holding
<1>4. \A q \in Shell : at'[q] \in {"cut", "write"} => at[q] \in {"cut", "write"}
  BY <1>1 DEF TypeOK
<1>5. Ordered' /\ Unfinished'
  BY <1>1, <1>2, <1>4 DEF Ordered, Rising, Known, Precedes, Unfinished
<1> QED  BY <1>3, <1>5

\* The end of compact, however the file is left.
LEMMA EndInv ==
    ASSUME IInv, NEW p \in Shell, EndOfCompact(p), Rising(file)', Known(file)',
           shell' \in [Session -> Shell \cup {Nobody}], chain' \in [Session -> Seq(NodeType)],
           appended' \in [Session -> Nat], ledger' = ledger, file' \in Seq(Nat),
           text' \in BOOLEAN, ragged' \in BOOLEAN, Unfinished',
           file' = file \/ at[p] \in Holding
    PROVE  IInv'
<1> USE DEF IInv
<1>1. /\ at' = [at EXCEPT ![p] = "idle"] /\ out' = [out EXCEPT ![p] = <<>>]
      /\ lock' = IF lock = p THEN Nobody ELSE lock
  BY DEF EndOfCompact, Released
<1>2. <<>> \in Seq(Nat)
  OBVIOUS
<1>3. TypeOK'
  <2>1. at' \in [Shell -> Places] /\ out' \in [Shell -> Seq(Nat)] /\ lock' \in Shell \cup {Nobody}
    BY <1>1, <1>2 DEF TypeOK, Places
  <2>2. \A q \in Shell : lock' = q <=> at'[q] \in Holding
    BY <1>1, HistoryAssumption DEF TypeOK, Holding, HistoryAssumption
  <2>3. ledger' \in Seq([cmd : Command, parent : Nat])
    BY DEF TypeOK
  <2> QED  BY <2>1, <2>2, <2>3 DEF TypeOK
<1>4. ASSUME NEW q \in Shell, at'[q] \in {"cut", "write"}
      PROVE  /\ Rising(out'[q]) /\ Known(out'[q])
             /\ at'[q] = "write" => Precedes(out'[q], file')
  <2>1. q # p /\ at'[q] = at[q] /\ out'[q] = out[q]
    BY <1>1, <1>4 DEF TypeOK
  <2>2. ~(at[p] \in Holding)
    BY <1>4, <2>1, Alone DEF Holding
  <2> QED  BY <1>4, <2>1, <2>2 DEF Ordered
<1>5. Ordered'
  BY <1>4 DEF Ordered, Rising, Known, Precedes
<1> QED  BY <1>3, <1>5

LEMMA StepWriteBack ==
    ASSUME IInv, NEW p \in Shell, WriteBack(p)
    PROVE  IInv' /\ Len(out[p]) <= Len(file') /\ SubSeq(file', 1, Len(out[p])) = out[p]
<1>1. /\ at[p] = "write" /\ WritesLines(out[p]) /\ EndOfCompact(p)
      /\ UNCHANGED <<shell, chain, appended, ledger>>
  BY DEF WriteBack
<1>2. /\ out[p] \in Seq(Nat) /\ file \in Seq(Nat) /\ Len(ledger) \in Nat
      /\ Rising(out[p]) /\ Known(out[p]) /\ Rising(file) /\ Known(file) /\ Precedes(out[p], file)
  BY <1>1 DEF IInv, TypeOK, Ordered
<1>3. /\ file' \in Seq(Nat) /\ Rising(file') /\ Known(file')
      /\ Len(out[p]) <= Len(file') /\ SubSeq(file', 1, Len(out[p])) = out[p]
  BY <1>1, <1>2, OverOrdered DEF WritesLines
<1>4. Known(file)'
  BY <1>1, <1>3 DEF Known
<1>5. Rising(file)'
  BY <1>3 DEF Rising
<1>6. text' \in BOOLEAN /\ ragged' \in BOOLEAN /\ (ragged' => ragged /\ Len(file') > Len(out[p]))
  BY <1>1 DEF WritesLines
<1>7. Unfinished'
  BY <1>2, <1>3, <1>6 DEF IInv, Unfinished
<1>8. IInv'
  BY <1>1, <1>3, <1>4, <1>5, <1>6, <1>7, EndInv DEF IInv, TypeOK, Holding
<1> QED  BY <1>3, <1>8

\* What a rewrite that failed wrote is in order and older than what is there.
LEMMA StoppedOrdered ==
    ASSUME IInv, NEW p \in Shell, at[p] = "write", NEW w \in Seq(Nat), Len(w) <= Len(out[p]),
           \A i \in 1..Len(w) : w[i] = Fragment \/ w[i] = out[p][i]
    PROVE  Rising(w) /\ Known(w) /\ Precedes(w, file)
<1>1. /\ out[p] \in Seq(Nat) /\ file \in Seq(Nat) /\ Len(ledger) \in Nat
      /\ Rising(out[p]) /\ Known(out[p]) /\ Precedes(out[p], file)
  BY DEF IInv, TypeOK, Ordered
<1>2. \A i \in 1..Len(w) : i \in 1..Len(out[p])
  BY <1>1
<1>3. Rising(w)
  BY <1>1, <1>2 DEF Rising
<1>4. Known(w)
  <2>1. Fragment \in 0..Len(ledger)
    BY <1>1 DEF Fragment
  <2> QED  BY <1>1, <1>2, <2>1 DEF Known
<1>5. Precedes(w, file)
  BY <1>1, <1>2 DEF Precedes
<1> QED  BY <1>3, <1>4, <1>5

LEMMA StepRewriteFails ==
    ASSUME IInv, NEW p \in Shell, RewriteFails(p)
    PROVE  IInv'
<1>1. /\ at[p] \in {"cut", "write"} /\ EndOfCompact(p) /\ MayFail
      /\ UNCHANGED <<shell, chain, appended, ledger>>
  BY DEF RewriteFails
<1>2. /\ out[p] \in Seq(Nat) /\ file \in Seq(Nat) /\ Len(ledger) \in Nat
      /\ Rising(file) /\ Known(file)
  BY <1>1 DEF IInv, TypeOK, Ordered
<1>3. file' \in Seq(Nat) /\ Rising(file') /\ Known(file')
  <2>1. CASE at[p] = "cut"
    <3>1. file' = file
      BY <2>1 DEF RewriteFails, disk
    <3> QED  BY <1>2, <3>1
  <2>2. CASE at[p] = "write"
    <3>1. PICK w \in Seq(Nat) : /\ file' \in Over(w, file) /\ Len(w) <= Len(out[p])
                                /\ \A i \in 1..Len(w) : w[i] = Fragment \/ w[i] = out[p][i]
      BY <2>2, StoppedWrite DEF IInv
    <3>2. Rising(w) /\ Known(w) /\ Precedes(w, file)
      BY <2>2, <3>1, StoppedOrdered
    <3> QED  BY <1>2, <3>1, <3>2, OverOrdered
  <2> QED  BY <1>1, <2>1, <2>2
<1>4. Known(file)'
  BY <1>1, <1>3 DEF Known
<1>5. Rising(file)'
  BY <1>3 DEF Rising
<1>6. text' \in BOOLEAN /\ ragged' \in BOOLEAN /\ Unfinished'
  <2>1. CASE at[p] = "cut"
    BY <2>1 DEF RewriteFails, disk, IInv, TypeOK, Unfinished
  <2>2. CASE at[p] = "write" /\ \E n \in 0..Len(out[p]) : WritesLines(SubSeq(out[p], 1, n))
    <3>1. PICK n \in 0..Len(out[p]) : WritesLines(SubSeq(out[p], 1, n))
      BY <2>2
    <3>2. Len(SubSeq(out[p], 1, n)) = n
      BY <1>2, PrefixFacts
    <3>3. text' \in BOOLEAN /\ ragged' \in BOOLEAN /\ (ragged' => ragged /\ Len(file') > n)
      BY <3>1, <3>2 DEF WritesLines
    <3>4. Len(file') > n => Len(file') > 0
      BY <1>2, <1>3
    <3> QED  BY <1>1, <3>3, <3>4 DEF Unfinished
  <2>3. CASE /\ at[p] = "write"
             /\ \E n \in 1..Len(out[p]) : \E x \in {out[p][n], Fragment} : WritesPart(SubSeq(out[p], 1, n - 1), x)
    <3>0. PICK n \in 1..Len(out[p]) : \E x \in {out[p][n], Fragment} : WritesPart(SubSeq(out[p], 1, n - 1), x)
      BY <2>3
    <3>1. PICK x \in {out[p][n], Fragment} : WritesPart(SubSeq(out[p], 1, n - 1), x)
      BY <3>0
    <3> DEFINE q == SubSeq(out[p], 1, n - 1)
    <3>2. q \in Seq(Nat) /\ x \in Nat
      <4>1. n - 1 \in 0..Len(out[p])
        BY <1>2
      <4> QED  BY <1>2, <4>1, PrefixFacts DEF Fragment
    <3>3. WritesPart(q, x)
      BY <3>1
    <3> HIDE DEF q
    <3>4. file' \in Over(Append(q, x), file)
      BY <1>2, <3>2, <3>3, PartIsOver
    <3>5. text' \in BOOLEAN /\ ragged' \in BOOLEAN
      BY <3>3 DEF WritesPart, IInv, TypeOK
    <3>6. Len(file') > 0
      <4>1. Append(q, x) \in Seq(Nat) /\ Len(Append(q, x)) > 0
        BY <3>2
      <4>2. \A t \in Seq(Nat) : Len(Append(q, x) \o t) > 0
        BY <4>1, JoinFacts
      <4>3. \E t \in Seq(Nat) : file' = Append(q, x) \o t
        <5>1. CASE file' = Append(q, x)
          <6>1. <<>> \in Seq(Nat) /\ Append(q, x) \o <<>> = Append(q, x)
            BY <4>1
          <6> QED  BY <5>1, <6>1
        <5>2. ASSUME NEW k \in 1..Len(file), file' = Append(q, x) \o SubSeq(file, k + 1, Len(file))
              PROVE  \E t \in Seq(Nat) : file' = Append(q, x) \o t
          <6>1. k + 1 \in 1..(Len(file) + 1)
            BY <1>2
          <6>2. SubSeq(file, k + 1, Len(file)) \in Seq(Nat)
            BY <1>2, <6>1, SubSeqFacts
          <6> QED  BY <5>2, <6>2
        <5> QED  BY <3>3, <5>1, <5>2 DEF WritesPart
      <4> QED  BY <4>2, <4>3
    <3> QED  BY <1>1, <3>5, <3>6 DEF Unfinished
  <2> QED  BY <1>1, <2>1, <2>2, <2>3 DEF RewriteFails
<1> QED  BY <1>1, <1>3, <1>4, <1>5, <1>6, EndInv DEF IInv, TypeOK, Holding

LEMMA StepCrash ==
    ASSUME IInv, NEW p \in Shell, Crash(p)
    PROVE  IInv'
<1>1. EndOfCompact(p) /\ UNCHANGED <<file, text, ragged, ledger>>
  BY DEF Crash, disk
<1>2. Rising(file)' /\ Known(file)' /\ file' \in Seq(Nat) /\ text' \in BOOLEAN /\ ragged' \in BOOLEAN
      /\ Unfinished'
  BY <1>1 DEF IInv, Ordered, Rising, Known, TypeOK, Unfinished
<1>3. /\ shell' \in [Session -> Shell \cup {Nobody}] /\ chain' \in [Session -> Seq(NodeType)]
      /\ appended' \in [Session -> Nat]
  BY DEF Crash, IInv, TypeOK
<1> QED  BY <1>1, <1>2, <1>3, EndInv

LEMMA StepInv == IInv /\ [Next]_vars => IInv'
<1> SUFFICES ASSUME IInv, [Next]_vars PROVE IInv'
  OBVIOUS
<1>1. CASE UNCHANGED vars
  BY <1>1 DEF vars, IInv, TypeOK, Ordered, Rising, Known, Precedes, Unfinished
<1>2. ASSUME NEW p \in Shell, NEW s \in Session, Load(p, s) PROVE IInv'
  BY <1>2, StepLoad
<1>3. ASSUME NEW s \in Session, NEW t \in Session, Fork(s, t) PROVE IInv'
  BY <1>3, StepFork
<1>4. ASSUME NEW s \in Session, NEW cmd \in Command, Record(s, cmd) PROVE IInv'
  BY <1>4, StepRecord
<1>5. ASSUME NEW p \in Shell, Compact(p) PROVE IInv'
  BY <1>5, StepQuiet, StepReread, StepTruncate, StepWriteBack, StepRewriteFails, StepCrash DEF Compact
<1>6. ASSUME NEW s \in Session, Clear(s) \/ Delete(s) \/ Close(s) PROVE IInv'
  BY <1>6, StepRebuild, StepClose
<1> QED  BY <1>1, <1>2, <1>3, <1>4, <1>5, <1>6 DEF Next

\* Every variable keeps its type, and a shell holds the lock exactly while it
\* is inside compact.
THEOREM TypeCorrect == Spec => []TypeOK
<1>1. IInv => TypeOK
  BY DEF IInv
<1> QED  BY <1>1, InitInv, StepInv, PTL DEF Spec

\* The file, and what is about to be written to its start, are in the order of
\* recording: no compaction, however it meets other shells' appends or ends,
\* puts an entry before an older one or brings one back twice.
THEOREM FileInOrder == Spec => []Ordered
<1>1. IInv => Ordered
  BY DEF IInv
<1> QED  BY <1>1, InitInv, StepInv, PTL DEF Spec

-----------------------------------------------------------------------------
(* History implements HistoryLog. *)

\* What HistoryLog sees of a state.
promised == <<Len(ledger), Kept, ~Rewriting /\ ragged, Rewriting>>

LEMMA InitLog == Init => Promise!Init
<1> SUFFICES ASSUME Init PROVE Promise!Init
  OBVIOUS
<1>1. PICK n \in 0..Earlier : \E c \in [1..n -> Command] :
        /\ ledger = [k \in 1..n |-> [cmd |-> c[k], parent |-> 0]]
        /\ file = [k \in 1..n |-> k]
        /\ ranAfter = [k \in 1..n |-> 0]
  BY Zenon DEF Init
<1>2. n \in Nat /\ Len(ledger) = n /\ file = [k \in 1..n |-> k]
  BY <1>1, HistoryAssumption DEF HistoryAssumption
<1>3. ~Rewriting
  BY HistoryAssumption DEF Init, Rewriting, HistoryAssumption
<1>4. Kept = [k \in 1..Len(ledger) |-> k]
  BY <1>2, <1>3 DEF Kept
<1>5. Rewriting = FALSE
  BY <1>3 DEF Rewriting
<1>6. (~Rewriting /\ ragged) = FALSE
  BY Zenon DEF Init
<1> QED  BY <1>2, <1>4, <1>5, <1>6 DEF Promise!Init

\* Who is rewriting, seen from the shell that holds the lock.
LEMMA WhoRewrites ==
    ASSUME TypeOK, NEW p \in Shell, lock = p
    PROVE  /\ Rewriting <=> at[p] \in {"cut", "write"}
           /\ Rewriting => Kept = out[p]
           /\ ~Rewriting => Kept = file
  BY HistoryAssumption DEF Rewriting, Kept, TypeOK, HistoryAssumption

LEMMA NobodyRewrites ==
    ASSUME lock = Nobody
    PROVE  ~Rewriting /\ Kept = file
  BY DEF Rewriting, Kept

\* A step that moves no shell into or out of a rewrite, nor the file outside one.
LEMMA Unseen ==
    ASSUME TypeOK, TypeOK', UNCHANGED ledger,
           Rewriting' <=> Rewriting,
           Rewriting => UNCHANGED lock /\ out'[lock] = out[lock],
           ~Rewriting => UNCHANGED <<file, ragged>>
    PROVE  UNCHANGED promised
<1>1. Kept' = Kept
  BY DEF Kept
<1>2. Rewriting' = Rewriting
  BY Zenon DEF Rewriting
<1>3. (~Rewriting /\ ragged)' = (~Rewriting /\ ragged)
  <2>1. CASE Rewriting
    <3>1. (~Rewriting /\ ragged) = FALSE
      BY <2>1, Zenon
    <3>2. (~Rewriting /\ ragged)' = FALSE
      BY <2>1, Zenon
    <3> QED  BY <3>1, <3>2
  <2>2. CASE ~Rewriting
    <3>1. ragged' = ragged /\ ragged \in BOOLEAN
      BY <2>2 DEF TypeOK
    <3>2. (~Rewriting /\ ragged) = ragged
      BY <2>2, <3>1, Zenon
    <3>3. (~Rewriting /\ ragged)' = ragged'
      BY <2>2, <3>1, Zenon
    <3> QED  BY <3>1, <3>2, <3>3
  <2> QED  BY <2>1, <2>2
<1> QED  BY <1>1, <1>2, <1>3 DEF promised

\* A step of one shell p outside its own rewrite leaves the rewrite of another.
LEMMA SameRewrite ==
    ASSUME TypeOK, TypeOK', NEW p \in Shell, 
           at[p] \notin {"cut", "write"}, at'[p] \notin {"cut", "write"},
           \A q \in Shell : q # p => at'[q] = at[q] /\ out'[q] = out[q]
    PROVE  /\ Rewriting' <=> Rewriting
           /\ Rewriting => UNCHANGED lock /\ out'[lock] = out[lock]
<1>1. ASSUME Rewriting PROVE Rewriting' /\ UNCHANGED lock /\ out'[lock] = out[lock]
  <2>1. lock \in Shell /\ lock # p /\ at[lock] \in {"cut", "write"}
    BY <1>1 DEF Rewriting, TypeOK
  <2>2. at'[lock] \in {"cut", "write"} /\ out'[lock] = out[lock]
    BY <2>1
  <2>3. lock' = lock
    BY <2>1, <2>2 DEF TypeOK, Holding
  <2>4. lock # Nobody
    BY <2>1, HistoryAssumption DEF HistoryAssumption
  <2> QED  BY <2>2, <2>3, <2>4 DEF Rewriting
<1>2. ASSUME Rewriting' PROVE Rewriting
  <2>1. lock' \in Shell /\ lock' # p /\ at'[lock'] \in {"cut", "write"}
    BY <1>2 DEF Rewriting, TypeOK
  <2>2. at[lock'] \in {"cut", "write"}
    BY <2>1
  <2>3. lock' = lock
    BY <2>1, <2>2 DEF TypeOK, Holding
  <2>4. lock # Nobody
    BY <2>1, <2>3, HistoryAssumption DEF HistoryAssumption
  <2> QED  BY <2>2, <2>3, <2>4 DEF Rewriting
<1> QED  BY <1>1, <1>2

LEMMA QuietLog ==
    ASSUME TypeOK, TypeOK', NEW p \in Shell,
           \/ \E s \in Session : Load(p, s)
           \/ Count(p) \/ TryLock(p)
           \/ at[p] = "read" /\ GivesUp(p)
    PROVE  UNCHANGED promised
<1>1. UNCHANGED <<ledger, file, ragged, out>>
  BY DEF Load, Count, TryLock, GivesUp, disk
<1>2. at[p] \notin {"cut", "write"} /\ at'[p] \notin {"cut", "write"}
      /\ \A q \in Shell : q # p => at'[q] = at[q]
  BY DEF Load, Count, TryLock, GivesUp, TypeOK
<1>3. \A q \in Shell : q # p => at'[q] = at[q] /\ out'[q] = out[q]
  BY <1>1, <1>2
<1>4. (Rewriting' <=> Rewriting) /\ (Rewriting => UNCHANGED lock /\ out'[lock] = out[lock])
  BY <1>2, <1>3, SameRewrite
<1> QED  BY <1>1, <1>4, Unseen

LEMMA ApartLog ==
    ASSUME TypeOK, TypeOK', UNCHANGED <<ledger, disk, out, at, lock>>
    PROVE  UNCHANGED promised
  BY Unseen DEF Rewriting, disk

LEMMA TruncateLog ==
    ASSUME TypeOK, TypeOK', NEW p \in Shell, Truncate(p)
    PROVE  UNCHANGED promised
<1>1. /\ at[p] = "cut" /\ at'[p] = "write" /\ lock = p /\ UNCHANGED <<lock, out, ledger>>
  BY DEF Truncate, TypeOK, Holding
<1>2. Rewriting /\ Rewriting'
  BY <1>1, HistoryAssumption DEF Rewriting, HistoryAssumption
<1> QED  BY <1>1, <1>2, Unseen

LEMMA RecordLog ==
    ASSUME IInv, IInv', NEW s \in Session, NEW cmd \in Command, Record(s, cmd)
    PROVE  Promise!Record
<1> DEFINE p == shell[s]
           id == Len(ledger) + 1
<1>1. p \in Shell /\ at[p] = "idle"
  BY DEF Record, IInv, TypeOK
<1>2. /\ at' = [at EXCEPT ![p] = IF Responsible(appended[s] + 1) THEN "count" ELSE "idle"]
      /\ out' = out
      /\ Len(ledger') = id
  BY DEF Record, IInv, TypeOK
<1>3. \/ file' \in Added(id) /\ ragged' = FALSE
      \/ MayFail /\ file' = file /\ ragged' = ragged
      \/ MayFail /\ file' \in Added(id) \cup Added(Fragment) /\ ragged' = TRUE
  BY DEF Record, AppendFails, disk
<1>4. /\ Rewriting' <=> Rewriting
      /\ Rewriting => UNCHANGED lock /\ out'[lock] = out[lock]
  <2>1. /\ at[p] \notin {"cut", "write"} /\ at'[p] \notin {"cut", "write"}
        /\ \A q \in Shell : q # p => at'[q] = at[q] /\ out'[q] = out[q]
    BY <1>1, <1>2 DEF IInv, TypeOK
  <2> HIDE DEF p
  <2> QED  BY <1>1, <2>1, SameRewrite DEF IInv
<1>5. Rewriting' = Rewriting
  BY <1>4, Zenon DEF Rewriting
<1>6. CASE Rewriting
  <2>1. Kept' = Kept
    BY <1>4, <1>6 DEF Kept
  <2>2. (~Rewriting /\ ragged)' = (~Rewriting /\ ragged)
    BY <1>4, <1>6, Zenon
  <2> QED  BY <1>2, <1>5, <1>6, <2>1, <2>2 DEF Promise!Record
<1>7. CASE ~Rewriting
  <2>1. Kept = file /\ Kept' = file'
    BY <1>4, <1>7 DEF Kept
  <2>2. (~Rewriting /\ ragged) = ragged /\ (~Rewriting /\ ragged)' = ragged'
    <3>1. ragged \in BOOLEAN /\ ragged' \in BOOLEAN
      BY DEF IInv, TypeOK
    <3>2. (~Rewriting /\ ragged) = ragged
      BY <1>7, <3>1, Zenon
    <3>3. (~Rewriting /\ ragged)' = ragged'
      BY <1>4, <1>7, <3>1, Zenon
    <3> QED  BY <3>2, <3>3
  <2>3. \A x : Promise!Added(x) = Added(x)
    BY <2>1, <2>2 DEF Promise!Added, Added, Fragment
  <2>4. Added(Fragment) = Added(0)
    BY DEF Fragment
  <2>5. Len(ledger)' = Len(ledger) + 1
    BY <1>2
  <2> HIDE DEF id
  <2>6. \/ Kept' \in Added(Len(ledger)') /\ (~Rewriting /\ ragged)' = FALSE
        \/ MayFail /\ Kept' = Kept /\ (~Rewriting /\ ragged)' = (~Rewriting /\ ragged)
        \/ MayFail /\ Kept' \in Added(Len(ledger)') \cup Added(0) /\ (~Rewriting /\ ragged)' = TRUE
    <3>1. CASE file' \in Added(id) /\ ragged' = FALSE
      <4>1. Kept' \in Added(Len(ledger)')
        BY <1>2, <2>1, <3>1
      <4>2. (~Rewriting /\ ragged)' = FALSE
        BY <2>2, <3>1
      <4> QED  BY <4>1, <4>2
    <3>2. CASE MayFail /\ file' = file /\ ragged' = ragged
      <4>1. (~Rewriting /\ ragged)' = (~Rewriting /\ ragged)
        BY <2>2, <3>2
      <4> QED  BY <2>1, <3>2, <4>1
    <3>3. CASE MayFail /\ file' \in Added(id) \cup Added(Fragment) /\ ragged' = TRUE
      <4>1. Kept' \in Added(Len(ledger)') \cup Added(0)
        BY <1>2, <2>1, <2>4, <3>3
      <4>2. (~Rewriting /\ ragged)' = TRUE
        BY <2>2, <3>3
      <4> QED  BY <3>3, <4>1, <4>2
    <3> QED  BY <1>3, <3>1, <3>2, <3>3
  <2> QED  BY <1>5, <1>7, <2>3, <2>5, <2>6 DEF Promise!Record
<1> QED  BY <1>6, <1>7

LEMMA RereadLog ==
    ASSUME TypeOK, TypeOK', NEW p \in Shell, Reread(p)
    PROVE  Promise!Trim \/ UNCHANGED promised
<1>1. CASE /\ at[p] = "read" /\ at'[p] = "cut" /\ out'[p] = NewestOf(file, Limit)
           /\ UNCHANGED <<lock, file, ledger>>
  <2>1. lock = p /\ lock' = p
    BY <1>1 DEF TypeOK, Holding
  <2>2. ~Rewriting /\ Kept = file
    BY <1>1, <2>1, WhoRewrites
  <2>3. Rewriting' /\ Kept' = out'[p]
    BY <1>1, <2>1, HistoryAssumption DEF Rewriting, Kept, HistoryAssumption
  <2>4. Promise!NewestOf(Kept, Limit) = NewestOf(file, Limit)
    BY <2>2 DEF Promise!NewestOf, NewestOf
  <2>5. Rewriting' = TRUE
    BY <2>3 DEF Rewriting
  <2>6. (~Rewriting /\ ragged)' = FALSE
    BY <2>3, Zenon
  <2> QED  BY <1>1, <2>2, <2>3, <2>4, <2>5, <2>6 DEF Promise!Trim
<1>2. CASE at[p] = "read" /\ GivesUp(p)
  BY <1>2, QuietLog
<1> QED  BY <1>1, <1>2 DEF Reread, Keeps, TypeOK, disk

LEMMA WriteBackLog ==
    ASSUME IInv, IInv', NEW p \in Shell, WriteBack(p)
    PROVE  Promise!Finish
<1>1. at[p] = "write" /\ EndOfCompact(p) /\ ledger' = ledger
  BY DEF WriteBack
<1>2. lock = p /\ lock' = Nobody
  BY <1>1 DEF IInv, TypeOK, Holding, EndOfCompact, Released
<1>3. Rewriting /\ Kept = out[p]
  BY <1>1, <1>2, WhoRewrites DEF IInv
<1>4. ~Rewriting' /\ Kept' = file'
  BY <1>2 DEF Rewriting, Kept
<1>5. Rewriting' = FALSE
  BY <1>4 DEF Rewriting
<1>6. Len(out[p]) <= Len(file') /\ SubSeq(file', 1, Len(out[p])) = out[p]
  BY StepWriteBack
<1>7. Promise!InOrder(file') /\ Promise!Entries(file')
  BY <1>1 DEF IInv, Ordered, Rising, Known, Fragment, Promise!InOrder, Promise!Entries
<1>8. Promise!IsPrefixOf(out[p], file')
  BY <1>6 DEF Promise!IsPrefixOf
<1>9. (~Rewriting /\ ragged)' \in {FALSE, MayFail}
  <2>1. ragged' \in BOOLEAN /\ MayFail \in BOOLEAN /\ (ragged' => MayFail)
    BY HistoryAssumption DEF IInv, TypeOK, Unfinished, HistoryAssumption
  <2>2. (~Rewriting /\ ragged)' = ragged'
    BY <1>4, <2>1, Zenon
  <2> QED  BY <2>1, <2>2
<1> QED  BY <1>1, <1>3, <1>4, <1>5, <1>7, <1>8, <1>9 DEF Promise!Finish

\* A rewrite that ends without its write, by a failure or with its shell.
LEMMA CutShortLog ==
    ASSUME IInv, IInv', NEW p \in Shell, at[p] \in {"cut", "write"}, EndOfCompact(p), MayFail, ledger' = ledger
    PROVE  Promise!CutShort
<1>1. lock = p /\ lock' = Nobody
  BY DEF IInv, TypeOK, Holding, EndOfCompact, Released
<1>2. Rewriting
  BY <1>1, WhoRewrites DEF IInv
<1>3. ~Rewriting' /\ Kept' = file'
  BY <1>1 DEF Rewriting, Kept
<1>4. Rewriting' = FALSE
  BY <1>3 DEF Rewriting
<1>5. Promise!InOrder(file') /\ Promise!Entries(file')
  BY DEF IInv, Ordered, Rising, Known, Fragment, Promise!InOrder, Promise!Entries
<1>6. (~Rewriting /\ ragged)' \in BOOLEAN
  BY Zenon
<1> QED  BY <1>2, <1>3, <1>4, <1>5, <1>6 DEF Promise!CutShort

LEMMA CrashLog ==
    ASSUME IInv, IInv', NEW p \in Shell, Crash(p)
    PROVE  Promise!CutShort \/ UNCHANGED promised
<1>1. MayFail /\ EndOfCompact(p) /\ UNCHANGED <<ledger, file, ragged>>
  BY DEF Crash, disk
<1>2. CASE at[p] \in {"cut", "write"}
  BY <1>1, <1>2, CutShortLog
<1>3. CASE at[p] \notin {"cut", "write"}
  <2>1. /\ at'[p] \notin {"cut", "write"}
        /\ \A q \in Shell : q # p => at'[q] = at[q] /\ out'[q] = out[q]
    BY <1>1 DEF EndOfCompact, IInv, TypeOK
  <2>2. (Rewriting' <=> Rewriting) /\ (Rewriting => UNCHANGED lock /\ out'[lock] = out[lock])
    BY <1>3, <2>1, SameRewrite DEF IInv
  <2> QED  BY <1>1, <2>2, Unseen DEF IInv
<1> QED  BY <1>2, <1>3

LEMMA StepLog ==
    ASSUME IInv, IInv', [Next]_vars
    PROVE  Promise!Next \/ UNCHANGED promised
<1>0. TypeOK /\ TypeOK'
  BY DEF IInv
<1>1. CASE UNCHANGED vars
  BY <1>0, <1>1, ApartLog DEF vars, disk
<1>2. ASSUME NEW p \in Shell, NEW s \in Session, Load(p, s)
      PROVE  UNCHANGED promised
  BY <1>0, <1>2, QuietLog
<1>3. ASSUME NEW s \in Session, NEW t \in Session, Fork(s, t)
      PROVE  UNCHANGED promised
  BY <1>0, <1>3, ApartLog DEF Fork
<1>4. ASSUME NEW s \in Session, NEW cmd \in Command, Record(s, cmd)
      PROVE  Promise!Next
  BY <1>4, RecordLog DEF Promise!Next
<1>5. ASSUME NEW p \in Shell, Compact(p)
      PROVE  Promise!Next \/ UNCHANGED promised
  <2>1. CASE Count(p) \/ TryLock(p)
    BY <1>0, <2>1, QuietLog
  <2>2. CASE Reread(p)
    BY <1>0, <2>2, RereadLog DEF Promise!Next
  <2>3. CASE Truncate(p)
    BY <1>0, <2>3, TruncateLog
  <2>4. CASE WriteBack(p)
    BY <2>4, WriteBackLog DEF Promise!Next
  <2>5. CASE RewriteFails(p)
    <3>1. MayFail /\ at[p] \in {"cut", "write"} /\ EndOfCompact(p) /\ ledger' = ledger
      BY <2>5 DEF RewriteFails
    <3> QED  BY <3>1, CutShortLog DEF Promise!Next
  <2>6. CASE Crash(p)
    BY <2>6, CrashLog DEF Promise!Next
  <2> QED  BY <1>5, <2>1, <2>2, <2>3, <2>4, <2>5, <2>6 DEF Compact
<1>6. ASSUME NEW s \in Session, Clear(s) \/ Delete(s) \/ Close(s)
      PROVE  UNCHANGED promised
  <2>1. UNCHANGED <<ledger, disk, out, at, lock>>
    BY <1>6, Zenon DEF Clear, Delete, Rebuild, Close
  <2> QED  BY <1>0, <2>1, ApartLog
<1> QED  BY <1>1, <1>2, <1>3, <1>4, <1>5, <1>6 DEF Next

\* The history file keeps what HistoryLog promises, for any number of shells
\* that start, fork, record, compact, fail and die in any order: every step is
\* a step of HistoryLog or none.
THEOREM LogImplemented == Spec => ImplementsLog
<1>1. IInv /\ IInv' /\ [Next]_vars => [Promise!Next]_(Promise!promised)
  BY StepLog DEF Promise!promised, promised
<1> QED  BY <1>1, InitLog, InitInv, StepInv, PTL DEF Spec, ImplementsLog, Promise!Spec
=============================================================================
