-------------------------------- MODULE ListFacts --------------------------------
(***************************************************************************)
(* What Lists computes, for every list; what putting an element into a list *)
(* and taking one out leaves; and the induction that proofs over data use.  *)
(***************************************************************************)
EXTENDS Lists, SequencesExt, FiniteSetTheorems, TLAPS

\* A set of naturals with 0 and every successor is Nat: the least number outside
\* it would have a predecessor.
LEMMA Induction ==
    ASSUME NEW G \in SUBSET Nat, 0 \in G, \A n \in G : n + 1 \in G
    PROVE  G = Nat
<1> DEFINE T == Nat \ G
<1> SUFFICES ASSUME T # {} PROVE FALSE
  OBVIOUS
<1>1. PICK x \in T : \A y \in T : ~(<<y, x>> \in OpToRel(<, Nat))
  BY NatLessThanWellFounded, WFMin, Zenon
<1>2. x \in Nat /\ x # 0 /\ x - 1 \in Nat /\ x - 1 < x
  OBVIOUS
<1>3. x - 1 \in T
  <2>1. x - 1 \in G => (x - 1) + 1 \in G
    OBVIOUS
  <2> QED  BY <1>2, <2>1
<1>4. <<x - 1, x>> \in OpToRel(<, Nat)
  BY <1>2, Zenon DEF OpToRel
<1> QED  BY <1>1, <1>3, <1>4

\* A set of naturals that is not empty has a least element.
LEMMA Least ==
    ASSUME NEW T \in SUBSET Nat, T # {}
    PROVE  \E x \in T : \A y \in T : x <= y
<1>1. PICK x \in T : \A y \in T : ~(<<y, x>> \in OpToRel(<, Nat))
  BY NatLessThanWellFounded, WFMin, Zenon
<1>2. ASSUME NEW y \in T PROVE x <= y
  <2>1. x \in Nat /\ y \in Nat
    OBVIOUS
  <2>2. CASE y < x
    <3>1. <<y, x>> \in OpToRel(<, Nat)
      BY <2>1, <2>2, Zenon DEF OpToRel
    <3> QED  BY <1>1, <3>1
  <2> QED  BY <2>1, <2>2
<1> QED  BY <1>2

\* A function on 0..L can be given by its first value and what each next is made
\* from.
MadeFrom(h, L, start, step) == h[0] = start /\ \A n \in 1..L : h[n] = step[<<n, h[n - 1]>>]

LEMMA Recursion ==
    ASSUME NEW S, NEW L \in Nat, NEW start \in S, NEW step \in [(1..L) \X S -> S]
    PROVE  \E h \in [0..L -> S] : MadeFrom(h, L, start, step)
<1> DEFINE Up(h, m) == h[0] = start /\ \A n \in 1..L : n <= m => h[n] = step[<<n, h[n - 1]>>]
           Some(m) == \E h \in [0..L -> S] : Up(h, m)
           G == {m \in Nat : m <= L => Some(m)}
<1>1. 0 \in G
  <2> DEFINE h == [n \in 0..L |-> start]
  <2>1. h \in [0..L -> S] /\ Up(h, 0)
    OBVIOUS
  <2> HIDE DEF h, Up
  <2> QED  BY <2>1
<1>2. ASSUME NEW m \in G PROVE m + 1 \in G
  <2> SUFFICES ASSUME m + 1 <= L PROVE Some(m + 1)
    <3> HIDE DEF Some
    <3> QED  OBVIOUS
  <2>1. PICK h \in [0..L -> S] : Up(h, m)
    <3>1. m <= L
      OBVIOUS
    <3> QED  BY <3>1
  <2> DEFINE x == step[<<m + 1, h[m]>>]
             g == [n \in 0..L |-> IF n = m + 1 THEN x ELSE h[n]]
  <2>2. m \in 0..L /\ m + 1 \in 1..L /\ h[m] \in S
    OBVIOUS
  <2>3. x \in S
    BY <2>2
  <2> HIDE DEF x
  <2>4. g \in [0..L -> S]
    BY <2>3
  <2>5. g[0] = start
    BY <2>1, <2>2
  <2>6. ASSUME NEW n \in 1..L, n <= m + 1 PROVE g[n] = step[<<n, g[n - 1]>>]
    <3>1. n - 1 \in 0..L /\ n \in 0..L /\ n - 1 # m + 1 /\ g[n - 1] = h[n - 1]
      BY <2>2, <2>6
    <3>2. CASE n = m + 1
      <4>1. n - 1 = m
        BY <3>2
      <4> QED  BY <3>1, <3>2, <4>1 DEF x
    <3>3. CASE n # m + 1
      <4>1. n <= m /\ g[n] = h[n]
        BY <2>6, <3>1, <3>3
      <4> QED  BY <2>1, <3>1, <4>1
    <3> QED  BY <3>2, <3>3
  <2> HIDE DEF g
  <2>7. Up(g, m + 1)
    BY <2>5, <2>6
  <2> HIDE DEF Up
  <2> QED  BY <2>4, <2>7
<1>3. G = Nat
  <2> HIDE DEF G
  <2>1. G \in SUBSET Nat
    BY DEF G
  <2> QED  BY <1>1, <1>2, <2>1, Induction
<1>4. Some(L)
  <2> HIDE DEF Some
  <2>1. L \in G /\ L <= L
    BY <1>3
  <2> QED  BY <2>1
<1>5. PICK h \in [0..L -> S] : Up(h, L)
  BY <1>4
<1>6. MadeFrom(h, L, start, step)
  BY <1>5 DEF MadeFrom
<1> QED  BY <1>6

-----------------------------------------------------------------------------
(* Only. *)

\* kept is what Only builds, prefix by prefix.
IsKept(kept, q, K) ==
    kept = [n \in 0..Len(q) |->
              IF n = 0 THEN <<>> ELSE IF q[n] \in K THEN Append(kept[n - 1], q[n]) ELSE kept[n - 1]]

LEMMA KeptExists ==
    ASSUME NEW S, NEW q \in Seq(S), NEW K
    PROVE  \E kept : IsKept(kept, q, K)
<1> DEFINE Rule(f, n) == IF n = 0 THEN <<>> ELSE IF q[n] \in K THEN Append(f[n - 1], q[n]) ELSE f[n - 1]
           UpTo(f, m) == \A n \in 0..Len(q) : n <= m => f[n] = Rule(f, n)
           Some(m) == \E f : f = [n \in 0..Len(q) |-> f[n]] /\ UpTo(f, m)
           G == {m \in Nat : Some(m)}
<1>0. Len(q) \in Nat
  OBVIOUS
<1>1. 0 \in G
  <2> DEFINE f == [n \in 0..Len(q) |-> <<>>]
  <2>1. f = [n \in 0..Len(q) |-> f[n]] /\ UpTo(f, 0)
    BY <1>0
  <2> HIDE DEF f, UpTo
  <2>2. Some(0)
    BY <2>1
  <2> QED  BY <2>2
<1>2. ASSUME NEW m \in G PROVE m + 1 \in G
  <2>1. PICK f : f = [n \in 0..Len(q) |-> f[n]] /\ UpTo(f, m)
    OBVIOUS
  <2> DEFINE g == [n \in 0..Len(q) |-> Rule(f, n)]
  <2>2. g = [n \in 0..Len(q) |-> g[n]]
    OBVIOUS
  <2>3. ASSUME NEW n \in 0..Len(q), n <= m + 1 PROVE g[n] = Rule(g, n)
    <3>1. CASE n = 0
      BY <3>1
    <3>2. CASE n # 0
      <4>1. n - 1 \in 0..Len(q) /\ n - 1 <= m
        BY <1>0, <2>3, <3>2
      <4>2. g[n - 1] = f[n - 1]
        BY <2>1, <4>1
      <4>3. g[n] = IF q[n] \in K THEN Append(f[n - 1], q[n]) ELSE f[n - 1]
        BY <3>2
      <4> QED  BY <3>2, <4>2, <4>3
    <3> QED  BY <3>1, <3>2
  <2>4. UpTo(g, m + 1)
    BY <2>3
  <2> HIDE DEF g, UpTo
  <2>5. Some(m + 1)
    BY <2>2, <2>4
  <2>6. m + 1 \in Nat
    OBVIOUS
  <2> HIDE DEF Some
  <2> QED  BY <2>5, <2>6
<1>3. G = Nat
  <2> HIDE DEF G
  <2>1. G \in SUBSET Nat
    BY DEF G
  <2> QED  BY <1>1, <1>2, <2>1, Induction
<1>4. PICK f : f = [n \in 0..Len(q) |-> f[n]] /\ UpTo(f, Len(q))
  BY <1>0, <1>3
<1>5. \A n \in 0..Len(q) : f[n] = Rule(f, n)
  BY <1>0, <1>4
<1>6. f = [n \in 0..Len(q) |-> Rule(f, n)]
  BY <1>4, <1>5
<1> QED  BY <1>6 DEF IsKept

\* What Only returns: elements of the list that are in the set, every one of
\* them, and two of them in the order they had.
LEMMA OnlyFacts ==
    ASSUME NEW S, NEW q \in Seq(S), NEW K
    PROVE  /\ Only(q, K) \in Seq(S)
           /\ \A i \in 1..Len(Only(q, K)) :
                  Only(q, K)[i] \in K /\ \E a \in 1..Len(q) : Only(q, K)[i] = q[a]
           /\ \A i, k \in 1..Len(Only(q, K)) : i < k =>
                  \E a, b \in 1..Len(q) : a < b /\ Only(q, K)[i] = q[a] /\ Only(q, K)[k] = q[b]
           /\ \A a \in 1..Len(q) : q[a] \in K => \E i \in 1..Len(Only(q, K)) : Only(q, K)[i] = q[a]
<1> DEFINE kept == CHOOSE f : IsKept(f, q, K)
           Good(w, n) == /\ w \in Seq(S)
                         /\ \A i \in 1..Len(w) : w[i] \in K /\ \E a \in 1..n : w[i] = q[a]
                         /\ \A i, k \in 1..Len(w) : i < k => \E a, b \in 1..n : a < b /\ w[i] = q[a] /\ w[k] = q[b]
                         /\ \A a \in 1..n : q[a] \in K => \E i \in 1..Len(w) : w[i] = q[a]
           G == {n \in Nat : n <= Len(q) => Good(kept[n], n)}
<1>1. Only(q, K) = kept[Len(q)]
  BY DEF Only, IsKept
<1>2. IsKept(kept, q, K)
  BY KeptExists
<1>3. \A n \in 0..Len(q) :
        kept[n] = IF n = 0 THEN <<>> ELSE IF q[n] \in K THEN Append(kept[n - 1], q[n]) ELSE kept[n - 1]
  <2> HIDE DEF kept
  <2> QED  BY <1>2 DEF IsKept
<1> HIDE DEF kept
<1>4. Len(q) \in Nat
  OBVIOUS
<1>5. 0 \in G
  <2>1. kept[0] = <<>>
    BY <1>3, <1>4
  <2>2. Good(<<>>, 0)
    OBVIOUS
  <2> HIDE DEF Good
  <2> QED  BY <2>1, <2>2
<1>6. ASSUME NEW n \in G PROVE n + 1 \in G
  <2> SUFFICES ASSUME n + 1 <= Len(q) PROVE Good(kept[n + 1], n + 1)
    <3> HIDE DEF Good
    <3> QED  OBVIOUS
  <2>1. n \in Nat /\ n <= Len(q) /\ n + 1 \in 1..Len(q) /\ n + 1 \in 0..Len(q) /\ n + 1 # 0 /\ n + 1 - 1 = n
    BY <1>4
  <2>2. PICK w : w = kept[n]
    OBVIOUS
  <2>3. Good(w, n)
    BY <2>1, <2>2
  <2>4. q[n + 1] \in S
    BY <2>1
  <2>5. kept[n + 1] = IF q[n + 1] \in K THEN Append(w, q[n + 1]) ELSE w
    BY <1>3, <2>1, <2>2
  <2>6. CASE q[n + 1] \notin K
    <3>1. Good(w, n + 1)
      <4>1. \A a \in 1..n : a \in 1..(n + 1)
        BY <2>1
      <4>2. \A a \in 1..(n + 1) : a \in 1..n \/ a = n + 1
        BY <2>1
      <4> QED  BY <2>3, <2>6, <4>1, <4>2
    <3> QED  BY <2>5, <2>6, <3>1
  <2>7. CASE q[n + 1] \in K
    <3> DEFINE v == Append(w, q[n + 1])
    <3>1. /\ v \in Seq(S) /\ Len(v) = Len(w) + 1 /\ v[Len(v)] = q[n + 1]
          /\ \A i \in 1..Len(w) : v[i] = w[i]
      BY <2>3, <2>4
    <3>2. \A i \in 1..Len(v) : i = Len(v) \/ i \in 1..Len(w)
      BY <2>3, <3>1
    <3> HIDE DEF v
    <3>3. \A a \in 1..n : a \in 1..(n + 1) /\ a < n + 1
      BY <2>1
    <3>4. \A a \in 1..(n + 1) : a \in 1..n \/ a = n + 1
      BY <2>1
    <3>5. Len(w) \in Nat /\ Len(v) \in 1..Len(v) /\ \A i \in 1..Len(w) : i \in 1..Len(v) /\ i < Len(v)
      BY <2>3, <3>1
    <3>6. ASSUME NEW i \in 1..Len(v) PROVE v[i] \in K /\ \E a \in 1..(n + 1) : v[i] = q[a]
      <4>1. CASE i = Len(v)
        <5>1. n + 1 \in 1..(n + 1)
          BY <2>1
        <5> QED  BY <2>7, <3>1, <4>1, <5>1
      <4>2. CASE i \in 1..Len(w)
        <5>1. w[i] \in K
          BY <2>3, <4>2
        <5>2. PICK a \in 1..n : w[i] = q[a]
          BY <2>3, <4>2
        <5>3. v[i] = w[i] /\ a \in 1..(n + 1)
          BY <3>1, <3>3, <4>2
        <5> QED  BY <5>1, <5>2, <5>3
      <4> QED  BY <3>2, <4>1, <4>2
    <3>7. ASSUME NEW i \in 1..Len(v), NEW k \in 1..Len(v), i < k
          PROVE  \E a, b \in 1..(n + 1) : a < b /\ v[i] = q[a] /\ v[k] = q[b]
      <4>1. i \in 1..Len(w)
        BY <3>1, <3>2, <3>5, <3>7
      <4>2. CASE k \in 1..Len(w)
        <5>1. PICK a \in 1..n, b \in 1..n : a < b /\ w[i] = q[a] /\ w[k] = q[b]
          BY <2>3, <3>7, <4>1, <4>2
        <5> QED  BY <3>1, <3>3, <4>1, <4>2, <5>1
      <4>3. CASE k = Len(v)
        <5>1. PICK a \in 1..n : w[i] = q[a]
          BY <2>3, <4>1
        <5>2. a \in 1..(n + 1) /\ n + 1 \in 1..(n + 1) /\ a < n + 1
          BY <2>1, <3>3
        <5> QED  BY <3>1, <4>1, <4>3, <5>1, <5>2
      <4> QED  BY <3>2, <4>2, <4>3
    <3>8. ASSUME NEW a \in 1..(n + 1), q[a] \in K PROVE \E i \in 1..Len(v) : v[i] = q[a]
      <4>1. CASE a = n + 1
        BY <3>1, <3>5, <4>1
      <4>2. CASE a \in 1..n
        <5>1. PICK i \in 1..Len(w) : w[i] = q[a]
          BY <2>3, <3>8, <4>2
        <5> QED  BY <3>1, <3>5, <5>1
      <4> QED  BY <3>4, <4>1, <4>2
    <3>9. Good(v, n + 1)
      BY <3>1, <3>6, <3>7, <3>8
    <3> HIDE DEF Good
    <3> QED  BY <2>5, <2>7, <3>9 DEF v
  <2> QED  BY <2>6, <2>7
<1>7. G = Nat
  <2> HIDE DEF G
  <2>1. G \in SUBSET Nat
    BY DEF G
  <2> QED  BY <1>5, <1>6, <2>1, Induction
<1>8. Good(Only(q, K), Len(q))
  <2> HIDE DEF Good
  <2> QED  BY <1>1, <1>4, <1>7
<1> QED  BY <1>8

-----------------------------------------------------------------------------
(* What is taken out of a list. *)

\* A list made of elements of another, in different places.
Drawn(t, s) ==
    /\ \A i \in 1..Len(t) : \E a \in 1..Len(s) : t[i] = s[a]
    /\ \A i, k \in 1..Len(t) : i # k => \E a, b \in 1..Len(s) : a # b /\ t[i] = s[a] /\ t[k] = s[b]

\* Taking the element i out leaves the others, in their order.
LEMMA RemoveFacts ==
    ASSUME NEW S, NEW s \in Seq(S), NEW i \in 1..Len(s)
    PROVE  /\ RemoveAt(s, i) \in Seq(S) /\ Len(RemoveAt(s, i)) = Len(s) - 1
           /\ Drawn(RemoveAt(s, i), s)
           /\ \A k \in 1..Len(RemoveAt(s, i)) : \E a \in 1..Len(s) : a # i /\ RemoveAt(s, i)[k] = s[a]
           /\ \A a \in 1..Len(s) : a # i => \E k \in 1..Len(RemoveAt(s, i)) : RemoveAt(s, i)[k] = s[a]
<1> DEFINE t == RemoveAt(s, i)
<1>1. Len(s) \in Nat /\ i \in Nat /\ i >= 1 /\ i <= Len(s)
  OBVIOUS
<1> DEFINE u == SubSeq(s, 1, i - 1)
           v == SubSeq(s, i + 1, Len(s))
<1>a. u \in Seq(S) /\ Len(u) = i - 1 /\ \A k \in 1..(i - 1) : u[k] = s[k]
  <2>1. i - 1 \in Nat /\ i - 1 <= Len(s)
    BY <1>1
  <2>2. \A k \in 1..(i - 1) : s[k] \in S
    BY <1>1
  <2>3. u = [k \in 1..(i - 1) |-> s[k]]
    BY <1>1
  <2> HIDE DEF u
  <2> QED  BY <2>1, <2>2, <2>3
<1>b. v \in Seq(S) /\ Len(v) = Len(s) - i /\ \A k \in 1..(Len(s) - i) : v[k] = s[k + i]
  <2>1. Len(s) - i \in Nat
    BY <1>1
  <2>2. \A k \in 1..(Len(s) - i) : s[k + i] \in S
    BY <1>1
  <2>3. v = [k \in 1..(Len(s) - i) |-> s[k + i]]
    BY <1>1
  <2> HIDE DEF v
  <2> QED  BY <2>1, <2>2, <2>3
<1>c. t = u \o v
  BY DEF RemoveAt
<1> HIDE DEF t, u, v
<1>2. t \in Seq(S) /\ Len(t) = Len(s) - 1
  BY <1>1, <1>a, <1>b, <1>c
<1>3. \A k \in 1..Len(t) : t[k] = IF k < i THEN s[k] ELSE s[k + 1]
  <2> TAKE k \in 1..Len(t)
  <2>1. t[k] = IF k <= i - 1 THEN u[k] ELSE v[k - (i - 1)]
    BY <1>1, <1>2, <1>a, <1>b, <1>c
  <2>2. CASE k < i
    <3>1. k \in 1..(i - 1) /\ k <= i - 1
      BY <1>1, <1>2, <2>2
    <3> QED  BY <1>a, <2>1, <2>2, <3>1
  <2>3. CASE ~(k < i)
    <3>1. k - (i - 1) \in 1..(Len(s) - i) /\ (k - (i - 1)) + i = k + 1 /\ ~(k <= i - 1)
      BY <1>1, <1>2, <2>3
    <3> QED  BY <1>b, <2>1, <2>3, <3>1
  <2> QED  BY <2>2, <2>3
<1>4. \A k \in 1..Len(t) : (k < i => k \in 1..Len(s)) /\ (~(k < i) => k + 1 \in 1..Len(s) /\ k + 1 # i /\ k + 1 # k)
  BY <1>1, <1>2
<1>5. \A k \in 1..Len(t) : \E a \in 1..Len(s) : a # i /\ t[k] = s[a]
  BY <1>1, <1>3, <1>4
<1>6. ASSUME NEW k \in 1..Len(t), NEW m \in 1..Len(t), k # m
      PROVE  \E a, b \in 1..Len(s) : a # b /\ t[k] = s[a] /\ t[m] = s[b]
  <2> DEFINE from(x) == IF x < i THEN x ELSE x + 1
  <2>1. from(k) \in 1..Len(s) /\ from(m) \in 1..Len(s) /\ from(k) # from(m)
    BY <1>1, <1>2, <1>6
  <2>2. t[k] = s[from(k)] /\ t[m] = s[from(m)]
    BY <1>3
  <2> HIDE DEF from
  <2> QED  BY <2>1, <2>2
<1>7. ASSUME NEW a \in 1..Len(s), a # i PROVE \E k \in 1..Len(t) : t[k] = s[a]
  <2>1. CASE a < i
    <3>1. a \in 1..Len(t)
      BY <1>1, <1>2, <2>1
    <3> QED  BY <1>3, <2>1, <3>1
  <2>2. CASE ~(a < i)
    <3>1. a - 1 \in 1..Len(t) /\ ~(a - 1 < i) /\ (a - 1) + 1 = a
      BY <1>1, <1>2, <1>7, <2>2
    <3> QED  BY <1>3, <3>1
  <2> QED  BY <2>1, <2>2
<1>8. Drawn(t, s)
  BY <1>5, <1>6 DEF Drawn
<1> QED  BY <1>2, <1>5, <1>7, <1>8 DEF t

\* So does a filter.
LEMMA OnlyDrawn ==
    ASSUME NEW S, NEW s \in Seq(S), NEW K
    PROVE  Only(s, K) \in Seq(S) /\ Drawn(Only(s, K), s)
<1> DEFINE t == Only(s, K)
<1>1. /\ t \in Seq(S)
      /\ \A i \in 1..Len(t) : t[i] \in K /\ \E a \in 1..Len(s) : t[i] = s[a]
      /\ \A i, k \in 1..Len(t) : i < k => \E a, b \in 1..Len(s) : a < b /\ t[i] = s[a] /\ t[k] = s[b]
  BY OnlyFacts
<1> HIDE DEF t
<1>3. \A i \in 1..Len(t) : \E a \in 1..Len(s) : t[i] = s[a]
  BY <1>1
<1>4. \A i, k \in 1..Len(t) : i < k => \E a, b \in 1..Len(s) : a < b /\ t[i] = s[a] /\ t[k] = s[b]
  BY <1>1
<1>5. ASSUME NEW i \in 1..Len(t), NEW k \in 1..Len(t), i # k
      PROVE  \E a, b \in 1..Len(s) : a # b /\ t[i] = s[a] /\ t[k] = s[b]
  <2>1. CASE i < k
    <3>1. PICK a \in 1..Len(s), b \in 1..Len(s) : a < b /\ t[i] = s[a] /\ t[k] = s[b]
      BY <1>4, <2>1
    <3> QED  BY <3>1
  <2>2. CASE k < i
    <3>1. PICK a \in 1..Len(s), b \in 1..Len(s) : a < b /\ t[k] = s[a] /\ t[i] = s[b]
      BY <1>4, <2>2
    <3> QED  BY <3>1
  <2> QED  BY <1>5, <2>1, <2>2
<1> QED  BY <1>1, <1>3, <1>5 DEF Drawn, t

-----------------------------------------------------------------------------
(* Queues. *)

LEMMA TailFacts ==
    ASSUME NEW S, NEW q \in Seq(S), q # <<>>
    PROVE  /\ Head(q) \in S /\ Head(q) = q[1] /\ Tail(q) \in Seq(S)
           /\ Len(q) \in Nat /\ Len(q) > 0 /\ Len(Tail(q)) = Len(q) - 1
           /\ \A i \in 1..Len(Tail(q)) : Tail(q)[i] = q[i + 1]
           /\ ToSet(q) = ToSet(Tail(q)) \cup {Head(q)}
<1>1. Len(q) \in Nat /\ Len(q) > 0 /\ Head(q) \in S /\ Head(q) = q[1] /\ DOMAIN q = 1..Len(q)
  OBVIOUS
<1>2. /\ Tail(q) \in Seq(S) /\ Len(Tail(q)) = Len(q) - 1 /\ DOMAIN Tail(q) = 1..Len(Tail(q))
      /\ \A i \in 1..Len(Tail(q)) : Tail(q)[i] = q[i + 1]
  OBVIOUS
<1>3. \A i \in 1..Len(q) : i = 1 \/ (i - 1 \in 1..Len(Tail(q)) /\ i = (i - 1) + 1)
  BY <1>1, <1>2
<1>4. \A i \in 1..Len(Tail(q)) : i + 1 \in 1..Len(q)
  BY <1>1, <1>2
<1>5. 1 \in 1..Len(q)
  BY <1>1
<1>6. ASSUME NEW x \in ToSet(q) PROVE x \in ToSet(Tail(q)) \cup {Head(q)}
  <2>1. PICK i \in 1..Len(q) : x = q[i]
    BY <1>1 DEF ToSet
  <2>2. CASE i = 1
    BY <1>1, <2>1, <2>2
  <2>3. CASE i # 1
    <3>1. i - 1 \in 1..Len(Tail(q)) /\ Tail(q)[i - 1] = q[i]
      BY <1>2, <1>3, <2>3
    <3> QED  BY <1>2, <2>1, <3>1 DEF ToSet
  <2> QED  BY <2>2, <2>3
<1>7. ToSet(Tail(q)) \cup {Head(q)} \subseteq ToSet(q)
  BY <1>1, <1>2, <1>4, <1>5 DEF ToSet
<1> QED  BY <1>1, <1>2, <1>6, <1>7

LEMMA AppendFacts ==
    ASSUME NEW S, NEW q \in Seq(S), NEW m \in S
    PROVE  /\ Append(q, m) \in Seq(S) /\ q \o <<m>> = Append(q, m)
           /\ Len(q) \in Nat /\ Len(Append(q, m)) = Len(q) + 1
           /\ Append(q, m)[Len(q) + 1] = m
           /\ \A i \in 1..Len(q) : Append(q, m)[i] = q[i]
           /\ ToSet(Append(q, m)) = ToSet(q) \cup {m}
<1>1. Len(q) \in Nat /\ DOMAIN q = 1..Len(q)
  OBVIOUS
<1> DEFINE r == Append(q, m)
<1>2. r \in Seq(S) /\ Len(r) = Len(q) + 1 /\ DOMAIN r = 1..Len(r) /\ q \o <<m>> = r
  OBVIOUS
<1>3. r[Len(q) + 1] = m /\ \A i \in 1..Len(q) : r[i] = q[i]
  OBVIOUS
<1> HIDE DEF r
<1>4. Len(q) + 1 \in 1..Len(r) /\ \A i \in 1..Len(q) : i \in 1..Len(r)
  BY <1>1, <1>2
<1>5. \A i \in 1..Len(r) : i = Len(q) + 1 \/ i \in 1..Len(q)
  BY <1>1, <1>2
<1>6. ToSet(r) \subseteq ToSet(q) \cup {m}
  BY <1>1, <1>2, <1>3, <1>5 DEF ToSet
<1>7. ToSet(q) \cup {m} \subseteq ToSet(r)
  BY <1>1, <1>2, <1>3, <1>4 DEF ToSet
<1>8. ToSet(r) = ToSet(q) \cup {m}
  BY <1>6, <1>7
<1> QED  BY <1>1, <1>2, <1>3, <1>8 DEF r

LEMMA ConcatFacts ==
    ASSUME NEW S, NEW q \in Seq(S), NEW r \in Seq(S)
    PROVE  /\ q \o r \in Seq(S) /\ q \o <<>> = q /\ <<>> \o q = q
           /\ q # <<>> => q \o r # <<>> /\ Tail(q \o r) = Tail(q) \o r /\ Head(q \o r) = Head(q)
           /\ \A s \in Seq(S) : (q \o r) \o s = q \o (r \o s)
<1>1. q \o r \in Seq(S) /\ q \o <<>> = q /\ <<>> \o q = q
  OBVIOUS
<1>2. ASSUME q # <<>> PROVE q \o r # <<>> /\ Tail(q \o r) = Tail(q) \o r /\ Head(q \o r) = Head(q)
  BY <1>2
<1>3. \A s \in Seq(S) : (q \o r) \o s = q \o (r \o s)
  OBVIOUS
<1> QED  BY <1>1, <1>2, <1>3
=============================================================================
