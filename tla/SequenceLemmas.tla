--------------------------- MODULE SequenceLemmas ---------------------------
(***************************************************************************)
(* What the proofs need of numbers, of sequences laid end to end and of    *)
(* positions taken in order.  Induction comes from the well-foundedness of *)
(* the numbers, as a statement about a set: a set with 0 in it and the     *)
(* successor of each of its numbers has them all.                          *)
(***************************************************************************)
EXTENDS Ordering, Sequences, SequencesExt, FiniteSetTheorems, SequenceTheorems,
        WellFoundedInduction, TLAPS

-----------------------------------------------------------------------------
(* Numbers. *)

\* Some numbers have a least one among them.
LEMMA LeastNumber ==
  ASSUME NEW T, T \subseteq Nat, T # {}
  PROVE  \E x \in T : \A y \in T : ~ (y < x)
<1>1. IsWellFoundedOn(OpToRel(<, Nat), Nat)
  BY NatLessThanWellFounded
<1>2. PICK x \in T : \A y \in T : ~ (<<y, x>> \in OpToRel(<, Nat))
  BY <1>1, WFMin
<1>3. \A y \in T : ~ (y < x)
  BY <1>2 DEF OpToRel
<1> QED
  BY <1>3

\* Induction on the natural numbers.
LEMMA SetInduction ==
  ASSUME NEW S, 0 \in S, \A n \in Nat : n \in S => n + 1 \in S
  PROVE  Nat \subseteq S
<1> SUFFICES ASSUME Nat \ S # {} PROVE FALSE
  OBVIOUS
<1>1. PICK x \in Nat \ S : \A y \in Nat \ S : ~ (y < x)
  BY LeastNumber
<1>2. x # 0 /\ x \in Nat
  OBVIOUS
<1>3. x - 1 \in Nat /\ x - 1 < x
  BY <1>2
<1>4. x - 1 \in S
  BY <1>1, <1>3
<1>5. (x - 1) + 1 \in S
  BY <1>4, <1>3
<1> QED
  BY <1>5, <1>1

-----------------------------------------------------------------------------
(* Sequences end to end. *)

\* f lays seqs end to end, as the function inside FlattenSeq does.
Flattens(f, seqs) ==
  f = [i \in 1 .. Len(seqs) |-> IF i = 1 THEN seqs[i] ELSE f[i - 1] \o seqs[i]]

\* The function by which FlattenSeq is defined exists.
LEMMA FlattenExists ==
  ASSUME NEW S, NEW seqs \in Seq(S)
  PROVE  \E f : Flattens(f, seqs)
<1> DEFINE Up(f, m) == f = [i \in 1 .. m |-> IF i = 1 THEN seqs[i] ELSE f[i - 1] \o seqs[i]]
           M == {m \in Nat : \E f : Up(f, m)}
<1>1. 0 \in M
  <2>1. Up([i \in 1 .. 0 |-> seqs[i]], 0)
    OBVIOUS
  <2> QED
    BY <2>1
<1>2. ASSUME NEW m \in Nat, m \in M
      PROVE  m + 1 \in M
  <2>1. PICK f : Up(f, m)
    BY <1>2
  <2> DEFINE last == IF m = 0 THEN seqs[m + 1] ELSE f[m] \o seqs[m + 1]
             g == [i \in 1 .. m + 1 |-> IF i = m + 1 THEN last ELSE f[i]]
  <2>2. ASSUME NEW i \in 1 .. m + 1
        PROVE  g[i] = IF i = 1 THEN seqs[i] ELSE g[i - 1] \o seqs[i]
    <3>1. CASE i = m + 1
      BY <3>1
    <3>2. CASE i # m + 1
      <4>1. i \in 1 .. m /\ (i # 1 => i - 1 \in 1 .. m)
        BY <3>2
      <4>2. f[i] = IF i = 1 THEN seqs[i] ELSE f[i - 1] \o seqs[i]
        BY <2>1, <4>1
      <4>3. g[i] = f[i] /\ (i # 1 => g[i - 1] = f[i - 1])
        BY <4>1
      <4> QED
        BY <4>2, <4>3
    <3> QED
      BY <3>1, <3>2
  <2>3. g = [i \in 1 .. m + 1 |-> g[i]]
    OBVIOUS
  <2>4. Up(g, m + 1)
    <3> HIDE DEF g
    <3> QED
      BY <2>2, <2>3
  <2>5. \E h : Up(h, m + 1)
    BY <2>4
  <2>6. m + 1 \in Nat
    OBVIOUS
  <2> QED
    BY <2>5, <2>6
<1>3. Nat \subseteq M
  <2> HIDE DEF M
  <2> QED
    BY <1>1, <1>2, SetInduction
<1>4. Len(seqs) \in M
  <2> HIDE DEF M
  <2> QED
    BY <1>3
<1> QED
  BY <1>4 DEF Flattens

\* FlattenSeq is the last value of that function.
LEMMA FlattenIs ==
  ASSUME NEW S, NEW seqs \in Seq(S), seqs # <<>>
  PROVE  \E f : Flattens(f, seqs) /\ FlattenSeq(seqs) = f[Len(seqs)]
<1> DEFINE f == CHOOSE f : Flattens(f, seqs)
<1>1. Flattens(f, seqs)
  BY FlattenExists
<1>2. Len(seqs) # 0
  OBVIOUS
<1>3. FlattenSeq(seqs) = f[Len(seqs)]
  BY <1>2 DEF FlattenSeq, Flattens
<1> QED
  BY <1>1, <1>3

\* No sequences, end to end.
LEMMA FlattenEmpty == FlattenSeq(<<>>) = <<>>
  BY DEF FlattenSeq

\* One sequence more.
LEMMA FlattenOneMore ==
  ASSUME NEW S, NEW n \in Nat, NEW v \in [1 .. n -> Seq(S)],
         NEW w \in [1 .. n + 1 -> Seq(S)], \A i \in 1 .. n : v[i] = w[i],
         FlattenSeq(v) \in Seq(S)
  PROVE  FlattenSeq(w) = FlattenSeq(v) \o w[n + 1]
<1>1. /\ v \in Seq(Seq(S)) /\ Len(v) = n
      /\ w \in Seq(Seq(S)) /\ Len(w) = n + 1 /\ w # <<>>
  OBVIOUS
<1>2. PICK g : Flattens(g, w) /\ FlattenSeq(w) = g[n + 1]
  BY <1>1, FlattenIs
<1>3. n + 1 \in 1 .. Len(w) /\ (n + 1) - 1 = n
  BY <1>1
<1>4. g[n + 1] = IF n + 1 = 1 THEN w[n + 1] ELSE g[n] \o w[n + 1]
  <2>1. g[n + 1] = IF n + 1 = 1 THEN w[n + 1] ELSE g[(n + 1) - 1] \o w[n + 1]
    BY <1>2, <1>3, Zenon DEF Flattens
  <2> QED
    BY <2>1, <1>3
<1>5. CASE n = 0
  <2>1. v = <<>>
    BY <1>1, <1>5
  <2>2. w[n + 1] \in Seq(S)
    BY <1>5
  <2> QED
    BY <2>1, <2>2, <1>2, <1>4, <1>5, FlattenEmpty, ConcatEmptySeq
<1>6. CASE n # 0
  <2>1. v # <<>>
    BY <1>1, <1>6
  <2>2. PICK f : Flattens(f, v) /\ FlattenSeq(v) = f[n]
    BY <1>1, <2>1, FlattenIs
  <2>3. f[n] = g[n]
    <3>1. Len(v) \in Nat /\ Len(w) \in Nat /\ n <= Len(v) /\ n <= Len(w)
      BY <1>1
    <3> DEFINE M == {i \in Nat : i \in 1 .. n => f[i] = g[i]}
    <3>2. 0 \in M
      OBVIOUS
    <3>3. ASSUME NEW i \in Nat, i \in M
          PROVE  i + 1 \in M
      <4> SUFFICES ASSUME i + 1 \in 1 .. n
                   PROVE  f[i + 1] = g[i + 1]
        OBVIOUS
      <4>1. i + 1 \in 1 .. Len(v) /\ i + 1 \in 1 .. Len(w) /\ (i + 1) - 1 = i
        BY <1>1
      <4>2. f[i + 1] = IF i + 1 = 1 THEN v[i + 1] ELSE f[(i + 1) - 1] \o v[i + 1]
        BY <4>1, <2>2, Zenon DEF Flattens
      <4>3. g[i + 1] = IF i + 1 = 1 THEN w[i + 1] ELSE g[(i + 1) - 1] \o w[i + 1]
        BY <4>1, <1>2, Zenon DEF Flattens
      <4>4. v[i + 1] = w[i + 1] /\ (i + 1 # 1 => i \in 1 .. n)
        OBVIOUS
      <4> QED
        BY <4>1, <4>2, <4>3, <4>4, <3>3
    <3>4. Nat \subseteq M
      <4> HIDE DEF M
      <4> QED
        BY <3>2, <3>3, SetInduction
    <3> QED
      BY <3>4, <1>6
  <2>4. n + 1 # 1
    BY <1>6
  <2> QED
    BY <2>2, <2>3, <2>4, <1>2, <1>4
<1> QED
  BY <1>5, <1>6

\* The first i sequences of w, one after the other.
FlattenedTo(w, i) == FlattenSeq([j \in 1 .. i |-> w[j]])

\* Laid end to end one by one: nothing at first, each time longer by the next,
\* and all of them in the end.
LEMMA FlattenedStep ==
  ASSUME NEW S, NEW n \in Nat, NEW w \in [1 .. n -> Seq(S)]
  PROVE  /\ FlattenedTo(w, 0) = <<>>
         /\ \A i \in 0 .. n : FlattenedTo(w, i) \in Seq(S)
         /\ \A i \in 0 .. n - 1 : FlattenedTo(w, i + 1) = FlattenedTo(w, i) \o w[i + 1]
         /\ FlattenedTo(w, n) = FlattenSeq(w)
<1> DEFINE To(i) == [j \in 1 .. i |-> w[j]]
           M == {i \in Nat : i \in 0 .. n => FlattenSeq(To(i)) \in Seq(S)}
<1>1. FlattenSeq(To(0)) = <<>>
  <2>1. To(0) = <<>>
    OBVIOUS
  <2> HIDE DEF To
  <2> QED
    BY <2>1, FlattenEmpty
<1>2. ASSUME NEW i \in 0 .. n - 1, FlattenSeq(To(i)) \in Seq(S)
      PROVE  FlattenSeq(To(i + 1)) = FlattenSeq(To(i)) \o w[i + 1]
  <2> DEFINE v == To(i)
             u == To(i + 1)
  <2>1. /\ i \in Nat /\ v \in [1 .. i -> Seq(S)] /\ u \in [1 .. i + 1 -> Seq(S)]
        /\ \A j \in 1 .. i : v[j] = u[j]
        /\ u[i + 1] = w[i + 1]
    OBVIOUS
  <2>2. FlattenSeq(v) \in Seq(S)
    BY <1>2
  <2> HIDE DEF v, u
  <2>3. FlattenSeq(u) = FlattenSeq(v) \o u[i + 1]
    BY <2>1, <2>2, FlattenOneMore
  <2> QED
    BY <2>1, <2>3 DEF v, u
<1>3. 0 \in M
  <2> HIDE DEF To
  <2>0. <<>> \in Seq(S)
    OBVIOUS
  <2>1. FlattenSeq(To(0)) \in Seq(S)
    BY <1>1, <2>0, Zenon
  <2> QED
    BY <2>1
<1>4. ASSUME NEW i \in Nat, i \in M
      PROVE  i + 1 \in M
  <2> SUFFICES ASSUME i + 1 \in 0 .. n
               PROVE  FlattenSeq(To(i + 1)) \in Seq(S)
    OBVIOUS
  <2>1. i \in 0 .. n - 1 /\ i \in 0 .. n /\ w[i + 1] \in Seq(S)
    OBVIOUS
  <2>2. FlattenSeq(To(i)) \in Seq(S)
    BY <2>1, <1>4
  <2> HIDE DEF To
  <2>3. FlattenSeq(To(i + 1)) = FlattenSeq(To(i)) \o w[i + 1]
    BY <2>1, <2>2, <1>2
  <2> QED
    BY <2>1, <2>2, <2>3, ConcatProperties
<1>5. \A i \in 0 .. n : FlattenSeq(To(i)) \in Seq(S)
  <2>1. Nat \subseteq M
    <3> HIDE DEF M
    <3> QED
      BY <1>3, <1>4, SetInduction
  <2> HIDE DEF To
  <2> QED
    BY <2>1
<1>6. To(n) = w
  OBVIOUS
<1>7. \A i \in 0 .. n - 1 : i \in 0 .. n
  OBVIOUS
<1> HIDE DEF To
<1>8. \A i : FlattenedTo(w, i) = FlattenSeq(To(i))
  BY DEF FlattenedTo, To
<1> QED
  BY <1>1, <1>2, <1>5, <1>6, <1>7, <1>8

\* What some of the sequences make, end to end, begins what more of them make.
LEMMA FlattenedPrefix ==
  ASSUME NEW S, NEW n \in Nat, NEW w \in [1 .. n -> Seq(S)], NEW i \in 0 .. n,
         NEW m \in i .. n
  PROVE  /\ Len(FlattenedTo(w, i)) <= Len(FlattenedTo(w, m))
         /\ \A p \in 1 .. Len(FlattenedTo(w, i)) :
              FlattenedTo(w, m)[p] = FlattenedTo(w, i)[p]
<1> DEFINE F(k) == FlattenedTo(w, k)
           Q(k) == /\ Len(F(i)) <= Len(F(k))
                   /\ \A p \in 1 .. Len(F(i)) : F(k)[p] = F(i)[p]
           M == {k \in Nat : k \in i .. n => Q(k)}
<1>0. /\ \A k \in 0 .. n : F(k) \in Seq(S)
      /\ \A k \in 0 .. n - 1 : F(k + 1) = F(k) \o w[k + 1]
  BY FlattenedStep
<1> HIDE DEF F
<1>a. F(i) \in Seq(S) /\ Len(F(i)) \in Nat /\ Q(i)
  BY <1>0
<1>1. 0 \in M
  BY <1>a
<1>2. ASSUME NEW k \in Nat, k \in M
      PROVE  k + 1 \in M
  <2> SUFFICES ASSUME k + 1 \in i .. n
               PROVE  Q(k + 1)
    OBVIOUS
  <2>1. CASE k + 1 = i
    BY <2>1, <1>a
  <2>2. CASE k + 1 # i
    <3>1. k \in i .. n /\ k \in 0 .. n - 1 /\ k \in 0 .. n /\ k + 1 \in 1 .. n
      BY <2>2
    <3>2. Q(k)
      BY <3>1, <1>2
    <3>3. F(k) \in Seq(S) /\ w[k + 1] \in Seq(S) /\ F(k + 1) = F(k) \o w[k + 1]
      BY <3>1, <1>0
    <3>4. /\ Len(F(k + 1)) = Len(F(k)) + Len(w[k + 1])
          /\ Len(F(k)) \in Nat /\ Len(w[k + 1]) \in Nat
          /\ \A p \in 1 .. Len(F(k)) : F(k + 1)[p] = F(k)[p]
      BY <3>3
    <3> QED
      BY <3>2, <3>4, <1>a
  <2> QED
    BY <2>1, <2>2
<1>3. Nat \subseteq M
  <2> HIDE DEF M
  <2> QED
    BY <1>1, <1>2, SetInduction
<1>4. Q(m)
  BY <1>3
<1> QED
  BY <1>4 DEF F

\* Laid end to end, the sequence after the first i of w is where they end.
FollowsAt(w, i) ==
  /\ Len(FlattenedTo(w, i + 1)) = Len(FlattenedTo(w, i)) + Len(w[i + 1])
  /\ \A j \in 1 .. Len(w[i + 1]) :
       FlattenSeq(w)[Len(FlattenedTo(w, i)) + j] = w[i + 1][j]

\* Position p is in one of the n sequences of w.
InOneOf(w, n, p) ==
  \E i \in 0 .. n - 1 : \E j \in 1 .. Len(w[i + 1]) : p = Len(FlattenedTo(w, i)) + j

\* Where each sequence is among those laid end to end, and that nothing else is
\* there.
LEMMA FlattenedPlaces ==
  ASSUME NEW S, NEW n \in Nat, NEW w \in [1 .. n -> Seq(S)]
  PROVE  /\ \A i \in 0 .. n : Len(FlattenedTo(w, i)) \in Nat
         /\ \A i \in 0 .. n - 1 : FollowsAt(w, i)
         /\ \A p \in 1 .. Len(FlattenSeq(w)) : InOneOf(w, n, p)
<1> DEFINE F(k) == FlattenedTo(w, k)
           l(k) == Len(F(k))
<1>1. /\ \A i \in 0 .. n : F(i) \in Seq(S)
      /\ \A i \in 0 .. n - 1 : F(i + 1) = F(i) \o w[i + 1]
      /\ F(0) = <<>> /\ F(n) = FlattenSeq(w)
  BY FlattenedStep
<1>2. \A i \in 0 .. n, m \in 0 .. n :
        i <= m => \A p \in 1 .. l(i) : F(m)[p] = F(i)[p]
  <2> SUFFICES ASSUME NEW i \in 0 .. n, NEW m \in i .. n
               PROVE  \A p \in 1 .. l(i) : F(m)[p] = F(i)[p]
    OBVIOUS
  <2> QED
    BY FlattenedPrefix
<1> HIDE DEF F
<1>3. \A i \in 0 .. n : l(i) \in Nat
  BY <1>1
<1>4. ASSUME NEW i \in 0 .. n - 1
      PROVE  /\ i \in 0 .. n /\ i + 1 \in 0 .. n /\ i + 1 \in 1 .. n
             /\ Len(w[i + 1]) \in Nat
             /\ l(i + 1) = l(i) + Len(w[i + 1])
             /\ \A j \in 1 .. Len(w[i + 1]) : F(i + 1)[l(i) + j] = w[i + 1][j]
  <2>1. i \in 0 .. n /\ i + 1 \in 0 .. n /\ i + 1 \in 1 .. n
    OBVIOUS
  <2> DEFINE a == F(i)
             b == w[i + 1]
  <2>2. a \in Seq(S) /\ b \in Seq(S) /\ F(i + 1) = a \o b
    BY <2>1, <1>1
  <2> HIDE DEF a, b
  <2>3. /\ Len(b) \in Nat /\ Len(a \o b) = Len(a) + Len(b)
        /\ \A j \in 1 .. Len(b) : (a \o b)[Len(a) + j] = b[j]
    BY <2>2
  <2> QED
    BY <2>1, <2>2, <2>3 DEF a, b
<1>5. ASSUME NEW i \in 0 .. n - 1, NEW j \in 1 .. Len(w[i + 1])
      PROVE  F(n)[l(i) + j] = w[i + 1][j]
  <2> DEFINE u == l(i)
             v == l(i + 1)
             k == Len(w[i + 1])
  <2>1. u \in Nat /\ k \in Nat /\ v = u + k /\ j \in 1 .. k
    BY <1>3, <1>4, <1>5
  <2> HIDE DEF u, v, k
  <2>2. u + j \in 1 .. v
    BY <2>1
  <2>3. i + 1 \in 0 .. n /\ n \in 0 .. n /\ i + 1 <= n
    OBVIOUS
  <2>4. F(n)[u + j] = F(i + 1)[u + j]
    BY <2>2, <2>3, <1>2 DEF v
  <2> QED
    BY <2>4, <1>4, <1>5 DEF u
<1> DEFINE Found(p) == \E i \in 0 .. n - 1 : \E j \in 1 .. Len(w[i + 1]) : p = l(i) + j
           M == {k \in Nat : k \in 0 .. n => \A p \in 1 .. l(k) : Found(p)}
<1>6. 0 \in M
  <2>1. l(0) = 0
    BY <1>1, EmptySeq
  <2> QED
    BY <2>1
<1>7. ASSUME NEW k \in Nat, k \in M
      PROVE  k + 1 \in M
  <2> SUFFICES ASSUME k + 1 \in 0 .. n, NEW p \in 1 .. l(k + 1)
               PROVE  Found(p)
    OBVIOUS
  <2>1. k \in 0 .. n - 1 /\ k \in 0 .. n
    OBVIOUS
  <2>2. CASE p \in 1 .. l(k)
    BY <2>1, <2>2, <1>7
  <2>3. CASE p \notin 1 .. l(k)
    <3> DEFINE u == l(k)
               v == l(k + 1)
               j == p - u
    <3>1. u \in Nat /\ v = u + Len(w[k + 1]) /\ Len(w[k + 1]) \in Nat /\ p \in 1 .. v
      BY <2>1, <1>3, <1>4
    <3> HIDE DEF v
    <3>2. p \notin 1 .. u
      BY <2>3
    <3> HIDE DEF u
    <3>3. j \in 1 .. Len(w[k + 1]) /\ p = u + j
      BY <3>1, <3>2
    <3> QED
      BY <2>1, <3>3 DEF u
  <2> QED
    BY <2>2, <2>3
<1>8. Nat \subseteq M
  <2> HIDE DEF M
  <2> QED
    BY <1>6, <1>7, SetInduction
<1>9. \A p \in 1 .. l(n) : Found(p)
  BY <1>8
<1>10. ASSUME NEW i \in 0 .. n - 1
       PROVE  FollowsAt(w, i)
  <2>1. l(i + 1) = l(i) + Len(w[i + 1])
    BY <1>4
  <2>2. \A j \in 1 .. Len(w[i + 1]) : FlattenSeq(w)[l(i) + j] = w[i + 1][j]
    BY <1>1, <1>5
  <2> QED
    BY <2>1, <2>2 DEF F, FollowsAt
<1>11. ASSUME NEW p \in 1 .. Len(FlattenSeq(w))
       PROVE  InOneOf(w, n, p)
  <2>1. Found(p)
    BY <1>1, <1>9
  <2> QED
    BY <2>1 DEF F, InOneOf
<1> QED
  BY <1>3, <1>10, <1>11 DEF F

-----------------------------------------------------------------------------
(* Counting. *)

\* How a count goes on from one position to the next.
LEMMA CountStep ==
  ASSUME NEW n \in Nat, NEW S \in SUBSET (1 .. n), NEW i \in Nat
  PROVE  /\ CountTo(S, i) \in Nat
         /\ CountTo(S, 0) = 0
         /\ i + 1 \in S => CountTo(S, i + 1) = CountTo(S, i) + 1
         /\ i + 1 \notin S => CountTo(S, i + 1) = CountTo(S, i)
         /\ i >= n => CountTo(S, i) = Cardinality(S)
<1> DEFINE Upto(j) == (S \cap (1 .. j))
<1>0. \A m \in S : m \in Nat /\ 1 <= m /\ m <= n
  OBVIOUS
<1>1. IsFiniteSet(S)
  <2>1. IsFiniteSet(1 .. n)
    BY FS_Interval
  <2> QED
    BY <2>1, FS_Subset
<1>2. IsFiniteSet(Upto(i)) /\ Cardinality(Upto(i)) \in Nat
  <2>1. Upto(i) \subseteq S
    OBVIOUS
  <2> HIDE DEF Upto
  <2> QED
    BY <2>1, <1>1, FS_Subset, FS_CardinalityType
<1>3. Upto(0) = {}
  OBVIOUS
<1>4. ASSUME i + 1 \in S
      PROVE  Cardinality(Upto(i + 1)) = Cardinality(Upto(i)) + 1
  <2>1. Upto(i + 1) = Upto(i) \cup {i + 1} /\ i + 1 \notin Upto(i)
    BY <1>4
  <2> HIDE DEF Upto
  <2> QED
    BY <2>1, <1>2, FS_AddElement
<1>5. i + 1 \notin S => Upto(i + 1) = Upto(i)
  OBVIOUS
<1>6. ASSUME i >= n
      PROVE  Upto(i) = S
  <2>1. \A m \in S : m \in 1 .. i
    BY <1>0, <1>6
  <2> QED
    BY <2>1
<1> QED
  BY <1>2, <1>3, <1>4, <1>5, <1>6, FS_EmptySet DEF CountTo

\* A count never goes down, goes up at a position counted, and never passes the
\* number of positions.
LEMMA CountMonotonic ==
  ASSUME NEW n \in Nat, NEW S \in SUBSET (1 .. n), NEW i \in Nat, NEW j \in Nat, i <= j
  PROVE  /\ CountTo(S, i) <= CountTo(S, j)
         /\ i < j /\ j \in S => CountTo(S, i) < CountTo(S, j)
         /\ CountTo(S, j) <= Cardinality(S)
         /\ Cardinality(S) \in Nat
<1>0. \A m \in S : m \in Nat /\ 1 <= m /\ m <= n
  OBVIOUS
<1>1. IsFiniteSet(S)
  <2>1. IsFiniteSet(1 .. n)
    BY FS_Interval
  <2> QED
    BY <2>1, FS_Subset
<1>2. \A k \in Nat : IsFiniteSet((S \cap (1 .. k)))
  <2>1. \A k \in Nat : (S \cap (1 .. k)) \subseteq S
    OBVIOUS
  <2> QED
    BY <2>1, <1>1, FS_Subset
<1>3. \A k \in Nat : k <= j => (S \cap (1 .. k)) \subseteq (S \cap (1 .. j))
  BY <1>0
<1>4. \A k \in Nat : k <= j => CountTo(S, k) <= CountTo(S, j)
  BY <1>2, <1>3, FS_Subset DEF CountTo
<1>5. CountTo(S, j) <= Cardinality(S) /\ Cardinality(S) \in Nat
  BY <1>1, FS_Subset, FS_CardinalityType DEF CountTo
<1>6. ASSUME i < j, j \in S
      PROVE  CountTo(S, i) < CountTo(S, j)
  <2>1. j - 1 \in Nat /\ i <= j - 1 /\ (j - 1) + 1 = j
    BY <1>6
  <2>2. CountTo(S, j) = CountTo(S, j - 1) + 1
    <3>1. \A k \in Nat : k + 1 \in S => CountTo(S, k + 1) = CountTo(S, k) + 1
      BY CountStep
    <3> QED
      BY <3>1, <2>1, <1>6
  <2>3. (S \cap (1 .. i)) \subseteq (S \cap (1 .. j - 1))
    BY <2>1
  <2>4. CountTo(S, i) <= CountTo(S, j - 1)
    BY <2>1, <2>3, <1>2, FS_Subset DEF CountTo
  <2>5. CountTo(S, i) \in Nat /\ CountTo(S, j - 1) \in Nat
    BY <2>1, CountStep
  <2> QED
    BY <2>2, <2>4, <2>5
<1> QED
  BY <1>4, <1>5, <1>6

\* Every rank is that of some position.
LEMMA EveryRank ==
  ASSUME NEW n \in Nat, NEW S \in SUBSET (1 .. n), NEW k \in 1 .. Cardinality(S)
  PROVE  \E x \in S : CountTo(S, x) = k
<1> DEFINE M == {i \in Nat : \A r \in 1 .. CountTo(S, i) : \E x \in S : CountTo(S, x) = r}
<1>0. /\ CountTo(S, 0) = 0 /\ CountTo(S, n) = Cardinality(S)
      /\ \A i \in Nat : /\ CountTo(S, i) \in Nat
                        /\ i + 1 \in S => CountTo(S, i + 1) = CountTo(S, i) + 1
                        /\ i + 1 \notin S => CountTo(S, i + 1) = CountTo(S, i)
  <2>1. n \in Nat /\ 0 \in Nat /\ n >= n
    OBVIOUS
  <2> QED
    BY <2>1, CountStep
<1>1. 0 \in M
  BY <1>0
<1>2. ASSUME NEW i \in Nat, i \in M
      PROVE  i + 1 \in M
  <2>1. CASE i + 1 \in S
    <3>0. CountTo(S, i) \in Nat /\ CountTo(S, i + 1) = CountTo(S, i) + 1 /\ i + 1 \in Nat
      BY <2>1, <1>0
    <3>1. \A r \in 1 .. CountTo(S, i + 1) : r \in 1 .. CountTo(S, i) \/ r = CountTo(S, i + 1)
      BY <3>0
    <3>2. \A r \in 1 .. CountTo(S, i) : \E x \in S : CountTo(S, x) = r
      BY <1>2
    <3> QED
      BY <2>1, <3>0, <3>1, <3>2
  <2>2. CASE i + 1 \notin S
    <3>0. CountTo(S, i + 1) = CountTo(S, i) /\ i + 1 \in Nat
      BY <2>2, <1>0
    <3> QED
      BY <3>0, <1>2
  <2> QED
    BY <2>1, <2>2
<1>3. Nat \subseteq M
  <2> HIDE DEF M
  <2> QED
    BY <1>1, <1>2, SetInduction
<1> QED
  BY <1>0, <1>3

\* Positions in ascending order: each is there, the k-th is up to i exactly when
\* k of them are, and the one after i comes next after those up to i.
LEMMA AscendingOrder ==
  ASSUME NEW n \in Nat, NEW S \in SUBSET (1 .. n)
  PROVE  /\ Ascending(S) \in Seq(S)
         /\ Len(Ascending(S)) = Cardinality(S)
         /\ \A k \in 1 .. Cardinality(S), i \in Nat :
              Ascending(S)[k] <= i <=> k <= CountTo(S, i)
         /\ \A i \in Nat : i + 1 \in S =>
              /\ CountTo(S, i) + 1 \in 1 .. Cardinality(S)
              /\ Ascending(S)[CountTo(S, i) + 1] = i + 1
<1> DEFINE a == Ascending(S)
<1>1. \A k \in 1 .. Cardinality(S) : a[k] \in S /\ CountTo(S, a[k]) = k
  BY EveryRank DEF Ascending
<1>2. Cardinality(S) \in Nat
  BY CountMonotonic
<1>6. /\ \A x \in S : x \in Nat
      /\ \A i \in Nat : /\ CountTo(S, i) \in Nat /\ CountTo(S, i) <= Cardinality(S)
                        /\ i + 1 \in S => CountTo(S, i + 1) = CountTo(S, i) + 1
      /\ \A i \in Nat, j \in Nat : i <= j =>
           /\ CountTo(S, i) <= CountTo(S, j)
           /\ i < j /\ j \in S => CountTo(S, i) < CountTo(S, j)
  <2>1. \A i \in Nat : /\ CountTo(S, i) \in Nat
                       /\ i + 1 \in S => CountTo(S, i + 1) = CountTo(S, i) + 1
    BY CountStep
  <2>2. \A i \in Nat, j \in Nat : i <= j =>
           /\ CountTo(S, i) <= CountTo(S, j)
           /\ i < j /\ j \in S => CountTo(S, i) < CountTo(S, j)
           /\ CountTo(S, j) <= Cardinality(S)
    BY CountMonotonic
  <2>3. \A x \in S : x \in Nat
    OBVIOUS
  <2>4. \A i \in Nat : i <= i
    OBVIOUS
  <2>5. \A i \in Nat : CountTo(S, i) <= Cardinality(S)
    BY <2>2, <2>4
  <2> QED
    BY <2>1, <2>2, <2>3, <2>5
<1>3. a \in Seq(S) /\ Len(a) = Cardinality(S)
  <2>1. a = [k \in 1 .. Cardinality(S) |-> a[k]]
    BY DEF Ascending
  <2> HIDE DEF a
  <2> QED
    BY <2>1, <1>1, <1>2
<1>4. ASSUME NEW k \in 1 .. Cardinality(S), NEW i \in Nat
      PROVE  a[k] <= i <=> k <= CountTo(S, i)
  <2>1. a[k] \in Nat /\ a[k] \in S /\ CountTo(S, a[k]) = k
    BY <1>1, <1>6
  <2>2. CASE a[k] <= i
    BY <2>1, <2>2, <1>6
  <2>3. CASE i < a[k]
    <3>0. CountTo(S, i) \in Nat
      BY <1>6
    <3>1. CountTo(S, i) < CountTo(S, a[k])
      <4>1. i <= a[k]
        BY <2>1, <2>3
      <4> QED
        BY <4>1, <2>1, <2>3, <1>6
    <3> QED
      BY <3>0, <3>1, <2>1, <2>3
  <2> QED
    BY <2>1, <2>2, <2>3
<1>5. ASSUME NEW i \in Nat, i + 1 \in S
      PROVE  /\ CountTo(S, i) + 1 \in 1 .. Cardinality(S)
             /\ a[CountTo(S, i) + 1] = i + 1
  <2>1. /\ CountTo(S, i + 1) = CountTo(S, i) + 1 /\ CountTo(S, i) \in Nat
        /\ CountTo(S, i + 1) <= Cardinality(S)
    <3>1. i + 1 \in Nat
      OBVIOUS
    <3> QED
      BY <3>1, <1>5, <1>6
  <2> DEFINE k == CountTo(S, i) + 1
  <2>2. k \in 1 .. Cardinality(S)
    BY <2>1, <1>2
  <2>3. a[k] <= i + 1 /\ ~(a[k] <= i)
    <3>1. a[k] <= i + 1 <=> k <= CountTo(S, i + 1)
      BY <2>2, <1>4
    <3>2. a[k] <= i <=> k <= CountTo(S, i)
      BY <2>2, <1>4
    <3> QED
      BY <2>1, <3>1, <3>2
  <2>4. a[k] \in Nat
    BY <2>2, <1>1, <1>6
  <2> QED
    BY <2>2, <2>3, <2>4
<1> QED
  BY <1>3, <1>4, <1>5

\* They are strictly ascending, and every position is among them, at its rank.
LEMMA AscendingStrict ==
  ASSUME NEW n \in Nat, NEW S \in SUBSET (1 .. n)
  PROVE  /\ \A j \in 1 .. Cardinality(S), k \in 1 .. Cardinality(S) :
              j < k => Ascending(S)[j] < Ascending(S)[k]
         /\ \A x \in S : /\ CountTo(S, x) \in 1 .. Cardinality(S)
                         /\ Ascending(S)[CountTo(S, x)] = x
<1> DEFINE a == Ascending(S)
           c == Cardinality(S)
<1>1. \A k \in 1 .. c : a[k] \in S /\ CountTo(S, a[k]) = k
  BY EveryRank DEF Ascending
<1>2. \A x \in S : x \in Nat /\ x - 1 \in Nat /\ (x - 1) + 1 = x
  OBVIOUS
<1>3. \A k \in 1 .. c, i \in Nat : a[k] <= i <=> k <= CountTo(S, i)
  BY AscendingOrder
<1>4. \A i \in Nat : i + 1 \in S => CountTo(S, i) + 1 \in 1 .. c /\ a[CountTo(S, i) + 1] = i + 1
  BY AscendingOrder
<1>5. \A i \in Nat : i + 1 \in S => CountTo(S, i + 1) = CountTo(S, i) + 1
  BY CountStep
<1>6. c \in Nat
  BY CountMonotonic
<1> HIDE DEF a, c
<1>7. ASSUME NEW j \in 1 .. c, NEW k \in 1 .. c, j < k
      PROVE  a[j] < a[k]
  <2>1. a[j] \in Nat /\ a[k] \in Nat /\ CountTo(S, a[j]) = j
    BY <1>1, <1>2
  <2>2. a[k] <= a[j] <=> k <= j
    BY <2>1, <1>3
  <2> QED
    BY <2>1, <2>2, <1>6, <1>7
<1>8. ASSUME NEW x \in S
      PROVE  CountTo(S, x) \in 1 .. c /\ a[CountTo(S, x)] = x
  <2> DEFINE i == x - 1
  <2>1. i \in Nat /\ i + 1 = x
    BY <1>2
  <2> HIDE DEF i
  <2> QED
    BY <2>1, <1>4, <1>5
<1> QED
  BY <1>7, <1>8 DEF a, c

\* An ascending correspondence of two sets of positions pairs the k-th with the
\* k-th.
LEMMA AscendingImage ==
  ASSUME NEW n \in Nat, NEW S \in SUBSET (1 .. n),
         NEW m \in Nat, NEW T \in SUBSET (1 .. m),
         NEW g \in [S -> T],
         \A x \in S, y \in S : x < y => g[x] < g[y],
         \A t \in T : \E x \in S : g[x] = t
  PROVE  /\ Cardinality(T) = Cardinality(S)
         /\ \A k \in 1 .. Cardinality(S) :
              Ascending(S)[k] \in S /\ Ascending(T)[k] = g[Ascending(S)[k]]
<1>1. /\ \A x \in S : x \in Nat /\ 1 <= x /\ g[x] \in T /\ g[x] \in Nat /\ 1 <= g[x]
      /\ \A t \in T : t \in Nat
  <2>1. \A x \in S : x \in 1 .. n /\ g[x] \in T
    OBVIOUS
  <2>2. \A t \in T : t \in 1 .. m
    OBVIOUS
  <2>3. \A i \in 1 .. n : i \in Nat /\ 1 <= i
    OBVIOUS
  <2>4. \A i \in 1 .. m : i \in Nat /\ 1 <= i
    OBVIOUS
  <2> QED
    BY <2>1, <2>2, <2>3, <2>4, Zenon
<1>2. IsFiniteSet(S) /\ IsFiniteSet(T)
  <2>1. IsFiniteSet(1 .. n) /\ IsFiniteSet(1 .. m)
    BY FS_Interval
  <2> QED
    BY <2>1, FS_Subset
\* Part of the correspondence is a bijection.
<1>3. ASSUME NEW A \in SUBSET S, NEW B \in SUBSET T,
             \A x \in S : x \in A <=> g[x] \in B
      PROVE  Cardinality(A) = Cardinality(B)
  <2> DEFINE h == [x \in A |-> g[x]]
  <2>1. h \in Injection(A, B)
    <3>1. h \in [A -> B]
      BY <1>3
    <3>2. ASSUME NEW x \in A, NEW y \in A, h[x] = h[y]
          PROVE  x = y
      <4>1. x \in Nat /\ y \in Nat /\ g[x] = g[y] /\ g[x] \in Nat
        BY <3>2, <1>1
      <4>2. ~(x < y) /\ ~(y < x)
        BY <4>1
      <4> QED
        BY <4>1, <4>2
    <3> HIDE DEF h
    <3> QED
      BY <3>1, <3>2 DEF Injection, IsInjective
  <2>2. h \in Surjection(A, B)
    <3>1. \A t \in B : \E x \in A : h[x] = t
      BY <1>3
    <3> HIDE DEF h
    <3> QED
      BY <2>1, <3>1 DEF Surjection, Injection
  <2>3. IsFiniteSet(A)
    BY <1>2, FS_Subset
  <2>4. h \in Bijection(A, B)
    BY <2>1, <2>2 DEF Bijection
  <2> HIDE DEF h
  <2> QED
    BY <2>3, <2>4, FS_Bijection DEF ExistsBijection
<1>4. Cardinality(T) = Cardinality(S)
  BY <1>3
<1>5. ASSUME NEW x \in S
      PROVE  CountTo(T, g[x]) = CountTo(S, x)
  <2> DEFINE A == S \cap (1 .. x)
             B == T \cap (1 .. g[x])
  <2>1. ASSUME NEW y \in S
        PROVE  y \in A <=> g[y] \in B
    <3>1. x \in Nat /\ y \in Nat /\ g[x] \in Nat /\ g[y] \in Nat /\ 1 <= y /\ 1 <= g[y]
      BY <1>1
    <3>2. y <= x <=> g[y] <= g[x]
      BY <3>1
    <3> QED
      BY <3>1, <3>2
  <2>2. A \in SUBSET S /\ B \in SUBSET T
    OBVIOUS
  <2> HIDE DEF A, B
  <2>3. Cardinality(A) = Cardinality(B)
    BY <2>1, <2>2, <1>3
  <2> QED
    BY <2>3 DEF A, B, CountTo
<1>6. ASSUME NEW k \in 1 .. Cardinality(S)
      PROVE  Ascending(S)[k] \in S /\ Ascending(T)[k] = g[Ascending(S)[k]]
  <2>1. Ascending(S)[k] \in S /\ CountTo(S, Ascending(S)[k]) = k
    BY EveryRank DEF Ascending
  <2>2. \A t \in T : Ascending(T)[CountTo(T, t)] = t
    BY AscendingStrict
  <2> DEFINE x == Ascending(S)[k]
  <2>3. g[x] \in T /\ CountTo(T, g[x]) = k
    BY <2>1, <1>1, <1>5
  <2> HIDE DEF x
  <2>4. Ascending(T)[CountTo(T, g[x])] = g[x]
    BY <2>2, <2>3
  <2>5. Ascending(T)[k] = g[x]
    BY <2>3, <2>4
  <2> QED
    BY <2>1, <2>5 DEF x
<1> QED
  BY <1>4, <1>6

\* All the positions up to n.
LEMMA AscendingAll ==
  ASSUME NEW n \in Nat
  PROVE  /\ Cardinality(1 .. n) = n
         /\ \A k \in 1 .. n : Ascending(1 .. n)[k] = k
<1>1. Cardinality(1 .. n) = n
  BY FS_Interval
<1>2. ASSUME NEW k \in 1 .. n
      PROVE  Ascending(1 .. n)[k] = k
  <2>1. (1 .. n) \cap (1 .. k) = 1 .. k
    OBVIOUS
  <2>2. Cardinality(1 .. k) = k
    BY FS_Interval
  <2>3. CountTo(1 .. n, k) = k
    BY <2>1, <2>2 DEF CountTo
  <2>4. \A x \in 1 .. n : Ascending(1 .. n)[CountTo(1 .. n, x)] = x
    BY AscendingStrict
  <2> QED
    BY <2>3, <2>4
<1> QED
  BY <1>1, <1>2
=============================================================================
