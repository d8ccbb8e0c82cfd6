------------------------------ MODULE XdrProofs ------------------------------
(***************************************************************************)
(* Theorems about the codec of Xdr: a layout put together from layouts     *)
(* that read back what they write, refuse every cut and panic on nothing   *)
(* does so too, for all values, of any length and nesting.                 *)
(***************************************************************************)
EXTENDS Xdr, SequenceLemmas

-----------------------------------------------------------------------------
(* Bytes. *)

\* What is left of a sequence after its beginning.
LEMMA FromProperties ==
  ASSUME NEW S, NEW b \in Seq(S), NEW n \in 0 .. Len(b)
  PROVE  /\ From(b, n) \in Seq(S)
         /\ Len(From(b, n)) = Len(b) - n
         /\ \A i \in 1 .. Len(b) - n : From(b, n)[i] = b[n + i]
<1>1. Len(b) \in Nat /\ n + 1 \in Int
  OBVIOUS
<1>2. \A i \in n + 1 .. Len(b) : b[i] \in S
  BY <1>1, ElementOfSeq
<1>3. /\ SubSeq(b, n + 1, Len(b)) \in Seq(S)
      /\ Len(SubSeq(b, n + 1, Len(b))) = IF n + 1 <= Len(b) THEN Len(b) - (n + 1) + 1 ELSE 0
      /\ \A i \in 1 .. Len(b) - (n + 1) + 1 : SubSeq(b, n + 1, Len(b))[i] = b[(n + 1) + i - 1]
  <2>1. Len(b) \in Int
    BY <1>1
  <2> QED
    BY <1>1, <1>2, <2>1, SubSeqProperties
<1>4. \A i \in 1 .. Len(b) - n : i \in 1 .. Len(b) - (n + 1) + 1 /\ (n + 1) + i - 1 = n + i
  BY <1>1
<1> QED
  BY <1>1, <1>3, <1>4 DEF From

\* A sequence after its first part is its second part.
LEMMA FromConcat ==
  ASSUME NEW S, NEW a \in Seq(S), NEW b \in Seq(S)
  PROVE  /\ From(a \o b, Len(a)) = b
         /\ SubSeq(a \o b, 1, Len(a)) = a
<1>1. /\ a \o b \in Seq(S)
      /\ Len(a \o b) = Len(a) + Len(b)
      /\ \A i \in 1 .. Len(a) + Len(b) :
           (a \o b)[i] = IF i <= Len(a) THEN a[i] ELSE b[i - Len(a)]
  BY ConcatProperties, Zenon
<1>2. Len(a) \in Nat /\ Len(b) \in Nat /\ Len(a) \in 0 .. Len(a \o b)
  BY <1>1
<1> DEFINE c == a \o b
<1>3. /\ From(c, Len(a)) \in Seq(S)
      /\ Len(From(c, Len(a))) = Len(c) - Len(a)
      /\ \A i \in 1 .. Len(c) - Len(a) : From(c, Len(a))[i] = c[Len(a) + i]
  <2> HIDE DEF c
  <2> QED
    BY <1>1, <1>2, FromProperties DEF c
<1>4. From(c, Len(a)) = b
  <2>1. \A i \in 1 .. Len(b) : c[Len(a) + i] = b[i]
    BY <1>1, <1>2
  <2> HIDE DEF c
  <2>2. Len(c) - Len(a) = Len(b)
    BY <1>1, <1>2 DEF c
  <2> QED
    BY <2>1, <2>2, <1>3, SeqEqual
<1>5. SubSeq(c, 1, Len(a)) = a
  <2>1. \A i \in 1 .. Len(a) : c[i] = a[i] /\ c[i] \in S
    BY <1>1, <1>2
  <2> HIDE DEF c
  <2>2. /\ SubSeq(c, 1, Len(a)) \in Seq(S)
        /\ Len(SubSeq(c, 1, Len(a))) = IF 1 <= Len(a) THEN Len(a) - 1 + 1 ELSE 0
        /\ \A i \in 1 .. Len(a) - 1 + 1 : SubSeq(c, 1, Len(a))[i] = c[1 + i - 1]
    BY <2>1, <1>2, SubSeqProperties
  <2>3. \A i \in 1 .. Len(a) : SubSeq(c, 1, Len(a))[i] = a[i]
    <3>1. \A i \in 1 .. Len(a) : i \in 1 .. Len(a) - 1 + 1 /\ 1 + i - 1 = i
      BY <1>2
    <3> QED
      BY <3>1, <2>1, <2>2
  <2>4. Len(SubSeq(c, 1, Len(a))) = Len(a)
    BY <2>2, <1>2
  <2> QED
    BY <2>2, <2>3, <2>4, SeqEqual
<1> QED
  BY <1>4, <1>5

\* A beginning and what is left make up the whole.
LEMMA FromJoins ==
  ASSUME NEW S, NEW b \in Seq(S), NEW n \in 0 .. Len(b)
  PROVE  /\ SubSeq(b, 1, n) \in Seq(S)
         /\ Len(SubSeq(b, 1, n)) = n
         /\ SubSeq(b, 1, n) \o From(b, n) = b
<1>1. Len(b) \in Nat /\ 1 \in 1 .. Len(b) + 1 /\ n \in 1 - 1 .. Len(b) /\ Len(b) \in n .. Len(b)
  OBVIOUS
<1>2. SubSeq(b, 1, n) \o SubSeq(b, n + 1, Len(b)) = SubSeq(b, 1, Len(b))
  BY <1>1, ConcatAdjacentSubSeq
<1>3. SubSeq(b, 1, Len(b)) = b
  BY SubSeqFull
<1>4. \A i \in 1 .. n : b[i] \in S
  BY <1>1, ElementOfSeq
<1>5. /\ SubSeq(b, 1, n) \in Seq(S)
      /\ Len(SubSeq(b, 1, n)) = IF 1 <= n THEN n - 1 + 1 ELSE 0
  BY <1>1, <1>4, SubSeqProperties
<1>6. Len(SubSeq(b, 1, n)) = n
  BY <1>1, <1>5
<1>7. SubSeq(b, 1, n) \o From(b, n) = b
  BY <1>2, <1>3 DEF From
<1> QED
  BY <1>5, <1>6, <1>7

\* What follows what follows.
LEMMA FromFrom ==
  ASSUME NEW S, NEW b \in Seq(S), NEW m \in Nat, NEW n \in Nat, m + n <= Len(b)
  PROVE  From(From(b, m), n) = From(b, m + n)
<1>1. Len(b) \in Nat /\ m \in 0 .. Len(b) /\ m + n \in 0 .. Len(b) /\ n \in 0 .. Len(b) - m
  OBVIOUS
<1> DEFINE c == From(b, m)
           d == From(b, m + n)
<1>2. /\ c \in Seq(S)
      /\ Len(c) = Len(b) - m
      /\ \A i \in 1 .. Len(b) - m : c[i] = b[m + i]
  BY <1>1, FromProperties
<1>3. /\ d \in Seq(S)
      /\ Len(d) = Len(b) - (m + n)
      /\ \A i \in 1 .. Len(b) - (m + n) : d[i] = b[(m + n) + i]
  BY <1>1, FromProperties
<1> HIDE DEF c, d
<1>4. /\ From(c, n) \in Seq(S)
      /\ Len(From(c, n)) = Len(c) - n
      /\ \A i \in 1 .. Len(c) - n : From(c, n)[i] = c[n + i]
  <2>1. n \in 0 .. Len(c)
    BY <1>1, <1>2
  <2> QED
    BY <1>2, <2>1, FromProperties, Z3, ZenonT(60)
<1>5. Len(From(c, n)) = Len(d) /\ Len(c) - n = Len(b) - (m + n)
  BY <1>1, <1>2, <1>3, <1>4
<1>6. ASSUME NEW i \in 1 .. Len(b) - (m + n)
      PROVE  From(c, n)[i] = d[i]
  <2>1. n + i \in 1 .. Len(b) - m /\ m + (n + i) = (m + n) + i
    BY <1>1
  <2> QED
    BY <2>1, <1>2, <1>3, <1>4, <1>5
<1>7. From(c, n) = d
  BY <1>3, <1>4, <1>5, <1>6, SeqEqual
<1> QED
  BY <1>7 DEF c, d

\* A beginning p of two sequences laid end to end, with x after it, ends in
\* the first one, or after it.
CutWithin(S, a, b, p, x) ==
  \/ \E y \in S : y # <<>> /\ a = p \o y
  \/ \E q \in S : p = a \o q /\ b = q \o x

\* A cut of two parts is inside the first, or after it and inside the second.
LEMMA CutOfConcat ==
  ASSUME NEW S, NEW a \in Seq(S), NEW b \in Seq(S), NEW p \in Seq(S), NEW s \in Seq(S),
         s # <<>>, a \o b = p \o s
  PROVE  CutWithin(Seq(S), a, b, p, s)
<1> DEFINE c == a \o b
<1>1. /\ c \in Seq(S) /\ Len(c) = Len(a) + Len(b) /\ Len(c) = Len(p) + Len(s)
      /\ Len(a) \in Nat /\ Len(b) \in Nat /\ Len(p) \in Nat /\ Len(s) \in Nat
  BY ConcatProperties
<1>2. SubSeq(c, 1, Len(a)) = a /\ From(c, Len(a)) = b
  BY FromConcat
<1>3. SubSeq(c, 1, Len(p)) = p /\ From(c, Len(p)) = s
  <2>1. SubSeq(p \o s, 1, Len(p)) = p /\ From(p \o s, Len(p)) = s
    BY FromConcat
  <2> QED
    BY <2>1
<1> HIDE DEF c
<1>4. CASE Len(p) < Len(a)
  <2> DEFINE x == From(a, Len(p))
  <2>1. Len(p) \in 0 .. Len(a)
    BY <1>1, <1>4
  <2>2. x \in Seq(S) /\ Len(x) = Len(a) - Len(p)
    BY <2>1, FromProperties
  <2>3. SubSeq(a, 1, Len(p)) \o x = a
    BY <2>1, FromJoins
  <2>4. SubSeq(a, 1, Len(p)) = p
    <3>1. CASE Len(p) = 0
      <4>1. p = <<>> /\ SubSeq(a, 1, Len(p)) = <<>>
        BY <3>1, EmptySeq, SubSeqEmpty
      <4> QED
        BY <4>1
    <3>2. CASE Len(p) # 0
      <4>1. 1 \in 1 .. Len(a) /\ Len(p) \in 1 .. Len(a)
        BY <3>2, <2>1, <1>1
      <4>2. SubSeq(a \o b, 1, Len(p)) = SubSeq(a, 1, Len(p))
        BY <4>1, SubSeqOfConcat1
      <4> QED
        BY <4>2, <1>3 DEF c
    <3> QED
      BY <3>1, <3>2
  <2>5. x # <<>>
    <3> HIDE DEF x
    <3> QED
      BY <2>2, <1>1, <1>4, EmptySeq
  <2> HIDE DEF x
  <2> QED
    BY <2>2, <2>3, <2>4, <2>5 DEF CutWithin
<1>5. CASE Len(p) >= Len(a)
  <2> DEFINE q == From(p, Len(a))
  <2>1. Len(a) \in 0 .. Len(p)
    BY <1>1, <1>5
  <2>2. q \in Seq(S) /\ SubSeq(p, 1, Len(a)) \o q = p
    BY <2>1, FromProperties, FromJoins
  <2>3. SubSeq(p, 1, Len(a)) = a
    <3>1. CASE Len(a) = 0
      <4>1. a = <<>> /\ SubSeq(p, 1, Len(a)) = <<>>
        BY <3>1, EmptySeq, SubSeqEmpty
      <4> QED
        BY <4>1
    <3>2. CASE Len(a) # 0
      <4>1. 1 \in 1 .. Len(p) /\ Len(a) \in 1 .. Len(p)
        BY <3>2, <2>1, <1>1
      <4>2. SubSeq(p \o s, 1, Len(a)) = SubSeq(p, 1, Len(a))
        BY <4>1, SubSeqOfConcat1
      <4> QED
        BY <4>2, <1>2 DEF c
    <3> QED
      BY <3>1, <3>2
  <2> HIDE DEF q
  <2>4. a \o q = p
    BY <2>2, <2>3
  <2>5. a \o b = a \o (q \o s)
    <3>1. q \in Seq(S)
      BY <2>2
    <3>2. (a \o q) \o s = a \o (q \o s)
      BY <3>1, ConcatAssociative, SMTT(60)
    <3> QED
      BY <3>2, <2>4, Zenon
  <2>6. q \o s \in Seq(S)
    BY <2>2, ConcatProperties
  <2>7. b = q \o s
    BY <2>5, <2>6, ConcatSimplifications, Zenon
  <2> QED
    BY <2>2, <2>4, <2>7 DEF CutWithin
<1>6. Len(p) < Len(a) \/ Len(p) >= Len(a)
  BY <1>1
<1> QED
  BY <1>4, <1>5, <1>6, Zenon

-----------------------------------------------------------------------------
(* Words. *)

\* The largest word is a number.
LEMMA RoomWord == Room \in Nat /\ Room <= MaxWord /\ Room >= 4 /\ MaxWord \in Nat
  BY XdrAssumption

\* And what it is counted by.
LEMMA MaxWordNumber == MaxWord \in Nat
  BY XdrAssumption

\* Words are numbers.
LEMMA WordsAre == Words \subseteq Nat
  BY DEF Words

\* Every number with fewer than four bytes is a word.
LEMMA SmallWord ==
  ASSUME NEW n \in Nat, n <= 16777216
  PROVE  n \in Words
<1>1. MaxWord \in Nat /\ MaxWord \div 16777216 \in 1 .. 255
  BY XdrAssumption
<1>2. MaxWord >= 16777216
  BY <1>1, SMT
<1> QED
  BY <1>1, <1>2, SMT DEF Words

\* A word is encoded as four bytes.
LEMMA WordType ==
  ASSUME NEW n \in Nat
  PROVE  /\ Word(n) \in Bytes
         /\ Len(Word(n)) = 4
<1>1. /\ (n \div 16777216) % 256 \in 0 .. 255 /\ (n \div 65536) % 256 \in 0 .. 255
      /\ (n \div 256) % 256 \in 0 .. 255 /\ n % 256 \in 0 .. 255
  BY SMT
<1> DEFINE a == (n \div 16777216) % 256
           b == (n \div 65536) % 256
           c == (n \div 256) % 256
           d == n % 256
<1> HIDE DEF a, b, c, d
<1>2. a \in 0 .. 255 /\ b \in 0 .. 255 /\ c \in 0 .. 255 /\ d \in 0 .. 255
  BY <1>1, SMT DEF a, b, c, d
<1>3. <<a, b, c, d>> \in Seq(0 .. 255) /\ Len(<<a, b, c, d>>) = 4
  BY <1>2
<1> QED
  BY <1>3, SMT DEF Word, Bytes, a, b, c, d

\* Four bytes make up the word they were taken from.
LEMMA WordDigits ==
  ASSUME NEW n \in Words
  PROVE  (((((n \div 16777216) % 256) * 256 + ((n \div 65536) % 256)) * 256
              + ((n \div 256) % 256)) * 256) + (n % 256) = n
<1>1. n \in Nat /\ n <= MaxWord /\ MaxWord \in Nat /\ MaxWord \div 16777216 \in 1 .. 255
  BY XdrAssumption, SMT DEF Words
<1>2. n \div 16777216 \in 0 .. 255
  BY <1>1, SMT
<1>3. /\ n = 256 * (n \div 256) + (n % 256)
      /\ n \div 256 = 256 * (n \div 65536) + ((n \div 256) % 256)
      /\ n \div 65536 = 256 * (n \div 16777216) + ((n \div 65536) % 256)
  BY <1>1, SMT
<1>4. (n \div 16777216) % 256 = n \div 16777216
  BY <1>2, SMT
<1> DEFINE a == n \div 16777216
           b == n \div 65536
           c == n \div 256
           bm == b % 256
           cm == c % 256
           dm == n % 256
<1>5. /\ a \in Int /\ b \in Int /\ c \in Int /\ bm \in Int /\ cm \in Int /\ dm \in Int
      /\ a % 256 = a /\ n = 256 * c + dm /\ c = 256 * b + cm /\ b = 256 * a + bm
  BY <1>1, <1>3, <1>4, SMT
<1> HIDE DEF a, b, c, bm, cm, dm
<1>6. ((a * 256 + bm) * 256 + cm) * 256 + dm = n
  BY <1>5, SMT
<1> QED
  BY <1>5, <1>6, SMT DEF a, b, c, bm, cm, dm

\* The bytes of a word are read back as it is.
LEMMA DecWord ==
  ASSUME NEW n \in Words, NEW r \in Bytes
  PROVE  DecU32(Word(n) \o r) = Ok(n, r)
<1>1. n \in Nat /\ Word(n) \in Bytes /\ Len(Word(n)) = 4
  BY WordsAre, WordType
<1> DEFINE b == Word(n) \o r
<1>2. /\ b \in Bytes /\ Len(b) = Len(Word(n)) + Len(r)
      /\ \A i \in 1 .. Len(Word(n)) + Len(r) : b[i] =
           IF i <= Len(Word(n)) THEN Word(n)[i] ELSE r[i - Len(Word(n))]
  BY <1>1, ConcatProperties, ZenonT(60) DEF Bytes
<1>3. Len(r) \in Nat
  BY DEF Bytes
<1>4. b[1] = Word(n)[1] /\ b[2] = Word(n)[2] /\ b[3] = Word(n)[3] /\ b[4] = Word(n)[4]
  <2> HIDE DEF b
  <2> QED
    BY <1>1, <1>2, <1>3
<1>5. From(b, 4) = r
  <2>1. From(Word(n) \o r, Len(Word(n))) = r
    BY <1>1, FromConcat DEF Bytes
  <2> QED
    BY <1>1, <2>1
<1> HIDE DEF b
<1>6. Number(b) = n
  BY <1>4, WordDigits, SMT DEF Number, Word
<1>7. ~ (Len(b) < 4)
  BY <1>1, <1>2, <1>3
<1>8. DecU32(b) = Ok(n, r)
  BY <1>5, <1>6, <1>7 DEF DecU32
<1> QED
  BY <1>8 DEF b

\* What is decoded of any bytes.
LEMMA DecU32Any ==
  ASSUME NEW b \in Bytes
  PROVE  /\ Len(b) < 4 => DecU32(b) = Err
         /\ Len(b) >= 4 => DecU32(b) = Ok(Number(b), From(b, 4))
         /\ Len(b) \in Nat
         /\ DecU32(b).out \in {"ok", "err"}
         /\ DecU32(b).out = "ok" =>
              Len(b) >= 4 /\ DecU32(b).val \in Nat /\ DecU32(b).rest = From(b, 4)
         /\ DecU32(b).rest \in Bytes
         /\ DecU32(b).out # "ok" => DecU32(b) = Err
<1>1. Len(b) \in Nat
  BY DEF Bytes
<1>2. CASE Len(b) < 4
  <2>1. DecU32(b) = Err
    BY <1>2 DEF DecU32
  <2>2. <<>> \in Bytes
    BY DEF Bytes
  <2> QED
    BY <1>1, <1>2, <2>1, <2>2 DEF Err, Stop
<1>3. CASE Len(b) >= 4
  <2>1. DecU32(b) = Ok(Number(b), From(b, 4))
    BY <1>1, <1>3 DEF DecU32
  <2>2. From(b, 4) \in Bytes
    <3>1. 4 \in 0 .. Len(b)
      BY <1>1, <1>3
    <3> QED
      BY <3>1, FromProperties DEF Bytes
  <2>3. b[1] \in 0 .. 255 /\ b[2] \in 0 .. 255 /\ b[3] \in 0 .. 255 /\ b[4] \in 0 .. 255
    <3>1. 1 \in 1 .. Len(b) /\ 2 \in 1 .. Len(b) /\ 3 \in 1 .. Len(b) /\ 4 \in 1 .. Len(b)
      BY <1>1, <1>3
    <3>2. b \in Seq(0 .. 255)
      BY DEF Bytes
    <3> QED
      BY <3>1, <3>2, ElementOfSeq, SMTT(60)
  <2>4. Number(b) \in Nat
    <3> DEFINE w == b[1]
               x == b[2]
               y == b[3]
               z == b[4]
    <3>1. Number(b) = ((w * 256 + x) * 256 + y) * 256 + z
      BY DEF Number
    <3>m. \A n \in 0 .. 255 : n \in Nat
      OBVIOUS
    <3>2. w \in Nat /\ x \in Nat /\ y \in Nat /\ z \in Nat
      BY <2>3, <3>m, ZenonT(60)
    <3> HIDE DEF w, x, y, z
    <3> QED
      BY <3>1, <3>2
  <2> QED
    BY <1>1, <1>3, <2>1, <2>2, <2>4 DEF Ok
<1> QED
  BY <1>1, <1>2, <1>3

\* A word cut short is no word.
LEMMA CutWord ==
  ASSUME NEW n \in Nat, NEW p \in Bytes, NEW x \in Bytes, x # <<>>, Word(n) = p \o x
  PROVE  DecU32(p) = Err
<1>1. Len(p \o x) = Len(p) + Len(x)
  BY ConcatProperties, ZenonT(60) DEF Bytes
<1>2. Len(p) \in Nat /\ Len(x) \in Nat
  BY DEF Bytes
<1>3. Len(x) # 0
  BY EmptySeq DEF Bytes
<1>4. Len(p) < 4
  <2>1. Len(Word(n)) = 4
    BY WordType
  <2> QED
    BY <1>1, <1>2, <1>3, <2>1
<1> QED
  BY <1>4, DecU32Any

-----------------------------------------------------------------------------
(* What a codec promises. *)

Encodes(t) == \A v \in t.values : t.enc[v] \in Bytes

\* Decoding what was encoded gives the value back, and what followed it; the
\* last part of a message may swallow what follows.
ReadsBack(t, last) ==
  \A v \in t.values : \A r \in Bytes : \E q \in Bytes :
    t.dec[t.enc[v] \o r] = Ok(v, q) /\ (last \/ q = r)

\* A beginning of what was encoded is refused.
RefusesCuts(t) ==
  \A v \in t.values : \A p \in Bytes : \A x \in Bytes :
    x # <<>> /\ t.enc[v] = p \o x => t.dec[p] = Err

Codec(t, last) == Encodes(t) /\ ReadsBack(t, last) /\ RefusesCuts(t)

\* c is what is left of b after its beginning.
EndOf(c, b) == \E n \in 0 .. Len(b) : c = From(b, n)

\* A count there is no memory for.
TooMany(c) == Len(c) >= 4 /\ Number(c) > Room

\* r comes of decoding b: b was decoded up to some point, or refused, or the
\* process ended at a count in it there is no memory for.
Settles(r, b) ==
  /\ r.out \in {"ok", "err", "abort"}
  /\ r.rest \in Bytes
  /\ r.out # "err" => EndOf(r.rest, b)
  /\ r.out = "abort" => TooMany(r.rest)

\* No bytes make it panic.
Quiet(t) == \A b \in Bytes : Settles(t.dec[b], b)

\* What a decoder that succeeds returns.
LEMMA OkFields ==
  ASSUME NEW v, NEW q
  PROVE  Ok(v, q).out = "ok" /\ Ok(v, q).val = v /\ Ok(v, q).rest = q
  BY DEF Ok

\* What one that fails returns.
LEMMA ErrFields == Err.out = "err" /\ Err.out # "ok" /\ Err.rest = <<>>
  BY DEF Err, Stop

\* What is left of bytes, and what is left of that.
LEMMA EndOfBytes ==
  ASSUME NEW b \in Bytes
  PROVE  /\ \A n \in 0 .. Len(b) : From(b, n) \in Bytes /\ EndOf(From(b, n), b)
         /\ EndOf(b, b)
         /\ EndOf(<<>>, b)
         /\ \A c \in Bytes, d \in Bytes : EndOf(c, b) /\ EndOf(d, c) => EndOf(d, b)
<1>0. b \in Seq(0 .. 255) /\ Len(b) \in Nat /\ 0 \in 0 .. Len(b) /\ Len(b) \in 0 .. Len(b)
  BY DEF Bytes
<1>1. \A n \in 0 .. Len(b) : From(b, n) \in Bytes /\ EndOf(From(b, n), b)
  BY <1>0, FromProperties DEF Bytes, EndOf
<1>2. EndOf(b, b)
  <2>1. From(b, 0) = b
    BY <1>0, SubSeqFull DEF From
  <2> QED
    BY <1>0, <2>1 DEF EndOf
<1>3. EndOf(<<>>, b)
  <2>1. /\ From(b, Len(b)) \in Seq(0 .. 255)
        /\ Len(From(b, Len(b))) = Len(b) - Len(b)
    BY <1>0, FromProperties
  <2>2. From(b, Len(b)) = <<>>
    BY <1>0, <2>1, EmptySeq
  <2> QED
    BY <1>0, <2>2 DEF EndOf
<1>4. ASSUME NEW c \in Bytes, NEW d \in Bytes, EndOf(c, b), EndOf(d, c)
      PROVE  EndOf(d, b)
  <2>1. PICK m \in 0 .. Len(b) : c = From(b, m)
    BY <1>4 DEF EndOf
  <2>2. PICK n \in 0 .. Len(c) : d = From(c, n)
    BY <1>4 DEF EndOf
  <2>3. Len(c) = Len(b) - m
    BY <1>0, <2>1, FromProperties
  <2>4. m \in Nat /\ n \in Nat /\ m + n <= Len(b) /\ m + n \in 0 .. Len(b)
    BY <1>0, <2>2, <2>3
  <2>5. d = From(b, m + n)
    BY <1>0, <2>1, <2>2, <2>4, FromFrom
  <2> QED
    BY <2>4, <2>5 DEF EndOf
<1> QED
  BY <1>1, <1>2, <1>3, <1>4

\* Success is an answer.
LEMMA OkSettles ==
  ASSUME NEW b \in Bytes, NEW v, NEW q \in Bytes, EndOf(q, b)
  PROVE  Settles(Ok(v, q), b)
  BY OkFields DEF Settles

\* What answers for the end of bytes answers for them.
LEMMA EndSettles ==
  ASSUME NEW b \in Bytes, NEW c \in Bytes, EndOf(c, b), NEW r, Settles(r, c)
  PROVE  Settles(r, b)
  BY EndOfBytes DEF Settles

\* What ends a message may also stand where something follows.
LEMMA CodecLast ==
  ASSUME NEW t, Codec(t, FALSE)
  PROVE  Codec(t, TRUE)
  BY DEF Codec, ReadsBack

\* Bytes after bytes are bytes.
LEMMA BytesConcat ==
  ASSUME NEW a \in Bytes, NEW b \in Bytes
  PROVE  /\ a \o b \in Bytes
         /\ Len(a \o b) = Len(a) + Len(b)
         /\ Len(a) \in Nat
  BY ConcatProperties DEF Bytes

\* In whatever order they were put together.
LEMMA BytesAssoc ==
  ASSUME NEW a \in Bytes, NEW b \in Bytes, NEW c \in Bytes
  PROVE  (a \o b) \o c = a \o (b \o c)
  BY ConcatAssociative DEF Bytes

\* No bytes change nothing.
LEMMA BytesEmpty ==
  /\ <<>> \in Bytes
  /\ \A b \in Bytes : <<>> \o b = b /\ b \o <<>> = b
  /\ \A b \in Bytes, c \in Bytes : b \o c = <<>> => c = <<>>
  BY EmptySeq, ConcatEmptySeq, ConcatEqualIffEmpty DEF Bytes

\* Where a cut may be, for bytes.
LEMMA BytesCut ==
  ASSUME NEW a \in Bytes, NEW b \in Bytes, NEW p \in Bytes, NEW x \in Bytes,
         x # <<>>, a \o b = p \o x
  PROVE  CutWithin(Bytes, a, b, p, x)
<1>1. /\ a \in Seq(0 .. 255) /\ b \in Seq(0 .. 255)
      /\ p \in Seq(0 .. 255) /\ x \in Seq(0 .. 255)
  BY DEF Bytes
<1>2. ASSUME NEW S, a \in Seq(S), b \in Seq(S), p \in Seq(S), x \in Seq(S)
      PROVE  CutWithin(Seq(S), a, b, p, x)
  BY <1>2, CutOfConcat, Zenon
<1> QED
  BY <1>1, <1>2, Zenon DEF Bytes

\* Failure is an answer.
LEMMA ErrSettles == \A b : Settles(Err, b)
  BY ErrFields, BytesEmpty DEF Settles

\* A word is there or not.
LEMMA WordSettles ==
  ASSUME NEW b \in Bytes
  PROVE  /\ Settles(DecU32(b), b)
         /\ DecU32(b).rest \in Bytes
         /\ DecU32(b).out = "ok" => EndOf(DecU32(b).rest, b)
<1>1. CASE DecU32(b).out = "ok"
  <2>1. Len(b) \in Nat /\ Len(b) >= 4
    BY <1>1, DecU32Any
  <2>2. 4 \in 0 .. Len(b)
    BY <2>1
  <2>3. DecU32(b) = Ok(Number(b), From(b, 4))
    BY <2>1, DecU32Any
  <2>4. From(b, 4) \in Bytes /\ EndOf(From(b, 4), b)
    BY <2>2, EndOfBytes
  <2> QED
    BY <2>3, <2>4, OkSettles, OkFields
<1>2. CASE DecU32(b).out # "ok"
  BY <1>2, DecU32Any, ErrSettles
<1> QED
  BY <1>1, <1>2

\* A word, then more: the word is read first, and no cut makes it another.
LEMMA WordFirst ==
  ASSUME NEW n \in Words, NEW a \in Bytes, NEW r \in Bytes
  PROVE  DecU32((Word(n) \o a) \o r) = Ok(n, a \o r)
<1>1. Word(n) \in Bytes
  BY WordsAre, WordType
<1>2. a \o r \in Bytes
  BY BytesConcat
<1>3. (Word(n) \o a) \o r = Word(n) \o (a \o r)
  BY <1>1, BytesAssoc
<1> QED
  BY <1>2, <1>3, DecWord

WordOrNone(n, a, p, x) ==
  DecU32(p) = Err \/ \E q \in Bytes : DecU32(p) = Ok(n, q) /\ a = q \o x

\* A cut after the first word leaves that word, one inside it none.
LEMMA WordCut ==
  ASSUME NEW n \in Words, NEW a \in Bytes, NEW p \in Bytes, NEW x \in Bytes,
         x # <<>>, Word(n) \o a = p \o x
  PROVE  WordOrNone(n, a, p, x)
<1>1. n \in Nat /\ Word(n) \in Bytes
  BY WordsAre, WordType
<1>2. CASE \E y \in Bytes : y # <<>> /\ Word(n) = p \o y
  BY <1>1, <1>2, CutWord DEF WordOrNone
<1>3. CASE \E q \in Bytes : p = Word(n) \o q /\ a = q \o x
  BY <1>3, DecWord DEF WordOrNone
<1>4. CutWithin(Bytes, Word(n), a, p, x)
  BY <1>1, BytesCut, Zenon
<1> QED
  BY <1>2, <1>3, <1>4 DEF CutWithin

-----------------------------------------------------------------------------
(* Words, opaques, and nothing. *)

\* The layout of a u32.
LEMMA U32Is ==
  /\ U32.values = Words
  /\ \A v \in Words : U32.enc[v] = Word(v)
  /\ \A b \in Bytes : U32.dec[b] = DecU32(b)
  BY DEF U32

\* A u32 is read back and never cut.
LEMMA U32Codec == Codec(U32, FALSE) /\ Quiet(U32)
<1>1. Encodes(U32)
  BY U32Is, WordsAre, WordType DEF Encodes
<1>2. ReadsBack(U32, FALSE)
  <2> SUFFICES ASSUME NEW v \in Words, NEW r \in Bytes
               PROVE  U32.dec[U32.enc[v] \o r] = Ok(v, r)
    BY U32Is DEF ReadsBack
  <2>1. Word(v) \in Bytes /\ Word(v) \o r \in Bytes
    BY WordsAre, WordType, BytesConcat
  <2> QED
    BY <2>1, U32Is, DecWord
<1>3. RefusesCuts(U32)
  BY U32Is, WordsAre, CutWord, ZenonT(60) DEF RefusesCuts
<1>4. Quiet(U32)
  BY U32Is, WordSettles DEF Quiet
<1> QED
  BY <1>1, <1>2, <1>3, <1>4 DEF Codec

\* The layout of nothing.
LEMMA VoidIs ==
  /\ Void.values = {<<>>}
  /\ Void.enc[<<>>] = <<>>
  /\ \A b \in Bytes : Void.dec[b] = Ok(<<>>, b)
  BY DEF Void

\* Nothing is read back as nothing.
LEMMA VoidCodec == Codec(Void, FALSE) /\ Quiet(Void)
<1>1. Encodes(Void)
  BY VoidIs, BytesEmpty DEF Encodes
<1>2. ReadsBack(Void, FALSE)
  <2>1. \A r \in Bytes : Void.dec[Void.enc[<<>>] \o r] = Ok(<<>>, r)
    BY VoidIs, BytesEmpty
  <2> QED
    BY <2>1, VoidIs DEF ReadsBack
<1>3. RefusesCuts(Void)
  <2>1. \A p \in Bytes : \A x \in Bytes : x # <<>> => p \o x # <<>>
    BY BytesEmpty
  <2> QED
    BY <2>1, VoidIs DEF RefusesCuts
<1>4. Quiet(Void)
  BY VoidIs, OkSettles, EndOfBytes DEF Quiet
<1> QED
  BY <1>1, <1>2, <1>3, <1>4 DEF Codec

\* n bytes from the front.
LEMMA Taken ==
  ASSUME NEW a \in Bytes, NEW r \in Bytes
  PROVE  /\ a \o r \in Bytes
         /\ Len(a) <= Len(a \o r)
         /\ SubSeq(a \o r, 1, Len(a)) = a
         /\ From(a \o r, Len(a)) = r
<1>1. SubSeq(a \o r, 1, Len(a)) = a /\ From(a \o r, Len(a)) = r
  BY FromConcat DEF Bytes
<1>2. a \o r \in Bytes /\ Len(a \o r) = Len(a) + Len(r) /\ Len(a) \in Nat /\ Len(r) \in Nat
  BY BytesConcat
<1> QED
  BY <1>1, <1>2

\* The layout of fixed opaques.
LEMMA FixedIs ==
  ASSUME NEW n \in Nat
  PROVE  /\ Fixed(n).values = [1 .. n -> 0 .. 255]
         /\ \A v \in [1 .. n -> 0 .. 255] : Fixed(n).enc[v] = v
         /\ \A v \in [1 .. n -> 0 .. 255] : v \in Bytes /\ Len(v) = n
         /\ \A b \in Bytes : Fixed(n).dec[b] =
              IF Len(b) < n THEN Err ELSE Ok(SubSeq(b, 1, n), From(b, n))
<1>1. Fixed(n).values = [1 .. n -> 0 .. 255]
  BY DEF Fixed
<1>2. \A v \in [1 .. n -> 0 .. 255] : v \in Seq(0 .. 255) /\ Len(v) = n
  OBVIOUS
<1>3. \A v \in [1 .. n -> 0 .. 255] : Fixed(n).enc[v] = v
  BY DEF Fixed
<1>4. \A b \in Bytes : Fixed(n).dec[b] =
        IF Len(b) < n THEN Err ELSE Ok(SubSeq(b, 1, n), From(b, n))
  BY DEF Fixed
<1> QED
  BY <1>1, <1>2, <1>3, <1>4 DEF Bytes

\* A fixed opaque is read back and never cut.
LEMMA FixedCodec ==
  ASSUME NEW n \in Nat
  PROVE  Codec(Fixed(n), FALSE) /\ Quiet(Fixed(n))
<1> DEFINE t == Fixed(n)
<1>0. /\ \A v \in t.values : v \in Bytes /\ Len(v) = n /\ t.enc[v] = v
      /\ \A b \in Bytes : t.dec[b] =
           IF Len(b) < n THEN Err ELSE Ok(SubSeq(b, 1, n), From(b, n))
  <2>1. t.values = [1 .. n -> 0 .. 255]
    BY FixedIs
  <2>2. \A v \in t.values : v \in Bytes /\ Len(v) = n /\ t.enc[v] = v
    BY <2>1, FixedIs, SMT, ZenonT(60)
  <2>3. \A b \in Bytes : t.dec[b] =
          IF Len(b) < n THEN Err ELSE Ok(SubSeq(b, 1, n), From(b, n))
    BY FixedIs
  <2> QED
    BY <2>2, <2>3
<1> HIDE DEF t
<1>1. Encodes(t)
  BY <1>0 DEF Encodes
<1>2. ReadsBack(t, FALSE)
  <2> SUFFICES ASSUME NEW v \in t.values, NEW r \in Bytes
               PROVE  t.dec[v \o r] = Ok(v, r)
    BY <1>0 DEF ReadsBack
  <2>1. v \in Bytes /\ Len(v) = n
    BY <1>0
  <2>2. /\ v \o r \in Bytes /\ n <= Len(v \o r)
        /\ SubSeq(v \o r, 1, n) = v /\ From(v \o r, n) = r
    BY <2>1, Taken
  <2>3. Len(v \o r) \in Nat
    BY <2>2 DEF Bytes
  <2>4. ~ (Len(v \o r) < n)
    BY <2>2, <2>3
  <2> QED
    BY <2>2, <2>4, <1>0, Zenon
<1>3. RefusesCuts(t)
  <2> SUFFICES ASSUME NEW v \in t.values, NEW p \in Bytes, NEW x \in Bytes,
                      x # <<>>, v = p \o x
               PROVE  t.dec[p] = Err
    BY <1>0 DEF RefusesCuts
  <2>1. Len(v) = n /\ Len(p \o x) = Len(p) + Len(x) /\ Len(p) \in Nat /\ Len(x) \in Nat
    BY <1>0, BytesConcat
  <2>2. Len(x) # 0
    BY EmptySeq DEF Bytes
  <2>3. Len(p) < n
    BY <2>1, <2>2
  <2> QED
    BY <2>3, <1>0
<1>4. Quiet(t)
  <2> SUFFICES ASSUME NEW b \in Bytes
               PROVE  Settles(t.dec[b], b)
    BY DEF Quiet
  <2>1. CASE Len(b) < n
    BY <2>1, <1>0, ErrSettles
  <2>2. CASE ~ (Len(b) < n)
    <3>1. Len(b) \in Nat
      BY DEF Bytes
    <3>2. n \in 0 .. Len(b)
      BY <2>2, <3>1
    <3>3. From(b, n) \in Bytes /\ EndOf(From(b, n), b)
      BY <3>2, EndOfBytes
    <3>4. t.dec[b] = Ok(SubSeq(b, 1, n), From(b, n))
      BY <2>2, <1>0
    <3> QED
      BY <3>3, <3>4, OkSettles
  <2> QED
    BY <2>1, <2>2
<1>5. Codec(t, FALSE) /\ Quiet(t)
  BY <1>1, <1>2, <1>3, <1>4 DEF Codec
<1> QED
  BY <1>5 DEF t

\* There are at most three bytes of padding.
LEMMA PaddingRange ==
  ASSUME NEW n \in Nat
  PROVE  Padding(n) \in 0 .. 3
  BY DEF Padding

\* The layout of variable opaques.
LEMMA OpaqueIs ==
  ASSUME NEW max \in Nat
  PROVE  /\ Opaque(max).values = {v \in Bytes : Len(v) <= max}
         /\ \A v \in Opaque(max).values : Opaque(max).enc[v] = EncOpaque(v)
         /\ \A b \in Bytes : Opaque(max).dec[b] = DecOpaque(max, b)
  BY DEF Opaque

\* The length is a word, and the padding bytes.
LEMMA OpaqueParts ==
  ASSUME NEW max \in Words, NEW v \in Opaque(max).values
  PROVE  \E pad \in Bytes :
           /\ v \in Bytes
           /\ Len(v) \in Words
           /\ Len(v) <= max
           /\ Len(pad) = Padding(Len(v))
           /\ v \o pad \in Bytes
           /\ EncOpaque(v) = Word(Len(v)) \o (v \o pad)
           /\ Word(Len(v)) \in Bytes
<1> DEFINE n == Len(v)
           pad == [i \in 1 .. Padding(n) |-> 0]
<1>1. v \in Bytes /\ n <= max /\ n \in Nat /\ max \in Nat
  BY OpaqueIs, WordsAre DEF Bytes
<1>2. n \in Words
  BY <1>1, MaxWordNumber DEF Words
<1>3. Padding(n) \in 0 .. 3
  BY <1>1, PaddingRange
<1> HIDE DEF n
<1>4. pad \in Bytes /\ Len(pad) = Padding(n)
  <2>1. ASSUME NEW k \in Nat
        PROVE  /\ [i \in 1 .. k |-> 0] \in Seq(0 .. 255)
               /\ Len([i \in 1 .. k |-> 0]) = k
    OBVIOUS
  <2>2. Padding(n) \in Nat
    BY <1>3
  <2> QED
    BY <2>1, <2>2, Zenon DEF Bytes
<1> HIDE DEF pad
<1>5. v \o pad \in Bytes /\ Word(n) \in Bytes
  BY <1>1, <1>2, <1>4, BytesConcat, WordType
<1>6. (Word(n) \o v) \o pad = Word(n) \o (v \o pad)
  BY <1>1, <1>4, <1>5, BytesAssoc
<1>7. EncOpaque(v) = (Word(n) \o v) \o pad
  BY DEF EncOpaque, pad, n
<1> QED
  BY <1>1, <1>2, <1>4, <1>5, <1>6, <1>7 DEF n

\* A variable opaque of any length up to its limit is read back, padding and
\* all, and refused when cut anywhere, inside the padding as well (OpaqueData
\* and the file handle of xdr-codec).
THEOREM OpaqueCodec ==
  ASSUME NEW max \in Words
  PROVE  Codec(Opaque(max), FALSE) /\ Quiet(Opaque(max))
<1> DEFINE t == Opaque(max)
<1>0. max \in Nat
  BY WordsAre
<1>1. Encodes(t)
  <2> SUFFICES ASSUME NEW v \in t.values
               PROVE  EncOpaque(v) \in Bytes
    BY <1>0, OpaqueIs DEF Encodes
  <2> QED
    BY OpaqueParts, BytesConcat
<1>2. ReadsBack(t, FALSE)
  <2> SUFFICES ASSUME NEW v \in t.values, NEW r \in Bytes
               PROVE  t.dec[EncOpaque(v) \o r] = Ok(v, r)
    BY <1>0, OpaqueIs DEF ReadsBack
  <2>1. PICK pad \in Bytes :
           /\ v \in Bytes
           /\ Len(v) \in Words
           /\ Len(v) <= max
           /\ Len(pad) = Padding(Len(v))
           /\ v \o pad \in Bytes
           /\ EncOpaque(v) = Word(Len(v)) \o (v \o pad)
           /\ Word(Len(v)) \in Bytes
    BY OpaqueParts
  <2>v. v \in Bytes /\ pad \in Bytes /\ v \o pad \in Bytes
    BY <2>1
  <2> DEFINE n == Len(v)
             b == EncOpaque(v) \o r
             c == (v \o pad) \o r
  <2>2. b \in Bytes
    BY <2>1, BytesConcat
  <2>3. DecU32(b) = Ok(n, c)
    BY <2>1, WordFirst
  <2>4. n \in Nat /\ Padding(n) \in 0 .. 3
    BY <2>1, WordsAre, PaddingRange
  <2>5. /\ Len(v \o pad) = n + Padding(n)
        /\ From(c, n + Padding(n)) = r
        /\ n + Padding(n) <= Len(c)
        /\ c \in Bytes
    <3>1. Len(v \o pad) = n + Padding(n)
      <4>1. Len(v \o pad) = Len(v) + Len(pad)
        BY <2>v, BytesConcat, Zenon
      <4> QED
        BY <4>1, <2>1
    <3>2. From(c, Len(v \o pad)) = r /\ Len(v \o pad) <= Len(c) /\ c \in Bytes
      BY <2>v, Taken
    <3> QED
      BY <3>1, <3>2
  <2>6. SubSeq(c, 1, n) = v
    <3>1. c = v \o (pad \o r) /\ pad \o r \in Bytes
      BY <2>v, BytesAssoc, BytesConcat
    <3> QED
      BY <2>v, <3>1, Taken
  <2>7. Len(c) \in Nat
    BY <2>5 DEF Bytes
  <2> HIDE DEF n, b, c
  <2>8. ~ (Len(c) < n + Padding(n) \/ n > max)
    BY <2>1, <2>4, <2>5, <2>7, <1>0 DEF n
  <2>9. DecOpaque(max, b) = Ok(v, r)
    <3>1. DecU32(b).out = "ok" /\ DecU32(b).val = n /\ DecU32(b).rest = c
      BY <2>3, OkFields
    <3>2. DecOpaque(max, b) = Ok(SubSeq(c, 1, n), From(c, n + Padding(n)))
      BY <2>8, <3>1 DEF DecOpaque
    <3> QED
      BY <2>5, <2>6, <3>2
  <2>10. t.dec[b] = DecOpaque(max, b)
    BY <2>2, <1>0, OpaqueIs
  <2> QED
    BY <2>9, <2>10 DEF b
<1>3. RefusesCuts(t)
  <2> SUFFICES ASSUME NEW v \in t.values, NEW p \in Bytes, NEW x \in Bytes,
                      x # <<>>, EncOpaque(v) = p \o x
               PROVE  t.dec[p] = Err
    BY <1>0, OpaqueIs DEF RefusesCuts
  <2>1. PICK pad \in Bytes :
           /\ v \in Bytes
           /\ Len(v) \in Words
           /\ Len(v) <= max
           /\ Len(pad) = Padding(Len(v))
           /\ v \o pad \in Bytes
           /\ EncOpaque(v) = Word(Len(v)) \o (v \o pad)
           /\ Word(Len(v)) \in Bytes
    BY OpaqueParts
  <2>v. v \in Bytes /\ pad \in Bytes /\ v \o pad \in Bytes
    BY <2>1
  <2>2. WordOrNone(Len(v), v \o pad, p, x)
    <3>1. Word(Len(v)) \o (v \o pad) = p \o x /\ Len(v) \in Words
      BY <2>1
    <3> QED
      BY <2>v, <3>1, WordCut, Zenon
  <2>3. CASE DecU32(p) = Err
    <3>1. DecOpaque(max, p) = Err
      BY <2>3 DEF DecOpaque, Err, Stop
    <3> QED
      BY <3>1, <1>0, OpaqueIs
  <2>4. CASE \E q \in Bytes : DecU32(p) = Ok(Len(v), q) /\ v \o pad = q \o x
    <3>1. PICK q \in Bytes : DecU32(p) = Ok(Len(v), q) /\ v \o pad = q \o x
      BY <2>4
    <3> DEFINE n == Len(v)
    <3>2. /\ Len(v \o pad) = n + Padding(n) /\ Len(q \o x) = Len(q) + Len(x)
          /\ Len(q) \in Nat /\ Len(x) \in Nat /\ Len(x) # 0
      <4>1. Len(v \o pad) = Len(v) + Len(pad) /\ Len(q \o x) = Len(q) + Len(x)
        BY <2>v, BytesConcat, Zenon
      <4> QED
        BY <4>1, <2>1, EmptySeq DEF Bytes
    <3>3. n \in Nat /\ Padding(n) \in 0 .. 3
      BY <2>1, WordsAre, PaddingRange
    <3>4. Len(q) < n + Padding(n)
      BY <3>1, <3>2, <3>3
    <3>5. DecOpaque(max, p) = Err
      BY <3>1, <3>4 DEF DecOpaque, Ok
    <3> QED
      BY <3>5, <1>0, OpaqueIs
  <2> QED
    BY <2>2, <2>3, <2>4 DEF WordOrNone
<1>4. Quiet(t)
  <2> SUFFICES ASSUME NEW b \in Bytes
               PROVE  Settles(DecOpaque(max, b), b)
    BY <1>0, OpaqueIs DEF Quiet
  <2> DEFINE d == DecU32(b)
             n == d.val
             c == d.rest
  <2>1. /\ d.out \in {"ok", "err"} /\ c \in Bytes
        /\ d.out = "ok" => n \in Nat /\ EndOf(c, b)
        /\ d.out # "ok" => d = Err
    BY DecU32Any, WordSettles
  <2>2. CASE d.out # "ok"
    BY <2>1, <2>2, ErrSettles DEF DecOpaque
  <2>3. CASE d.out = "ok" /\ (Len(c) < n + Padding(n) \/ n > max)
    <3>1. DecOpaque(max, b) = Err
      BY <2>3 DEF DecOpaque
    <3> QED
      BY <3>1, ErrSettles
  <2>4. CASE d.out = "ok" /\ ~ (Len(c) < n + Padding(n) \/ n > max)
    <3>1. DecOpaque(max, b) = Ok(SubSeq(c, 1, n), From(c, n + Padding(n)))
      BY <2>4 DEF DecOpaque
    <3>2. n \in Nat /\ Padding(n) \in 0 .. 3 /\ Len(c) \in Nat
      BY <2>1, <2>4, PaddingRange DEF Bytes
    <3>3. n + Padding(n) \in 0 .. Len(c)
      <4> HIDE DEF d
      <4> QED
        BY <2>4, <3>2
    <3>4. From(c, n + Padding(n)) \in Bytes /\ EndOf(From(c, n + Padding(n)), c)
      <4> HIDE DEF d
      <4> QED
        BY <2>1, <3>3, EndOfBytes
    <3>5. Settles(DecOpaque(max, b), c)
      <4> HIDE DEF d
      <4> QED
        BY <2>1, <3>1, <3>4, OkSettles
    <3> QED
      BY <2>1, <2>4, <3>5, EndSettles
  <2> QED
    BY <2>2, <2>3, <2>4
<1> QED
  BY <1>1, <1>2, <1>3, <1>4 DEF Codec

-----------------------------------------------------------------------------
(* Structs and enums. *)

\* Two parts that succeed make a pair.
LEMMA AfterOk ==
  ASSUME NEW v, NEW x, NEW w, NEW q
  PROVE  After(Ok(v, x), Ok(w, q)) = Ok(<<v, w>>, q)
  BY OkFields DEF After

\* A part whose rest fails, fails.
LEMMA AfterErr ==
  ASSUME NEW part
  PROVE  After(part, Err) = Err
  BY ErrFields DEF After

\* The second part answers for both.
LEMMA AfterSettles ==
  ASSUME NEW part, NEW r, NEW b, Settles(r, b)
  PROVE  Settles(After(part, r), b)
<1>1. CASE r.out = "ok"
  BY <1>1, OkFields DEF After, Settles
<1>2. CASE r.out # "ok"
  BY <1>2 DEF After
<1> QED
  BY <1>1, <1>2

\* The layout of a struct.
LEMMA StructIs ==
  ASSUME NEW t, NEW u
  PROVE  /\ (t ** u).values = t.values \X u.values
         /\ \A b \in Bytes : (t ** u).dec[b] = DecStruct(t, u, b)
<1>1. (t ** u).values = t.values \X u.values
  BY DEF **, Struct
<1>2. (t ** u).dec = [b \in Bytes |-> DecStruct(t, u, b)]
  BY DEF **, Struct
<1> QED
  BY <1>1, <1>2

Concatenates(s, t, u) ==
  \A v \in t.values : \A w \in u.values : s.enc[<<v, w>>] = t.enc[v] \o u.enc[w]

\* A struct is encoded as its fields, one after the other.
LEMMA StructEnc ==
  ASSUME NEW t, NEW u
  PROVE  Concatenates(t ** u, t, u)
<1>1. (t ** u).enc = [z \in t.values \X u.values |-> t.enc[z[1]] \o u.enc[z[2]]]
  BY DEF **, Struct
<1> QED
  BY <1>1 DEF Concatenates

\* The fields of a struct are its values.
LEMMA StructValue ==
  ASSUME NEW t, NEW u, NEW v \in t.values, NEW w \in u.values
  PROVE  <<v, w>> \in (t ** u).values
<1>1. <<v, w>> \in t.values \X u.values
  OBVIOUS
<1>2. (t ** u).values = t.values \X u.values
  BY StructIs, Zenon
<1> QED
  BY <1>1, <1>2, Zenon

\* Every value of a struct has the fields of its parts.
LEMMA StructFields ==
  ASSUME NEW t, NEW u, NEW s \in (t ** u).values
  PROVE  \E v \in t.values, w \in u.values : s = <<v, w>>
<1>1. s \in t.values \X u.values
  BY StructIs, Zenon
<1> DEFINE V == t.values
           W == u.values
<1> HIDE DEF V, W
<1>2. ASSUME s \in V \X W
      PROVE  \E v \in V, w \in W : s = <<v, w>>
  BY <1>2
<1> QED
  BY <1>1, <1>2 DEF V, W

\* A struct is read back when each of its parts is, and the first part never
\* swallows what follows it (the decode xdr-derive makes for structs).
THEOREM StructCodec ==
  ASSUME NEW t, NEW u, NEW last, Codec(t, FALSE), Codec(u, last)
  PROVE  Codec(t ** u, last)
<1> DEFINE s == t ** u
<1>0. /\ \A z \in s.values : \E v \in t.values, w \in u.values : z = <<v, w>>
      /\ \A v \in t.values, w \in u.values : s.enc[<<v, w>>] = t.enc[v] \o u.enc[w]
      /\ \A b \in Bytes : s.dec[b] = DecStruct(t, u, b)
  <2>1. \A z \in s.values : \E v \in t.values, w \in u.values : z = <<v, w>>
    BY StructFields
  <2>2. Concatenates(s, t, u)
    BY StructEnc
  <2>3. \A b \in Bytes : s.dec[b] = DecStruct(t, u, b)
    BY StructIs
  <2> HIDE DEF s
  <2> QED
    BY <2>1, <2>2, <2>3 DEF Concatenates
<1> HIDE DEF s
<1>1. /\ \A v \in t.values : t.enc[v] \in Bytes
      /\ \A w \in u.values : u.enc[w] \in Bytes
      /\ \A v \in t.values : \A r \in Bytes : t.dec[t.enc[v] \o r] = Ok(v, r)
      /\ \A w \in u.values : \A r \in Bytes : \E q \in Bytes :
           u.dec[u.enc[w] \o r] = Ok(w, q) /\ (last \/ q = r)
      /\ \A v \in t.values : \A p \in Bytes : \A x \in Bytes :
           x # <<>> /\ t.enc[v] = p \o x => t.dec[p] = Err
      /\ \A w \in u.values : \A p \in Bytes : \A x \in Bytes :
           x # <<>> /\ u.enc[w] = p \o x => u.dec[p] = Err
  BY DEF Codec, Encodes, ReadsBack, RefusesCuts
<1>2. Encodes(s)
  <2> SUFFICES ASSUME NEW z \in s.values
               PROVE  s.enc[z] \in Bytes
    BY DEF Encodes
  <2>1. PICK v \in t.values, w \in u.values : z = <<v, w>>
    BY <1>0
  <2>2. t.enc[v] \in Bytes /\ u.enc[w] \in Bytes /\ s.enc[z] = t.enc[v] \o u.enc[w]
    BY <2>1, <1>0, <1>1, Zenon
  <2> QED
    BY <2>2, BytesConcat, Zenon
<1>3. ReadsBack(s, last)
  <2> SUFFICES ASSUME NEW z \in s.values, NEW r \in Bytes
               PROVE  \E q \in Bytes : s.dec[s.enc[z] \o r] = Ok(z, q) /\ (last \/ q = r)
    BY DEF ReadsBack
  <2>1. PICK v \in t.values, w \in u.values : z = <<v, w>>
    BY <1>0
  <2> DEFINE a == t.enc[v]
             b == u.enc[w]
             c == (a \o b) \o r
  <2>2. a \in Bytes /\ b \in Bytes
    BY <1>1
  <2>3. c = a \o (b \o r) /\ b \o r \in Bytes /\ c \in Bytes
    BY <2>2, BytesAssoc, BytesConcat, ZenonT(60)
  <2>4. PICK q \in Bytes : u.dec[b \o r] = Ok(w, q) /\ (last \/ q = r)
    BY <1>1
  <2>5. t.dec[c] = Ok(v, b \o r)
    BY <2>3, <1>1
  <2>6. DecStruct(t, u, c) = After(Ok(v, b \o r), Ok(w, q))
    BY <2>4, <2>5, OkFields DEF DecStruct
  <2>7. s.dec[c] = Ok(z, q)
    <3>1. s.dec[c] = DecStruct(t, u, c)
      BY <2>3, <1>0
    <3>2. DecStruct(t, u, c) = Ok(<<v, w>>, q)
      BY <2>6, AfterOk
    <3> QED
      BY <2>1, <3>1, <3>2
  <2> QED
    BY <2>1, <2>4, <2>7, <1>0
<1>4. RefusesCuts(s)
  <2> SUFFICES ASSUME NEW z \in s.values, NEW p \in Bytes, NEW x \in Bytes,
                      x # <<>>, s.enc[z] = p \o x
               PROVE  s.dec[p] = Err
    BY DEF RefusesCuts
  <2>1. PICK v \in t.values, w \in u.values : z = <<v, w>>
    BY <1>0
  <2> DEFINE a == t.enc[v]
             b == u.enc[w]
  <2>2. a \in Bytes /\ b \in Bytes /\ a \o b = p \o x
    BY <2>1, <1>0, <1>1
  <2>3. CutWithin(Bytes, a, b, p, x)
    BY <2>2, BytesCut, Zenon
  <2>4. CASE \E y \in Bytes : y # <<>> /\ a = p \o y
    <3>1. t.dec[p] = Err
      BY <2>4, <1>1
    <3>2. DecStruct(t, u, p) = Err
      BY <3>1, ErrFields DEF DecStruct
    <3> QED
      BY <3>2, <1>0
  <2>5. CASE \E q \in Bytes : p = a \o q /\ b = q \o x
    <3>1. PICK q \in Bytes : p = a \o q /\ b = q \o x
      BY <2>5
    <3>2. t.dec[p] = Ok(v, q)
      BY <3>1, <1>1
    <3>3. u.dec[q] = Err
      BY <3>1, <1>1
    <3>4. DecStruct(t, u, p) = Err
      BY <3>2, <3>3, OkFields, AfterErr DEF DecStruct
    <3> QED
      BY <3>4, <1>0
  <2> QED
    BY <2>3, <2>4, <2>5 DEF CutWithin
<1>5. Codec(s, last)
  BY <1>2, <1>3, <1>4 DEF Codec
<1> QED
  BY <1>5 DEF s

\* A struct panics only if a part does.
LEMMA StructQuiet ==
  ASSUME NEW t, NEW u, Quiet(t), Quiet(u)
  PROVE  Quiet(t ** u)
<1> SUFFICES ASSUME NEW b \in Bytes
             PROVE  Settles(DecStruct(t, u, b), b)
  <2>1. \A b \in Bytes : (t ** u).dec[b] = DecStruct(t, u, b)
    BY StructIs
  <2> QED
    BY <2>1, Zenon DEF Quiet
<1> DEFINE part == t.dec[b]
<1>1. Settles(part, b)
  BY DEF Quiet
<1>2. CASE part.out = "ok"
  <2>1. part.rest \in Bytes /\ EndOf(part.rest, b)
    BY <1>1, <1>2 DEF Settles
  <2>2. Settles(u.dec[part.rest], b)
    <3>1. Settles(u.dec[part.rest], part.rest)
      BY <2>1 DEF Quiet
    <3> QED
      BY <2>1, <3>1, EndSettles
  <2>3. DecStruct(t, u, b) = After(part, u.dec[part.rest])
    BY <1>2 DEF DecStruct
  <2> QED
    BY <2>2, <2>3, AfterSettles
<1>3. CASE part.out # "ok"
  <2>1. DecStruct(t, u, b) = part
    BY <1>3 DEF DecStruct
  <2> QED
    BY <2>1, <1>1
<1> QED
  BY <1>2, <1>3

\* The values of an enum are told apart by the discriminant, which is encoded
\* and decoded first.
Tagged(e) ==
  /\ e.tags \subseteq Words
  /\ \A v \in e.values : v[1] \in e.tags
  /\ \A v \in e.values : \A r \in Bytes :
       DecU32(e.enc[v] \o r).out = "ok" /\ DecU32(e.enc[v] \o r).val = v[1]
  /\ \A v \in e.values : \A p \in Bytes : \A x \in Bytes :
       x # <<>> /\ e.enc[v] = p \o x =>
         DecU32(p) = Err \/ (DecU32(p).out = "ok" /\ DecU32(p).val = v[1])
  /\ \A b \in Bytes : DecU32(b) = Err => e.dec[b] = Err

EnumCodec(e, last) == Codec(e, last) /\ Tagged(e)

\* The layout of one kind of variants.
LEMMA ArmIs ==
  ASSUME NEW tags, NEW t
  PROVE  /\ Arm(tags, t).values = tags \X t.values
         /\ Arm(tags, t).tags = tags
         /\ \A n \in tags, v \in t.values : Arm(tags, t).enc[<<n, v>>] = Word(n) \o t.enc[v]
         /\ \A b \in Bytes : Arm(tags, t).dec[b] = DecArm(tags, t, b)
<1>1. Arm(tags, t).values = tags \X t.values /\ Arm(tags, t).tags = tags
  BY DEF Arm
<1>2. Arm(tags, t).enc = [v \in tags \X t.values |-> Word(v[1]) \o t.enc[v[2]]]
  BY DEF Arm
<1>3. Arm(tags, t).dec = [b \in Bytes |-> DecArm(tags, t, b)]
  BY DEF Arm
<1>4. ASSUME NEW n \in tags, NEW v \in t.values
      PROVE  Arm(tags, t).enc[<<n, v>>] = Word(n) \o t.enc[v]
  BY <1>2
<1> QED
  BY <1>1, <1>3, <1>4

\* Variants are read back when their payload is.
LEMMA ArmCodec ==
  ASSUME NEW tags \in SUBSET Words, NEW t, NEW last, Codec(t, last)
  PROVE  EnumCodec(Arm(tags, t), last)
<1> DEFINE e == Arm(tags, t)
<1>0. /\ e.tags = tags
      /\ \A z \in e.values : \E n \in tags, v \in t.values : z = <<n, v>>
      /\ \A n \in tags, v \in t.values : e.enc[<<n, v>>] = Word(n) \o t.enc[v]
      /\ \A b \in Bytes : e.dec[b] = DecArm(tags, t, b)
  BY ArmIs, SMT, ZenonT(60)
<1> HIDE DEF e
<1>1. /\ \A v \in t.values : t.enc[v] \in Bytes
      /\ \A v \in t.values : \A r \in Bytes : \E q \in Bytes :
           t.dec[t.enc[v] \o r] = Ok(v, q) /\ (last \/ q = r)
      /\ \A v \in t.values : \A p \in Bytes : \A x \in Bytes :
           x # <<>> /\ t.enc[v] = p \o x => t.dec[p] = Err
  BY DEF Codec, Encodes, ReadsBack, RefusesCuts
<1>2. \A n \in tags : n \in Words /\ Word(n) \in Bytes
  BY WordsAre, WordType
<1>v. ASSUME NEW n \in tags, NEW v \in t.values
      PROVE  /\ e.enc[<<n, v>>] = Word(n) \o t.enc[v]
             /\ t.enc[v] \in Bytes
             /\ e.enc[<<n, v>>] \in Bytes
  <2>1. e.enc[<<n, v>>] = Word(n) \o t.enc[v] /\ t.enc[v] \in Bytes /\ Word(n) \in Bytes
    BY <1>0, <1>1, <1>2, Zenon
  <2> QED
    BY <2>1, BytesConcat, Zenon
<1>3. Encodes(e)
  BY <1>0, <1>v, Zenon DEF Encodes
<1>4. ASSUME NEW n \in tags, NEW v \in t.values, NEW r \in Bytes
      PROVE  DecU32(e.enc[<<n, v>>] \o r) = Ok(n, t.enc[v] \o r)
  <2>1. e.enc[<<n, v>>] = Word(n) \o t.enc[v] /\ t.enc[v] \in Bytes /\ n \in Words
    BY <1>v, <1>2, Zenon
  <2> QED
    BY <2>1, WordFirst, Zenon
<1>5. ASSUME NEW n \in tags, NEW v \in t.values, NEW p \in Bytes, NEW x \in Bytes,
             x # <<>>, e.enc[<<n, v>>] = p \o x
      PROVE  WordOrNone(n, t.enc[v], p, x)
  <2>1. Word(n) \o t.enc[v] = p \o x /\ t.enc[v] \in Bytes /\ n \in Words
    BY <1>5, <1>0, <1>1, <1>2
  <2> QED
    BY <2>1, <1>5, WordCut, Zenon
<1>6. ReadsBack(e, last)
  <2> SUFFICES ASSUME NEW z \in e.values, NEW r \in Bytes
               PROVE  \E q \in Bytes : e.dec[e.enc[z] \o r] = Ok(z, q) /\ (last \/ q = r)
    BY DEF ReadsBack
  <2>1. PICK n \in tags, v \in t.values : z = <<n, v>>
    BY <1>0
  <2> DEFINE a == t.enc[v]
             b == e.enc[z] \o r
  <2>2. a \in Bytes /\ b \in Bytes
    <3>1. a \in Bytes /\ e.enc[z] \in Bytes
      BY <2>1, <1>v, Zenon
    <3> QED
      BY <3>1, BytesConcat, Zenon
  <2>3. DecU32(b) = Ok(n, a \o r)
    BY <2>1, <1>4
  <2>4. PICK q \in Bytes : t.dec[a \o r] = Ok(v, q) /\ (last \/ q = r)
    BY <1>1
  <2>5. DecArm(tags, t, b) = After(Ok(n, a \o r), Ok(v, q))
    BY <2>3, <2>4, OkFields DEF DecArm
  <2>6. e.dec[b] = Ok(z, q)
    BY <2>1, <2>2, <2>5, <1>0, AfterOk
  <2> QED
    BY <2>4, <2>6
<1>7. RefusesCuts(e)
  <2> SUFFICES ASSUME NEW z \in e.values, NEW p \in Bytes, NEW x \in Bytes,
                      x # <<>>, e.enc[z] = p \o x
               PROVE  e.dec[p] = Err
    BY DEF RefusesCuts
  <2>1. PICK n \in tags, v \in t.values : z = <<n, v>>
    BY <1>0
  <2>2. WordOrNone(n, t.enc[v], p, x)
    BY <2>1, <1>5
  <2>3. CASE DecU32(p) = Err
    <3>1. DecArm(tags, t, p) = Err
      BY <2>3, ErrFields DEF DecArm
    <3> QED
      BY <3>1, <1>0
  <2>4. CASE \E q \in Bytes : DecU32(p) = Ok(n, q) /\ t.enc[v] = q \o x
    <3>1. PICK q \in Bytes : DecU32(p) = Ok(n, q) /\ t.enc[v] = q \o x
      BY <2>4
    <3>2. t.dec[q] = Err
      BY <3>1, <1>1
    <3>3. DecArm(tags, t, p) = Err
      BY <3>1, <3>2, OkFields, AfterErr DEF DecArm
    <3> QED
      BY <3>3, <1>0
  <2> QED
    BY <2>2, <2>3, <2>4 DEF WordOrNone
<1>8. Tagged(e)
  <2>1. \A z \in e.values : z[1] \in e.tags
    BY <1>0
  <2>2. ASSUME NEW z \in e.values, NEW r \in Bytes
        PROVE  DecU32(e.enc[z] \o r).out = "ok" /\ DecU32(e.enc[z] \o r).val = z[1]
    <3>1. PICK n \in tags, v \in t.values : z = <<n, v>>
      BY <1>0
    <3> QED
      BY <3>1, <1>4, OkFields
  <2>3. ASSUME NEW z \in e.values, NEW p \in Bytes, NEW x \in Bytes,
               x # <<>>, e.enc[z] = p \o x
        PROVE  DecU32(p) = Err \/ (DecU32(p).out = "ok" /\ DecU32(p).val = z[1])
    <3>1. PICK n \in tags, v \in t.values : z = <<n, v>>
      BY <1>0
    <3>2. WordOrNone(n, t.enc[v], p, x)
      BY <2>3, <3>1, <1>5
    <3> QED
      BY <3>1, <3>2, OkFields DEF WordOrNone
  <2>4. ASSUME NEW b \in Bytes, DecU32(b) = Err
        PROVE  e.dec[b] = Err
    BY <2>4, <1>0, ErrFields DEF DecArm
  <2> QED
    BY <2>1, <2>2, <2>3, <2>4, <1>0 DEF Tagged
<1>9. EnumCodec(e, last)
  BY <1>3, <1>6, <1>7, <1>8 DEF EnumCodec, Codec
<1> QED
  BY <1>9 DEF e

\* Variants panic only if their payload does.
LEMMA ArmQuiet ==
  ASSUME NEW tags, NEW t, Quiet(t)
  PROVE  Quiet(Arm(tags, t))
<1> SUFFICES ASSUME NEW b \in Bytes
             PROVE  Settles(DecArm(tags, t, b), b)
  BY ArmIs DEF Quiet
<1> DEFINE d == DecU32(b)
<1>1. Settles(d, b) /\ d.rest \in Bytes /\ (d.out = "ok" => EndOf(d.rest, b))
  BY WordSettles
<1>2. Settles(t.dec[d.rest], d.rest)
  BY <1>1 DEF Quiet
<1>3. ASSUME d.out = "ok"
      PROVE  Settles(After(d, t.dec[d.rest]), b)
  <2>1. Settles(t.dec[d.rest], b)
    BY <1>1, <1>2, <1>3, EndSettles
  <2> QED
    BY <2>1, AfterSettles
<1> QED
  BY <1>1, <1>3, ErrSettles DEF DecArm

\* The layout of two enums joined.
LEMMA EnumIs ==
  ASSUME NEW e, NEW f
  PROVE  /\ (e ++ f).values = e.values \cup f.values
         /\ (e ++ f).tags = e.tags \cup f.tags
         /\ \A v \in e.values \cup f.values : (e ++ f).enc[v] = EncEither(e, f, v)
         /\ \A b \in Bytes : (e ++ f).dec[b] = DecEither(e, f, b)
<1>1. (e ++ f).values = e.values \cup f.values /\ (e ++ f).tags = e.tags \cup f.tags
  BY DEF ++, Enum
<1>2. (e ++ f).enc = [v \in e.values \cup f.values |-> EncEither(e, f, v)]
  BY DEF ++, Enum
<1>3. (e ++ f).dec = [b \in Bytes |-> DecEither(e, f, b)]
  BY DEF ++, Enum
<1> QED
  BY <1>1, <1>2, <1>3

\* An enum is read back when its variants are and no two of them have a
\* discriminant in common (the decode xdr-derive makes for enums).
THEOREM EnumJoins ==
  ASSUME NEW e, NEW f, NEW last, EnumCodec(e, last), EnumCodec(f, last),
         e.tags \cap f.tags = {}
  PROVE  EnumCodec(e ++ f, last)
<1> DEFINE g == e ++ f
<1>0. /\ g.values = e.values \cup f.values
      /\ g.tags = e.tags \cup f.tags
      /\ \A v \in g.values : /\ v[1] \in e.tags => g.enc[v] = e.enc[v]
                             /\ v[1] \notin e.tags => g.enc[v] = f.enc[v]
      /\ \A b \in Bytes :
           LET first == DecU32(b).out = "ok" /\ DecU32(b).val \in e.tags
           IN  (first => g.dec[b] = e.dec[b]) /\ (~first => g.dec[b] = f.dec[b])
  <2>1. g.values = e.values \cup f.values /\ g.tags = e.tags \cup f.tags
    BY EnumIs, Zenon
  <2>2. ASSUME NEW v \in g.values
        PROVE  /\ v[1] \in e.tags => g.enc[v] = e.enc[v]
               /\ v[1] \notin e.tags => g.enc[v] = f.enc[v]
    <3>1. g.enc[v] = EncEither(e, f, v)
      BY <2>1, EnumIs, ZenonT(60)
    <3> HIDE DEF g
    <3> QED
      BY <3>1 DEF EncEither
  <2>3. ASSUME NEW b \in Bytes
        PROVE  LET first == DecU32(b).out = "ok" /\ DecU32(b).val \in e.tags
               IN  (first => g.dec[b] = e.dec[b]) /\ (~first => g.dec[b] = f.dec[b])
    <3>1. g.dec[b] = DecEither(e, f, b)
      BY EnumIs, ZenonT(60)
    <3> HIDE DEF g
    <3> QED
      BY <3>1 DEF DecEither
  <2> QED
    BY <2>1, <2>2, <2>3, Zenon
<1> HIDE DEF g
<1>1. Tagged(e) /\ Tagged(f) /\ Codec(e, last) /\ Codec(f, last)
  BY DEF EnumCodec
<1>2. ASSUME NEW v \in g.values
      PROVE  \/ v \in e.values /\ v[1] \in e.tags /\ g.enc[v] = e.enc[v]
             \/ v \in f.values /\ v[1] \notin e.tags /\ v[1] \in f.tags /\ g.enc[v] = f.enc[v]
  BY <1>0, <1>1 DEF Tagged
<1>3. Encodes(g)
  BY <1>1, <1>2 DEF Codec, Encodes
<1>4. ASSUME NEW v \in g.values, NEW r \in Bytes
      PROVE  /\ DecU32(g.enc[v] \o r).out = "ok" /\ DecU32(g.enc[v] \o r).val = v[1]
             /\ g.enc[v] \o r \in Bytes
  <2>1. DecU32(g.enc[v] \o r).out = "ok" /\ DecU32(g.enc[v] \o r).val = v[1]
    BY <1>1, <1>2 DEF Tagged
  <2> QED
    BY <2>1, <1>3, BytesConcat DEF Encodes
<1>5. ASSUME NEW v \in g.values, NEW p \in Bytes, NEW x \in Bytes, x # <<>>, g.enc[v] = p \o x
      PROVE  DecU32(p) = Err \/ (DecU32(p).out = "ok" /\ DecU32(p).val = v[1])
  <2>1. CASE v \in e.values /\ g.enc[v] = e.enc[v]
    <3>1. e.enc[v] = p \o x
      BY <2>1, <1>5
    <3> QED
      BY <2>1, <3>1, <1>1, <1>5, Zenon DEF Tagged
  <2>2. CASE v \in f.values /\ g.enc[v] = f.enc[v]
    <3>1. f.enc[v] = p \o x
      BY <2>2, <1>5
    <3> QED
      BY <2>2, <3>1, <1>1, <1>5, Zenon DEF Tagged
  <2> QED
    BY <1>2, <2>1, <2>2, Zenon
<1>6. ReadsBack(g, last)
  <2> SUFFICES ASSUME NEW v \in g.values, NEW r \in Bytes
               PROVE  \E q \in Bytes : g.dec[g.enc[v] \o r] = Ok(v, q) /\ (last \/ q = r)
    BY DEF ReadsBack
  <2>1. CASE v \in e.values /\ v[1] \in e.tags /\ g.enc[v] = e.enc[v]
    <3>1. g.dec[g.enc[v] \o r] = e.dec[e.enc[v] \o r]
      BY <2>1, <1>0, <1>4
    <3> QED
      BY <2>1, <3>1, <1>1 DEF Codec, ReadsBack
  <2>2. CASE v \in f.values /\ v[1] \notin e.tags /\ g.enc[v] = f.enc[v]
    <3>1. g.dec[g.enc[v] \o r] = f.dec[f.enc[v] \o r]
      BY <2>2, <1>0, <1>4
    <3> QED
      BY <2>2, <3>1, <1>1 DEF Codec, ReadsBack
  <2> QED
    BY <2>1, <2>2, <1>2
<1>7. RefusesCuts(g)
  <2> SUFFICES ASSUME NEW v \in g.values, NEW p \in Bytes, NEW x \in Bytes,
                      x # <<>>, g.enc[v] = p \o x
               PROVE  g.dec[p] = Err
    BY DEF RefusesCuts
  <2>1. CASE DecU32(p) = Err
    <3>1. g.dec[p] = f.dec[p]
      BY <2>1, <1>0, ErrFields
    <3> QED
      BY <2>1, <3>1, <1>1 DEF Tagged
  <2>2. CASE /\ DecU32(p).out = "ok" /\ DecU32(p).val = v[1]
             /\ v \in e.values /\ v[1] \in e.tags /\ g.enc[v] = e.enc[v]
    <3>1. g.dec[p] = e.dec[p]
      BY <2>2, <1>0
    <3> QED
      BY <2>2, <3>1, <1>1 DEF Codec, RefusesCuts
  <2>3. CASE /\ DecU32(p).out = "ok" /\ DecU32(p).val = v[1]
             /\ v \in f.values /\ v[1] \notin e.tags /\ g.enc[v] = f.enc[v]
    <3>1. g.dec[p] = f.dec[p]
      BY <2>3, <1>0
    <3> QED
      BY <2>3, <3>1, <1>1 DEF Codec, RefusesCuts
  <2>4. DecU32(p) = Err \/ (DecU32(p).out = "ok" /\ DecU32(p).val = v[1])
    BY <1>5, Zenon
  <2> QED
    BY <2>1, <2>2, <2>3, <2>4, <1>2, Zenon
<1>8. Tagged(g)
  <2>1. g.tags \subseteq Words /\ \A v \in g.values : v[1] \in g.tags
    BY <1>0, <1>1, <1>2 DEF Tagged
  <2>2. ASSUME NEW b \in Bytes, DecU32(b) = Err
        PROVE  g.dec[b] = Err
    BY <2>2, <1>0, <1>1, ErrFields DEF Tagged
  <2> QED
    BY <2>1, <2>2, <1>4, <1>5 DEF Tagged
<1>9. EnumCodec(g, last)
  BY <1>3, <1>6, <1>7, <1>8 DEF EnumCodec, Codec
<1> QED
  BY <1>9 DEF g

\* Two enums joined panic only if one of them does.
LEMMA EnumQuiet ==
  ASSUME NEW e, NEW f, Quiet(e), Quiet(f)
  PROVE  Quiet(e ++ f)
<1> SUFFICES ASSUME NEW b \in Bytes
             PROVE  Settles((e ++ f).dec[b], b)
  BY Zenon DEF Quiet
<1>1. (e ++ f).dec[b] = DecEither(e, f, b)
  BY EnumIs
<1>2. Settles(e.dec[b], b) /\ Settles(f.dec[b], b)
  BY DEF Quiet
<1>3. Settles(DecEither(e, f, b), b)
  BY <1>2 DEF DecEither
<1> QED
  BY <1>1, <1>3, Zenon

-----------------------------------------------------------------------------
(* Lists. *)

Associate(x, y, z) == (x \o y) \o z = x \o (y \o z)

\* Concatenation is associative.
LEMMA ConcatsAssociate ==
  ASSUME NEW S, NEW x \in Seq(S), NEW y \in Seq(S), NEW z \in Seq(S)
  PROVE  Associate(x, y, z)
  BY ConcatAssociative DEF Associate

\* Laid end to end, sequences begin with the first of them.
LEMMA FlattenHead ==
  ASSUME NEW S, NEW n \in Nat, NEW w \in [1 .. n + 1 -> Seq(S)],
         NEW t \in [1 .. n -> Seq(S)], \A i \in 1 .. n : t[i] = w[i + 1]
  PROVE  /\ FlattenSeq(w) = w[1] \o FlattenSeq(t)
         /\ FlattenSeq(t) \in Seq(S)
<1> DEFINE f == [k \in 0 .. n + 1 |-> FlattenedTo(w, k)]
           g == [k \in 0 .. n |-> FlattenedTo(t, k)]
           M == {k \in Nat : k \in 0 .. n => f[k + 1] = w[1] \o g[k]}
<1>1. /\ f[1] = <<>> \o w[1]
      /\ \A i \in 0 .. n : f[i + 1] = f[i] \o w[i + 1]
      /\ f[n + 1] = FlattenSeq(w)
  <2>1. n + 1 \in Nat
    OBVIOUS
  <2>2. /\ FlattenedTo(w, 0) = <<>>
        /\ \A i \in 0 .. (n + 1) - 1 : FlattenedTo(w, i + 1) = FlattenedTo(w, i) \o w[i + 1]
        /\ FlattenedTo(w, n + 1) = FlattenSeq(w)
    BY <2>1, FlattenedStep, Zenon
  <2>3. /\ 0 \in 0 .. n + 1 /\ n + 1 \in 0 .. n + 1
        /\ \A i \in 0 .. n : i \in 0 .. n + 1 /\ i + 1 \in 0 .. n + 1 /\ i \in 0 .. (n + 1) - 1
    OBVIOUS
  <2>4. 0 \in 0 .. (n + 1) - 1 /\ 0 + 1 = 1 /\ 1 \in 0 .. n + 1
    OBVIOUS
  <2>5. FlattenedTo(w, 0 + 1) = FlattenedTo(w, 0) \o w[0 + 1]
    BY <2>2, <2>4, Zenon
  <2>6. f[1] = <<>> \o w[1]
    BY <2>2, <2>4, <2>5, Zenon
  <2> QED
    BY <2>2, <2>3, <2>6, Zenon
<1>2. /\ g[0] = <<>>
      /\ \A i \in 0 .. n : g[i] \in Seq(S)
      /\ \A i \in 0 .. n - 1 : g[i + 1] = g[i] \o t[i + 1]
      /\ g[n] = FlattenSeq(t)
  <2>1. /\ FlattenedTo(t, 0) = <<>>
        /\ \A i \in 0 .. n : FlattenedTo(t, i) \in Seq(S)
        /\ \A i \in 0 .. n - 1 : FlattenedTo(t, i + 1) = FlattenedTo(t, i) \o t[i + 1]
        /\ FlattenedTo(t, n) = FlattenSeq(t)
    BY FlattenedStep, Zenon
  <2>2. /\ 0 \in 0 .. n /\ n \in 0 .. n
        /\ \A i \in 0 .. n - 1 : i \in 0 .. n /\ i + 1 \in 0 .. n
    OBVIOUS
  <2> QED
    BY <2>1, <2>2, Zenon
<1> HIDE DEF f, g
<1>3. w[1] \in Seq(S)
  OBVIOUS
<1>4. 0 \in M
  <2>2. <<>> \o w[1] = w[1] /\ w[1] \o <<>> = w[1]
    BY <1>3, ConcatEmptySeq
  <2>3. f[1] = w[1] \o g[0] /\ 0 + 1 = 1 /\ 0 \in Nat
    BY <2>2, <1>1, <1>2
  <2> QED
    BY <2>3, Zenon
<1>5. ASSUME NEW k \in Nat, k \in M
      PROVE  k + 1 \in M
  <2>0. ASSUME k + 1 \in 0 .. n
        PROVE  f[(k + 1) + 1] = w[1] \o g[k + 1]
    <3>1. k \in 0 .. n /\ k \in 0 .. n - 1 /\ k + 1 \in 1 .. n
      BY <2>0
    <3>2. f[k + 1] = w[1] \o g[k]
      BY <3>1, <1>5, Zenon
    <3>3. f[(k + 1) + 1] = f[k + 1] \o w[(k + 1) + 1]
      BY <2>0, <1>1, Zenon
    <3>4. g[k + 1] = g[k] \o t[k + 1] /\ g[k] \in Seq(S)
      BY <3>1, <1>2, Zenon
    <3>5. t[k + 1] = w[(k + 1) + 1] /\ t[k + 1] \in Seq(S)
      BY <3>1
    <3>7. (w[1] \o g[k]) \o t[k + 1] = w[1] \o (g[k] \o t[k + 1])
      <4>1. Associate(w[1], g[k], t[k + 1])
        BY <1>3, <3>4, <3>5, ConcatsAssociate, Zenon
      <4> QED
        BY <4>1 DEF Associate
    <3> QED
      BY <3>2, <3>3, <3>4, <3>5, <3>7, Zenon
  <2>1. k + 1 \in Nat
    OBVIOUS
  <2> QED
    BY <2>0, <2>1, Zenon
<1>6. Nat \subseteq M
  <2> HIDE DEF M
  <2> QED
    BY <1>4, <1>5, SetInduction
<1>7. f[n + 1] = w[1] \o g[n] /\ g[n] \in Seq(S)
  <2>1. n \in M
    <3> HIDE DEF M
    <3> QED
      BY <1>6
  <2>2. n \in 0 .. n
    OBVIOUS
  <2> QED
    BY <2>1, <2>2, <1>2, Zenon
<1> QED
  BY <1>1, <1>2, <1>7

\* The items of v, each encoded by g.
EncAll(g, v) == FlattenSeq([i \in DOMAIN v |-> g[v[i]]])

\* No items, no bytes.
LEMMA EncNothing == \A g : EncAll(g, <<>>) = <<>>
<1>1. \A g : [i \in DOMAIN <<>> |-> g[<<>>[i]]] = <<>>
  OBVIOUS
<1> QED
  BY <1>1, FlattenEmpty DEF EncAll

\* The first item, and the others.
HeadAndTail(g, n, v, h, w) ==
  /\ v = <<h>> \o w
  /\ Len(w) = n
  /\ EncAll(g, v) = g[h] \o EncAll(g, w)
  /\ EncAll(g, w) \in Bytes

\* The bytes of some items are those of the first and those of the rest.
LEMMA EncHead ==
  ASSUME NEW V, NEW g, \A z \in V : g[z] \in Bytes, NEW n \in Nat, NEW v \in Seq(V),
         Len(v) = n + 1
  PROVE  \E h \in V : \E w \in Seq(V) : HeadAndTail(g, n, v, h, w)
<1> DEFINE h == v[1]
           w == [i \in 1 .. n |-> v[i + 1]]
           a == [i \in DOMAIN v |-> g[v[i]]]
           b == [i \in DOMAIN w |-> g[w[i]]]
<1>1. /\ DOMAIN v = 1 .. n + 1
      /\ \A i \in 1 .. n + 1 : v[i] \in V
  OBVIOUS
<1>2. h \in V
  BY <1>1
<1>3. \A i \in 1 .. n : i + 1 \in 1 .. n + 1
  OBVIOUS
<1>4. w \in [1 .. n -> V]
  BY <1>1, <1>3
<1>5. w \in Seq(V) /\ Len(w) = n
  <2> HIDE DEF w
  <2> QED
    BY <1>4
<1>6. DOMAIN w = 1 .. n
  OBVIOUS
<1>7. a \in [1 .. n + 1 -> Seq(0 .. 255)]
  <2>1. \A i \in 1 .. n + 1 : g[v[i]] \in Seq(0 .. 255)
    BY <1>1 DEF Bytes
  <2> QED
    BY <2>1, <1>1
<1>8. b \in [1 .. n -> Seq(0 .. 255)]
  <2>1. \A i \in 1 .. n : g[w[i]] \in Seq(0 .. 255)
    BY <1>1, <1>3 DEF Bytes
  <2> QED
    BY <2>1, <1>6
<1>9. \A i \in 1 .. n : b[i] = a[i + 1]
  <2>1. \A i \in 1 .. n : b[i] = g[w[i]] /\ w[i] = v[i + 1]
    BY <1>6
  <2>2. \A i \in 1 .. n : a[i + 1] = g[v[i + 1]]
    BY <1>1, <1>3
  <2> QED
    BY <2>1, <2>2
<1>10. a[1] = g[h]
  BY <1>1
<1>11. v = <<h>> \o w
  <2> HIDE DEF w
  <2>1. /\ <<h>> \in Seq(V) /\ Len(<<h>>) = 1 /\ <<h>>[1] = h
    BY <1>2
  <2>2. /\ <<h>> \o w \in Seq(V)
        /\ Len(<<h>> \o w) = 1 + n
        /\ \A i \in 1 .. 1 + n : (<<h>> \o w)[i] = IF i <= 1 THEN <<h>>[i] ELSE w[i - 1]
    <3>1. /\ <<h>> \o w \in Seq(V)
          /\ Len(<<h>> \o w) = Len(<<h>>) + Len(w)
          /\ \A i \in 1 .. Len(<<h>>) + Len(w) :
               (<<h>> \o w)[i] = IF i <= Len(<<h>>) THEN <<h>>[i] ELSE w[i - Len(<<h>>)]
      BY <2>1, <1>5, ConcatProperties, Zenon
    <3> QED
      BY <3>1, <2>1, <1>5
  <2>3. ASSUME NEW i \in 1 .. n + 1
        PROVE  v[i] = (<<h>> \o w)[i]
    <3>1. CASE i = 1
      BY <3>1, <2>1, <2>2
    <3>2. CASE i # 1
      <4>1. i - 1 \in 1 .. n /\ (i - 1) + 1 = i /\ ~ (i <= 1) /\ i \in 1 .. 1 + n
        BY <3>2
      <4>2. w[i - 1] = v[(i - 1) + 1]
        BY <4>1 DEF w
      <4> QED
        BY <4>1, <4>2, <2>2
    <3> QED
      BY <3>1, <3>2
  <2> DEFINE c == <<h>> \o w
  <2>4. c \in Seq(V) /\ Len(c) = n + 1 /\ \A i \in 1 .. n + 1 : v[i] = c[i]
    BY <2>2, <2>3
  <2> HIDE DEF c
  <2>5. v = c
    BY <2>4, SeqEqual
  <2> QED
    BY <2>5 DEF c
<1>12. FlattenSeq(a) = a[1] \o FlattenSeq(b) /\ FlattenSeq(b) \in Seq(0 .. 255)
  <2> DEFINE S == 0 .. 255
  <2>1. a \in [1 .. n + 1 -> Seq(S)] /\ b \in [1 .. n -> Seq(S)]
    BY <1>7, <1>8
  <2> HIDE DEF a, b, S
  <2>2. FlattenSeq(a) = a[1] \o FlattenSeq(b) /\ FlattenSeq(b) \in Seq(S)
    BY <2>1, <1>9, FlattenHead
  <2> QED
    BY <2>2 DEF S
<1>13. EncAll(g, v) = g[h] \o EncAll(g, w) /\ EncAll(g, w) \in Bytes
  <2>1. EncAll(g, v) = FlattenSeq(a) /\ EncAll(g, w) = FlattenSeq(b)
    BY DEF EncAll
  <2> HIDE DEF a, b, h, w
  <2> QED
    BY <2>1, <1>10, <1>12 DEF Bytes
<1> HIDE DEF h, w
<1> QED
  BY <1>2, <1>5, <1>11, <1>13 DEF HeadAndTail

-----------------------------------------------------------------------------
(* The functions inside DecItems and DecEntries, one layer at a time. *)

ItemsAt(t, k, next) ==
  [c \in Bytes |->
     IF k = 0 THEN Ok(<<>>, c)
     ELSE LET item == t.dec[c]
          IN  IF item.out = "ok" THEN Prepend(item, next[item.rest])
              ELSE item]

EntriesAt(t, k, next) ==
  [c \in Bytes |->
     LET more == Bool.dec[c]
         entry == t.dec[more.rest]
     IN  IF more.out # "ok" THEN more
         ELSE IF more.val[1] = 0 THEN Ok(<<>>, more.rest)
         ELSE IF entry.out # "ok" \/ k = 0 THEN entry
         ELSE Prepend(entry, next[entry.rest])]

LayerAt(chain, t, k, next) == IF chain THEN EntriesAt(t, k, next) ELSE ItemsAt(t, k, next)

Layers(chain, t, f, n) == f = [k \in 0 .. n |-> LayerAt(chain, t, k, f[k - 1])]

\* The innermost layer has no other below it.
Innermost(chain, t) == LayerAt(chain, t, 0, <<>>)

\* The innermost layer does not look at another.
LEMMA LastLayer ==
  ASSUME NEW chain, NEW t, NEW p
  PROVE  LayerAt(chain, t, 0, p) = Innermost(chain, t)
  BY DEF Innermost, LayerAt, EntriesAt, ItemsAt

\* Each layer is made from the one below it.
Layered(chain, t, f, n) ==
  /\ f[0] = Innermost(chain, t)
  /\ \A k \in Nat : k + 1 \in 0 .. n => f[k + 1] = LayerAt(chain, t, k + 1, f[k])

\* What a function made of layers holds at each of them.
LEMMA LayersAre ==
  ASSUME NEW chain, NEW t, NEW f, NEW n \in Nat, Layers(chain, t, f, n)
  PROVE  Layered(chain, t, f, n)
<1>1. ASSUME NEW k \in 0 .. n
      PROVE  f[k] = LayerAt(chain, t, k, f[k - 1])
  BY DEF Layers
<1>2. f[0] = Innermost(chain, t)
  <2>1. f[0] = LayerAt(chain, t, 0, f[0 - 1])
    BY <1>1
  <2> DEFINE p == f[0 - 1]
  <2>2. LayerAt(chain, t, 0, p) = Innermost(chain, t)
    <3> HIDE DEF p
    <3> QED
      BY LastLayer, Zenon
  <2> QED
    BY <2>1, <2>2
<1>3. ASSUME NEW k \in Nat, k + 1 \in 0 .. n
      PROVE  f[k + 1] = LayerAt(chain, t, k + 1, f[k])
  <2>1. (k + 1) - 1 = k
    OBVIOUS
  <2>2. f[k + 1] = LayerAt(chain, t, k + 1, f[(k + 1) - 1])
    BY <1>1, <1>3, Zenon
  <2> QED
    BY <2>1, <2>2, Zenon
<1> QED
  BY <1>2, <1>3 DEF Layered

\* There is such a function for every number of layers.
LEMMA LayersExist ==
  ASSUME NEW chain, NEW t, NEW n \in Nat
  PROVE  \E f : Layers(chain, t, f, n)
<1> DEFINE M == {m \in Nat : \E f : Layers(chain, t, f, m)}
<1>1. 0 \in M
  <2> DEFINE f == [k \in 0 .. 0 |-> Innermost(chain, t)]
  <2>1. \A k \in 0 .. 0 : k = 0
    OBVIOUS
  <2>2. ASSUME NEW k \in 0 .. 0
        PROVE  f[k] = LayerAt(chain, t, k, f[k - 1])
    <3>1. k = 0 /\ f[k] = Innermost(chain, t)
      BY <2>1
    <3> DEFINE p == f[k - 1]
    <3> HIDE DEF p
    <3>2. LayerAt(chain, t, 0, p) = Innermost(chain, t)
      BY LastLayer, Zenon
    <3>3. LayerAt(chain, t, k, p) = Innermost(chain, t)
      BY <3>1, <3>2, Zenon
    <3> QED
      BY <3>1, <3>3 DEF p
  <2>3. f = [k \in DOMAIN f |-> f[k]] /\ DOMAIN f = 0 .. 0
    BY Zenon
  <2> HIDE DEF f
  <2>4. f = [k \in 0 .. 0 |-> LayerAt(chain, t, k, f[k - 1])]
    BY <2>2, <2>3, Zenon
  <2>5. Layers(chain, t, f, 0)
    BY <2>4 DEF Layers
  <2> QED
    BY <2>5, Zenon
<1>2. ASSUME NEW m \in Nat, m \in M
      PROVE  m + 1 \in M
  <2>1. PICK f : Layers(chain, t, f, m)
    BY <1>2
  <2>f. Layered(chain, t, f, m)
    BY <2>1, LayersAre, Zenon
  <2> DEFINE g == [k \in 0 .. m + 1 |-> IF k \in 0 .. m THEN f[k] ELSE LayerAt(chain, t, k, f[m])]
  <2>2. ASSUME NEW k \in 0 .. m + 1
        PROVE  g[k] = LayerAt(chain, t, k, g[k - 1])
    <3>1. CASE k = 0
      <4>1. g[k] = f[0]
        BY <3>1
      <4> DEFINE p == g[k - 1]
      <4>2. f[0] = LayerAt(chain, t, 0, p)
        <5> HIDE DEF p, g
        <5>1. LayerAt(chain, t, 0, p) = Innermost(chain, t)
          BY LastLayer, Zenon
        <5> QED
          BY <5>1, <2>f DEF Layered
      <4> QED
        BY <3>1, <4>1, <4>2, Zenon
    <3>2. CASE k # 0 /\ k \in 0 .. m
      <4>1. k - 1 \in Nat /\ (k - 1) + 1 = k /\ k - 1 \in 0 .. m /\ k - 1 \in 0 .. m + 1
        BY <3>2
      <4>2. g[k] = f[k] /\ g[k - 1] = f[k - 1]
        BY <3>2, <4>1, Zenon
      <4>3. f[(k - 1) + 1] = LayerAt(chain, t, (k - 1) + 1, f[k - 1])
        <5> HIDE DEF g
        <5> QED
          BY <2>f, <3>2, <4>1, Zenon DEF Layered
      <4> QED
        BY <4>1, <4>2, <4>3, Zenon
    <3>3. CASE k \notin 0 .. m
      <4>1. k = m + 1 /\ k - 1 = m /\ m \in 0 .. m /\ m \in 0 .. m + 1
        BY <3>3
      <4>2. g[k] = LayerAt(chain, t, k, f[m])
        BY <3>3, Zenon
      <4>3. g[m] = f[m]
        BY <4>1, Zenon
      <4> QED
        BY <4>1, <4>2, <4>3, Zenon
    <3> QED
      BY <3>1, <3>2, <3>3
  <2>3. g = [k \in DOMAIN g |-> g[k]] /\ DOMAIN g = 0 .. m + 1
    BY Zenon
  <2> HIDE DEF g
  <2>4. g = [k \in 0 .. m + 1 |-> LayerAt(chain, t, k, g[k - 1])]
    BY <2>2, <2>3, Zenon
  <2>5. Layers(chain, t, g, m + 1)
    BY <2>4 DEF Layers
  <2>6. m + 1 \in Nat
    OBVIOUS
  <2> QED
    BY <2>5, <2>6, Zenon
<1>3. Nat \subseteq M
  <2> HIDE DEF M
  <2> QED
    BY <1>1, <1>2, SetInduction
<1> QED
  BY <1>3

\* Two such functions agree where both are defined.
AgreeAt(f, g, n) == f[n] = g[n]

\* Layer for layer, it does not depend on how many there are.
LEMMA LayersAgree ==
  ASSUME NEW chain, NEW t, NEW f, NEW g, NEW n \in Nat, NEW m \in n .. n + 1,
         Layers(chain, t, f, n), Layers(chain, t, g, m)
  PROVE  AgreeAt(f, g, n)
<1> DEFINE M == {k \in Nat : k \in 0 .. n => f[k] = g[k]}
<1>0. m \in Nat
  OBVIOUS
<1>f. Layered(chain, t, f, n) /\ Layered(chain, t, g, m)
  BY <1>0, LayersAre, Zenon
<1>1. 0 \in M
  <2>1. f[0] = g[0]
    BY <1>f DEF Layered
  <2> QED
    BY <2>1, Zenon
<1>2. ASSUME NEW k \in Nat, k \in M
      PROVE  k + 1 \in M
  <2>1. ASSUME k + 1 \in 0 .. n
        PROVE  f[k + 1] = g[k + 1]
    <3>1. k \in 0 .. n /\ k + 1 \in 0 .. m
      BY <2>1
    <3>2. f[k] = g[k]
      BY <3>1, <1>2, Zenon
    <3>3. f[k + 1] = LayerAt(chain, t, k + 1, f[k])
      BY <2>1, <1>f, Zenon DEF Layered
    <3>4. g[k + 1] = LayerAt(chain, t, k + 1, g[k])
      BY <3>1, <1>f, Zenon DEF Layered
    <3> QED
      BY <3>2, <3>3, <3>4, Zenon
  <2>2. k + 1 \in Nat
    OBVIOUS
  <2> QED
    BY <2>1, <2>2, Zenon
<1>3. Nat \subseteq M
  <2> HIDE DEF M
  <2> QED
    BY <1>1, <1>2, SetInduction
<1>4. n \in M /\ n \in 0 .. n
  <2> HIDE DEF M
  <2> QED
    BY <1>3
<1> QED
  BY <1>4, Zenon DEF AgreeAt

\* DecItems and DecEntries are the outermost layer.
ItemsMade(t, f, n) ==
  Layers(FALSE, t, f, n) /\ \A b \in Bytes : DecItems(t, n, b) = f[n][b]

\* The recursive function of DecItems.
LEMMA DecItemsIs ==
  ASSUME NEW t, NEW n \in Nat
  PROVE  \E f : ItemsMade(t, f, n)
<1> DEFINE Is(f) == f = [k \in 0 .. n |-> ItemsAt(t, k, f[k - 1])]
           f == CHOOSE f : Is(f)
<1>1. \A h : Is(h) <=> Layers(FALSE, t, h, n)
  BY DEF Layers, LayerAt
<1>2. \A b : DecItems(t, n, b) = f[n][b]
  BY DEF DecItems, ItemsAt
<1>3. \E h : Is(h)
  BY <1>1, LayersExist
<1>4. Is(f)
  <2> HIDE DEF Is
  <2> QED
    BY <1>3
<1> HIDE DEF f, Is
<1> QED
  BY <1>1, <1>2, <1>4 DEF ItemsMade

EntriesMade(t, f, n) ==
  Layers(TRUE, t, f, n) /\ \A b \in Bytes : DecEntries(t, n, b) = f[n][b]

\* The recursive function of DecEntries.
LEMMA DecEntriesIs ==
  ASSUME NEW t, NEW n \in Nat
  PROVE  \E f : EntriesMade(t, f, n)
<1> DEFINE Is(f) == f = [k \in 0 .. n |-> EntriesAt(t, k, f[k - 1])]
           f == CHOOSE f : Is(f)
<1>1. \A h : Is(h) <=> Layers(TRUE, t, h, n)
  BY DEF Layers, LayerAt
<1>2. \A b : DecEntries(t, n, b) = f[n][b]
  BY DEF DecEntries, EntriesAt
<1>3. \E h : Is(h)
  BY <1>1, LayersExist
<1>4. Is(f)
  <2> HIDE DEF Is
  <2> QED
    BY <1>3
<1> HIDE DEF f, Is
<1> QED
  BY <1>1, <1>2, <1>4 DEF EntriesMade

\* One item, then the others.
ItemsFirst(t, n, b) ==
  LET item == t.dec[b]
  IN  /\ item.out # "ok" => DecItems(t, n + 1, b) = item
      /\ item.out = "ok" => DecItems(t, n + 1, b) = Prepend(item, DecItems(t, n, item.rest))

\* No items leave the bytes as they are.
LEMMA DecItemsNone ==
  ASSUME NEW t, NEW b \in Bytes
  PROVE  DecItems(t, 0, b) = Ok(<<>>, b)
<1>f. PICK f : ItemsMade(t, f, 0)
  BY DecItemsIs, Zenon
<1>1. Layers(FALSE, t, f, 0) /\ \A c \in Bytes : DecItems(t, 0, c) = f[0][c]
  BY <1>f DEF ItemsMade
<1>2. f[0] = Innermost(FALSE, t)
  BY <1>1, LayersAre DEF Layered
<1>3. Innermost(FALSE, t)[b] = Ok(<<>>, b)
  BY DEF Innermost, LayerAt, ItemsAt
<1> QED
  BY <1>1, <1>2, <1>3

\* One more item is decoded first.
LEMMA DecItemsMore ==
  ASSUME NEW t, NEW n \in Nat, NEW b \in Bytes, t.dec[b].rest \in Bytes
  PROVE  ItemsFirst(t, n, b)
<1>0. n + 1 \in Nat /\ n + 1 \in 0 .. n + 1 /\ n + 1 \in n .. n + 1
  OBVIOUS
<1>f. PICK f : ItemsMade(t, f, n)
  BY DecItemsIs, Zenon
<1>1. Layers(FALSE, t, f, n) /\ \A c \in Bytes : DecItems(t, n, c) = f[n][c]
  BY <1>f DEF ItemsMade
<1>g. PICK g : ItemsMade(t, g, n + 1)
  BY <1>0, DecItemsIs, Zenon
<1>2. Layers(FALSE, t, g, n + 1) /\ \A c \in Bytes : DecItems(t, n + 1, c) = g[n + 1][c]
  BY <1>g DEF ItemsMade
<1>3. Layered(FALSE, t, g, n + 1)
  BY <1>0, <1>2, LayersAre, Zenon
<1>4. g[n + 1] = LayerAt(FALSE, t, n + 1, g[n])
  BY <1>0, <1>3, Zenon DEF Layered
<1>5. f[n] = g[n]
  <2>1. AgreeAt(f, g, n)
    BY <1>0, <1>1, <1>2, LayersAgree, Zenon
  <2> QED
    BY <2>1 DEF AgreeAt
<1>6. g[n + 1] = ItemsAt(t, n + 1, f[n])
  BY <1>4, <1>5 DEF LayerAt
<1> DEFINE item == t.dec[b]
           next == f[n]
<1>7. n + 1 # 0
  OBVIOUS
<1>8. ItemsAt(t, n + 1, next)[b] =
        IF item.out = "ok" THEN Prepend(item, next[item.rest]) ELSE item
  <2> HIDE DEF next
  <2> QED
    BY <1>7 DEF ItemsAt
<1>9. DecItems(t, n, item.rest) = next[item.rest]
  BY <1>1
<1> HIDE DEF next
<1>10. DecItems(t, n + 1, b) = ItemsAt(t, n + 1, next)[b]
  BY <1>2, <1>6 DEF next
<1> QED
  BY <1>8, <1>9, <1>10 DEF ItemsFirst

\* TRUE and an entry, then the others; with none left to take, the entry.
EntriesFirst(t, n, b) ==
  LET more == Bool.dec[b]
      entry == t.dec[more.rest]
  IN  /\ more.out # "ok" => DecEntries(t, n, b) = more
      /\ more.out = "ok" /\ more.val[1] = 0 => DecEntries(t, n, b) = Ok(<<>>, more.rest)
      /\ more.out = "ok" /\ more.val[1] # 0 /\ (entry.out # "ok" \/ n = 0) =>
           DecEntries(t, n, b) = entry
      /\ more.out = "ok" /\ more.val[1] # 0 /\ entry.out = "ok" /\ n # 0 =>
           DecEntries(t, n, b) = Prepend(entry, DecEntries(t, n - 1, entry.rest))

\* With no entry allowed, only the end is read.
LEMMA DecEntriesNone ==
  ASSUME NEW t, NEW b \in Bytes
  PROVE  EntriesFirst(t, 0, b)
<1>f. PICK f : EntriesMade(t, f, 0)
  BY DecEntriesIs, Zenon
<1>1. Layers(TRUE, t, f, 0) /\ \A c \in Bytes : DecEntries(t, 0, c) = f[0][c]
  BY <1>f DEF EntriesMade
<1>2. f[0] = Innermost(TRUE, t)
  BY <1>1, LayersAre DEF Layered
<1>3. DecEntries(t, 0, b) = EntriesAt(t, 0, <<>>)[b]
  BY <1>1, <1>2 DEF Innermost, LayerAt
<1> DEFINE more == Bool.dec[b]
           entry == t.dec[more.rest]
<1>4. EntriesAt(t, 0, <<>>)[b] =
        IF more.out # "ok" THEN more
        ELSE IF more.val[1] = 0 THEN Ok(<<>>, more.rest) ELSE entry
  BY DEF EntriesAt
<1> HIDE DEF more
<1> QED
  BY <1>3, <1>4 DEF EntriesFirst, more

\* Else an entry or the end.
LEMMA DecEntriesMore ==
  ASSUME NEW t, NEW n \in Nat, NEW b \in Bytes, t.dec[Bool.dec[b].rest].rest \in Bytes
  PROVE  EntriesFirst(t, n + 1, b)
<1>0. n + 1 \in Nat /\ n + 1 \in 0 .. n + 1 /\ n + 1 \in n .. n + 1
  OBVIOUS
<1>f. PICK f : EntriesMade(t, f, n)
  BY DecEntriesIs, Zenon
<1>1. Layers(TRUE, t, f, n) /\ \A c \in Bytes : DecEntries(t, n, c) = f[n][c]
  BY <1>f DEF EntriesMade
<1>g. PICK g : EntriesMade(t, g, n + 1)
  BY <1>0, DecEntriesIs, Zenon
<1>2. Layers(TRUE, t, g, n + 1) /\ \A c \in Bytes : DecEntries(t, n + 1, c) = g[n + 1][c]
  BY <1>g DEF EntriesMade
<1>3. Layered(TRUE, t, g, n + 1)
  BY <1>0, <1>2, LayersAre, Zenon
<1>4. g[n + 1] = LayerAt(TRUE, t, n + 1, g[n])
  BY <1>0, <1>3, Zenon DEF Layered
<1>5. f[n] = g[n]
  <2>1. AgreeAt(f, g, n)
    BY <1>0, <1>1, <1>2, LayersAgree, Zenon
  <2> QED
    BY <2>1 DEF AgreeAt
<1>6. g[n + 1] = EntriesAt(t, n + 1, f[n])
  BY <1>4, <1>5 DEF LayerAt
<1> DEFINE more == Bool.dec[b]
           entry == t.dec[more.rest]
           next == f[n]
<1>7. n + 1 # 0 /\ (n + 1) - 1 = n
  OBVIOUS
<1>8. EntriesAt(t, n + 1, next)[b] =
        IF more.out # "ok" THEN more
        ELSE IF more.val[1] = 0 THEN Ok(<<>>, more.rest)
        ELSE IF entry.out # "ok" THEN entry
        ELSE Prepend(entry, next[entry.rest])
  <2> HIDE DEF next
  <2> QED
    BY <1>7 DEF EntriesAt
<1>9. DecEntries(t, n, entry.rest) = next[entry.rest]
  BY <1>1
<1> HIDE DEF next
<1>10. DecEntries(t, n + 1, b) = EntriesAt(t, n + 1, next)[b]
  BY <1>2, <1>6 DEF next
<1> HIDE DEF more
<1> DEFINE d == DecEntries(t, (n + 1) - 1, entry.rest)
<1>11. d = next[entry.rest]
  BY <1>7, <1>9, Zenon
<1> HIDE DEF d
<1> QED
  BY <1>7, <1>8, <1>10, <1>11 DEF EntriesFirst, more, d

-----------------------------------------------------------------------------
(* Vectors. *)

\* An item before the items that follow.
LEMMA PrependOk ==
  ASSUME NEW h, NEW q, NEW w, NEW r
  PROVE  Prepend(Ok(h, q), Ok(w, r)) = Ok(<<h>> \o w, r)
  BY OkFields DEF Prepend

\* Items that fail, fail with one before them.
LEMMA PrependErr ==
  ASSUME NEW item
  PROVE  Prepend(item, Err) = Err
  BY ErrFields DEF Prepend

\* The rest of the items answers for all.
LEMMA PrependSettles ==
  ASSUME NEW item, NEW r, NEW b, Settles(r, b)
  PROVE  Settles(Prepend(item, r), b)
<1>1. CASE r.out = "ok"
  BY <1>1, OkFields DEF Prepend, Settles
<1>2. CASE r.out # "ok"
  BY <1>2 DEF Prepend
<1> QED
  BY <1>1, <1>2

\* What is known of the items of a vector.
ItemCodec(t) ==
  /\ \A z \in t.values : t.enc[z] \in Bytes
  /\ \A z \in t.values : \A r \in Bytes : t.dec[t.enc[z] \o r] = Ok(z, r)
  /\ \A z \in t.values : \A p \in Bytes : \A x \in Bytes :
       x # <<>> /\ t.enc[z] = p \o x => t.dec[p] = Err

\* What the proofs about lists use of an item's layout.
LEMMA ItemCodecIs ==
  ASSUME NEW t, Codec(t, FALSE)
  PROVE  ItemCodec(t)
  BY DEF ItemCodec, Codec, Encodes, ReadsBack, RefusesCuts

\* Any number of items is read back, by induction over their number.
LEMMA ItemsReadBack ==
  ASSUME NEW t, ItemCodec(t), NEW n \in Nat
  PROVE  \A v \in Seq(t.values) : \A r \in Bytes : Len(v) = n =>
           EncAll(t.enc, v) \in Bytes /\ DecItems(t, n, EncAll(t.enc, v) \o r) = Ok(v, r)
<1> DEFINE Good(m) == \A v \in Seq(t.values) : \A r \in Bytes : Len(v) = m =>
             EncAll(t.enc, v) \in Bytes /\ DecItems(t, m, EncAll(t.enc, v) \o r) = Ok(v, r)
           M == {m \in Nat : Good(m)}
<1>1. Good(0)
  <2> SUFFICES ASSUME NEW v \in Seq(t.values), NEW r \in Bytes, Len(v) = 0
               PROVE  EncAll(t.enc, v) \in Bytes /\ DecItems(t, 0, EncAll(t.enc, v) \o r) = Ok(v, r)
    OBVIOUS
  <2>1. v = <<>>
    BY EmptySeq
  <2>2. EncAll(t.enc, v) = <<>> /\ <<>> \o r = r
    BY <2>1, EncNothing, BytesEmpty
  <2> QED
    BY <2>1, <2>2, DecItemsNone, BytesEmpty
<1>2. ASSUME NEW m \in Nat, Good(m)
      PROVE  Good(m + 1)
  <2> SUFFICES ASSUME NEW v \in Seq(t.values), NEW r \in Bytes, Len(v) = m + 1
               PROVE  /\ EncAll(t.enc, v) \in Bytes
                      /\ DecItems(t, m + 1, EncAll(t.enc, v) \o r) = Ok(v, r)
    OBVIOUS
  <2>h. PICK h \in t.values : \E w \in Seq(t.values) : HeadAndTail(t.enc, m, v, h, w)
    BY EncHead, Zenon DEF ItemCodec
  <2>w. PICK w \in Seq(t.values) : HeadAndTail(t.enc, m, v, h, w)
    BY <2>h
  <2>1. /\ v = <<h>> \o w
        /\ Len(w) = m
        /\ EncAll(t.enc, v) = t.enc[h] \o EncAll(t.enc, w)
        /\ EncAll(t.enc, w) \in Bytes
    BY <2>w DEF HeadAndTail
  <2> DEFINE a == t.enc[h]
             c == EncAll(t.enc, w)
             d == c \o r
             b == (a \o c) \o r
  <2>2. a \in Bytes /\ c \in Bytes
    BY <2>1 DEF ItemCodec
  <2>3. a \o c \in Bytes /\ d \in Bytes /\ b \in Bytes /\ b = a \o d
    BY <2>2, BytesConcat, BytesAssoc, ZenonT(60)
  <2>4. t.dec[b] = Ok(h, d)
    BY <2>3 DEF ItemCodec
  <2>5. DecItems(t, m, d) = Ok(w, r)
    BY <2>1, <1>2
  <2> HIDE DEF a, b, c, d, Good
  <2>6. t.dec[b].out = "ok" /\ t.dec[b].rest = d
    BY <2>4, OkFields
  <2>7. ItemsFirst(t, m, b)
    BY <2>3, <2>6, DecItemsMore
  <2>8. DecItems(t, m + 1, b) = Prepend(Ok(h, d), Ok(w, r))
    BY <2>4, <2>5, <2>6, <2>7 DEF ItemsFirst
  <2>9. DecItems(t, m + 1, b) = Ok(v, r)
    BY <2>1, <2>8, PrependOk
  <2>10. EncAll(t.enc, v) = a \o c
    BY <2>1 DEF a, c
  <2> QED
    BY <2>3, <2>9, <2>10 DEF b
<1>3. Nat \subseteq M
  <2>1. 0 \in M
    BY <1>1
  <2>2. ASSUME NEW m \in Nat, m \in M
        PROVE  m + 1 \in M
    <3>1. m + 1 \in Nat
      OBVIOUS
    <3>2. Good(m + 1)
      BY <2>2, <1>2
    <3> HIDE DEF Good
    <3> QED
      BY <3>1, <3>2
  <2> HIDE DEF M
  <2> QED
    BY <2>1, <2>2, SetInduction
<1> QED
  BY <1>3

\* A cut anywhere in the items is found.
LEMMA ItemsRefuseCuts ==
  ASSUME NEW t, ItemCodec(t), NEW n \in Nat
  PROVE  \A v \in Seq(t.values) : \A p \in Bytes : \A x \in Bytes :
           Len(v) = n /\ x # <<>> /\ EncAll(t.enc, v) = p \o x => DecItems(t, n, p) = Err
<1> DEFINE Good(m) == \A v \in Seq(t.values) : \A p \in Bytes : \A x \in Bytes :
             Len(v) = m /\ x # <<>> /\ EncAll(t.enc, v) = p \o x => DecItems(t, m, p) = Err
           M == {m \in Nat : Good(m)}
<1>1. Good(0)
  <2> SUFFICES ASSUME NEW v \in Seq(t.values), NEW p \in Bytes, NEW x \in Bytes,
                      Len(v) = 0, x # <<>>, EncAll(t.enc, v) = p \o x
               PROVE  FALSE
    OBVIOUS
  <2>1. v = <<>>
    BY EmptySeq
  <2>2. p \o x = <<>>
    BY <2>1, EncNothing
  <2> QED
    BY <2>2, BytesEmpty
<1>2. ASSUME NEW m \in Nat, Good(m)
      PROVE  Good(m + 1)
  <2> SUFFICES ASSUME NEW v \in Seq(t.values), NEW p \in Bytes, NEW x \in Bytes,
                      Len(v) = m + 1, x # <<>>, EncAll(t.enc, v) = p \o x
               PROVE  DecItems(t, m + 1, p) = Err
    OBVIOUS
  <2>h. PICK h \in t.values : \E w \in Seq(t.values) : HeadAndTail(t.enc, m, v, h, w)
    BY EncHead, Zenon DEF ItemCodec
  <2>w. PICK w \in Seq(t.values) : HeadAndTail(t.enc, m, v, h, w)
    BY <2>h
  <2>1. /\ v = <<h>> \o w
        /\ Len(w) = m
        /\ EncAll(t.enc, v) = t.enc[h] \o EncAll(t.enc, w)
        /\ EncAll(t.enc, w) \in Bytes
    BY <2>w DEF HeadAndTail
  <2> DEFINE a == t.enc[h]
             c == EncAll(t.enc, w)
  <2>2. a \in Bytes /\ c \in Bytes /\ a \o c = p \o x
    BY <2>1 DEF ItemCodec
  <2>3. CutWithin(Bytes, a, c, p, x)
    BY <2>2, BytesCut, Zenon
  <2>4. CASE \E y \in Bytes : y # <<>> /\ a = p \o y
    <3>1. t.dec[p] = Err
      BY <2>4 DEF ItemCodec
    <3>2. t.dec[p].out # "ok" /\ t.dec[p].rest \in Bytes
      BY <3>1, ErrFields, BytesEmpty
    <3>3. ItemsFirst(t, m, p)
      BY <3>2, DecItemsMore
    <3> QED
      BY <3>1, <3>2, <3>3 DEF ItemsFirst
  <2>5. CASE \E q \in Bytes : p = a \o q /\ c = q \o x
    <3>1. PICK q \in Bytes : p = a \o q /\ c = q \o x
      BY <2>5
    <3>2. t.dec[p] = Ok(h, q)
      BY <3>1 DEF ItemCodec
    <3>3. DecItems(t, m, q) = Err
      BY <3>1, <2>1, <1>2
    <3> HIDE DEF Good, a, c
    <3>4. t.dec[p].out = "ok" /\ t.dec[p].rest = q
      BY <3>2, OkFields
    <3>5. ItemsFirst(t, m, p)
      BY <3>4, DecItemsMore
    <3> QED
      BY <3>3, <3>4, <3>5, PrependErr DEF ItemsFirst
  <2> QED
    BY <2>3, <2>4, <2>5 DEF CutWithin
<1>3. Nat \subseteq M
  <2>1. 0 \in M
    BY <1>1
  <2>2. ASSUME NEW m \in Nat, m \in M
        PROVE  m + 1 \in M
    <3>1. m + 1 \in Nat
      OBVIOUS
    <3>2. Good(m + 1)
      BY <2>2, <1>2
    <3> HIDE DEF Good
    <3> QED
      BY <3>1, <3>2
  <2> HIDE DEF M
  <2> QED
    BY <2>1, <2>2, SetInduction
<1> QED
  BY <1>3

\* Items panic only if one of them does.
LEMMA ItemsSettle ==
  ASSUME NEW t, Quiet(t), NEW n \in Nat
  PROVE  \A b \in Bytes : Settles(DecItems(t, n, b), b)
<1> DEFINE M == {m \in Nat : \A b \in Bytes : Settles(DecItems(t, m, b), b)}
<1>1. 0 \in M
  BY DecItemsNone, OkSettles, EndOfBytes, BytesEmpty
<1>2. ASSUME NEW m \in Nat, m \in M
      PROVE  m + 1 \in M
  <2>1. ASSUME NEW b \in Bytes
        PROVE  Settles(DecItems(t, m + 1, b), b)
    <3> DEFINE item == t.dec[b]
               others == DecItems(t, m, item.rest)
    <3>1. Settles(item, b)
      BY DEF Quiet
    <3>2. item.rest \in Bytes /\ (item.out = "ok" => EndOf(item.rest, b))
      BY <3>1 DEF Settles
    <3>3. ItemsFirst(t, m, b)
      BY <3>2, DecItemsMore
    <3>4. Settles(others, item.rest)
      BY <3>2, <1>2
    <3>5. CASE item.out = "ok"
      <4>1. Settles(others, b)
        BY <3>2, <3>4, <3>5, EndSettles
      <4>2. Settles(Prepend(item, others), b)
        BY <4>1, PrependSettles, Zenon
      <4>3. DecItems(t, m + 1, b) = Prepend(item, others)
        BY <3>3, <3>5 DEF ItemsFirst
      <4> QED
        BY <4>2, <4>3
    <3>6. CASE item.out # "ok"
      BY <3>1, <3>3, <3>6 DEF ItemsFirst
    <3> QED
      BY <3>5, <3>6
  <2>2. m + 1 \in Nat
    OBVIOUS
  <2> QED
    BY <2>1, <2>2
<1>3. Nat \subseteq M
  <2> HIDE DEF M
  <2> QED
    BY <1>1, <1>2, SetInduction
<1> QED
  BY <1>3

\* The layout of a vector.
LEMMA VecIs ==
  ASSUME NEW t
  PROVE  /\ Vec(t).values = {v \in Seq(t.values) : Len(v) <= Room}
         /\ \A v \in Vec(t).values : Vec(t).enc[v] = Word(Len(v)) \o EncAll(t.enc, v)
         /\ \A b \in Bytes : Vec(t).dec[b] = DecVec(t, b)
<1> DEFINE values == {v \in Seq(t.values) : Len(v) <= Room}
<1>1. Vec(t).values = values
  BY DEF Vec
<1>2. Vec(t).enc = [v \in values |-> Word(Len(v)) \o EncAll(t.enc, v)]
  BY DEF Vec, EncAll
<1>3. Vec(t).dec = [b \in Bytes |-> DecVec(t, b)]
  BY DEF Vec
<1> QED
  BY <1>1, <1>2, <1>3

\* A vector of any length is read back when its items are, and refused when
\* cut before, inside or between items (Vec<T> of xdr-codec).
THEOREM VecCodec ==
  ASSUME NEW t, Codec(t, FALSE)
  PROVE  Codec(Vec(t), FALSE)
<1> DEFINE u == Vec(t)
<1>i. ItemCodec(t)
  BY ItemCodecIs
<1>0. /\ \A v \in u.values : v \in Seq(t.values) /\ Len(v) \in Words /\ ~ (Len(v) > Room)
      /\ \A v \in u.values : u.enc[v] = Word(Len(v)) \o EncAll(t.enc, v)
      /\ \A b \in Bytes : u.dec[b] = DecVec(t, b)
  <2>1. /\ u.values = {v \in Seq(t.values) : Len(v) <= Room}
        /\ \A v \in u.values : u.enc[v] = Word(Len(v)) \o EncAll(t.enc, v)
        /\ \A b \in Bytes : u.dec[b] = DecVec(t, b)
    BY VecIs, Zenon
  <2> HIDE DEF u
  <2>2. ASSUME NEW v \in u.values
        PROVE  v \in Seq(t.values) /\ Len(v) \in Words /\ ~ (Len(v) > Room)
    <3>1. v \in Seq(t.values) /\ Len(v) <= Room
      BY <2>1
    <3>2. Len(v) \in Nat
      BY <3>1
    <3> QED
      BY <3>1, <3>2, RoomWord DEF Words
  <2> QED
    BY <2>1, <2>2
<1> HIDE DEF u
<1>1. ASSUME NEW v \in u.values
      PROVE  /\ EncAll(t.enc, v) \in Bytes
             /\ \A r \in Bytes : DecItems(t, Len(v), EncAll(t.enc, v) \o r) = Ok(v, r)
             /\ \A p \in Bytes : \A x \in Bytes :
                  x # <<>> /\ EncAll(t.enc, v) = p \o x => DecItems(t, Len(v), p) = Err
  <2>1. v \in Seq(t.values) /\ Len(v) \in Nat /\ <<>> \in Bytes
    BY <1>0, WordsAre, BytesEmpty
  <2>2. \A z \in Seq(t.values) : \A r \in Bytes : Len(z) = Len(v) =>
          EncAll(t.enc, z) \in Bytes /\ DecItems(t, Len(v), EncAll(t.enc, z) \o r) = Ok(z, r)
    BY <1>i, <2>1, ItemsReadBack
  <2>3. \A z \in Seq(t.values) : \A p \in Bytes : \A x \in Bytes :
          Len(z) = Len(v) /\ x # <<>> /\ EncAll(t.enc, z) = p \o x => DecItems(t, Len(v), p) = Err
    BY <1>i, <2>1, ItemsRefuseCuts
  <2> QED
    BY <2>1, <2>2, <2>3
<1>2. Encodes(u)
  <2> SUFFICES ASSUME NEW v \in u.values
               PROVE  u.enc[v] \in Bytes
    BY DEF Encodes
  <2>1. Word(Len(v)) \in Bytes /\ EncAll(t.enc, v) \in Bytes
    BY <1>0, <1>1, WordType
  <2>2. u.enc[v] = Word(Len(v)) \o EncAll(t.enc, v)
    BY <1>0
  <2> QED
    BY <2>1, <2>2, BytesConcat
<1>3. ReadsBack(u, FALSE)
  <2> SUFFICES ASSUME NEW v \in u.values, NEW r \in Bytes
               PROVE  u.dec[u.enc[v] \o r] = Ok(v, r)
    BY DEF ReadsBack
  <2> DEFINE n == Len(v)
             c == EncAll(t.enc, v)
             b == (Word(n) \o c) \o r
             d == c \o r
  <2>1. n \in Words /\ ~ (n > Room) /\ c \in Bytes /\ u.enc[v] = Word(n) \o c
    BY <1>0, <1>1
  <2>2. u.enc[v] \o r \in Bytes
    BY <1>2, BytesConcat DEF Encodes
  <2>3. b \in Bytes /\ b = u.enc[v] \o r
    BY <2>1, <2>2
  <2>4. DecU32(b) = Ok(n, d)
    BY <2>1, WordFirst
  <2>5. DecItems(t, n, d) = Ok(v, r)
    BY <1>1
  <2> HIDE DEF n, b, c, d
  <2>6. DecVec(t, b) = Ok(v, r)
    BY <2>1, <2>4, <2>5, OkFields DEF DecVec
  <2> QED
    BY <2>3, <2>6, <1>0
<1>4. RefusesCuts(u)
  <2> SUFFICES ASSUME NEW v \in u.values, NEW p \in Bytes, NEW x \in Bytes,
                      x # <<>>, u.enc[v] = p \o x
               PROVE  u.dec[p] = Err
    BY DEF RefusesCuts
  <2> DEFINE n == Len(v)
             c == EncAll(t.enc, v)
  <2>1. n \in Words /\ ~ (n > Room) /\ c \in Bytes /\ Word(n) \o c = p \o x
    BY <1>0, <1>1
  <2>2. WordOrNone(n, c, p, x)
    BY <2>1, WordCut, Zenon
  <2>3. CASE DecU32(p) = Err
    <3>1. DecVec(t, p) = Err
      BY <2>3, ErrFields DEF DecVec
    <3> QED
      BY <3>1, <1>0
  <2>4. CASE \E q \in Bytes : DecU32(p) = Ok(n, q) /\ c = q \o x
    <3>1. PICK q \in Bytes : DecU32(p) = Ok(n, q) /\ c = q \o x
      BY <2>4
    <3>2. DecItems(t, n, q) = Err
      BY <3>1, <1>1
    <3> HIDE DEF n, c
    <3>3. DecVec(t, p) = Err
      BY <2>1, <3>1, <3>2, OkFields DEF DecVec
    <3> QED
      BY <3>3, <1>0
  <2> QED
    BY <2>2, <2>3, <2>4 DEF WordOrNone
<1>5. Codec(u, FALSE)
  BY <1>2, <1>3, <1>4 DEF Codec
<1> QED
  BY <1>5 DEF u

\* A vector panics only if an item does; it may be too long for the memory.
LEMMA VecQuiet ==
  ASSUME NEW t, Quiet(t)
  PROVE  Quiet(Vec(t))
<1> SUFFICES ASSUME NEW b \in Bytes
             PROVE  Settles(DecVec(t, b), b)
  <2>1. \A b \in Bytes : Vec(t).dec[b] = DecVec(t, b)
    BY VecIs
  <2> QED
    BY <2>1, Zenon DEF Quiet
<1> DEFINE len == DecU32(b)
<1>1. /\ Settles(len, b) /\ len.rest \in Bytes
      /\ len.out = "ok" => len.val \in Nat /\ EndOf(len.rest, b)
  BY DecU32Any, WordSettles
<1>2. CASE len.out = "ok" /\ len.val > Room
  <2>1. DecVec(t, b) = Abort(b)
    BY <1>2 DEF DecVec
  <2>2. Len(b) >= 4 /\ len.val = Number(b)
    BY <1>2, DecU32Any, OkFields
  <2>3. TooMany(b)
    BY <1>2, <2>2 DEF TooMany
  <2>4. EndOf(b, b)
    BY EndOfBytes
  <2>5. Abort(b).out = "abort" /\ Abort(b).rest = b
    BY DEF Abort
  <2> QED
    BY <2>1, <2>3, <2>4, <2>5 DEF Settles
<1>3. CASE len.out = "ok" /\ ~ (len.val > Room)
  <2>1. Settles(DecItems(t, len.val, len.rest), len.rest)
    BY <1>1, <1>3, ItemsSettle
  <2>2. Settles(DecItems(t, len.val, len.rest), b)
    BY <1>1, <1>3, <2>1, EndSettles
  <2>3. DecVec(t, b) = DecItems(t, len.val, len.rest)
    BY <1>3 DEF DecVec
  <2> QED
    BY <2>2, <2>3
<1>4. CASE len.out # "ok"
  <2>1. DecVec(t, b) = len
    BY <1>4 DEF DecVec
  <2> QED
    BY <1>1, <2>1
<1> QED
  BY <1>2, <1>3, <1>4

-----------------------------------------------------------------------------
(* Lists in which TRUE stands before each entry. *)

\* The discriminants of a bool are words.
LEMMA BoolWords == {0, 1} \subseteq Words
  BY SmallWord, SMT

\* A bool is read back.
LEMMA BoolCodec == Codec(Bool, FALSE) /\ Quiet(Bool)
<1>1. EnumCodec(Arm({0, 1}, Void), FALSE)
  BY BoolWords, VoidCodec, ArmCodec
<1>2. Quiet(Arm({0, 1}, Void))
  BY VoidCodec, ArmQuiet
<1> QED
  BY <1>1, <1>2 DEF EnumCodec, Bool

\* A bool as DecEntries reads it.
LEMMA BoolReads ==
  ASSUME NEW b \in Bytes
  PROVE  /\ DecU32(b) = Err => Bool.dec[b] = Err
         /\ \A n \in {0, 1}, q \in Bytes : DecU32(b) = Ok(n, q) =>
              Bool.dec[b] = Ok(<<n, <<>>>>, q)
<1>1. Bool.dec[b] = DecArm({0, 1}, Void, b)
  BY ArmIs DEF Bool
<1>2. ASSUME DecU32(b) = Err
      PROVE  DecArm({0, 1}, Void, b) = Err
  BY <1>2, ErrFields DEF DecArm
<1>3. ASSUME NEW n \in {0, 1}, NEW q \in Bytes, DecU32(b) = Ok(n, q)
      PROVE  DecArm({0, 1}, Void, b) = Ok(<<n, <<>>>>, q)
  <2>1. Void.dec[q] = Ok(<<>>, q)
    BY VoidIs
  <2>2. DecArm({0, 1}, Void, b) = After(Ok(n, q), Ok(<<>>, q))
    BY <1>3, <2>1, OkFields DEF DecArm
  <2> QED
    BY <2>2, AfterOk
<1> QED
  BY <1>1, <1>2, <1>3

Entry(t) == [z \in t.values |-> Word(1) \o t.enc[z]]

\* An entry is TRUE and its item.
LEMMA EntryBytes ==
  ASSUME NEW t, ItemCodec(t)
  PROVE  \A z \in t.values :
           /\ Entry(t)[z] = Word(1) \o t.enc[z]
           /\ t.enc[z] \in Bytes
           /\ Entry(t)[z] \in Bytes
<1> SUFFICES ASSUME NEW z \in t.values
             PROVE  /\ Entry(t)[z] = Word(1) \o t.enc[z]
                    /\ t.enc[z] \in Bytes
                    /\ Entry(t)[z] \in Bytes
  OBVIOUS
<1>1. Word(1) \in Bytes /\ t.enc[z] \in Bytes
  BY WordType DEF ItemCodec
<1>2. Entry(t)[z] = Word(1) \o t.enc[z]
  BY DEF Entry
<1> QED
  BY <1>1, <1>2, BytesConcat

ChainBytes(t, v) == EncAll(Entry(t), v) \o Word(0)

\* The layout of a chain of entries.
LEMMA ChainIs ==
  ASSUME NEW t
  PROVE  /\ Chain(t).values = Seq(t.values)
         /\ \A v \in Seq(t.values) : Chain(t).enc[v] = ChainBytes(t, v)
         /\ \A b \in Bytes : Chain(t).dec[b] = DecEntries(t, Len(b), b)
<1>1. Chain(t).values = Seq(t.values)
  BY DEF Chain
<1>2. Chain(t).enc = [v \in Seq(t.values) |->
        FlattenSeq([i \in DOMAIN v |-> Word(1) \o t.enc[v[i]]]) \o Word(0)]
  BY DEF Chain
<1>3. Chain(t).dec = [b \in Bytes |-> DecEntries(t, Len(b), b)]
  BY DEF Chain
<1>4. ASSUME NEW v \in Seq(t.values)
      PROVE  Chain(t).enc[v] = ChainBytes(t, v)
  <2>1. \A i \in DOMAIN v : v[i] \in t.values
    OBVIOUS
  <2>2. [i \in DOMAIN v |-> Word(1) \o t.enc[v[i]]] = [i \in DOMAIN v |-> Entry(t)[v[i]]]
    BY <2>1 DEF Entry
  <2>3. Chain(t).enc[v] = FlattenSeq([i \in DOMAIN v |-> Word(1) \o t.enc[v[i]]]) \o Word(0)
    BY <1>2
  <2> QED
    BY <2>2, <2>3 DEF ChainBytes, EncAll
<1> QED
  BY <1>1, <1>3, <1>4

\* TRUE, the first entry, and the others with what closes the list.
ChainSplit(t, n, v, h, w) ==
  /\ v = <<h>> \o w
  /\ Len(w) = n
  /\ ChainBytes(t, v) = Word(1) \o (t.enc[h] \o ChainBytes(t, w))
  /\ ChainBytes(t, w) \in Bytes

\* The bytes of a chain are those of its first entry and those of the rest.
LEMMA ChainHead ==
  ASSUME NEW t, ItemCodec(t), NEW n \in Nat, NEW v \in Seq(t.values), Len(v) = n + 1
  PROVE  \E h \in t.values : \E w \in Seq(t.values) : ChainSplit(t, n, v, h, w)
<1> DEFINE g == Entry(t)
<1>0. \A z \in t.values :
        g[z] = Word(1) \o t.enc[z] /\ t.enc[z] \in Bytes /\ g[z] \in Bytes
  BY EntryBytes
<1>1. PICK h \in t.values : \E w \in Seq(t.values) : HeadAndTail(g, n, v, h, w)
  <2> HIDE DEF g
  <2> QED
    BY <1>0, EncHead, Zenon
<1>2. PICK w \in Seq(t.values) : HeadAndTail(g, n, v, h, w)
  BY <1>1
<1> DEFINE a == t.enc[h]
           c == EncAll(g, w)
           e == Word(0)
           l == Word(1)
<1>3. /\ v = <<h>> \o w /\ Len(w) = n
      /\ EncAll(g, v) = g[h] \o c
      /\ c \in Bytes
  <2> HIDE DEF g
  <2> QED
    BY <1>2 DEF HeadAndTail
<1>4. g[h] = l \o a /\ a \in Bytes
  BY <1>0
<1>5. l \in Bytes /\ e \in Bytes
  BY WordType
<1>6. ChainBytes(t, v) = (g[h] \o c) \o e /\ ChainBytes(t, w) = c \o e
  BY <1>3 DEF ChainBytes
<1> HIDE DEF a, c, e, l, g
<1>7. c \o e \in Bytes /\ l \o a \in Bytes
  BY <1>3, <1>4, <1>5, BytesConcat
<1>8. ((l \o a) \o c) \o e = (l \o a) \o (c \o e)
  BY <1>3, <1>5, <1>7, BytesAssoc, ZenonT(60)
<1>9. (l \o a) \o (c \o e) = l \o (a \o (c \o e))
  BY <1>4, <1>5, <1>7, BytesAssoc, ZenonT(60)
<1> QED
  BY <1>3, <1>4, <1>6, <1>7, <1>8, <1>9 DEF ChainSplit, a, l

\* Both equations of DecEntries at once.
LEMMA EntriesAll ==
  ASSUME NEW t, Quiet(t), NEW n \in Nat, NEW b \in Bytes
  PROVE  EntriesFirst(t, n, b)
<1>1. Bool.dec[b].rest \in Bytes
  BY BoolCodec DEF Quiet, Settles
<1>2. t.dec[Bool.dec[b].rest].rest \in Bytes
  BY <1>1 DEF Quiet, Settles
<1>3. CASE n = 0
  BY <1>3, DecEntriesNone
<1>4. CASE n # 0
  <2>1. n - 1 \in Nat /\ (n - 1) + 1 = n
    BY <1>4
  <2>2. EntriesFirst(t, (n - 1) + 1, b)
    BY <2>1, <1>2, DecEntriesMore, Zenon
  <2> QED
    BY <2>1, <2>2, Zenon
<1> QED
  BY <1>3, <1>4

\* TRUE comes first: an entry follows.
LEMMA EntryNext ==
  ASSUME NEW t, Quiet(t), NEW n \in Nat, NEW b \in Bytes, NEW q \in Bytes,
         DecU32(b) = Ok(1, q)
  PROVE  /\ t.dec[q].out # "ok" => DecEntries(t, n, b) = t.dec[q]
         /\ t.dec[q].out = "ok" /\ n # 0 =>
              DecEntries(t, n, b) = Prepend(t.dec[q], DecEntries(t, n - 1, t.dec[q].rest))
<1>1. Bool.dec[b] = Ok(<<1, <<>>>>, q)
  BY BoolReads
<1>2. /\ Bool.dec[b].out = "ok"
      /\ Bool.dec[b].val[1] # 0
      /\ Bool.dec[b].rest = q
  BY <1>1, OkFields
<1>3. EntriesFirst(t, n, b)
  BY EntriesAll
<1> QED
  BY <1>2, <1>3 DEF EntriesFirst

\* A chain of any length is read back, by induction over its length; the
\* bytes it takes are at least as many as its entries.
LEMMA ChainReadsBack ==
  ASSUME NEW t, ItemCodec(t), Quiet(t), NEW n \in Nat
  PROVE  \A v \in Seq(t.values) : \A r \in Bytes : Len(v) = n =>
           /\ ChainBytes(t, v) \in Bytes
           /\ Len(ChainBytes(t, v)) >= n
           /\ \A k \in Nat : k >= n => DecEntries(t, k, ChainBytes(t, v) \o r) = Ok(v, r)
<1> DEFINE Good(m) == \A v \in Seq(t.values) : \A r \in Bytes : Len(v) = m =>
             /\ ChainBytes(t, v) \in Bytes
             /\ Len(ChainBytes(t, v)) >= m
             /\ \A k \in Nat : k >= m => DecEntries(t, k, ChainBytes(t, v) \o r) = Ok(v, r)
           M == {m \in Nat : Good(m)}
<1>1. Good(0)
  <2> SUFFICES ASSUME NEW v \in Seq(t.values), NEW r \in Bytes, Len(v) = 0
               PROVE  /\ ChainBytes(t, v) \in Bytes
                      /\ Len(ChainBytes(t, v)) >= 0
                      /\ \A k \in Nat : DecEntries(t, k, ChainBytes(t, v) \o r) = Ok(v, r)
    OBVIOUS
  <2>1. v = <<>>
    BY EmptySeq
  <2>2. Word(0) \in Bytes /\ Len(Word(0)) = 4 /\ 0 \in Words
    BY WordType, BoolWords
  <2>3. ChainBytes(t, v) = Word(0)
    BY <2>1, <2>2, EncNothing, BytesEmpty DEF ChainBytes
  <2> DEFINE b == Word(0) \o r
  <2>4. b \in Bytes /\ DecU32(b) = Ok(0, r)
    BY <2>2, BytesConcat, DecWord
  <2> HIDE DEF b
  <2>5. Bool.dec[b] = Ok(<<0, <<>>>>, r)
    BY <2>4, BoolReads
  <2>6. Bool.dec[b].out = "ok" /\ Bool.dec[b].val[1] = 0 /\ Bool.dec[b].rest = r
    BY <2>5, OkFields
  <2>7. ASSUME NEW k \in Nat
        PROVE  DecEntries(t, k, b) = Ok(v, r)
    <3>1. EntriesFirst(t, k, b)
      BY <2>4, EntriesAll
    <3> QED
      BY <2>1, <2>6, <3>1 DEF EntriesFirst
  <2> QED
    BY <2>2, <2>3, <2>7 DEF b
<1>2. ASSUME NEW m \in Nat, Good(m)
      PROVE  Good(m + 1)
  <2> SUFFICES ASSUME NEW v \in Seq(t.values), NEW r \in Bytes, Len(v) = m + 1
               PROVE  /\ ChainBytes(t, v) \in Bytes
                      /\ Len(ChainBytes(t, v)) >= m + 1
                      /\ \A k \in Nat : k >= m + 1 =>
                           DecEntries(t, k, ChainBytes(t, v) \o r) = Ok(v, r)
    OBVIOUS
  <2>h. PICK h \in t.values : \E w \in Seq(t.values) : ChainSplit(t, m, v, h, w)
    BY ChainHead, Zenon
  <2>w. PICK w \in Seq(t.values) : ChainSplit(t, m, v, h, w)
    BY <2>h
  <2>1. /\ v = <<h>> \o w
        /\ Len(w) = m
        /\ ChainBytes(t, v) = Word(1) \o (t.enc[h] \o ChainBytes(t, w))
        /\ ChainBytes(t, w) \in Bytes
    BY <2>w DEF ChainSplit
  <2> DEFINE a == t.enc[h]
             c == ChainBytes(t, w)
             d == c \o r
             e == a \o c
             q == a \o d
             b == (Word(1) \o e) \o r
  <2>2. a \in Bytes /\ c \in Bytes /\ Word(1) \in Bytes /\ Len(Word(1)) = 4 /\ 1 \in Words
    BY <2>1, WordType, BoolWords DEF ItemCodec
  <2>3. /\ e \in Bytes /\ Len(e) = Len(a) + Len(c) /\ Len(a) \in Nat /\ Len(c) \in Nat
        /\ d \in Bytes /\ q \in Bytes
    BY <2>2, BytesConcat
  <2>4. /\ Word(1) \o e \in Bytes /\ Len(Word(1) \o e) = Len(Word(1)) + Len(e)
        /\ b \in Bytes
    BY <2>2, <2>3, BytesConcat
  <2>5. DecU32(b) = Ok(1, e \o r)
    BY <2>2, <2>3, WordFirst
  <2>6. e \o r = q
    BY <2>2, BytesAssoc, ZenonT(60)
  <2>7. t.dec[q] = Ok(h, d)
    BY <2>3 DEF ItemCodec
  <2>8. \A k \in Nat : k >= m => DecEntries(t, k, d) = Ok(w, r)
    BY <2>1, <1>2
  <2>9. Len(c) >= m
    BY <2>1, <1>2
  <2>10. ChainBytes(t, v) = Word(1) \o e
    BY <2>1
  <2>11. Len(Word(1) \o e) >= m + 1
    <3> HIDE DEF a, c, d, e, q, b
    <3>1. Len(Word(1) \o e) = 4 + (Len(a) + Len(c))
      BY <2>2, <2>3, <2>4
    <3> DEFINE x == Len(a)
               y == Len(c)
    <3>2. x \in Nat /\ y \in Nat /\ y >= m
      BY <2>3, <2>9
    <3> HIDE DEF x, y
    <3>3. 4 + (x + y) >= m + 1
      BY <3>2
    <3> QED
      BY <3>1, <3>3 DEF x, y
  <2> HIDE DEF a, c, d, e, q, b, Good
  <2>12. t.dec[q].out = "ok" /\ t.dec[q].rest = d
    BY <2>7, OkFields
  <2>13. ASSUME NEW k \in Nat, k >= m + 1
         PROVE  DecEntries(t, k, b) = Ok(v, r)
    <3>1. k # 0 /\ k - 1 \in Nat /\ k - 1 >= m
      BY <2>13
    <3>2. DecEntries(t, k - 1, d) = Ok(w, r)
      BY <2>8, <3>1
    <3>3. DecU32(b) = Ok(1, q)
      BY <2>5, <2>6
    <3>4. DecEntries(t, k, b) = Prepend(t.dec[q], DecEntries(t, k - 1, t.dec[q].rest))
      BY <2>3, <2>4, <2>12, <3>1, <3>3, EntryNext
    <3>5. DecEntries(t, k, b) = Prepend(Ok(h, d), Ok(w, r))
      BY <2>7, <2>12, <3>2, <3>4
    <3> QED
      BY <2>1, <3>5, PrependOk
  <2> QED
    BY <2>4, <2>10, <2>11, <2>13 DEF b
<1>3. Nat \subseteq M
  <2>1. 0 \in M
    BY <1>1
  <2>2. ASSUME NEW m \in Nat, m \in M
        PROVE  m + 1 \in M
    <3>1. m + 1 \in Nat
      OBVIOUS
    <3>2. Good(m + 1)
      BY <2>2, <1>2
    <3> HIDE DEF Good
    <3> QED
      BY <3>1, <3>2
  <2> HIDE DEF M
  <2> QED
    BY <2>1, <2>2, SetInduction
<1> QED
  BY <1>3

\* A cut anywhere in a chain is found.
LEMMA ChainRefusesCuts ==
  ASSUME NEW t, ItemCodec(t), Quiet(t), NEW n \in Nat
  PROVE  \A v \in Seq(t.values) : \A p \in Bytes : \A x \in Bytes : \A k \in Nat :
           Len(v) = n /\ x # <<>> /\ ChainBytes(t, v) = p \o x /\ k >= Len(p) =>
             DecEntries(t, k, p) = Err
<1> DEFINE Good(m) ==
             \A v \in Seq(t.values) : \A p \in Bytes : \A x \in Bytes : \A k \in Nat :
               Len(v) = m /\ x # <<>> /\ ChainBytes(t, v) = p \o x /\ k >= Len(p) =>
                 DecEntries(t, k, p) = Err
           M == {m \in Nat : Good(m)}
<1>0. ASSUME NEW p \in Bytes, NEW k \in Nat, DecU32(p) = Err
      PROVE  DecEntries(t, k, p) = Err
  <2>1. Bool.dec[p] = Err
    BY <1>0, BoolReads
  <2>2. EntriesFirst(t, k, p)
    BY EntriesAll
  <2> QED
    BY <2>1, <2>2, ErrFields DEF EntriesFirst
<1>1. Good(0)
  <2> SUFFICES ASSUME NEW v \in Seq(t.values), NEW p \in Bytes, NEW x \in Bytes, NEW k \in Nat,
                      Len(v) = 0, x # <<>>, ChainBytes(t, v) = p \o x
               PROVE  DecEntries(t, k, p) = Err
    OBVIOUS
  <2>1. v = <<>>
    BY EmptySeq
  <2>2. Word(0) \in Bytes
    BY WordType
  <2>3. Word(0) = p \o x
    BY <2>1, <2>2, EncNothing, BytesEmpty DEF ChainBytes
  <2>4. DecU32(p) = Err
    <3>1. 0 \in Nat
      OBVIOUS
    <3> QED
      BY <2>3, <3>1, CutWord, Zenon
  <2> QED
    BY <2>4, <1>0
<1>2. ASSUME NEW m \in Nat, Good(m)
      PROVE  Good(m + 1)
  <2> SUFFICES ASSUME NEW v \in Seq(t.values), NEW p \in Bytes, NEW x \in Bytes, NEW k \in Nat,
                      Len(v) = m + 1, x # <<>>, ChainBytes(t, v) = p \o x, k >= Len(p)
               PROVE  DecEntries(t, k, p) = Err
    OBVIOUS
  <2>h. PICK h \in t.values : \E w \in Seq(t.values) : ChainSplit(t, m, v, h, w)
    BY ChainHead, Zenon
  <2>w. PICK w \in Seq(t.values) : ChainSplit(t, m, v, h, w)
    BY <2>h
  <2>1. /\ v = <<h>> \o w
        /\ Len(w) = m
        /\ ChainBytes(t, v) = Word(1) \o (t.enc[h] \o ChainBytes(t, w))
        /\ ChainBytes(t, w) \in Bytes
    BY <2>w DEF ChainSplit
  <2> DEFINE a == t.enc[h]
             c == ChainBytes(t, w)
             e == a \o c
  <2>2. a \in Bytes /\ c \in Bytes /\ Word(1) \in Bytes /\ Len(Word(1)) = 4 /\ 1 \in Words
    BY <2>1, WordType, BoolWords DEF ItemCodec
  <2>3. e \in Bytes /\ Word(1) \o e = p \o x
    BY <2>1, <2>2, BytesConcat
  <2>4. WordOrNone(1, e, p, x)
    BY <2>2, <2>3, WordCut, Zenon
  <2>5. CASE DecU32(p) = Err
    BY <2>5, <1>0
  <2>6. CASE \E q \in Bytes : DecU32(p) = Ok(1, q) /\ e = q \o x
    <3>1. PICK q \in Bytes : DecU32(p) = Ok(1, q) /\ e = q \o x
      BY <2>6
    <3>2. CutWithin(Bytes, a, c, q, x)
      BY <2>2, <3>1, BytesCut, Zenon
    <3>3. CASE \E y \in Bytes : y # <<>> /\ a = q \o y
      <4>1. t.dec[q] = Err
        BY <3>3 DEF ItemCodec
      <4>2. t.dec[q].out # "ok"
        BY <4>1, ErrFields
      <4> QED
        BY <3>1, <4>1, <4>2, EntryNext
    <3>4. CASE \E s \in Bytes : q = a \o s /\ c = s \o x
      <4>1. PICK s \in Bytes : q = a \o s /\ c = s \o x
        BY <3>4
      <4>2. t.dec[q] = Ok(h, s)
        BY <4>1 DEF ItemCodec
      <4>3. t.dec[q].out = "ok" /\ t.dec[q].rest = s
        BY <4>2, OkFields
      <4>4. k # 0 /\ k - 1 \in Nat /\ k - 1 >= Len(s)
        <5>1. Len(q) = Len(a) + Len(s) /\ Len(a) \in Nat /\ Len(s) \in Nat
          BY <2>2, <4>1, BytesConcat
        <5>2. Len(p) >= 4 /\ q = From(p, 4) /\ Len(p) \in Nat
          <6>1. DecU32(p).out = "ok" /\ DecU32(p).rest = q
            BY <3>1, OkFields
          <6> QED
            BY <6>1, DecU32Any
        <5>3. Len(q) = Len(p) - 4
          <6>1. 4 \in 0 .. Len(p)
            BY <5>2
          <6> QED
            BY <6>1, <5>2, FromProperties DEF Bytes
        <5> DEFINE i == Len(a)
                   j == Len(s)
                   l == Len(p)
        <5>4. i \in Nat /\ j \in Nat /\ l \in Nat /\ l - 4 = i + j /\ k >= l
          BY <5>1, <5>2, <5>3
        <5> HIDE DEF i, j, l
        <5>5. k # 0 /\ k - 1 \in Nat /\ k - 1 >= j
          BY <5>4
        <5> QED
          BY <5>5 DEF j
      <4>5. DecEntries(t, k - 1, s) = Err
        BY <2>1, <4>1, <4>4, <1>2
      <4> HIDE DEF a, c, e, Good
      <4>6. DecEntries(t, k, p) = Prepend(t.dec[q], DecEntries(t, k - 1, t.dec[q].rest))
        BY <3>1, <4>3, <4>4, EntryNext
      <4> QED
        BY <4>3, <4>5, <4>6, PrependErr
    <3> QED
      BY <3>2, <3>3, <3>4 DEF CutWithin
  <2> QED
    BY <2>4, <2>5, <2>6 DEF WordOrNone
<1>3. Nat \subseteq M
  <2>1. 0 \in M
    BY <1>1
  <2>2. ASSUME NEW m \in Nat, m \in M
        PROVE  m + 1 \in M
    <3>1. m + 1 \in Nat
      OBVIOUS
    <3>2. Good(m + 1)
      BY <2>2, <1>2
    <3> HIDE DEF Good
    <3> QED
      BY <3>1, <3>2
  <2> HIDE DEF M
  <2> QED
    BY <2>1, <2>2, SetInduction
<1> QED
  BY <1>3

\* A chain panics only if an entry does.
LEMMA EntriesSettle ==
  ASSUME NEW t, Quiet(t), NEW n \in Nat
  PROVE  \A b \in Bytes : Settles(DecEntries(t, n, b), b)
<1> DEFINE M == {m \in Nat : \A b \in Bytes : Settles(DecEntries(t, m, b), b)}
<1>0. ASSUME NEW b \in Bytes
      PROVE  LET more == Bool.dec[b]
                 entry == t.dec[more.rest]
             IN  /\ Settles(more, b)
                 /\ more.out = "ok" => Settles(Ok(<<>>, more.rest), b) /\ Settles(entry, b)
                 /\ entry.rest \in Bytes
                 /\ more.out = "ok" /\ entry.out = "ok" => EndOf(entry.rest, b)
  <2> DEFINE more == Bool.dec[b]
             entry == t.dec[more.rest]
  <2>1. Settles(more, b)
    BY BoolCodec DEF Quiet
  <2>2. more.rest \in Bytes /\ (more.out = "ok" => EndOf(more.rest, b))
    BY <2>1 DEF Settles
  <2>3. Settles(entry, more.rest)
    BY <2>2 DEF Quiet
  <2>4. entry.rest \in Bytes
    BY <2>3 DEF Settles
  <2>5. ASSUME more.out = "ok"
        PROVE  Settles(Ok(<<>>, more.rest), b) /\ Settles(entry, b)
    BY <2>2, <2>3, <2>5, OkSettles, EndSettles
  <2>6. more.out = "ok" /\ entry.out = "ok" => EndOf(entry.rest, b)
    BY <2>5 DEF Settles
  <2> QED
    BY <2>1, <2>4, <2>5, <2>6
<1>1. 0 \in M
  <2>1. ASSUME NEW b \in Bytes
        PROVE  Settles(DecEntries(t, 0, b), b)
    <3>1. EntriesFirst(t, 0, b)
      BY DecEntriesNone
    <3> QED
      BY <3>1, <1>0 DEF EntriesFirst
  <2> QED
    BY <2>1
<1>2. ASSUME NEW m \in Nat, m \in M
      PROVE  m + 1 \in M
  <2>1. ASSUME NEW b \in Bytes
        PROVE  Settles(DecEntries(t, m + 1, b), b)
    <3>1. m + 1 \in Nat /\ (m + 1) - 1 = m /\ m + 1 # 0
      OBVIOUS
    <3> DEFINE more == Bool.dec[b]
               entry == t.dec[more.rest]
               others == DecEntries(t, m, entry.rest)
    <3>2. EntriesFirst(t, m + 1, b)
      BY <3>1, EntriesAll, Zenon
    <3>3. /\ Settles(more, b)
          /\ more.out = "ok" => Settles(Ok(<<>>, more.rest), b) /\ Settles(entry, b)
          /\ entry.rest \in Bytes
          /\ more.out = "ok" /\ entry.out = "ok" => EndOf(entry.rest, b)
      BY <1>0
    <3>4. Settles(others, entry.rest)
      BY <1>2, <3>3
    <3>5. ASSUME more.out = "ok", entry.out = "ok"
          PROVE  Settles(Prepend(entry, others), b)
      <4>1. Settles(others, b)
        BY <3>3, <3>4, <3>5, EndSettles
      <4> QED
        BY <4>1, PrependSettles, Zenon
    <3>6. others = DecEntries(t, (m + 1) - 1, entry.rest)
      BY <3>1, Zenon
    <3> HIDE DEF others
    <3> QED
      BY <3>1, <3>2, <3>3, <3>5, <3>6 DEF EntriesFirst
  <2>2. m + 1 \in Nat
    OBVIOUS
  <2> QED
    BY <2>1, <2>2
<1>3. Nat \subseteq M
  <2> HIDE DEF M
  <2> QED
    BY <1>1, <1>2, SetInduction
<1> QED
  BY <1>3

\* A chain of any length is read back when its entries are, refused when cut,
\* and panics only if an entry does (the entries of READDIR).
THEOREM ChainCodec ==
  ASSUME NEW t, Codec(t, FALSE), Quiet(t)
  PROVE  Codec(Chain(t), FALSE) /\ Quiet(Chain(t))
<1> DEFINE u == Chain(t)
<1>i. ItemCodec(t)
  BY ItemCodecIs
<1>0. /\ \A v \in u.values : v \in Seq(t.values) /\ Len(v) \in Nat
      /\ \A v \in u.values : u.enc[v] = ChainBytes(t, v)
      /\ \A b \in Bytes : u.dec[b] = DecEntries(t, Len(b), b)
  <2>1. /\ u.values = Seq(t.values)
        /\ \A v \in Seq(t.values) : u.enc[v] = ChainBytes(t, v)
        /\ \A b \in Bytes : u.dec[b] = DecEntries(t, Len(b), b)
    BY ChainIs, Zenon
  <2>2. \A v \in Seq(t.values) : Len(v) \in Nat
    OBVIOUS
  <2> HIDE DEF u
  <2> QED
    BY <2>1, <2>2, Zenon
<1> HIDE DEF u
<1>1. ASSUME NEW v \in u.values
      PROVE  /\ ChainBytes(t, v) \in Bytes
             /\ Len(ChainBytes(t, v)) >= Len(v)
             /\ \A r \in Bytes : \A k \in Nat : k >= Len(v) =>
                  DecEntries(t, k, ChainBytes(t, v) \o r) = Ok(v, r)
  <2>1. v \in Seq(t.values) /\ Len(v) \in Nat /\ <<>> \in Bytes
    BY <1>0, BytesEmpty
  <2>2. \A z \in Seq(t.values) : \A r \in Bytes : Len(z) = Len(v) =>
          /\ ChainBytes(t, z) \in Bytes
          /\ Len(ChainBytes(t, z)) >= Len(v)
          /\ \A k \in Nat : k >= Len(v) => DecEntries(t, k, ChainBytes(t, z) \o r) = Ok(z, r)
    BY <1>i, <2>1, ChainReadsBack
  <2> QED
    BY <2>1, <2>2
<1>2. Encodes(u)
  BY <1>0, <1>1 DEF Encodes
<1>3. ReadsBack(u, FALSE)
  <2> SUFFICES ASSUME NEW v \in u.values, NEW r \in Bytes
               PROVE  u.dec[u.enc[v] \o r] = Ok(v, r)
    BY DEF ReadsBack
  <2> DEFINE a == ChainBytes(t, v)
  <2>1. a \in Bytes /\ u.enc[v] = a /\ Len(a) >= Len(v) /\ Len(v) \in Nat
    BY <1>0, <1>1
  <2>2. a \o r \in Bytes /\ Len(a) <= Len(a \o r)
    BY <2>1, Taken
  <2>3. Len(a) \in Nat /\ Len(a \o r) \in Nat
    BY <2>1, <2>2 DEF Bytes
  <2>4. Len(a \o r) >= Len(v)
    <3> DEFINE x == Len(a)
               y == Len(a \o r)
               z == Len(v)
    <3>1. x \in Nat /\ y \in Nat /\ z \in Nat /\ x >= z /\ x <= y
      BY <2>1, <2>2, <2>3
    <3> HIDE DEF x, y, z
    <3>2. y >= z
      BY <3>1
    <3> QED
      BY <3>2 DEF y, z
  <2>5. DecEntries(t, Len(a \o r), a \o r) = Ok(v, r)
    BY <2>3, <2>4, <1>1
  <2> QED
    BY <2>1, <2>2, <2>5, <1>0
<1>4. RefusesCuts(u)
  <2> SUFFICES ASSUME NEW v \in u.values, NEW p \in Bytes, NEW x \in Bytes,
                      x # <<>>, u.enc[v] = p \o x
               PROVE  u.dec[p] = Err
    BY DEF RefusesCuts
  <2>1. v \in Seq(t.values) /\ Len(v) \in Nat /\ ChainBytes(t, v) = p \o x
    BY <1>0
  <2>2. \A z \in Seq(t.values) : \A q \in Bytes : \A y \in Bytes : \A k \in Nat :
          Len(z) = Len(v) /\ y # <<>> /\ ChainBytes(t, z) = q \o y /\ k >= Len(q) =>
            DecEntries(t, k, q) = Err
    BY <1>i, <2>1, ChainRefusesCuts
  <2>3. Len(p) \in Nat /\ Len(p) >= Len(p)
    BY DEF Bytes
  <2>4. DecEntries(t, Len(p), p) = Err
    BY <2>1, <2>2, <2>3
  <2> QED
    BY <2>4, <1>0
<1>5. Quiet(u)
  <2> SUFFICES ASSUME NEW b \in Bytes
               PROVE  Settles(u.dec[b], b)
    BY DEF Quiet
  <2>1. Len(b) \in Nat
    BY DEF Bytes
  <2>2. Settles(DecEntries(t, Len(b), b), b)
    BY <2>1, EntriesSettle
  <2> QED
    BY <2>2, <1>0
<1>6. Codec(u, FALSE) /\ Quiet(u)
  BY <1>2, <1>3, <1>4, <1>5 DEF Codec
<1> QED
  BY <1>6 DEF u

-----------------------------------------------------------------------------
(* The body and the authenticators of a call. *)

\* The layout of the rest of a message.
LEMMA BodyIs ==
  ASSUME NEW t
  PROVE  /\ Body(t).values = t.values
         /\ Body(t).enc = t.enc
         /\ \A b \in Bytes : Body(t).dec[b] = DecBody(t, b)
<1>1. Body(t).values = t.values /\ Body(t).enc = t.enc
  BY DEF Body
<1>2. Body(t).dec = [b \in Bytes |-> DecBody(t, b)]
  BY DEF Body
<1> QED
  BY <1>1, <1>2

\* The rest of a message is read back, and swallows what follows.
LEMMA BodyCodec ==
  ASSUME NEW t, NEW last, Codec(t, last)
  PROVE  Codec(Body(t), TRUE)
<1> DEFINE u == Body(t)
<1>0. /\ u.values = t.values /\ u.enc = t.enc
      /\ \A b \in Bytes : u.dec[b] = DecBody(t, b)
  BY BodyIs
<1> HIDE DEF u
<1>1. Encodes(u)
  BY <1>0 DEF Codec, Encodes
<1>2. ReadsBack(u, TRUE)
  <2> SUFFICES ASSUME NEW v \in t.values, NEW r \in Bytes
               PROVE  \E q \in Bytes : u.dec[t.enc[v] \o r] = Ok(v, q)
    BY <1>0 DEF ReadsBack
  <2> DEFINE b == t.enc[v] \o r
  <2>1. b \in Bytes
    BY BytesConcat DEF Codec, Encodes
  <2>2. PICK q \in Bytes : t.dec[b] = Ok(v, q)
    BY DEF Codec, ReadsBack
  <2> HIDE DEF b
  <2>3. DecBody(t, b) = Ok(v, <<>>)
    BY <2>2, OkFields DEF DecBody
  <2>4. u.dec[b] = Ok(v, <<>>)
    BY <2>1, <2>3, <1>0
  <2> QED
    BY <2>4, BytesEmpty DEF b
<1>3. RefusesCuts(u)
  <2> SUFFICES ASSUME NEW v \in t.values, NEW p \in Bytes, NEW x \in Bytes,
                      x # <<>>, t.enc[v] = p \o x
               PROVE  u.dec[p] = Err
    BY <1>0, ZenonT(60) DEF RefusesCuts
  <2>1. t.dec[p] = Err
    BY DEF Codec, RefusesCuts
  <2>2. DecBody(t, p) = Err
    BY <2>1, ErrFields DEF DecBody
  <2> QED
    BY <2>2, <1>0
<1>4. Codec(u, TRUE)
  BY <1>1, <1>2, <1>3 DEF Codec
<1> QED
  BY <1>4 DEF u

\* It panics only if its layout does.
LEMMA BodyQuiet ==
  ASSUME NEW t, Quiet(t)
  PROVE  Quiet(Body(t))
<1> SUFFICES ASSUME NEW b \in Bytes
             PROVE  Settles(Body(t).dec[b], b)
  BY Zenon DEF Quiet
<1>1. Body(t).dec[b] = DecBody(t, b)
  BY BodyIs
<1>2. Settles(t.dec[b], b)
  BY DEF Quiet
<1>3. Settles(Ok(t.dec[b].val, <<>>), b)
  BY OkSettles, BytesEmpty, EndOfBytes
<1>4. Settles(DecBody(t, b), b)
  BY <1>2, <1>3 DEF DecBody
<1> QED
  BY <1>1, <1>4

\* The length before the body of an authenticator may be anything: it is a
\* word of its own.
LEMMA LengthFirst ==
  ASSUME NEW n \in Nat, NEW r \in Bytes
  PROVE  /\ Word(n) \o r \in Bytes
         /\ DecU32(Word(n) \o r).out = "ok"
         /\ DecU32(Word(n) \o r).rest = r
<1>1. Word(n) \in Bytes /\ Len(Word(n)) = 4
  BY WordType
<1> DEFINE w == Word(n)
           b == w \o r
<1>2. b \in Bytes /\ Len(w) <= Len(b) /\ From(b, Len(w)) = r
  BY <1>1, Taken
<1> HIDE DEF b
<1>3. Len(b) \in Nat /\ Len(b) >= 4 /\ From(b, 4) = r
  BY <1>1, <1>2 DEF Bytes
<1>4. DecU32(b) = Ok(Number(b), r)
  BY <1>2, <1>3, DecU32Any
<1> QED
  BY <1>2, <1>4, OkFields DEF b

LengthOrNone(a, p, x) ==
  DecU32(p) = Err \/ \E q \in Bytes : DecU32(p).out = "ok" /\ DecU32(p).rest = q /\ a = q \o x

\* A cut after a length leaves the length, one inside it none.
LEMMA LengthCut ==
  ASSUME NEW n \in Nat, NEW a \in Bytes, NEW p \in Bytes, NEW x \in Bytes,
         x # <<>>, Word(n) \o a = p \o x
  PROVE  LengthOrNone(a, p, x)
<1>1. Word(n) \in Bytes
  BY WordType
<1>2. CASE \E y \in Bytes : y # <<>> /\ Word(n) = p \o y
  BY <1>2, CutWord DEF LengthOrNone
<1>3. CASE \E q \in Bytes : p = Word(n) \o q /\ a = q \o x
  BY <1>3, LengthFirst, ZenonT(60) DEF LengthOrNone
<1>4. CutWithin(Bytes, Word(n), a, p, x)
  BY <1>1, BytesCut, Zenon
<1> QED
  BY <1>2, <1>3, <1>4 DEF CutWithin

\* The layout of an authenticator.
LEMMA AuthIs ==
  ASSUME NEW sys
  PROVE  /\ \A v \in Auth(sys).values :
              v = <<0, <<>>>> \/ \E s \in sys.values : v = <<1, s>>
         /\ Auth(sys).enc[<<0, <<>>>>] = Word(0) \o (Word(0) \o <<>>)
         /\ \A s \in sys.values : Auth(sys).enc[<<1, s>>] =
              Word(1) \o (Word(Len(sys.enc[s])) \o sys.enc[s])
         /\ \A b \in Bytes : Auth(sys).dec[b] = DecAuth(sys, b)
<1> DEFINE values == ({0} \X {<<>>}) \cup ({1} \X sys.values)
           Sized(body) == Word(Len(body)) \o body
<1>1. Auth(sys).values = values
  BY DEF Auth
<1>2. Auth(sys).enc = [v \in values |-> Word(v[1]) \o Sized(IF v[1] = 0 THEN <<>> ELSE sys.enc[v[2]])]
  BY DEF Auth
<1>3. Auth(sys).dec = [b \in Bytes |-> DecAuth(sys, b)]
  BY DEF Auth
<1>4. \A v \in values : v = <<0, <<>>>> \/ \E s \in sys.values : v = <<1, s>>
  OBVIOUS
<1>5. Auth(sys).enc[<<0, <<>>>>] = Word(0) \o Sized(<<>>)
  <2>1. <<0, <<>>>> \in values
    OBVIOUS
  <2> HIDE DEF values, Sized
  <2> QED
    BY <1>2, <2>1
<1>6. ASSUME NEW s \in sys.values
      PROVE  Auth(sys).enc[<<1, s>>] = Word(1) \o Sized(sys.enc[s])
  <2>1. <<1, s>> \in values
    OBVIOUS
  <2> HIDE DEF values, Sized
  <2> QED
    BY <1>2, <2>1
<1>7. Sized(<<>>) = Word(0) \o <<>>
  OBVIOUS
<1> QED
  BY <1>1, <1>3, <1>4, <1>5, <1>6, <1>7

\* An authenticator is read back and never cut.
LEMMA AuthCodec ==
  ASSUME NEW sys, Codec(sys, FALSE)
  PROVE  Codec(Auth(sys), FALSE)
<1> DEFINE u == Auth(sys)
           none == <<0, <<>>>>
           Sized(s) == Word(Len(sys.enc[s])) \o sys.enc[s]
<1>i. ItemCodec(sys)
  BY ItemCodecIs
<1>w. Word(0) \in Bytes /\ Word(1) \in Bytes /\ 0 \in Words /\ 1 \in Words
  BY WordType, BoolWords
<1>0. /\ \A v \in u.values : v = none \/ \E s \in sys.values : v = <<1, s>>
      /\ u.enc[none] = Word(0) \o Word(0)
      /\ \A s \in sys.values : u.enc[<<1, s>>] = Word(1) \o Sized(s)
      /\ \A b \in Bytes : u.dec[b] = DecAuth(sys, b)
  <2>1. Word(0) \o <<>> = Word(0)
    BY <1>w, BytesEmpty
  <2> QED
    BY <2>1, AuthIs
<1>1. ASSUME NEW s \in sys.values
      PROVE  /\ sys.enc[s] \in Bytes
             /\ Len(sys.enc[s]) \in Nat
             /\ Sized(s) \in Bytes
  <2>1. sys.enc[s] \in Bytes /\ Len(sys.enc[s]) \in Nat
    BY <1>i DEF ItemCodec, Bytes
  <2>2. Word(Len(sys.enc[s])) \in Bytes
    BY <2>1, WordType
  <2> QED
    BY <2>1, <2>2, BytesConcat
<1> HIDE DEF u, none, Sized
<1>2. Encodes(u)
  <2> SUFFICES ASSUME NEW v \in u.values
               PROVE  u.enc[v] \in Bytes
    BY DEF Encodes
  <2>1. CASE v = none
    BY <2>1, <1>0, <1>w, BytesConcat
  <2>2. CASE \E s \in sys.values : v = <<1, s>>
    <3>1. PICK s \in sys.values : v = <<1, s>>
      BY <2>2
    <3>2. Word(1) \in Bytes /\ Sized(s) \in Bytes /\ u.enc[v] = Word(1) \o Sized(s)
      BY <3>1, <1>0, <1>1, <1>w
    <3> QED
      BY <3>2, BytesConcat
  <2> QED
    BY <2>1, <2>2, <1>0
<1>3. ReadsBack(u, FALSE)
  <2> SUFFICES ASSUME NEW v \in u.values, NEW r \in Bytes
               PROVE  u.dec[u.enc[v] \o r] = Ok(v, r)
    BY DEF ReadsBack
  <2>0. u.enc[v] \o r \in Bytes
    BY <1>2, BytesConcat DEF Encodes
  <2>1. CASE v = none
    <3> DEFINE b == (Word(0) \o Word(0)) \o r
               c == Word(0) \o r
    <3>1. b = u.enc[v] \o r /\ b \in Bytes
      BY <2>0, <2>1, <1>0
    <3>2. DecU32(b) = Ok(0, c) /\ DecU32(c) = Ok(0, r)
      BY <1>w, WordFirst, DecWord
    <3>3. From(r, 0) = r /\ Len(r) \in Nat /\ 0 <= Len(r)
      <4>1. From(<<>> \o r, Len(<<>>)) = r /\ <<>> \o r = r /\ Len(<<>>) = 0
        BY Taken, BytesEmpty
      <4>2. Len(r) \in Nat
        BY DEF Bytes
      <4> QED
        BY <4>1, <4>2
    <3> HIDE DEF b, c
    <3>4. DecAuth(sys, b) = Ok(<<0, <<>>>>, r)
      BY <3>2, <3>3, OkFields DEF DecAuth
    <3> QED
      BY <2>1, <3>1, <3>4, <1>0 DEF none
  <2>2. CASE \E s \in sys.values : v = <<1, s>>
    <3>1. PICK s \in sys.values : v = <<1, s>>
      BY <2>2
    <3> DEFINE a == sys.enc[s]
               n == Len(a)
               d == a \o r
               c == Word(n) \o d
               b == (Word(1) \o Sized(s)) \o r
    <3>2. /\ a \in Bytes /\ n \in Nat /\ Sized(s) \in Bytes /\ d \in Bytes
          /\ Word(n) \in Bytes
      BY <1>1, BytesConcat, WordType
    <3>3. b = u.enc[v] \o r /\ b \in Bytes
      BY <2>0, <3>1, <1>0
    <3>4. Sized(s) \o r = c
      BY <3>2, BytesAssoc, ZenonT(60) DEF Sized
    <3>5. DecU32(b) = Ok(1, c)
      <4>1. DecU32(b) = Ok(1, Sized(s) \o r)
        BY <3>2, <1>w, WordFirst, Zenon
      <4> QED
        BY <3>4, <4>1, Zenon
    <3>6. DecU32(c).out = "ok" /\ DecU32(c).rest = d
      BY <3>2, LengthFirst
    <3>7. sys.dec[d] = Ok(s, r)
      BY <1>i DEF ItemCodec
    <3> HIDE DEF a, n, b, c, d
    <3>8. DecAuth(sys, b) = After(Ok(1, c), Ok(s, r))
      BY <3>5, <3>6, <3>7, OkFields DEF DecAuth
    <3>9. DecAuth(sys, b) = Ok(v, r)
      BY <3>1, <3>8, AfterOk
    <3> QED
      BY <3>3, <3>9, <1>0
  <2> QED
    BY <2>1, <2>2, <1>0
<1>4. RefusesCuts(u)
  <2> SUFFICES ASSUME NEW v \in u.values, NEW p \in Bytes, NEW x \in Bytes,
                      x # <<>>, u.enc[v] = p \o x
               PROVE  DecAuth(sys, p) = Err
    BY <1>0 DEF RefusesCuts
  <2>0. ASSUME DecU32(p) = Err
        PROVE  DecAuth(sys, p) = Err
    BY <2>0, ErrFields DEF DecAuth
  <2>1. CASE v = none
    <3>1. Word(0) \o Word(0) = p \o x
      BY <2>1, <1>0
    <3>2. WordOrNone(0, Word(0), p, x)
      BY <3>1, <1>w, WordCut, Zenon
    <3>3. CASE \E q \in Bytes : DecU32(p) = Ok(0, q) /\ Word(0) = q \o x
      <4>1. PICK q \in Bytes : DecU32(p) = Ok(0, q) /\ Word(0) = q \o x
        BY <3>3
      <4>2. DecU32(q) = Err
        <5>1. 0 \in Nat
          OBVIOUS
        <5> QED
          BY <4>1, <5>1, CutWord, Zenon
      <4> QED
        BY <4>1, <4>2, OkFields, ErrFields DEF DecAuth
    <3> QED
      BY <2>0, <3>2, <3>3 DEF WordOrNone
  <2>2. CASE \E s \in sys.values : v = <<1, s>>
    <3>1. PICK s \in sys.values : v = <<1, s>>
      BY <2>2
    <3> DEFINE a == sys.enc[s]
               n == Len(a)
               c == Sized(s)
    <3>2. a \in Bytes /\ n \in Nat /\ c \in Bytes /\ Word(1) \o c = p \o x
      BY <3>1, <1>0, <1>1
    <3>3. WordOrNone(1, c, p, x)
      BY <3>2, <1>w, WordCut, Zenon
    <3>4. CASE \E q \in Bytes : DecU32(p) = Ok(1, q) /\ c = q \o x
      <4>1. PICK q \in Bytes : DecU32(p) = Ok(1, q) /\ c = q \o x
        BY <3>4
      <4>2. Word(n) \o a = q \o x
        BY <4>1 DEF Sized
      <4>3. LengthOrNone(a, q, x)
        BY <3>2, <4>2, LengthCut, Zenon
      <4>4. CASE DecU32(q) = Err
        BY <4>1, <4>4, OkFields, ErrFields DEF DecAuth
      <4>5. CASE \E d \in Bytes : DecU32(q).out = "ok" /\ DecU32(q).rest = d /\ a = d \o x
        <5>1. PICK d \in Bytes : DecU32(q).out = "ok" /\ DecU32(q).rest = d /\ a = d \o x
          BY <4>5
        <5>2. sys.dec[d] = Err
          BY <5>1, <1>i DEF ItemCodec
        <5>3. DecAuth(sys, p) = After(Ok(1, q), Err)
          BY <4>1, <5>1, <5>2, OkFields DEF DecAuth
        <5> QED
          BY <5>3, AfterErr
      <4> QED
        BY <4>3, <4>4, <4>5 DEF LengthOrNone
    <3> QED
      BY <2>0, <3>3, <3>4 DEF WordOrNone
  <2> QED
    BY <2>1, <2>2, <1>0
<1>5. Codec(u, FALSE)
  BY <1>2, <1>3, <1>4 DEF Codec
<1> QED
  BY <1>5 DEF u

\* AUTH_NONE is followed by a length beyond the end.
PastEnd(b) ==
  Len(b) >= 8 /\ SubSeq(b, 1, 4) = Word(0) /\ Number(From(b, 4)) > Len(b) - 8

\* That is a panic, and the only one.
AuthEnds(r, b) == (r.out = "panic" /\ PastEnd(b)) \/ Settles(r, b)

\* Only four zeros read as zero.
LEMMA ZeroWord ==
  ASSUME NEW b \in Bytes, Len(b) >= 4, Number(b) = 0
  PROVE  SubSeq(b, 1, 4) = Word(0)
<1>1. Word(0) = <<0, 0, 0, 0>>
  BY SMT DEF Word
<1>2. b[1] \in 0 .. 255 /\ b[2] \in 0 .. 255 /\ b[3] \in 0 .. 255 /\ b[4] \in 0 .. 255
  <2>1. 1 \in 1 .. Len(b) /\ 2 \in 1 .. Len(b) /\ 3 \in 1 .. Len(b) /\ 4 \in 1 .. Len(b)
    BY DEF Bytes
  <2>2. b \in Seq(0 .. 255)
    BY DEF Bytes
  <2> QED
    BY <2>1, <2>2, ElementOfSeq, SMTT(60)
<1>3. b[1] = 0 /\ b[2] = 0 /\ b[3] = 0 /\ b[4] = 0
  <2> DEFINE w == b[1]
             x == b[2]
             y == b[3]
             z == b[4]
  <2>n. Number(b) = ((w * 256 + x) * 256 + y) * 256 + z /\ Number(b) = 0
    BY DEF Number
  <2>m. \A n \in 0 .. 255 : n \in Nat
    OBVIOUS
  <2>1. w \in Nat /\ x \in Nat /\ y \in Nat /\ z \in Nat
    BY <1>2, <2>m, ZenonT(60)
  <2> HIDE DEF w, x, y, z
  <2>2. w = 0 /\ x = 0 /\ y = 0 /\ z = 0
    BY <2>n, <2>1
  <2> QED
    BY <2>2 DEF w, x, y, z
<1>4. /\ SubSeq(b, 1, 4) \in Seq(0 .. 255)
      /\ Len(SubSeq(b, 1, 4)) = 4
      /\ \A i \in 1 .. 4 : SubSeq(b, 1, 4)[i] = b[i]
  <2>1. Len(b) \in Nat /\ b \in Seq(0 .. 255)
    BY DEF Bytes
  <2>2. \A i \in 1 .. 4 : b[i] \in 0 .. 255
    <3> SUFFICES ASSUME NEW i \in 1 .. 4
                 PROVE  b[i] \in 0 .. 255
      OBVIOUS
    <3>1. i \in 1 .. Len(b)
      BY <2>1
    <3> QED
      BY <2>1, <3>1, ElementOfSeq
  <2>3. /\ SubSeq(b, 1, 4) \in Seq(0 .. 255)
        /\ Len(SubSeq(b, 1, 4)) = IF 1 <= 4 THEN 4 - 1 + 1 ELSE 0
        /\ \A i \in 1 .. 4 - 1 + 1 : SubSeq(b, 1, 4)[i] = b[1 + i - 1]
    BY <2>1, <2>2, SubSeqProperties
  <2> QED
    BY <2>3
<1> DEFINE c == SubSeq(b, 1, 4)
<1>5. c[1] = 0 /\ c[2] = 0 /\ c[3] = 0 /\ c[4] = 0
  <2> HIDE DEF c
  <2>1. \A i \in 1 .. 4 : c[i] = b[i]
    BY <1>4 DEF c
  <2> QED
    BY <2>1, <1>3
<1>6. c \in Seq(0 .. 255) /\ Len(c) = 4
  BY <1>4
<1> HIDE DEF c
<1>7. c = <<0, 0, 0, 0>>
  BY <1>5, <1>6
<1> QED
  BY <1>1, <1>7 DEF c

\* Decoding an authenticator panics on one thing only: AUTH_NONE with a length
\* beyond the end of the bytes (auth.rs).
THEOREM AuthContained ==
  ASSUME NEW sys, Quiet(sys), NEW b \in Bytes
  PROVE  AuthEnds(Auth(sys).dec[b], b)
<1> DEFINE flavor == DecU32(b)
           len == DecU32(flavor.rest)
           c == flavor.rest
           d == len.rest
<1>1. Auth(sys).dec[b] = DecAuth(sys, b)
  BY AuthIs
<1>2. /\ Settles(flavor, b) /\ c \in Bytes
      /\ flavor.out = "ok" =>
           Len(b) >= 4 /\ flavor.val = Number(b) /\ c = From(b, 4) /\ EndOf(c, b)
  BY DecU32Any, WordSettles, OkFields
<1>3. /\ Settles(len, c) /\ d \in Bytes
      /\ len.out = "ok" =>
           /\ Len(c) >= 4 /\ len.val \in Nat /\ len.val = Number(c) /\ d = From(c, 4)
           /\ EndOf(d, c)
  BY <1>2, DecU32Any, WordSettles, OkFields
<1>4. Len(b) \in Nat /\ Len(c) \in Nat /\ Len(d) \in Nat
  BY <1>2, <1>3 DEF Bytes
<1> HIDE DEF c, d, flavor, len
<1>q. ASSUME NEW r, Settles(r, b)
      PROVE  AuthEnds(r, b)
  BY <1>q DEF AuthEnds
<1>r. ASSUME NEW r, flavor.out = "ok", Settles(r, c)
      PROVE  AuthEnds(r, b)
  BY <1>2, <1>r, <1>q, EndSettles
<1>s. ASSUME NEW r, flavor.out = "ok", len.out = "ok", Settles(r, d)
      PROVE  AuthEnds(r, b)
  <2>1. Settles(r, c)
    BY <1>2, <1>3, <1>s, EndSettles
  <2> QED
    BY <1>r, <1>s, <2>1
<1>5. CASE flavor.out # "ok"
  <2>1. DecAuth(sys, b) = flavor
    BY <1>5 DEF DecAuth, flavor
  <2> QED
    BY <1>1, <1>2, <2>1, <1>q
<1>6. CASE flavor.out = "ok" /\ len.out # "ok"
  <2>1. DecAuth(sys, b) = len
    BY <1>6 DEF DecAuth, flavor, len
  <2> QED
    BY <1>1, <1>3, <1>6, <2>1, <1>r
<1>7. CASE flavor.out = "ok" /\ len.out = "ok" /\ flavor.val = 1
  <2>1. DecAuth(sys, b) = After(flavor, sys.dec[d])
    BY <1>7 DEF DecAuth, flavor, len, d
  <2>2. Settles(sys.dec[d], d)
    BY <1>3 DEF Quiet
  <2>3. Settles(After(flavor, sys.dec[d]), d)
    BY <2>2, AfterSettles
  <2> QED
    BY <1>1, <1>7, <2>1, <2>3, <1>s
<1>8. CASE flavor.out = "ok" /\ len.out = "ok" /\ flavor.val # 1 /\ len.val <= Len(d)
  <2>1. DecAuth(sys, b) = Ok(<<0, <<>>>>, From(d, len.val))
    BY <1>8 DEF DecAuth, flavor, len, d
  <2>2. len.val \in 0 .. Len(d)
    BY <1>3, <1>4, <1>8
  <2>3. From(d, len.val) \in Bytes /\ EndOf(From(d, len.val), d)
    BY <1>3, <2>2, EndOfBytes
  <2>4. Settles(Ok(<<0, <<>>>>, From(d, len.val)), d)
    BY <1>3, <2>3, OkSettles
  <2> QED
    BY <1>1, <1>8, <2>1, <2>4, <1>s
<1>9. CASE flavor.out = "ok" /\ len.out = "ok" /\ flavor.val # 1 /\ ~ (len.val <= Len(d))
  <2>1. DecAuth(sys, b) = Stop(IF flavor.val = 0 THEN "panic" ELSE "err")
    BY <1>9 DEF DecAuth, flavor, len, d
  <2>2. CASE flavor.val # 0
    <3>1. DecAuth(sys, b) = Err
      BY <2>1, <2>2 DEF Err
    <3> QED
      BY <1>1, <3>1, <1>q, ErrSettles
  <2>3. CASE flavor.val = 0
    <3>1. DecAuth(sys, b) = Stop("panic")
      BY <2>1, <2>3
    <3>2. DecAuth(sys, b).out = "panic"
      BY <3>1 DEF Stop
    <3>3. Number(b) = 0 /\ Len(b) >= 4 /\ c = From(b, 4) /\ d = From(c, 4)
          /\ Len(c) >= 4 /\ len.val \in Nat /\ len.val = Number(c)
      BY <1>2, <1>3, <1>9, <2>3
    <3>4. SubSeq(b, 1, 4) = Word(0)
      BY <3>3, ZeroWord
    <3>5. Len(c) = Len(b) - 4 /\ Len(d) = Len(c) - 4
      <4>1. 4 \in 0 .. Len(b) /\ 4 \in 0 .. Len(c)
        BY <1>4, <3>3
      <4>2. Len(From(b, 4)) = Len(b) - 4
        BY <4>1, FromProperties DEF Bytes
      <4>3. Len(From(c, 4)) = Len(c) - 4
        BY <4>1, <1>2, FromProperties DEF Bytes
      <4> QED
        BY <3>3, <4>2, <4>3
    <3>6. Len(b) >= 8 /\ len.val > Len(b) - 8
      <4> DEFINE i == Len(b)
                 j == Len(c)
                 k == Len(d)
                 l == len.val
      <4>1. /\ i \in Nat /\ j \in Nat /\ k \in Nat /\ l \in Nat
            /\ j = i - 4 /\ k = j - 4 /\ ~ (l <= k) /\ j >= 4
        BY <1>4, <1>9, <3>3, <3>5
      <4> HIDE DEF i, j, k, l
      <4>2. i >= 8 /\ l > i - 8
        BY <4>1
      <4> QED
        BY <4>2 DEF i, l
    <3> QED
      BY <1>1, <3>2, <3>3, <3>4, <3>6 DEF AuthEnds, PastEnd
  <2> QED
    BY <2>2, <2>3
<1> QED
  BY <1>5, <1>6, <1>7, <1>8, <1>9

-----------------------------------------------------------------------------
(* Layouts of layouts. *)

\* A layout that reads back what it writes and panics on no bytes.
Exact(t) == Codec(t, FALSE) /\ Quiet(t)

\* An enum of this kind with discriminants below n.
ExactBelow(e, n) == EnumCodec(e, FALSE) /\ Quiet(e) /\ e.tags \subseteq 0 .. n - 1

\* The layouts a message is made of, each exact when its parts are.
LEMMA ExactU32 == Exact(U32)
  BY U32Codec DEF Exact

LEMMA ExactVoid == Exact(Void)
  BY VoidCodec DEF Exact

LEMMA ExactBool == Exact(Bool)
  BY BoolCodec DEF Exact

LEMMA ExactFixed ==
  ASSUME NEW n \in Nat
  PROVE  Exact(Fixed(n))
  BY FixedCodec DEF Exact

LEMMA ExactOpaque ==
  ASSUME NEW max \in Words
  PROVE  Exact(Opaque(max))
  BY OpaqueCodec DEF Exact

LEMMA ExactStruct ==
  ASSUME NEW t, NEW u, Exact(t), Exact(u)
  PROVE  Exact(t ** u)
  BY StructCodec, StructQuiet DEF Exact

LEMMA ExactVec ==
  ASSUME NEW t, Exact(t)
  PROVE  Exact(Vec(t))
  BY VecCodec, VecQuiet DEF Exact

LEMMA ExactChain ==
  ASSUME NEW t, Exact(t)
  PROVE  Exact(Chain(t))
  BY ChainCodec DEF Exact

LEMMA ExactU64 == Exact(U64)
  BY ExactU32, ExactStruct DEF U64

LEMMA ExactEnum ==
  ASSUME NEW e, NEW n, ExactBelow(e, n)
  PROVE  Exact(e)
  BY DEF ExactBelow, EnumCodec, Exact

LEMMA ExactArm ==
  ASSUME NEW n \in Words, NEW t, Exact(t)
  PROVE  ExactBelow(Arm({n}, t), n + 1)
<1>1. {n} \in SUBSET Words
  OBVIOUS
<1>2. EnumCodec(Arm({n}, t), FALSE)
  BY <1>1, ArmCodec DEF Exact
<1>3. Quiet(Arm({n}, t))
  BY ArmQuiet DEF Exact
<1>4. Arm({n}, t).tags = {n}
  BY ArmIs
<1>5. {n} \subseteq 0 .. (n + 1) - 1
  BY WordsAre
<1> QED
  BY <1>2, <1>3, <1>4, <1>5 DEF ExactBelow

LEMMA ExactConst ==
  ASSUME NEW n \in Words
  PROVE  Exact(Const(n)) /\ ExactBelow(Const(n), n + 1)
  BY ExactArm, ExactVoid, ExactEnum DEF Const

\* One more operation, of a higher number than those before.
LEMMA ExactJoins ==
  ASSUME NEW e, NEW k \in Nat, NEW n \in Words, NEW t, ExactBelow(e, k), k <= n, Exact(t)
  PROVE  ExactBelow(e ++ Arm({n}, t), n + 1)
<1>1. ExactBelow(Arm({n}, t), n + 1) /\ n \in Nat
  BY ExactArm, WordsAre
<1>2. Arm({n}, t).tags = {n}
  BY ArmIs
<1>3. e.tags \subseteq 0 .. k - 1
  BY DEF ExactBelow
<1>4. e.tags \cap Arm({n}, t).tags = {}
  <2>1. n \notin e.tags
    BY <1>1, <1>3
  <2> QED
    BY <1>2, <2>1
<1>5. EnumCodec(e ++ Arm({n}, t), FALSE)
  BY <1>1, <1>4, EnumJoins DEF ExactBelow
<1>6. Quiet(e ++ Arm({n}, t))
  BY <1>1, EnumQuiet DEF ExactBelow
<1>7. (e ++ Arm({n}, t)).tags = e.tags \cup {n}
  <2>1. (e ++ Arm({n}, t)).tags = e.tags \cup Arm({n}, t).tags
    BY EnumIs
  <2> QED
    BY <1>2, <2>1
<1>8. e.tags \cup {n} \subseteq 0 .. (n + 1) - 1
  BY <1>1, <1>3
<1> QED
  BY <1>5, <1>6, <1>7, <1>8 DEF ExactBelow

\* The values of an authenticator.
LEMMA AuthValues ==
  ASSUME NEW sys
  PROVE  /\ <<0, <<>>>> \in Auth(sys).values
         /\ \A s \in sys.values : <<1, s>> \in Auth(sys).values
<1>1. Auth(sys).values = ({0} \X {<<>>}) \cup ({1} \X sys.values)
  BY DEF Auth
<1> QED
  BY <1>1
=============================================================================
