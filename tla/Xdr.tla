-------------------------------- MODULE Xdr --------------------------------
(***************************************************************************)
(* The XDR codec: the primitives of xdr-codec, and the encoders and        *)
(* decoders xdr-derive generates.                                          *)
(*                                                                         *)
(* A layout stands for a Rust type: its values; enc, what encode appends   *)
(* for each of them; and dec, what decode does with the bytes left: a      *)
(* value and what it left unread, an error, a panic, or the end of the     *)
(* process because there is no memory.  A struct is the pair of the fields *)
(* before the last, and the last; an enum is the pair of its discriminant  *)
(* and payload; a u64 is its two words, high word first.                   *)
(***************************************************************************)
EXTENDS Integers, Sequences, SequencesExt, Fields

CONSTANTS
  MaxWord,  \* the largest u32: 2^32 - 1 in the code
  Room      \* the items of the longest vector there is memory for

ASSUME XdrAssumption ==
  /\ MaxWord \in Nat /\ MaxWord \div 16777216 \in 1 .. 255
  /\ Room \in 4 .. MaxWord

Bytes == Seq(0 .. 255)
Words == {n \in Nat : n <= MaxWord}

-----------------------------------------------------------------------------
\* What a decoder returns.

Ok(v, rest) == [out |-> "ok", val |-> v, rest |-> rest]
Stop(out) == [out |-> out, val |-> <<>>, rest |-> <<>>]
Err == Stop("err")

\* Stopped at b for want of memory.
Abort(b) == [out |-> "abort", val |-> <<>>, rest |-> b]

\* A part, then what r decodes after it: the first that fails ends both.
After(part, r) == IF r.out = "ok" THEN Ok(<<part.val, r.val>>, r.rest) ELSE r

\* An item, then the items r decodes after it.
Prepend(item, r) == IF r.out = "ok" THEN Ok(<<item.val>> \o r.val, r.rest) ELSE r

From(b, n) == SubSeq(b, n + 1, Len(b))

-----------------------------------------------------------------------------
\* Words and opaques

Word(n) == <<(n \div 16777216) % 256, (n \div 65536) % 256, (n \div 256) % 256, n % 256>>

Number(b) == ((b[1] * 256 + b[2]) * 256 + b[3]) * 256 + b[4]

DecU32(b) == IF Len(b) < 4 THEN Err ELSE Ok(Number(b), From(b, 4))

U32 ==
  [kind |-> "u32", values |-> Words,
   enc |-> [v \in Words |-> Word(v)],
   dec |-> [b \in Bytes |-> DecU32(b)]]

\* n bytes, as they are.
Fixed(n) ==
  [kind |-> "fixed", of |-> n, values |-> [1 .. n -> 0 .. 255],
   enc |-> [v \in [1 .. n -> 0 .. 255] |-> v],
   dec |-> [b \in Bytes |-> IF Len(b) < n THEN Err ELSE Ok(SubSeq(b, 1, n), From(b, n))]]

Padding(n) == (4 - (n % 4)) % 4

\* Length, bytes, and zeros up to the next word.
EncOpaque(v) == Word(Len(v)) \o v \o [i \in 1 .. Padding(Len(v)) |-> 0]

\* Mutants: the padding may be missing, or is not skipped; the limit is
\* asserted.
DecOpaqueUnpadded(max, b) ==
  LET len == DecU32(b)
      n == len.val
  IN  IF len.out # "ok" THEN len
      ELSE IF Len(len.rest) < n \/ n > max THEN Err
      ELSE Ok(SubSeq(len.rest, 1, n), From(len.rest, n + Padding(n)))

DecOpaqueKeepsPadding(max, b) ==
  LET len == DecU32(b)
      n == len.val
  IN  IF len.out # "ok" THEN len
      ELSE IF Len(len.rest) < n + Padding(n) \/ n > max THEN Err
      ELSE Ok(SubSeq(len.rest, 1, n), From(len.rest, n))

DecOpaqueAssertsMax(max, b) ==
  LET len == DecU32(b)
      n == len.val
  IN  IF len.out # "ok" THEN len
      ELSE IF n > max THEN Stop("panic")
      ELSE IF Len(len.rest) < n + Padding(n) THEN Err
      ELSE Ok(SubSeq(len.rest, 1, n), From(len.rest, n + Padding(n)))

\* The bytes and their padding must be there.  The limit, of file handles
\* only, is checked last.
DecOpaque(max, b) ==
  LET len == DecU32(b)
      n == len.val
  IN  IF len.out # "ok" THEN len
      ELSE IF Len(len.rest) < n + Padding(n) \/ n > max THEN Err
      ELSE Ok(SubSeq(len.rest, 1, n), From(len.rest, n + Padding(n)))

Opaque(max) ==
  LET values == {v \in Bytes : Len(v) <= max}
  IN  [kind |-> "opaque", values |-> values,
       enc |-> [v \in values |-> EncOpaque(v)],
       dec |-> [b \in Bytes |-> DecOpaque(max, b)]]

-----------------------------------------------------------------------------
\* Structs and enums

Void ==
  [kind |-> "void", values |-> {<<>>},
   enc |-> [v \in {<<>>} |-> <<>>],
   dec |-> [b \in Bytes |-> Ok(<<>>, b)]]

\* One part after another.
DecStruct(t, u, b) ==
  LET part == t.dec[b]
  IN  IF part.out = "ok" THEN After(part, u.dec[part.rest]) ELSE part

\* A struct with the fields of t and the field u.
Struct(t, u) ==
  LET values == t.values \X u.values
  IN  [kind |-> "struct", of |-> <<t, u>>, values |-> values,
       enc |-> [v \in values |-> t.enc[v[1]] \o u.enc[v[2]]],
       dec |-> [b \in Bytes |-> DecStruct(t, u, b)]]

t ** u == Struct(t, u)

U64 == U32 ** U32

\* The variants of an enum with one of these discriminants and this payload.
DecArm(tags, t, b) ==
  LET disc == DecU32(b)
  IN  IF disc.out # "ok" THEN disc
      ELSE IF disc.val \in tags THEN After(disc, t.dec[disc.rest]) ELSE Err

Arm(tags, t) ==
  [kind |-> "arm", of |-> t, tags |-> tags, values |-> tags \X t.values,
   enc |-> [v \in tags \X t.values |-> Word(v[1]) \o t.enc[v[2]]],
   dec |-> [b \in Bytes |-> DecArm(tags, t, b)]]

\* The variants of both of two enums.
EncEither(e, f, v) == IF v[1] \in e.tags THEN e.enc[v] ELSE f.enc[v]

DecEither(e, f, b) ==
  LET disc == DecU32(b)
  IN  IF disc.out = "ok" /\ disc.val \in e.tags THEN e.dec[b] ELSE f.dec[b]

Enum(e, f) ==
  LET values == e.values \cup f.values
  IN  [kind |-> "enum", of |-> <<e, f>>, tags |-> e.tags \cup f.tags, values |-> values,
       enc |-> [v \in values |-> EncEither(e, f, v)],
       dec |-> [b \in Bytes |-> DecEither(e, f, b)]]

e ++ f == Enum(e, f)

Const(n) == Arm({n}, Void)
Bool == Arm({0, 1}, Void)

-----------------------------------------------------------------------------
\* Lists

\* n items of a vector.
DecItems(t, n, b) ==
  LET items[k \in 0 .. n] ==
        [c \in Bytes |->
           IF k = 0 THEN Ok(<<>>, c)
           ELSE LET item == t.dec[c]
                IN  IF item.out = "ok" THEN Prepend(item, items[k - 1][item.rest])
                    ELSE item]
  IN  items[n][b]

\* Room for all the items is reserved before the first is read.  An
\* allocation that fails ends the process; one larger than an isize, as four
\* bytes can ask for on 32 bits, panics.  Both are the outcome "abort", and
\* Room is one number where the code's varies with the size of an item and
\* with what else is allocated.
DecVec(t, b) ==
  LET len == DecU32(b)
  IN  IF len.out # "ok" THEN len
      ELSE IF len.val > Room THEN Abort(b)
      ELSE DecItems(t, len.val, len.rest)

Vec(t) ==
  LET values == {v \in Seq(t.values) : Len(v) <= Room}
  IN  [kind |-> "vec", of |-> t, values |-> values,
       enc |-> [v \in values |->
                  Word(Len(v)) \o FlattenSeq([i \in DOMAIN v |-> t.enc[v[i]]])],
       dec |-> [b \in Bytes |-> DecVec(t, b)]]

\* Entries each preceded by TRUE, closed by FALSE (READDIR), n of them at
\* most: the bytes end before there are more entries than bytes.
DecEntries(t, n, b) ==
  LET entries[k \in 0 .. n] ==
        [c \in Bytes |->
           LET more == Bool.dec[c]
               entry == t.dec[more.rest]
           IN  IF more.out # "ok" THEN more
               ELSE IF more.val[1] = 0 THEN Ok(<<>>, more.rest)
               ELSE IF entry.out # "ok" \/ k = 0 THEN entry
               ELSE Prepend(entry, entries[k - 1][entry.rest])]
  IN  entries[n][b]

Chain(t) ==
  [kind |-> "chain", of |-> t, values |-> Seq(t.values),
   enc |-> [v \in Seq(t.values) |->
              FlattenSeq([i \in DOMAIN v |-> Word(1) \o t.enc[v[i]]]) \o Word(0)],
   dec |-> [b \in Bytes |-> DecEntries(t, Len(b), b)]]

-----------------------------------------------------------------------------
\* RPC

\* The body of AUTH_NONE is skipped without looking whether it is there,
\* that of AUTH_SYS is decoded whatever its length says, and any other
\* flavor's is skipped and taken for none.
DecAuth(sys, b) ==
  LET flavor == DecU32(b)
      len == DecU32(flavor.rest)
  IN  IF flavor.out # "ok" THEN flavor
      ELSE IF len.out # "ok" THEN len
      ELSE IF flavor.val = 1 THEN After(flavor, sys.dec[len.rest])
      ELSE IF len.val <= Len(len.rest) THEN Ok(<<0, <<>>>>, From(len.rest, len.val))
      ELSE Stop(IF flavor.val = 0 THEN "panic" ELSE "err")

\* An authenticator of flavor AUTH_SYS with this body, or AUTH_NONE.
Auth(sys) ==
  LET values == ({0} \X {<<>>}) \cup ({1} \X sys.values)
      Sized(body) == Word(Len(body)) \o body
  IN  [kind |-> "auth", of |-> sys, values |-> values,
       enc |-> [v \in values |->
                  Word(v[1]) \o Sized(IF v[1] = 0 THEN <<>> ELSE sys.enc[v[2]])],
       dec |-> [b \in Bytes |-> DecAuth(sys, b)]]

\* The rest of the message, decoded by the layer above, which does not look
\* at what its own decoder leaves over.
DecBody(t, b) ==
  LET d == t.dec[b] IN IF d.out = "ok" THEN Ok(d.val, <<>>) ELSE d

Body(t) ==
  [kind |-> "body", of |-> t, values |-> t.values, enc |-> t.enc,
   dec |-> [b \in Bytes |-> DecBody(t, b)]]
=============================================================================
