----------------------------- MODULE MCNfsWire -----------------------------
(* Instances of NfsWire for TLC. *)
EXTENDS NfsWire

\* A few values of every layout, such that each value of each part occurs.

Cycle(s, k) == s[((k - 1) % Len(s)) + 1]

RECURSIVE Samples(_)
Samples(t) ==
  CASE t.kind = "u32" -> <<0, 1, 258>>
    [] t.kind = "fixed" -> <<[i \in 1 .. t.of |-> i], [i \in 1 .. t.of |-> 0]>>
    [] t.kind = "opaque" -> <<<<>>, <<7>>, <<1, 2, 3, 4>>, <<0, 0, 0, 1, 5>>>>
    [] t.kind = "void" -> <<<<>>>>
    [] t.kind = "struct" ->
         LET s == Samples(t.of[1])
             u == Samples(t.of[2])
         IN  [k \in 1 .. Max({Len(s), Len(u)}) |-> Cycle(s, k) & Cycle(u, k)]
    [] t.kind = "arm" ->
         LET s == Samples(t.of)
             tags == SetToSeq(t.tags)
         IN  FlattenSeq([i \in DOMAIN tags |-> [k \in DOMAIN s |-> <<tags[i], s[k]>>]])
    [] t.kind = "enum" -> Samples(t.of[1]) \o Samples(t.of[2])
    [] t.kind = "vec" ->
         LET s == Samples(t.of)
         IN  <<<<>>>> \o [i \in DOMAIN s |-> <<s[i]>>]
               \o [i \in 1 .. Len(s) - 1 |-> <<s[i], s[i + 1]>>]
    [] t.kind = "chain" ->
         LET s == Samples(t.of) IN <<<<>>, <<s[1]>>, s>>
    [] t.kind = "auth" ->
         LET s == Samples(t.of)
         IN  <<AuthNone>> \o [i \in DOMAIN s |-> <<1, s[i]>>]
    [] t.kind = "body" -> Samples(t.of)

MCCallValues == Range(Samples(RpcCall))
MCReplyValues == Range(Samples(RpcReply))
MCPaths == {<<>>, <<Name, <<7>>>>}
MCTrailing == <<0, 0, 0, 1, 0, 0, 0>>
=============================================================================
