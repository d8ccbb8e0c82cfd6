------------------------------ MODULE FreshMap ------------------------------
(***************************************************************************)
(* What a cache with a time to live promises: a key has the value that was *)
(* last stored for it, for less than the key's Ttl since then, unless it   *)
(* was forgotten; whatever is forgotten or too old does not come back      *)
(* until it is stored again.                                               *)
(***************************************************************************)
EXTENDS Integers

CONSTANTS Keys, Values, Ttl  \* Ttl \in [Keys -> Nat]

VARIABLE fresh  \* per key: Absent, or the value and the time since its store

Absent == [age |-> -1]
Aged(k) == [value : Values, age : 0 .. Ttl[k] - 1]

Init == fresh = [k \in Keys |-> Absent]

Stored(k, v) == IF Ttl[k] > 0 THEN [value |-> v, age |-> 0] ELSE Absent

Store(k, v) == fresh' = [fresh EXCEPT ![k] = Stored(k, v)]

Forget(S) == fresh' = [k \in Keys |-> IF k \in S THEN Absent ELSE fresh[k]]

Older(k) ==
  IF fresh[k] # Absent /\ fresh[k].age + 1 < Ttl[k]
  THEN [fresh[k] EXCEPT !.age = @ + 1]
  ELSE Absent

Tick == fresh' = [k \in Keys |-> Older(k)]

Next ==
  \/ \E k \in Keys, v \in Values : Store(k, v)
  \/ \E S \in SUBSET Keys : Forget(S)
  \/ Tick

Spec == Init /\ [][Next]_fresh
=============================================================================
