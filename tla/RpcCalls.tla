------------------------------ MODULE RpcCalls ------------------------------
(***************************************************************************)
(* What an RPC transport promises its callers (RpcTransport, transport.rs):*)
(* each call carries one request, the server executes it at most once, and *)
(* a call that returns Ok returns the reply to its own request, executed.  *)
(* A call that fails or is dropped says nothing: its request may have been *)
(* executed, may be executed later, or never is.  These are the outcomes   *)
(* SessionSlots and NfsClient give a COMPOUND.                             *)
(***************************************************************************)
EXTENDS Integers

CONSTANTS Callers, MaxCalls

VARIABLES
  made,      \* calls made; a call is known by its number
  current,   \* per caller: the call it waits for, or 0
  executed,  \* calls whose request the server has executed
  result     \* per caller: what its last call returned

vars == <<made, current, executed, result>>

Nothing == [is |-> "none"]

Init ==
  /\ made = 0 /\ executed = {}
  /\ current = [c \in Callers |-> 0]
  /\ result = [c \in Callers |-> Nothing]

Call(c) ==
  /\ current[c] = 0
  /\ made < MaxCalls /\ made' = made + 1
  /\ current' = [current EXCEPT ![c] = made']
  /\ result' = [result EXCEPT ![c] = Nothing]
  /\ UNCHANGED executed

Execute(id) ==
  /\ id \in 1 .. made \ executed
  /\ executed' = executed \cup {id}
  /\ UNCHANGED <<made, current, result>>

Return(c, r) ==
  /\ current[c] # 0
  /\ result' = [result EXCEPT ![c] = r]
  /\ current' = [current EXCEPT ![c] = 0]
  /\ UNCHANGED <<made, executed>>

ReturnOk(c) ==
  /\ current[c] \in executed
  /\ Return(c, [is |-> "ok", of |-> current[c]])

ReturnErr(c) == Return(c, [is |-> "err"])

Drop(c) == Return(c, Nothing)

Next ==
  \/ \E c \in Callers : Call(c) \/ ReturnOk(c) \/ ReturnErr(c) \/ Drop(c)
  \/ \E id \in 1 .. made : Execute(id)

Spec == Init /\ [][Next]_vars
=============================================================================
