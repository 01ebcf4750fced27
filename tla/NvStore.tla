------------------------------ MODULE NvStore ------------------------------
(***************************************************************************)
(* What the NV memory promises its users: items that are created, written  *)
(* and deleted in one step each and that outlive every loss of power.  A   *)
(* call that returns has had its effect, one that is cut off by a loss of  *)
(* power may have had it, and nothing else changes an item.                *)
(***************************************************************************)
CONSTANTS
  Id,     \* the items
  Val,    \* what is written
  None,   \* no value: the item does not exist
  NoCall  \* no call is in progress

VARIABLES
  store,  \* the values of the items
  mode,   \* without power or starting, ready for a call, or busy with one
  call    \* the item that the call in progress writes, and its value

vars == <<store, mode, call>>

Init ==
  /\ store = [id \in Id |-> None]
  /\ mode = "down"
  /\ call = NoCall

Start ==
  /\ mode = "down"
  /\ mode' = "ready"
  /\ UNCHANGED <<store, call>>

(* The item is to be created, or does not have the value yet. *)
Begin(id, v) ==
  /\ mode = "ready"
  /\ store[id] # v
  /\ mode' = "busy"
  /\ call' = [id |-> id, val |-> v]
  /\ UNCHANGED store

Free ==
  /\ mode' = "ready"
  /\ call' = NoCall

Commit ==
  /\ mode = "busy"
  /\ store' = [store EXCEPT ![call.id] = call.val]
  /\ Free \/ UNCHANGED <<mode, call>>

Return ==
  /\ mode = "busy"
  /\ store[call.id] = call.val
  /\ Free
  /\ UNCHANGED store

Delete(id) ==
  /\ mode = "ready"
  /\ store[id] # None
  /\ store' = [store EXCEPT ![id] = None]
  /\ UNCHANGED <<mode, call>>

PowerFails ==
  /\ mode' = "down"
  /\ call' = NoCall
  /\ UNCHANGED store

Next ==
  \/ Start \/ Commit \/ Return \/ PowerFails
  \/ \E id \in Id : Delete(id) \/ \E v \in Val : Begin(id, v)

Spec == Init /\ [][Next]_vars
=============================================================================
