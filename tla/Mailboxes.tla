----------------------------- MODULE Mailboxes -----------------------------
(***************************************************************************)
(* What the OSAL messages promise their users: every task has a mailbox    *)
(* from which it gets its messages in the order they were sent.  A state   *)
(* change that has not been fetched may be overwritten by a newer one.     *)
(***************************************************************************)
EXTENDS Naturals, Sequences

CONSTANTS Task, Msg

VARIABLE box

Init == box = [t \in Task |-> <<>>]

Put(t, m) == box' = [box EXCEPT ![t] = Append(@, m)]

Get(t) ==
  /\ box[t] # <<>>
  /\ box' = [box EXCEPT ![t] = Tail(@)]

Amend(t, i, m) ==
  /\ box[t][i].kind = "state"
  /\ m.kind = "state"
  /\ box' = [box EXCEPT ![t][i] = m]

(* Amending a message to what it says already changes nothing. *)
Next ==
  /\ box' # box
  /\ \E t \in Task :
       \/ Get(t)
       \/ \E m \in Msg :
            \/ Put(t, m)
            \/ \E i \in 1..Len(box[t]) : Amend(t, i, m)

Spec == Init /\ [][Next]_box
=============================================================================
