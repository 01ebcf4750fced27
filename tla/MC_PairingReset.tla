--------------------------- MODULE MC_PairingReset ---------------------------
(***************************************************************************)
(* Pairing with a history: what each button was paired with since it was   *)
(* last reset.                                                             *)
(***************************************************************************)
EXTENDS Pairing

VARIABLE paired

HistoryInit == PairingInit /\ paired = [b \in Button |-> {}]

(* Five long pushes reset the button; whatever is newly stored was paired. *)
HistoryNext ==
  \/ \E b \in Button : ResetKey(b) /\ paired' = [paired EXCEPT ![b] = {}]
  \/ /\ PairingNext
     /\ paired' = [b \in Button |-> paired[b] \cup (nv'[b] \ nv[b])]

HistorySpec == HistoryInit /\ [][HistoryNext]_<<pairingVars, paired>>

(* "reset", the comment on five long pushes (SuperButton_DeviceDataCtrl.c:  *)
(* 327): what the button remembers it was paired with since.                *)
ResetForgets == \A b \in Button : nv[b] \subseteq paired[b]
=============================================================================
