---------------------------- MODULE FrameCounters ----------------------------
(***************************************************************************)
(* The counters of the frames a device secures, with the network key       *)
(* (ZDApp.c) and with the link key of the trust center (ZDSecMgr.c).  A    *)
(* receiver refuses a counter it has seen, so that a counter must go on    *)
(* where it was after the power failed.  It is kept in RAM and copied to   *)
(* NV memory now and then, by ZDApp, which learns of the frames by an      *)
(* event: a restart takes the copy and adds what may be missing in it.     *)
(*                                                                         *)
(* The libraries secure the frames and set the event, any number of frames *)
(* before it is handled; the power fails and the network answers at any    *)
(* moment.  Writing an item of NV memory takes effect as a whole (see      *)
(* OsalNv), and the network state is as DeviceLife has it, here no more    *)
(* than what the counters depend on.                                       *)
(***************************************************************************)
EXTENDS Naturals

CONSTANTS
  Coordinator,  \* whether the device forms the network or joins one
  NwkMargin,    \* MAX_NWK_FRAMECOUNTER_CHANGES
  TclkMargin,   \* MAX_TCLK_FRAMECOUNTER_CHANGES
  NwkLimit,     \* bounds on the counters
  TclkLimit

ASSUME CountersAssumption ==
  /\ Coordinator \in BOOLEAN
  /\ NwkMargin \in Nat /\ TclkMargin \in Nat \ {0}
  /\ NwkLimit \in Nat /\ TclkLimit \in Nat

VARIABLES
  phase,                   \* "off"; "search" for a network; "rejoin", asking
                           \* for it; "up", in it
  network,                 \* NV memory: whether there is a network to restore
  nwkFrameCounter,         \* the counter of the next frame
  nwkFrameCounterChanges,  \* how often it changed, as ZDApp counts
  nwkSaved,                \* NV memory: the counter in ZCD_NV_NWKKEY
  nwkChange,               \* the event ZDO_FRAMECOUNTER_CHANGE is set
  nwkSeen,                 \* the least counter the neighbours still accept
  txFrmCntr,               \* the same for the link key: the counter,
  tclkSaved,               \* in NV memory,
  tclkChange,              \* ZDO_TCLK_FRAMECOUNTER_CHANGE is set,
  tclkSeen,                \* what the trust center still accepts
  nwkUncounted,            \* history: frames that ZDApp has not counted,
  nwkLost,                 \* the most of them that a restored counter missed
  tclkUnsaved,             \* history: frames from a save point on, not saved,
  tclkLost                 \* the most of them that a failure lost, but two

nwkVars == <<nwkFrameCounter, nwkFrameCounterChanges, nwkSaved, nwkChange, nwkSeen,
             nwkUncounted, nwkLost>>
tclkVars == <<txFrmCntr, tclkSaved, tclkChange, tclkSeen, tclkUnsaved, tclkLost>>
counterVars == <<phase, network, nwkVars, tclkVars>>

(* The first start has made the items in NV memory. *)
CountersInit ==
  /\ phase = "search" /\ network = FALSE
  /\ nwkFrameCounter = 0 /\ nwkFrameCounterChanges = 0
  /\ nwkSaved = 0 /\ nwkChange = FALSE /\ nwkSeen = 0
  /\ txFrmCntr = 0 /\ tclkSaved = 0 /\ tclkChange = FALSE /\ tclkSeen = 0
  /\ nwkUncounted = 0 /\ nwkLost = 0 /\ tclkUnsaved = 0 /\ tclkLost = 0

Secures == phase \in {"rejoin", "up"}

Larger(a, b) == IF a < b THEN b ELSE a

-----------------------------------------------------------------------------
(* What ZDApp does to the counter of the network key *)

(* Mutant: the copy is not ahead of the counter. *)
CopyOnly == nwkFrameCounter

(* The copy is one ahead of the counter, which may be 0 (ZDApp_SaveNwkKey). *)
Copy == nwkFrameCounter + 1

SaveNwkKey ==
  nwkSaved' = Copy /\ nwkFrameCounterChanges' = 0 /\ nwkUncounted' = 0

(* A copy of 0 is none; the next change is saved (ZDApp_RestoreNwkKey).    *)
(* Frames are missed that were not counted, or all of them with no copy.   *)
RestoreNwkKey ==
  /\ nwkFrameCounter' = IF nwkSaved > 0 THEN nwkSaved + NwkMargin ELSE nwkFrameCounter
  /\ nwkFrameCounterChanges' = NwkMargin + 1
  /\ nwkUncounted' = 0
  /\ nwkLost' = Larger(nwkLost, IF nwkSaved > 0 THEN nwkUncounted ELSE nwkSeen)
  /\ UNCHANGED <<nwkSaved, nwkChange, nwkSeen>>

(* The network layer puts the counter into a frame and counts it up. *)
SecureNwk ==
  /\ Secures /\ nwkFrameCounter < NwkLimit
  /\ nwkFrameCounter' = nwkFrameCounter + 1
  /\ nwkSeen' = Larger(nwkSeen, nwkFrameCounter + 1)
  /\ nwkChange' = TRUE /\ nwkUncounted' = nwkUncounted + 1
  /\ UNCHANGED <<phase, network, nwkFrameCounterChanges, nwkSaved, nwkLost, tclkVars>>

(* ZDO_FRAMECOUNTER_CHANGE: the test comes before the count, and however   *)
(* many frames have set the event, one is counted.                         *)
CountChange ==
  /\ phase # "off" /\ nwkChange /\ nwkChange' = FALSE
  /\ IF nwkFrameCounterChanges > NwkMargin
     THEN SaveNwkKey
     ELSE /\ nwkFrameCounterChanges' = nwkFrameCounterChanges + 1
          /\ nwkUncounted' = IF nwkUncounted > 0 THEN nwkUncounted - 1 ELSE 0
          /\ UNCHANGED nwkSaved
  /\ UNCHANGED <<phase, network, nwkFrameCounter, nwkSeen, nwkLost, tclkVars>>

-----------------------------------------------------------------------------
(* The network *)

(* A new network and a new key, of which nobody has seen a frame *)
Form ==
  /\ Coordinator /\ phase = "search"
  /\ phase' = "up" /\ nwkSeen' = 0 /\ nwkUncounted' = 0 /\ nwkLost' = 0
  /\ UNCHANGED <<network, nwkFrameCounter, nwkFrameCounterChanges, nwkSaved, nwkChange,
                 tclkVars>>

(* Without a saved counter a device that has joined waits for the key; its *)
(* arrival sets the counter to 0, and the counter is saved.                *)
Authenticated ==
  /\ ~Coordinator /\ phase = "search" /\ nwkSaved = 0
  /\ phase' = "up" /\ nwkFrameCounter' = 0 /\ nwkSeen' = 0
  /\ nwkSaved' = nwkFrameCounter' + 1 /\ nwkFrameCounterChanges' = 0
  /\ nwkUncounted' = 0 /\ nwkLost' = 0
  /\ UNCHANGED <<network, nwkChange, tclkVars>>

(* ZDO_NWK_UPDATE_NV, some time later and whenever tables have changed *)
SaveNetwork ==
  /\ phase = "up" /\ network' = TRUE
  /\ UNCHANGED <<phase, nwkVars, tclkVars>>

(* The counter is restored before the request, which is a secured frame. *)
RejoinRequest ==
  /\ ~Coordinator /\ phase = "search" /\ nwkSaved > 0
  /\ phase' = "rejoin" /\ RestoreNwkKey
  /\ UNCHANGED <<network, tclkVars>>

RejoinFails ==
  /\ phase = "rejoin" /\ phase' = "search"
  /\ UNCHANGED <<network, nwkVars, tclkVars>>

(* An answer to the request, or to a scan for the lost parent, which is    *)
(* not secured                                                             *)
BackInNetwork ==
  /\ ~Coordinator /\ phase \in {"search", "rejoin"} /\ nwkSaved > 0
  /\ phase' = "up" /\ RestoreNwkKey
  /\ UNCHANGED <<network, tclkVars>>

ParentLost ==
  /\ ~Coordinator /\ phase = "up" /\ phase' = "search"
  /\ UNCHANGED <<network, nwkVars, tclkVars>>

-----------------------------------------------------------------------------
(* The link key of the trust center *)

(* APSME_TCLinkKeyLoad: at every multiple of the margin the event is set. *)
SavePoint(n) == n % TclkMargin = 0

SecureTclk ==
  /\ phase # "off" /\ txFrmCntr < TclkLimit
  /\ txFrmCntr' = txFrmCntr + 1
  /\ tclkSeen' = Larger(tclkSeen, txFrmCntr + 1)
  /\ tclkChange' = (tclkChange \/ SavePoint(txFrmCntr + 1))
  /\ tclkUnsaved' =
       IF tclkUnsaved > 0 \/ SavePoint(txFrmCntr + 1) THEN tclkUnsaved + 1 ELSE 0
  /\ UNCHANGED <<phase, network, nwkVars, tclkSaved, tclkLost>>

(* ZDO_TCLK_FRAMECOUNTER_CHANGE: without memory the event is gone, and     *)
(* nothing is saved before the next.                                       *)
SaveTCLinkKey ==
  /\ phase # "off" /\ tclkChange /\ tclkChange' = FALSE
  /\ \/ tclkSaved' = txFrmCntr /\ tclkUnsaved' = 0
     \/ UNCHANGED <<tclkSaved, tclkUnsaved>>
  /\ UNCHANGED <<phase, network, nwkVars, txFrmCntr, tclkSeen, tclkLost>>

-----------------------------------------------------------------------------
PowerFails ==
  /\ phase # "off" /\ tclkSaved < TclkLimit
  /\ phase' = "off" /\ nwkFrameCounter' = 0 /\ nwkFrameCounterChanges' = 0
  /\ nwkChange' = FALSE /\ txFrmCntr' = 0 /\ tclkChange' = FALSE
  /\ tclkUnsaved' = 0
  /\ tclkLost' = IF tclkUnsaved > 2 THEN Larger(tclkLost, tclkUnsaved - 2) ELSE tclkLost
  /\ UNCHANGED <<network, nwkSaved, nwkSeen, nwkUncounted, nwkLost, tclkSaved, tclkSeen>>

(* Mutant: by just as much. *)
AdvancedLess == tclkSaved + TclkMargin

(* The start advances the copy of the link key's counter by more than it   *)
(* can lag behind, in NV memory too (APSME_TCLinkKeyInit).                 *)
Advanced == tclkSaved + TclkMargin + 1

RestoreTclk ==
  /\ tclkSaved' = Advanced /\ txFrmCntr' = Advanced
  /\ UNCHANGED <<tclkChange, tclkSeen, tclkUnsaved, tclkLost>>

(* ZDOInitDevice with the network state of NV memory: a coordinator goes   *)
(* on at once, a device looks for its parent.                              *)
StartRestored ==
  /\ phase = "off" /\ network
  /\ IF Coordinator
     THEN phase' = "up" /\ RestoreNwkKey
     ELSE phase' = "search" /\ UNCHANGED nwkVars
  /\ RestoreTclk /\ UNCHANGED network

(* ... and without it, because there is none or it is to be forgotten.     *)
StartNew ==
  /\ phase = "off"
  /\ phase' = "search" /\ network' = FALSE /\ nwkSaved' = 0
  /\ RestoreTclk
  /\ UNCHANGED <<nwkFrameCounter, nwkFrameCounterChanges, nwkChange, nwkSeen,
                 nwkUncounted, nwkLost>>

CountersNext ==
  \/ SecureNwk \/ CountChange
  \/ Form \/ Authenticated \/ SaveNetwork
  \/ RejoinRequest \/ RejoinFails \/ BackInNetwork \/ ParentLost
  \/ SecureTclk \/ SaveTCLinkKey
  \/ PowerFails \/ StartRestored \/ StartNew

CountersSpec == CountersInit /\ [][CountersNext]_counterVars

-----------------------------------------------------------------------------
(* Properties *)

CountersTypeOK ==
  /\ phase \in {"off", "search", "rejoin", "up"} /\ network \in BOOLEAN
  /\ nwkFrameCounter \in Nat /\ nwkFrameCounterChanges \in 0..NwkMargin + 1
  /\ nwkSaved \in Nat /\ nwkChange \in BOOLEAN /\ nwkSeen \in Nat
  /\ txFrmCntr \in Nat /\ tclkSaved \in Nat /\ tclkChange \in BOOLEAN
  /\ tclkSeen \in Nat
  /\ nwkUncounted \in Nat /\ nwkLost \in Nat
  /\ tclkUnsaved \in Nat /\ tclkLost \in Nat

(* However often the power failed and the network was left and joined      *)
(* again, the next frame secured with the network key repeats no more      *)
(* counters than there were frames that ZDApp had not counted when a       *)
(* counter was restored: with each frame counted in time, none             *)
(* (ZDApp_SaveNwkKey, ZDApp_RestoreNwkKey).                                *)
NwkRepeatsUncounted == Secures => nwkSeen <= nwkFrameCounter + nwkLost

(* The same for the link key of the trust center: a failure of the power   *)
(* costs the frames from a save point on that have not been saved, because *)
(* the event was late or found no memory, but two of them                  *)
(* (APSME_TCLinkKeyInit, APSME_TCLinkKeyLoad, ZDSecMgrSaveTCLinkKey).      *)
TclkRepeatsUnsaved == phase # "off" => tclkSeen <= txFrmCntr + tclkLost
=============================================================================
