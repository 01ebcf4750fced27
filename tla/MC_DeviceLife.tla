---------------------------- MODULE MC_DeviceLife ----------------------------
(***************************************************************************)
(* A device, for TLC, one part chosen at the start: its life, built with   *)
(* or without power saving; its frame counters, or those of a coordinator; *)
(* its clock and its sleep.  The device that saves power is told no leave: *)
(* its pauses are what it is looked at for.                                *)
(***************************************************************************)
EXTENDS DeviceLife, FrameCounters, SleepyDevice

VARIABLE part

Saving == INSTANCE DeviceLife WITH PowerSaving <- TRUE, Leaves <- {}

(* Here the counter of the link key goes further than that of the network. *)
Forming == INSTANCE FrameCounters WITH
  Coordinator <- TRUE, NwkLimit <- 6, TclkLimit <- 10

PartsInit ==
  /\ part \in {"life", "saving", "joining", "forming", "sleep"}
  /\ Init /\ CountersInit /\ S!Init

PartsNext ==
  /\ \/ part = "life" /\ Next /\ UNCHANGED <<counterVars, sleepVars>>
     \/ part = "saving" /\ Saving!Next /\ UNCHANGED <<counterVars, sleepVars>>
     \/ part = "joining" /\ CountersNext /\ UNCHANGED <<vars, sleepVars>>
     \/ part = "forming" /\ Forming!CountersNext /\ UNCHANGED <<vars, sleepVars>>
     \/ part = "sleep" /\ S!Next /\ UNCHANGED <<vars, counterVars>>
  /\ UNCHANGED part

PartsSpec == PartsInit /\ [][PartsNext]_<<part, vars, counterVars, sleepVars>>
=============================================================================
