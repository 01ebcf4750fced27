----------------------------- MODULE MC_OsalMsg -----------------------------
(***************************************************************************)
(* A small instance of OsalMsg for TLC: the network layer, MT with its     *)
(* handler that receives one message at a time, ZDApp and an application.  *)
(***************************************************************************)
EXTENDS OsalMsg

MCApps == {3}
MCSingle == {1}
MCStatus == {"hold", "joined"}
=============================================================================
