----------------------------- MODULE MC_Platform -----------------------------
(***************************************************************************)
(* The platform, for TLC.                                                  *)
(***************************************************************************)
EXTENDS Platform

(* A frame without addresses and payload, and one whose bytes come in      *)
(* several interrupts                                                      *)
TwoShapes == {<<"fcs">>, <<"body", "fcs">>}
=============================================================================
