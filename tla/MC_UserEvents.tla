--------------------------- MODULE MC_UserEvents ---------------------------
(***************************************************************************)
(* A board of UserEvents, by its table of calls, for TLC.                  *)
(***************************************************************************)
EXTENDS UserEvents, MC_Boards
=============================================================================
