--------------------------- MODULE MC_OsalTimers ---------------------------
(***************************************************************************)
(* For TLC, one of two parts chosen at the start: a small instance of      *)
(* OsalTimers, with time-outs shorter than, equal to and longer than what  *)
(* an update takes away; and the link that delays by such timers set up,   *)
(* with more pushes of a key than one set-up takes.                        *)
(***************************************************************************)
EXTENDS OsalTimers

CONSTANTS e1, e2

MCEvent == {e1, e2}
OneTask == {0}
MCTimeouts == {1, 3}
MCPeriods == {2}
MCElapsed == {2}

VARIABLES
  part,
  gprs_states, gprs_Step, delay, commands, answers, modem, pushes, breaks

link == <<gprs_states, gprs_Step, delay, commands, answers, modem, pushes, breaks>>

G == INSTANCE GprsLink WITH
  MaxPushes <- 3, MaxBreaks <- 1, MaxLine <- 2, FramesApart <- TRUE

ASSUME G!GprsAssumption

PartsInit == part \in {"timers", "link"} /\ Init /\ G!Init

PartsNext ==
  /\ \/ part = "timers" /\ Next /\ UNCHANGED link
     \/ part = "link" /\ G!Next /\ UNCHANGED vars
  /\ UNCHANGED part

(* The fairness that the modules state, each of its part only *)
Timers(A) == part = "timers" /\ A
Link(A) == part = "link" /\ A
PartsFairness ==
  /\ WF_vars(Timers(\E u \in Elapsed : BeginUpdate(u))) /\ WF_vars(Timers(Update))
  /\ WF_link(Link(G!Receive)) /\ WF_link(Link(G!Expire))
  /\ SF_link(Link(G!Accepts)) /\ WF_link(Link(G!Packet)) /\ WF_link(Link(G!Boots))

PartsSpec == PartsInit /\ [][PartsNext]_<<part, vars, link>> /\ PartsFairness

(* What GprsLink states *)
Connects == G!Connects
=============================================================================
