----------------------------- MODULE MC_Bindings ----------------------------
(***************************************************************************)
(* What needs no fairness, for TLC, one part chosen at the start: the user *)
(* events of a board; the coordinator's end device bind of two devices; a  *)
(* binding table with long lists or with many entries.                     *)
(***************************************************************************)
EXTENDS MC_UserEventBoards, EndDeviceBind

CONSTANTS d1, d2, c1, c2, x1, y1, y2, s1, Empty

VARIABLES part,
          long, longRecs, longNum, longAnswer,                    \* BindTable
          many, manyRecs, manyNum, manyAnswer

longTable == <<long, longRecs, longNum, longAnswer>>
manyTable == <<many, manyRecs, manyNum, manyAnswer>>

(* d1 sends two clusters that d2 receives; d2 sends itself one of them, so *)
(* that it can be matched with itself, in both directions.                 *)
TwoDevices == {d1, d2}
TwoClusters == {c1, c2}
SentClusters == (d1 :> <<c1, c2>>) @@ (d2 :> <<c2>>)
ReceivedClusters == (d1 :> <<>>) @@ (d2 :> <<c1, c2>>)

(* A list takes both clusters, and there is an entry for each destination; *)
(* or a list takes one, and there are more destinations than entries.      *)
Long == INSTANCE BindTable WITH
  Source <- {s1}, Cluster <- TwoClusters, Destination <- {x1, y1},
  Device <- TwoDevices, On <- (d1 :> {x1}) @@ (d2 :> {y1}),
  MaxEntries <- 2, MaxClusters <- 2,
  BindingTable <- long, records <- longRecs, numRecs <- longNum, answer <- longAnswer
Many == INSTANCE BindTable WITH
  Source <- {s1}, Cluster <- TwoClusters, Destination <- {x1, y1, y2},
  Device <- TwoDevices, On <- (d1 :> {x1}) @@ (d2 :> {y1, y2}),
  MaxEntries <- 2, MaxClusters <- 1,
  BindingTable <- many, records <- manyRecs, numRecs <- manyNum, answer <- manyAnswer

ASSUME Long!BindTableAssumption /\ Many!BindTableAssumption

PartsInit ==
  /\ part \in {"events", "binding", "long", "many"}
  /\ BoardInit /\ (part # "events" => board = Sensor)
  /\ MatchInit /\ Long!Init /\ Many!Init

PartsNext ==
  /\ \/ part = "events" /\ BoardNext /\ UNCHANGED <<matchVars, longTable, manyTable>>
     \/ part = "binding" /\ MatchNext /\ UNCHANGED <<vars, board, longTable, manyTable>>
     \/ part = "long" /\ Long!Next /\ UNCHANGED <<vars, board, matchVars, manyTable>>
     \/ part = "many" /\ Many!Next /\ UNCHANGED <<vars, board, matchVars, longTable>>
  /\ UNCHANGED part

PartsSpec == PartsInit /\ [][PartsNext]_<<part, vars, board, matchVars, longTable, manyTable>>

(* BindTable's ImplementsBindings; the other parts leave the tables alone. *)
ImplementsBindings ==
  /\ Long!B!Init /\ [][part = "long" => Long!B!Next]_longTable
  /\ Many!B!Init /\ [][part = "many" => Many!B!Next]_manyTable
=============================================================================
