------------------------------ MODULE MC_Tasks ------------------------------
(***************************************************************************)
(* What the tasks hand on and wait for, for TLC, one part chosen at the    *)
(* start: the messages of the tasks; the bytes for the serial line; the    *)
(* user events of a board whose interrupt or callback arms them; a super   *)
(* button paired with a device that comes back with another address.       *)
(***************************************************************************)
EXTENDS MC_OsalMsg, Pairing, UartTx

CONSTANTS n1, n2, n3, Nil, b1, d1, a1, a2, a3

VARIABLES
  part,
  list, node, map, timers, ebits, epc, task, events, cur, nx, rd, left, board

user == <<list, node, map, timers, ebits, epc, task, events, cur, nx, rd, left>>

B == INSTANCE MC_Boards
E == INSTANCE MC_UserEventBoards WITH
  Task <- B!OneTask, Node <- B!MCNode, Event <- B!ReentrantEvents,
  LowerLimit <- 0, Loop <- B!MCLoop, Chosen <- B!ReentrantBoards,
  MainCalls <- B!CallsOf(B!ReentrantBoards),
  CbCalls <- B!CbCallsOf(B!ReentrantBoards),
  IsrCalls <- B!IsrCallsOf(B!ReentrantBoards),
  bits <- ebits, pc <- epc

OneButton == {b1}
OneDevice == {d1}
ThreeAddresses == {a1, a2, a3}

ASSUME E!ConstantsAssumption /\ E!CallsAssumption

TasksInit ==
  /\ part \in {"messages", "bytes", "events", "pairing"}
  /\ Init /\ TxInit /\ PairingInit
  /\ E!BoardInit /\ (part # "events" => board = B!Sensor)

TasksNext ==
  /\ \/ part = "messages" /\ Next /\ UNCHANGED <<txVars, user, board, pairingVars>>
     \/ part = "bytes" /\ TxNext /\ UNCHANGED <<vars, user, board, pairingVars>>
     \/ part = "events" /\ E!BoardNext /\ UNCHANGED <<vars, txVars, pairingVars>>
     \/ part = "pairing" /\ PairingNext /\ UNCHANGED <<vars, txVars, user, board>>
  /\ UNCHANGED part

(* The fairness that the modules state, each of its part only *)
Uart(A) == part = "bytes" /\ A
User(A) == part = "events" /\ A
Pairing(A) == part = "pairing" /\ A

UartFairness ==
  /\ WF_txVars(Uart(Commit)) /\ WF_txVars(Uart(Poll)) /\ WF_txVars(Uart(DmaIsr))
  /\ WF_txVars(Uart(Hardware)) /\ WF_txVars(Uart(Tick))

UserFairness ==
  /\ \A t \in B!OneTask : WF_user(User(E!Dispatch(t)))
  /\ \A t \in B!OneTask, e \in B!ReentrantEvents : WF_user(User(E!Expire(t, e)))
  /\ WF_user(User(E!ProcessEvent))

PairingFairness ==
  /\ WF_pairingVars(Pairing(PairCB(b1))) /\ WF_pairingVars(Pairing(Expire(b1)))
  /\ WF_pairingVars(Pairing(Clear)) /\ WF_pairingVars(Pairing(ClearExpires))

TasksSpec ==
  /\ TasksInit /\ [][TasksNext]_<<part, vars, txVars, user, board, pairingVars>>
  /\ WF_vars(part = "messages" /\ Loop)
  /\ UartFairness /\ UserFairness /\ PairingFairness

(* What the module states of the user events *)
ArmedIsServed == E!ArmedIsServed
=============================================================================
