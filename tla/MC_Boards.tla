----------------------------- MODULE MC_Boards -----------------------------
(***************************************************************************)
(* The boards' call tables for TLC.  Durations are ranks: 0 stands for     *)
(* TIMER_NO_LIMIT, 1 for the debounce time, larger ones for seconds.       *)
(***************************************************************************)
EXTENDS Naturals, TLC

CONSTANTS n1, n2, n3

MCNode == {n1, n2, n3}
Symmetry == Permutations(MCNode)
MCLoop == 3
OneTask == {0}
TwoTasks == {0, 1}

C(f, t, e, d, n, r, k) ==
  [fn |-> f, task |-> t, ev |-> e, dur |-> d, cnt |-> n, res |-> r, cb |-> k]

(* Events, by the names of CommonApp.h and TransconnApp.h. *)
HB == "HEARTBERAT_EVT"
Peroid == "CMD_PEROID_EVT"
Permit == "PERMIT_JOIN_EVT"
Bind == "BINDSRCBTN_CLEAR_EVT"
Isr == "DOORSENSOR_ISR_EVT"
Detect == "DOORSENSOR_DETECT_EVT"
Pair == "SUPERBUTTON_PAIR_EVT"
Lock == "DOORLOCK_UP_EVT"
Upload == "TIMER_UPLOAD_EVENT"
Delay == "TIMER_DELAY_EVENT"

(* EndnodeApp.c:587,230,235: heart beat and the periodic command. *)
HeartBeat == C("set", 0, HB, 4, MCLoop, TRUE, TRUE)
PeroidStart == C("update", 0, Peroid, 2, MCLoop, TRUE, TRUE)
PeroidStop == C("update", 0, Peroid, 0, 0, FALSE, FALSE)
(* CommonApp.c:810,819: permit-join indication of the routers. *)
PermitOn == C("update", 0, Permit, 4, 1, FALSE, TRUE)
PermitOff == C("update", 0, Permit, 0, 0, FALSE, FALSE)

RouterEvents == {HB, Peroid, Permit}
RouterCalls == {HeartBeat, PeroidStart, PeroidStop, PermitOn, PermitOff}

(* DoorSensor_DeviceDataCtrl.c:84,143 *)
SensorEvents == {HB, Detect, Isr}
SensorCalls == {HeartBeat, C("set", 0, Detect, 2, MCLoop, TRUE, TRUE)}
SensorIsr == {C("update", 0, Isr, 1, 1, TRUE, TRUE)}

(* SuperButton_DeviceDataCtrl.c:228,238,423 *)
ButtonEvents == {HB, Pair}
ButtonCalls == {HeartBeat, C("update", 0, Pair, 4, 1, TRUE, TRUE),
                C("update", 0, Pair, 0, 1, TRUE, FALSE),
                C("update", 0, Pair, 0, 1, TRUE, TRUE)}

(* Doorlock_DeviceDataCtrl.c:93,104: the callback arms its own event. *)
LockEvents == {HB, Lock}
LockCalls == {HeartBeat, C("update", 0, Lock, 2, 1, TRUE, TRUE)}
LockCbCalls == {<<Lock, C("update", 0, Lock, 3, 1, TRUE, TRUE)>>}

(* ConnectorApp.c:279,322, CommonApp.c:810,819, TransconnApp.c:184,342-363:
   the gateway's two tasks share the list. *)
GatewayEvents == {Bind, Upload, Delay}
GatewayCalls == {C("update", 0, Bind, 4, 1, FALSE, TRUE),
                 C("update", 0, Bind, 0, 1, FALSE, TRUE),
                 C("update", 1, Upload, 3, MCLoop, TRUE, TRUE),
                 C("update", 1, Delay, 1, 1, FALSE, TRUE)}

Router == [main |-> RouterCalls, isr |-> {}, cb |-> {}]
Sensor == [main |-> SensorCalls, isr |-> SensorIsr, cb |-> {}]
DoorLock == [main |-> LockCalls, isr |-> {}, cb |-> LockCbCalls]
Gateway == [main |-> GatewayCalls, isr |-> {}, cb |-> {}]
Boards == {Router, Sensor, DoorLock, Gateway}

(* The boards with an interrupt or with a callback that arms its own event *)
ReentrantBoards == {Sensor, DoorLock}

BoardEvents == RouterEvents \cup SensorEvents \cup LockEvents \cup GatewayEvents
ReentrantEvents == SensorEvents \cup LockEvents
CallsOf(boards) == UNION {b.main : b \in boards}
IsrCallsOf(boards) == UNION {b.isr : b \in boards}
CbCallsOf(boards) == UNION {b.cb : b \in boards}
=============================================================================
