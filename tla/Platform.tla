------------------------------ MODULE Platform ------------------------------
(***************************************************************************)
(* What lies below the tasks, one part of it chosen at the start: the      *)
(* heap, the radio, or the receiver of the serial line.                    *)
(***************************************************************************)
EXTENDS OsalMemory, Sequences

CONSTANTS
  RxFlag, MaxBackoffs, Shape, SlowIsr, ResetAnytime,       \* of MacRadio
  RX_MAX, HIGH, IDLE, ST0_MOD, READ_MAX, MaxGap, LastByte  \* of UartRx

VARIABLES
  part,
  r, rpc,
  rxpc, rxBuf, rxHead, rxTail, rxTick, ago, room, dest, next, quiet, gap, due

heap == vars
radio == <<r, rpc>>
serial == <<rxpc, rxBuf, rxHead, rxTail, rxTick, ago, room, dest, next, quiet, gap, due>>

R == INSTANCE MacRadio WITH pc <- rpc
Rx == INSTANCE UartRx WITH pc <- rxpc

ASSUME PlatformAssumption ==
  R!RadioAssumption /\ Rx!UartRxAssumption

PlatformInit ==
  /\ part \in {"heap", "radio", "serial"}
  /\ Init /\ R!Init /\ Rx!Init

PlatformNext ==
  /\ \/ part = "heap" /\ Next /\ UNCHANGED <<radio, serial>>
     \/ part = "radio" /\ R!Next /\ UNCHANGED <<heap, serial>>
     \/ part = "serial" /\ Rx!Next /\ UNCHANGED <<heap, radio>>
  /\ UNCHANGED part

(* The fairness that the modules state, each of its part only *)
Radio(A) == part = "radio" /\ A
RadioFairness ==
  /\ WF_radio(Radio(R!MacTxPrepare \/ R!MacTxDecide \/ R!MacTxGo))
  /\ WF_radio(Radio(rpc # "idle" /\ (R!MacRxDisable \/ R!MacRadioSetTxPower)))
  /\ []<>~(part = "radio" /\ R!InterruptPending) \/ []<><<R!RfIsr>>_radio
  /\ WF_radio(Radio(R!BytesArrive)) /\ WF_radio(Radio(R!AckSent))
  /\ SF_radio(Radio(R!ClearChannel)) /\ WF_radio(Radio(R!FrameDelimiter))
  /\ WF_radio(Radio(R!FrameSent)) /\ WF_radio(Radio(R!AckTimeout))

SerialFairness ==
  WF_serial(part = "serial" /\ Rx!Driver) /\ WF_serial(part = "serial" /\ Rx!Tick)

PlatformSpec ==
  /\ PlatformInit /\ [][PlatformNext]_<<part, heap, radio, serial>>
  /\ RadioFairness /\ SerialFairness

(* What the modules state of the radio and of the serial line              *)
AssertsHold == R!AssertsHold
NothingForgotten == R!NothingForgotten /\ R!AckAwaited
RxFifo == Rx!Fifo!Init /\ [][part = "serial" => [Rx!Fifo!Next]_(Rx!queue)]_serial
Progress == R!TxEnds /\ (part = "serial" => Rx!AllRead)
=============================================================================
