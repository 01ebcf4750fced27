------------------------------ MODULE MacRadio ------------------------------
(***************************************************************************)
(* The low-level MAC of the CC2530 (Components/mac/low_level/srf04): the   *)
(* task-level calls of the high-level MAC, the interrupt routines of the   *)
(* strobe processor (CSP) and of the receive FIFO, and the radio they      *)
(* share.                                                                  *)
(*                                                                         *)
(* The RF, RF-error and MAC-timer interrupts have one priority: a routine  *)
(* is never preempted and is one step.  Task code is preempted wherever    *)
(* interrupts are enabled: a call is cut into steps there, and a critical  *)
(* section is one step.  Each C function is an operator on the record of   *)
(* the radio, so that the nesting of the calls is the code's.              *)
(*                                                                         *)
(* The high-level MAC is a library without source.  It is taken to have    *)
(* one transmit outstanding, to use the radio only when awake and to scan  *)
(* with the receiver's filter off before and after.  The network has no    *)
(* beacons, so a transmit is unslotted CSMA.                               *)
(***************************************************************************)
EXTENDS Naturals, Sequences

CONSTANTS
  RxFlag,         \* the reasons to keep the receiver on
  MaxBackoffs,    \* macPib.maxCsmaBackoffs
  Shape,          \* what follows the header of a frame, in FIFO thresholds
  SlowIsr,        \* an automatic ACK may end before its frame's first interrupt
  ResetAnytime    \* the MAC may be reset while a transmit is outstanding

RadioAssumption ==
  /\ MaxBackoffs \in Nat
  /\ \A s \in Shape :
       /\ s \in Seq({"addr", "body", "fcs"}) /\ s # <<>>
       /\ \A i \in 1..Len(s) : s[i] = "fcs" <=> i = Len(s)
  /\ SlowIsr \in BOOLEAN /\ ResetAnytime \in BOOLEAN

VARIABLES
  r,              \* the variables of the code and the registers
  pc              \* where the task's call is

vars == <<r, pc>>

(* Bytes of a frame come in portions, one for each FIFO threshold.  rest   *)
(* are the portions not read yet, of which the first got have arrived.     *)
Portion == {"hdr", "addr", "body", "fcs"}
NoFrame == [ack |-> FALSE, ar |-> FALSE, crc |-> TRUE, rest |-> <<>>, got |-> 0]
AckFrames == [ack : {TRUE}, ar : {FALSE}, crc : BOOLEAN, rest : {<<"hdr">>}, got : {0}]
DataFrames == [ack : {FALSE}, ar : BOOLEAN, crc : BOOLEAN,
               rest : {<<"hdr">> \o s : s \in Shape}, got : {0}]
Arriving(f) == f.got < Len(f.rest)

TxPhysical == {"go", "done", "listen", "postAck"}   \* MAC_TX_IS_PHYSICALLY_ACTIVE
RxPhysical(x) == x.rx = "started" \/ x.ack          \* MAC_RX_IS_PHYSICALLY_ACTIVE

Init ==
  /\ r = [tx |-> "none", nb |-> 0, ackReq |-> FALSE, retx |-> FALSE,
          rx |-> "none", ack |-> FALSE, rxState |-> "start", buf |-> FALSE,
          isr |-> FALSE, reset |-> FALSE, en |-> {}, on |-> FALSE,
          sleep |-> "off", chDue |-> TRUE, powDue |-> FALSE,
          csp |-> "none", cspz |-> "done", im |-> {}, flags |-> {},
          fifo |-> NoFrame, acking |-> FALSE,
          owed |-> FALSE, failed |-> FALSE]
  /\ pc = "idle"

-----------------------------------------------------------------------------
(* The receiver, on and off. *)

Assert(x, holds) == [x EXCEPT !.failed = @ \/ ~holds]

RxOn(x) == [x EXCEPT !.on = TRUE]

Flush(x) == [x EXCEPT !.fifo = NoFrame]

RxTxOff(x) == [Flush(x) EXCEPT !.acking = FALSE]

RxOff(x) == IF x.on THEN [RxTxOff(x) EXCEPT !.on = FALSE, !.flags = @ \ {"fifop"}] ELSE x

RxOffRequest(x) ==
  IF x.en = {} /\ ~RxPhysical(x) /\ x.tx \notin TxPhysical THEN RxOff(x) ELSE x

RxOnRequest(x) == IF x.en # {} THEN RxOn(x) ELSE x

UpdateTxPower(x) ==
  IF ~x.ack /\ x.tx \notin TxPhysical THEN [x EXCEPT !.powDue = FALSE] ELSE x

-----------------------------------------------------------------------------
(* Starting the CSMA program: five statements that interrupts may come     *)
(* between when task code runs them, and one step within a routine.        *)

CancelAckDone(x) == [x EXCEPT !.im = @ \ {"ackdone"}]
ClearAckFlag(x) == [x EXCEPT !.ack = FALSE]
EnableCsp(x) == [x EXCEPT !.im = @ \cup {"stop", "int"}]
StartCsp(x) == [x EXCEPT !.csp = IF @ = "loaded" THEN "csma" ELSE @]

(* Mutant: the receiver, which has been switched off, is left so. *)
CsmaGoDeaf(x) == StartCsp(EnableCsp(x))

CsmaGo(x) == StartCsp(RxOn(EnableCsp(x)))
TxGo(x) == CsmaGo(ClearAckFlag(CancelAckDone(x)))

CsmaPrep(x) ==
  [Assert(x, "stop" \notin x.im) EXCEPT !.cspz = "busy", !.csp = "loaded",
                                        !.flags = @ \ {"stop", "int"}]

StartQueuedFrame(x) ==
  LET y == Assert(x, x.rx = "none" /\ ~x.ack) IN
  IF y.tx = "queued" THEN TxGo([y EXCEPT !.tx = "go"]) ELSE y

PostRxUpdates(x) == StartQueuedFrame(UpdateTxPower(RxOffRequest(x)))

-----------------------------------------------------------------------------
(* Halting a receive.  A routine that is running is left to finish first.  *)

HaltFinalStep(x) ==
  LET y == [Flush(CancelAckDone(x)) EXCEPT
              !.flags = @ \ {"fifop"}, !.buf = FALSE, !.rxState = "start",
              !.rx = "none", !.ack = FALSE, !.reset = FALSE]
  IN IF x.rx # "none" \/ x.ack THEN PostRxUpdates(y) ELSE y

HaltCleanup(x) == IF x.isr THEN [x EXCEPT !.reset = TRUE] ELSE HaltFinalStep(x)

UpdateChannel(x) ==
  LET y == Assert(x, x.tx = "none") IN
  IF y.chDue THEN RxOnRequest(HaltCleanup(RxOff([y EXCEPT !.chDue = FALSE]))) ELSE y

-----------------------------------------------------------------------------
(* The end of a transmit. *)

TxComplete(x) ==
  LET y == UpdateChannel(UpdateTxPower(RxOffRequest(
             [x EXCEPT !.retx = FALSE, !.tx = "none"])))
  IN [Assert(y, y.owed) EXCEPT !.owed = FALSE]

RequestAckTimeout(x) ==
  [Assert(x, "stop" \notin x.im) EXCEPT !.cspz = "timeout", !.csp = "timer",
     !.flags = @ \ {"stop"}, !.im = @ \cup {"stop"}]

(* Mutant: the interrupt of the stopped program stays enabled. *)
CancelUnmasked(x) == [x EXCEPT !.csp = "none", !.flags = @ \cup {"stop"}]

CancelAckTimeout(x) ==
  [x EXCEPT !.im = @ \ {"stop"}, !.csp = "none", !.flags = @ \cup {"stop"}]

TxDone(x) ==
  CASE x.tx # "go" -> x
    [] x.tx = "go" /\ ~x.ackReq -> TxComplete([x EXCEPT !.tx = "done"])
    [] OTHER -> RequestAckTimeout([x EXCEPT !.tx = "listen"])

AckOutcome(x) ==
  IF x.tx = "listen" THEN TxComplete(CancelAckTimeout([x EXCEPT !.tx = "postAck"])) ELSE x

ChannelBusy(x) ==
  LET y == [RxOffRequest([x EXCEPT !.tx = "busy"]) EXCEPT !.nb = @ + 1] IN
  IF y.nb > MaxBackoffs
  THEN TxComplete(y)
  ELSE CsmaGo([CsmaPrep(y) EXCEPT !.tx = "go"])

ForceTxDoneIfPending(x) ==
  IF x.cspz = "done" /\ "stop" \in x.im
  THEN TxDone([x EXCEPT !.im = @ \ {"stop", "int"}])
  ELSE x

-----------------------------------------------------------------------------
(* The receive routine, one operator for each value of pFuncRxState. *)

Read(x) ==
  IF Len(x.fifo.rest) <= 1 THEN Flush(x)
  ELSE [x EXCEPT !.fifo.rest = Tail(@), !.fifo.got = @ - 1]

RxDone(x) ==
  LET y == [x EXCEPT !.rx = "none"] IN IF y.ack THEN y ELSE PostRxUpdates(y)

Discard(x) == [x EXCEPT !.rxState = "discard"]

(* The state that reads the portion after the first one *)
NextState(rest) == rest[2]

Take(x, f) ==
  LET y == [x EXCEPT !.buf = TRUE, !.rxState = NextState(f.rest)] IN
  IF f.ar
  THEN [y EXCEPT !.ack = TRUE, !.flags = @ \ {"ackdone"}, !.im = @ \cup {"ackdone"}]
  ELSE y

(* Whatever comes while an ACK is awaited decides the transmit. *)
Heard(x) == AckOutcome(Read(x))

(* fate: the frame is kept; or filtered or malformed; or there is no memory *)
(* for it, and the ACK the radio has not begun is called off.               *)
RxStartIsr(x, fate) ==
  LET f == x.fifo
      started == [Assert(x, x.rx = "none") EXCEPT !.rx = "started"]
      fresh == ClearAckFlag(CancelAckDone(ForceTxDoneIfPending(started)))
      heard == Heard(fresh)
  IN CASE ~x.on \/ f.rest = <<>> -> PostRxUpdates([started EXCEPT !.rx = "none"])
       [] f.ack -> RxDone(heard)
       [] ~f.ack /\ fate = "take" -> Take(heard, f)
       [] ~f.ack /\ fate = "drop" -> Discard(heard)
       [] OTHER -> Discard([heard EXCEPT !.fifo.ar = FALSE])

RxPartIsr(x) ==
  LET y == Read(x) IN
  IF y.fifo.rest = <<>> THEN y ELSE [y EXCEPT !.rxState = NextState(x.fifo.rest)]

(* Mutant: no ACK was sent for a bad frame, but its end is awaited. *)
BadFrameAcked(x) ==
  LET y == Read(x)
      kept == RxOffRequest([y EXCEPT !.rx = "done"])
  IN RxDone([(IF x.fifo.crc THEN kept ELSE y) EXCEPT !.buf = FALSE, !.rxState = "start"])

RxFcsIsr(x) ==
  LET y == Read(x)
      kept == RxOffRequest([y EXCEPT !.rx = "done"])
      bad == ClearAckFlag(CancelAckDone(y))
  IN RxDone([(IF x.fifo.crc THEN kept ELSE bad) EXCEPT !.buf = FALSE, !.rxState = "start"])

RxDiscardIsr(x) ==
  LET y == Read(x) IN
  IF y.fifo.rest = <<>> THEN RxDone([y EXCEPT !.rxState = "start"]) ELSE y

ThresholdIsr(x, fate) ==
  LET y == [x EXCEPT !.isr = TRUE]
      z == CASE x.rxState = "start" -> RxStartIsr(y, fate)
             [] x.rxState \in {"addr", "body"} -> RxPartIsr(y)
             [] x.rxState = "fcs" -> RxFcsIsr(y)
             [] x.rxState = "discard" -> RxDiscardIsr(y)
      end == [z EXCEPT !.isr = FALSE,
                       !.flags = IF z.fifo.got > 0 THEN @ ELSE @ \ {"fifop"}]
  IN IF z.reset THEN HaltFinalStep(end) ELSE end

-----------------------------------------------------------------------------
(* The RF interrupt.  One of the three causes in RFIRQF1 is handled, in    *)
(* this order, and then the FIFO.                                          *)

Flagged(x, cause) == cause \in x.flags \cap x.im

IntIsr(x) == [x EXCEPT !.im = @ \ {"int"}, !.flags = @ \ {"int"}]

StopIsr(x) ==
  LET y == [x EXCEPT !.im = @ \ {"stop"}, !.flags = @ \ {"stop"}] IN
  CASE y.cspz = "done" -> TxDone(y)
    [] y.cspz = "busy" -> ChannelBusy(y)
    [] y.cspz = "timeout" -> AckOutcome(y)

(* Mutant: the end of an ACK clears its flag and no more. *)
AckTxOnlyFlag(x) == ClearAckFlag(CancelAckDone(x))

AckTxDone(x) ==
  LET y == ClearAckFlag(CancelAckDone(x)) IN
  IF y.rx = "none" THEN PostRxUpdates(y) ELSE y

CspPart(x) ==
  CASE Flagged(x, "int") -> IntIsr(x)
    [] ~Flagged(x, "int") /\ Flagged(x, "stop") -> StopIsr(x)
    [] ~Flagged(x, "int") /\ ~Flagged(x, "stop") /\ Flagged(x, "ackdone") -> AckTxDone(x)
    [] OTHER -> x

Fate == {"take", "drop", "nomem"}

FifoPart(x, fate) == IF "fifop" \in x.flags THEN ThresholdIsr(x, fate) ELSE x

InterruptPending == r.flags \cap (r.im \cup {"fifop"}) # {}

RfIsr ==
  /\ InterruptPending
  /\ \E fate \in Fate : r' = FifoPart(CspPart(r), fate)
  /\ UNCHANGED pc

(* The routine stays in its loop for the bytes that arrive meanwhile, and  *)
(* looks at the other causes only when it is entered again.                *)
RfIsrLoop ==
  /\ "fifop" \in r.flags /\ r.rxState # "start"
  /\ \E cause \in {"int", "stop", "ackdone"} : Flagged(r, cause)
  /\ \E fate \in Fate : r' = FifoPart(r, fate)
  /\ UNCHANGED pc

(* A frame that is not read in time meets the next one. *)
FifoOverflow ==
  /\ r.on /\ ~r.acking /\ r.fifo.rest # <<>> /\ ~Arriving(r.fifo)
  /\ r' = HaltCleanup(r)
  /\ UNCHANGED pc

-----------------------------------------------------------------------------
(* The radio and its strobe processor. *)

FrameStarts ==
  /\ r.on /\ r.sleep = "awake" /\ ~r.acking /\ r.fifo = NoFrame
  /\ r.csp \notin {"air", "sfd"}
  /\ \E f \in AckFrames \cup DataFrames : r' = [r EXCEPT !.fifo = f]
  /\ UNCHANGED pc

BytesArrive ==
  /\ r.on /\ Arriving(r.fifo)
  /\ LET f == [r.fifo EXCEPT !.got = @ + 1] IN
     r' = [r EXCEPT !.fifo = f, !.flags = @ \cup {"fifop"},
                    !.acking = f.ar /\ f.crc /\ ~Arriving(f)]
  /\ UNCHANGED pc

(* The automatic ACK takes longer than the interrupt's latency, unless the *)
(* processor is held up, as by the erasure of a page of flash.             *)
AckSent ==
  /\ r.acking
  /\ SlowIsr \/ r.rxState # "start" \/ r.fifo = NoFrame
  /\ r' = [r EXCEPT !.acking = FALSE, !.flags = @ \cup {"ackdone"}]
  /\ UNCHANGED pc

CspStops(x, z) == [x EXCEPT !.csp = "none", !.cspz = z, !.flags = @ \cup {"stop"}]

(* The program waits until the RSSI is valid: until the receiver is on and *)
(* not sending an ACK.                                                     *)
ClearChannel ==
  /\ r.csp = "csma" /\ r.on /\ ~r.acking
  /\ \/ r' = CspStops(r, "busy")
     \/ ~Arriving(r.fifo) /\ r' = [r EXCEPT !.csp = "air"]
  /\ UNCHANGED pc

FrameDelimiter ==
  /\ r.csp = "air" /\ r.on
  /\ r' = [r EXCEPT !.csp = "sfd", !.flags = @ \cup {"int"}]
  /\ UNCHANGED pc

FrameSent ==
  /\ r.csp = "sfd"
  /\ r' = CspStops(r, "done")
  /\ UNCHANGED pc

AckTimeout ==
  /\ r.csp = "timer"
  /\ r' = CspStops(r, r.cspz)
  /\ UNCHANGED pc

-----------------------------------------------------------------------------
(* Calls of the high-level MAC.  A transmit is cut where an interrupt may  *)
(* come between: pc names the part that is next.                           *)

Goto(from, to) == pc = from /\ pc' = to

MacTxFrame ==
  /\ pc = "idle" /\ ~r.owed
  /\ \E again \in BOOLEAN :
       LET x == [Assert(r, r.tx = "none") EXCEPT !.tx = "init", !.retx = @ \/ again, !.owed = TRUE]
       IN IF x.sleep = "awake"
          THEN r' = x /\ pc' = "prepare"
          ELSE r' = TxComplete(x) /\ UNCHANGED pc

MacTxPrepare ==
  /\ Goto("prepare", "decide")
  /\ \E ar \in BOOLEAN :
       /\ r.retx => ar = r.ackReq
       /\ r' = [CsmaPrep(r) EXCEPT !.nb = 0, !.ackReq = ar]

MacTxDecide ==
  /\ pc = "decide"
  /\ IF r.rx = "none" /\ ~r.ack
     THEN r' = [r EXCEPT !.tx = "go"] /\ pc' = "cancel"
     ELSE r' = [r EXCEPT !.tx = "queued"] /\ pc' = "idle"

MacTxGo ==
  \/ Goto("cancel", "clear") /\ r' = CancelAckDone(r)
  \/ Goto("clear", "enable") /\ r' = ClearAckFlag(r)
  \/ Goto("enable", "on") /\ r' = EnableCsp(r)
  \/ Goto("on", "start") /\ r' = RxOn(r)
  \/ Goto("start", "idle") /\ r' = StartCsp(r)

MacRxEnable ==
  /\ pc = "idle" /\ r.sleep = "awake"
  /\ \E f \in RxFlag :
       LET x == [r EXCEPT !.en = @ \cup {f}] IN r' \in {RxOn(x), x}
  /\ UNCHANGED pc

MacRxDisable ==
  \/ Goto("idle", "off") /\ \E f \in r.en : r' = [r EXCEPT !.en = @ \ {f}]
  \/ Goto("off", "idle") /\ r' = RxOffRequest(r)

MacRadioSetChannel ==
  /\ pc = "idle" /\ r.sleep = "awake"
  /\ LET x == [r EXCEPT !.chDue = TRUE] IN
     r' = IF x.tx = "none" THEN UpdateChannel(x) ELSE x
  /\ UNCHANGED pc

MacRadioSetTxPower ==
  \/ Goto("idle", "power") /\ r' = [r EXCEPT !.powDue = TRUE]
  \/ Goto("power", "idle") /\ r' = UpdateTxPower(r)

MacSleep ==
  /\ pc = "idle" /\ r.sleep = "awake"
  /\ r.rx = "none" /\ ~r.ack /\ r.tx = "none" /\ r.en = {}
  /\ \E s \in {"osc", "off"} : r' = [RxOff(r) EXCEPT !.sleep = s]
  /\ UNCHANGED pc

MacSleepWakeUp ==
  /\ pc = "idle" /\ r.sleep # "awake"
  /\ LET x == IF r.sleep = "off" THEN [r EXCEPT !.flags = @ \ {"fifop"}] ELSE r
     IN r' = RxOnRequest([x EXCEPT !.sleep = "awake"])
  /\ UNCHANGED pc

(* macLowLevelReset, with interrupts disabled.  Nothing calls              *)
(* macTxHaltCleanup: the transmit logic is left as it is.                  *)
MacLowLevelReset ==
  /\ pc = "idle"
  /\ ResetAnytime \/ ~r.owed
  /\ LET x == RxTxOff([r EXCEPT !.en = {}, !.on = FALSE])
     IN r' = IF r.sleep = "awake" THEN HaltCleanup(x) ELSE RxOnRequest([r EXCEPT !.sleep = "awake"])
  /\ UNCHANGED pc

-----------------------------------------------------------------------------
Transmit == MacTxFrame \/ MacTxPrepare \/ MacTxDecide \/ MacTxGo

Receiver == MacRxEnable \/ MacRxDisable

Settings == MacRadioSetChannel \/ MacRadioSetTxPower

Power == MacSleep \/ MacSleepWakeUp \/ MacLowLevelReset

Interrupt == RfIsr \/ RfIsrLoop \/ FifoOverflow

Strobes == ClearChannel \/ FrameDelimiter \/ FrameSent \/ AckTimeout

Next ==
  \/ Transmit \/ Receiver \/ Settings \/ Power
  \/ Interrupt \/ Strobes
  \/ FrameStarts \/ BytesArrive \/ AckSent

(* The processor goes on with a call it has begun and with a pending       *)
(* interrupt, a frame that has begun goes on, and the strobe processor     *)
(* runs on its own clock: it samples the channel in any gap of the         *)
(* traffic, which is why that takes strong fairness.  The interrupt's      *)
(* fairness is written out, with its guard for ENABLED: each run of the    *)
(* routine clears what called it.                                          *)
Fairness ==
  /\ WF_vars(MacTxPrepare \/ MacTxDecide \/ MacTxGo)
  /\ WF_vars(pc # "idle" /\ (MacRxDisable \/ MacRadioSetTxPower))
  /\ []<>~InterruptPending \/ []<><<RfIsr>>_vars
  /\ WF_vars(BytesArrive) /\ WF_vars(AckSent)
  /\ SF_vars(ClearChannel) /\ WF_vars(FrameDelimiter)
  /\ WF_vars(FrameSent) /\ WF_vars(AckTimeout)

Spec == Init /\ [][Next]_vars /\ Fairness

-----------------------------------------------------------------------------
(* Types of the code's variables, the registers and the frame in the FIFO. *)
TypeOK ==
  /\ r.tx \in {"none", "init", "queued", "go", "busy", "done", "listen", "postAck"}
  /\ r.nb \in 0..(MaxBackoffs + 1) /\ r.rx \in {"none", "started", "done"}
  /\ r.rxState \in {"start", "discard"} \cup Portion
  /\ r.sleep \in {"awake", "osc", "off"} /\ r.en \subseteq RxFlag
  /\ r.cspz \in {"busy", "done", "timeout"}
  /\ r.csp \in {"none", "loaded", "csma", "air", "sfd", "timer"}
  /\ r.im \subseteq {"stop", "int", "ackdone"}
  /\ r.flags \subseteq {"stop", "int", "ackdone", "fifop"}
  /\ r.fifo.got \in 0..Len(r.fifo.rest)
  /\ \A b \in {r.ackReq, r.retx, r.ack, r.buf, r.on, r.chDue, r.powDue,
              r.acking, r.owed, r.failed} : b \in BOOLEAN
  /\ ~r.isr /\ ~r.reset
  /\ pc \in {"idle", "prepare", "decide", "cancel", "clear", "enable", "on", "start",
             "off", "power"}

(* No MAC_ASSERT of the low-level MAC fires: no transmit or receive begins *)
(* on top of another, no program is loaded over one whose end is awaited,  *)
(* the channel never changes under a transmit and no queued frame starts   *)
(* in the middle of a receive; and each request is completed only once.    *)
AssertsHold == ~r.failed

(* Between receives, the flag of an outgoing ACK, which keeps the receiver *)
(* on and holds up transmits, changes of power and sleep, is set only      *)
(* while that ACK is sent or its end is still to be handled, and a         *)
(* transmit that begins is not about to clear it.                          *)
AckAwaited ==
  r.ack /\ r.rx = "none" /\ pc # "clear" =>
    "ackdone" \in r.im /\ (r.acking \/ "ackdone" \in r.flags)

(* macTxFrame queues a frame behind a receive or an outgoing ACK: whatever *)
(* ends those starts it.  With nothing left to send or receive, all that   *)
(* had to wait has been done: the power asked for is set, the receiver is  *)
(* on only if something keeps it on, and the next frame is not taken for a *)
(* repetition of the last.                                                 *)
QueuedHasCause == r.tx = "queued" => r.rx # "none" \/ r.ack
SettledWhenIdle ==
  pc = "idle" /\ r.tx = "none" /\ r.rx = "none" /\ ~r.ack /\ r.sleep = "awake"
    => ~r.powDue /\ ~r.retx /\ (r.on => r.en # {})
NothingForgotten == QueuedHasCause /\ SettledWhenIdle

(* Every request to transmit is completed towards the high-level MAC.      *)
TxEnds == r.owed ~> ~r.owed
=============================================================================
