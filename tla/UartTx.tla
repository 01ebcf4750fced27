------------------------------- MODULE UartTx -------------------------------
(***************************************************************************)
(* Sending by the UART with DMA (_hal_uart_dma.c): the caller fills one of *)
(* two buffers while the DMA channel copies the other one to the UART, the *)
(* main loop polls the driver, and an interrupt tells that the channel has *)
(* copied its last byte.                                                   *)
(*                                                                         *)
(* That byte then waits in the UART's register until the one before it has *)
(* left, and must not be overwritten by the next buffer's first byte: the  *)
(* driver lets the time of a character pass.  A tick is one of the sleep   *)
(* timer, at 32 kHz.  Bytes are numbered in the order they are written.    *)
(***************************************************************************)
EXTENDS Naturals, Sequences

CONSTANTS
  TX_MAX,       \* HAL_UART_DMA_TX_MAX
  TxTick,       \* txTick: the ticks of a character, rounded up
  ST0_MOD,      \* 256: the shadow holds a byte of the sleep timer
  LastByte          \* bound: bytes are numbered from 0 to LastByte, and again

ASSUME UartAssumption ==
  /\ {TX_MAX, TxTick, ST0_MOD, LastByte} \subseteq Nat \ {0}
  /\ TxTick > 1 /\ ST0_MOD > TxTick + 1
  /\ LastByte > 2 * TX_MAX + 1

Byte == 0..LastByte
None == LastByte + 1                 \* no byte

VARIABLES
  txPc,            \* where the main loop is in the driver
  top,           \* HalUARTWriteDMA's txIdx
  txBuf, txIdx, txSel,
  txDMAPending,
  txShdw,        \* txShdwValid, and how far the sleep timer's byte is from txShdw
  dma,           \* the channel: armed, triggered, its source and length
  irq,           \* its interrupt flag
  udbuf,         \* the UART's register
  shift,         \* the character on the line, and the ticks it still takes
  written        \* ghost: the number of the next byte

driver == <<txPc, top, txBuf, txIdx, txSel, txDMAPending, txShdw>>
txVars == <<driver, dma, irq, udbuf, shift, written>>

Buffer == {0, 1}
Other(b) == 1 - b

TxInit ==
  /\ txPc = "idle" /\ top = 0
  /\ txBuf = [b \in Buffer |-> [i \in 1..TX_MAX |-> 0]]
  /\ txIdx = [b \in Buffer |-> 0] /\ txSel = 0
  /\ txDMAPending = FALSE
  /\ txShdw = [valid |-> FALSE, ago |-> 0]
  /\ dma = [armed |-> FALSE, trig |-> FALSE, from |-> 0, next |-> 1, len |-> 0]
  /\ irq = FALSE
  /\ udbuf = None
  /\ shift = [byte |-> None, left |-> 0]
  /\ written = 0

-----------------------------------------------------------------------------
(* HalUARTWriteDMA: all or none.  The block is copied behind what the       *)
(* selected buffer holds ...                                                *)
Copy ==
  /\ txPc = "idle"
  /\ \E len \in 1..(TX_MAX - txIdx[txSel]) :
       LET txIdx0 == txIdx[txSel]
       IN  /\ txBuf' = [txBuf EXCEPT ![txSel] =
                          [i \in 1..TX_MAX |->
                             IF i \in (txIdx0 + 1)..(txIdx0 + len)
                             THEN (written + i - txIdx0 - 1) % (LastByte + 1) ELSE @[i]]]
           /\ top' = txIdx0 + len
           /\ written' = (written + len) % (LastByte + 1)
  /\ txPc' = "copied"
  /\ UNCHANGED <<txIdx, txSel, txDMAPending, txShdw, dma, irq, udbuf, shift>>

(* ... and belongs to it, with interrupts disabled, from here on.           *)
Commit ==
  /\ txPc = "copied" /\ txPc' = "idle"
  /\ txIdx' = [txIdx EXCEPT ![txSel] = top]
  /\ txDMAPending' = (txDMAPending \/ txIdx[Other(txSel)] = 0)
  /\ top' = 0
  /\ UNCHANGED <<txBuf, txSel, txShdw, dma, irq, udbuf, shift, written>>

-----------------------------------------------------------------------------
(* Mutant: what was written meanwhile is not asked for. *)
TxDoneOnly ==
  /\ irq' = FALSE
  /\ txIdx' = [txIdx EXCEPT ![Other(txSel)] = 0]
  /\ txShdw' = [valid |-> TRUE, ago |-> 0]
  /\ UNCHANGED txDMAPending

(* HalUARTIsrDMA: the other buffer is free, and the character time starts. *)
TxDone ==
  /\ irq' = FALSE
  /\ txIdx' = [txIdx EXCEPT ![Other(txSel)] = 0]
  /\ txShdw' = [valid |-> TRUE, ago |-> 0]
  /\ txDMAPending' = (txDMAPending \/ txIdx[txSel] # 0)

DmaIsr ==
  /\ irq
  /\ TxDone
  /\ UNCHANGED <<txPc, top, txBuf, txSel, dma, udbuf, shift, written>>

(* Mutant: the time of a character need not have passed in full. *)
PassedEarly == txShdw.ago >= TxTick
Passed == txShdw.ago > TxTick

(* HalUARTPollDMA: the shadow is dropped once the time has passed ... *)
PollTime ==
  /\ txPc = "idle" /\ txPc' = "polled"
  /\ txShdw' = IF Passed THEN [valid |-> FALSE, ago |-> 0] ELSE txShdw
  /\ UNCHANGED <<top, txBuf, txIdx, txSel, txDMAPending, dma, irq, udbuf, shift,
                 written>>

Fires == txDMAPending /\ ~txShdw.valid

(* ... then the selected buffer is given to the channel, and the buffers    *)
(* change places ...                                                        *)
PollFire ==
  /\ txPc = "polled" /\ Fires
  /\ txPc' = "idle"
  /\ txDMAPending' = FALSE
  /\ dma' = [armed |-> TRUE, trig |-> TRUE, from |-> txSel, next |-> 1, len |-> txIdx[txSel]]
  /\ txSel' = Other(txSel)
  /\ irq' = FALSE
  /\ UNCHANGED <<top, txBuf, txIdx, txShdw, udbuf, shift, written>>

(* ... or, with data to send and an idle channel, the interrupt's function  *)
(* is called, which starts the time anew.                                   *)
PollIdle ==
  /\ txPc = "polled" /\ ~Fires
  /\ txPc' = "idle"
  /\ IF txIdx[txSel] # 0 /\ ~dma.armed /\ ~irq
     THEN TxDone
     ELSE UNCHANGED <<irq, txIdx, txShdw, txDMAPending>>
  /\ UNCHANGED <<top, txBuf, txSel, dma, udbuf, shift, written>>

-----------------------------------------------------------------------------
(* The hardware *)

(* A trigger moves a byte; the last one disarms the channel. *)
DmaByte ==
  /\ dma.trig
  /\ udbuf' = txBuf[dma.from][dma.next]
  /\ IF dma.next = dma.len
     THEN dma' = [dma EXCEPT !.armed = FALSE, !.trig = FALSE] /\ irq' = TRUE
     ELSE dma' = [dma EXCEPT !.trig = FALSE, !.next = @ + 1] /\ UNCHANGED irq
  /\ UNCHANGED <<driver, shift, written>>

Loads == udbuf # None /\ shift.byte = None

(* The register is free again, which triggers the channel. *)
Load ==
  /\ Loads
  /\ \E ticks \in {TxTick - 1, TxTick} : shift' = [byte |-> udbuf, left |-> ticks]
  /\ udbuf' = None
  /\ dma' = [dma EXCEPT !.trig = dma.armed]
  /\ UNCHANGED <<driver, irq, written>>

(* The stop bit has gone out. *)
Sent ==
  /\ shift.byte # None /\ shift.left = 0
  /\ shift' = [shift EXCEPT !.byte = None]
  /\ UNCHANGED <<driver, dma, irq, udbuf, written>>

Tick ==
  /\ ~(shift.byte # None /\ shift.left = 0) /\ ~Loads /\ ~dma.trig
  /\ txShdw' = [txShdw EXCEPT !.ago = IF txShdw.valid THEN (@ + 1) % ST0_MOD ELSE 0]
  /\ shift' = [shift EXCEPT !.left = IF @ = 0 THEN 0 ELSE @ - 1]
  /\ UNCHANGED <<txPc, top, txBuf, txIdx, txSel, txDMAPending, dma, irq, udbuf, written>>

-----------------------------------------------------------------------------
Poll == PollTime \/ PollFire \/ PollIdle
Hardware == DmaByte \/ Load \/ Sent

TxNext == Copy \/ Commit \/ DmaIsr \/ Poll \/ Hardware \/ Tick

(* The main loop polls the driver, at any pace; time and the hardware go on. *)
Polled == WF_txVars(Commit) /\ WF_txVars(Poll) /\ WF_txVars(DmaIsr) /\ WF_txVars(Hardware)
          /\ WF_txVars(Tick)

PolledSpec == TxInit /\ [][TxNext]_txVars /\ Polled

-----------------------------------------------------------------------------
TxTypeOK ==
  /\ txPc \in {"idle", "copied", "polled"} /\ top \in 0..TX_MAX
  /\ txBuf \in [Buffer -> [1..TX_MAX -> Byte]] /\ txIdx \in [Buffer -> 0..TX_MAX]
  /\ txSel \in Buffer /\ txDMAPending \in BOOLEAN
  /\ txShdw \in [valid : BOOLEAN, ago : 0..(ST0_MOD - 1)]
  /\ dma \in [armed : BOOLEAN, trig : BOOLEAN, from : Buffer, next : 1..TX_MAX,
              len : 0..TX_MAX]
  /\ irq \in BOOLEAN /\ udbuf \in Byte \cup {None}
  /\ shift \in [byte : Byte \cup {None}, left : 0..TxTick]
  /\ written \in Byte

Held(byte) == IF byte = None THEN <<>> ELSE <<byte>>

unsent ==
  Held(shift.byte) \o Held(udbuf)
  \o (IF dma.armed THEN SubSeq(txBuf[dma.from], dma.next, dma.len) ELSE <<>>)
  \o SubSeq(txBuf[txSel], 1, IF txPc = "copied" THEN top ELSE txIdx[txSel])

(* What was written leaves on the line once, in order: a buffer is not     *)
(* filled while the channel reads it, and the UART's register is not       *)
(* overwritten.                                                            *)
Fifo == INSTANCE ByteFifo WITH queue <- unsent, MaxBlock <- TX_MAX
ImplementsFifo == Fifo!Spec

Waits(byte) == \E i \in 1..Len(unsent) : unsent[i] = byte

(* The channel is idle, its interrupt served and there is data to send, but *)
(* the time of a character runs: each poll has seen less of it than that,   *)
(* and has started it anew.                                                 *)
HeldBack ==
  /\ txDMAPending /\ txShdw.valid /\ txIdx[txSel] # 0
  /\ ~dma.armed /\ ~irq

(* A byte that was taken is sent, unless from some time on each poll comes  *)
(* within a character's time of the one before: that alone, which nothing   *)
(* in the driver or the main loop rules out, starves the line; no meeting   *)
(* of write, poll and interrupt strands a byte.  It is said of the byte     *)
(* numbered 0: any byte may be, since the numbers only tell them apart.     *)
AllSent == []<>~Waits(0) \/ <>[]HeldBack
=============================================================================
