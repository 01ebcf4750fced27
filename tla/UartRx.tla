------------------------------- MODULE UartRx -------------------------------
(***************************************************************************)
(* Receiving by the UART with DMA (_hal_uart_dma.c): the channel fills a   *)
(* ring without end and without asking, and leaves a mark with every byte. *)
(* The main loop polls the driver, which reports that many bytes are there *)
(* or that the line has been quiet for a while; the application's          *)
(* call-back (serial-comm.c) then reads what it has room for and takes the *)
(* marks away.                                                             *)
(*                                                                         *)
(* A tick is one of the sleep timer, at 32 kHz, in which at most one byte  *)
(* comes.  Bytes are numbered in the order they come.                      *)
(***************************************************************************)
EXTENDS Naturals, FiniteSetsExt

CONSTANTS
  RX_MAX,      \* HAL_UART_DMA_RX_MAX
  HIGH,        \* HAL_UART_DMA_HIGH: so many bytes are reported at once
  IDLE,        \* HAL_UART_DMA_IDLE: the ticks after which a line is idle
  ST0_MOD,     \* 256: the shadow holds a byte of the sleep timer
  READ_MAX,    \* SERIAL_COM_TX_MAX: what the call-back reads at most
  MaxGap,      \* the ticks between two polls, at most
  LastByte     \* bound: bytes are numbered from 0 to LastByte, and again

UartRxAssumption ==
  /\ {RX_MAX, HIGH, IDLE, ST0_MOD, READ_MAX, MaxGap, LastByte} \subseteq Nat \ {0}
  /\ HIGH < RX_MAX /\ IDLE < ST0_MOD /\ MaxGap < ST0_MOD /\ LastByte >= RX_MAX

Byte == 0..LastByte
None == LastByte + 1                 \* the inverse of the mark: nothing new
Index == 0..RX_MAX - 1

VARIABLES
  pc,                \* where the main loop is in the driver
  rxBuf, rxHead, rxTail,
  rxTick,            \* the ticks until the line counts as idle, or 0
  ago,               \* how far the sleep timer's byte is from rxShdw
  room,              \* what the call-back still reads
  dest,              \* the index that the channel writes to next
  next,              \* ghost: the number of the next byte
  quiet,             \* ghost: the ticks since the last byte, up to IDLE
  gap,               \* ghost: the ticks since the last poll
  due                \* whether another byte may come in this tick

driver == <<pc, rxBuf, rxHead, rxTail, rxTick, ago, room>>
vars == <<driver, dest, next, quiet, gap, due>>

Init ==
  /\ pc = "idle" /\ rxBuf = [i \in Index |-> None]
  /\ rxHead = 0 /\ rxTail = 0 /\ rxTick = 0 /\ ago = 0 /\ room = 0
  /\ dest = 0 /\ next = 0 /\ quiet = IDLE /\ gap = 0 /\ due = TRUE

New(i) == rxBuf[i] # None
After(i, n) == (i + n) % RX_MAX

(* The bytes from rxHead on, up to the first place without one *)
Run == Min({n \in 0..RX_MAX : n = RX_MAX \/ ~New(After(rxHead, n))})
FindTail == After(rxHead, Run)
RxAvail == Cardinality({i \in Index : New(i)})

-----------------------------------------------------------------------------
(* HalUARTPollDMA *)

(* Mutant: whatever is found in the ring counts as more. *)
AnyByte(tail) == TRUE
MoreBytes(tail) == rxTail # tail

(* More bytes start the idle time anew; but the shadow from which it is    *)
(* measured is set only by the first ones.                                 *)
Restarted(tail) ==
  /\ rxTail' = tail /\ rxTick' = IDLE
  /\ ago' = IF rxTick = 0 THEN 0 ELSE ago

CountedDown ==
  /\ UNCHANGED rxTail
  /\ IF rxTick > ago
     THEN rxTick' = rxTick - ago /\ ago' = 0
     ELSE rxTick' = 0 /\ UNCHANGED ago

PollTime ==
  /\ pc = "idle" /\ gap' = 0
  /\ \/ /\ New(rxHead) /\ pc' = "timed"
        /\ IF MoreBytes(FindTail) THEN Restarted(FindTail) ELSE CountedDown
     \/ /\ ~New(rxHead) /\ rxTick' = 0
        /\ UNCHANGED <<pc, rxTail, ago>>
  /\ UNCHANGED <<rxBuf, rxHead, room, dest, next, quiet, due>>

(* The bytes are counted after that, and a byte may have come in between.  *)
Reports == RxAvail >= HIGH \/ rxTick = 0

PollReport ==
  /\ pc = "timed"
  /\ IF Reports
     THEN pc' = "callback" /\ room' = READ_MAX
     ELSE pc' = "idle" /\ UNCHANGED room
  /\ UNCHANGED <<rxBuf, rxHead, rxTail, rxTick, ago, dest, next, quiet, gap, due>>

(* HalUARTReadDMA, for SerialTx_CallBack *)
MarkStays == rxBuf
MarkCleared == [rxBuf EXCEPT ![rxHead] = None]

ReadByte ==
  /\ pc = "callback" /\ room > 0 /\ New(rxHead)
  /\ rxBuf' = MarkCleared /\ rxHead' = After(rxHead, 1) /\ room' = room - 1
  /\ UNCHANGED <<pc, rxTail, rxTick, ago, dest, next, quiet, gap, due>>

ReadDone ==
  /\ pc = "callback" /\ (room = 0 \/ ~New(rxHead))
  /\ pc' = "idle" /\ room' = 0
  /\ UNCHANGED <<rxBuf, rxHead, rxTail, rxTick, ago, dest, next, quiet, gap, due>>

Driver == PollTime \/ PollReport \/ ReadByte \/ ReadDone

-----------------------------------------------------------------------------
(* The channel and the time *)

Arrive ==
  /\ due /\ due' = FALSE /\ quiet' = 0
  /\ rxBuf' = [rxBuf EXCEPT ![dest] = next]
  /\ dest' = After(dest, 1) /\ next' = (next + 1) % (LastByte + 1)
  /\ UNCHANGED <<pc, rxHead, rxTail, rxTick, ago, room, gap>>

Tick ==
  /\ gap < MaxGap /\ gap' = gap + 1 /\ due' = TRUE
  /\ ago' = (ago + 1) % ST0_MOD
  /\ quiet' = IF quiet < IDLE THEN quiet + 1 ELSE IDLE
  /\ UNCHANGED <<pc, rxBuf, rxHead, rxTail, rxTick, room, dest, next>>

Next == Driver \/ Arrive \/ Tick

(* The main loop goes on, and time passes. *)
Spec == Init /\ [][Next]_vars /\ WF_vars(Driver) /\ WF_vars(Tick)

-----------------------------------------------------------------------------
(* Properties *)

(* What has come and is not yet read: every byte is read once, in order,   *)
(* and none is overwritten before (findTail, HalUARTReadDMA).              *)
queue == [n \in 1..Run |-> rxBuf[After(rxHead, n - 1)]]
Fifo == INSTANCE ByteFifo WITH MaxBlock <- 1
ImplementsFifo == Fifo!Spec

(* No byte is left lying in the ring: until it is empty the call-back      *)
(* comes to read again and again, because the line becomes idle or more    *)
(* bytes come (HalUARTPollDMA).                                            *)
AllRead == []<>(pc = "callback" \/ RxAvail = 0)

(* "If the DMA has transferred in more Rx bytes, reset the Rx idle timer." *)
(* (_hal_uart_dma.c:621): the line counts as idle when no byte has come    *)
(* for the idle time, but for the tick that is under way.                  *)
IdleMeansQuiet == [][PollTime /\ New(rxHead) /\ rxTick' = 0 => rxTick = 0 \/ quiet + 1 >= IDLE]_vars
=============================================================================
