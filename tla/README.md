# TLA+ models of the SmartApp firmware (ZStack-Smart 2.5.2b, CC2530)

This directory holds the formal models of the repository: TLA+ modules that
follow its C code, TLC configurations that check them on small instances, and
proofs checked by TLAPS. Paths below are relative to
`src/ZStack-Smart-2.5.2b/`; `SmartApp/` stands for
`Projects/zstack/Applications/SmartApp/Source/`.

## The system

The firmware is a single cooperative loop (`osal_start_system`) on an 8051
without an MMU. Everything the devices do is a reaction to an OSAL event bit.
Interrupts (system clock, port 1, UART, DMA, radio) run between any two
instructions outside a critical section.

| Part | State | Operations | Hard behaviour | Module |
|---|---|---|---|---|
| User events, `SmartApp/Manage/Callbacks/api_events.c` | list of heap entries, map event -> entry, 7-bit counts | `set_user_event`, `update_user_event`, `process_event` | callbacks and the port interrupt call back into it; entries are freed while it scans; counts wrap | `UserEvents` |
| OSAL events, scheduler and messages, `Components/osal/common/OSAL.c` | `tasksEvents`, active task, queue | set and clear events, send, receive, find, run | one event bit for any number of messages; strict priority; a message changed in place | `OsalMsg` |
| OSAL timers, `.../OSAL_Timers.c` | list of timer records | start, reload, stop, update, next time-out | records are deleted lazily; `osal_set_event` outside the critical section | `OsalTimers` |
| OSAL heap, `.../OSAL_Memory.c` | block headers, first free block | init, kick, alloc, free | merging during a walk that may begin in the middle; a cached start | `OsalMemory` |
| Power and clock, `OSAL_PwrMgr.c`, `hal_sleep.c`, `hal_drivers.c`, `mac_mcu.c` | battery flag, sleep time, timer counts | decide, sleep, wake, read the count | interrupts between the decision and the sleep; rollovers met twice or not at all | `PowerSave` |
| NV memory, `Components/osal/mcu/cc2530/OSAL_Nv.c` | flash pages of items | init, write, delete, compaction | power loss between any two flash words | `OsalNv` |
| UART by DMA, `Components/hal/target/CC2530EB/_hal_uart_dma.c` | two transmit buffers, a receive ring | write, poll, interrupt, read | the channel reads and writes memory between any two statements | `UartTx`, `UartRx` |
| Low-level MAC, `Components/mac/low_level/srf04` | transmit, receive and ACK flags, radio | transmit, receive, sleep, reset, interrupts | the radio's interrupts and those of its strobe processor against the task | `MacRadio` |
| Device life cycle, `SmartApp/Common/CommonApp.c`, `Components/stack/zdo/ZDApp.c` | NV records, network state | power-on factory setting, join, authenticate, rejoin, leave | counting power cycles in NV; sequences cut by power loss | `DeviceLife` |
| Frame counters, `ZDApp.c`, `ZDSecMgr.c` | counters in RAM, copies in NV | count, save, restore | the copy lags behind frames not yet counted or saved; a restart goes on from it | `FrameCounters` |
| End device bind, `ZDObject.c`, `ZDApp.c` | the match in progress, transaction number | request, answers, time-out | orders of two devices answered late, lost or in another order | `EndDeviceBind` |
| Binding table, `Components/stack/nwk/BindingTable.c` | entries with cluster lists, NV copy | bind, unbind, remove a device, save, restore | saves cut short mix two tables | `BindTable` |
| Super button pairing, `SmartApp/Device/{SuperButton_DeviceDataCtrl,ConnectorApp,EndnodeApp}.c` | pairing mode, lists, NV copy | pair, register, match, reset | three parties, messages lost, events re-armed in between | `Pairing` |
| GPRS link, `SmartApp/Common/TransconnApp.c` | state, step, delay | answers, keys, uploads | answers not matched with commands | `GprsLink` |
| Permit join, heart beat, `CommonApp.c` | duration, events | start, stop | widths of durations | – |
| Frames, `SmartApp/Manage/frame-analysis.c`, `SmartApp/Common/Transconn/protocol` | static buffers | parse, package | shared buffers | – |
| Device controllers and drivers, `SmartApp/Device`, `SmartApp/Manage` | actuator and sensor state | set and get data | hardware access | – |

The user events are the centre of the application: every periodic or delayed
thing a device does (heart beat, periodic queries, debouncing, pairing window,
GPRS steps) is one of their entries. They rest on the OSAL timers and event
bits, those on the clock. Messages between tasks and from the radio use the
OSAL queue and its heap; what must survive a reset is in NV memory; what goes
over the air passes the low-level MAC, what goes to a host or a modem the UART.

### What makes each part correct

- **User events**: pointers in list, map and scan never dangle; no event owns
  two entries; an armed entry always has a timer or event bit that will run it;
  a one-shot runs no more often than it was armed for; loops go on for ever.
- **OSAL timers**: one record per timer, however starts, stops and the walk
  interleave; no timer is early, late or lost.
- **OSAL messages**: the one event bit per task never strands a message; tasks
  get their messages in order; the application learns the last network state.
- **Heap**: blocks tile the heap whatever was merged and split; an allocation
  fails only if no run of free blocks is long enough.
- **Power and clock**: no event or timer waits for a sleeper; each rollover of
  the MAC timer is counted once, up to the wrap of the 32-bit count.
- **NV memory**: at every loss of power an item has its old or its new value;
  the page in reserve is restored; what is cached in RAM agrees with the flash.
- **UART**: bytes go out and come in once and in order, and none is left unsent
  by a driver that is given the time to send it.
- **Low-level MAC**: its assertions hold, each transmit is completed, nothing is
  left queued or waiting in a receiver that is idle.
- **Device life cycle**: the counter of power-ups never runs ahead of the
  truth; the network is forgotten only for a cause; a device waiting for its
  key is timed; a device outside a network will try again.
- **Frame counters**: with the same key no more counters are used twice than
  there were frames not counted, or not saved, when the power failed.
- **End device bind**: a completed match has toggled the bindings of both
  devices or of neither; a coordinator that is busy with one has a time-out.
- **Binding table**: it is a set of bindings, refuses only when full, and a save
  cut short invents none.
- **Pairing**: a pairing mode and a listing come to an end; what a button sends
  to is stored.
- **GPRS link**: a set-up that was begun connects.

Every hazard met while reading is listed in `PROJECT.json` at its line, with
the properties that cover it or a note why none does.

## Plan

| # | Module | Composes with | Abstract specification | Theorems |
|---|---|---|---|---|
| 1 | `UserEvents` | OSAL event bits and one-shot timers, inside | none: its properties are the promises of the header | pointers, one entry, trigger, budget |
| 2 | `OsalTimers` | refines `TimerTable` | a set of running timers | punctuality, uniqueness, refinement |
| 3 | `OsalMsg` | refines `Mailboxes` | one FIFO per task | nothing stranded, state known, refinement |
| 4 | `OsalNv` | refines `NvStore` | a map from ids to values, and calls that take effect at one moment | settled between calls, durable, refinement |
| 5 | `DeviceLife` | rests on `OsalNv`'s atomic writes and `OsalMsg`'s report | none | counter, causes, timed wait, hold, awake |
| 6 | `MacRadio` | receive, transmit, strobe processor | none | assertions, nothing forgotten |
| 7 | `OsalMemory` | refines `Allocator` | a set of disjoint blocks | heap sound, null means full |
| 8 | `PowerSave` | timers, sleep, MAC timer (`SleepyDevice` gives its names a prefix) | none | clock, no event for a sleeper |
| 9 | `Pairing` | button, connector, device, host; user events inside | none | listing ends, bound is stored |
| 10 | `UartTx`, `UartRx` | refine `ByteFifo` | a queue of bytes | both refinements |
| 11 | `EndDeviceBind` | coordinator and two devices | none | toggled alike, timed |
| 12 | `BindTable` | refines `Bindings` | a set of bindings | a binding has one entry |
| 13 | `FrameCounters` | key of the network and of the trust center | none | how many counters repeat |
| 14 | `GprsLink` | gateway and modem | none | – |

All of these are done. Left for later: frames in shared buffers, permit join, the controllers
that keep state (curtain, lamps), routers and coordinators in `DeviceLife`.

## The modules

### `UserEvents` (with `MC_UserEvents`, `MC_Boards`, `MC_UserEventBoards`)

`list`, `node`, `map` are `puser_event`, the heap entries and `userevent_map`;
`timers` and `bits` are the OSAL's. `MainCall`, `IsrCall` and `CallbackCall`
are a whole call of `set_user_event` or `update_user_event` from a handler, the
port interrupt or a callback. `process_event` is split where an interrupt or a
callback can change what it has read: `ScanEnd/ScanMatch/ScanSpent/ScanSkip`,
`Advance`, `CallbackReturn`, `CheckCount`, `Decrement`, `Rearm`, `Return`. The
calls are those the boards make, read off the sources and written as tables in
`MC_Boards`, with ranks for durations.

`Query_User_Event` begins with `puser_event` and does not look whether it is NULL
(`api_events.c:187-191`). `FollowsNull` is an update that finds no mapping and an empty
list: it reads on from address 0. What lies there is not known, so the call either goes on as if
the event were not in the list or goes `Astray`, after which the model says nothing
(`pc = "lost"`).

History: `left`, the runs that the last arming still allows.

### `OsalTimers` and `TimerTable`

`recs` is the list at `timerHead`; `pos`, `step` and `freed` are the locals of
`osalTimerUpdate`. Each action is one critical section: `BeginUpdate`,
`ReadHead`, `TickOn/TickReload/TickOut` (one record), `Notify` (the
`osal_set_event` after the section, and the free), `EndUpdate`; `StartTimer`,
`StartReload` and `StopTimer` come between any two of them. `age`, `want` and
`slack` are history. `TimerTable` has no list: a set of running timers.

### `OsalMsg` and `Mailboxes`

The loop of `osal_run_system` with its handlers: `Look`, `TakeEvents`,
`Receive`, `ReceiveNone`, `ProcessNetwork`, `ProcessOther`, `BeginReport`,
`Report` (one end point), `EndReport`, `Return`. `Interrupt` sets a bit at any
time. Messages are sent from task context only, which is so in all callers of
the repository, so the heap and the queue need no finer steps. The network
library is the task `Net` that receives from the radio and moves `devState`.

### `OsalMemory` and `Allocator`

`blk` maps the places of the headers to length and mark; `ff1` and
`osalMemStat` are the code's. Allocation and release are critical sections, but
their walk is a loop: `WalkUsed`, `WalkFree`, `WalkMerge` and `WalkNothing` are
one turn each, so that the invariant can be stated of every turn; `AllocDone`,
`AllocNull`, `Free`, `KickDone` end a call. `Allocator` knows only the blocks
handed out. Sizes: a header of one byte instead of two keeps the same
relations. Left out: the profiler and the metrics, and a size whose sum with the
header wraps a `uint16`.

### `PowerSave`

`pc` follows `osal_pwrmgr_powerconserve` into `halSleep`: the scan of the tasks,
the reading of the next time-outs, the write to PCON with interrupts enabled
again, the sleep and the wake-up, each interruptible by the keys' interrupt,
the MAC timer and the sleep timer. `t2` and `count` are the MAC timer and the
overflows counted (`macMcuPrecisionCount`), `clock` what OSAL has been told,
`lag` and `wrapping` are history: the ticks since the clock was read, and whether the
32-bit count has come near its wrap. The division by 25 has room for 16 bits (`QUOTIENT`). The next time-out of the MAC and its
refusal to sleep are its library's. A device in deep sleep has no clock.

### `OsalNv` and `NvStore`

`flash` holds, per page, the header's marks and the list of items with id,
size, value (`Blank` until data and checksum are there) and the mark `old`.
`off`, `lost`, `res`, `hot` are the counters and caches in RAM. Every flash
word is a step of its own: `WriteHeader`, `SetXfer`, `CopyHeader`, `CopyData`,
`NewHeader`, `MarkOld`, `NewData`, `ZeroOld`, `CleanupUse`, `CleanupErase`; and
`initNV` is `PutInUse`, `ResumeCompaction` or `DropOldPage` or `CleanReserve`
or `NoReserve`, `ZeroItem`, `CountItems`, `FindReserve`. `PowerFails` comes
before any of them; `EraseFails` leaves a page with any of the marks in `Torn`.

`NvStore` has no pages: a call begins, takes effect at one moment (`Commit`), and
returns not before it has; only calls change items, and a start or a loss of power changes none,
though it may cut a call off. `Mode` maps a start to "down", `idle` to "ready" and a
call to "busy"; the value of an item is what `osal_nv_read` would find after the
next start (`Stored`). So compaction, the zeroing of copies and the whole of
`initNV` must stutter, and of all words of a write only one may commit.

Abstractions: a flash word is written as a whole and never fails to program;
the refusal of a write at low voltage changes nothing and is left out; a write
to a part of an item copies the rest and is a whole write here; the order in
which items are zeroed at a start does not matter and is free; a call that
finds no room is not enabled; an interrupted erasure loses the marks and
keeps the items; an erroneous length in a header, at which the walk of a page
stops, is not produced.

### `UartTx`, `UartRx` and `ByteFifo`

`UartTx` has the two buffers of `dmaCfg`, the selected one, the pending
request and the shadow of the sleep timer that keeps the next buffer from
overwriting the last byte of the one before. `Copy` and `Commit` are the halves
of `HalUARTWriteDMA`, inside and outside its critical section; `DmaIsr` is the
channel's interrupt; `Poll*` the parts of `HalUARTPollDMA`; `DmaByte`, `Load`,
`Sent`, `Tick` the hardware. `UartRx` has the ring, whose places carry a mark
that the channel sets with each byte and the reader takes away; `PollTime` and
`PollReport` are the two looks that a poll takes at the ring, `ReadByte` and
`ReadDone` the reading by `SerialTx_CallBack`; `Arrive` comes between any two.
`ago` is the distance of the shadow from the timer, `quiet` and `gap` are
history. Both refine the same queue of bytes. Left out: the notice that the
transmitter is empty, and the retry in `HalUARTWriteDMA`, which cannot be reached.

### `MacRadio`

`MacTxFrame`, `MacTxPrepare`, `MacTxDecide`, `MacTxGo` are `macTxFrame` and
`txGo` between their critical sections; `RxStartIsr`, `RxPartIsr`, `RxFcsIsr`,
`RxDiscardIsr` the states of the receive interrupt as the FIFO fills; `StopIsr`,
`IntIsr` the interrupts of the strobe processor, `AckTxDone` that of an outgoing
acknowledgement. `CspStops`, `ClearChannel`, `FrameDelimiter`, `FrameSent`,
`AckTimeout` are its program, which `macCspTxPrep...` loads. `RfIsr` handles all
flags that are up, in the order of the code. Constants choose the shapes of
frames, the back-offs, whether the interrupt may be as late as an
acknowledgement is long (`SlowIsr`), and whether a reset comes at any time
(`ResetAnytime`). The builds use neither slotted CSMA nor MAC security; both are left out.

### `DeviceLife`

An end device. `devState` and `devStartMode` are ZDApp's; `events` and `armed`
are its event word and its timers, `mail` its message queue, `request` what the
network layer is asked for. `nv` holds the items that decide the next start,
and `writes` what the running handler has still to write to them: RAM changes
in one step, since handlers run to completion, NV memory item by item, since
the power may fail in between. `NetworkInit`, `StateChange`, `UpdateNv`,
`DeviceReset`, `DeviceAuth`, `DiscoveryDone`, `Joined`, `NotJoined` and `Rejoin`
are the branches of `ZDApp_event_loop`; `StateReport`, `SettingTimeout`,
`RejoinPower`, `KeyReset` and `KeyStart` those of the application;
`StartUp` and `InitConfirm` the two starts of one boot (`ZDApp_Init`, then
`CommonApp_InitConfirm`); the rest is the network layer.

Abstractions: timers have no durations and expire in any order; the keys held
at boot that bypass the NV restore are left out; the extended PAN identifier
is not configured, so a device without a network joins rather than rejoins;
`MAX_RESUME_RETRY` is never reached because the first failure ends the
resuming; the 8-bit counter saturates in the model, in the code it would
need 256 interrupted starts to wrap; intermediate states of `devState` that no
message reports are kept in ZDApp only.

History: `starts`, the power-ups since a network was last recorded;
`asked`, whether a reset, a leave or a time-out asks for a fresh network.

### `FrameCounters`

`nwkFrameCounter` and `nwkFrameCounterChanges` are the network key's counter and
ZDApp's count of its changes, `nwkSaved` the copy in NV memory, `nwkChange` the event;
`txFrmCntr`, `tclkSaved` and `tclkChange` are those of the trust center's link key. The
libraries secure any number of frames before an event is handled, the power fails and
the network answers at any moment, and the save of the link key may find no
memory. `nwkSeen` and `tclkSeen` are history: the least counter the receivers still accept;
so are `nwkUncounted` and `tclkUnsaved`, the frames that are missing in NV memory, and `nwkLost`
and `tclkLost`, the most of them that a restore has missed. `Coordinator` chooses a device that
forms a network or one that joins. Left out: the wrap of the counters, the counters of APS link
keys (another security mode), and a reset of the configuration, which starts with a new key.

### `EndDeviceBind`

The coordinator's `matchED` (`ZDMatchEndDeviceBind`, `ZDMatchSendState` and its time-out)
and two devices that press their keys and toggle a binding when ordered. `net`
is a set, so messages are lost, late and in any order. Assumed: no message outlives a
whole round of transaction numbers (256 in the code), allocations succeed.
`start` is history: the bindings when the match began.

### `BindTable` and `Bindings`

`BindingTable` is the array with entries of source, destination and a bounded
list of clusters, `records` and `numRecs` the NV item, whose header is written
last. `WriteStops(n)` is a power failure after n records, with the restart that
follows. `Bindings` is a set of triples; it promises less once a cut-short save
has left a destination twice. Assumed: room in the address manager, whose source is
not in the repository. Left out: `bindUpdateAddr` and `bindRemoveSrcDev`, which
only libraries call.

### `Pairing` (with `MC_PairingReset`)

Button, device, connector and host with their short addresses, messages that may
be lost and overtaken, the button's user event and the connector's (each with
count, bit and timer, served as `UserEvents` has it), the button's list in RAM and in NV.
`Rejoin` gives a unit another address, `Restart` empties its RAM.

### `GprsLink`

`gprs_states` and `gprs_Step` are the code's, `delay` is `TIMER_DELAY_EVENT`.
`Receive` takes a chunk from the line, of which only the end is looked at
(`TransconnApp_TxHandler`), `Expire` sends the command of the step,
`Uploads` and the modem's `"> "` are the two steps of a packet, `KeySetUp` and
`KeyShut` the keys. The modem takes one command at a time, echoes it or not, accepts or refuses,
loses its link, stops and starts anew. Assumed: the line loses
nothing; a delay (200 ms or 3 s) is longer than what it takes to read an
answer that is on the line; no frame comes in the same chunk behind an answer
(`FramesApart`).

### Composite modules for TLC

A run answers the questions of several parts. `MC_Tasks`, `MC_Bindings`,
`MC_DeviceLife`, `MC_OsalTimers` and `Platform` (with its instance `MC_Platform`)
hold several modules and a
variable `part`, chosen at the start and kept: the chosen part moves, the
others stand still in their initial states. So the parts do not interact, each part's
states are exactly those of its module alone, and its properties are stated of it
as the module states them, which is also what the theorems are about. `Pairing`, `UartTx`, `EndDeviceBind` and
`FrameCounters` carry names of their own (`PairInit`, `TxNext`, ...) so that such a module can
extend them; the others are instances. Fairness is that of the module, for
its part only (`WF_v(part = "x" /\ A)`), and a refinement is guarded by
`part = "x"`, which changes nothing but the time TLC takes.

## The runs

| Run | Parts and questions | States |
|---|---|---|
| `boards_bindings` | User events of four boards: do pointers, triggers and counts survive interrupts and callbacks, and when is a NULL pointer followed? End device bind: are completed matches toggled alike, and is a busy coordinator timed? Binding table with long lists, and with many entries: is it a set of bindings? Yes. | 731 160 |
| `tasks` | Messages: is none stranded, are they in order, does the application learn the state? Bytes to the UART: once, in order, and all of them, unless the polls leave no character's time? User events armed by interrupt and callback: is each served? Pairing with a device that changes its address: do mode and listing end, is it stored? Yes. | 260 274 |
| `ot_walk` | Does the interrupted walk behave like a table of timers? Does the GPRS link connect? Yes. | 489 934 |
| `nv_power` | Does NV memory survive power loss at every word, with items that fill their pages, whatever marks an interrupted erasure leaves? Yes. | 127 823 |
| `dl_builds` | Builds with and without POWER_SAVING: is a device ever counted wrongly, made to forget its network without a cause, left waiting for its key or asleep? Frame counters of a joining device and of a coordinator: are more used twice than frames went uncounted? Never. Sleep and clock: does an event wait for a sleeper, is a rollover lost before the count wraps, or more than one at the wrap? No. | 4 876 308 |
| `platform` | Heap: tiled, and refusing only when full? Radio: assertions, nothing forgotten, each transmit ended? Serial receiver: each byte read once, in order, none left? Yes. | 302 783 |
| `ue_button` | Is "set once" once? No: finding 1. | violation |
| `om_full` | Is a report that found no memory made later? No: finding 2. | violation |
| `nv_guess` | Does the guess of the spare page only ever erase duplicates? No: finding 3. | violation |
| `dl_reset` | Does a factory reset reset? Not always: finding 4. | violation |
| `pair_reset` | Does the reset of a button forget its bindings? Not after a restart: finding 5. | violation |
| `rx_idle` | Is a serial line idle only when it has been quiet? No: finding 6. | violation |

Each property of a passing run has a mutant in `PROJECT.json`: a plausible slip
in the mapped code under which the run fails. The mutated operators stand
beside the originals in the modules.

### Bounds, and why they are enough

- `UserEvents`: three heap blocks. A board arms at most three events at a time,
  and a third block lets a freed one be reused while the scan still holds a
  pointer into another. `Loop` is 3 instead of 127: it separates 0, one shot,
  several and the loop value that the wrap reaches.
- `OsalTimers`: two timers and three records, so that a deleted record, its
  successor and a fresh one of the same timer can be in the list together; time-outs
  shorter and longer than the elapsed time, a period equal to it.
- `OsalMsg`: four tasks, one that drains one message at a time; a heap of three
  messages, so that one task's mail queues behind another's and a report finds no
  room.
- `OsalMemory`: a bucket of 5 and a wilderness of 6 bytes with headers of one
  and splits from two on: a block is taken whole, split, merged with one or two
  neighbours, and requests are small and large ones. The theorems are for all sizes.
- `PowerSave`: a rollover of 4 ticks and a word of 18, no multiple of it, as 2^32 is
  none: the count wraps between two rollovers and, the next time, at one. Quotients
  below 4, so that a division overflows; time-outs shorter and longer than the least sleep and
  than a rollover. The theorems are for all sizes.
- `OsalNv`: three pages, room for three items of one unit: a page fills,
  compaction moves zero, one or two items, both orders of old and new page occur, and an
  interrupted erasure leaves any of the four marks. Items of several sizes
  are in `nv_guess`, which has a third id and a larger page because the guess goes
  wrong only at a page that has lost less than all. The theorems are for all sizes.
- `UartTx`: buffers of two bytes, so that a write fills one, part of one, or
  what is left of one; a shadow of two bits that wraps within a character.
  Bytes are numbered 0 to 6: more than both buffers, the register and the one just sent.
- `UartRx`: a ring of 8 for 128, reports at 4 (64), a read of 5 (80), an idle
  time of 3 with a shadow modulo 4 (198 of 256); a byte per tick and a poll at least every
  second tick. The ring wraps and is read in more than one piece.
- `MacRadio`: a frame with and without a body, one back-off, one poll: every
  interrupt can come between any two statements, and a second receive behind an acknowledgement.
- `DeviceLife`: one power-up that is put up with (so two, the counter at and above
  the limit), one message in the queue, a pause after the first report.
  A second message changes nothing but the order in which ZDApp reads what the
  network layer may say in any order anyway. The power-saving build is told no leave
  command, which ends in a reset and has no part in the pause. The theorems hold for
  both builds and every limit.
- `FrameCounters`: margins 2 (1000) and 3 (10), counters up to 10: several frames before
  an event is handled, several saves, and restarts in a row and between saves. With one repetition
  less the properties fail. The theorems are for all margins and any number of frames.
- `EndDeviceBind`: two devices, one of which can be matched with itself, two
  clusters, one request each way, transaction numbers modulo 2.
- `BindTable`: two entries; once lists of two and a place for each destination, once
  lists of one and more destinations than entries.
- `Pairing`: one button, one device, one entry, one message in flight, three
  addresses: with more messages the run finds the same kinds of states. `pair_reset` has the
  bounds of its own trace.
- `GprsLink`: three pushes of keys, one break of the link or of the modem, two
  messages on the line before a key or a packet adds to it.

### Fairness

- `tasks`: messages have one weak fairness, that of the loop: which task runs
  is decided by `osal_run_system`'s own strict priority and by nothing else.
  User events: the scheduler runs a task with a set bit, a running timer
  expires, `process_event` goes on. The loop never stops and the clock
  interrupt is unconditional. Timers may expire arbitrarily fast in the
  model, so the property assumes that the device comes to rest again and again
  (`[]<>Quiet`), which durations of milliseconds against handlers of
  microseconds give. Bytes: the driver, its interrupt, the hardware and the timer go on,
  and the main loop polls at any pace (`Polled`). Nothing is assumed of the distance of polls: `AllSent`
  says that a byte is sent, or that from some time on each poll comes within a character's
  time of the one before, as the shadow's wrapping byte measures it (`HeldBack`). The code rules that
  out nowhere, see the observations. Pairing: schedulers and timers go on; nobody need press a key and no message need arrive.
- `ot_walk`: the clock reports time and the walk goes on (`WF(Update)`). That
  starts do not come faster than the walk ends is an assumption in `Expires`.
  GPRS: the gateway goes on; the modem starts when it is off, answers, and does not refuse
  a command for ever (`SF(Accepts)`), which no code can make up for.
- `nv_power`: calls go on while there is power; `Ends` is about the time after
  the last power loss.
- `platform`: the task goes on, the interrupt of a flag that stays up is taken
  (`[]<>~InterruptPending \/ []<><<RfIsr>>`, weak fairness of `RfIsr`
  written out), the radio sends, receives and times out, the channel
  is clear again and again. Serial receiver: the main loop goes on and time passes; polls are at
  most `MaxGap` ticks apart, without which a ring that takes bytes unasked overflows.
- `boards_bindings`, `dl_builds` and the violation runs but `om_full`: only
  safety is stated.

## Proofs

All of them hold for every value of the constants under the named assumptions of
the modules, mostly types and non-emptiness. Four assumptions say more, and TLC
evaluates them for the tables of the code: callbacks arm with a positive count,
and what an interrupt arms is resident (`CallsAssumption`, `BoardsAssumption`);
the calls of one event have one duration, or those by `set` have the longest
(`OneEntry`); no cluster is matched twice (`EndDeviceBindAssumption`). Theorems
that need more state it themselves, as named below.

| Module | Theorem | Argument |
|---|---|---|
| `UserEventsProofs` | `TypeCorrect`, `PointersSound` | `PInv`: types and `NoDanglingPointer` itself, which is inductive once it says where the scan's cursor may point in every control state: it may have left the list only in `advance`, where the next node is already known. A NULL pointer is followed only while no event that all calls arm as a resident one has its entry: such an entry is never spent, so it is never freed and the list stays non-empty (`KInv`). |
| | `BudgetKept` | `BInv` adds that an entry's count is covered by the runs still allowed, also between the reading of the count and its writing back (`RunCovered`, `ReadCovered`), and that events the interrupt arms are resident. |
| | `OneEntryPerEvent` | the list is sorted by duration and an insertion looks only as far as its place, so a second entry of an event appears unless the first is found before that. With `OneEntry(AllCalls)` it is. The super button's heart beat, permit-join and pairing times are all 30 s, so the code satisfies it. |
| | `ArmedTriggered` | what the scan has passed has its trigger outside of `process_event`; what lies before it has the event in the word being served; what it has in hand is the cursor's. Needs one entry per event, and `KeptByIsr`: an interrupt in mid-scan arms resident entries only. |
| `OsalTimersProofs` | `TypeCorrect`, `RecordsUnique`, `TimersOnTime` | `Timing`: time-out + age = wanted time, up to what the walk in progress has still to take (`Lag`) and up to the start an interrupt made into the walk. |
| | `TimersImplementTable` | every critical section is one step of the table or a stutter: unlinking a deleted record stutters, `Notify` stutters because the event counts as set since the unlinking. |
| `TasksProofs` | `NothingStranded`, `StateLearned` | `Shape` ties control and locals; `OneReport`: a report is found and changed, never queued twice; `UpToDate`: the newest of report in queue, in hand and seen is the state. |
| | `QueueIsMailboxes` | a task's mailbox is the selection of its messages from the queue (`SelectIn`, module `Selections`): appending, taking the first of a task and overwriting in place select what the mailbox does. |
| | `PairingInvariant`, `ListingTimed`, `StoredAgain` | `PairInv`: what a message in flight says of a device is true, however late it comes; a button's list in RAM is covered by what it has stored; a button listed by the connector has the clearing armed with its call-back still to run. |
| | `TxIsFifo` | `BuffersApart`: order, channel, interrupt and shadow exclude each other; `LastByteLeaves`: what is left of the character on the line and the time measured since it began never exceed a character's time, so a buffer is not freed under its last byte. No fairness, and polls at any distance. |
| `BindingProofs` | `TableIsASet` | `ListsSound`: no list is empty or too long, also in the records in NV memory. A full table is shown full in the abstract one by an injection between entries and pairs, which holds while no destination is there twice. |
| | `MatchTimed`, `MatchToggles` | `TInv`: of the bindings of a match those already ordered are changed and the others are as at its beginning; the only order in flight with the current number is the one awaited, and an answer to it tells the truth about the device's table. Needs that no cluster is matched twice. |
| `PlatformProofs` | `TypeCorrect`, `HeapIsSound`, `NullIsFull` | blocks tile: the end of each is the place of the next, the blocker stays in use, `ff1` is a header without a free block before it, and what the walk holds (`hdr`, `prev`, `coal`) are headers with only free blocks between; a walk that passes over a run has measured it, so one that ends with nothing has seen none long enough. |
| | `HeapImplementsAllocator` | the pieces held are those of the blocks in use: merging, the kick and the walk change only free blocks, so they stutter; `AllocDone` adds one piece, apart from the others because blocks tile; `Free` takes one away. That the piece is long enough needs `Asked`: what is allocated is what was asked for. |
| | `SleepsOnlyIdle` | between the scan of the tasks and the write to PCON, whatever an interrupt has set has also cleared `halSleepPconValue` or is the wake-up of the sleep; a timer that runs bounds the sleep. |
| | `ClockRight` | since the last reading T2 has rolled over at most once, and the flag, the count and the lost interrupt of a sleep account for it exactly once (`ClockInv`): true until the count comes near its word. Beyond, the count is right modulo the word, but compared with the last one it may look as if T2 had rolled over, or had not (`DriftInv`): a reading is then wrong by one rollover in either direction, and by no more. For every word and rollover, so also for 2^32. |
| | `RadioAssertsHold`, `RadioForgetsNothing` | `RadioOK`: per state of transmit, receive and acknowledgement, which flags can be up, which interrupts enabled and which strobes pending. Assumes `~SlowIsr` and `~ResetAnytime`, as the run does: the interrupt is served within the length of an acknowledgement, and the receiver is not reset in mid-frame. |
| | `SerialIsFifo` | `RxInv`: the ring holds the unread bytes from `rxHead` on, marked, and there is room for what can come until the poll after the next. `PollsInTime` relates the ring, the two thresholds and the distance of polls; without it the ring overflows, as no flow control stops the sender. No fairness. |
| `OsalNvProofs` | `SettledHolds`, `StoreImplemented`, `DurableHolds` | `IInv`: `FlashInv` is what holds of the flash whenever the power may fail (an item has one valid entry, or an old and a new one; a page marked for transfer and an erased one are there together, or all of the first is duplicated), `Phase` what holds of the driver's variables in each control state, above all which items of a page in compaction have a copy (`Copying`). The refinement rests on a lemma for each change of flash: an item's value changes when its data word is written, and at no other word. Every step keeps `IInv` but `FindReserve`, which erases the page it takes for the spare one; so the three are proved of the behaviours with `[]GuessSound`. |
| | `GuessNeedsTear` | when the hypothesis `[]GuessSound` can fail: only after an interrupted erasure that left a page, which still had room for an item, with the mark of use alone (`PartTorn`). A page whose marks were lost and that was full has nothing but duplicates; once these are zeroed out it has lost so much that no page that has lost as much holds an item (`MissedFull`). No assumption on the sizes of items or on what other erasures leave. With such a tear the guess can be wrong, which is finding 3. |
| `DeviceLifeProofs` | `PowerCounted`, `NewJoinsCaused`, `UnauthTimed`, `HoldIsLifted` | the invariant speaks about the set of writes still to be made (`Pending`): a pending count is at most the starts, a pending `new` has a cause and is not followed by its clearing. Without it the properties are not inductive, for they are about NV memory and the decisions are taken earlier. |
| | `StaysAwake` | `Searches`: in each state outside of a network there is the request or the answer that the state acts on; a pause has its timer. |
| | `CountersTypeCorrect`, `NwkRepeats`, `TclkRepeats` | how far the counter is ahead of its copy: at most the changes counted and the frames not counted, or, for the link key, what is left to the next save point and the frames unsaved since. A restore takes the copy and the margin, so that it falls behind what was used by the second part at most. For every margin, any number of frames before an event, a failure of the power at any moment and any refusal of memory. |
| `SeqLemmas` | – | what inserting, removing and concatenating do, as elements and as sets; what is selected from a sequence after one of its elements is added, removed or changed. The latter are proved over the length of the sequence by its least counterexample (`WFMin`, about a set of numbers), which needs no operator as a parameter. |

Model-checked only: all liveness properties (`Served`, `AllSent`, `ArmedIsServed`,
`PairingEnds`, `Expires`, `Connects`, `Ends`, `Progress`), which are out of the
prover's reach. The store above `Spec` keeps the hypothesis `[]GuessSound` in the theorems,
because the code does not give it: its items have several sizes, a page may be compacted that has
room left, and no document says in which order an erasure loses the marks. `nv_power` checks the store
without it, for items of one size, whose pages are full when they are compacted. `OneEntry` is no formality: a router board with the infrared
detector's events would not satisfy it, and then an event has two entries.

## Findings

1. **A one-shot becomes a loop** (`ue_button`). The super button turns its armed
   pairing time-out into an immediate event; the timer is not stopped and the
   resident entry fires again with a count of 0, which wraps to the value for
   endless loops.
2. **A report that never comes** (`om_full`). The report of a state change is
   retried by setting ZDApp's own event; with a heap full of messages for tasks
   of lower priority, the retry keeps them from being freed.
3. **A page too many is erased** (`nv_guess`). After an interrupted erasure
   `initNV` takes the page with the greatest loss for the spare one; with items of
   different sizes this can be a page in use. It takes an erasure that left a page with
   room in it the mark of use alone (`GuessNeedsTear`).
4. **A factory reset that is undone** (`dl_reset`). The reset sets an option and
   lets the watchdog bite a second later; saving the network state in that
   second clears the option. The short way there: the device has just been
   authenticated, or its tables have just changed, when the key is pressed.
5. **A button's reset that forgets nothing** (`pair_reset`). It looks at the list in
   RAM; after a restart that is empty until the host has answered, and what is
   stored in NV memory comes back.
6. **A line that is idle too early** (`rx_idle`). The idle time of the receiver is
   set anew with each byte, its shadow of the timer is not: after a burst that every
   poll found growing, the first quiet poll reports a time-out and the frame is cut.

`PROJECT.json` quotes the lines they contradict.

### Observations

Met while modelling; no statement of the repository contradicts them, or they lie
outside of what is modelled.

- User events: an update in an empty list without a mapping reads through NULL
  (`api_events.c:187-191`). The gateway's first call does so (`TransconnApp.c:184`), so do a
  router that is asked to permit joins or to change its period before its heart beat has begun, and the
  door sensor's interrupt before that. XDATA begins at address 1 (`f8w2530.xcl:53`), so
  what is read at 0 is no entry; whether the search ends there, goes on elsewhere or
  finds something to overwrite depends on memory that the program does not set. From the first
  entry that all calls keep on, such as the heart beat, it cannot happen.
- User events: allocations are not tested; `HEARTBERAT_EVT` and
  `TIMER_UPLOAD_EVENT` share a bit, `CMD_PEROID_EVT` and `TIMER_DELAY_EVENT` too.
- Frame counters: the count of changes is tested by `>` before it is incremented
  (`ZDApp.c:561`), so the 1002nd change is saved and not the 1000th; since the
  copy is one ahead this just suffices, with nothing to spare: a frame secured when the
  power fails, or the network answers, before ZDApp runs, and every frame but one of those that set the
  event together, costs a counter that is used twice. The third unsaved frame from a save point of the link
  key on does so too. A new coordinator
  saves nothing before the 1002nd change. `ZDSecMgrSaveTCLinkKey` returns silently without memory.
- Clock: 2^32 is no multiple of the MAC timer's rollover, so that every 15.9 days
  the wrap of the count is mistaken (`mac_mcu.c:797-803`) and the clock leaps, by one
  rollover forwards, or by one backwards, which modulo 2^32 is almost 15.9 days
  forwards. The quotient of the conversion to milliseconds has 16 bits, 65.5 s, and a leap exceeds them.
- UART: `HalUARTPollDMA` calls the interrupt's function while the character's
  time runs, which starts the time anew (`_hal_uart_dma.c:713-728`). The main loop polls at each
  pass: as long as no pass takes longer than a character, 1 ms at 9600 baud, what was written while the
  channel was busy waits, for ever if the loop stays that quick (`HeldBack`). The call-back reads up to 80 bytes and keeps 64.
- Radio: `macTxHaltCleanup` has no caller although a comment of `mac_rx.c` names
  one; "any transmitted ACK has long since completed" holds only while the receive
  interrupt is quicker than an acknowledgement (`SlowIsr`).
- End device bind: a third request replaces the second device of a match, which is
  never answered; a device that presses twice is matched with itself and toggles
  twice; after a time-out between two orders a binding stays one-sided, for later
  attempts toggle both sides; a failing allocation is freed twice or dereferenced.
- Pairing: the search for a duplicate leaves out the last entry, so that a device is
  listed twice and a push toggles it twice; a list keeps short addresses that become stale;
  an entry made before the coordinator is known is never commanded; a button that
  pairs between a registration and the clearing of the list is cleared with it;
  `DataBind_Ctrl` copies where it should compare (`EndnodeApp.c:293`).
- GPRS: an answer is not matched with its command. Two commands in flight skip a step,
  and a surplus OK at step 5 counts as connected before `CIPSTART` is sent; an
  answer that is lost, or comes in one chunk with a frame behind it, leaves the set-up
  waiting for ever; a second upload while the modem waits for a packet puts the text of the
  command into it; a link that breaks down while connected is not noticed;
  `GPRS_CLOSE` falls through and the link is never closed, only shut.
- Others: `PermitDuration * 1000` exceeds 16 bits from 66 s on (`CommonApp.c:812`);
  `ConnectorApp_TxHandler` and `Data_Analysis` return an uninitialized value on some paths;
  `ZDApp_RejoinPowerCB` starts a search even if the device is connected by then.

## Not modelled

- What depends on libraries without source: NWK, the upper MAC, APS and their security.
  They appear as environment actions.
- Formatting and pure input and output: display, lights, card reader, encodings,
  layouts of frames, the MT commands (19 files that unpack a request, call the
  stack and pack the answer), `ZDProfile.c` (packing of ZDO messages), headers of
  macros and structures.
- Routers and coordinators beyond what `OsalMsg`, `FrameCounters` and
  `EndDeviceBind` need; the other ZDO requests and responses, the network
  manager, key establishment.
- The statement-level interleaving of the port interrupt with the list
  operations of `api_events.c` (`set_user_event` in `UserEvents` is atomic), and a
  failing allocation in it.
- Device controllers: most are one assignment deep; those that keep state
  are planned.

The repository vendors the whole Z-Stack, most of whose lines are the formatting
and tables above or belong to builds the application does not use; the models
cover the parts with control worth checking, not a share of lines.

## Running

`tlc -config <run>.cfg <module>` with the pairs in `PROJECT.json`;
`tlapm <module>.tla` for the modules named `*Proofs` and `SeqLemmas`. A run takes
up to four minutes with two workers.
