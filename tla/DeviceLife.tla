----------------------------- MODULE DeviceLife -----------------------------
(***************************************************************************)
(* How an end device (ZD build: SECURE, NV_RESTORE, HOLD_INIT_AUTHENTI-    *)
(* CATION and POWERON_FACTORY_SETTING) starts, joins, is authenticated,    *)
(* is told to leave, and goes back to factory settings on a long key press *)
(* or after too many power-ups without a network.                          *)
(*                                                                         *)
(* Every handler runs to completion on the one stack, so what it does to   *)
(* RAM is one step.  Its writes to NV memory are steps of their own, in    *)
(* the code's order, because the power may fail between them; one write    *)
(* takes effect as a whole (see OsalNv).  Timers have no durations: they   *)
(* expire in any order.  The network layer, a library without source, is   *)
(* the environment: it answers requests, loses the parent, receives keys   *)
(* and leave commands.                                                     *)
(***************************************************************************)
EXTENDS Naturals, Sequences

CONSTANTS
  PowerSaving,        \* whether the build defines POWER_SAVING
  POWERSETTING_COUNT, \* power-ups without a network that are put up with
  JoiningLimit,       \* reports without success before joining pauses (4)
  Leaves,             \* the leave commands given: for good, or to rejoin
  MailMax             \* messages from the network layer not yet handled

ASSUME LifeAssumption ==
  /\ PowerSaving \in BOOLEAN
  /\ POWERSETTING_COUNT \in Nat
  /\ JoiningLimit \in Nat
  /\ Leaves \subseteq {"leave", "rejoin"}
  /\ MailMax \in Nat

(* One more than is put up with: beyond it, counts are alike.  The 8-bit   *)
(* count of the code would need 256 cut-off power-ups to wrap.             *)
TooMany == POWERSETTING_COUNT + 1

VARIABLES
  nv,              \* the items in NV memory
  writes,          \* what the running handler still has to write, in order
  boot,            \* "off", "zdo" after ZDApp_Init, "run" after all of it
  devState, devStartMode, continueJoining,
  events,          \* bits set in ZDApp's event word; "recnf" is CommonApp's
  armed,           \* timers running
  mail,            \* messages of the network layer in ZDApp's queue
  request,         \* what the network layer is doing for ZDApp
  note,            \* the ZDO_STATE_CHANGE message to CommonApp, if any
  app,             \* the variables of CommonApp_PowerOnFactorySetting
  joiningCount,
  starts,          \* history: power-ups since the last one recorded as good
  asked            \* history: a reset, a leave or a time-out asks for a
                   \* fresh network, and no network was saved since

zdo == <<devState, devStartMode, continueJoining>>
com == <<note, app, joiningCount>>
history == <<starts, asked>>
vars == <<nv, writes, boot, zdo, events, armed, mail, request, com, history>>

State == {"hold", "init", "disc", "joining", "rejoin", "unauth", "end", "orphan"}
Event == {"init", "state", "auth", "recnf"}
Timer == {"init", "save", "reset", "setting", "recnf", "watchdog"}
InNetwork == {"unauth", "end"}

Count == 0..TooMany
Min2(a, b) == IF a <= b THEN a ELSE b

Set(i, v) == [item |-> i, value |-> v]
Stored ==
  [hold : {"none", "init", "hold"}, new : BOOLEAN, count : Count,
   net : BOOLEAN, key : BOOLEAN, leave : {"none", "leave", "rejoin"}]
Writing ==
  {Set("hold", h) : h \in {"init", "hold"}}
    \cup {Set("new", b) : b \in BOOLEAN}
    \cup {Set("net", b) : b \in BOOLEAN}
    \cup {Set("key", b) : b \in BOOLEAN}
    \cup {Set("count", c) : c \in Count}
    \cup {Set("leave", "none")}

NewApp == [first |-> TRUE, hasConn |-> FALSE, notTimeOut |-> TRUE,
           counted |-> FALSE]

(* What the C start-up code leaves in RAM *)
Ram ==
  [devState |-> "hold", devStartMode |-> "join", app |-> NewApp]

Init ==
  /\ nv = [hold |-> "none", new |-> FALSE, count |-> 0, net |-> FALSE,
           key |-> FALSE, leave |-> "none"]
  /\ writes = <<>>
  /\ boot = "off"
  /\ devState = Ram.devState
  /\ devStartMode = Ram.devStartMode
  /\ continueJoining = TRUE
  /\ events = {}
  /\ armed = {}
  /\ mail = <<>>
  /\ request = "none"
  /\ note = "none"
  /\ app = Ram.app
  /\ joiningCount = 0
  /\ starts = 1
  /\ asked = FALSE
-----------------------------------------------------------------------------
(* Resets and NV memory                                                    *)

Restart(left) ==
  /\ writes' = <<>>
  /\ boot' = "off"
  /\ devState' = Ram.devState
  /\ devStartMode' = Ram.devStartMode
  /\ continueJoining' = TRUE
  /\ events' = {}
  /\ armed' = left
  /\ mail' = <<>>
  /\ request' = "none"
  /\ note' = "none"
  /\ app' = Ram.app
  /\ joiningCount' = 0
  /\ starts' = Min2(starts + 1, TooMany)
  /\ UNCHANGED <<nv, asked>>

PowerLoss == Restart({})

WatchDog ==
  /\ "watchdog" \in armed
  /\ writes = <<>>
  /\ Restart({})

(* SystemResetSoft at the end of the handling of ZDO_DEVICE_RESET jumps to *)
(* address 0: RAM is set up again, a watchdog that was started runs on.    *)
SoftReset ==
  /\ boot = "stop"
  /\ writes = <<>>
  /\ Restart(armed \cap {"watchdog"})

Recorded(w) == w.item = "count" /\ w.value = 0
Saved(w) == w.item = "new" /\ ~w.value

Write ==
  /\ writes # <<>>
  /\ LET w == Head(writes) IN
       /\ nv' = [nv EXCEPT ![w.item] = w.value]
       /\ starts' = IF Recorded(w) THEN 0 ELSE starts
       /\ asked' = IF Saved(w) THEN nv.leave # "none" ELSE asked
  /\ writes' = Tail(writes)
  /\ UNCHANGED <<boot, zdo, events, armed, mail, request, com>>

Ready == writes = <<>> /\ boot = "run"
-----------------------------------------------------------------------------
(* Starting                                                                *)

Wipe == IF nv.new THEN <<Set("net", FALSE), Set("key", FALSE)>> ELSE <<>>

(* ZDOInitDevice with devState d; held is the call that only initialises.  *)
(* A pending leave without rejoin puts the hold state back, for this call. *)
InitDevice(d, held, before) ==
  LET restored == ~nv.new /\ nv.net
      leaving == ~held /\ nv.leave # "none"
      stays == leaving /\ nv.leave = "leave"
      goes == ~held /\ ~stays
  IN
    /\ devStartMode' = IF restored THEN "resume" ELSE "join"
    /\ devState' = IF held THEN d ELSE IF stays THEN "hold" ELSE "init"
    /\ writes' = before \o Wipe
                   \o (IF leaving THEN <<Set("leave", "none")>> ELSE <<>>)
                   \o (IF stays THEN <<Set("new", TRUE)>> ELSE <<>>)
    /\ events' = events \cup (IF stays THEN {"state"} ELSE {})
                        \cup (IF goes /\ restored THEN {"init"} ELSE {})
    /\ armed' = armed \cup (IF goes /\ ~restored THEN {"init"} ELSE {})

(* zgInit creates the hold item from an uninitialised local variable if    *)
(* there is none; ZDApp_Init then starts the device or holds it.           *)
StartUp ==
  /\ boot = "off"
  /\ writes = <<>>
  /\ boot' = "zdo"
  /\ \E junk \in {"init", "hold"} :
       LET created == IF nv.hold = "none" THEN <<Set("hold", junk)>> ELSE <<>>
           d == IF nv.hold = "init" THEN "init" ELSE "hold"
       IN InitDevice(d, d = "hold", created)
  /\ UNCHANGED <<nv, continueJoining, mail, request, com, history>>

(* CommonApp_Init ends with CommonApp_InitConfirm, which starts the device *)
(* whatever ZDApp_Init decided.                                            *)
InitConfirm ==
  /\ boot = "zdo"
  /\ writes = <<>>
  /\ boot' = "run"
  /\ InitDevice(devState, FALSE, <<>>)
  /\ UNCHANGED <<nv, continueJoining, mail, request, com, history>>
-----------------------------------------------------------------------------
(* ZDApp: a message first, then the event bits in the order of the code    *)

Receives(kind) ==
  /\ Ready
  /\ mail # <<>>
  /\ Head(mail) = kind
  /\ mail' = Tail(mail)

(* A timer only sets its event bit.  That it expires when the bit is about *)
(* to be handled, and not earlier, makes no difference.                    *)
Handles(e, before) ==
  /\ Ready
  /\ mail = <<>>
  /\ events \cap before = {}
  /\ e \in events \cup armed

Quiet == Ready /\ mail = <<>> /\ events \subseteq {"recnf"}

(* Mutant: a refused request is not tried again. *)
BeginOnce(accepted, left) ==
  LET what == IF devStartMode = "resume" THEN "orphan" ELSE "disc"
  IN /\ devState' = what
     /\ request' = IF accepted THEN what ELSE request
     /\ armed' = left

(* Mutant: the state is named after the start mode. *)
BeginMode(accepted, left) ==
  /\ devState' = devStartMode
  /\ request' = IF accepted THEN "orphan" ELSE request
  /\ armed' = IF accepted THEN left ELSE left \cup {"init"}

(* ZDO_StartDevice asks for a scan, or for the old parent when resuming;   *)
(* if the network layer refuses, it is tried again later.                  *)
Begin(accepted, left) ==
  LET what == IF devStartMode = "resume" THEN "orphan" ELSE "disc"
  IN /\ devState' = what
     /\ request' = IF accepted THEN what ELSE request
     /\ armed' = IF accepted THEN left ELSE left \cup {"init"}

NetworkInit ==
  /\ Handles("init", {})
  /\ events' = (events \ {"init"}) \cup {"state"}
  /\ \E accepted \in BOOLEAN, due \in SUBSET (armed \cap {"init"}) :
       /\ "init" \in events \cup due
       /\ Begin(accepted, armed \ due)
  /\ UNCHANGED <<nv, writes, boot, devStartMode, continueJoining, mail, com,
                 history>>

(* The device would be held at its next start. *)
HoldsNext == nv.hold # "init"

(* ZDO_STATE_CHANGE_EVT: in a network the device need not be held at the   *)
(* next start; the application's pending message is overwritten in place.  *)
(* All the application asks of the state is whether it is DEV_END_DEVICE.  *)
StateChange ==
  /\ Handles("state", {"init"})
  /\ events' = events \ {"state"}
  /\ note' = IF devState = "end" THEN "end" ELSE "other"
  /\ writes' = IF devState = "end" /\ HoldsNext
               THEN <<Set("hold", "init")>> ELSE <<>>
  /\ UNCHANGED <<nv, boot, zdo, armed, mail, request, app, joiningCount, history>>

UpdateNv ==
  /\ Handles("save", {"init", "state"})
  /\ armed' = armed \ {"save"}
  /\ writes' = <<Set("net", TRUE), Set("new", FALSE)>>
  /\ UNCHANGED <<nv, boot, zdo, events, mail, request, com, history>>

DeviceReset ==
  /\ Handles("reset", {"init", "state"})
  /\ armed' = armed \ {"reset"}
  /\ writes' = <<Set("new", TRUE)>>
  /\ boot' = "stop"
  /\ asked' = TRUE
  /\ UNCHANGED <<nv, zdo, events, mail, request, com, starts>>

DeviceAuth ==
  /\ Handles("auth", {"init", "state"})
  /\ IF devState = "unauth"
     THEN /\ devState' = "end"
          /\ events' = (events \ {"auth"}) \cup {"state"}
          /\ armed' = (armed \ {"reset"}) \cup {"save"}
          /\ writes' = <<Set("key", TRUE)>>
     ELSE /\ events' = events \ {"auth"}
          /\ armed' = armed \cup {"save"}
          /\ UNCHANGED <<devState, writes>>
  /\ UNCHANGED <<nv, boot, devStartMode, continueJoining, mail, request, com,
                 history>>

(* ZDO_NWK_DISC_CNF: join a network that was found, or look again.  That   *)
(* zdoDiscCounter asks for three scans is part of the choice.              *)
DiscoveryDone ==
  /\ Receives("disc")
  /\ \/ /\ devState = "disc"
        /\ devState' = IF devStartMode = "rejoin" THEN "rejoin" ELSE "joining"
        /\ \/ request' = "join" /\ UNCHANGED armed
           \/ armed' = armed \cup {"init"} /\ UNCHANGED request
     \/ /\ devState = "disc"
        /\ armed' = IF continueJoining THEN armed \cup {"init"} ELSE armed
        /\ UNCHANGED <<devState, request>>
     \/ /\ devState # "disc"
        /\ UNCHANGED <<devState, request, armed>>
  /\ UNCHANGED <<nv, writes, boot, devStartMode, continueJoining, events, com,
                 history>>

Joining == {"joining", "orphan", "rejoin"}

(* ZDO_NWK_JOIN_IND after success.  Without a stored key a join must be    *)
(* authenticated within a time.                                            *)
Joined ==
  /\ Receives("joined")
  /\ events' = events \cup {"state"}
  /\ IF devState \notin Joining
     THEN UNCHANGED <<devState, armed>>  \* taken for an address conflict
     ELSE IF devState = "joining" /\ ~nv.key
     THEN /\ devState' = "unauth"
          /\ armed' = armed \cup {"reset"}
     ELSE /\ devState' = "end"
          /\ UNCHANGED armed
  /\ UNCHANGED <<nv, writes, boot, devStartMode, continueJoining, request, com,
                 history>>

(* ... and after failure.  A device that was resuming now joins or rejoins:*)
(* the network layer's PAN identifier decides, and MAX_RESUME_RETRY is     *)
(* never reached because the first failure ends the resuming.              *)
NotJoined ==
  /\ Receives("failed")
  /\ \/ /\ devState \in Joining
        /\ devStartMode' \in IF devStartMode = "resume" THEN {"join", "rejoin"}
                             ELSE {devStartMode}
        /\ armed' = armed \cup {"init"}
        /\ UNCHANGED events
     \/ /\ devState \notin Joining
        /\ events' = events \cup {"state"}
        /\ UNCHANGED <<devStartMode, armed>>
  /\ UNCHANGED <<nv, writes, boot, devState, continueJoining, request, com,
                 history>>

(* ZDO_NWK_JOIN_REQ: the parent was lost *)
Rejoin ==
  /\ Receives("rejoin")
  /\ devStartMode' = "resume"
  /\ events' = events \cup {"init"}
  /\ UNCHANGED <<nv, writes, boot, devState, continueJoining, armed, request,
                 com, history>>
-----------------------------------------------------------------------------
(* CommonApp, which runs when ZDApp has nothing to do                      *)

Reset == <<Set("hold", "hold"), Set("new", TRUE)>>

(* CommonApp_PowerOnFactorySetting, then the counting of reports without a *)
(* network in CommonApp_ProcessZDOStates.  powerSetCount is read from the  *)
(* item at the first report and written to it whenever it changes.         *)
FirstReport == IF app.first THEN {"setting"} ELSE {}

Connected ==
  /\ app' = [app EXCEPT !.first = FALSE, !.hasConn = TRUE]
  /\ writes' = IF nv.count # 0 THEN <<Set("count", 0)>> ELSE <<>>
  /\ starts' = IF nv.count # 0 THEN starts ELSE 0
  /\ armed' = armed \cup FirstReport
  /\ UNCHANGED events

(* Too many reports without a network: look no further for a while.  The   *)
(* timer may have expired, and its event wait, when it is started again.   *)
Pauses == PowerSaving /\ joiningCount >= JoiningLimit

(* Mutant: a device that had a network counts too. *)
CountsConnected == ~nv.new /\ ~app.notTimeOut /\ ~app.counted

(* A report without a network, later than the time-out: counted once. *)
Counts == ~nv.new /\ ~app.hasConn /\ ~app.notTimeOut /\ ~app.counted

(* Mutant: one start too early. *)
TooOftenNow(count) == count >= POWERSETTING_COUNT

TooOften(count) == count > POWERSETTING_COUNT

Unconnected ==
  LET count == Min2(nv.count + 1, TooMany)
      resets == Counts /\ TooOften(count) /\ devState # "hold"
  IN
    /\ app' = [app EXCEPT !.first = FALSE, !.counted = @ \/ Counts]
    /\ writes' = (IF Counts THEN <<Set("count", count)>> ELSE <<>>)
                   \o (IF resets THEN Reset ELSE <<>>)
    /\ armed' = armed \cup FirstReport
                      \cup (IF resets THEN {"watchdog"} ELSE {})
                      \cup (IF Pauses THEN {"recnf"} ELSE {})
    /\ \E due \in SUBSET (armed \cap {"recnf"}) :
         events' = events \cup (IF Pauses THEN due ELSE {})
    /\ UNCHANGED starts

StateReport ==
  /\ Quiet
  /\ note # "none"
  /\ note' = "none"
  /\ \/ /\ note = "end"
        /\ Connected
        /\ joiningCount' = 0
        /\ continueJoining' = (PowerSaving \/ continueJoining)
     \/ /\ note # "end"
        /\ Unconnected
        /\ joiningCount' = IF PowerSaving THEN Min2(joiningCount + 1, JoiningLimit)
                           ELSE joiningCount
        /\ continueJoining' = (continueJoining /\ ~Pauses)
  /\ UNCHANGED <<nv, boot, devState, devStartMode, mail, request, asked>>

(* CommonApp_PowerSettingCountCB, 3 s after the first report *)
SettingTimeout ==
  /\ Quiet
  /\ note = "none"
  /\ "setting" \in armed
  /\ armed' = armed \ {"setting"}
  /\ app' = [app EXCEPT !.notTimeOut = FALSE]
  /\ UNCHANGED <<nv, writes, boot, zdo, events, mail, request, note,
                 joiningCount, history>>

Resumed == (events \ {"recnf"}) \cup {"init"}

(* ZDApp_RejoinPowerCB *)
RejoinPower ==
  /\ Quiet
  /\ note = "none"
  /\ \E due \in SUBSET (armed \cap {"recnf"}) :
       /\ "recnf" \in events \cup due
       /\ armed' = armed \ due
  /\ continueJoining' = TRUE
  /\ joiningCount' = 0
  /\ events' = Resumed
  /\ UNCHANGED <<nv, writes, boot, devState, devStartMode, mail, request, note,
                 app, history>>

(* The long key press of CommonApp_HandleCombineKeys *)
KeyReset ==
  /\ Quiet
  /\ devState # "hold"
  /\ writes' = Reset
  /\ armed' = armed \cup {"watchdog"}
  /\ asked' = TRUE
  /\ UNCHANGED <<nv, boot, zdo, events, mail, request, com, starts>>

(* Another use of the key, which starts a device that is held *)
KeyStart ==
  /\ Quiet
  /\ devState = "hold"
  /\ InitDevice(devState, FALSE, <<>>)
  /\ UNCHANGED <<nv, boot, continueJoining, mail, request, com, history>>
-----------------------------------------------------------------------------
(* The network layer                                                       *)

Post(kind) ==
  /\ Ready
  /\ Len(mail) < MailMax
  /\ mail' = Append(mail, kind)

ScanConfirm ==
  /\ request = "disc"
  /\ Post("disc")
  /\ request' = "none"
  /\ UNCHANGED <<nv, writes, boot, zdo, events, armed, com, history>>

(* ZDO_JoinConfirmCB; the status, a global variable there, is in the message *)
JoinConfirm ==
  /\ request \in {"join", "orphan"}
  /\ \/ /\ Post("joined")
        /\ devState' = IF devState = "hold" THEN "joining" ELSE devState
     \/ /\ Post("failed")
        /\ UNCHANGED devState
  /\ request' = "none"
  /\ UNCHANGED <<nv, writes, boot, devStartMode, continueJoining, events, armed,
                 com, history>>

(* ZDO_SyncIndicationCB *)
SyncLost ==
  /\ devState \in InNetwork
  /\ Post("rejoin")
  /\ UNCHANGED <<nv, writes, boot, zdo, events, armed, request, com, history>>

(* Mutant: the key, not the handling of the event it sets, stops the timer. *)
KeyStopsTimer ==
  /\ Ready
  /\ devState = "unauth"
  /\ events' = events \cup {"auth"}
  /\ armed' = armed \ {"reset"}
  /\ UNCHANGED <<nv, writes, boot, zdo, mail, request, com, history>>

(* ZDSecMgrAuthNwkKey *)
KeyReceived ==
  /\ Ready
  /\ devState = "unauth"
  /\ events' = events \cup {"auth"}
  /\ UNCHANGED <<nv, writes, boot, zdo, armed, mail, request, com, history>>

(* ZDO_LeaveInd and ZDO_LeaveCnf: ZDApp_LeaveReset *)
Leave ==
  /\ Ready
  /\ devState \in InNetwork
  /\ \E kind \in Leaves : nv' = [nv EXCEPT !.leave = kind]
  /\ armed' = armed \cup {"reset"}
  /\ asked' = TRUE
  /\ UNCHANGED <<writes, boot, zdo, events, mail, request, com, starts>>

(* ZDApp_NwkStateUpdateCB, ZDApp_NwkWriteNVRequest *)
TablesChanged ==
  /\ Ready
  /\ devState = "end"
  /\ armed' = armed \cup {"save"}
  /\ UNCHANGED <<nv, writes, boot, zdo, events, mail, request, com, history>>
-----------------------------------------------------------------------------
Handler ==
  \/ StartUp \/ InitConfirm
  \/ NetworkInit \/ StateChange \/ UpdateNv \/ DeviceReset \/ DeviceAuth
  \/ DiscoveryDone \/ Joined \/ NotJoined \/ Rejoin
  \/ StateReport \/ SettingTimeout \/ RejoinPower \/ KeyReset \/ KeyStart

Network ==
  \/ ScanConfirm \/ JoinConfirm \/ SyncLost \/ KeyReceived \/ Leave
  \/ TablesChanged

Next ==
  \/ PowerLoss \/ WatchDog \/ SoftReset \/ Write
  \/ Handler
  \/ Network

Spec == Init /\ [][Next]_vars
-----------------------------------------------------------------------------
TypeOK ==
  /\ nv \in Stored
  /\ writes \in Seq(Writing)
  /\ boot \in {"off", "zdo", "run", "stop"}
  /\ devState \in State
  /\ devStartMode \in {"join", "resume", "rejoin"}
  /\ continueJoining \in BOOLEAN
  /\ events \subseteq Event
  /\ armed \subseteq Timer
  /\ mail \in Seq({"disc", "joined", "failed", "rejoin"})
  /\ Len(mail) <= MailMax
  /\ request \in {"none", "disc", "join", "orphan"}
  /\ note \in {"none", "end", "other"}
  /\ app \in [first : BOOLEAN, hasConn : BOOLEAN, notTimeOut : BOOLEAN,
              counted : BOOLEAN]
  /\ joiningCount \in 0..JoiningLimit
  /\ starts \in Count
  /\ asked \in BOOLEAN

(* CommonApp_PowerOnFactorySetting: whatever cuts a power-up short, and     *)
(* wherever between the report, the timer and the write it does, the count *)
(* in NV memory never runs ahead of the starts since the device was last   *)
(* known to have a network.  A device is not reset for starts it did not   *)
(* make.                                                                   *)
PowerCountSound == nv.count <= starts

(* The option that makes the device forget its network at the next start   *)
(* is set only if a key, a leave command or the authentication time-out    *)
(* asked for it, or the device was started more than POWERSETTING_COUNT    *)
(* times without a network.                                                *)
NewJoinHasCause ==
  [][~nv.new /\ nv'.new => asked \/ starts > POWERSETTING_COUNT]_vars

(* ZDApp_ProcessNetworkJoin, ZDApp_DeviceAuthEvt, ZDApp_ResetTimerCancel:  *)
(* a device that waits for the network key never waits without the timer   *)
(* that ends the wait, whatever key and leave messages come meanwhile.     *)
UnauthIsTimed == boot = "run" /\ devState = "unauth" => "reset" \in armed

(* ZDO_STATE_CHANGE_EVT, zgInit: a device that reports to the               *)
(* application that it is an end device has lifted the hold for its next   *)
(* start; only a factory reset puts it back.                               *)
HoldLifted ==
  note = "end" /\ writes = <<>> /\ "watchdog" \notin armed => nv.hold = "init"

(* ZDO_StartDevice, ZDApp_NetworkInit and the pause of continueJoining:     *)
(* outside a network, a device that is not held is never left with nothing *)
(* that will make it try again: an attempt is due or under way, its result *)
(* is in the queue, or the pause of a power-saving device is running.      *)
Awake ==
  boot = "run" /\ devState \notin InNetwork \cup {"hold"} =>
    \/ "init" \in events \cup armed
    \/ request # "none"
    \/ mail # <<>>
    \/ "recnf" \in events \cup armed

(* CommonApp_PowerOnFactorySetting and CommonApp_HandleCombineKeys set the *)
(* option and start the watchdog "to reset to factory setting": when the   *)
(* watchdog bites, the option is still set.                                *)
FactoryReset == [][WatchDog => nv.new]_vars
=============================================================================
