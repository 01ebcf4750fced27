-------------------------- MODULE DeviceLifeProofs --------------------------
(***************************************************************************)
(* Proofs about DeviceLife for every number of power-ups that are put up   *)
(* with, every limit and both kinds of build: its types, the soundness of  *)
(* the power-up counter, the causes of a new join, the timed wait for the  *)
(* network key, the lifting of the hold and the search for a network that  *)
(* never ends without one.  And about FrameCounters, for every margin and  *)
(* every bound: what a copy in NV memory lags behind beyond the margin is  *)
(* just the frames that were not counted, or not saved, in time.           *)
(***************************************************************************)
EXTENDS DeviceLife, FrameCounters, SeqLemmas

(* What the running handler has still to write, without the order *)
Pending == ToSet(writes)

CountWritten ==
  /\ nv.count <= starts
  /\ ~app.counted /\ ~app.hasConn => nv.count < starts \/ starts = TooMany
  /\ \A w \in Pending : w.item = "count" =>
       /\ w.value <= starts
       /\ IF w.value = 0 THEN app.hasConn ELSE app.counted
       /\ Set("count", 0) \in Pending => w.value = 0

NewWritten ==
  Set("new", TRUE) \in Pending =>
    /\ asked \/ starts > POWERSETTING_COUNT
    /\ Set("new", FALSE) \notin Pending
    /\ Set("count", 0) \notin Pending

LeaveAsked == nv.leave # "none" => asked

HoldWritten ==
  /\ boot \in {"off", "zdo"} => note = "none"
  /\ note = "end" /\ "watchdog" \notin armed =>
       /\ nv.hold = "init" \/ Set("hold", "init") \in Pending
       /\ Set("hold", "hold") \notin Pending

IInv ==
  /\ TypeOK
  /\ CountWritten
  /\ NewWritten
  /\ LeaveAsked
  /\ HoldWritten
  /\ UnauthIsTimed
-----------------------------------------------------------------------------
(* What the handlers write *)

LEMMA Writes ==
  /\ Set("hold", "init") \in Writing /\ Set("hold", "hold") \in Writing
  /\ Set("new", TRUE) \in Writing /\ Set("new", FALSE) \in Writing
  /\ Set("net", TRUE) \in Writing /\ Set("net", FALSE) \in Writing
  /\ Set("key", TRUE) \in Writing /\ Set("key", FALSE) \in Writing
  /\ Set("leave", "none") \in Writing
  /\ \A c \in Count : Set("count", c) \in Writing
<1>1. \A b \in BOOLEAN : /\ Set("new", b) \in {Set("new", c) : c \in BOOLEAN}
                        /\ Set("net", b) \in {Set("net", c) : c \in BOOLEAN}
                        /\ Set("key", b) \in {Set("key", c) : c \in BOOLEAN}
  OBVIOUS
<1>2. \A h \in {"init", "hold"} :
        Set("hold", h) \in {Set("hold", c) : c \in {"init", "hold"}}
  OBVIOUS
<1>3. \A c \in Count : Set("count", c) \in {Set("count", k) : k \in Count}
  OBVIOUS
<1> QED BY Zenon, <1>1, <1>2, <1>3 DEF Writing

LEMMA CountFacts ==
  /\ TooMany \in Nat /\ TooMany = POWERSETTING_COUNT + 1
  /\ Count = 0..TooMany
  /\ \A c \in Count : /\ Min2(c + 1, TooMany) \in Count
                      /\ Min2(c + 1, TooMany) > 0
                      /\ c < TooMany => Min2(c + 1, TooMany) = c + 1
                      /\ c = TooMany => Min2(c + 1, TooMany) = TooMany
BY LifeAssumption DEF TooMany, Count, Min2

LEMMA WipeFacts ==
  /\ Wipe \in Seq(Writing)
  /\ ToSet(Wipe) \subseteq {Set("net", FALSE), Set("key", FALSE)}
<1>1. CASE nv.new
  <2>1. Wipe = <<Set("net", FALSE), Set("key", FALSE)>>
    BY <1>1 DEF Wipe
  <2> QED BY <2>1, Writes, PairSet
<1>2. CASE ~nv.new
  <2>1. Wipe = <<>>
    BY <1>2 DEF Wipe
  <2> QED BY <2>1, EmptySet
<1> QED BY <1>1, <1>2

LEMMA InitDeviceWrites ==
  ASSUME NEW d, NEW held \in BOOLEAN, NEW before \in Seq(Writing),
         InitDevice(d, held, before)
  PROVE  /\ writes' \in Seq(Writing)
         /\ ToSet(writes') \subseteq
              ToSet(before) \cup {Set("net", FALSE), Set("key", FALSE),
                                  Set("leave", "none"), Set("new", TRUE)}
         /\ Set("new", TRUE) \in ToSet(writes') =>
              Set("new", TRUE) \in ToSet(before) \/ nv.leave # "none"
<1> DEFINE leaving == ~held /\ nv.leave # "none"
           stays == leaving /\ nv.leave = "leave"
           c == IF leaving THEN <<Set("leave", "none")>> ELSE <<>>
           e == IF stays THEN <<Set("new", TRUE)>> ELSE <<>>
<1>1. writes' = before \o Wipe \o c \o e
  BY DEF InitDevice
<1>2. c \in Seq(Writing) /\ ToSet(c) \subseteq {Set("leave", "none")}
  <2>1. CASE leaving
    BY <2>1, Writes, SingleSet
  <2>2. CASE ~leaving
    BY <2>2, EmptySet
  <2> QED BY <2>1, <2>2
<1>3. /\ e \in Seq(Writing)
      /\ ToSet(e) \subseteq {Set("new", TRUE)}
      /\ Set("new", TRUE) \in ToSet(e) => nv.leave # "none"
  <2>1. CASE stays
    BY <2>1, Writes, SingleSet
  <2>2. CASE ~stays
    BY <2>2, EmptySet
  <2> QED BY <2>1, <2>2
<1> HIDE DEF c, e
<1>4. Wipe \in Seq(Writing)
  BY WipeFacts
<1>5. PICK b \in Seq(Writing), g \in Seq(Writing), h \in Seq(Writing) :
        b = Wipe /\ g = c /\ h = e
  BY Zenon, <1>2, <1>3, <1>4
<1>6. /\ before \o b \o g \o h \in Seq(Writing)
      /\ ToSet(before \o b \o g \o h)
           = ToSet(before) \cup ToSet(b) \cup ToSet(g) \cup ToSet(h)
  <2>1. /\ before \o b \in Seq(Writing)
        /\ ToSet(before \o b) = ToSet(before) \cup ToSet(b)
    BY ZenonT(40), ConcatSet
  <2>2. PICK x \in Seq(Writing) : x = before \o b
    BY Zenon, <2>1
  <2>3. x \o g \in Seq(Writing) /\ ToSet(x \o g) = ToSet(x) \cup ToSet(g)
    BY ZenonT(40), ConcatSet
  <2>4. PICK y \in Seq(Writing) : y = x \o g
    BY Zenon, <2>3
  <2>5. y \o h \in Seq(Writing) /\ ToSet(y \o h) = ToSet(y) \cup ToSet(h)
    BY ZenonT(40), ConcatSet
  <2> QED BY Zenon, <2>1, <2>2, <2>3, <2>4, <2>5
<1>7. /\ writes' \in Seq(Writing)
      /\ ToSet(writes') = ToSet(before) \cup ToSet(Wipe) \cup ToSet(c) \cup ToSet(e)
  BY Zenon, <1>1, <1>5, <1>6
<1>8. /\ Set("new", TRUE) # Set("net", FALSE)
      /\ Set("new", TRUE) # Set("key", FALSE)
      /\ Set("new", TRUE) # Set("leave", "none")
  BY DEF Set
<1> QED BY Zenon, <1>2, <1>3, <1>7, <1>8, WipeFacts

LEMMA InitDeviceState ==
  ASSUME TypeOK, NEW d \in State, NEW held \in BOOLEAN, NEW before,
         InitDevice(d, held, before)
  PROVE  /\ devState' \in State
         /\ ~held => devState' \in {"hold", "init"}
         /\ held => devState' = d
         /\ devStartMode' \in {"join", "resume", "rejoin"}
         /\ events' \subseteq Event
         /\ armed' \subseteq Timer
         /\ armed \subseteq armed'
BY DEF InitDevice, TypeOK, State, Event, Timer
-----------------------------------------------------------------------------
(* Types *)

Message == {"disc", "joined", "failed", "rejoin"}

LEMMA PostFacts ==
  ASSUME NEW kind \in Message, mail \in Seq(Message), Post(kind)
  PROVE  mail' \in Seq(Message) /\ Len(mail') <= MailMax
BY LifeAssumption DEF Post

LEMMA ReceiveFacts ==
  ASSUME NEW kind, mail \in Seq(Message), Len(mail) <= MailMax, Receives(kind)
  PROVE  mail' \in Seq(Message) /\ Len(mail') <= MailMax
BY LifeAssumption DEF Receives

LEMMA WriteType ==
  ASSUME TypeOK, Write
  PROVE  nv' \in Stored /\ writes' \in Seq(Writing) /\ Head(writes) \in Writing
<1>1. /\ Head(writes) \in Writing
      /\ Tail(writes) \in Seq(Writing)
  BY Zenon, TailSet DEF TypeOK, Write
<1> DEFINE w == Head(writes)
<1>2. PICK x \in Writing : x = w
  BY Zenon, <1>1
<1>3. nv' = [nv EXCEPT ![x.item] = x.value]
  BY <1>2 DEF Write
<1>4. \/ \E h \in {"init", "hold"} : x = Set("hold", h)
      \/ \E b \in BOOLEAN : \/ x = Set("new", b)
                            \/ x = Set("net", b)
                            \/ x = Set("key", b)
      \/ \E c \in Count : x = Set("count", c)
      \/ x = Set("leave", "none")
  BY Zenon DEF Writing
<1>5. nv \in Stored
  BY DEF TypeOK
<1>6. [nv EXCEPT ![x.item] = x.value] \in Stored
  BY <1>4, <1>5 DEF Stored, Set
<1> QED BY <1>1, <1>3, <1>6 DEF Write

LEMMA RestartType ==
  ASSUME TypeOK, NEW rest \in SUBSET Timer, Restart(rest)
  PROVE  TypeOK'
<1>1. writes' \in Seq(Writing) /\ mail' \in Seq(Message) /\ Len(mail') <= MailMax
  BY LifeAssumption DEF Restart
<1>2. starts' \in Count
  BY CountFacts DEF Restart, TypeOK, Min2
<1> QED BY <1>1, <1>2, LifeAssumption
        DEF Restart, TypeOK, Message, Ram, NewApp, State, Event, Timer

LEMMA InitDeviceType ==
  ASSUME TypeOK, NEW d \in State, NEW held \in BOOLEAN,
         NEW before \in Seq(Writing), InitDevice(d, held, before)
  PROVE  /\ writes' \in Seq(Writing)
         /\ devState' \in State
         /\ devStartMode' \in {"join", "resume", "rejoin"}
         /\ events' \subseteq Event
         /\ armed' \subseteq Timer
BY InitDeviceWrites, InitDeviceState

LEMMA ReportType ==
  ASSUME TypeOK, Connected \/ Unconnected
  PROVE  /\ app' \in [first : BOOLEAN, hasConn : BOOLEAN,
                      notTimeOut : BOOLEAN, counted : BOOLEAN]
         /\ writes' \in Seq(Writing)
         /\ armed' \subseteq Timer
         /\ events' \subseteq Event
         /\ starts' \in Count
<1>0. /\ nv.count \in Count
      /\ app \in [first : BOOLEAN, hasConn : BOOLEAN,
                  notTimeOut : BOOLEAN, counted : BOOLEAN]
  BY DEF TypeOK, Stored
<1>1. CASE Connected
  <2>1. writes' \in Seq(Writing)
    BY <1>1, Writes, CountFacts, SingleSet, EmptySet DEF Connected
  <2>2. app' \in [first : BOOLEAN, hasConn : BOOLEAN,
                  notTimeOut : BOOLEAN, counted : BOOLEAN]
    BY <1>0, <1>1 DEF Connected
  <2> QED BY <1>1, <2>1, <2>2, CountFacts DEF Connected, TypeOK, FirstReport, Timer
<1>2. CASE Unconnected
  <2> DEFINE n == Min2(nv.count + 1, TooMany)
             resets == Counts /\ TooOften(n) /\ devState # "hold"
             a == IF Counts THEN <<Set("count", n)>> ELSE <<>>
             b == IF resets THEN Reset ELSE <<>>
  <2>1. n \in Count
    BY <1>0, CountFacts
  <2>2. a \in Seq(Writing)
    BY <2>1, Writes, SingleSet, EmptySet
  <2>3. b \in Seq(Writing)
    BY Writes, PairSet, EmptySet DEF Reset
  <2>4. writes' = a \o b
    BY <1>2 DEF Unconnected
  <2> HIDE DEF a, b
  <2>5. writes' \in Seq(Writing)
    BY Zenon, <2>2, <2>3, <2>4, ConcatSet
  <2>6. app' \in [first : BOOLEAN, hasConn : BOOLEAN,
                  notTimeOut : BOOLEAN, counted : BOOLEAN]
    BY <1>0, <1>2 DEF Unconnected, Counts
  <2>7. armed' \subseteq Timer /\ events' \subseteq Event
    BY <1>2 DEF Unconnected, TypeOK, FirstReport, Timer, Event
  <2> QED BY <1>2, <2>5, <2>6, <2>7 DEF Unconnected, TypeOK
<1> QED BY <1>1, <1>2

LEMMA TypeStep ==
  ASSUME TypeOK, [Next]_vars
  PROVE  TypeOK'
<1> USE DEF zdo, com, history
<1>0. /\ mail \in Seq(Message) /\ Len(mail) <= MailMax
      /\ nv.hold \in {"none", "init", "hold"}
  BY DEF TypeOK, Message, Stored
<1>1. ASSUME PowerLoss \/ WatchDog \/ SoftReset PROVE TypeOK'
  <2>1. PICK rest \in SUBSET Timer : Restart(rest)
    BY <1>1 DEF PowerLoss, WatchDog, SoftReset, TypeOK
  <2> QED BY <2>1, RestartType
<1>2. ASSUME Write PROVE TypeOK'
  <2>1. nv' \in Stored /\ writes' \in Seq(Writing)
    BY <1>2, WriteType
  <2>2. starts' \in Count
    <3>1. starts' = IF Recorded(Head(writes)) THEN 0 ELSE starts
      BY <1>2 DEF Write
    <3>2. 0 \in Count
      BY CountFacts
    <3> QED BY Zenon, <3>1, <3>2 DEF TypeOK
  <2>3. asked' \in BOOLEAN
    <3>1. asked' = IF Saved(Head(writes)) THEN nv.leave # "none" ELSE asked
      BY <1>2 DEF Write
    <3> QED BY Zenon, <3>1 DEF TypeOK
  <2> QED BY <1>2, <2>1, <2>2, <2>3 DEF Write, TypeOK
<1>3. ASSUME StartUp PROVE TypeOK'
  <2>1. PICK d \in State, held \in BOOLEAN, before \in Seq(Writing) :
          InitDevice(d, held, before)
    <3>1. PICK junk \in {"init", "hold"} :
            InitDevice(IF nv.hold = "init" THEN "init" ELSE "hold",
                       (IF nv.hold = "init" THEN "init" ELSE "hold") = "hold",
                       IF nv.hold = "none" THEN <<Set("hold", junk)>> ELSE <<>>)
      BY <1>3 DEF StartUp
    <3>2. (IF nv.hold = "none" THEN <<Set("hold", junk)>> ELSE <<>>) \in Seq(Writing)
      BY Writes, SingleSet, EmptySet
    <3> QED BY <3>1, <3>2 DEF State
  <2>2. /\ writes' \in Seq(Writing)
        /\ devState' \in State
        /\ devStartMode' \in {"join", "resume", "rejoin"}
        /\ events' \subseteq Event
        /\ armed' \subseteq Timer
    BY <2>1, InitDeviceType
  <2> QED BY <1>3, <2>2 DEF StartUp, TypeOK
<1>4. ASSUME InitConfirm \/ KeyStart PROVE TypeOK'
  <2>1. InitDevice(devState, FALSE, <<>>) /\ devState \in State
    BY <1>4 DEF InitConfirm, KeyStart, TypeOK
  <2>2. <<>> \in Seq(Writing)
    OBVIOUS
  <2>3. /\ writes' \in Seq(Writing)
        /\ devState' \in State
        /\ devStartMode' \in {"join", "resume", "rejoin"}
        /\ events' \subseteq Event
        /\ armed' \subseteq Timer
    BY <2>1, <2>2, InitDeviceType
  <2> QED BY <1>4, <2>3 DEF InitConfirm, KeyStart, TypeOK
<1>5. ASSUME NetworkInit PROVE TypeOK'
  BY <1>5 DEF NetworkInit, Begin, TypeOK, State, Event, Timer
<1>6. ASSUME StateChange \/ UpdateNv \/ DeviceReset PROVE TypeOK'
  <2>1. writes' \in Seq(Writing)
    <3>1. CASE StateChange
      BY <3>1, Writes, SingleSet, EmptySet DEF StateChange
    <3>2. CASE UpdateNv
      BY <3>2, Writes, PairSet DEF UpdateNv
    <3>3. CASE DeviceReset
      BY <3>3, Writes, SingleSet DEF DeviceReset
    <3> QED BY <1>6, <3>1, <3>2, <3>3
  <2> QED BY ZenonT(40), <1>6, <2>1 DEF StateChange, UpdateNv, DeviceReset, TypeOK
<1>7. ASSUME DeviceAuth PROVE TypeOK'
  <2>1. CASE devState = "unauth"
    <3>1. writes' = <<Set("key", TRUE)>>
      BY <1>7, <2>1 DEF DeviceAuth
    <3>2. writes' \in Seq(Writing)
      BY <3>1, Writes, SingleSet
    <3>3. devState' \in State /\ events' \subseteq Event /\ armed' \subseteq Timer
      BY <1>7, <2>1 DEF DeviceAuth, TypeOK, State, Event, Timer
    <3> QED BY <1>7, <3>2, <3>3 DEF DeviceAuth, TypeOK
  <2>2. CASE devState # "unauth"
    <3>1. /\ devState' = devState /\ writes' = writes
          /\ events' \subseteq Event /\ armed' \subseteq Timer
      BY <1>7, <2>2 DEF DeviceAuth, TypeOK, Timer
    <3> QED BY <1>7, <3>1 DEF DeviceAuth, TypeOK
  <2> QED BY <2>1, <2>2
<1>8. ASSUME DiscoveryDone \/ Joined \/ NotJoined \/ Rejoin PROVE TypeOK'
  <2>1. mail' \in Seq(Message) /\ Len(mail') <= MailMax
    <3>1. PICK kind \in Message : Receives(kind)
      BY <1>8 DEF DiscoveryDone, Joined, NotJoined, Rejoin, Message
    <3> QED BY <1>0, <3>1, ReceiveFacts
  <2>2. ASSUME DiscoveryDone PROVE TypeOK'
    <3>1. /\ devState' \in State
          /\ request' \in {"none", "disc", "join", "orphan"}
          /\ armed' \subseteq Timer
      BY <2>2 DEF DiscoveryDone, TypeOK, State, Timer
    <3> QED BY <2>1, <2>2, <3>1 DEF DiscoveryDone, TypeOK, Message
  <2>3. ASSUME Joined PROVE TypeOK'
    <3>1. devState' \in State /\ events' \subseteq Event /\ armed' \subseteq Timer
      BY <2>3 DEF Joined, TypeOK, State, Event, Timer
    <3> QED BY <2>1, <2>3, <3>1 DEF Joined, TypeOK, Message
  <2>4. ASSUME NotJoined PROVE TypeOK'
    <3>1. /\ devStartMode' \in {"join", "resume", "rejoin"}
          /\ events' \subseteq Event
          /\ armed' \subseteq Timer
      BY <2>4 DEF NotJoined, TypeOK, Event, Timer
    <3> QED BY <2>1, <2>4, <3>1 DEF NotJoined, TypeOK, Message
  <2>5. ASSUME Rejoin PROVE TypeOK'
    BY <2>1, <2>5 DEF Rejoin, TypeOK, Event, Message
  <2> QED BY <1>8, <2>2, <2>3, <2>4, <2>5
<1>9. ASSUME StateReport PROVE TypeOK'
  <2>1. /\ app' \in [first : BOOLEAN, hasConn : BOOLEAN,
                     notTimeOut : BOOLEAN, counted : BOOLEAN]
        /\ writes' \in Seq(Writing)
        /\ armed' \subseteq Timer
        /\ events' \subseteq Event
        /\ starts' \in Count
    BY <1>9, ReportType DEF StateReport
  <2>2. joiningCount' \in 0..JoiningLimit
    BY <1>9, LifeAssumption DEF StateReport, TypeOK, Min2
  <2>3. continueJoining' \in BOOLEAN
    BY <1>9 DEF StateReport
  <2> QED BY <1>9, <2>1, <2>2, <2>3 DEF StateReport, TypeOK
<1>10. ASSUME SettingTimeout \/ RejoinPower PROVE TypeOK'
  <2>1. CASE SettingTimeout
    BY <2>1 DEF SettingTimeout, TypeOK
  <2>2. CASE RejoinPower
    <3>1. armed' \subseteq Timer
      BY <2>2 DEF RejoinPower, TypeOK
    <3>2. events' \subseteq Event
      BY <2>2 DEF RejoinPower, Resumed, TypeOK, Event
    <3>3. joiningCount' \in 0..JoiningLimit
      BY <2>2, LifeAssumption DEF RejoinPower
    <3> QED BY <2>2, <3>1, <3>2, <3>3 DEF RejoinPower, TypeOK
  <2> QED BY <1>10, <2>1, <2>2
<1>11. ASSUME KeyReset PROVE TypeOK'
  <2>1. writes' \in Seq(Writing)
    BY <1>11, Writes, PairSet DEF KeyReset, Reset
  <2> QED BY <1>11, <2>1 DEF KeyReset, TypeOK, Timer
<1>12. ASSUME ScanConfirm \/ JoinConfirm \/ SyncLost PROVE TypeOK'
  <2>1. mail' \in Seq(Message) /\ Len(mail') <= MailMax
    <3> USE DEF Message
    <3>1. CASE ScanConfirm
      BY <1>0, <3>1, PostFacts DEF ScanConfirm
    <3>2. CASE JoinConfirm
      BY <1>0, <3>2, PostFacts DEF JoinConfirm
    <3>3. CASE SyncLost
      BY <1>0, <3>3, PostFacts DEF SyncLost
    <3> QED BY <1>12, <3>1, <3>2, <3>3
  <2> QED BY <1>12, <2>1 DEF ScanConfirm, JoinConfirm, SyncLost, TypeOK, State,
                             Message
<1>13. ASSUME KeyReceived \/ Leave \/ TablesChanged PROVE TypeOK'
  <2>1. CASE KeyReceived
    BY <2>1 DEF KeyReceived, TypeOK, Event
  <2>2. CASE Leave
    <3>1. nv' \in Stored
      BY SMTT(30), <2>2, LifeAssumption DEF Leave, TypeOK, Stored
    <3> QED BY <2>2, <3>1 DEF Leave, TypeOK, Timer
  <2>3. CASE TablesChanged
    BY <2>3 DEF TablesChanged, TypeOK, Timer
  <2> QED BY <1>13, <2>1, <2>2, <2>3
<1>14. ASSUME UNCHANGED vars PROVE TypeOK'
  BY <1>14 DEF vars, TypeOK
<1> QED BY <1>1, <1>2, <1>3, <1>4, <1>5, <1>6, <1>7, <1>8, <1>9, <1>10, <1>11,
           <1>12, <1>13, <1>14 DEF Next, Handler, Network

LEMMA InitType == ASSUME Init PROVE TypeOK
<1>1. nv \in Stored
  BY CountFacts DEF Init, Stored
<1>2. /\ writes \in Seq(Writing)
      /\ mail \in Seq({"disc", "joined", "failed", "rejoin"})
      /\ Len(mail) <= MailMax
  BY LifeAssumption DEF Init
<1>3. starts \in Count
  BY CountFacts, LifeAssumption DEF Init, TooMany, Count
<1>4. joiningCount \in 0..JoiningLimit
  BY LifeAssumption DEF Init
<1> QED BY <1>1, <1>2, <1>3, <1>4 DEF Init, TypeOK, Ram, NewApp, State

(* Every variable keeps its type. *)
THEOREM TypeCorrect == Spec => []TypeOK
<1> QED BY InitType, TypeStep, PTL DEF Spec
-----------------------------------------------------------------------------
(* The invariant *)

(* A step that leaves NV memory and the counting alone, and writes nothing  *)
(* or, if it was asked for, the option to start afresh *)
LEMMA Unrelated ==
  ASSUME IInv, UNCHANGED <<nv, starts>>, asked => asked',
         app'.counted = app.counted, app'.hasConn = app.hasConn,
         \/ UNCHANGED writes
         \/ /\ \A w \in ToSet(writes') : w.item # "count"
            /\ Set("new", TRUE) \in ToSet(writes') =>
                 asked' /\ Set("new", FALSE) \notin ToSet(writes')
  PROVE  CountWritten' /\ NewWritten' /\ LeaveAsked'
<1>1. CountWritten'
  <2>1. CASE UNCHANGED writes
    BY <2>1 DEF IInv, CountWritten, Pending
  <2>2. CASE \A w \in ToSet(writes') : w.item # "count"
    BY <2>2 DEF IInv, CountWritten, Pending
  <2> QED BY <2>1, <2>2
<1>2. NewWritten'
  <2>1. CASE UNCHANGED writes
    BY <2>1 DEF IInv, NewWritten, Pending
  <2>2. CASE /\ \A w \in ToSet(writes') : w.item # "count"
             /\ Set("new", TRUE) \in ToSet(writes') =>
                  asked' /\ Set("new", FALSE) \notin ToSet(writes')
    <3>1. Set("count", 0) \notin ToSet(writes')
      BY <2>2 DEF Set
    <3> QED BY <2>2, <3>1 DEF NewWritten, Pending
  <2> QED BY <2>1, <2>2
<1> QED BY <1>1, <1>2 DEF IInv, LeaveAsked

LEMMA NoWrites == ASSUME writes = <<>> PROVE ToSet(writes) = {}
BY DEF ToSet

LEMMA Fields ==
  /\ Set("hold", "init").item = "hold" /\ Set("hold", "hold").item = "hold"
  /\ Set("new", TRUE).item = "new" /\ Set("new", FALSE).item = "new"
  /\ Set("net", TRUE).item = "net" /\ Set("net", FALSE).item = "net"
  /\ Set("key", TRUE).item = "key" /\ Set("key", FALSE).item = "key"
  /\ Set("leave", "none").item = "leave"
  /\ \A c : Set("count", c).item = "count" /\ Set("count", c).value = c
  /\ Set("new", TRUE).value = TRUE /\ Set("new", FALSE).value = FALSE
  /\ Set("hold", "init").value = "init" /\ Set("hold", "hold").value = "hold"
BY DEF Set

LEMMA InvRestart ==
  ASSUME IInv, PowerLoss \/ WatchDog \/ SoftReset
  PROVE  IInv'
<1>1. PICK rest \in SUBSET Timer : Restart(rest)
  BY DEF PowerLoss, WatchDog, SoftReset, IInv, TypeOK
<1>2. TypeOK'
  BY <1>1, RestartType DEF IInv
<1>3. ToSet(writes') = {}
  BY <1>1 DEF Restart, ToSet
<1>4. CountWritten'
  <2>1. /\ starts \in 0..TooMany /\ nv.count \in 0..TooMany /\ TooMany \in Nat
        /\ nv.count <= starts
    BY CountFacts DEF IInv, TypeOK, Stored, CountWritten
  <2>2. nv.count <= starts' /\ (nv.count < starts' \/ starts' = TooMany)
    BY <1>1, <2>1 DEF Restart, Min2
  <2>3. nv' = nv
    BY <1>1 DEF Restart
  <2> QED BY <1>3, <2>2, <2>3 DEF CountWritten, Pending
<1>5. NewWritten'
  BY <1>3 DEF NewWritten, Pending
<1>6. LeaveAsked'
  BY <1>1 DEF Restart, IInv, LeaveAsked
<1>7. HoldWritten'
  BY <1>1, <1>3 DEF Restart, HoldWritten, Pending
<1>8. UnauthIsTimed'
  BY <1>1 DEF Restart, UnauthIsTimed
<1> QED BY <1>2, <1>4, <1>5, <1>6, <1>7, <1>8 DEF IInv

LEMMA InvWrite ==
  ASSUME IInv, Write
  PROVE  IInv'
<1> USE DEF zdo, com
<1> DEFINE w == Head(writes)
<1>1. /\ TypeOK'
      /\ ToSet(writes) = {w} \cup ToSet(writes')
      /\ w \in Writing
  <2>1. [Next]_vars
    BY DEF Next
  <2>2. TypeOK'
    BY <2>1, TypeStep DEF IInv
  <2>3. writes \in Seq(Writing) /\ writes # <<>> /\ writes' = Tail(writes)
    BY DEF Write, IInv, TypeOK
  <2> QED BY Zenon, <2>2, <2>3, TailSet
<1>2. PICK x \in Writing : x = w
  BY Zenon, <1>1
<1>3. /\ nv' = [nv EXCEPT ![x.item] = x.value]
      /\ starts' = IF Recorded(x) THEN 0 ELSE starts
      /\ asked' = IF Saved(x) THEN nv.leave # "none" ELSE asked
      /\ UNCHANGED <<boot, devState, armed, note, app>>
  BY <1>2 DEF Write
<1>4. x \in Pending /\ Pending' \subseteq Pending
  BY <1>1, <1>2 DEF Pending
<1>5. \/ \E h \in {"init", "hold"} : x = Set("hold", h)
      \/ \E b \in BOOLEAN : \/ x = Set("new", b)
                            \/ x = Set("net", b)
                            \/ x = Set("key", b)
      \/ \E c \in Count : x = Set("count", c)
      \/ x = Set("leave", "none")
  BY Zenon DEF Writing
<1>6. nv \in Stored /\ starts \in Count /\ asked \in BOOLEAN
  BY DEF IInv, TypeOK
<1>7. CountWritten'
  <2>1. CASE \E c \in Count : x = Set("count", c)
    <3>1. PICK c \in Count : x = Set("count", c)
      BY <2>1
    <3>2. nv'.count = c
      BY <1>3, <1>6, <3>1 DEF Stored, Set
    <3>3. starts' = IF c = 0 THEN 0 ELSE starts
      BY <1>3, <3>1 DEF Recorded, Set
    <3>4. c <= starts /\ (IF c = 0 THEN app.hasConn ELSE app.counted)
      BY <1>4, <3>1 DEF IInv, CountWritten, Set
    <3>5. CASE c = 0
      <4>1. \A v \in Pending : v.item = "count" => v.value = 0 /\ app.hasConn
        BY <1>4, <3>1, <3>5 DEF IInv, CountWritten
      <4>2. starts' = 0 /\ nv'.count = 0 /\ app' = app
        BY <1>3, <3>2, <3>3, <3>5
      <4>3. app.hasConn
        BY <3>4, <3>5
      <4> QED BY <1>4, <4>1, <4>2, <4>3 DEF CountWritten
    <3>6. CASE c # 0
      <4>1. starts' = starts /\ nv'.count = c /\ app' = app /\ app.counted
        BY <1>3, <3>2, <3>3, <3>4, <3>6
      <4> QED BY <1>4, <3>4, <4>1 DEF CountWritten, IInv
    <3> QED BY <3>5, <3>6
  <2>2. CASE ~\E c \in Count : x = Set("count", c)
    <3>1. x.item # "count"
      BY <1>5, <2>2 DEF Set
    <3>2. nv'.count = nv.count /\ starts' = starts /\ app' = app
      BY <1>3, <1>6, <3>1 DEF Stored, Recorded
    <3> QED BY <1>4, <3>2 DEF CountWritten, IInv
  <2> QED BY <2>1, <2>2
<1>8. NewWritten'
  <2>1. CASE Set("new", TRUE) \in Pending'
    <3>1. Set("new", FALSE) \notin Pending /\ Set("count", 0) \notin Pending
      BY <1>4, <2>1 DEF IInv, NewWritten
    <3>2. ~Saved(x) /\ ~Recorded(x)
      <4>1. x # Set("new", FALSE) /\ x # Set("count", 0)
        BY <1>4, <3>1
      <4>2. x.item = "new" => x.value = TRUE
        <5>1. x.item = "new" => \E b \in BOOLEAN : x = Set("new", b)
          BY <1>5 DEF Set
        <5>2. \A b \in BOOLEAN : b = TRUE \/ b = FALSE
          OBVIOUS
        <5>3. x.item = "new" => x = Set("new", TRUE)
          BY Zenon, <4>1, <5>1, <5>2
        <5> QED BY <5>3, Fields
      <4>3. x.item = "count" => x.value # 0
        <5>1. x.item = "count" => \E c \in Count : x = Set("count", c)
          BY <1>5 DEF Set
        <5> QED BY <4>1, <5>1, Fields
      <4> QED BY Zenon, <4>2, <4>3 DEF Saved, Recorded
    <3>3. starts' = starts /\ asked' = asked
      BY <1>3, <3>2
    <3> QED BY <1>4, <2>1, <3>1, <3>3 DEF IInv, NewWritten
  <2> QED BY <2>1 DEF NewWritten
<1>9. LeaveAsked'
  <2>1. nv'.leave # "none" => nv.leave # "none"
    BY <1>3, <1>5, <1>6 DEF Stored, Set
  <2> QED BY <1>3, <2>1 DEF IInv, LeaveAsked
<1>10. HoldWritten'
  <2>1. boot' \in {"off", "zdo"} => note' = "none"
    BY <1>3 DEF IInv, HoldWritten
  <2>2. ASSUME note' = "end", "watchdog" \notin armed'
        PROVE  /\ nv'.hold = "init" \/ Set("hold", "init") \in Pending'
               /\ Set("hold", "hold") \notin Pending'
    <3>1. /\ nv.hold = "init" \/ Set("hold", "init") \in Pending
          /\ Set("hold", "hold") \notin Pending
      BY <1>3, <2>2 DEF IInv, HoldWritten
    <3>2. CASE x = Set("hold", "init")
      BY <1>3, <1>4, <1>6, <3>1, <3>2 DEF Stored, Set
    <3>3. CASE x # Set("hold", "init")
      <4>1. x.item # "hold"
        BY <1>4, <1>5, <3>1, <3>3 DEF Set
      <4>2. nv'.hold = nv.hold
        BY <1>3, <1>6, <4>1 DEF Stored
      <4>3. Pending = {x} \cup Pending'
        BY <1>1, <1>2 DEF Pending
      <4> QED BY <3>1, <3>3, <4>2, <4>3
    <3> QED BY <3>2, <3>3
  <2> QED BY Zenon, <2>1, <2>2 DEF HoldWritten
<1>11. UnauthIsTimed'
  BY <1>3 DEF IInv, UnauthIsTimed
<1> QED BY Zenon, <1>1, <1>7, <1>8, <1>9, <1>10, <1>11 DEF IInv

LEMMA TypeNext == ASSUME IInv, Next PROVE TypeOK'
BY TypeStep DEF IInv

(* Steps that write nothing *)
LEMMA InvQuiet ==
  ASSUME IInv,
         \/ NetworkInit \/ DiscoveryDone \/ Joined \/ NotJoined \/ Rejoin
         \/ SettingTimeout \/ RejoinPower
         \/ ScanConfirm \/ JoinConfirm \/ SyncLost \/ KeyReceived \/ TablesChanged
  PROVE  IInv'
<1> USE DEF zdo, com, history
<1>1. TypeOK'
  BY TypeNext DEF Next, Handler, Network
<1>2. /\ UNCHANGED <<nv, writes, starts, asked, note, boot>>
      /\ "watchdog" \in armed => "watchdog" \in armed'
  BY DEF NetworkInit, Begin, DiscoveryDone, Joined, NotJoined, Rejoin,
         SettingTimeout, RejoinPower, ScanConfirm, JoinConfirm, SyncLost,
         KeyReceived, TablesChanged
<1>3. app'.counted = app.counted /\ app'.hasConn = app.hasConn
  <2>1. CASE SettingTimeout
    BY <2>1 DEF SettingTimeout, IInv, TypeOK
  <2>2. CASE ~SettingTimeout
    BY <2>2 DEF NetworkInit, DiscoveryDone, Joined, NotJoined, Rejoin,
                RejoinPower, ScanConfirm, JoinConfirm, SyncLost, KeyReceived,
                TablesChanged
  <2> QED BY <2>1, <2>2
<1>4. CountWritten' /\ NewWritten' /\ LeaveAsked'
  BY Zenon, <1>2, <1>3, Unrelated
<1>5. HoldWritten'
  BY <1>2 DEF IInv, HoldWritten, Pending
<1>6. UnauthIsTimed'
  <2>1. CASE NetworkInit
    BY <2>1 DEF NetworkInit, Begin, UnauthIsTimed
  <2>2. CASE DiscoveryDone
    BY <2>2 DEF DiscoveryDone, IInv, UnauthIsTimed
  <2>3. CASE Joined
    BY <2>3 DEF Joined, IInv, UnauthIsTimed
  <2>4. CASE NotJoined \/ Rejoin
    BY <2>4 DEF NotJoined, Rejoin, IInv, UnauthIsTimed
  <2>5. CASE SettingTimeout
    BY <2>5 DEF SettingTimeout, IInv, UnauthIsTimed
  <2>6. CASE RejoinPower
    BY <2>6 DEF RejoinPower, IInv, UnauthIsTimed
  <2>7. CASE ScanConfirm \/ JoinConfirm \/ SyncLost
    BY <2>7 DEF ScanConfirm, JoinConfirm, SyncLost, IInv, UnauthIsTimed
  <2>8. CASE KeyReceived \/ TablesChanged
    BY <2>8 DEF KeyReceived, TablesChanged, IInv, UnauthIsTimed
  <2> QED BY <2>1, <2>2, <2>3, <2>4, <2>5, <2>6, <2>7, <2>8
<1> QED BY <1>1, <1>4, <1>5, <1>6 DEF IInv

(* Steps that start the device *)
LEMMA InvStart ==
  ASSUME IInv, StartUp \/ InitConfirm \/ KeyStart
  PROVE  IInv'
<1> USE DEF zdo, com, history
<1>1. TypeOK'
  BY TypeNext DEF Next, Handler
<1>2. UNCHANGED <<nv, starts, asked, note, app>> /\ writes = <<>>
  BY DEF StartUp, InitConfirm, KeyStart, Quiet, Ready
<1>3. PICK d \in State, held \in BOOLEAN, before \in Seq(Writing) :
        /\ InitDevice(d, held, before)
        /\ ToSet(before) \subseteq {Set("hold", "init"), Set("hold", "hold")}
        /\ KeyStart => ToSet(before) = {}
        /\ d # "unauth" \/ ~held
  <2>1. CASE StartUp
    <3>1. PICK junk \in {"init", "hold"} :
            InitDevice(IF nv.hold = "init" THEN "init" ELSE "hold",
                       (IF nv.hold = "init" THEN "init" ELSE "hold") = "hold",
                       IF nv.hold = "none" THEN <<Set("hold", junk)>> ELSE <<>>)
      BY <2>1 DEF StartUp
    <3> DEFINE b == IF nv.hold = "none" THEN <<Set("hold", junk)>> ELSE <<>>
    <3>2. /\ b \in Seq(Writing)
          /\ ToSet(b) \subseteq {Set("hold", "init"), Set("hold", "hold")}
      <4>1. CASE nv.hold = "none"
        BY <4>1, Writes, SingleSet
      <4>2. CASE nv.hold # "none"
        BY <4>2, EmptySet
      <4> QED BY <4>1, <4>2
    <3>3. ~KeyStart
      BY <2>1 DEF StartUp, KeyStart, Quiet, Ready
    <3> QED BY <3>1, <3>2, <3>3 DEF State
  <2>2. CASE InitConfirm \/ KeyStart
    <3>1. InitDevice(devState, FALSE, <<>>) /\ devState \in State
      BY <2>2 DEF InitConfirm, KeyStart, IInv, TypeOK
    <3>2. <<>> \in Seq(Writing) /\ ToSet(<<>>) = {}
      BY EmptySet
    <3> QED BY <3>1, <3>2
  <2> QED BY <2>1, <2>2
<1>4. /\ ToSet(writes') \subseteq
           ToSet(before) \cup {Set("net", FALSE), Set("key", FALSE),
                               Set("leave", "none"), Set("new", TRUE)}
      /\ Set("new", TRUE) \in ToSet(writes') =>
           Set("new", TRUE) \in ToSet(before) \/ nv.leave # "none"
  BY <1>3, InitDeviceWrites
<1>5. /\ devState' # "unauth"
      /\ armed \subseteq armed'
  BY <1>3, InitDeviceState DEF IInv
<1>6. /\ \A w \in ToSet(writes') : w.item # "count"
      /\ Set("new", TRUE) \in ToSet(writes') =>
           asked' /\ Set("new", FALSE) \notin ToSet(writes')
  <2>1. \A w \in ToSet(writes') :
          w \in {Set("hold", "init"), Set("hold", "hold"), Set("net", FALSE),
                 Set("key", FALSE), Set("leave", "none"), Set("new", TRUE)}
    BY <1>3, <1>4
  <2>2. \A w \in ToSet(writes') : w.item # "count" /\ w # Set("new", FALSE)
    BY ZenonT(40), <2>1, Fields
  <2>3. Set("new", TRUE) \notin ToSet(before)
    BY <1>3, Fields
  <2> QED BY <1>2, <1>4, <2>2, <2>3 DEF IInv, LeaveAsked
<1>7. CountWritten' /\ NewWritten' /\ LeaveAsked'
  BY <1>2, <1>6, Unrelated
<1>8. HoldWritten'
  <2>1. CASE StartUp \/ InitConfirm
    BY <1>2, <2>1 DEF StartUp, InitConfirm, IInv, HoldWritten
  <2>2. CASE KeyStart
    <3>1. boot' = boot /\ boot = "run"
      BY <2>2 DEF KeyStart, Quiet, Ready
    <3>2. Pending = {}
      BY <1>2, NoWrites DEF Pending
    <3>3. Set("hold", "hold") \notin Pending'
      BY <1>3, <1>4, <2>2, Fields DEF Pending
    <3> QED BY <1>2, <1>5, <3>1, <3>2, <3>3 DEF IInv, HoldWritten
  <2> QED BY <2>1, <2>2
<1>9. UnauthIsTimed'
  BY <1>5 DEF UnauthIsTimed
<1> QED BY <1>1, <1>7, <1>8, <1>9 DEF IInv

(* Steps of ZDApp and of the key that write *)
LEMMA InvWriters ==
  ASSUME IInv,
         StateChange \/ UpdateNv \/ DeviceReset \/ DeviceAuth \/ KeyReset
  PROVE  IInv'
<1> USE DEF zdo, com, history
<1>1. TypeOK'
  BY TypeNext DEF Next, Handler
<1>2. /\ writes = <<>> /\ Pending = {}
      /\ boot = "run"
      /\ UNCHANGED <<nv, starts, app>>
      /\ asked => asked'
  <2>1. writes = <<>> /\ boot = "run"
    BY DEF StateChange, UpdateNv, DeviceReset, DeviceAuth, KeyReset, Handles,
           Quiet, Ready
  <2>2. UNCHANGED <<nv, starts, app>> /\ (asked => asked')
    <3>1. StateChange => UNCHANGED <<nv, starts, app>> /\ asked' = asked
      BY DEF StateChange
    <3>2. UpdateNv => UNCHANGED <<nv, starts, app>> /\ asked' = asked
      BY DEF UpdateNv
    <3>3. DeviceAuth => UNCHANGED <<nv, starts, app>> /\ asked' = asked
      BY DEF DeviceAuth
    <3>4. DeviceReset => UNCHANGED <<nv, starts, app>> /\ asked' = TRUE
      BY DEF DeviceReset
    <3>5. KeyReset => UNCHANGED <<nv, starts, app>> /\ asked' = TRUE
      BY DEF KeyReset
    <3>6. UNCHANGED <<nv, starts, app>>
      BY <3>1, <3>2, <3>3, <3>4, <3>5
    <3>7. asked' = asked \/ asked' = TRUE
      BY Zenon, <3>1, <3>2, <3>3, <3>4, <3>5
    <3>8. asked => asked'
      BY Zenon, <3>7
    <3> QED BY Zenon, <3>6, <3>8
  <2> QED BY <2>1, <2>2, NoWrites DEF Pending
<1>3. CASE StateChange
  <2>1. ToSet(writes') \subseteq {Set("hold", "init")}
    BY <1>3, Writes, SingleSet, EmptySet DEF StateChange
  <2>2. CountWritten' /\ NewWritten' /\ LeaveAsked'
    <3>1. /\ \A w \in ToSet(writes') : w.item # "count"
          /\ Set("new", TRUE) \notin ToSet(writes')
      BY <2>1, Fields
    <3> QED BY <1>2, <3>1, Unrelated
  <2>3. HoldWritten'
    <3>1. note' = "end" => nv'.hold = "init" \/ Set("hold", "init") \in Pending'
      <4>1. CASE note' = "end" /\ nv.hold # "init"
        <5>1. writes' = <<Set("hold", "init")>>
          BY <1>3, <4>1 DEF StateChange, HoldsNext
        <5> QED BY <5>1, Writes, SingleSet DEF Pending
      <4> QED BY <1>2, <4>1
    <3>2. Set("hold", "hold") \notin Pending'
      BY <2>1, Fields DEF Pending
    <3>3. boot' = "run"
      BY <1>2, <1>3 DEF StateChange
    <3> QED BY <3>1, <3>2, <3>3 DEF HoldWritten
  <2>4. UnauthIsTimed'
    BY <1>3 DEF StateChange, IInv, UnauthIsTimed
  <2> QED BY <1>1, <2>2, <2>3, <2>4 DEF IInv
<1>4. CASE UpdateNv \/ DeviceReset \/ DeviceAuth
  <2>1. /\ \A w \in ToSet(writes') : w.item # "count" /\ w.item # "hold"
        /\ Set("new", TRUE) \in ToSet(writes') =>
             asked' /\ Set("new", FALSE) \notin ToSet(writes')
    <3>1. CASE UpdateNv
      <4>1. ToSet(writes') = {Set("net", TRUE), Set("new", FALSE)}
        BY ZenonT(40), <3>1, Writes, PairSet DEF UpdateNv
      <4> QED BY <4>1, Fields
    <3>2. CASE DeviceReset
      <4>1. ToSet(writes') = {Set("new", TRUE)} /\ asked'
        BY <3>2, Writes, SingleSet DEF DeviceReset
      <4> QED BY <4>1, Fields
    <3>3. CASE DeviceAuth /\ devState = "unauth"
      <4>1. writes' = <<Set("key", TRUE)>>
        BY <3>3 DEF DeviceAuth
      <4>2. ToSet(writes') = {Set("key", TRUE)}
        BY <4>1, Writes, SingleSet
      <4> QED BY <4>2, Fields
    <3>4. CASE DeviceAuth /\ devState # "unauth"
      <4>1. ToSet(writes') = {}
        BY <1>2, <3>4, NoWrites DEF DeviceAuth, ToSet
      <4> QED BY <4>1
    <3> QED BY <1>4, <3>1, <3>2, <3>3, <3>4
  <2>2. CountWritten' /\ NewWritten' /\ LeaveAsked'
    BY <1>2, <2>1, Unrelated
  <2>3. HoldWritten'
    <3>1. /\ boot' \in {"run", "stop"} /\ note' = note
          /\ "watchdog" \in armed => "watchdog" \in armed'
      BY <1>2, <1>4 DEF UpdateNv, DeviceReset, DeviceAuth
    <3>2. Set("hold", "hold") \notin Pending'
      BY <2>1, Fields DEF Pending
    <3> QED BY <1>2, <3>1, <3>2 DEF IInv, HoldWritten
  <2>4. UnauthIsTimed'
    <3>1. CASE UpdateNv
      BY <3>1 DEF UpdateNv, IInv, UnauthIsTimed
    <3>2. CASE DeviceReset
      BY <3>2 DEF DeviceReset, UnauthIsTimed
    <3>3. CASE DeviceAuth
      BY <3>3 DEF DeviceAuth, IInv, UnauthIsTimed
    <3> QED BY <1>4, <3>1, <3>2, <3>3
  <2> QED BY <1>1, <2>2, <2>3, <2>4 DEF IInv
<1>5. CASE KeyReset
  <2>1. ToSet(writes') = {Set("hold", "hold"), Set("new", TRUE)} /\ asked'
    BY <1>5, Writes, PairSet DEF KeyReset, Reset
  <2>2. CountWritten' /\ NewWritten' /\ LeaveAsked'
    <3>1. /\ \A w \in ToSet(writes') : w.item # "count"
          /\ Set("new", FALSE) \notin ToSet(writes')
      BY <2>1, Fields
    <3> QED BY <1>2, <2>1, <3>1, Unrelated
  <2>3. HoldWritten'
    BY <1>2, <1>5 DEF KeyReset, HoldWritten
  <2>4. UnauthIsTimed'
    BY <1>5 DEF KeyReset, IInv, UnauthIsTimed
  <2> QED BY <1>1, <2>2, <2>3, <2>4 DEF IInv
<1> QED BY <1>3, <1>4, <1>5

LEMMA InvLeave ==
  ASSUME IInv, Leave
  PROVE  IInv'
<1> USE DEF zdo, com, history
<1>1. TypeOK'
  BY TypeNext DEF Next, Network
<1>2. PICK kind \in {"leave", "rejoin"} : nv' = [nv EXCEPT !.leave = kind]
  BY LifeAssumption DEF Leave
<1>3. nv'.count = nv.count /\ nv'.hold = nv.hold
  BY <1>2 DEF IInv, TypeOK, Stored
<1>4. UNCHANGED <<writes, boot, devState, note, starts, app>> /\ asked'
  BY DEF Leave
<1>5. CountWritten' /\ NewWritten' /\ LeaveAsked'
  BY <1>3, <1>4 DEF IInv, CountWritten, NewWritten, LeaveAsked, Pending
<1>6. HoldWritten'
  BY <1>3, <1>4 DEF Leave, IInv, HoldWritten, Pending
<1>7. UnauthIsTimed'
  BY <1>4 DEF Leave, IInv, UnauthIsTimed
<1> QED BY <1>1, <1>5, <1>6, <1>7 DEF IInv

(* The report to the application, where the starts are counted *)
LEMMA InvReport ==
  ASSUME IInv, StateReport
  PROVE  IInv'
<1> USE DEF zdo, com, history
<1>1. TypeOK'
  BY TypeNext DEF Next, Handler
<1>2. /\ writes = <<>> /\ ToSet(writes) = {}
      /\ UNCHANGED <<nv, boot, devState, asked>>
      /\ note' = "none"
      /\ Connected \/ Unconnected
  BY NoWrites DEF StateReport, Quiet, Ready
<1>3. /\ nv.count \in 0..TooMany /\ starts \in 0..TooMany /\ TooMany \in Nat
      /\ nv.count <= starts
      /\ app \in [first : BOOLEAN, hasConn : BOOLEAN, notTimeOut : BOOLEAN,
                  counted : BOOLEAN]
  BY CountFacts DEF IInv, TypeOK, Stored, CountWritten
<1>4. LeaveAsked'
  BY <1>2 DEF IInv, LeaveAsked
<1>5. HoldWritten'
  BY <1>2 DEF HoldWritten
<1>6. UnauthIsTimed'
  BY <1>2 DEF Connected, Unconnected, IInv, UnauthIsTimed
<1>7. CASE Connected
  <2>1. app'.hasConn
    BY <1>3, <1>7 DEF Connected
  <2>2. CASE nv.count = 0
    <3>1. starts' = 0 /\ ToSet(writes') = {}
      BY <1>7, <2>2, EmptySet DEF Connected
    <3> QED BY <1>1, <1>2, <1>4, <1>5, <1>6, <2>1, <2>2, <3>1
            DEF IInv, CountWritten, NewWritten, Pending
  <2>3. CASE nv.count # 0
    <3>1. 0 \in Count
      BY CountFacts
    <3>2. starts' = starts /\ ToSet(writes') = {Set("count", 0)}
      BY <1>7, <2>3, <3>1, Writes, SingleSet DEF Connected
    <3>3. CountWritten'
      BY <1>2, <1>3, <2>1, <3>2, Fields DEF CountWritten, Pending
    <3>4. NewWritten'
      BY <3>2, Fields DEF NewWritten, Pending
    <3> QED BY <1>1, <1>4, <1>5, <1>6, <3>3, <3>4 DEF IInv
  <2> QED BY <2>2, <2>3
<1>8. CASE Unconnected
  <2> DEFINE n == Min2(nv.count + 1, TooMany)
             resets == Counts /\ TooOften(n) /\ devState # "hold"
             a == IF Counts THEN <<Set("count", n)>> ELSE <<>>
             b == IF resets THEN Reset ELSE <<>>
  <2>1. /\ starts' = starts
        /\ writes' = a \o b
        /\ app' = [app EXCEPT !.first = FALSE, !.counted = @ \/ Counts]
    BY <1>8 DEF Unconnected
  <2>2. n \in Count /\ n > 0
    BY <1>3, CountFacts
  <2>3. /\ a \in Seq(Writing)
        /\ ToSet(a) = IF Counts THEN {Set("count", n)} ELSE {}
    BY <2>2, Writes, SingleSet, EmptySet
  <2>4. /\ b \in Seq(Writing)
        /\ ToSet(b) = IF resets THEN {Set("hold", "hold"), Set("new", TRUE)} ELSE {}
    <3>1. Reset \in Seq(Writing) /\ ToSet(Reset) = {Set("hold", "hold"), Set("new", TRUE)}
      BY Writes, PairSet DEF Reset
    <3>2. <<>> \in Seq(Writing) /\ ToSet(<<>>) = {}
      BY EmptySet
    <3> QED BY Zenon, <3>1, <3>2
  <2> HIDE DEF a, b
  <2>5. ToSet(writes') = ToSet(a) \cup ToSet(b)
    <3>1. PICK x \in Seq(Writing) : x = a
      BY Zenon, <2>3
    <3>2. PICK y \in Seq(Writing) : y = b
      BY Zenon, <2>4
    <3>3. ToSet(x \o y) = ToSet(x) \cup ToSet(y)
      BY ZenonT(40), ConcatSet
    <3>4. writes' = x \o y
      BY Zenon, <2>1, <3>1, <3>2
    <3> QED BY Zenon, <3>1, <3>2, <3>3, <3>4
  <2>6. app'.hasConn = app.hasConn /\ app'.counted = (app.counted \/ Counts)
    BY <1>3, <2>1
  <2>7. Counts => n <= starts
    <3>1. Counts => nv.count < starts \/ starts = TooMany
      BY DEF Counts, IInv, CountWritten
    <3>2. nv.count \in Count
      BY <1>3, CountFacts
    <3>3. CASE nv.count = TooMany
      <4>1. n = TooMany
        BY Zenon, <3>2, <3>3, CountFacts
      <4> HIDE DEF n
      <4> QED BY <1>3, <3>3, <4>1
    <3>4. CASE nv.count < TooMany
      <4>1. n = nv.count + 1
        BY Zenon, <3>2, <3>4, CountFacts
      <4> HIDE DEF n
      <4> QED BY <1>3, <3>1, <3>4, <4>1
    <3> HIDE DEF n
    <3> QED BY <1>3, <3>3, <3>4
  <2>8. CASE Counts
    <3> HIDE DEF n
    <3>1. \A w \in ToSet(writes') :
            \/ w = Set("count", n)
            \/ resets /\ (w = Set("hold", "hold") \/ w = Set("new", TRUE))
      BY <2>3, <2>4, <2>5, <2>8
    <3>2. app'.counted
      BY <2>6, <2>8
    <3>3. Set("count", 0) # Set("count", n)
      BY <2>2, Fields
    <3>4. Set("count", 0) \notin ToSet(writes')
      BY <3>1, <3>3, Fields
    <3>5. CountWritten'
      <4>1. \A w \in ToSet(writes') : w.item = "count" => w.value = n
        BY ZenonT(40), <3>1, Fields
      <4> QED BY <1>2, <1>3, <2>1, <2>2, <2>7, <2>8, <3>2, <3>4, <4>1
              DEF CountWritten, Pending
    <3>6. NewWritten'
      <4>1. Set("new", TRUE) \in ToSet(writes') => TooOften(n)
        BY <3>1, Fields
      <4>2. TooOften(n) => starts > POWERSETTING_COUNT
        BY <1>3, <2>2, <2>7, <2>8, CountFacts, LifeAssumption DEF TooOften
      <4>3. Set("new", FALSE) \notin ToSet(writes')
        BY <3>1, Fields
      <4> QED BY <2>1, <3>4, <4>1, <4>2, <4>3 DEF NewWritten, Pending
    <3> QED BY <1>1, <1>4, <1>5, <1>6, <3>5, <3>6 DEF IInv
  <2>9. CASE ~Counts
    <3>1. ToSet(writes') = {}
      BY <2>3, <2>4, <2>5, <2>9
    <3>2. app'.counted = app.counted
      BY <1>3, <2>6, <2>9
    <3>3. CountWritten' /\ NewWritten'
      BY <1>2, <2>1, <2>6, <3>1, <3>2 DEF IInv, CountWritten, NewWritten, Pending
    <3> QED BY <1>1, <1>4, <1>5, <1>6, <3>3 DEF IInv
  <2> QED BY <2>8, <2>9
<1> QED BY <1>2, <1>7, <1>8

LEMMA InvStep ==
  ASSUME IInv, [Next]_vars
  PROVE  IInv'
<1>1. CASE UNCHANGED vars
  <2>1. TypeOK'
    BY <1>1, TypeStep DEF IInv
  <2>2. UNCHANGED <<nv, writes, boot, devState, armed, note, app, starts, asked>>
    BY <1>1 DEF vars, zdo, com, history
  <2>3. CountWritten'
    BY <2>2 DEF IInv, CountWritten, Pending
  <2>4. NewWritten'
    BY <2>2 DEF IInv, NewWritten, Pending
  <2>5. LeaveAsked'
    BY <2>2 DEF IInv, LeaveAsked
  <2>6. HoldWritten'
    BY <2>2 DEF IInv, HoldWritten, Pending
  <2>7. UnauthIsTimed'
    BY <2>2 DEF IInv, UnauthIsTimed
  <2> QED BY <2>1, <2>3, <2>4, <2>5, <2>6, <2>7 DEF IInv
<1>2. CASE Next
  BY Zenon, <1>2, InvRestart, InvWrite, InvQuiet, InvStart, InvWriters, InvLeave,
     InvReport DEF Next, Handler, Network
<1> QED BY <1>1, <1>2

LEMMA InvInit == ASSUME Init PROVE IInv
<1>1. TypeOK
  BY InitType
<1>2. Pending = {}
  BY NoWrites DEF Init, Pending
<1>3. nv.count = 0 /\ starts = 1 /\ nv.leave = "none" /\ boot = "off" /\ note = "none"
  BY DEF Init
<1> QED BY <1>1, <1>2, <1>3
        DEF IInv, CountWritten, NewWritten, LeaveAsked, HoldWritten, UnauthIsTimed
-----------------------------------------------------------------------------
(* The counter of power-ups in NV memory never runs ahead of the starts. *)
THEOREM PowerCounted == Spec => []PowerCountSound
<1>1. IInv => PowerCountSound
  BY DEF IInv, CountWritten, PowerCountSound
<1> QED BY <1>1, InvInit, InvStep, PTL DEF Spec

(* The option to start afresh is set only when something asks for it. *)
THEOREM NewJoinsCaused == Spec => NewJoinHasCause
<1>1. ASSUME IInv, [Next]_vars
      PROVE  ~nv.new /\ nv'.new => asked \/ starts > POWERSETTING_COUNT
  <2> SUFFICES ASSUME ~nv.new, nv'.new
               PROVE  asked \/ starts > POWERSETTING_COUNT
    OBVIOUS
  <2>0. nv \in Stored
    BY <1>1 DEF IInv, TypeOK
  <2>1. CASE Write
    <3> DEFINE w == Head(writes)
    <3>1. w \in Writing /\ ToSet(writes) = {w} \cup ToSet(Tail(writes))
      BY Zenon, <1>1, <2>1, TailSet DEF IInv, TypeOK, Write
    <3>2. PICK x \in Writing : x = w
      BY Zenon, <3>1
    <3>3. nv' = [nv EXCEPT ![x.item] = x.value]
      BY <2>1, <3>2 DEF Write
    <3>4. \/ \E h \in {"init", "hold"} : x = Set("hold", h)
          \/ \E b \in BOOLEAN : \/ x = Set("new", b)
                                \/ x = Set("net", b)
                                \/ x = Set("key", b)
          \/ \E c \in Count : x = Set("count", c)
          \/ x = Set("leave", "none")
      BY Zenon DEF Writing
    <3>5. \E b \in BOOLEAN : x = Set("new", b) /\ b
      BY <2>0, <3>3, <3>4 DEF Stored, Set
    <3>6. x = Set("new", TRUE)
      BY Zenon, <3>5
    <3>7. Set("new", TRUE) \in Pending
      BY <3>1, <3>2, <3>6 DEF Pending
    <3> QED BY <1>1, <3>7 DEF IInv, NewWritten
  <2>2. CASE ~Write
    <3>1. nv'.new = nv.new
      <4>1. CASE Leave
        BY <2>0, <4>1 DEF Leave, Stored
      <4>2. CASE ~Leave
        BY <1>1, <2>2, <4>2
           DEF Next, Handler, Network, vars, PowerLoss, WatchDog, SoftReset,
               Restart, StartUp, InitConfirm, NetworkInit, StateChange, UpdateNv,
               DeviceReset, DeviceAuth, DiscoveryDone, Joined, NotJoined, Rejoin,
               StateReport, SettingTimeout, RejoinPower, KeyReset, KeyStart,
               ScanConfirm, JoinConfirm, SyncLost, KeyReceived, TablesChanged
      <4> QED BY <4>1, <4>2
    <3> QED BY <3>1
  <2> QED BY <2>1, <2>2
<1> QED BY <1>1, InvInit, InvStep, PTL DEF Spec, NewJoinHasCause

(* A device that waits for the network key has its reset timer running. *)
THEOREM UnauthTimed == Spec => []UnauthIsTimed
<1>1. IInv => UnauthIsTimed
  BY DEF IInv
<1> QED BY <1>1, InvInit, InvStep, PTL DEF Spec

(* A device that reports a network is not held at its next start. *)
THEOREM HoldIsLifted == Spec => []HoldLifted
<1>1. ASSUME IInv PROVE HoldLifted
  <2>1. writes = <<>> => Pending = {}
    BY NoWrites DEF Pending
  <2> QED BY <1>1, <2>1 DEF IInv, HoldWritten, HoldLifted
<1> QED BY <1>1, InvInit, InvStep, PTL DEF Spec

-----------------------------------------------------------------------------
(* What will make a device outside a network try again                     *)

(* The messages that a device in this state acts on *)
Answers(d) ==
  IF d = "disc" THEN {"disc"}
  ELSE IF d \in Joining THEN {"joined", "failed"} ELSE {}

Awaited ==
  \/ request = "disc" /\ devState = "disc"
  \/ request \in {"join", "orphan"} /\ devState \in Joining
  \/ ToSet(mail) \cap Answers(devState) # {}

Due(e) == e \in events \cup armed

Outside == boot = "run" /\ devState \notin InNetwork \cup {"hold"}

PauseRuns == ~continueJoining => Due("recnf")

Searches == Outside => Due("init") \/ Due("recnf") \/ Awaited

SInv == TypeOK /\ PauseRuns /\ Searches

(* A step that takes nothing away *)
LEMMA SearchKept ==
  ASSUME SInv, UNCHANGED <<continueJoining, devState, request>>,
         boot' # "run" \/ boot = "run",
         Due("init") => Due("init")', Due("recnf") => Due("recnf")',
         ToSet(mail) \subseteq ToSet(mail')
  PROVE  PauseRuns' /\ Searches'
BY DEF SInv, PauseRuns, Searches, Outside, Awaited

LEMMA MailLeft ==
  ASSUME TypeOK, NEW kind, Receives(kind)
  PROVE  ToSet(mail) = ToSet(mail') \cup {kind}
BY TailSet DEF Receives, TypeOK

LEMMA MailMore ==
  ASSUME TypeOK, NEW kind \in Message, Post(kind)
  PROVE  ToSet(mail') = ToSet(mail) \cup {kind}
BY AppendSet DEF Post, TypeOK, Message

LEMMA SearchStarts ==
  ASSUME SInv,
         PowerLoss \/ WatchDog \/ SoftReset \/ DeviceReset \/ StartUp
           \/ InitConfirm \/ KeyStart
  PROVE  PauseRuns' /\ Searches'
<1>1. CASE PowerLoss \/ WatchDog \/ SoftReset
  BY <1>1 DEF PowerLoss, WatchDog, SoftReset, Restart, PauseRuns, Searches, Outside
<1>2. CASE DeviceReset
  BY <1>2 DEF DeviceReset, zdo, SInv, PauseRuns, Searches, Outside, Due
<1>3. CASE StartUp \/ InitConfirm \/ KeyStart
  <2>1. events \subseteq events' /\ armed \subseteq armed'
    <3>1. CASE StartUp
      BY <3>1 DEF StartUp, InitDevice
    <3>2. CASE InitConfirm \/ KeyStart
      BY <3>2 DEF InitConfirm, KeyStart, InitDevice
    <3> QED BY <1>3, <3>1, <3>2
  <2>2. PauseRuns'
    BY <1>3, <2>1 DEF StartUp, InitConfirm, KeyStart, SInv, PauseRuns, Due
  <2>3. CASE StartUp
    BY <2>2, <2>3 DEF StartUp, Searches, Outside
  <2>4. CASE InitConfirm \/ KeyStart
    <3>1. PICK e : InitDevice(e, FALSE, <<>>)
      BY <2>4 DEF InitConfirm, KeyStart
    <3>2. devState' = "hold" \/ Due("init")'
      BY <3>1 DEF InitDevice, Due
    <3> QED BY <2>2, <3>2 DEF Searches, Outside
  <2> QED BY <1>3, <2>3, <2>4
<1> QED BY <1>1, <1>2, <1>3

(* The handlers and the network's steps that leave the search alone *)
LEMMA SearchUntouched ==
  ASSUME SInv,
         Write \/ StateChange \/ UpdateNv \/ SettingTimeout \/ KeyReset
           \/ KeyReceived \/ Leave \/ TablesChanged
  PROVE  PauseRuns' /\ Searches'
<1>1. UNCHANGED <<continueJoining, devState, request, boot, mail>>
  BY DEF Write, StateChange, UpdateNv, SettingTimeout, KeyReset, KeyReceived,
         Leave, TablesChanged, zdo
<1>2. Due("init") => Due("init")'
  BY DEF Write, StateChange, UpdateNv, SettingTimeout, KeyReset, KeyReceived,
         Leave, TablesChanged, Due
<1>3. Due("recnf") => Due("recnf")'
  BY DEF Write, StateChange, UpdateNv, SettingTimeout, KeyReset, KeyReceived,
         Leave, TablesChanged, Due
<1> QED BY <1>1, <1>2, <1>3, SearchKept

LEMMA SearchEvents ==
  ASSUME SInv, NetworkInit \/ DeviceAuth \/ StateReport \/ RejoinPower
  PROVE  PauseRuns' /\ Searches'
<1>1. CASE NetworkInit
  <2>1. PICK accepted \in BOOLEAN, due \in SUBSET (armed \cap {"init"}) :
          /\ "init" \in events \cup due
          /\ Begin(accepted, armed \ due)
    BY <1>1 DEF NetworkInit
  <2>2. PauseRuns'
    BY <1>1, <2>1 DEF NetworkInit, Begin, SInv, PauseRuns, Due
  <2>3. CASE accepted
    BY <2>1, <2>2, <2>3 DEF Begin, Searches, Awaited, Joining
  <2>4. CASE ~accepted
    BY <2>1, <2>2, <2>4 DEF Begin, Searches, Due
  <2> QED BY <2>2, <2>3, <2>4
<1>2. CASE DeviceAuth
  <2>1. PauseRuns'
    BY <1>2 DEF DeviceAuth, SInv, PauseRuns, Due
  <2>2. CASE devState = "unauth"
    BY <1>2, <2>1, <2>2 DEF DeviceAuth, Searches, Outside, InNetwork
  <2>3. CASE devState # "unauth"
    BY <1>2, <2>1, <2>3 DEF DeviceAuth, SInv, Searches, Outside, Awaited, Due
  <2> QED BY <2>1, <2>2, <2>3
<1>3. CASE StateReport
  <2>1. /\ UNCHANGED <<boot, devState, request, mail>>
        /\ events \subseteq events' /\ armed \subseteq armed'
    BY <1>3 DEF StateReport, Connected, Unconnected
  <2>2. ~continueJoining' => ~continueJoining \/ "recnf" \in armed'
    BY <1>3 DEF StateReport, Unconnected, SInv, TypeOK
  <2>3. PauseRuns'
    BY <2>1, <2>2 DEF SInv, PauseRuns, Due
  <2> QED BY <2>1, <2>3 DEF SInv, Searches, Outside, Awaited, Due
<1>4. CASE RejoinPower
  BY <1>4 DEF RejoinPower, Resumed, PauseRuns, Searches, Due
<1> QED BY <1>1, <1>2, <1>3, <1>4

LEMMA SearchAnswers ==
  ASSUME SInv, DiscoveryDone \/ Joined \/ NotJoined \/ Rejoin
  PROVE  PauseRuns' /\ Searches'
<1>1. PauseRuns'
  BY DEF DiscoveryDone, Joined, NotJoined, Rejoin, SInv, PauseRuns, Due
<1>2. TypeOK
  BY DEF SInv
<1>3. boot' = boot /\ (Due("recnf") => Due("recnf")')
  BY DEF DiscoveryDone, Joined, NotJoined, Rejoin, Due
<1>4. CASE DiscoveryDone
  <2>1. ToSet(mail) = ToSet(mail') \cup {"disc"}
    BY <1>2, <1>4, MailLeft DEF DiscoveryDone
  <2>2. CASE devState = "disc"
    <3>1. \/ request' = "join" /\ devState' \in Joining
          \/ Due("init")'
          \/ ~continueJoining
      BY <1>4, <2>2 DEF DiscoveryDone, Due, Joining
    <3>2. ~continueJoining => Due("recnf")'
      BY <1>3 DEF SInv, PauseRuns
    <3> QED BY <1>1, <3>1, <3>2 DEF Searches, Awaited
  <2>3. CASE devState # "disc"
    <3>1. UNCHANGED <<devState, request, armed, events>>
      BY <1>4, <2>3 DEF DiscoveryDone
    <3>2. ToSet(mail) \cap Answers(devState) \subseteq ToSet(mail') \cap Answers(devState)
      BY <2>1, <2>3 DEF Answers
    <3> QED BY <1>1, <1>3, <3>1, <3>2 DEF SInv, Searches, Outside, Awaited, Due
  <2> QED BY <2>2, <2>3
<1>5. CASE Joined
  <2>1. ToSet(mail) = ToSet(mail') \cup {"joined"}
    BY <1>2, <1>5, MailLeft DEF Joined
  <2>2. CASE devState \in Joining
    BY <1>1, <1>5, <2>2 DEF Joined, Searches, Outside, InNetwork
  <2>3. CASE devState \notin Joining
    <3>1. UNCHANGED <<devState, request, armed>> /\ events \subseteq events'
      BY <1>5, <2>3 DEF Joined
    <3>2. ToSet(mail) \cap Answers(devState) \subseteq ToSet(mail') \cap Answers(devState)
      BY <2>1, <2>3 DEF Answers
    <3> QED BY <1>1, <1>3, <3>1, <3>2 DEF SInv, Searches, Outside, Awaited, Due
  <2> QED BY <2>2, <2>3
<1>6. CASE NotJoined
  <2>1. ToSet(mail) = ToSet(mail') \cup {"failed"}
    BY <1>2, <1>6, MailLeft DEF NotJoined
  <2>2. CASE devState \in Joining
    BY <1>1, <1>6, <2>2 DEF NotJoined, Searches, Due
  <2>3. CASE devState \notin Joining
    <3>1. UNCHANGED <<devState, request, armed>> /\ events \subseteq events'
      BY <1>6, <2>3 DEF NotJoined
    <3>2. ToSet(mail) \cap Answers(devState) \subseteq ToSet(mail') \cap Answers(devState)
      BY <2>1, <2>3 DEF Answers
    <3> QED BY <1>1, <1>3, <3>1, <3>2 DEF SInv, Searches, Outside, Awaited, Due
  <2> QED BY <2>2, <2>3
<1>7. CASE Rejoin
  BY <1>1, <1>7 DEF Rejoin, Searches, Due
<1> QED BY <1>1, <1>4, <1>5, <1>6, <1>7

LEMMA SearchConfirms ==
  ASSUME SInv, ScanConfirm \/ JoinConfirm \/ SyncLost
  PROVE  PauseRuns' /\ Searches'
<1>1. PauseRuns'
  BY DEF ScanConfirm, JoinConfirm, SyncLost, zdo, SInv, PauseRuns, Due
<1>2. TypeOK
  BY DEF SInv
<1>3. UNCHANGED <<boot, events, armed>>
  BY DEF ScanConfirm, JoinConfirm, SyncLost
<1>4. CASE ScanConfirm
  <2>1. ToSet(mail') = ToSet(mail) \cup {"disc"}
    BY <1>2, <1>4, MailMore DEF ScanConfirm, Message
  <2>2. devState' = devState /\ request = "disc"
    BY <1>4 DEF ScanConfirm, zdo
  <2>3. CASE devState = "disc"
    <3>1. "disc" \in ToSet(mail') \cap Answers(devState')
      BY <2>1, <2>2, <2>3 DEF Answers
    <3> QED BY <1>1, <3>1 DEF Searches, Awaited
  <2>4. CASE devState # "disc"
    BY <1>1, <1>3, <2>1, <2>2, <2>4 DEF SInv, Searches, Outside, Awaited, Due
  <2> QED BY <2>3, <2>4
<1>5. CASE JoinConfirm
  <2>1. PICK kind \in {"joined", "failed"} : Post(kind)
    BY <1>5 DEF JoinConfirm
  <2>2. ToSet(mail') = ToSet(mail) \cup {kind}
    BY <1>2, <2>1, MailMore DEF Message
  <2>3. CASE devState' \in Joining
    <3>1. devState' # "disc"
      BY <2>3 DEF Joining
    <3>2. kind \in ToSet(mail') \cap Answers(devState')
      BY <2>2, <2>3, <3>1 DEF Answers
    <3> QED BY <1>1, <3>2 DEF Searches, Awaited
  <2>4. CASE devState' \notin Joining
    <3>1. devState' = devState /\ request \in {"join", "orphan"}
      BY <1>5, <2>4 DEF JoinConfirm, Joining
    <3> QED BY <1>1, <1>3, <2>2, <2>4, <3>1
            DEF SInv, Searches, Outside, Awaited, Due
  <2> QED BY <2>3, <2>4
<1>6. CASE SyncLost
  BY <1>1, <1>6 DEF SyncLost, zdo, Searches, Outside
<1> QED BY <1>4, <1>5, <1>6

LEMMA SearchStep ==
  ASSUME SInv, [Next]_vars
  PROVE  SInv'
<1>1. TypeOK'
  BY TypeStep DEF SInv
<1>2. CASE UNCHANGED vars
  BY <1>1, <1>2 DEF vars, zdo, SInv, PauseRuns, Searches, Outside, Awaited, Due
<1>3. CASE Next
  BY Zenon, <1>1, <1>3, SearchStarts, SearchUntouched, SearchEvents,
     SearchAnswers, SearchConfirms DEF Next, Handler, Network, SInv
<1> QED BY <1>2, <1>3

(* A device that is neither held nor in a network has something coming     *)
(* that makes it try again.                                                *)
THEOREM StaysAwake == Spec => []Awake
<1>1. Init => SInv
  BY InitType DEF Init, SInv, PauseRuns, Searches, Outside
<1>2. ASSUME SInv PROVE Awake
  <2>1. mail = <<>> => ToSet(mail) = {}
    BY DEF ToSet
  <2>2. Awaited => request # "none" \/ mail # <<>>
    BY <2>1 DEF Awaited
  <2> QED BY <1>2, <2>2 DEF SInv, Searches, Outside, Awake, Due
<1> QED BY <1>1, <1>2, SearchStep, PTL DEF Spec

-----------------------------------------------------------------------------
(* The frame counters *)

(* The network key's counter is no further past its copy than the changes  *)
(* counted since, which the restored counter allows for, and the frames    *)
(* that were not counted.                                                  *)
NwkTypeOK ==
  /\ phase \in {"off", "search", "rejoin", "up"}
  /\ nwkFrameCounter \in Nat /\ nwkFrameCounterChanges \in 0..NwkMargin + 1
  /\ nwkSaved \in Nat /\ nwkSeen \in Nat
  /\ nwkUncounted \in Nat /\ nwkLost \in Nat

NwkInv ==
  /\ NwkTypeOK
  /\ Secures \/ nwkChange => nwkSeen <= nwkFrameCounter + nwkLost
  /\ (Secures \/ nwkChange) /\ nwkSaved > 0 =>
       /\ nwkFrameCounter <= nwkSaved - 1 + nwkFrameCounterChanges + nwkUncounted
       /\ nwkSeen <= nwkFrameCounter \/ nwkSeen <= nwkSaved + NwkMargin + nwkLost
  /\ nwkSaved > 0 => nwkSeen <= nwkSaved + NwkMargin + Larger(nwkLost, nwkUncounted)
  /\ phase = "off" => ~nwkChange
  /\ ~Coordinator /\ Secures => nwkSaved > 0
  /\ phase = "rejoin" => ~Coordinator
  /\ Coordinator /\ phase = "search" => nwkSaved = 0 /\ ~nwkChange

(* How far the link key's counter is past its last save point, none of     *)
(* which lies between the copy and the counter unless a frame from it on   *)
(* is not saved.                                                           *)
Since(n) == n % TclkMargin

TclkTypeOK ==
  /\ phase \in {"off", "search", "rejoin", "up"}
  /\ txFrmCntr \in Nat /\ tclkSaved \in Nat
  /\ tclkSeen \in Nat /\ tclkUnsaved \in Nat /\ tclkLost \in Nat

TclkInv ==
  /\ TclkTypeOK
  /\ TclkRepeatsUnsaved
  /\ phase = "off" => tclkUnsaved = 0 /\ tclkSeen <= Advanced + tclkLost
  /\ phase # "off" => tclkSeen <= txFrmCntr \/ tclkSeen <= tclkSaved + tclkLost
  /\ phase # "off" /\ tclkUnsaved = 0 => txFrmCntr - Since(txFrmCntr) <= tclkSaved
  /\ phase # "off" /\ tclkUnsaved > 0 =>
       txFrmCntr <= tclkSaved + TclkMargin + tclkUnsaved - 1

(* A remainder is found by giving the quotient.                            *)
LEMMA RemainderIs ==
  ASSUME NEW n \in Int, NEW d \in Int, d > 0, NEW q \in Int, NEW r \in 0..d - 1,
         n = d * q + r
  PROVE  n % d = r
BY SMT

(* Since counts up to the margin and starts again at a save point.         *)
LEMMA SinceCountsUp ==
  ASSUME NEW n \in Nat
  PROVE  /\ Since(n) \in 0..TclkMargin - 1
         /\ SavePoint(n + 1) => Since(n) = TclkMargin - 1
         /\ ~SavePoint(n + 1) => Since(n + 1) = Since(n) + 1
<1> DEFINE d == TclkMargin
           q == n \div d
           r == n % d
<1>0. d \in Int /\ d > 0 BY CountersAssumption
<1>1. q \in Int /\ r \in 0..d - 1 BY CountersAssumption, SMT
<1>2. n = d * q + r
  <2>1. n - d * q = r BY CountersAssumption, SMT
  <2> QED BY <2>1, <1>0, <1>1, SMT
<1> HIDE DEF d, q, r
<1>3. ASSUME r < d - 1 PROVE (n + 1) % d = r + 1
  <2>1. n + 1 = d * q + (r + 1) /\ r + 1 \in 0..d - 1 /\ n + 1 \in Int
    BY <1>0, <1>1, <1>2, <1>3, SMT
  <2> QED BY <2>1, <1>0, <1>1, RemainderIs
<1>4. ASSUME r = d - 1 PROVE (n + 1) % d = 0
  <2>1. n + 1 = d * (q + 1) + 0 /\ q + 1 \in Int /\ 0 \in 0..d - 1 /\ n + 1 \in Int
    BY <1>0, <1>1, <1>2, <1>4, SMT
  <2> QED BY <2>1, <1>0, RemainderIs
<1>5. /\ (n + 1) % d = 0 => r = d - 1
      /\ (n + 1) % d # 0 => (n + 1) % d = r + 1
  <2>1. r < d - 1 \/ r = d - 1 BY <1>0, <1>1
  <2>2. r + 1 # 0 BY <1>1
  <2> QED BY <2>1, <2>2, <1>3, <1>4, Zenon
<1> QED BY <1>1, <1>5, Zenon DEF Since, SavePoint, d, r

(* Every variable keeps its type: the changes are never counted further    *)
(* than the forced save needs (nwkFrameCounterChanges, ZDApp.c:561).       *)
THEOREM CountersTypeCorrect == CountersSpec => []CountersTypeOK
<1> USE CountersAssumption
<1>1. CountersInit => CountersTypeOK
  <2> SUFFICES ASSUME CountersInit PROVE CountersTypeOK
    OBVIOUS
  <2>1. network \in BOOLEAN /\ nwkChange \in BOOLEAN /\ tclkChange \in BOOLEAN
    BY Zenon DEF CountersInit
  <2> QED BY <2>1 DEF CountersInit, CountersTypeOK
<1>2. CountersTypeOK /\ [CountersNext]_counterVars => CountersTypeOK'
  <2> SUFFICES ASSUME CountersTypeOK, [CountersNext]_counterVars PROVE CountersTypeOK'
    OBVIOUS
  <2>1. network' \in BOOLEAN /\ nwkChange' \in BOOLEAN /\ tclkChange' \in BOOLEAN
    BY Zenon DEF CountersTypeOK, CountersNext, SecureNwk, CountChange, Form, Authenticated,
         SaveNetwork, RejoinRequest, RejoinFails, BackInNetwork, ParentLost, SecureTclk,
         SaveTCLinkKey, PowerFails, StartRestored, StartNew, RestoreNwkKey, RestoreTclk,
         nwkVars, tclkVars, counterVars
  <2> USE <2>1 DEF CountersTypeOK, nwkVars, tclkVars
  <2>2. CASE SecureNwk \/ CountChange
    BY <2>2 DEF SecureNwk, CountChange, SaveNwkKey, Copy, Larger
  <2>3. CASE Form \/ Authenticated \/ SaveNetwork
    BY <2>3 DEF Form, Authenticated, SaveNetwork
  <2>4. CASE RejoinRequest \/ RejoinFails \/ BackInNetwork \/ ParentLost
    BY <2>4 DEF RejoinRequest, RejoinFails, BackInNetwork, ParentLost, RestoreNwkKey, Larger
  <2>5. CASE SecureTclk \/ SaveTCLinkKey
    BY <2>5 DEF SecureTclk, SaveTCLinkKey, Larger
  <2>6. CASE PowerFails \/ StartRestored \/ StartNew
    BY <2>6 DEF PowerFails, StartRestored, StartNew, RestoreNwkKey, RestoreTclk, Advanced, Larger
  <2>7. CASE UNCHANGED counterVars BY <2>7 DEF counterVars
  <2> QED BY <2>2, <2>3, <2>4, <2>5, <2>6, <2>7 DEF CountersNext
<1> QED BY <1>1, <1>2, PTL DEF CountersSpec

(* Whenever the power fails and the network answers, and however late      *)
(* ZDApp counts: the counter restored is behind what was seen by no more   *)
(* than the frames that were not counted.                                  *)
THEOREM NwkRepeats == CountersSpec => []NwkRepeatsUncounted
<1>1. CountersInit => NwkInv
  <2> SUFFICES ASSUME CountersInit PROVE NwkInv
    OBVIOUS
  <2>1. ~nwkChange BY Zenon DEF CountersInit
  <2> QED BY <2>1, CountersAssumption DEF CountersInit, NwkInv, NwkTypeOK, Secures, Larger
<1>2. NwkInv /\ [CountersNext]_counterVars => NwkInv'
  <2> SUFFICES ASSUME NwkInv, [CountersNext]_counterVars PROVE NwkInv'
    OBVIOUS
  <2> USE CountersAssumption DEF NwkInv, NwkTypeOK, NwkRepeatsUncounted, Secures, Larger, nwkVars
  <2>1. CASE SecureNwk BY <2>1 DEF SecureNwk
  <2>2. CASE CountChange
    <3>1. nwkChange /\ ~nwkChange' BY <2>2, Zenon DEF CountChange
    <3>2. UNCHANGED <<phase, network, nwkFrameCounter, nwkSeen, nwkLost>>
      BY <2>2, Zenon DEF CountChange
    <3>3. CASE nwkFrameCounterChanges > NwkMargin
      <4>1. /\ nwkSaved' = nwkFrameCounter + 1
            /\ nwkFrameCounterChanges' = 0 /\ nwkUncounted' = 0
        BY <2>2, <3>3, Zenon DEF CountChange, SaveNwkKey, Copy
      <4> QED BY <3>1, <3>2, <4>1
    <3>4. CASE ~(nwkFrameCounterChanges > NwkMargin)
      <4>1. /\ nwkFrameCounterChanges' = nwkFrameCounterChanges + 1
            /\ nwkUncounted' = IF nwkUncounted > 0 THEN nwkUncounted - 1 ELSE 0
            /\ nwkSaved' = nwkSaved
        BY <2>2, <3>4, Zenon DEF CountChange
      <4>2. nwkSaved > 0 => \/ nwkSeen <= nwkSaved - 1 + NwkMargin + nwkUncounted
                            \/ nwkSeen <= nwkSaved + NwkMargin + nwkLost
        BY <3>1, <3>4
      <4> QED BY <3>1, <3>2, <3>4, <4>1, <4>2
    <3> QED BY <3>3, <3>4
  <2>3. CASE Form BY <2>3 DEF Form
  <2>4. CASE Authenticated BY <2>4 DEF Authenticated
  <2>5. CASE SaveNetwork BY <2>5 DEF SaveNetwork
  <2>6. CASE RejoinRequest BY <2>6 DEF RejoinRequest, RestoreNwkKey
  <2>7. CASE RejoinFails BY <2>7 DEF RejoinFails
  <2>8. CASE BackInNetwork BY <2>8 DEF BackInNetwork, RestoreNwkKey
  <2>9. CASE ParentLost BY <2>9 DEF ParentLost
  <2>10. CASE SecureTclk \/ SaveTCLinkKey
    <3>1. UNCHANGED <<phase, network, nwkVars>>
      BY <2>10, Zenon DEF SecureTclk, SaveTCLinkKey
    <3> QED BY <3>1
  <2>11. CASE PowerFails
    <3>1. ~nwkChange' BY <2>11, Zenon DEF PowerFails
    <3> QED BY <2>11, <3>1 DEF PowerFails
  <2>12. CASE StartRestored BY <2>12 DEF StartRestored, RestoreNwkKey
  <2>13. CASE StartNew BY <2>13 DEF StartNew
  <2>14. CASE UNCHANGED counterVars BY <2>14 DEF counterVars
  <2> QED
    BY <2>1, <2>2, <2>3, <2>4, <2>5, <2>6, <2>7, <2>8, <2>9, <2>10, <2>11, <2>12,
       <2>13, <2>14 DEF CountersNext
<1>3. NwkInv => NwkRepeatsUncounted BY DEF NwkInv, NwkRepeatsUncounted
<1> QED BY <1>1, <1>2, <1>3, PTL DEF CountersSpec

(* The start's advance covers the frames up to a save point and two more:  *)
(* a failure repeats no more than the others that were not saved.          *)
THEOREM TclkRepeats == CountersSpec => []TclkRepeatsUnsaved
<1> USE CountersAssumption DEF TclkTypeOK, Larger
<1>1. CountersInit => TclkInv
  <2> SUFFICES ASSUME CountersInit PROVE TclkInv
    OBVIOUS
  <2>1. Since(0) \in 0..TclkMargin - 1 BY SinceCountsUp
  <2> QED BY <2>1 DEF CountersInit, TclkInv, TclkTypeOK, TclkRepeatsUnsaved
<1>2. TclkInv /\ [CountersNext]_counterVars => TclkInv'
  <2> SUFFICES ASSUME TclkInv, [CountersNext]_counterVars PROVE TclkInv'
    OBVIOUS
  <2>0. /\ Since(txFrmCntr) \in 0..TclkMargin - 1
        /\ SavePoint(txFrmCntr + 1) => Since(txFrmCntr) = TclkMargin - 1
        /\ ~SavePoint(txFrmCntr + 1) => Since(txFrmCntr + 1) = Since(txFrmCntr) + 1
    BY SinceCountsUp DEF TclkInv
  <2>1. CASE SecureTclk
    BY <2>0, <2>1 DEF SecureTclk, TclkInv, TclkRepeatsUnsaved, Advanced
  <2>2. CASE SaveTCLinkKey
    BY <2>0, <2>2 DEF SaveTCLinkKey, TclkInv, TclkRepeatsUnsaved, Advanced
  <2>3. CASE PowerFails
    BY <2>0, <2>3 DEF PowerFails, TclkInv, TclkRepeatsUnsaved, Advanced
  <2>4. CASE StartRestored \/ StartNew
    <3>1. Advanced \in Nat /\ Since(Advanced) \in 0..TclkMargin - 1
      BY SinceCountsUp DEF Advanced, TclkInv
    <3> QED
      BY <2>4, <3>1 DEF StartRestored, StartNew, RestoreTclk, RestoreNwkKey, TclkInv,
           TclkRepeatsUnsaved, Advanced
  <2>5. CASE \/ SecureNwk \/ CountChange \/ Form \/ Authenticated \/ SaveNetwork
             \/ RejoinRequest \/ RejoinFails \/ BackInNetwork \/ ParentLost
    BY <2>5 DEF SecureNwk, CountChange, Form, Authenticated, SaveNetwork, RejoinRequest,
         RejoinFails, BackInNetwork, ParentLost, tclkVars, TclkInv, TclkRepeatsUnsaved, Secures,
         Advanced
  <2>6. CASE UNCHANGED counterVars
    BY <2>6 DEF counterVars, tclkVars, TclkInv, TclkRepeatsUnsaved, Advanced
  <2> QED BY <2>1, <2>2, <2>3, <2>4, <2>5, <2>6 DEF CountersNext
<1>3. TclkInv => TclkRepeatsUnsaved BY DEF TclkInv
<1> QED BY <1>1, <1>2, <1>3, PTL DEF CountersSpec
=============================================================================
