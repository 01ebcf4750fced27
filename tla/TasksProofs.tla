---------------------------- MODULE TasksProofs ----------------------------
(***************************************************************************)
(* Proofs about what the tasks hand on to each other and wait for.  Inside *)
(* a device (OsalMsg), for every number of tasks and every size of the     *)
(* heap: no message is stranded in the queue, and an application knows the *)
(* state of the device once no report of it is due or under way.  Between  *)
(* devices (Pairing), for every set of buttons, devices and addresses: no  *)
(* button stays listed without an end, and what a button sends to it can   *)
(* ask for again after a restart.  To the serial line (UartTx), for every  *)
(* size of the buffers: bytes leave once and in order.                     *)
(***************************************************************************)
EXTENDS OsalMsg, Pairing, UartTx, SeqLemmas, SequenceTheorems

(* How the variables of a handler's run belong together. *)
Shape ==
  /\ held = NoMsg <=> pc # "process"
  /\ pc = "process" => held.to = idx /\ "msg" \in word
  /\ pc # "report" => todo = {}
  /\ pc = "report" => idx = Zdo /\ "state" \in word
  /\ pc = "scan" => word = {}

HeldFor(a) == held.kind = "state" /\ held.to = a

(* A report is found and changed, never sent twice. *)
OneReport ==
  \A a \in Apps :
    /\ \A i, j \in StateMsgs(a) : i = j
    /\ HeldFor(a) => StateMsgs(a) = {}

(* What the application was told last, or is about to read. *)
UpToDate(a) ==
  /\ \A i \in StateMsgs(a) : queue[i].body = devState
  /\ HeldFor(a) => held.body = devState
  /\ StateMsgs(a) = {} /\ ~HeldFor(a) => seen[a] = devState

Current == \A a \in Apps : ReportDue(a) \/ UpToDate(a)

IInv == TypeOK /\ Shape /\ NoStranded /\ OneReport /\ Current

-----------------------------------------------------------------------------
LEMMA NoMsgFacts ==
  ASSUME ConstantsAssumption
  PROVE  NoMsg \notin Msg /\ NoMsg.kind # "state"
BY DEF NoMsg, Msg, Task, ConstantsAssumption

LEMMA QueueFacts ==
  ASSUME TypeOK
  PROVE  /\ Len(queue) \in Nat
         /\ \A t : Pending(t) \subseteq 1..Len(queue)
         /\ \A i \in 1..Len(queue) : /\ queue[i] \in Msg
                                     /\ queue[i].to \in Task
                                     /\ queue[i].kind \in {"data", "state"}
                                     /\ queue[i].body \in Status
         /\ \A a : StateMsgs(a) \subseteq Pending(a)
<1>1. queue \in Seq(Msg)
  BY DEF TypeOK
<1>2. Len(queue) \in Nat /\ \A i \in 1..Len(queue) : queue[i] \in Msg
  BY <1>1
<1>3. \A m \in Msg : m.to \in Task /\ m.kind \in {"data", "state"} /\ m.body \in Status
  BY DEF Msg
<1>4. \A t : Pending(t) \subseteq 1..Len(queue)
  BY DEF Pending
<1>5. \A a : StateMsgs(a) \subseteq Pending(a)
  BY Zenon DEF StateMsgs
<1>6. QED
  BY <1>2, <1>3, <1>4, <1>5

(* Sending a message appends it to those pending for its task. *)
LEMMA SendFacts ==
  ASSUME TypeOK, NEW m \in Msg, Send(m)
  PROVE  /\ queue' \in Seq(Msg)
         /\ Len(queue') = Len(queue) + 1
         /\ \A i \in 1..Len(queue) : queue'[i] = queue[i]
         /\ queue'[Len(queue) + 1] = m
         /\ bits' \in [Task -> SUBSET Event]
         /\ \A t \in Task : bits'[t] = IF t = m.to THEN bits[t] \cup {"msg"} ELSE bits[t]
         /\ \A t : Pending(t)' =
              IF t = m.to THEN Pending(t) \cup {Len(queue) + 1} ELSE Pending(t)
         /\ \A a : StateMsgs(a)' =
              IF a = m.to /\ m.kind = "state" THEN StateMsgs(a) \cup {Len(queue) + 1}
              ELSE StateMsgs(a)
<1>0. Len(queue) \in Nat /\ queue \in Seq(Msg) /\ bits \in [Task -> SUBSET Event]
  BY DEF TypeOK
<1>1. /\ queue' \in Seq(Msg)
      /\ Len(queue') = Len(queue) + 1
      /\ \A i \in 1..Len(queue) : queue'[i] = queue[i]
      /\ queue'[Len(queue) + 1] = m
  BY <1>0 DEF Send
<1>2. m.to \in Task
  BY DEF Msg
<1>3. /\ bits' \in [Task -> SUBSET Event]
      /\ \A t \in Task : bits'[t] = IF t = m.to THEN bits[t] \cup {"msg"} ELSE bits[t]
  BY <1>0, <1>2 DEF Send, Event
<1>4. 1..Len(queue) + 1 = 1..Len(queue) \cup {Len(queue) + 1}
  BY <1>0
<1>5. ASSUME NEW t
      PROVE  Pending(t)' = IF t = m.to THEN Pending(t) \cup {Len(queue) + 1} ELSE Pending(t)
  BY <1>1, <1>4 DEF Pending
<1>6. ASSUME NEW a
      PROVE  StateMsgs(a)' =
               IF a = m.to /\ m.kind = "state" THEN StateMsgs(a) \cup {Len(queue) + 1}
               ELSE StateMsgs(a)
  <2>1. \A i \in Pending(a) : queue'[i] = queue[i]
    BY <1>1 DEF Pending
  <2>2. CASE a = m.to
    BY <1>1, <1>5, <2>1, <2>2 DEF StateMsgs
  <2>3. CASE a # m.to
    BY <1>5, <2>1, <2>3 DEF StateMsgs
  <2>4. QED
    BY <2>2, <2>3
<1>7. QED
  BY <1>1, <1>3, <1>5, <1>6

(* A step that leaves the queue alone and takes no message bit away. *)
LEMMA QuietQueue ==
  ASSUME queue' = queue
  PROVE  \A t : Pending(t)' = Pending(t) /\ StateMsgs(t)' = StateMsgs(t)
BY DEF Pending, StateMsgs

-----------------------------------------------------------------------------
LEMMA InterruptKeeps ==
  ASSUME ConstantsAssumption, IInv, Interrupt
  PROVE  IInv'
<1>1. /\ bits' \in [Task -> SUBSET Event]
      /\ \A t \in Task : bits[t] \subseteq bits'[t] /\ ("state" \in bits'[t] <=> "state" \in bits[t])
  BY DEF IInv, TypeOK, Interrupt, Event, ConstantsAssumption
<1>2. UNCHANGED <<queue, pc, idx, word, held, todo, devState, seen>>
  BY DEF Interrupt
<1>3. TypeOK' /\ Shape'
  BY <1>1, <1>2 DEF IInv, TypeOK, Shape
<1>4. \A t : Pending(t)' = Pending(t) /\ StateMsgs(t)' = StateMsgs(t)
  BY <1>2, QuietQueue
<1>5. NoStranded'
  BY <1>1, <1>2, <1>4 DEF IInv, NoStranded, Draining
<1>6. OneReport'
  BY <1>2, <1>4 DEF IInv, OneReport, HeldFor
<1>7. Current'
  <2>1. Zdo \in Task
    BY DEF ConstantsAssumption
  <2>2. \A a \in Apps : ReportDue(a) => ReportDue(a)'
    BY <1>1, <1>2, <2>1 DEF ReportDue
  <2>3. \A a \in Apps : UpToDate(a) => UpToDate(a)'
    BY <1>2, <1>4 DEF UpToDate, HeldFor
  <2>4. QED
    BY <2>2, <2>3 DEF IInv, Current
<1>8. QED
  BY <1>3, <1>5, <1>6, <1>7 DEF IInv

(* Looking at a task, taking its events and returning those left over. *)
LEMMA LoopKeeps ==
  ASSUME ConstantsAssumption, IInv, Look \/ TakeEvents \/ Return
  PROVE  IInv'
<1>0. /\ UNCHANGED <<queue, held, todo, devState, seen>>
      /\ idx \in Task /\ Zdo \in Task /\ TaskCount \in Nat
      /\ bits \in [Task -> SUBSET Event] /\ word \in SUBSET Event
  BY DEF Look, TakeEvents, Return, IInv, TypeOK, ConstantsAssumption
<1>1. \A t : Pending(t)' = Pending(t) /\ StateMsgs(t)' = StateMsgs(t)
  BY <1>0, QuietQueue
<1>2. OneReport'
  BY <1>0, <1>1 DEF IInv, OneReport, HeldFor
<1>3. \A a \in Apps : UpToDate(a) => UpToDate(a)'
  BY <1>0, <1>1 DEF UpToDate, HeldFor
<1>4. CASE Look
  <2>1. idx' \in Task
    BY <1>0, <1>4 DEF Look, Task
  <2>2. UNCHANGED <<bits, pc, word>> /\ pc = "scan" /\ word = {}
    BY <1>4 DEF Look, IInv, Shape
  <2>3. TypeOK' /\ Shape'
    BY <1>0, <2>1, <2>2 DEF IInv, TypeOK, Shape
  <2>4. NoStranded'
    BY <1>1, <2>2 DEF IInv, NoStranded, Draining
  <2>5. \A a \in Apps : ReportDue(a) => ReportDue(a)'
    BY <1>0, <2>2 DEF ReportDue
  <2>6. QED
    BY <1>2, <1>3, <2>3, <2>4, <2>5 DEF IInv, Current
<1>5. CASE TakeEvents
  <2>1. /\ pc = "scan" /\ pc' = "handle" /\ idx' = idx /\ word' = bits[idx]
        /\ bits' \in [Task -> SUBSET Event] /\ bits'[idx] = {}
        /\ \A t \in Task : t # idx => bits'[t] = bits[t]
    BY <1>0, <1>5 DEF TakeEvents
  <2>2. TypeOK' /\ Shape'
    BY <1>0, <2>1 DEF IInv, TypeOK, Shape
  <2>3. NoStranded'
    BY <1>0, <1>1, <2>1 DEF IInv, NoStranded, Draining
  <2>4. \A a \in Apps : ReportDue(a) => ReportDue(a)'
    BY <1>0, <2>1 DEF ReportDue
  <2>5. QED
    BY <1>2, <1>3, <2>2, <2>3, <2>4 DEF IInv, Current
<1>6. CASE Return
  <2>1. /\ pc = "return" /\ pc' = "scan" /\ idx' = 0 /\ word' = {} /\ 0 \in Task
        /\ bits' \in [Task -> SUBSET Event] /\ bits'[idx] = bits[idx] \cup word
        /\ \A t \in Task : t # idx => bits'[t] = bits[t]
    BY <1>0, <1>6 DEF Return, AddedBack, Task
  <2>2. TypeOK' /\ Shape'
    BY <1>0, <2>1 DEF IInv, TypeOK, Shape
  <2>3. NoStranded'
    BY <1>0, <1>1, <2>1 DEF IInv, NoStranded, Draining
  <2>4. \A a \in Apps : ReportDue(a) => ReportDue(a)'
    BY <1>0, <2>1 DEF ReportDue
  <2>5. QED
    BY <1>2, <1>3, <2>2, <2>3, <2>4 DEF IInv, Current
<1>7. QED
  BY <1>4, <1>5, <1>6

LEMMA ReceiveKeeps ==
  ASSUME ConstantsAssumption, IInv, Receive
  PROVE  IInv'
<1>0. /\ UNCHANGED <<idx, word, todo, devState, seen>>
      /\ pc = "handle" /\ pc' = "process" /\ "msg" \in word
      /\ idx \in Task /\ Zdo \in Task /\ held = NoMsg
      /\ bits \in [Task -> SUBSET Event] /\ queue \in Seq(Msg) /\ Len(queue) \in Nat
      /\ Len(queue) <= Heap
  BY DEF Receive, IInv, TypeOK, Shape, ConstantsAssumption
<1>1. PICK i \in Pending(idx) :
        /\ held' = queue[i]
        /\ queue' = RemoveAt(queue, i)
        /\ bits' = Signalled(idx, Pending(idx) \ {i})
  BY DEF Receive
<1>2. i \in 1..Len(queue) /\ queue[i] \in Msg /\ queue[i].to = idx
  BY <1>1, QueueFacts DEF IInv, Pending
<1>3. /\ queue' \in Seq(Msg)
      /\ Len(queue') = Len(queue) - 1
      /\ \A k \in 1..Len(queue) - 1 : queue'[k] = IF k < i THEN queue[k] ELSE queue[k + 1]
  BY <1>0, <1>1, <1>2, RemoveAtFacts
<1> DEFINE Old(k) == IF k < i THEN k ELSE k + 1
           New(k) == IF k < i THEN k ELSE k - 1
<1>4. \A k \in 1..Len(queue) - 1 :
        Old(k) \in 1..Len(queue) /\ Old(k) # i /\ queue'[k] = queue[Old(k)]
  BY <1>0, <1>2, <1>3
<1>5. \A k \in 1..Len(queue) : k # i => New(k) \in 1..Len(queue) - 1 /\ Old(New(k)) = k
  BY <1>0, <1>2
<1>6. \A j, k \in 1..Len(queue) - 1 : Old(j) = Old(k) => j = k
  BY <1>0, <1>2
<1> HIDE DEF Old, New
<1>7. \A t : /\ \A k \in Pending(t)' : Old(k) \in Pending(t) \ {i}
             /\ \A k \in Pending(t) \ {i} : New(k) \in Pending(t)'
  BY <1>3, <1>4, <1>5 DEF Pending
<1>8. \A t : /\ \A k \in StateMsgs(t)' : Old(k) \in StateMsgs(t) \ {i} /\ queue'[k] = queue[Old(k)]
                                         /\ k \in 1..Len(queue) - 1
             /\ \A k \in StateMsgs(t) \ {i} : New(k) \in StateMsgs(t)'
  <2>1. TAKE t
  <2>2. ASSUME NEW k \in StateMsgs(t)'
        PROVE  /\ Old(k) \in StateMsgs(t) \ {i}
               /\ queue'[k] = queue[Old(k)]
               /\ k \in 1..Len(queue) - 1
    <3>1. k \in Pending(t)' /\ queue'[k].kind = "state"
      BY <2>2 DEF StateMsgs
    <3>2. k \in 1..Len(queue) - 1
      BY <1>3, <3>1 DEF Pending
    <3>3. queue'[k] = queue[Old(k)]
      BY <1>4, <3>2
    <3>4. Old(k) \in Pending(t) \ {i}
      BY <1>7, <3>1
    <3>5. QED
      BY <3>1, <3>2, <3>3, <3>4 DEF StateMsgs
  <2>3. ASSUME NEW k \in StateMsgs(t) \ {i}
        PROVE  New(k) \in StateMsgs(t)'
    <3>1. k \in Pending(t) /\ k # i /\ queue[k].kind = "state"
      BY <2>3 DEF StateMsgs
    <3>2. k \in 1..Len(queue)
      BY <3>1 DEF Pending
    <3>3. New(k) \in 1..Len(queue) - 1 /\ Old(New(k)) = k
      BY <1>5, <3>1, <3>2
    <3>4. queue'[New(k)] = queue[k]
      BY <1>4, <3>3
    <3>5. New(k) \in Pending(t)'
      BY <1>7, <3>1
    <3>6. QED
      BY <3>1, <3>4, <3>5 DEF StateMsgs
  <2>4. QED
    BY <2>2, <2>3
<1>9. /\ bits' \in [Task -> SUBSET Event]
      /\ \A t \in Task : t # idx => bits'[t] = bits[t]
      /\ Pending(idx) \ {i} # {} => "msg" \in bits'[idx]
      /\ "state" \in bits'[Zdo] <=> "state" \in bits[Zdo]
  BY <1>0, <1>1 DEF Signalled, Event
<1>10. held' # NoMsg /\ held' \in Msg /\ held' = queue[i]
  BY <1>1, <1>2, NoMsgFacts
<1>11. TypeOK'
  BY <1>0, <1>3, <1>9, <1>10 DEF IInv, TypeOK
<1>12. Shape'
  BY <1>0, <1>2, <1>10 DEF IInv, Shape
<1>13. NoStranded'
  <2>1. SUFFICES ASSUME NEW t \in Task, Pending(t)' # {}, "msg" \notin bits'[t]
                 PROVE  Draining(t)'
    BY DEF NoStranded
  <2>2. Pending(t) \ {i} # {}
    BY <1>7, <2>1
  <2>3. t # idx
    BY <1>9, <2>1, <2>2
  <2>4. "msg" \notin bits[t] /\ ~Draining(t)
    BY <1>9, <2>1, <2>3 DEF Draining
  <2>5. QED
    BY <2>2, <2>4 DEF IInv, NoStranded
<1>14. OneReport'
  <2>1. SUFFICES ASSUME NEW a \in Apps
                 PROVE  /\ \A j, k \in StateMsgs(a)' : j = k
                        /\ HeldFor(a)' => StateMsgs(a)' = {}
    BY DEF OneReport
  <2>2. \A j, k \in StateMsgs(a) : j = k
    BY DEF IInv, OneReport
  <2>3. \A j, k \in StateMsgs(a)' : j = k
    BY <1>6, <1>8, <2>2
  <2>4. ASSUME HeldFor(a)' PROVE StateMsgs(a)' = {}
    <3>1. queue[i].kind = "state" /\ queue[i].to = a
      BY <1>10, <2>4 DEF HeldFor
    <3>2. i \in StateMsgs(a)
      BY <1>2, <3>1 DEF StateMsgs, Pending
    <3>3. QED
      BY <1>8, <2>2, <3>2
  <2>5. QED
    BY <2>3, <2>4
<1>15. Current'
  <2>1. SUFFICES ASSUME NEW a \in Apps, UpToDate(a)
                 PROVE  UpToDate(a)'
    <3>1. \A a \in Apps : ReportDue(a) => ReportDue(a)'
      BY <1>0, <1>9 DEF ReportDue
    <3>2. QED
      BY <3>1 DEF IInv, Current
  <2>2. ~HeldFor(a)
    BY <1>0, NoMsgFacts DEF HeldFor
  <2>3. \A k \in StateMsgs(a)' : queue'[k].body = devState'
    BY <1>0, <1>8, <2>1 DEF UpToDate
  <2>4. ASSUME HeldFor(a)' PROVE held'.body = devState'
    <3>1. i \in StateMsgs(a)
      BY <1>2, <1>10, <2>4 DEF StateMsgs, Pending, HeldFor
    <3>2. QED
      BY <1>0, <1>10, <2>1, <3>1 DEF UpToDate
  <2>5. ASSUME StateMsgs(a)' = {}, ~HeldFor(a)' PROVE seen'[a] = devState'
    <3>1. \A k \in StateMsgs(a) : k = i
      BY <1>8, <2>5
    <3>2. i \notin StateMsgs(a)
      BY <1>10, <2>5 DEF HeldFor, StateMsgs, Pending
    <3>3. StateMsgs(a) = {}
      BY <3>1, <3>2
    <3>4. QED
      BY <1>0, <2>1, <2>2, <3>3 DEF UpToDate
  <2>6. QED
    BY <2>3, <2>4, <2>5 DEF UpToDate
<1>16. QED
  BY <1>11, <1>12, <1>13, <1>14, <1>15 DEF IInv

(* The steps below leave the queue and the reports in it alone. *)
LEMMA ReceiveNoneKeeps ==
  ASSUME ConstantsAssumption, IInv, ReceiveNone
  PROVE  IInv'
<1>0. /\ UNCHANGED <<queue, idx, held, todo, devState, seen>>
      /\ pc = "handle" /\ pc' = "return" /\ "msg" \in word /\ word' = word \ {"msg"}
      /\ Pending(idx) = {} /\ idx \in Task /\ Zdo \in Task
      /\ bits \in [Task -> SUBSET Event] /\ word \in SUBSET Event
      /\ bits' = Signalled(idx, {})
  BY DEF ReceiveNone, IInv, TypeOK, ConstantsAssumption
<1>1. /\ bits' \in [Task -> SUBSET Event]
      /\ \A t \in Task : t # idx => bits'[t] = bits[t]
      /\ "state" \in bits'[Zdo] <=> "state" \in bits[Zdo]
  BY <1>0 DEF Signalled
<1>2. \A t : Pending(t)' = Pending(t) /\ StateMsgs(t)' = StateMsgs(t)
  BY <1>0, QuietQueue
<1>3. TypeOK' /\ Shape'
  BY <1>0, <1>1 DEF IInv, TypeOK, Shape
<1>4. NoStranded'
  BY <1>0, <1>1, <1>2 DEF IInv, NoStranded, Draining
<1>5. OneReport'
  BY <1>0, <1>2 DEF IInv, OneReport, HeldFor
<1>6. Current'
  <2>1. \A a \in Apps : ReportDue(a) => ReportDue(a)'
    BY <1>0, <1>1 DEF ReportDue
  <2>2. \A a \in Apps : UpToDate(a) => UpToDate(a)'
    BY <1>0, <1>2 DEF UpToDate, HeldFor
  <2>3. QED
    BY <2>1, <2>2 DEF IInv, Current
<1>7. QED
  BY <1>3, <1>4, <1>5, <1>6 DEF IInv

LEMMA ProcessNetworkKeeps ==
  ASSUME ConstantsAssumption, IInv, ProcessNetwork
  PROVE  IInv'
<1>0. /\ UNCHANGED <<queue, idx, todo, seen>>
      /\ pc = "process" /\ idx = Zdo /\ idx \in Task /\ held \in Msg /\ held.to = idx
      /\ bits \in [Task -> SUBSET Event] /\ word \in SUBSET Event
      /\ held' = NoMsg /\ "msg" \in word /\ todo = {}
  BY DEF ProcessNetwork, Freed, IInv, TypeOK, Shape, ConstantsAssumption
<1>1. \/ devState' = held.body /\ bits' = [bits EXCEPT ![Zdo] = @ \cup {"state"}]
      \/ devState' = devState /\ bits' = bits
  BY DEF ProcessNetwork
<1>2. /\ bits' \in [Task -> SUBSET Event]
      /\ \A t \in Task : bits[t] \subseteq bits'[t]
      /\ "state" \in bits'[Zdo] \/ devState' = devState
  BY <1>0, <1>1 DEF Event
<1>3. \A t : Pending(t)' = Pending(t) /\ StateMsgs(t)' = StateMsgs(t)
  BY <1>0, QuietQueue
<1>4. \/ idx \notin Single /\ pc' = "handle" /\ word' = word
      \/ idx \in Single /\ pc' = "return" /\ word' = word \ {"msg"}
  BY DEF ProcessNetwork, Freed
<1>5. devState' \in Status /\ Len(queue) \in Nat /\ Len(queue) <= Heap /\ Heap \in Nat
  BY <1>0, <1>1, NoMsgFacts DEF IInv, TypeOK, Msg, ConstantsAssumption
<1>6. TypeOK'
  BY <1>0, <1>2, <1>4, <1>5 DEF IInv, TypeOK
<1>7. Shape'
  BY <1>0, <1>4 DEF IInv, Shape
<1>8. NoStranded'
  BY <1>0, <1>2, <1>3, <1>4 DEF IInv, NoStranded, Draining
<1>9. \A a \in Apps : ~HeldFor(a) /\ ~HeldFor(a)'
  BY <1>0, NoMsgFacts DEF HeldFor, ConstantsAssumption
<1>10. OneReport'
  BY <1>3, <1>9 DEF IInv, OneReport
<1>11. Current'
  <2>1. CASE "state" \in bits'[Zdo]
    BY <2>1 DEF Current, ReportDue
  <2>2. CASE devState' = devState
    <3>1. \A a \in Apps : ReportDue(a) => ReportDue(a)'
      BY <1>0, <1>2, <1>4 DEF ReportDue
    <3>2. \A a \in Apps : UpToDate(a) => UpToDate(a)'
      BY <1>0, <1>3, <1>9, <2>2 DEF UpToDate
    <3>3. QED
      BY <3>1, <3>2 DEF IInv, Current
  <2>3. QED
    BY <1>2, <2>1, <2>2
<1>12. QED
  BY <1>6, <1>7, <1>8, <1>10, <1>11 DEF IInv

LEMMA ProcessOtherKeeps ==
  ASSUME ConstantsAssumption, IInv, ProcessOther
  PROVE  IInv'
<1>0. /\ UNCHANGED <<queue, bits, idx, todo, devState>>
      /\ pc = "process" /\ idx # Zdo /\ idx \in Task /\ held \in Msg /\ held.to = idx
      /\ word \in SUBSET Event /\ held' = NoMsg /\ "msg" \in word /\ todo = {}
  BY NoMsgFacts DEF ProcessOther, Freed, IInv, TypeOK, Shape
<1>1. \A t : Pending(t)' = Pending(t) /\ StateMsgs(t)' = StateMsgs(t)
  BY <1>0, QuietQueue
<1>2. \/ idx \notin Single /\ pc' = "handle" /\ word' = word
      \/ idx \in Single /\ pc' = "return" /\ word' = word \ {"msg"}
  BY DEF ProcessOther, Freed
<1>3. /\ seen' \in [Apps -> Status]
      /\ \A a \in Apps : seen'[a] = IF HeldFor(a) THEN held.body ELSE seen[a]
  <2>1. held.body \in Status /\ seen \in [Apps -> Status]
    BY <1>0 DEF Msg, IInv, TypeOK
  <2>2. seen' = IF held.kind = "state" /\ idx \in Apps
                  THEN [seen EXCEPT ![idx] = held.body] ELSE seen
    BY DEF ProcessOther
  <2>3. QED
    BY <1>0, <2>1, <2>2 DEF HeldFor
<1>4. Len(queue) \in Nat /\ Len(queue) <= Heap /\ Heap \in Nat
  BY <1>0, NoMsgFacts DEF IInv, TypeOK, ConstantsAssumption
<1>5. TypeOK'
  BY <1>0, <1>2, <1>3, <1>4 DEF IInv, TypeOK
<1>6. Shape'
  BY <1>0, <1>2 DEF IInv, Shape
<1>7. NoStranded'
  BY <1>0, <1>1, <1>2 DEF IInv, NoStranded, Draining
<1>8. \A a : ~HeldFor(a)'
  BY <1>0, NoMsgFacts DEF HeldFor
<1>9. OneReport'
  BY <1>0, <1>1, <1>8 DEF IInv, OneReport
<1>10. Current'
  <2>1. \A a \in Apps : ReportDue(a) => ReportDue(a)'
    BY <1>0 DEF ReportDue
  <2>2. \A a \in Apps : UpToDate(a) => UpToDate(a)'
    BY <1>0, <1>1, <1>3, <1>8 DEF UpToDate, IInv, OneReport
  <2>3. QED
    BY <2>1, <2>2 DEF IInv, Current
<1>11. QED
  BY <1>5, <1>6, <1>7, <1>9, <1>10 DEF IInv

LEMMA RadioKeeps ==
  ASSUME ConstantsAssumption, IInv, Radio
  PROVE  IInv'
<1>0. /\ UNCHANGED <<idx, held, todo, devState, seen>>
      /\ pc = "handle" /\ pc' = "return" /\ "msg" \notin word /\ word' = word \ {"irq"}
      /\ held = NoMsg /\ word \in SUBSET Event /\ Zdo \in Task
  BY DEF Radio, IInv, TypeOK, Shape, ConstantsAssumption
<1>1. Shape'
  BY <1>0 DEF IInv, Shape
<1>2. CASE UNCHANGED <<queue, bits>>
  <2>1. \A t : Pending(t)' = Pending(t) /\ StateMsgs(t)' = StateMsgs(t)
    BY <1>2, QuietQueue
  <2>2. TypeOK'
    BY <1>0, <1>2 DEF IInv, TypeOK
  <2>3. NoStranded'
    BY <1>0, <1>2, <2>1 DEF IInv, NoStranded, Draining
  <2>4. OneReport'
    BY <1>0, <2>1 DEF IInv, OneReport, HeldFor
  <2>5. \A a \in Apps : ReportDue(a) => ReportDue(a)'
    BY <1>0, <1>2 DEF ReportDue
  <2>6. \A a \in Apps : UpToDate(a) => UpToDate(a)'
    BY <1>0, <1>2, <2>1 DEF UpToDate, HeldFor
  <2>7. QED
    BY <1>1, <2>2, <2>3, <2>4, <2>5, <2>6 DEF IInv, Current
<1>3. ASSUME NEW m \in Msg, ~HeapFull, m.kind = "data", Send(m)
      PROVE  IInv'
  <2>1. /\ queue' \in Seq(Msg)
        /\ Len(queue') = Len(queue) + 1
        /\ \A i \in 1..Len(queue) : queue'[i] = queue[i]
        /\ bits' \in [Task -> SUBSET Event]
        /\ \A t \in Task : bits'[t] = IF t = m.to THEN bits[t] \cup {"msg"} ELSE bits[t]
        /\ \A t : t # m.to => Pending(t)' = Pending(t)
        /\ \A a : StateMsgs(a)' = StateMsgs(a)
    BY <1>3, SendFacts DEF IInv
  <2>2. Len(queue) \in Nat /\ Heap \in Nat /\ Len(queue) + 1 <= Heap
    BY <1>0, <1>3, QueueFacts DEF IInv, HeapFull, ConstantsAssumption
  <2>3. TypeOK'
    BY <1>0, <2>1, <2>2 DEF IInv, TypeOK
  <2>4. NoStranded'
    BY <1>0, <2>1 DEF IInv, NoStranded, Draining
  <2>5. OneReport'
    BY <1>0, <2>1 DEF IInv, OneReport, HeldFor
  <2>6. \A a \in Apps : ReportDue(a) => ReportDue(a)'
    BY <1>0, <2>1 DEF ReportDue
  <2>7. \A a \in Apps : UpToDate(a) => UpToDate(a)'
    <3>1. \A a : StateMsgs(a) \subseteq 1..Len(queue)
      BY QueueFacts DEF IInv
    <3>2. QED
      BY <1>0, <2>1, <3>1 DEF UpToDate, HeldFor
  <2>8. QED
    BY <1>1, <2>3, <2>4, <2>5, <2>6, <2>7 DEF IInv, Current
<1>4. \A t \in Task, s \in Status : [to |-> t, kind |-> "data", body |-> s] \in Msg
  BY DEF Msg
<1>5. QED
  BY <1>2, <1>3, <1>4 DEF Radio

-----------------------------------------------------------------------------
(* The report of a state change *)

LEMMA BeginReportKeeps ==
  ASSUME ConstantsAssumption, IInv, BeginReport
  PROVE  IInv'
<1>0. /\ UNCHANGED <<queue, bits, idx, word, held, devState, seen>>
      /\ pc = "handle" /\ pc' = "report" /\ "msg" \notin word /\ idx = Zdo
      /\ "state" \in word /\ todo' = Apps
  BY DEF BeginReport
<1>1. \A t : Pending(t)' = Pending(t) /\ StateMsgs(t)' = StateMsgs(t)
  BY <1>0, QuietQueue
<1>2. TypeOK' /\ Shape'
  BY <1>0 DEF IInv, TypeOK, Shape
<1>3. NoStranded'
  BY <1>0, <1>1 DEF IInv, NoStranded, Draining
<1>4. OneReport'
  BY <1>0, <1>1 DEF IInv, OneReport, HeldFor
<1>5. Current'
  BY <1>0 DEF Current, ReportDue
<1>6. QED
  BY <1>2, <1>3, <1>4, <1>5 DEF IInv

LEMMA EndReportKeeps ==
  ASSUME ConstantsAssumption, IInv, EndReport
  PROVE  IInv'
<1>0. /\ UNCHANGED <<queue, bits, idx, held, todo, devState, seen>>
      /\ pc = "report" /\ pc' = "return" /\ word' = word \ {"state"} /\ todo = {}
  BY DEF EndReport
<1>1. \A t : Pending(t)' = Pending(t) /\ StateMsgs(t)' = StateMsgs(t)
  BY <1>0, QuietQueue
<1>2. TypeOK' /\ Shape'
  BY <1>0 DEF IInv, TypeOK, Shape
<1>3. NoStranded'
  BY <1>0, <1>1 DEF IInv, NoStranded, Draining
<1>4. OneReport'
  BY <1>0, <1>1 DEF IInv, OneReport, HeldFor
<1>5. Current'
  <2>1. \A a \in Apps : ReportDue(a) => ReportDue(a)'
    BY <1>0 DEF ReportDue
  <2>2. \A a \in Apps : UpToDate(a) => UpToDate(a)'
    BY <1>0, <1>1 DEF UpToDate, HeldFor
  <2>3. QED
    BY <2>1, <2>2 DEF IInv, Current
<1>6. QED
  BY <1>2, <1>3, <1>4, <1>5 DEF IInv

(* A report that is still queued is changed where it is. *)
LEMMA AmendFacts ==
  ASSUME TypeOK, NEW i \in 1..Len(queue), queue' = NewStatus(i)
  PROVE  /\ queue' \in Seq(Msg)
         /\ Len(queue') = Len(queue)
         /\ \A k \in 1..Len(queue) : k # i => queue'[k] = queue[k]
         /\ queue'[i].body = devState
         /\ \A t : Pending(t)' = Pending(t) /\ StateMsgs(t)' = StateMsgs(t)
<1> DEFINE m == [queue[i] EXCEPT !.body = devState]
<1>1. queue \in Seq(Msg) /\ devState \in Status
  BY DEF TypeOK
<1>2. queue[i] \in Msg
  BY <1>1
<1>3. m \in Msg /\ m.body = devState /\ m.to = queue[i].to /\ m.kind = queue[i].kind
  BY <1>1, <1>2 DEF Msg
<1>4. queue' = [queue EXCEPT ![i] = m]
  BY DEF NewStatus
<1> HIDE DEF m
<1>5. /\ queue' \in Seq(Msg)
      /\ Len(queue') = Len(queue)
      /\ \A k \in 1..Len(queue) : k # i => queue'[k] = queue[k]
      /\ queue'[i] = m
  BY <1>1, <1>3, <1>4
<1>6. \A t : Pending(t)' = Pending(t)
  BY <1>3, <1>5 DEF Pending
<1>7. ASSUME NEW t
      PROVE  StateMsgs(t)' = StateMsgs(t)
  <2>1. Pending(t) \subseteq 1..Len(queue)
    BY DEF Pending
  <2>2. \A k \in Pending(t) : queue'[k].kind = queue[k].kind
    BY <1>3, <1>5, <2>1
  <2>3. QED
    BY <1>6, <2>2 DEF StateMsgs
<1>8. QED
  BY <1>3, <1>5, <1>6, <1>7

(* Telling one application leaves the others as they are. *)
LEMMA ReportKeeps ==
  ASSUME ConstantsAssumption, IInv, NEW a \in Apps, Report(a)
  PROVE  IInv'
<1>0. /\ UNCHANGED <<pc, idx, word, held, devState, seen>>
      /\ pc = "report" /\ held = NoMsg /\ a \in todo /\ todo' = todo \ {a}
      /\ Zdo \in Task /\ a \in Task /\ todo \in SUBSET Apps /\ Apps \subseteq Task
      /\ bits \in [Task -> SUBSET Event] /\ Len(queue) \in Nat /\ devState \in Status
  BY DEF Report, IInv, TypeOK, Shape, ConstantsAssumption
<1>1. Shape'
  BY <1>0 DEF IInv, Shape
<1>2. \A b : ~HeldFor(b) /\ ~HeldFor(b)'
  BY <1>0, NoMsgFacts DEF HeldFor
<1>3. \A t : ~Draining(t)
  BY <1>0 DEF Draining
<1>4. \A b : StateMsgs(b) \subseteq 1..Len(queue) /\ StateMsgs(b) \subseteq Pending(b)
  BY QueueFacts DEF IInv
<1>5. \A i \in StateMsgs(a), b \in Apps : b # a => i \notin StateMsgs(b)
  BY DEF StateMsgs, Pending
<1>6. ASSUME \A t \in Task : bits[t] \subseteq bits'[t]
      PROVE  \A b \in Apps : b # a /\ ReportDue(b) => ReportDue(b)'
  BY <1>0, <1>6 DEF ReportDue
<1>7. CASE /\ StateMsgs(a) # {}
           /\ \E i \in StateMsgs(a) : queue' = NewStatus(i)
           /\ UNCHANGED bits
  <2>1. PICK i \in StateMsgs(a) : queue' = NewStatus(i)
    BY <1>7
  <2>2. i \in 1..Len(queue) /\ TypeOK
    BY <1>4 DEF IInv
  <2>3. /\ queue' \in Seq(Msg)
        /\ Len(queue') = Len(queue)
        /\ \A k \in 1..Len(queue) : k # i => queue'[k] = queue[k]
        /\ queue'[i].body = devState
        /\ \A t : Pending(t)' = Pending(t) /\ StateMsgs(t)' = StateMsgs(t)
    BY <2>1, <2>2, AmendFacts
  <2>4. TypeOK'
    BY <1>0, <1>7, <2>3 DEF IInv, TypeOK
  <2>5. NoStranded'
    BY <1>3, <1>7, <2>3 DEF IInv, NoStranded
  <2>6. OneReport'
    BY <1>2, <2>3 DEF IInv, OneReport
  <2>7. UpToDate(a)'
    <3>1. \A j \in StateMsgs(a) : j = i
      BY DEF IInv, OneReport
    <3>2. QED
      BY <1>0, <1>2, <1>7, <2>3, <3>1 DEF UpToDate
  <2>8. \A b \in Apps : b # a /\ UpToDate(b) => UpToDate(b)'
    BY <1>0, <1>2, <1>4, <1>5, <2>3 DEF UpToDate
  <2>9. QED
    BY <1>1, <1>6, <1>7, <2>4, <2>5, <2>6, <2>7, <2>8 DEF IInv, Current
<1>8. CASE bits' = [bits EXCEPT ![Zdo] = @ \cup {"state"}] /\ UNCHANGED queue
  <2>1. /\ bits' \in [Task -> SUBSET Event]
        /\ \A t \in Task : bits[t] \subseteq bits'[t]
        /\ "state" \in bits'[Zdo]
    BY <1>0, <1>8 DEF Event
  <2>2. \A t : Pending(t)' = Pending(t) /\ StateMsgs(t)' = StateMsgs(t)
    BY <1>8, QuietQueue
  <2>3. TypeOK'
    BY <1>0, <1>8, <2>1 DEF IInv, TypeOK
  <2>4. NoStranded'
    BY <1>3, <2>1, <2>2 DEF IInv, NoStranded
  <2>5. OneReport'
    BY <1>2, <2>2 DEF IInv, OneReport
  <2>6. Current'
    BY <2>1 DEF Current, ReportDue
  <2>7. QED
    BY <1>1, <2>3, <2>4, <2>5, <2>6 DEF IInv
<1>9. CASE /\ StateMsgs(a) = {}
           /\ ~HeapFull
           /\ Send([to |-> a, kind |-> "state", body |-> devState])
  <2> DEFINE m == [to |-> a, kind |-> "state", body |-> devState]
             n == Len(queue) + 1
  <2>1. m \in Msg /\ m.to = a /\ m.kind = "state" /\ m.body = devState /\ Send(m) /\ TypeOK
    BY <1>0, <1>9 DEF Msg, IInv
  <2> HIDE DEF m
  <2>2. /\ queue' \in Seq(Msg)
        /\ Len(queue') = n
        /\ \A i \in 1..Len(queue) : queue'[i] = queue[i]
        /\ queue'[n] = m
        /\ bits' \in [Task -> SUBSET Event]
        /\ \A t \in Task : bits'[t] = IF t = a THEN bits[t] \cup {"msg"} ELSE bits[t]
        /\ \A t : t # a => Pending(t)' = Pending(t)
        /\ \A b : b # a => StateMsgs(b)' = StateMsgs(b)
        /\ StateMsgs(a)' = {n}
    BY <1>9, <2>1, SendFacts
  <2>3. Heap \in Nat /\ n <= Heap
    BY <1>0, <1>9 DEF HeapFull, ConstantsAssumption
  <2>4. TypeOK'
    BY <1>0, <2>2, <2>3 DEF IInv, TypeOK
  <2>5. NoStranded'
    BY <1>3, <2>2 DEF IInv, NoStranded
  <2>6. OneReport'
    BY <1>2, <2>2 DEF IInv, OneReport
  <2>7. UpToDate(a)'
    BY <1>0, <1>2, <2>1, <2>2 DEF UpToDate
  <2>8. \A b \in Apps : b # a /\ UpToDate(b) => UpToDate(b)'
    BY <1>0, <1>2, <1>4, <2>2 DEF UpToDate
  <2>9. QED
    BY <1>1, <1>6, <2>2, <2>4, <2>5, <2>6, <2>7, <2>8 DEF IInv, Current
<1>10. QED
  BY <1>7, <1>8, <1>9 DEF Report

-----------------------------------------------------------------------------
LEMMA Initially == ASSUME ConstantsAssumption, Init PROVE IInv
<1>1. Len(queue) = 0 /\ queue \in Seq(Msg) /\ 0 \in Task
  BY DEF Init, Task, ConstantsAssumption
<1>2. TypeOK
  BY <1>1 DEF Init, TypeOK, ConstantsAssumption
<1>3. \A t : Pending(t) = {} /\ StateMsgs(t) = {}
  BY <1>1 DEF Pending, StateMsgs
<1>4. \A t : ~HeldFor(t)
  BY NoMsgFacts DEF Init, HeldFor
<1>5. Shape
  BY DEF Init, Shape
<1>6. NoStranded /\ OneReport
  BY <1>3, <1>4 DEF NoStranded, OneReport
<1>7. Current
  BY <1>3, <1>4 DEF Init, Current, UpToDate
<1>8. QED
  BY <1>2, <1>5, <1>6, <1>7 DEF IInv

LEMMA StutterKeeps == ASSUME IInv, UNCHANGED vars PROVE IInv'
<1>1. UNCHANGED <<queue, bits, pc, idx, word, held, todo, devState, seen>>
  BY DEF vars
<1>2. \A t : Pending(t)' = Pending(t) /\ StateMsgs(t)' = StateMsgs(t)
  BY <1>1, QuietQueue
<1>3. TypeOK' /\ Shape'
  BY <1>1 DEF IInv, TypeOK, Shape
<1>4. NoStranded'
  BY <1>1, <1>2 DEF IInv, NoStranded, Draining
<1>5. OneReport' /\ Current'
  BY <1>1, <1>2 DEF IInv, OneReport, Current, HeldFor, UpToDate, ReportDue
<1>6. QED
  BY <1>3, <1>4, <1>5 DEF IInv

(* The inductive invariant: what is typed, what belongs together, no message
   stranded, one report at most, and every report that matters due or right. *)
THEOREM MessagesInvariant == Spec => []IInv
<1>1. Init => IInv
  BY ConstantsAssumption, Initially
<1>2. IInv /\ [Next]_vars => IInv'
  <2>1. SUFFICES ASSUME IInv, [Next]_vars
                 PROVE  IInv'
    OBVIOUS
  <2>2. CASE Interrupt
    BY <2>1, <2>2, ConstantsAssumption, InterruptKeeps
  <2>3. CASE Look \/ TakeEvents \/ Return
    BY <2>1, <2>3, ConstantsAssumption, LoopKeeps
  <2>4. CASE Receive
    BY <2>1, <2>4, ConstantsAssumption, ReceiveKeeps
  <2>5. CASE ReceiveNone
    BY <2>1, <2>5, ConstantsAssumption, ReceiveNoneKeeps
  <2>6. CASE ProcessNetwork
    BY <2>1, <2>6, ConstantsAssumption, ProcessNetworkKeeps
  <2>7. CASE ProcessOther
    BY <2>1, <2>7, ConstantsAssumption, ProcessOtherKeeps
  <2>8. CASE Radio
    BY <2>1, <2>8, ConstantsAssumption, RadioKeeps
  <2>9. CASE BeginReport
    BY <2>1, <2>9, ConstantsAssumption, BeginReportKeeps
  <2>10. CASE \E a \in Apps : Report(a)
    BY <2>1, <2>10, ConstantsAssumption, ReportKeeps
  <2>11. CASE EndReport
    BY <2>1, <2>11, ConstantsAssumption, EndReportKeeps
  <2>12. CASE UNCHANGED vars
    BY <2>1, <2>12, StutterKeeps
  <2>13. QED
    BY <2>1, <2>2, <2>3, <2>4, <2>5, <2>6, <2>7, <2>8, <2>9, <2>10, <2>11, <2>12
       DEF Next, Loop
<1>3. QED
  BY <1>1, <1>2, PTL DEF Spec

(* The variables keep their types and the messages fit the heap. *)
THEOREM TypeCorrect == Spec => []TypeOK
BY MessagesInvariant, PTL DEF IInv

(* No task forgets a message: its bit is set, or its handler will look. *)
THEOREM NothingStranded == Spec => []NoStranded
BY MessagesInvariant, PTL DEF IInv

(* An application knows the state once no report is due or under way. *)
THEOREM StateLearned == Spec => []StateKnown
<1>1. IInv => StateKnown
  BY DEF IInv, Current, UpToDate, HeldFor, StateKnown, ReportUnderWay
<1>2. QED
  BY <1>1, MessagesInvariant, PTL
-----------------------------------------------------------------------------
(* The mailboxes: the queue is all of them in one, a task's is what the      *)
(* queue holds for it.                                                       *)

BoxesOf(q) == [t \in Task |-> SelectIn(q, For(t))]

LEMMA BoxesAre == BoxesSeen = BoxesOf(queue) /\ BoxesSeen' = BoxesOf(queue')
BY DEF BoxesSeen, BoxesOf, For

LEMMA ForIs ==
  /\ \A m \in Msg, t \in Task : m \in For(t) <=> m.to = t
  /\ \A m \in Msg : m.to \in Task
BY DEF For, Msg

(* A message that is sent comes last in the box of its task. *)
LEMMA SendPuts ==
  ASSUME NEW q \in Seq(Msg), NEW m \in Msg
  PROVE  BoxesOf(Append(q, m)) = [BoxesOf(q) EXCEPT ![m.to] = Append(@, m)]
<1>1. m.to \in Task
  BY ForIs
<1>2. Append(q, m) \in Seq(Msg)
  OBVIOUS
<1>3. ASSUME NEW t \in Task
      PROVE  BoxesOf(Append(q, m))[t] =
               IF t = m.to THEN Append(BoxesOf(q)[t], m) ELSE BoxesOf(q)[t]
  <2>1. /\ m \in For(t) => SelectIn(Append(q, m), For(t)) = Append(SelectIn(q, For(t)), m)
        /\ m \notin For(t) => SelectIn(Append(q, m), For(t)) = SelectIn(q, For(t))
    BY SelectAppend, Zenon
  <2>2. BoxesOf(Append(q, m))[t] = SelectIn(Append(q, m), For(t))
        /\ BoxesOf(q)[t] = SelectIn(q, For(t))
    BY DEF BoxesOf
  <2>3. m \in For(t) <=> m.to = t
    BY ForIs, Zenon
  <2> QED BY <2>1, <2>2, <2>3, Zenon
<1> QED BY <1>1, <1>3 DEF BoxesOf

(* A task takes the first message of its box and none of another's. *)
LEMMA ReceiveGets ==
  ASSUME NEW q \in Seq(Msg), NEW t \in Task, NEW i \in 1..Len(q), q[i].to = t,
         \A k \in 1..Len(q) : q[k].to = t => i <= k
  PROVE  /\ BoxesOf(q)[t] # <<>>
         /\ BoxesOf(RemoveAt(q, i)) = [BoxesOf(q) EXCEPT ![t] = Tail(@)]
<1>1. q[i] \in Msg /\ \A k \in 1..Len(q) : q[k] \in Msg
  OBVIOUS
<1>2. \A k \in 1..Len(q) : k < i => q[k] \notin For(t)
  <2>1. ASSUME NEW k \in 1..Len(q), k < i PROVE q[k] \notin For(t)
    <3>1. q[k].to # t
      BY <2>1
    <3> QED BY <1>1, <3>1, ForIs, Zenon
  <2> QED BY <2>1
<1>3. q[i] \in For(t)
  BY <1>1, ForIs, Zenon
<1>4. SelectIn(q, For(t)) # <<>> /\ SelectIn(RemoveAt(q, i), For(t)) = Tail(SelectIn(q, For(t)))
  BY <1>2, <1>3, SelectRemove, Zenon
<1>5. ASSUME NEW u \in Task, u # t
      PROVE  SelectIn(RemoveAt(q, i), For(u)) = SelectIn(q, For(u))
  <2>1. q[i] \notin For(u)
    BY <1>1, <1>5, ForIs, Zenon
  <2> QED BY <2>1, SelectRemove, Zenon
<1>6. ASSUME NEW u \in Task
      PROVE  /\ BoxesOf(RemoveAt(q, i))[u] = SelectIn(RemoveAt(q, i), For(u))
             /\ BoxesOf(q)[u] = SelectIn(q, For(u))
  BY DEF BoxesOf
<1>7. \A u \in Task : BoxesOf(RemoveAt(q, i))[u] =
                        IF u = t THEN Tail(BoxesOf(q)[u]) ELSE BoxesOf(q)[u]
  BY <1>4, <1>5, <1>6, Zenon
<1>8. BoxesOf(RemoveAt(q, i)) = [BoxesOf(q) EXCEPT ![t] = Tail(@)]
  BY <1>7 DEF BoxesOf
<1> QED BY <1>4, <1>6, <1>8, Zenon

(* A report that is changed in the queue is changed in its box. *)
Amends(q, i, m, j) ==
  /\ BoxesOf(q)[m.to][j] = q[i]
  /\ BoxesOf([q EXCEPT ![i] = m]) = [BoxesOf(q) EXCEPT ![m.to][j] = m]

LEMMA ReportAmends ==
  ASSUME NEW q \in Seq(Msg), NEW i \in 1..Len(q), NEW m \in Msg, m.to = q[i].to
  PROVE  \E j \in 1..Len(BoxesOf(q)[m.to]) : Amends(q, i, m, j)
<1>1. PICK r : IsChange(q, i, m, r)
  BY DEF IsChange
<1>2. q[i] \in Msg /\ m.to \in Task
  BY ForIs
<1>3. PICK t \in Task : t = m.to
  BY <1>2
<1>4. \A u \in Task : u # t => SelectIn(r, For(u)) = SelectIn(q, For(u))
  <2>1. ASSUME NEW u \in Task, u # t PROVE SelectIn(r, For(u)) = SelectIn(q, For(u))
    <3>1. PICK A : A = For(u)
      OBVIOUS
    <3>2. q[i].to # u /\ m.to # u
      BY <1>3, <2>1
    <3>3. q[i] \notin A
      BY <1>2, <3>1, <3>2, ForIs, Zenon
    <3>4. m \notin A
      BY <3>1, <3>2, ForIs, Zenon
    <3>5. SelectIn(r, A) = SelectIn(q, A)
      BY <1>1, <3>3, <3>4, SelectReplace, SMT
    <3> QED BY <3>1, <3>5, Zenon
  <2> QED BY <2>1
<1>5. PICK j \in 1..Len(SelectIn(q, For(t))) :
        /\ SelectIn(q, For(t))[j] = q[i]
        /\ IsChange(SelectIn(q, For(t)), j, m, SelectIn(r, For(t)))
  <2>1. PICK A : A = For(t)
    OBVIOUS
  <2>2. q[i].to = t /\ m.to = t
    BY <1>3
  <2>3. q[i] \in A
    BY <1>2, <2>1, <2>2, ForIs, Zenon
  <2>4. m \in A
    BY <2>1, <2>2, ForIs, Zenon
  <2>5. \E j \in 1..Len(SelectIn(q, A)) :
           /\ SelectIn(q, A)[j] = q[i]
           /\ IsChange(SelectIn(q, A), j, m, SelectIn(r, A))
    BY <1>1, <2>3, <2>4, SelectReplace, SMT
  <2> QED BY <2>1, <2>5, Zenon
<1>6. \A u \in Task : BoxesOf(r)[u] = SelectIn(r, For(u)) /\ BoxesOf(q)[u] = SelectIn(q, For(u))
  BY DEF BoxesOf
<1>7. BoxesOf(r)[t] = [BoxesOf(q)[t] EXCEPT ![j] = m]
  BY <1>5, <1>6, Zenon DEF IsChange
<1>8. \A u \in Task : u # t => BoxesOf(r)[u] = BoxesOf(q)[u]
  BY <1>4, <1>6, Zenon
<1>9. BoxesOf(r) = [BoxesOf(q) EXCEPT ![t][j] = m]
  BY <1>7, <1>8 DEF BoxesOf
<1>10. j \in 1..Len(BoxesOf(q)[t]) /\ BoxesOf(q)[t][j] = q[i]
  BY <1>5, <1>6, Zenon
<1>11. r = [q EXCEPT ![i] = m]
  BY <1>1 DEF IsChange
<1> QED BY <1>3, <1>9, <1>10, <1>11, Zenon DEF Amends

LEMMA MailStep == ASSUME IInv, [Next]_vars PROVE [Boxes!Next]_BoxesSeen
<1> DEFINE box == BoxesOf(queue)
           boxNext == BoxesOf(queue')
<1>1. queue \in Seq(Msg) /\ idx \in Task /\ devState \in Status
  BY DEF IInv, TypeOK
<1>2. CASE queue' = queue
  BY <1>2, BoxesAre, Zenon
<1>3. ASSUME NEW m \in Msg, queue' = Append(queue, m)
      PROVE  \E t \in Task : Boxes!Put(t, m)
  <2>1. m.to \in Task
    BY ForIs
  <2>2. BoxesOf(queue') = [BoxesOf(queue) EXCEPT ![m.to] = Append(@, m)]
    BY <1>1, <1>3, SendPuts, Zenon
  <2>3. Boxes!Put(m.to, m)
    BY <2>2, BoxesAre, Zenon DEF Boxes!Put
  <2> QED BY <2>1, <2>3
<1>4. CASE Receive
  <2>1. PICK i \in Pending(idx) : IsFirst(idx, i) /\ queue' = RemoveAt(queue, i)
    BY <1>4 DEF Receive
  <2>2. i \in 1..Len(queue) /\ queue[i].to = idx
        /\ \A k \in 1..Len(queue) : queue[k].to = idx => i <= k
    BY <2>1 DEF Pending, IsFirst
  <2>3. PICK t \in Task : t = idx
    BY <1>1
  <2>4. BoxesOf(queue)[t] # <<>>
        /\ BoxesOf(RemoveAt(queue, i)) = [BoxesOf(queue) EXCEPT ![t] = Tail(@)]
    BY <1>1, <2>2, <2>3, ReceiveGets, Zenon
  <2>5. Boxes!Get(t)
    BY <2>1, <2>4, BoxesAre, Zenon DEF Boxes!Get
  <2> QED BY <2>5 DEF Boxes!Next
<1>5. ASSUME NEW a \in Apps, NEW i \in StateMsgs(a), queue' = NewStatus(i)
      PROVE  \E t \in Task, m \in Msg : \E j \in 1..Len(BoxesSeen[t]) : Boxes!Amend(t, j, m)
  <2>1. i \in 1..Len(queue) /\ queue[i].to = a /\ queue[i].kind = "state"
    BY DEF StateMsgs, Pending
  <2>2. queue[i] \in Msg
    BY <1>1, <2>1
  <2>3. PICK m \in Msg : m = [queue[i] EXCEPT !.body = devState]
    BY <1>1, <2>2 DEF Msg
  <2>4. m.to = queue[i].to /\ m.kind = queue[i].kind
    BY <2>2, <2>3 DEF Msg
  <2>5. queue' = [queue EXCEPT ![i] = m]
    BY <1>5, <2>3 DEF NewStatus
  <2>6. PICK j \in 1..Len(BoxesOf(queue)[m.to]) : Amends(queue, i, m, j)
    BY <1>1, <2>1, <2>4, ReportAmends, Zenon
  <2>7. m.to \in Task
    BY ForIs
  <2>8. j \in 1..Len(BoxesSeen[m.to]) /\ Boxes!Amend(m.to, j, m)
    BY <2>1, <2>4, <2>5, <2>6, BoxesAre, Zenon DEF Boxes!Amend, Amends
  <2> QED BY <2>7, <2>8
<1>6. CASE \E a \in Apps : Report(a)
  <2>1. PICK a \in Apps : Report(a)
    BY <1>6
  <2>2. CASE \E i \in StateMsgs(a) : queue' = NewStatus(i)
    <3>1. PICK t \in Task, m \in Msg : \E j \in 1..Len(BoxesSeen[t]) : Boxes!Amend(t, j, m)
      BY <1>5, <2>2
    <3> QED BY <3>1, Zenon DEF Boxes!Next
  <2>3. CASE queue' = queue
    BY <1>2, <2>3
  <2>4. CASE Send([to |-> a, kind |-> "state", body |-> devState])
    <3>1. [to |-> a, kind |-> "state", body |-> devState] \in Msg
      BY <1>1, ConstantsAssumption DEF Msg
    <3>2. PICK m \in Msg : queue' = Append(queue, m)
      BY <2>4, <3>1 DEF Send
    <3> QED BY <1>3, <3>2, Zenon DEF Boxes!Next
  <2> QED BY <2>1, <2>2, <2>3, <2>4 DEF Report
<1>7. CASE Radio
  <2>1. CASE queue' = queue
    BY <1>2, <2>1
  <2>2. ASSUME NEW t \in Task, NEW s \in Status, Send([to |-> t, kind |-> "data", body |-> s])
        PROVE  [Boxes!Next]_BoxesSeen
    <3>1. [to |-> t, kind |-> "data", body |-> s] \in Msg
      BY DEF Msg
    <3>2. PICK m \in Msg : queue' = Append(queue, m)
      BY <2>2, <3>1 DEF Send
    <3> QED BY <1>3, <3>2, Zenon DEF Boxes!Next
  <2> QED BY <1>7, <2>1, <2>2 DEF Radio
<1>8. CASE UNCHANGED vars \/ Interrupt \/ Look \/ TakeEvents \/ Return \/ ReceiveNone
           \/ ProcessNetwork \/ ProcessOther \/ BeginReport \/ EndReport
  <2>1. queue' = queue
    BY <1>8 DEF vars, Interrupt, Look, TakeEvents, Return, ReceiveNone, ProcessNetwork,
                ProcessOther, BeginReport, EndReport, Freed
  <2> QED BY <1>2, <2>1
<1> QED BY <1>4, <1>6, <1>7, <1>8 DEF Next, Loop

(* For every number of tasks and every heap, one queue with a bit per task   *)
(* is a mailbox per task: a task gets its messages, each once and in the     *)
(* order they were sent, and only a report not yet fetched is overwritten.   *)
THEOREM QueueIsMailboxes == Spec => ImplementsMailboxes
<1>1. Init => Boxes!Init
  <2>1. SUFFICES ASSUME Init PROVE BoxesSeen = [t \in Task |-> <<>>]
    BY DEF Boxes!Init
  <2>2. queue = <<>>
    BY <2>1 DEF Init
  <2>3. \A t \in Task : SelectIn(<<>>, For(t)) = <<>>
    BY SelectEmpty, Zenon
  <2> QED BY <2>2, <2>3 DEF BoxesSeen
<1>2. IInv /\ [Next]_vars => [Boxes!Next]_BoxesSeen
  BY MailStep
<1> QED BY <1>1, <1>2, MessagesInvariant, PTL DEF Spec, ImplementsMailboxes, Boxes!Spec

-----------------------------------------------------------------------------
(* Pairing *)

Listing == [mac : Button, nwk : Addr]
ButtonState == [allow : BOOLEAN, coord : BOOLEAN, list : Seq(ListEntry)]

(* What the messages say of the unit they are about: the device by its one *)
(* name and, if no unit comes back with another address, the address it    *)
(* has; the button that wants to be listed by its name and an address.     *)
Genuine(m, where) ==
  /\ m.op \in {"pairreg", "match"} =>
       /\ m.addr \in Addr
       /\ \E d \in Device : m.macs = {d} /\ (Movers = {} => m.addr = where[d])
  /\ m.op = "pair" => m.addr \in Addr /\ m.macs \subseteq Button

NetSound == \A m \in net : Genuine(m, addr)

ListStored(list, stored, where) ==
  /\ list # <<>> => stored # {}
  /\ \A e \in ToSet(list) : e.remote => e.dst \in stored
  /\ Movers = {} =>
       \A e \in ToSet(list) : ~e.remote => \E d \in stored : where[d] = e.dst

AllStored == \A b \in Button : ListStored(btn[b].list, nv[b], addr)

PairInv == PairingTypeOK /\ NetSound /\ AllStored /\ ListingEnds

LEMMA EventTypes ==
  /\ NoEvent \in EventState
  /\ \A e \in EventState : Fired(e) \in EventState /\ Expired(e) \in EventState
  /\ \A e \in EventState, s \in BOOLEAN, c \in BOOLEAN : Update(e, s, c) \in EventState
<1>1. NoEvent \in EventState
  BY DEF NoEvent, EventState, Endless
<1>2. ASSUME NEW e \in EventState
      PROVE  Fired(e) \in EventState /\ Expired(e) \in EventState
  <2>1. Count(e.cnt) \in {0, 1, Endless} /\ (Count(e.cnt) > 0) \in BOOLEAN
    BY DEF EventState, Count, Endless
  <2>2. Fired(e) \in EventState
    BY <2>1 DEF Fired, EventState
  <2>3. Expired(e) \in EventState
    BY DEF Expired, EventState
  <2> QED BY <2>2, <2>3
<1>3. ASSUME NEW e \in EventState, NEW s \in BOOLEAN, NEW c \in BOOLEAN
      PROVE  Update(e, s, c) \in EventState
  BY DEF Update, EventState, Endless
<1> QED BY <1>1, <1>2, <1>3

(* An entry that is armed has an execution before it. *)
LEMMA ArmedAhead ==
  ASSUME NEW e \in EventState, NEW s \in BOOLEAN
  PROVE  /\ Update(e, s, TRUE).cb /\ Update(e, s, TRUE).cnt > 0
         /\ Update(e, s, TRUE).timer \/ Update(e, s, TRUE).bit
<1>1. Update(e, s, TRUE).cb
  BY DEF Update
<1>2. Update(e, s, TRUE).cnt = 1
  BY DEF Update
<1>3. s => Update(e, s, TRUE).bit
  BY Zenon DEF Update
<1>4. ~s => Update(e, s, TRUE).timer
  BY Zenon DEF Update
<1>5. Update(e, s, TRUE).cnt > 0
  BY <1>2, 1 > 0, Zenon
<1> QED BY <1>1, <1>3, <1>4, <1>5, Zenon

LEMMA PairingTypes ==
  ASSUME PairingTypeOK
  PROVE  /\ addr \in [Unit -> Addr] /\ IsInjective(addr)
         /\ net \subseteq Packet
         /\ btn \in [Button -> ButtonState]
         /\ ev \in [Button -> EventState]
         /\ nv \in [Button -> SUBSET Device] /\ asked \in [Button -> SUBSET Device]
         /\ pairs \in Seq(Listing) /\ cev \in EventState
         /\ \A n \in Unit : addr[n] \in Addr
         /\ \A b \in Button : b \in Unit /\ {b} \in SUBSET Unit /\ nv[b] \in SUBSET Unit
         /\ \A d \in Device : d \in Unit /\ {d} \in SUBSET Unit
BY DEF PairingTypeOK, Unit, ButtonState, Listing

(* What is sent is genuine, and what is kept stays so. *)
LEMMA DeliverSound ==
  ASSUME PairingTypeOK, NetSound, NEW kept \in SUBSET net,
         NEW sent \in SUBSET Packet, Deliver(kept, sent),
         addr' = addr \/ Movers # {},
         \A m \in sent : Genuine(m, addr')
  PROVE  net' \subseteq Packet /\ NetSound'
<1>1. net' \subseteq kept \cup sent /\ net \subseteq Packet
  BY DEF Deliver, PairingTypeOK
<1>2. \A m \in kept : Genuine(m, addr')
  BY DEF NetSound, Genuine
<1> QED BY <1>1, <1>2 DEF NetSound

LEMMA PairInit == ASSUME PairingInit PROVE PairInv
<1>1. addr \in [Unit -> Addr] /\ IsInjective(addr)
  <2>1. \E f \in [Unit -> Addr] : IsInjective(f)
    BY PairingAssumption DEF Unit
  <2> QED BY <2>1 DEF PairingInit
<1>2. <<>> \in Seq(Listing) /\ <<>> \in Seq(ListEntry) /\ ToSet(<<>>) = {}
  BY DEF ToSet
<1>3. PairingTypeOK
  BY <1>1, <1>2, EventTypes DEF PairingInit, PairingTypeOK, Listing
<1>4. NetSound /\ ListingEnds
  BY DEF PairingInit, NetSound, ListingEnds
<1>5. AllStored
  BY <1>2 DEF PairingInit, AllStored, ListStored
<1> QED BY <1>3, <1>4, <1>5 DEF PairInv

-----------------------------------------------------------------------------
(* The lists *)

LEMMA ListsUnchanged ==
  ASSUME AllStored, UNCHANGED <<nv, addr>>,
         \A b \in Button : btn'[b].list = btn[b].list
  PROVE  AllStored'
BY DEF AllStored

LEMMA ListGrows ==
  ASSUME NEW list \in Seq(ListEntry), NEW e \in ListEntry,
         NEW stored \in SUBSET Device, NEW d \in Device, NEW where,
         ListStored(list, stored, where),
         e.remote => e.dst = d,
         Movers = {} => (~e.remote => where[d] = e.dst)
  PROVE  /\ ListStored(list, stored \cup {d}, where)
         /\ ListStored(Append(list, e), stored \cup {d}, where)
         /\ Append(list, e) \in Seq(ListEntry)
<1>1. ToSet(Append(list, e)) = ToSet(list) \cup {e}
  BY AppendSet
<1>2. Append(list, e) \in Seq(ListEntry)
  OBVIOUS
<1>3. ListStored(list, stored \cup {d}, where)
  BY DEF ListStored
<1>4. ListStored(Append(list, e), stored \cup {d}, where)
  BY <1>1 DEF ListStored
<1> QED BY <1>2, <1>3, <1>4

LEMMA BindSound ==
  ASSUME PairInv, NEW b \in Button, NEW d \in Device, NEW e \in ListEntry,
         Bind(b, d, e),
         e.remote => e.dst = d,
         Movers = {} => (~e.remote => addr[d] = e.dst)
  PROVE  /\ btn' \in [Button -> ButtonState]
         /\ nv' \in [Button -> SUBSET Device]
         /\ \A x \in Button : ListStored(btn'[x].list, nv'[x], addr)
<1>1. /\ btn \in [Button -> ButtonState] /\ nv \in [Button -> SUBSET Device]
      /\ \A x \in Button : ListStored(btn[x].list, nv[x], addr)
  BY PairingTypes DEF PairInv, AllStored
<1>2. PICK list \in Seq(ListEntry) : list = btn[b].list
  BY <1>1 DEF ButtonState
<1>3. /\ ListStored(list, nv[b] \cup {d}, addr)
      /\ ListStored(Append(list, e), nv[b] \cup {d}, addr)
      /\ Append(list, e) \in Seq(ListEntry)
  <2>1. PICK s \in SUBSET Device : s = nv[b]
    BY <1>1
  <2>2. ListStored(list, s, addr)
    BY <1>1, <1>2, <2>1
  <2> QED BY <2>1, <2>2, ListGrows
<1>4. nv' = [nv EXCEPT ![b] = @ \cup {d}]
  BY DEF Bind, Stored
<1>5. /\ nv' \in [Button -> SUBSET Device]
      /\ nv'[b] = nv[b] \cup {d}
      /\ \A x \in Button : x # b => nv'[x] = nv[x]
  BY <1>1, <1>4
<1>6. PICK grown \in Seq(ListEntry) : grown = Append(list, e)
  BY <1>3
<1>7. /\ btn' \in [Button -> ButtonState]
      /\ btn'[b].list \in {list, grown}
      /\ \A x \in Button : x # b => btn'[x] = btn[x]
  <2>1. CASE btn' = btn
    BY <1>1, <1>2, <2>1
  <2>2. CASE btn' = [btn EXCEPT ![b].list = grown]
    BY <1>1, <1>2, <2>2 DEF ButtonState
  <2> QED BY <1>2, <1>6, <2>1, <2>2 DEF Bind
<1> QED BY <1>1, <1>3, <1>5, <1>6, <1>7

-----------------------------------------------------------------------------
(* The button *)

LEMMA PairKeyKeeps ==
  ASSUME PairInv, NEW b \in Button, PairKey(b) PROVE PairInv'
<1>1. PairingTypeOK /\ NetSound /\ AllStored /\ ListingEnds
  BY DEF PairInv
<1>2. UNCHANGED <<addr, nv, pairs, cev, asked>>
  BY DEF PairKey
<1>3. /\ btn' \in [Button -> ButtonState]
      /\ \A x \in Button : btn'[x].list = btn[x].list
  BY <1>1, PairingTypes DEF PairKey, ButtonState
<1>4. ev' \in [Button -> EventState]
  <2>1. ev \in [Button -> EventState] /\ ev[b] \in EventState
    BY <1>1, PairingTypes
  <2>2. Update(ev[b], TRUE, FALSE) \in EventState /\ Update(ev[b], FALSE, TRUE) \in EventState
    BY <2>1, EventTypes
  <2> QED BY <2>1, <2>2 DEF PairKey
<1>5. net' \subseteq Packet /\ NetSound'
  <2>1. Message("pair", Connector, {b}, addr[b]) \in Packet
    BY <1>1, PairingTypes DEF Message, Packet
  <2>2. Genuine(Message("pair", Connector, {b}, addr[b]), addr')
    BY <1>1, PairingTypes DEF Message, Genuine
  <2>3. PICK sent \in SUBSET Packet : Deliver(net, sent) /\ \A m \in sent : Genuine(m, addr')
    <3>1. CASE btn[b].allow
      BY <3>1 DEF PairKey
    <3>2. CASE ~btn[b].allow
      BY <2>1, <2>2, <3>2 DEF PairKey
    <3> QED BY <3>1, <3>2
  <2> QED BY <1>1, <1>2, <2>3, DeliverSound
<1>6. PairingTypeOK'
  BY <1>1, <1>2, <1>3, <1>4, <1>5 DEF PairingTypeOK, ButtonState
<1>7. AllStored'
  BY <1>1, <1>2, <1>3, ListsUnchanged
<1> QED BY <1>1, <1>2, <1>5, <1>6, <1>7 DEF PairInv, ListingEnds

LEMMA PushKeeps ==
  ASSUME PairInv, NEW b \in Button, Push(b) PROVE PairInv'
<1>1. PairingTypeOK /\ NetSound /\ AllStored /\ ListingEnds
  BY DEF PairInv
<1>2. UNCHANGED <<addr, btn, ev, nv, pairs, cev, asked>>
  BY DEF Push
<1>3. net' \subseteq Packet /\ NetSound'
  <2> DEFINE Used == {e \in ToSet(btn[b].list) : e.coord = btn[b].coord}
             here == {Message("ctrl", e.dst, {}, addr[b]) : e \in {x \in Used : ~x.remote}}
             there == {Message("remote", Connector, {e.dst}, addr[b]) :
                         e \in {x \in Used : x.remote}}
  <2>1. Deliver(net, here \cup there)
    BY DEF Push
  <2>2. ToSet(btn[b].list) \subseteq ListEntry
    BY <1>1, PairingTypes DEF ButtonState, ToSet
  <2>3. addr[b] \in Addr
    BY <1>1, PairingTypes
  <2>4. here \subseteq Packet /\ \A m \in here : Genuine(m, addr')
    <3>1. ASSUME NEW e \in ListEntry, ~e.remote
          PROVE  /\ Message("ctrl", e.dst, {}, addr[b]) \in Packet
                 /\ Genuine(Message("ctrl", e.dst, {}, addr[b]), addr')
      BY <2>3, <3>1 DEF ListEntry, Message, Packet, Genuine
    <3> QED BY <2>2, <3>1
  <2>5. there \subseteq Packet /\ \A m \in there : Genuine(m, addr')
    <3>1. ASSUME NEW e \in ListEntry, e.remote
          PROVE  /\ Message("remote", Connector, {e.dst}, addr[b]) \in Packet
                 /\ Genuine(Message("remote", Connector, {e.dst}, addr[b]), addr')
      BY <2>3, <3>1 DEF ListEntry, Message, Packet, Genuine, Unit
    <3> QED BY <2>2, <3>1
  <2> HIDE DEF here, there
  <2>6. PICK sent \in SUBSET Packet : sent = here \cup there
    BY <2>4, <2>5
  <2> QED BY <1>1, <1>2, <2>1, <2>4, <2>5, <2>6, DeliverSound
<1>4. PairingTypeOK' /\ AllStored'
  BY <1>1, <1>2, <1>3 DEF PairingTypeOK, AllStored
<1> QED BY <1>1, <1>2, <1>3, <1>4 DEF PairInv, ListingEnds

LEMMA ResetKeyKeeps ==
  ASSUME PairInv, NEW b \in Button, ResetKey(b) PROVE PairInv'
<1>1. PairingTypeOK /\ NetSound /\ AllStored /\ ListingEnds
  BY DEF PairInv
<1>2. UNCHANGED <<addr, net, ev, pairs, cev, asked>>
  BY DEF ResetKey
<1>3. /\ btn' \in [Button -> ButtonState] /\ nv' \in [Button -> SUBSET Device]
      /\ AllStored'
  <2>1. CASE btn[b].list = <<>>
    BY <1>1, <1>2, <2>1, PairingTypes DEF ResetKey, AllStored
  <2>2. CASE btn[b].list # <<>>
    <3>1. btn' = [btn EXCEPT ![b].list = <<>>] /\ nv' = [nv EXCEPT ![b] = {}]
      BY <2>2 DEF ResetKey
    <3>2. ToSet(<<>>) = {} /\ <<>> \in Seq(ListEntry)
      BY DEF ToSet
    <3>3. /\ btn' \in [Button -> ButtonState] /\ nv' \in [Button -> SUBSET Device]
          /\ btn'[b].list = <<>>
          /\ \A x \in Button : x # b => btn'[x] = btn[x] /\ nv'[x] = nv[x]
      BY <1>1, <3>1, <3>2, PairingTypes DEF ButtonState
    <3>4. ListStored(<<>>, nv'[b], addr')
      BY <3>2 DEF ListStored
    <3>5. \A x \in Button : x # b => ListStored(btn'[x].list, nv'[x], addr')
      BY <1>1, <1>2, <3>3 DEF AllStored
    <3> QED BY <3>3, <3>4, <3>5 DEF AllStored
  <2> QED BY <2>1, <2>2
<1>4. PairingTypeOK' /\ NetSound'
  BY <1>1, <1>2, <1>3 DEF PairingTypeOK, ButtonState, NetSound
<1> QED BY <1>1, <1>2, <1>3, <1>4 DEF PairInv, ListingEnds

LEMMA ConfigurationFacts ==
  ASSUME PairingTypeOK, NEW b \in Button, NEW a \in Addr
  PROVE  Configuration(b, a) \in Packet /\ \A where : Genuine(Configuration(b, a), where)
BY PairingTypes DEF Configuration, Message, Packet, Genuine

LEMMA RestartKeeps ==
  ASSUME PairInv, NEW b \in Button, Restart(b) PROVE PairInv'
<1>1. PairingTypeOK /\ NetSound /\ AllStored /\ ListingEnds
  BY DEF PairInv
<1>2. UNCHANGED <<addr, nv, pairs, cev, asked>>
  BY DEF Restart
<1>3. btn' = [btn EXCEPT ![b] = [allow |-> FALSE, coord |-> FALSE, list |-> <<>>]]
  BY DEF Restart
<1>4. ToSet(<<>>) = {} /\ <<>> \in Seq(ListEntry)
  BY DEF ToSet
<1>5. /\ btn' \in [Button -> ButtonState]
      /\ btn'[b].list = <<>>
      /\ \A x \in Button : x # b => btn'[x] = btn[x]
  BY <1>1, <1>3, <1>4, PairingTypes DEF ButtonState
<1>6. ev' \in [Button -> EventState]
  BY <1>1, EventTypes, PairingTypes DEF Restart
<1>7. net' \subseteq Packet /\ NetSound'
  <2>1. addr[b] \in Addr
    BY <1>1, PairingTypes
  <2>2. PICK m \in Packet : m = Configuration(b, addr[b]) /\ Genuine(m, addr')
    BY <1>1, <2>1, ConfigurationFacts
  <2>3. PICK sent \in SUBSET Packet : sent = {m}
    OBVIOUS
  <2>4. Deliver(net, sent)
    BY <2>2, <2>3 DEF Restart
  <2> QED BY <1>1, <1>2, <2>2, <2>3, <2>4, DeliverSound
<1>8. PairingTypeOK'
  BY <1>1, <1>2, <1>5, <1>6, <1>7 DEF PairingTypeOK, ButtonState
<1>9. AllStored'
  <2>1. ListStored(<<>>, nv'[b], addr')
    BY <1>4 DEF ListStored
  <2>2. \A x \in Button : x # b => ListStored(btn'[x].list, nv'[x], addr')
    BY <1>1, <1>2, <1>5 DEF AllStored
  <2> QED BY <1>5, <2>1, <2>2 DEF AllStored
<1> QED BY <1>1, <1>2, <1>7, <1>8, <1>9 DEF PairInv, ListingEnds

LEMMA RejoinKeeps ==
  ASSUME PairInv, NEW n \in Unit, Rejoin(n) PROVE PairInv'
<1>1. PairingTypeOK /\ NetSound /\ AllStored /\ ListingEnds
  BY DEF PairInv
<1>2. UNCHANGED <<btn, ev, nv, pairs, cev, asked>> /\ Movers # {}
  BY DEF Rejoin
<1>3. PICK a \in Addr \ {addr[k] : k \in Unit} :
         /\ addr' = [addr EXCEPT ![n] = a]
         /\ Deliver(net, IF n \in Button THEN {Configuration(n, a)} ELSE {})
  BY DEF Rejoin
<1>4. addr' \in [Unit -> Addr] /\ IsInjective(addr')
  <2>1. addr \in [Unit -> Addr] /\ IsInjective(addr)
    BY <1>1, PairingTypes
  <2>2. \A k \in Unit : addr'[k] = IF k = n THEN a ELSE addr[k]
    BY <1>3, <2>1
  <2>3. \A k, l \in Unit : addr[k] = addr[l] => k = l
    BY <2>1 DEF IsInjective
  <2>4. \A k, l \in Unit : addr'[k] = addr'[l] => k = l
    BY <1>3, <2>2, <2>3
  <2>5. addr' \in [Unit -> Addr]
    BY <1>3, <2>1
  <2> QED BY <2>4, <2>5 DEF IsInjective
<1>5. net' \subseteq Packet /\ NetSound'
  <2>1. PICK sent \in SUBSET Packet : Deliver(net, sent) /\ \A m \in sent : Genuine(m, addr')
    <3>1. CASE n \in Button
      <4>1. {Configuration(n, a)} \in SUBSET Packet /\ Genuine(Configuration(n, a), addr')
        BY <1>1, <1>3, <3>1, ConfigurationFacts
      <4> QED BY <1>3, <3>1, <4>1
    <3>2. CASE n \notin Button
      BY <1>3, <3>2
    <3> QED BY <3>1, <3>2
  <2> QED BY <1>1, <1>2, <2>1, DeliverSound
<1>6. PairingTypeOK'
  BY <1>1, <1>2, <1>4, <1>5 DEF PairingTypeOK
<1>7. AllStored'
  BY <1>1, <1>2 DEF AllStored, ListStored
<1> QED BY <1>1, <1>2, <1>5, <1>6, <1>7 DEF PairInv, ListingEnds

LEMMA PairCBKeeps ==
  ASSUME PairInv, NEW b \in Button, PairCB(b) \/ Expire(b) PROVE PairInv'
<1>1. PairingTypeOK /\ NetSound /\ AllStored /\ ListingEnds
  BY DEF PairInv
<1>2. UNCHANGED <<addr, net, nv, pairs, cev, asked>>
  BY DEF PairCB, Expire
<1>3. ev' \in [Button -> EventState]
  BY <1>1, EventTypes, PairingTypes DEF PairCB, Expire
<1>4. /\ btn' \in [Button -> ButtonState]
      /\ \A x \in Button : btn'[x].list = btn[x].list
  <2>1. CASE Expire(b)
    BY <1>1, <2>1, PairingTypes DEF Expire
  <2>2. CASE PairCB(b)
    BY <1>1, <2>2, PairingTypes DEF PairCB, ButtonState
  <2> QED BY <2>1, <2>2
<1>5. PairingTypeOK' /\ NetSound'
  BY <1>1, <1>2, <1>3, <1>4 DEF PairingTypeOK, ButtonState, NetSound
<1>6. AllStored'
  BY <1>1, <1>2, <1>4, ListsUnchanged
<1> QED BY <1>1, <1>2, <1>5, <1>6 DEF PairInv, ListingEnds

(* A device that a button is told of is listed by its own name, or by the *)
(* address it had when it said so.                                        *)
LEMMA EntryFacts ==
  ASSUME PairingTypeOK, NEW m \in Packet, Genuine(m, addr), m.op \in {"pairreg", "match"},
         NEW remote \in BOOLEAN, NEW coord \in BOOLEAN, NEW d \in m.macs
  PROVE  /\ d \in Device
         /\ Entry(m, remote, coord) \in ListEntry
         /\ Entry(m, remote, coord).remote => Entry(m, remote, coord).dst = d
         /\ Movers = {} => (~Entry(m, remote, coord).remote =>
                               addr[d] = Entry(m, remote, coord).dst)
<1>1. PICK dev \in Device : m.macs = {dev} /\ (Movers = {} => m.addr = addr[dev])
  BY DEF Genuine
<1>2. d = dev /\ m.addr \in Addr
  BY <1>1 DEF Genuine
<1>3. (CHOOSE x \in m.macs : TRUE) = d
  BY <1>1, <1>2
<1>4. CASE remote
  <2>1. Entry(m, remote, coord) = [coord |-> coord, remote |-> TRUE, dst |-> d]
    BY <1>3, <1>4 DEF Entry
  <2> QED BY <1>2, <2>1 DEF ListEntry
<1>5. CASE ~remote
  <2>1. Entry(m, remote, coord) = [coord |-> coord, remote |-> FALSE, dst |-> m.addr]
    BY <1>5 DEF Entry
  <2> QED BY <1>1, <1>2, <2>1 DEF ListEntry
<1> QED BY <1>4, <1>5

LEMMA ButtonReceivesKeeps ==
  ASSUME PairInv, NEW b \in Button, NEW m \in net, ButtonReceives(b, m)
  PROVE  /\ btn' \in [Button -> ButtonState]
         /\ nv' \in [Button -> SUBSET Device]
         /\ ev' \in [Button -> EventState]
         /\ \A x \in Button : ListStored(btn'[x].list, nv'[x], addr)
<1>1. /\ PairingTypeOK /\ m \in Packet /\ Genuine(m, addr)
      /\ \A x \in Button : ListStored(btn[x].list, nv[x], addr)
      /\ btn \in [Button -> ButtonState] /\ nv \in [Button -> SUBSET Device]
      /\ ev \in [Button -> EventState]
  BY PairingTypes DEF PairInv, NetSound, AllStored
<1>2. CASE m.op = "cfgr"
  <2>1. btn' = [btn EXCEPT ![b].coord = TRUE] /\ UNCHANGED <<ev, nv>>
    BY <1>2 DEF ButtonReceives
  <2>2. /\ btn' \in [Button -> ButtonState]
        /\ \A x \in Button : btn'[x].list = btn[x].list
    BY <1>1, <2>1 DEF ButtonState
  <2> QED BY <1>1, <2>1, <2>2
<1>3. CASE m.op = "pairreg" /\ btn[b].allow
  <2>1. PICK c \in BOOLEAN : c = btn[b].coord
    BY <1>1 DEF ButtonState
  <2>2. PICK d \in m.macs : Bind(b, d, Entry(m, FALSE, c))
    BY <1>3, <2>1 DEF ButtonReceives
  <2>3. PICK e : e = Entry(m, FALSE, c)
    OBVIOUS
  <2>4. /\ d \in Device /\ e \in ListEntry /\ (e.remote => e.dst = d)
        /\ Movers = {} => (~e.remote => addr[d] = e.dst)
    BY <1>1, <1>3, <2>3, EntryFacts
  <2>5. /\ btn' \in [Button -> ButtonState] /\ nv' \in [Button -> SUBSET Device]
        /\ \A x \in Button : ListStored(btn'[x].list, nv'[x], addr)
    BY <2>2, <2>3, <2>4, BindSound
  <2>6. ev' \in [Button -> EventState]
    <3>1. Update(ev[b], TRUE, TRUE) \in EventState
      BY <1>1, EventTypes
    <3>2. ev' = ev \/ ev' = [ev EXCEPT ![b] = Update(@, TRUE, TRUE)]
      BY <1>3 DEF ButtonReceives
    <3> QED BY <1>1, <3>1, <3>2
  <2> QED BY <2>5, <2>6
<1>4. CASE m.op = "match"
  <2>1. PICK c \in BOOLEAN : c = ~btn[b].coord
    OBVIOUS
  <2>2. PICK d \in m.macs : Bind(b, d, Entry(m, c, TRUE))
    BY <1>4, <2>1 DEF ButtonReceives
  <2>3. PICK e : e = Entry(m, c, TRUE)
    OBVIOUS
  <2>4. /\ d \in Device /\ e \in ListEntry /\ (e.remote => e.dst = d)
        /\ Movers = {} => (~e.remote => addr[d] = e.dst)
    BY <1>1, <1>4, <2>3, EntryFacts
  <2>5. /\ btn' \in [Button -> ButtonState] /\ nv' \in [Button -> SUBSET Device]
        /\ \A x \in Button : ListStored(btn'[x].list, nv'[x], addr)
    BY <2>2, <2>3, <2>4, BindSound
  <2>6. ev' = ev
    BY <1>4 DEF ButtonReceives
  <2> QED BY <1>1, <2>5, <2>6
<1>5. CASE UNCHANGED <<btn, ev, nv>>
  BY <1>1, <1>5
<1> QED BY <1>2, <1>3, <1>4, <1>5 DEF ButtonReceives

-----------------------------------------------------------------------------
(* The device, the connector and the host *)

LEMMA DeviceFacts ==
  ASSUME PairingTypeOK, NEW d \in Device, NEW to \in Addr \cup {Connector},
         NEW op \in {"pairreg", "match"}
  PROVE  /\ Message(op, to, {d}, addr[d]) \in Packet
         /\ Genuine(Message(op, to, {d}, addr[d]), addr)
<1>1. addr[d] \in Addr /\ {d} \in SUBSET Unit
  BY PairingTypes
<1> QED BY <1>1 DEF Message, Packet, Genuine

(* A message that says nothing of a device. *)
LEMMA PlainFacts ==
  ASSUME NEW op \in {"cfgr", "devreg"}, NEW to \in Addr \cup {Connector}
  PROVE  /\ Message(op, to, {}, Connector) \in Packet
         /\ \A where : Genuine(Message(op, to, {}, Connector), where)
BY DEF Message, Packet, Genuine

(* What is passed on says what it said before. *)
LEMMA PassedOn ==
  ASSUME NEW m \in Packet, Genuine(m, addr), m.op \in {"pairreg", "match"},
         NEW to \in Addr
  PROVE  /\ Message(m.op, to, m.macs, m.addr) \in Packet
         /\ Genuine(Message(m.op, to, m.macs, m.addr), addr)
BY DEF Message, Packet, Genuine

(* The steps that only exchange messages. *)
LEMMA ExchangeKeeps ==
  ASSUME PairInv, UNCHANGED <<addr, btn, ev, nv, pairs, cev, asked>>,
         NEW kept \in SUBSET net, NEW sent \in SUBSET Packet, Deliver(kept, sent),
         \A m \in sent : Genuine(m, addr)
  PROVE  PairInv'
<1>1. PairingTypeOK /\ NetSound /\ AllStored /\ ListingEnds
  BY DEF PairInv
<1>2. net' \subseteq Packet /\ NetSound'
  BY <1>1, DeliverSound
<1>3. PairingTypeOK' /\ AllStored'
  BY <1>1, <1>2 DEF PairingTypeOK, AllStored
<1> QED BY <1>1, <1>2, <1>3 DEF PairInv, ListingEnds

LEMMA DeviceKeyKeeps ==
  ASSUME PairInv, NEW d \in Device, DeviceKey(d) PROVE PairInv'
<1>1. PICK m \in Packet : m = Message("pairreg", Connector, {d}, addr[d]) /\ Genuine(m, addr)
  BY DeviceFacts DEF PairInv
<1>2. PICK sent \in SUBSET Packet : sent = {m}
  OBVIOUS
<1>3. Deliver(net, sent) /\ UNCHANGED <<addr, btn, ev, nv, pairs, cev, asked>>
  BY <1>1, <1>2 DEF DeviceKey
<1> QED BY <1>1, <1>2, <1>3, ExchangeKeeps

LEMMA ToUnitKeeps ==
  ASSUME PairInv, NEW m \in net, ToUnit(m) PROVE PairInv'
<1>1. PairingTypeOK /\ NetSound /\ AllStored /\ ListingEnds
  BY DEF PairInv
<1>2. UNCHANGED <<addr, pairs, cev, asked>>
  BY DEF ToUnit
<1>3. PICK kept \in SUBSET net : kept = net \ {m}
  OBVIOUS
<1>4. ASSUME NEW b \in Button, ButtonReceives(b, m), Deliver(kept, {}) PROVE PairInv'
  <2>1. /\ btn' \in [Button -> ButtonState]
        /\ nv' \in [Button -> SUBSET Device]
        /\ ev' \in [Button -> EventState]
        /\ \A x \in Button : ListStored(btn'[x].list, nv'[x], addr)
    BY <1>4, ButtonReceivesKeeps
  <2>2. net' \subseteq Packet /\ NetSound'
    BY <1>1, <1>2, <1>4, DeliverSound
  <2>3. PairingTypeOK'
    BY <1>1, <1>2, <2>1, <2>2 DEF PairingTypeOK, ButtonState
  <2>4. AllStored'
    BY <1>2, <2>1 DEF AllStored
  <2> QED BY <1>1, <1>2, <2>2, <2>3, <2>4 DEF PairInv, ListingEnds
<1>5. ASSUME NEW d \in Device, DeviceReceives(d, m), UNCHANGED <<btn, ev, nv>>
      PROVE  PairInv'
  <2>1. Connector \in Addr \cup {Connector}
    OBVIOUS
  <2>2. PICK answer \in Packet :
          answer = Message("match", Connector, {d}, addr[d]) /\ Genuine(answer, addr)
    BY <1>1, <2>1, DeviceFacts
  <2>3. PICK sent \in SUBSET Packet : Deliver(kept, sent) /\ sent \subseteq {answer}
    BY <1>3, <1>5, <2>2 DEF DeviceReceives
  <2> QED BY <1>2, <1>5, <2>2, <2>3, ExchangeKeeps
<1>6. ASSUME Deliver(kept, {}), UNCHANGED <<btn, ev, nv>>
      PROVE  PairInv'
  BY <1>2, <1>6, ExchangeKeeps
<1> QED BY <1>3, <1>4, <1>5, <1>6 DEF ToUnit

LEMMA ConfigureKeeps ==
  ASSUME PairInv, NEW m \in net, Configure(m) PROVE PairInv'
<1>1. PairingTypeOK /\ NetSound /\ AllStored /\ ListingEnds /\ m \in Packet
  BY PairingTypes DEF PairInv
<1>2. UNCHANGED <<addr, btn, ev, nv, pairs, cev>>
  BY DEF Configure
<1>3. PICK r \in Packet : r = Message("cfgr", m.addr, {}, Connector) /\ Genuine(r, addr')
  BY <1>1, PlainFacts DEF Packet
<1>4. PICK kept \in SUBSET net, sent \in SUBSET Packet : kept = net \ {m} /\ sent = {r}
  OBVIOUS
<1>5. Deliver(kept, sent)
  BY <1>3, <1>4 DEF Configure
<1>6. net' \subseteq Packet /\ NetSound'
  BY <1>1, <1>2, <1>3, <1>4, <1>5, DeliverSound
<1>7. asked' \in [Button -> SUBSET Device]
  <2>1. m.macs \ Button \in SUBSET Device
    BY <1>1 DEF Packet, Unit
  <2> QED BY <1>1, <2>1, PairingTypes DEF Configure
<1>8. PairingTypeOK' /\ AllStored'
  BY <1>1, <1>2, <1>6, <1>7 DEF PairingTypeOK, AllStored
<1> QED BY <1>1, <1>2, <1>6, <1>8 DEF PairInv, ListingEnds

LEMMA PairKeeps ==
  ASSUME PairInv, NEW m \in net, Pair(m) PROVE PairInv'
<1>1. /\ PairingTypeOK /\ NetSound /\ AllStored /\ ListingEnds /\ m \in Packet
      /\ Genuine(m, addr) /\ m.op = "pair"
  BY PairingTypes DEF PairInv, NetSound, Pair
<1>2. UNCHANGED <<addr, btn, ev, nv, asked>>
  BY DEF Pair
<1>3. PICK kept \in SUBSET net : kept = net \ {m}
  OBVIOUS
<1>4. net' \subseteq Packet /\ NetSound'
  BY <1>1, <1>2, <1>3, DeliverSound DEF Pair
<1>5. cev' \in EventState
  BY <1>1, EventTypes, PairingTypes DEF Pair
<1>6. pairs' \in Seq(Listing)
  <2>1. PICK b \in m.macs :
          LET p == [mac |-> b, nwk |-> m.addr]
          IN  pairs' = IF Positions(b) = {} THEN Append(pairs, p)
                       ELSE [i \in 1..Len(pairs) |->
                               IF i = Min(Positions(b)) THEN p ELSE pairs[i]]
    BY DEF Pair
  <2>2. PICK p \in Listing : p = [mac |-> b, nwk |-> m.addr]
    BY <1>1 DEF Genuine, Listing
  <2>3. pairs \in Seq(Listing)
    BY <1>1, PairingTypes
  <2>4. PICK k : k = Min(Positions(b))
    OBVIOUS
  <2>5. CASE pairs' = Append(pairs, p)
    BY <2>3, <2>5
  <2>6. CASE pairs' = [i \in 1..Len(pairs) |-> IF i = k THEN p ELSE pairs[i]]
    BY <2>3, <2>6
  <2> QED BY <2>1, <2>2, <2>4, <2>5, <2>6
<1>7. PairingTypeOK' /\ AllStored'
  BY <1>1, <1>2, <1>4, <1>5, <1>6 DEF PairingTypeOK, AllStored, Listing
<1>8. ListingEnds'
  <2>1. cev' = Update(cev, FALSE, TRUE) /\ cev \in EventState
    BY <1>1, PairingTypes DEF Pair
  <2> QED BY <2>1, ArmedAhead DEF ListingEnds
<1> QED BY <1>4, <1>7, <1>8 DEF PairInv

LEMMA PairRegKeeps ==
  ASSUME PairInv, NEW m \in net, PairReg(m) PROVE PairInv'
<1>1. /\ PairingTypeOK /\ NetSound /\ AllStored /\ ListingEnds /\ m \in Packet
      /\ Genuine(m, addr) /\ m.op = "pairreg"
  BY PairingTypes DEF PairInv, NetSound, PairReg
<1>2. UNCHANGED <<addr, btn, ev, nv, pairs, asked>>
  BY DEF PairReg
<1>3. net' \subseteq Packet /\ NetSound'
  <2> DEFINE passed == {Message("pairreg", p.nwk, m.macs, m.addr) : p \in ToSet(pairs)}
  <2>1. \A p \in ToSet(pairs) : p.nwk \in Addr
    <3>1. pairs \in Seq(Listing)
      BY <1>1, PairingTypes
    <3>2. ToSet(pairs) \subseteq Listing
      BY <3>1 DEF ToSet
    <3> QED BY <3>2 DEF Listing
  <2>2. passed \subseteq Packet /\ \A x \in passed : Genuine(x, addr)
    BY <1>1, <2>1, PassedOn
  <2>3. PICK kept \in SUBSET net : kept = net \ {m}
    OBVIOUS
  <2>4. Deliver(kept, passed)
    BY <2>3 DEF PairReg
  <2>5. PICK sent \in SUBSET Packet : sent = passed
    BY <2>2
  <2> HIDE DEF passed
  <2> QED BY <1>1, <1>2, <2>2, <2>4, <2>5, DeliverSound
<1>4. cev' \in EventState /\ ListingEnds'
  <2>1. CASE pairs = <<>>
    BY <1>1, <1>2, <2>1, PairingTypes DEF PairReg, ListingEnds
  <2>2. CASE pairs # <<>>
    <3>1. cev' = Update(cev, TRUE, TRUE)
      BY <2>2 DEF PairReg
    <3>2. cev' \in EventState
      BY <1>1, <3>1, EventTypes, PairingTypes
    <3>3. cev \in EventState
      BY <1>1, PairingTypes
    <3> QED BY <3>1, <3>2, <3>3, ArmedAhead DEF ListingEnds
  <2> QED BY <2>1, <2>2
<1>5. PairingTypeOK' /\ AllStored'
  BY <1>1, <1>2, <1>3, <1>4 DEF PairingTypeOK, AllStored
<1> QED BY <1>3, <1>4, <1>5 DEF PairInv

LEMMA ClearKeeps ==
  ASSUME PairInv, Clear \/ ClearExpires PROVE PairInv'
<1>1. /\ PairingTypeOK /\ NetSound /\ AllStored /\ ListingEnds
      /\ cev \in EventState /\ pairs \in Seq(Listing)
  BY PairingTypes DEF PairInv
<1>2. UNCHANGED <<addr, net, btn, ev, nv, asked>>
  BY DEF Clear, ClearExpires
<1>3. cev' \in EventState /\ pairs' \in Seq(Listing) /\ ListingEnds'
  <2>1. CASE ClearExpires
    <3>1. cev' = Expired(cev) /\ pairs' = pairs
      BY <2>1 DEF ClearExpires
    <3>2. cev' \in EventState
      BY <1>1, <3>1, EventTypes
    <3> QED BY <1>1, <3>1, <3>2 DEF Expired, EventState, ListingEnds
  <2>2. CASE Clear /\ cev.cnt > 0
    <3>1. cev' = Fired(cev) /\ pairs' = <<>>
      BY <2>2 DEF Clear
    <3> QED BY <1>1, <3>1, EventTypes DEF ListingEnds
  <2>3. CASE Clear /\ ~(cev.cnt > 0)
    <3>1. cev' = [cev EXCEPT !.bit = FALSE] /\ pairs' = pairs
      BY <2>3 DEF Clear
    <3>2. pairs = <<>>
      BY <1>1, <2>3 DEF ListingEnds
    <3> QED BY <1>1, <3>1, <3>2 DEF EventState, ListingEnds
  <2> QED BY <2>1, <2>2, <2>3
<1>4. PairingTypeOK' /\ NetSound' /\ AllStored'
  BY <1>1, <1>2, <1>3 DEF PairingTypeOK, Listing, NetSound, AllStored
<1> QED BY <1>3, <1>4 DEF PairInv

LEMMA AskKeeps ==
  ASSUME PairInv, NEW b \in Button, Ask(b) PROVE PairInv'
<1>1. PICK d \in asked[b] : Deliver(net, {Message("devreg", addr[d], {}, Connector)})
  BY DEF Ask
<1>2. addr[d] \in Addr
  BY PairingTypes DEF PairInv
<1>3. PICK m \in Packet : m = Message("devreg", addr[d], {}, Connector) /\ Genuine(m, addr)
  BY <1>2, PlainFacts
<1>4. PICK sent \in SUBSET Packet : sent = {m}
  OBVIOUS
<1>5. Deliver(net, sent) /\ UNCHANGED <<addr, btn, ev, nv, pairs, cev, asked>>
  BY <1>1, <1>3, <1>4 DEF Ask
<1> QED BY <1>3, <1>4, <1>5, ExchangeKeeps

LEMMA MatchKeeps ==
  ASSUME PairInv, NEW m \in net, Match(m) PROVE PairInv'
<1>1. /\ PairingTypeOK /\ NetSound /\ AllStored /\ ListingEnds /\ m \in Packet
      /\ Genuine(m, addr) /\ m.op = "match"
  BY PairingTypes DEF PairInv, NetSound, Match
<1>2. UNCHANGED <<addr, btn, ev, nv, pairs, cev>>
  BY DEF Match
<1>3. net' \subseteq Packet /\ NetSound'
  <2> DEFINE passed == {Message("match", addr[b], m.macs, m.addr) :
                          b \in {x \in Button : m.macs \subseteq asked[x]}}
  <2>1. \A b \in Button : addr[b] \in Addr
    BY <1>1, PairingTypes
  <2>2. passed \subseteq Packet /\ \A x \in passed : Genuine(x, addr)
    BY <1>1, <2>1, PassedOn
  <2>3. PICK kept \in SUBSET net : kept = net \ {m}
    OBVIOUS
  <2>4. Deliver(kept, passed)
    BY <2>3 DEF Match
  <2> QED BY <1>1, <1>2, <2>2, <2>4, DeliverSound
<1>4. asked' \in [Button -> SUBSET Device]
  BY <1>1, PairingTypes DEF Match
<1>5. PairingTypeOK' /\ AllStored'
  BY <1>1, <1>2, <1>3, <1>4 DEF PairingTypeOK, AllStored
<1> QED BY <1>1, <1>2, <1>3, <1>5 DEF PairInv, ListingEnds

LEMMA RemoteKeeps ==
  ASSUME PairInv, NEW m \in net, Remote(m) PROVE PairInv'
<1>1. PICK kept \in SUBSET net : kept = net \ {m}
  OBVIOUS
<1> QED BY <1>1, ExchangeKeeps DEF Remote

LEMMA PairStutter == ASSUME PairInv, UNCHANGED pairingVars PROVE PairInv'
<1>1. UNCHANGED <<addr, net, btn, ev, nv, pairs, cev, asked>>
  BY DEF pairingVars
<1> QED BY <1>1 DEF PairInv, PairingTypeOK, NetSound, AllStored, ListingEnds

(* No key, no message, however late, and no execution of an event leaves a  *)
(* button listed for ever, or with a list that it could not ask for again.  *)
THEOREM PairingInvariant == PairingSpec => []PairInv
<1>1. PairingInit => PairInv
  BY PairInit
<1>2. PairInv /\ [PairingNext]_pairingVars => PairInv'
  <2> SUFFICES ASSUME PairInv, [PairingNext]_pairingVars PROVE PairInv'
    OBVIOUS
  <2>1. CASE UNCHANGED pairingVars
    BY <2>1, PairStutter
  <2>2. ASSUME NEW b \in Button,
               PairKey(b) \/ Push(b) \/ ResetKey(b) \/ Restart(b)
        PROVE  PairInv'
    BY <2>2, PairKeyKeeps, PushKeeps, ResetKeyKeeps, RestartKeeps
  <2>3. ASSUME NEW d \in Device, DeviceKey(d) PROVE PairInv'
    BY <2>3, DeviceKeyKeeps
  <2>4. ASSUME NEW n \in Unit, Rejoin(n) PROVE PairInv'
    BY <2>4, RejoinKeeps
  <2>5. ASSUME NEW b \in Button, PairCB(b) \/ Expire(b) \/ Ask(b) PROVE PairInv'
    BY <2>5, PairCBKeeps, AskKeeps
  <2>6. ASSUME NEW m \in net,
               ToUnit(m) \/ Configure(m) \/ Pair(m) \/ PairReg(m) \/ Match(m) \/ Remote(m)
        PROVE  PairInv'
    BY <2>6, ToUnitKeeps, ConfigureKeeps, PairKeeps, PairRegKeeps, MatchKeeps, RemoteKeeps
  <2>7. CASE Clear \/ ClearExpires
    BY <2>7, ClearKeeps
  <2> QED BY <2>1, <2>2, <2>3, <2>4, <2>5, <2>6, <2>7 DEF PairingNext, Keys
<1> QED BY <1>1, <1>2, PTL DEF PairingSpec

(* The connector never keeps a button listed without an end. *)
THEOREM ListingTimed == PairingSpec => []ListingEnds
<1>1. PairInv => ListingEnds
  BY DEF PairInv
<1> QED BY <1>1, PairingInvariant, PTL

(* A button can ask for all it sends to again after a restart. *)
THEOREM StoredAgain == PairingSpec => []BoundIsStored
<1>1. PairInv => BoundIsStored
  BY Zenon DEF PairInv, AllStored, ListStored, BoundIsStored
<1> QED BY <1>1, PairingInvariant, PTL
-----------------------------------------------------------------------------
(* The bytes for the serial line *)

(* What the driver's variables say of the buffers: an order to send, the    *)
(* channel, its interrupt and the shadow exclude each other as they should. *)
BuffersApart ==
  /\ txPc = "copied" => txIdx[txSel] < top
  /\ txPc # "copied" => top = 0
  /\ txDMAPending => txIdx[txSel] # 0 /\ txIdx[Other(txSel)] = 0
  /\ dma.armed \/ irq => txIdx[Other(txSel)] # 0
  /\ txShdw.valid => txIdx[Other(txSel)] = 0
  /\ dma.armed => /\ ~irq /\ dma.from = Other(txSel)
                  /\ dma.len = txIdx[Other(txSel)] /\ dma.next <= dma.len
  /\ dma.trig => dma.armed /\ udbuf = None

(* The last byte of a buffer has left the register before the shadow is    *)
(* dropped: the time measured since then and the rest of the character     *)
(* before it are together no more than a character's time.                 *)
LastByteLeaves ==
  txIdx[Other(txSel)] = 0 /\ udbuf # None =>
    txShdw.valid /\ shift.left + txShdw.ago <= TxTick

TxInv == TxTypeOK /\ BuffersApart /\ LastByteLeaves

LEMMA TxTypes ==
  ASSUME TxTypeOK
  PROVE  /\ TX_MAX \in Nat \ {0} /\ TxTick \in Nat \ {0} /\ ST0_MOD \in Nat \ {0}
         /\ LastByte \in Nat \ {0} /\ ST0_MOD > TxTick + 1 /\ TxTick > 1
         /\ None \notin Byte /\ 0 \in Byte
         /\ Other(txSel) \in Buffer /\ Other(Other(txSel)) = txSel /\ Other(txSel) # txSel
         /\ \A b \in Buffer : b # txSel => b = Other(txSel)
         /\ \A b \in Buffer : txIdx[b] \in 0..TX_MAX /\ txBuf[b] \in [1..TX_MAX -> Byte]
         /\ dma.armed \in BOOLEAN /\ dma.trig \in BOOLEAN /\ dma.from \in Buffer
         /\ dma.next \in 1..TX_MAX /\ dma.len \in 0..TX_MAX
         /\ txShdw.valid \in BOOLEAN /\ txShdw.ago \in 0..(ST0_MOD - 1)
         /\ shift.left \in 0..TxTick /\ shift.byte \in Byte \cup {None}
<1>1. /\ TX_MAX \in Nat \ {0} /\ TxTick \in Nat \ {0} /\ ST0_MOD \in Nat \ {0}
      /\ LastByte \in Nat \ {0} /\ ST0_MOD > TxTick + 1 /\ TxTick > 1
  BY UartAssumption DEF UartAssumption
<1>2. None \notin Byte /\ 0 \in Byte
  BY <1>1 DEF None, Byte
<1>3. /\ Other(txSel) \in Buffer /\ Other(Other(txSel)) = txSel /\ Other(txSel) # txSel
      /\ \A b \in Buffer : b # txSel => b = Other(txSel)
  BY DEF TxTypeOK, Buffer, Other
<1>4. \A b \in Buffer : txIdx[b] \in 0..TX_MAX /\ txBuf[b] \in [1..TX_MAX -> Byte]
  BY DEF TxTypeOK
<1>5. /\ dma.armed \in BOOLEAN /\ dma.trig \in BOOLEAN /\ dma.from \in Buffer
      /\ dma.next \in 1..TX_MAX /\ dma.len \in 0..TX_MAX
      /\ txShdw.valid \in BOOLEAN /\ txShdw.ago \in 0..(ST0_MOD - 1)
      /\ shift.left \in 0..TxTick /\ shift.byte \in Byte \cup {None}
  BY DEF TxTypeOK
<1> QED BY <1>1, <1>2, <1>3, <1>4, <1>5

LEMMA TxInitially == ASSUME TxInit PROVE TxInv
<1>1. /\ TX_MAX \in Nat \ {0} /\ TxTick \in Nat \ {0} /\ ST0_MOD \in Nat \ {0}
      /\ LastByte \in Nat \ {0}
  BY UartAssumption DEF UartAssumption
<1>2. TxTypeOK
  <2>1. 0 \in Byte /\ None \in Byte \cup {None} /\ 0 \in Buffer /\ 1 \in 1..TX_MAX
    BY <1>1 DEF Byte, Buffer
  <2>2. txBuf \in [Buffer -> [1..TX_MAX -> Byte]]
    BY <2>1 DEF TxInit
  <2>3. /\ txPc \in {"idle", "copied", "polled"} /\ top \in 0..TX_MAX
        /\ txIdx \in [Buffer -> 0..TX_MAX] /\ txSel \in Buffer
    BY <1>1, <2>1 DEF TxInit
  <2>6. txDMAPending \in BOOLEAN /\ irq \in BOOLEAN
    BY DEF TxInit
  <2>4. /\ txShdw \in [valid : BOOLEAN, ago : 0..(ST0_MOD - 1)]
        /\ dma \in [armed : BOOLEAN, trig : BOOLEAN, from : Buffer, next : 1..TX_MAX,
                    len : 0..TX_MAX]
    BY <1>1, <2>1 DEF TxInit
  <2>5. /\ udbuf \in Byte \cup {None} /\ written \in Byte
        /\ shift \in [byte : Byte \cup {None}, left : 0..TxTick]
    BY <1>1, <2>1 DEF TxInit
  <2> QED BY <2>2, <2>3, <2>4, <2>5, <2>6 DEF TxTypeOK
<1>3. BuffersApart
  BY <1>2, TxTypes DEF TxInit, BuffersApart
<1>4. LastByteLeaves
  BY DEF TxInit, LastByteLeaves
<1> QED BY <1>2, <1>3, <1>4 DEF TxInv

(* The block that is copied is outside of what the channel reads. *)
LEMMA CopyFacts ==
  ASSUME TxInv, Copy
  PROVE  /\ txBuf' \in [Buffer -> [1..TX_MAX -> Byte]]
         /\ txBuf'[Other(txSel)] = txBuf[Other(txSel)]
         /\ \A i \in 1..txIdx[txSel] : txBuf'[txSel][i] = txBuf[txSel][i]
         /\ top' \in txIdx[txSel] + 1..TX_MAX
         /\ written' \in Byte
<1>1. PICK len \in 1..(TX_MAX - txIdx[txSel]) :
        /\ txBuf' = [txBuf EXCEPT ![txSel] =
                       [i \in 1..TX_MAX |->
                          IF i \in (txIdx[txSel] + 1)..(txIdx[txSel] + len)
                          THEN (written + i - txIdx[txSel] - 1) % (LastByte + 1) ELSE @[i]]]
        /\ top' = txIdx[txSel] + len
        /\ written' = (written + len) % (LastByte + 1)
  BY DEF Copy
<1>2. /\ TX_MAX \in Nat \ {0} /\ LastByte \in Nat \ {0}
      /\ txIdx[txSel] \in 0..TX_MAX /\ txBuf[txSel] \in [1..TX_MAX -> Byte]
      /\ Other(txSel) \in Buffer /\ Other(txSel) # txSel /\ txSel \in Buffer
      /\ txBuf \in [Buffer -> [1..TX_MAX -> Byte]] /\ written \in 0..LastByte
  BY TxTypes DEF TxInv, TxTypeOK, Byte
<1>3. PICK n \in 0..TX_MAX : n = txIdx[txSel]
  BY <1>2
<1>4. ASSUME NEW i \in n + 1..n + len
      PROVE  (written + i - n - 1) % (LastByte + 1) \in Byte
  <2>1. PICK x \in Nat : x = written + i - n - 1
    BY <1>2, <1>3
  <2>2. x % (LastByte + 1) \in 0..LastByte
    BY <1>2
  <2> QED BY <2>1, <2>2 DEF Byte
<1>5. PICK block \in [1..TX_MAX -> Byte] :
        block = [i \in 1..TX_MAX |->
                   IF i \in n + 1..n + len
                   THEN (written + i - n - 1) % (LastByte + 1) ELSE txBuf[txSel][i]]
  BY <1>2, <1>4
<1>6. txBuf' = [txBuf EXCEPT ![txSel] = block]
  BY <1>1, <1>3, <1>5
<1>7. \A i \in 1..n : block[i] = txBuf[txSel][i]
  BY <1>2, <1>3, <1>5
<1>8. written' \in Byte
  BY <1>1, <1>2 DEF Byte
<1>9. top' \in n + 1..TX_MAX
  BY <1>1, <1>2, <1>3
<1> QED BY <1>2, <1>3, <1>6, <1>7, <1>8, <1>9

LEMMA CopyKeeps == ASSUME TxInv, Copy PROVE TxInv'
<1>1. TxTypeOK /\ BuffersApart /\ LastByteLeaves
  BY DEF TxInv
<1>2. /\ txPc' = "copied"
      /\ UNCHANGED <<txIdx, txSel, txDMAPending, txShdw, dma, irq, udbuf, shift>>
  BY DEF Copy
<1>3. TxTypeOK'
  <2>1. top' \in 0..TX_MAX
    BY <1>1, CopyFacts, TxTypes DEF TxTypeOK
  <2> QED BY <1>1, <1>2, <2>1, CopyFacts DEF TxTypeOK
<1>4. BuffersApart'
  <2>1. txIdx[txSel] < top'
    BY <1>1, CopyFacts, TxTypes DEF TxTypeOK
  <2> QED BY <1>1, <1>2, <2>1 DEF BuffersApart
<1>5. LastByteLeaves'
  BY <1>1, <1>2 DEF LastByteLeaves
<1> QED BY <1>3, <1>4, <1>5 DEF TxInv

LEMMA CommitKeeps == ASSUME TxInv, Commit PROVE TxInv'
<1>1. TxTypeOK /\ BuffersApart /\ LastByteLeaves
  BY DEF TxInv
<1>2. /\ txPc = "copied" /\ txPc' = "idle" /\ top' = 0 /\ top \in 0..TX_MAX
      /\ txIdx' = [txIdx EXCEPT ![txSel] = top]
      /\ txDMAPending' = (txDMAPending \/ txIdx[Other(txSel)] = 0)
      /\ UNCHANGED <<txBuf, txSel, txShdw, dma, irq, udbuf, shift, written>>
  BY <1>1 DEF Commit, TxTypeOK
<1>3. /\ txIdx' \in [Buffer -> 0..TX_MAX] /\ txIdx'[txSel] # 0
      /\ txIdx'[Other(txSel)] = txIdx[Other(txSel)]
  <2>1. txIdx \in [Buffer -> 0..TX_MAX] /\ txSel \in Buffer /\ top # 0
    BY <1>1, <1>2, TxTypes DEF TxTypeOK, BuffersApart
  <2>2. Other(txSel) \in Buffer /\ Other(txSel) # txSel
    BY <1>1, TxTypes
  <2> QED BY <1>2, <2>1, <2>2
<1>4. TxTypeOK'
  <2>1. 0 \in 0..TX_MAX
    BY <1>1, TxTypes
  <2> QED BY <1>1, <1>2, <1>3, <2>1 DEF TxTypeOK
<1>5. BuffersApart'
  BY <1>1, <1>2, <1>3 DEF BuffersApart
<1>6. LastByteLeaves'
  BY <1>1, <1>2, <1>3 DEF LastByteLeaves
<1> QED BY <1>4, <1>5, <1>6 DEF TxInv

(* The interrupt's function, called with the channel at rest *)
LEMMA TxDoneKeeps ==
  ASSUME TxInv, TxDone, ~dma.armed,
         txPc' \in {"idle", "copied", "polled"}, txPc' = "copied" <=> txPc = "copied",
         UNCHANGED <<top, txBuf, txSel, dma, udbuf, shift, written>>
  PROVE  TxInv'
<1>1. TxTypeOK /\ BuffersApart /\ LastByteLeaves
  BY DEF TxInv
<1>2. /\ irq' = FALSE
      /\ txIdx' = [txIdx EXCEPT ![Other(txSel)] = 0]
      /\ txShdw' = [valid |-> TRUE, ago |-> 0]
      /\ txDMAPending' = (txDMAPending \/ txIdx[txSel] # 0)
  BY DEF TxDone
<1>3. /\ txIdx' \in [Buffer -> 0..TX_MAX] /\ txIdx'[txSel] = txIdx[txSel]
      /\ txIdx'[Other(txSel)] = 0
  <2>1. txIdx \in [Buffer -> 0..TX_MAX] /\ txSel \in Buffer /\ TX_MAX \in Nat
    BY <1>1, TxTypes DEF TxTypeOK
  <2>2. Other(txSel) \in Buffer /\ Other(txSel) # txSel
    BY <1>1, TxTypes
  <2> QED BY <1>2, <2>1, <2>2
<1>4. TxTypeOK'
  <2>1. 0 \in 0..(ST0_MOD - 1)
    BY <1>1, TxTypes
  <2> QED BY <1>1, <1>2, <1>3, <2>1 DEF TxTypeOK
<1>5. BuffersApart'
  BY <1>1, <1>2, <1>3, TxTypes DEF BuffersApart
<1>6. LastByteLeaves'
  BY <1>1, <1>2, TxTypes DEF LastByteLeaves
<1> QED BY <1>4, <1>5, <1>6 DEF TxInv

LEMMA DmaIsrKeeps == ASSUME TxInv, DmaIsr PROVE TxInv'
<1>1. ~dma.armed
  BY DEF TxInv, BuffersApart, DmaIsr
<1>2. txPc' = txPc /\ txPc \in {"idle", "copied", "polled"}
  BY DEF DmaIsr, TxInv, TxTypeOK
<1> QED BY <1>1, <1>2, TxDoneKeeps DEF DmaIsr

LEMMA PollTimeKeeps == ASSUME TxInv, PollTime PROVE TxInv'
<1>1. TxTypeOK /\ BuffersApart /\ LastByteLeaves
  BY DEF TxInv
<1>2. /\ txPc = "idle" /\ txPc' = "polled"
      /\ txShdw' = IF Passed THEN [valid |-> FALSE, ago |-> 0] ELSE txShdw
      /\ UNCHANGED <<top, txBuf, txIdx, txSel, txDMAPending, dma, irq, udbuf, shift,
                     written>>
  BY DEF PollTime
<1>3. CASE ~Passed
  <2>1. txShdw' = txShdw
    BY <1>2, <1>3
  <2> QED BY <1>1, <1>2, <2>1 DEF TxInv, TxTypeOK, BuffersApart, LastByteLeaves
<1>4. CASE Passed
  <2>1. txShdw' = [valid |-> FALSE, ago |-> 0]
    BY <1>2, <1>4
  <2>2. TxTypeOK'
    BY <1>1, <1>2, <2>1, TxTypes DEF TxTypeOK
  <2>3. BuffersApart'
    BY <1>1, <1>2, <2>1 DEF BuffersApart
  <2>4. txIdx[Other(txSel)] # 0 \/ udbuf = None
    BY <1>1, <1>4, TxTypes DEF LastByteLeaves, Passed
  <2>5. LastByteLeaves'
    BY <1>2, <2>4 DEF LastByteLeaves
  <2> QED BY <2>2, <2>3, <2>5 DEF TxInv
<1> QED BY <1>3, <1>4

LEMMA PollFireKeeps == ASSUME TxInv, PollFire PROVE TxInv'
<1>1. TxTypeOK /\ BuffersApart /\ LastByteLeaves
  BY DEF TxInv
<1>2. /\ txPc = "polled" /\ txPc' = "idle"
      /\ txDMAPending /\ ~txShdw.valid /\ txDMAPending' = FALSE
      /\ dma' = [armed |-> TRUE, trig |-> TRUE, from |-> txSel, next |-> 1,
                 len |-> txIdx[txSel]]
      /\ txSel' = Other(txSel)
      /\ irq' = FALSE
      /\ UNCHANGED <<top, txBuf, txIdx, txShdw, udbuf, shift, written>>
  BY DEF PollFire, Fires
<1>3. /\ Other(txSel)' = txSel /\ txSel' \in Buffer
      /\ txIdx[txSel] \in 1..TX_MAX /\ txIdx[Other(txSel)] = 0 /\ udbuf = None
  <2>1. Other(Other(txSel)) = txSel
    BY <1>1, TxTypes
  <2>2. txIdx[txSel] \in 0..TX_MAX /\ TX_MAX \in Nat
    BY <1>1, TxTypes DEF TxTypeOK
  <2>3. txIdx[txSel] # 0 /\ txIdx[Other(txSel)] = 0 /\ udbuf = None
    BY <1>1, <1>2 DEF BuffersApart, LastByteLeaves
  <2> QED BY <1>1, <1>2, <2>1, <2>2, <2>3, TxTypes
<1>4. TxTypeOK'
  <2>1. 1 \in 1..TX_MAX /\ txIdx[txSel] \in 0..TX_MAX /\ txSel \in Buffer
    BY <1>1, <1>3, TxTypes DEF TxTypeOK
  <2> QED BY <1>1, <1>2, <1>3, <2>1 DEF TxTypeOK
<1>5. BuffersApart'
  BY <1>1, <1>2, <1>3 DEF BuffersApart
<1>6. LastByteLeaves'
  BY <1>2, <1>3 DEF LastByteLeaves
<1> QED BY <1>4, <1>5, <1>6 DEF TxInv

LEMMA PollIdleKeeps == ASSUME TxInv, PollIdle PROVE TxInv'
<1>1. /\ txPc = "polled" /\ txPc' = "idle"
      /\ UNCHANGED <<top, txBuf, txSel, dma, udbuf, shift, written>>
  BY DEF PollIdle
<1>2. CASE TxDone /\ ~dma.armed
  BY <1>1, <1>2, TxDoneKeeps
<1>3. CASE UNCHANGED <<irq, txIdx, txShdw, txDMAPending>>
  BY <1>1, <1>3 DEF TxInv, TxTypeOK, BuffersApart, LastByteLeaves
<1> QED BY <1>2, <1>3 DEF PollIdle

LEMMA DmaByteKeeps == ASSUME TxInv, DmaByte PROVE TxInv'
<1>1. TxTypeOK /\ BuffersApart /\ LastByteLeaves
  BY DEF TxInv
<1>2. /\ dma.trig /\ udbuf' = txBuf[dma.from][dma.next]
      /\ UNCHANGED <<txPc, top, txBuf, txIdx, txSel, txDMAPending, txShdw, shift, written>>
  BY DEF DmaByte, driver
<1>3. dma.armed /\ txIdx[Other(txSel)] # 0 /\ dma.next <= dma.len
  BY <1>1, <1>2 DEF BuffersApart
<1>4. udbuf' \in Byte
  BY <1>1, <1>2, TxTypes
<1>5. LastByteLeaves'
  BY <1>2, <1>3 DEF LastByteLeaves
<1>6. CASE dma.next = dma.len
  <2>1. dma' = [dma EXCEPT !.armed = FALSE, !.trig = FALSE] /\ irq' = TRUE
    BY <1>6 DEF DmaByte
  <2>2. TxTypeOK'
    BY <1>1, <1>2, <1>4, <2>1 DEF TxTypeOK
  <2>3. ~dma'.armed /\ ~dma'.trig
    BY <1>1, <2>1 DEF TxTypeOK
  <2>4. BuffersApart'
    BY <1>1, <1>2, <1>3, <2>1, <2>3 DEF BuffersApart
  <2> QED BY <1>5, <2>2, <2>4 DEF TxInv
<1>7. CASE dma.next # dma.len
  <2>1. dma' = [dma EXCEPT !.trig = FALSE, !.next = @ + 1] /\ irq' = irq
    BY <1>7 DEF DmaByte
  <2>2. dma.next + 1 \in 1..TX_MAX /\ dma.next + 1 <= dma.len
    BY <1>1, <1>3, <1>7, TxTypes
  <2>3. TxTypeOK'
    BY <1>1, <1>2, <1>4, <2>1, <2>2 DEF TxTypeOK
  <2>4. /\ dma'.armed = dma.armed /\ ~dma'.trig /\ dma'.from = dma.from
        /\ dma'.len = dma.len /\ dma'.next = dma.next + 1
    BY <1>1, <2>1 DEF TxTypeOK
  <2>5. BuffersApart'
    BY <1>1, <1>2, <1>3, <2>1, <2>2, <2>4 DEF BuffersApart
  <2> QED BY <1>5, <2>3, <2>5 DEF TxInv
<1> QED BY <1>6, <1>7

LEMMA LoadKeeps == ASSUME TxInv, Load PROVE TxInv'
<1>1. TxTypeOK /\ BuffersApart /\ LastByteLeaves
  BY DEF TxInv
<1>2. /\ udbuf # None /\ shift.byte = None /\ udbuf' = None
      /\ \E ticks \in {TxTick - 1, TxTick} : shift' = [byte |-> udbuf, left |-> ticks]
      /\ dma' = [dma EXCEPT !.trig = dma.armed]
      /\ UNCHANGED <<txPc, top, txBuf, txIdx, txSel, txDMAPending, txShdw, irq, written>>
  BY DEF Load, Loads, driver
<1>3. /\ dma'.armed = dma.armed /\ dma'.trig = dma.armed /\ dma'.from = dma.from
      /\ dma'.len = dma.len /\ dma'.next = dma.next
  BY <1>1, <1>2 DEF TxTypeOK
<1>4. TxTypeOK'
  <2>1. {TxTick - 1, TxTick} \subseteq 0..TxTick
    BY <1>1, TxTypes
  <2>2. shift' \in [byte : Byte \cup {None}, left : 0..TxTick]
    BY <1>1, <1>2, <2>1 DEF TxTypeOK
  <2>3. dma' \in [armed : BOOLEAN, trig : BOOLEAN, from : Buffer, next : 1..TX_MAX,
                  len : 0..TX_MAX]
    BY <1>1, <1>2 DEF TxTypeOK
  <2> QED BY <1>1, <1>2, <2>2, <2>3 DEF TxTypeOK
<1>5. BuffersApart'
  BY <1>1, <1>2, <1>3 DEF BuffersApart
<1>6. LastByteLeaves'
  BY <1>2 DEF LastByteLeaves
<1> QED BY <1>4, <1>5, <1>6 DEF TxInv

LEMMA SentKeeps == ASSUME TxInv, Sent PROVE TxInv'
<1>1. TxTypeOK /\ BuffersApart /\ LastByteLeaves
  BY DEF TxInv
<1>2. /\ shift' = [shift EXCEPT !.byte = None]
      /\ UNCHANGED <<txPc, top, txBuf, txIdx, txSel, txDMAPending, txShdw, dma, irq, udbuf,
                     written>>
  BY DEF Sent, driver
<1>3. shift'.left = shift.left
  BY <1>1, <1>2 DEF TxTypeOK
<1> QED BY <1>1, <1>2, <1>3 DEF TxInv, TxTypeOK, BuffersApart, LastByteLeaves

LEMMA TickKeeps == ASSUME TxInv, Tick PROVE TxInv'
<1>1. TxTypeOK /\ BuffersApart /\ LastByteLeaves
  BY DEF TxInv
<1>2. /\ ~(shift.byte # None /\ shift.left = 0) /\ ~(udbuf # None /\ shift.byte = None)
      /\ txShdw' = [txShdw EXCEPT !.ago = IF txShdw.valid THEN (@ + 1) % ST0_MOD ELSE 0]
      /\ shift' = [shift EXCEPT !.left = IF @ = 0 THEN 0 ELSE @ - 1]
      /\ UNCHANGED <<txPc, top, txBuf, txIdx, txSel, txDMAPending, dma, irq, udbuf, written>>
  BY DEF Tick, Loads
<1>3. PICK a \in 0..(ST0_MOD - 1) :
        a = IF txShdw.valid THEN (txShdw.ago + 1) % ST0_MOD ELSE 0
  BY <1>1, TxTypes
<1>4. PICK l \in 0..TxTick : l = IF shift.left = 0 THEN 0 ELSE shift.left - 1
  BY <1>1, TxTypes
<1>5. /\ txShdw' = [txShdw EXCEPT !.ago = a] /\ shift' = [shift EXCEPT !.left = l]
      /\ txShdw'.valid = txShdw.valid /\ txShdw'.ago = a /\ shift'.left = l
  BY <1>1, <1>2, <1>3, <1>4 DEF TxTypeOK
<1>6. TxTypeOK'
  BY <1>1, <1>2, <1>5 DEF TxTypeOK
<1>7. BuffersApart'
  BY <1>1, <1>2, <1>5 DEF BuffersApart
<1>8. LastByteLeaves'
  <2>1. SUFFICES ASSUME txIdx[Other(txSel)] = 0, udbuf # None
                 PROVE  txShdw'.valid /\ shift'.left + txShdw'.ago <= TxTick
    BY <1>2 DEF LastByteLeaves
  <2>2. txShdw.valid /\ shift.left + txShdw.ago <= TxTick /\ shift.left # 0
    BY <1>1, <1>2, <2>1 DEF LastByteLeaves
  <2>3. txShdw.ago + 1 \in 0..(ST0_MOD - 1) /\ ST0_MOD \in Nat \ {0} /\ TxTick \in Nat
    BY <1>1, <2>2, TxTypes
  <2>4. a = txShdw.ago + 1 /\ l = shift.left - 1
    BY <1>3, <1>4, <2>2, <2>3
  <2> QED BY <1>1, <1>5, <2>2, <2>4, TxTypes
<1> QED BY <1>6, <1>7, <1>8 DEF TxInv

LEMMA TxStep == ASSUME TxInv, [TxNext]_txVars PROVE TxInv'
<1>1. CASE UNCHANGED txVars
  BY <1>1 DEF txVars, driver, TxInv, TxTypeOK, BuffersApart, LastByteLeaves
<1> QED BY <1>1, CopyKeeps, CommitKeeps, DmaIsrKeeps, PollTimeKeeps, PollFireKeeps,
           PollIdleKeeps, DmaByteKeeps, LoadKeeps, SentKeeps, TickKeeps
        DEF TxNext, Poll, Hardware

-----------------------------------------------------------------------------
(* What is unsent: in the line, in the register, with the channel, and in   *)
(* the buffer that is filled                                                *)
OnLine == Held(shift.byte)
InRegister == Held(udbuf)
InChannel == IF dma.armed THEN SubSeq(txBuf[dma.from], dma.next, dma.len) ELSE <<>>
Filled == SubSeq(txBuf[txSel], 1, IF txPc = "copied" THEN top ELSE txIdx[txSel])

(* The beginning of a buffer, and its rest *)
LEMMA BufferParts ==
  ASSUME NEW S, NEW n \in Nat, NEW f \in [1..n -> S], NEW i \in 1..n + 1, NEW j \in 0..n
  PROVE  /\ f \in Seq(S) /\ Len(f) = n
         /\ SubSeq(f, i, j) \in Seq(S)
         /\ Len(SubSeq(f, i, j)) = IF i <= j THEN j - i + 1 ELSE 0
         /\ \A k \in 1..j - i + 1 : SubSeq(f, i, j)[k] = f[i + k - 1]
         /\ i > j => SubSeq(f, i, j) = <<>>
         /\ i <= j => SubSeq(f, i, j) = <<f[i]>> \o SubSeq(f, i + 1, j)
<1>1. f \in Seq(S) /\ Len(f) = n
  OBVIOUS
<1>2. \A k \in i..j : f[k] \in S
  OBVIOUS
<1>3. i \in Int /\ j \in Int
  OBVIOUS
<1>4. /\ SubSeq(f, i, j) \in Seq(S)
      /\ Len(SubSeq(f, i, j)) = IF i <= j THEN j - i + 1 ELSE 0
      /\ \A k \in 1..j - i + 1 : SubSeq(f, i, j)[k] = f[i + k - 1]
  BY <1>2, <1>3, SubSeqProperties
<1>5. i > j => SubSeq(f, i, j) = <<>>
  BY <1>3, SubSeqEmpty
<1>6. i <= j => SubSeq(f, i, j) = <<f[i]>> \o SubSeq(f, i + 1, j)
  <2>1. SUFFICES ASSUME i <= j PROVE SubSeq(f, i, j) = <<f[i]>> \o SubSeq(f, i + 1, j)
    OBVIOUS
  <2>2. i \in 1..Len(f) /\ j \in i..Len(f)
    BY <1>1, <2>1
  <2> QED BY <1>1, <2>2, SubSeqRecursiveFirst
<1> QED BY <1>1, <1>4, <1>5, <1>6

LEMMA Beginning ==
  ASSUME NEW S, NEW n \in Nat, NEW f \in [1..n -> S], NEW j \in 0..n
  PROVE  /\ SubSeq(f, 1, j) \in Seq(S) /\ Len(SubSeq(f, 1, j)) = j
         /\ \A k \in 1..j : SubSeq(f, 1, j)[k] = f[k]
<1>1. \A k \in 1..j : f[k] \in S
  OBVIOUS
<1>2. /\ SubSeq(f, 1, j) \in Seq(S)
      /\ Len(SubSeq(f, 1, j)) = IF 1 <= j THEN j - 1 + 1 ELSE 0
      /\ \A k \in 1..j - 1 + 1 : SubSeq(f, 1, j)[k] = f[1 + k - 1]
  BY <1>1, SubSeqProperties
<1> QED BY <1>2

LEMMA UnsentIs ==
  /\ unsent = ((OnLine \o InRegister) \o InChannel) \o Filled
  /\ unsent' = ((OnLine' \o InRegister') \o InChannel') \o Filled'
BY Zenon DEF unsent, OnLine, InRegister, InChannel, Filled

LEMMA UnsentParts ==
  ASSUME TxInv
  PROVE  /\ OnLine \in Seq(Byte) /\ InRegister \in Seq(Byte)
         /\ InChannel \in Seq(Byte) /\ Filled \in Seq(Byte)
         /\ OnLine \o InRegister \in Seq(Byte)
         /\ (OnLine \o InRegister) \o InChannel \in Seq(Byte)
<1>1. \A b \in Byte \cup {None} : Held(b) \in Seq(Byte)
  BY DEF Held
<1>2. OnLine \in Seq(Byte) /\ InRegister \in Seq(Byte)
  BY <1>1 DEF TxInv, TxTypeOK, OnLine, InRegister
<1>3. InChannel \in Seq(Byte)
  <2>1. TX_MAX \in Nat /\ txBuf[dma.from] \in [1..TX_MAX -> Byte]
        /\ dma.next \in 1..TX_MAX + 1 /\ dma.len \in 0..TX_MAX
    BY TxTypes DEF TxInv, TxTypeOK
  <2> QED BY <2>1, BufferParts DEF InChannel
<1>4. Filled \in Seq(Byte)
  <2>1. TX_MAX \in Nat /\ txBuf[txSel] \in [1..TX_MAX -> Byte] /\ 1 \in 1..TX_MAX + 1
    BY TxTypes DEF TxInv, TxTypeOK
  <2>2. PICK n \in 0..TX_MAX : n = IF txPc = "copied" THEN top ELSE txIdx[txSel]
    BY TxTypes DEF TxInv, TxTypeOK
  <2> QED BY <2>1, <2>2, BufferParts DEF Filled
<1>6. OnLine \o InRegister \in Seq(Byte)
  BY <1>2, ConcatFacts
<1>7. (OnLine \o InRegister) \o InChannel \in Seq(Byte)
  BY <1>3, <1>6, ConcatFacts
<1> QED BY <1>2, <1>3, <1>4, <1>6, <1>7

LEMMA PrefixGrows ==
  ASSUME NEW S, NEW a \in Seq(S), NEW b \in Seq(S), NEW c \in Seq(S),
         Len(b) <= Len(c), \A k \in 1..Len(b) : b[k] = c[k]
  PROVE  /\ IsPrefix(a \o b, a \o c)
         /\ Len(a \o c) - Len(a \o b) = Len(c) - Len(b)
<1>1. PICK x \in Seq(S), y \in Seq(S) : x = a \o b /\ y = a \o c
  BY ConcatFacts
<1>2. /\ Len(x) = Len(a) + Len(b) /\ Len(y) = Len(a) + Len(c)
      /\ \A k \in 1..Len(x) : x[k] = y[k]
  BY <1>1, ConcatFacts
<1>3. Len(a) \in Nat /\ Len(b) \in Nat /\ Len(c) \in Nat
  OBVIOUS
<1>4. Len(x) <= Len(y) /\ Len(x) \in Nat /\ Len(y) \in Nat
  BY <1>2, <1>3
<1>5. SubSeq(x, 1, Len(x)) = SubSeq(y, 1, Len(x))
  BY <1>2, <1>4
<1> QED BY <1>1, <1>2, <1>3, <1>4, <1>5 DEF IsPrefix

LEMMA CopyFills ==
  ASSUME TxInv, Copy
  PROVE  /\ Filled \in Seq(Byte) /\ Filled' \in Seq(Byte)
         /\ Len(Filled) <= Len(Filled')
         /\ \A k \in 1..Len(Filled) : Filled[k] = Filled'[k]
         /\ Len(Filled') - Len(Filled) \in 1..TX_MAX
<1>0. /\ txPc = "idle" /\ txPc' = "copied"
      /\ UNCHANGED <<txIdx, txSel>>
  BY DEF Copy
<1>1. /\ TX_MAX \in Nat /\ 1 \in 1..TX_MAX + 1
      /\ txBuf[txSel] \in [1..TX_MAX -> Byte] /\ txBuf'[txSel] \in [1..TX_MAX -> Byte]
  <2>1. txBuf' \in [Buffer -> [1..TX_MAX -> Byte]]
    BY CopyFacts
  <2>2. txBuf \in [Buffer -> [1..TX_MAX -> Byte]] /\ txSel \in Buffer /\ TX_MAX \in Nat \ {0}
    BY TxTypes DEF TxInv, TxTypeOK
  <2> QED BY <2>1, <2>2
<1>2. PICK f \in [1..TX_MAX -> Byte], g \in [1..TX_MAX -> Byte] :
        f = txBuf[txSel] /\ g = txBuf'[txSel]
  BY <1>1
<1>3. PICK n \in 0..TX_MAX, t \in 0..TX_MAX : n = txIdx[txSel] /\ t = top' /\ n < t
  <2>1. txIdx[txSel] \in 0..TX_MAX /\ TX_MAX \in Nat
    BY TxTypes DEF TxInv, TxTypeOK
  <2>2. top' \in txIdx[txSel] + 1..TX_MAX
    BY CopyFacts
  <2> QED BY <2>1, <2>2
<1>4. Filled = SubSeq(f, 1, n) /\ Filled' = SubSeq(g, 1, t)
  BY <1>0, <1>2, <1>3 DEF Filled
<1>5. \A k \in 1..n : g[k] = f[k]
  BY <1>2, <1>3, CopyFacts
<1>6. /\ SubSeq(f, 1, n) \in Seq(Byte) /\ Len(SubSeq(f, 1, n)) = n
      /\ \A k \in 1..n : SubSeq(f, 1, n)[k] = f[k]
  BY <1>1, <1>3, Beginning
<1>7. /\ SubSeq(g, 1, t) \in Seq(Byte) /\ Len(SubSeq(g, 1, t)) = t
      /\ \A k \in 1..t : SubSeq(g, 1, t)[k] = g[k]
  <2>1. TX_MAX \in Nat
    BY <1>1
  <2> QED BY <2>1, Beginning
<1>8. PICK x \in Seq(Byte), y \in Seq(Byte) : x = SubSeq(f, 1, n) /\ y = SubSeq(g, 1, t)
  BY <1>6, <1>7
<1>9. /\ Len(x) = n /\ Len(y) = t /\ \A k \in 1..n : x[k] = y[k]
  <2>1. Len(x) = n /\ Len(y) = t
    BY <1>6, <1>7, <1>8
  <2>2. ASSUME NEW k \in 1..n PROVE x[k] = y[k]
    <3>1. k \in 1..t
      BY <1>3
    <3>2. x[k] = f[k] /\ y[k] = g[k] /\ g[k] = f[k]
      BY <1>5, <1>6, <1>7, <1>8, <3>1
    <3> QED BY <3>2
  <2> QED BY <2>1, <2>2
<1>10. Filled = x /\ Filled' = y
  BY <1>4, <1>8
<1>11. Len(x) <= Len(y) /\ Len(y) - Len(x) \in 1..TX_MAX
  BY <1>1, <1>3, <1>9
<1>12. \A k \in 1..Len(x) : x[k] = y[k]
  BY <1>9
<1> QED BY <1>10, <1>11, <1>12, Zenon

LEMMA CopyAccepts == ASSUME TxInv, Copy PROVE Fifo!Accept
<1>1. TxInv'
  BY CopyKeeps
<1>2. /\ txPc = "idle" /\ txPc' = "copied"
      /\ UNCHANGED <<txIdx, txSel, txDMAPending, txShdw, dma, irq, udbuf, shift>>
  BY DEF Copy
<1>3. OnLine' = OnLine /\ InRegister' = InRegister
  BY <1>2 DEF OnLine, InRegister
<1>4. InChannel' = InChannel
  <2>1. CASE dma.armed
    <3>1. dma.from = Other(txSel)
      BY <2>1 DEF TxInv, BuffersApart
    <3>2. txBuf'[dma.from] = txBuf[dma.from]
      BY <3>1, CopyFacts
    <3> QED BY <1>2, <3>2 DEF InChannel
  <2>2. CASE ~dma.armed
    BY <1>2, <2>2 DEF InChannel
  <2> QED BY <2>1, <2>2
<1>6. PICK a \in Seq(Byte) : a = (OnLine \o InRegister) \o InChannel
  BY UnsentParts
<1>7. unsent = a \o Filled
  BY <1>6, UnsentIs
<1>8. unsent' = a \o Filled'
  BY <1>3, <1>4, <1>6, UnsentIs
<1>9. PICK b \in Seq(Byte), c \in Seq(Byte) : b = Filled /\ c = Filled'
  BY CopyFills
<1>10. IsPrefix(a \o b, a \o c) /\ Len(a \o c) - Len(a \o b) = Len(c) - Len(b)
  BY CopyFills, <1>9, PrefixGrows
<1>11. a \o c \in Seq(Byte)
  BY ConcatFacts
<1>12. unsent = a \o b /\ unsent' = a \o c
  BY <1>7, <1>8, <1>9
<1>13. Len(unsent') - Len(unsent) \in 1..TX_MAX
  <2>1. Len(c) - Len(b) \in 1..TX_MAX
    BY <1>9, CopyFills
  <2> QED BY <1>10, <1>12, <2>1
<1> QED BY <1>10, <1>11, <1>12, <1>13 DEF Fifo!Accept, Fifo!IsPrefix, IsPrefix

(* Steps of the driver that move no byte *)
LEMMA UnsentSame ==
  ASSUME TxInv, TxInv',
         UNCHANGED <<udbuf, txSel, txBuf>>, shift'.byte = shift.byte,
         InChannel' = InChannel, Filled' = Filled
  PROVE  unsent' = unsent
BY UnsentIs DEF OnLine, InRegister

LEMMA TxDoneSame ==
  ASSUME TxInv, TxInv', TxDone, txPc' = "copied" <=> txPc = "copied",
         UNCHANGED <<top, txBuf, txSel, dma, udbuf, shift, written>>
  PROVE  unsent' = unsent
<1>1. txIdx'[txSel] = txIdx[txSel]
  <2>1. txIdx \in [Buffer -> 0..TX_MAX] /\ txSel \in Buffer /\ Other(txSel) # txSel
    BY TxTypes DEF TxInv, TxTypeOK
  <2> QED BY <2>1 DEF TxDone
<1>2. Filled' = Filled
  BY <1>1 DEF Filled
<1>3. InChannel' = InChannel
  BY DEF InChannel
<1> QED BY <1>2, <1>3, UnsentSame

LEMMA DriverStutters ==
  ASSUME TxInv, TxInv', Commit \/ DmaIsr \/ PollTime \/ PollIdle \/ Tick
  PROVE  unsent' = unsent
<1>1. CASE Commit
  <2>1. /\ txPc = "copied" /\ txPc' = "idle"
        /\ txIdx' = [txIdx EXCEPT ![txSel] = top]
        /\ UNCHANGED <<txBuf, txSel, dma, udbuf, shift>>
    BY <1>1 DEF Commit
  <2>2. txIdx'[txSel] = top
    BY <2>1, TxTypes DEF TxInv, TxTypeOK
  <2>3. Filled' = Filled /\ InChannel' = InChannel
    BY <2>1, <2>2 DEF Filled, InChannel
  <2> QED BY <2>1, <2>3, UnsentSame
<1>2. CASE DmaIsr
  BY <1>2, TxDoneSame DEF DmaIsr
<1>3. CASE PollTime
  <2>1. /\ txPc # "copied" /\ txPc' # "copied"
        /\ UNCHANGED <<top, txBuf, txIdx, txSel, dma, udbuf, shift>>
    BY <1>3 DEF PollTime
  <2>2. Filled' = Filled /\ InChannel' = InChannel
    BY <2>1 DEF Filled, InChannel
  <2> QED BY <2>1, <2>2, UnsentSame
<1>4. CASE PollIdle
  <2>1. /\ txPc # "copied" /\ txPc' # "copied"
        /\ UNCHANGED <<top, txBuf, txSel, dma, udbuf, shift, written>>
    BY <1>4 DEF PollIdle
  <2>2. CASE TxDone
    BY <2>1, <2>2, TxDoneSame
  <2>3. CASE UNCHANGED <<irq, txIdx, txShdw, txDMAPending>>
    <3>1. Filled' = Filled /\ InChannel' = InChannel
      BY <2>1, <2>3 DEF Filled, InChannel
    <3> QED BY <2>1, <3>1, UnsentSame
  <2> QED BY <1>4, <2>2, <2>3 DEF PollIdle
<1>5. CASE Tick
  <2>1. /\ UNCHANGED <<txPc, top, txBuf, txIdx, txSel, dma, udbuf>>
        /\ shift' = [shift EXCEPT !.left = IF @ = 0 THEN 0 ELSE @ - 1]
    BY <1>5 DEF Tick
  <2>2. shift'.byte = shift.byte
    BY <2>1 DEF TxInv, TxTypeOK
  <2>3. Filled' = Filled /\ InChannel' = InChannel
    BY <2>1 DEF Filled, InChannel
  <2> QED BY <2>1, <2>2, <2>3, UnsentSame
<1> QED BY <1>1, <1>2, <1>3, <1>4, <1>5

(* The selected buffer becomes the channel's, and the other one is empty. *)
LEMMA PollFireStutters == ASSUME TxInv, TxInv', PollFire PROVE unsent' = unsent
<1>1. /\ txPc = "polled" /\ txPc' = "idle"
      /\ txDMAPending
      /\ dma' = [armed |-> TRUE, trig |-> TRUE, from |-> txSel, next |-> 1,
                 len |-> txIdx[txSel]]
      /\ txSel' = Other(txSel)
      /\ UNCHANGED <<txBuf, txIdx, udbuf, shift>>
  BY DEF PollFire, Fires
<1>2. txIdx[Other(txSel)] = 0 /\ ~dma.armed
  BY <1>1 DEF TxInv, BuffersApart
<1>3. OnLine' = OnLine /\ InRegister' = InRegister
  BY <1>1 DEF OnLine, InRegister
<1>4. InChannel = <<>> /\ InChannel' = Filled
  BY <1>1, <1>2 DEF InChannel, Filled
<1>5. Filled' = <<>>
  <2>1. Filled' = SubSeq(txBuf[Other(txSel)], 1, 0)
    BY <1>1, <1>2 DEF Filled
  <2> QED BY <2>1, SubSeqEmpty
<1>6. PICK a \in Seq(Byte), b \in Seq(Byte) : a = OnLine \o InRegister /\ b = Filled
  BY UnsentParts
<1>7. unsent = (a \o <<>>) \o b
  BY <1>4, <1>6, UnsentIs
<1>8. unsent' = (a \o b) \o <<>>
  BY <1>3, <1>4, <1>5, <1>6, UnsentIs
<1>9. a \o b \in Seq(Byte)
  BY ConcatFacts
<1> QED BY <1>7, <1>8, <1>9, ConcatEmptySeq

(* A byte moves from the channel into the register, which is empty ...      *)
LEMMA DmaByteMoves ==
  ASSUME TxInv, DmaByte
  PROVE  /\ OnLine' = OnLine /\ Filled' = Filled
         /\ InRegister = <<>> /\ InRegister' \in Seq(Byte)
         /\ InChannel = InRegister' \o InChannel' /\ InChannel' \in Seq(Byte)
<1>1. /\ dma.trig /\ udbuf' = txBuf[dma.from][dma.next]
      /\ UNCHANGED <<txPc, top, txBuf, txIdx, txSel, shift>>
  BY DEF DmaByte, driver
<1>2. dma.armed /\ udbuf = None /\ dma.next <= dma.len
  BY <1>1 DEF TxInv, BuffersApart
<1>3. /\ TX_MAX \in Nat /\ dma.next \in 1..TX_MAX + 1 /\ dma.len \in 0..TX_MAX
      /\ txBuf[dma.from] \in [1..TX_MAX -> Byte] /\ None \notin Byte
      /\ dma.next \in 1..TX_MAX
  <2>1. TX_MAX \in Nat /\ dma.next \in 1..TX_MAX /\ dma.len \in 0..TX_MAX
    BY TxTypes DEF TxInv
  <2>2. txBuf[dma.from] \in [1..TX_MAX -> Byte] /\ None \notin Byte
    BY TxTypes DEF TxInv
  <2> QED BY <2>1, <2>2
<1>4. PICK f \in [1..TX_MAX -> Byte] : f = txBuf[dma.from]
  BY <1>3
<1>5. PICK n \in 1..TX_MAX + 1, l \in 0..TX_MAX : n = dma.next /\ l = dma.len
  BY <1>3
<1>6. PICK x \in Byte : x = f[n]
  BY <1>3, <1>5
<1>7. OnLine' = OnLine /\ Filled' = Filled
  BY <1>1 DEF OnLine, Filled
<1>8. InRegister = <<>> /\ InRegister' = <<x>>
  BY <1>1, <1>2, <1>3, <1>4, <1>5, <1>6 DEF InRegister, Held
<1>9. InChannel = <<x>> \o InChannel' /\ InChannel' \in Seq(Byte)
  <2>1. InChannel = <<x>> \o SubSeq(f, n + 1, l)
    <3>1. InChannel = SubSeq(f, n, l)
      BY <1>2, <1>4, <1>5 DEF InChannel
    <3>2. n <= l
      BY <1>2, <1>5
    <3>3. SubSeq(f, n, l) = <<f[n]>> \o SubSeq(f, n + 1, l)
      BY <1>3, <3>2, BufferParts
    <3> QED BY <1>6, <3>1, <3>3
  <2>2. InChannel' = SubSeq(f, n + 1, l)
    <3>1. CASE n = l
      <4>1. dma'.armed = FALSE
        BY <1>5, <3>1 DEF DmaByte, TxInv, TxTypeOK
      <4>2. SubSeq(f, n + 1, l) = <<>>
        BY <3>1, SubSeqEmpty
      <4> QED BY <4>1, <4>2 DEF InChannel
    <3>2. CASE n # l
      <4>1. dma' = [dma EXCEPT !.trig = FALSE, !.next = @ + 1]
        BY <1>5, <3>2 DEF DmaByte
      <4>2. /\ dma'.armed = dma.armed /\ dma'.from = dma.from /\ dma'.next = n + 1
            /\ dma'.len = l
        BY <1>5, <4>1 DEF TxInv, TxTypeOK
      <4> QED BY <1>1, <1>2, <1>4, <4>2 DEF InChannel
    <3> QED BY <3>1, <3>2
  <2>3. n + 1 \in 1..TX_MAX + 1
    BY <1>3, <1>5
  <2>4. SubSeq(f, n + 1, l) \in Seq(Byte)
    BY <1>3, <2>3, BufferParts
  <2> QED BY <2>1, <2>2, <2>4
<1>10. <<x>> \in Seq(Byte)
  BY <1>6, SingleFacts
<1> QED BY <1>7, <1>8, <1>9, <1>10

LEMMA DmaByteStutters == ASSUME TxInv, DmaByte PROVE unsent' = unsent
<1>1. PICK a \in Seq(Byte), d \in Seq(Byte), h \in Seq(Byte), c \in Seq(Byte) :
        a = OnLine /\ d = Filled /\ h = InRegister' /\ c = InChannel'
  BY DmaByteMoves, UnsentParts
<1>2. unsent = ((a \o <<>>) \o (h \o c)) \o d
  BY <1>1, DmaByteMoves, UnsentIs
<1>3. unsent' = ((a \o h) \o c) \o d
  BY <1>1, DmaByteMoves, UnsentIs
<1>4. a \o <<>> = a
  BY ConcatEmptySeq
<1>5. (a \o h) \o c = a \o (h \o c)
  BY ConcatAssociative
<1> QED BY <1>2, <1>3, <1>4, <1>5

(* ... and from there onto the line, which is free, ...                     *)
LEMMA LoadStutters == ASSUME TxInv, TxInv', Load PROVE unsent' = unsent
<1>1. /\ udbuf # None /\ shift.byte = None /\ udbuf' = None
      /\ shift'.byte = udbuf
      /\ dma' = [dma EXCEPT !.trig = dma.armed]
      /\ UNCHANGED <<txPc, top, txBuf, txIdx, txSel>>
  BY DEF Load, Loads, driver
<1>2. /\ dma'.armed = dma.armed /\ dma'.from = dma.from
      /\ dma'.len = dma.len /\ dma'.next = dma.next
  BY <1>1 DEF TxInv, TxTypeOK
<1>3. InChannel' = InChannel /\ Filled' = Filled
  BY <1>1, <1>2 DEF InChannel, Filled
<1>4. OnLine = <<>> /\ InRegister' = <<>> /\ OnLine' = InRegister
  BY <1>1 DEF OnLine, InRegister, Held
<1>5. PICK b \in Seq(Byte), c \in Seq(Byte), d \in Seq(Byte) :
        b = InRegister /\ c = InChannel /\ d = Filled
  BY UnsentParts
<1>6. unsent = ((<<>> \o b) \o c) \o d
  BY <1>4, <1>5, UnsentIs
<1>7. unsent' = ((b \o <<>>) \o c) \o d
  BY <1>3, <1>4, <1>5, UnsentIs
<1>8. <<>> \o b = b /\ b \o <<>> = b
  BY ConcatEmptySeq
<1> QED BY <1>6, <1>7, <1>8

(* ... where it is sent. *)
LEMMA SentMoves ==
  ASSUME TxInv, Sent
  PROVE  /\ InRegister' = InRegister /\ InChannel' = InChannel /\ Filled' = Filled
         /\ OnLine' = <<>> /\ \E x \in Byte : OnLine = <<x>>
<1>1. /\ shift.byte # None
      /\ shift' = [shift EXCEPT !.byte = None]
      /\ UNCHANGED <<txPc, top, txBuf, txIdx, txSel, dma, udbuf>>
  BY DEF Sent, driver
<1>2. PICK x \in Byte : x = shift.byte
  BY <1>1, TxTypes DEF TxInv
<1>3. shift'.byte = None
  BY <1>1 DEF TxInv, TxTypeOK
<1>4. InRegister' = InRegister /\ InChannel' = InChannel /\ Filled' = Filled
  BY <1>1 DEF InRegister, InChannel, Filled
<1>5. OnLine = <<x>> /\ OnLine' = <<>>
  BY <1>1, <1>2, <1>3 DEF OnLine, Held
<1> QED BY <1>4, <1>5

LEMMA SentSends == ASSUME TxInv, Sent PROVE Fifo!Send
<1>1. PICK h \in Seq(Byte), b \in Seq(Byte), c \in Seq(Byte), d \in Seq(Byte) :
        h = OnLine /\ b = InRegister /\ c = InChannel /\ d = Filled
  BY UnsentParts
<1>2. PICK rest \in Seq(Byte) : rest = (b \o c) \o d
  BY ConcatFacts
<1>3. unsent = ((h \o b) \o c) \o d
  BY <1>1, UnsentIs
<1>4. unsent = h \o rest
  <2>1. Regrouped(h, b, c, d)
    BY Regroup
  <2> QED BY <1>2, <1>3, <2>1, Zenon DEF Regrouped
<1>5. unsent' = ((<<>> \o b) \o c) \o d
  BY <1>1, SentMoves, UnsentIs
<1>6. unsent' = rest
  BY <1>2, <1>5, ConcatEmptySeq
<1>7. \A x \in Byte : <<x>> \o rest # <<>> /\ Tail(<<x>> \o rest) = rest
  OBVIOUS
<1>8. unsent # <<>> /\ Tail(unsent) = rest
  BY <1>1, <1>4, <1>7, SentMoves
<1> QED BY <1>6, <1>8 DEF Fifo!Send

(* What is written leaves on the line once and in order: whatever the poll, *)
(* the interrupt, the channel and the time do, the transmitter is a queue.  *)
(* Neither fairness nor the distance of the polls matters for that.         *)
THEOREM TxIsFifo == TxInit /\ [][TxNext]_txVars => ImplementsFifo
<1>1. TxInit => TxInv /\ Fifo!Init
  <2>1. SUFFICES ASSUME TxInit PROVE TxInv /\ unsent = <<>>
    BY DEF Fifo!Init
  <2>2. TxInv
    BY <2>1, TxInitially
  <2>3. OnLine = <<>> /\ InRegister = <<>> /\ InChannel = <<>>
    BY <2>1 DEF TxInit, OnLine, InRegister, InChannel, Held
  <2>4. Filled = SubSeq(txBuf[txSel], 1, 0)
    BY <2>1 DEF TxInit, Filled, Buffer
  <2>5. Filled = <<>>
    BY <2>4, SubSeqEmpty
  <2>6. unsent = ((<<>> \o <<>>) \o <<>>) \o <<>>
    BY <2>2, <2>3, <2>5, UnsentIs
  <2>7. <<>> \o <<>> = <<>>
    OBVIOUS
  <2> QED BY <2>2, <2>6, <2>7
<1>2. TxInv /\ [TxNext]_txVars => TxInv'
  BY TxStep
<1>3. TxInv /\ TxInv' /\ [TxNext]_txVars => [Fifo!Next]_unsent
  <2>1. SUFFICES ASSUME TxInv, TxInv', [TxNext]_txVars
                 PROVE  Fifo!Accept \/ Fifo!Send \/ unsent' = unsent
    BY DEF Fifo!Next
  <2>2. CASE UNCHANGED txVars
    BY <2>1, <2>2 DEF txVars, driver, unsent
  <2> QED BY <2>1, <2>2, CopyAccepts, DriverStutters, PollFireStutters, DmaByteStutters,
             LoadStutters, SentSends DEF TxNext, Poll, Hardware
<1> QED BY <1>1, <1>2, <1>3, PTL DEF ImplementsFifo, Fifo!Spec
=============================================================================
