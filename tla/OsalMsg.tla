------------------------------ MODULE OsalMsg ------------------------------
(***************************************************************************)
(* The OSAL scheduler and message queue (Components/osal/common/OSAL.c):   *)
(* one loop gives the events of the ready task of the highest priority to  *)
(* its handler; one event bit per task stands for all its messages in the  *)
(* one queue.  With it the report of network state changes to the          *)
(* application (zdoSendStateChangeMsg), the one message that is found and  *)
(* changed while it is queued.                                             *)
(***************************************************************************)
EXTENDS Naturals, SequencesExt, Selections

CONSTANTS
  TaskCount,   \* tasksCnt; a lower index is a higher priority
  Net,         \* the network layer's task, which receives from the radio
  Zdo,         \* the task of ZDApp, which reports state changes
  Apps,        \* the tasks whose end points are told of them
  Single,      \* the tasks whose handler receives one message at a time
  Status,      \* network states, and what data messages carry
  FirstStatus,
  Heap         \* bound: the message blocks the heap has room for

Task == 0..TaskCount - 1
Event == {"msg", "state", "irq"}
Msg == [to : Task, kind : {"data", "state"}, body : Status]
NoMsg == [to |-> TaskCount, kind |-> "none", body |-> FirstStatus]

ASSUME ConstantsAssumption ==
  /\ TaskCount \in Nat
  /\ Net \in Task
  /\ Zdo \in Task
  /\ Apps \subseteq Task \ {Zdo}
  /\ Single \subseteq Task
  /\ FirstStatus \in Status
  /\ Heap \in Nat

VARIABLES
  queue,     \* osal_qHead
  bits,      \* tasksEvents
  pc,        \* where osal_run_system is
  idx,       \* its idx
  word,      \* the events its handler has been given
  held,      \* the message the handler is processing
  todo,      \* the end points ZDO_UpdateNwkStatus has still to tell
  devState,  \* ZDApp's state of the device, as far as it reports it
  seen       \* what each application knows of it (CommonApp_NwkState)

vars == <<queue, bits, pc, idx, word, held, todo, devState, seen>>

Init ==
  /\ queue = <<>>
  /\ bits = [t \in Task |-> {}]
  /\ pc = "scan"
  /\ idx = 0
  /\ word = {}
  /\ held = NoMsg
  /\ todo = {}
  /\ devState = FirstStatus
  /\ seen = [a \in Apps |-> FirstStatus]

-----------------------------------------------------------------------------
(* The message queue *)

Pending(t) == {i \in 1..Len(queue) : queue[i].to = t}

(* osal_msg_allocate fails when the heap is full. *)
Unchecked == FALSE
HeapFull == Len(queue) + (IF held = NoMsg THEN 0 ELSE 1) >= Heap

(* osal_msg_send: the bit is set after the message is queued; nothing that
   looks at the queue runs in between. *)
Send(m) ==
  /\ queue' = Append(queue, m)
  /\ bits' = [bits EXCEPT ![m.to] = @ \cup {"msg"}]

(* osal_msg_receive takes the first message of the task. *)
IsLast(t, i) == \A j \in Pending(t) : j <= i
IsFirst(t, i) == \A j \in Pending(t) : i <= j

(* It sets the task's message bit if it leaves messages for it in the queue,
   and clears it if it leaves none. *)
Cleared(t, rest) == [bits EXCEPT ![t] = @ \ {"msg"}]
Signalled(t, rest) ==
  [bits EXCEPT ![t] = IF rest = {} THEN @ \ {"msg"} ELSE @ \cup {"msg"}]

-----------------------------------------------------------------------------
(* osal_run_system *)

(* An interrupt sets an event of the network layer's task. *)
Interrupt ==
  /\ bits' = [bits EXCEPT ![Net] = @ \cup {"irq"}]
  /\ UNCHANGED <<queue, pc, idx, word, held, todo, devState, seen>>

Look ==
  /\ pc = "scan"
  /\ bits[idx] = {}
  /\ idx' = IF idx + 1 < TaskCount THEN idx + 1 ELSE 0
  /\ UNCHANGED <<queue, bits, pc, word, held, todo, devState, seen>>

TakeEvents ==
  /\ pc = "scan"
  /\ bits[idx] # {}
  /\ word' = bits[idx]
  /\ bits' = [bits EXCEPT ![idx] = {}]
  /\ pc' = "handle"
  /\ UNCHANGED <<queue, idx, held, todo, devState, seen>>

Overwritten == [bits EXCEPT ![idx] = word]
AddedBack == [bits EXCEPT ![idx] = @ \cup word]

Return ==
  /\ pc = "return"
  /\ bits' = AddedBack
  /\ word' = {}
  /\ idx' = 0
  /\ pc' = "scan"
  /\ UNCHANGED <<queue, held, todo, devState, seen>>

-----------------------------------------------------------------------------
(* The handlers: each serves its messages first. *)

Receive ==
  /\ pc = "handle"
  /\ "msg" \in word
  /\ \E i \in Pending(idx) :
       /\ IsFirst(idx, i)
       /\ held' = queue[i]
       /\ queue' = RemoveAt(queue, i)
       /\ bits' = Signalled(idx, Pending(idx) \ {i})
  /\ pc' = "process"
  /\ UNCHANGED <<idx, word, todo, devState, seen>>

(* osal_msg_receive found nothing: the handler returns its other events. *)
ReceiveNone ==
  /\ pc = "handle"
  /\ "msg" \in word
  /\ Pending(idx) = {}
  /\ bits' = Signalled(idx, {})
  /\ word' = word \ {"msg"}
  /\ pc' = "return"
  /\ UNCHANGED <<queue, idx, held, todo, devState, seen>>

(* The message is freed; a handler that is not Single receives the next. *)
Freed ==
  /\ held' = NoMsg
  /\ \/ idx \notin Single /\ pc' = "handle" /\ UNCHANGED word
     \/ idx \in Single /\ pc' = "return" /\ word' = word \ {"msg"}
  /\ UNCHANGED <<queue, idx, todo>>

(* ZDApp_ProcessOSALMsg: a confirmation or indication of the network layer
   may change the state, and then the change is to be reported. *)
ProcessNetwork ==
  /\ pc = "process"
  /\ idx = Zdo
  /\ \/ /\ devState' = held.body
        /\ bits' = [bits EXCEPT ![Zdo] = @ \cup {"state"}]
     \/ UNCHANGED <<devState, bits>>
  /\ Freed
  /\ UNCHANGED seen

(* CommonApp_ProcessEvent notes a state change; other tasks' and other
   messages' contents are of no concern here. *)
ProcessOther ==
  /\ pc = "process"
  /\ idx # Zdo
  /\ seen' = IF held.kind = "state" /\ idx \in Apps
               THEN [seen EXCEPT ![idx] = held.body] ELSE seen
  /\ Freed
  /\ UNCHANGED <<bits, devState>>

(* The network layer passes on what the radio received: data to an
   application, confirmations to ZDApp, serial debugging to MT.  Without
   memory it drops it. *)
Radio ==
  /\ pc = "handle"
  /\ "msg" \notin word
  /\ idx = Net
  /\ "irq" \in word
  /\ \/ HeapFull /\ UNCHANGED <<queue, bits>>
     \/ /\ ~HeapFull
        /\ \E t \in Task \ {Net}, s \in Status :
             Send([to |-> t, kind |-> "data", body |-> s])
  /\ word' = word \ {"irq"}
  /\ pc' = "return"
  /\ UNCHANGED <<idx, held, todo, devState, seen>>

-----------------------------------------------------------------------------
(* ZDO_STATE_CHANGE_EVT: ZDO_UpdateNwkStatus *)

BeginReport ==
  /\ pc = "handle"
  /\ "msg" \notin word
  /\ idx = Zdo
  /\ "state" \in word
  /\ todo' = Apps
  /\ pc' = "report"
  /\ UNCHANGED <<queue, bits, idx, word, held, devState, seen>>

(* osal_msg_find *)
StateMsgs(a) == {i \in Pending(a) : queue[i].kind = "state"}

KeptStatus(i) == queue
NewStatus(i) == [queue EXCEPT ![i].body = devState]

(* zdoSendStateChangeMsg: a report that is still queued is changed, else one
   is sent, and without memory for it the event is set once more. *)
Report(a) ==
  /\ pc = "report"
  /\ a \in todo
  /\ \/ /\ StateMsgs(a) # {}
        /\ \E i \in StateMsgs(a) :
             /\ \A j \in StateMsgs(a) : i <= j
             /\ queue' = NewStatus(i)
        /\ UNCHANGED bits
     \/ /\ StateMsgs(a) = {}
        /\ HeapFull
        /\ bits' = [bits EXCEPT ![Zdo] = @ \cup {"state"}]
        /\ UNCHANGED queue
     \/ /\ StateMsgs(a) = {}
        /\ ~HeapFull
        /\ Send([to |-> a, kind |-> "state", body |-> devState])
  /\ todo' = todo \ {a}
  /\ UNCHANGED <<pc, idx, word, held, devState, seen>>

EndReport ==
  /\ pc = "report"
  /\ todo = {}
  /\ word' = word \ {"state"}
  /\ pc' = "return"
  /\ UNCHANGED <<queue, bits, idx, held, todo, devState, seen>>

Loop ==
  \/ Look \/ TakeEvents \/ Return
  \/ Receive \/ ReceiveNone \/ ProcessNetwork \/ ProcessOther \/ Radio
  \/ BeginReport \/ (\E a \in Apps : Report(a)) \/ EndReport

Next == Interrupt \/ Loop

Spec == Init /\ [][Next]_vars

(* osal_start_system never stops. *)
FairSpec == Spec /\ WF_vars(Loop)

-----------------------------------------------------------------------------
(* Properties *)

TypeOK ==
  /\ queue \in Seq(Msg)
  /\ Len(queue) + (IF held = NoMsg THEN 0 ELSE 1) <= Heap
  /\ bits \in [Task -> SUBSET Event]
  /\ pc \in {"scan", "handle", "process", "report", "return"}
  /\ idx \in Task
  /\ word \in SUBSET Event
  /\ held \in Msg \cup {NoMsg}
  /\ todo \in SUBSET Apps
  /\ devState \in Status
  /\ seen \in [Apps -> Status]

(* A message is never left in the queue without its task being signalled or
   busy receiving (osal_msg_receive clears the bit sending sets). *)
Draining(t) ==
  /\ t = idx
  /\ "msg" \in word
  /\ pc = "handle" \/ (pc = "process" /\ t \notin Single)

NoStranded ==
  \A t \in Task : Pending(t) # {} => "msg" \in bits[t] \/ Draining(t)

(* Once no report is due, queued or being processed, an application knows the
   state of the device, although reports overwrite each other in the queue and
   fail for want of memory (zdoSendStateChangeMsg). *)
ReportDue(a) ==
  \/ "state" \in bits[Zdo]
  \/ idx = Zdo /\ pc # "scan" /\ pc # "report" /\ "state" \in word
  \/ a \in todo
ReportUnderWay(a) ==
  StateMsgs(a) # {} \/ (held.kind = "state" /\ held.to = a)

StateKnown ==
  \A a \in Apps : ReportDue(a) \/ ReportUnderWay(a) \/ seen[a] = devState

(* The queue with its one event bit per task behaves like a mailbox for every
   task. *)
For(t) == {m \in Msg : m.to = t}
BoxesSeen == [t \in Task |-> SelectIn(queue, For(t))]
Boxes == INSTANCE Mailboxes WITH box <- BoxesSeen
ImplementsMailboxes == Boxes!Spec

(* Only tasks of a higher priority can keep a task from its messages. *)
Served ==
  \A t \in Task :
    <>[](\A h \in Task : h < t => bits[h] = {}) => []<>(Pending(t) = {})

(* Once the radio is quiet, the applications learn the state of the device:
   what zdoSendStateChangeMsg says of trying again when there is no memory. *)
Reported ==
  <>[]("irq" \notin bits[Net]) => []<>(\A a \in Apps : seen[a] = devState)
=============================================================================
