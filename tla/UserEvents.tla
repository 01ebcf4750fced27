----------------------------- MODULE UserEvents -----------------------------
(***************************************************************************)
(* The user events of the SmartApp devices (Manage/Callbacks/api_events.c) *)
(* on top of the OSAL's event bits and one-shot timers.                    *)
(*                                                                         *)
(* An entry of the list puser_event is a heap node; userevent_map is a     *)
(* cache from the event flag to a node.  set_user_event and                *)
(* update_user_event are called by message handlers and callbacks of the   *)
(* cooperative scheduler and, on the sensor boards, by the port-1          *)
(* interrupt, which can strike between any two steps of process_event.     *)
(*                                                                         *)
(* Time is abstracted: a running OSAL timer may expire at any moment.      *)
(***************************************************************************)
EXTENDS Naturals, SequencesExt

CONSTANTS
  Task,        \* OSAL task identifiers; the smaller has the higher priority
  Event,       \* the event flags: single bits of a uint16
  Node,        \* heap blocks the entries are allocated from
  Nil,         \* the NULL pointer
  LowerLimit,  \* TIMER_LOWER_LIMIT: only longer durations use a timer
  Loop,        \* TIMER_LOOP_EXECUTION, the largest value of the count field
  MainCalls,   \* the calls handlers make outside of process_event
  CbCalls,     \* <<e, c>>: the callback of event e may make call c
  IsrCalls     \* the calls the interrupt handler makes

Call == [fn : {"set", "update"}, task : Task, ev : Event, dur : Nat,
         cnt : 0..Loop, res : BOOLEAN, cb : BOOLEAN]

ASSUME ConstantsAssumption ==
  /\ Task \subseteq Nat
  /\ Task # {}
  /\ Event # {}
  /\ Loop \in Nat \ {0}
  /\ LowerLimit \in Nat
  /\ Nil \notin Node
  /\ MainCalls \subseteq Call
  /\ CbCalls \subseteq Event \X Call
  /\ IsrCalls \subseteq Call

AllCalls == MainCalls \cup IsrCalls \cup {p[2] : p \in CbCalls}

(* What the boards' calls have in common: an event the interrupt arms is
   resident whoever arms it, and no callback clears an event. *)
IsrEvents == {c.ev : c \in IsrCalls}
ASSUME CallsAssumption ==
  /\ \A c \in MainCalls \cup IsrCalls : c.ev \in IsrEvents => c.res
  /\ \A p \in CbCalls :
       /\ p[2].ev \in IsrEvents => p[2].res
       /\ p[2].cnt > 0

(* Two more things the boards' calls have in common.  Either an event always
   comes with the same duration, or no call has a longer duration than one
   that sets; and a board with an interrupt arms resident entries only. *)
FixedDurations(calls) == \A c, d \in calls : c.ev = d.ev => c.dur = d.dur
SetsLongest(calls) == \A c, d \in calls : c.fn = "set" => d.dur <= c.dur
OneEntry(calls) == FixedDurations(calls) \/ SetsLongest(calls)
KeptByIsr(isr, calls) == isr # {} => \A c \in calls : c.res

Entry == [task : Task, ev : Event, dur : Nat, cnt : 0..Loop, res : BOOLEAN,
          cb : BOOLEAN]

VARIABLES
  list,    \* puser_event: the nodes in list order
  node,    \* the contents of the heap blocks, kept after they are freed
  map,     \* userevent_map
  timers,  \* per task, the events with a running OSAL timer
  bits,    \* tasksEvents
  pc,      \* where process_event is; "idle" outside of it, "lost" once a
           \* NULL pointer has been followed
  task,    \* process_event's task_id
  events,  \* process_event's events
  cur,     \* process_event's t_ssaUserEvent
  nx,      \* the next field of a freed node, as the heap still holds it
  rd,      \* the count byte read for the decrement
  left     \* ghost: the runs of the callback its last arming still grants

vars == <<list, node, map, timers, bits, pc, task, events, cur, nx, rd, left>>
scheduling == <<pc, task, events, cur, nx, rd>>

Nodes == ToSet(list)

Blank == [task |-> CHOOSE t \in Task : TRUE, ev |-> CHOOSE e \in Event : TRUE,
          dur |-> 0, cnt |-> 0, res |-> FALSE, cb |-> FALSE]

Init ==
  /\ list = <<>>
  /\ node = [n \in Node |-> Blank]
  /\ map = [e \in Event |-> Nil]
  /\ timers = [t \in Task |-> {}]
  /\ bits = [t \in Task |-> {}]
  /\ pc = "idle"
  /\ task = Blank.task
  /\ events = {}
  /\ cur = Nil
  /\ nx = Nil
  /\ rd = [cnt |-> 0, res |-> FALSE]
  /\ left = [n \in Node |-> 0]

-----------------------------------------------------------------------------
(* The calls of the module's interface *)

(* set_app_event: arm an entry that still has runs to do.  A short duration
   sets the event bit at once and leaves a running timer alone. *)
SetAppEvent(r) ==
  \/ /\ r.cnt = 0
     /\ UNCHANGED <<timers, bits>>
  \/ /\ r.cnt > 0
     /\ r.dur > LowerLimit
     /\ timers' = [timers EXCEPT ![r.task] = @ \cup {r.ev}]
     /\ UNCHANGED bits
  \/ /\ r.cnt > 0
     /\ r.dur <= LowerLimit
     /\ bits' = [bits EXCEPT ![r.task] = @ \cup {r.ev}]
     /\ UNCHANGED timers

(* The scan of Add_User_Event stops at an entry of the same event, or at the
   first one with a longer duration. *)
StopsAtLonger(c, i) == c.dur < node[list[i]].dur
StopsAt(c, i) == node[list[i]].ev = c.ev \/ c.dur < node[list[i]].dur

EntryOf(c) == [task |-> c.task, ev |-> c.ev, dur |-> c.dur, cnt |-> c.cnt,
               res |-> c.res, cb |-> c.cb]

(* set_user_event: allocate a node and, unless the scan met the event first,
   link it before the longer entry or at the end.  Only a node linked before
   another one, or into an empty list, enters the map. *)
SetUserEvent(c) ==
  \E i \in 1..Len(list) + 1 :
    /\ \A j \in 1..i - 1 : ~StopsAt(c, j)
    /\ i <= Len(list) => StopsAt(c, i)
    /\ \/ /\ i <= Len(list)
          /\ node[list[i]].ev = c.ev
          /\ UNCHANGED <<list, node, map, timers, bits, left>>
       \/ /\ i <= Len(list) => node[list[i]].ev # c.ev
          /\ \E n \in Node \ Nodes :
               /\ list' = InsertAt(list, i, n)
               /\ node' = [node EXCEPT ![n] = EntryOf(c)]
               /\ map' = IF i <= Len(list) \/ list = <<>>
                           THEN [map EXCEPT ![c.ev] = n] ELSE map
               /\ left' = [left EXCEPT ![n] = c.cnt]
               /\ SetAppEvent(EntryOf(c))

Mentions(e) == {i \in 1..Len(list) : node[list[i]].ev = e}

(* Query_User_Event: the mapped node, else the first one in list order. *)
Queried(e, n) ==
  \/ /\ map[e] # Nil
     /\ n = map[e]
  \/ /\ map[e] = Nil
     /\ \E i \in Mentions(e) :
          /\ \A j \in Mentions(e) : i <= j
          /\ n = list[i]

(* It starts at puser_event without looking whether there is an entry. *)
FollowsNull(c) == c.fn = "update" /\ map[c.ev] = Nil /\ list = <<>>

(* update_user_event: overwrite everything but the owner task, and re-arm.
   In an empty list this is what it does when the words at address 0 happen
   to end a list without the event. *)
UpdateUserEvent(c) ==
  \/ \E n \in Node :
       /\ Queried(c.ev, n)
       /\ LET r == [EntryOf(c) EXCEPT !.task = node[n].task]
          IN  /\ node' = [node EXCEPT ![n] = r]
              /\ SetAppEvent(r)
       /\ left' = [left EXCEPT ![n] = c.cnt]
       /\ UNCHANGED <<list, map>>
  \/ /\ map[c.ev] = Nil
     /\ Mentions(c.ev) = {}
     /\ SetUserEvent(c)

Perform(c) ==
  \/ c.fn = "set" /\ SetUserEvent(c)
  \/ c.fn = "update" /\ UpdateUserEvent(c)

(* ... and when they do not: they are taken for an entry and overwritten, or
   lead on to any other address.  What the program does then is not said. *)
Astray(c) ==
  /\ FollowsNull(c)
  /\ pc' = "lost"
  /\ UNCHANGED <<list, node, map, timers, bits, task, events, cur, nx, rd, left>>

Calls(c) ==
  \/ Perform(c) /\ UNCHANGED scheduling
  \/ Astray(c)

(* A handler of the application calls the interface between two events. *)
MainCall(c) == pc = "idle" /\ Calls(c)

(* The port-1 interrupt calls it at any time. *)
IsrCall(c) == pc # "lost" /\ Calls(c)

-----------------------------------------------------------------------------
(* The scheduler and process_event *)

(* osalTimerUpdate: a running timer expires and sets its event bit. *)
Expire(t, e) ==
  /\ e \in timers[t]
  /\ timers' = [timers EXCEPT ![t] = @ \ {e}]
  /\ bits' = [bits EXCEPT ![t] = @ \cup {e}]
  /\ UNCHANGED <<list, node, map, left>>
  /\ UNCHANGED scheduling

(* osal_run_system takes the events of the ready task of highest priority and
   calls its handler, which ends in process_event. *)
Dispatch(t) ==
  /\ pc = "idle"
  /\ bits[t] # {}
  /\ \A s \in Task : s < t => bits[s] = {}
  /\ task' = t
  /\ events' = bits[t]
  /\ bits' = [bits EXCEPT ![t] = {}]
  /\ cur' = IF list = <<>> THEN Nil ELSE Head(list)
  /\ pc' = "scan"
  /\ UNCHANGED <<list, node, map, timers, nx, rd, left>>

Live(n) == node[n].cnt > 0 \/ node[n].res

Matches(n) == Live(n) /\ node[n].task = task /\ node[n].ev \in events

(* The next field of the i-th node. *)
NextOf(i) == IF i = Len(list) THEN Nil ELSE list[i + 1]

(* The end of the list: the events no entry wants are discarded. *)
ScanEnd ==
  /\ pc = "scan"
  /\ cur = Nil
  /\ events' = {}
  /\ pc' = "ret"
  /\ UNCHANGED <<list, node, map, timers, bits, task, cur, nx, rd, left>>

(* An entry of this task whose event is set: its callback is called. *)
ScanMatch ==
  /\ pc = "scan"
  /\ cur # Nil
  /\ Matches(cur)
  /\ pc' = IF node[cur].cb THEN "callback" ELSE "check"
  /\ left' = [left EXCEPT ![cur] = IF @ \in 1..Loop - 1 THEN @ - 1 ELSE @]
  /\ UNCHANGED <<list, node, map, timers, bits, task, events, cur, nx, rd>>

(* Del_User_Event forgets the mapping of the event it removes. *)
StaleMap(e) == map
Unmapped(e) == [map EXCEPT ![e] = Nil]

(* Del_User_Event on the event of a spent entry unlinks and frees the first
   node of that event.  The freed block keeps its next field. *)
ScanSpent ==
  /\ pc = "scan"
  /\ cur # Nil
  /\ ~Live(cur)
  /\ \E i \in Mentions(node[cur].ev) :
       /\ \A j \in Mentions(node[cur].ev) : i <= j
       /\ list' = RemoveAt(list, i)
       /\ nx' = NextOf(i)
  /\ map' = Unmapped(node[cur].ev)
  /\ pc' = "advance"
  /\ UNCHANGED <<node, timers, bits, task, events, cur, rd, left>>

ScanSkip ==
  /\ pc = "scan"
  /\ cur # Nil
  /\ Live(cur)
  /\ ~Matches(cur)
  /\ pc' = "advance"
  /\ UNCHANGED <<list, node, map, timers, bits, task, events, cur, nx, rd, left>>

(* t_ssaUserEvent = t_ssaUserEvent->next, which reads a freed block when the
   step before deleted the current entry. *)
Advance ==
  /\ pc = "advance"
  /\ \/ \E i \in 1..Len(list) : list[i] = cur /\ cur' = NextOf(i)
     \/ cur \notin Nodes /\ cur' = nx
  /\ pc' = "scan"
  /\ UNCHANGED <<list, node, map, timers, bits, task, events, nx, rd, left>>

CallbackCall(c) ==
  /\ pc = "callback"
  /\ <<node[cur].ev, c>> \in CbCalls
  /\ Calls(c)

CallbackReturn ==
  /\ pc = "callback"
  /\ pc' = "check"
  /\ UNCHANGED <<list, node, map, timers, bits, task, events, cur, nx, rd, left>>

(* count != TIMER_LOOP_EXECUTION: the byte is read for the decrement ... *)
CheckCount ==
  /\ pc = "check"
  /\ \/ /\ node[cur].cnt = Loop
        /\ pc' = "rearm"
        /\ UNCHANGED rd
     \/ /\ node[cur].cnt # Loop
        /\ pc' = "decrement"
        /\ rd' = [cnt |-> node[cur].cnt, res |-> node[cur].res]
  /\ UNCHANGED <<list, node, map, timers, bits, task, events, cur, nx, left>>

(* count--, on a 7-bit field: 0 becomes TIMER_LOOP_EXECUTION. *)
NotDecremented == rd.cnt
Decremented == (rd.cnt + Loop) % (Loop + 1)

(* ... and written back. *)
Decrement ==
  /\ pc = "decrement"
  /\ node' = [node EXCEPT ![cur].cnt = Decremented, ![cur].res = rd.res]
  /\ pc' = "rearm"
  /\ UNCHANGED <<list, map, timers, bits, task, events, cur, nx, rd, left>>

(* events ^ event: the handled event is taken out, the others are kept. *)
AllDropped == {}
Unprocessed == events \ {node[cur].ev}

Rearm ==
  /\ pc = "rearm"
  /\ SetAppEvent(node[cur])
  /\ events' = Unprocessed
  /\ pc' = "ret"
  /\ UNCHANGED <<list, node, map, task, cur, nx, rd, left>>

(* osal_run_system adds the unprocessed events back to those that were set
   while the handler ran. *)
Overwritten == events
AddedBack == bits[task] \cup events

Return ==
  /\ pc = "ret"
  /\ bits' = [bits EXCEPT ![task] = AddedBack]
  /\ pc' = "idle"
  /\ UNCHANGED <<list, node, map, timers, task, events, cur, nx, rd, left>>

-----------------------------------------------------------------------------
ProcessEvent ==
  \/ ScanEnd \/ ScanMatch \/ ScanSpent \/ ScanSkip \/ Advance
  \/ CallbackReturn \/ CheckCount \/ Decrement \/ Rearm \/ Return

Lost == pc = "lost" /\ UNCHANGED vars

Next ==
  \/ \E c \in MainCalls : MainCall(c)
  \/ \E c \in IsrCalls : IsrCall(c)
  \/ \E p \in CbCalls : CallbackCall(p[2])
  \/ \E t \in Task, e \in Event : Expire(t, e)
  \/ \E t \in Task : Dispatch(t)
  \/ ProcessEvent
  \/ Lost

Spec == Init /\ [][Next]_vars

(* The scheduler's loop never stops and the OSAL clock goes on; nothing makes
   a handler, a callback or the interrupt call the interface. *)
FairSpec ==
  /\ Spec
  /\ \A t \in Task : WF_vars(Dispatch(t))
  /\ \A t \in Task, e \in Event : WF_vars(Expire(t, e))
  /\ WF_vars(ProcessEvent)

-----------------------------------------------------------------------------
(* Properties *)

TypeOK ==
  /\ list \in Seq(Node)
  /\ node \in [Node -> Entry]
  /\ map \in [Event -> Node \cup {Nil}]
  /\ timers \in [Task -> SUBSET Event]
  /\ bits \in [Task -> SUBSET Event]
  /\ pc \in {"idle", "scan", "advance", "callback", "check", "decrement",
             "rearm", "ret", "lost"}
  /\ task \in Task
  /\ events \in SUBSET Event
  /\ cur \in Node \cup {Nil}
  /\ nx \in Node \cup {Nil}
  /\ rd \in [cnt : 0..Loop, res : BOOLEAN]
  /\ left \in [Node -> 0..Loop]

(* Every pointer the module keeps leads to an allocated entry: no node is
   linked twice, a mapped node is in the list and carries the event it is
   mapped for, the entry whose callback runs stays linked until the handler
   returns, and after deleting the current entry the scan goes on inside the
   list although it reads its next node from the freed block
   (Del_User_Event, process_event).  Query_User_Event does follow a NULL
   pointer, in an empty list: this is only possible until the first event
   that every call arms as a resident one, such as the heart beat, has its
   entry, which is never freed. *)
NoDoubleLink == \A i, j \in 1..Len(list) : list[i] = list[j] => i = j
MapSound == \A e \in Event : map[e] # Nil => map[e] \in Nodes /\ node[map[e]].ev = e
CursorSound ==
  /\ pc = "scan" => cur \in Nodes \cup {Nil}
  /\ pc \in {"callback", "check", "decrement", "rearm"} => cur \in Nodes
  /\ pc = "advance" => cur \in Nodes \/ nx \in Nodes \cup {Nil}
KeptEvents == {e \in Event : \A c \in AllCalls : c.ev = e => c.res}
Kept(n) == node[n].ev \in KeptEvents /\ node[n].res
NullSound == pc = "lost" => \A n \in Node : ~Kept(n)
NoDanglingPointer == NoDoubleLink /\ MapSound /\ CursorSound /\ NullSound

(* process_event decides to run the callback of entry n. *)
Runs(n) == pc = "scan" /\ pc' \in {"callback", "check"} /\ cur = n

(* An entry that is not resident runs its callback at most as often as its
   last arming asked for, however timers, event bits and calls from handlers
   and callbacks interleave (process_event, update_user_event). *)
NonResidentBudget ==
  [][\A n \in Node : Runs(n) /\ ~node[n].res => left[n] > 0]_vars

(* The header's "set the timer event once", for every entry
   (api_events.h:39). *)
OnceMeansOnce == [][\A n \in Node : Runs(n) => left[n] > 0]_vars

(* An entry with runs to do is never stranded: its timer runs, its event bit
   is set, or process_event holds its event in hand. *)
Triggered(t, e) ==
  \/ e \in timers[t] \cup bits[t]
  \/ pc # "idle" /\ task = t /\ e \in events
ArmedHasTrigger ==
  \A n \in Nodes : node[n].cnt > 0 => Triggered(node[n].task, node[n].ev)

(* No event owns two entries (the duplicate test of Add_User_Event). *)
NoDuplicateEvent ==
  \A i, j \in 1..Len(list) : node[list[i]].ev = node[list[j]].ev => i = j

(* The device runs out of work again and again: bursts of expiring timers are
   shorter than the timers' durations.  A runaway entry breaks it. *)
Quiet == pc = "idle" /\ \A t \in Task : bits[t] = {}

(* As long as the device comes to rest, a one-shot arming is served: its
   callback is called, or the entry is cleared, also when it is armed while
   its callback runs. *)
Owed(n) == left[n] \in 1..Loop - 1
ArmedIsServed == []<>Quiet => \A n \in Node : Owed(n) ~> ~Owed(n)
=============================================================================
