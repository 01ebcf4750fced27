----------------------------- MODULE OsalTimers -----------------------------
(***************************************************************************)
(* The OSAL timers (Components/osal/common/OSAL_Timers.c): a list of       *)
(* records that osalTimerUpdate walks with one critical section per record *)
(* while interrupts may start and stop timers in between.  A stopped timer *)
(* only loses its event flag; the walk takes its record out of the list.   *)
(***************************************************************************)
EXTENDS Naturals, SequencesExt

CONSTANTS
  Task,
  Event,
  NoEvent,      \* event flag 0: the record is deleted
  Timeouts,     \* the time-outs timers are started with
  Periods,      \* those of the timers that reload
  Elapsed,      \* the elapsed times osalTimeUpdate reports
  Capacity      \* bound: the records the heap has room for

ASSUME ConstantsAssumption ==
  /\ NoEvent \notin Event
  /\ Timeouts \subseteq Nat
  /\ Periods \subseteq Nat \ {0}
  /\ Elapsed \subseteq Nat \ {0}
  /\ Capacity \in Nat

VARIABLES
  recs,    \* timerHead: the records in list order
  bits,    \* tasksEvents
  pc,      \* where osalTimerUpdate is; "idle" outside of it
  step,    \* its updateTime
  pos,     \* the place of srchTimer in the list, 0 for NULL
  freed    \* the record taken out of the list, until it is freed

vars == <<recs, bits, pc, step, pos, freed>>
walk == <<pc, step, pos, freed>>

(* The last three fields are history: the time since the timer was started,
   the time-out it was started with, and how much of it the walk during which
   it was started may take away. *)
Rec == [task : Task, ev : Event \cup {NoEvent}, timeout : Nat, reload : Nat,
        age : Nat, want : Nat, slack : Nat]

Init ==
  /\ recs = <<>>
  /\ bits = [t \in Task |-> {}]
  /\ pc = "idle"
  /\ step = 0
  /\ pos = 0
  /\ freed = {}

-----------------------------------------------------------------------------
(* Starting and stopping, in a critical section *)

(* osalFindTimer *)
Found(t, e, i) ==
  /\ i \in 1..Len(recs)
  /\ recs[i].task = t
  /\ recs[i].ev = e
  /\ \A j \in 1..i - 1 : recs[j].task # t \/ recs[j].ev # e

Slack == IF pc = "idle" THEN 0 ELSE step

NewRec(t, e, d, p) ==
  [task |-> t, ev |-> e, timeout |-> d, reload |-> p, age |-> 0, want |-> d,
   slack |-> Slack]

NotReset(r, d) == [r EXCEPT !.age = 0, !.want = d, !.slack = Slack]
Restarted(r, d) ==
  [r EXCEPT !.timeout = d, !.age = 0, !.want = d, !.slack = Slack]

(* osalAddTimer searches before it allocates. *)
NotSearched(t, e) == FALSE
Searched(t, e) == \E i \in 1..Len(recs) : recs[i].task = t /\ recs[i].ev = e

(* osal_start_timerEx: a record that is found keeps its reload time-out. *)
StartTimer(t, e, d) ==
  /\ \/ \E i \in 1..Len(recs) :
          /\ Searched(t, e)
          /\ Found(t, e, i)
          /\ recs' = [recs EXCEPT ![i] = Restarted(@, d)]
     \/ /\ ~Searched(t, e)
        /\ Len(recs) < Capacity
        /\ recs' = Append(recs, NewRec(t, e, d, 0))
  /\ UNCHANGED <<bits, walk>>

StartReload(t, e, d) ==
  /\ \/ \E i \in 1..Len(recs) :
          /\ Searched(t, e)
          /\ Found(t, e, i)
          /\ recs' = [recs EXCEPT ![i] = [Restarted(@, d) EXCEPT !.reload = d]]
     \/ /\ ~Searched(t, e)
        /\ Len(recs) < Capacity
        /\ recs' = Append(recs, NewRec(t, e, d, d))
  /\ UNCHANGED <<bits, walk>>

(* osal_stop_timerEx, osalDeleteTimer: the event flag is cleared. *)
Deleted(r) == [r EXCEPT !.ev = NoEvent, !.age = 0, !.want = 0, !.slack = 0]

StopTimer(t, e) ==
  /\ \E i \in 1..Len(recs) :
       /\ Found(t, e, i)
       /\ recs' = [recs EXCEPT ![i] = Deleted(@)]
  /\ UNCHANGED <<bits, walk>>

-----------------------------------------------------------------------------
(* osalTimerUpdate *)

(* The age of an overdue timer no longer counts (a bound of the history). *)
Aged(r, u) == [r EXCEPT !.age = IF @ > r.want THEN @ ELSE @ + u]

(* The system clock advances; every timer grows older. *)
BeginUpdate(u) ==
  /\ pc = "idle"
  /\ step' = u
  /\ recs' = [i \in 1..Len(recs) |->
                IF recs[i].ev = NoEvent THEN recs[i]
                ELSE Aged(recs[i], u)]
  /\ pc' = "head"
  /\ UNCHANGED <<bits, pos, freed>>

ReadHead ==
  /\ pc = "head"
  /\ pos' = IF recs = <<>> THEN 0 ELSE 1
  /\ pc' = "walk"
  /\ UNCHANGED <<recs, bits, step, freed>>

NextPos == IF pos = Len(recs) THEN 0 ELSE pos + 1

(* What the update leaves of a time-out. *)
Unreduced(d) == IF d <= step THEN 0 ELSE d
Reduced(d) == IF d <= step THEN 0 ELSE d - step

(* A running timer goes on. *)
TickOn ==
  /\ pc = "walk"
  /\ pos # 0
  /\ recs[pos].ev # NoEvent
  /\ Reduced(recs[pos].timeout) > 0
  /\ recs' = [recs EXCEPT ![pos].timeout = Reduced(@)]
  /\ pos' = NextPos
  /\ UNCHANGED <<bits, pc, step, freed>>

(* A timer that reloads sets its event and starts anew. *)
TickReload ==
  /\ pc = "walk"
  /\ pos # 0
  /\ recs[pos].ev # NoEvent
  /\ Reduced(recs[pos].timeout) = 0
  /\ recs[pos].reload # 0
  /\ bits' = [bits EXCEPT ![recs[pos].task] = @ \cup {recs[pos].ev}]
  /\ recs' = [recs EXCEPT ![pos].timeout = recs[pos].reload, ![pos].age = 0,
                          ![pos].want = recs[pos].reload, ![pos].slack = 0]
  /\ pos' = NextPos
  /\ UNCHANGED <<pc, step, freed>>

(* The walk moves on from the record it takes out of the list. *)
KeptPlace == NextPos
NextAfterRemoval == IF pos = Len(recs) THEN 0 ELSE pos

(* An expired timer leaves the list; its event is set after the critical
   section.  A deleted record leaves it too, and sets no event. *)
TickOut ==
  /\ pc = "walk"
  /\ pos # 0
  /\ \/ recs[pos].ev = NoEvent
     \/ Reduced(recs[pos].timeout) = 0 /\ recs[pos].reload = 0
  /\ recs' = RemoveAt(recs, pos)
  /\ freed' = IF recs[pos].ev = NoEvent THEN {} ELSE {<<recs[pos].task, recs[pos].ev>>}
  /\ pos' = NextAfterRemoval
  /\ pc' = "notify"
  /\ UNCHANGED <<bits, step>>

Notify ==
  /\ pc = "notify"
  /\ bits' = [t \in Task |-> bits[t] \cup {k[2] : k \in {f \in freed : f[1] = t}}]
  /\ freed' = {}
  /\ pc' = "walk"
  /\ UNCHANGED <<recs, step, pos>>

EndUpdate ==
  /\ pc = "walk"
  /\ pos = 0
  /\ pc' = "idle"
  /\ step' = 0
  /\ UNCHANGED <<recs, bits, pos, freed>>

(* osal_run_system hands a task its events. *)
Take(t) ==
  /\ pc = "idle"
  /\ bits' = [bits EXCEPT ![t] = {}]
  /\ UNCHANGED <<recs, walk>>

-----------------------------------------------------------------------------
Update == ReadHead \/ TickOn \/ TickReload \/ TickOut \/ Notify \/ EndUpdate

Next ==
  \/ \E t \in Task, e \in Event :
       \/ \E d \in Timeouts : StartTimer(t, e, d)
       \/ \E d \in Periods : StartReload(t, e, d)
       \/ StopTimer(t, e)
  \/ \E u \in Elapsed : BeginUpdate(u)
  \/ Update
  \/ \E t \in Task : Take(t)

Spec == Init /\ [][Next]_vars

(* The loop of osal_run_system never stops. *)
FairSpec ==
  /\ Spec
  /\ WF_vars(\E u \in Elapsed : BeginUpdate(u))
  /\ WF_vars(Update)

-----------------------------------------------------------------------------
(* Properties *)

TypeOK ==
  /\ recs \in Seq(Rec)
  /\ bits \in [Task -> SUBSET Event]
  /\ pc \in {"idle", "head", "walk", "notify"}
  /\ step \in Nat
  /\ pos \in 0..Len(recs)
  /\ freed \in SUBSET (Task \X Event)

(* No timer has two records, so stopping or restarting it reaches the record
   that will expire (osalFindTimer, osalAddTimer). *)
OneRecord ==
  \A i, j \in 1..Len(recs) :
    /\ recs[i].ev # NoEvent
    /\ recs[i].task = recs[j].task
    /\ recs[i].ev = recs[j].ev
    => i = j

(* The walk ends the life or the round of the running timer at its position. *)
Fires(i) == (TickOut \/ TickReload) /\ i = pos /\ recs[i].ev # NoEvent

(* A timer fires no earlier than its time-out after it was started, except
   that the walk in whose course an interrupt started it may already have
   counted once (osalTimerUpdate). *)
NeverEarly ==
  [][\A i \in 1..Len(recs) :
       Fires(i) => recs[i].age + recs[i].slack >= recs[i].want]_vars

(* Between two updates no running timer is overdue: the walk skips no record
   although it takes records out of the list it walks and interrupts append
   to it. *)
NeverLate ==
  pc = "idle" => \A i \in 1..Len(recs) :
    recs[i].ev # NoEvent => recs[i].age = 0 \/ recs[i].age < recs[i].want

(* Timers fire on time: neither early nor late. *)
OnTime == []NeverLate /\ NeverEarly

(* A timer that keeps running is restarted, or fires, again and again, as long
   as the walks come to an end. *)
Ages(t, e) == \E i \in 1..Len(recs) : Found(t, e, i) /\ recs[i].age > 0
Expires ==
  []<>(pc = "idle") => \A t \in Task, e \in Event : []<>~Ages(t, e)

(* The list of records implements the table of timers: a timer is running
   while its record keeps its event flag, and an expired one has set its event
   from the moment it leaves the list. *)
Holds(k, i) == recs[i].task = k[1] /\ recs[i].ev = k[2]
RunningKeys == {k \in Task \X Event : \E i \in 1..Len(recs) : Holds(k, i)}
PeriodicKeys ==
  {k \in Task \X Event : \E i \in 1..Len(recs) : Holds(k, i) /\ recs[i].reload # 0}
BitsSeen == [t \in Task |-> bits[t] \cup {k[2] : k \in {f \in freed : f[1] = t}}]

Table == INSTANCE TimerTable
           WITH running <- RunningKeys, periodic <- PeriodicKeys, bits <- BitsSeen
ImplementsTable == Table!Spec
=============================================================================
