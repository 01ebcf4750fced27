----------------------------- MODULE TimerTable -----------------------------
(***************************************************************************)
(* What the OSAL timers promise their callers: per task and event at most  *)
(* one timer runs; one that expires sets its event and is gone, unless it  *)
(* was started to reload; a stopped one sets nothing.  How the list of     *)
(* timer records does this while interrupts start and stop timers is the   *)
(* subject of OsalTimers.                                                  *)
(***************************************************************************)
CONSTANTS Task, Event

VARIABLES
  running,   \* the timers that will expire
  periodic,  \* those of them that will be reloaded
  bits       \* tasksEvents: per task the events that are set

Key == Task \X Event

Init ==
  /\ running = {}
  /\ periodic = {}
  /\ bits = [t \in Task |-> {}]

Start(k) ==
  /\ running' = running \cup {k}
  /\ UNCHANGED <<periodic, bits>>

StartReload(k) ==
  /\ running' = running \cup {k}
  /\ periodic' = periodic \cup {k}
  /\ UNCHANGED bits

Stop(k) ==
  /\ running' = running \ {k}
  /\ periodic' = periodic \ {k}
  /\ UNCHANGED bits

Notified(k) == [bits EXCEPT ![k[1]] = @ \cup {k[2]}]

Expire(k) ==
  /\ k \in running \ periodic
  /\ running' = running \ {k}
  /\ bits' = Notified(k)
  /\ UNCHANGED periodic

Reload(k) ==
  /\ k \in periodic
  /\ bits' = Notified(k)
  /\ UNCHANGED <<running, periodic>>

(* The scheduler hands the events of a task to its handler. *)
Take(t) ==
  /\ bits' = [bits EXCEPT ![t] = {}]
  /\ UNCHANGED <<running, periodic>>

Next ==
  \/ \E k \in Key : Start(k) \/ StartReload(k) \/ Stop(k) \/ Expire(k) \/ Reload(k)
  \/ \E t \in Task : Take(t)

vars == <<running, periodic, bits>>

Spec == Init /\ [][Next]_vars
=============================================================================
