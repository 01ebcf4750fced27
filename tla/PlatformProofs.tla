--------------------------- MODULE PlatformProofs ---------------------------
(***************************************************************************)
(* Proofs about what lies below the tasks: the clock and the sleep of the  *)
(* processor, the radio, the receiver of the serial line, and the heap.    *)
(*                                                                         *)
(* The radio's operators, as the C functions they stand for, take the      *)
(* record of the radio to the next one.  A lemma on a function says which  *)
(* parts of the record it keeps and which conjuncts of the invariant       *)
(* RadioOK it leaves true; the steps follow from those.                    *)
(***************************************************************************)
EXTENDS Platform, SleepyDevice, Integers, SequenceTheorems, FiniteSetTheorems, TLAPS

-----------------------------------------------------------------------------
(* Arithmetic *)

(* Remainders of numbers below twice the divisor                           *)
LEMMA ModBelow ==
  ASSUME NEW d \in Nat \ {0}, NEW x \in Nat, x < d
  PROVE  x % d = x
BY SMT

LEMMA ModAbove ==
  ASSUME NEW d \in Nat \ {0}, NEW x \in Nat, x >= d, x < d + d
  PROVE  x % d = x - d
BY SMT

LEMMA ModTwice ==
  ASSUME NEW d \in Nat \ {0}, NEW x \in Nat, x < d + d
  PROVE  x % d = IF x < d THEN x ELSE x - d
<1>1. CASE x < d
  BY <1>1, ModBelow
<1>2. CASE ~(x < d)
  <2>1. x >= d
    BY <1>2
  <2> QED BY <1>2, <2>1, ModAbove, Zenon
<1> QED BY <1>1, <1>2

(* Quotients of larger numbers are larger.                                 *)
LEMMA DivMonotone ==
  ASSUME NEW d \in Nat \ {0}, NEW a \in Nat, NEW b \in Nat, a <= b
  PROVE  a \div d <= b \div d
<1> DEFINE p == a \div d
           q == b \div d
           s == a % d
           t == b % d
<1>1. p \in Int /\ q \in Int /\ s \in 0..d - 1 /\ t \in 0..d - 1
  BY SMT
<1>2. a = d * p + s /\ b = d * q + t
  BY SMT
<1> HIDE DEF p, q, s, t
<1>3. SUFFICES ASSUME p > q PROVE FALSE
  BY <1>1, SMT DEF p, q
<1>4. p >= q + 1 BY <1>1, <1>3
<1>5. d * p >= d * (q + 1) BY <1>1, <1>4, SMT
<1>6. d * (q + 1) = d * q + d BY <1>1, SMT
<1> QED BY <1>1, <1>2, <1>5, <1>6, SMT

LEMMA ProductNat == ASSUME NEW a \in Nat, NEW b \in Nat PROVE a * b \in Nat
BY SMT

LEMMA DivNat ==
  ASSUME NEW d \in Nat \ {0}, NEW a \in Nat
  PROVE  a \div d \in Nat /\ a % d \in 0..d - 1 /\ (a >= d => a \div d >= 1)
<1>1. a % d \in 0..d-1 /\ a \div d \in Int BY SMT
<1>2. a = d * (a \div d) + (a % d) BY SMT
<1> QED BY <1>1, <1>2, SMT

LEMMA SumMod ==
  ASSUME NEW d \in Nat \ {0}, NEW x \in Nat, NEW y \in Nat, x < d, y <= d
  PROVE  (x + y) % d = (IF x + y < d THEN x + y ELSE x + y - d) /\ (x + y) % d \in 0..d-1
<1> DEFINE z == x + y
<1>1. z \in Nat /\ z < d + d OBVIOUS
<1> HIDE DEF z
<1>2. z % d = IF z < d THEN z ELSE z - d BY <1>1, ModTwice
<1>3. z % d \in 0..d-1 BY <1>1, DivNat
<1> QED BY <1>2, <1>3 DEF z

LEMMA DivBelow ==
  ASSUME NEW d \in Nat \ {0}, NEW q \in Nat, NEW a \in Nat, a < d * q
  PROVE  a \div d < q
<1> DEFINE p == a \div d
<1>1. p \in Nat /\ a % d \in 0..d-1 BY DivNat, Zenon
<1>2. a = d * p + (a % d) BY SMT
<1>3. d * p \in Nat /\ d * q \in Nat BY <1>1, SMT
<1> HIDE DEF p
<1>4. SUFFICES ASSUME p >= q PROVE FALSE BY <1>1 DEF p
<1>5. d * p >= d * q BY <1>1, <1>4, SMT
<1> QED BY <1>1, <1>2, <1>3, <1>5

-----------------------------------------------------------------------------
(* Types of the variables of the clock and of the sleep *)

LEMMA PowerConstants ==
  /\ ROLLOVER \in Nat \ {0} /\ WORD \in Nat \ {0} /\ NUM \in Nat \ {0} /\ DEN \in Nat \ {0}
  /\ QUOTIENT \in Nat \ {0} /\ DEN <= QUOTIENT /\ 2 * ROLLOVER < WORD
  /\ MAX_SLEEP \in Nat \ {0} /\ Debounce \in Nat \ {0} /\ Busy \in Nat \ {0}
  /\ PM_MIN_SLEEP \in Nat /\ TICKS_SUBTRACTED \in Nat
  /\ \A ms \in AppTimeouts : ms \in Nat \ {0}
  /\ \A mac \in MacTimeouts : mac \in Nat
  /\ Busy < TICKS_SUBTRACTED /\ TICKS_SUBTRACTED < ROLLOVER /\ ROLLOVER < WORD
BY SleepAssumption DEF S!PowerSaveAssumption

LEMMA TicksNat ==
  ASSUME NEW ms \in Nat
  PROVE  /\ S!Ticks(ms) \in Nat
         /\ ms # 0 => S!Ticks(ms) # 0
<1>1. ms * DEN \in Nat /\ (ms # 0 => ms * DEN >= 1)
  BY PowerConstants, SMT
<1>2. ms * DEN + NUM - 1 \in Nat /\ (ms # 0 => ms * DEN + NUM - 1 >= NUM)
  BY <1>1, PowerConstants
<1>3. (ms * DEN + NUM - 1) \div NUM \in Nat /\ (ms # 0 => (ms * DEN + NUM - 1) \div NUM >= 1)
  BY <1>2, DivNat, PowerConstants
<1> QED BY <1>3 DEF S!Ticks

LEMMA TicksMonotone ==
  ASSUME NEW a \in Nat, NEW b \in Nat, a <= b
  PROVE  S!Ticks(a) <= S!Ticks(b)
<1>1. a * DEN \in Nat /\ b * DEN \in Nat /\ a * DEN <= b * DEN
  BY PowerConstants, SMT
<1>2. /\ a * DEN + NUM - 1 \in Nat /\ b * DEN + NUM - 1 \in Nat
      /\ a * DEN + NUM - 1 <= b * DEN + NUM - 1
  BY <1>1, PowerConstants
<1>3. (a * DEN + NUM - 1) \div NUM <= (b * DEN + NUM - 1) \div NUM
  BY <1>2, DivMonotone, PowerConstants
<1> QED BY <1>3 DEF S!Ticks

(* The next timeout is 0 if no timer runs, and else that of a timer and    *)
(* no greater than any other (osal_next_timeout).                          *)
LEMMA NextTimeoutIs ==
  ASSUME timers \in [S!Timer -> Nat]
  PROVE  /\ S!NextTimeout \in Nat
         /\ \A k \in S!Timer : timers[k] # 0 => S!NextTimeout # 0 /\ S!NextTimeout <= timers[k]
<1> DEFINE X == S!Running
<1>1. X \subseteq Nat \ {0} /\ \A k \in S!Timer : timers[k] # 0 => timers[k] \in X
  BY DEF S!Running
<1>2. CASE X = {}
  BY <1>1, <1>2 DEF S!NextTimeout
<1>3. CASE X # {}
  <2>1. \E x \in X : \A y \in X : x <= y
    <3> DEFINE h == timers["hal"]
               a == timers["app"]
    <3>1. X = {h, a} \ {0} /\ h \in Nat /\ a \in Nat
      BY DEF S!Running, S!Timer
    <3> HIDE DEF X, h, a
    <3>2. CASE h = 0 \/ a = 0 \/ h <= a
      <4>1. CASE h = 0 BY <4>1, <3>1, <1>3
      <4>2. CASE h # 0 /\ a = 0 BY <4>2, <3>1, <1>3
      <4>3. CASE h # 0 /\ a # 0 /\ h <= a BY <4>3, <3>1
      <4> QED BY <3>2, <4>1, <4>2, <4>3
    <3>3. CASE h # 0 /\ a # 0 /\ a <= h BY <3>3, <3>1
    <3> QED BY <3>1, <3>2, <3>3
  <2>2. S!NextTimeout \in X /\ \A y \in X : S!NextTimeout <= y
    BY <1>3, <2>1 DEF S!NextTimeout, S!Min
  <2> QED BY <1>1, <2>2
<1> QED BY <1>2, <1>3

(* What the sleep timer is set to: a limit that is positive and leaves     *)
(* room for the ticks before the sleep.                                    *)
LEMMA LimitedIs ==
  ASSUME NEW timeout \in Nat
  PROVE  /\ S!Limited(timeout) \in Nat /\ S!Limited(timeout) <= timeout
         /\ S!Limited(timeout) <= ROLLOVER - TICKS_SUBTRACTED
         /\ timeout # 0 => S!Limited(timeout) # 0
<1> DEFINE X == {timeout, ROLLOVER - TICKS_SUBTRACTED, MAX_SLEEP}
<1>1. \E x \in X : \A y \in X : x <= y BY PowerConstants
<1>2. S!Limited(timeout) \in X /\ \A y \in X : S!Limited(timeout) <= y
  BY <1>1 DEF S!Limited, S!Min
<1> QED BY <1>2, PowerConstants

LEMMA PrecisionType ==
  ASSUME S!TypeOK
  PROVE  S!Overflow \in 0..WORD - 1 /\ S!Precision \in 0..WORD - 1 /\ S!Elapsed \in 0..WORD - 1
<1> USE PowerConstants
<1>0. /\ t2.ovf \in 0..ROLLOVER - 1 /\ count.accumulated \in 0..WORD - 1
      /\ clock.previousMacTimerTick \in 0..WORD - 1
  BY DEF S!TypeOK
<1>1. S!Overflow \in 0..WORD - 1
  <2>1. t2.ovf + count.accumulated \in Nat BY <1>0
  <2> QED BY <2>1, DivNat, Zenon DEF S!Overflow
<1>2. S!Precision \in 0..WORD - 1
  <2>1. S!Overflow + ROLLOVER \in Nat BY <1>1
  <2>2. (S!Overflow + ROLLOVER) % WORD \in 0..WORD - 1 BY <2>1, DivNat, Zenon
  <2> QED BY <1>1, <2>2 DEF S!Precision
<1>3. S!Elapsed \in 0..WORD - 1
  <2>1. S!Precision + WORD - clock.previousMacTimerTick \in Nat BY <1>0, <1>2
  <2> QED BY <2>1, DivNat, Zenon DEF S!Elapsed
<1> QED BY <1>1, <1>2, <1>3

LEMMA PowerTypeInit == ASSUME S!Init PROVE S!TypeOK
<1>1. timers \in [S!Timer -> Nat] BY DEF S!Init
<1>2. 0 \in 0..WORD - 1 /\ 0 \in 0..ROLLOVER - 1 /\ 0 \in 0..QUOTIENT - 1 BY PowerConstants
<1>3. count \in [accumulated : 0..(WORD - 1), prev : 0..(WORD - 1),
                prevAccumulated : 0..(WORD - 1), updated : BOOLEAN]
  BY <1>2 DEF S!Init
<1>4. S!NoSleep \in [timed : BOOLEAN, left : Nat] BY DEF S!NoSleep
<1> QED BY <1>1, <1>2, <1>3, <1>4, Zenon DEF S!Init, S!TypeOK

LEMMA PowerTypeStep == ASSUME S!TypeOK, [S!Next]_(S!vars) PROVE S!TypeOK'
<1> USE PowerConstants DEF S!TypeOK, S!hw
<1>1. CASE S!TimeUpdate
  <2>1. count' \in [accumulated : 0..(WORD - 1), prev : 0..(WORD - 1),
                    prevAccumulated : 0..(WORD - 1), updated : BOOLEAN]
    <3>1. (count.accumulated + ROLLOVER) % WORD \in 0..WORD - 1
      <4>1. count.accumulated + ROLLOVER \in Nat OBVIOUS
      <4> QED BY <4>1, DivNat, Zenon
    <3>2. S!RolledOver \in BOOLEAN BY DEF S!RolledOver
    <3> QED BY <1>1, <3>1, <3>2, PrecisionType DEF S!TimeUpdate, S!Counted
  <2>2. clock' \in [previousMacTimerTick : 0..(WORD - 1), remUsTicks : 0..(QUOTIENT - 1),
                    elapsedMSec : 0..(QUOTIENT - 1)]
    <3> DEFINE units == (S!Elapsed * NUM + clock.remUsTicks) % WORD
    <3>1. units \in Nat
      <4>1. S!Elapsed \in Nat BY PrecisionType
      <4>2. S!Elapsed * NUM \in Nat BY <4>1, ProductNat
      <4>3. S!Elapsed * NUM + clock.remUsTicks \in Nat BY <4>2
      <4>4. units \in 0..WORD - 1 BY <4>3, DivNat, Zenon
      <4> QED BY <4>4
    <3>2. /\ units < DEN * QUOTIENT =>
               clock' = [previousMacTimerTick |-> S!Precision, remUsTicks |-> units % DEN,
                         elapsedMSec |-> units \div DEN]
          /\ ~(units < DEN * QUOTIENT) =>
               \E rem, ms \in 0..(QUOTIENT - 1) :
                 clock' = [previousMacTimerTick |-> S!Precision, remUsTicks |-> rem,
                           elapsedMSec |-> ms]
      <4>1. units >= DEN * QUOTIENT => ~(units < DEN * QUOTIENT)
        <5>1. DEN * QUOTIENT \in Nat BY ProductNat
        <5> QED BY <3>1, <5>1
      <4> QED BY <1>1, <4>1, Zenon DEF S!TimeUpdate
    <3> HIDE DEF units
    <3>3. CASE units < DEN * QUOTIENT
      <4>1. units % DEN \in 0..DEN - 1 /\ units \div DEN \in Nat
        BY <3>1, DivNat, Zenon
      <4>2. units \div DEN < QUOTIENT BY <3>1, <3>3, DivBelow
      <4> QED BY <3>2, <3>3, <4>1, <4>2, PrecisionType
    <3>4. CASE ~(units < DEN * QUOTIENT)
      BY <3>2, <3>4, PrecisionType
    <3> QED BY <3>3, <3>4
  <2>3. wrapping' \in BOOLEAN BY <1>1, <2>1 DEF S!TimeUpdate, S!MayWrap
  <2> QED BY <1>1, <2>1, <2>2, <2>3 DEF S!TimeUpdate
<1>2. CASE S!TimerUpdate
  <2>1. timers' \in [S!Timer -> Nat]
    BY <1>2 DEF S!TimerUpdate
  <2>2. tasksEvents' \subseteq S!Task
    BY <1>2 DEF S!TimerUpdate, S!Expired, S!Timer, S!Task
  <2>3. clock' \in [previousMacTimerTick : 0..(WORD - 1), remUsTicks : 0..(QUOTIENT - 1),
                    elapsedMSec : 0..(QUOTIENT - 1)]
    BY <1>2 DEF S!TimerUpdate
  <2> QED BY <1>2, <2>1, <2>2, <2>3 DEF S!TimerUpdate
<1>3. CASE S!ProcessPoll BY <1>3 DEF S!ProcessPoll
<1>4. CASE S!RunTask
  <2>1. tasksEvents' \subseteq S!Task BY <1>4 DEF S!RunTask
  <2>2. timers' \in [S!Timer -> Nat] BY <1>4 DEF S!RunTask, S!Timer
  <2>3. battery' \in BOOLEAN BY <1>4 DEF S!RunTask
  <2> QED BY <1>4, <2>1, <2>2, <2>3 DEF S!RunTask
<1>5. CASE S!Idle BY <1>5 DEF S!Idle
<1>6. CASE S!Conserve
  <2>1. S!Ticks(S!NextTimeout) \in Nat BY NextTimeoutIs, TicksNat
  <2> QED BY <1>6, <2>1 DEF S!Conserve
<1>n. S!NoSleep \in [timed : BOOLEAN, left : Nat] BY DEF S!NoSleep
<1>7. CASE S!HalSleep
  <2>1. sleep' \in [timed : BOOLEAN, left : Nat]
    <3>1. PICK mac \in MacTimeouts :
            \/ sleep' = [timed |-> S!Lesser(sleep.left, mac) # 0, left |-> S!Lesser(sleep.left, mac)]
            \/ sleep' = S!NoSleep
      BY <1>7, Zenon DEF S!HalSleep
    <3>2. S!Lesser(sleep.left, mac) \in Nat
      <4>1. mac \in Nat /\ sleep.left \in Nat OBVIOUS
      <4>2. S!Lesser(sleep.left, mac) \in {mac, sleep.left} BY Zenon DEF S!Lesser
      <4> QED BY <4>1, <4>2
    <3> DEFINE n == S!Lesser(sleep.left, mac)
    <3>3. sleep' = [timed |-> n # 0, left |-> n] \/ sleep' = S!NoSleep BY <3>1, Zenon
    <3>4. n \in Nat BY <3>2
    <3> HIDE DEF n
    <3>5. [timed |-> n # 0, left |-> n] \in [timed : BOOLEAN, left : Nat]
      <4>1. (n # 0) \in BOOLEAN OBVIOUS
      <4> QED BY <3>4, <4>1
    <3> QED BY <3>3, <3>5, <1>n, Zenon
  <2>2. pc' \in {"off", "update"} BY <1>7, Zenon DEF S!HalSleep
  <2>3. UNCHANGED <<tasksEvents, timers, battery, halSleepPconValue, count, clock, t2, lag, wrapping>>
    BY <1>7 DEF S!HalSleep
  <2> QED BY <2>1, <2>2, <2>3
<1>8. CASE S!Prepare
  <2>1. S!Limited(sleep.left) \in Nat
    <3>1. sleep.left \in Nat OBVIOUS
    <3> QED BY <3>1, LimitedIs
  <2>2. sleep' \in [timed : BOOLEAN, left : Nat]
    <3>1. sleep' = [sleep EXCEPT !.left = S!Limited(@)] \/ sleep' = S!NoSleep
      BY <1>8, Zenon DEF S!Prepare
    <3> QED BY <2>1, <3>1, <1>n
  <2>3. pc' \in {"window", "update"} /\ halSleepPconValue' \in BOOLEAN
    BY <1>8, Zenon DEF S!Prepare
  <2>4. UNCHANGED <<tasksEvents, timers, battery, count, clock, t2, lag, wrapping>>
    BY <1>8 DEF S!Prepare
  <2> QED BY <2>2, <2>3, <2>4
<1>9. CASE S!SetSleepMode BY <1>9 DEF S!SetSleepMode
<1>10. CASE S!ExitSleep BY <1>10 DEF S!ExitSleep, S!NoSleep
<1>11. CASE S!Tick
  <2>1. t2' \in [ovf : 0..(ROLLOVER - 1), period : BOOLEAN]
    <3>1. CASE t2.ovf + 1 = ROLLOVER
      <4>1. PICK p \in (IF S!Asleep THEN {t2.period, TRUE} ELSE {TRUE}) :
              t2' = [ovf |-> 0, period |-> p]
        BY <1>11, <3>1, Zenon DEF S!Tick
      <4>2. p \in BOOLEAN BY <4>1, Zenon
      <4> QED BY <4>1, <4>2
    <3>2. CASE t2.ovf + 1 # ROLLOVER
      BY <1>11, <3>2 DEF S!Tick
    <3> QED BY <3>1, <3>2
  <2>2. sleep' \in [timed : BOOLEAN, left : Nat] /\ lag' \in Nat
    BY <1>11 DEF S!Tick, S!TimerRuns
  <2>3. halSleepPconValue' \in BOOLEAN /\ pc' \in {pc, "woken"}
    BY <1>11, Zenon DEF S!Tick
  <2> QED BY <1>11, <2>1, <2>2, <2>3 DEF S!Tick
<1>12. CASE S!PortIsr BY <1>12, Zenon DEF S!PortIsr, S!Wakes, S!Timer
<1>13. CASE S!MacIsr BY <1>13, Zenon DEF S!MacIsr, S!Task
<1>14. CASE S!PeriodIsr
  <2>1. (count.accumulated + ROLLOVER) % WORD \in 0..WORD - 1
    <3>1. count.accumulated + ROLLOVER \in Nat OBVIOUS
    <3> QED BY <3>1, DivNat, Zenon
  <2>2. wrapping' \in BOOLEAN BY <1>14 DEF S!PeriodIsr, S!MayWrap
  <2> QED BY <1>14, <2>1, <2>2, Zenon DEF S!PeriodIsr
<1>15. CASE UNCHANGED S!vars BY <1>15 DEF S!vars
<1> QED
  BY <1>1, <1>2, <1>3, <1>4, <1>5, <1>6, <1>7, <1>8, <1>9, <1>10, <1>11, <1>12, <1>13,
     <1>14, <1>15 DEF S!Next, S!Loop

-----------------------------------------------------------------------------
(* Going to sleep.  From the scan of the tasks on, a value of PCON that is *)
(* still set says that no interrupt has come, so that what was found then  *)
(* of the events and of the timers is still so.                            *)

TimersWake ==
  \A k \in S!Timer : timers[k] # 0 => sleep.timed /\ sleep.left <= S!Ticks(timers[k])

RestInv ==
  /\ S!TypeOK
  /\ halSleepPconValue /\ pc \in {"conserve", "halSleep", "off", "window"} => tasksEvents = {}
  /\ halSleepPconValue /\ pc = "halSleep" =>
       \A k \in S!Timer : timers[k] # 0 => sleep.left # 0 /\ sleep.left <= S!Ticks(timers[k])
  /\ halSleepPconValue /\ pc \in {"off", "window"} => TimersWake
  /\ pc = "asleep" => tasksEvents = {} /\ TimersWake

LEMMA RestStep == ASSUME RestInv, [S!Next]_(S!vars) PROVE RestInv'
<1>0. S!TypeOK /\ S!TypeOK'
  BY PowerTypeStep DEF RestInv
<1>a. \A k \in S!Timer : timers[k] \in Nat /\ S!Ticks(timers[k]) \in Nat
  BY <1>0, TicksNat DEF S!TypeOK
<1> USE DEF RestInv, S!hw
<1>1. CASE \/ S!TimeUpdate \/ S!TimerUpdate \/ S!ProcessPoll \/ S!RunTask \/ S!ExitSleep
  BY <1>0, <1>1 DEF S!TimeUpdate, S!TimerUpdate, S!ProcessPoll, S!RunTask, S!ExitSleep
<1>2. CASE S!Idle BY <1>0, <1>2 DEF S!Idle
<1>3. CASE S!Conserve
  <2>1. /\ sleep'.left = S!Ticks(S!NextTimeout) /\ UNCHANGED <<timers, tasksEvents>>
        /\ pc = "conserve" /\ pc' = "halSleep" /\ UNCHANGED halSleepPconValue
    BY <1>3 DEF S!Conserve
  <2>2. \A k \in S!Timer : timers[k] # 0 =>
          /\ S!Ticks(S!NextTimeout) # 0
          /\ S!Ticks(S!NextTimeout) <= S!Ticks(timers[k])
    BY <1>0, <1>a, NextTimeoutIs, TicksNat, TicksMonotone DEF S!TypeOK
  <2> QED BY <1>0, <2>1, <2>2
<1>4. CASE S!HalSleep
  <2>0. CASE pc' = "update" BY <1>0, <2>0
  <2> SUFFICES ASSUME pc' # "update" PROVE RestInv'
    BY <2>0
  <2>1. PICK mac \in MacTimeouts :
          sleep' = [timed |-> S!Lesser(sleep.left, mac) # 0, left |-> S!Lesser(sleep.left, mac)]
    BY <1>4 DEF S!HalSleep
  <2>2. mac \in Nat /\ sleep.left \in Nat
    BY <1>0, PowerConstants DEF S!TypeOK
  <2>3. sleep.left # 0 => S!Lesser(sleep.left, mac) # 0 /\ S!Lesser(sleep.left, mac) <= sleep.left
    BY <2>2 DEF S!Lesser
  <2>4. S!Lesser(sleep.left, mac) \in Nat BY <2>2 DEF S!Lesser
  <2>5. halSleepPconValue => TimersWake'
    <3> SUFFICES ASSUME halSleepPconValue, NEW k \in S!Timer, timers'[k] # 0
                 PROVE  sleep'.timed /\ sleep'.left <= S!Ticks(timers'[k])
      BY DEF TimersWake, S!Ticks
    <3>1. timers' = timers /\ pc = "halSleep" BY <1>4 DEF S!HalSleep
    <3>2. sleep.left # 0 /\ sleep.left <= S!Ticks(timers[k]) BY <3>1
    <3>3. sleep'.timed = (S!Lesser(sleep.left, mac) # 0) /\ sleep'.left = S!Lesser(sleep.left, mac)
      BY <2>1
    <3>4. sleep'.left <= S!Ticks(timers[k]) BY <3>2, <3>3, <2>2, <2>3, <2>4, <1>a
    <3> QED BY <3>1, <3>2, <3>3, <3>4, <2>3, Zenon
  <2> QED BY <1>0, <1>4, <2>5 DEF S!HalSleep
<1>5. CASE S!Prepare
  <2>1. sleep.left \in Nat BY <1>0 DEF S!TypeOK
  <2>2. S!Limited(sleep.left) \in Nat /\ S!Limited(sleep.left) <= sleep.left
    BY <2>1, LimitedIs
  <2>3. CASE halSleepPconValue /\ sleep' = [sleep EXCEPT !.left = S!Limited(@)]
    <3>1. sleep'.timed = sleep.timed /\ sleep'.left = S!Limited(sleep.left)
      BY <1>0, <2>3 DEF S!TypeOK
    <3>2. timers' = timers /\ pc = "off" BY <1>5 DEF S!Prepare
    <3>3. TimersWake BY <2>3, <3>2
    <3>4. TimersWake'
      BY <3>1, <3>2, <3>3, <2>1, <2>2, <1>a DEF TimersWake, S!Ticks
    <3> QED BY <1>0, <1>5, <2>3, <3>4, Zenon DEF S!Prepare
  <2>4. CASE pc' = "update" BY <1>0, <2>4
  <2> QED BY <1>5, <2>3, <2>4 DEF S!Prepare
<1>6. CASE S!SetSleepMode
  BY <1>0, <1>6 DEF S!SetSleepMode, TimersWake, S!Ticks
<1>7. CASE S!Tick
  <2>1. UNCHANGED <<timers, tasksEvents>> BY <1>7 DEF S!Tick
  <2>2. sleep.left \in Nat BY <1>0 DEF S!TypeOK
  <2>3. sleep'.timed = sleep.timed /\ sleep'.left \in Nat /\ sleep'.left <= sleep.left
    BY <1>0, <1>7, <2>2 DEF S!Tick, S!TypeOK, S!TimerRuns
  <2>4. TimersWake => TimersWake'
    BY <2>1, <2>2, <2>3, <1>a DEF TimersWake, S!Ticks
  <2>5. /\ pc' = pc \/ (pc = "asleep" /\ pc' = "woken")
        /\ (pc' = pc /\ halSleepPconValue') => (halSleepPconValue \/ pc' = "asleep")
    <3>1. CASE S!TimerRuns /\ sleep.left = 1
      <4>1. halSleepPconValue' = FALSE /\ pc' = IF S!Asleep THEN "woken" ELSE pc
        BY <1>7, <3>1 DEF S!Tick
      <4> QED BY <4>1, Zenon DEF S!Asleep
    <3>2. CASE ~(S!TimerRuns /\ sleep.left = 1)
      <4>1. pc' = pc /\ halSleepPconValue' = halSleepPconValue
        BY <1>7, <3>2 DEF S!Tick
      <4> QED BY <4>1, Zenon
    <3> QED BY <3>1, <3>2
  <2>6. pc = "halSleep" => sleep' = sleep BY <1>7 DEF S!Tick, S!TimerRuns
  <2> QED BY <1>0, <2>1, <2>4, <2>5, <2>6 DEF S!Ticks
<1>8. CASE S!PortIsr
  BY <1>0, <1>8 DEF S!PortIsr, S!Wakes, S!Asleep
<1>9. CASE S!MacIsr
  BY <1>0, <1>9 DEF S!MacIsr, S!Masked
<1>10. CASE S!PeriodIsr
  BY <1>0, <1>10 DEF S!PeriodIsr, S!Masked
<1>11. CASE UNCHANGED S!vars
  BY <1>0, <1>11 DEF S!vars, TimersWake, S!Ticks
<1> QED
  BY <1>1, <1>2, <1>3, <1>4, <1>5, <1>6, <1>7, <1>8, <1>9, <1>10, <1>11 DEF S!Next, S!Loop

(* Whatever interrupts come between the scan of the tasks and the write to *)
(* PCON (halSleep, halSetSleepMode), and whatever the timeouts, the        *)
(* processor sleeps only while nothing waits for it, and never longer than *)
(* to the next timeout.                                                    *)
THEOREM SleepsOnlyIdle == S!Spec => []NothingAwaitsSleeper
<1>1. S!Init => RestInv
  BY PowerTypeInit, Zenon DEF S!Init, RestInv
<1>2. RestInv /\ [S!Next]_(S!vars) => RestInv'
  BY RestStep
<1>3. RestInv => NothingAwaitsSleeper
  BY DEF RestInv, TimersWake, NothingAwaitsSleeper, S!NothingAwaitsSleeper, S!Asleep
<1> QED BY <1>1, <1>2, <1>3, PTL DEF S!Spec

-----------------------------------------------------------------------------
(* The clock.  Since the last reading T2 has rolled over at most once, as  *)
(* fewer ticks have gone by than it counts.                                *)

FewTicks ==
  /\ lag < ROLLOVER
  /\ pc \notin {"update", "asleep", "woken"} => lag <= Busy
  /\ pc = "off" /\ sleep.timed => sleep.left # 0
  /\ pc \in {"window", "asleep"} /\ sleep.timed =>
       /\ lag + sleep.left < ROLLOVER
       /\ sleep.left = 0 => pc = "window" /\ halSleepPconValue = FALSE

LEMMA FewTicksStep ==
  ASSUME S!TypeOK, FewTicks, [S!Next]_(S!vars)
  PROVE  FewTicks'
<1> USE PowerConstants DEF FewTicks, S!TypeOK, S!hw
<1>1. CASE S!TimeUpdate BY <1>1 DEF S!TimeUpdate
<1>2. CASE S!TimerUpdate \/ S!ProcessPoll \/ S!RunTask \/ S!Idle \/ S!ExitSleep
  <2>1. /\ pc' \notin {"off", "window", "asleep"} /\ lag' = lag
        /\ pc' \notin {"update", "woken"} => pc \notin {"update", "asleep", "woken"}
    BY <1>2 DEF S!TimerUpdate, S!ProcessPoll, S!RunTask, S!Idle, S!ExitSleep
  <2> QED BY <2>1
<1>3. CASE S!Conserve
  <2>1. pc' = "halSleep" /\ pc = "conserve" /\ lag' = lag BY <1>3 DEF S!Conserve
  <2> QED BY <2>1
<1>4. CASE S!HalSleep
  <2>1. pc = "halSleep" /\ pc' \in {"off", "update"} /\ lag' = lag
    BY <1>4 DEF S!HalSleep
  <2>2. \E n : sleep' = [timed |-> n # 0, left |-> n]
    <3>1. S!NoSleep = [timed |-> 0 # 0, left |-> 0] BY DEF S!NoSleep
    <3> QED BY <1>4, <3>1, Zenon DEF S!HalSleep
  <2>3. sleep'.timed => sleep'.left # 0
    <3>1. PICK n : sleep' = [timed |-> n # 0, left |-> n] BY <2>2, Zenon
    <3>2. sleep'.timed = (n # 0) /\ sleep'.left = n BY <3>1
    <3> QED BY <3>2, Zenon
  <2> QED BY <2>1, <2>3
<1>5. CASE S!Prepare
  <2>1. /\ S!Limited(sleep.left) \in Nat
        /\ S!Limited(sleep.left) <= ROLLOVER - TICKS_SUBTRACTED
        /\ sleep.left # 0 => S!Limited(sleep.left) # 0
    BY LimitedIs
  <2>2. CASE sleep' = [sleep EXCEPT !.left = S!Limited(@)] /\ pc' = "window"
    <3>1. sleep'.timed = sleep.timed /\ sleep'.left = S!Limited(sleep.left)
      BY <2>2
    <3>2. pc = "off" /\ lag' = lag BY <1>5 DEF S!Prepare
    <3> QED BY <2>1, <2>2, <3>1, <3>2
  <2>3. CASE pc' = "update" BY <1>5, <2>3 DEF S!Prepare
  <2> QED BY <1>5, <2>2, <2>3, Zenon DEF S!Prepare
<1>6. CASE S!SetSleepMode BY <1>6 DEF S!SetSleepMode
<1>7. CASE S!Tick
  <2>1. lag' = lag + 1 /\ (S!Asleep => sleep.timed)
    BY <1>7 DEF S!Tick
  <2>2. ~S!Asleep => lag' < ROLLOVER /\ (pc \notin {"woken", "update"} => lag' <= Busy)
    BY <1>7, <2>1 DEF S!Tick
  <2>3. CASE S!TimerRuns
    <3>1. pc \in {"window", "asleep"} /\ sleep.timed /\ sleep.left # 0
      BY <2>3 DEF S!TimerRuns
    <3>2. sleep'.timed = sleep.timed /\ sleep'.left = sleep.left - 1
      BY <1>7, <2>3 DEF S!Tick
    <3>3. sleep.left = 1 =>
            halSleepPconValue' = FALSE /\ pc' = IF S!Asleep THEN "woken" ELSE pc
      BY <1>7, <2>3 DEF S!Tick
    <3>4. sleep.left # 1 => pc' = pc
      BY <1>7, <2>3 DEF S!Tick
    <3> QED BY <2>1, <2>2, <3>1, <3>2, <3>3, <3>4 DEF S!Asleep
  <2>4. CASE ~S!TimerRuns
    <3>1. sleep' = sleep /\ pc' = pc /\ halSleepPconValue' = halSleepPconValue
      BY <1>7, <2>4 DEF S!Tick
    <3>2. ~S!Asleep BY <2>1, <2>4 DEF S!Asleep, S!TimerRuns
    <3>3. pc = "window" /\ sleep.timed => sleep.left = 0
      BY <2>4 DEF S!TimerRuns
    <3> QED BY <2>1, <2>2, <3>1, <3>2, <3>3 DEF S!Asleep
  <2> QED BY <2>3, <2>4, Zenon
<1>8. CASE S!PortIsr BY <1>8 DEF S!PortIsr, S!Wakes, S!Asleep
<1>9. CASE S!MacIsr BY <1>9 DEF S!MacIsr, S!Masked
<1>10. CASE S!PeriodIsr BY <1>10 DEF S!PeriodIsr, S!Masked
<1>11. CASE UNCHANGED S!vars BY <1>11 DEF S!vars
<1> QED
  BY <1>1, <1>2, <1>3, <1>4, <1>5, <1>6, <1>7, <1>8, <1>9, <1>10, <1>11, Zenon DEF S!Next, S!Loop

(* Until the count may wrap, a rollover since the last reading has become  *)
(* one of three things: there was none, its interrupt has counted it, or   *)
(* it is not counted yet.                                                  *)
Level ==
  /\ count.accumulated = count.prevAccumulated
  /\ t2.ovf + count.accumulated = count.prev + lag
Ahead ==
  /\ count.accumulated = count.prevAccumulated + ROLLOVER
  /\ t2.ovf + count.accumulated = count.prev + lag
ClockBehind ==
  /\ count.accumulated = count.prevAccumulated
  /\ t2.ovf + count.accumulated + ROLLOVER = count.prev + lag

CountInv ==
  /\ count.prev = clock.previousMacTimerTick
  /\ count.accumulated + 2 * ROLLOVER <= WORD
  /\ count.prevAccumulated <= count.prev
  /\ count.prev < count.prevAccumulated + ROLLOVER
  /\ Level \/ Ahead \/ ClockBehind
  /\ t2.period /\ ~count.updated => ClockBehind

LEMMA Reading ==
  ASSUME S!TypeOK, FewTicks, CountInv
  PROVE  /\ S!RolledOver <=> ClockBehind
         /\ S!Precision = count.prev + lag
         /\ S!Elapsed = lag
         /\ (count.accumulated + ROLLOVER) % WORD = count.accumulated + ROLLOVER
         /\ S!Precision =
              t2.ovf + IF ~ClockBehind THEN count.accumulated ELSE count.accumulated + ROLLOVER
<1> DEFINE o == t2.ovf
           A == count.accumulated
           PA == count.prevAccumulated
           P == count.prev
<1>0. /\ WORD \in Nat \ {0} /\ ROLLOVER \in Nat \ {0} /\ ROLLOVER < WORD
      /\ o \in Nat /\ A \in Nat /\ PA \in Nat /\ P \in Nat /\ lag \in Nat
      /\ o < ROLLOVER /\ lag < ROLLOVER /\ P < WORD
      /\ P = clock.previousMacTimerTick
      /\ A + ROLLOVER + ROLLOVER <= WORD /\ PA <= P /\ P < PA + ROLLOVER
  BY PowerConstants DEF S!TypeOK, FewTicks, CountInv
<1>a. /\ Level <=> A = PA /\ o + A = P + lag
      /\ Ahead <=> A = PA + ROLLOVER /\ o + A = P + lag
      /\ ClockBehind <=> A = PA /\ o + A + ROLLOVER = P + lag
      /\ Level \/ Ahead \/ ClockBehind
  BY <1>0 DEF Level, Ahead, ClockBehind, CountInv
<1>b. /\ S!Overflow = (o + A) % WORD
      /\ S!RolledOver <=> P > S!Overflow /\ PA = A
      /\ S!Precision = IF S!RolledOver THEN (S!Overflow + ROLLOVER) % WORD ELSE S!Overflow
      /\ S!Elapsed = (S!Precision + WORD - P) % WORD
  BY <1>0 DEF S!Overflow, S!RolledOver, S!Precision, S!Elapsed
<1> HIDE DEF o, A, PA, P
<1>1. S!Overflow = o + A
  <2>1. o + A \in Nat /\ o + A < WORD BY <1>0
  <2> QED BY <2>1, <1>0, <1>b, ModBelow
<1>2. S!RolledOver <=> ClockBehind
  BY <1>0, <1>a, <1>b, <1>1
<1>3. S!Precision = P + lag /\ P + lag \in Nat /\ P + lag < WORD
  <2>1. CASE ClockBehind
    <3>1. S!Overflow + ROLLOVER = P + lag BY <1>0, <1>1, <1>a, <2>1
    <3>2. S!Precision = (P + lag) % WORD BY <1>2, <1>b, <2>1, <3>1
    <3>3. P + lag \in Nat /\ P + lag < WORD BY <1>0, <1>a, <2>1
    <3> QED BY <3>2, <3>3, <1>0, ModBelow
  <2>2. CASE ~ClockBehind
    BY <1>0, <1>a, <1>b, <1>1, <1>2, <2>2
  <2> QED BY <2>1, <2>2
<1>4. S!Elapsed = lag
  <2>1. S!Precision + WORD - P = lag + WORD BY <1>0, <1>3
  <2>2. PICK x \in Nat : x = lag + WORD BY <1>0
  <2>3. x >= WORD /\ x < WORD + WORD BY <1>0, <2>2
  <2>4. x % WORD = x - WORD BY <1>0, <2>3, ModAbove, Zenon
  <2> QED BY <1>0, <1>b, <2>1, <2>2, <2>4
<1>5. (A + ROLLOVER) % WORD = A + ROLLOVER
  BY <1>0, ModBelow
<1>6. S!Precision = o + (IF ~ClockBehind THEN A ELSE A + ROLLOVER)
  BY <1>0, <1>a, <1>3
<1> QED BY <1>2, <1>3, <1>4, <1>5, <1>6 DEF o, A, P

LEMMA CountStep ==
  ASSUME S!TypeOK, FewTicks, CountInv, [S!Next]_(S!vars),
         count'.accumulated + 2 * ROLLOVER <= WORD
  PROVE  CountInv'
<1> USE PowerConstants
<1>0. S!TypeOK' BY PowerTypeStep
<1>a. lag' < ROLLOVER BY FewTicksStep, Zenon DEF FewTicks
<1> USE DEF S!TypeOK, CountInv, S!hw
<1>1. CASE S!TimeUpdate
  <2> DEFINE acc == IF ClockBehind THEN count.accumulated + ROLLOVER ELSE count.accumulated
  <2>1. /\ count'.accumulated = acc /\ count'.prevAccumulated = acc
        /\ count'.prev = S!Precision
        /\ count'.updated = (count.updated \/ ClockBehind)
    BY <1>1, Reading DEF S!TimeUpdate, S!Counted
  <2>2. t2' = t2 /\ lag' = 0 /\ clock'.previousMacTimerTick = S!Precision
    BY <1>1 DEF S!TimeUpdate
  <2>3. S!Precision = t2.ovf + acc
    BY Reading
  <2>4. acc \in Nat OBVIOUS
  <2> HIDE DEF acc
  <2>5. t2'.period => count'.updated
    <3>1. t2.period => count.updated \/ ClockBehind OBVIOUS
    <3> QED BY <2>1, <2>2, <3>1, Zenon
  <2> QED BY <1>0, <2>1, <2>2, <2>3, <2>4, <2>5 DEF Level
<1>2. CASE \/ S!TimerUpdate \/ S!ProcessPoll \/ S!RunTask \/ S!Idle \/ S!Conserve
           \/ S!HalSleep \/ S!Prepare \/ S!SetSleepMode \/ S!ExitSleep
  <2>1. /\ UNCHANGED <<count, t2, lag>>
        /\ clock'.previousMacTimerTick = clock.previousMacTimerTick
    BY <1>2 DEF S!TimerUpdate, S!ProcessPoll, S!RunTask, S!Idle, S!Conserve, S!HalSleep,
         S!Prepare, S!SetSleepMode, S!ExitSleep
  <2> QED BY <2>1 DEF Level, Ahead, ClockBehind
<1>3. CASE S!Tick
  <2>0. count' = count /\ clock' = clock /\ lag' = lag + 1
    BY <1>3 DEF S!Tick
  <2>1. CASE t2.ovf + 1 = ROLLOVER
    <3>1. t2'.ovf = 0
      <4>1. \E p \in {t2.period, TRUE} : t2' = [ovf |-> 0, period |-> p]
        BY <1>3, <2>1, Zenon DEF S!Tick
      <4> QED BY <4>1
    <3>2. ClockBehind' BY <1>a, <2>0, <2>1, <3>1 DEF Level, Ahead, ClockBehind
    <3> QED BY <2>0, <3>2
  <2>2. CASE t2.ovf + 1 # ROLLOVER
    <3>1. t2'.ovf = t2.ovf + 1 /\ t2'.period = t2.period BY <1>3, <2>2 DEF S!Tick
    <3>2. (ClockBehind => ClockBehind') /\ (Level => Level') /\ (Ahead => Ahead')
      BY <2>0, <3>1 DEF Level, Ahead, ClockBehind
    <3> QED BY <2>0, <3>1, <3>2
  <2> QED BY <2>1, <2>2
<1>4. CASE S!PortIsr \/ S!MacIsr
  BY <1>4 DEF S!PortIsr, S!MacIsr, Level, Ahead, ClockBehind
<1>5. CASE S!PeriodIsr
  <2>0. UNCHANGED <<clock, lag>> /\ t2'.ovf = t2.ovf /\ t2'.period = FALSE /\ t2.period
    BY <1>5 DEF S!PeriodIsr
  <2>1. CASE count.updated
    <3>1. /\ count'.accumulated = count.accumulated /\ count'.prev = count.prev
          /\ count'.prevAccumulated = count.prevAccumulated
      BY <1>5, <2>1 DEF S!PeriodIsr
    <3> QED BY <2>0, <3>1 DEF Level, Ahead, ClockBehind
  <2>2. CASE ~count.updated
    <3>1. /\ count'.accumulated = count.accumulated + ROLLOVER
          /\ count'.prev = count.prev /\ count'.prevAccumulated = count.prevAccumulated
      BY <1>5, <2>2, Reading DEF S!PeriodIsr
    <3>2. ClockBehind BY <2>0, <2>2
    <3> QED BY <2>0, <3>1, <3>2 DEF Ahead, ClockBehind
  <2> QED BY <2>1, <2>2
<1>6. CASE UNCHANGED S!vars BY <1>6 DEF S!vars, Level, Ahead, ClockBehind
<1> QED BY <1>1, <1>2, <1>3, <1>4, <1>5, <1>6 DEF S!Next, S!Loop

(* What holds at a wrap too, all of it modulo the word.  At the last       *)
(* reading T2 stood at b; since then it has rolled over r / ROLLOVER times *)
(* and the count has been raised by k.  A rollover may have been left      *)
(* uncounted, or its interrupt may be pending, when the count was read: so *)
(* k may be one rollover behind r, or before it.                           *)
Drift(b, r0, k) ==
  /\ count.prev \in {count.prevAccumulated + b, count.prevAccumulated + b - WORD}
  /\ t2.ovf + r0 = b + lag
  /\ count.accumulated \in {count.prevAccumulated + k, count.prevAccumulated + k - WORD}
  /\ k + (IF t2.period THEN ROLLOVER ELSE 0) <= ROLLOVER + r0

DriftInv ==
  /\ count.prev = clock.previousMacTimerTick
  /\ \E b \in 0..(ROLLOVER - 1), r0 \in {0, ROLLOVER}, k \in {0, ROLLOVER, 2 * ROLLOVER} :
       Drift(b, r0, k)

LEMMA ReadingDrifts ==
  ASSUME S!TypeOK, FewTicks, DriftInv
  PROVE  S!Elapsed \in {lag, lag + ROLLOVER, lag + WORD - ROLLOVER}
<1> DEFINE o == t2.ovf
           A == count.accumulated
           PA == count.prevAccumulated
           P == count.prev
<1>0. /\ WORD \in Nat \ {0} /\ ROLLOVER \in Nat \ {0} /\ ROLLOVER + ROLLOVER < WORD
      /\ o \in Nat /\ A \in Nat /\ PA \in Nat /\ P \in Nat /\ lag \in Nat
      /\ o < ROLLOVER /\ lag < ROLLOVER /\ P < WORD /\ A < WORD /\ PA < WORD
      /\ P = clock.previousMacTimerTick
  BY PowerConstants DEF S!TypeOK, FewTicks, DriftInv
<1>1. PICK b \in 0..(ROLLOVER - 1), r0 \in {0, ROLLOVER}, k \in {0, ROLLOVER, 2 * ROLLOVER} :
        Drift(b, r0, k)
  BY DEF DriftInv
<1>2. /\ b \in Nat /\ b < ROLLOVER /\ r0 \in {0, ROLLOVER} /\ k \in {0, ROLLOVER, ROLLOVER + ROLLOVER}
      /\ P \in {PA + b, PA + b - WORD} /\ o + r0 = b + lag /\ A \in {PA + k, PA + k - WORD}
      /\ k <= ROLLOVER + r0
  BY <1>0, <1>1 DEF Drift
<1>3. /\ S!Overflow = (o + A) % WORD
      /\ S!RolledOver <=> P > S!Overflow /\ PA = A
      /\ S!Precision = IF S!RolledOver THEN (S!Overflow + ROLLOVER) % WORD ELSE S!Overflow
      /\ S!Elapsed = (S!Precision + WORD - P) % WORD
  BY <1>0 DEF S!Overflow, S!RolledOver, S!Precision, S!Elapsed
<1> HIDE DEF o, A, PA, P
<1>4. S!Overflow \in {o + A, o + A - WORD} /\ S!Overflow \in 0..WORD - 1
  <2>1. o < WORD /\ A <= WORD BY <1>0
  <2>2. /\ (o + A) % WORD = IF o + A < WORD THEN o + A ELSE o + A - WORD
        /\ (o + A) % WORD \in 0..WORD - 1
    BY <2>1, <1>0, SumMod, Zenon
  <2> QED BY <2>2, <1>0, <1>3
<1>5. PICK a \in {0, ROLLOVER} :
        /\ S!Precision \in {o + A + a, o + A + a - WORD, o + A + a - WORD - WORD}
        /\ S!Precision \in 0..WORD - 1
        /\ a = ROLLOVER => k = 0
  <2>1. CASE S!RolledOver
    <3>1. /\ S!Overflow \in Nat /\ S!Overflow < WORD
          /\ ROLLOVER \in Nat /\ ROLLOVER <= WORD /\ WORD \in Nat \ {0}
      BY <1>0, <1>4
    <3>4. /\ (S!Overflow + ROLLOVER) % WORD =
               IF S!Overflow + ROLLOVER < WORD THEN S!Overflow + ROLLOVER
               ELSE S!Overflow + ROLLOVER - WORD
          /\ (S!Overflow + ROLLOVER) % WORD \in 0..WORD - 1
      BY <3>1, SumMod, Zenon
    <3>2. S!Precision \in {S!Overflow + ROLLOVER, S!Overflow + ROLLOVER - WORD}
          /\ S!Precision \in 0..WORD - 1
      BY <3>1, <3>4, <2>1, <1>0, <1>3
    <3>3. k = 0 BY <1>0, <1>2, <1>3, <2>1
    <3> QED BY <3>2, <3>3, <1>0, <1>4
  <2>2. CASE ~S!RolledOver
    BY <1>0, <1>3, <1>4, <2>2
  <2> QED BY <2>1, <2>2
<1>6. PICK d \in {0, ROLLOVER, 0 - ROLLOVER} : d = k + a - r0
  BY <1>0, <1>2, <1>5
<1>7. PICK x \in Nat : x = S!Precision + WORD - P /\ x < WORD + WORD
  BY <1>0, <1>5
<1>8. S!Elapsed \in {x, x - WORD} /\ S!Elapsed \in 0..WORD - 1
  <2>1. x % WORD = IF x < WORD THEN x ELSE x - WORD BY <1>0, <1>7, ModTwice, Zenon
  <2>2. S!Elapsed = x % WORD BY <1>3, <1>7
  <2> QED BY <1>0, <1>7, <2>1, <2>2
<1>9. \E m \in {0, 1, 2, 3, 4} : S!Elapsed = lag + d + WORD + WORD - m * WORD
  <2>1. \E m \in {0, 1, 2} : S!Precision = o + A + a - m * WORD BY <1>0, <1>5
  <2>2. \E m \in {0, 1} : A = PA + k - m * WORD BY <1>0, <1>2
  <2>3. \E m \in {0, 1} : PA + b = P + m * WORD BY <1>0, <1>2
  <2> QED BY <1>0, <1>2, <1>5, <1>6, <1>7, <1>8, <2>1, <2>2, <2>3
<1> QED BY <1>0, <1>6, <1>8, <1>9

LEMMA DriftStep ==
  ASSUME S!TypeOK, FewTicks, DriftInv, [S!Next]_(S!vars)
  PROVE  DriftInv'
<1> USE PowerConstants
<1>0. S!TypeOK' BY PowerTypeStep
<1>a. lag' < ROLLOVER BY FewTicksStep, Zenon DEF FewTicks
<1>b. PICK b \in 0..(ROLLOVER - 1), r0 \in {0, ROLLOVER}, k \in {0, ROLLOVER, 2 * ROLLOVER} :
        Drift(b, r0, k)
  BY DEF DriftInv
<1> USE DEF S!TypeOK, S!hw
<1>1. CASE S!TimeUpdate
  <2>1. /\ count'.prevAccumulated = count'.accumulated
        /\ count'.accumulated \in Nat /\ count'.accumulated < WORD
        /\ count'.prev = S!Precision
    BY <1>0, <1>1 DEF S!TimeUpdate, S!Counted
  <2>2. t2' = t2 /\ lag' = 0 /\ clock'.previousMacTimerTick = S!Precision
    BY <1>1 DEF S!TimeUpdate
  <2>3. S!Precision \in {count'.accumulated + t2.ovf, count'.accumulated + t2.ovf - WORD}
    <3> DEFINE o == t2.ovf
               A == count.accumulated
    <3>1. /\ o \in Nat /\ A \in Nat /\ o < ROLLOVER /\ A < WORD
          /\ S!Overflow = (o + A) % WORD
          /\ S!Precision = IF S!RolledOver THEN (S!Overflow + ROLLOVER) % WORD ELSE S!Overflow
          /\ count'.accumulated = IF S!RolledOver THEN (A + ROLLOVER) % WORD ELSE A
      BY <1>1 DEF S!TimeUpdate, S!Counted, S!Overflow, S!Precision
    <3> HIDE DEF o, A
    <3>2. S!Overflow = IF o + A < WORD THEN o + A ELSE o + A - WORD
      <4>1. o < WORD /\ A <= WORD /\ WORD \in Nat \ {0} BY <3>1
      <4>2. (o + A) % WORD = IF o + A < WORD THEN o + A ELSE o + A - WORD
        BY <4>1, <3>1, SumMod, Zenon
      <4> QED BY <4>2, <3>1
    <3>3. (A + ROLLOVER) % WORD = IF A + ROLLOVER < WORD THEN A + ROLLOVER ELSE A + ROLLOVER - WORD
      <4>1. A < WORD /\ ROLLOVER \in Nat /\ ROLLOVER <= WORD /\ WORD \in Nat \ {0} BY <3>1
      <4> QED BY <4>1, <3>1, SumMod, Zenon
    <3>4. (S!Overflow + ROLLOVER) % WORD =
            IF S!Overflow + ROLLOVER < WORD THEN S!Overflow + ROLLOVER
            ELSE S!Overflow + ROLLOVER - WORD
      <4>1. /\ S!Overflow \in Nat /\ S!Overflow < WORD
            /\ ROLLOVER \in Nat /\ ROLLOVER <= WORD /\ WORD \in Nat \ {0}
        BY <3>1, <3>2
      <4> QED BY <4>1, SumMod, Zenon
    <3> QED BY <3>1, <3>2, <3>3, <3>4 DEF o
  <2>4. Drift(t2.ovf, 0, 0)' BY <2>1, <2>2, <2>3 DEF Drift
  <2> QED BY <2>1, <2>2, <2>4 DEF DriftInv
<1>2. CASE \/ S!TimerUpdate \/ S!ProcessPoll \/ S!RunTask \/ S!Idle \/ S!Conserve
           \/ S!HalSleep \/ S!Prepare \/ S!SetSleepMode \/ S!ExitSleep
           \/ S!PortIsr \/ S!MacIsr
  <2>1. /\ UNCHANGED <<count, t2, lag>>
        /\ clock'.previousMacTimerTick = clock.previousMacTimerTick
    BY <1>2 DEF S!TimerUpdate, S!ProcessPoll, S!RunTask, S!Idle, S!Conserve, S!HalSleep,
         S!Prepare, S!SetSleepMode, S!ExitSleep, S!PortIsr, S!MacIsr
  <2> QED BY <2>1 DEF DriftInv, Drift
<1>3. CASE S!Tick
  <2>0. count' = count /\ clock' = clock /\ lag' = lag + 1
    BY <1>3 DEF S!Tick
  <2>1. CASE t2.ovf + 1 = ROLLOVER
    <3>1. t2'.ovf = 0
      <4>1. \E p \in {t2.period, TRUE} : t2' = [ovf |-> 0, period |-> p]
        BY <1>3, <2>1, Zenon DEF S!Tick
      <4> QED BY <4>1
    <3>2. r0 = 0 BY <1>a, <1>b, <2>0, <2>1 DEF Drift
    <3>3. Drift(b, ROLLOVER, k)' BY <1>b, <2>0, <2>1, <3>1, <3>2 DEF Drift
    <3> QED BY <2>0, <3>3 DEF DriftInv
  <2>2. CASE t2.ovf + 1 # ROLLOVER
    <3>1. t2'.ovf = t2.ovf + 1 /\ t2'.period = t2.period BY <1>3, <2>2 DEF S!Tick
    <3>2. Drift(b, r0, k)' BY <1>b, <2>0, <3>1 DEF Drift
    <3> QED BY <2>0, <3>2 DEF DriftInv
  <2> QED BY <2>1, <2>2
<1>4. CASE S!PeriodIsr
  <2>0. UNCHANGED <<clock, lag>> /\ t2'.ovf = t2.ovf /\ t2'.period = FALSE /\ t2.period
        /\ count'.prev = count.prev /\ count'.prevAccumulated = count.prevAccumulated
    BY <1>4 DEF S!PeriodIsr
  <2>1. CASE count.updated
    <3>1. count'.accumulated = count.accumulated
      BY <1>4, <2>1 DEF S!PeriodIsr
    <3>2. Drift(b, r0, k)' BY <1>b, <2>0, <3>1 DEF Drift
    <3> QED BY <2>0, <3>2 DEF DriftInv
  <2>2. CASE ~count.updated
    <3> DEFINE A == count.accumulated
    <3>1. /\ count'.accumulated = (A + ROLLOVER) % WORD
          /\ A \in Nat /\ A < WORD
      BY <1>4, <2>2 DEF S!PeriodIsr
    <3>2. (A + ROLLOVER) % WORD = IF A + ROLLOVER < WORD THEN A + ROLLOVER ELSE A + ROLLOVER - WORD
      <4>1. A < WORD /\ ROLLOVER \in Nat /\ ROLLOVER <= WORD /\ WORD \in Nat \ {0} BY <3>1
      <4> HIDE DEF A
      <4> QED BY <4>1, <3>1, SumMod, Zenon
    <3>3. Drift(b, r0, k + ROLLOVER)' /\ k + ROLLOVER \in {ROLLOVER, 2 * ROLLOVER}
      BY <1>b, <2>0, <3>1, <3>2 DEF Drift
    <3> QED BY <2>0, <3>3 DEF DriftInv
  <2> QED BY <2>1, <2>2
<1>5. CASE UNCHANGED S!vars BY <1>5 DEF S!vars, DriftInv, Drift
<1> QED BY <1>1, <1>2, <1>3, <1>4, <1>5 DEF S!Next, S!Loop

ClockInv ==
  /\ S!TypeOK /\ FewTicks /\ DriftInv
  /\ ~wrapping => CountInv

LEMMA ClockInit == ASSUME S!Init PROVE ClockInv
<1> USE PowerConstants
<1>1. S!TypeOK BY PowerTypeInit
<1>2. FewTicks BY DEF S!Init, FewTicks
<1>3. CountInv BY DEF S!Init, CountInv, Level
<1>4. DriftInv
  <2>1. Drift(0, 0, 0) BY DEF S!Init, Drift
  <2> QED BY <2>1 DEF S!Init, DriftInv
<1> QED BY <1>1, <1>2, <1>3, <1>4 DEF ClockInv

LEMMA ClockStep ==
  ASSUME ClockInv, [S!Next]_(S!vars)
  PROVE  ClockInv'
<1>1. S!TypeOK' /\ FewTicks' /\ DriftInv'
  BY PowerTypeStep, FewTicksStep, DriftStep DEF ClockInv
<1>2. ASSUME ~wrapping' PROVE CountInv'
  <2>1. /\ ~wrapping
        /\ count'.accumulated + 2 * ROLLOVER <= WORD
    <3>1. CASE S!TimeUpdate \/ S!PeriodIsr
      <4>1. wrapping' = (wrapping \/ count'.accumulated + 2 * ROLLOVER > WORD)
        BY <3>1 DEF S!TimeUpdate, S!PeriodIsr, S!MayWrap
      <4>2. count'.accumulated \in Nat BY <1>1 DEF S!TypeOK
      <4> DEFINE n == count'.accumulated + 2 * ROLLOVER
      <4>3. n \in Nat BY <4>2, PowerConstants
      <4> HIDE DEF n
      <4>4. ~wrapping /\ ~(n > WORD) BY <1>2, <4>1, Zenon DEF n
      <4>5. n <= WORD BY <4>3, <4>4, PowerConstants
      <4> QED BY <4>4, <4>5 DEF n
    <3>2. CASE count' = count /\ wrapping' = wrapping
      BY <1>2, <3>2 DEF ClockInv, CountInv
    <3> QED
      BY <3>1, <3>2, Zenon DEF S!Next, S!Loop, S!vars, S!hw, S!TimerUpdate, S!ProcessPoll,
         S!RunTask, S!Idle, S!Conserve, S!HalSleep, S!Prepare, S!SetSleepMode, S!ExitSleep,
         S!Tick, S!PortIsr, S!MacIsr
  <2> QED BY <2>1, CountStep DEF ClockInv
<1> QED BY <1>1, <1>2 DEF ClockInv

(* Whoever meets a rollover of T2 first, the reader of the count or its    *)
(* interrupt, and if sleep has lost the interrupt (macMcuPrecisionCount,   *)
(* macMcuAccumulatedOverFlow): the clock is told the ticks that have gone  *)
(* by, until the 32-bit count first comes to wrap, which it does between   *)
(* two rollovers; from then on it is told them or one rollover more or     *)
(* less, modulo the word, and nothing else.                                *)
THEOREM ClockRight == S!Spec => []NoTimeLost
<1>1. S!Init => ClockInv BY ClockInit
<1>2. ClockInv /\ [S!Next]_(S!vars) => ClockInv' BY ClockStep
<1>3. ClockInv => NoTimeLost
  BY Reading, ReadingDrifts DEF ClockInv, NoTimeLost, S!NoTimeLost
<1> QED BY <1>1, <1>2, <1>3, PTL DEF S!Spec

-----------------------------------------------------------------------------
(* The radio: its record, and what holds of it between any two steps *)

Frames == [ack : BOOLEAN, ar : BOOLEAN, crc : BOOLEAN,
           rest : Seq({"hdr", "addr", "body", "fcs"}), got : Nat]

Rec == [tx : {"none", "init", "queued", "go", "busy", "done", "listen", "postAck"},
        nb : Nat, ackReq : BOOLEAN, retx : BOOLEAN,
        rx : {"none", "started", "done"}, ack : BOOLEAN,
        rxState : {"start", "discard", "hdr", "addr", "body", "fcs"},
        buf : BOOLEAN, isr : BOOLEAN, reset : BOOLEAN, en : SUBSET RxFlag, on : BOOLEAN,
        sleep : {"awake", "osc", "off"}, chDue : BOOLEAN, powDue : BOOLEAN,
        csp : {"none", "loaded", "csma", "air", "sfd", "timer"},
        cspz : {"busy", "done", "timeout"},
        im : SUBSET {"stop", "int", "ackdone"},
        flags : SUBSET {"stop", "int", "ackdone", "fifop"},
        fifo : Frames, acking : BOOLEAN, owed : BOOLEAN, failed : BOOLEAN]

(* The fields of a record, for the provers *)
IsRec(x) ==
  x = [tx |-> x.tx, nb |-> x.nb, ackReq |-> x.ackReq, retx |-> x.retx, rx |-> x.rx,
       ack |-> x.ack, rxState |-> x.rxState, buf |-> x.buf, isr |-> x.isr,
       reset |-> x.reset, en |-> x.en, on |-> x.on, sleep |-> x.sleep,
       chDue |-> x.chDue, powDue |-> x.powDue, csp |-> x.csp, cspz |-> x.cspz,
       im |-> x.im, flags |-> x.flags, fifo |-> x.fifo, acking |-> x.acking,
       owed |-> x.owed, failed |-> x.failed]

(* The transmit.  A program of the strobe processor that is loaded has not *)
(* raised its interrupt; that interrupt is enabled only for a frame that   *)
(* is on its way; and what the ACK's timer runs for is an ACK.             *)
Starting == {"cancel", "clear", "enable", "on", "start"}

Started(p) == p \in Starting \cup {"prepare", "decide"}

Loaded(x) == x.csp = "loaded" /\ x.cspz = "busy" /\ "stop" \notin x.flags

TxOK(x, p) ==
  /\ x.tx \in {"none", "init", "queued", "go", "listen"}
  /\ x.tx = "init" <=> p \in {"prepare", "decide"}
  /\ p \in Starting => x.tx = "go"
  /\ "stop" \in x.im => x.tx \in {"go", "listen"} /\ p \notin {"cancel", "clear", "enable"}
  /\ x.tx = "queued" \/ p \in Starting \/ p = "decide" => Loaded(x)
  /\ x.tx = "listen" => x.cspz = "timeout" /\ x.csp \in {"timer", "none"}
  /\ x.tx = "none" => ~x.retx

(* The receive.  What is left of a frame begins with the portion that the  *)
(* routine's state is for, and only the last portion is the FCS.  A frame  *)
(* that is acknowledged and has come in whole is still being acknowledged, *)
(* or the routine is within it and the end of its ACK is flagged: this is  *)
(* what makes the end of an awaited ACK come.                              *)
Data(s) ==
  /\ s \in Seq({"addr", "body", "fcs"}) /\ s # <<>>
  /\ \A i \in 1..Len(s) : s[i] = "fcs" <=> i = Len(s)

Unread(f) ==
  \/ f.rest = <<>>
  \/ f.ack /\ ~f.ar /\ f.rest = <<"hdr">>
  \/ ~f.ack /\ \E s : Data(s) /\ f.rest = <<"hdr">> \o s

Whole(f) == f.ar /\ f.crc /\ f.rest # <<>> /\ ~R!Arriving(f)

RxOK(x, p) ==
  /\ x.rx \in {"none", "started"}
  /\ x.rxState = "start" <=> x.rx = "none"
  /\ "fifop" \in x.flags => x.on
  /\ x.fifo.got <= Len(x.fifo.rest)
  /\ IF x.rxState = "start" THEN Unread(x.fifo)
     ELSE Data(x.fifo.rest) /\ x.rxState \in {"discard", x.fifo.rest[1]}
  /\ x.ack /\ p # "clear" => "ackdone" \in x.im
  /\ x.ack /\ x.rx = "none" => x.acking \/ "ackdone" \in x.flags
  /\ x.ack /\ x.rx # "none" => x.fifo.ar /\ x.rxState # "discard"
  /\ x.acking => ~R!Arriving(x.fifo)
  /\ Whole(x.fifo) => x.acking \/ (x.rxState # "start" /\ "ackdone" \in x.flags)

(* What waits for the end of a transmit or a receive *)
DueOK(x, p) ==
  /\ x.powDue => p = "power" \/ x.ack \/ x.rx # "none" \/ x.tx \in R!TxPhysical
  /\ x.on /\ x.en = {} => p = "off" \/ x.ack \/ x.rx # "none" \/ x.tx \in R!TxPhysical
  /\ x.tx = "queued" => x.rx # "none" \/ x.ack

Owed(x) == x.owed <=> x.tx # "none"

Ready(x) == "fifop" \in x.flags => x.fifo.got > 0

Sound(x, p) ==
  /\ x \in Rec /\ ~x.failed /\ Owed(x)
  /\ TxOK(x, p) /\ RxOK(x, p) /\ DueOK(x, p)

(* The inductive invariant *)
RadioOK(x, p) == Sound(x, p) /\ ~x.isr /\ ~x.reset /\ Ready(x)

(* Parts of the record that a function leaves alone, or changes only in a  *)
(* direction that the invariant does not mind                              *)
KeepsTx(x, y) ==
  /\ y.tx = x.tx /\ y.nb = x.nb /\ y.ackReq = x.ackReq /\ y.retx = x.retx
  /\ y.csp = x.csp /\ y.cspz = x.cspz /\ y.owed = x.owed
KeepsRx(x, y) ==
  /\ y.rx = x.rx /\ y.ack = x.ack /\ y.rxState = x.rxState /\ y.buf = x.buf
  /\ y.isr = x.isr /\ y.reset = x.reset
KeepsRest(x, y) ==
  /\ y.en = x.en /\ y.sleep = x.sleep /\ y.failed = x.failed

KeepsFifo(x, y) ==
  /\ y.fifo = x.fifo /\ y.acking = x.acking /\ (x.on => y.on)
  /\ "fifop" \in y.flags => "fifop" \in x.flags
  /\ "ackdone" \in x.flags => "ackdone" \in y.flags

KeepsStop(x, y) ==
  /\ "stop" \in y.im => "stop" \in x.im
  /\ "stop" \in y.flags => "stop" \in x.flags

(* Within the routine of the FIFO, a change of the channel may empty it    *)
OnOrEmpty(x) == x.on \/ (x.fifo = R!NoFrame /\ "fifop" \notin x.flags)

Calm(x, y) ==
  /\ y.rx = x.rx /\ y.rxState = x.rxState /\ y.isr = x.isr /\ y.ack = x.ack
  /\ "ackdone" \in y.im <=> "ackdone" \in x.im
  /\ \/ (y.reset <=> x.reset) /\ KeepsFifo(x, y)
     \/ y.reset /\ y.fifo = R!NoFrame /\ "fifop" \notin y.flags

LEMMA RecIs == ASSUME NEW x \in Rec PROVE IsRec(x)
BY DEF Rec, IsRec

LEMMA NoFrameIs ==
  /\ R!NoFrame \in Frames /\ R!NoFrame.rest = <<>> /\ R!NoFrame.got = 0
  /\ Unread(R!NoFrame) /\ ~Whole(R!NoFrame) /\ Len(R!NoFrame.rest) = 0
  /\ ~R!Arriving(R!NoFrame)
<1>1. <<>> \in Seq({"hdr", "addr", "body", "fcs"}) /\ Len(<<>>) = 0 OBVIOUS
<1> QED BY <1>1 DEF R!NoFrame, R!Arriving, Frames, Unread, Whole

(* A field that is set to a value of its type                              *)
LEMMA SetTx ==
  ASSUME NEW x \in Rec,
         NEW v \in {"none", "init", "queued", "go", "busy", "done", "listen", "postAck"}
  PROVE [x EXCEPT !.tx = v] \in Rec
BY DEF Rec
LEMMA SetNb == ASSUME NEW x \in Rec, NEW v \in Nat PROVE [x EXCEPT !.nb = v] \in Rec
BY DEF Rec
LEMMA SetAckReq == ASSUME NEW x \in Rec, NEW v \in BOOLEAN PROVE [x EXCEPT !.ackReq = v] \in Rec
BY DEF Rec
LEMMA SetRetx == ASSUME NEW x \in Rec, NEW v \in BOOLEAN PROVE [x EXCEPT !.retx = v] \in Rec
BY DEF Rec
LEMMA SetRx == ASSUME NEW x \in Rec, NEW v \in {"none", "started", "done"}
  PROVE [x EXCEPT !.rx = v] \in Rec
BY DEF Rec
LEMMA SetAck == ASSUME NEW x \in Rec, NEW v \in BOOLEAN PROVE [x EXCEPT !.ack = v] \in Rec
BY DEF Rec
LEMMA SetRxState ==
  ASSUME NEW x \in Rec, NEW v \in {"start", "discard", "hdr", "addr", "body", "fcs"}
  PROVE [x EXCEPT !.rxState = v] \in Rec
BY DEF Rec
LEMMA SetBuf == ASSUME NEW x \in Rec, NEW v \in BOOLEAN PROVE [x EXCEPT !.buf = v] \in Rec
BY DEF Rec
LEMMA SetIsr == ASSUME NEW x \in Rec, NEW v \in BOOLEAN PROVE [x EXCEPT !.isr = v] \in Rec
BY DEF Rec
LEMMA SetReset == ASSUME NEW x \in Rec, NEW v \in BOOLEAN PROVE [x EXCEPT !.reset = v] \in Rec
BY DEF Rec
LEMMA SetEn == ASSUME NEW x \in Rec, NEW v \in SUBSET RxFlag PROVE [x EXCEPT !.en = v] \in Rec
BY DEF Rec
LEMMA SetOn == ASSUME NEW x \in Rec, NEW v \in BOOLEAN PROVE [x EXCEPT !.on = v] \in Rec
BY DEF Rec
LEMMA SetSleep == ASSUME NEW x \in Rec, NEW v \in {"awake", "osc", "off"}
  PROVE [x EXCEPT !.sleep = v] \in Rec
BY DEF Rec
LEMMA SetChDue == ASSUME NEW x \in Rec, NEW v \in BOOLEAN PROVE [x EXCEPT !.chDue = v] \in Rec
BY DEF Rec
LEMMA SetPowDue == ASSUME NEW x \in Rec, NEW v \in BOOLEAN PROVE [x EXCEPT !.powDue = v] \in Rec
BY DEF Rec
LEMMA SetCsp == ASSUME NEW x \in Rec, NEW v \in {"none", "loaded", "csma", "air", "sfd", "timer"}
  PROVE [x EXCEPT !.csp = v] \in Rec
BY DEF Rec
LEMMA SetCspz == ASSUME NEW x \in Rec, NEW v \in {"busy", "done", "timeout"}
  PROVE [x EXCEPT !.cspz = v] \in Rec
BY DEF Rec
LEMMA SetIm == ASSUME NEW x \in Rec, NEW v \in SUBSET {"stop", "int", "ackdone"}
  PROVE [x EXCEPT !.im = v] \in Rec
BY DEF Rec
LEMMA SetFlags == ASSUME NEW x \in Rec, NEW v \in SUBSET {"stop", "int", "ackdone", "fifop"}
  PROVE [x EXCEPT !.flags = v] \in Rec
BY DEF Rec
LEMMA SetFifo == ASSUME NEW x \in Rec, NEW v \in Frames PROVE [x EXCEPT !.fifo = v] \in Rec
BY DEF Rec
LEMMA SetAcking == ASSUME NEW x \in Rec, NEW v \in BOOLEAN PROVE [x EXCEPT !.acking = v] \in Rec
BY DEF Rec
LEMMA SetOwed == ASSUME NEW x \in Rec, NEW v \in BOOLEAN PROVE [x EXCEPT !.owed = v] \in Rec
BY DEF Rec
LEMMA Off ==
  ASSUME NEW x \in Rec, NEW y, y = R!RxOff(x)
  PROVE  /\ y \in Rec
         /\ KeepsTx(x, y) /\ KeepsRx(x, y) /\ KeepsRest(x, y)
         /\ y.chDue = x.chDue /\ y.powDue = x.powDue /\ y.im = x.im
         /\ y.on = FALSE
         /\ y.flags = IF x.on THEN x.flags \ {"fifop"} ELSE x.flags
         /\ y.fifo = IF x.on THEN R!NoFrame ELSE x.fifo
         /\ y.acking = IF x.on THEN FALSE ELSE x.acking
<1>1. R!RxTxOff(x) \in Rec
  <2>1. R!Flush(x) \in Rec BY NoFrameIs DEF R!Flush, Rec
  <2> QED BY <2>1, Zenon DEF R!RxTxOff, Rec
<1>2. y \in Rec
  <2>1. CASE x.on
    <3>1. y = [R!RxTxOff(x) EXCEPT !.on = FALSE, !.flags = @ \ {"fifop"}]
      BY <2>1 DEF R!RxOff
    <3>2. PICK a \in Rec : a = [R!RxTxOff(x) EXCEPT !.on = FALSE]
      BY <1>1, SetOn, Zenon
    <3>3. y = [a EXCEPT !.flags = a.flags \ {"fifop"}]
      BY <1>1, <3>1, <3>2 DEF Rec
    <3>4. a.flags \ {"fifop"} \in SUBSET {"stop", "int", "ackdone", "fifop"}
      BY DEF Rec
    <3> QED BY <3>3, <3>4, SetFlags
  <2>2. CASE ~x.on BY <2>2 DEF R!RxOff
  <2> QED BY <2>1, <2>2
<1> QED
  BY <1>2 DEF R!RxOff, R!RxTxOff, R!Flush, Rec, KeepsTx, KeepsRx, KeepsRest

LEMMA KeepsTxOK ==
  ASSUME NEW x, NEW y, NEW p, TxOK(x, p), KeepsTx(x, y), KeepsStop(x, y)
  PROVE  TxOK(y, p)
BY Zenon DEF KeepsTx, KeepsStop, TxOK, Loaded

LEMMA KeepsRxOK ==
  ASSUME NEW x, NEW y, NEW p, NEW q, RxOK(x, p), KeepsFifo(x, y),
         y.rx = x.rx, y.rxState = x.rxState, y.ack => x.ack,
         y.ack /\ q # "clear" => "ackdone" \in y.im
  PROVE  RxOK(y, q)
BY Zenon DEF RxOK, KeepsFifo

LEMMA FlushedRxOK ==
  ASSUME NEW y, NEW q, y.fifo = R!NoFrame, ~y.ack, y.rx = "none", y.rxState = "start",
         "fifop" \in y.flags => y.on
  PROVE  RxOK(y, q)
BY NoFrameIs DEF RxOK

LEMMA OffRequest ==
  ASSUME NEW x \in Rec, NEW y, y = R!RxOffRequest(x)
  PROVE  /\ y \in Rec
         /\ KeepsTx(x, y) /\ KeepsRx(x, y) /\ KeepsRest(x, y)
         /\ y.chDue = x.chDue /\ y.powDue = x.powDue /\ y.im = x.im
         /\ y.flags \subseteq x.flags
         /\ y.on /\ y.en = {} => x.rx = "started" \/ x.ack \/ x.tx \in R!TxPhysical
         /\ \/ y = x
            \/ /\ ~x.ack /\ x.rx # "started"
               /\ y.fifo = R!NoFrame /\ y.on = FALSE /\ "fifop" \notin y.flags
<1> DEFINE z == R!RxOff(x)
<1>1. /\ z \in Rec
      /\ KeepsTx(x, z) /\ KeepsRx(x, z) /\ KeepsRest(x, z)
      /\ z.chDue = x.chDue /\ z.powDue = x.powDue /\ z.im = x.im
      /\ z.on = FALSE
      /\ z.flags = IF x.on THEN x.flags \ {"fifop"} ELSE x.flags
      /\ z.fifo = IF x.on THEN R!NoFrame ELSE x.fifo
  BY Off, Zenon
<1>2. ~x.on => z = x BY DEF R!RxOff
<1> HIDE DEF z
<1>3. CASE x.en = {} /\ ~R!RxPhysical(x) /\ x.tx \notin R!TxPhysical
  <2>1. y = z BY <1>3 DEF R!RxOffRequest, z
  <2>2. CASE x.on BY <1>1, <1>3, <2>1, <2>2 DEF R!RxPhysical
  <2>3. CASE ~x.on BY <1>1, <1>2, <2>1, <2>3
  <2> QED BY <2>2, <2>3, Zenon
<1>4. CASE ~(x.en = {} /\ ~R!RxPhysical(x) /\ x.tx \notin R!TxPhysical)
  <2>1. y = x BY <1>4 DEF R!RxOffRequest
  <2> QED BY <1>4, <2>1 DEF R!RxPhysical, KeepsTx, KeepsRx, KeepsRest
<1> QED BY <1>3, <1>4, Zenon

LEMMA TxPowerSet ==
  ASSUME NEW x \in Rec, NEW y, y = R!UpdateTxPower(x)
  PROVE  /\ y \in Rec
         /\ KeepsTx(x, y) /\ KeepsRx(x, y) /\ KeepsRest(x, y) /\ y.chDue = x.chDue
         /\ y.fifo = x.fifo /\ y.im = x.im /\ y.flags = x.flags /\ y.on = x.on
         /\ y.acking = x.acking
         /\ y.powDue => x.ack \/ x.tx \in R!TxPhysical
<1>1. CASE ~x.ack /\ x.tx \notin R!TxPhysical
  <2>1. y = [x EXCEPT !.powDue = FALSE] BY <1>1 DEF R!UpdateTxPower
  <2>2. y \in Rec BY <2>1, SetPowDue, Zenon
  <2> QED BY <2>1, <2>2 DEF Rec, KeepsTx, KeepsRx, KeepsRest
<1>2. CASE ~(~x.ack /\ x.tx \notin R!TxPhysical)
  <2>1. y = x BY <1>2 DEF R!UpdateTxPower
  <2> QED BY <1>2, <2>1 DEF KeepsTx, KeepsRx, KeepsRest
<1> QED BY <1>1, <1>2

(* The statements that begin a transmit                                    *)
LEMMA Statements ==
  ASSUME NEW x \in Rec
  PROVE  /\ R!CancelAckDone(x) \in Rec /\ R!ClearAckFlag(x) \in Rec /\ R!EnableCsp(x) \in Rec
         /\ R!RxOn(x) \in Rec /\ R!StartCsp(x) \in Rec
<1>1. /\ x.im \ {"ackdone"} \in SUBSET {"stop", "int", "ackdone"}
      /\ x.im \cup {"stop", "int"} \in SUBSET {"stop", "int", "ackdone"}
      /\ x.csp \in {"none", "loaded", "csma", "air", "sfd", "timer"}
  BY DEF Rec
<1>2. R!CancelAckDone(x) \in Rec BY <1>1, SetIm DEF R!CancelAckDone
<1>3. R!ClearAckFlag(x) \in Rec BY SetAck, Zenon DEF R!ClearAckFlag
<1>4. R!EnableCsp(x) \in Rec BY <1>1, SetIm DEF R!EnableCsp
<1>5. R!RxOn(x) \in Rec BY SetOn, Zenon DEF R!RxOn
<1>6. R!StartCsp(x) \in Rec BY <1>1, SetCsp, Zenon DEF R!StartCsp
<1> QED BY <1>2, <1>3, <1>4, <1>5, <1>6

LEMMA TxStarts ==
  ASSUME NEW x \in Rec, x.tx = "queued", Loaded(x), ~x.ack,
         NEW y, y = R!TxGo([x EXCEPT !.tx = "go"])
  PROVE  /\ y \in Rec
         /\ KeepsRx(x, y) /\ KeepsRest(x, y)
         /\ y.tx = "go" /\ y.owed = x.owed /\ y.retx = x.retx
         /\ y.csp = "csma" /\ y.cspz = x.cspz /\ y.flags = x.flags
         /\ y.im = (x.im \ {"ackdone"}) \cup {"stop", "int"}
         /\ y.fifo = x.fifo /\ y.acking = x.acking /\ y.on = TRUE
<1>1. PICK a \in Rec : a = [x EXCEPT !.tx = "go"] BY SetTx, Zenon
<1>2. PICK b \in Rec : b = R!CancelAckDone(a) BY Statements
<1>3. PICK c \in Rec : c = R!ClearAckFlag(b) BY Statements
<1>4. PICK d \in Rec : d = R!EnableCsp(c) BY Statements
<1>5. PICK e \in Rec : e = R!RxOn(d) BY Statements
<1>6. y = R!StartCsp(e) BY <1>1, <1>2, <1>3, <1>4, <1>5 DEF R!TxGo, R!CsmaGo
<1>7. y \in Rec BY <1>6, Statements
<1>8. /\ KeepsRx(a, b) /\ KeepsRest(a, b) /\ KeepsTx(a, b) /\ b.fifo = a.fifo
      /\ b.acking = a.acking /\ b.flags = a.flags /\ b.im = a.im \ {"ackdone"}
  BY <1>2 DEF R!CancelAckDone, Rec, KeepsRx, KeepsRest, KeepsTx
<1>9. /\ KeepsRest(b, c) /\ KeepsTx(b, c) /\ c.fifo = b.fifo /\ c.rx = b.rx
      /\ c.rxState = b.rxState /\ c.buf = b.buf /\ c.isr = b.isr /\ c.reset = b.reset
      /\ c.ack = FALSE /\ c.acking = b.acking /\ c.flags = b.flags /\ c.im = b.im
  BY <1>3 DEF R!ClearAckFlag, Rec, KeepsRest, KeepsTx
<1>10. /\ KeepsRx(c, d) /\ KeepsRest(c, d) /\ KeepsTx(c, d) /\ d.fifo = c.fifo
       /\ d.acking = c.acking /\ d.flags = c.flags /\ d.im = c.im \cup {"stop", "int"}
  BY <1>4 DEF R!EnableCsp, Rec, KeepsRx, KeepsRest, KeepsTx
<1>11. /\ KeepsRx(d, e) /\ KeepsRest(d, e) /\ KeepsTx(d, e) /\ e.fifo = d.fifo /\ e.on = TRUE
       /\ e.acking = d.acking /\ e.flags = d.flags /\ e.im = d.im
  BY <1>5 DEF R!RxOn, Rec, KeepsRx, KeepsRest, KeepsTx
<1>12. /\ KeepsRx(e, y) /\ KeepsRest(e, y) /\ y.fifo = e.fifo /\ y.on = e.on
       /\ y.acking = e.acking /\ y.flags = e.flags /\ y.im = e.im
       /\ y.tx = e.tx /\ y.owed = e.owed /\ y.retx = e.retx /\ y.cspz = e.cspz
       /\ e.csp = "loaded" => y.csp = "csma"
  BY <1>6 DEF R!StartCsp, Rec, KeepsRx, KeepsRest
<1>13. /\ KeepsRx(x, a) /\ KeepsRest(x, a) /\ a.fifo = x.fifo /\ a.on = x.on
       /\ a.acking = x.acking /\ a.flags = x.flags /\ a.im = x.im
       /\ a.tx = "go" /\ a.owed = x.owed /\ a.retx = x.retx /\ a.csp = x.csp
       /\ a.cspz = x.cspz
  BY <1>1 DEF Rec, KeepsRx, KeepsRest
<1>14. KeepsTx(a, e)
  <2>1. KeepsTx(a, c) BY <1>8, <1>9, Zenon DEF KeepsTx
  <2>2. KeepsTx(c, e) BY <1>10, <1>11, Zenon DEF KeepsTx
  <2> QED BY <2>1, <2>2, Zenon DEF KeepsTx
<1>15. e.csp = "loaded" /\ e.tx = "go" /\ e.cspz = x.cspz /\ e.retx = x.retx /\ e.owed = x.owed
  <2>1. /\ e.csp = a.csp /\ e.tx = a.tx /\ e.cspz = a.cspz /\ e.retx = a.retx
        /\ e.owed = a.owed
    BY <1>14, Zenon DEF KeepsTx
  <2>2. x.csp = "loaded" BY DEF Loaded
  <2> QED BY <1>13, <2>1, <2>2
<1>16. KeepsRest(x, y) BY <1>8, <1>9, <1>10, <1>11, <1>12, <1>13 DEF KeepsRest
<1>17. x.ack = FALSE BY DEF Rec
<1>18. KeepsRx(x, y)
  <2>1. KeepsRx(x, b) BY <1>8, <1>13, Zenon DEF KeepsRx
  <2>2. KeepsRx(c, y) BY <1>10, <1>11, <1>12, Zenon DEF KeepsRx
  <2>3. KeepsRx(x, c) BY <1>9, <1>17, <2>1, Zenon DEF KeepsRx
  <2> QED BY <2>2, <2>3, Zenon DEF KeepsRx
<1>19. y.fifo = x.fifo /\ y.acking = x.acking /\ y.flags = x.flags
  BY <1>8, <1>9, <1>10, <1>11, <1>12, <1>13
<1>20. y.im = (x.im \ {"ackdone"}) \cup {"stop", "int"}
  BY <1>8, <1>9, <1>10, <1>11, <1>12, <1>13
<1> QED BY <1>7, <1>11, <1>12, <1>15, <1>16, <1>18, <1>19, <1>20

LEMMA AssertHolds ==
  ASSUME NEW x \in Rec, NEW holds, holds
  PROVE  R!Assert(x, holds) = x
BY DEF R!Assert, Rec

LEMMA PostRx ==
  ASSUME NEW x \in Rec, NEW p, ~x.failed, TxOK(x, p), RxOK(x, p), x.rx = "none", ~x.ack,
         NEW y, y = R!PostRxUpdates(x)
  PROVE  /\ y \in Rec /\ ~y.failed /\ TxOK(y, p) /\ RxOK(y, p) /\ DueOK(y, p)
         /\ KeepsRx(x, y) /\ y.owed = x.owed /\ (y.tx = "none" <=> x.tx = "none")
         /\ "fifop" \in y.flags => "fifop" \in x.flags /\ y.fifo = x.fifo
<1>1. PICK a \in Rec : a = R!RxOffRequest(x) BY OffRequest, Zenon
<1>2. PICK b \in Rec : b = R!UpdateTxPower(a) BY TxPowerSet
<1>3. y = R!StartQueuedFrame(b) BY <1>1, <1>2 DEF R!PostRxUpdates
<1>4. /\ KeepsTx(x, a) /\ KeepsRx(x, a) /\ KeepsRest(x, a)
      /\ a.im = x.im /\ a.flags \subseteq x.flags
      /\ a.on /\ a.en = {} => x.rx = "started" \/ x.ack \/ x.tx \in R!TxPhysical
      /\ \/ a = x
         \/ a.fifo = R!NoFrame /\ a.on = FALSE /\ "fifop" \notin a.flags
  BY <1>1, OffRequest, Zenon
<1>5. /\ KeepsTx(a, b) /\ KeepsRx(a, b) /\ KeepsRest(a, b)
      /\ b.fifo = a.fifo /\ b.im = a.im /\ b.flags = a.flags /\ b.on = a.on
      /\ b.acking = a.acking
      /\ b.powDue => a.ack \/ a.tx \in R!TxPhysical
  BY <1>2, TxPowerSet
<1>6. TxOK(b, p)
  <2>1. KeepsStop(x, a) /\ KeepsStop(a, b) BY <1>4, <1>5 DEF KeepsStop
  <2>2. TxOK(a, p) BY <1>4, <2>1, KeepsTxOK
  <2> QED BY <2>1, <2>2, <1>5, KeepsTxOK
<1>7. RxOK(b, p)
  <2>1. RxOK(a, p) BY <1>4, NoFrameIs DEF RxOK, KeepsRx
  <2> QED BY <2>1, <1>5, Zenon DEF RxOK, KeepsRx
<1>8. /\ KeepsRx(x, b) /\ b.rx = "none" /\ ~b.ack /\ ~b.failed
      /\ b.on /\ b.en = {} => b.tx \in R!TxPhysical
      /\ b.powDue => b.tx \in R!TxPhysical
  BY <1>4, <1>5 DEF KeepsRx, KeepsTx, KeepsRest
<1>9. "fifop" \in b.flags => "fifop" \in x.flags /\ b.fifo = x.fifo
  BY <1>4, <1>5
<1>10. CASE b.tx # "queued"
  <2>1. y = b
    <3>1. R!Assert(b, b.rx = "none" /\ ~b.ack) = b BY <1>8, AssertHolds, Zenon
    <3> QED BY <1>3, <1>10, <3>1 DEF R!StartQueuedFrame
  <2>2. DueOK(y, p) BY <1>8, <1>10, <2>1 DEF DueOK
  <2>3. KeepsRx(x, y) /\ y.owed = x.owed /\ (y.tx = "none" <=> x.tx = "none")
    BY <1>4, <1>5, <1>8, <2>1, Zenon DEF KeepsTx
  <2> QED BY <1>6, <1>7, <1>8, <1>9, <2>1, <2>2, <2>3
<1>11. CASE b.tx = "queued"
  <2>1. y = R!TxGo([b EXCEPT !.tx = "go"])
    <3>1. R!Assert(b, b.rx = "none" /\ ~b.ack) = b BY <1>8, AssertHolds, Zenon
    <3> QED BY <1>3, <1>11, <3>1 DEF R!StartQueuedFrame
  <2>2. Loaded(b) BY <1>6, <1>11 DEF TxOK
  <2>3. /\ y \in Rec
        /\ KeepsRx(b, y) /\ KeepsRest(b, y)
        /\ y.tx = "go" /\ y.owed = b.owed /\ y.retx = b.retx
        /\ y.csp = "csma" /\ y.cspz = b.cspz /\ y.flags = b.flags
        /\ y.im = (b.im \ {"ackdone"}) \cup {"stop", "int"}
        /\ y.fifo = b.fifo /\ y.acking = b.acking /\ y.on = TRUE
    BY <1>8, <1>11, <2>1, <2>2, TxStarts, Zenon
  <2>4. TxOK(y, p)
    BY <1>6, <1>11, <2>3 DEF TxOK, Starting
  <2>5. RxOK(y, p)
    BY <1>7, <1>8, <2>3 DEF RxOK, KeepsRx
  <2>6. DueOK(y, p) BY <2>3 DEF DueOK, R!TxPhysical
  <2>7. KeepsRx(x, y) BY <1>8, <2>3, Zenon DEF KeepsRx
  <2>8. y.owed = x.owed /\ x.tx = "queued" BY <1>4, <1>5, <1>11, <2>3, Zenon DEF KeepsTx
  <2>9. ~y.failed BY <1>8, <2>3 DEF KeepsRest
  <2> QED BY <1>9, <2>3, <2>4, <2>5, <2>6, <2>7, <2>8, <2>9
<1> QED BY <1>10, <1>11

LEMMA OnRequest ==
  ASSUME NEW x \in Rec, NEW y, y = R!RxOnRequest(x)
  PROVE  /\ y \in Rec
         /\ KeepsTx(x, y) /\ KeepsRx(x, y) /\ KeepsRest(x, y)
         /\ y.chDue = x.chDue /\ y.powDue = x.powDue /\ y.im = x.im /\ y.flags = x.flags
         /\ y.fifo = x.fifo /\ y.acking = x.acking
         /\ (x.on => y.on) /\ (y.on /\ y.en = {} => x.on)
<1>1. CASE x.en # {}
  <2>1. y = R!RxOn(x) BY <1>1 DEF R!RxOnRequest
  <2>2. y \in Rec BY <2>1, Statements
  <2> QED BY <1>1, <2>1, <2>2 DEF R!RxOn, Rec, KeepsTx, KeepsRx, KeepsRest
<1>2. CASE x.en = {}
  <2>1. y = x BY <1>2 DEF R!RxOnRequest
  <2> QED BY <2>1 DEF KeepsTx, KeepsRx, KeepsRest
<1> QED BY <1>1, <1>2

(* The frame is forgotten, and a transmit that waited for it goes ahead.   *)
LEMMA Halt ==
  ASSUME NEW x \in Rec, NEW p, ~x.failed, TxOK(x, p), x.rx # "none" \/ x.ack \/ DueOK(x, p),
         NEW y, y = R!HaltFinalStep(x)
  PROVE  /\ y \in Rec /\ ~y.failed /\ TxOK(y, p) /\ RxOK(y, p) /\ DueOK(y, p)
         /\ y.owed = x.owed /\ (y.tx = "none" <=> x.tx = "none")
         /\ y.isr = x.isr /\ ~y.reset /\ "fifop" \notin y.flags
<1> DEFINE z == [R!Flush(R!CancelAckDone(x)) EXCEPT
              !.flags = @ \ {"fifop"}, !.buf = FALSE, !.rxState = "start",
              !.rx = "none", !.ack = FALSE, !.reset = FALSE]
<1>1. z \in Rec
  <2>1. PICK a \in Rec : a = R!CancelAckDone(x) BY Statements
  <2>2. PICK b \in Rec : b = R!Flush(a) BY NoFrameIs, SetFifo, Zenon DEF R!Flush
  <2>3. b.flags \ {"fifop"} \in SUBSET {"stop", "int", "ackdone", "fifop"} BY DEF Rec
  <2>4. PICK c \in Rec : c = [b EXCEPT !.flags = b.flags \ {"fifop"}] BY <2>3, SetFlags, Zenon
  <2>5. z = [c EXCEPT !.buf = FALSE, !.rxState = "start",
                      !.rx = "none", !.ack = FALSE, !.reset = FALSE]
    BY <2>1, <2>2, <2>4
  <2>6. PICK d \in Rec : d = [c EXCEPT !.buf = FALSE] BY SetBuf, Zenon
  <2>7. PICK e \in Rec : e = [d EXCEPT !.rxState = "start"] BY SetRxState, Zenon
  <2>8. PICK f \in Rec : f = [e EXCEPT !.rx = "none"] BY SetRx, Zenon
  <2>9. PICK g \in Rec : g = [f EXCEPT !.ack = FALSE] BY SetAck, Zenon
  <2>10. z = [g EXCEPT !.reset = FALSE] BY <2>5, <2>6, <2>7, <2>8, <2>9
  <2> QED BY <2>10, SetReset, Zenon
<1>2. /\ KeepsTx(x, z) /\ z.im = x.im \ {"ackdone"} /\ z.flags = x.flags \ {"fifop"}
      /\ z.rx = "none" /\ z.ack = FALSE /\ z.rxState = "start" /\ z.reset = FALSE
      /\ z.isr = x.isr /\ z.fifo = R!NoFrame /\ z.failed = x.failed
      /\ z.on = x.on /\ z.en = x.en /\ z.powDue = x.powDue
  BY <1>1 DEF R!Flush, R!CancelAckDone, Rec, KeepsTx
<1>3. y = IF x.rx # "none" \/ x.ack THEN R!PostRxUpdates(z) ELSE z
  BY DEF R!HaltFinalStep
<1> HIDE DEF z
<1>4. TxOK(z, p)
  <2>1. KeepsStop(x, z) BY <1>2 DEF KeepsStop
  <2> QED BY <1>2, <2>1, KeepsTxOK
<1>5. RxOK(z, p) BY <1>2, FlushedRxOK
<1>6. CASE x.rx # "none" \/ x.ack
  <2>1. y = R!PostRxUpdates(z) BY <1>3, <1>6
  <2>2. /\ y \in Rec /\ ~y.failed /\ TxOK(y, p) /\ RxOK(y, p) /\ DueOK(y, p)
        /\ KeepsRx(z, y) /\ y.owed = z.owed /\ (y.tx = "none" <=> z.tx = "none")
        /\ "fifop" \in y.flags => "fifop" \in z.flags /\ y.fifo = z.fifo
    BY <1>1, <1>2, <1>4, <1>5, <2>1, PostRx
  <2> QED BY <1>2, <2>2 DEF KeepsRx, KeepsTx
<1>7. CASE ~(x.rx # "none" \/ x.ack)
  <2>1. y = z BY <1>3, <1>7
  <2>2. DueOK(z, p) BY <1>2, <1>7, Zenon DEF DueOK, KeepsTx
  <2> QED BY <1>1, <1>2, <1>4, <1>5, <2>1, <2>2 DEF KeepsTx
<1> QED BY <1>6, <1>7

LEMMA CalmTwice ==
  ASSUME NEW x, NEW y, NEW z, Calm(x, y), Calm(y, z)
  PROVE  Calm(x, z)
BY Zenon DEF Calm, KeepsFifo

LEMMA OffRequestRxOK ==
  ASSUME NEW x \in Rec, NEW p, RxOK(x, p), NEW y, y = R!RxOffRequest(x)
  PROVE  /\ RxOK(y, p)
         /\ "fifop" \in y.flags => "fifop" \in x.flags /\ y.fifo = x.fifo
<1>1. /\ KeepsRx(x, y)
      /\ \/ y = x
         \/ /\ ~x.ack /\ x.rx # "started"
            /\ y.fifo = R!NoFrame /\ y.on = FALSE /\ "fifop" \notin y.flags
  BY OffRequest, Zenon
<1>2. CASE y = x BY <1>2
<1>3. CASE y # x
  <2>1. ~y.ack /\ y.rx = "none" /\ y.rxState = "start"
    BY <1>1, <1>3 DEF KeepsRx, RxOK
  <2> QED BY <1>1, <1>3, <2>1, FlushedRxOK
<1> QED BY <1>2, <1>3

LEMMA ChannelUpdated ==
  ASSUME NEW x \in Rec, NEW p, ~x.failed, ~x.isr, ~x.reset, x.tx = "none",
         TxOK(x, p), RxOK(x, p), DueOK(x, p), Ready(x),
         NEW y, y = R!UpdateChannel(x)
  PROVE  /\ y \in Rec /\ ~y.failed /\ ~y.isr /\ ~y.reset /\ y.tx = "none" /\ y.owed = x.owed
         /\ TxOK(y, p) /\ RxOK(y, p) /\ DueOK(y, p) /\ Ready(y)
<1>1. R!Assert(x, x.tx = "none") = x BY AssertHolds, Zenon
<1>2. CASE ~x.chDue
  <2>1. y = x BY <1>1, <1>2 DEF R!UpdateChannel
  <2> QED BY <2>1
<1>3. CASE x.chDue
  <2>1. PICK a \in Rec : a = [x EXCEPT !.chDue = FALSE] BY SetChDue, Zenon
  <2>2. PICK b \in Rec : b = R!RxOff(a) BY Off, Zenon
  <2>3. /\ KeepsTx(x, a) /\ KeepsRx(x, a) /\ KeepsRest(x, a)
        /\ a.im = x.im /\ a.flags = x.flags /\ a.on = x.on /\ a.powDue = x.powDue
    BY <2>1 DEF Rec, KeepsTx, KeepsRx, KeepsRest
  <2>4. /\ KeepsTx(a, b) /\ KeepsRx(a, b) /\ KeepsRest(a, b)
        /\ b.im = a.im /\ b.powDue = a.powDue /\ b.on = FALSE
        /\ b.flags = IF a.on THEN a.flags \ {"fifop"} ELSE a.flags
    BY <2>2, Off, Zenon
  <2>5. TxOK(b, p)
    <3>1. KeepsStop(x, a) /\ KeepsStop(a, b) BY <2>3, <2>4 DEF KeepsStop
    <3>2. TxOK(a, p) BY <2>3, <3>1, KeepsTxOK
    <3> QED BY <2>4, <3>1, <3>2, KeepsTxOK
  <2>6. DueOK(b, p)
    BY <2>3, <2>4, Zenon DEF DueOK, KeepsRx, KeepsTx, KeepsRest
  <2>7. ~b.failed /\ ~b.isr /\ b.owed = x.owed /\ b.tx = "none"
    BY <2>3, <2>4, Zenon DEF KeepsRx, KeepsTx, KeepsRest
  <2>8. PICK c : c = R!HaltFinalStep(b) OBVIOUS
  <2>9. /\ c \in Rec /\ ~c.failed /\ TxOK(c, p) /\ RxOK(c, p) /\ DueOK(c, p)
        /\ c.owed = b.owed /\ (c.tx = "none" <=> b.tx = "none")
        /\ c.isr = b.isr /\ ~c.reset /\ "fifop" \notin c.flags
    BY <2>5, <2>6, <2>7, <2>8, Halt
  <2>10. y = R!RxOnRequest(c)
    BY <1>1, <1>3, <2>1, <2>2, <2>7, <2>8, Zenon DEF R!UpdateChannel, R!HaltCleanup
  <2>11. /\ y \in Rec
         /\ KeepsTx(c, y) /\ KeepsRx(c, y) /\ KeepsRest(c, y)
         /\ y.powDue = c.powDue /\ y.im = c.im /\ y.flags = c.flags
         /\ y.fifo = c.fifo /\ y.acking = c.acking
         /\ (c.on => y.on) /\ (y.on /\ y.en = {} => c.on)
    BY <2>9, <2>10, OnRequest
  <2>12. TxOK(y, p)
    <3>1. KeepsStop(c, y) BY <2>11 DEF KeepsStop
    <3> QED BY <2>9, <2>11, <3>1, KeepsTxOK
  <2>13. RxOK(y, p)
    <3>1. KeepsFifo(c, y) BY <2>11 DEF KeepsFifo
    <3>2. /\ y.rx = c.rx /\ y.rxState = c.rxState /\ y.ack = c.ack
      BY <2>11 DEF KeepsRx
    <3>3. y.ack /\ p # "clear" => "ackdone" \in y.im
      BY <2>9, <2>11, <3>2, Zenon DEF RxOK
    <3> QED BY <2>9, <3>1, <3>2, <3>3, KeepsRxOK
  <2>14. DueOK(y, p)
    BY <2>9, <2>11, Zenon DEF DueOK, KeepsRx, KeepsTx, KeepsRest
  <2>15. ~y.failed /\ ~y.isr /\ ~y.reset /\ y.tx = "none" /\ y.owed = x.owed
    BY <2>7, <2>9, <2>11, Zenon DEF KeepsTx, KeepsRx, KeepsRest
  <2>16. Ready(y) BY <2>9, <2>11 DEF Ready
  <2> QED BY <2>11, <2>12, <2>13, <2>14, <2>15, <2>16
<1> QED BY <1>2, <1>3

LEMMA OffKeeps ==
  \A x \in Rec : \A y : y = R!RxOff(x) =>
    /\ KeepsTx(x, y) /\ KeepsRx(x, y) /\ KeepsRest(x, y)
    /\ y.im = x.im
    /\ y.flags = IF x.on THEN x.flags \ {"fifop"} ELSE x.flags
    /\ y.fifo = IF x.on THEN R!NoFrame ELSE x.fifo
BY Off, Zenon

LEMMA ChannelUpdatedIsr ==
  ASSUME NEW x \in Rec, NEW p, ~x.failed, x.isr, x.tx = "none", OnOrEmpty(x), TxOK(x, p),
         NEW y, y = R!UpdateChannel(x)
  PROVE  /\ y \in Rec /\ ~y.failed /\ y.tx = "none" /\ y.owed = x.owed
         /\ TxOK(y, p) /\ Calm(x, y)
<1>1. R!Assert(x, x.tx = "none") = x BY AssertHolds, Zenon
<1>2. CASE ~x.chDue
  <2>1. y = x BY <1>1, <1>2 DEF R!UpdateChannel
  <2> QED BY <2>1, Zenon DEF Calm, KeepsFifo
<1>3. CASE x.chDue
  <2>1. PICK a \in Rec : a = [x EXCEPT !.chDue = FALSE] BY SetChDue, Zenon
  <2>2. PICK b \in Rec : b = R!RxOff(a) BY Off, Zenon
  <2>3. PICK c \in Rec : c = [b EXCEPT !.reset = TRUE] BY SetReset, Zenon
  <2>4. /\ KeepsTx(x, a) /\ KeepsRx(x, a) /\ KeepsRest(x, a) /\ a.fifo = x.fifo
        /\ a.im = x.im /\ a.flags = x.flags /\ a.on = x.on
    <3>1. KeepsTx(x, a) /\ KeepsRest(x, a) /\ a.fifo = x.fifo
      BY <2>1 DEF Rec, KeepsTx, KeepsRest
    <3>2. KeepsRx(x, a)
      <4>1. a.rx = x.rx /\ a.ack = x.ack /\ a.rxState = x.rxState BY <2>1 DEF Rec
      <4>2. a.buf = x.buf /\ a.reset = x.reset BY <2>1 DEF Rec
      <4>3. a.isr = x.isr BY <2>1, Zenon DEF Rec
      <4> QED BY <4>1, <4>2, <4>3, Zenon DEF KeepsRx
    <3>3. a.im = x.im /\ a.flags = x.flags /\ a.on = x.on
      BY <2>1 DEF Rec
    <3> QED BY <3>1, <3>2, <3>3
  <2>5. /\ KeepsTx(a, b) /\ KeepsRx(a, b) /\ KeepsRest(a, b)
        /\ b.im = a.im
        /\ b.flags = IF a.on THEN a.flags \ {"fifop"} ELSE a.flags
        /\ b.fifo = IF a.on THEN R!NoFrame ELSE a.fifo
    BY <2>2, OffKeeps, Zenon
  <2>6. /\ KeepsTx(b, c) /\ KeepsRest(b, c) /\ c.fifo = b.fifo /\ c.im = b.im
        /\ c.flags = b.flags /\ c.rx = b.rx /\ c.rxState = b.rxState /\ c.isr = b.isr
        /\ c.ack = b.ack /\ c.reset = TRUE
    BY <2>3 DEF Rec, KeepsTx, KeepsRest
  <2>7. y = R!RxOnRequest(c)
    <3>1. b.isr BY <2>4, <2>5 DEF KeepsRx
    <3> QED BY <1>1, <1>3, <2>1, <2>2, <2>3, <3>1, Zenon DEF R!UpdateChannel, R!HaltCleanup
  <2>8. /\ y \in Rec
        /\ KeepsTx(c, y) /\ KeepsRx(c, y) /\ KeepsRest(c, y)
        /\ y.im = c.im /\ y.flags = c.flags /\ y.fifo = c.fifo
    BY <2>7, OnRequest
  <2>9. TxOK(y, p)
    <3>1. KeepsStop(x, a) /\ KeepsStop(a, b) /\ KeepsStop(b, c) /\ KeepsStop(c, y)
      BY <2>4, <2>5, <2>6, <2>8 DEF KeepsStop
    <3>2. TxOK(a, p) BY <2>4, <3>1, KeepsTxOK
    <3>3. TxOK(b, p) BY <2>5, <3>1, <3>2, KeepsTxOK
    <3>4. TxOK(c, p) BY <2>6, <3>1, <3>3, KeepsTxOK
    <3> QED BY <2>8, <3>1, <3>4, KeepsTxOK
  <2>10. /\ y.tx = "none" /\ y.owed = x.owed
    BY <2>4, <2>5, <2>6, <2>8, Zenon DEF KeepsTx
  <2>11. y.failed = x.failed
    BY <2>4, <2>5, <2>6, <2>8, Zenon DEF KeepsRest
  <2>12. y.fifo = R!NoFrame /\ "fifop" \notin y.flags
    BY <2>4, <2>5, <2>6, <2>8 DEF OnOrEmpty
  <2>13. /\ y.rx = x.rx /\ y.rxState = x.rxState /\ y.isr = x.isr /\ y.ack = x.ack
    BY <2>4, <2>5, <2>6, <2>8, Zenon DEF KeepsRx
  <2>14. y.im = x.im /\ y.reset
    <3>1. y.reset = c.reset BY <2>8 DEF KeepsRx
    <3> QED BY <2>4, <2>5, <2>6, <2>8, <3>1
  <2> QED BY <2>8, <2>9, <2>10, <2>11, <2>12, <2>13, <2>14 DEF Calm
<1> QED BY <1>2, <1>3

KeepsAir(x, y) ==
  /\ y.im = x.im /\ y.flags = x.flags /\ y.on = x.on
  /\ y.fifo = x.fifo /\ y.acking = x.acking /\ y.owed = x.owed

LEMMA RetxCleared ==
  \A x, a \in Rec : a = [x EXCEPT !.retx = FALSE] => KeepsAir(x, a) /\ a.retx = FALSE
BY DEF Rec, KeepsAir

LEMMA TxCleared ==
  \A x, a \in Rec : a = [x EXCEPT !.tx = "none"] =>
    KeepsAir(x, a) /\ a.tx = "none" /\ a.retx = x.retx
BY DEF Rec, KeepsAir

(* A transmit that is over, completed by a task or by the interrupt of the *)
(* strobe processor, ...                                                   *)
LEMMA Completed ==
  ASSUME NEW x \in Rec, NEW p, ~x.failed, ~x.isr, ~x.reset, x.owed, RxOK(x, p), Ready(x),
         "stop" \notin x.im, ~Started(p),
         NEW y, y = R!TxComplete(x)
  PROVE  RadioOK(y, p)
<1>1. PICK a \in Rec : a = [x EXCEPT !.retx = FALSE] BY SetRetx, Zenon
<1>2. PICK b \in Rec : b = [a EXCEPT !.tx = "none"] BY SetTx, Zenon
<1>3. PICK c \in Rec : c = R!RxOffRequest(b) BY OffRequest, Zenon
<1>4. PICK d \in Rec : d = R!UpdateTxPower(c) BY TxPowerSet
<1>5. PICK e : e = R!UpdateChannel(d) OBVIOUS
<1>6. /\ KeepsRx(x, b) /\ KeepsRest(x, b)
  BY <1>1, <1>2 DEF Rec, KeepsRx, KeepsRest
<1>7. /\ b.im = x.im /\ b.flags = x.flags /\ b.on = x.on /\ b.fifo = x.fifo
      /\ b.acking = x.acking /\ b.tx = "none" /\ b.retx = FALSE /\ b.owed = x.owed
  <2>1. KeepsAir(x, a) /\ a.retx = FALSE BY <1>1, RetxCleared
  <2>2. KeepsAir(a, b) /\ b.tx = "none" /\ b.retx = a.retx BY <1>2, TxCleared
  <2> QED BY <2>1, <2>2 DEF KeepsAir
<1>8. TxOK(b, p) BY <1>7 DEF TxOK, Started, Starting
<1>9. RxOK(b, p)
  <2>1. KeepsFifo(x, b) BY <1>7 DEF KeepsFifo
  <2>2. b.rx = x.rx /\ b.rxState = x.rxState /\ b.ack = x.ack BY <1>6 DEF KeepsRx
  <2>3. b.ack /\ p # "clear" => "ackdone" \in b.im BY <1>7, <2>2, Zenon DEF RxOK
  <2> QED BY <2>1, <2>2, <2>3, KeepsRxOK
<1>10. RxOK(c, p) /\ ("fifop" \in c.flags => "fifop" \in b.flags /\ c.fifo = b.fifo)
  BY <1>3, <1>9, OffRequestRxOK
<1>11. /\ KeepsTx(b, c) /\ KeepsRx(b, c) /\ KeepsRest(b, c)
       /\ c.im = b.im /\ c.flags \subseteq b.flags
       /\ c.on /\ c.en = {} => b.rx = "started" \/ b.ack \/ b.tx \in R!TxPhysical
  BY <1>3, OffRequest, Zenon
<1>12. /\ KeepsTx(c, d) /\ KeepsRx(c, d) /\ KeepsRest(c, d)
       /\ d.fifo = c.fifo /\ d.im = c.im /\ d.flags = c.flags /\ d.on = c.on
       /\ d.acking = c.acking
       /\ d.powDue => c.ack \/ c.tx \in R!TxPhysical
  BY <1>4, TxPowerSet
<1>13. TxOK(d, p)
  <2>1. KeepsStop(b, c) /\ KeepsStop(c, d) BY <1>11, <1>12 DEF KeepsStop
  <2>2. TxOK(c, p) BY <1>8, <1>11, <2>1, KeepsTxOK
  <2> QED BY <1>12, <2>1, <2>2, KeepsTxOK
<1>14. RxOK(d, p) BY <1>10, <1>12, Zenon DEF RxOK, KeepsRx
<1>15. /\ d.tx = "none" /\ b.tx = "none" /\ c.tx = "none" /\ d.owed = x.owed
  BY <1>7, <1>11, <1>12, Zenon DEF KeepsTx
<1>16. /\ ~d.failed /\ d.en = c.en
  BY <1>6, <1>11, <1>12, Zenon DEF KeepsRest
<1>17. /\ ~d.isr /\ ~d.reset /\ d.ack = b.ack /\ d.ack = c.ack /\ d.rx = b.rx
  BY <1>6, <1>11, <1>12, Zenon DEF KeepsRx
<1>18. DueOK(d, p)
  <2>1. "none" \notin R!TxPhysical BY DEF R!TxPhysical
  <2>2. d.on /\ d.en = {} => d.rx = "started" \/ d.ack
    BY <1>11, <1>12, <1>15, <1>16, <1>17, <2>1
  <2>3. d.powDue => d.ack BY <1>12, <1>15, <1>17, <2>1
  <2> QED BY <1>15, <2>2, <2>3 DEF DueOK
<1>19. Ready(d) BY <1>7, <1>10, <1>12 DEF Ready
<1>20. /\ e \in Rec /\ ~e.failed /\ ~e.isr /\ ~e.reset /\ e.tx = "none" /\ e.owed = d.owed
       /\ TxOK(e, p) /\ RxOK(e, p) /\ DueOK(e, p) /\ Ready(e)
  BY <1>5, <1>13, <1>14, <1>15, <1>16, <1>17, <1>18, <1>19, ChannelUpdated, Zenon
<1>21. y = [e EXCEPT !.owed = FALSE]
  <2>1. [x EXCEPT !.retx = FALSE, !.tx = "none"] = b BY <1>1, <1>2
  <2>2. y = [R!Assert(e, e.owed) EXCEPT !.owed = FALSE]
    BY <1>3, <1>4, <1>5, <2>1, Zenon DEF R!TxComplete
  <2>3. R!Assert(e, e.owed) = e BY <1>15, <1>20, AssertHolds, Zenon
  <2> QED BY <2>2, <2>3
<1>22. y \in Rec BY <1>20, <1>21, SetOwed, Zenon
<1>23. /\ KeepsRx(e, y) /\ KeepsRest(e, y) /\ y.fifo = e.fifo /\ y.im = e.im
  BY <1>20, <1>21 DEF Rec, KeepsRx, KeepsRest
<1>24. /\ y.flags = e.flags /\ y.on = e.on /\ y.acking = e.acking /\ y.powDue = e.powDue
       /\ y.tx = "none" /\ y.owed = FALSE /\ y.retx = e.retx
  BY <1>20, <1>21 DEF Rec
<1>25. TxOK(y, p) BY <1>20, <1>23, <1>24 DEF TxOK, Started, Starting
<1>26. RxOK(y, p) BY <1>20, <1>23, <1>24, Zenon DEF RxOK, KeepsRx
<1>27. DueOK(y, p) BY <1>20, <1>23, <1>24, Zenon DEF DueOK, KeepsRx, KeepsRest
<1>28. ~y.failed /\ ~y.isr /\ ~y.reset BY <1>20, <1>23, Zenon DEF KeepsRx, KeepsRest
<1> QED BY <1>20, <1>22, <1>23, <1>24, <1>25, <1>26, <1>27, <1>28 DEF RadioOK, Sound, Owed, Ready

LEMMA CompletedIsr ==
  ASSUME NEW x \in Rec, NEW p, ~x.failed, x.isr, x.rx = "started", x.owed, OnOrEmpty(x),
         "stop" \notin x.im, ~Started(p),
         NEW y, y = R!TxComplete(x)
  PROVE  /\ y \in Rec /\ ~y.failed /\ Owed(y) /\ TxOK(y, p) /\ Calm(x, y)
<1>1. PICK a \in Rec : a = [x EXCEPT !.retx = FALSE] BY SetRetx, Zenon
<1>2. PICK b \in Rec : b = [a EXCEPT !.tx = "none"] BY SetTx, Zenon
<1>3. PICK d \in Rec : d = R!UpdateTxPower(b) BY TxPowerSet
<1>4. PICK e : e = R!UpdateChannel(d) OBVIOUS
<1>5. /\ KeepsRx(x, b) /\ KeepsRest(x, b)
  <2>1. KeepsRx(x, a) /\ KeepsRest(x, a)
    <3>1. IsRec(x) BY RecIs
    <3> QED BY <1>1, <3>1, Zenon DEF IsRec, KeepsRx, KeepsRest
  <2>2. KeepsRx(a, b) /\ KeepsRest(a, b) BY <1>2 DEF Rec, KeepsRx, KeepsRest
  <2> QED BY <2>1, <2>2, Zenon DEF KeepsRx, KeepsRest
<1>6. /\ b.im = x.im /\ b.flags = x.flags /\ b.on = x.on /\ b.fifo = x.fifo
      /\ b.acking = x.acking /\ b.tx = "none" /\ b.retx = FALSE /\ b.owed = x.owed
  <2>1. KeepsAir(x, a) /\ a.retx = FALSE BY <1>1, RetxCleared
  <2>2. KeepsAir(a, b) /\ b.tx = "none" /\ b.retx = a.retx BY <1>2, TxCleared
  <2> QED BY <2>1, <2>2 DEF KeepsAir
<1>7. R!RxOffRequest(b) = b
  <2>1. b.rx = "started" BY <1>5 DEF KeepsRx
  <2> QED BY <2>1 DEF R!RxOffRequest, R!RxPhysical
<1>8. TxOK(b, p) BY <1>6 DEF TxOK, Started, Starting
<1>9. /\ KeepsTx(b, d) /\ KeepsRx(b, d) /\ KeepsRest(b, d)
      /\ d.fifo = b.fifo /\ d.im = b.im /\ d.flags = b.flags /\ d.on = b.on
      /\ d.acking = b.acking
  BY <1>3, TxPowerSet
<1>10. TxOK(d, p)
  <2>1. KeepsStop(b, d) BY <1>9 DEF KeepsStop
  <2> QED BY <1>8, <1>9, <2>1, KeepsTxOK
<1>11. /\ ~d.failed /\ d.isr /\ d.tx = "none" /\ d.owed = x.owed
  BY <1>5, <1>6, <1>9, Zenon DEF KeepsTx, KeepsRx, KeepsRest
<1>12. OnOrEmpty(d) BY <1>6, <1>9, Zenon DEF OnOrEmpty
<1>13. /\ e \in Rec /\ ~e.failed /\ e.tx = "none" /\ e.owed = d.owed
       /\ TxOK(e, p) /\ Calm(d, e)
  BY <1>4, <1>10, <1>11, <1>12, ChannelUpdatedIsr, Zenon
<1>14. y = [e EXCEPT !.owed = FALSE]
  <2>1. [x EXCEPT !.retx = FALSE, !.tx = "none"] = b BY <1>1, <1>2
  <2>2. y = [R!Assert(e, e.owed) EXCEPT !.owed = FALSE]
    BY <1>3, <1>4, <1>7, <2>1, Zenon DEF R!TxComplete
  <2>3. R!Assert(e, e.owed) = e BY <1>11, <1>13, AssertHolds, Zenon
  <2> QED BY <2>2, <2>3
<1>15. y \in Rec BY <1>13, <1>14, SetOwed, Zenon
<1>16. /\ KeepsRx(e, y) /\ y.failed = e.failed /\ y.fifo = e.fifo /\ y.im = e.im
  BY <1>13, <1>14 DEF Rec, KeepsRx
<1>17. /\ y.flags = e.flags /\ y.on = e.on /\ y.acking = e.acking
       /\ y.tx = "none" /\ y.owed = FALSE /\ y.retx = e.retx
  BY <1>13, <1>14 DEF Rec
<1>18. TxOK(y, p) BY <1>13, <1>16, <1>17 DEF TxOK, Started, Starting
<1>19. Calm(x, y)
  <2>1. Calm(x, d)
    BY <1>5, <1>6, <1>9, Zenon DEF Calm, KeepsRx, KeepsFifo
  <2>2. Calm(e, y)
    BY <1>16, <1>17, Zenon DEF Calm, KeepsRx, KeepsFifo
  <2>3. Calm(x, e) BY <1>13, <2>1, CalmTwice
  <2> QED BY <2>2, <2>3, CalmTwice
<1> QED BY <1>13, <1>15, <1>16, <1>17, <1>18, <1>19 DEF Owed

(* The ACK that is awaited has a timer of its own.                         *)
LEMMA AckTimed ==
  ASSUME NEW x \in Rec, NEW p, ~x.failed, x.owed, "stop" \notin x.im, ~Started(p),
         NEW y, y = R!RequestAckTimeout([x EXCEPT !.tx = "listen"])
  PROVE  /\ y \in Rec /\ ~y.failed /\ Owed(y) /\ TxOK(y, p) /\ y.tx = "listen"
         /\ KeepsRx(x, y) /\ KeepsFifo(x, y) /\ y.im = x.im \cup {"stop"}
<1>1. PICK a \in Rec : a = [x EXCEPT !.tx = "listen"] BY SetTx, Zenon
<1>2. PICK b \in Rec : b = [a EXCEPT !.cspz = "timeout"] BY SetCspz, Zenon
<1>3. PICK c \in Rec : c = [b EXCEPT !.csp = "timer"] BY SetCsp, Zenon
<1>4. c.flags \ {"stop"} \in SUBSET {"stop", "int", "ackdone", "fifop"} BY DEF Rec
<1>5. PICK d \in Rec : d = [c EXCEPT !.flags = c.flags \ {"stop"}] BY <1>4, SetFlags, Zenon
<1>6. d.im \cup {"stop"} \in SUBSET {"stop", "int", "ackdone"} BY DEF Rec
<1>7. a.im = x.im BY <1>1 DEF Rec
<1>8. R!Assert(a, "stop" \notin a.im) = a BY <1>7, AssertHolds, Zenon
<1>9. y = [d EXCEPT !.im = @ \cup {"stop"}]
  <2>1. IsRec(a) /\ IsRec(b) /\ IsRec(c) /\ IsRec(d) BY RecIs
  <2>2. y = [a EXCEPT !.cspz = "timeout", !.csp = "timer",
                      !.flags = @ \ {"stop"}, !.im = @ \cup {"stop"}]
    BY <1>1, <1>8, Zenon DEF R!RequestAckTimeout
  <2> QED BY <1>2, <1>3, <1>5, <2>1, <2>2 DEF IsRec
<1>10. y = [d EXCEPT !.im = d.im \cup {"stop"}] BY <1>9, Zenon DEF Rec
<1>11. y \in Rec BY <1>6, <1>10, SetIm
<1>12. KeepsRx(x, y)
  <2>1. KeepsRx(x, b) BY <1>1, <1>2 DEF Rec, KeepsRx
  <2>2. KeepsRx(b, d) BY <1>3, <1>5 DEF Rec, KeepsRx
  <2>3. KeepsRx(d, y) BY <1>10 DEF Rec, KeepsRx
  <2> QED BY <2>1, <2>2, <2>3, Zenon DEF KeepsRx
<1>13. /\ y.im = x.im \cup {"stop"} /\ y.flags = x.flags \ {"stop"}
       /\ y.fifo = x.fifo /\ y.acking = x.acking /\ y.on = x.on
  <2>1. b.im = x.im /\ b.flags = x.flags /\ b.fifo = x.fifo /\ b.acking = x.acking /\ b.on = x.on
    BY <1>1, <1>2 DEF Rec
  <2>2. /\ d.im = b.im /\ d.flags = b.flags \ {"stop"} /\ d.fifo = b.fifo
        /\ d.acking = b.acking /\ d.on = b.on
    BY <1>3, <1>5 DEF Rec
  <2>3. /\ y.im = d.im \cup {"stop"} /\ y.flags = d.flags /\ y.fifo = d.fifo
        /\ y.acking = d.acking /\ y.on = d.on
    BY <1>10 DEF Rec
  <2> QED BY <2>1, <2>2, <2>3
<1>14. /\ y.tx = "listen" /\ y.cspz = "timeout" /\ y.csp = "timer"
       /\ y.failed = x.failed /\ y.owed = x.owed
  <2>1. b.tx = "listen" /\ b.cspz = "timeout" /\ b.failed = x.failed /\ b.owed = x.owed
    <3>1. a.tx = "listen" /\ a.failed = x.failed /\ a.owed = x.owed
      <4>1. IsRec(x) BY RecIs
      <4> QED BY <1>1, <4>1, Zenon DEF IsRec
    <3>2. b.cspz = "timeout" /\ b.tx = a.tx /\ b.failed = a.failed /\ b.owed = a.owed
      <4>1. IsRec(a) BY RecIs
      <4> QED BY <1>2, <4>1 DEF IsRec
    <3> QED BY <3>1, <3>2
  <2>2. /\ d.tx = b.tx /\ d.cspz = b.cspz /\ d.failed = b.failed /\ d.owed = b.owed
        /\ d.csp = "timer"
    BY <1>3, <1>5 DEF Rec
  <2>3. /\ y.tx = d.tx /\ y.cspz = d.cspz /\ y.failed = d.failed /\ y.owed = d.owed
        /\ y.csp = d.csp
    BY <1>10 DEF Rec
  <2> QED BY <2>1, <2>2, <2>3, Zenon
<1>15. TxOK(y, p) BY <1>14 DEF TxOK, Started, Starting
<1>16. KeepsFifo(x, y) BY <1>13 DEF KeepsFifo
<1> QED BY <1>11, <1>12, <1>13, <1>14, <1>15, <1>16, Zenon DEF Owed

LEMMA TxDoneTask ==
  ASSUME NEW x \in Rec, NEW p, ~x.failed, ~x.isr, ~x.reset, x.owed, x.tx = "go",
         RxOK(x, p), Ready(x), "stop" \notin x.im, ~Started(p),
         NEW y, y = R!TxDone(x)
  PROVE  RadioOK(y, p)
<1>1. CASE ~x.ackReq
  <2>1. PICK a \in Rec : a = [x EXCEPT !.tx = "done"] BY SetTx, Zenon
  <2>2. y = R!TxComplete(a) BY <1>1, <2>1 DEF R!TxDone
  <2>3. IsRec(x) BY RecIs
  <2>4. /\ KeepsRx(x, a) /\ a.failed = x.failed /\ a.owed = x.owed /\ a.im = x.im
        /\ a.fifo = x.fifo /\ a.acking = x.acking /\ a.on = x.on /\ a.flags = x.flags
    BY <2>1, <2>3, Zenon DEF IsRec, KeepsRx
  <2>5. RxOK(a, p) BY <2>4, Zenon DEF RxOK, KeepsRx
  <2>6. Ready(a) BY <2>4, Zenon DEF Ready
  <2>7. ~a.isr /\ ~a.reset BY <2>4, Zenon DEF KeepsRx
  <2> QED BY <2>2, <2>4, <2>5, <2>6, <2>7, Completed, Zenon
<1>2. CASE x.ackReq
  <2>1. y = R!RequestAckTimeout([x EXCEPT !.tx = "listen"]) BY <1>2 DEF R!TxDone
  <2>2. /\ y \in Rec /\ ~y.failed /\ Owed(y) /\ TxOK(y, p) /\ y.tx = "listen"
        /\ KeepsRx(x, y) /\ KeepsFifo(x, y) /\ y.im = x.im \cup {"stop"}
    BY <2>1, AckTimed
  <2>3. /\ y.rx = x.rx /\ y.rxState = x.rxState /\ y.ack = x.ack /\ ~y.isr /\ ~y.reset
    BY <2>2, Zenon DEF KeepsRx
  <2>4. y.ack /\ p # "clear" => "ackdone" \in y.im BY <2>2, <2>3 DEF RxOK
  <2>5. RxOK(y, p) BY <2>2, <2>3, <2>4, KeepsRxOK
  <2>6. DueOK(y, p) BY <2>2 DEF DueOK, R!TxPhysical
  <2>7. Ready(y) BY <2>2 DEF Ready, KeepsFifo
  <2> QED BY <2>2, <2>3, <2>5, <2>6, <2>7 DEF RadioOK, Sound
<1> QED BY <1>1, <1>2

LEMMA TxDoneIsr ==
  ASSUME NEW x \in Rec, NEW p, ~x.failed, x.isr, x.rx = "started", x.owed, x.tx = "go", OnOrEmpty(x),
         "stop" \notin x.im, ~Started(p),
         NEW y, y = R!TxDone(x)
  PROVE  /\ y \in Rec /\ ~y.failed /\ Owed(y) /\ TxOK(y, p) /\ Calm(x, y)
<1>1. CASE ~x.ackReq
  <2>1. PICK a \in Rec : a = [x EXCEPT !.tx = "done"] BY SetTx, Zenon
  <2>2. y = R!TxComplete(a) BY <1>1, <2>1 DEF R!TxDone
  <2>3. IsRec(x) BY RecIs
  <2>4. /\ KeepsRx(x, a) /\ a.failed = x.failed /\ a.owed = x.owed /\ a.im = x.im
        /\ a.fifo = x.fifo /\ a.acking = x.acking /\ a.on = x.on /\ a.flags = x.flags
    BY <2>1, <2>3, Zenon DEF IsRec, KeepsRx
  <2>5. OnOrEmpty(a) /\ Calm(x, a) BY <2>4, Zenon DEF OnOrEmpty, Calm, KeepsRx, KeepsFifo
  <2>6. a.isr /\ a.rx = "started" BY <2>4, Zenon DEF KeepsRx
  <2>7. /\ y \in Rec /\ ~y.failed /\ Owed(y) /\ TxOK(y, p) /\ Calm(a, y)
    BY <2>2, <2>4, <2>5, <2>6, CompletedIsr, Zenon
  <2> QED BY <2>5, <2>7, CalmTwice
<1>2. CASE x.ackReq
  <2>1. y = R!RequestAckTimeout([x EXCEPT !.tx = "listen"]) BY <1>2 DEF R!TxDone
  <2>2. /\ y \in Rec /\ ~y.failed /\ Owed(y) /\ TxOK(y, p)
        /\ KeepsRx(x, y) /\ KeepsFifo(x, y) /\ y.im = x.im \cup {"stop"}
    BY <2>1, AckTimed
  <2>3. "ackdone" \in y.im <=> "ackdone" \in x.im BY <2>2
  <2>4. Calm(x, y) BY <2>2, <2>3, Zenon DEF Calm, KeepsRx
  <2> QED BY <2>2, <2>4
<1> QED BY <1>1, <1>2

(* The timer of the ACK is stopped before the transmit is completed.       *)
LEMMA TimeoutCancelled ==
  ASSUME NEW x \in Rec, NEW y, y = R!CancelAckTimeout([x EXCEPT !.tx = "postAck"])
  PROVE  /\ y \in Rec /\ KeepsRx(x, y) /\ KeepsFifo(x, y) /\ "stop" \notin y.im
         /\ y.failed = x.failed /\ y.owed = x.owed /\ y.im = x.im \ {"stop"}
<1>1. PICK a \in Rec : a = [x EXCEPT !.tx = "postAck"] BY SetTx, Zenon
<1>2. /\ a.im \ {"stop"} \in SUBSET {"stop", "int", "ackdone"}
      /\ a.flags \cup {"stop"} \in SUBSET {"stop", "int", "ackdone", "fifop"}
  BY DEF Rec
<1>3. PICK b \in Rec : b = [a EXCEPT !.im = a.im \ {"stop"}] BY <1>2, SetIm, Zenon
<1>4. PICK c \in Rec : c = [b EXCEPT !.csp = "none"] BY SetCsp, Zenon
<1>5. IsRec(x) /\ IsRec(a) /\ IsRec(b) /\ IsRec(c) BY RecIs
<1>6. c.flags = a.flags BY <1>3, <1>4, <1>5 DEF IsRec
<1>7. y = [c EXCEPT !.flags = a.flags \cup {"stop"}]
  BY <1>1, <1>3, <1>4, <1>5 DEF R!CancelAckTimeout, IsRec
<1>8. y \in Rec BY <1>2, <1>7, SetFlags
<1>9. /\ KeepsRx(x, y) /\ y.failed = x.failed /\ y.owed = x.owed
      /\ y.im = x.im \ {"stop"} /\ y.flags = x.flags \cup {"stop"}
      /\ y.fifo = x.fifo /\ y.acking = x.acking /\ y.on = x.on
  <2>1. IsRec(x) BY RecIs
  <2> QED BY <2>1 DEF R!CancelAckTimeout, IsRec, KeepsRx
<1>10. KeepsFifo(x, y) BY <1>9 DEF KeepsFifo
<1> QED BY <1>8, <1>9, <1>10

LEMMA AckOutcomeTask ==
  ASSUME NEW x \in Rec, NEW p, ~x.failed, ~x.isr, ~x.reset, x.owed, x.tx = "listen",
         RxOK(x, p), Ready(x), ~Started(p),
         NEW y, y = R!AckOutcome(x)
  PROVE  RadioOK(y, p)
<1>1. PICK a : a = R!CancelAckTimeout([x EXCEPT !.tx = "postAck"]) OBVIOUS
<1>2. /\ a \in Rec /\ KeepsRx(x, a) /\ KeepsFifo(x, a) /\ "stop" \notin a.im
      /\ a.failed = x.failed /\ a.owed = x.owed /\ a.im = x.im \ {"stop"}
  BY <1>1, TimeoutCancelled, Zenon
<1>3. y = R!TxComplete(a) BY <1>1 DEF R!AckOutcome
<1>4. /\ a.rx = x.rx /\ a.rxState = x.rxState /\ a.ack = x.ack /\ ~a.isr /\ ~a.reset
  BY <1>2, Zenon DEF KeepsRx
<1>5. a.ack /\ p # "clear" => "ackdone" \in a.im BY <1>2, <1>4 DEF RxOK
<1>6. RxOK(a, p) BY <1>2, <1>4, <1>5, KeepsRxOK
<1>7. Ready(a) BY <1>2 DEF Ready, KeepsFifo
<1> QED BY <1>2, <1>3, <1>4, <1>6, <1>7, Completed, Zenon

LEMMA AckOutcomeIsr ==
  ASSUME NEW x \in Rec, NEW p, ~x.failed, x.isr, x.rx = "started", Owed(x), OnOrEmpty(x), TxOK(x, p),
         NEW y, y = R!AckOutcome(x)
  PROVE  /\ y \in Rec /\ ~y.failed /\ Owed(y) /\ TxOK(y, p) /\ Calm(x, y)
<1>1. CASE x.tx = "listen"
  <2>1. PICK a : a = R!CancelAckTimeout([x EXCEPT !.tx = "postAck"]) OBVIOUS
  <2>2. /\ a \in Rec /\ KeepsRx(x, a) /\ KeepsFifo(x, a) /\ "stop" \notin a.im
        /\ a.failed = x.failed /\ a.owed = x.owed /\ a.im = x.im \ {"stop"}
    BY <2>1, TimeoutCancelled
  <2>3. y = R!TxComplete(a) BY <1>1, <2>1 DEF R!AckOutcome
  <2>4. "ackdone" \in a.im <=> "ackdone" \in x.im BY <2>2
  <2>5. Calm(x, a) BY <2>2, <2>4, Zenon DEF Calm, KeepsRx
  <2>6. OnOrEmpty(a) BY <2>2, Zenon DEF OnOrEmpty, KeepsFifo
  <2>7. ~Started(p) BY <1>1 DEF Started, Starting, TxOK
  <2>8. ~a.failed /\ a.isr /\ a.rx = "started" /\ a.owed
    BY <1>1, <2>2, <2>5 DEF Calm, Owed
  <2>9. /\ y \in Rec /\ ~y.failed /\ Owed(y) /\ TxOK(y, p) /\ Calm(a, y)
    BY <2>2, <2>3, <2>6, <2>7, <2>8, CompletedIsr
  <2> QED BY <2>5, <2>9, CalmTwice
<1>2. CASE x.tx # "listen"
  <2>1. y = x BY <1>2 DEF R!AckOutcome
  <2> QED BY <2>1, Zenon DEF Calm, KeepsFifo
<1> QED BY <1>1, <1>2

(* The interrupt of the strobe processor.                                  *)
LEMMA ChannelBusyTask ==
  ASSUME NEW x \in Rec, NEW p, ~x.failed, ~x.isr, ~x.reset, x.owed,
         RxOK(x, p), Ready(x), "stop" \notin x.im, ~Started(p),
         NEW y, y = R!ChannelBusy(x)
  PROVE  RadioOK(y, p)
<1>1. PICK a \in Rec : a = [x EXCEPT !.tx = "busy"] BY SetTx, Zenon
<1>2. PICK b \in Rec : b = R!RxOffRequest(a) BY OffRequest, Zenon
<1>3. b.nb + 1 \in Nat BY DEF Rec
<1>4. PICK c \in Rec : c = [b EXCEPT !.nb = b.nb + 1] BY <1>3, SetNb, Zenon
<1>5. IsRec(c) BY RecIs
<1>6. c = [b EXCEPT !.nb = @ + 1]
  <2>1. IsRec(b) BY RecIs
  <2> QED BY <1>4, <2>1 DEF IsRec
<1>7. IsRec(x) BY RecIs
<1>8. /\ KeepsRx(x, a) /\ a.failed = x.failed /\ a.owed = x.owed /\ a.im = x.im
      /\ a.fifo = x.fifo /\ a.acking = x.acking /\ a.on = x.on /\ a.flags = x.flags
  BY <1>1, <1>7, Zenon DEF IsRec, KeepsRx
<1>9. RxOK(a, p) BY <1>8, Zenon DEF RxOK, KeepsRx
<1>10. RxOK(b, p) /\ ("fifop" \in b.flags => "fifop" \in a.flags /\ b.fifo = a.fifo)
  BY <1>2, <1>9, OffRequestRxOK
<1>11. KeepsTx(a, b) /\ KeepsRx(a, b) /\ KeepsRest(a, b) /\ b.im = a.im
  BY <1>2, OffRequest, Zenon
<1>12. /\ KeepsRx(b, c) /\ c.failed = b.failed /\ c.owed = b.owed /\ c.im = b.im
       /\ c.fifo = b.fifo /\ c.acking = b.acking /\ c.on = b.on /\ c.flags = b.flags
  <2>1. IsRec(b) BY RecIs
  <2> QED BY <1>4, <2>1 DEF IsRec, KeepsRx
<1>13. RxOK(c, p) BY <1>10, <1>12, Zenon DEF RxOK, KeepsRx
<1>14. ~c.failed /\ ~c.isr /\ ~c.reset /\ c.owed /\ "stop" \notin c.im
  BY <1>8, <1>11, <1>12, Zenon DEF KeepsRx, KeepsRest, KeepsTx
<1>15. Ready(c) BY <1>8, <1>10, <1>12 DEF Ready
<1>16. CASE c.nb > MaxBackoffs
  <2>1. y = R!TxComplete(c) BY <1>1, <1>2, <1>6, <1>16 DEF R!ChannelBusy
  <2> QED BY <1>13, <1>14, <1>15, <2>1, Completed
<1>17. CASE ~(c.nb > MaxBackoffs)
  <2>1. R!Assert(c, "stop" \notin c.im) = c BY <1>14, AssertHolds, Zenon
  <2>2. y = R!CsmaGo([R!CsmaPrep(c) EXCEPT !.tx = "go"])
    BY <1>1, <1>2, <1>6, <1>17 DEF R!ChannelBusy
  <2>3. /\ c.flags \ {"stop", "int"} \in SUBSET {"stop", "int", "ackdone", "fifop"}
        /\ c.im \cup {"stop", "int"} \in SUBSET {"stop", "int", "ackdone"}
    BY DEF Rec
  <2>4. PICK d \in Rec : d = [c EXCEPT !.cspz = "busy"] BY SetCspz, Zenon
  <2>5. PICK e \in Rec : e = [d EXCEPT !.csp = "loaded"] BY SetCsp, Zenon
  <2>6. PICK f \in Rec : f = [e EXCEPT !.flags = c.flags \ {"stop", "int"}] BY <2>3, SetFlags, Zenon
  <2>7. PICK g \in Rec : g = [f EXCEPT !.tx = "go"] BY SetTx, Zenon
  <2>8. IsRec(d) /\ IsRec(e) /\ IsRec(f) /\ IsRec(g) BY RecIs
  <2>9. R!CsmaPrep(c) = f
    BY <1>5, <2>1, <2>4, <2>5, <2>6, <2>8, Zenon DEF R!CsmaPrep, IsRec
  <2>10. y = R!StartCsp(R!RxOn(R!EnableCsp(g))) BY <2>2, <2>7, <2>9 DEF R!CsmaGo
  <2>11. y \in Rec
    <3>1. PICK h \in Rec : h = R!EnableCsp(g) BY Statements
    <3>2. PICK i \in Rec : i = R!RxOn(h) BY Statements
    <3> QED BY <2>10, <3>1, <3>2, Statements
  <2>12. g = [c EXCEPT !.cspz = "busy", !.csp = "loaded", !.tx = "go",
                       !.flags = c.flags \ {"stop", "int"}]
    BY <1>5, <2>4, <2>5, <2>6, <2>7, Zenon DEF IsRec
  <2>13. y = [c EXCEPT !.cspz = "busy", !.csp = "csma", !.tx = "go", !.on = TRUE,
                       !.flags = c.flags \ {"stop", "int"}, !.im = c.im \cup {"stop", "int"}]
    BY <1>5, <2>10, <2>12, Zenon DEF IsRec, R!StartCsp, R!RxOn, R!EnableCsp
  <2>14. /\ KeepsRx(c, y) /\ y.failed = c.failed /\ y.owed = c.owed
         /\ y.fifo = c.fifo /\ y.acking = c.acking /\ y.on = TRUE
         /\ y.flags = c.flags \ {"stop", "int"} /\ y.im = c.im \cup {"stop", "int"}
         /\ y.tx = "go" /\ y.cspz = "busy" /\ y.csp = "csma"
    BY <1>5, <2>13 DEF IsRec, KeepsRx
  <2>15. KeepsFifo(c, y) BY <2>14 DEF KeepsFifo
  <2>16. y.rx = c.rx /\ y.rxState = c.rxState /\ y.ack = c.ack /\ ~y.isr /\ ~y.reset
    BY <1>14, <2>14, Zenon DEF KeepsRx
  <2>17. y.ack /\ p # "clear" => "ackdone" \in y.im BY <1>13, <2>14, <2>16 DEF RxOK
  <2>18. RxOK(y, p) BY <1>13, <2>15, <2>16, <2>17, KeepsRxOK
  <2>19. TxOK(y, p) BY <2>14 DEF TxOK, Started, Starting
  <2>20. DueOK(y, p) BY <2>14 DEF DueOK, R!TxPhysical
  <2>21. Ready(y) BY <1>15, <2>14 DEF Ready
  <2> QED
    BY <1>14, <2>11, <2>14, <2>16, <2>18, <2>19, <2>20, <2>21 DEF RadioOK, Sound, Owed
<1> QED BY <1>16, <1>17

LEMMA StopHandled ==
  ASSUME NEW x, NEW p, RadioOK(x, p), R!Flagged(x, "stop")
  PROVE  RadioOK(R!StopIsr(x), p)
<1> DEFINE z == [x EXCEPT !.im = @ \ {"stop"}, !.flags = @ \ {"stop"}]
<1>1. /\ x \in Rec /\ ~x.failed /\ Owed(x) /\ TxOK(x, p) /\ RxOK(x, p) /\ DueOK(x, p)
      /\ ~x.isr /\ ~x.reset /\ Ready(x)
  BY DEF RadioOK, Sound
<1>2. "stop" \in x.im /\ "stop" \in x.flags BY DEF R!Flagged
<1>3. x.tx \in {"go", "listen"} /\ ~Started(p) /\ (x.tx = "listen" => x.cspz = "timeout")
  BY <1>1, <1>2 DEF TxOK, Loaded, Started, Starting
<1>4. IsRec(x) BY <1>1, RecIs
<1>5. z \in Rec
  <2>1. /\ x.im \ {"stop"} \in SUBSET {"stop", "int", "ackdone"}
        /\ x.flags \ {"stop"} \in SUBSET {"stop", "int", "ackdone", "fifop"}
    BY <1>1 DEF Rec
  <2>2. PICK a \in Rec : a = [x EXCEPT !.im = x.im \ {"stop"}] BY <1>1, <2>1, SetIm, Zenon
  <2>3. z = [a EXCEPT !.flags = x.flags \ {"stop"}]
    BY <1>4, <2>2 DEF IsRec
  <2> QED BY <2>1, <2>3, SetFlags
<1>6. /\ KeepsRx(x, z) /\ KeepsRest(x, z) /\ KeepsTx(x, z)
  BY <1>4 DEF IsRec, KeepsRx, KeepsRest, KeepsTx
<1>7. /\ z.im = x.im \ {"stop"} /\ z.flags = x.flags \ {"stop"} /\ z.fifo = x.fifo
      /\ z.acking = x.acking /\ z.on = x.on /\ z.powDue = x.powDue
  BY <1>4 DEF IsRec
<1> HIDE DEF z
<1>8. /\ z.rx = x.rx /\ z.rxState = x.rxState /\ z.ack = x.ack /\ ~z.isr /\ ~z.reset
  BY <1>1, <1>6, Zenon DEF KeepsRx
<1>9. z.tx = x.tx /\ z.cspz = x.cspz /\ z.owed = x.owed BY <1>6 DEF KeepsTx
<1>10. KeepsFifo(x, z) BY <1>7 DEF KeepsFifo
<1>11. RxOK(z, p)
  <2>1. z.ack /\ p # "clear" => "ackdone" \in z.im BY <1>1, <1>7, <1>8 DEF RxOK
  <2> QED BY <1>1, <1>8, <1>10, <2>1, KeepsRxOK
<1>12. Ready(z) BY <1>1, <1>7 DEF Ready
<1>13. ~z.failed BY <1>1, <1>6 DEF KeepsRest
<1>14. z.owed BY <1>1, <1>3, <1>9 DEF Owed
<1>15. "stop" \notin z.im BY <1>7
<1>16. z.cspz \in {"busy", "done", "timeout"} BY <1>5 DEF Rec
<1>17. CASE z.cspz = "done"
  <2>1. R!StopIsr(x) = R!TxDone(z) BY <1>17 DEF R!StopIsr, z
  <2>2. z.tx = "go" BY <1>3, <1>9, <1>17
  <2> QED BY <1>3, <1>5, <1>8, <1>11, <1>12, <1>13, <1>14, <1>15, <2>1, <2>2, TxDoneTask
<1>18. CASE z.cspz = "busy"
  <2>1. R!StopIsr(x) = R!ChannelBusy(z) BY <1>18 DEF R!StopIsr, z
  <2> QED BY <1>3, <1>5, <1>8, <1>11, <1>12, <1>13, <1>14, <1>15, <2>1, ChannelBusyTask
<1>19. CASE z.cspz = "timeout"
  <2>1. R!StopIsr(x) = R!AckOutcome(z) BY <1>19 DEF R!StopIsr, z
  <2>2. CASE z.tx = "listen"
    BY <1>3, <1>5, <1>8, <1>11, <1>12, <1>13, <1>14, <2>1, <2>2, AckOutcomeTask
  <2>3. CASE z.tx = "go"
    <3>1. R!AckOutcome(z) = z BY <2>3 DEF R!AckOutcome
    <3>2. TxOK(z, p) BY <1>3, <1>15, <2>3 DEF TxOK, Started, Starting
    <3>3. DueOK(z, p) BY <2>3 DEF DueOK, R!TxPhysical
    <3>4. Owed(z) BY <1>14, <2>3 DEF Owed
    <3>5. RadioOK(z, p)
      BY <1>5, <1>8, <1>11, <1>12, <1>13, <3>2, <3>3, <3>4 DEF RadioOK, Sound
    <3> QED BY <2>1, <3>1, <3>5
  <2> QED BY <1>3, <1>9, <2>2, <2>3
<1> QED BY <1>16, <1>17, <1>18, <1>19

LEMMA IntHandled ==
  ASSUME NEW x, NEW p, RadioOK(x, p)
  PROVE  RadioOK(R!IntIsr(x), p)
<1> DEFINE z == R!IntIsr(x)
<1>1. /\ x \in Rec /\ ~x.failed /\ Owed(x) /\ TxOK(x, p) /\ RxOK(x, p) /\ DueOK(x, p)
      /\ ~x.isr /\ ~x.reset /\ Ready(x)
  BY DEF RadioOK, Sound
<1>2. IsRec(x) BY <1>1, RecIs
<1>3. z \in Rec
  <2>1. /\ x.im \ {"int"} \in SUBSET {"stop", "int", "ackdone"}
        /\ x.flags \ {"int"} \in SUBSET {"stop", "int", "ackdone", "fifop"}
    BY <1>1 DEF Rec
  <2>2. PICK a \in Rec : a = [x EXCEPT !.im = x.im \ {"int"}] BY <1>1, <2>1, SetIm, Zenon
  <2>3. z = [a EXCEPT !.flags = x.flags \ {"int"}]
    BY <1>2, <2>2 DEF IsRec, R!IntIsr
  <2> QED BY <2>1, <2>3, SetFlags
<1>4. /\ KeepsRx(x, z) /\ KeepsRest(x, z) /\ KeepsTx(x, z)
  BY <1>2 DEF IsRec, R!IntIsr, KeepsRx, KeepsRest, KeepsTx
<1>5. /\ z.im = x.im \ {"int"} /\ z.flags = x.flags \ {"int"} /\ z.fifo = x.fifo
      /\ z.acking = x.acking /\ z.on = x.on /\ z.powDue = x.powDue
  BY <1>2 DEF IsRec, R!IntIsr
<1> HIDE DEF z
<1>6. /\ z.rx = x.rx /\ z.rxState = x.rxState /\ z.ack = x.ack /\ ~z.isr /\ ~z.reset
  BY <1>1, <1>4, Zenon DEF KeepsRx
<1>7. KeepsFifo(x, z) /\ KeepsStop(x, z) BY <1>5 DEF KeepsFifo, KeepsStop
<1>8. RxOK(z, p)
  <2>1. z.ack /\ p # "clear" => "ackdone" \in z.im BY <1>1, <1>5, <1>6 DEF RxOK
  <2> QED BY <1>1, <1>6, <1>7, <2>1, KeepsRxOK
<1>9. TxOK(z, p) BY <1>1, <1>4, <1>7, KeepsTxOK
<1>10. DueOK(z, p) BY <1>1, <1>4, <1>5, Zenon DEF DueOK, KeepsTx, KeepsRx, KeepsRest
<1>11. Ready(z) BY <1>1, <1>5 DEF Ready
<1>12. ~z.failed /\ Owed(z) BY <1>1, <1>4, Zenon DEF KeepsRest, KeepsTx, Owed
<1>13. RadioOK(z, p)
  BY <1>3, <1>6, <1>8, <1>9, <1>10, <1>11, <1>12 DEF RadioOK, Sound
<1> QED BY <1>13 DEF z

(* The flag of the outgoing ACK and the enable of its interrupt, cleared   *)
LEMMA AckCleared ==
  ASSUME NEW x \in Rec, NEW y, y = R!ClearAckFlag(R!CancelAckDone(x))
  PROVE  /\ y \in Rec /\ y.im = x.im \ {"ackdone"} /\ y.ack = FALSE
         /\ KeepsTx(x, y) /\ KeepsRest(x, y) /\ KeepsFifo(x, y) /\ KeepsStop(x, y)
         /\ y.rx = x.rx /\ y.rxState = x.rxState /\ y.isr = x.isr /\ y.reset = x.reset
         /\ y.flags = x.flags /\ y.on = x.on
<1>1. PICK a \in Rec : a = R!CancelAckDone(x) BY Statements
<1>2. y \in Rec BY <1>1, Statements
<1>3. IsRec(x) BY RecIs
<1>4. /\ KeepsTx(x, y) /\ KeepsRest(x, y)
  BY <1>3 DEF IsRec, R!ClearAckFlag, R!CancelAckDone, KeepsTx, KeepsRest
<1>5. /\ y.rx = x.rx /\ y.rxState = x.rxState /\ y.isr = x.isr /\ y.reset = x.reset
      /\ y.flags = x.flags /\ y.on = x.on /\ y.im = x.im \ {"ackdone"} /\ y.ack = FALSE
      /\ y.fifo = x.fifo /\ y.acking = x.acking
  BY <1>3 DEF IsRec, R!ClearAckFlag, R!CancelAckDone
<1>6. KeepsFifo(x, y) /\ KeepsStop(x, y) BY <1>5 DEF KeepsFifo, KeepsStop
<1> QED BY <1>2, <1>4, <1>5, <1>6

LEMMA AckDoneHandled ==
  ASSUME NEW x, NEW p, RadioOK(x, p)
  PROVE  RadioOK(R!AckTxDone(x), p)
<1>1. /\ x \in Rec /\ ~x.failed /\ Owed(x) /\ TxOK(x, p) /\ RxOK(x, p) /\ DueOK(x, p)
      /\ ~x.isr /\ ~x.reset /\ Ready(x)
  BY DEF RadioOK, Sound
<1>2. PICK z : z = R!ClearAckFlag(R!CancelAckDone(x)) OBVIOUS
<1>3. /\ z \in Rec /\ z.im = x.im \ {"ackdone"} /\ z.ack = FALSE
      /\ KeepsTx(x, z) /\ KeepsRest(x, z) /\ KeepsFifo(x, z) /\ KeepsStop(x, z)
      /\ z.rx = x.rx /\ z.rxState = x.rxState /\ z.isr = x.isr /\ z.reset = x.reset
      /\ z.flags = x.flags /\ z.on = x.on
  BY <1>1, <1>2, AckCleared, Zenon
<1>4. TxOK(z, p) BY <1>1, <1>3, KeepsTxOK
<1>5. RxOK(z, p) BY <1>1, <1>3, KeepsRxOK
<1>6. ~z.failed /\ Owed(z) BY <1>1, <1>3, Zenon DEF KeepsRest, KeepsTx, Owed
<1>7. Ready(z) BY <1>1, <1>3 DEF Ready, KeepsFifo
<1>8. CASE z.rx = "none"
  <2>1. PICK y : y = R!PostRxUpdates(z) OBVIOUS
  <2>2. R!AckTxDone(x) = y BY <1>2, <1>8, <2>1 DEF R!AckTxDone
  <2>3. /\ y \in Rec /\ ~y.failed /\ TxOK(y, p) /\ RxOK(y, p) /\ DueOK(y, p)
        /\ KeepsRx(z, y) /\ y.owed = z.owed /\ (y.tx = "none" <=> z.tx = "none")
        /\ "fifop" \in y.flags => "fifop" \in z.flags /\ y.fifo = z.fifo
    BY <1>3, <1>4, <1>5, <1>6, <1>8, <2>1, PostRx
  <2>4. ~y.isr /\ ~y.reset BY <1>1, <1>3, <2>3 DEF KeepsRx
  <2>5. Ready(y) /\ Owed(y) BY <1>6, <1>7, <2>3 DEF Ready, Owed
  <2> QED BY <2>2, <2>3, <2>4, <2>5 DEF RadioOK, Sound
<1>9. CASE z.rx # "none"
  <2>1. R!AckTxDone(x) = z BY <1>2, <1>9 DEF R!AckTxDone
  <2>2. DueOK(z, p) BY <1>9 DEF DueOK
  <2> QED BY <1>1, <1>3, <1>4, <1>5, <1>6, <1>7, <2>1, <2>2 DEF RadioOK, Sound
<1> QED BY <1>8, <1>9

LEMMA CspHandled ==
  ASSUME NEW x, NEW p, RadioOK(x, p)
  PROVE  RadioOK(R!CspPart(x), p)
<1>1. CASE R!Flagged(x, "int")
  BY <1>1, IntHandled DEF R!CspPart
<1>2. CASE ~R!Flagged(x, "int") /\ R!Flagged(x, "stop")
  BY <1>2, StopHandled DEF R!CspPart
<1>3. CASE ~R!Flagged(x, "int") /\ ~R!Flagged(x, "stop") /\ R!Flagged(x, "ackdone")
  BY <1>3, AckDoneHandled DEF R!CspPart
<1>4. CASE ~R!Flagged(x, "int") /\ ~R!Flagged(x, "stop") /\ ~R!Flagged(x, "ackdone")
  BY <1>4 DEF R!CspPart
<1> QED BY <1>1, <1>2, <1>3, <1>4

(* What the FIFO holds, and what reading a portion leaves of it.           *)
LEMMA DataHead ==
  ASSUME NEW s, Data(s)
  PROVE  /\ s \in Seq({"hdr", "addr", "body", "fcs"}) /\ Len(s) \in Nat /\ Len(s) >= 1
         /\ s[1] \in {"addr", "body", "fcs"} /\ (s[1] = "fcs" <=> Len(s) = 1)
<1>1. s \in Seq({"addr", "body", "fcs"}) /\ s # <<>> BY DEF Data
<1>2. Len(s) \in Nat /\ Len(s) >= 1
  <2>1. Len(s) \in Nat \ {0} BY <1>1, EmptySeq
  <2> QED BY <2>1
<1>3. 1 \in 1..Len(s) BY <1>2
<1>4. s[1] \in {"addr", "body", "fcs"} BY <1>1, <1>3, ElementOfSeq
<1>5. s[1] = "fcs" <=> Len(s) = 1 BY <1>2, <1>3, Zenon DEF Data
<1>6. s \in Seq({"hdr", "addr", "body", "fcs"}) BY <1>1
<1> QED BY <1>2, <1>5, <1>6, <1>4

LEMMA DataTail ==
  ASSUME NEW s, Data(s), Len(s) > 1
  PROVE  Data(Tail(s)) /\ Tail(s)[1] = s[2] /\ Len(Tail(s)) = Len(s) - 1
<1>1. s \in Seq({"addr", "body", "fcs"}) BY DEF Data
<1> DEFINE t == Tail(s)
<1>2. /\ t \in Seq({"addr", "body", "fcs"}) /\ Len(t) = Len(s) - 1 /\ t # <<>>
      /\ \A i \in 1..Len(t) : t[i] = s[i + 1]
  <2>1. s # <<>> BY DEF Data
  <2>2. /\ t \in Seq({"addr", "body", "fcs"}) /\ Len(t) = Len(s) - 1
        /\ \A i \in 1..Len(t) : t[i] = s[i + 1]
    BY <1>1, <2>1, HeadTailProperties
  <2>3. Len(s) \in Nat BY DataHead
  <2>4. t # <<>>
    <3>1. Len(t) # 0 BY <2>2, <2>3
    <3> QED BY <3>1, EmptySeq, Zenon
  <2> QED BY <2>2, <2>4
<1>3. Len(s) \in Nat BY DataHead
<1>4. 1 \in 1..Len(t) BY <1>2, <1>3
<1>5. \A i \in 1..Len(t) : t[i] = "fcs" <=> i = Len(t)
  <2> HIDE DEF t
  <2> TAKE i \in 1..Len(t)
  <2>1. i + 1 \in 1..Len(s) /\ (i + 1 = Len(s) <=> i = Len(t)) BY <1>2, <1>3
  <2>2. s[i + 1] = "fcs" <=> i + 1 = Len(s) BY <2>1 DEF Data
  <2>3. t[i] = s[i + 1] BY <1>2
  <2> QED BY <2>1, <2>2, <2>3
<1> HIDE DEF t
<1>6. Data(t) BY <1>2, <1>5 DEF Data
<1>7. t[1] = s[2] BY <1>2, <1>4
<1> QED BY <1>2, <1>6, <1>7 DEF t

LEMMA ReadIs ==
  ASSUME NEW x \in Rec, x.fifo.got > 0 \/ Len(x.fifo.rest) <= 1, NEW y, y = R!Read(x)
  PROVE  /\ y \in Rec /\ KeepsTx(x, y) /\ KeepsRx(x, y) /\ KeepsRest(x, y)
         /\ y.im = x.im /\ y.flags = x.flags /\ y.on = x.on /\ y.acking = x.acking
         /\ IF Len(x.fifo.rest) <= 1 THEN y.fifo = R!NoFrame
            ELSE /\ y.fifo.rest = Tail(x.fifo.rest) /\ y.fifo.got = x.fifo.got - 1
                 /\ y.fifo.ack = x.fifo.ack /\ y.fifo.ar = x.fifo.ar
                 /\ y.fifo.crc = x.fifo.crc
<1>1. IsRec(x) BY RecIs
<1>2. x.fifo \in Frames BY DEF Rec
<1>3. CASE Len(x.fifo.rest) <= 1
  <2>1. y = [x EXCEPT !.fifo = R!NoFrame] BY <1>3 DEF R!Read, R!Flush
  <2>2. y \in Rec BY <2>1, NoFrameIs, SetFifo
  <2>3. KeepsTx(x, y) /\ KeepsRx(x, y) /\ KeepsRest(x, y)
    BY <1>1, <2>1 DEF IsRec, KeepsTx, KeepsRx, KeepsRest
  <2>4. /\ y.im = x.im /\ y.flags = x.flags /\ y.on = x.on /\ y.acking = x.acking
        /\ y.fifo = R!NoFrame
    BY <1>1, <2>1 DEF IsRec
  <2> QED BY <1>3, <2>2, <2>3, <2>4
<1>4. CASE ~(Len(x.fifo.rest) <= 1)
  <2> DEFINE f == [x.fifo EXCEPT !.rest = Tail(x.fifo.rest), !.got = x.fifo.got - 1]
  <2>1. x.fifo.rest \in Seq({"hdr", "addr", "body", "fcs"}) /\ x.fifo.got \in Nat
    BY <1>2 DEF Frames
  <2>2. x.fifo.got - 1 \in Nat BY <1>4, <2>1
  <2>3. Len(x.fifo.rest) # 0 /\ x.fifo.rest # <<>> BY <1>4, <2>1
  <2>4. Tail(x.fifo.rest) \in Seq({"hdr", "addr", "body", "fcs"}) BY <2>1, <2>3
  <2>5. f \in Frames BY <1>2, <2>2, <2>4, Zenon DEF Frames
  <2>6. y = [x EXCEPT !.fifo = f]
    BY <1>1, <1>2, <1>4, Zenon DEF R!Read, IsRec, Frames
  <2>7. /\ f.rest = Tail(x.fifo.rest) /\ f.got = x.fifo.got - 1 /\ f.ack = x.fifo.ack
        /\ f.ar = x.fifo.ar /\ f.crc = x.fifo.crc
    BY <1>2 DEF Frames
  <2> HIDE DEF f
  <2>8. y \in Rec BY <2>5, <2>6, SetFifo
  <2>9. KeepsTx(x, y) /\ KeepsRx(x, y) /\ KeepsRest(x, y)
    BY <1>1, <2>6 DEF IsRec, KeepsTx, KeepsRx, KeepsRest
  <2>10. /\ y.im = x.im /\ y.flags = x.flags /\ y.on = x.on /\ y.acking = x.acking
         /\ y.fifo = f
    BY <1>1, <2>6 DEF IsRec
  <2> QED BY <1>4, <2>7, <2>8, <2>9, <2>10
<1> QED BY <1>3, <1>4

(* The routine of the FIFO, from its entry to its last statement.          *)
Serving(x, p) ==
  /\ x \in Rec /\ ~x.failed /\ Owed(x) /\ TxOK(x, p) /\ RxOK(x, p)
  /\ x.isr /\ ~x.reset /\ x.fifo.got > 0 /\ x.on

Serviced(x, p) ==
  /\ x \in Rec /\ ~x.failed /\ Owed(x) /\ TxOK(x, p)
  /\ x.rx # "none" \/ DueOK(x, p)
  /\ ~x.reset => RxOK(x, p) /\ DueOK(x, p)

LEMMA Entered ==
  ASSUME NEW x, NEW p, RadioOK(x, p), "fifop" \in x.flags, NEW y, y = [x EXCEPT !.isr = TRUE]
  PROVE  Serving(y, p) /\ y.rxState = x.rxState
<1>1. /\ x \in Rec /\ ~x.failed /\ Owed(x) /\ TxOK(x, p) /\ RxOK(x, p)
      /\ ~x.reset /\ Ready(x)
  BY DEF RadioOK, Sound
<1>2. IsRec(x) BY <1>1, RecIs
<1>3. y \in Rec BY <1>1, SetIsr, Zenon
<1>4. KeepsTx(x, y) /\ KeepsRest(x, y) BY <1>2 DEF IsRec, KeepsTx, KeepsRest
<1>5. /\ y.rx = x.rx /\ y.rxState = x.rxState /\ y.ack = x.ack /\ y.reset = x.reset
      /\ y.fifo = x.fifo /\ y.acking = x.acking /\ y.on = x.on /\ y.flags = x.flags
      /\ y.im = x.im /\ y.isr = TRUE
  BY <1>2 DEF IsRec
<1>6. KeepsStop(x, y) BY <1>5 DEF KeepsStop
<1>7. TxOK(y, p) BY <1>1, <1>4, <1>6, KeepsTxOK
<1>8. RxOK(y, p) BY <1>1, <1>5, Zenon DEF RxOK
<1>9. ~y.failed /\ Owed(y) BY <1>1, <1>4, Zenon DEF KeepsRest, KeepsTx, Owed
<1>10. x.fifo.got > 0 /\ x.on BY <1>1 DEF Ready, RxOK
<1> QED BY <1>1, <1>3, <1>5, <1>7, <1>8, <1>9, <1>10 DEF Serving

LEMMA DoneServes ==
  ASSUME NEW x \in Rec, NEW p, ~x.failed, Owed(x), TxOK(x, p),
         RxOK([x EXCEPT !.rx = "none"], p), NEW y, y = R!RxDone(x)
  PROVE  Serviced(y, p)
<1>1. PICK z \in Rec : z = [x EXCEPT !.rx = "none"] BY SetRx, Zenon
<1>2. IsRec(x) BY RecIs
<1>3. KeepsTx(x, z) /\ KeepsRest(x, z) BY <1>1, <1>2 DEF IsRec, KeepsTx, KeepsRest
<1>4. z.im = x.im /\ z.flags = x.flags /\ z.rx = "none" /\ z.ack = x.ack
  BY <1>1, <1>2 DEF IsRec
<1>5. KeepsStop(x, z) BY <1>4 DEF KeepsStop
<1>6. TxOK(z, p) BY <1>3, <1>5, KeepsTxOK
<1>7. RxOK(z, p) BY <1>1
<1>8. ~z.failed /\ Owed(z) BY <1>3, Zenon DEF KeepsRest, KeepsTx, Owed
<1>9. CASE z.ack
  <2>1. y = z BY <1>1, <1>9 DEF R!RxDone
  <2>2. DueOK(z, p) BY <1>9 DEF DueOK
  <2> QED BY <1>6, <1>7, <1>8, <2>1, <2>2 DEF Serviced
<1>10. CASE ~z.ack
  <2>1. y = R!PostRxUpdates(z) BY <1>1, <1>10 DEF R!RxDone
  <2>2. /\ y \in Rec /\ ~y.failed /\ TxOK(y, p) /\ RxOK(y, p) /\ DueOK(y, p)
        /\ y.owed = z.owed /\ (y.tx = "none" <=> z.tx = "none")
    BY <1>4, <1>6, <1>7, <1>8, <1>10, <2>1, PostRx
  <2> QED BY <1>8, <2>2 DEF Serviced, Owed
<1> QED BY <1>9, <1>10

(* The frame in the FIFO while its receive goes on                         *)
LEMMA InFrame ==
  ASSUME NEW x, NEW p, Serving(x, p), x.rxState # "start"
  PROVE  /\ x.rx = "started" /\ Data(x.fifo.rest) /\ x.rxState \in {"discard", x.fifo.rest[1]}
         /\ x.fifo.got \in Nat
         /\ Len(x.fifo.rest) = 1 => ~R!Arriving(x.fifo)
<1>1. x \in Rec /\ RxOK(x, p) /\ x.fifo.got > 0 BY DEF Serving
<1>2. /\ x.rx = "started" /\ Data(x.fifo.rest) /\ x.rxState \in {"discard", x.fifo.rest[1]}
  BY <1>1 DEF RxOK
<1>3. x.fifo.got \in Nat BY <1>1 DEF Rec, Frames
<1>4. Len(x.fifo.rest) = 1 => ~R!Arriving(x.fifo) BY <1>1, <1>3 DEF R!Arriving
<1> QED BY <1>2, <1>3, <1>4

LEMMA ReadOn ==
  ASSUME NEW x, NEW p, Serving(x, p), x.rxState # "start", Len(x.fifo.rest) > 1,
         NEW y, y.fifo.rest = Tail(x.fifo.rest), y.fifo.got = x.fifo.got - 1,
         y.fifo.ar = x.fifo.ar, y.fifo.crc = x.fifo.crc,
         y.rx = x.rx, y.ack = x.ack, y.im = x.im, y.flags = x.flags, y.on = x.on,
         y.acking = x.acking,
         y.rxState = IF x.rxState = "discard" THEN "discard" ELSE x.fifo.rest[2]
  PROVE  RxOK(y, p)
<1>1. RxOK(x, p) BY DEF Serving
<1>2. /\ x.rx = "started" /\ Data(x.fifo.rest) /\ x.rxState \in {"discard", x.fifo.rest[1]}
      /\ x.fifo.got \in Nat
  BY InFrame
<1>3. /\ Data(y.fifo.rest) /\ y.fifo.rest[1] = x.fifo.rest[2]
      /\ Len(y.fifo.rest) = Len(x.fifo.rest) - 1
  BY <1>2, DataTail
<1>4. Len(x.fifo.rest) \in Nat /\ Len(y.fifo.rest) \in Nat BY <1>2, <1>3, DataHead
<1>5. R!Arriving(y.fifo) <=> R!Arriving(x.fifo) BY <1>2, <1>3, <1>4 DEF R!Arriving
<1>6. y.fifo.got <= Len(y.fifo.rest) BY <1>1, <1>2, <1>3, <1>4 DEF RxOK
<1>7. y.rxState # "start" /\ (y.rxState = "discard" <=> x.rxState = "discard")
  <2>1. y.fifo.rest[1] \in {"addr", "body", "fcs"} BY <1>3, DataHead, Zenon
  <2> QED BY <1>3, <2>1
<1>8. y.rxState \in {"discard", y.fifo.rest[1]} BY <1>3
<1>9. Whole(y.fifo) => Whole(x.fifo)
  <2>1. x.fifo.rest # <<>> BY <1>2 DEF Data
  <2> QED BY <1>5, <2>1 DEF Whole
<1>10. "fifop" \in y.flags => y.on BY <1>1 DEF RxOK
<1>11. /\ y.ack /\ p # "clear" => "ackdone" \in y.im
       /\ y.ack => y.fifo.ar /\ y.rxState # "discard"
  BY <1>1, <1>2, <1>7, Zenon DEF RxOK
<1>12. /\ y.acking => ~R!Arriving(y.fifo)
       /\ Whole(y.fifo) => y.acking \/ (y.rxState # "start" /\ "ackdone" \in y.flags)
  BY <1>1, <1>5, <1>7, <1>9, Zenon DEF RxOK
<1> QED BY <1>2, <1>3, <1>6, <1>7, <1>8, <1>10, <1>11, <1>12 DEF RxOK

LEMMA PartServes ==
  ASSUME NEW x, NEW p, Serving(x, p), x.rxState \in {"addr", "body"}
  PROVE  Serviced(R!RxPartIsr(x), p)
<1>1. /\ x \in Rec /\ ~x.failed /\ Owed(x) /\ TxOK(x, p) /\ RxOK(x, p) /\ x.fifo.got > 0
  BY DEF Serving
<1>2. /\ x.rx = "started" /\ Data(x.fifo.rest) /\ x.rxState = x.fifo.rest[1]
  <2>1. x.rxState # "start" /\ x.rxState # "discard" OBVIOUS
  <2>2. /\ x.rx = "started" /\ Data(x.fifo.rest) /\ x.rxState \in {"discard", x.fifo.rest[1]}
    BY <2>1, InFrame
  <2> QED BY <2>1, <2>2
<1>3. Len(x.fifo.rest) > 1 /\ ~(Len(x.fifo.rest) <= 1)
  <2>1. /\ Len(x.fifo.rest) \in Nat /\ Len(x.fifo.rest) >= 1
        /\ x.fifo.rest[1] = "fcs" <=> Len(x.fifo.rest) = 1
    BY <1>2, DataHead
  <2>2. x.fifo.rest[1] # "fcs" BY <1>2
  <2>3. Len(x.fifo.rest) # 1 BY <2>1, <2>2, Zenon
  <2>4. \A n \in Nat : n >= 1 /\ n # 1 => n > 1 /\ ~(n <= 1) OBVIOUS
  <2> QED BY <2>1, <2>3, <2>4, Zenon
<1>4. PICK y : y = R!Read(x) OBVIOUS
<1>5. /\ y \in Rec /\ KeepsTx(x, y) /\ KeepsRx(x, y) /\ KeepsRest(x, y)
      /\ y.im = x.im /\ y.flags = x.flags /\ y.on = x.on /\ y.acking = x.acking
      /\ y.fifo.rest = Tail(x.fifo.rest) /\ y.fifo.got = x.fifo.got - 1
      /\ y.fifo.ack = x.fifo.ack /\ y.fifo.ar = x.fifo.ar /\ y.fifo.crc = x.fifo.crc
  BY <1>1, <1>3, <1>4, ReadIs
<1>6. Data(y.fifo.rest) /\ y.fifo.rest[1] = x.fifo.rest[2] BY <1>2, <1>3, <1>5, DataTail
<1>7. x.fifo.rest[2] \in {"addr", "body", "fcs"} BY <1>6, DataHead
<1>8. PICK z \in Rec : z = [y EXCEPT !.rxState = x.fifo.rest[2]] BY <1>5, <1>7, SetRxState, Zenon
<1>9. R!RxPartIsr(x) = z
  <2>1. y.fifo.rest # <<>> BY <1>6 DEF Data
  <2> QED BY <1>4, <1>8, <2>1 DEF R!RxPartIsr, R!NextState
<1>10. IsRec(y) BY <1>5, RecIs
<1>11. KeepsTx(y, z) /\ KeepsRest(y, z) BY <1>8, <1>10 DEF IsRec, KeepsTx, KeepsRest
<1>12. /\ z.im = y.im /\ z.flags = y.flags /\ z.on = y.on /\ z.acking = y.acking
       /\ z.fifo = y.fifo /\ z.rx = y.rx /\ z.ack = y.ack /\ z.rxState = x.fifo.rest[2]
  BY <1>8, <1>10 DEF IsRec
<1>13. TxOK(z, p)
  <2>1. KeepsStop(x, y) /\ KeepsStop(y, z) BY <1>5, <1>12 DEF KeepsStop
  <2>2. TxOK(y, p) BY <1>1, <1>5, <2>1, KeepsTxOK
  <2> QED BY <1>11, <2>1, <2>2, KeepsTxOK
<1>14. ~z.failed /\ Owed(z) BY <1>1, <1>5, <1>11, Zenon DEF KeepsRest, KeepsTx, Owed
<1>15. z.rx = x.rx /\ z.ack = x.ack BY <1>5, <1>12 DEF KeepsRx
<1>16. RxOK(z, p) BY <1>3, <1>5, <1>12, <1>15, ReadOn
<1>17. DueOK(z, p) BY <1>2, <1>15 DEF DueOK
<1> QED BY <1>9, <1>13, <1>14, <1>16, <1>17 DEF Serviced

LEMMA DiscardServes ==
  ASSUME NEW x, NEW p, Serving(x, p), x.rxState = "discard"
  PROVE  Serviced(R!RxDiscardIsr(x), p)
<1>1. /\ x \in Rec /\ ~x.failed /\ Owed(x) /\ TxOK(x, p) /\ RxOK(x, p) /\ x.fifo.got > 0
      /\ x.on
  BY DEF Serving
<1>2. x.rx = "started" /\ Data(x.fifo.rest) BY InFrame
<1>3. ~x.ack BY <1>1, <1>2 DEF RxOK
<1>4. PICK y : y = R!Read(x) OBVIOUS
<1>5. /\ y \in Rec /\ KeepsTx(x, y) /\ KeepsRx(x, y) /\ KeepsRest(x, y)
      /\ y.im = x.im /\ y.flags = x.flags /\ y.on = x.on /\ y.acking = x.acking
      /\ IF Len(x.fifo.rest) <= 1 THEN y.fifo = R!NoFrame
         ELSE /\ y.fifo.rest = Tail(x.fifo.rest) /\ y.fifo.got = x.fifo.got - 1
              /\ y.fifo.ack = x.fifo.ack /\ y.fifo.ar = x.fifo.ar
              /\ y.fifo.crc = x.fifo.crc
  BY <1>1, <1>4, ReadIs, Zenon
<1>6. KeepsStop(x, y) BY <1>5 DEF KeepsStop
<1>7. TxOK(y, p) BY <1>1, <1>5, <1>6, KeepsTxOK
<1>8. ~y.failed /\ Owed(y) BY <1>1, <1>5, Zenon DEF KeepsRest, KeepsTx, Owed
<1>9. y.rx = x.rx /\ y.ack = x.ack /\ y.rxState = x.rxState BY <1>5 DEF KeepsRx
<1>10. Len(x.fifo.rest) \in Nat BY <1>2, DataHead
<1>11. CASE Len(x.fifo.rest) <= 1
  <2>1. y.fifo = R!NoFrame BY <1>5, <1>11
  <2>2. PICK z \in Rec : z = [y EXCEPT !.rxState = "start"] BY <1>5, SetRxState, Zenon
  <2>3. R!RxDiscardIsr(x) = R!RxDone(z) BY <1>4, <2>1, <2>2, NoFrameIs DEF R!RxDiscardIsr
  <2>4. IsRec(y) BY <1>5, RecIs
  <2>5. KeepsTx(y, z) /\ KeepsRest(y, z) BY <2>2, <2>4 DEF IsRec, KeepsTx, KeepsRest
  <2>6. z.im = y.im /\ z.flags = y.flags BY <2>2, <2>4 DEF IsRec
  <2>7. KeepsStop(y, z) BY <2>6 DEF KeepsStop
  <2>8. TxOK(z, p) BY <1>7, <2>5, <2>7, KeepsTxOK
  <2>9. ~z.failed /\ Owed(z) BY <1>8, <2>5, Zenon DEF KeepsRest, KeepsTx, Owed
  <2>10. RxOK([z EXCEPT !.rx = "none"], p)
    <3>1. PICK w : w = [z EXCEPT !.rx = "none"] BY Zenon
    <3>2. /\ w.fifo = R!NoFrame /\ w.ack = x.ack /\ w.rx = "none" /\ w.rxState = "start"
          /\ w.on = x.on
      BY <1>5, <1>9, <2>1, <2>2, <2>4, <3>1 DEF IsRec
    <3>3. RxOK(w, p) BY <1>1, <1>3, <3>2, FlushedRxOK, Zenon
    <3> QED BY <3>1, <3>3
  <2> QED BY <2>3, <2>8, <2>9, <2>10, DoneServes
<1>12. CASE Len(x.fifo.rest) > 1
  <2>1. /\ y.fifo.rest = Tail(x.fifo.rest) /\ y.fifo.got = x.fifo.got - 1
        /\ y.fifo.ar = x.fifo.ar /\ y.fifo.crc = x.fifo.crc
    BY <1>5, <1>10, <1>12
  <2>2. y.fifo.rest # <<>> BY <1>2, <1>12, <2>1, DataTail, Zenon DEF Data
  <2>3. R!RxDiscardIsr(x) = y BY <1>4, <2>2 DEF R!RxDiscardIsr
  <2>4. RxOK(y, p) BY <1>5, <1>9, <1>12, <2>1, ReadOn
  <2>5. DueOK(y, p) BY <1>2, <1>9 DEF DueOK
  <2> QED BY <1>5, <1>7, <1>8, <2>3, <2>4, <2>5 DEF Serviced
<1> QED BY <1>10, <1>11, <1>12

LEMMA FcsServes ==
  ASSUME NEW x, NEW p, Serving(x, p), x.rxState = "fcs"
  PROVE  Serviced(R!RxFcsIsr(x), p)
<1>1. /\ x \in Rec /\ ~x.failed /\ Owed(x) /\ TxOK(x, p) /\ RxOK(x, p) /\ x.fifo.got > 0
      /\ x.on
  BY DEF Serving
<1>2. x.rx = "started" /\ Data(x.fifo.rest) /\ x.fifo.rest[1] = "fcs" /\ ~R!Arriving(x.fifo)
  <2>1. /\ x.rx = "started" /\ Data(x.fifo.rest) /\ x.rxState \in {"discard", x.fifo.rest[1]}
        /\ Len(x.fifo.rest) = 1 => ~R!Arriving(x.fifo)
    BY InFrame
  <2>2. x.fifo.rest[1] = "fcs" BY <2>1
  <2> QED BY <2>1, <2>2, DataHead
<1>3. Len(x.fifo.rest) = 1 /\ Len(x.fifo.rest) <= 1
  <2>1. Len(x.fifo.rest) = 1 BY <1>2, DataHead
  <2> QED BY <2>1
<1>4. PICK y : y = R!Read(x) OBVIOUS
<1>5. /\ y \in Rec /\ KeepsTx(x, y) /\ KeepsRx(x, y) /\ KeepsRest(x, y)
      /\ y.im = x.im /\ y.flags = x.flags /\ y.on = x.on /\ y.acking = x.acking
      /\ y.fifo = R!NoFrame
  <2>1. IF Len(x.fifo.rest) <= 1 THEN y.fifo = R!NoFrame ELSE TRUE
    BY <1>1, <1>4, ReadIs
  <2>2. /\ y \in Rec /\ KeepsTx(x, y) /\ KeepsRx(x, y) /\ KeepsRest(x, y)
        /\ y.im = x.im /\ y.flags = x.flags /\ y.on = x.on /\ y.acking = x.acking
    BY <1>1, <1>4, ReadIs, Zenon
  <2> QED BY <1>3, <2>1, <2>2
<1>6. KeepsStop(x, y) BY <1>5 DEF KeepsStop
<1>7. TxOK(y, p) BY <1>1, <1>5, <1>6, KeepsTxOK
<1>8. ~y.failed /\ Owed(y) BY <1>1, <1>5, Zenon DEF KeepsRest, KeepsTx, Owed
<1>9. y.rx = x.rx /\ y.ack = x.ack BY <1>5 DEF KeepsRx
<1>10. \A k \in Rec : LET z == [k EXCEPT !.buf = FALSE, !.rxState = "start"] IN
         /\ KeepsTx(y, k) /\ KeepsRest(y, k) /\ KeepsStop(y, k)
         /\ k.fifo = R!NoFrame /\ ("fifop" \in k.flags => k.on)
         /\ k.ack => /\ p # "clear" => "ackdone" \in k.im
                     /\ k.acking \/ "ackdone" \in k.flags
         /\ ~R!Arriving(k.fifo)
         => Serviced(R!RxDone(z), p)
  <2> SUFFICES ASSUME NEW k \in Rec, KeepsTx(y, k), KeepsRest(y, k), KeepsStop(y, k),
                      k.fifo = R!NoFrame, "fifop" \in k.flags => k.on,
                      k.ack => /\ p # "clear" => "ackdone" \in k.im
                               /\ k.acking \/ "ackdone" \in k.flags,
                      NEW z, z = [k EXCEPT !.buf = FALSE, !.rxState = "start"]
               PROVE  Serviced(R!RxDone(z), p)
    BY Zenon
  <2>1. IsRec(k) BY RecIs
  <2>2. z \in Rec
    <3>1. PICK a \in Rec : a = [k EXCEPT !.buf = FALSE] BY SetBuf, Zenon
    <3>2. z = [a EXCEPT !.rxState = "start"] BY <3>1
    <3> QED BY <3>2, SetRxState, Zenon
  <2>3. KeepsTx(k, z) /\ KeepsRest(k, z) BY <2>1 DEF IsRec, KeepsTx, KeepsRest
  <2>4. /\ z.im = k.im /\ z.flags = k.flags /\ z.on = k.on /\ z.fifo = k.fifo
        /\ z.acking = k.acking /\ z.ack = k.ack /\ z.rxState = "start"
    BY <2>1 DEF IsRec
  <2>5. KeepsStop(k, z) BY <2>4 DEF KeepsStop
  <2>6. TxOK(z, p)
    <3>1. TxOK(k, p) BY <1>7, KeepsTxOK
    <3> QED BY <2>3, <2>5, <3>1, KeepsTxOK
  <2>7. ~z.failed /\ Owed(z) BY <1>8, <2>3, Zenon DEF KeepsRest, KeepsTx, Owed
  <2>8. RxOK([z EXCEPT !.rx = "none"], p)
    <3>1. PICK w : w = [z EXCEPT !.rx = "none"] OBVIOUS
    <3>2. IsRec(z) BY <2>2, RecIs
    <3>3. /\ w.im = z.im /\ w.flags = z.flags /\ w.on = z.on /\ w.fifo = z.fifo
          /\ w.acking = z.acking /\ w.ack = z.ack /\ w.rxState = "start" /\ w.rx = "none"
      BY <2>4, <3>1, <3>2 DEF IsRec
    <3>4. RxOK(w, p) BY <2>4, <3>3, NoFrameIs DEF RxOK
    <3> QED BY <3>1, <3>4
  <2> QED BY <2>2, <2>6, <2>7, <2>8, DoneServes, Zenon
<1>11. CASE x.fifo.crc
  <2>1. PICK a \in Rec : a = [y EXCEPT !.rx = "done"] BY <1>5, SetRx, Zenon
  <2>2. PICK k \in Rec : k = R!RxOffRequest(a) BY OffRequest, Zenon
  <2>3. R!RxFcsIsr(x) = R!RxDone([k EXCEPT !.buf = FALSE, !.rxState = "start"])
    BY <1>4, <1>11, <2>1, <2>2 DEF R!RxFcsIsr
  <2>4. IsRec(y) BY <1>5, RecIs
  <2>5. KeepsTx(y, a) /\ KeepsRest(y, a) BY <2>1, <2>4 DEF IsRec, KeepsTx, KeepsRest
  <2>6. /\ a.im = x.im /\ a.flags = x.flags /\ a.on = x.on /\ a.fifo = R!NoFrame
        /\ a.acking = x.acking /\ a.ack = x.ack
    BY <1>5, <1>9, <2>1, <2>4 DEF IsRec
  <2>7. /\ KeepsTx(a, k) /\ KeepsRx(a, k) /\ KeepsRest(a, k)
        /\ k.im = a.im /\ k.flags \subseteq a.flags
        /\ \/ k = a
           \/ ~a.ack /\ k.fifo = R!NoFrame /\ "fifop" \notin k.flags
    BY <2>2, OffRequest, Zenon
  <2>8. KeepsTx(y, k) /\ KeepsRest(y, k)
    BY <2>5, <2>7, Zenon DEF KeepsTx, KeepsRest
  <2>9. KeepsStop(y, k) BY <1>5, <2>6, <2>7 DEF KeepsStop
  <2>10. k.fifo = R!NoFrame /\ ("fifop" \in k.flags => k.on)
    BY <1>1, <2>6, <2>7, Zenon
  <2>11. k.ack => k = a /\ x.ack BY <2>6, <2>7 DEF KeepsRx
  <2>12. x.ack => /\ p # "clear" => "ackdone" \in x.im
                  /\ x.acking \/ "ackdone" \in x.flags
    <3>1. x.ack => Whole(x.fifo) BY <1>1, <1>2, <1>11, Zenon DEF RxOK, Whole, Data
    <3> QED BY <1>1, <3>1, Zenon DEF RxOK
  <2>13. k.ack => /\ p # "clear" => "ackdone" \in k.im
                  /\ k.acking \/ "ackdone" \in k.flags
    BY <2>6, <2>11, <2>12
  <2> QED BY <1>10, <2>3, <2>8, <2>9, <2>10, <2>13, NoFrameIs, Zenon
<1>12. CASE ~x.fifo.crc
  <2>1. PICK k : k = R!ClearAckFlag(R!CancelAckDone(y)) OBVIOUS
  <2>2. /\ k \in Rec /\ k.ack = FALSE
        /\ KeepsTx(y, k) /\ KeepsRest(y, k) /\ KeepsFifo(y, k) /\ KeepsStop(y, k)
        /\ k.flags = y.flags /\ k.on = y.on
    BY <1>5, <2>1, AckCleared, Zenon
  <2>3. R!RxFcsIsr(x) = R!RxDone([k EXCEPT !.buf = FALSE, !.rxState = "start"])
    BY <1>4, <1>12, <2>1 DEF R!RxFcsIsr
  <2>4. k.fifo = R!NoFrame /\ ("fifop" \in k.flags => k.on)
    BY <1>1, <1>5, <2>2 DEF KeepsFifo
  <2> QED BY <1>10, <2>2, <2>3, <2>4, NoFrameIs, Zenon
<1> QED BY <1>11, <1>12

(* A receive that begins looks at the transmit first.                      *)
After(f, g) ==
  IF Len(f.rest) <= 1 THEN g = R!NoFrame
  ELSE /\ g.rest = Tail(f.rest) /\ g.got = f.got - 1
       /\ g.ar = f.ar /\ g.crc = f.crc

Prepared(x) ==
  R!Heard(R!ClearAckFlag(R!CancelAckDone(R!ForceTxDoneIfPending(
    [R!Assert(x, x.rx = "none") EXCEPT !.rx = "started"]))))

LEMMA Forced ==
  ASSUME NEW x \in Rec, NEW p, ~x.failed, x.isr, x.rx = "started", Owed(x), OnOrEmpty(x), TxOK(x, p),
         NEW y, y = R!ForceTxDoneIfPending(x)
  PROVE  /\ y \in Rec /\ ~y.failed /\ Owed(y) /\ TxOK(y, p) /\ Calm(x, y)
<1>1. CASE x.cspz = "done" /\ "stop" \in x.im
  <2>1. x.im \ {"stop", "int"} \in SUBSET {"stop", "int", "ackdone"} BY DEF Rec
  <2>2. PICK a \in Rec : a = [x EXCEPT !.im = x.im \ {"stop", "int"}] BY <2>1, SetIm, Zenon
  <2>3. IsRec(x) BY RecIs
  <2>4. y = R!TxDone(a) BY <1>1, <2>2, <2>3 DEF R!ForceTxDoneIfPending, IsRec
  <2>5. KeepsTx(x, a) /\ KeepsRx(x, a) /\ KeepsRest(x, a)
    BY <2>2, <2>3, Zenon DEF IsRec, KeepsTx, KeepsRx, KeepsRest
  <2>6. /\ a.im = x.im \ {"stop", "int"} /\ a.flags = x.flags /\ a.fifo = x.fifo
        /\ a.acking = x.acking /\ a.on = x.on
    BY <2>2, <2>3 DEF IsRec
  <2>7. x.tx = "go" /\ ~Started(p)
    BY <1>1 DEF TxOK, Loaded, Started, Starting
  <2>8. a.tx = "go" /\ a.owed BY <2>5, <2>7 DEF KeepsTx, Owed
  <2>9. ~a.failed BY <2>5 DEF KeepsRest
  <2>10. a.isr /\ a.rx = "started" BY <2>5 DEF KeepsRx
  <2>11. OnOrEmpty(a) BY <2>6 DEF OnOrEmpty
  <2>12. "stop" \notin a.im /\ ("ackdone" \in a.im <=> "ackdone" \in x.im) BY <2>6
  <2>13. KeepsFifo(x, a) BY <2>6 DEF KeepsFifo
  <2>14. Calm(x, a) BY <2>5, <2>12, <2>13, Zenon DEF Calm, KeepsRx
  <2>15. /\ y \in Rec /\ ~y.failed /\ Owed(y) /\ TxOK(y, p) /\ Calm(a, y)
    BY <2>4, <2>7, <2>8, <2>9, <2>10, <2>11, <2>12, TxDoneIsr
  <2> QED BY <2>14, <2>15, CalmTwice
<1>2. CASE ~(x.cspz = "done" /\ "stop" \in x.im)
  <2>1. y = x BY <1>2 DEF R!ForceTxDoneIfPending
  <2> QED BY <2>1, Zenon DEF Calm, KeepsFifo
<1> QED BY <1>1, <1>2

LEMMA StartPrepared ==
  ASSUME NEW x, NEW p, Serving(x, p), x.rxState = "start",
         NEW y, y = Prepared(x)
  PROVE  /\ y \in Rec /\ ~y.failed /\ Owed(y) /\ TxOK(y, p)
         /\ y.rx = "started" /\ y.rxState = "start" /\ y.ack = FALSE
         /\ \/ /\ y.reset
               /\ y.fifo = R!NoFrame /\ "fifop" \notin y.flags
            \/ /\ ~y.reset /\ y.on /\ y.acking = x.acking
               /\ After(x.fifo, y.fifo)
<1>1. /\ x \in Rec /\ ~x.failed /\ Owed(x) /\ TxOK(x, p) /\ RxOK(x, p) /\ x.fifo.got > 0
      /\ x.on /\ x.isr /\ ~x.reset
  BY DEF Serving
<1>2. x.rx = "none" BY <1>1 DEF RxOK
<1>3. PICK a \in Rec : a = [x EXCEPT !.rx = "started"] BY <1>1, SetRx, Zenon
<1>4. [R!Assert(x, x.rx = "none") EXCEPT !.rx = "started"] = a
  <2>1. R!Assert(x, x.rx = "none") = x BY <1>1, <1>2, AssertHolds, Zenon
  <2> QED BY <1>3, <2>1
<1>5. IsRec(x) BY <1>1, RecIs
<1>6. KeepsTx(x, a) /\ KeepsRest(x, a) BY <1>3, <1>5 DEF IsRec, KeepsTx, KeepsRest
<1>7. /\ a.im = x.im /\ a.flags = x.flags /\ a.fifo = x.fifo /\ a.acking = x.acking
      /\ a.on = x.on /\ a.rxState = x.rxState /\ a.isr = x.isr /\ a.reset = x.reset
      /\ a.rx = "started"
  BY <1>3, <1>5 DEF IsRec
<1>8. TxOK(a, p)
  <2>1. KeepsStop(x, a) BY <1>7 DEF KeepsStop
  <2> QED BY <1>1, <1>6, <2>1, KeepsTxOK
<1>9. ~a.failed /\ Owed(a) /\ OnOrEmpty(a)
  BY <1>1, <1>6, <1>7, Zenon DEF KeepsRest, KeepsTx, Owed, OnOrEmpty
<1>10. PICK b : b = R!ForceTxDoneIfPending(a) OBVIOUS
<1>11. /\ b \in Rec /\ ~b.failed /\ Owed(b) /\ TxOK(b, p) /\ Calm(a, b)
  BY <1>1, <1>7, <1>8, <1>9, <1>10, Forced, Zenon
<1>12. PICK c : c = R!ClearAckFlag(R!CancelAckDone(b)) OBVIOUS
<1>13. /\ c \in Rec /\ c.im = b.im \ {"ackdone"} /\ c.ack = FALSE
       /\ KeepsTx(b, c) /\ KeepsRest(b, c) /\ KeepsFifo(b, c) /\ KeepsStop(b, c)
       /\ c.rx = b.rx /\ c.rxState = b.rxState /\ c.isr = b.isr /\ c.reset = b.reset
       /\ c.flags = b.flags /\ c.on = b.on
  BY <1>11, <1>12, AckCleared, Zenon
<1>14. TxOK(c, p) BY <1>11, <1>13, KeepsTxOK
<1>15. ~c.failed /\ Owed(c) BY <1>11, <1>13, Zenon DEF KeepsRest, KeepsTx, Owed
<1>16. c.rx = "started" /\ c.rxState = "start" /\ c.isr
  BY <1>1, <1>7, <1>11, <1>13 DEF Calm
<1>17. \/ c.reset /\ c.fifo = R!NoFrame /\ "fifop" \notin c.flags
       \/ ~c.reset /\ c.fifo = x.fifo /\ c.acking = x.acking /\ c.on
  BY <1>1, <1>7, <1>11, <1>13, Zenon DEF Calm, KeepsFifo
<1>18. PICK d : d = R!Read(c) OBVIOUS
<1>19. c.fifo.got > 0 \/ Len(c.fifo.rest) <= 1 BY <1>1, <1>17, NoFrameIs
<1>20. /\ d \in Rec /\ KeepsTx(c, d) /\ KeepsRx(c, d) /\ KeepsRest(c, d)
       /\ d.im = c.im /\ d.flags = c.flags /\ d.on = c.on /\ d.acking = c.acking
       /\ IF Len(c.fifo.rest) <= 1 THEN d.fifo = R!NoFrame
          ELSE /\ d.fifo.rest = Tail(c.fifo.rest) /\ d.fifo.got = c.fifo.got - 1
               /\ d.fifo.ack = c.fifo.ack /\ d.fifo.ar = c.fifo.ar
               /\ d.fifo.crc = c.fifo.crc
  BY <1>13, <1>18, <1>19, ReadIs
<1>21. TxOK(d, p)
  <2>1. KeepsStop(c, d) BY <1>20 DEF KeepsStop
  <2> QED BY <1>14, <1>20, <2>1, KeepsTxOK
<1>22. ~d.failed /\ Owed(d) BY <1>15, <1>20, Zenon DEF KeepsRest, KeepsTx, Owed
<1>23. d.rx = "started" /\ d.rxState = "start" /\ d.isr /\ d.ack = FALSE /\ d.reset = c.reset
  BY <1>13, <1>16, <1>20 DEF KeepsRx
<1>24. \/ d.reset /\ d.fifo = R!NoFrame /\ "fifop" \notin d.flags
       \/ ~d.reset /\ After(x.fifo, d.fifo) /\ d.acking = x.acking /\ d.on
  <2>1. CASE c.reset /\ c.fifo = R!NoFrame /\ "fifop" \notin c.flags
    <3>1. Len(c.fifo.rest) <= 1 BY <2>1, NoFrameIs
    <3> QED BY <1>20, <1>23, <2>1, <3>1
  <2>2. CASE ~c.reset /\ c.fifo = x.fifo /\ c.acking = x.acking /\ c.on
    BY <1>20, <1>23, <2>2, Zenon DEF After
  <2> QED BY <1>17, <2>1, <2>2
<1>25. OnOrEmpty(d) BY <1>24 DEF OnOrEmpty
<1>26. y = R!AckOutcome(d) BY <1>4, <1>10, <1>12, <1>18 DEF Prepared, R!Heard
<1>27. /\ y \in Rec /\ ~y.failed /\ Owed(y) /\ TxOK(y, p) /\ Calm(d, y)
  BY <1>20, <1>21, <1>22, <1>23, <1>25, <1>26, AckOutcomeIsr
<1>28. y.rx = "started" /\ y.rxState = "start" /\ y.ack = FALSE
  BY <1>23, <1>27, Zenon DEF Calm
<1>29. \/ y.reset /\ y.fifo = R!NoFrame /\ "fifop" \notin y.flags
       \/ ~y.reset /\ After(x.fifo, y.fifo) /\ y.acking = x.acking /\ y.on
  BY <1>24, <1>27, Zenon DEF Calm, KeepsFifo
<1> QED BY <1>27, <1>28, <1>29

LEMMA HeaderThen ==
  ASSUME NEW s, Data(s), NEW t, t = <<"hdr">> \o s
  PROVE  /\ Len(t) \in Nat /\ Len(t) = Len(s) + 1 /\ ~(Len(t) <= 1)
         /\ Tail(t) = s /\ t[2] = s[1]
<1> DEFINE P == {"hdr", "addr", "body", "fcs"}
<1>1. s \in Seq(P) /\ Len(s) \in Nat /\ Len(s) >= 1 BY DataHead
<1>2. <<"hdr">> \in Seq(P) /\ Len(<<"hdr">>) = 1 OBVIOUS
<1>3. /\ t \in Seq(P) /\ Len(t) = Len(<<"hdr">>) + Len(s)
      /\ \A i \in 1..Len(<<"hdr">>) + Len(s) :
           t[i] = IF i <= Len(<<"hdr">>) THEN <<"hdr">>[i] ELSE s[i - Len(<<"hdr">>)]
  BY <1>1, <1>2, ConcatProperties
<1>4. Len(t) = Len(s) + 1 /\ \A i \in 2..Len(s) + 1 : t[i] = s[i - 1]
  BY <1>1, <1>2, <1>3
<1>5. t # <<>>
  <2>1. Len(t) # 0 BY <1>1, <1>4
  <2> QED BY <2>1, EmptySeq
<1>6. /\ Tail(t) \in Seq(P) /\ Len(Tail(t)) = Len(t) - 1
      /\ \A i \in 1..Len(Tail(t)) : Tail(t)[i] = t[i + 1]
  BY <1>3, <1>5, HeadTailProperties
<1>7. Len(Tail(t)) = Len(s) BY <1>1, <1>4, <1>6
<1>8. \A i \in 1..Len(Tail(t)) : Tail(t)[i] = s[i]
  <2> TAKE i \in 1..Len(Tail(t))
  <2>1. i + 1 \in 2..Len(s) + 1 /\ (i + 1) - 1 = i BY <1>1, <1>7
  <2>2. t[i + 1] = s[(i + 1) - 1] BY <1>4, <2>1
  <2> QED BY <1>6, <2>1, <2>2
<1>9. Tail(t) = s BY <1>1, <1>6, <1>7, <1>8, SeqEqual
<1>10. t[2] = s[1]
  <2>1. 2 \in 2..Len(s) + 1 BY <1>1
  <2>2. t[2] = s[2 - 1] BY <1>4, <2>1, Zenon
  <2>3. 2 - 1 = 1 OBVIOUS
  <2> QED BY <2>2, <2>3, Zenon
<1>11. Len(t) \in Nat /\ ~(Len(t) <= 1) BY <1>1, <1>4
<1> QED BY <1>4, <1>9, <1>10, <1>11

LEMMA BodyRxOK ==
  ASSUME NEW x, NEW p, Serving(x, p), x.rxState = "start",
         NEW s, Data(s), x.fifo.rest = <<"hdr">> \o s,
         NEW z, z.rx = "started", z.on, z.acking = x.acking, z.fifo.rest = s,
         z.fifo.got = x.fifo.got - 1, z.fifo.crc = x.fifo.crc, z.fifo.ar => x.fifo.ar,
         z.rxState \in {"discard", s[1]},
         z.ack => z.fifo.ar /\ z.rxState # "discard" /\ "ackdone" \in z.im
  PROVE  RxOK(z, p)
<1>1. x \in Rec /\ RxOK(x, p) /\ x.fifo.got > 0 BY DEF Serving
<1>2. x.fifo.got \in Nat BY <1>1 DEF Rec, Frames
<1>3. Len(x.fifo.rest) = Len(s) + 1 BY HeaderThen
<1>4. Len(s) \in Nat /\ s[1] \in {"addr", "body", "fcs"} BY DataHead
<1>5. R!Arriving(z.fifo) <=> R!Arriving(x.fifo) BY <1>1, <1>2, <1>3, <1>4 DEF R!Arriving
<1>6. z.fifo.got <= Len(z.fifo.rest)
  <2>1. x.fifo.got <= Len(x.fifo.rest) BY <1>1 DEF RxOK
  <2> QED BY <1>2, <1>3, <1>4, <2>1
<1>7. z.rxState # "start" BY <1>4
<1>8. x.fifo.rest # <<>>
  <2>1. Len(x.fifo.rest) # 0 BY <1>3, <1>4
  <2> QED BY <2>1, EmptySeq
<1>9. Whole(z.fifo) => z.acking
  <2>1. Whole(z.fifo) => Whole(x.fifo) BY <1>5, <1>8 DEF Whole
  <2> QED BY <1>1, <2>1 DEF RxOK
<1>10. z.acking => ~R!Arriving(z.fifo) BY <1>1, <1>5 DEF RxOK
<1> QED BY <1>6, <1>7, <1>9, <1>10 DEF RxOK

LEMMA StartServes ==
  ASSUME NEW x, NEW p, Serving(x, p), x.rxState = "start", NEW fate \in R!Fate
  PROVE  Serviced(R!RxStartIsr(x, fate), p)
<1>1. /\ x \in Rec /\ RxOK(x, p) /\ x.fifo.got > 0 /\ x.on BY DEF Serving
<1>2. PICK y : y = Prepared(x) OBVIOUS
<1>3. /\ y \in Rec /\ ~y.failed /\ Owed(y) /\ TxOK(y, p)
      /\ y.rx = "started" /\ y.rxState = "start" /\ y.ack = FALSE
      /\ \/ /\ y.reset
            /\ y.fifo = R!NoFrame /\ "fifop" \notin y.flags
         \/ /\ ~y.reset /\ y.on /\ y.acking = x.acking
            /\ After(x.fifo, y.fifo)
  BY <1>2, StartPrepared, Zenon
<1>4. x.fifo.rest # <<>> /\ Unread(x.fifo)
  <2>1. x.fifo.got <= Len(x.fifo.rest) /\ Unread(x.fifo) BY <1>1 DEF RxOK
  <2>2. x.fifo.got \in Nat BY <1>1 DEF Rec, Frames
  <2>3. Len(<<>>) = 0 OBVIOUS
  <2> QED BY <1>1, <2>1, <2>2, <2>3
<1>5. IsRec(y) BY <1>3, RecIs
<1>6. CASE x.fifo.ack
  <2>1. R!RxStartIsr(x, fate) = R!RxDone(y) BY <1>1, <1>2, <1>4, <1>6 DEF R!RxStartIsr, Prepared
  <2>2. Len(x.fifo.rest) <= 1
    <3>1. x.fifo.rest = <<"hdr">> BY <1>4, <1>6 DEF Unread
    <3>2. Len(<<"hdr">>) = 1 OBVIOUS
    <3> QED BY <3>1, <3>2
  <2>3. y.fifo = R!NoFrame /\ ("fifop" \in y.flags => y.on) BY <1>3, <2>2 DEF After
  <2>4. RxOK([y EXCEPT !.rx = "none"], p)
    <3>1. PICK w : w = [y EXCEPT !.rx = "none"] BY Zenon
    <3>2. /\ w.fifo = y.fifo /\ w.ack = y.ack /\ w.rx = "none" /\ w.rxState = y.rxState
          /\ w.on = y.on /\ w.flags = y.flags
      BY <1>5, <3>1 DEF IsRec
    <3>3. RxOK(w, p) BY <1>3, <2>3, <3>2, FlushedRxOK
    <3> QED BY <3>1, <3>3
  <2> QED BY <1>3, <2>1, <2>4, DoneServes
<1>7. CASE ~x.fifo.ack
  <2>1. PICK s : Data(s) /\ x.fifo.rest = <<"hdr">> \o s BY <1>4, <1>7 DEF Unread
  <2>2. Tail(x.fifo.rest) = s /\ x.fifo.rest[2] = s[1] /\ ~(Len(x.fifo.rest) <= 1)
    BY <2>1, HeaderThen, Zenon
  <2>3. s[1] \in {"addr", "body", "fcs"} BY <2>1, DataHead
  <2>4. ~y.reset => /\ y.on /\ y.acking = x.acking /\ y.fifo.rest = s
                    /\ y.fifo.got = x.fifo.got - 1
                    /\ y.fifo.ar = x.fifo.ar /\ y.fifo.crc = x.fifo.crc
    BY <1>3, <2>2, Zenon DEF After
  <2>5. \A z \in Rec :
          /\ KeepsTx(y, z) /\ KeepsStop(y, z) /\ z.failed = y.failed
          /\ z.rx = y.rx /\ z.reset = y.reset /\ z.on = y.on /\ z.acking = y.acking
          /\ z.fifo.rest = y.fifo.rest /\ z.fifo.got = y.fifo.got
          /\ z.fifo.crc = y.fifo.crc /\ (z.fifo.ar => y.fifo.ar)
          /\ z.rxState \in {"discard", s[1]}
          /\ (~y.reset /\ z.ack => z.fifo.ar /\ z.rxState # "discard" /\ "ackdone" \in z.im)
          => Serviced(z, p)
    <3> SUFFICES ASSUME NEW z \in Rec, KeepsTx(y, z), KeepsStop(y, z), z.failed = y.failed,
                   z.rx = y.rx, z.reset = y.reset, z.on = y.on, z.acking = y.acking,
                   z.fifo.rest = y.fifo.rest, z.fifo.got = y.fifo.got,
                   z.fifo.crc = y.fifo.crc, z.fifo.ar => y.fifo.ar,
                   z.rxState \in {"discard", s[1]},
                   ~y.reset /\ z.ack =>
                     z.fifo.ar /\ z.rxState # "discard" /\ "ackdone" \in z.im
                 PROVE  Serviced(z, p)
      BY Zenon
    <3>1. TxOK(z, p) BY <1>3, KeepsTxOK
    <3>2. ~z.failed /\ Owed(z) /\ z.rx = "started" BY <1>3, Zenon DEF KeepsTx, Owed
    <3>3. DueOK(z, p) BY <3>2 DEF DueOK
    <3>4. ~z.reset => RxOK(z, p)
      <4> SUFFICES ASSUME ~z.reset PROVE RxOK(z, p) OBVIOUS
      <4>1. /\ z.on /\ z.acking = x.acking /\ z.fifo.rest = s
            /\ z.fifo.got = x.fifo.got - 1 /\ (z.fifo.ar => x.fifo.ar)
            /\ z.fifo.crc = x.fifo.crc
            /\ z.ack => z.fifo.ar /\ z.rxState # "discard" /\ "ackdone" \in z.im
        BY <2>4, Zenon
      <4> QED BY <2>1, <3>2, <4>1, BodyRxOK
    <3> QED BY <3>1, <3>2, <3>3, <3>4 DEF Serviced
  <2>6. CASE fate = "take"
    <3>1. R!RxStartIsr(x, fate) = R!Take(y, x.fifo)
      BY <1>1, <1>2, <1>4, <1>7, <2>6 DEF R!RxStartIsr, Prepared
    <3>2. PICK a \in Rec : a = [y EXCEPT !.buf = TRUE] BY <1>3, SetBuf, Zenon
    <3>3. PICK b \in Rec : b = [a EXCEPT !.rxState = s[1]] BY <2>3, SetRxState, Zenon
    <3>4. b = [y EXCEPT !.buf = TRUE, !.rxState = s[1]] BY <3>2, <3>3
    <3>5. KeepsTx(y, b) BY <1>5, <3>4 DEF IsRec, KeepsTx
    <3>6. /\ b.failed = y.failed /\ b.rx = y.rx /\ b.reset = y.reset /\ b.on = y.on
          /\ b.acking = y.acking /\ b.fifo = y.fifo /\ b.rxState = s[1]
          /\ b.ack = y.ack /\ b.im = y.im /\ b.flags = y.flags
      BY <1>5, <3>4 DEF IsRec
    <3>7. CASE ~x.fifo.ar
      <4>1. R!RxStartIsr(x, fate) = b BY <2>2, <3>1, <3>4, <3>7 DEF R!Take, R!NextState
      <4>2. KeepsStop(y, b) BY <3>6 DEF KeepsStop
      <4>3. ~b.ack BY <1>3, <3>6
      <4>4. Serviced(b, p) BY <2>5, <3>5, <3>6, <4>2, <4>3
      <4> QED BY <4>1, <4>4
    <3>8. CASE x.fifo.ar
      <4>1. /\ b.flags \ {"ackdone"} \in SUBSET {"stop", "int", "ackdone", "fifop"}
            /\ b.im \cup {"ackdone"} \in SUBSET {"stop", "int", "ackdone"}
        BY DEF Rec
      <4>2. PICK c \in Rec : c = [b EXCEPT !.ack = TRUE] BY SetAck, Zenon
      <4>3. PICK d \in Rec : d = [c EXCEPT !.flags = b.flags \ {"ackdone"}] BY <4>1, SetFlags, Zenon
      <4>4. PICK e \in Rec : e = [d EXCEPT !.im = b.im \cup {"ackdone"}] BY <4>1, SetIm, Zenon
      <4>5. IsRec(b) BY RecIs
      <4>6. e = [b EXCEPT !.ack = TRUE, !.flags = @ \ {"ackdone"}, !.im = @ \cup {"ackdone"}]
        BY <4>2, <4>3, <4>4, <4>5 DEF IsRec
      <4>7. R!RxStartIsr(x, fate) = e
        BY <2>2, <3>1, <3>4, <3>8, <4>6 DEF R!Take, R!NextState
      <4>8. KeepsTx(b, e) BY <4>5, <4>6 DEF IsRec, KeepsTx
      <4>9. /\ e.failed = b.failed /\ e.rx = b.rx /\ e.reset = b.reset /\ e.on = b.on
            /\ e.acking = b.acking /\ e.fifo = b.fifo /\ e.rxState = b.rxState
            /\ e.im = b.im \cup {"ackdone"} /\ e.flags = b.flags \ {"ackdone"}
        BY <4>5, <4>6 DEF IsRec
      <4>10. KeepsStop(y, e) BY <3>6, <4>9 DEF KeepsStop
      <4>11. KeepsTx(y, e) BY <3>5, <4>8, Zenon DEF KeepsTx
      <4>12. ~y.reset => e.fifo.ar /\ e.rxState # "discard" /\ "ackdone" \in e.im
        BY <2>3, <2>4, <3>6, <3>8, <4>9, Zenon
      <4>13. /\ e.failed = y.failed /\ e.rx = y.rx /\ e.reset = y.reset /\ e.on = y.on
             /\ e.acking = y.acking /\ e.fifo = y.fifo /\ e.rxState = s[1]
        BY <3>6, <4>9
      <4>14. Serviced(e, p) BY <2>5, <4>10, <4>11, <4>12, <4>13
      <4> QED BY <4>7, <4>14
    <3> QED BY <3>7, <3>8
  <2>7. CASE fate = "drop"
    <3>1. PICK b \in Rec : b = [y EXCEPT !.rxState = "discard"] BY <1>3, SetRxState, Zenon
    <3>2. R!RxStartIsr(x, fate) = b
      BY <1>1, <1>2, <1>4, <1>7, <2>7, <3>1 DEF R!RxStartIsr, R!Discard, Prepared
    <3>3. KeepsTx(y, b) BY <1>5, <3>1 DEF IsRec, KeepsTx
    <3>4. /\ b.failed = y.failed /\ b.rx = y.rx /\ b.reset = y.reset /\ b.on = y.on
          /\ b.acking = y.acking /\ b.fifo = y.fifo /\ b.rxState = "discard"
          /\ b.ack = y.ack /\ b.im = y.im /\ b.flags = y.flags
      BY <1>5, <3>1 DEF IsRec
    <3>5. KeepsStop(y, b) BY <3>4 DEF KeepsStop
    <3>6. ~b.ack BY <1>3, <3>4
    <3>7. Serviced(b, p) BY <2>5, <3>3, <3>4, <3>5, <3>6
    <3> QED BY <3>2, <3>7
  <2>8. CASE fate = "nomem"
    <3> DEFINE g == [y.fifo EXCEPT !.ar = FALSE]
    <3>1. y.fifo \in Frames BY <1>3 DEF Rec
    <3>2. /\ g \in Frames /\ g.rest = y.fifo.rest /\ g.got = y.fifo.got
          /\ g.crc = y.fifo.crc /\ g.ar = FALSE
      BY <3>1, Zenon DEF Frames
    <3>3. PICK a \in Rec : a = [y EXCEPT !.fifo = g] BY <1>3, <3>2, SetFifo, Zenon
    <3>4. PICK b \in Rec : b = [a EXCEPT !.rxState = "discard"] BY SetRxState, Zenon
    <3>5. [y EXCEPT !.fifo.ar = FALSE] = a BY <3>3
    <3>6. R!RxStartIsr(x, fate) = b
      BY <1>1, <1>2, <1>4, <1>7, <2>8, <3>4, <3>5, Zenon DEF R!RxStartIsr, R!Discard, Prepared
    <3> HIDE DEF g
    <3>7. b = [y EXCEPT !.fifo = g, !.rxState = "discard"] BY <3>3, <3>4
    <3>8. KeepsTx(y, b) BY <1>5, <3>7 DEF IsRec, KeepsTx
    <3>9. /\ b.failed = y.failed /\ b.rx = y.rx /\ b.reset = y.reset /\ b.on = y.on
          /\ b.acking = y.acking /\ b.fifo = g /\ b.rxState = "discard"
          /\ b.ack = y.ack /\ b.im = y.im /\ b.flags = y.flags
      BY <1>5, <3>7 DEF IsRec
    <3>10. KeepsStop(y, b) BY <3>9 DEF KeepsStop
    <3>11. ~b.ack BY <1>3, <3>9
    <3>12. Serviced(b, p) BY <2>5, <3>2, <3>8, <3>9, <3>10, <3>11
    <3> QED BY <3>6, <3>12
  <2> QED BY <2>6, <2>7, <2>8 DEF R!Fate
<1> QED BY <1>6, <1>7

LEMMA Leaves ==
  ASSUME NEW z, NEW p, Serviced(z, p),
         NEW y, y = [z EXCEPT !.isr = FALSE,
                              !.flags = IF z.fifo.got > 0 THEN @ ELSE @ \ {"fifop"}]
  PROVE  RadioOK(IF z.reset THEN R!HaltFinalStep(y) ELSE y, p)
<1>1. z \in Rec /\ ~z.failed /\ Owed(z) /\ TxOK(z, p) BY DEF Serviced
<1>2. IsRec(z) BY <1>1, RecIs
<1> DEFINE left == IF z.fifo.got > 0 THEN z.flags ELSE z.flags \ {"fifop"}
<1>3. left \in SUBSET {"stop", "int", "ackdone", "fifop"} BY <1>1 DEF Rec
<1>4. y = [z EXCEPT !.isr = FALSE, !.flags = left] BY <1>2 DEF IsRec
<1>5. left \subseteq z.flags /\ ("ackdone" \in z.flags => "ackdone" \in left)
      /\ ("fifop" \in left => z.fifo.got > 0)
  OBVIOUS
<1> HIDE DEF left
<1>6. y \in Rec
  <2>1. PICK a \in Rec : a = [z EXCEPT !.isr = FALSE] BY <1>1, SetIsr, Zenon
  <2>2. y = [a EXCEPT !.flags = left] BY <1>2, <1>4, <2>1 DEF IsRec
  <2>3. [a EXCEPT !.flags = left] \in Rec BY <1>3, SetFlags, Zenon
  <2> QED BY <2>2, <2>3, Zenon
<1>7. KeepsTx(z, y) /\ KeepsRest(z, y) BY <1>2, <1>4 DEF IsRec, KeepsTx, KeepsRest
<1>8. /\ y.rx = z.rx /\ y.rxState = z.rxState /\ y.ack = z.ack /\ y.reset = z.reset
      /\ y.fifo = z.fifo /\ y.acking = z.acking /\ y.on = z.on /\ y.flags = left
      /\ y.im = z.im /\ y.isr = FALSE /\ y.powDue = z.powDue
  BY <1>2, <1>4, Zenon DEF IsRec
<1>9. KeepsStop(z, y) /\ KeepsFifo(z, y) BY <1>5, <1>8 DEF KeepsStop, KeepsFifo
<1>10. TxOK(y, p) BY <1>1, <1>7, <1>9, KeepsTxOK
<1>11. ~y.failed /\ Owed(y) BY <1>1, <1>7, Zenon DEF KeepsRest, KeepsTx, Owed
<1>12. DueOK(z, p) => DueOK(y, p)
  BY <1>7, <1>8, Zenon DEF DueOK, KeepsTx, KeepsRest
<1>13. CASE z.reset
  <2>1. PICK h : h = R!HaltFinalStep(y) OBVIOUS
  <2>2. y.rx # "none" \/ DueOK(y, p) BY <1>8, <1>12 DEF Serviced
  <2>3. /\ h \in Rec /\ ~h.failed /\ TxOK(h, p) /\ RxOK(h, p) /\ DueOK(h, p)
        /\ h.owed = y.owed /\ (h.tx = "none" <=> y.tx = "none")
        /\ h.isr = y.isr /\ ~h.reset /\ "fifop" \notin h.flags
    BY ZenonT(40), <1>6, <1>10, <1>11, <2>1, <2>2, Halt
  <2>4. Owed(h) /\ Ready(h) /\ ~h.isr BY <1>8, <1>11, <2>3 DEF Owed, Ready
  <2>5. RadioOK(h, p) BY <2>3, <2>4 DEF RadioOK, Sound
  <2> QED BY <1>13, <2>1, <2>5
<1>14. CASE ~z.reset
  <2>1. RxOK(z, p) /\ DueOK(z, p) BY <1>14 DEF Serviced
  <2>2. y.ack /\ p # "clear" => "ackdone" \in y.im BY <1>8, <2>1 DEF RxOK
  <2>3. RxOK(y, p) BY <1>8, <1>9, <2>1, <2>2, KeepsRxOK, Zenon
  <2>4. Ready(y) BY <1>5, <1>8 DEF Ready
  <2>5. RadioOK(y, p)
    BY <1>6, <1>8, <1>10, <1>11, <1>12, <1>14, <2>1, <2>3, <2>4 DEF RadioOK, Sound
  <2> QED BY <1>14, <2>5
<1> QED BY <1>13, <1>14

LEMMA FifoHandled ==
  ASSUME NEW x, NEW p, RadioOK(x, p), NEW fate \in R!Fate
  PROVE  RadioOK(R!FifoPart(x, fate), p)
<1>1. CASE "fifop" \notin x.flags BY <1>1 DEF R!FifoPart
<1>2. CASE "fifop" \in x.flags
  <2> DEFINE y == [x EXCEPT !.isr = TRUE]
             z == CASE x.rxState = "start" -> R!RxStartIsr(y, fate)
                    [] x.rxState \in {"addr", "body"} -> R!RxPartIsr(y)
                    [] x.rxState = "fcs" -> R!RxFcsIsr(y)
                    [] x.rxState = "discard" -> R!RxDiscardIsr(y)
             end == [z EXCEPT !.isr = FALSE,
                       !.flags = IF z.fifo.got > 0 THEN @ ELSE @ \ {"fifop"}]
  <2>1. R!FifoPart(x, fate) = IF z.reset THEN R!HaltFinalStep(end) ELSE end
    BY <1>2, Zenon DEF R!FifoPart, R!ThresholdIsr
  <2>2. Serving(y, p) /\ y.rxState = x.rxState BY <1>2, Entered
  <2>3. x.rxState \in {"start", "discard", "addr", "body", "fcs"}
    <3>1. RxOK(y, p) BY <2>2 DEF Serving
    <3>2. x.rxState # "start" => Data(y.fifo.rest) /\ x.rxState \in {"discard", y.fifo.rest[1]}
      BY <2>2, <3>1 DEF RxOK
    <3> QED BY <3>2, DataHead
  <2>4. Serviced(z, p)
    <3>1. CASE x.rxState = "start"
      <4>1. z = R!RxStartIsr(y, fate) BY <3>1
      <4> QED BY <2>2, <3>1, <4>1, StartServes, Zenon
    <3>2. CASE x.rxState \in {"addr", "body"}
      <4>1. z = R!RxPartIsr(y) BY <3>2
      <4> QED BY <2>2, <3>2, <4>1, PartServes, Zenon
    <3>3. CASE x.rxState = "fcs"
      <4>1. z = R!RxFcsIsr(y) BY <3>3
      <4> QED BY <2>2, <3>3, <4>1, FcsServes, Zenon
    <3>4. CASE x.rxState = "discard"
      <4>1. z = R!RxDiscardIsr(y) BY <3>4
      <4> QED BY <2>2, <3>4, <4>1, DiscardServes, Zenon
    <3> QED BY <2>3, <3>1, <3>2, <3>3, <3>4
  <2> HIDE DEF z
  <2> QED BY <2>1, <2>4, Leaves, Zenon
<1> QED BY <1>1, <1>2

-----------------------------------------------------------------------------
LEMMA Opened ==
  ASSUME NEW x, NEW p, RadioOK(x, p)
  PROVE  /\ x \in Rec /\ IsRec(x) /\ ~x.failed /\ Owed(x) /\ TxOK(x, p) /\ RxOK(x, p)
         /\ DueOK(x, p) /\ ~x.isr /\ ~x.reset /\ Ready(x)
BY RecIs DEF RadioOK, Sound

(* A step that leaves the frame in the FIFO and the receive alone          *)
LEMMA TxStep ==
  ASSUME NEW x, NEW p, NEW q, RadioOK(x, p), NEW y \in Rec,
         KeepsRx(x, y), KeepsFifo(x, y), y.failed = x.failed, Owed(y),
         "ackdone" \in y.im <=> "ackdone" \in x.im, p = "clear" => q = "clear" \/ ~x.ack,
         TxOK(y, q), DueOK(y, q)
  PROVE  RadioOK(y, q)
<1>1. /\ ~x.failed /\ RxOK(x, p) /\ ~x.isr /\ ~x.reset /\ Ready(x) BY Opened
<1>2. y.rx = x.rx /\ y.rxState = x.rxState /\ y.ack = x.ack /\ ~y.isr /\ ~y.reset
  BY <1>1, Zenon DEF KeepsRx
<1>3. y.ack /\ q # "clear" => "ackdone" \in y.im BY <1>1, <1>2, Zenon DEF RxOK
<1>4. RxOK(y, q) BY <1>1, <1>2, <1>3, KeepsRxOK
<1>5. Ready(y) BY <1>1 DEF Ready, KeepsFifo
<1> QED BY <1>1, <1>2, <1>4, <1>5 DEF RadioOK, Sound

LEMMA TxFrameStep ==
  ASSUME RadioOK(r, rpc), R!MacTxFrame
  PROVE  RadioOK(r', rpc')
<1>1. /\ r \in Rec /\ IsRec(r) /\ ~r.failed /\ Owed(r) /\ TxOK(r, rpc) /\ RxOK(r, rpc)
      /\ DueOK(r, rpc) /\ ~r.isr /\ ~r.reset /\ Ready(r)
  BY Opened
<1>2. rpc = "idle" /\ ~r.owed /\ r.tx = "none" BY <1>1 DEF R!MacTxFrame, Owed
<1>3. R!Assert(r, r.tx = "none") = r BY <1>1, <1>2, AssertHolds, Zenon
<1>4. PICK again \in BOOLEAN :
        LET x == [r EXCEPT !.tx = "init", !.retx = @ \/ again, !.owed = TRUE] IN
        IF x.sleep = "awake" THEN r' = x /\ rpc' = "prepare"
        ELSE r' = R!TxComplete(x) /\ UNCHANGED rpc
  BY <1>3, Zenon DEF R!MacTxFrame
<1> DEFINE x == [r EXCEPT !.tx = "init", !.retx = @ \/ again, !.owed = TRUE]
<1>5. x \in Rec
  <2>1. r.retx \in BOOLEAN BY <1>1 DEF Rec
  <2>2. PICK a \in Rec : a = [r EXCEPT !.tx = "init"] BY <1>1, SetTx, Zenon
  <2>3. (r.retx \/ again) \in BOOLEAN OBVIOUS
  <2>4. PICK b \in Rec : b = [a EXCEPT !.retx = (r.retx \/ again)] BY <2>3, SetRetx, Zenon
  <2>5. x = [b EXCEPT !.owed = TRUE] BY <1>1, <2>2, <2>4 DEF IsRec
  <2> QED BY <2>5, SetOwed, Zenon
<1>6. /\ KeepsRx(r, x) /\ x.failed = r.failed /\ x.tx = "init" /\ x.owed = TRUE
      /\ x.fifo = r.fifo /\ x.acking = r.acking /\ x.on = r.on /\ x.flags = r.flags
  BY <1>1 DEF IsRec, KeepsRx
<1>7. /\ x.im = r.im /\ x.powDue = r.powDue /\ x.en = r.en
  BY <1>1 DEF IsRec
<1> HIDE DEF x
<1>8. KeepsFifo(r, x) BY <1>6 DEF KeepsFifo
<1>9. "stop" \notin x.im BY <1>1, <1>2, <1>7 DEF TxOK
<1>10. CASE x.sleep = "awake"
  <2>1. r' = x /\ rpc' = "prepare" BY <1>4, <1>10 DEF x
  <2>2. TxOK(x, "prepare") BY <1>6, <1>9 DEF TxOK, Starting
  <2>3. DueOK(x, "prepare")
    <3>1. x.rx = r.rx /\ x.ack = r.ack BY <1>6 DEF KeepsRx
    <3> QED BY <1>1, <1>2, <1>6, <1>7, <3>1 DEF DueOK, R!TxPhysical
  <2>4. Owed(x) BY <1>6 DEF Owed
  <2>5. RadioOK(x, "prepare")
    BY <1>2, <1>5, <1>6, <1>7, <1>8, <2>2, <2>3, <2>4, TxStep
  <2> QED BY <2>1, <2>5
<1>11. CASE x.sleep # "awake"
  <2>1. r' = R!TxComplete(x) /\ rpc' = rpc BY <1>4, <1>11 DEF x
  <2>2. RxOK(x, rpc) BY <1>1, <1>6, <1>7, Zenon DEF RxOK, KeepsRx
  <2>3. Ready(x) BY <1>1, <1>6 DEF Ready
  <2>4. ~x.failed /\ ~x.isr /\ ~x.reset BY <1>1, <1>6, Zenon DEF KeepsRx
  <2>5. ~Started(rpc) BY <1>2 DEF Started, Starting
  <2> QED BY <1>5, <1>6, <1>9, <2>1, <2>2, <2>3, <2>4, <2>5, Completed
<1> QED BY <1>10, <1>11

LEMMA TxPrepareStep ==
  ASSUME RadioOK(r, rpc), R!MacTxPrepare
  PROVE  RadioOK(r', rpc')
<1>1. /\ r \in Rec /\ IsRec(r) /\ ~r.failed /\ Owed(r) /\ TxOK(r, rpc) /\ RxOK(r, rpc)
      /\ DueOK(r, rpc)
  BY Opened
<1>2. rpc = "prepare" /\ rpc' = "decide" BY DEF R!MacTxPrepare, R!Goto
<1>3. r.tx = "init" /\ "stop" \notin r.im BY <1>1, <1>2 DEF TxOK
<1>4. R!Assert(r, "stop" \notin r.im) = r BY <1>1, <1>3, AssertHolds, Zenon
<1>5. PICK ar \in BOOLEAN :
        r' = [[r EXCEPT !.cspz = "busy", !.csp = "loaded", !.flags = @ \ {"stop", "int"}]
                EXCEPT !.nb = 0, !.ackReq = ar]
  BY <1>4, Zenon DEF R!MacTxPrepare, R!CsmaPrep
<1>6. r.flags \ {"stop", "int"} \in SUBSET {"stop", "int", "ackdone", "fifop"}
  BY <1>1 DEF Rec
<1>7. PICK a \in Rec : a = [r EXCEPT !.cspz = "busy"] BY <1>1, SetCspz, Zenon
<1>8. PICK b \in Rec : b = [a EXCEPT !.csp = "loaded"] BY SetCsp, Zenon
<1>9. PICK c \in Rec : c = [b EXCEPT !.flags = r.flags \ {"stop", "int"}] BY <1>6, SetFlags, Zenon
<1>10. PICK d \in Rec : d = [c EXCEPT !.nb = 0] BY SetNb, Zenon
<1>11. r' = [d EXCEPT !.ackReq = ar] BY <1>1, <1>5, <1>7, <1>8, <1>9, <1>10 DEF IsRec
<1>12. r' \in Rec BY <1>11, SetAckReq
<1>13. /\ KeepsRx(r, r') /\ r'.failed = r.failed /\ r'.tx = "init" /\ r'.owed = r.owed
       /\ r'.fifo = r.fifo /\ r'.acking = r.acking /\ r'.on = r.on
       /\ r'.flags = r.flags \ {"stop", "int"}
  BY <1>1, <1>3, <1>5 DEF IsRec, KeepsRx
<1>14. /\ r'.im = r.im /\ r'.powDue = r.powDue /\ r'.en = r.en
       /\ r'.csp = "loaded" /\ r'.cspz = "busy"
  BY <1>1, <1>5 DEF IsRec
<1>15. KeepsFifo(r, r') BY <1>13 DEF KeepsFifo
<1>16. TxOK(r', "decide") BY <1>3, <1>13, <1>14 DEF TxOK, Starting, Loaded
<1>17. DueOK(r', "decide")
  <2>1. r'.rx = r.rx /\ r'.ack = r.ack BY <1>13 DEF KeepsRx
  <2> QED BY <1>1, <1>2, <1>3, <1>13, <1>14, <2>1 DEF DueOK, R!TxPhysical
<1>18. Owed(r') BY <1>1, <1>3, <1>13 DEF Owed
<1>19. RadioOK(r', "decide")
  BY <1>2, <1>12, <1>13, <1>14, <1>15, <1>16, <1>17, <1>18, TxStep
<1> QED BY <1>2, <1>19

LEMMA TxDecideStep ==
  ASSUME RadioOK(r, rpc), R!MacTxDecide
  PROVE  RadioOK(r', rpc')
<1>1. /\ r \in Rec /\ IsRec(r) /\ ~r.failed /\ Owed(r) /\ TxOK(r, rpc) /\ RxOK(r, rpc)
      /\ DueOK(r, rpc)
  BY Opened
<1>2. rpc = "decide" BY DEF R!MacTxDecide
<1>3. r.tx = "init" /\ "stop" \notin r.im /\ Loaded(r) BY <1>1, <1>2 DEF TxOK
<1>4. ASSUME NEW t \in {"go", "queued"}, r' = [r EXCEPT !.tx = t],
             NEW q \in {"cancel", "idle"}, rpc' = q, q = "cancel" => t = "go",
             t = "go" => q = "cancel", t = "queued" => r.rx # "none" \/ r.ack
      PROVE  RadioOK(r', rpc')
  <2>1. r' \in Rec BY <1>1, <1>4, SetTx, Zenon
  <2>2. /\ KeepsRx(r, r') /\ r'.failed = r.failed /\ r'.tx = t /\ r'.owed = r.owed
        /\ r'.fifo = r.fifo /\ r'.acking = r.acking /\ r'.on = r.on /\ r'.flags = r.flags
    BY <1>1, <1>4 DEF IsRec, KeepsRx
  <2>3. /\ r'.im = r.im /\ r'.powDue = r.powDue /\ r'.en = r.en
        /\ r'.csp = r.csp /\ r'.cspz = r.cspz
    BY <1>1, <1>4 DEF IsRec
  <2>4. KeepsFifo(r, r') BY <2>2 DEF KeepsFifo
  <2>5. Loaded(r') BY <1>3, <2>2, <2>3 DEF Loaded
  <2>6. TxOK(r', q) BY <1>3, <1>4, <2>2, <2>3, <2>5 DEF TxOK, Starting
  <2>7. DueOK(r', q)
    <3>1. r'.rx = r.rx /\ r'.ack = r.ack BY <2>2 DEF KeepsRx
    <3> QED BY <1>1, <1>2, <1>3, <1>4, <2>2, <2>3, <3>1 DEF DueOK, R!TxPhysical
  <2>8. Owed(r') BY <1>1, <1>3, <2>2 DEF Owed
  <2>9. RadioOK(r', q) BY <1>2, <2>1, <2>2, <2>3, <2>4, <2>6, <2>7, <2>8, TxStep
  <2> QED BY <1>4, <2>9
<1>5. CASE r.rx = "none" /\ ~r.ack
  <2>1. r' = [r EXCEPT !.tx = "go"] /\ rpc' = "cancel" BY <1>5 DEF R!MacTxDecide
  <2> QED BY <1>4, <2>1
<1>6. CASE ~(r.rx = "none" /\ ~r.ack)
  <2>1. r' = [r EXCEPT !.tx = "queued"] /\ rpc' = "idle" BY <1>6 DEF R!MacTxDecide
  <2> QED BY <1>4, <1>6, <2>1
<1> QED BY <1>5, <1>6

LEMMA TxGoStep ==
  ASSUME RadioOK(r, rpc), R!MacTxGo
  PROVE  RadioOK(r', rpc')
<1>1. /\ r \in Rec /\ IsRec(r) /\ ~r.failed /\ Owed(r) /\ TxOK(r, rpc) /\ RxOK(r, rpc)
      /\ DueOK(r, rpc) /\ ~r.isr /\ ~r.reset /\ Ready(r)
  BY Opened
<1>2. rpc \in Starting BY DEF R!MacTxGo, R!Goto, Starting
<1>3. r.tx = "go" /\ Loaded(r) BY <1>1, <1>2 DEF TxOK
<1>4. ASSUME NEW q, NEW y \in Rec, KeepsTx(r, y), KeepsFifo(r, y), KeepsStop(r, y),
             y.flags = r.flags, y.failed = r.failed,
             y.rx = r.rx, y.rxState = r.rxState, y.isr = r.isr, y.reset = r.reset,
             y.ack => r.ack, y.ack /\ q # "clear" => "ackdone" \in y.im,
             (rpc = "cancel" /\ q = "clear") \/ (rpc = "clear" /\ q = "enable")
      PROVE  RadioOK(y, q)
  <2>1. y.tx = "go" /\ y.csp = r.csp /\ y.cspz = r.cspz BY <1>3, <1>4 DEF KeepsTx
  <2>2. Loaded(y) BY <1>3, <1>4, <2>1 DEF Loaded
  <2>3. "stop" \notin r.im BY <1>1, <1>4 DEF TxOK
  <2>4. "stop" \notin y.im BY <1>4, <2>3 DEF KeepsStop
  <2>5. TxOK(y, q) BY <1>4, <2>1, <2>2, <2>4 DEF TxOK, Starting
  <2>6. RxOK(y, q) BY <1>1, <1>4, KeepsRxOK
  <2>7. DueOK(y, q) BY <2>1 DEF DueOK, R!TxPhysical
  <2>8. Owed(y) BY <1>1, <1>4, Zenon DEF Owed, KeepsTx
  <2>9. Ready(y) BY <1>1, <1>4 DEF Ready, KeepsFifo
  <2> QED BY <1>1, <1>4, <2>5, <2>6, <2>7, <2>8, <2>9 DEF RadioOK, Sound
<1>5. CASE R!Goto("cancel", "clear") /\ r' = R!CancelAckDone(r)
  <2>1. rpc = "cancel" /\ rpc' = "clear" BY <1>5 DEF R!Goto
  <2>2. r' \in Rec BY <1>1, <1>5, Statements
  <2>3. KeepsTx(r, r') /\ r'.im = r.im \ {"ackdone"} /\ r'.flags = r.flags
    BY <1>1, <1>5 DEF IsRec, KeepsTx, R!CancelAckDone
  <2>4. /\ r'.failed = r.failed /\ r'.rx = r.rx /\ r'.rxState = r.rxState /\ r'.isr = r.isr
        /\ r'.reset = r.reset /\ r'.ack = r.ack /\ r'.fifo = r.fifo
        /\ r'.acking = r.acking /\ r'.on = r.on
    BY <1>1, <1>5 DEF IsRec, R!CancelAckDone
  <2>5. KeepsFifo(r, r') /\ KeepsStop(r, r') BY <2>3, <2>4 DEF KeepsFifo, KeepsStop
  <2> QED BY <1>4, <2>1, <2>2, <2>3, <2>4, <2>5
<1>6. CASE R!Goto("clear", "enable") /\ r' = R!ClearAckFlag(r)
  <2>1. rpc = "clear" /\ rpc' = "enable" BY <1>6 DEF R!Goto
  <2>2. r' \in Rec BY <1>1, <1>6, Statements
  <2>3. KeepsTx(r, r') /\ r'.im = r.im /\ r'.flags = r.flags
    BY <1>1, <1>6 DEF IsRec, KeepsTx, R!ClearAckFlag
  <2>4. /\ r'.failed = r.failed /\ r'.rx = r.rx /\ r'.rxState = r.rxState /\ r'.isr = r.isr
        /\ r'.reset = r.reset /\ r'.ack = FALSE /\ r'.fifo = r.fifo
        /\ r'.acking = r.acking /\ r'.on = r.on
    BY <1>1, <1>6 DEF IsRec, R!ClearAckFlag
  <2>5. KeepsFifo(r, r') /\ KeepsStop(r, r') BY <2>3, <2>4 DEF KeepsFifo, KeepsStop
  <2> QED BY <1>4, <2>1, <2>2, <2>3, <2>4, <2>5
<1>7. CASE R!Goto("enable", "on") /\ r' = R!EnableCsp(r)
  <2>1. rpc = "enable" /\ rpc' = "on" BY <1>7 DEF R!Goto
  <2>2. r' \in Rec BY <1>1, <1>7, Statements
  <2>3. KeepsTx(r, r') /\ KeepsRx(r, r') /\ KeepsRest(r, r')
    BY <1>1, <1>7 DEF IsRec, KeepsTx, KeepsRx, KeepsRest, R!EnableCsp
  <2>4. /\ r'.im = r.im \cup {"stop", "int"} /\ r'.flags = r.flags /\ r'.fifo = r.fifo
        /\ r'.acking = r.acking /\ r'.on = r.on
    BY <1>1, <1>7 DEF IsRec, R!EnableCsp
  <2>5. KeepsFifo(r, r') BY <2>4 DEF KeepsFifo
  <2>6. r'.tx = "go" /\ r'.csp = r.csp /\ r'.cspz = r.cspz BY <1>3, <2>3 DEF KeepsTx
  <2>7. Loaded(r') BY <1>3, <2>4, <2>6 DEF Loaded
  <2>8. TxOK(r', "on") BY <2>6, <2>7 DEF TxOK, Starting
  <2>9. DueOK(r', "on") BY <2>6 DEF DueOK, R!TxPhysical
  <2>10. Owed(r') BY <1>1, <2>3, Zenon DEF Owed, KeepsTx
  <2>11. r'.failed = r.failed BY <2>3 DEF KeepsRest
  <2>12. RadioOK(r', "on")
    BY <2>1, <2>2, <2>3, <2>4, <2>5, <2>8, <2>9, <2>10, <2>11, TxStep
  <2> QED BY <2>1, <2>12
<1>8. CASE R!Goto("on", "start") /\ r' = R!RxOn(r)
  <2>1. rpc = "on" /\ rpc' = "start" BY <1>8 DEF R!Goto
  <2>2. r' \in Rec BY <1>1, <1>8, Statements
  <2>3. KeepsTx(r, r') /\ KeepsRx(r, r') /\ KeepsRest(r, r')
    BY <1>1, <1>8 DEF IsRec, KeepsTx, KeepsRx, KeepsRest, R!RxOn
  <2>4. /\ r'.im = r.im /\ r'.flags = r.flags /\ r'.fifo = r.fifo
        /\ r'.acking = r.acking /\ r'.on = TRUE
    BY <1>1, <1>8 DEF IsRec, R!RxOn
  <2>5. KeepsFifo(r, r') BY <2>4 DEF KeepsFifo
  <2>6. r'.tx = "go" /\ r'.csp = r.csp /\ r'.cspz = r.cspz BY <1>3, <2>3 DEF KeepsTx
  <2>7. Loaded(r') BY <1>3, <2>4, <2>6 DEF Loaded
  <2>8. TxOK(r', "start") BY <2>6, <2>7 DEF TxOK, Starting
  <2>9. DueOK(r', "start") BY <2>6 DEF DueOK, R!TxPhysical
  <2>10. Owed(r') BY <1>1, <2>3, Zenon DEF Owed, KeepsTx
  <2>11. r'.failed = r.failed BY <2>3 DEF KeepsRest
  <2>12. RadioOK(r', "start")
    BY <2>1, <2>2, <2>3, <2>4, <2>5, <2>8, <2>9, <2>10, <2>11, TxStep
  <2> QED BY <2>1, <2>12
<1>9. CASE R!Goto("start", "idle") /\ r' = R!StartCsp(r)
  <2>1. rpc = "start" /\ rpc' = "idle" BY <1>9 DEF R!Goto
  <2>2. r' \in Rec BY <1>1, <1>9, Statements
  <2>3. KeepsRx(r, r') /\ KeepsRest(r, r')
    BY <1>1, <1>9 DEF IsRec, KeepsRx, KeepsRest, R!StartCsp
  <2>4. /\ r'.im = r.im /\ r'.flags = r.flags /\ r'.fifo = r.fifo
        /\ r'.acking = r.acking /\ r'.on = r.on /\ r'.tx = r.tx /\ r'.owed = r.owed
    BY <1>1, <1>9 DEF IsRec, R!StartCsp
  <2>5. KeepsFifo(r, r') BY <2>4 DEF KeepsFifo
  <2>6. r'.tx = "go" BY <1>3, <2>4
  <2>7. TxOK(r', "idle") BY <2>6 DEF TxOK, Starting
  <2>8. DueOK(r', "idle") BY <2>6 DEF DueOK, R!TxPhysical
  <2>9. Owed(r') BY <1>1, <2>4, Zenon DEF Owed
  <2>10. r'.failed = r.failed BY <2>3 DEF KeepsRest
  <2>11. RadioOK(r', "idle")
    BY <2>1, <2>2, <2>3, <2>4, <2>5, <2>7, <2>8, <2>9, <2>10, TxStep
  <2> QED BY <2>1, <2>11
<1> QED BY <1>5, <1>6, <1>7, <1>8, <1>9 DEF R!MacTxGo

(* A step of a task that leaves the transmit alone                         *)
LEMMA RxStep ==
  ASSUME NEW x, NEW p, NEW q, RadioOK(x, p), NEW y \in Rec,
         KeepsTx(x, y), KeepsStop(x, y), KeepsRx(x, y), y.failed = x.failed,
         ~Started(p), ~Started(q), RxOK(y, q), DueOK(y, q),
         "fifop" \in y.flags => "fifop" \in x.flags /\ y.fifo = x.fifo
  PROVE  RadioOK(y, q)
<1>1. /\ ~x.failed /\ ~x.isr /\ ~x.reset /\ Ready(x) /\ TxOK(x, p) /\ Owed(x) BY Opened
<1>2. TxOK(y, p) BY <1>1, KeepsTxOK
<1>3. TxOK(y, q) BY <1>2 DEF TxOK, Started, Starting
<1>4. ~y.isr /\ ~y.reset BY <1>1, Zenon DEF KeepsRx
<1>5. Ready(y) BY <1>1 DEF Ready
<1>6. Owed(y) BY <1>1, Zenon DEF Owed, KeepsTx
<1> QED BY <1>1, <1>3, <1>4, <1>5, <1>6 DEF RadioOK, Sound

LEMMA RxEnableStep ==
  ASSUME RadioOK(r, rpc), R!MacRxEnable
  PROVE  RadioOK(r', rpc')
<1>1. /\ r \in Rec /\ IsRec(r) /\ RxOK(r, rpc) /\ DueOK(r, rpc) BY Opened
<1>2. PICK f \in RxFlag : \/ r' = R!RxOn([r EXCEPT !.en = @ \cup {f}])
                          \/ r' = [r EXCEPT !.en = @ \cup {f}]
  BY DEF R!MacRxEnable
<1>3. rpc = "idle" /\ rpc' = rpc BY DEF R!MacRxEnable
<1> DEFINE x == [r EXCEPT !.en = r.en \cup {f}]
<1>4. x \in Rec /\ x = [r EXCEPT !.en = @ \cup {f}]
  <2>1. r.en \cup {f} \in SUBSET RxFlag BY <1>1 DEF Rec
  <2>2. x \in Rec BY <1>1, <2>1, SetEn
  <2>3. x = [r EXCEPT !.en = @ \cup {f}] BY <1>1 DEF IsRec
  <2> QED BY <2>2, <2>3
<1>5. r' \in Rec
  <2>1. R!RxOn(x) \in Rec BY <1>4, Statements
  <2> QED BY <1>2, <1>4, <2>1
<1>6. /\ KeepsTx(r, r') /\ KeepsRx(r, r')
  <2>1. CASE r' = R!RxOn([r EXCEPT !.en = @ \cup {f}])
    BY <1>1, <2>1 DEF IsRec, KeepsTx, KeepsRx, R!RxOn
  <2>2. CASE r' = [r EXCEPT !.en = @ \cup {f}]
    BY <1>1, <2>2 DEF IsRec, KeepsTx, KeepsRx
  <2> QED BY <1>2, <2>1, <2>2
<1>7. /\ r'.failed = r.failed /\ r'.im = r.im /\ r'.flags = r.flags /\ r'.fifo = r.fifo
      /\ r'.acking = r.acking /\ r'.powDue = r.powDue /\ r'.en = r.en \cup {f}
      /\ (r.on => r'.on)
  BY <1>1, <1>2, Zenon DEF IsRec, R!RxOn
<1>8. KeepsStop(r, r') /\ KeepsFifo(r, r') BY <1>7 DEF KeepsStop, KeepsFifo
<1>9. RxOK(r', rpc)
  <2>1. r'.rx = r.rx /\ r'.rxState = r.rxState /\ r'.ack = r.ack BY <1>6 DEF KeepsRx
  <2>2. r'.ack /\ rpc # "clear" => "ackdone" \in r'.im BY <1>1, <1>7, <2>1, Zenon DEF RxOK
  <2> QED BY <1>1, <1>8, <2>1, <2>2, KeepsRxOK
<1>10. DueOK(r', rpc)
  <2>1. r'.en # {} BY <1>7
  <2> QED BY <1>1, <1>6, <1>7, <2>1, Zenon DEF DueOK, KeepsTx, KeepsRx
<1>11. ~Started(rpc) BY <1>3 DEF Started, Starting
<1>12. RadioOK(r', rpc) BY <1>5, <1>6, <1>7, <1>8, <1>9, <1>10, <1>11, RxStep
<1> QED BY <1>3, <1>12

LEMMA RxDisableStep ==
  ASSUME RadioOK(r, rpc), R!MacRxDisable
  PROVE  RadioOK(r', rpc')
<1>1. /\ r \in Rec /\ IsRec(r) /\ RxOK(r, rpc) /\ DueOK(r, rpc) BY Opened
<1>2. CASE R!Goto("idle", "off") /\ \E f \in r.en : r' = [r EXCEPT !.en = @ \ {f}]
  <2>1. rpc = "idle" /\ rpc' = "off" BY <1>2 DEF R!Goto
  <2>2. PICK f \in r.en : r' = [r EXCEPT !.en = @ \ {f}] BY <1>2
  <2>3. r.en \ {f} \in SUBSET RxFlag BY <1>1 DEF Rec
  <2>4. r' = [r EXCEPT !.en = r.en \ {f}] BY <1>1, <2>2 DEF IsRec
  <2>5. r' \in Rec BY <1>1, <2>3, <2>4, SetEn
  <2>6. /\ KeepsTx(r, r') /\ KeepsRx(r, r')
    BY <1>1, <2>4 DEF IsRec, KeepsTx, KeepsRx
  <2>7. /\ r'.failed = r.failed /\ r'.im = r.im /\ r'.flags = r.flags /\ r'.fifo = r.fifo
        /\ r'.acking = r.acking /\ r'.powDue = r.powDue /\ r'.on = r.on
    BY <1>1, <2>4 DEF IsRec
  <2>8. KeepsStop(r, r') /\ KeepsFifo(r, r') BY <2>7 DEF KeepsStop, KeepsFifo
  <2>9. RxOK(r', "off")
    <3>1. r'.rx = r.rx /\ r'.rxState = r.rxState /\ r'.ack = r.ack BY <2>6 DEF KeepsRx
    <3>2. r'.ack => "ackdone" \in r'.im BY <1>1, <2>1, <2>7, <3>1 DEF RxOK
    <3> QED BY <1>1, <2>8, <3>1, <3>2, KeepsRxOK
  <2>10. DueOK(r', "off")
    <3>1. r'.rx = r.rx /\ r'.ack = r.ack /\ r'.tx = r.tx BY <2>6 DEF KeepsRx, KeepsTx
    <3> QED BY <1>1, <2>1, <2>7, <3>1 DEF DueOK
  <2>11. ~Started(rpc) /\ ~Started("off") BY <2>1 DEF Started, Starting
  <2>12. RadioOK(r', "off") BY <2>5, <2>6, <2>7, <2>8, <2>9, <2>10, <2>11, RxStep
  <2> QED BY <2>1, <2>12
<1>3. CASE R!Goto("off", "idle") /\ r' = R!RxOffRequest(r)
  <2>1. rpc = "off" /\ rpc' = "idle" BY <1>3 DEF R!Goto
  <2>2. /\ r' \in Rec /\ KeepsTx(r, r') /\ KeepsRx(r, r') /\ KeepsRest(r, r')
        /\ r'.powDue = r.powDue /\ r'.im = r.im /\ r'.flags \subseteq r.flags
        /\ r'.on /\ r'.en = {} => r.rx = "started" \/ r.ack \/ r.tx \in R!TxPhysical
    BY <1>1, <1>3, OffRequest, Zenon
  <2>3. RxOK(r', rpc) /\ ("fifop" \in r'.flags => "fifop" \in r.flags /\ r'.fifo = r.fifo)
    BY <1>1, <1>3, OffRequestRxOK
  <2>4. RxOK(r', "idle") BY <2>1, <2>3, Zenon DEF RxOK
  <2>5. r'.rx = r.rx /\ r'.ack = r.ack /\ r'.tx = r.tx BY <2>2 DEF KeepsRx, KeepsTx
  <2>6. DueOK(r', "idle") BY <1>1, <2>1, <2>2, <2>5 DEF DueOK
  <2>7. KeepsStop(r, r') BY <2>2 DEF KeepsStop
  <2>8. ~Started(rpc) /\ ~Started("idle") BY <2>1 DEF Started, Starting
  <2>9. r'.failed = r.failed BY <2>2 DEF KeepsRest
  <2>10. RadioOK(r', "idle") BY <2>2, <2>3, <2>4, <2>6, <2>7, <2>8, <2>9, RxStep
  <2> QED BY <2>1, <2>10
<1> QED BY <1>2, <1>3 DEF R!MacRxDisable

LEMMA SetChannelStep ==
  ASSUME RadioOK(r, rpc), R!MacRadioSetChannel
  PROVE  RadioOK(r', rpc')
<1>1. /\ r \in Rec /\ IsRec(r) /\ ~r.failed /\ Owed(r) /\ TxOK(r, rpc) /\ RxOK(r, rpc)
      /\ DueOK(r, rpc) /\ ~r.isr /\ ~r.reset /\ Ready(r)
  BY Opened
<1>2. rpc = "idle" /\ rpc' = rpc BY DEF R!MacRadioSetChannel
<1>3. PICK x \in Rec : x = [r EXCEPT !.chDue = TRUE] BY <1>1, SetChDue, Zenon
<1>4. r' = IF x.tx = "none" THEN R!UpdateChannel(x) ELSE x
  BY <1>3, Zenon DEF R!MacRadioSetChannel
<1>5. KeepsTx(r, x) /\ KeepsRx(r, x) BY <1>1, <1>3 DEF IsRec, KeepsTx, KeepsRx
<1>6. /\ x.failed = r.failed /\ x.im = r.im /\ x.flags = r.flags /\ x.fifo = r.fifo
      /\ x.acking = r.acking /\ x.powDue = r.powDue /\ x.on = r.on /\ x.en = r.en
  BY <1>1, <1>3 DEF IsRec
<1>7. RxOK(x, rpc) BY <1>1, <1>5, <1>6, Zenon DEF RxOK, KeepsRx
<1>8. DueOK(x, rpc) BY <1>1, <1>5, <1>6, Zenon DEF DueOK, KeepsRx, KeepsTx
<1>9. KeepsStop(r, x) BY <1>6 DEF KeepsStop
<1>10. ~Started(rpc) BY <1>2 DEF Started, Starting
<1>11. RadioOK(x, rpc) BY <1>5, <1>6, <1>7, <1>8, <1>9, <1>10, RxStep
<1>12. CASE x.tx # "none" BY <1>2, <1>4, <1>11, <1>12
<1>13. CASE x.tx = "none"
  <2>1. /\ ~x.failed /\ Owed(x) /\ TxOK(x, rpc) /\ ~x.isr /\ ~x.reset /\ Ready(x)
    BY <1>11, Opened
  <2>2. PICK y : y = R!UpdateChannel(x) OBVIOUS
  <2>3. /\ y \in Rec /\ ~y.failed /\ ~y.isr /\ ~y.reset /\ y.tx = "none" /\ y.owed = x.owed
        /\ TxOK(y, rpc) /\ RxOK(y, rpc) /\ DueOK(y, rpc) /\ Ready(y)
    BY <1>7, <1>8, <1>13, <2>1, <2>2, ChannelUpdated
  <2>4. Owed(y) BY <1>13, <2>1, <2>3 DEF Owed
  <2> QED BY <1>2, <1>4, <1>13, <2>2, <2>3, <2>4 DEF RadioOK, Sound
<1> QED BY <1>12, <1>13

LEMMA SetPowerStep ==
  ASSUME RadioOK(r, rpc), R!MacRadioSetTxPower
  PROVE  RadioOK(r', rpc')
<1>1. /\ r \in Rec /\ IsRec(r) /\ RxOK(r, rpc) /\ DueOK(r, rpc) BY Opened
<1>2. CASE R!Goto("idle", "power") /\ r' = [r EXCEPT !.powDue = TRUE]
  <2>1. rpc = "idle" /\ rpc' = "power" BY <1>2 DEF R!Goto
  <2>2. r' \in Rec BY <1>1, <1>2, SetPowDue, Zenon
  <2>3. /\ KeepsTx(r, r') /\ KeepsRx(r, r') BY <1>1, <1>2 DEF IsRec, KeepsTx, KeepsRx
  <2>4. /\ r'.failed = r.failed /\ r'.im = r.im /\ r'.flags = r.flags /\ r'.fifo = r.fifo
        /\ r'.acking = r.acking /\ r'.on = r.on /\ r'.en = r.en
    BY <1>1, <1>2 DEF IsRec
  <2>5. KeepsStop(r, r') BY <2>4 DEF KeepsStop
  <2>6. r'.rx = r.rx /\ r'.ack = r.ack /\ r'.tx = r.tx /\ r'.rxState = r.rxState
    BY <2>3 DEF KeepsRx, KeepsTx
  <2>7. RxOK(r', "power") BY <1>1, <2>1, <2>4, <2>6 DEF RxOK
  <2>8. DueOK(r', "power") BY <1>1, <2>1, <2>4, <2>6 DEF DueOK
  <2>9. ~Started(rpc) /\ ~Started("power") BY <2>1 DEF Started, Starting
  <2>10. RadioOK(r', "power") BY <2>2, <2>3, <2>4, <2>5, <2>7, <2>8, <2>9, RxStep
  <2> QED BY <2>1, <2>10
<1>3. CASE R!Goto("power", "idle") /\ r' = R!UpdateTxPower(r)
  <2>1. rpc = "power" /\ rpc' = "idle" BY <1>3 DEF R!Goto
  <2>2. /\ r' \in Rec /\ KeepsTx(r, r') /\ KeepsRx(r, r') /\ KeepsRest(r, r')
        /\ r'.fifo = r.fifo /\ r'.im = r.im /\ r'.flags = r.flags /\ r'.on = r.on
        /\ r'.acking = r.acking
        /\ r'.powDue => r.ack \/ r.tx \in R!TxPhysical
    BY <1>1, <1>3, TxPowerSet
  <2>3. r'.rx = r.rx /\ r'.ack = r.ack /\ r'.tx = r.tx /\ r'.rxState = r.rxState
    BY <2>2 DEF KeepsRx, KeepsTx
  <2>4. r'.failed = r.failed /\ r'.en = r.en BY <2>2 DEF KeepsRest
  <2>5. RxOK(r', "idle") BY <1>1, <2>1, <2>2, <2>3 DEF RxOK
  <2>6. DueOK(r', "idle") BY <1>1, <2>1, <2>2, <2>3, <2>4 DEF DueOK
  <2>7. KeepsStop(r, r') BY <2>2 DEF KeepsStop
  <2>8. ~Started(rpc) /\ ~Started("idle") BY <2>1 DEF Started, Starting
  <2>9. RadioOK(r', "idle") BY <2>2, <2>4, <2>5, <2>6, <2>7, <2>8, RxStep
  <2> QED BY <2>1, <2>9
<1> QED BY <1>2, <1>3 DEF R!MacRadioSetTxPower

LEMMA SleepStep ==
  ASSUME RadioOK(r, rpc), R!MacSleep
  PROVE  RadioOK(r', rpc')
<1>1. /\ r \in Rec /\ IsRec(r) /\ RxOK(r, rpc) /\ DueOK(r, rpc) /\ ~r.failed BY Opened
<1>2. /\ rpc = "idle" /\ rpc' = rpc /\ r.rx = "none" /\ ~r.ack /\ r.tx = "none"
  BY DEF R!MacSleep
<1>3. PICK s \in {"osc", "off"} : r' = [R!RxOff(r) EXCEPT !.sleep = s] BY DEF R!MacSleep
<1>4. PICK x \in Rec : x = R!RxOff(r) BY <1>1, Off, Zenon
<1>5. /\ KeepsTx(r, x) /\ KeepsRx(r, x) /\ KeepsRest(r, x)
      /\ x.powDue = r.powDue /\ x.im = r.im /\ x.on = FALSE
      /\ x.flags = IF r.on THEN r.flags \ {"fifop"} ELSE r.flags
      /\ x.fifo = IF r.on THEN R!NoFrame ELSE r.fifo
      /\ x.acking = IF r.on THEN FALSE ELSE r.acking
  BY <1>1, <1>4, Off, Zenon
<1>6. s \in {"awake", "osc", "off"} /\ r' = [x EXCEPT !.sleep = s] BY <1>3, <1>4
<1>7. r' \in Rec BY <1>6, SetSleep, Zenon
<1>8. IsRec(x) BY RecIs
<1>9. KeepsTx(x, r') /\ KeepsRx(x, r') BY <1>6, <1>8 DEF IsRec, KeepsTx, KeepsRx
<1>10. /\ r'.failed = x.failed /\ r'.im = x.im /\ r'.flags = x.flags /\ r'.fifo = x.fifo
       /\ r'.acking = x.acking /\ r'.powDue = x.powDue /\ r'.on = x.on
  BY <1>6, <1>8 DEF IsRec
<1>11. KeepsTx(r, r') /\ KeepsRx(r, r') BY <1>5, <1>9, Zenon DEF KeepsTx, KeepsRx
<1>12. r'.rx = r.rx /\ r'.ack = r.ack /\ r'.tx = r.tx /\ r'.rxState = r.rxState
  BY <1>11 DEF KeepsRx, KeepsTx
<1>13. ~r'.failed /\ r'.failed = r.failed BY <1>1, <1>5, <1>10 DEF KeepsRest
<1>14. KeepsStop(r, r') BY <1>5, <1>10 DEF KeepsStop
<1>15. "fifop" \notin r'.flags BY <1>1, <1>5, <1>10 DEF RxOK
<1>16. RxOK(r', rpc)
  <2>1. CASE r.on
    <3>1. r'.fifo = R!NoFrame BY <1>5, <1>10, <2>1
    <3>2. r'.rxState = "start" BY <1>1, <1>2, <1>12 DEF RxOK
    <3> QED BY <1>2, <1>12, <1>15, <3>1, <3>2, FlushedRxOK
  <2>2. CASE ~r.on
    <3>1. r'.fifo = r.fifo /\ r'.acking = r.acking /\ r'.flags = r.flags /\ r'.im = r.im
      BY <1>5, <1>10, <2>2
    <3> QED BY <1>1, <1>12, <1>15, <3>1, Zenon DEF RxOK
  <2> QED BY <2>1, <2>2
<1>17. DueOK(r', rpc) BY <1>1, <1>2, <1>5, <1>10, <1>12 DEF DueOK
<1>18. ~Started(rpc) BY <1>2 DEF Started, Starting
<1>19. RadioOK(r', rpc)
  BY <1>7, <1>11, <1>13, <1>14, <1>15, <1>16, <1>17, <1>18, RxStep
<1> QED BY <1>2, <1>19

LEMMA WakeUpStep ==
  ASSUME NEW x, RadioOK(x, rpc), rpc = "idle",
         NEW flags \in {x.flags, x.flags \ {"fifop"}},
         NEW y, y = R!RxOnRequest([[x EXCEPT !.flags = flags] EXCEPT !.sleep = "awake"])
  PROVE  RadioOK(y, rpc)
<1>1. /\ x \in Rec /\ IsRec(x) /\ RxOK(x, rpc) /\ DueOK(x, rpc) /\ ~x.failed BY Opened
<1>2. flags \in SUBSET {"stop", "int", "ackdone", "fifop"} BY <1>1 DEF Rec
<1>3. PICK a \in Rec : a = [x EXCEPT !.flags = flags] BY <1>1, <1>2, SetFlags, Zenon
<1>4. PICK b \in Rec : b = [a EXCEPT !.sleep = "awake"] BY SetSleep, Zenon
<1>5. y = R!RxOnRequest(b) BY <1>3, <1>4
<1>6. b = [x EXCEPT !.flags = flags, !.sleep = "awake"] BY <1>3, <1>4
<1>7. KeepsTx(x, b) /\ KeepsRx(x, b) BY <1>1, <1>6 DEF IsRec, KeepsTx, KeepsRx
<1>8. /\ b.failed = x.failed /\ b.im = x.im /\ b.flags = flags /\ b.fifo = x.fifo
      /\ b.acking = x.acking /\ b.powDue = x.powDue /\ b.on = x.on /\ b.en = x.en
  BY <1>1, <1>6 DEF IsRec
<1>9. /\ y \in Rec
      /\ KeepsTx(b, y) /\ KeepsRx(b, y) /\ KeepsRest(b, y)
      /\ y.powDue = b.powDue /\ y.im = b.im /\ y.flags = b.flags
      /\ y.fifo = b.fifo /\ y.acking = b.acking
      /\ (b.on => y.on) /\ (y.on /\ y.en = {} => b.on)
  BY <1>5, OnRequest
<1>10. KeepsTx(x, y) /\ KeepsRx(x, y) BY <1>7, <1>9, Zenon DEF KeepsTx, KeepsRx
<1>11. y.rx = x.rx /\ y.ack = x.ack /\ y.tx = x.tx /\ y.rxState = x.rxState
  BY <1>10 DEF KeepsRx, KeepsTx
<1>12. y.failed = x.failed /\ y.en = x.en BY <1>8, <1>9 DEF KeepsRest
<1>13. KeepsStop(x, y) /\ KeepsFifo(x, y) BY <1>8, <1>9 DEF KeepsStop, KeepsFifo
<1>14. RxOK(y, rpc)
  <2>1. y.ack /\ rpc # "clear" => "ackdone" \in y.im BY <1>1, <1>8, <1>9, <1>11 DEF RxOK
  <2> QED BY <1>1, <1>11, <1>13, <2>1, KeepsRxOK
<1>15. DueOK(y, rpc) BY <1>1, <1>8, <1>9, <1>11, <1>12, Zenon DEF DueOK
<1>16. ~Started(rpc) BY DEF Started, Starting
<1>17. "fifop" \in y.flags => "fifop" \in x.flags /\ y.fifo = x.fifo BY <1>8, <1>9
<1> QED BY <1>9, <1>10, <1>12, <1>13, <1>14, <1>15, <1>16, <1>17, RxStep

LEMMA PowerStep ==
  ASSUME ~ResetAnytime, RadioOK(r, rpc), R!Power
  PROVE  RadioOK(r', rpc')
<1>1. /\ r \in Rec /\ IsRec(r) /\ RxOK(r, rpc) /\ DueOK(r, rpc) /\ ~r.failed /\ TxOK(r, rpc)
      /\ Owed(r) /\ ~r.isr
  BY Opened
<1>2. CASE R!MacSleep BY <1>2, SleepStep
<1>3. r = [r EXCEPT !.flags = r.flags] BY <1>1 DEF IsRec
<1>4. CASE R!MacSleepWakeUp
  <2>1. rpc = "idle" /\ rpc' = rpc BY <1>4 DEF R!MacSleepWakeUp
  <2>2. CASE r.sleep = "off"
    <3>1. r' = R!RxOnRequest([[r EXCEPT !.flags = r.flags \ {"fifop"}] EXCEPT !.sleep = "awake"])
      BY <1>1, <1>4, <2>2 DEF R!MacSleepWakeUp, IsRec
    <3>2. RadioOK(r', rpc) BY <2>1, <3>1, WakeUpStep, Zenon
    <3> QED BY <2>1, <3>2
  <2>3. CASE r.sleep # "off"
    <3>1. r' = R!RxOnRequest([r EXCEPT !.sleep = "awake"])
      BY <1>4, <2>3 DEF R!MacSleepWakeUp
    <3>2. r' = R!RxOnRequest([[r EXCEPT !.flags = r.flags] EXCEPT !.sleep = "awake"])
      BY <1>3, <3>1, Zenon
    <3>3. RadioOK(r', rpc) BY <2>1, <3>2, WakeUpStep, Zenon
    <3> QED BY <2>1, <3>3
  <2> QED BY <2>2, <2>3
<1>5. CASE R!MacLowLevelReset
  <2>1. rpc = "idle" /\ rpc' = rpc /\ ~r.owed BY <1>5 DEF R!MacLowLevelReset
  <2>2. r.tx = "none" BY <1>1, <2>1 DEF Owed
  <2>3. CASE r.sleep # "awake"
    <3>1. r' = R!RxOnRequest([r EXCEPT !.sleep = "awake"])
      BY <1>5, <2>3 DEF R!MacLowLevelReset
    <3>2. r' = R!RxOnRequest([[r EXCEPT !.flags = r.flags] EXCEPT !.sleep = "awake"])
      BY <1>3, <3>1, Zenon
    <3>3. RadioOK(r', rpc) BY <2>1, <3>2, WakeUpStep, Zenon
    <3> QED BY <2>1, <3>3
  <2>4. CASE r.sleep = "awake"
    <3>1. PICK a \in Rec : a = [r EXCEPT !.en = {}] BY <1>1, SetEn, Zenon
    <3>2. PICK b \in Rec : b = [a EXCEPT !.on = FALSE] BY SetOn, Zenon
    <3>3. PICK c \in Rec : c = [b EXCEPT !.fifo = R!NoFrame] BY NoFrameIs, SetFifo, Zenon
    <3>4. PICK d \in Rec : d = [c EXCEPT !.acking = FALSE] BY SetAcking, Zenon
    <3>5. d = R!RxTxOff([r EXCEPT !.en = {}, !.on = FALSE])
      BY <3>1, <3>2, <3>3, <3>4 DEF R!RxTxOff, R!Flush
    <3>6. d = [r EXCEPT !.en = {}, !.on = FALSE, !.fifo = R!NoFrame, !.acking = FALSE]
      BY <3>1, <3>2, <3>3, <3>4
    <3>7. KeepsTx(r, d) /\ KeepsRx(r, d) BY <1>1, <3>6 DEF IsRec, KeepsTx, KeepsRx
    <3>8. /\ d.failed = r.failed /\ d.im = r.im /\ d.flags = r.flags
          /\ d.powDue = r.powDue /\ d.on = FALSE
      BY <1>1, <3>6 DEF IsRec
    <3>9. KeepsStop(r, d) BY <3>8 DEF KeepsStop
    <3>10. TxOK(d, rpc) BY <1>1, <3>7, <3>9, KeepsTxOK
    <3>11. d.rx = r.rx /\ d.ack = r.ack /\ d.tx = r.tx /\ d.owed = r.owed /\ ~d.isr
      BY <1>1, <3>7 DEF KeepsRx, KeepsTx
    <3>12. DueOK(d, rpc) BY <1>1, <3>8, <3>11, Zenon DEF DueOK
    <3>13. r' = R!HaltFinalStep(d)
      BY <1>5, <2>4, <3>5, <3>11 DEF R!MacLowLevelReset, R!HaltCleanup
    <3>14. /\ r' \in Rec /\ ~r'.failed /\ TxOK(r', rpc) /\ RxOK(r', rpc) /\ DueOK(r', rpc)
           /\ r'.owed = d.owed /\ (r'.tx = "none" <=> d.tx = "none")
           /\ r'.isr = d.isr /\ ~r'.reset /\ "fifop" \notin r'.flags
      BY <1>1, <3>8, <3>10, <3>12, <3>13, Halt
    <3>15. Owed(r') /\ ~r'.isr BY <2>1, <2>2, <3>11, <3>14 DEF Owed
    <3>16. RadioOK(r', rpc) BY <3>14, <3>15 DEF RadioOK, Sound, Ready
    <3> QED BY <2>1, <3>16
  <2> QED BY <2>3, <2>4
<1> QED BY <1>2, <1>4, <1>5 DEF R!Power

(* A step of the receive side or of the strobe processor that the task's   *)
(* call does not see                                                       *)
LEMMA UnseenStep ==
  ASSUME NEW x, NEW p, RadioOK(x, p), NEW y \in Rec, KeepsRx(x, y), y.failed = x.failed,
         y.owed = x.owed, y.tx = x.tx,
         TxOK(y, p), RxOK(y, p), DueOK(y, p), Ready(y)
  PROVE  RadioOK(y, p)
<1>1. ~x.failed /\ Owed(x) /\ ~x.isr /\ ~x.reset BY Opened
<1>2. ~y.isr /\ ~y.reset BY <1>1, Zenon DEF KeepsRx
<1>3. ~y.failed /\ Owed(y) BY <1>1 DEF Owed
<1> QED BY <1>2, <1>3 DEF RadioOK, Sound

LEMMA InterruptStep ==
  ASSUME RadioOK(r, rpc), R!Interrupt
  PROVE  RadioOK(r', rpc')
<1>1. CASE R!RfIsr
  <2>1. PICK fate \in R!Fate : r' = R!FifoPart(R!CspPart(r), fate)
    BY <1>1, Zenon DEF R!RfIsr
  <2>2. rpc' = rpc BY <1>1, Zenon DEF R!RfIsr
  <2>3. RadioOK(R!CspPart(r), rpc) BY CspHandled
  <2>4. RadioOK(R!FifoPart(R!CspPart(r), fate), rpc) BY <2>3, FifoHandled
  <2> QED BY <2>1, <2>2, <2>4, Zenon
<1>2. CASE R!RfIsrLoop
  <2>1. PICK fate \in R!Fate : r' = R!FifoPart(r, fate) BY <1>2, Zenon DEF R!RfIsrLoop
  <2>2. rpc' = rpc BY <1>2, Zenon DEF R!RfIsrLoop
  <2>3. RadioOK(R!FifoPart(r, fate), rpc) BY FifoHandled
  <2> QED BY <2>1, <2>2, <2>3, Zenon
<1>3. CASE R!FifoOverflow
  <2>1. /\ r \in Rec /\ ~r.failed /\ Owed(r) /\ TxOK(r, rpc) /\ DueOK(r, rpc) /\ ~r.isr
    BY Opened
  <2>2. r' = R!HaltFinalStep(r) /\ rpc' = rpc
    BY <1>3, <2>1 DEF R!FifoOverflow, R!HaltCleanup
  <2>3. /\ r' \in Rec /\ ~r'.failed /\ TxOK(r', rpc) /\ RxOK(r', rpc) /\ DueOK(r', rpc)
        /\ r'.owed = r.owed /\ (r'.tx = "none" <=> r.tx = "none")
        /\ r'.isr = r.isr /\ ~r'.reset /\ "fifop" \notin r'.flags
    BY <2>1, <2>2, Halt
  <2>4. Owed(r') /\ Ready(r') BY <2>1, <2>3 DEF Owed, Ready
  <2>5. RadioOK(r', rpc) BY <2>1, <2>3, <2>4 DEF RadioOK, Sound
  <2> QED BY <2>2, <2>5
<1> QED BY <1>1, <1>2, <1>3 DEF R!Interrupt

(* A program of the strobe processor that runs                             *)
LEMMA StrobeStep ==
  ASSUME RadioOK(r, rpc), R!Strobes
  PROVE  RadioOK(r', rpc')
<1>1. /\ r \in Rec /\ IsRec(r) /\ Owed(r) /\ TxOK(r, rpc) /\ RxOK(r, rpc)
      /\ DueOK(r, rpc) /\ Ready(r)
  BY Opened
<1>2. /\ r.csp \in {"csma", "air", "sfd", "timer"} /\ rpc' = rpc
  BY DEF R!Strobes, R!ClearChannel, R!FrameDelimiter, R!FrameSent, R!AckTimeout
<1>3. r.tx # "queued" /\ rpc \notin Starting /\ rpc # "decide" BY <1>1, <1>2 DEF TxOK, Loaded
<1>4. ASSUME NEW c \in {"none", "air", "sfd"}, NEW z \in {"busy", "done", "timeout"},
             NEW i \in {"stop", "int"}, NEW k \in {{}, {i}},
             r' = [r EXCEPT !.csp = c, !.cspz = z, !.flags = r.flags \cup k],
             r.csp = "timer" => c = "none" /\ z = r.cspz
      PROVE  RadioOK(r', rpc)
  <2>1. r.flags \cup k \in SUBSET {"stop", "int", "ackdone", "fifop"} BY <1>1 DEF Rec
  <2>2. r' \in Rec
    <3>1. PICK a \in Rec : a = [r EXCEPT !.csp = c] BY <1>1, SetCsp, Zenon
    <3>2. PICK b \in Rec : b = [a EXCEPT !.cspz = z] BY SetCspz, Zenon
    <3>3. r' = [b EXCEPT !.flags = r.flags \cup k] BY <1>4, <3>1, <3>2
    <3> QED BY <2>1, <3>3, SetFlags
  <2>3. KeepsRx(r, r') /\ KeepsRest(r, r') BY <1>1, <1>4 DEF IsRec, KeepsRx, KeepsRest
  <2>4. /\ r'.tx = r.tx /\ r'.retx = r.retx /\ r'.owed = r.owed /\ r'.im = r.im
        /\ r'.fifo = r.fifo /\ r'.acking = r.acking /\ r'.on = r.on /\ r'.powDue = r.powDue
        /\ r'.flags = r.flags \cup k /\ r'.csp = c /\ r'.cspz = z
    BY <1>1, <1>4 DEF IsRec
  <2>5. KeepsFifo(r, r') BY <2>4 DEF KeepsFifo
  <2>6. RxOK(r', rpc)
    <3>1. r'.rx = r.rx /\ r'.rxState = r.rxState /\ r'.ack = r.ack BY <2>3 DEF KeepsRx
    <3>2. r'.ack /\ rpc # "clear" => "ackdone" \in r'.im BY <1>1, <2>4, <3>1, Zenon DEF RxOK
    <3> QED BY <1>1, <2>5, <3>1, <3>2, KeepsRxOK
  <2>7. r.tx = "listen" => r.csp = "timer" /\ r.cspz = "timeout" BY <1>1, <1>2 DEF TxOK
  <2>8. TxOK(r', rpc)
    <3>1. r'.tx = "listen" => r'.cspz = "timeout" /\ r'.csp \in {"timer", "none"}
      BY <1>4, <2>4, <2>7
    <3> QED BY <1>1, <1>3, <2>4, <3>1, Zenon DEF TxOK
  <2>9. DueOK(r', rpc) BY <1>1, <2>3, <2>4, Zenon DEF DueOK, KeepsRx, KeepsRest
  <2>10. Ready(r') BY <1>1, <2>4 DEF Ready
  <2>11. r'.failed = r.failed BY <2>3 DEF KeepsRest
  <2> QED BY <2>2, <2>3, <2>4, <2>6, <2>8, <2>9, <2>10, <2>11, UnseenStep
<1>5. r = [r EXCEPT !.cspz = r.cspz] /\ r.cspz \in {"busy", "done", "timeout"}
  BY <1>1 DEF IsRec, Rec
<1>6. CASE R!ClearChannel
  <2>1. CASE r' = R!CspStops(r, "busy")
    <3>1. r' = [r EXCEPT !.csp = "none", !.cspz = "busy", !.flags = r.flags \cup {"stop"}]
      BY <1>1, <2>1 DEF R!CspStops, IsRec
    <3>2. r.csp # "timer" BY <1>6 DEF R!ClearChannel
    <3> QED BY <1>2, <1>4, <3>1, <3>2
  <2>2. CASE r' = [r EXCEPT !.csp = "air"]
    <3>1. r' = [r EXCEPT !.csp = "air", !.cspz = r.cspz, !.flags = r.flags \cup {}]
      BY <1>1, <2>2, Zenon DEF IsRec
    <3>2. r.csp # "timer" BY <1>6 DEF R!ClearChannel
    <3> QED BY <1>2, <1>4, <1>5, <3>1, <3>2, Zenon
  <2> QED BY <1>6, <2>1, <2>2 DEF R!ClearChannel
<1>7. CASE R!FrameDelimiter
  <2>1. r' = [r EXCEPT !.csp = "sfd", !.cspz = r.cspz, !.flags = r.flags \cup {"int"}]
    BY <1>1, <1>7, Zenon DEF R!FrameDelimiter, IsRec
  <2>2. r.csp # "timer" BY <1>7 DEF R!FrameDelimiter
  <2> QED BY <1>2, <1>4, <1>5, <2>1, <2>2, Zenon
<1>8. CASE R!FrameSent
  <2>1. r' = [r EXCEPT !.csp = "none", !.cspz = "done", !.flags = r.flags \cup {"stop"}]
    BY <1>1, <1>8 DEF R!FrameSent, R!CspStops, IsRec
  <2>2. r.csp # "timer" BY <1>8 DEF R!FrameSent
  <2> QED BY <1>2, <1>4, <2>1, <2>2
<1>9. CASE R!AckTimeout
  <2>1. r' = [r EXCEPT !.csp = "none", !.cspz = r.cspz, !.flags = r.flags \cup {"stop"}]
    BY <1>1, <1>9 DEF R!AckTimeout, R!CspStops, IsRec
  <2> QED BY <1>2, <1>4, <1>5, <2>1, Zenon
<1> QED BY <1>6, <1>7, <1>8, <1>9 DEF R!Strobes

(* What the radio does to the FIFO: a step that changes the frame, the     *)
(* flags of the FIFO and of the ACK's end, and whether an ACK is sent      *)
LEMMA AirStep ==
  ASSUME RadioOK(r, rpc), NEW f \in Frames, NEW flags \in SUBSET {"fifop", "ackdone"},
         NEW a \in BOOLEAN,
         r' = [r EXCEPT !.fifo = f, !.flags = r.flags \cup flags, !.acking = a],
         "fifop" \in flags => r.on, f.got <= Len(f.rest),
         "fifop" \in r.flags \cup flags => f.got > 0,
         IF r.rxState = "start" THEN Unread(f) ELSE f.rest = r.fifo.rest,
         r.rxState # "start" => f.ar = r.fifo.ar,
         r.acking => a \/ "ackdone" \in flags,
         a => ~R!Arriving(f),
         Whole(f) => a \/ (r.rxState # "start" /\ "ackdone" \in r.flags \cup flags)
  PROVE  RadioOK(r', rpc)
<1>1. /\ r \in Rec /\ IsRec(r) /\ Owed(r) /\ TxOK(r, rpc) /\ RxOK(r, rpc) /\ DueOK(r, rpc)
  BY Opened
<1>2. r' \in Rec
  <2>1. r.flags \cup flags \in SUBSET {"stop", "int", "ackdone", "fifop"} BY <1>1 DEF Rec
  <2>2. PICK b \in Rec : b = [r EXCEPT !.fifo = f] BY <1>1, SetFifo, Zenon
  <2>3. PICK c \in Rec : c = [b EXCEPT !.flags = r.flags \cup flags] BY <2>1, SetFlags, Zenon
  <2>4. r' = [c EXCEPT !.acking = a] BY <2>2, <2>3
  <2>5. [c EXCEPT !.acking = a] \in Rec BY SetAcking, Zenon
  <2> QED BY <2>4, <2>5, Zenon
<1>3. KeepsRx(r, r') /\ KeepsTx(r, r') /\ KeepsRest(r, r')
  BY <1>1 DEF IsRec, KeepsRx, KeepsTx, KeepsRest
<1>4. /\ r'.fifo = f /\ r'.flags = r.flags \cup flags /\ r'.acking = a /\ r'.im = r.im
      /\ r'.on = r.on /\ r'.powDue = r.powDue
  BY <1>1 DEF IsRec
<1>5. KeepsStop(r, r') BY <1>4 DEF KeepsStop
<1>6. TxOK(r', rpc) BY <1>1, <1>3, <1>5, KeepsTxOK
<1>7. DueOK(r', rpc) BY <1>1, <1>3, <1>4, Zenon DEF DueOK, KeepsRx, KeepsTx, KeepsRest
<1>8. r'.rx = r.rx /\ r'.rxState = r.rxState /\ r'.ack = r.ack BY <1>3 DEF KeepsRx
<1>9. RxOK(r', rpc)
  <2>1. IF r'.rxState = "start" THEN Unread(r'.fifo)
        ELSE Data(r'.fifo.rest) /\ r'.rxState \in {"discard", r'.fifo.rest[1]}
    BY <1>1, <1>4, <1>8 DEF RxOK
  <2>2. "fifop" \in r'.flags => r'.on BY <1>1, <1>4 DEF RxOK
  <2>3. /\ r'.ack /\ rpc # "clear" => "ackdone" \in r'.im
        /\ r'.ack /\ r'.rx = "none" => r'.acking \/ "ackdone" \in r'.flags
    BY <1>1, <1>4, <1>8 DEF RxOK
  <2>4. r'.ack /\ r'.rx # "none" => r'.fifo.ar /\ r'.rxState # "discard"
    BY <1>1, <1>4, <1>8 DEF RxOK
  <2>5. r'.fifo.got <= Len(r'.fifo.rest) /\ (r'.acking => ~R!Arriving(r'.fifo))
    BY <1>4
  <2>6. Whole(r'.fifo) => r'.acking \/ (r'.rxState # "start" /\ "ackdone" \in r'.flags)
    BY <1>4, <1>8
  <2>7. r'.rx \in {"none", "started"} /\ (r'.rxState = "start" <=> r'.rx = "none")
    BY <1>1, <1>8 DEF RxOK
  <2> QED BY <2>1, <2>2, <2>3, <2>4, <2>5, <2>6, <2>7 DEF RxOK
<1>10. Ready(r') BY <1>4 DEF Ready
<1>11. r'.failed = r.failed /\ r'.owed = r.owed /\ r'.tx = r.tx
  BY <1>3 DEF KeepsRest, KeepsTx
<1> QED BY <1>2, <1>3, <1>6, <1>7, <1>9, <1>10, <1>11, UnseenStep, Zenon

LEMMA FrameStartsStep ==
  ASSUME RadioOK(r, rpc), R!FrameStarts
  PROVE  RadioOK(r', rpc')
<1>1. /\ r \in Rec /\ IsRec(r) /\ RxOK(r, rpc) /\ Ready(r) BY Opened
<1>2. PICK f \in R!AckFrames \cup R!DataFrames : r' = [r EXCEPT !.fifo = f]
  BY DEF R!FrameStarts
<1>3. r.fifo = R!NoFrame /\ ~r.acking /\ rpc' = rpc BY DEF R!FrameStarts
<1>4. r.rxState = "start"
  <2>1. ~Data(R!NoFrame.rest) BY NoFrameIs DEF Data
  <2> QED BY <1>1, <1>3, <2>1 DEF RxOK
<1>5. "fifop" \notin r.flags BY <1>1, <1>3, NoFrameIs DEF Ready
<1>6. f \in Frames /\ Unread(f) /\ f.got = 0 /\ R!Arriving(f) /\ f.got <= Len(f.rest)
  <2>1. CASE f \in R!AckFrames
    <3>1. /\ f.ack = TRUE /\ f.ar = FALSE /\ f.crc \in BOOLEAN /\ f.rest = <<"hdr">>
          /\ f.got = 0
          /\ f = [ack |-> f.ack, ar |-> f.ar, crc |-> f.crc, rest |-> f.rest, got |-> f.got]
      BY <2>1, Zenon DEF R!AckFrames
    <3>2. <<"hdr">> \in Seq({"hdr", "addr", "body", "fcs"}) /\ Len(<<"hdr">>) = 1 OBVIOUS
    <3>3. /\ f.ack \in BOOLEAN /\ f.ar \in BOOLEAN /\ f.got \in Nat
          /\ f.rest \in Seq({"hdr", "addr", "body", "fcs"})
      <4>1. f.ack \in BOOLEAN /\ f.ar \in BOOLEAN BY <3>1, Zenon
      <4>2. f.got \in Nat BY <3>1
      <4> QED BY <3>1, <3>2, <4>1, <4>2, Zenon
    <3>4. f \in Frames BY <3>1, <3>3, Zenon DEF Frames
    <3> QED BY <3>1, <3>2, <3>4 DEF Unread, R!Arriving
  <2>2. CASE f \in R!DataFrames
    <3>1. PICK s \in Shape : f.rest = <<"hdr">> \o s BY <2>2 DEF R!DataFrames
    <3>2. /\ f.ack = FALSE /\ f.ar \in BOOLEAN /\ f.crc \in BOOLEAN /\ f.got = 0
          /\ f = [ack |-> f.ack, ar |-> f.ar, crc |-> f.crc, rest |-> f.rest, got |-> f.got]
      BY <2>2, Zenon DEF R!DataFrames
    <3>3. Data(s) BY PlatformAssumption DEF R!RadioAssumption, Data
    <3>4. s \in Seq({"hdr", "addr", "body", "fcs"}) /\ Len(s) \in Nat BY <3>3, DataHead
    <3>5. /\ <<"hdr">> \o s \in Seq({"hdr", "addr", "body", "fcs"})
          /\ Len(<<"hdr">> \o s) = 1 + Len(s)
      BY <3>4
    <3>6. f \in Frames
      <4>1. f.ack \in BOOLEAN BY <3>2, Zenon
      <4>2. f.got \in Nat BY <3>2
      <4>3. f.rest \in Seq({"hdr", "addr", "body", "fcs"}) BY <3>1, <3>5
      <4> QED BY <3>2, <4>1, <4>2, <4>3, Zenon DEF Frames
    <3>7. Len(f.rest) > 0 /\ 0 <= Len(f.rest) BY <3>1, <3>4, <3>5
    <3>8. Unread(f) BY <3>1, <3>2, <3>3 DEF Unread
    <3> QED BY <3>2, <3>6, <3>7, <3>8 DEF R!Arriving
  <2> QED BY <2>1, <2>2
<1>7. ~Whole(f) BY <1>6 DEF Whole
<1>8. PICK a \in BOOLEAN : a = r.acking BY <1>1 DEF Rec
<1>9. PICK k \in SUBSET {"fifop", "ackdone"} : k = {} BY Zenon
<1>10. RadioOK(r', rpc)
  <2>1. r' = [r EXCEPT !.fifo = f, !.flags = r.flags \cup k, !.acking = a]
    BY <1>1, <1>2, <1>8, <1>9, Zenon DEF IsRec
  <2>2. "fifop" \notin r.flags \cup k /\ "fifop" \notin k BY <1>5, <1>9
  <2>3. ~a BY <1>3, <1>8
  <2> QED BY <1>3, <1>4, <1>6, <1>7, <2>1, <2>2, <2>3, AirStep, Zenon
<1> QED BY <1>3, <1>10

LEMMA BytesArriveStep ==
  ASSUME RadioOK(r, rpc), R!BytesArrive
  PROVE  RadioOK(r', rpc')
<1>1. /\ r \in Rec /\ IsRec(r) /\ RxOK(r, rpc) /\ Ready(r) BY Opened
<1>2. r.on /\ R!Arriving(r.fifo) /\ rpc' = rpc BY DEF R!BytesArrive
<1>3. PICK f : f = [r.fifo EXCEPT !.got = @ + 1] BY Zenon
<1>4. PICK a : a = (f.ar /\ f.crc /\ ~R!Arriving(f)) OBVIOUS
<1>5. r' = [r EXCEPT !.fifo = f, !.flags = r.flags \cup {"fifop"}, !.acking = a]
  BY <1>1, <1>3, <1>4 DEF R!BytesArrive, IsRec
<1>6. r.fifo \in Frames BY <1>1 DEF Rec
<1>7. /\ f \in Frames /\ f.got = r.fifo.got + 1 /\ f.rest = r.fifo.rest /\ f.ar = r.fifo.ar
      /\ f.crc = r.fifo.crc /\ f.ack = r.fifo.ack
  BY <1>3, <1>6 DEF Frames
<1>8. r.fifo.got \in Nat /\ Len(f.rest) \in Nat BY <1>6, <1>7 DEF Frames
<1>9. f.got <= Len(f.rest) /\ f.got > 0 BY <1>2, <1>7, <1>8 DEF R!Arriving
<1>10. a \in BOOLEAN
  <2>1. f.ar \in BOOLEAN /\ f.crc \in BOOLEAN BY <1>7 DEF Frames
  <2> QED BY <1>4, <2>1
<1>11. (a => ~R!Arriving(f)) /\ (Whole(f) => a) BY <1>4, Zenon DEF Whole
<1>12. ~r.acking BY <1>1, <1>2 DEF RxOK
<1>13. r.rxState = "start" => Unread(f) BY <1>1, <1>7, Zenon DEF RxOK, Unread
<1>14. RadioOK(r', rpc)
  BY <1>2, <1>5, <1>7, <1>9, <1>10, <1>11, <1>12, <1>13, AirStep, Zenon
<1> QED BY <1>2, <1>14

LEMMA AckSentStep ==
  ASSUME ~SlowIsr, RadioOK(r, rpc), R!AckSent
  PROVE  RadioOK(r', rpc')
<1>1. /\ r \in Rec /\ IsRec(r) /\ RxOK(r, rpc) /\ Ready(r) BY Opened
<1>2. /\ r.acking /\ rpc' = rpc
      /\ r.rxState # "start" \/ r.fifo = R!NoFrame
  BY DEF R!AckSent
<1>3. r' = [r EXCEPT !.fifo = r.fifo, !.flags = r.flags \cup {"ackdone"}, !.acking = FALSE]
  BY <1>1, Zenon DEF R!AckSent, IsRec
<1>4. r.fifo \in Frames /\ r.fifo.got <= Len(r.fifo.rest) BY <1>1 DEF Rec, RxOK
<1>5. Whole(r.fifo) => r.rxState # "start" BY <1>2, NoFrameIs
<1>6. r.rxState = "start" => Unread(r.fifo) BY <1>1 DEF RxOK
<1>7. "fifop" \in r.flags \cup {"ackdone"} => r.fifo.got > 0 BY <1>1 DEF Ready
<1>8. RadioOK(r', rpc)
  <2>1. PICK k \in SUBSET {"fifop", "ackdone"} : k = {"ackdone"} BY Zenon
  <2>2. PICK a \in BOOLEAN : a = FALSE BY Zenon
  <2>3. r' = [r EXCEPT !.fifo = r.fifo, !.flags = r.flags \cup k, !.acking = a]
    BY <1>3, <2>1, <2>2, Zenon
  <2>4. "fifop" \notin k /\ "ackdone" \in k /\ ("fifop" \in r.flags \cup k => r.fifo.got > 0)
    BY <1>7, <2>1
  <2> QED BY <1>4, <1>5, <1>6, <2>2, <2>3, <2>4, AirStep, Zenon
<1> QED BY <1>2, <1>8

LEMMA RadioInit == ASSUME R!Init PROVE RadioOK(r, rpc)
<1>1. r.fifo = R!NoFrame /\ rpc = "idle" BY DEF R!Init
<1>2. /\ r.tx = "none" /\ r.rx = "none" /\ r.ack = FALSE /\ r.rxState = "start"
      /\ r.isr = FALSE /\ r.reset = FALSE /\ r.on = FALSE /\ r.powDue = FALSE /\ r.csp = "none"
      /\ r.im = {} /\ r.flags = {} /\ r.acking = FALSE /\ r.owed = FALSE /\ r.failed = FALSE
      /\ r.retx = FALSE
  BY DEF R!Init
<1>3. r \in Rec BY NoFrameIs DEF R!Init, Rec
<1>4. TxOK(r, rpc) BY <1>1, <1>2 DEF TxOK, Starting
<1>5. RxOK(r, rpc) BY <1>1, <1>2, FlushedRxOK
<1>6. DueOK(r, rpc) BY <1>2 DEF DueOK
<1> QED BY <1>2, <1>3, <1>4, <1>5, <1>6 DEF RadioOK, Sound, Owed, Ready

LEMMA RadioNext ==
  ASSUME ~SlowIsr, ~ResetAnytime, RadioOK(r, rpc), [R!Next]_(R!vars)
  PROVE  RadioOK(r', rpc')
<1>1. CASE R!Transmit
  BY <1>1, TxFrameStep, TxPrepareStep, TxDecideStep, TxGoStep DEF R!Transmit
<1>2. CASE R!Receiver BY <1>2, RxEnableStep, RxDisableStep DEF R!Receiver
<1>3. CASE R!Settings BY <1>3, SetChannelStep, SetPowerStep DEF R!Settings
<1>4. CASE R!Power BY <1>4, PowerStep
<1>5. CASE R!Interrupt BY <1>5, InterruptStep
<1>6. CASE R!Strobes BY <1>6, StrobeStep
<1>7. CASE R!FrameStarts BY <1>7, FrameStartsStep
<1>8. CASE R!BytesArrive BY <1>8, BytesArriveStep
<1>9. CASE R!AckSent BY <1>9, AckSentStep
<1>10. CASE UNCHANGED R!vars
  <2>1. r' = r /\ rpc' = rpc BY <1>10 DEF R!vars
  <2> QED BY <2>1
<1> QED
  BY <1>1, <1>2, <1>3, <1>4, <1>5, <1>6, <1>7, <1>8, <1>9, <1>10 DEF R!Next

(* No MAC_ASSERT of the low-level MAC fires, whatever the frames, the      *)
(* interrupts and the calls, as long as the automatic ACK outlasts the     *)
(* interrupt's latency and no reset falls into a transmit.                 *)
THEOREM RadioAssertsHold ==
  ASSUME ~SlowIsr, ~ResetAnytime PROVE R!Spec => []AssertsHold
<1>1. R!Init => RadioOK(r, rpc) BY RadioInit
<1>2. RadioOK(r, rpc) /\ [R!Next]_(R!vars) => RadioOK(r, rpc)' BY RadioNext
<1>3. RadioOK(r, rpc) => AssertsHold BY Opened DEF AssertsHold, R!AssertsHold
<1> QED BY <1>1, <1>2, <1>3, PTL DEF R!Spec

(* Under the same conditions nothing that had to wait is forgotten.        *)
THEOREM RadioForgetsNothing ==
  ASSUME ~SlowIsr, ~ResetAnytime PROVE R!Spec => []NothingForgotten
<1>1. R!Init => RadioOK(r, rpc) BY RadioInit
<1>2. RadioOK(r, rpc) /\ [R!Next]_(R!vars) => RadioOK(r, rpc)' BY RadioNext
<1>3. RadioOK(r, rpc) => NothingForgotten
  <2> SUFFICES ASSUME RadioOK(r, rpc) PROVE NothingForgotten OBVIOUS
  <2>1. TxOK(r, rpc) /\ RxOK(r, rpc) /\ DueOK(r, rpc) BY Opened
  <2>2. R!QueuedHasCause BY <2>1 DEF R!QueuedHasCause, DueOK
  <2>3. R!SettledWhenIdle BY <2>1 DEF R!SettledWhenIdle, DueOK, TxOK, R!TxPhysical
  <2>4. R!AckAwaited BY <2>1 DEF R!AckAwaited, RxOK
  <2> QED BY <2>2, <2>3, <2>4 DEF NothingForgotten, R!NothingForgotten
<1> QED BY <1>1, <1>2, <1>3, PTL DEF R!Spec

-----------------------------------------------------------------------------
(* The receiver of the serial line                                         *)

LEMMA RxConstants ==
  /\ RX_MAX \in Nat /\ RX_MAX > 1 /\ HIGH \in Nat /\ HIGH > 0 /\ READ_MAX \in Nat
  /\ MaxGap \in Nat /\ LastByte \in Nat
  /\ LastByte >= RX_MAX
<1>1. /\ {RX_MAX, HIGH, IDLE, ST0_MOD, READ_MAX, MaxGap, LastByte} \subseteq Nat \ {0}
      /\ HIGH < RX_MAX /\ LastByte >= RX_MAX
  BY PlatformAssumption DEF Rx!UartRxAssumption
<1> QED BY <1>1

(* The ring as a circle: going on by n from i                              *)
LEMMA AfterIs ==
  ASSUME NEW i \in Rx!Index, NEW n \in 0..RX_MAX
  PROVE  Rx!After(i, n) = IF i + n < RX_MAX THEN i + n ELSE (i + n) - RX_MAX
<1>1. RX_MAX \in Nat \ {0} /\ i + n \in Nat /\ i + n < RX_MAX + RX_MAX
  BY RxConstants DEF Rx!Index
<1> QED BY <1>1, ModTwice, Zenon DEF Rx!After

LEMMA AfterIndex ==
  ASSUME NEW i \in Rx!Index, NEW n \in 0..RX_MAX
  PROVE  Rx!After(i, n) \in Rx!Index
BY AfterIs, RxConstants DEF Rx!Index

LEMMA AfterOnce ==
  ASSUME NEW i \in Rx!Index, NEW m \in 0..RX_MAX - 1, NEW n \in 0..RX_MAX - 1,
         Rx!After(i, m) = Rx!After(i, n)
  PROVE  m = n
<1>1. m \in 0..RX_MAX /\ n \in 0..RX_MAX
  BY RxConstants
<1> QED BY <1>1, AfterIs, RxConstants DEF Rx!Index

LEMMA AfterAll ==
  ASSUME NEW i \in Rx!Index, NEW j \in Rx!Index
  PROVE  \E n \in 0..RX_MAX - 1 : Rx!After(i, n) = j
<1> DEFINE n == IF j >= i THEN j - i ELSE j + RX_MAX - i
<1>1. n \in 0..RX_MAX - 1 /\ n \in 0..RX_MAX
  BY RxConstants DEF Rx!Index
<1>2. Rx!After(i, n) = j
  BY <1>1, AfterIs, RxConstants DEF Rx!Index
<1> QED BY <1>1, <1>2

LEMMA AfterNext ==
  ASSUME NEW i \in Rx!Index, NEW n \in 0..RX_MAX - 1
  PROVE  /\ Rx!After(Rx!After(i, 1), n) = Rx!After(i, n + 1)
         /\ Rx!After(Rx!After(i, n), 1) = Rx!After(i, n + 1)
<1>1. 1 \in 0..RX_MAX /\ n \in 0..RX_MAX /\ n + 1 \in 0..RX_MAX
  BY RxConstants
<1>2. Rx!After(i, 1) \in Rx!Index /\ Rx!After(i, n) \in Rx!Index
  BY <1>1, AfterIndex
<1>3. /\ Rx!After(i, 1) = IF i + 1 < RX_MAX THEN i + 1 ELSE (i + 1) - RX_MAX
      /\ Rx!After(i, n) = IF i + n < RX_MAX THEN i + n ELSE (i + n) - RX_MAX
      /\ Rx!After(i, n + 1) = IF i + (n + 1) < RX_MAX THEN i + (n + 1) ELSE (i + (n + 1)) - RX_MAX
  BY <1>1, AfterIs
<1>4. \A k \in Rx!Index, m \in 0..RX_MAX :
        Rx!After(k, m) = IF k + m < RX_MAX THEN k + m ELSE (k + m) - RX_MAX
  BY AfterIs
<1>5. /\ Rx!After(Rx!After(i, 1), n) = IF Rx!After(i, 1) + n < RX_MAX
                                       THEN Rx!After(i, 1) + n ELSE (Rx!After(i, 1) + n) - RX_MAX
      /\ Rx!After(Rx!After(i, n), 1) = IF Rx!After(i, n) + 1 < RX_MAX
                                       THEN Rx!After(i, n) + 1 ELSE (Rx!After(i, n) + 1) - RX_MAX
  BY <1>1, <1>2, <1>4
<1> QED BY <1>1, <1>2, <1>3, <1>5, RxConstants DEF Rx!Index

LEMMA AfterFacts ==
  ASSUME NEW i \in Rx!Index
  PROVE  Rx!After(i, 0) = i /\ Rx!After(i, RX_MAX) = i
<1>1. 0 \in 0..RX_MAX /\ RX_MAX \in 0..RX_MAX
  BY RxConstants
<1> QED BY <1>1, AfterIs, RxConstants DEF Rx!Index

(* A ring that holds n bytes from head on, and nothing else                *)
Holds(buf, head, n) ==
  \A m \in 0..RX_MAX - 1 : buf[Rx!After(head, m)] # Rx!None <=> m < n

RunOf(buf, head) ==
  Rx!Min({n \in 0..RX_MAX : n = RX_MAX \/ buf[Rx!After(head, n)] = Rx!None})

QueueOf(buf, head, n) == [m \in 1..n |-> buf[Rx!After(head, m - 1)]]

LEMMA RunIs ==
  ASSUME NEW buf, NEW head, NEW n \in 0..RX_MAX, Holds(buf, head, n)
  PROVE  RunOf(buf, head) = n
<1> DEFINE W == {k \in 0..RX_MAX : k = RX_MAX \/ buf[Rx!After(head, k)] = Rx!None}
<1>1. n \in W
  <2>1. CASE n = RX_MAX
    BY <2>1
  <2>2. CASE n # RX_MAX
    <3>1. n \in 0..RX_MAX - 1 /\ ~(n < n)
      BY <2>2, RxConstants
    <3> QED BY <3>1 DEF Holds
  <2> QED BY <2>1, <2>2
<1>2. \A k \in W : n <= k
  <2>1. SUFFICES ASSUME NEW k \in W, k < n PROVE FALSE
    BY RxConstants
  <2>2. k \in 0..RX_MAX - 1 /\ k # RX_MAX
    BY <2>1, RxConstants
  <2> QED BY <2>1, <2>2 DEF Holds
<1>3. W \subseteq Nat
  BY RxConstants
<1> HIDE DEF W
<1>4. \A k \in W : (\A l \in W : k <= l) => k = n
  BY <1>1, <1>2, <1>3
<1>5. Rx!Min(W) = CHOOSE x \in W : \A y \in W : x <= y
  BY DEF Rx!Min
<1>6. Rx!Min(W) = n
  BY <1>1, <1>2, <1>4, <1>5, Zenon
<1> QED BY <1>6 DEF RunOf, W

(* The same of the program's operators, now and after a step               *)
LEMMA RunUnfolds ==
  Rx!Run = RunOf(rxBuf, rxHead) /\ Rx!Run' = RunOf(rxBuf', rxHead')
BY Zenon DEF Rx!Run, RunOf, Rx!New, Rx!After

LEMMA QueueUnfolds ==
  /\ Rx!queue = [m \in 1..Rx!Run |-> rxBuf[Rx!After(rxHead, m - 1)]]
  /\ Rx!queue' = [m \in 1..Rx!Run' |-> rxBuf'[Rx!After(rxHead', m - 1)]]
BY Zenon DEF Rx!queue, Rx!After

LEMMA QueueIs ==
  /\ \A n \in 0..RX_MAX : Holds(rxBuf, rxHead, n) => Rx!queue = QueueOf(rxBuf, rxHead, n)
  /\ \A n \in 0..RX_MAX : Holds(rxBuf', rxHead', n) => Rx!queue' = QueueOf(rxBuf', rxHead', n)
<1>1. \A n \in 0..RX_MAX : Holds(rxBuf, rxHead, n) => Rx!Run = n
  BY RunUnfolds, RunIs
<1>2. \A n \in 0..RX_MAX : Holds(rxBuf', rxHead', n) => Rx!Run' = n
  BY RunUnfolds, RunIs
<1> QED BY <1>1, <1>2, QueueUnfolds DEF QueueOf

(* So many bytes are counted as there are.                                 *)
LEMMA AvailIs ==
  ASSUME NEW buf, NEW head \in Rx!Index, NEW n \in 0..RX_MAX, Holds(buf, head, n)
  PROVE  Cardinality({i \in Rx!Index : buf[i] # Rx!None}) = n
<1> DEFINE W == {i \in Rx!Index : buf[i] # Rx!None}
           f == [m \in 1..n |-> Rx!After(head, m - 1)]
<1>1. \A m \in 1..n : m - 1 \in 0..RX_MAX - 1 /\ m - 1 < n /\ m - 1 \in 0..RX_MAX
  BY RxConstants
<1>2. f \in [1..n -> W]
  BY <1>1, AfterIndex DEF Holds
<1>3. \A k, m \in 1..n : f[k] = f[m] => k = m
  <2>1. SUFFICES ASSUME NEW k \in 1..n, NEW m \in 1..n, f[k] = f[m] PROVE k = m
    OBVIOUS
  <2>2. Rx!After(head, k - 1) = Rx!After(head, m - 1)
    BY <2>1
  <2>3. k - 1 = m - 1
    BY <1>1, <2>2, AfterOnce
  <2> QED BY <2>3
<1>4. \A i \in W : \E m \in 1..n : f[m] = i
  <2>1. SUFFICES ASSUME NEW i \in W PROVE \E m \in 1..n : f[m] = i
    OBVIOUS
  <2>2. PICK k \in 0..RX_MAX - 1 : Rx!After(head, k) = i
    BY AfterAll
  <2>3. k < n
    BY <2>2 DEF Holds
  <2>4. k + 1 \in 1..n /\ (k + 1) - 1 = k
    BY <2>3, RxConstants
  <2> QED BY <2>2, <2>4
<1>5. f \in Bijection(1..n, W)
  BY <1>2, <1>3, <1>4, Zenon DEF Bijection, Injection, Surjection, IsInjective
<1>6. ExistsBijection(1..n, W)
  BY <1>5 DEF ExistsBijection
<1> HIDE DEF W, f
<1>7. Cardinality(W) = n
  BY <1>6, FS_CountingElements, RxConstants
<1> QED BY <1>7 DEF W

(* Bytes of the ring as a sequence                                         *)
LEMMA QueueSeq ==
  ASSUME NEW buf \in [Rx!Index -> Rx!Byte \cup {Rx!None}], NEW head \in Rx!Index,
         NEW n \in 0..RX_MAX, Holds(buf, head, n)
  PROVE  QueueOf(buf, head, n) \in Seq(Rx!Byte) /\ Len(QueueOf(buf, head, n)) = n
<1>1. \A m \in 1..n : buf[Rx!After(head, m - 1)] \in Rx!Byte
  <2>1. SUFFICES ASSUME NEW m \in 1..n PROVE buf[Rx!After(head, m - 1)] \in Rx!Byte
    OBVIOUS
  <2>2. m - 1 \in 0..RX_MAX - 1 /\ m - 1 \in 0..RX_MAX /\ m - 1 < n
    BY RxConstants
  <2>3. buf[Rx!After(head, m - 1)] # Rx!None
    BY <2>2 DEF Holds
  <2>4. Rx!After(head, m - 1) \in Rx!Index
    BY <2>2, AfterIndex
  <2> QED BY <2>3, <2>4
<1>2. n \in Nat
  BY RxConstants
<1>3. QueueOf(buf, head, n) \in [1..n -> Rx!Byte]
  BY <1>1 DEF QueueOf
<1> QED BY <1>2, <1>3, SMT

-----------------------------------------------------------------------------

(* What may still come before the next poll                                *)
Coming == (MaxGap - gap) + (IF due THEN 1 ELSE 0)

(* There is room for that, and for what comes until the poll after it.     *)
Enough(n) ==
  /\ rxpc = "idle" => n + Coming <= HIGH + MaxGap
  /\ rxpc = "timed" => n + Coming <= (HIGH + MaxGap) + MaxGap
  /\ rxpc = "callback" => (n + Coming) + READ_MAX <= ((HIGH + MaxGap) + MaxGap) + room

RxTypes ==
  /\ rxpc \in {"idle", "timed", "callback"}
  /\ rxBuf \in [Rx!Index -> Rx!Byte \cup {Rx!None}]
  /\ rxHead \in Rx!Index /\ dest \in Rx!Index /\ next \in Rx!Byte
  /\ gap \in 0..MaxGap /\ due \in BOOLEAN /\ room \in 0..READ_MAX

RingIs(n) ==
  Holds(rxBuf, rxHead, n) /\ dest = Rx!After(rxHead, n) /\ Enough(n)

RxInv == RxTypes /\ \E n \in 0..RX_MAX : RingIs(n)

(* The ring holds what is reported at once and what comes in the time of   *)
(* two polls, and the call-back reads at least what comes in one.          *)
PollsInTime == (HIGH + MaxGap) + MaxGap <= RX_MAX /\ MaxGap <= READ_MAX

RxStutters == RxInv' /\ Rx!queue' = Rx!queue

(* A step that leaves ring and channel alone                               *)
LEMMA RingSame ==
  ASSUME RxTypes, RxTypes', NEW n \in 0..RX_MAX, RingIs(n), Enough(n)',
         UNCHANGED <<rxBuf, rxHead, dest>>
  PROVE  RxStutters
<1>1. RingIs(n)'
  BY Zenon DEF RingIs
<1>2. Rx!queue' = Rx!queue
  BY Zenon, QueueUnfolds, RunUnfolds
<1> QED BY <1>1, <1>2 DEF RxStutters, RxInv

LEMMA HeadNew ==
  ASSUME RxTypes, NEW n \in 0..RX_MAX, RingIs(n)
  PROVE  Rx!New(rxHead) <=> n > 0
<1>1. 0 \in 0..RX_MAX - 1 /\ rxHead = Rx!After(rxHead, 0)
  BY RxConstants, AfterFacts DEF RxTypes
<1>2. rxBuf[Rx!After(rxHead, 0)] # Rx!None <=> 0 < n
  BY <1>1 DEF RingIs, Holds
<1> QED BY <1>1, <1>2, RxConstants DEF Rx!New

LEMMA PollTimeStep == ASSUME RxInv, PollsInTime, Rx!PollTime PROVE RxStutters
<1>1. PICK n \in 0..RX_MAX : RingIs(n)
  BY DEF RxInv
<1>2. /\ rxpc = "idle" /\ gap' = 0
      /\ UNCHANGED <<rxBuf, rxHead, room, dest, next, due>>
  BY DEF Rx!PollTime
<1>3. \/ n > 0 /\ rxpc' = "timed"
      \/ n = 0 /\ rxpc' = "idle"
  <2>1. Rx!New(rxHead) <=> n > 0
    BY <1>1, HeadNew DEF RxInv
  <2> QED BY <1>1, <1>2, <2>1, RxConstants DEF Rx!PollTime
<1>4. RxTypes'
  BY <1>2, <1>3, RxConstants DEF RxInv, RxTypes
<1>5. Enough(n)'
  BY <1>1, <1>2, <1>3, RxConstants DEF RxInv, RxTypes, RingIs, Enough, Coming
<1> QED BY <1>1, <1>2, <1>4, <1>5, RingSame DEF RxInv

LEMMA PollReportStep == ASSUME RxInv, PollsInTime, Rx!PollReport PROVE RxStutters
<1>1. PICK n \in 0..RX_MAX : RingIs(n)
  BY DEF RxInv
<1>2. rxpc = "timed" /\ UNCHANGED <<rxBuf, rxHead, dest, next, gap, due>>
  BY DEF Rx!PollReport
<1>3. \/ rxpc' = "callback" /\ room' = READ_MAX
      \/ rxpc' = "idle" /\ room' = room /\ n < HIGH
  <2>1. Rx!RxAvail = Rx!Cardinality({i \in Rx!Index : rxBuf[i] # Rx!None})
    BY Zenon DEF Rx!RxAvail, Rx!New
  <2>2. Rx!RxAvail = n
    BY <1>1, <2>1, AvailIs, Zenon DEF RxInv, RxTypes, RingIs, Rx!Cardinality, Cardinality
  <2> QED BY <1>2, <2>2, RxConstants DEF Rx!PollReport, Rx!Reports
<1>4. RxTypes'
  BY <1>2, <1>3, RxConstants DEF RxInv, RxTypes
<1>5. Enough(n)'
  BY <1>1, <1>2, <1>3, RxConstants DEF RxInv, RxTypes, RingIs, Enough, Coming
<1> QED BY <1>1, <1>2, <1>4, <1>5, RingSame DEF RxInv

LEMMA ReadDoneStep == ASSUME RxInv, PollsInTime, Rx!ReadDone PROVE RxStutters
<1>1. PICK n \in 0..RX_MAX : RingIs(n)
  BY DEF RxInv
<1>2. /\ rxpc = "callback" /\ rxpc' = "idle" /\ room' = 0
      /\ UNCHANGED <<rxBuf, rxHead, dest, next, gap, due>>
  BY DEF Rx!ReadDone
<1>3. room = 0 \/ n = 0
  <2>1. Rx!New(rxHead) <=> n > 0
    BY <1>1, HeadNew DEF RxInv
  <2> QED BY <2>1, RxConstants DEF Rx!ReadDone
<1>4. RxTypes'
  BY <1>2, RxConstants DEF RxInv, RxTypes
<1>5. Enough(n)'
  BY <1>1, <1>2, <1>3, RxConstants DEF RxInv, RxTypes, RingIs, Enough, Coming, PollsInTime
<1> QED BY <1>1, <1>2, <1>4, <1>5, RingSame DEF RxInv

LEMMA TickStep == ASSUME RxInv, Rx!Tick PROVE RxStutters
<1>1. PICK n \in 0..RX_MAX : RingIs(n)
  BY DEF RxInv
<1>2. /\ gap < MaxGap /\ gap' = gap + 1 /\ due'
      /\ UNCHANGED <<rxpc, rxBuf, rxHead, room, dest, next>>
  BY DEF Rx!Tick
<1>3. due' = TRUE
  BY DEF Rx!Tick
<1>4. RxTypes'
  BY <1>2, <1>3, RxConstants DEF RxInv, RxTypes
<1>5. Enough(n)'
  BY <1>1, <1>2, RxConstants DEF RxInv, RxTypes, RingIs, Enough, Coming
<1> QED BY <1>1, <1>2, <1>4, <1>5, RingSame DEF RxInv

LEMMA TailIs ==
  ASSUME NEW W, NEW s \in Seq(W), Len(s) > 0
  PROVE  s # <<>> /\ Tail(s) = [m \in 1..Len(s) - 1 |-> s[m + 1]]
<1>1. s # <<>>
  OBVIOUS
<1>2. /\ Tail(s) \in Seq(W) /\ Len(Tail(s)) = Len(s) - 1
      /\ \A m \in 1..Len(s) - 1 : Tail(s)[m] = s[m + 1]
  BY <1>1, HeadTailProperties
<1>3. Tail(s) \in [1..Len(s) - 1 -> W]
  BY <1>2, LenProperties, Zenon
<1> QED BY <1>1, <1>2, <1>3, Zenon

(* The oldest byte is read.                                                *)
LEMMA ReadByteStep == ASSUME RxInv, Rx!ReadByte PROVE RxInv' /\ Rx!Fifo!Send
<1>1. PICK n \in 0..RX_MAX : RingIs(n)
  BY DEF RxInv
<1>2. /\ rxpc = "callback" /\ room > 0 /\ room' = room - 1
      /\ rxBuf' = [rxBuf EXCEPT ![rxHead] = Rx!None] /\ rxHead' = Rx!After(rxHead, 1)
      /\ UNCHANGED <<rxpc, dest, next, gap, due>>
  BY DEF Rx!ReadByte, Rx!MarkCleared
<1>3. n > 0
  BY <1>1, HeadNew DEF RxInv, Rx!ReadByte
<1>4. n - 1 \in 0..RX_MAX - 1 /\ n - 1 \in 0..RX_MAX /\ (n - 1) + 1 = n
  BY <1>3, RxConstants
<1>5. rxHead \in Rx!Index /\ rxHead' \in Rx!Index
  BY <1>2, AfterIndex, RxConstants DEF RxInv, RxTypes
<1>6. \A m \in 0..RX_MAX - 1 : Rx!After(rxHead', m) = Rx!After(rxHead, m + 1)
  BY <1>2, <1>5, AfterNext
<1>7. Rx!After(rxHead, 0) = rxHead /\ Rx!After(rxHead, RX_MAX) = rxHead
  BY <1>5, AfterFacts
<1>8. \A m \in 0..RX_MAX - 1 : m # 0 =>
        Rx!After(rxHead, m) # rxHead /\ rxBuf'[Rx!After(rxHead, m)] = rxBuf[Rx!After(rxHead, m)]
  <2>1. SUFFICES ASSUME NEW m \in 0..RX_MAX - 1, m # 0
                 PROVE  /\ Rx!After(rxHead, m) # rxHead
                        /\ rxBuf'[Rx!After(rxHead, m)] = rxBuf[Rx!After(rxHead, m)]
    OBVIOUS
  <2>2. 0 \in 0..RX_MAX - 1 /\ m \in 0..RX_MAX
    BY RxConstants
  <2>3. Rx!After(rxHead, m) # rxHead
    BY <1>5, <1>7, <2>1, <2>2, AfterOnce
  <2>4. Rx!After(rxHead, m) \in Rx!Index
    BY <1>5, <2>2, AfterIndex
  <2> QED BY <1>2, <2>3, <2>4 DEF RxInv, RxTypes
<1>9. Holds(rxBuf', rxHead', n - 1)
  <2>1. SUFFICES ASSUME NEW m \in 0..RX_MAX - 1
                 PROVE  rxBuf'[Rx!After(rxHead, m + 1)] # Rx!None <=> m < n - 1
    BY <1>6 DEF Holds
  <2>2. CASE m + 1 = RX_MAX
    <3>1. rxBuf'[Rx!After(rxHead, m + 1)] = Rx!None
      BY <1>2, <1>5, <1>7, <2>2 DEF RxInv, RxTypes
    <3> QED BY <2>2, <3>1, RxConstants
  <2>3. CASE m + 1 # RX_MAX
    <3>1. m + 1 \in 0..RX_MAX - 1 /\ m + 1 # 0
      BY <2>3, RxConstants
    <3>2. rxBuf[Rx!After(rxHead, m + 1)] # Rx!None <=> m + 1 < n
      BY <1>1, <3>1 DEF RingIs, Holds
    <3> QED BY <1>8, <3>1, <3>2, RxConstants
  <2> QED BY <2>2, <2>3
<1>10. dest' = Rx!After(rxHead', n - 1)
  BY <1>1, <1>2, <1>4, <1>6 DEF RingIs
<1>11. Enough(n - 1)'
  BY <1>1, <1>2, <1>3, RxConstants DEF RxInv, RxTypes, RingIs, Enough, Coming
<1>12. RxTypes'
  BY <1>2, <1>5, RxConstants DEF RxInv, RxTypes
<1>13. RxInv'
  <2>1. RingIs(n - 1)'
    BY <1>9, <1>10, <1>11 DEF RingIs
  <2> QED BY <1>4, <1>12, <2>1 DEF RxInv
<1>14. PICK q \in Seq(Rx!Byte) : q = QueueOf(rxBuf, rxHead, n) /\ Len(q) = n
  BY <1>1, QueueSeq DEF RxInv, RxTypes, RingIs
<1>15. Rx!queue = q /\ Rx!queue' = QueueOf(rxBuf', rxHead', n - 1)
  BY <1>1, <1>4, <1>9, <1>14, QueueIs DEF RingIs
<1>16. QueueOf(rxBuf', rxHead', n - 1) = [m \in 1..n - 1 |-> q[m + 1]]
  <2>1. SUFFICES ASSUME NEW m \in 1..n - 1
                 PROVE  rxBuf'[Rx!After(rxHead', m - 1)] = q[m + 1]
    BY DEF QueueOf
  <2>2. /\ m - 1 \in 0..RX_MAX - 1 /\ m \in 0..RX_MAX - 1 /\ m # 0
        /\ m + 1 \in 1..n /\ (m + 1) - 1 = m /\ (m - 1) + 1 = m
    BY RxConstants
  <2>3. rxBuf'[Rx!After(rxHead', m - 1)] = rxBuf[Rx!After(rxHead, m)]
    BY <1>6, <1>8, <2>2
  <2>4. q[m + 1] = rxBuf[Rx!After(rxHead, (m + 1) - 1)]
    BY <1>14, <2>2 DEF QueueOf
  <2> QED BY <2>2, <2>3, <2>4, Zenon
<1>17. Len(q) > 0
  BY <1>3, <1>14
<1>18. q # <<>> /\ Tail(q) = [m \in 1..Len(q) - 1 |-> q[m + 1]]
  BY <1>17, TailIs
<1>19. Tail(q) = [m \in 1..n - 1 |-> q[m + 1]]
  BY <1>14, <1>18
<1> QED BY <1>13, <1>15, <1>16, <1>18, <1>19 DEF Rx!Fifo!Send

(* A byte comes, into a place that is free.                                *)
LEMMA ArriveStep ==
  ASSUME RxInv, PollsInTime, Rx!Arrive
  PROVE  RxInv' /\ Rx!Fifo!Accept
<1>1. PICK n \in 0..RX_MAX : RingIs(n)
  BY DEF RxInv
<1>2. /\ due /\ due' = FALSE
      /\ rxBuf' = [rxBuf EXCEPT ![dest] = next] /\ dest' = Rx!After(dest, 1)
      /\ next' = (next + 1) % (LastByte + 1)
      /\ UNCHANGED <<rxpc, rxHead, room, gap>>
  BY DEF Rx!Arrive
<1>3. n < RX_MAX
  BY <1>1, <1>2, RxConstants DEF RxInv, RxTypes, RingIs, Enough, Coming, PollsInTime
<1>4. n \in 0..RX_MAX - 1 /\ n + 1 \in 0..RX_MAX
  BY <1>3, RxConstants
<1>5. rxHead \in Rx!Index /\ dest \in Rx!Index /\ next \in Rx!Byte
  BY DEF RxInv, RxTypes
<1>6. dest = Rx!After(rxHead, n) /\ dest' = Rx!After(rxHead', n + 1)
  BY <1>1, <1>2, <1>4, <1>5, AfterNext DEF RingIs
<1>7. next # Rx!None
  BY <1>5, RxConstants DEF Rx!Byte, Rx!None
<1>8. \A m \in 0..RX_MAX - 1 :
        rxBuf'[Rx!After(rxHead, m)] = IF m = n THEN next ELSE rxBuf[Rx!After(rxHead, m)]
  <2>1. SUFFICES ASSUME NEW m \in 0..RX_MAX - 1
                 PROVE  rxBuf'[Rx!After(rxHead, m)] =
                          IF m = n THEN next ELSE rxBuf[Rx!After(rxHead, m)]
    OBVIOUS
  <2>2. Rx!After(rxHead, m) = dest => m = n
    BY <1>4, <1>5, <1>6, AfterOnce
  <2>3. m \in 0..RX_MAX
    BY RxConstants
  <2>4. Rx!After(rxHead, m) \in Rx!Index
    BY <1>5, <2>3, AfterIndex
  <2> QED BY <1>2, <1>5, <1>6, <2>2, <2>4 DEF RxInv, RxTypes
<1>9. Holds(rxBuf', rxHead', n + 1)
  <2>1. SUFFICES ASSUME NEW m \in 0..RX_MAX - 1
                 PROVE  rxBuf'[Rx!After(rxHead, m)] # Rx!None <=> m < n + 1
    BY <1>2 DEF Holds
  <2>2. rxBuf[Rx!After(rxHead, m)] # Rx!None <=> m < n
    BY <1>1 DEF RingIs, Holds
  <2> QED BY <1>7, <1>8, <2>2, RxConstants
<1>10. Enough(n + 1)'
  BY <1>1, <1>2, RxConstants DEF RxInv, RxTypes, RingIs, Enough, Coming
<1>11. RxTypes'
  <2>1. next' \in Rx!Byte
    BY <1>2, <1>5, RxConstants DEF Rx!Byte
  <2>2. dest' \in Rx!Index
    BY <1>4, <1>5, <1>6, <1>2, AfterIndex
  <2> QED BY <1>2, <1>5, <2>1, <2>2, RxConstants, Zenon DEF RxInv, RxTypes
<1>12. RxInv'
  <2>1. RingIs(n + 1)'
    BY <1>6, <1>9, <1>10 DEF RingIs
  <2> QED BY <1>4, <1>11, <2>1 DEF RxInv
<1>13. PICK q \in Seq(Rx!Byte) : q = QueueOf(rxBuf, rxHead, n) /\ Len(q) = n
  BY <1>1, QueueSeq DEF RxInv, RxTypes, RingIs
<1>14. PICK p \in Seq(Rx!Byte) : p = QueueOf(rxBuf', rxHead', n + 1) /\ Len(p) = n + 1
  BY <1>4, <1>9, <1>11, QueueSeq DEF RxTypes
<1>15. Rx!queue = q /\ Rx!queue' = p
  BY <1>1, <1>4, <1>9, <1>13, <1>14, QueueIs DEF RingIs
<1>16. \A m \in 1..n : p[m] = q[m]
  <2>1. SUFFICES ASSUME NEW m \in 1..n PROVE p[m] = q[m]
    OBVIOUS
  <2>2. m - 1 \in 0..RX_MAX - 1 /\ m - 1 # n /\ m \in 1..n + 1
    BY RxConstants
  <2>3. p[m] = rxBuf'[Rx!After(rxHead, m - 1)] /\ q[m] = rxBuf[Rx!After(rxHead, m - 1)]
    BY <1>2, <1>13, <1>14, <2>2 DEF QueueOf
  <2> QED BY <1>8, <2>2, <2>3
<1>17. SubSeq(p, 1, n) = q /\ SubSeq(q, 1, n) = q
  BY <1>13, <1>14, <1>16, <1>4, RxConstants
<1>18. Len(p) - Len(q) \in 1..1 /\ Len(q) <= Len(p)
  BY <1>13, <1>14, <1>4
<1> QED BY <1>12, <1>13, <1>14, <1>15, <1>17, <1>18, Zenon
    DEF Rx!Fifo!Accept, Rx!Fifo!IsPrefix

LEMMA RxInitially == ASSUME Rx!Init PROVE RxInv /\ Rx!Fifo!Init
<1>1. RxTypes
  BY RxConstants DEF Rx!Init, RxTypes, Rx!Index, Rx!Byte
<1>2. 0 \in 0..RX_MAX
  BY RxConstants
<1>3. Holds(rxBuf, rxHead, 0)
  <2>1. \A m \in 0..RX_MAX - 1 : m \in 0..RX_MAX /\ ~(m < 0)
    BY RxConstants
  <2>2. \A m \in 0..RX_MAX - 1 : Rx!After(rxHead, m) \in Rx!Index /\ ~(m < 0)
    BY <1>1, <2>1, AfterIndex DEF RxTypes
  <2> QED BY <2>2 DEF Holds, Rx!Init
<1>4. RingIs(0)
  BY <1>1, <1>3, AfterFacts, RxConstants DEF RingIs, RxTypes, Enough, Coming, Rx!Init
<1>5. Rx!queue = <<>>
  <2>1. Rx!queue = QueueOf(rxBuf, rxHead, 0)
    BY <1>2, <1>3, QueueIs
  <2>2. Len(QueueOf(rxBuf, rxHead, 0)) = 0 /\ QueueOf(rxBuf, rxHead, 0) \in Seq(Rx!Byte)
    BY <1>1, <1>2, <1>3, QueueSeq DEF RxTypes
  <2> QED BY <2>1, <2>2
<1> QED BY <1>1, <1>2, <1>4, <1>5 DEF RxInv, Rx!Fifo!Init

LEMMA SerialStep ==
  ASSUME RxInv, PollsInTime, [Rx!Next]_serial
  PROVE  RxInv' /\ [Rx!Fifo!Next]_(Rx!queue)
<1>1. SUFFICES RxInv' /\ (Rx!Fifo!Accept \/ Rx!Fifo!Send \/ Rx!queue' = Rx!queue)
  BY DEF Rx!Fifo!Next
<1>2. CASE UNCHANGED serial
  <2>1. UNCHANGED <<rxpc, rxBuf, rxHead, dest, next, gap, due, room>>
    BY <1>2 DEF serial
  <2>2. RxInv'
    BY <2>1 DEF RxInv, RxTypes, RingIs, Enough, Coming
  <2>3. Rx!queue' = Rx!queue
    BY <2>1, Zenon, QueueUnfolds, RunUnfolds
  <2> QED BY <2>2, <2>3
<1>3. CASE Rx!Driver
  BY <1>3, PollTimeStep, PollReportStep, ReadByteStep, ReadDoneStep DEF Rx!Driver, RxStutters
<1> QED BY <1>2, <1>3, ArriveStep, TickStep DEF Rx!Next, RxStutters

(* What comes on the line is read once and in order, and nothing is written *)
(* over, whatever the channel does between two statements of the poll and   *)
(* of the read (HalUARTPollDMA, HalUARTReadDMA, findTail).  It takes no     *)
(* fairness: that polls are near enough is the model's MaxGap, and how near *)
(* they must be PollsInTime says.                                           *)
THEOREM SerialIsFifo == ASSUME PollsInTime PROVE PlatformSpec => RxFifo
<1>1. PlatformInit => RxInv /\ Rx!Fifo!Init
  BY RxInitially DEF PlatformInit
<1>2. RxInv /\ [PlatformNext]_<<part, heap, radio, serial>>
        => RxInv' /\ [Rx!Fifo!Next]_(Rx!queue)
  <2>1. SUFFICES ASSUME RxInv, [PlatformNext]_<<part, heap, radio, serial>>
                 PROVE  [Rx!Next]_serial
    BY SerialStep
  <2> QED BY <2>1 DEF PlatformNext
<1>3. [Rx!Fifo!Next]_(Rx!queue) => [part = "serial" => [Rx!Fifo!Next]_(Rx!queue)]_serial
  OBVIOUS
<1> QED BY <1>1, <1>2, <1>3, PTL DEF PlatformSpec, RxFifo
-----------------------------------------------------------------------------
(* The heap, for every size of it and of its headers: the blocks tile it,  *)
(* ff1 is the first free block, an allocation fails only when it must, and *)
(* what it is given is nobody else's.                                      *)

(* Every block but the blocker has room for data: a byte fits anywhere. *)
Roomy == \A a \in DOMAIN blk : a # Blocker => blk[a].len > HDRSZ

(* A free block that the walk has passed: too short, and either about to   *)
(* be merged with the next one or followed by a block in use.              *)
Passed(a) ==
  /\ blk[a].len < call.size
  /\ \/ call.pc = "walk" /\ call.coal /\ a = call.prev
     \/ Behind(a) \in DOMAIN blk /\ blk[Behind(a)].inUse

WalkSound ==
  call.pc = "walk" =>
    /\ call.hdr \in DOMAIN blk \cup {End} /\ call.hdr >= Starts(call.size)
    /\ call.coal =>
         /\ call.prev \in DOMAIN blk /\ ~blk[call.prev].inUse
         /\ call.hdr \in DOMAIN blk /\ Behind(call.prev) = call.hdr
         /\ call.prev >= Starts(call.size)
    /\ \A a \in DOMAIN blk :
         a >= Starts(call.size) /\ a < call.hdr /\ ~blk[a].inUse => Passed(a)

FoundSound ==
  call.pc = "found" =>
    /\ call.hdr \in DOMAIN blk /\ ~blk[call.hdr].inUse
    /\ blk[call.hdr].len >= call.size

(* osal_mem_kick's byte fits the first free block. *)
KickSound ==
  call.kick =>
    /\ ~osalMemStat
    /\ call.pc # "none" => call.size = HDRSZ + 1
    /\ call.pc \in {"walk", "found"} =>
         \A a \in DOMAIN blk : a < call.hdr => blk[a].inUse

CallSound ==
  /\ WalkSound /\ FoundSound /\ KickSound
  /\ call.pc # "none" => call.size > HDRSZ
  /\ call.pc = "none" => ~call.kick

IInv ==
  /\ TypeOK /\ HeapSound /\ Roomy
  /\ ~osalMemStat => ff1 = 0
  /\ CallSound /\ NullMeansFull
-----------------------------------------------------------------------------
LEMMA Places ==
  /\ Blocker \in Nat /\ Wilderness \in Nat /\ End \in Nat
  /\ 0 < Blocker /\ Blocker < Wilderness /\ Wilderness < End
  /\ Wilderness = Blocker + HDRSZ
BY HeapAssumption, SMT DEF HeapAssumption, Blocker, Wilderness, End

(* The arithmetic of places, so that no step needs the constants. *)
LEMMA Order ==
  ASSUME TypeOK
  PROVE  /\ \A a \in DOMAIN blk : a \in Nat /\ a < End
         /\ \A a \in DOMAIN blk : blk[a].len \in Nat \ {0} /\ blk[a].inUse \in BOOLEAN
         /\ \A a \in DOMAIN blk : Behind(a) \in Nat /\ a < Behind(a)
         /\ ff1 \in Nat /\ ff1 <= End
         /\ call.hdr \in Nat /\ call.prev \in Nat /\ call.size \in Nat
<1>1. \A a \in DOMAIN blk : a \in Nat /\ a < End
  BY Places, SMT DEF TypeOK
<1>2. \A a \in DOMAIN blk : blk[a].len \in Nat \ {0} /\ blk[a].inUse \in BOOLEAN
  BY SMT DEF TypeOK
<1>3. \A a \in DOMAIN blk : Behind(a) \in Nat /\ a < Behind(a)
  BY <1>1, <1>2, SMT DEF Behind
<1>4. ff1 \in Nat /\ ff1 <= End
  BY <1>1, Places, SMT DEF TypeOK
<1>5. call.hdr \in Nat /\ call.prev \in Nat /\ call.size \in Nat
  BY Places, SMT DEF TypeOK
<1> QED BY <1>1, <1>2, <1>3, <1>4, <1>5

(* Merging two neighbours, both of them free. *)
LEMMA MergeKeeps ==
  ASSUME TypeOK, HeapSound, Roomy,
         NEW p \in DOMAIN blk, NEW h \in DOMAIN blk,
         ~blk[p].inUse, ~blk[h].inUse, Behind(p) = h,
         blk' = Merged(p, h), ff1' = ff1
  PROVE  /\ DOMAIN blk' = DOMAIN blk \ {h}
         /\ \A a \in DOMAIN blk' :
              /\ a # p => blk'[a] = blk[a] /\ Behind(a)' = Behind(a)
              /\ a = p => ~blk'[a].inUse /\ Behind(a)' = Behind(h)
                          /\ blk'[a].len = blk[p].len + blk[h].len
         /\ DOMAIN blk' \subseteq 0..(End - 1)
         /\ \A a \in DOMAIN blk' : blk'[a] \in [len : Nat \ {0}, inUse : BOOLEAN]
         /\ ff1' \in DOMAIN blk' \cup {End}
         /\ Roomy' /\ HeapSound'
<1>0. p < h /\ p # h /\ h # End /\ h < Behind(h) /\ h # Behind(h)
  BY Order, SMT
<1>1. DOMAIN blk' = DOMAIN blk \ {h}
  BY DEF Merged
<1>2. \A a \in DOMAIN blk' : blk'[a] = IF a = p THEN Block(blk[p].len + blk[h].len, FALSE) ELSE blk[a]
  BY DEF Merged
<1>3. p \in DOMAIN blk' /\ blk'[p] = Block(blk[p].len + blk[h].len, FALSE)
  BY <1>0, <1>1, <1>2, Zenon
<1>4. Behind(p)' = Behind(h)
  BY <1>3, Order, SMT DEF Behind, Block
<1>5. \A a \in DOMAIN blk' : a # p => blk'[a] = blk[a] /\ Behind(a)' = Behind(a)
  BY <1>2, Zenon DEF Behind
<1>6. h # Blocker /\ h # 0 /\ p # Blocker
  BY <1>0, Order, SMT DEF HeapSound, Blocked, Block
<1>7. h # Wilderness
  <2> SUFFICES ASSUME h = Wilderness PROVE FALSE
    OBVIOUS
  <2>1. Blocker \in DOMAIN blk /\ Behind(Blocker) = Wilderness
    BY Places, SMT DEF HeapSound, Blocked, Tiles, Behind, Block
  <2>2. CASE p < Blocker
    <3>1. Behind(p) <= Blocker
      BY <2>1, <2>2 DEF HeapSound, Tiles
    <3> QED BY <3>1, Places, Order, SMT
  <2>3. CASE p > Blocker
    <3>1. Behind(Blocker) <= p
      BY <2>1, <2>3, Order, Places, SMT DEF HeapSound, Tiles
    <3> QED BY <3>1, <2>1, <1>0, Order, SMT
  <2>4. p \in Nat /\ Blocker \in Nat
    BY Order, Places
  <2>5. p < Blocker \/ p > Blocker
    BY <2>4, <1>6, SMT
  <2> QED BY <2>2, <2>3, <2>5
<1>8. Behind(h) \in DOMAIN blk' \cup {End}
  BY <1>0, <1>1 DEF HeapSound, Tiles
<1>9. ff1' \in DOMAIN blk' \cup {End}
  <2>1. ff1 # h
    BY <1>0 DEF HeapSound, FirstFree
  <2> QED BY <2>1, <1>1 DEF TypeOK
<1>10. Tiles'
  <2>1. {0, Blocker, Wilderness} \subseteq DOMAIN blk'
    BY <1>1, <1>6, <1>7 DEF HeapSound, Tiles
  <2>2. ASSUME NEW a \in DOMAIN blk' PROVE Behind(a)' \in DOMAIN blk' \cup {End}
    <3>1. CASE a = p
      BY <3>1, <1>4, <1>8
    <3>2. CASE a # p
      <4>1. Behind(a)' = Behind(a) /\ Behind(a) \in DOMAIN blk \cup {End}
        BY <3>2, <1>1, <1>5 DEF HeapSound, Tiles
      <4>2. Behind(a) # h
        <5>1. CASE a < p
          <6>1. Behind(a) <= p
            BY <5>1, <1>1 DEF HeapSound, Tiles
          <6> QED BY <6>1, <1>0, <1>1, Order, SMT
        <5>2. CASE a > p
          <6>1. h <= a
            BY <5>2, <1>1, Order, SMT DEF HeapSound, Tiles
          <6> QED BY <6>1, <1>1, Order, SMT
        <5> QED BY <5>1, <5>2, <3>2, <1>1, Order, SMT
      <4> QED BY <4>1, <4>2, <1>1
    <3> QED BY <3>1, <3>2
  <2>3. ASSUME NEW a \in DOMAIN blk', NEW b \in DOMAIN blk', a < b
        PROVE  Behind(a)' <= b
    <3>1. a \in DOMAIN blk /\ b \in DOMAIN blk /\ b # h
      BY <1>1
    <3>2. Behind(a) <= b
      BY <3>1, <2>3 DEF HeapSound, Tiles
    <3>3. CASE a = p
      <4>1. h < b
        BY <3>1, <3>2, <3>3, Order, SMT
      <4>2. Behind(h) <= b
        BY <3>1, <4>1 DEF HeapSound, Tiles
      <4> QED BY <4>2, <3>3, <1>4
    <3>4. CASE a # p
      BY <3>2, <3>4, <1>5
    <3> QED BY <3>3, <3>4
  <2> QED BY <2>1, <2>2, <2>3 DEF Tiles
<1>11. FirstFree'
  <2> SUFFICES ASSUME NEW a \in DOMAIN blk', a < ff1 PROVE blk'[a].inUse
    BY DEF FirstFree
  <2>1. a \in DOMAIN blk /\ blk[a].inUse
    BY <1>1 DEF HeapSound, FirstFree
  <2> QED BY <2>1, <1>5
<1>12. Blocked'
  BY <1>5, <1>6, <1>10, Zenon DEF HeapSound, Blocked, Tiles
<1>13. \A a \in DOMAIN blk' : blk'[a] \in [len : Nat \ {0}, inUse : BOOLEAN]
  <2> TAKE a \in DOMAIN blk'
  <2>1. CASE a = p
    BY <2>1, <1>3, Order, SMT DEF Block
  <2>2. CASE a # p
    BY <2>2, <1>1, <1>5 DEF TypeOK
  <2> QED BY <2>1, <2>2
<1>14. Roomy'
  <2> SUFFICES ASSUME NEW a \in DOMAIN blk', a # Blocker PROVE blk'[a].len > HDRSZ
    BY DEF Roomy
  <2>1. a \in DOMAIN blk /\ blk[a].len > HDRSZ
    BY <1>1 DEF Roomy
  <2>2. CASE a = p
    BY <2>1, <2>2, <1>3, Order, HeapAssumption, SMT DEF Block, HeapAssumption
  <2>3. CASE a # p
    BY <2>1, <2>3, <1>5
  <2> QED BY <2>2, <2>3
<1> QED
  BY <1>1, <1>3, <1>4, <1>5, <1>9, <1>10, <1>11, <1>12, <1>13, <1>14, SMT
     DEF HeapSound, Block, TypeOK

(* Cutting a free block in two, of which the first may be taken. *)
LEMMA SplitKeeps ==
  ASSUME TypeOK, HeapSound, Roomy,
         NEW h \in DOMAIN blk, NEW size \in Nat, NEW u \in BOOLEAN,
         ~blk[h].inUse, size > HDRSZ, blk[h].len >= size, Splits(h, size),
         blk' = Taken(h, size, u)
  PROVE  /\ DOMAIN blk' = DOMAIN blk \cup {h + size}
         /\ \A a \in DOMAIN blk : a # h => blk'[a] = blk[a] /\ Behind(a)' = Behind(a)
         /\ blk'[h] = Block(size, u) /\ Behind(h)' = h + size
         /\ blk'[h + size] = Block(blk[h].len - size, FALSE)
         /\ h + size \in Nat /\ h < h + size /\ h + size < Behind(h)
         /\ h + size \notin DOMAIN blk
         /\ DOMAIN blk' \subseteq 0..(End - 1)
         /\ \A a \in DOMAIN blk' : blk'[a] \in [len : Nat \ {0}, inUse : BOOLEAN]
         /\ Roomy' /\ Tiles' /\ Blocked'
<1> DEFINE n == h + size
<1>1. /\ h \in Nat /\ h < End /\ blk[h].len \in Nat /\ Behind(h) = h + blk[h].len
      /\ HDRSZ \in Nat /\ MIN_BLKSZ \in Nat /\ MIN_BLKSZ > HDRSZ
  BY Order, HeapAssumption DEF Behind, HeapAssumption
<1>2. blk[h].len - size >= MIN_BLKSZ
  BY DEF Splits
<1>3. n \in Nat /\ h < n /\ n < Behind(h) /\ n + (blk[h].len - size) = Behind(h)
  BY <1>1, <1>2, SMT
<1>4. n \notin DOMAIN blk
  <2> SUFFICES ASSUME n \in DOMAIN blk PROVE FALSE
    OBVIOUS
  <2>1. Behind(h) <= n
    BY <1>3 DEF HeapSound, Tiles
  <2> QED BY <2>1, <1>1, <1>3, SMT
<1>5. blk' = [x \in DOMAIN blk \cup {n} |->
                IF x = h THEN Block(size, u)
                ELSE IF x = n THEN Block(blk[h].len - size, FALSE) ELSE blk[x]]
  BY <1>2 DEF Taken, Splits
<1>6. DOMAIN blk' = DOMAIN blk \cup {n}
  BY <1>5
<1>7. blk'[h] = Block(size, u)
  BY <1>5
<1>8. blk'[n] = Block(blk[h].len - size, FALSE)
  <2>1. n # h
    BY <1>1, <1>3, SMT
  <2> QED BY <2>1, <1>5, Zenon
<1>9. \A a \in DOMAIN blk : a # h => blk'[a] = blk[a] /\ Behind(a)' = Behind(a)
  <2> SUFFICES ASSUME NEW a \in DOMAIN blk, a # h
               PROVE blk'[a] = blk[a] /\ Behind(a)' = Behind(a)
    OBVIOUS
  <2>1. blk'[a] = blk[a]
    BY <1>4, <1>5, Zenon
  <2> QED BY <2>1 DEF Behind
<1> HIDE DEF n
<1>10. Behind(h)' = n /\ Behind(n)' = Behind(h)
  BY <1>1, <1>3, <1>7, <1>8, SMT DEF Behind, Block, n
<1>11. Behind(h) <= End
  BY Order, Places, SMT DEF HeapSound, Tiles
<1>12. DOMAIN blk' \subseteq 0..(End - 1)
  BY <1>3, <1>6, <1>11, Order, Places, SMT DEF TypeOK
<1>13. \A a \in DOMAIN blk' : blk'[a] \in [len : Nat \ {0}, inUse : BOOLEAN]
  <2> TAKE a \in DOMAIN blk'
  <2>1. CASE a = h
    BY <2>1, <1>1, <1>7, SMT DEF Block
  <2>2. CASE a = n
    BY <2>2, <1>1, <1>2, <1>8, SMT DEF Block
  <2>3. CASE a # h /\ a # n
    BY <2>3, <1>6, <1>9 DEF TypeOK
  <2> QED BY <2>1, <2>2, <2>3
<1>14. Roomy'
  <2> SUFFICES ASSUME NEW a \in DOMAIN blk', a # Blocker PROVE blk'[a].len > HDRSZ
    BY DEF Roomy
  <2>1. CASE a = h
    BY <2>1, <1>7 DEF Block
  <2>2. CASE a = n
    BY <2>2, <1>1, <1>2, <1>8, SMT DEF Block
  <2>3. CASE a # h /\ a # n
    BY <2>3, <1>6, <1>9 DEF Roomy
  <2> QED BY <2>1, <2>2, <2>3
<1>15. Tiles'
  <2>1. {0, Blocker, Wilderness} \subseteq DOMAIN blk'
    BY <1>6 DEF HeapSound, Tiles
  <2>2. ASSUME NEW a \in DOMAIN blk' PROVE Behind(a)' \in DOMAIN blk' \cup {End}
    <3>1. CASE a = h
      BY <3>1, <1>6, <1>10
    <3>2. CASE a = n
      BY <3>2, <1>6, <1>10 DEF HeapSound, Tiles
    <3>3. CASE a # h /\ a # n
      BY <3>3, <1>6, <1>9 DEF HeapSound, Tiles
    <3> QED BY <3>1, <3>2, <3>3
  <2>3. ASSUME NEW a \in DOMAIN blk', NEW b \in DOMAIN blk', a < b
        PROVE  Behind(a)' <= b
    <3>1. CASE a = h /\ b # n
      <4>1. Behind(h) <= b
        BY <3>1, <2>3, <1>6 DEF HeapSound, Tiles
      <4> QED BY <4>1, <3>1, <1>3, <1>6, <1>10, Order, SMT
    <3>2. CASE a = h /\ b = n
      BY <3>2, <1>3, <1>10, SMT
    <3>3. CASE a = n
      <4>1. b \in DOMAIN blk /\ h < b
        BY <3>3, <2>3, <1>3, <1>1, <1>6, Order, SMT
      <4> QED BY <4>1, <3>3, <1>10 DEF HeapSound, Tiles
    <3>4. CASE a # h /\ a # n /\ b # n
      BY <3>4, <2>3, <1>6, <1>9 DEF HeapSound, Tiles
    <3>5. CASE a # h /\ a # n /\ b = n
      <4>1. a \in DOMAIN blk /\ a \in Nat
        BY <3>5, <1>6, Order
      <4>2. CASE a < h
        <5>1. Behind(a) <= h
          BY <4>1, <4>2 DEF HeapSound, Tiles
        <5> QED BY <5>1, <4>1, <3>5, <1>1, <1>3, <1>9, Order, SMT
      <4>3. CASE a > h
        <5>1. Behind(h) <= a
          BY <4>1, <4>3, <1>1, SMT DEF HeapSound, Tiles
        <5> QED BY <5>1, <4>1, <3>5, <2>3, <1>1, <1>3, Order, SMT
      <4> QED BY <4>1, <4>2, <4>3, <3>5, <1>1, SMT
    <3> QED BY <3>1, <3>2, <3>3, <3>4, <3>5
  <2> QED BY <2>1, <2>2, <2>3 DEF Tiles
<1>16. Blocked'
  <2>1. Blocker \in DOMAIN blk /\ h # Blocker
    BY DEF HeapSound, Tiles, Blocked, Block
  <2> QED BY <2>1, <1>9, Zenon DEF HeapSound, Blocked
<1> QED
  BY <1>3, <1>4, <1>6, <1>7, <1>8, <1>9, <1>10, <1>12, <1>13, <1>14, <1>15, <1>16 DEF n

(* Marking a block. *)
LEMMA MarkKeeps ==
  ASSUME TypeOK, HeapSound, Roomy,
         NEW h \in DOMAIN blk, NEW u \in BOOLEAN, h # Blocker,
         blk' = [blk EXCEPT ![h] = Block(blk[h].len, u)]
  PROVE  /\ DOMAIN blk' = DOMAIN blk
         /\ \A a \in DOMAIN blk : Behind(a)' = Behind(a) /\ blk'[a].len = blk[a].len
         /\ \A a \in DOMAIN blk : a # h => blk'[a] = blk[a]
         /\ blk'[h] = Block(blk[h].len, u)
         /\ DOMAIN blk' \subseteq 0..(End - 1)
         /\ \A a \in DOMAIN blk' : blk'[a] \in [len : Nat \ {0}, inUse : BOOLEAN]
         /\ Roomy' /\ Tiles' /\ Blocked'
<1>1. DOMAIN blk' = DOMAIN blk
  OBVIOUS
<1>2. blk'[h] = Block(blk[h].len, u)
  OBVIOUS
<1>3. \A a \in DOMAIN blk : a # h => blk'[a] = blk[a]
  OBVIOUS
<1>4. \A a \in DOMAIN blk : blk'[a].len = blk[a].len
  BY <1>2, <1>3 DEF Block
<1>5. \A a \in DOMAIN blk : Behind(a)' = Behind(a)
  BY <1>4 DEF Behind
<1>6. \A a \in DOMAIN blk' : blk'[a] \in [len : Nat \ {0}, inUse : BOOLEAN]
  <2> TAKE a \in DOMAIN blk'
  <2>1. CASE a = h
    BY <2>1, <1>1, <1>2, Order, SMT DEF Block
  <2>2. CASE a # h
    BY <2>2, <1>1, <1>3 DEF TypeOK
  <2> QED BY <2>1, <2>2
<1>7. Roomy'
  BY <1>1, <1>4 DEF Roomy
<1>8. Tiles'
  BY <1>1, <1>5 DEF HeapSound, Tiles
<1>9. Blocked'
  BY <1>3, <1>8, <1>1, Zenon DEF HeapSound, Tiles, Blocked
<1>10. DOMAIN blk' \subseteq 0..(End - 1)
  BY <1>1 DEF TypeOK
<1> QED BY <1>1, <1>2, <1>3, <1>4, <1>5, <1>6, <1>7, <1>8, <1>9, <1>10
-----------------------------------------------------------------------------
(* The steps of an allocation that leave the blocks as they are. *)
Still == UNCHANGED <<blk, ff1, osalMemStat>>

LEMMA StillKeeps ==
  ASSUME IInv, Still
  PROVE  /\ HeapSound' /\ Roomy' /\ (~osalMemStat => ff1 = 0)'
         /\ DOMAIN blk' \subseteq 0..(End - 1)
         /\ \A a \in DOMAIN blk' : blk'[a] \in [len : Nat \ {0}, inUse : BOOLEAN]
         /\ ff1' \in DOMAIN blk' \cup {End}
         /\ osalMemStat' \in BOOLEAN
<1>1. HeapSound'
  BY DEF IInv, Still, HeapSound, Tiles, FirstFree, Blocked, Behind
<1> QED BY <1>1 DEF IInv, Still, Roomy, TypeOK

Calls == [pc : {"none", "walk", "found", "null"}, kick : BOOLEAN, size : Nat,
          hdr : 0..End, prev : 0..End, coal : BOOLEAN]

LEMMA InHeap ==
  ASSUME TypeOK, HeapSound, NEW a \in DOMAIN blk \cup {End}
  PROVE  a \in 0..End
BY Order, Places, SMT

LEMMA StartsAt ==
  ASSUME TypeOK, HeapSound, NEW size
  PROVE  Starts(size) \in DOMAIN blk \cup {End} /\ Starts(size) \in Nat
<1>1. Starts(size) \in DOMAIN blk \cup {End}
  BY DEF Starts, TypeOK, HeapSound, Tiles
<1> QED BY <1>1, Order, Places, SMT

LEMMA EnterKeeps ==
  ASSUME IInv, NEW n \in Nat \ {0}, NEW kick \in BOOLEAN,
         kick => ~osalMemStat /\ n = 1, Enter(n, kick)
  PROVE  IInv'
<1> DEFINE size == n + HDRSZ
<1>1. size \in Nat /\ size > HDRSZ /\ (kick => size = HDRSZ + 1)
  BY HeapAssumption, SMT DEF HeapAssumption
<1>2. /\ call' = [pc |-> "walk", kick |-> kick, size |-> size, hdr |-> Starts(size),
                  prev |-> 0, coal |-> FALSE]
      /\ Still
  BY DEF Enter, Still
<1> HIDE DEF size
<1>3. /\ call'.pc = "walk" /\ call'.kick = kick /\ call'.size = size
      /\ call'.hdr = Starts(size) /\ call'.coal = FALSE
  BY <1>2
<1>4. Starts(size) \in DOMAIN blk \cup {End} /\ Starts(size) \in 0..End
      /\ Starts(size) \in Nat
  BY StartsAt, InHeap DEF IInv
<1>5. call' \in Calls
  BY <1>1, <1>2, <1>4, Places, SMT DEF Calls
<1>6. TypeOK'
  BY <1>5, <1>2, StillKeeps DEF TypeOK, Calls
<1>7. Starts(call.size)' = Starts(size)
  BY <1>2, <1>3 DEF Starts, Still
<1>8. WalkSound'
  <2>1. ASSUME NEW a \in DOMAIN blk', a >= Starts(size), a < Starts(size) PROVE FALSE
    <3>1. a \in Nat
      BY <1>2, Order DEF Still, IInv
    <3> QED BY <2>1, <3>1, <1>4, SMT
  <2>2. call'.hdr >= Starts(call.size)'
    BY <1>3, <1>4, <1>7, SMT
  <2>3. call'.hdr \in DOMAIN blk' \cup {End}
    BY <1>2, <1>3, <1>4 DEF Still
  <2> QED BY <2>1, <2>2, <2>3, <1>3, <1>7 DEF WalkSound
<1>9. KickSound'
  <2> SUFFICES ASSUME kick
               PROVE  /\ ~osalMemStat' /\ size = HDRSZ + 1
                      /\ \A a \in DOMAIN blk' : a < Starts(size) => blk'[a].inUse
    BY <1>3 DEF KickSound
  <2>1. ~osalMemStat /\ Starts(size) = ff1
    BY DEF Starts
  <2> QED BY <2>1, <1>1, <1>2 DEF IInv, HeapSound, FirstFree, Still
<1>10. FoundSound' /\ NullMeansFull' /\ call'.pc # "none" /\ call'.size > HDRSZ
  BY <1>1, <1>3 DEF FoundSound, NullMeansFull
<1> QED BY <1>2, <1>6, <1>8, <1>9, <1>10, StillKeeps DEF IInv, CallSound

(* What is free behind the place where the walk began has been passed. *)
LEMMA BehindHdr ==
  ASSUME IInv, call.pc = "walk", call.hdr \in DOMAIN blk
  PROVE  \A a \in DOMAIN blk : a < Behind(call.hdr) => a < call.hdr \/ a = call.hdr
<1> SUFFICES ASSUME NEW a \in DOMAIN blk, a < Behind(call.hdr), ~(a < call.hdr),
                    a # call.hdr
             PROVE  FALSE
  OBVIOUS
<1>1. a \in Nat /\ call.hdr \in Nat /\ Behind(call.hdr) \in Nat
  BY Order DEF IInv
<1>2. call.hdr < a
  BY <1>1, SMT
<1>3. Behind(call.hdr) <= a
  BY <1>2 DEF IInv, HeapSound, Tiles
<1> QED BY <1>1, <1>3, SMT

LEMMA NothingKeeps ==
  ASSUME IInv, WalkNothing
  PROVE  IInv'
<1>1. call.pc = "walk" /\ call.hdr = End /\ call' = [call EXCEPT !.pc = "null"] /\ Still
  BY DEF WalkNothing, Still
<1>2. call' \in Calls
  BY <1>1 DEF IInv, TypeOK, Calls
<1>3. /\ call'.pc = "null" /\ call'.kick = call.kick /\ call'.size = call.size
  BY <1>1 DEF IInv, TypeOK
<1>4. ~call.coal
  <2>1. End \notin DOMAIN blk
    BY Order, Places, SMT DEF IInv
  <2> QED BY <2>1, <1>1 DEF IInv, CallSound, WalkSound
<1>5. NullMeansFull'
  <2> SUFFICES ASSUME NEW a \in DOMAIN blk, a >= Starts(call.size), ~blk[a].inUse
               PROVE  blk[a].len < call.size /\ (Behind(a) = End \/ blk[Behind(a)].inUse)
    BY <1>1, <1>3 DEF NullMeansFull, Still, Starts, Behind
  <2>1. a < call.hdr
    BY <1>1, Order DEF IInv
  <2> QED BY <2>1, <1>1, <1>4 DEF IInv, CallSound, WalkSound, Passed
<1>6. CallSound'
  BY <1>1, <1>3 DEF IInv, CallSound, WalkSound, FoundSound, KickSound, Still
<1>7. TypeOK'
  BY <1>1, <1>2, StillKeeps DEF TypeOK, Calls
<1> QED BY <1>1, <1>5, <1>6, <1>7, StillKeeps DEF IInv

(* A walk that goes on, or that ends without a block, over the same blocks. *)
LEMMA ForwardKeeps ==
  ASSUME IInv, Still, call.pc = "walk", NEW h \in DOMAIN blk, h = call.hdr,
         NEW prev \in 0..End, NEW coal \in BOOLEAN,
         Forward(Behind(h), prev, coal),
         coal => prev = h /\ ~blk[h].inUse,
         ~coal => blk[h].inUse,
         ~blk[h].inUse => blk[h].len < call.size /\ ~call.coal
  PROVE  IInv'
<1>1. Behind(h) \in DOMAIN blk \cup {End} /\ Behind(h) \in 0..End /\ h < Behind(h)
      /\ h \in Nat /\ Behind(h) \in Nat
  BY InHeap, Order, SMT DEF IInv, HeapSound, Tiles
<1>2. /\ call'.size = call.size /\ call'.kick = call.kick
      /\ Behind(h) = End => call'.pc = "null"
      /\ Behind(h) # End => /\ call'.pc = "walk" /\ call'.hdr = Behind(h)
                            /\ call'.prev = prev /\ call'.coal = coal
  BY DEF Forward, IInv, TypeOK
<1>3. call' \in Calls
  BY <1>1, Zenon DEF Forward, IInv, TypeOK, Calls
<1>4. TypeOK'
  BY <1>3, StillKeeps DEF TypeOK, Calls
<1>5. Starts(call.size)' = Starts(call.size) /\ Starts(call.size) \in Nat
      /\ h >= Starts(call.size)
  BY <1>2, StartsAt DEF Starts, Still, IInv, CallSound, WalkSound
<1>6. ASSUME NEW a \in DOMAIN blk, a >= Starts(call.size), ~blk[a].inUse, a < Behind(h)
      PROVE  /\ blk[a].len < call.size
             /\ a # h => Behind(a) \in DOMAIN blk /\ blk[Behind(a)].inUse
             /\ a = h => coal /\ prev = a
  <2>1. CASE a = h
    BY <2>1, <1>6
  <2>2. CASE a # h
    <3>1. a < h
      BY <2>2, <1>6, BehindHdr
    <3>2. Passed(a)
      BY <3>1, <1>6 DEF IInv, CallSound, WalkSound
    <3>3. CASE call.coal /\ a = call.prev
      <4>1. Behind(a) = h /\ blk[h].inUse
        BY <3>3 DEF IInv, CallSound, WalkSound
      <4> QED BY <4>1, <3>2, <2>2 DEF Passed
    <3>4. CASE ~(call.coal /\ a = call.prev)
      BY <3>2, <3>4, <2>2 DEF Passed
    <3> QED BY <3>3, <3>4
  <2> QED BY <2>1, <2>2
<1>7. NullMeansFull'
  <2> SUFFICES ASSUME Behind(h) = End,
                      NEW a \in DOMAIN blk, a >= Starts(call.size), ~blk[a].inUse
               PROVE  blk[a].len < call.size /\ (Behind(a) = End \/ blk[Behind(a)].inUse)
    BY <1>2, <1>5 DEF NullMeansFull, Still, Behind
  <2>1. a < Behind(h)
    BY Order DEF IInv
  <2> QED BY <2>1, <1>6
<1>8. WalkSound'
  <2> SUFFICES ASSUME Behind(h) # End
               PROVE  /\ Behind(h) \in DOMAIN blk /\ Behind(h) >= Starts(call.size)
                      /\ coal => ~blk[h].inUse /\ prev = h
                      /\ \A a \in DOMAIN blk :
                           a >= Starts(call.size) /\ a < Behind(h) /\ ~blk[a].inUse
                             => Passed(a)'
    <3>1. Behind(h)' = Behind(h)
      BY DEF Still, Behind
    <3> QED BY <3>1, <1>2, <1>5 DEF WalkSound, Still
  <2>1. Behind(h) \in DOMAIN blk /\ Behind(h) >= Starts(call.size)
    BY <1>1, <1>5, SMT
  <2>2. ASSUME NEW a \in DOMAIN blk, a >= Starts(call.size), a < Behind(h), ~blk[a].inUse
        PROVE  Passed(a)'
    <3>1. Behind(a)' = Behind(a) /\ blk' = blk
      BY DEF Still, Behind
    <3> QED BY <2>2, <3>1, <1>2, <1>6 DEF Passed
  <2> QED BY <2>1, <2>2
<1>9. KickSound'
  <2> SUFFICES ASSUME call.kick
               PROVE  /\ ~osalMemStat /\ call.size = HDRSZ + 1
                      /\ \A a \in DOMAIN blk : a < Behind(h) => blk[a].inUse
    BY <1>2 DEF KickSound, Still
  <2>1. /\ ~osalMemStat /\ call.size = HDRSZ + 1
        /\ \A a \in DOMAIN blk : a < h => blk[a].inUse
    BY DEF IInv, CallSound, KickSound
  <2>2. blk[h].inUse
    <3> SUFFICES ASSUME ~blk[h].inUse PROVE FALSE
      OBVIOUS
    <3>1. h # Blocker
      BY DEF IInv, HeapSound, Blocked, Block
    <3>2. blk[h].len > HDRSZ /\ blk[h].len \in Nat /\ HDRSZ \in Nat
      BY <3>1, Order, HeapAssumption DEF IInv, Roomy, HeapAssumption
    <3> QED BY <2>1, <3>2, SMT
  <2> QED BY <2>1, <2>2, BehindHdr
<1>10. FoundSound' /\ call'.pc # "none" /\ call'.size > HDRSZ
  BY <1>2 DEF FoundSound, IInv, CallSound
<1> QED BY <1>4, <1>7, <1>8, <1>9, <1>10, StillKeeps DEF IInv, CallSound
LEMMA UsedKeeps ==
  ASSUME IInv, WalkUsed
  PROVE  IInv'
<1>1. call.hdr \in DOMAIN blk
  BY DEF WalkUsed, IInv, CallSound, WalkSound
<1>2. /\ Still /\ call.pc = "walk" /\ blk[call.hdr].inUse
      /\ Forward(Behind(call.hdr), call.prev, FALSE)
  BY Zenon DEF WalkUsed, Behind, Still
<1>3. call.prev \in 0..End
  BY DEF IInv, TypeOK
<1> QED BY <1>1, <1>2, <1>3, ForwardKeeps, Zenon

(* A block is found among those that the walk has passed or has reached. *)
LEMMA FoundKeeps ==
  ASSUME IInv, Still, call.pc = "walk", call.hdr \in DOMAIN blk, ~blk[call.hdr].inUse,
         blk[call.hdr].len >= call.size, Found(call.hdr)
  PROVE  IInv'
<1>1. /\ call'.pc = "found" /\ call'.hdr = call.hdr /\ call'.kick = call.kick
      /\ call'.size = call.size /\ call' \in Calls
  BY Zenon DEF Found, IInv, TypeOK, Calls
<1>2. TypeOK'
  BY <1>1, StillKeeps DEF TypeOK, Calls
<1>3. CallSound' /\ NullMeansFull'
  BY <1>1 DEF CallSound, WalkSound, FoundSound, KickSound, NullMeansFull, IInv, Still
<1> QED BY <1>2, <1>3, StillKeeps DEF IInv

LEMMA FreeWalkKeeps ==
  ASSUME IInv, WalkFree
  PROVE  IInv'
<1>1. call.hdr \in DOMAIN blk /\ call.hdr \in 0..End
  BY InHeap DEF WalkFree, IInv, CallSound, WalkSound, TypeOK
<1>2. Still /\ call.pc = "walk" /\ ~blk[call.hdr].inUse /\ ~call.coal
  BY DEF WalkFree, Still
<1>3. CASE blk[call.hdr].len >= call.size
  <2>1. Found(call.hdr)
    BY <1>3 DEF WalkFree
  <2> QED BY <2>1, <1>1, <1>2, <1>3, FoundKeeps
<1>4. CASE ~(blk[call.hdr].len >= call.size)
  <2>1. Forward(Behind(call.hdr), call.hdr, TRUE)
    BY <1>4, Zenon DEF WalkFree, Behind
  <2>2. blk[call.hdr].len < call.size
    BY <1>1, <1>4, Order, SMT DEF IInv
  <2> QED BY <2>1, <2>2, <1>1, <1>2, ForwardKeeps, Zenon
<1> QED BY <1>3, <1>4

LEMMA MergeAtKeeps ==
  ASSUME IInv, WalkMerge, NEW p, NEW h, NEW len,
         p = call.prev, h = call.hdr, len = blk[p].len + blk[h].len
  PROVE  IInv'
<1>1. /\ call.pc = "walk" /\ call.coal /\ ~blk[h].inUse /\ ~blk[p].inUse
      /\ p \in DOMAIN blk /\ h \in DOMAIN blk /\ Behind(p) = h
      /\ p >= Starts(call.size) /\ blk' = Merged(p, h)
      /\ ff1' = ff1 /\ osalMemStat' = osalMemStat
  BY DEF WalkMerge, IInv, CallSound, WalkSound
<1>2. /\ TypeOK /\ HeapSound /\ Roomy /\ h >= Starts(call.size)
      /\ p < h /\ len \in Nat
  BY <1>1, Order, SMT DEF IInv, CallSound, WalkSound
<1>3. IF len >= call.size THEN Found(p) ELSE Forward(Behind(h), p, TRUE)
  BY Zenon DEF WalkMerge, Behind
<1>4. /\ DOMAIN blk' = DOMAIN blk \ {h}
      /\ \A a \in DOMAIN blk' : a # p => blk'[a] = blk[a] /\ Behind(a)' = Behind(a)
      /\ p \in DOMAIN blk' /\ ~blk'[p].inUse /\ blk'[p].len = len
      /\ Behind(p)' = Behind(h)
      /\ DOMAIN blk' \subseteq 0..(End - 1)
      /\ \A a \in DOMAIN blk' : blk'[a] \in [len : Nat \ {0}, inUse : BOOLEAN]
      /\ ff1' \in DOMAIN blk' \cup {End}
      /\ Roomy' /\ HeapSound'
  <2>1. p # h
    BY <1>1, <1>2, Order, SMT
  <2> QED BY <2>1, <1>1, <1>2, MergeKeeps
<1>5. ~call.kick
  <2>1. ~call.kick \/ blk[p].inUse
    BY <1>1, <1>2 DEF IInv, CallSound, KickSound
  <2> QED BY <2>1, <1>1
<1>6. (~osalMemStat => ff1 = 0)' /\ osalMemStat' \in BOOLEAN
  BY <1>1 DEF IInv, TypeOK
<1>7. CASE len >= call.size
  <2>1. /\ call'.pc = "found" /\ call'.hdr = p /\ call'.kick = call.kick
        /\ call'.size = call.size
    BY <1>3, <1>7, Zenon DEF Found, IInv, TypeOK
  <2>2. p \in 0..End
    BY <1>1, <1>2, InHeap
  <2>3. call' \in Calls
    BY <1>3, <1>7, <2>2, Zenon DEF Found, IInv, TypeOK, Calls
  <2>4. TypeOK'
    BY <2>3, <1>4, <1>6 DEF TypeOK, Calls
  <2>5. FoundSound'
    BY <2>1, <1>4, <1>7 DEF FoundSound
  <2>6. WalkSound' /\ NullMeansFull' /\ KickSound'
    BY <2>1, <1>5 DEF WalkSound, NullMeansFull, KickSound
  <2>7. call'.pc # "none" /\ call'.size > HDRSZ
    BY <2>1, <1>1 DEF IInv, CallSound
  <2> QED BY <2>4, <2>5, <2>6, <2>7, <1>4, <1>6 DEF IInv, CallSound
<1>8. CASE ~(len >= call.size)
  <2>1. Behind(h) \in DOMAIN blk \cup {End} /\ Behind(h) \in 0..End /\ h < Behind(h)
        /\ h \in Nat /\ Behind(h) \in Nat /\ p \in Nat /\ p \in 0..End
    BY <1>1, <1>2, InHeap, Order, SMT DEF HeapSound, Tiles
  <2>2. Behind(p)' = Behind(h) /\ Behind(h) # h
    BY <2>1, <1>4, SMT
  <2>13. Forward(Behind(h), p, TRUE)
    BY <1>3, <1>8, Zenon
  <2>3. /\ call'.size = call.size /\ call'.kick = call.kick
        /\ Behind(h) = End => call'.pc = "null"
        /\ Behind(h) # End => /\ call'.pc = "walk" /\ call'.hdr = Behind(h)
                              /\ call'.prev = p /\ call'.coal
    <3>1. call \in Calls
      BY DEF IInv, TypeOK, Calls
    <3>2. CASE Behind(h) = End
      <4>1. call' = [call EXCEPT !.pc = "null"]
        BY <3>2, <2>13 DEF Forward
      <4> QED BY <3>1, <3>2, <4>1 DEF Calls
    <3>3. CASE Behind(h) # End
      <4>1. call' = [call EXCEPT !.hdr = Behind(h), !.prev = p, !.coal = TRUE]
        BY <3>3, <2>13 DEF Forward
      <4> QED BY <3>1, <3>3, <4>1, <1>1 DEF Calls
    <3> QED BY <3>2, <3>3
  <2>4. call' \in Calls
    BY <2>13, <2>1, Zenon DEF Forward, IInv, TypeOK, Calls
  <2>5. TypeOK'
    BY <2>4, <1>4, <1>6 DEF TypeOK, Calls
  <2>6. Starts(call.size)' = Starts(call.size) /\ Starts(call.size) \in Nat
    BY <2>3, <1>1, <1>2, StartsAt DEF Starts
  <2>7. len < call.size
    BY <1>2, <1>8, Order, SMT
  <2>8. ASSUME NEW a \in DOMAIN blk', a >= Starts(call.size), ~blk'[a].inUse, a < Behind(h)
        PROVE  /\ blk'[a].len < call.size
               /\ a # p => Behind(a)' \in DOMAIN blk' /\ blk'[Behind(a)'].inUse
    <3>1. CASE a = p
      BY <3>1, <2>7, <1>4
    <3>2. CASE a # p
      <4>1. /\ a \in DOMAIN blk /\ a # h /\ blk'[a] = blk[a] /\ ~blk[a].inUse
            /\ Behind(a)' = Behind(a)
        BY <3>2, <2>8, <1>4
      <4>2. a < h
        BY <4>1, <2>8, <1>1, BehindHdr
      <4>3. Passed(a)
        BY <4>1, <4>2, <2>8, <1>1 DEF IInv, CallSound, WalkSound
      <4>4. /\ blk[a].len < call.size
            /\ Behind(a) \in DOMAIN blk /\ blk[Behind(a)].inUse
        BY <4>3, <3>2 DEF Passed
      <4>5. Behind(a) # h /\ Behind(a) # p
        BY <4>4, <1>1
      <4> QED BY <4>1, <4>4, <4>5, <1>4
    <3> QED BY <3>1, <3>2
  <2>9. NullMeansFull'
    <3> SUFFICES ASSUME Behind(h) = End,
                        NEW a \in DOMAIN blk', a >= Starts(call.size), ~blk'[a].inUse
                 PROVE  /\ blk'[a].len < call.size
                        /\ Behind(a)' = End \/ blk'[Behind(a)'].inUse
      BY <2>3, <2>6 DEF NullMeansFull
    <3>1. a \in DOMAIN blk
      BY <1>4
    <3>2. a < Behind(h)
      BY <3>1, <1>2, Order
    <3> QED BY <3>2, <2>2, <2>8
  <2>10. WalkSound'
    <3> SUFFICES ASSUME Behind(h) # End
                 PROVE  /\ Behind(h) \in DOMAIN blk' /\ Behind(h) >= Starts(call.size)
                        /\ p \in DOMAIN blk' /\ ~blk'[p].inUse /\ Behind(p)' = Behind(h)
                        /\ p >= Starts(call.size)
                        /\ \A a \in DOMAIN blk' :
                             a >= Starts(call.size) /\ a < Behind(h) /\ ~blk'[a].inUse
                               => Passed(a)'
      BY <2>3, <2>6 DEF WalkSound
    <3>1. Behind(h) \in DOMAIN blk' /\ Behind(h) >= Starts(call.size)
      BY <2>1, <2>2, <2>6, <1>2, <1>4, SMT
    <3>2. ASSUME NEW a \in DOMAIN blk', a >= Starts(call.size), a < Behind(h),
                 ~blk'[a].inUse
          PROVE  Passed(a)'
      BY <3>2, <2>3, <2>8 DEF Passed
    <3> QED BY <3>1, <3>2, <2>2, <1>1, <1>4
  <2>11. CallSound'
    <3>1. FoundSound' /\ KickSound'
      BY <2>3, <1>5 DEF FoundSound, KickSound
    <3>2. call'.pc # "none" /\ call'.size > HDRSZ
      BY <2>3, <1>1 DEF IInv, CallSound
    <3> QED BY <2>10, <3>1, <3>2 DEF CallSound
  <2> QED BY <2>5, <2>9, <2>11, <1>4, <1>6 DEF IInv
<1> QED BY <1>7, <1>8

LEMMA MergeWalkKeeps ==
  ASSUME IInv, WalkMerge
  PROVE  IInv'
BY MergeAtKeeps

-----------------------------------------------------------------------------
(* The ends of an allocation: the block found is cut or taken whole. *)
LEMMA TakenKeeps ==
  ASSUME TypeOK, HeapSound, Roomy, NEW h \in DOMAIN blk, NEW size \in Nat,
         NEW u \in BOOLEAN, ~blk[h].inUse, size > HDRSZ, blk[h].len >= size,
         blk' = Taken(h, size, u)
  PROVE  /\ DOMAIN blk' \subseteq 0..(End - 1)
         /\ \A a \in DOMAIN blk' : blk'[a] \in [len : Nat \ {0}, inUse : BOOLEAN]
         /\ Roomy' /\ Tiles' /\ Blocked'
         /\ h \in DOMAIN blk' /\ (blk'[h].inUse <=> u)
         /\ Behind(h)' = h + Length(h, size)
         /\ DOMAIN blk \subseteq DOMAIN blk'
         /\ \A a \in DOMAIN blk' : a # h => (a \in DOMAIN blk /\ blk'[a] = blk[a])
                                     \/ (a \in Nat /\ h < a)
<1>1. CASE Splits(h, size)
  <2>1. Length(h, size) = size
    BY <1>1 DEF Length
  <2>2. /\ DOMAIN blk' = DOMAIN blk \cup {h + size}
        /\ \A a \in DOMAIN blk : a # h => blk'[a] = blk[a]
        /\ blk'[h] = Block(size, u) /\ Behind(h)' = h + size
        /\ h + size \in Nat /\ h < h + size
        /\ DOMAIN blk' \subseteq 0..(End - 1)
        /\ \A a \in DOMAIN blk' : blk'[a] \in [len : Nat \ {0}, inUse : BOOLEAN]
        /\ Roomy' /\ Tiles' /\ Blocked'
    BY <1>1, SplitKeeps, Zenon
  <2>3. blk'[h].inUse <=> u
    BY <2>2 DEF Block
  <2>4. \A a \in DOMAIN blk' : a # h => (a \in DOMAIN blk /\ blk'[a] = blk[a])
                                     \/ (a \in Nat /\ h < a)
    BY <2>2, Zenon
  <2>5. h \in DOMAIN blk' /\ DOMAIN blk \subseteq DOMAIN blk'
    BY <2>2, Zenon
  <2> QED BY <2>1, <2>2, <2>3, <2>4, <2>5, Zenon
<1>2. CASE ~Splits(h, size)
  <2>1. blk' = [blk EXCEPT ![h] = Block(blk[h].len, u)] /\ Length(h, size) = blk[h].len
    BY <1>2 DEF Taken, Length
  <2>2. h # Blocker
    BY DEF HeapSound, Blocked, Block
  <2>3. Behind(h) = h + blk[h].len
    BY DEF Behind
  <2>4. /\ DOMAIN blk' = DOMAIN blk
        /\ \A a \in DOMAIN blk : a # h => blk'[a] = blk[a]
        /\ blk'[h] = Block(blk[h].len, u) /\ Behind(h)' = Behind(h)
        /\ DOMAIN blk' \subseteq 0..(End - 1)
        /\ \A a \in DOMAIN blk' : blk'[a] \in [len : Nat \ {0}, inUse : BOOLEAN]
        /\ Roomy' /\ Tiles' /\ Blocked'
    BY <2>1, <2>2, MarkKeeps, Zenon
  <2>5. blk'[h].inUse <=> u
    BY <2>4 DEF Block
  <2>6. \A a \in DOMAIN blk' : a # h => (a \in DOMAIN blk /\ blk'[a] = blk[a])
                                     \/ (a \in Nat /\ h < a)
    BY <2>4, Zenon
  <2>7. h \in DOMAIN blk' /\ DOMAIN blk \subseteq DOMAIN blk'
    BY <2>4, Zenon
  <2> QED BY <2>1, <2>3, <2>4, <2>5, <2>6, <2>7, Zenon
<1> QED BY <1>1, <1>2

(* Nothing is asked of an allocation that is over. *)
LEMMA ReturnSound ==
  ASSUME IInv, Return
  PROVE  /\ call' \in Calls
         /\ CallSound' /\ NullMeansFull'
<1>1. call' \in Calls /\ call'.pc = "none" /\ ~call'.kick
  BY Zenon DEF Return, IInv, TypeOK, Calls
<1> QED
  BY <1>1 DEF CallSound, WalkSound, FoundSound, KickSound, NullMeansFull

LEMMA DoneKeeps ==
  ASSUME IInv, AllocDone, NEW h, NEW size, h = call.hdr, size = call.size
  PROVE  IInv'
<1>1. /\ h \in DOMAIN blk /\ ~blk[h].inUse /\ blk[h].len >= size /\ size > HDRSZ
      /\ size \in Nat /\ TypeOK /\ HeapSound /\ Roomy
  BY Order DEF AllocDone, IInv, CallSound, FoundSound
<1>2. /\ blk' = Taken(h, size, TRUE) /\ ff1' = NextFf1(h, size) /\ Return
      /\ osalMemStat' = osalMemStat
  BY DEF AllocDone
<1>3. /\ DOMAIN blk' \subseteq 0..(End - 1)
      /\ \A a \in DOMAIN blk' : blk'[a] \in [len : Nat \ {0}, inUse : BOOLEAN]
      /\ Roomy' /\ Tiles' /\ Blocked'
      /\ h \in DOMAIN blk' /\ blk'[h].inUse
      /\ Behind(h)' = h + Length(h, size)
      /\ DOMAIN blk \subseteq DOMAIN blk'
      /\ \A a \in DOMAIN blk' : a # h => (a \in DOMAIN blk /\ blk'[a] = blk[a])
                                     \/ (a \in Nat /\ h < a)
  BY <1>1, <1>2, TakenKeeps, Zenon
<1>4. h \in Nat /\ ff1 \in Nat /\ h >= ff1
  BY <1>1, Order, SMT DEF HeapSound, FirstFree
<1>5. CASE osalMemStat /\ ff1 = h
  <2>1. ff1' = Behind(h)'
    BY <1>2, <1>3, <1>5 DEF NextFf1
  <2>2. ff1' \in DOMAIN blk' \cup {End}
    BY <2>1, <1>3 DEF Tiles
  <2>3. ASSUME NEW a \in DOMAIN blk', a < ff1' PROVE blk'[a].inUse
    <3>1. a \in Nat /\ ff1' \in Nat
      BY <1>3, <2>2, Places, SMT
    <3>2. ~(h < a)
      <4> SUFFICES ASSUME h < a PROVE FALSE
        OBVIOUS
      <4>1. Behind(h)' <= a
        BY <1>3 DEF Tiles
      <4> QED BY <4>1, <2>1, <2>3, <3>1, SMT
    <3>3. CASE a = h
      BY <3>3, <1>3
    <3>4. CASE a # h
      <4>1. a \in DOMAIN blk /\ blk'[a] = blk[a] /\ a < ff1
        BY <3>1, <3>2, <3>4, <1>3, <1>4, <1>5, SMT
      <4> QED BY <4>1, <1>1 DEF HeapSound, FirstFree
    <3> QED BY <3>3, <3>4
  <2>4. HeapSound'
    BY <2>3, <1>3 DEF HeapSound, FirstFree
  <2>5. TypeOK'
    BY <2>2, <1>1, <1>2, <1>3, ReturnSound, Zenon DEF TypeOK, Calls
  <2>6. (~osalMemStat => ff1 = 0)'
    BY <1>2, <1>5
  <2> QED BY <2>4, <2>5, <2>6, <1>2, <1>3, ReturnSound DEF IInv
<1>6. CASE ~(osalMemStat /\ ff1 = h)
  <2>1. ff1' = ff1
    BY <1>2, <1>6 DEF NextFf1
  <2>2. ff1' \in DOMAIN blk' \cup {End}
    BY <2>1, <1>1, <1>3 DEF TypeOK
  <2>3. ASSUME NEW a \in DOMAIN blk', a < ff1 PROVE blk'[a].inUse
    <3>1. a \in Nat
      BY <1>3, SMT
    <3>2. a # h /\ ~(h < a)
      BY <3>1, <2>3, <1>4, SMT
    <3>3. a \in DOMAIN blk /\ blk'[a] = blk[a]
      BY <3>2, <1>3
    <3> QED BY <3>3, <2>3, <1>1 DEF HeapSound, FirstFree
  <2>4. HeapSound'
    BY <2>1, <2>3, <1>3 DEF HeapSound, FirstFree
  <2>5. TypeOK'
    BY <2>2, <1>1, <1>2, <1>3, ReturnSound, Zenon DEF TypeOK, Calls
  <2>6. (~osalMemStat => ff1 = 0)'
    BY <1>2, <2>1 DEF IInv
  <2> QED BY <2>4, <2>5, <2>6, <1>2, <1>3, ReturnSound DEF IInv
<1> QED BY <1>5, <1>6

LEMMA KickDoneKeeps ==
  ASSUME IInv, KickDone, NEW h, NEW size, h = call.hdr, size = call.size
  PROVE  IInv'
<1>1. /\ h \in DOMAIN blk /\ ~blk[h].inUse /\ blk[h].len >= size /\ size > HDRSZ
      /\ size \in Nat /\ TypeOK /\ HeapSound /\ Roomy
      /\ \A a \in DOMAIN blk : a < h => blk[a].inUse
  BY Order DEF KickDone, IInv, CallSound, FoundSound, KickSound
<1>2. blk' = Taken(h, size, FALSE) /\ ff1' = h /\ Return /\ osalMemStat' = TRUE
  BY DEF KickDone
<1>3. /\ DOMAIN blk' \subseteq 0..(End - 1)
      /\ \A a \in DOMAIN blk' : blk'[a] \in [len : Nat \ {0}, inUse : BOOLEAN]
      /\ Roomy' /\ Tiles' /\ Blocked'
      /\ h \in DOMAIN blk'
      /\ \A a \in DOMAIN blk' : a # h => (a \in DOMAIN blk /\ blk'[a] = blk[a])
                                     \/ (a \in Nat /\ h < a)
  BY <1>1, <1>2, TakenKeeps, Zenon
<1>4. ASSUME NEW a \in DOMAIN blk', a < h PROVE blk'[a].inUse
  <2>1. a # h /\ ~(h < a)
    BY <1>1, <1>3, <1>4, Order, SMT
  <2> QED BY <2>1, <1>1, <1>3, <1>4
<1>5. HeapSound'
  BY <1>2, <1>3, <1>4, Zenon DEF HeapSound, FirstFree
<1>6. TypeOK'
  BY <1>2, <1>3, ReturnSound, Zenon DEF TypeOK, Calls
<1> QED BY <1>2, <1>3, <1>5, <1>6, ReturnSound DEF IInv

LEMMA NullKeeps ==
  ASSUME IInv, AllocNull
  PROVE  IInv'
<1>1. Still /\ Return
  BY DEF AllocNull, Still
<1>2. TypeOK'
  BY <1>1, StillKeeps, ReturnSound DEF TypeOK, Calls
<1> QED BY <1>1, <1>2, StillKeeps, ReturnSound DEF IInv

LEMMA FreeKeeps ==
  ASSUME IInv, Free
  PROVE  IInv'
<1>1. PICK a \in DOMAIN blk \ {Blocker} :
        /\ blk[a].inUse
        /\ blk' = [blk EXCEPT ![a] = Block(blk[a].len, FALSE)]
        /\ ff1' = Lower(a)
  BY Zenon DEF Free
<1>2. call.pc = "none" /\ call' = call /\ osalMemStat' = osalMemStat
  BY DEF Free
<1>3. TypeOK /\ HeapSound /\ Roomy
  BY DEF IInv
<1>4. /\ DOMAIN blk' = DOMAIN blk
      /\ \A x \in DOMAIN blk : x # a => blk'[x] = blk[x]
      /\ \A x \in DOMAIN blk' : blk'[x] \in [len : Nat \ {0}, inUse : BOOLEAN]
      /\ Roomy' /\ Tiles' /\ Blocked'
  BY <1>1, <1>3, MarkKeeps, Zenon
<1>5. a \in Nat /\ ff1 \in Nat /\ (ff1' = IF ff1 > a THEN a ELSE ff1)
  BY <1>1, <1>3, Order DEF Lower
<1>6. ff1' \in DOMAIN blk' \cup {End}
  BY <1>1, <1>3, <1>4, <1>5 DEF TypeOK
<1>7. ASSUME NEW x \in DOMAIN blk', x < ff1' PROVE blk'[x].inUse
  <2>1. x \in DOMAIN blk /\ x # a /\ x < ff1
    BY <1>3, <1>4, <1>5, <1>7, Order, SMT
  <2> QED BY <2>1, <1>3, <1>4 DEF HeapSound, FirstFree
<1>8. HeapSound'
  BY <1>4, <1>7 DEF HeapSound, FirstFree
<1>9. TypeOK'
  BY <1>2, <1>3, <1>4, <1>6 DEF TypeOK
<1>10. (~osalMemStat => ff1 = 0)'
  BY <1>1, <1>2, <1>5, SMT DEF IInv
<1>11. CallSound' /\ NullMeansFull'
  BY <1>2 DEF IInv, CallSound, WalkSound, FoundSound, KickSound, NullMeansFull
<1> QED BY <1>4, <1>8, <1>9, <1>10, <1>11 DEF IInv

LEMMA InitKeeps ==
  ASSUME Init
  PROVE  IInv
<1> DEFINE D == {0, Blocker, Wilderness}
<1>1. /\ DOMAIN blk = D
      /\ blk[0] = Block(BUCKET, FALSE) /\ blk[Blocker] = Block(HDRSZ, TRUE)
      /\ blk[Wilderness] = Block(BIGBLK_SZ, FALSE)
  <2>1. Blocker # 0 /\ Wilderness # 0 /\ Wilderness # Blocker
    BY Places, SMT
  <2> QED BY <2>1, Zenon DEF Init
<1>2. ff1 = 0 /\ osalMemStat = FALSE
      /\ call = [pc |-> "none", kick |-> FALSE, size |-> 0, hdr |-> 0, prev |-> 0,
                 coal |-> FALSE]
  BY DEF Init
<1>3. /\ HDRSZ \in Nat \ {0} /\ BUCKET \in Nat /\ BUCKET > HDRSZ
      /\ BIGBLK_SZ \in Nat /\ BIGBLK_SZ > HDRSZ
  BY HeapAssumption DEF HeapAssumption
<1>4. /\ Behind(0) = Blocker /\ Behind(Blocker) = Wilderness /\ Behind(Wilderness) = End
  BY <1>1, <1>3, SMT DEF Behind, Block, Blocker, Wilderness, End
<1>5. D \subseteq 0..(End - 1)
  <2>1. 0 \in 0..(End - 1) /\ Blocker \in 0..(End - 1) /\ Wilderness \in 0..(End - 1)
    BY Places, SMT
  <2> QED BY <2>1
<1>6. \A a \in DOMAIN blk : blk[a] \in [len : Nat \ {0}, inUse : BOOLEAN]
  <2>1. BUCKET \in Nat \ {0} /\ HDRSZ \in Nat \ {0} /\ BIGBLK_SZ \in Nat \ {0}
    BY <1>3, SMT
  <2>2. \A l \in Nat \ {0}, u \in BOOLEAN : Block(l, u) \in [len : Nat \ {0}, inUse : BOOLEAN]
    BY DEF Block
  <2>3. \A a \in DOMAIN blk : a = 0 \/ a = Blocker \/ a = Wilderness
    BY <1>1
  <2> QED BY <2>1, <2>2, <2>3, <1>1, Zenon
<1>7. call \in Calls
  BY <1>2, Places, SMT DEF Calls
<1>8. TypeOK
  BY <1>1, <1>2, <1>5, <1>6, <1>7, Zenon DEF TypeOK, Calls
<1>9. Tiles
  <2>1. \A a \in D : Behind(a) \in D \cup {End}
    BY <1>4
  <2>2. \A a, b \in D : a < b => Behind(a) <= b
    BY <1>4, Places, SMT
  <2> QED BY <2>1, <2>2, <1>1 DEF Tiles
<1>10. FirstFree
  BY <1>1, <1>2, Places, SMT DEF FirstFree
<1>11. Roomy
  BY <1>1, <1>3 DEF Roomy, Block
<1>12. CallSound /\ NullMeansFull
  BY <1>2 DEF CallSound, WalkSound, FoundSound, KickSound, NullMeansFull
<1> QED BY <1>1, <1>2, <1>8, <1>9, <1>10, <1>11, <1>12 DEF IInv, HeapSound, Blocked

-----------------------------------------------------------------------------
(* Every step keeps the blocks and the walk sound. *)
LEMMA StepKeeps ==
  ASSUME IInv, [Next]_vars
  PROVE  IInv'
<1>1. CASE Alloc
  <2>1. PICK n \in Request : Enter(n, FALSE)
    BY <1>1, Zenon DEF Alloc
  <2>2. n \in Nat \ {0}
    BY HeapAssumption DEF HeapAssumption
  <2> QED BY <2>1, <2>2, EnterKeeps, Zenon
<1>2. CASE KickEnter
  <2>1. ~osalMemStat /\ Enter(1, TRUE)
    BY <1>2, Zenon DEF KickEnter
  <2>2. 1 \in Nat \ {0} /\ TRUE \in BOOLEAN
    BY SMT
  <2> QED BY <2>1, <2>2, EnterKeeps, Zenon
<1>3. CASE Walk
  BY <1>3, NothingKeeps, UsedKeeps, FreeWalkKeeps, MergeWalkKeeps DEF Walk
<1>4. CASE AllocDone
  BY <1>4, DoneKeeps
<1>5. CASE AllocNull
  BY <1>5, NullKeeps
<1>6. CASE KickDone
  BY <1>6, KickDoneKeeps
<1>7. CASE Free
  BY <1>7, FreeKeeps
<1>8. CASE KickFailed \/ UNCHANGED vars
  <2>1. Still /\ call' = call
    BY <1>8 DEF KickFailed, vars, Still
  <2>2. TypeOK'
    BY <2>1 DEF Still, IInv, TypeOK
  <2>3. NullMeansFull'
    BY <2>1 DEF Still, IInv, NullMeansFull, Behind, Starts
  <2>4. WalkSound'
    BY <2>1 DEF Still, IInv, CallSound, WalkSound, Passed, Behind, Starts
  <2>5. CallSound'
    BY <2>1, <2>4 DEF Still, IInv, CallSound, FoundSound, KickSound
  <2> QED BY <2>1, <2>2, <2>3, <2>5, StillKeeps DEF IInv
<1> QED BY <1>1, <1>2, <1>3, <1>4, <1>5, <1>6, <1>7, <1>8 DEF Next

THEOREM Invariant == Spec => []IInv
<1>1. Init => IInv
  BY InitKeeps
<1>2. IInv /\ [Next]_vars => IInv'
  BY StepKeeps
<1> QED BY <1>1, <1>2, PTL DEF Spec

(* osal_mem_alloc and osal_mem_free keep the headers, ff1 and the walk     *)
(* within the heap, whatever is asked of them.                             *)
THEOREM TypeCorrect == Spec => []TypeOK
<1>1. IInv => TypeOK
  BY DEF IInv
<1> QED BY <1>1, Invariant, PTL

(* The blocks tile the heap for ever, the blocker is never merged into     *)
(* another block, and no free block lies before ff1.                       *)
THEOREM HeapIsSound == Spec => []HeapSound
<1>1. IInv => HeapSound
  BY DEF IInv
<1> QED BY <1>1, Invariant, PTL

(* osal_mem_alloc returns NULL only when no run of free blocks from where  *)
(* it began is long enough.                                                *)
THEOREM NullIsFull == Spec => []NullMeansFull
<1>1. IInv => NullMeansFull
  BY DEF IInv
<1> QED BY <1>1, Invariant, PTL
-----------------------------------------------------------------------------
(* What the callers hold, block by block. *)
UsedAt == {a \in DOMAIN blk : blk[a].inUse /\ a # Blocker}

PieceAt(a) == [from |-> a + HDRSZ, to |-> Behind(a)]

LEMMA HeldIs ==
  /\ Held = {PieceAt(a) : a \in UsedAt}
  /\ Held' = {PieceAt(a)' : a \in UsedAt'}
BY DEF Held, PieceAt, UsedAt

(* Steps that leave the used blocks alone leave the pieces alone. *)
LEMMA SameHeld ==
  ASSUME UsedAt' = UsedAt, \A a \in UsedAt : Behind(a)' = Behind(a)
  PROVE  Held' = Held
<1>1. \A a \in UsedAt : PieceAt(a)' = PieceAt(a)
  BY DEF PieceAt
<1> QED BY <1>1, HeldIs, Zenon

(* Two blocks in use hold different pieces, and pieces that are apart. *)
LEMMA PiecesDiffer ==
  ASSUME IInv, NEW a \in DOMAIN blk, NEW b \in DOMAIN blk, a # b
  PROVE  PieceAt(a) # PieceAt(b)
<1>1. a \in Nat /\ b \in Nat /\ HDRSZ \in Nat
  BY Order, HeapAssumption DEF IInv, HeapAssumption
<1>2. a + HDRSZ # b + HDRSZ
  BY <1>1, SMT
<1> QED BY <1>2 DEF PieceAt

(* A block that is cut or taken leaves the others as they are, and what is *)
(* cut off it is free.                                                     *)
LEMMA TakenRest ==
  ASSUME IInv, NEW h \in DOMAIN blk, NEW size \in Nat,
         NEW u \in BOOLEAN, ~blk[h].inUse, size > HDRSZ, blk[h].len >= size,
         blk' = Taken(h, size, u)
  PROVE  /\ \A a \in DOMAIN blk : a # h => blk'[a] = blk[a] /\ Behind(a)' = Behind(a)
         /\ \A a \in DOMAIN blk' : a \in DOMAIN blk \/ ~blk'[a].inUse
         /\ DOMAIN blk \subseteq DOMAIN blk'
         /\ h # Blocker /\ Blocker \in DOMAIN blk
<1>1. TypeOK /\ HeapSound /\ Roomy
  BY DEF IInv
<1>2. h # Blocker /\ Blocker \in DOMAIN blk
  BY <1>1 DEF HeapSound, Tiles, Blocked, Block
<1>3. CASE Splits(h, size)
  <2>1. /\ DOMAIN blk' = DOMAIN blk \cup {h + size}
        /\ \A a \in DOMAIN blk : a # h => blk'[a] = blk[a] /\ Behind(a)' = Behind(a)
        /\ blk'[h + size] = Block(blk[h].len - size, FALSE)
    BY <1>1, <1>3, SplitKeeps, Zenon
  <2>2. ~blk'[h + size].inUse
    BY <2>1 DEF Block
  <2> QED BY <2>1, <2>2, <1>2, Zenon
<1>4. CASE ~Splits(h, size)
  <2>1. blk' = [blk EXCEPT ![h] = Block(blk[h].len, u)]
    BY <1>4 DEF Taken
  <2>2. /\ DOMAIN blk' = DOMAIN blk
        /\ \A a \in DOMAIN blk : a # h => blk'[a] = blk[a]
        /\ \A a \in DOMAIN blk : Behind(a)' = Behind(a)
    BY <1>1, <1>2, <2>1, MarkKeeps, Zenon
  <2> QED BY <2>2, <1>2, Zenon
<1> QED BY <1>3, <1>4

(* A walk, and osal_mem_kick, hold nothing. *)
LEMMA MergeHolds ==
  ASSUME IInv, WalkMerge, NEW p, NEW h, p = call.prev, h = call.hdr
  PROVE  Held' = Held
<1>1. /\ TypeOK /\ HeapSound /\ Roomy
      /\ p \in DOMAIN blk /\ h \in DOMAIN blk /\ ~blk[p].inUse /\ ~blk[h].inUse
      /\ Behind(p) = h /\ blk' = Merged(p, h) /\ ff1' = ff1
  BY DEF WalkMerge, IInv, CallSound, WalkSound
<1>2. /\ DOMAIN blk' = DOMAIN blk \ {h}
      /\ \A a \in DOMAIN blk' : a # p => blk'[a] = blk[a] /\ Behind(a)' = Behind(a)
      /\ p \in DOMAIN blk' /\ ~blk'[p].inUse
  <2>1. p # h
    BY <1>1, Order, SMT
  <2>2. DOMAIN blk' = DOMAIN blk \ {h} /\ p \in DOMAIN blk'
    BY <2>1, <1>1 DEF Merged
  <2>3. \A a \in DOMAIN blk' : a # p => blk'[a] = blk[a] /\ Behind(a)' = Behind(a)
    BY <1>1 DEF Merged, Behind
  <2>4. ~blk'[p].inUse
    BY <2>2, <1>1 DEF Merged, Block
  <2> QED BY <2>2, <2>3, <2>4
<1>3. UsedAt' = UsedAt
  BY <1>1, <1>2 DEF UsedAt
<1>4. \A a \in UsedAt : Behind(a)' = Behind(a)
  BY <1>1, <1>2 DEF UsedAt
<1> QED BY <1>3, <1>4, SameHeld

LEMMA KickHolds ==
  ASSUME IInv, KickDone, NEW h, NEW size, h = call.hdr, size = call.size
  PROVE  Held' = Held
<1>1. /\ h \in DOMAIN blk /\ ~blk[h].inUse /\ blk[h].len >= size /\ size > HDRSZ
      /\ size \in Nat /\ blk' = Taken(h, size, FALSE)
      /\ TypeOK /\ HeapSound /\ Roomy
  BY Order DEF KickDone, IInv, CallSound, FoundSound
<1>2. ~blk'[h].inUse
  BY <1>1, TakenKeeps, Zenon
<1>3. /\ \A a \in DOMAIN blk : a # h => blk'[a] = blk[a] /\ Behind(a)' = Behind(a)
      /\ \A a \in DOMAIN blk' : a \in DOMAIN blk \/ ~blk'[a].inUse
      /\ DOMAIN blk \subseteq DOMAIN blk'
  BY <1>1, TakenRest, Zenon
<1>4. UsedAt' = UsedAt
  BY <1>1, <1>2, <1>3, Zenon DEF UsedAt
<1>5. \A a \in UsedAt : Behind(a)' = Behind(a)
  BY <1>1, <1>3, Zenon DEF UsedAt
<1> QED BY <1>4, <1>5, SameHeld

LEMMA QuietHolds ==
  ASSUME blk' = blk
  PROVE  Held' = Held
<1>1. \A a : Behind(a)' = Behind(a)
  BY DEF Behind
<1>2. UsedAt' = UsedAt
  BY DEF UsedAt
<1> QED BY <1>1, <1>2, SameHeld

(* The end of an allocation adds the one piece that was asked for. *)
LEMMA DoneMaps ==
  ASSUME IInv, IInv', AllocDone, NEW h, NEW size, h = call.hdr, size = call.size,
         NEW n \in Request, size = n + HDRSZ
  PROVE  Heap!Alloc(n)
<1>1. /\ h \in DOMAIN blk /\ ~blk[h].inUse /\ blk[h].len >= size /\ size > HDRSZ
      /\ size \in Nat /\ blk' = Taken(h, size, TRUE)
      /\ TypeOK /\ HeapSound /\ Roomy
  BY Order DEF AllocDone, IInv, CallSound, FoundSound
<1>2. blk'[h].inUse /\ h \in DOMAIN blk' /\ Behind(h)' = h + Length(h, size)
  BY <1>1, TakenKeeps, Zenon
<1>3. /\ \A a \in DOMAIN blk : a # h => blk'[a] = blk[a] /\ Behind(a)' = Behind(a)
      /\ \A a \in DOMAIN blk' : a \in DOMAIN blk \/ ~blk'[a].inUse
      /\ DOMAIN blk \subseteq DOMAIN blk'
      /\ h # Blocker
  BY <1>1, TakenRest, Zenon
<1> DEFINE p == PieceAt(h)'
<1>4. UsedAt' = UsedAt \cup {h} /\ h \notin UsedAt
  BY <1>1, <1>2, <1>3, Zenon DEF UsedAt
<1>5. \A a \in UsedAt : PieceAt(a)' = PieceAt(a)
  BY <1>1, <1>3, Zenon DEF UsedAt, PieceAt
<1>6. \A a \in UsedAt : PieceAt(a)' # p
  <2> SUFFICES ASSUME NEW a \in UsedAt PROVE PieceAt(a)' # p
    OBVIOUS
  <2>1. a \in Nat /\ h \in Nat /\ HDRSZ \in Nat /\ a # h
    BY <1>1, Order, HeapAssumption DEF UsedAt, HeapAssumption
  <2>2. a + HDRSZ # h + HDRSZ
    BY <2>1, SMT
  <2>3. PieceAt(a)'.from = a + HDRSZ /\ p.from = h + HDRSZ
    BY DEF PieceAt
  <2> QED BY <2>2, <2>3
<1>7. Held' = Held \cup {p}
  BY <1>4, <1>5, HeldIs, Zenon
<1>8. p \notin Held
  BY <1>5, <1>6, HeldIs, Zenon
<1>9. /\ h \in Nat /\ HDRSZ \in Nat /\ n \in Nat /\ blk[h].len \in Nat
      /\ Behind(h)' \in Nat /\ Behind(h)' <= End /\ End \in Nat
  <2>1. h \in Nat /\ HDRSZ \in Nat /\ n \in Nat /\ blk[h].len \in Nat
    BY <1>1, Order, HeapAssumption DEF HeapAssumption
  <2>2. Behind(h)' \in DOMAIN blk' \cup {End} /\ DOMAIN blk' \subseteq 0..(End - 1)
    BY <1>2 DEF IInv, HeapSound, Tiles, TypeOK
  <2> QED BY <2>1, <2>2, Places, SMT
<1>10. h + size <= Behind(h)'
  BY <1>1, <1>2, <1>9, SMT DEF Length
<1>11. p.from = h + HDRSZ /\ p.to = Behind(h)'
  BY DEF PieceAt
<1>12. p \in Heap!Piece
  <2>1. h + HDRSZ \in 0..End /\ Behind(h)' \in 0..End
    BY <1>1, <1>9, <1>10, SMT
  <2> QED BY <2>1 DEF Heap!Piece, PieceAt
<1>13. p.from + n <= p.to
  BY <1>9, <1>10, <1>11, SMT
<1>14. ASSUME NEW a \in UsedAt PROVE Heap!Apart(p, PieceAt(a))
  <2>1. a \in DOMAIN blk /\ a \in DOMAIN blk' /\ a # h /\ a \in Nat
        /\ Behind(a) \in Nat /\ Behind(a)' = Behind(a)
    BY <1>1, <1>3, <1>14, Order, Zenon DEF UsedAt
  <2>2. PieceAt(a).from = a + HDRSZ /\ PieceAt(a).to = Behind(a)
    BY DEF PieceAt
  <2>3. CASE a < h
    <3>1. Behind(a) <= h
      BY <2>1, <2>3, <1>1 DEF HeapSound, Tiles
    <3> QED BY <3>1, <2>1, <2>2, <1>9, <1>11, SMT DEF Heap!Apart
  <2>4. CASE h < a
    <3>1. Behind(h)' <= a
      BY <2>1, <2>4, <1>2 DEF IInv, HeapSound, Tiles
    <3> QED BY <3>1, <2>1, <2>2, <1>9, <1>11, SMT DEF Heap!Apart
  <2> QED BY <2>1, <2>3, <2>4, <1>9, SMT
<1> HIDE DEF p
<1>15. \A q \in Held : Heap!Apart(p, q)
  BY <1>14, HeldIs, Zenon
<1>16. p \in Held' \ Held
  BY <1>7, <1>8
<1> QED BY <1>7, <1>12, <1>13, <1>15, <1>16 DEF Heap!Alloc

(* A free gives up one piece, and no other. *)
LEMMA FreeMaps ==
  ASSUME IInv, Free
  PROVE  Heap!Free
<1>1. PICK a \in DOMAIN blk \ {Blocker} :
        /\ blk[a].inUse
        /\ blk' = [blk EXCEPT ![a] = Block(blk[a].len, FALSE)]
  BY Zenon DEF Free
<1>2. TypeOK /\ HeapSound /\ Roomy
  BY DEF IInv
<1>3. /\ DOMAIN blk' = DOMAIN blk
      /\ \A x \in DOMAIN blk : Behind(x)' = Behind(x)
      /\ \A x \in DOMAIN blk : x # a => blk'[x] = blk[x]
      /\ blk'[a] = Block(blk[a].len, FALSE)
  BY <1>1, <1>2, MarkKeeps, Zenon
<1>4. UsedAt' = UsedAt \ {a} /\ a \in UsedAt
  BY <1>1, <1>3 DEF UsedAt, Block
<1>5. \A x \in UsedAt : PieceAt(x)' = PieceAt(x)
  BY <1>3 DEF UsedAt, PieceAt
<1>6. \A x \in UsedAt \ {a} : PieceAt(x) # PieceAt(a)
  BY <1>1, PiecesDiffer DEF UsedAt
<1>7. Held' = Held \ {PieceAt(a)} /\ PieceAt(a) \in Held
  BY <1>4, <1>5, <1>6, HeldIs, Zenon
<1> QED BY <1>7 DEF Heap!Free

(* What is allocated has been asked for. *)
Asked ==
  call.pc # "none" /\ ~call.kick => \E n \in Request : call.size = n + HDRSZ

LEMMA AskedKeeps ==
  ASSUME IInv, Asked, [Next]_vars
  PROVE  Asked'
<1>1. CASE Alloc \/ KickEnter
  BY <1>1 DEF Alloc, KickEnter, Enter, Asked
<1>2. CASE Walk
  <2>1. call.pc = "walk" /\ call'.kick = call.kick /\ call'.size = call.size
    BY <1>2, Zenon DEF Walk, WalkNothing, WalkUsed, WalkFree, WalkMerge, Forward, Found, IInv, TypeOK
  <2> QED BY <2>1 DEF Asked
<1>3. CASE AllocDone \/ AllocNull \/ KickDone
  <2>1. call'.pc = "none"
    BY <1>3, Zenon DEF AllocDone, AllocNull, KickDone, Return, IInv, TypeOK
  <2> QED BY <2>1 DEF Asked
<1>4. CASE KickFailed \/ Free \/ UNCHANGED vars
  BY <1>4, Zenon DEF KickFailed, Free, vars, Asked
<1> QED BY <1>1, <1>2, <1>3, <1>4 DEF Next

LEMMA StepMaps ==
  ASSUME IInv, IInv', Asked, [Next]_vars
  PROVE  [Heap!Next]_Held
<1>1. CASE AllocDone
  <2>1. PICK n \in Request : call.size = n + HDRSZ
    BY <1>1 DEF AllocDone, Asked
  <2>2. Heap!Alloc(n)
    BY <1>1, <2>1, DoneMaps
  <2> QED BY <2>2 DEF Heap!Next
<1>2. CASE Free
  BY <1>2, FreeMaps DEF Heap!Next
<1>3. CASE WalkMerge
  BY <1>3, MergeHolds
<1>4. CASE KickDone
  BY <1>4, KickHolds
<1>5. CASE Alloc \/ KickEnter \/ WalkNothing \/ WalkUsed \/ WalkFree \/ AllocNull
           \/ KickFailed \/ UNCHANGED vars
  BY <1>5, QuietHolds, Zenon DEF Alloc, KickEnter, Enter, WalkNothing, WalkUsed, WalkFree,
                          AllocNull, KickFailed, vars
<1> QED BY <1>1, <1>2, <1>3, <1>4, <1>5 DEF Next, Walk

(* osal_mem_alloc gives a caller bytes that no other caller holds, at      *)
(* least as many as it asked for, and only osal_mem_free takes them back:  *)
(* merging, splitting and osal_mem_kick touch nothing that is held.        *)
THEOREM HeapImplementsAllocator == Spec => ImplementsAllocator
<1>1. Init => Heap!Init
  <2> SUFFICES ASSUME Init PROVE Held = {}
    BY DEF Heap!Init
  <2>1. ASSUME NEW a \in DOMAIN blk, a # Blocker PROVE ~blk[a].inUse
    <3>1. Wilderness # 0 /\ Wilderness # Blocker
      BY Places, SMT
    <3> QED BY <2>1, <3>1 DEF Init, Block
  <2>2. UsedAt = {}
    BY <2>1 DEF UsedAt
  <2> QED BY <2>2, HeldIs, Zenon
<1>2. Init => Asked
  BY DEF Init, Asked
<1>3. IInv /\ Asked /\ [Next]_vars => Asked'
  BY AskedKeeps
<1>4. IInv /\ IInv' /\ Asked /\ [Next]_vars => [Heap!Next]_Held
  BY StepMaps
<1> QED
  BY <1>1, <1>2, <1>3, <1>4, Invariant, PTL DEF Spec, ImplementsAllocator, Heap!Spec
=============================================================================
