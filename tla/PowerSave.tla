------------------------------ MODULE PowerSave ------------------------------
(***************************************************************************)
(* A battery-powered device between two events: the main loop of OSAL      *)
(* (OSAL.c), its clock (OSAL_Clock.c, mac_mcu.c), the decision to sleep    *)
(* (OSAL_PwrMgr.c, hal_sleep.c) and the interrupts that come in between.   *)
(*                                                                         *)
(* The main loop and the interrupts share the marks of the tasks with an   *)
(* event, the timers, the byte that is written to PCON and the count of    *)
(* the MAC timer, T2.  A tick is 320 us.                                   *)
(***************************************************************************)
EXTENDS Naturals, FiniteSetsExt

CONSTANTS
  ROLLOVER,       \* MAC_BACKOFF_TIMER_DEFAULT_ROLLOVER: T2 counts to it
  WORD,           \* 2^32, at which a count wraps; no multiple of ROLLOVER
  QUOTIENT,       \* 2^16: what the division by DEN has room for
  NUM, DEN,       \* NUM / DEN ms in a tick: 8 / 25
  PM_MIN_SLEEP,   \* PM_MIN_SLEEP_TIME, in ticks
  MAX_SLEEP,      \* MAX_SLEEP_TIME, in ticks
  TICKS_SUBTRACTED,
  Debounce,       \* ms from a port's interrupt to its event
  AppTimeouts,    \* the times in ms that the application's timer is set to
  MacTimeouts,    \* what MAC_PwrNextTimeout returns, in ticks
  Busy            \* bound: the ticks that a pass through the loop takes

PowerSaveAssumption ==
  /\ {ROLLOVER, WORD, QUOTIENT, NUM, DEN, MAX_SLEEP, Debounce, Busy} \subseteq Nat \ {0}
  /\ {PM_MIN_SLEEP, TICKS_SUBTRACTED} \subseteq Nat
  /\ AppTimeouts \subseteq Nat \ {0} /\ MacTimeouts \subseteq Nat
  /\ Busy < TICKS_SUBTRACTED /\ TICKS_SUBTRACTED < ROLLOVER /\ 2 * ROLLOVER < WORD
  /\ DEN <= QUOTIENT

Task == {"mac", "hal", "app"}        \* in the order in which they are served
Timer == {"hal", "app"}              \* the tasks that timers are set for

VARIABLES
  pc,             \* where the main loop is
  tasksEvents,    \* the tasks with an event
  timers,         \* the times to run of the timers, in ms; 0: stopped
  battery,        \* pwrmgr_attribute: PWRMGR_BATTERY, and no task objects
  halSleepPconValue,   \* FALSE: 0, an interrupt has forbidden to sleep
  sleep,          \* the sleep being entered: whether on the timer, ticks left
  t2,             \* the count of T2, and whether its rollover is pending
  count,          \* what macMcuPrecisionCount keeps
  clock,          \* what osalTimeUpdate keeps
  lag,            \* the ticks since the clock was read
  wrapping        \* ghost: the count has come so near WORD that it may wrap

hw == <<t2, lag, wrapping>>
vars == <<pc, tasksEvents, timers, battery, halSleepPconValue, sleep, count, clock, hw>>

NoSleep == [timed |-> FALSE, left |-> 0]

Init ==
  /\ pc = "update"
  /\ tasksEvents = {} /\ timers = [k \in Timer |-> 0]
  /\ battery = FALSE
  /\ halSleepPconValue = TRUE
  /\ sleep = NoSleep
  /\ t2 = [ovf |-> 0, period |-> FALSE]
  /\ count = [accumulated |-> 0, prev |-> 0, prevAccumulated |-> 0, updated |-> FALSE]
  /\ clock = [previousMacTimerTick |-> 0, remUsTicks |-> 0, elapsedMSec |-> 0]
  /\ lag = 0
  /\ wrapping = FALSE

-----------------------------------------------------------------------------
(* The clock. *)

Overflow == (t2.ovf + count.accumulated) % WORD

(* T2 has rolled over, and its interrupt has not run yet or was lost in    *)
(* sleep.                                                                  *)
RolledOver == count.prev > Overflow /\ count.prevAccumulated = count.accumulated

(* macMcuPrecisionCount: what it returns, and what it keeps. *)
Precision == IF RolledOver THEN (Overflow + ROLLOVER) % WORD ELSE Overflow

(* Mutant: the interrupt of a rollover that was counted here counts it too.*)
CountedTwice ==
  LET acc == IF RolledOver THEN (count.accumulated + ROLLOVER) % WORD
             ELSE count.accumulated
  IN  [accumulated |-> acc, prev |-> Precision, prevAccumulated |-> acc,
       updated |-> count.updated]

Counted ==
  LET acc == IF RolledOver THEN (count.accumulated + ROLLOVER) % WORD
             ELSE count.accumulated
  IN  [accumulated |-> acc, prev |-> Precision, prevAccumulated |-> acc,
       updated |-> count.updated \/ RolledOver]

Elapsed == (Precision + WORD - clock.previousMacTimerTick) % WORD

MayWrap == wrapping' = (wrapping \/ count'.accumulated + 2 * ROLLOVER > WORD)

(* osalTimeUpdate up to the call of osalTimerUpdate.  What a division with *)
(* too large a quotient leaves in its registers is not modelled: any value.*)
TimeUpdate ==
  /\ pc = "update" /\ pc' = "timers"
  /\ count' = Counted
  /\ LET units == (Elapsed * NUM + clock.remUsTicks) % WORD
     IN  \/ /\ units < DEN * QUOTIENT
            /\ clock' = [previousMacTimerTick |-> Precision, remUsTicks |-> units % DEN,
                         elapsedMSec |-> units \div DEN]
         \/ /\ units >= DEN * QUOTIENT
            /\ \E rem, ms \in 0..(QUOTIENT - 1) :
                 clock' = [previousMacTimerTick |-> Precision, remUsTicks |-> rem,
                           elapsedMSec |-> ms]
  /\ lag' = 0 /\ MayWrap
  /\ UNCHANGED <<tasksEvents, timers, battery, halSleepPconValue, sleep, t2>>

Expired(ms) == {k \in Timer : timers[k] # 0 /\ timers[k] <= ms}

(* osalTimerUpdate. *)
TimerUpdate ==
  /\ pc = "timers" /\ pc' = "poll"
  /\ LET ms == clock.elapsedMSec
     IN  /\ timers' = [k \in Timer |-> IF timers[k] <= ms THEN 0 ELSE timers[k] - ms]
         /\ tasksEvents' = tasksEvents \cup Expired(ms)
  /\ clock' = [clock EXCEPT !.elapsedMSec = 0]
  /\ UNCHANGED <<battery, halSleepPconValue, sleep, count, hw>>

-----------------------------------------------------------------------------
(* The main loop. *)

(* Hal_ProcessPoll ends with ALLOW_SLEEP_MODE. *)
ProcessPoll ==
  /\ pc = "poll" /\ pc' = "scan"
  /\ halSleepPconValue' = TRUE
  /\ UNCHANGED <<tasksEvents, timers, battery, sleep, count, clock, hw>>

First(e) == CASE "mac" \in e -> "mac" [] "hal" \in e -> "hal" [] OTHER -> "app"

(* A task handles an event.  It may have more of them left, and set those  *)
(* of others.  The application may set its timer; ZDApp goes to battery    *)
(* power, or leaves it.                                                    *)
RunTask ==
  /\ pc = "scan" /\ tasksEvents # {} /\ pc' = "update"
  /\ \E set \in SUBSET Task : tasksEvents' = (tasksEvents \ {First(tasksEvents)}) \cup set
  /\ \/ /\ First(tasksEvents) = "app" /\ timers["app"] = 0
        /\ \E ms \in AppTimeouts : timers' = [timers EXCEPT !["app"] = ms]
        /\ UNCHANGED battery
     \/ timers' = timers /\ battery' \in BOOLEAN
  /\ UNCHANGED <<halSleepPconValue, sleep, count, clock, hw>>

(* No task has an event; osal_pwrmgr_powerconserve looks whether it may. *)
Idle ==
  /\ pc = "scan" /\ tasksEvents = {}
  /\ pc' = IF battery THEN "conserve" ELSE "update"
  /\ UNCHANGED <<tasksEvents, timers, battery, halSleepPconValue, sleep, count, clock, hw>>

-----------------------------------------------------------------------------
(* Going to sleep. *)

Running == {timers[k] : k \in Timer} \ {0}

NextTimeout == IF Running = {} THEN 0 ELSE Min(Running)    \* osal_next_timeout

(* HAL_SLEEP_MS_TO_320US, which rounds up. *)
Ticks(ms) == (ms * DEN + NUM - 1) \div NUM

(* osal_pwrmgr_powerconserve calls halSleep. *)
Conserve ==
  /\ pc = "conserve" /\ pc' = "halSleep"
  /\ sleep' = [timed |-> FALSE, left |-> Ticks(NextTimeout)]
  /\ UNCHANGED <<tasksEvents, timers, battery, halSleepPconValue, count, clock, hw>>

Lesser(timeout, mac) ==
  IF timeout = 0 \/ (mac # 0 /\ mac < timeout) THEN mac ELSE timeout

Limited(timeout) ==
  Min({timeout, ROLLOVER - TICKS_SUBTRACTED, MAX_SLEEP})

(* halSleep weighs the next timeouts of OSAL and of the MAC. *)
HalSleep ==
  /\ pc = "halSleep"
  /\ \E mac \in MacTimeouts :
       LET timeout == Lesser(sleep.left, mac)
       IN  IF timeout > PM_MIN_SLEEP \/ timeout = 0
           THEN pc' = "off" /\ sleep' = [timed |-> timeout # 0, left |-> timeout]
           ELSE pc' = "update" /\ sleep' = NoSleep
  /\ UNCHANGED <<tasksEvents, timers, battery, halSleepPconValue, count, clock, hw>>

(* Mutant: an interrupt since the poll is not looked for. *)
Heedless ==
  /\ pc = "off"
  /\ \/ /\ pc' = "window"
        /\ halSleepPconValue' = TRUE
        /\ sleep' = [sleep EXCEPT !.left = Limited(@)]
     \/ pc' = "update" /\ sleep' = NoSleep /\ UNCHANGED halSleepPconValue
  /\ UNCHANGED <<tasksEvents, timers, battery, count, clock, hw>>

(* With interrupts disabled: if none has come since the poll, and the MAC  *)
(* agrees, the sleep timer is set, PCON's value with it, and all           *)
(* interrupts but those that wake the device are masked.                   *)
Prepare ==
  /\ pc = "off"
  /\ \/ /\ halSleepPconValue
        /\ pc' = "window"
        /\ halSleepPconValue' = TRUE
        /\ sleep' = [sleep EXCEPT !.left = Limited(@)]
     \/ pc' = "update" /\ sleep' = NoSleep /\ UNCHANGED halSleepPconValue
  /\ UNCHANGED <<tasksEvents, timers, battery, count, clock, hw>>

(* halSetSleepMode: PCON is written, with interrupts enabled. *)
SetSleepMode ==
  /\ pc = "window"
  /\ pc' = IF halSleepPconValue THEN "asleep" ELSE "woken"
  /\ UNCHANGED <<tasksEvents, timers, battery, halSleepPconValue, sleep, count, clock, hw>>

(* The masks are restored, and the MAC is powered on. *)
ExitSleep ==
  /\ pc = "woken" /\ pc' = "update" /\ sleep' = NoSleep
  /\ UNCHANGED <<tasksEvents, timers, battery, halSleepPconValue, count, clock, hw>>

-----------------------------------------------------------------------------
(* Time and interrupts. *)

Asleep == pc = "asleep"
Masked == pc \in {"window", "asleep", "woken"}
TimerRuns == pc \in {"window", "asleep"} /\ sleep.timed /\ sleep.left # 0

(* T2 goes on, in timed sleep as well; there the interrupt of a rollover   *)
(* may be lost.  In deep sleep no clock runs.  The loop takes at most      *)
(* Busy ticks before it sleeps.                                            *)
Tick ==
  /\ Asleep => sleep.timed
  /\ ~Asleep => lag < (IF pc \in {"woken", "update"} THEN ROLLOVER - 1 ELSE Busy)
  /\ lag' = lag + 1
  /\ IF t2.ovf + 1 = ROLLOVER
     THEN \E p \in (IF Asleep THEN {t2.period, TRUE} ELSE {TRUE}) :
            t2' = [ovf |-> 0, period |-> p]
     ELSE t2' = [t2 EXCEPT !.ovf = @ + 1]
  /\ IF TimerRuns
     THEN /\ sleep' = [sleep EXCEPT !.left = @ - 1]
          /\ IF sleep.left = 1                        \* halSleepTimerIsr
             THEN /\ halSleepPconValue' = FALSE
                  /\ pc' = IF Asleep THEN "woken" ELSE pc
             ELSE UNCHANGED <<halSleepPconValue, pc>>
     ELSE UNCHANGED <<sleep, halSleepPconValue, pc>>
  /\ UNCHANGED <<tasksEvents, timers, battery, count, clock, wrapping>>

Wakes == pc' = IF Asleep THEN "woken" ELSE pc

(* A key, or the reed switch of the door sensor: the event is timed. *)
PortIsr ==
  /\ timers' = [timers EXCEPT !["hal"] = Debounce]
  /\ halSleepPconValue' = FALSE
  /\ Wakes
  /\ UNCHANGED <<tasksEvents, battery, sleep, count, clock, hw>>

(* A frame, or the MAC's own timer. *)
MacIsr ==
  /\ ~Masked
  /\ tasksEvents' = tasksEvents \cup {"mac"}
  /\ halSleepPconValue' = FALSE
  /\ UNCHANGED <<pc, timers, battery, sleep, count, clock, hw>>

(* macBackoffTimerPeriodIsr: T2 has rolled over. *)
PeriodIsr ==
  /\ ~Masked /\ t2.period
  /\ t2' = [t2 EXCEPT !.period = FALSE]
  /\ count' = IF count.updated THEN [count EXCEPT !.updated = FALSE]
              ELSE [count EXCEPT !.accumulated = (@ + ROLLOVER) % WORD]
  /\ halSleepPconValue' = FALSE /\ MayWrap
  /\ UNCHANGED <<pc, tasksEvents, timers, battery, sleep, clock, lag>>

Loop == TimeUpdate \/ TimerUpdate \/ ProcessPoll \/ RunTask \/ Idle \/ Conserve
        \/ HalSleep \/ Prepare \/ SetSleepMode \/ ExitSleep

Next == Loop \/ Tick \/ PortIsr \/ MacIsr \/ PeriodIsr

Spec == Init /\ [][Next]_vars

-----------------------------------------------------------------------------
TypeOK ==
  /\ pc \in {"update", "timers", "poll", "scan", "conserve", "halSleep", "off",
             "window", "asleep", "woken"}
  /\ tasksEvents \subseteq Task /\ timers \in [Timer -> Nat]
  /\ battery \in BOOLEAN /\ halSleepPconValue \in BOOLEAN
  /\ sleep \in [timed : BOOLEAN, left : Nat]
  /\ t2 \in [ovf : 0..(ROLLOVER - 1), period : BOOLEAN]
  /\ count \in [accumulated : 0..(WORD - 1), prev : 0..(WORD - 1),
                prevAccumulated : 0..(WORD - 1), updated : BOOLEAN]
  /\ clock \in [previousMacTimerTick : 0..(WORD - 1), remUsTicks : 0..(QUOTIENT - 1),
                elapsedMSec : 0..(QUOTIENT - 1)]
  /\ lag \in Nat /\ wrapping \in BOOLEAN

(* Whenever the clock is read, as many ticks have elapsed by it as have    *)
(* gone by: a rollover of T2 is counted once, be it seen by the reader     *)
(* first, by the interrupt first, or lost in sleep.  From the first wrap   *)
(* of the 32-bit count on, which is not where T2 rolls over, a reading may *)
(* be wrong, but by one rollover, modulo the word, and no more             *)
(* (macMcuPrecisionCount).                                                 *)
NoTimeLost ==
  /\ ~wrapping => Elapsed = lag
  /\ Elapsed \in {lag, lag + ROLLOVER, lag + WORD - ROLLOVER}

(* The processor sleeps only while no task has an event, never longer than *)
(* the next timer has to run, and without the sleep timer only if no timer *)
(* runs: no interrupt between the scan of the tasks and the write to PCON  *)
(* is overlooked.                                                          *)
NothingAwaitsSleeper ==
  Asleep =>
    /\ tasksEvents = {}
    /\ \A k \in Timer : timers[k] # 0 => sleep.timed /\ sleep.left <= Ticks(timers[k])
=============================================================================
