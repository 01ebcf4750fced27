----------------------------- MODULE SleepyDevice -----------------------------
(***************************************************************************)
(* PowerSave with its constants and variables under a name of its own, for *)
(* the modules that check it or prove about it along with others.          *)
(***************************************************************************)
CONSTANTS
  ROLLOVER, WORD, QUOTIENT, NUM, DEN, PM_MIN_SLEEP, MAX_SLEEP, TICKS_SUBTRACTED,
  Debounce, AppTimeouts, MacTimeouts, Busy

VARIABLES
  pc, tasksEvents, timers, battery, halSleepPconValue, sleep, t2, count, clock, lag,
  wrapping

sleepVars == <<pc, tasksEvents, timers, battery, halSleepPconValue, sleep, t2, count,
               clock, lag, wrapping>>

S == INSTANCE PowerSave

ASSUME SleepAssumption == S!PowerSaveAssumption

NoTimeLost == S!NoTimeLost
NothingAwaitsSleeper == S!NothingAwaitsSleeper
=============================================================================
