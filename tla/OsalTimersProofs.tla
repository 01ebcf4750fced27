-------------------------- MODULE OsalTimersProofs --------------------------
(***************************************************************************)
(* Proofs about OsalTimers for every set of tasks, events and time-outs:   *)
(* a timer has one record, fires neither early nor late, and the records   *)
(* implement the table of timers.                                          *)
(***************************************************************************)
EXTENDS OsalTimers, SeqLemmas

Shape ==
  /\ pc \in {"idle", "head"} => pos = 0
  /\ pc # "notify" => freed = {}

(* What the walk in progress has still to take from the record at i. *)
Lag(i) ==
  IF \/ pc = "head"
     \/ /\ pc \in {"walk", "notify"}
        /\ pos # 0
        /\ i >= pos
    THEN step ELSE 0

(* Time-out and age add up to the wanted time, but for the lag and for what
   an interrupt's start lost to the walk it came into. *)
Timed(i) ==
  /\ recs[i].timeout + recs[i].age <= recs[i].want + Lag(i)
  /\ recs[i].want + Lag(i) <= recs[i].timeout + recs[i].age + recs[i].slack
  /\ recs[i].timeout = 0 /\ recs[i].age > 0 => pc = "head" \/ (pos # 0 /\ i >= pos)

Timing == \A i \in 1..Len(recs) : recs[i].ev # NoEvent => Timed(i)

IInv == TypeOK /\ OneRecord /\ Shape /\ Timing

-----------------------------------------------------------------------------
LEMMA RecFields ==
  ASSUME TypeOK, NEW i \in 1..Len(recs)
  PROVE  /\ recs[i] \in Rec
         /\ recs[i].task \in Task
         /\ recs[i].ev \in Event \cup {NoEvent}
         /\ recs[i].timeout \in Nat
         /\ recs[i].reload \in Nat
         /\ recs[i].age \in Nat
         /\ recs[i].want \in Nat
         /\ recs[i].slack \in Nat
<1>1. recs[i] \in Rec
  BY DEF TypeOK
<1>2. QED
  BY <1>1 DEF Rec

(* Changing one record. *)
LEMMA PutFacts ==
  ASSUME TypeOK, NEW i \in 1..Len(recs), NEW r \in Rec,
         recs' = [recs EXCEPT ![i] = r]
  PROVE  /\ recs' \in Seq(Rec)
         /\ Len(recs') = Len(recs)
         /\ recs'[i] = r
         /\ \A j \in 1..Len(recs) : j # i => recs'[j] = recs[j]
BY DEF TypeOK

(* Appending one. *)
LEMMA AppendFacts ==
  ASSUME TypeOK, NEW r \in Rec, recs' = Append(recs, r)
  PROVE  /\ recs' \in Seq(Rec)
         /\ Len(recs') = Len(recs) + 1
         /\ recs'[Len(recs) + 1] = r
         /\ \A j \in 1..Len(recs) : recs'[j] = recs[j]
BY DEF TypeOK

LEMMA NewRecFacts ==
  ASSUME TypeOK, NEW t \in Task, NEW e \in Event, NEW d \in Nat, NEW p \in Nat
  PROVE  /\ NewRec(t, e, d, p) \in Rec
         /\ NewRec(t, e, d, p).task = t
         /\ NewRec(t, e, d, p).ev = e
         /\ NewRec(t, e, d, p).timeout = d
         /\ NewRec(t, e, d, p).reload = p
         /\ NewRec(t, e, d, p).age = 0
         /\ NewRec(t, e, d, p).want = d
         /\ NewRec(t, e, d, p).slack = Slack
         /\ Slack \in Nat
BY DEF NewRec, Rec, Slack, TypeOK

LEMMA RestartedFacts ==
  ASSUME TypeOK, NEW r \in Rec, NEW d \in Nat
  PROVE  /\ Restarted(r, d) \in Rec
         /\ Restarted(r, d).task = r.task
         /\ Restarted(r, d).ev = r.ev
         /\ Restarted(r, d).timeout = d
         /\ Restarted(r, d).age = 0
         /\ Restarted(r, d).want = d
         /\ Restarted(r, d).slack = Slack
         /\ Restarted(r, d).reload = r.reload
BY DEF Restarted, Rec, Slack, TypeOK

LEMMA ReloadedFacts ==
  ASSUME NEW r \in Rec, NEW p \in Nat
  PROVE  /\ [r EXCEPT !.reload = p] \in Rec
         /\ [r EXCEPT !.reload = p].task = r.task
         /\ [r EXCEPT !.reload = p].ev = r.ev
         /\ [r EXCEPT !.reload = p].timeout = r.timeout
         /\ [r EXCEPT !.reload = p].age = r.age
         /\ [r EXCEPT !.reload = p].want = r.want
         /\ [r EXCEPT !.reload = p].slack = r.slack
         /\ [r EXCEPT !.reload = p].reload = p
BY DEF Rec

(* A start, whatever it does to the reload time-out, keeps the invariant. *)
LEMMA StartKeeps ==
  ASSUME IInv, NEW t \in Task, NEW e \in Event, NEW d \in Nat, NEW q \in Rec,
         q.task = t, q.ev = e, q.timeout = d, q.age = 0, q.want = d,
         q.slack = Slack, UNCHANGED <<bits, walk>>,
         \/ \E i \in 1..Len(recs) : Found(t, e, i) /\ recs' = [recs EXCEPT ![i] = q]
         \/ /\ ~Searched(t, e)
            /\ recs' = Append(recs, q)
  PROVE  IInv'
<1> USE DEF IInv
<1>0. step \in Nat /\ pos \in 0..Len(recs) /\ Len(recs) \in Nat
  BY DEF TypeOK
<1>1. ASSUME NEW i \in 1..Len(recs), Found(t, e, i), recs' = [recs EXCEPT ![i] = q]
      PROVE  IInv'
  <2>1. /\ recs' \in Seq(Rec)
        /\ Len(recs') = Len(recs)
        /\ recs'[i] = q
        /\ \A j \in 1..Len(recs) : j # i => recs'[j] = recs[j]
    BY <1>1, PutFacts
  <2>2. TypeOK' /\ Shape'
    BY <2>1 DEF TypeOK, Shape, walk
  <2>3. OneRecord'
    <3>1. recs[i].task = t /\ recs[i].ev = e
      BY <1>1 DEF Found
    <3>2. QED
      BY <2>1, <3>1 DEF OneRecord
  <2>4. Timing'
    <3>1. SUFFICES ASSUME NEW j \in 1..Len(recs), recs'[j].ev # NoEvent
                   PROVE  Timed(j)'
      BY <2>1 DEF Timing
    <3>2. Lag(j)' = Lag(j)
      BY DEF Lag, walk
    <3>3. CASE j = i
      BY <1>0, <2>1, <3>2, <3>3 DEF Timed, Lag, Slack, walk, Shape
    <3>4. CASE j # i
      BY <2>1, <3>1, <3>2, <3>4 DEF Timed, Timing, walk
    <3>5. QED
      BY <3>3, <3>4
  <2>5. QED
    BY <2>2, <2>3, <2>4
<1>2. ASSUME ~Searched(t, e), recs' = Append(recs, q) PROVE IInv'
  <2>1. /\ recs' \in Seq(Rec)
        /\ Len(recs') = Len(recs) + 1
        /\ recs'[Len(recs) + 1] = q
        /\ \A j \in 1..Len(recs) : recs'[j] = recs[j]
    BY <1>2, AppendFacts
  <2>2. TypeOK' /\ Shape'
    BY <1>0, <2>1 DEF TypeOK, Shape, walk
  <2>3. \A j \in 1..Len(recs) : recs[j].task # t \/ recs[j].ev # e
    BY <1>2 DEF Searched
  <2>4. OneRecord'
    BY <1>0, <2>1, <2>3 DEF OneRecord
  <2>5. Timing'
    <3>1. SUFFICES ASSUME NEW j \in 1..Len(recs) + 1, recs'[j].ev # NoEvent
                   PROVE  Timed(j)'
      BY <2>1 DEF Timing
    <3>2. Lag(j)' = Lag(j)
      BY DEF Lag, walk
    <3>3. CASE j = Len(recs) + 1
      BY <1>0, <2>1, <3>2, <3>3 DEF Timed, Lag, Slack, walk, Shape
    <3>4. CASE j # Len(recs) + 1
      <4>1. j \in 1..Len(recs)
        BY <1>0, <3>4
      <4>2. QED
        BY <2>1, <3>1, <3>2, <4>1 DEF Timed, Timing, walk
    <3>5. QED
      BY <3>3, <3>4
  <2>6. QED
    BY <2>2, <2>4, <2>5
<1>3. QED
  BY <1>1, <1>2

-----------------------------------------------------------------------------
LEMMA StartTimerKeeps ==
  ASSUME ConstantsAssumption, IInv, NEW t \in Task, NEW e \in Event,
         NEW d \in Timeouts, StartTimer(t, e, d)
  PROVE  IInv'
<1>0. d \in Nat
  BY DEF ConstantsAssumption
<1>1. UNCHANGED <<bits, walk>>
  BY DEF StartTimer
<1>2. CASE \E i \in 1..Len(recs) :
             Found(t, e, i) /\ recs' = [recs EXCEPT ![i] = Restarted(@, d)]
  <2>1. PICK i \in 1..Len(recs) :
          Found(t, e, i) /\ recs' = [recs EXCEPT ![i] = Restarted(recs[i], d)]
    BY <1>2
  <2> DEFINE q == Restarted(recs[i], d)
  <2>2. recs[i] \in Rec /\ TypeOK /\ recs[i].task = t /\ recs[i].ev = e
    BY <2>1, RecFields DEF Found, IInv
  <2>3. /\ q \in Rec
        /\ q.task = t
        /\ q.ev = e
        /\ q.timeout = d
        /\ q.age = 0
        /\ q.want = d
        /\ q.slack = Slack
    BY ZenonT(40), <1>0, <2>2, RestartedFacts
  <2>4. recs' = [recs EXCEPT ![i] = q]
    BY <2>1
  <2> HIDE DEF q
  <2>5. \E j \in 1..Len(recs) : Found(t, e, j) /\ recs' = [recs EXCEPT ![j] = q]
    BY <2>1, <2>4
  <2>6. QED
    BY <1>0, <1>1, <2>3, <2>5, StartKeeps
<1>3. CASE ~Searched(t, e) /\ recs' = Append(recs, NewRec(t, e, d, 0))
  <2> DEFINE q == NewRec(t, e, d, 0)
  <2>1. /\ q \in Rec
        /\ q.task = t
        /\ q.ev = e
        /\ q.timeout = d
        /\ q.age = 0
        /\ q.want = d
        /\ q.slack = Slack
    BY <1>0, NewRecFacts DEF IInv
  <2> HIDE DEF q
  <2>2. QED
    BY <1>0, <1>1, <1>3, <2>1, StartKeeps DEF q
<1>4. QED
  BY <1>2, <1>3 DEF StartTimer

LEMMA StartReloadKeeps ==
  ASSUME ConstantsAssumption, IInv, NEW t \in Task, NEW e \in Event,
         NEW d \in Periods, StartReload(t, e, d)
  PROVE  IInv'
<1>0. d \in Nat
  BY DEF ConstantsAssumption
<1>1. UNCHANGED <<bits, walk>>
  BY DEF StartReload
<1>2. CASE \E i \in 1..Len(recs) :
             /\ Found(t, e, i)
             /\ recs' = [recs EXCEPT ![i] = [Restarted(@, d) EXCEPT !.reload = d]]
  <2>1. PICK i \in 1..Len(recs) :
          /\ Found(t, e, i)
          /\ recs' = [recs EXCEPT ![i] = [Restarted(recs[i], d) EXCEPT !.reload = d]]
    BY <1>2
  <2> DEFINE q == [Restarted(recs[i], d) EXCEPT !.reload = d]
  <2>2. recs[i] \in Rec /\ TypeOK /\ recs[i].task = t /\ recs[i].ev = e
    BY <2>1, RecFields DEF Found, IInv
  <2>3. /\ q \in Rec
        /\ q.task = t
        /\ q.ev = e
        /\ q.timeout = d
        /\ q.age = 0
        /\ q.want = d
        /\ q.slack = Slack
    BY <1>0, <2>2, RestartedFacts, ReloadedFacts
  <2>4. recs' = [recs EXCEPT ![i] = q]
    BY <2>1
  <2> HIDE DEF q
  <2>5. \E j \in 1..Len(recs) : Found(t, e, j) /\ recs' = [recs EXCEPT ![j] = q]
    BY <2>1, <2>4
  <2>6. QED
    BY <1>0, <1>1, <2>3, <2>5, StartKeeps
<1>3. CASE ~Searched(t, e) /\ recs' = Append(recs, NewRec(t, e, d, d))
  <2> DEFINE q == NewRec(t, e, d, d)
  <2>1. /\ q \in Rec
        /\ q.task = t
        /\ q.ev = e
        /\ q.timeout = d
        /\ q.age = 0
        /\ q.want = d
        /\ q.slack = Slack
    BY <1>0, NewRecFacts DEF IInv
  <2> HIDE DEF q
  <2>2. QED
    BY <1>0, <1>1, <1>3, <2>1, StartKeeps DEF q
<1>4. QED
  BY <1>2, <1>3 DEF StartReload

LEMMA StopKeeps ==
  ASSUME ConstantsAssumption, IInv, NEW t \in Task, NEW e \in Event, StopTimer(t, e)
  PROVE  IInv'
<1> USE DEF IInv
<1>0. step \in Nat /\ pos \in 0..Len(recs) /\ Len(recs) \in Nat
  BY DEF TypeOK
<1>1. PICK i \in 1..Len(recs) : recs' = [recs EXCEPT ![i] = Deleted(recs[i])]
  BY DEF StopTimer
<1> DEFINE q == Deleted(recs[i])
<1>2. q \in Rec /\ q.ev = NoEvent
  <2>1. recs[i] \in Rec
    BY RecFields
  <2>2. QED
    BY <2>1 DEF Deleted, Rec
<1>3. recs' = [recs EXCEPT ![i] = q] /\ UNCHANGED <<bits, walk>>
  BY <1>1 DEF StopTimer
<1> HIDE DEF q
<1>4. /\ recs' \in Seq(Rec)
      /\ Len(recs') = Len(recs)
      /\ recs'[i] = q
      /\ \A j \in 1..Len(recs) : j # i => recs'[j] = recs[j]
  BY <1>2, <1>3, PutFacts
<1>5. TypeOK' /\ Shape'
  BY <1>3, <1>4 DEF TypeOK, Shape, walk
<1>6. OneRecord'
  BY <1>2, <1>4 DEF OneRecord
<1>7. Timing'
  <2>1. SUFFICES ASSUME NEW j \in 1..Len(recs), recs'[j].ev # NoEvent
                 PROVE  Timed(j)'
    BY <1>4 DEF Timing
  <2>2. Lag(j)' = Lag(j)
    BY <1>3 DEF Lag, walk
  <2>3. j # i /\ recs'[j] = recs[j]
    BY <1>2, <1>4, <2>1
  <2>4. QED
    BY <1>3, <2>1, <2>2, <2>3 DEF Timed, Timing, walk
<1>8. QED
  BY <1>5, <1>6, <1>7

-----------------------------------------------------------------------------
LEMMA BeginKeeps ==
  ASSUME ConstantsAssumption, IInv, NEW u \in Elapsed, BeginUpdate(u)
  PROVE  IInv'
<1> USE DEF IInv
<1>0. u \in Nat /\ u > 0 /\ pos = 0 /\ pc = "idle" /\ pc' = "head" /\ step' = u
      /\ pos' = 0 /\ freed' = freed /\ bits' = bits /\ Len(recs) \in Nat
  BY DEF ConstantsAssumption, BeginUpdate, Shape, TypeOK
<1>1. recs' = [i \in 1..Len(recs) |-> IF recs[i].ev = NoEvent THEN recs[i]
                                      ELSE [recs[i] EXCEPT !.age = recs[i].age + u]]
  <2>1. ASSUME NEW i \in 1..Len(recs), recs[i].ev # NoEvent
        PROVE  Aged(recs[i], u) = [recs[i] EXCEPT !.age = recs[i].age + u]
    <3>1. Timed(i) /\ Lag(i) = 0
      BY <1>0, <2>1 DEF Timing, Lag
    <3>2. recs[i].timeout \in Nat /\ recs[i].age \in Nat /\ recs[i].want \in Nat
      BY RecFields
    <3>3. ~(recs[i].age > recs[i].want)
      BY <3>1, <3>2 DEF Timed
    <3>4. QED
      BY <3>3 DEF Aged
  <2>2. QED
    BY <2>1 DEF BeginUpdate
<1>2. \A i \in 1..Len(recs) :
        (IF recs[i].ev = NoEvent THEN recs[i]
         ELSE [recs[i] EXCEPT !.age = recs[i].age + u]) \in Rec
  <2>1. SUFFICES ASSUME NEW i \in 1..Len(recs)
                 PROVE  [recs[i] EXCEPT !.age = recs[i].age + u] \in Rec /\ recs[i] \in Rec
    OBVIOUS
  <2>2. recs[i] \in Rec /\ recs[i].age \in Nat
    BY RecFields
  <2>3. QED
    BY SMTT(30), <1>0, <2>2 DEF Rec
<1>3. recs' \in Seq(Rec) /\ Len(recs') = Len(recs)
  BY <1>0, <1>1, <1>2
<1>4. \A i \in 1..Len(recs) :
        /\ recs'[i].task = recs[i].task
        /\ recs'[i].ev = recs[i].ev
        /\ recs'[i].timeout = recs[i].timeout
        /\ recs'[i].reload = recs[i].reload
        /\ recs'[i].want = recs[i].want
        /\ recs'[i].slack = recs[i].slack
        /\ recs[i].ev # NoEvent => recs'[i].age = recs[i].age + u
  <2>1. SUFFICES ASSUME NEW i \in 1..Len(recs)
                 PROVE  /\ recs'[i].task = recs[i].task
                        /\ recs'[i].ev = recs[i].ev
                        /\ recs'[i].timeout = recs[i].timeout
                        /\ recs'[i].reload = recs[i].reload
                        /\ recs'[i].want = recs[i].want
                        /\ recs'[i].slack = recs[i].slack
                        /\ recs[i].ev # NoEvent => recs'[i].age = recs[i].age + u
    OBVIOUS
  <2>2. recs[i] \in Rec
    BY RecFields
  <2>3. CASE recs[i].ev = NoEvent
    BY <1>1, <2>3
  <2>4. CASE recs[i].ev # NoEvent
    <3>1. recs'[i] = [recs[i] EXCEPT !.age = recs[i].age + u]
      BY <1>1, <2>4
    <3>2. QED
      BY <2>2, <3>1 DEF Rec
  <2>5. QED
    BY <2>3, <2>4
<1>5. TypeOK' /\ Shape'
  BY <1>0, <1>3 DEF TypeOK, Shape
<1>6. OneRecord'
  BY <1>3, <1>4 DEF OneRecord
<1>7. Timing'
  <2>1. SUFFICES ASSUME NEW i \in 1..Len(recs), recs'[i].ev # NoEvent
                 PROVE  Timed(i)'
    BY <1>3 DEF Timing
  <2>2. Timed(i) /\ Lag(i) = 0 /\ Lag(i)' = u
    <3>1. recs[i].ev # NoEvent
      BY <1>4, <2>1
    <3>2. Timed(i)
      BY <3>1 DEF Timing
    <3>3. QED
      BY <1>0, <3>2 DEF Lag
  <2>3. /\ recs[i].timeout \in Nat
        /\ recs[i].age \in Nat
        /\ recs[i].want \in Nat
        /\ recs[i].slack \in Nat
    BY RecFields
  <2>4. /\ recs[i].timeout + recs[i].age <= recs[i].want
        /\ recs[i].want <= recs[i].timeout + recs[i].age + recs[i].slack
    BY <2>2, <2>3 DEF Timed
  <2>5. /\ recs'[i].timeout = recs[i].timeout
        /\ recs'[i].age = recs[i].age + u
        /\ recs'[i].want = recs[i].want
        /\ recs'[i].slack = recs[i].slack
    BY <1>4, <2>1
  <2>6. /\ recs[i].timeout + (recs[i].age + u) <= recs[i].want + u
        /\ recs[i].want + u <= recs[i].timeout + (recs[i].age + u) + recs[i].slack
    BY SMTT(30), <1>0, <2>3, <2>4
  <2>7. QED
    BY <1>0, <2>2, <2>5, <2>6 DEF Timed
<1>8. QED
  BY <1>5, <1>6, <1>7

LEMMA ReadHeadKeeps ==
  ASSUME IInv, ReadHead
  PROVE  IInv'
<1> USE DEF IInv, ReadHead
<1>1. pos' = IF Len(recs) = 0 THEN 0 ELSE 1
  BY DEF TypeOK
<1>2. TypeOK' /\ Shape'
  BY <1>1 DEF TypeOK, Shape
<1>3. OneRecord'
  BY DEF OneRecord
<1>4. Timing'
  <2>1. SUFFICES ASSUME NEW i \in 1..Len(recs), recs[i].ev # NoEvent
                 PROVE  Timed(i)'
    BY DEF Timing
  <2>2. pos' = 1 /\ i >= 1 /\ Len(recs) \in Nat
    BY <1>1 DEF TypeOK
  <2>3. Lag(i)' = Lag(i)
    BY <2>2 DEF Lag
  <2>4. Timed(i)
    BY <2>1 DEF Timing
  <2>5. QED
    BY <2>2, <2>3, <2>4 DEF Timed
<1>5. QED
  BY <1>2, <1>3, <1>4

(* The walk leaves a running timer in the list with a time-out that is right
   without a lag, and goes on to the next record. *)
LEMMA TickKeeps ==
  ASSUME IInv, pc = "walk", pos # 0, NEW q \in Rec,
         recs' = [recs EXCEPT ![pos] = q],
         q.task = recs[pos].task, q.ev = recs[pos].ev, q.timeout > 0,
         q.timeout + q.age <= q.want, q.want <= q.timeout + q.age + q.slack,
         pos' = NextPos, bits' \in [Task -> SUBSET Event],
         UNCHANGED <<pc, step, freed>>
  PROVE  IInv'
<1>0. step \in Nat /\ pos \in 1..Len(recs) /\ Len(recs) \in Nat /\ TypeOK
  BY DEF IInv, TypeOK
<1>1. /\ recs' \in Seq(Rec)
      /\ Len(recs') = Len(recs)
      /\ recs'[pos] = q
      /\ \A j \in 1..Len(recs) : j # pos => recs'[j] = recs[j]
  BY <1>0, PutFacts
<1>2. pos' \in 0..Len(recs) /\ (pos' = 0 => pos = Len(recs)) /\ (pos' # 0 => pos' = pos + 1)
  BY <1>0 DEF NextPos
<1>3. TypeOK' /\ Shape'
  BY <1>0, <1>1, <1>2 DEF TypeOK, Shape, IInv
<1>4. OneRecord'
  BY <1>0, <1>1 DEF OneRecord, IInv
<1>5. Timing'
  <2>1. SUFFICES ASSUME NEW j \in 1..Len(recs), recs'[j].ev # NoEvent
                 PROVE  Timed(j)'
    BY <1>1 DEF Timing
  <2>2. CASE j = pos
    <3>0. ~(pos' # 0 /\ j >= pos')
      BY <1>0, <1>2, <2>2
    <3>1. Lag(j)' = 0 /\ recs'[j] = q
      BY <1>1, <2>2, <3>0 DEF Lag
    <3>2. q.timeout \in Nat /\ q.age \in Nat /\ q.want \in Nat /\ q.slack \in Nat
      BY DEF Rec
    <3>3. QED
      BY <3>1, <3>2 DEF Timed
  <2>3. CASE j # pos
    <3>1. recs'[j] = recs[j]
      BY <1>1, <2>3
    <3>2. Timed(j)
      BY <2>1, <3>1 DEF IInv, Timing
    <3>3. Lag(j)' = Lag(j)
      BY <1>0, <1>2, <2>3 DEF Lag
    <3>4. pos # 0 /\ j >= pos => pos' # 0 /\ j >= pos'
      BY <1>0, <1>2, <2>3
    <3>5. QED
      BY <1>0, <3>1, <3>2, <3>3, <3>4 DEF Timed
  <2>4. QED
    BY <2>2, <2>3
<1>6. QED
  BY <1>3, <1>4, <1>5 DEF IInv

(* What the record the walk has come to is worth. *)
LEMMA AtPos ==
  ASSUME IInv, pc \in {"walk", "notify"}, pos # 0, recs[pos].ev # NoEvent
  PROVE  /\ pos \in 1..Len(recs)
         /\ step \in Nat
         /\ recs[pos] \in Rec
         /\ recs[pos].task \in Task
         /\ recs[pos].ev \in Event
         /\ recs[pos].timeout \in Nat
         /\ recs[pos].reload \in Nat
         /\ recs[pos].age \in Nat
         /\ recs[pos].want \in Nat
         /\ recs[pos].slack \in Nat
         /\ recs[pos].timeout + recs[pos].age <= recs[pos].want + step
         /\ recs[pos].want + step <= recs[pos].timeout + recs[pos].age + recs[pos].slack
<1>1. pos \in 1..Len(recs) /\ step \in Nat /\ TypeOK
  BY DEF IInv, TypeOK
<1>2. Lag(pos) = step
  BY <1>1 DEF Lag
<1>3. Timed(pos)
  BY <1>1 DEF IInv, Timing
<1>4. QED
  BY <1>1, <1>2, <1>3, RecFields DEF Timed

LEMMA TickOnKeeps ==
  ASSUME IInv, TickOn
  PROVE  IInv'
<1> DEFINE d == Reduced(recs[pos].timeout)
           q == [recs[pos] EXCEPT !.timeout = d]
<1>1. pc = "walk" /\ pos # 0 /\ recs[pos].ev # NoEvent
  BY DEF TickOn
<1>2. d > 0 /\ d = recs[pos].timeout - step /\ d \in Nat
  BY <1>1, AtPos DEF TickOn, Reduced
<1>3. recs' = [recs EXCEPT ![pos] = q]
  BY DEF TickOn
<1> HIDE DEF d
<1>4. /\ q \in Rec
      /\ q.task = recs[pos].task
      /\ q.ev = recs[pos].ev
      /\ q.timeout = d
      /\ q.age = recs[pos].age
      /\ q.want = recs[pos].want
      /\ q.slack = recs[pos].slack
  BY <1>1, <1>2, AtPos DEF Rec
<1> HIDE DEF q
<1>5. /\ q.timeout > 0
      /\ q.timeout + q.age <= q.want
      /\ q.want <= q.timeout + q.age + q.slack
  <2>1. /\ step \in Nat
        /\ recs[pos].timeout \in Nat
        /\ recs[pos].age \in Nat
        /\ recs[pos].want \in Nat
        /\ recs[pos].slack \in Nat
        /\ recs[pos].timeout + recs[pos].age <= recs[pos].want + step
        /\ recs[pos].want + step <= recs[pos].timeout + recs[pos].age + recs[pos].slack
    BY <1>1, AtPos
  <2>2. /\ d + recs[pos].age <= recs[pos].want
        /\ recs[pos].want <= d + recs[pos].age + recs[pos].slack
    BY <1>2, <2>1
  <2>3. QED
    BY <1>2, <1>4, <2>2
<1>6. /\ pos' = NextPos
      /\ bits' \in [Task -> SUBSET Event]
      /\ UNCHANGED <<pc, step, freed>>
  BY DEF TickOn, IInv, TypeOK
<1>7. QED
  BY <1>1, <1>3, <1>4, <1>5, <1>6, TickKeeps

LEMMA TickReloadKeeps ==
  ASSUME IInv, TickReload
  PROVE  IInv'
<1> DEFINE p == recs[pos].reload
           q == [[[[recs[pos] EXCEPT !.timeout = p] EXCEPT !.age = 0]
                    EXCEPT !.want = p] EXCEPT !.slack = 0]
<1>1. pc = "walk" /\ pos # 0 /\ recs[pos].ev # NoEvent /\ p # 0
  BY DEF TickReload
<1>2. /\ q \in Rec
      /\ q.task = recs[pos].task
      /\ q.ev = recs[pos].ev
      /\ q.timeout = p
      /\ q.age = 0
      /\ q.want = p
      /\ q.slack = 0
  BY <1>1, AtPos DEF Rec
<1>3. recs' = [recs EXCEPT ![pos] = q]
  <2>1. recs' = [recs EXCEPT ![pos].timeout = p, ![pos].age = 0,
                             ![pos].want = p, ![pos].slack = 0]
    BY DEF TickReload
  <2>2. pos \in 1..Len(recs) /\ recs \in Seq(Rec)
    BY <1>1, AtPos DEF IInv, TypeOK
  <2>3. QED
    BY <2>1, <2>2
<1>4. p \in Nat
  BY <1>1, AtPos
<1>5. /\ q.timeout > 0
      /\ q.timeout + q.age <= q.want
      /\ q.want <= q.timeout + q.age + q.slack
  BY <1>1, <1>2, <1>4
<1>6. /\ pos' = NextPos
      /\ bits' \in [Task -> SUBSET Event]
      /\ UNCHANGED <<pc, step, freed>>
  BY <1>1, AtPos DEF TickReload, IInv, TypeOK
<1> HIDE DEF q
<1>7. QED
  BY <1>1, <1>2, <1>3, <1>5, <1>6, TickKeeps

LEMMA TickOutKeeps ==
  ASSUME IInv, TickOut
  PROVE  IInv'
<1>0. /\ step \in Nat /\ pos \in 1..Len(recs) /\ Len(recs) \in Nat
      /\ TypeOK /\ pc = "walk" /\ recs \in Seq(Rec)
  BY DEF IInv, TypeOK, TickOut
<1>1. /\ recs' \in Seq(Rec)
      /\ Len(recs') = Len(recs) - 1
      /\ \A k \in 1..Len(recs) - 1 : recs'[k] = IF k < pos THEN recs[k] ELSE recs[k + 1]
  BY <1>0, RemoveAtFacts, recs' = RemoveAt(recs, pos) DEF TickOut
<1>2. /\ pos' \in 0..Len(recs) - 1
      /\ pos' = 0 => pos = Len(recs)
      /\ pos' # 0 => pos' = pos
      /\ pc' = "notify" /\ step' = step /\ bits' = bits
  BY <1>0 DEF TickOut, NextAfterRemoval
<1>3. freed' \in SUBSET (Task \X Event)
  BY <1>0, RecFields DEF TickOut
<1>4. TypeOK' /\ Shape'
  BY <1>0, <1>1, <1>2, <1>3 DEF TypeOK, Shape
<1> DEFINE Old(k) == IF k < pos THEN k ELSE k + 1
<1>5. \A k \in 1..Len(recs) - 1 : Old(k) \in 1..Len(recs) /\ recs'[k] = recs[Old(k)]
  BY <1>0, <1>1
<1>6. \A j, k \in 1..Len(recs) - 1 : Old(j) = Old(k) => j = k
  BY <1>0
<1> HIDE DEF Old
<1>7. OneRecord'
  BY SMTT(30), <1>1, <1>5, <1>6 DEF OneRecord, IInv
<1>8. Timing'
  <2>1. SUFFICES ASSUME NEW j \in 1..Len(recs) - 1, recs'[j].ev # NoEvent
                 PROVE  Timed(j)'
    BY <1>1 DEF Timing
  <2>2. Timed(Old(j)) /\ recs'[j] = recs[Old(j)]
    BY <1>5, <2>1 DEF IInv, Timing
  <2>3. Lag(j)' = Lag(Old(j))
    BY <1>0, <1>2 DEF Lag, Old
  <2>4. Old(j) >= pos => pos' # 0 /\ j >= pos'
    BY <1>0, <1>2 DEF Old
  <2>5. QED
    BY <1>0, <2>2, <2>3, <2>4 DEF Timed
<1>9. QED
  BY <1>4, <1>7, <1>8 DEF IInv

(* The steps that touch no record. *)
LEMMA QuietKeeps ==
  ASSUME IInv, \/ Notify \/ EndUpdate \/ \E t \in Task : Take(t)
               \/ UNCHANGED vars
  PROVE  IInv'
<1>0. step \in Nat /\ pos \in 0..Len(recs) /\ Len(recs) \in Nat
  BY DEF IInv, TypeOK
<1>1. recs' = recs /\ pos' = pos
  BY DEF Notify, EndUpdate, Take, walk, vars
<1>2. bits' \in [Task -> SUBSET Event] /\ freed' \in SUBSET (Task \X Event)
  <2>1. CASE Notify
    BY <2>1 DEF Notify, IInv, TypeOK
  <2>2. CASE ~Notify
    BY <2>2 DEF EndUpdate, Take, walk, vars, IInv, TypeOK
  <2>3. QED
    BY <2>1, <2>2
<1>3. step' \in Nat /\ pc' \in {"idle", "head", "walk", "notify"}
  BY DEF Notify, EndUpdate, Take, walk, vars, IInv, TypeOK
<1>4. TypeOK'
  BY <1>1, <1>2, <1>3 DEF TypeOK, IInv
<1>5. Shape'
  BY <1>1 DEF Notify, EndUpdate, Take, walk, vars, IInv, Shape
<1>6. OneRecord'
  BY <1>1 DEF OneRecord, IInv
<1>7. \A i \in 1..Len(recs) : Timed(i) => Timed(i)'
  <2>1. TAKE i \in 1..Len(recs)
  <2>2. Lag(i)' = Lag(i)
    BY <1>1 DEF Lag, Notify, EndUpdate, Take, walk, vars
  <2>3. pc = "head" => pc' = "head"
    BY DEF Notify, EndUpdate, Take, walk, vars
  <2>4. QED
    BY <1>1, <2>2, <2>3 DEF Timed
<1>8. Timing'
  BY <1>1, <1>7 DEF Timing, IInv
<1>9. QED
  BY <1>4, <1>5, <1>6, <1>8 DEF IInv

-----------------------------------------------------------------------------
LEMMA Initially ==
  ASSUME Init
  PROVE  IInv
BY DEF Init, IInv, TypeOK, OneRecord, Shape, Timing

LEMMA Step ==
  ASSUME IInv, [Next]_vars
  PROVE  IInv'
<1>1. CASE \E t \in Task, e \in Event : \E d \in Timeouts : StartTimer(t, e, d)
  BY <1>1, StartTimerKeeps, ConstantsAssumption
<1>2. CASE \E t \in Task, e \in Event : \E d \in Periods : StartReload(t, e, d)
  BY <1>2, StartReloadKeeps, ConstantsAssumption
<1>3. CASE \E t \in Task, e \in Event : StopTimer(t, e)
  BY <1>3, StopKeeps, ConstantsAssumption
<1>4. CASE \E u \in Elapsed : BeginUpdate(u)
  BY <1>4, BeginKeeps, ConstantsAssumption
<1>5. CASE ReadHead
  BY <1>5, ReadHeadKeeps
<1>6. CASE TickOn
  BY <1>6, TickOnKeeps
<1>7. CASE TickReload
  BY <1>7, TickReloadKeeps
<1>8. CASE TickOut
  BY <1>8, TickOutKeeps
<1>9. CASE Notify \/ EndUpdate \/ (\E t \in Task : Take(t)) \/ UNCHANGED vars
  BY <1>9, QuietKeeps
<1>10. QED
  BY <1>1, <1>2, <1>3, <1>4, <1>5, <1>6, <1>7, <1>8, <1>9 DEF Next, Update

(* The invariant the theorems follow from. *)
THEOREM RecordsInvariant == Spec => []IInv
BY Initially, Step, PTL DEF Spec

(* The state of the timers stays what the declarations of OSAL_Timers.c say. *)
THEOREM TypeCorrect == Spec => []TypeOK
<1>1. IInv => TypeOK
  BY DEF IInv
<1>2. QED
  BY <1>1, RecordsInvariant, PTL

(* No timer ever has two records, however starts, stops and the walk of
   osalTimerUpdate interleave. *)
THEOREM RecordsUnique == Spec => []OneRecord
<1>1. IInv => OneRecord
  BY DEF IInv
<1>2. QED
  BY <1>1, RecordsInvariant, PTL

(* After an update no running timer is overdue: the walk of osalTimerUpdate
   has counted the elapsed time off every one of them. *)
THEOREM TimersPunctual == Spec => []NeverLate
<1>1. IInv => NeverLate
  <2>1. SUFFICES ASSUME IInv, pc = "idle", NEW i \in 1..Len(recs),
                        recs[i].ev # NoEvent, recs[i].age # 0
                 PROVE  recs[i].age < recs[i].want
    BY DEF NeverLate
  <2>2. Timed(i) /\ Lag(i) = 0 /\ pos = 0
    BY <2>1 DEF IInv, Timing, Lag, Shape
  <2>3. /\ recs[i].timeout \in Nat
        /\ recs[i].age \in Nat
        /\ recs[i].want \in Nat
    BY <2>1, RecFields DEF IInv
  <2>4. QED
    BY <2>1, <2>2, <2>3 DEF Timed
<1>2. QED
  BY <1>1, RecordsInvariant, PTL

(* No timer fires before its time-out has passed since it was started, but for
   what the walk running when an interrupt started it counts once too often
   (osalTimerUpdate). *)
THEOREM TimersPatient == Spec => NeverEarly
<1>1. IInv /\ [Next]_vars =>
        [\A i \in 1..Len(recs) :
           Fires(i) => recs[i].age + recs[i].slack >= recs[i].want]_vars
  <2>1. SUFFICES ASSUME IInv, NEW i \in 1..Len(recs), Fires(i)
                 PROVE  recs[i].age + recs[i].slack >= recs[i].want
    OBVIOUS
  <2>2. i = pos /\ pc = "walk" /\ pos # 0 /\ recs[pos].ev # NoEvent
    BY <2>1 DEF Fires, TickOut, TickReload
  <2>3. Reduced(recs[pos].timeout) = 0
    BY <2>1, <2>2 DEF Fires, TickOut, TickReload
  <2>4. recs[pos].timeout <= step
    BY <2>1, <2>2, <2>3, AtPos DEF Reduced
  <2>5. QED
    BY SMTT(30), <2>1, <2>2, <2>4, AtPos
<1>2. QED
  BY <1>1, RecordsInvariant, PTL DEF Spec, NeverEarly

(* Timers fire on time, whatever interrupts start and stop during the walk of
   osalTimerUpdate: the two facts together. *)
THEOREM TimersOnTime == Spec => OnTime
BY TimersPunctual, TimersPatient, PTL DEF OnTime

-----------------------------------------------------------------------------
(* The list of records implements the table of timers: every step of       *)
(* OsalTimers is a step of TimerTable or changes nothing it can see.       *)

Key == Task \X Event
At(t, e) == {i \in 1..Len(recs) : recs[i].task = t /\ recs[i].ev = e}
ReloadAt(t, e) == {i \in At(t, e) : recs[i].reload # 0}

(* A step that changes neither the key nor the kind of a record. *)
SameRecords ==
  /\ Len(recs') = Len(recs)
  /\ \A i \in 1..Len(recs) :
       /\ recs'[i].task = recs[i].task
       /\ recs'[i].ev = recs[i].ev
       /\ recs'[i].reload = recs[i].reload

LEMMA PairSets ==
  ASSUME NEW A \in SUBSET Key, NEW B \in SUBSET Key,
         \A t \in Task, e \in Event : <<t, e>> \in A <=> <<t, e>> \in B
  PROVE  A = B
BY DEF Key

LEMMA PairAdded ==
  ASSUME NEW A \in SUBSET Key, NEW B \in SUBSET Key, NEW p \in Key,
         \A t \in Task, e \in Event : <<t, e>> \in A <=> <<t, e>> \in B \/ <<t, e>> = p
  PROVE  A = B \cup {p}
BY DEF Key

LEMMA PairRemoved ==
  ASSUME NEW A \in SUBSET Key, NEW B \in SUBSET Key, NEW p \in Key,
         \A t \in Task, e \in Event : <<t, e>> \in A <=> <<t, e>> \in B /\ <<t, e>> # p
  PROVE  A = B \ {p}
BY DEF Key

LEMMA KeysFacts ==
  /\ RunningKeys \in SUBSET Key
  /\ PeriodicKeys \in SUBSET Key
  /\ \A t \in Task, e \in Event :
       /\ <<t, e>> \in RunningKeys <=> At(t, e) # {}
       /\ <<t, e>> \in PeriodicKeys <=> ReloadAt(t, e) # {}
BY DEF RunningKeys, PeriodicKeys, Holds, At, ReloadAt, Key

LEMMA KeysFactsPrime ==
  /\ RunningKeys' \in SUBSET Key
  /\ PeriodicKeys' \in SUBSET Key
  /\ \A t \in Task, e \in Event :
       /\ <<t, e>> \in RunningKeys' <=> At(t, e)' # {}
       /\ <<t, e>> \in PeriodicKeys' <=> ReloadAt(t, e)' # {}
BY DEF RunningKeys, PeriodicKeys, Holds, At, ReloadAt, Key

LEMMA SameKeys ==
  ASSUME SameRecords
  PROVE  RunningKeys' = RunningKeys /\ PeriodicKeys' = PeriodicKeys
<1>1. \A t \in Task, e \in Event : At(t, e)' = At(t, e)
  BY DEF SameRecords, At
<1>2. \A t \in Task, e \in Event : ReloadAt(t, e)' = ReloadAt(t, e)
  BY DEF SameRecords, At, ReloadAt
<1>3. \A t \in Task, e \in Event : <<t, e>> \in RunningKeys' <=> <<t, e>> \in RunningKeys
  BY <1>1, KeysFacts, KeysFactsPrime
<1>4. \A t \in Task, e \in Event : <<t, e>> \in PeriodicKeys' <=> <<t, e>> \in PeriodicKeys
  BY <1>2, KeysFacts, KeysFactsPrime
<1>5. /\ RunningKeys \in SUBSET Key /\ PeriodicKeys \in SUBSET Key
      /\ RunningKeys' \in SUBSET Key /\ PeriodicKeys' \in SUBSET Key
  BY KeysFacts, KeysFactsPrime
<1>6. QED
  BY <1>3, <1>4, <1>5, PairSets

LEMMA BitsSeenQuiet ==
  ASSUME UNCHANGED <<bits, freed>>
  PROVE  BitsSeen' = BitsSeen
BY DEF BitsSeen

(* A timer is started: its key is running from now on, and reloads if it did
   or if it is to. *)
LEMMA Started ==
  ASSUME TypeOK, NEW t \in Task, NEW e \in Event, NEW q \in Rec,
         q.task = t, q.ev = e,
         \/ \E i \in At(t, e) : recs' = [recs EXCEPT ![i] = q]
         \/ At(t, e) = {} /\ recs' = Append(recs, q)
  PROVE  /\ RunningKeys' = RunningKeys \cup {<<t, e>>}
         /\ q.reload # 0 => PeriodicKeys' = PeriodicKeys \cup {<<t, e>>}
         /\ At(t, e) = {} /\ q.reload = 0 => PeriodicKeys' = PeriodicKeys
<1>0. Len(recs) \in Nat
  BY DEF TypeOK
<1>1. CASE \E i \in At(t, e) : recs' = [recs EXCEPT ![i] = q]
  <2>1. PICK i \in At(t, e) : recs' = [recs EXCEPT ![i] = q]
    BY <1>1
  <2>2. i \in 1..Len(recs) /\ recs[i].task = t /\ recs[i].ev = e
    BY DEF At
  <2>3. /\ Len(recs') = Len(recs)
        /\ recs'[i] = q
        /\ \A j \in 1..Len(recs) : j # i => recs'[j] = recs[j]
    BY <2>1, <2>2, PutFacts
  <2>4. \A x \in Task, y \in Event : At(x, y)' = At(x, y)
    BY <2>2, <2>3 DEF At
  <2>5. \A x \in Task, y \in Event : <<x, y>> \in RunningKeys' <=> <<x, y>> \in RunningKeys
    BY ZenonT(40), <2>4, KeysFacts, KeysFactsPrime
  <2>6. RunningKeys' = RunningKeys /\ <<t, e>> \in RunningKeys
    BY <2>1, <2>5, KeysFacts, KeysFactsPrime, PairSets
  <2>7. ASSUME q.reload # 0 PROVE PeriodicKeys' = PeriodicKeys \cup {<<t, e>>}
    <3>1. \A x \in Task, y \in Event :
            <<x, y>> \in PeriodicKeys' <=> <<x, y>> \in PeriodicKeys \/ <<x, y>> = <<t, e>>
      <4>1. TAKE x \in Task, y \in Event
      <4>2. CASE x = t /\ y = e
        <5>1. i \in At(x, y)'
          BY <2>1, <2>4, <4>2
        <5>2. i \in ReloadAt(x, y)'
          BY <2>3, <2>7, <5>1 DEF ReloadAt
        <5>3. <<x, y>> \in PeriodicKeys'
          BY <5>2, KeysFactsPrime
        <5>4. QED
          BY <4>2, <5>3
      <4>3. CASE ~(x = t /\ y = e)
        <5>1. i \notin At(x, y)
          BY <2>2, <4>3 DEF At
        <5>2. \A j \in At(x, y) : recs'[j] = recs[j]
          BY <2>3, <5>1 DEF At
        <5>3. ReloadAt(x, y)' = ReloadAt(x, y)
          BY <2>4, <5>2 DEF ReloadAt
        <5>4. <<x, y>> # <<t, e>>
          BY <4>3
        <5>5. QED
          BY <5>3, <5>4, KeysFacts, KeysFactsPrime
      <4>4. QED
        BY <4>2, <4>3
    <3>2. PeriodicKeys \in SUBSET Key /\ <<t, e>> \in Key
      BY KeysFacts DEF Key
    <3>3. PeriodicKeys' \in SUBSET Key
      BY KeysFactsPrime
    <3>4. QED
      BY <3>1, <3>2, <3>3, PairAdded
  <2>8. QED
    BY <1>1, <2>6, <2>7
<1>2. CASE At(t, e) = {} /\ recs' = Append(recs, q)
  <2> DEFINE n == Len(recs) + 1
  <2>1. /\ Len(recs') = n
        /\ recs'[n] = q
        /\ \A j \in 1..Len(recs) : recs'[j] = recs[j]
    BY <1>2, AppendFacts
  <2>2. n \in 1..n /\ 1..n = 1..Len(recs) \cup {n} /\ n \notin 1..Len(recs)
    BY <1>0
  <2> HIDE DEF n
  <2>3. ASSUME NEW x \in Task, NEW y \in Event
        PROVE  At(x, y)' = IF x = t /\ y = e THEN {n} ELSE At(x, y)
    <3>1. CASE x = t /\ y = e
      BY <1>2, <2>1, <2>2, <3>1 DEF At
    <3>2. CASE ~(x = t /\ y = e)
      BY <2>1, <2>2, <3>2 DEF At
    <3>3. QED
      BY <3>1, <3>2
  <2>4. \A x \in Task, y \in Event :
          <<x, y>> \in RunningKeys' <=> <<x, y>> \in RunningKeys \/ <<x, y>> = <<t, e>>
    BY ZenonT(40), <2>3, KeysFacts, KeysFactsPrime
  <2>5. RunningKeys' = RunningKeys \cup {<<t, e>>}
    <3>1. RunningKeys \in SUBSET Key /\ <<t, e>> \in Key
      BY KeysFacts DEF Key
    <3>2. RunningKeys' \in SUBSET Key
      BY KeysFactsPrime
    <3>3. QED
      BY <2>4, <3>1, <3>2, PairAdded
  <2>6. \A x \in Task, y \in Event :
          <<x, y>> \in PeriodicKeys' <=>
            (<<x, y>> \in PeriodicKeys \/ (x = t /\ y = e /\ q.reload # 0))
    <3>1. TAKE x \in Task, y \in Event
    <3>2. CASE x = t /\ y = e
      <4>1. At(x, y)' = {n} /\ At(x, y) = {} /\ recs'[n] = q
        BY <1>2, <2>1, <2>3, <3>2
      <4>2. ReloadAt(x, y) = {}
        BY <4>1 DEF ReloadAt
      <4>3. ReloadAt(x, y)' # {} <=> q.reload # 0
        BY <4>1 DEF ReloadAt
      <4>4. QED
        BY <3>2, <4>2, <4>3, KeysFacts, KeysFactsPrime
    <3>3. CASE ~(x = t /\ y = e)
      <4>1. At(x, y)' = At(x, y)
        BY <2>3, <3>3
      <4>2. \A j \in At(x, y) : recs'[j] = recs[j]
        BY <2>1 DEF At
      <4>3. ReloadAt(x, y)' = ReloadAt(x, y)
        BY <4>1, <4>2 DEF ReloadAt
      <4>4. QED
        BY <3>3, <4>3, KeysFacts, KeysFactsPrime
    <3>4. QED
      BY <3>2, <3>3
  <2>7. q.reload # 0 => PeriodicKeys' = PeriodicKeys \cup {<<t, e>>}
    <3>1. PeriodicKeys \in SUBSET Key /\ <<t, e>> \in Key
      BY KeysFacts DEF Key
    <3>2. q.reload # 0 => \A x \in Task, y \in Event :
            <<x, y>> \in PeriodicKeys' <=> <<x, y>> \in PeriodicKeys \/ <<x, y>> = <<t, e>>
      BY <2>6
    <3>3. PeriodicKeys' \in SUBSET Key
      BY KeysFactsPrime
    <3>4. QED
      BY <3>1, <3>2, <3>3, PairAdded
  <2>8. q.reload = 0 => PeriodicKeys' = PeriodicKeys
    <3>1. q.reload = 0 => \A x \in Task, y \in Event :
            <<x, y>> \in PeriodicKeys' <=> <<x, y>> \in PeriodicKeys
      BY <2>6
    <3>2. PeriodicKeys \in SUBSET Key /\ PeriodicKeys' \in SUBSET Key
      BY KeysFacts, KeysFactsPrime
    <3>3. QED
      BY <3>1, <3>2, PairSets
  <2>9. QED
    BY <1>2, <2>5, <2>7, <2>8
<1>3. QED
  BY <1>1, <1>2

(* The one record of a timer leaves the list or loses its event flag. *)
LEMMA Ended ==
  ASSUME NEW t \in Task, NEW e \in Event, At(t, e)' = {},
         \A x \in Task, y \in Event :
           ~(x = t /\ y = e) =>
             /\ At(x, y)' = {} <=> At(x, y) = {}
             /\ ReloadAt(x, y)' = {} <=> ReloadAt(x, y) = {}
  PROVE  /\ RunningKeys' = RunningKeys \ {<<t, e>>}
         /\ PeriodicKeys' = PeriodicKeys \ {<<t, e>>}
<1>0. ReloadAt(t, e)' = {}
  BY DEF ReloadAt
<1>1. \A x \in Task, y \in Event :
        <<x, y>> \in RunningKeys' <=> <<x, y>> \in RunningKeys /\ <<x, y>> # <<t, e>>
  BY ZenonT(40), KeysFacts, KeysFactsPrime
<1>2. \A x \in Task, y \in Event :
        <<x, y>> \in PeriodicKeys' <=> <<x, y>> \in PeriodicKeys /\ <<x, y>> # <<t, e>>
  BY ZenonT(40), <1>0, KeysFacts, KeysFactsPrime
<1>3. /\ RunningKeys \in SUBSET Key
      /\ PeriodicKeys \in SUBSET Key
      /\ <<t, e>> \in Key
      /\ RunningKeys' \in SUBSET Key
      /\ PeriodicKeys' \in SUBSET Key
  BY KeysFacts, KeysFactsPrime DEF Key
<1> DEFINE p == <<t, e>>
<1> HIDE DEF p
<1>4. RunningKeys' = RunningKeys \ {p}
  <2>1. p \in Key /\ RunningKeys \in SUBSET Key /\ RunningKeys' \in SUBSET Key
    BY <1>3 DEF p
  <2>2. \A x \in Task, y \in Event :
          <<x, y>> \in RunningKeys' <=> <<x, y>> \in RunningKeys /\ <<x, y>> # p
    BY <1>1 DEF p
  <2>3. QED
    BY <2>1, <2>2, PairRemoved
<1>5. PeriodicKeys' = PeriodicKeys \ {p}
  <2>1. p \in Key /\ PeriodicKeys \in SUBSET Key /\ PeriodicKeys' \in SUBSET Key
    BY <1>3 DEF p
  <2>2. \A x \in Task, y \in Event :
          <<x, y>> \in PeriodicKeys' <=> <<x, y>> \in PeriodicKeys /\ <<x, y>> # p
    BY <1>2 DEF p
  <2>3. QED
    BY <2>1, <2>2, PairRemoved
<1>6. QED
  BY <1>4, <1>5 DEF p

-----------------------------------------------------------------------------
(* The steps of OsalTimers as steps of the table *)

LEMMA StartTimerMaps ==
  ASSUME ConstantsAssumption, IInv, NEW t \in Task, NEW e \in Event,
         NEW d \in Timeouts, StartTimer(t, e, d)
  PROVE  Table!Start(<<t, e>>)
<1>0. d \in Nat /\ 0 \in Nat /\ TypeOK
  BY DEF ConstantsAssumption, IInv
<1>1. BitsSeen' = BitsSeen
  BY BitsSeenQuiet DEF StartTimer, walk
<1>2. CASE \E i \in 1..Len(recs) :
             Found(t, e, i) /\ recs' = [recs EXCEPT ![i] = Restarted(@, d)]
  <2>1. PICK i \in 1..Len(recs) :
          Found(t, e, i) /\ recs' = [recs EXCEPT ![i] = Restarted(recs[i], d)]
    BY <1>2
  <2>2. recs[i] \in Rec /\ recs[i].task = t /\ recs[i].ev = e
    BY <1>0, <2>1, RecFields DEF Found
  <2> DEFINE q == Restarted(recs[i], d)
  <2>3. q \in Rec /\ q.task = t /\ q.ev = e /\ q.reload = recs[i].reload
    BY <1>0, <2>2, RestartedFacts
  <2>4. recs' = [recs EXCEPT ![i] = q]
    BY <2>1
  <2> HIDE DEF q
  <2>5. SameRecords
    BY <1>0, <2>2, <2>3, <2>4, PutFacts DEF SameRecords
  <2>6. i \in At(t, e)
    BY <2>2 DEF At
  <2>7. <<t, e>> \in RunningKeys
    BY <2>6, KeysFacts
  <2>8. RunningKeys' = RunningKeys /\ PeriodicKeys' = PeriodicKeys
    BY <2>5, SameKeys
  <2>9. QED
    BY <1>1, <2>7, <2>8 DEF Table!Start
<1>3. CASE ~Searched(t, e) /\ recs' = Append(recs, NewRec(t, e, d, 0))
  <2> DEFINE q == NewRec(t, e, d, 0)
  <2>1. q \in Rec /\ q.task = t /\ q.ev = e /\ q.reload = 0
    BY <1>0, NewRecFacts
  <2>2. recs' = Append(recs, q)
    BY <1>3
  <2> HIDE DEF q
  <2>3. At(t, e) = {}
    BY <1>3 DEF Searched, At
  <2>4. RunningKeys' = RunningKeys \cup {<<t, e>>} /\ PeriodicKeys' = PeriodicKeys
    BY <1>0, <2>1, <2>2, <2>3, Started
  <2>5. QED
    BY <1>1, <2>4 DEF Table!Start
<1>4. QED
  BY <1>2, <1>3 DEF StartTimer

LEMMA StartReloadMaps ==
  ASSUME ConstantsAssumption, IInv, NEW t \in Task, NEW e \in Event,
         NEW d \in Periods, StartReload(t, e, d)
  PROVE  Table!StartReload(<<t, e>>)
<1>0. d \in Nat /\ d # 0 /\ TypeOK
  BY DEF ConstantsAssumption, IInv
<1>1. BitsSeen' = BitsSeen
  BY BitsSeenQuiet DEF StartReload, walk
<1>2. CASE \E i \in 1..Len(recs) :
             /\ Found(t, e, i)
             /\ recs' = [recs EXCEPT ![i] = [Restarted(@, d) EXCEPT !.reload = d]]
  <2>1. PICK i \in 1..Len(recs) :
          /\ Found(t, e, i)
          /\ recs' = [recs EXCEPT ![i] = [Restarted(recs[i], d) EXCEPT !.reload = d]]
    BY <1>2
  <2>2. recs[i] \in Rec /\ recs[i].task = t /\ recs[i].ev = e
    BY <1>0, <2>1, RecFields DEF Found
  <2> DEFINE q == [Restarted(recs[i], d) EXCEPT !.reload = d]
  <2>3. q \in Rec /\ q.task = t /\ q.ev = e /\ q.reload = d
    BY <1>0, <2>2, RestartedFacts, ReloadedFacts
  <2>4. recs' = [recs EXCEPT ![i] = q]
    BY <2>1
  <2> HIDE DEF q
  <2>5. \E j \in At(t, e) : recs' = [recs EXCEPT ![j] = q]
    BY <2>2, <2>4 DEF At
  <2>6. /\ RunningKeys' = RunningKeys \cup {<<t, e>>}
        /\ PeriodicKeys' = PeriodicKeys \cup {<<t, e>>}
    BY <1>0, <2>3, <2>5, Started
  <2>7. QED
    BY <1>1, <2>6 DEF Table!StartReload
<1>3. CASE ~Searched(t, e) /\ recs' = Append(recs, NewRec(t, e, d, d))
  <2> DEFINE q == NewRec(t, e, d, d)
  <2>1. q \in Rec /\ q.task = t /\ q.ev = e /\ q.reload = d
    BY <1>0, NewRecFacts
  <2>2. recs' = Append(recs, q)
    BY <1>3
  <2> HIDE DEF q
  <2>3. At(t, e) = {}
    BY <1>3 DEF Searched, At
  <2>4. /\ RunningKeys' = RunningKeys \cup {<<t, e>>}
        /\ PeriodicKeys' = PeriodicKeys \cup {<<t, e>>}
    BY <1>0, <2>1, <2>2, <2>3, Started
  <2>5. QED
    BY <1>1, <2>4 DEF Table!StartReload
<1>4. QED
  BY <1>2, <1>3 DEF StartReload

LEMMA StopMaps ==
  ASSUME ConstantsAssumption, IInv, NEW t \in Task, NEW e \in Event, StopTimer(t, e)
  PROVE  Table!Stop(<<t, e>>)
<1>0. TypeOK /\ OneRecord /\ e # NoEvent /\ NoEvent \notin Event
  BY DEF ConstantsAssumption, IInv
<1>1. BitsSeen' = BitsSeen
  BY BitsSeenQuiet DEF StopTimer, walk
<1>2. PICK i \in 1..Len(recs) :
        Found(t, e, i) /\ recs' = [recs EXCEPT ![i] = Deleted(recs[i])]
  BY DEF StopTimer
<1>3. recs[i] \in Rec /\ recs[i].task = t /\ recs[i].ev = e
  BY <1>0, <1>2, RecFields DEF Found
<1> DEFINE q == Deleted(recs[i])
<1>4. q \in Rec /\ q.ev = NoEvent
  BY <1>3 DEF Deleted, Rec
<1>5. recs' = [recs EXCEPT ![i] = q]
  BY <1>2
<1> HIDE DEF q
<1>6. /\ Len(recs') = Len(recs)
      /\ recs'[i] = q
      /\ \A j \in 1..Len(recs) : j # i => recs'[j] = recs[j]
  BY <1>0, <1>4, <1>5, PutFacts
<1>7. \A j \in At(t, e) : j = i
  BY <1>0, <1>3 DEF At, OneRecord
<1>8. At(t, e)' = {}
  BY <1>0, <1>4, <1>6, <1>7 DEF At
<1>9. \A x \in Task, y \in Event : ~(x = t /\ y = e) => At(x, y)' = At(x, y)
  BY <1>0, <1>3, <1>4, <1>6 DEF At
<1>10. \A x \in Task, y \in Event : ~(x = t /\ y = e) => ReloadAt(x, y)' = ReloadAt(x, y)
  <2>1. SUFFICES ASSUME NEW x \in Task, NEW y \in Event, ~(x = t /\ y = e)
                 PROVE  ReloadAt(x, y)' = ReloadAt(x, y)
    OBVIOUS
  <2>2. \A j \in At(x, y) : recs'[j] = recs[j]
    BY <1>3, <1>6, <2>1 DEF At
  <2>3. QED
    BY <1>9, <2>1, <2>2 DEF ReloadAt
<1>11. /\ RunningKeys' = RunningKeys \ {<<t, e>>}
       /\ PeriodicKeys' = PeriodicKeys \ {<<t, e>>}
  BY <1>8, <1>9, <1>10, Ended
<1>12. QED
  BY <1>1, <1>11 DEF Table!Stop

(* Between the critical section of the walk and the setting of the event the
   expired timer's bit is already seen. *)
LEMMA SeenFacts ==
  ASSUME TypeOK, freed = {}
  PROVE  BitsSeen = bits
BY DEF TypeOK, BitsSeen

LEMMA SeenFactsPrime ==
  ASSUME TypeOK', freed' = {}
  PROVE  BitsSeen' = bits'
BY DEF TypeOK, BitsSeen

LEMMA SeenNewPrime ==
  ASSUME TypeOK', NEW t \in Task, NEW e \in Event, freed' = {<<t, e>>}
  PROVE  BitsSeen' = [bits' EXCEPT ![t] = @ \cup {e}]
<1> DEFINE M(x) == {f \in freed' : f[1] = x}
           E(x) == {k[2] : k \in M(x)}
<1>1. M(t) = {<<t, e>>}
  OBVIOUS
<1>2. {k[2] : k \in {<<t, e>>}} = {e}
  OBVIOUS
<1>3. E(t) = {e}
  BY <1>1, <1>2
<1>4. \A x \in Task : x # t => M(x) = {}
  OBVIOUS
<1>5. \A x \in Task : M(x) = {} => E(x) = {}
  OBVIOUS
<1>6. bits' \in [Task -> SUBSET Event]
  BY DEF TypeOK
<1>7. BitsSeen' = [x \in Task |-> bits'[x] \cup E(x)]
  BY DEF BitsSeen
<1> HIDE DEF E, M
<1>8. QED
  BY <1>3, <1>4, <1>5, <1>6, <1>7

LEMMA TickReloadMaps ==
  ASSUME IInv, IInv', TickReload
  PROVE  \E k \in Table!Key : Table!Reload(k)
<1> DEFINE t == recs[pos].task
           e == recs[pos].ev
           p == recs[pos].reload
           q == [[[[recs[pos] EXCEPT !.timeout = p] EXCEPT !.age = 0]
                    EXCEPT !.want = p] EXCEPT !.slack = 0]
<1>1. pc = "walk" /\ pos # 0 /\ recs[pos].ev # NoEvent /\ p # 0
  BY DEF TickReload
<1>2. pos \in 1..Len(recs) /\ t \in Task /\ e \in Event /\ TypeOK /\ recs[pos] \in Rec
      /\ p \in Nat
  BY <1>1, AtPos DEF IInv
<1>3. q \in Rec /\ q.task = t /\ q.ev = e /\ q.reload = p
  BY <1>2 DEF Rec
<1>4. recs' = [recs EXCEPT ![pos] = q]
  <2>1. recs' = [recs EXCEPT ![pos].timeout = p, ![pos].age = 0,
                             ![pos].want = p, ![pos].slack = 0]
    BY DEF TickReload
  <2>2. recs \in Seq(Rec)
    BY <1>2 DEF TypeOK
  <2>3. QED
    BY <1>2, <2>1, <2>2
<1>5. bits' = [bits EXCEPT ![t] = @ \cup {e}] /\ freed' = freed
  BY DEF TickReload
<1>6. freed = {} /\ BitsSeen = bits /\ BitsSeen' = bits'
  <2>1. freed = {} /\ freed' = {} /\ TypeOK'
    BY <1>1, <1>5 DEF IInv, Shape
  <2>2. QED
    BY <1>2, <2>1, SeenFacts, SeenFactsPrime
<1> HIDE DEF q
<1>7. SameRecords
  BY <1>2, <1>3, <1>4, PutFacts DEF SameRecords
<1>8. RunningKeys' = RunningKeys /\ PeriodicKeys' = PeriodicKeys
  BY <1>7, SameKeys
<1>9. <<t, e>> \in PeriodicKeys
  <2>1. pos \in ReloadAt(t, e)
    BY <1>1, <1>2 DEF ReloadAt, At
  <2>2. QED
    BY <1>2, <2>1, KeysFacts
<1>10. Table!Notified(<<t, e>>) = [BitsSeen EXCEPT ![t] = @ \cup {e}]
  BY DEF Table!Notified
<1>11. Table!Reload(<<t, e>>)
  BY <1>5, <1>6, <1>8, <1>9, <1>10 DEF Table!Reload
<1>12. <<t, e>> \in Table!Key
  BY <1>2 DEF Table!Key
<1>13. QED
  BY <1>11, <1>12

(* Taking a running timer out of the list is its expiry; taking a deleted one
   out is nothing the table sees. *)
LEMMA TickOutMaps ==
  ASSUME ConstantsAssumption, IInv, IInv', TickOut
  PROVE  \/ \E k \in Table!Key : Table!Expire(k)
         \/ UNCHANGED <<RunningKeys, PeriodicKeys, BitsSeen>>
<1>0. /\ pos \in 1..Len(recs) /\ Len(recs) \in Nat /\ TypeOK /\ TypeOK' /\ OneRecord
      /\ recs \in Seq(Rec) /\ pc = "walk" /\ freed = {} /\ bits' = bits
      /\ NoEvent \notin Event
  BY DEF IInv, TypeOK, TickOut, Shape, ConstantsAssumption
<1>1. /\ Len(recs') = Len(recs) - 1
      /\ \A k \in 1..Len(recs) - 1 : recs'[k] = IF k < pos THEN recs[k] ELSE recs[k + 1]
  BY ZenonT(40), <1>0, RemoveAtFacts, recs' = RemoveAt(recs, pos) DEF TickOut
<1> DEFINE Old(k) == IF k < pos THEN k ELSE k + 1
           New(k) == IF k < pos THEN k ELSE k - 1
<1>2. \A k \in 1..Len(recs) - 1 :
        Old(k) \in 1..Len(recs) /\ Old(k) # pos /\ recs'[k] = recs[Old(k)]
  BY <1>0, <1>1
<1>3. \A k \in 1..Len(recs) : k # pos => New(k) \in 1..Len(recs) - 1 /\ Old(New(k)) = k
  BY <1>0
<1> HIDE DEF Old, New
<1>4. ASSUME NEW x \in Task, NEW y \in Event
      PROVE  /\ At(x, y)' = {} <=> At(x, y) \ {pos} = {}
             /\ ReloadAt(x, y)' = {} <=> ReloadAt(x, y) \ {pos} = {}
  <2>1. \A k \in At(x, y)' : Old(k) \in At(x, y) \ {pos}
    BY <1>1, <1>2 DEF At
  <2>2. \A k \in At(x, y) \ {pos} : New(k) \in At(x, y)'
    BY <1>1, <1>2, <1>3 DEF At
  <2>3. \A k \in ReloadAt(x, y)' : Old(k) \in ReloadAt(x, y) \ {pos}
    BY <1>1, <1>2, <2>1 DEF ReloadAt, At
  <2>4. \A k \in ReloadAt(x, y) \ {pos} : New(k) \in ReloadAt(x, y)'
    BY <1>1, <1>2, <1>3, <2>2 DEF ReloadAt, At
  <2>5. QED
    BY <2>1, <2>2, <2>3, <2>4
<1>5. BitsSeen = bits
  BY <1>0, SeenFacts
<1>6. CASE recs[pos].ev = NoEvent
  <2>1. freed' = {}
    BY <1>6 DEF TickOut
  <2>2. BitsSeen' = BitsSeen
    BY <1>0, <1>5, <2>1, SeenFactsPrime
  <2>3. \A x \in Task, y \in Event : pos \notin At(x, y) /\ pos \notin ReloadAt(x, y)
    BY <1>0, <1>6 DEF At, ReloadAt
  <2>4. \A x \in Task, y \in Event :
          /\ At(x, y)' = {} <=> At(x, y) = {}
          /\ ReloadAt(x, y)' = {} <=> ReloadAt(x, y) = {}
    BY <1>4, <2>3
  <2>5. \A x \in Task, y \in Event :
          <<x, y>> \in RunningKeys' <=> <<x, y>> \in RunningKeys
    BY <2>4, KeysFacts, KeysFactsPrime
  <2>6. \A x \in Task, y \in Event :
          <<x, y>> \in PeriodicKeys' <=> <<x, y>> \in PeriodicKeys
    BY ZenonT(40), <2>4, KeysFacts, KeysFactsPrime
  <2>7. /\ RunningKeys \in SUBSET Key /\ RunningKeys' \in SUBSET Key
        /\ PeriodicKeys \in SUBSET Key /\ PeriodicKeys' \in SUBSET Key
    BY KeysFacts, KeysFactsPrime
  <2>8. RunningKeys' = RunningKeys /\ PeriodicKeys' = PeriodicKeys
    BY <2>5, <2>6, <2>7, PairSets
  <2>9. QED
    BY <2>2, <2>8
<1>7. CASE recs[pos].ev # NoEvent
  <2>1. PICK t \in Task, e \in Event : t = recs[pos].task /\ e = recs[pos].ev
    BY <1>0, <1>7, AtPos
  <2>2. freed' = {<<t, e>>} /\ recs[pos].reload = 0
    BY <1>7, <2>1 DEF TickOut
  <2>3. BitsSeen' = [bits' EXCEPT ![t] = @ \cup {e}]
    BY <1>0, <2>1, <2>2, SeenNewPrime
  <2>4. At(t, e) = {pos}
    BY <1>0, <1>7, <2>1 DEF At, OneRecord
  <2>5. ReloadAt(t, e) = {}
    BY <2>2, <2>4 DEF ReloadAt
  <2>6. <<t, e>> \in RunningKeys /\ <<t, e>> \notin PeriodicKeys
    BY <2>1, <2>4, <2>5, KeysFacts
  <2>7. \A x \in Task, y \in Event : ~(x = t /\ y = e) =>
          pos \notin At(x, y) /\ pos \notin ReloadAt(x, y)
    BY <2>1 DEF At, ReloadAt
  <2>8. At(t, e)' = {}
    BY <1>4, <2>1, <2>4
  <2>9. \A x \in Task, y \in Event : ~(x = t /\ y = e) =>
          /\ At(x, y)' = {} <=> At(x, y) = {}
          /\ ReloadAt(x, y)' = {} <=> ReloadAt(x, y) = {}
    BY <1>4, <2>7
  <2>10. /\ RunningKeys' = RunningKeys \ {<<t, e>>}
         /\ PeriodicKeys' = PeriodicKeys \ {<<t, e>>}
    BY <2>1, <2>8, <2>9, Ended
  <2>11. PeriodicKeys' = PeriodicKeys
    BY <2>6, <2>10
  <2>12. BitsSeen' = Table!Notified(<<t, e>>)
    BY <1>0, <1>5, <2>3 DEF Table!Notified
  <2>13. Table!Expire(<<t, e>>) /\ <<t, e>> \in Table!Key
    BY <2>1, <2>6, <2>10, <2>11, <2>12 DEF Table!Expire, Table!Key
  <2>14. QED
    BY <2>13
<1>8. QED
  BY <1>6, <1>7

LEMMA TakeMaps ==
  ASSUME IInv, IInv', NEW t \in Task, Take(t)
  PROVE  Table!Take(t)
<1>1. freed = {} /\ freed' = {} /\ recs' = recs /\ bits' = [bits EXCEPT ![t] = {}]
  BY DEF IInv, Shape, Take, walk
<1>2. BitsSeen = bits /\ BitsSeen' = bits'
  BY <1>1, SeenFacts, SeenFactsPrime DEF IInv
<1>3. SameRecords
  BY <1>1 DEF SameRecords
<1>4. QED
  BY <1>1, <1>2, <1>3, SameKeys DEF Table!Take

(* Ageing, counting down and the bookkeeping of the walk. *)
LEMMA QuietMaps ==
  ASSUME ConstantsAssumption, IInv, IInv',
         \/ \E u \in Elapsed : BeginUpdate(u)
         \/ ReadHead \/ TickOn \/ Notify \/ EndUpdate \/ UNCHANGED vars
  PROVE  UNCHANGED <<RunningKeys, PeriodicKeys, BitsSeen>>
<1>0. TypeOK /\ TypeOK'
  BY DEF IInv
<1>1. SameRecords
  <2>1. CASE \E u \in Elapsed : BeginUpdate(u)
    <3>1. PICK u \in Elapsed : BeginUpdate(u)
      BY <2>1
    <3>2. recs' = [i \in 1..Len(recs) |-> IF recs[i].ev = NoEvent THEN recs[i]
                                         ELSE Aged(recs[i], u)]
      BY <3>1 DEF BeginUpdate
    <3>3. Len(recs') = Len(recs)
      BY <1>0, <3>2 DEF TypeOK
    <3>4. \A i \in 1..Len(recs) :
            /\ recs'[i].task = recs[i].task
            /\ recs'[i].ev = recs[i].ev
            /\ recs'[i].reload = recs[i].reload
      <4>1. TAKE i \in 1..Len(recs)
      <4>2. recs[i] \in Rec
        BY <1>0, RecFields
      <4>3. recs'[i] = recs[i] \/ recs'[i] = Aged(recs[i], u)
        BY <3>2
      <4>4. QED
        BY <4>2, <4>3 DEF Rec, Aged
    <3>5. QED
      BY <3>3, <3>4 DEF SameRecords
  <2>2. CASE TickOn
    <3> DEFINE d == Reduced(recs[pos].timeout)
               q == [recs[pos] EXCEPT !.timeout = d]
    <3>1. recs[pos].ev # NoEvent /\ pos # 0 /\ pc = "walk" /\ recs' = [recs EXCEPT ![pos] = q]
      BY <2>2 DEF TickOn
    <3>2. pos \in 1..Len(recs) /\ recs[pos] \in Rec
      BY <3>1, AtPos
    <3>3. d \in Nat
      BY <2>2, <3>1, AtPos DEF Reduced
    <3> HIDE DEF d
    <3>4. q \in Rec /\ q.task = recs[pos].task /\ q.ev = recs[pos].ev
          /\ q.reload = recs[pos].reload
      BY <3>2, <3>3 DEF Rec
    <3> HIDE DEF q
    <3>5. QED
      BY <1>0, <3>1, <3>2, <3>4, PutFacts DEF SameRecords
  <2>3. CASE ReadHead \/ Notify \/ EndUpdate \/ UNCHANGED vars
    BY <2>3 DEF ReadHead, Notify, EndUpdate, vars, SameRecords
  <2>4. QED
    BY <2>1, <2>2, <2>3
<1>2. BitsSeen' = BitsSeen
  <2>1. CASE Notify
    <3>1. freed' = {} /\ bits' = BitsSeen
      BY <2>1 DEF Notify, BitsSeen
    <3>2. QED
      BY <1>0, <3>1, SeenFactsPrime
  <2>2. CASE ~Notify
    BY <2>2, BitsSeenQuiet DEF BeginUpdate, ReadHead, TickOn, EndUpdate, vars
  <2>3. QED
    BY <2>1, <2>2
<1>3. QED
  BY <1>1, <1>2, SameKeys

LEMMA StepMaps ==
  ASSUME IInv, IInv', [Next]_vars
  PROVE  [Table!Next]_(Table!vars)
<1>1. CASE \E t \in Task, e \in Event : \E d \in Timeouts : StartTimer(t, e, d)
  BY <1>1, StartTimerMaps, ConstantsAssumption DEF Table!Next, Table!Key
<1>2. CASE \E t \in Task, e \in Event : \E d \in Periods : StartReload(t, e, d)
  BY <1>2, StartReloadMaps, ConstantsAssumption DEF Table!Next, Table!Key
<1>3. CASE \E t \in Task, e \in Event : StopTimer(t, e)
  BY <1>3, StopMaps, ConstantsAssumption DEF Table!Next, Table!Key
<1>4. CASE TickReload
  BY <1>4, TickReloadMaps DEF Table!Next
<1>5. CASE TickOut
  BY <1>5, TickOutMaps, ConstantsAssumption DEF Table!Next, Table!vars
<1>6. CASE \E t \in Task : Take(t)
  BY <1>6, TakeMaps DEF Table!Next
<1>7. CASE \/ \E u \in Elapsed : BeginUpdate(u)
           \/ ReadHead \/ TickOn \/ Notify \/ EndUpdate \/ UNCHANGED vars
  BY <1>7, QuietMaps, ConstantsAssumption DEF Table!vars
<1>8. QED
  BY <1>1, <1>2, <1>3, <1>4, <1>5, <1>6, <1>7 DEF Next, Update

(* The list of records that osalTimerUpdate walks and interrupts change in
   between keeps the promise of the table of timers. *)
THEOREM TimersImplementTable == Spec => ImplementsTable
<1>1. Init => Table!Init
  <2>1. SUFFICES ASSUME Init
                 PROVE  Table!Init
    OBVIOUS
  <2>2. RunningKeys = {} /\ PeriodicKeys = {}
    BY <2>1 DEF Init, RunningKeys, PeriodicKeys
  <2>3. BitsSeen = [t \in Task |-> {}]
    <3>1. bits \in [Task -> SUBSET Event] /\ freed = {} /\ TypeOK
      BY <2>1, Initially DEF Init, IInv, TypeOK
    <3>2. QED
      BY <2>1, <3>1, SeenFacts DEF Init
  <2>4. QED
    BY <2>2, <2>3 DEF Table!Init
<1>2. QED
  BY <1>1, StepMaps, RecordsInvariant, PTL DEF Spec, ImplementsTable, Table!Spec
=============================================================================
