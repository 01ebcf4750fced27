-------------------------- MODULE UserEventsProofs --------------------------
(***************************************************************************)
(* Proofs about UserEvents for every set of tasks, events, heap blocks and *)
(* every call table: the module's pointers never dangle, and an entry that *)
(* is not resident never runs more often than it was armed for; and, for   *)
(* the call tables the boards keep to, no event owns two entries and no    *)
(* armed entry is stranded.                                                *)
(***************************************************************************)
EXTENDS UserEvents, SeqLemmas

LEMMA NodesFacts ==
  ASSUME list \in Seq(Node)
  PROVE  /\ Nodes \subseteq Node
         /\ \A k \in 1..Len(list) : list[k] \in Nodes
         /\ \A n \in Nodes : \E k \in 1..Len(list) : list[k] = n
         /\ NoDoubleLink <=> NoRepeat(list)
BY ToSetFacts DEF Nodes, NoDoubleLink, NoRepeat

(* The list after linking n at position i, and after unlinking the i-th node *)
LEMMA LinkedList ==
  ASSUME list \in Seq(Node), NEW i \in 1..Len(list) + 1, NEW n \in Node,
         list' = InsertAt(list, i, n)
  PROVE  /\ Len(list') = Len(list) + 1
         /\ \A k \in 1..Len(list) + 1 :
              list'[k] = IF k < i THEN list[k] ELSE IF k = i THEN n ELSE list[k - 1]
<1>1. IsInsertion(InsertAt(list, i, n), list, i, n)
  BY InsertAtIs, Zenon
<1>2. QED
  BY <1>1, Zenon DEF IsInsertion

LEMMA UnlinkedList ==
  ASSUME list \in Seq(Node), NEW i \in 1..Len(list), list' = RemoveAt(list, i)
  PROVE  /\ Len(list') = Len(list) - 1
         /\ \A k \in 1..Len(list) - 1 :
              list'[k] = IF k < i THEN list[k] ELSE list[k + 1]
<1>1. Len(RemoveAt(list, i)) = Len(list) - 1
  BY RemoveAtFacts
<1>2. \A k \in 1..Len(list) - 1 :
        RemoveAt(list, i)[k] = IF k < i THEN list[k] ELSE list[k + 1]
  BY RemoveAtFacts
<1>3. QED
  BY <1>1, <1>2, Zenon

-----------------------------------------------------------------------------
(* What a call of the interface does, whoever makes it. *)

LEMMA SetAppEventFacts ==
  ASSUME NEW r \in Entry, timers \in [Task -> SUBSET Event],
         bits \in [Task -> SUBSET Event], SetAppEvent(r)
  PROVE  /\ timers' \in [Task -> SUBSET Event]
         /\ bits' \in [Task -> SUBSET Event]
BY DEF SetAppEvent, Entry

(* One entry n, new or of the same event, takes over the call's fields. *)
Written(c, n) ==
  /\ Nodes' = Nodes \cup {n}
  /\ n \in Nodes => node[n].ev = c.ev
  /\ node'[n].cnt = c.cnt
  /\ node'[n].res = c.res
  /\ node'[n].ev = c.ev
  /\ left'[n] = c.cnt
  /\ \A m \in Node \ {n} : node'[m] = node[m] /\ left'[m] = left[m]

Storage ==
  /\ list \in Seq(Node)
  /\ node \in [Node -> Entry]
  /\ map \in [Event -> Node \cup {Nil}]
  /\ timers \in [Task -> SUBSET Event]
  /\ bits \in [Task -> SUBSET Event]
  /\ left \in [Node -> 0..Loop]
  /\ NoDoubleLink
  /\ MapSound

LEMMA SetUserEventFacts ==
  ASSUME Storage, NEW c \in Call, SetUserEvent(c)
  PROVE  /\ Storage'
         /\ \/ UNCHANGED <<list, node, left>>
            \/ \E n \in Node : Written(c, n)
<1>1. PICK i \in 1..Len(list) + 1 :
        \/ UNCHANGED <<list, node, map, timers, bits, left>>
        \/ \E n \in Node \ Nodes :
             /\ list' = InsertAt(list, i, n)
             /\ node' = [node EXCEPT ![n] = EntryOf(c)]
             /\ map' = IF i <= Len(list) \/ list = <<>>
                         THEN [map EXCEPT ![c.ev] = n] ELSE map
             /\ left' = [left EXCEPT ![n] = c.cnt]
             /\ SetAppEvent(EntryOf(c))
  BY DEF SetUserEvent
<1>2. CASE UNCHANGED <<list, node, map, timers, bits, left>>
  BY <1>2 DEF Storage, NoDoubleLink, MapSound, Nodes
<1>3. ASSUME NEW n \in Node \ Nodes,
             list' = InsertAt(list, i, n),
             node' = [node EXCEPT ![n] = EntryOf(c)],
             map' = IF i <= Len(list) \/ list = <<>>
                      THEN [map EXCEPT ![c.ev] = n] ELSE map,
             left' = [left EXCEPT ![n] = c.cnt],
             SetAppEvent(EntryOf(c))
      PROVE  Storage' /\ Written(c, n)
  <2>1. EntryOf(c) \in Entry /\ c.ev \in Event /\ c.cnt \in 0..Loop
    BY DEF EntryOf, Entry, Call
  <2>2. list' \in Seq(Node)
    BY <1>3, InsertAtFacts DEF Storage
  <2>3. Nodes' = Nodes \cup {n} /\ NoDoubleLink'
    <3>1. NoRepeat(list)
      BY DEF Storage, NoDoubleLink, NoRepeat
    <3>2. /\ ToSet(InsertAt(list, i, n)) = ToSet(list) \cup {n}
          /\ NoRepeat(InsertAt(list, i, n))
      BY <3>1, InsertAtSet DEF Storage, Nodes
    <3>3. QED
      BY <1>3, <3>2 DEF Nodes, NoDoubleLink, NoRepeat
  <2>4. /\ node' \in [Node -> Entry]
        /\ left' \in [Node -> 0..Loop]
        /\ map' \in [Event -> Node \cup {Nil}]
    BY <1>3, <2>1 DEF Storage
  <2>5. timers' \in [Task -> SUBSET Event] /\ bits' \in [Task -> SUBSET Event]
    BY <1>3, <2>1, SetAppEventFacts DEF Storage
  <2>6. /\ node'[n] = EntryOf(c)
        /\ left'[n] = c.cnt
        /\ \A m \in Node \ {n} : node'[m] = node[m] /\ left'[m] = left[m]
    BY <1>3 DEF Storage
  <2>7. MapSound'
    <3>1. SUFFICES ASSUME NEW e \in Event, map'[e] # Nil
                   PROVE  map'[e] \in Nodes' /\ node'[map'[e]].ev = e
      BY DEF MapSound
    <3>2. CASE map'[e] = map[e]
      <4>1. map[e] \in Nodes /\ node[map[e]].ev = e /\ map[e] # n
        BY <3>1, <3>2 DEF Storage, MapSound
      <4>2. map[e] \in Node
        BY <3>1, <3>2 DEF Storage
      <4>3. QED
        BY <2>3, <2>6, <3>2, <4>1, <4>2
    <3>3. CASE e = c.ev /\ map'[e] = n
      BY <2>3, <2>6, <3>3 DEF EntryOf
    <3>4. QED
      BY <1>3, <2>1, <3>2, <3>3 DEF Storage
  <2>8. Written(c, n)
    BY <1>3, <2>3, <2>6 DEF Written, EntryOf
  <2>9. QED
    BY <2>2, <2>3, <2>4, <2>5, <2>7, <2>8 DEF Storage
<1>4. QED
  BY <1>1, <1>2, <1>3

LEMMA UpdateUserEventFacts ==
  ASSUME Storage, NEW c \in Call, UpdateUserEvent(c)
  PROVE  /\ Storage'
         /\ \/ UNCHANGED <<list, node, left>>
            \/ \E n \in Node : Written(c, n)
<1> DEFINE r(n) == [EntryOf(c) EXCEPT !.task = node[n].task]
<1>1. CASE SetUserEvent(c)
  BY <1>1, SetUserEventFacts
<1>2. ASSUME NEW n \in Node, Queried(c.ev, n),
             node' = [node EXCEPT ![n] = r(n)],
             SetAppEvent(r(n)),
             left' = [left EXCEPT ![n] = c.cnt],
             UNCHANGED <<list, map>>
      PROVE  Storage' /\ Written(c, n)
  <2>1. r(n) \in Entry /\ r(n).ev = c.ev /\ r(n).cnt = c.cnt /\ r(n).res = c.res
    BY DEF EntryOf, Entry, Call, Storage
  <2>2. c.ev \in Event /\ c.cnt \in 0..Loop
    BY DEF Call
  <2>3. n \in Nodes /\ node[n].ev = c.ev
    <3>1. CASE map[c.ev] # Nil /\ n = map[c.ev]
      BY <2>2, <3>1 DEF Storage, MapSound
    <3>2. CASE \E i \in Mentions(c.ev) : n = list[i]
      BY <3>2, NodesFacts DEF Storage, Mentions
    <3>3. QED
      BY <1>2, <3>1, <3>2 DEF Queried
  <2> HIDE DEF r
  <2>4. /\ node' \in [Node -> Entry]
        /\ left' \in [Node -> 0..Loop]
    BY <1>2, <2>1, <2>2 DEF Storage
  <2>5. timers' \in [Task -> SUBSET Event] /\ bits' \in [Task -> SUBSET Event]
    BY <1>2, <2>1, SetAppEventFacts DEF Storage
  <2>6. /\ node'[n] = r(n)
        /\ left'[n] = c.cnt
        /\ \A m \in Node \ {n} : node'[m] = node[m] /\ left'[m] = left[m]
    BY <1>2 DEF Storage
  <2>7. Nodes' = Nodes /\ (NoDoubleLink <=> NoDoubleLink')
    BY <1>2 DEF Nodes, NoDoubleLink
  <2>8. MapSound'
    <3>1. SUFFICES ASSUME NEW e \in Event, map[e] # Nil
                   PROVE  map[e] \in Nodes /\ node'[map[e]].ev = e
      BY <1>2, <2>7 DEF MapSound
    <3>2. map[e] \in Nodes /\ node[map[e]].ev = e /\ map[e] \in Node
      BY <3>1 DEF Storage, MapSound
    <3>3. QED
      BY <2>1, <2>3, <2>6, <3>2
  <2>9. Written(c, n)
    BY <2>1, <2>3, <2>6, <2>7 DEF Written
  <2>10. QED
    BY <1>2, <2>4, <2>5, <2>7, <2>8, <2>9 DEF Storage
<1>3. QED
  BY <1>1, <1>2 DEF UpdateUserEvent

LEMMA PerformFacts ==
  ASSUME Storage, NEW c \in Call, Perform(c)
  PROVE  /\ Storage'
         /\ \/ UNCHANGED <<list, node, left>>
            \/ \E n \in Node : Written(c, n)
BY SetUserEventFacts, UpdateUserEventFacts DEF Perform

-----------------------------------------------------------------------------
(* Types and pointers *)

Control ==
  /\ pc \in {"idle", "scan", "advance", "callback", "check", "decrement",
             "rearm", "ret", "lost"}
  /\ task \in Task
  /\ events \in SUBSET Event
  /\ cur \in Node \cup {Nil}
  /\ nx \in Node \cup {Nil}
  /\ rd \in [cnt : 0..Loop, res : BOOLEAN]

PInv == Storage /\ Control /\ CursorSound

LEMMA PInvDef ==
  /\ PInv => TypeOK
  /\ PInv /\ NullSound => NoDanglingPointer
BY DEF PInv, Storage, Control, TypeOK, NoDanglingPointer

LEMMA BlankType == Blank \in Entry
<1>1. Blank.task \in Task /\ Blank.ev \in Event
  BY ConstantsAssumption DEF Blank
<1>2. 0 \in 0..Loop
  BY ConstantsAssumption
<1>3. QED
  BY <1>1, <1>2 DEF Blank, Entry

LEMMA PInvInit == Init => PInv
<1> SUFFICES ASSUME Init PROVE PInv
  OBVIOUS
<1>1. Blank \in Entry /\ 0 \in 0..Loop /\ Blank.task \in Task
  BY BlankType, ConstantsAssumption DEF Entry
<1>2. Len(list) = 0 /\ list \in Seq(Node)
  BY DEF Init
<1>3. Storage
  BY <1>1, <1>2 DEF Init, Storage, NoDoubleLink, MapSound
<1>4. Control /\ CursorSound
  BY <1>1 DEF Init, Control, CursorSound
<1>5. QED
  BY <1>3, <1>4 DEF PInv

(* A call can only add to the list, so it leaves process_event's cursor in it. *)
LEMMA PInvPerform ==
  ASSUME PInv, NEW c \in Call, Perform(c), UNCHANGED scheduling
  PROVE  PInv'
<1>1. Storage' /\ Nodes \subseteq Nodes'
  BY PerformFacts DEF PInv, Written, Nodes
<1>2. Control'
  BY DEF PInv, Control, scheduling
<1>3. CursorSound'
  BY <1>1 DEF PInv, CursorSound, scheduling
<1>4. QED
  BY <1>1, <1>2, <1>3 DEF PInv

(* A call that goes astray finds an empty list and leaves it empty. *)
LEMMA AstrayFacts ==
  ASSUME PInv, NEW c \in Call, Astray(c)
  PROVE  /\ Nodes = {} /\ Nodes' = {}
         /\ Len(list) = 0 /\ pc' = "lost"
         /\ UNCHANGED <<list, node, map, timers, bits, task, events, cur, nx, rd, left>>
         /\ PInv'
<1>1. /\ list = <<>> /\ pc' = "lost"
      /\ UNCHANGED <<list, node, map, timers, bits, task, events, cur, nx, rd, left>>
  BY DEF Astray, FollowsNull
<1>2. Nodes = {} /\ Nodes' = {} /\ Len(list) = 0
  BY <1>1 DEF Nodes, ToSet
<1>3. Storage' /\ Control' /\ CursorSound'
  BY <1>1, <1>2 DEF PInv, Storage, Control, CursorSound, NoDoubleLink, MapSound
<1>4. QED
  BY <1>1, <1>2, <1>3 DEF PInv

LEMMA NextOfFacts ==
  ASSUME list \in Seq(Node), NEW i \in 1..Len(list)
  PROVE  NextOf(i) \in Nodes \cup {Nil} /\ (NextOf(i) # Nil => NextOf(i) # list[i] \/ ~NoDoubleLink)
<1>1. CASE i = Len(list)
  BY <1>1 DEF NextOf
<1>2. CASE i # Len(list)
  <2>1. i + 1 \in 1..Len(list) /\ i + 1 # i
    BY <1>2
  <2>2. QED
    BY <1>2, <2>1, NodesFacts DEF NextOf, NoDoubleLink
<1>3. QED
  BY <1>1, <1>2

(* Deleting the first entry of the current event keeps the other mapped
   entries, and either keeps the current one or leaves its successor. *)
LEMMA PInvScanSpent ==
  ASSUME PInv, ScanSpent
  PROVE  PInv'
<1> USE DEF PInv
<1>1. PICK i \in Mentions(node[cur].ev) :
        /\ list' = RemoveAt(list, i)
        /\ nx' = NextOf(i)
  BY DEF ScanSpent
<1>2. i \in 1..Len(list) /\ node[list[i]].ev = node[cur].ev
  BY <1>1 DEF Mentions
<1>3. list \in Seq(Node) /\ NoRepeat(list)
  BY DEF Storage, NoDoubleLink, NoRepeat
<1>4. list' \in Seq(Node)
  BY <1>1, <1>2, <1>3, RemoveAtFacts
<1>5. Nodes' = Nodes \ {list[i]} /\ NoDoubleLink'
  <2>1. /\ ToSet(RemoveAt(list, i)) = ToSet(list) \ {list[i]}
        /\ NoRepeat(RemoveAt(list, i))
    BY <1>2, <1>3, RemoveAtSet
  <2>2. QED
    BY <1>1, <2>1 DEF Nodes, NoDoubleLink, NoRepeat
<1>6. cur \in Node /\ node[cur].ev \in Event
  BY DEF ScanSpent, Control, Storage, Entry
<1>7. map' = [map EXCEPT ![node[cur].ev] = Nil]
  BY DEF ScanSpent, Unmapped
<1>8. MapSound'
  <2>1. SUFFICES ASSUME NEW e \in Event, map'[e] # Nil
                 PROVE  map'[e] \in Nodes' /\ node[map'[e]].ev = e
    BY DEF MapSound, ScanSpent
  <2>2. e # node[cur].ev /\ map'[e] = map[e]
    BY <1>6, <1>7, <2>1 DEF Storage
  <2>3. map[e] \in Nodes /\ node[map[e]].ev = e
    BY <2>1, <2>2 DEF Storage, MapSound
  <2>4. QED
    BY <1>2, <1>5, <2>2, <2>3
<1>9. Storage'
  BY <1>4, <1>5, <1>6, <1>7, <1>8 DEF Storage, ScanSpent
<1>10. NextOf(i) \in Nodes' \cup {Nil} /\ NextOf(i) \in Node \cup {Nil}
  BY <1>2, <1>3, <1>5, NextOfFacts, NodesFacts DEF Storage
<1>11. Control' /\ CursorSound'
  BY <1>1, <1>10 DEF ScanSpent, Control, CursorSound
<1>12. QED
  BY <1>9, <1>11

LEMMA PInvAdvance ==
  ASSUME PInv, Advance
  PROVE  PInv'
<1> USE DEF PInv
<1>1. cur' \in Nodes \cup {Nil}
  <2>1. CASE \E i \in 1..Len(list) : list[i] = cur /\ cur' = NextOf(i)
    BY <2>1, NextOfFacts DEF Storage
  <2>2. CASE cur \notin Nodes /\ cur' = nx
    BY <2>2 DEF Advance, CursorSound
  <2>3. QED
    BY <2>1, <2>2 DEF Advance
<1>2. cur' \in Node \cup {Nil}
  BY <1>1, NodesFacts DEF Storage
<1>3. QED
  BY <1>1, <1>2 DEF Advance, Storage, NoDoubleLink, MapSound, Nodes, Control,
                    CursorSound

LEMMA DecrementedFacts ==
  ASSUME rd \in [cnt : 0..Loop, res : BOOLEAN]
  PROVE  /\ Decremented \in 0..Loop
         /\ rd.cnt > 0 => Decremented = rd.cnt - 1
<1>1. Loop \in Nat /\ rd.cnt \in 0..Loop
  BY ConstantsAssumption
<1>2. CASE rd.cnt = 0
  BY <1>1, <1>2 DEF Decremented
<1>3. CASE rd.cnt > 0
  <2>1. rd.cnt + Loop = (rd.cnt - 1) + (Loop + 1) /\ rd.cnt - 1 \in 0..Loop
    BY <1>1, <1>3
  <2>2. (rd.cnt + Loop) % (Loop + 1) = rd.cnt - 1
    BY <1>1, <2>1
  <2>3. QED
    BY <2>1, <2>2 DEF Decremented
<1>4. QED
  BY <1>1, <1>2, <1>3

LEMMA PInvDecrement ==
  ASSUME PInv, Decrement
  PROVE  PInv'
<1> USE DEF PInv
<1>1. cur \in Node /\ cur \in Nodes
  BY NodesFacts DEF CursorSound, Decrement, Storage
<1>2. Decremented \in 0..Loop /\ rd.res \in BOOLEAN
  BY DecrementedFacts DEF Control
<1>3. node' = [node EXCEPT ![cur].cnt = Decremented, ![cur].res = rd.res]
  BY DEF Decrement
<1>4. /\ node' \in [Node -> Entry]
      /\ \A m \in Node : node'[m].ev = node[m].ev
  <2>1. node[cur] \in Entry /\ node \in [Node -> Entry]
    BY <1>1 DEF Storage
  <2>2. [[node[cur] EXCEPT !.cnt = Decremented] EXCEPT !.res = rd.res] \in Entry
    BY <1>2, <2>1 DEF Entry
  <2>3. node' = [node EXCEPT ![cur] =
                   [[node[cur] EXCEPT !.cnt = Decremented] EXCEPT !.res = rd.res]]
    BY <1>1, <1>3, <2>1 DEF Entry
  <2>4. [[node[cur] EXCEPT !.cnt = Decremented] EXCEPT !.res = rd.res].ev
          = node[cur].ev
    BY <2>1 DEF Entry
  <2>5. QED
    BY <1>1, <2>1, <2>2, <2>3, <2>4
<1>5. Storage'
  <2>1. NoDoubleLink' /\ Nodes' = Nodes
    BY DEF Decrement, Storage, NoDoubleLink, Nodes
  <2>2. MapSound'
    BY <1>4, <2>1 DEF Decrement, Storage, MapSound
  <2>3. QED
    BY <1>4, <2>1, <2>2 DEF Decrement, Storage
<1>6. QED
  BY <1>5 DEF Decrement, Control, CursorSound, Nodes

LEMMA PInvStep == PInv /\ [Next]_vars => PInv'
<1> SUFFICES ASSUME PInv, [Next]_vars PROVE PInv'
  OBVIOUS
<1> USE DEF PInv
<1>1. ASSUME NEW c \in MainCalls, MainCall(c) PROVE PInv'
  BY <1>1, PInvPerform, AstrayFacts, ConstantsAssumption DEF MainCall, Calls
<1>2. ASSUME NEW c \in IsrCalls, IsrCall(c) PROVE PInv'
  BY <1>2, PInvPerform, AstrayFacts, ConstantsAssumption DEF IsrCall, Calls
<1>3. ASSUME NEW p \in CbCalls, CallbackCall(p[2]) PROVE PInv'
  <2>1. p[2] \in Call
    BY ConstantsAssumption
  <2>2. QED
    BY <1>3, <2>1, PInvPerform, AstrayFacts DEF CallbackCall, Calls
<1>4. ASSUME NEW t \in Task, NEW e \in Event, Expire(t, e) PROVE PInv'
  BY <1>4 DEF Expire, scheduling, Storage, Control, CursorSound, NoDoubleLink,
              MapSound, Nodes
<1>5. ASSUME NEW t \in Task, Dispatch(t) PROVE PInv'
  <2>1. list # <<>> => Head(list) \in Nodes /\ Head(list) \in Node
    <3>1. list # <<>> => 1 \in 1..Len(list) /\ Head(list) = list[1]
      BY DEF Storage
    <3>2. QED
      BY <3>1, NodesFacts DEF Storage
  <2>2. Storage'
    BY <1>5 DEF Dispatch, Storage, NoDoubleLink, MapSound, Nodes
  <2>3. Control' /\ CursorSound'
    BY <1>5, <2>1 DEF Dispatch, Control, CursorSound, Storage, Nodes
  <2>4. QED
    BY <2>2, <2>3
<1>6. ASSUME ScanEnd \/ ScanSkip \/ CallbackReturn PROVE PInv'
  BY <1>6 DEF ScanEnd, ScanSkip, CallbackReturn, Storage, Control, CursorSound,
              NoDoubleLink, MapSound, Nodes
<1>7. CASE ScanMatch
  <2>1. cur \in Node /\ left[cur] \in 0..Loop
    BY <1>7 DEF ScanMatch, Control, Storage
  <2>2. left' \in [Node -> 0..Loop]
    BY <1>7, <2>1, ConstantsAssumption DEF ScanMatch, Storage
  <2>3. cur \in Nodes
    BY <1>7 DEF ScanMatch, CursorSound
  <2>4. QED
    BY <1>7, <2>2, <2>3 DEF ScanMatch, Storage, Control, CursorSound, NoDoubleLink,
                      MapSound, Nodes
<1>8. CASE ScanSpent
  BY <1>8, PInvScanSpent
<1>9. CASE Advance
  BY <1>9, PInvAdvance
<1>10. CASE CheckCount
  <2>1. cur \in Nodes /\ cur \in Node
    BY <1>10, NodesFacts DEF CheckCount, CursorSound, Storage
  <2>2. node[cur].cnt \in 0..Loop /\ node[cur].res \in BOOLEAN
    BY <2>1 DEF Storage, Entry
  <2>3. rd' \in [cnt : 0..Loop, res : BOOLEAN]
    BY <1>10, <2>2 DEF CheckCount, Control
  <2>4. QED
    BY <1>10, <2>1, <2>3 DEF CheckCount, Storage, Control, CursorSound, NoDoubleLink,
                       MapSound, Nodes
<1>11. CASE Decrement
  BY <1>11, PInvDecrement
<1>12. CASE Rearm
  <2>1. cur \in Nodes /\ node[cur] \in Entry
    BY <1>12, NodesFacts DEF Rearm, CursorSound, Storage
  <2>2. timers' \in [Task -> SUBSET Event] /\ bits' \in [Task -> SUBSET Event]
    BY <1>12, <2>1, SetAppEventFacts DEF Rearm, Storage
  <2>3. UNCHANGED <<left>> /\ UNCHANGED <<list, node, map>>
    BY <1>12 DEF Rearm
  <2>4. QED
    BY <1>12, <2>2, <2>3 DEF Rearm, Unprocessed, Storage, Control, CursorSound,
                       NoDoubleLink, MapSound, Nodes
<1>13. CASE Return
  <2>1. bits' \in [Task -> SUBSET Event]
    BY <1>13 DEF Return, AddedBack, Storage, Control
  <2>2. QED
    BY <1>13, <2>1 DEF Return, Storage, Control, CursorSound, NoDoubleLink,
                       MapSound, Nodes
<1>14. CASE UNCHANGED vars
  BY <1>14 DEF vars, Storage, Control, CursorSound, NoDoubleLink, MapSound, Nodes
<1>15. QED
  BY <1>1, <1>2, <1>3, <1>4, <1>5, <1>6, <1>7, <1>8, <1>9, <1>10, <1>11, <1>12,
     <1>13, <1>14 DEF Next, ProcessEvent, Lost

(* The pointers and types are an inductive invariant. *)
THEOREM PointersInvariant == Spec => []PInv
BY PInvInit, PInvStep, PTL DEF Spec

(* Every variable keeps its type, in every reachable state: in particular the
   7-bit count field never leaves 0..TIMER_LOOP_EXECUTION. *)
THEOREM TypeCorrect == Spec => []TypeOK
BY PointersInvariant, PInvDef, PTL

-----------------------------------------------------------------------------
(* An event that every call arms as a resident one keeps its entry. *)

KeptResident == \A n \in Nodes : node[n].ev \in KeptEvents => node[n].res

ReadResident == pc = "decrement" /\ node[cur].ev \in KeptEvents => rd.res

KeptLinked == \A n \in Node : Kept(n) => n \in Nodes

LostEmpty == pc = "lost" => Nodes = {}

KInv == PInv /\ KeptResident /\ ReadResident /\ KeptLinked /\ LostEmpty

LEMMA KInvInit == Init => KInv
<1> SUFFICES ASSUME Init PROVE KInv
  OBVIOUS
<1>1. PInv
  BY PInvInit
<1>2. Nodes = {} /\ pc = "idle"
  BY DEF Init, Nodes, ToSet
<1>3. \A n \in Node : ~node[n].res
  BY DEF Init, Blank
<1>4. QED
  BY <1>1, <1>2, <1>3 DEF KInv, KeptResident, ReadResident, KeptLinked, LostEmpty, Kept

LEMMA KInvCalls ==
  ASSUME KInv, NEW c \in AllCalls, pc # "lost", Calls(c)
  PROVE  KInv'
<1>0. c \in Call /\ (c.ev \in KeptEvents => c.res)
  BY ConstantsAssumption DEF AllCalls, KeptEvents
<1>1. CASE Astray(c)
  <2>1. /\ Nodes = {} /\ Nodes' = {} /\ pc' = "lost" /\ PInv'
        /\ UNCHANGED <<node, cur, rd>>
    BY <1>0, <1>1, AstrayFacts DEF KInv
  <2>2. QED
    BY <2>1 DEF KInv, KeptResident, ReadResident, KeptLinked, LostEmpty, Kept
<1>2. CASE Perform(c) /\ UNCHANGED scheduling
  <2>1. PInv' /\ UNCHANGED <<pc, cur, rd>>
    BY <1>0, <1>2, PInvPerform DEF KInv, scheduling
  <2>2. CASE UNCHANGED <<list, node, left>>
    BY <2>1, <2>2 DEF KInv, KeptResident, ReadResident, KeptLinked, LostEmpty, Kept, Nodes
  <2>3. ASSUME NEW n \in Node, Written(c, n) PROVE KInv'
    <3>1. /\ Nodes' = Nodes \cup {n}
          /\ node'[n].res = c.res /\ node'[n].ev = c.ev
          /\ n \in Nodes => node[n].ev = c.ev
      BY <2>3 DEF Written
    <3>2. \A m \in Node \ {n} : node'[m] = node[m]
      BY <2>3 DEF Written
    <3>3. \A m \in Nodes : m \in Node
      BY NodesFacts DEF KInv, PInv, Storage
    <3>4. KeptResident'
      BY <1>0, <3>1, <3>2, <3>3 DEF KInv, KeptResident
    <3>5. ReadResident'
      <4>1. pc = "decrement" => cur \in Nodes
        BY DEF KInv, PInv, CursorSound
      <4>2. pc = "decrement" => node'[cur].ev = node[cur].ev
        BY <3>1, <3>2, <3>3, <4>1
      <4>3. QED
        BY <2>1, <4>2 DEF KInv, ReadResident
    <3>6. KeptLinked'
      BY <3>1, <3>2 DEF KInv, KeptLinked, Kept
    <3>7. QED
      BY <2>1, <3>4, <3>5, <3>6 DEF KInv, LostEmpty
  <2>4. QED
    BY <1>0, <1>2, <2>2, <2>3, PerformFacts DEF KInv, PInv
<1>3. QED
  BY <1>1, <1>2 DEF Calls

LEMMA KInvSpent ==
  ASSUME KInv, ScanSpent
  PROVE  KInv'
<1>1. PInv' /\ cur \in Nodes /\ ~node[cur].res
  BY PInvScanSpent DEF KInv, PInv, CursorSound, ScanSpent, Live
<1>2. PICK i \in Mentions(node[cur].ev) : list' = RemoveAt(list, i)
  BY DEF ScanSpent
<1>3. i \in 1..Len(list) /\ node[list[i]].ev = node[cur].ev
  BY <1>2 DEF Mentions
<1>4. Nodes' = Nodes \ {list[i]}
  <2>1. NoRepeat(list) /\ list \in Seq(Node)
    BY DEF KInv, PInv, Storage, NoDoubleLink, NoRepeat
  <2>2. ToSet(RemoveAt(list, i)) = ToSet(list) \ {list[i]}
    BY <1>3, <2>1, RemoveAtSet
  <2>3. QED
    BY <1>2, <2>2 DEF Nodes
<1>5. node[cur].ev \notin KeptEvents
  BY <1>1 DEF KInv, KeptResident
<1>6. UNCHANGED node /\ pc' = "advance"
  BY DEF ScanSpent
<1>7. QED
  BY <1>1, <1>3, <1>4, <1>5, <1>6
     DEF KInv, KeptResident, ReadResident, KeptLinked, LostEmpty, Kept

LEMMA KInvDecrement ==
  ASSUME KInv, Decrement
  PROVE  KInv'
<1>0. cur \in Nodes /\ cur \in Node /\ node[cur] \in Entry /\ node \in [Node -> Entry]
  BY NodesFacts DEF KInv, PInv, Storage, CursorSound, Decrement
<1>1. /\ node' = [node EXCEPT ![cur] =
                    [[node[cur] EXCEPT !.cnt = Decremented] EXCEPT !.res = rd.res]]
      /\ Nodes' = Nodes /\ pc = "decrement" /\ pc' = "rearm"
  BY <1>0 DEF Decrement, Entry, Nodes
<1>2. /\ node'[cur].ev = node[cur].ev /\ node'[cur].res = rd.res
      /\ \A m \in Node \ {cur} : node'[m] = node[m]
  BY <1>0, <1>1 DEF Entry
<1>3. node[cur].ev \in KeptEvents => rd.res
  BY <1>1 DEF KInv, ReadResident
<1>4. \A m \in Nodes : m \in Node
  BY NodesFacts DEF KInv, PInv, Storage
<1>5. PInv'
  BY PInvDecrement DEF KInv
<1>6. QED
  BY <1>0, <1>1, <1>2, <1>3, <1>4, <1>5
     DEF KInv, KeptResident, ReadResident, KeptLinked, LostEmpty, Kept

LEMMA KInvStep == KInv /\ [Next]_vars => KInv'
<1> SUFFICES ASSUME KInv, [Next]_vars PROVE KInv'
  OBVIOUS
<1>0. PInv'
  BY PInvStep DEF KInv
<1>1. CASE \E c \in MainCalls : MainCall(c)
  BY <1>1, KInvCalls DEF MainCall, AllCalls
<1>2. CASE \E c \in IsrCalls : IsrCall(c)
  BY <1>2, KInvCalls DEF IsrCall, AllCalls
<1>3. CASE \E p \in CbCalls : CallbackCall(p[2])
  BY <1>3, KInvCalls DEF CallbackCall, AllCalls
<1>4. CASE UNCHANGED <<list, node>> /\ pc' \notin {"decrement", "lost"}
  BY <1>0, <1>4 DEF KInv, KeptResident, ReadResident, KeptLinked, LostEmpty, Kept, Nodes
<1>5. CASE UNCHANGED <<list, node, pc, cur, rd>>
  BY <1>0, <1>5 DEF KInv, KeptResident, ReadResident, KeptLinked, LostEmpty, Kept, Nodes
<1>6. CASE CheckCount
  <2>1. cur \in Nodes
    BY <1>6 DEF KInv, PInv, CursorSound, CheckCount
  <2>2. /\ UNCHANGED <<list, node, cur>> /\ pc' # "lost"
        /\ pc' = "decrement" => rd'.res = node[cur].res
    BY <1>6 DEF CheckCount
  <2>3. QED
    BY <1>0, <2>1, <2>2
       DEF KInv, KeptResident, ReadResident, KeptLinked, LostEmpty, Kept, Nodes
<1>7. CASE \E t \in Task : Dispatch(t)
  BY <1>4, <1>7 DEF Dispatch
<1>8. CASE (\E t \in Task, e \in Event : Expire(t, e)) \/ Lost \/ UNCHANGED vars
  BY <1>5, <1>8 DEF Expire, Lost, vars, scheduling
<1>9. CASE ScanEnd \/ ScanMatch \/ ScanSkip \/ Advance \/ CallbackReturn \/ Rearm \/ Return
  BY <1>4, <1>9 DEF ScanEnd, ScanMatch, ScanSkip, Advance, CallbackReturn, Rearm, Return
<1>10. QED
  BY <1>1, <1>2, <1>3, <1>6, <1>7, <1>8, <1>9, KInvSpent, KInvDecrement
     DEF Next, ProcessEvent

(* The list, the map and process_event's cursor never hold a freed entry,
   whatever handlers, callbacks and the interrupt call in between; and no
   NULL pointer is followed once an event that every call arms as a resident
   one has its entry. *)
THEOREM PointersSound == Spec => []NoDanglingPointer
<1>1. Init => KInv
  BY KInvInit
<1>2. KInv /\ [Next]_vars => KInv'
  BY KInvStep
<1>3. KInv => NoDanglingPointer
  BY PInvDef DEF KInv, LostEmpty, KeptLinked, NullSound
<1>4. QED
  BY <1>1, <1>2, <1>3, PTL DEF Spec

-----------------------------------------------------------------------------
(* The budget of the entries that are not resident: what the last arming
   still grants covers the count, one more while the callback runs. *)

InHand(n) == cur = n /\ pc \in {"callback", "check", "decrement"}

IsrResident == \A n \in Nodes : node[n].ev \in IsrEvents => node[n].res

Covered ==
  \A n \in Nodes : ~node[n].res /\ ~InHand(n) => node[n].cnt <= left[n]

RunCovered ==
  pc \in {"callback", "check"} /\ ~node[cur].res =>
    /\ node[cur].cnt > 0
    /\ node[cur].cnt <= left[cur] + 1
    /\ node[cur].cnt = Loop => left[cur] = Loop

ReadCovered ==
  pc = "decrement" /\ ~rd.res =>
    /\ node[cur].ev \notin IsrEvents
    /\ rd.cnt > 0
    /\ rd.cnt <= left[cur] + 1

BInv == PInv /\ IsrResident /\ Covered /\ RunCovered /\ ReadCovered

LEMMA BInvInit == Init => BInv
<1> SUFFICES ASSUME Init PROVE BInv
  OBVIOUS
<1>1. PInv
  BY PInvInit
<1>2. Nodes = {} /\ pc = "idle"
  BY DEF Init, Nodes, ToSet
<1>3. QED
  BY <1>1, <1>2 DEF BInv, IsrResident, Covered, RunCovered, ReadCovered

LEMMA Fields ==
  ASSUME PInv
  PROVE  /\ \A n \in Nodes : /\ n \in Node
                            /\ node[n].cnt \in 0..Loop
                            /\ node[n].res \in BOOLEAN
                            /\ left[n] \in 0..Loop
         /\ Loop \in Nat
         /\ pc \in {"callback", "check", "decrement", "rearm"} => cur \in Nodes
         /\ rd.cnt \in 0..Loop
         /\ rd.res \in BOOLEAN
BY NodesFacts, ConstantsAssumption DEF PInv, Storage, Control, CursorSound, Entry

(* A call that keeps the interrupt's events resident, and that is not made
   by the running callback unless it arms. *)
LEMMA BInvPerform ==
  ASSUME BInv, NEW c \in Call, Perform(c), UNCHANGED scheduling,
         c.ev \in IsrEvents => c.res,
         \/ pc = "idle"
         \/ pc = "callback" /\ c.cnt > 0
         \/ c.res /\ c.ev \in IsrEvents
  PROVE  BInv'
<1>1. PInv'
  BY PInvPerform DEF BInv
<1>2. UNCHANGED <<pc, cur, rd>>
  BY DEF scheduling
<1>3. CASE UNCHANGED <<list, node, left>>
  BY <1>1, <1>2, <1>3 DEF BInv, IsrResident, Covered, RunCovered, ReadCovered,
                          InHand, Nodes
<1>4. ASSUME NEW n \in Node, Written(c, n) PROVE BInv'
  <2>1. Nodes' = Nodes \cup {n} /\ n \in Nodes'
    BY <1>4 DEF Written
  <2>2. /\ node'[n].cnt = c.cnt /\ node'[n].res = c.res /\ node'[n].ev = c.ev
        /\ left'[n] = c.cnt
        /\ n \in Nodes => node[n].ev = c.ev
    BY <1>4 DEF Written
  <2>3. \A m \in Nodes \ {n} : node'[m] = node[m] /\ left'[m] = left[m]
    BY <1>4, Fields DEF Written, BInv
  <2>4. c.cnt \in 0..Loop /\ Loop \in Nat
    BY ConstantsAssumption DEF Call
  <2>5. IsrResident'
    BY <2>1, <2>2, <2>3 DEF BInv, IsrResident
  <2>6. Covered'
    <3>1. SUFFICES ASSUME NEW m \in Nodes', ~node'[m].res, ~InHand(m)
                   PROVE  node'[m].cnt <= left'[m]
      BY <1>2 DEF Covered, InHand
    <3>2. CASE m = n
      BY <2>2, <2>4, <3>2
    <3>3. CASE m # n
      BY <2>1, <2>3, <3>1, <3>3 DEF BInv, Covered
    <3>4. QED
      BY <3>2, <3>3
  <2>7. RunCovered'
    <3>1. SUFFICES ASSUME pc \in {"callback", "check"}, ~node'[cur].res
                   PROVE  /\ node'[cur].cnt > 0
                          /\ node'[cur].cnt <= left'[cur] + 1
                          /\ node'[cur].cnt = Loop => left'[cur] = Loop
      BY <1>2 DEF RunCovered
    <3>2. cur \in Nodes
      BY <3>1, Fields DEF BInv
    <3>3. CASE cur = n
      <4>1. pc = "callback" /\ c.cnt > 0
        BY <2>2, <3>1, <3>3
      <4>2. QED
        BY <2>2, <2>4, <3>3, <4>1
    <3>4. CASE cur # n
      BY <2>3, <3>1, <3>2, <3>4 DEF BInv, RunCovered
    <3>5. QED
      BY <3>3, <3>4
  <2>8. ReadCovered'
    <3>1. SUFFICES ASSUME pc = "decrement", ~rd.res
                   PROVE  /\ node'[cur].ev \notin IsrEvents
                          /\ rd.cnt > 0
                          /\ rd.cnt <= left'[cur] + 1
      BY <1>2 DEF ReadCovered
    <3>2. cur \in Nodes /\ node[cur].ev \notin IsrEvents
      BY <3>1, Fields DEF BInv, ReadCovered
    <3>3. cur # n
      BY <2>2, <3>1, <3>2
    <3>4. QED
      BY <2>3, <3>1, <3>2, <3>3 DEF BInv, ReadCovered
  <2>9. QED
    BY <1>1, <2>5, <2>6, <2>7, <2>8 DEF BInv
<1>5. QED
  BY <1>3, <1>4, PerformFacts DEF BInv, PInv

LEMMA BInvAstray ==
  ASSUME BInv, NEW c \in Call, Astray(c)
  PROVE  BInv'
<1>1. Nodes' = {} /\ pc' = "lost" /\ PInv'
  BY AstrayFacts DEF BInv
<1>2. QED
  BY <1>1 DEF BInv, IsrResident, Covered, RunCovered, ReadCovered

LEMMA BInvStep == BInv /\ [Next]_vars => BInv'
<1> SUFFICES ASSUME BInv, [Next]_vars PROVE BInv'
  OBVIOUS
<1>0. PInv /\ PInv'
  BY PInvStep DEF BInv
<1>1. ASSUME NEW c \in MainCalls, MainCall(c) PROVE BInv'
  BY <1>1, BInvPerform, BInvAstray, ConstantsAssumption, CallsAssumption
     DEF MainCall, Calls
<1>2. ASSUME NEW c \in IsrCalls, IsrCall(c) PROVE BInv'
  <2>1. c \in Call /\ c.ev \in IsrEvents /\ c.res
    BY ConstantsAssumption, CallsAssumption DEF IsrEvents
  <2>2. QED
    BY <1>2, <2>1, BInvPerform, BInvAstray DEF IsrCall, Calls
<1>3. ASSUME NEW p \in CbCalls, CallbackCall(p[2]) PROVE BInv'
  <2>1. p[2] \in Call /\ p[2].cnt > 0 /\ (p[2].ev \in IsrEvents => p[2].res)
    BY ConstantsAssumption, CallsAssumption
  <2>2. QED
    BY <1>3, <2>1, BInvPerform, BInvAstray DEF CallbackCall, Calls
<1>4. ASSUME NEW t \in Task, NEW e \in Event, Expire(t, e) PROVE BInv'
  BY <1>0, <1>4 DEF Expire, scheduling, BInv, IsrResident, Covered, RunCovered,
                    ReadCovered, InHand, Nodes
<1>5. ASSUME NEW t \in Task, Dispatch(t) PROVE BInv'
  BY <1>0, <1>5 DEF Dispatch, BInv, IsrResident, Covered, RunCovered, ReadCovered,
                    InHand, Nodes
<1>6. ASSUME ScanEnd \/ ScanSkip \/ Advance \/ Return PROVE BInv'
  BY <1>0, <1>6 DEF ScanEnd, ScanSkip, Advance, Return, BInv, IsrResident, Covered,
                    RunCovered, ReadCovered, InHand, Nodes
<1>7. CASE CallbackReturn
  BY <1>0, <1>7 DEF CallbackReturn, BInv, IsrResident, Covered, RunCovered,
                    ReadCovered, InHand, Nodes
<1>8. CASE ScanMatch
  <2>1. cur \in Nodes /\ cur \in Node
    BY <1>0, <1>8, Fields DEF ScanMatch, PInv, CursorSound
  <2>2. /\ UNCHANGED <<list, node, cur>>
        /\ pc' \in {"callback", "check"}
        /\ left' = [left EXCEPT ![cur] = IF @ \in 1..Loop - 1 THEN @ - 1 ELSE @]
    BY <1>8 DEF ScanMatch
  <2>3. \A m \in Nodes \ {cur} : left'[m] = left[m]
    BY <1>0, <2>2, Fields DEF PInv, Storage
  <2>4. left'[cur] = IF left[cur] \in 1..Loop - 1 THEN left[cur] - 1 ELSE left[cur]
    BY <1>0, <2>1, <2>2 DEF PInv, Storage
  <2>5. IsrResident' /\ Nodes' = Nodes
    BY <2>2 DEF BInv, IsrResident, Nodes
  <2>6. Covered'
    <3>1. SUFFICES ASSUME NEW m \in Nodes, ~node[m].res, m # cur
                   PROVE  node[m].cnt <= left'[m]
      BY <2>2, <2>5 DEF Covered, InHand
    <3>2. QED
      BY <2>3, <3>1 DEF BInv, Covered, InHand
  <2>7. RunCovered'
    <3>1. SUFFICES ASSUME ~node[cur].res
                   PROVE  /\ node[cur].cnt > 0
                          /\ node[cur].cnt <= left'[cur] + 1
                          /\ node[cur].cnt = Loop => left'[cur] = Loop
      BY <2>2 DEF RunCovered
    <3>2. node[cur].cnt > 0 /\ node[cur].cnt <= left[cur]
      BY <1>8, <2>1, <3>1 DEF BInv, Covered, InHand, ScanMatch, Matches, Live
    <3>3. node[cur].cnt \in 0..Loop /\ left[cur] \in 0..Loop /\ Loop \in Nat
      BY <1>0, <2>1, Fields
    <3>4. QED
      BY <2>4, <3>2, <3>3
  <2>8. ReadCovered'
    BY <2>2 DEF ReadCovered
  <2>9. QED
    BY <1>0, <2>5, <2>6, <2>7, <2>8 DEF BInv
<1>9. CASE ScanSpent
  <2>1. Nodes' \subseteq Nodes
    <3>1. PICK i \in 1..Len(list) : list' = RemoveAt(list, i)
      BY <1>9 DEF ScanSpent, Mentions
    <3>2. NoRepeat(list) /\ list \in Seq(Node)
      BY <1>0 DEF PInv, Storage, NoDoubleLink, NoRepeat
    <3>3. ToSet(RemoveAt(list, i)) = ToSet(list) \ {list[i]}
      BY <3>2, RemoveAtSet
    <3>4. QED
      BY <3>1, <3>3 DEF Nodes
  <2>2. QED
    BY <1>0, <1>9, <2>1 DEF ScanSpent, BInv, IsrResident, Covered, RunCovered,
                            ReadCovered, InHand
<1>10. CASE CheckCount
  <2>1. cur \in Nodes
    BY <1>0, <1>10, Fields DEF CheckCount
  <2>2. UNCHANGED <<list, node, left, cur>> /\ Nodes' = Nodes
    BY <1>10 DEF CheckCount, Nodes
  <2>3. ~node[cur].res =>
          /\ node[cur].cnt > 0
          /\ node[cur].cnt <= left[cur] + 1
          /\ node[cur].cnt = Loop => left[cur] = Loop
    BY <1>10 DEF CheckCount, BInv, RunCovered
  <2>4. node[cur].cnt \in 0..Loop /\ left[cur] \in 0..Loop /\ Loop \in Nat
    BY <1>0, <2>1, Fields
  <2>5. CASE node[cur].cnt = Loop /\ pc' = "rearm" /\ UNCHANGED rd
    <3>1. Covered'
      BY <1>10, <2>2, <2>3, <2>4, <2>5 DEF CheckCount, Covered, BInv, InHand
    <3>2. QED
      BY <1>0, <2>2, <2>5, <3>1 DEF BInv, IsrResident, RunCovered, ReadCovered
  <2>6. CASE /\ pc' = "decrement"
             /\ rd' = [cnt |-> node[cur].cnt, res |-> node[cur].res]
    <3>1. Covered' /\ IsrResident' /\ RunCovered'
      BY <1>10, <2>2, <2>6 DEF CheckCount, Covered, BInv, InHand, IsrResident,
                               RunCovered
    <3>2. ReadCovered'
      BY <2>1, <2>2, <2>3, <2>6 DEF ReadCovered, BInv, IsrResident
    <3>3. QED
      BY <1>0, <3>1, <3>2 DEF BInv
  <2>7. QED
    BY <1>10, <2>5, <2>6 DEF CheckCount
<1>11. CASE Decrement
  <2>1. cur \in Nodes /\ cur \in Node /\ left[cur] \in 0..Loop /\ Loop \in Nat
    BY <1>0, <1>11, Fields DEF Decrement
  <2>2. node[cur] \in Entry /\ node \in [Node -> Entry]
    BY <1>0, <2>1 DEF PInv, Storage
  <2>3. node' = [node EXCEPT ![cur] =
                   [[node[cur] EXCEPT !.cnt = Decremented] EXCEPT !.res = rd.res]]
    BY <1>11, <2>1, <2>2 DEF Decrement, Entry
  <2>4. /\ node'[cur].cnt = Decremented
        /\ node'[cur].res = rd.res
        /\ node'[cur].ev = node[cur].ev
        /\ \A m \in Node \ {cur} : node'[m] = node[m]
    BY <2>1, <2>2, <2>3 DEF Entry
  <2>5. UNCHANGED <<list, left, cur, rd>> /\ pc' = "rearm" /\ Nodes' = Nodes
    BY <1>11 DEF Decrement, Nodes
  <2>6. ~rd.res => /\ node[cur].ev \notin IsrEvents
                   /\ rd.cnt > 0
                   /\ rd.cnt <= left[cur] + 1
    BY <1>11 DEF Decrement, BInv, ReadCovered
  <2>7. ~rd.res => Decremented <= left[cur]
    BY <1>0, <2>1, <2>6, DecrementedFacts, Fields DEF PInv, Control
  <2>8. \A m \in Nodes : m \in Node
    BY <1>0, Fields
  <2>9. IsrResident'
    BY <2>4, <2>5, <2>6, <2>8 DEF BInv, IsrResident
  <2>10. Covered'
    <3>1. SUFFICES ASSUME NEW m \in Nodes, ~node'[m].res
                   PROVE  node'[m].cnt <= left[m]
      BY <2>5 DEF Covered, InHand
    <3>2. CASE m = cur
      BY <2>4, <2>7, <3>1, <3>2
    <3>3. CASE m # cur
      BY <2>4, <2>8, <3>1, <3>3 DEF BInv, Covered, InHand
    <3>4. QED
      BY <3>2, <3>3
  <2>11. QED
    BY <1>0, <2>5, <2>9, <2>10 DEF BInv, RunCovered, ReadCovered
<1>12. CASE Rearm
  BY <1>0, <1>12 DEF Rearm, BInv, IsrResident, Covered, RunCovered, ReadCovered,
                     InHand, Nodes
<1>13. CASE UNCHANGED vars
  BY <1>0, <1>13 DEF vars, BInv, IsrResident, Covered, RunCovered, ReadCovered,
                     InHand, Nodes
<1>14. QED
  BY <1>1, <1>2, <1>3, <1>4, <1>5, <1>6, <1>7, <1>8, <1>9, <1>10, <1>11, <1>12,
     <1>13 DEF Next, ProcessEvent, Lost

(* An entry that is not resident runs its callback at most as often as its
   last arming asked for. *)
THEOREM BudgetKept == Spec => NonResidentBudget
<1>1. BInv /\ [Next]_vars =>
        [\A n \in Node : Runs(n) /\ ~node[n].res => left[n] > 0]_vars
  <2>1. SUFFICES ASSUME BInv, Next, NEW n \in Node, Runs(n), ~node[n].res
                 PROVE  left[n] > 0
    OBVIOUS
  <2>2. ScanMatch
    BY <2>1 DEF Next, ProcessEvent, Runs, MainCall, IsrCall, CallbackCall, Calls,
                Astray, Lost, vars, Expire,
                Dispatch, ScanEnd, ScanSpent, ScanSkip, Advance, CallbackReturn,
                CheckCount, Decrement, Rearm, Return, scheduling
  <2>3. n \in Nodes /\ node[n].cnt > 0 /\ ~InHand(n)
    BY <2>1, <2>2 DEF Runs, ScanMatch, Matches, Live, BInv, PInv, CursorSound, InHand
  <2>4. node[n].cnt <= left[n] /\ node[n].cnt \in 0..Loop /\ left[n] \in 0..Loop
    BY <2>1, <2>3, Fields DEF BInv, Covered
  <2>5. QED
    BY <2>3, <2>4, ConstantsAssumption
<1>2. QED
  BY BInvInit, BInvStep, <1>1, PTL DEF Spec, NonResidentBudget

-----------------------------------------------------------------------------
(* What a call does to the list: it leaves it alone, it overwrites the entry *)
(* of its event, or it links a new entry.                                    *)

Arms(n) == SetAppEvent(node'[n])

OthersKept(n) == \A m \in Node \ {n} : node'[m] = node[m]

Overwrites(c, n) ==
  /\ n \in Nodes
  /\ node[n].ev = c.ev
  /\ list' = list
  /\ node'[n] = [EntryOf(c) EXCEPT !.task = node[n].task]
  /\ OthersKept(n)
  /\ Arms(n)

Links(c, i, n) ==
  /\ \A k \in 1..i - 1 : ~StopsAt(c, k)
  /\ i <= Len(list) => node[list[i]].ev # c.ev /\ c.dur < node[list[i]].dur
  /\ c.fn = "set" \/ Mentions(c.ev) = {}
  /\ list' = InsertAt(list, i, n)
  /\ node'[n] = EntryOf(c)
  /\ OthersKept(n)
  /\ Arms(n)

Idles == UNCHANGED <<list, node, timers, bits>>

LEMMA SetKinds ==
  ASSUME Storage, NEW c \in Call, SetUserEvent(c), c.fn = "set" \/ Mentions(c.ev) = {}
  PROVE  \/ Idles
         \/ \E i \in 1..Len(list) + 1, n \in Node \ Nodes : Links(c, i, n)
<1>1. PICK i \in 1..Len(list) + 1 :
        /\ \A k \in 1..i - 1 : ~StopsAt(c, k)
        /\ i <= Len(list) => StopsAt(c, i)
        /\ \/ Idles
           \/ /\ i <= Len(list) => node[list[i]].ev # c.ev
              /\ \E n \in Node \ Nodes :
                   /\ list' = InsertAt(list, i, n)
                   /\ node' = [node EXCEPT ![n] = EntryOf(c)]
                   /\ SetAppEvent(EntryOf(c))
  BY DEF SetUserEvent, Idles
<1>2. CASE Idles
  BY <1>2
<1>3. ASSUME NEW n \in Node \ Nodes,
             i <= Len(list) => node[list[i]].ev # c.ev,
             list' = InsertAt(list, i, n),
             node' = [node EXCEPT ![n] = EntryOf(c)],
             SetAppEvent(EntryOf(c))
      PROVE  Links(c, i, n)
  <2>1. node'[n] = EntryOf(c) /\ OthersKept(n)
    BY <1>3 DEF OthersKept, Storage
  <2>2. i <= Len(list) => c.dur < node[list[i]].dur
    BY <1>1, <1>3 DEF StopsAt
  <2>3. Arms(n)
    BY <1>3, <2>1, Zenon DEF Arms
  <2>4. QED
    BY <1>1, <1>3, <2>1, <2>2, <2>3 DEF Links
<1>4. QED
  BY <1>1, <1>2, <1>3

LEMMA PerformKinds ==
  ASSUME Storage, NEW c \in Call, Perform(c)
  PROVE  \/ Idles
         \/ \E n \in Node : Overwrites(c, n)
         \/ \E i \in 1..Len(list) + 1, n \in Node \ Nodes : Links(c, i, n)
<1>1. CASE c.fn = "set" /\ SetUserEvent(c)
  BY <1>1, SetKinds
<1>2. CASE Mentions(c.ev) = {} /\ SetUserEvent(c)
  BY <1>2, SetKinds
<1>3. ASSUME NEW n \in Node, Queried(c.ev, n), UNCHANGED list,
             node' = [node EXCEPT ![n] = [EntryOf(c) EXCEPT !.task = node[n].task]],
             SetAppEvent([EntryOf(c) EXCEPT !.task = node[n].task])
      PROVE  Overwrites(c, n)
  <2>1. node'[n] = [EntryOf(c) EXCEPT !.task = node[n].task] /\ OthersKept(n)
    BY <1>3 DEF OthersKept, Storage
  <2>2. Arms(n)
    BY <1>3, <2>1, Zenon DEF Arms
  <2>3. n \in Nodes /\ node[n].ev = c.ev
    <3>1. CASE map[c.ev] # Nil /\ n = map[c.ev]
      BY <3>1 DEF Storage, MapSound, Call
    <3>2. CASE \E i \in Mentions(c.ev) : n = list[i]
      BY <3>2, NodesFacts DEF Storage, Mentions
    <3>3. QED
      BY <1>3, <3>1, <3>2 DEF Queried
  <2>4. QED
    BY <1>3, <2>1, <2>2, <2>3 DEF Overwrites
<1>4. CASE UpdateUserEvent(c)
  BY <1>2, <1>3, <1>4 DEF UpdateUserEvent
<1>5. QED
  BY <1>1, <1>4 DEF Perform

-----------------------------------------------------------------------------
(* One entry per event.  Either the list stays sorted by duration, because   *)
(* no update changes one, or what is set goes to the end of the list.        *)

Known ==
  \A n \in Nodes : \E d \in AllCalls : node[n].ev = d.ev /\ node[n].dur = d.dur

Sorted ==
  FixedDurations(AllCalls) =>
    \A j, k \in 1..Len(list) : j <= k => node[list[j]].dur <= node[list[k]].dur

EInv == PInv /\ Known /\ Sorted /\ NoDuplicateEvent

LEMMA AllCallsFacts ==
  /\ AllCalls \subseteq Call
  /\ \A c \in Call : c.ev \in Event /\ c.dur \in Nat /\ c.task \in Task
BY ConstantsAssumption DEF AllCalls, Call

LEMMA EntryOfFacts ==
  ASSUME NEW c \in Call, NEW t \in Task
  PROVE  LET r == [EntryOf(c) EXCEPT !.task = t]
         IN  /\ r.task = t /\ r.ev = c.ev /\ r.dur = c.dur /\ r.cnt = c.cnt
             /\ r.res = c.res
BY DEF EntryOf

LEMMA EInvInit == Init => EInv
<1> SUFFICES ASSUME Init PROVE EInv
  OBVIOUS
<1>1. PInv
  BY PInvInit
<1>2. Nodes = {} /\ Len(list) = 0
  BY DEF Init, Nodes, ToSet
<1>3. QED
  BY <1>1, <1>2 DEF EInv, Known, Sorted, NoDuplicateEvent

LEMMA EInvOverwrites ==
  ASSUME EInv, NEW c \in AllCalls, NEW n \in Node, Overwrites(c, n)
  PROVE  Known' /\ Sorted' /\ NoDuplicateEvent'
<1>1. /\ n \in Nodes /\ node[n].ev = c.ev /\ list' = list /\ Nodes' = Nodes
      /\ \A m \in Node \ {n} : node'[m] = node[m]
  BY DEF Overwrites, OthersKept, Nodes
<1>2. node'[n].ev = c.ev /\ node'[n].dur = c.dur
  <2>1. c \in Call /\ node[n].task \in Task
    BY AllCallsFacts DEF EInv, PInv, Storage, Entry
  <2>2. QED
    BY <2>1, EntryOfFacts DEF Overwrites
<1>3. \A m \in Nodes : m \in Node
  BY NodesFacts DEF EInv, PInv, Storage
<1>4. \A m \in Nodes : node'[m].ev = node[m].ev
  BY <1>1, <1>2, <1>3
<1>5. \A k \in 1..Len(list) : list[k] \in Nodes
  BY NodesFacts DEF EInv, PInv, Storage
<1>6. Known'
  BY <1>1, <1>2, <1>3 DEF EInv, Known
<1>7. NoDuplicateEvent'
  BY <1>1, <1>4, <1>5 DEF EInv, NoDuplicateEvent
<1>8. Sorted'
  <2>1. SUFFICES ASSUME FixedDurations(AllCalls)
                 PROVE  \A m \in Nodes : node'[m].dur = node[m].dur
    BY <1>1, <1>5 DEF EInv, Sorted
  <2>2. node[n].dur = c.dur
    BY <1>1, <2>1 DEF EInv, Known, FixedDurations
  <2>3. QED
    BY <1>1, <1>2, <1>3, <2>2
<1>9. QED
  BY <1>6, <1>7, <1>8

LEMMA EInvLinks ==
  ASSUME EInv, OneEntry(AllCalls), NEW c \in AllCalls, NEW i \in 1..Len(list) + 1,
         NEW n \in Node \ Nodes, Links(c, i, n)
  PROVE  Known' /\ Sorted' /\ NoDuplicateEvent'
<1>0. c \in Call
  BY AllCallsFacts
<1>1. /\ list' = InsertAt(list, i, n) /\ node'[n] = EntryOf(c)
      /\ \A m \in Node \ {n} : node'[m] = node[m]
      /\ i <= Len(list) => node[list[i]].ev # c.ev /\ c.dur < node[list[i]].dur
  BY DEF Links, OthersKept
<1>2. node'[n].ev = c.ev /\ node'[n].dur = c.dur
  BY <1>1 DEF EntryOf
<1>3. list \in Seq(Node) /\ NoRepeat(list)
  BY DEF EInv, PInv, Storage, NoDoubleLink, NoRepeat
<1>4. /\ Len(list') = Len(list) + 1
      /\ \A k \in 1..Len(list) + 1 :
           list'[k] = IF k < i THEN list[k] ELSE IF k = i THEN n ELSE list[k - 1]
  BY <1>1, <1>3, LinkedList
<1>5. Nodes' = Nodes \cup {n}
  <2>1. ToSet(InsertAt(list, i, n)) = ToSet(list) \cup {n}
    BY <1>3, InsertAtSet DEF Nodes
  <2>2. QED
    BY <1>1, <2>1 DEF Nodes
<1>6. /\ \A k \in 1..Len(list) : list[k] \in Nodes /\ list[k] \in Node
      /\ \A m \in Nodes : m \in Node /\ m # n
  BY <1>3, NodesFacts
<1>7. \A m \in Nodes : node'[m] = node[m]
  BY <1>1, <1>6
<1>8. Known'
  BY <1>2, <1>5, <1>7 DEF EInv, Known
<1>9. \A k \in 1..Len(list) : node[list[k]].dur \in Nat
  BY <1>6 DEF EInv, PInv, Storage, Entry
<1>10. c.dur \in Nat /\ Len(list) \in Nat
  BY <1>0, <1>3, AllCallsFacts
<1>11. ASSUME NEW k \in 1..i - 1
       PROVE  node[list[k]].ev # c.ev /\ node[list[k]].dur <= c.dur
  <2>1. k \in 1..Len(list) /\ ~StopsAt(c, k)
    BY <1>10 DEF Links
  <2>2. node[list[k]].dur \in Nat
    BY <1>9, <2>1
  <2>3. QED
    BY <1>10, <2>1, <2>2 DEF StopsAt
<1>12. ASSUME FixedDurations(AllCalls), NEW k \in i..Len(list)
       PROVE  c.dur < node[list[k]].dur
  <2>1. i \in 1..Len(list) /\ k \in 1..Len(list) /\ i <= k
    BY <1>10, <1>12
  <2>2. node[list[i]].dur <= node[list[k]].dur /\ c.dur < node[list[i]].dur
    BY <1>1, <1>12, <2>1 DEF EInv, Sorted
  <2>3. QED
    BY <1>9, <1>10, <2>1, <2>2
<1>13. \A k \in 1..Len(list) : node[list[k]].ev # c.ev
  <2>1. SUFFICES ASSUME NEW k \in 1..Len(list), node[list[k]].ev = c.ev
                 PROVE  FALSE
    OBVIOUS
  <2>2. c.fn = "set"
    BY <2>1 DEF Links, Mentions
  <2>3. k \in i..Len(list)
    BY <1>10, <1>11, <2>1
  <2>4. PICK d \in AllCalls : d.ev = c.ev /\ d.dur = node[list[k]].dur
    BY <1>6, <2>1 DEF EInv, Known
  <2>5. CASE FixedDurations(AllCalls)
    BY <1>10, <1>12, <2>3, <2>4, <2>5 DEF FixedDurations
  <2>6. CASE SetsLongest(AllCalls)
    <3>1. i \in 1..Len(list)
      BY <1>10, <2>3
    <3>2. c.dur < node[list[i]].dur
      BY <1>1, <3>1
    <3>3. PICK e \in AllCalls : e.dur = node[list[i]].dur
      BY <1>6, <3>1 DEF EInv, Known
    <3>4. e.dur <= c.dur
      BY <2>2, <2>6 DEF SetsLongest
    <3>5. QED
      BY <1>9, <1>10, <3>1, <3>2, <3>3, <3>4
  <2>7. QED
    BY <2>5, <2>6 DEF OneEntry
<1>14. ASSUME NEW k \in 1..Len(list) + 1
       PROVE  \/ k = i /\ list'[k] = n
              \/ k # i /\ \E j \in 1..Len(list) :
                   /\ j = (IF k < i THEN k ELSE k - 1)
                   /\ list'[k] = list[j]
                   /\ node'[list'[k]] = node[list[j]]
  BY <1>4, <1>6, <1>7, <1>10
<1>15. NoDuplicateEvent'
  <2>1. SUFFICES ASSUME NEW j \in 1..Len(list) + 1, NEW k \in 1..Len(list) + 1,
                        node'[list'[j]].ev = node'[list'[k]].ev
                 PROVE  j = k
    BY <1>4 DEF NoDuplicateEvent
  <2>2. CASE j = i \/ k = i
    <3>1. \A l \in 1..Len(list) + 1 : l # i => node'[list'[l]].ev # c.ev
      BY <1>13, <1>14
    <3>2. node'[list'[i]].ev = c.ev
      BY <1>2, <1>14
    <3>3. QED
      BY <2>1, <2>2, <3>1, <3>2
  <2>3. CASE j # i /\ k # i
    <3>1. (IF j < i THEN j ELSE j - 1) = (IF k < i THEN k ELSE k - 1)
      BY <1>14, <2>1, <2>3 DEF EInv, NoDuplicateEvent
    <3>2. QED
      BY <1>10, <2>3, <3>1
  <2>4. QED
    BY <2>2, <2>3
<1>16. Sorted'
  <2>1. SUFFICES ASSUME FixedDurations(AllCalls),
                        NEW j \in 1..Len(list) + 1, NEW k \in 1..Len(list) + 1, j <= k
                 PROVE  node'[list'[j]].dur <= node'[list'[k]].dur
    BY <1>4 DEF Sorted
  <2>2. CASE j = i /\ k = i
    BY <1>2, <1>10, <1>14, <2>2
  <2>3. CASE j = i /\ k # i
    <3>1. k - 1 \in i..Len(list) /\ ~(k < i)
      BY <1>10, <2>1, <2>3
    <3>2. c.dur < node[list[k - 1]].dur
      BY <1>12, <2>1, <3>1
    <3>3. k - 1 \in 1..Len(list)
      BY <1>10, <3>1
    <3>4. node'[list'[k]].dur = node[list[k - 1]].dur /\ node'[list'[j]].dur = c.dur
      BY <1>2, <1>14, <2>3, <3>1
    <3>5. QED
      BY <1>9, <1>10, <3>2, <3>3, <3>4
  <2>4. CASE j # i /\ k = i
    <3>1. j \in 1..i - 1 /\ j < i
      BY <1>10, <2>1, <2>4
    <3>2. node'[list'[j]].dur = node[list[j]].dur /\ node'[list'[k]].dur = c.dur
      BY <1>2, <1>14, <2>4, <3>1
    <3>3. QED
      BY <1>11, <3>1, <3>2
  <2>5. CASE j # i /\ k # i
    <3>1. PICK p \in 1..Len(list) : /\ p = IF j < i THEN j ELSE j - 1
                                   /\ node'[list'[j]] = node[list[p]]
      BY <1>14, <2>5
    <3>2. PICK q \in 1..Len(list) : /\ q = IF k < i THEN k ELSE k - 1
                                   /\ node'[list'[k]] = node[list[q]]
      BY <1>14, <2>5
    <3>3. p <= q
      BY <1>10, <2>1, <2>5, <3>1, <3>2
    <3>4. QED
      BY <2>1, <3>1, <3>2, <3>3 DEF EInv, Sorted
  <2>6. QED
    BY <2>2, <2>3, <2>4, <2>5
<1>17. QED
  BY <1>8, <1>15, <1>16

LEMMA EInvPerform ==
  ASSUME EInv, OneEntry(AllCalls), NEW c \in AllCalls, Perform(c)
  PROVE  Known' /\ Sorted' /\ NoDuplicateEvent'
<1>1. c \in Call /\ Storage
  BY AllCallsFacts DEF EInv, PInv
<1>2. CASE Idles
  BY <1>2 DEF Idles, EInv, Known, Sorted, NoDuplicateEvent, Nodes
<1>3. QED
  BY <1>1, <1>2, PerformKinds, EInvOverwrites, EInvLinks

LEMMA EInvCalls ==
  ASSUME EInv, OneEntry(AllCalls), NEW c \in AllCalls, Calls(c)
  PROVE  Known' /\ Sorted' /\ NoDuplicateEvent'
<1>1. CASE Astray(c)
  <2>1. UNCHANGED <<list, node>>
    BY <1>1 DEF Astray
  <2>2. QED
    BY <2>1 DEF EInv, Known, Sorted, NoDuplicateEvent, Nodes
<1>2. QED
  BY <1>1, EInvPerform DEF Calls

LEMMA EInvScanSpent ==
  ASSUME EInv, ScanSpent
  PROVE  Known' /\ Sorted' /\ NoDuplicateEvent'
<1>1. PICK i \in 1..Len(list) : list' = RemoveAt(list, i)
  BY DEF ScanSpent, Mentions
<1>2. list \in Seq(Node) /\ NoRepeat(list) /\ Len(list) \in Nat
  BY DEF EInv, PInv, Storage, NoDoubleLink, NoRepeat
<1>3. Len(list') = Len(list) - 1
  BY <1>1, <1>2, UnlinkedList
<1>4. \A k \in 1..Len(list) - 1 : list'[k] = IF k < i THEN list[k] ELSE list[k + 1]
  BY <1>1, <1>2, UnlinkedList
<1>5. Nodes' \subseteq Nodes
  <2>1. ToSet(RemoveAt(list, i)) = ToSet(list) \ {list[i]}
    BY <1>2, RemoveAtSet
  <2>2. QED
    BY <1>1, <2>1 DEF Nodes
<1>6. UNCHANGED node
  BY DEF ScanSpent
<1>7. Known'
  BY <1>5, <1>6 DEF EInv, Known
<1>8. ASSUME NEW k \in 1..Len(list) - 1
      PROVE  \E j \in 1..Len(list) : /\ j = (IF k < i THEN k ELSE k + 1)
                                     /\ list'[k] = list[j]
  BY <1>2, <1>4
<1>9. NoDuplicateEvent'
  <2>1. SUFFICES ASSUME NEW j \in 1..Len(list) - 1, NEW k \in 1..Len(list) - 1,
                        node[list'[j]].ev = node[list'[k]].ev
                 PROVE  j = k
    BY <1>3, <1>6 DEF NoDuplicateEvent
  <2>2. (IF j < i THEN j ELSE j + 1) = (IF k < i THEN k ELSE k + 1)
    BY <1>8, <2>1 DEF EInv, NoDuplicateEvent
  <2>3. QED
    BY <1>2, <2>2
<1>10. Sorted'
  <2>1. SUFFICES ASSUME FixedDurations(AllCalls),
                        NEW j \in 1..Len(list) - 1, NEW k \in 1..Len(list) - 1, j <= k
                 PROVE  node[list'[j]].dur <= node[list'[k]].dur
    BY <1>3, <1>6 DEF Sorted
  <2>2. PICK p \in 1..Len(list) : p = (IF j < i THEN j ELSE j + 1) /\ list'[j] = list[p]
    BY <1>8
  <2>3. PICK q \in 1..Len(list) : q = (IF k < i THEN k ELSE k + 1) /\ list'[k] = list[q]
    BY <1>8
  <2>4. p <= q
    BY <1>2, <2>1, <2>2, <2>3
  <2>5. QED
    BY <2>1, <2>2, <2>3, <2>4 DEF EInv, Sorted
<1>11. QED
  BY <1>7, <1>9, <1>10

(* The write-back of the count leaves event and duration alone. *)
LEMMA DecrementKeeps ==
  ASSUME PInv, Decrement
  PROVE  /\ list' = list
         /\ cur \in Nodes
         /\ \A m \in Nodes : /\ node'[m].ev = node[m].ev
                             /\ node'[m].dur = node[m].dur
                             /\ node'[m].task = node[m].task
                             /\ m # cur => node'[m] = node[m]
                             /\ m = cur => node'[m].res = rd.res
<1>1. cur \in Nodes /\ (\A m \in Nodes : m \in Node)
  BY Fields DEF Decrement
<1>2. node[cur] \in Entry /\ node \in [Node -> Entry]
  BY <1>1 DEF PInv, Storage
<1>3. node' = [node EXCEPT ![cur] =
                 [[node[cur] EXCEPT !.cnt = Decremented] EXCEPT !.res = rd.res]]
  BY <1>1, <1>2 DEF Decrement, Entry
<1>4. /\ node'[cur] = [[node[cur] EXCEPT !.cnt = Decremented] EXCEPT !.res = rd.res]
      /\ \A m \in Nodes : m # cur => node'[m] = node[m]
  BY <1>1, <1>2, <1>3
<1>5. /\ node'[cur].ev = node[cur].ev
      /\ node'[cur].dur = node[cur].dur
      /\ node'[cur].task = node[cur].task
      /\ node'[cur].res = rd.res
  BY <1>2, <1>4 DEF Entry
<1>6. list' = list
  BY DEF Decrement
<1>7. QED
  BY <1>1, <1>4, <1>5, <1>6, Zenon

LEMMA EInvStep == OneEntry(AllCalls) /\ EInv /\ [Next]_vars => EInv'
<1> SUFFICES ASSUME OneEntry(AllCalls), EInv, [Next]_vars PROVE EInv'
  OBVIOUS
<1>0. PInv /\ PInv'
  BY PInvStep DEF EInv
<1> SUFFICES Known' /\ Sorted' /\ NoDuplicateEvent'
  BY <1>0 DEF EInv
<1>1. CASE \E c \in MainCalls : MainCall(c)
  BY <1>1, EInvCalls DEF MainCall, AllCalls
<1>2. CASE \E c \in IsrCalls : IsrCall(c)
  BY <1>2, EInvCalls DEF IsrCall, AllCalls
<1>3. CASE \E p \in CbCalls : CallbackCall(p[2])
  BY <1>3, EInvCalls DEF CallbackCall, AllCalls
<1>4. CASE ScanSpent
  BY <1>4, EInvScanSpent
<1>5. CASE Decrement
  <2>1. Nodes' = Nodes /\ \A k \in 1..Len(list) : list[k] \in Nodes
    BY <1>0, <1>5, NodesFacts DEF Decrement, Nodes, PInv, Storage
  <2>2. QED
    BY <1>0, <1>5, <2>1, DecrementKeeps DEF EInv, Known, Sorted, NoDuplicateEvent
<1>6. CASE UNCHANGED <<list, node>>
  BY <1>6 DEF EInv, Known, Sorted, NoDuplicateEvent, Nodes
<1>7. CASE \E t \in Task, e \in Event : Expire(t, e)
  BY <1>6, <1>7 DEF Expire
<1>8. CASE \E t \in Task : Dispatch(t)
  BY <1>6, <1>8 DEF Dispatch
<1>9. CASE ScanEnd \/ ScanMatch \/ ScanSkip \/ Advance \/ CallbackReturn \/ CheckCount
           \/ Rearm \/ Return
  BY <1>6, <1>9 DEF ScanEnd, ScanMatch, ScanSkip, Advance, CallbackReturn, CheckCount,
                    Rearm, Return
<1>10. CASE Lost \/ UNCHANGED vars
  BY <1>6, <1>10 DEF Lost, vars
<1>11. QED
  BY <1>1, <1>2, <1>3, <1>4, <1>5, <1>7, <1>8, <1>9, <1>10 DEF Next, ProcessEvent

(* No event ever owns two entries, provided an event always comes with the   *)
(* same duration or what is set has the longest one.                         *)
THEOREM OneEntryPerEvent ==
  ASSUME OneEntry(AllCalls)
  PROVE  Spec => []NoDuplicateEvent
<1>1. EInv /\ [Next]_vars => EInv'
  BY EInvStep
<1>2. EInv => NoDuplicateEvent
  BY DEF EInv
<1>3. QED
  BY EInvInit, <1>1, <1>2, PTL DEF Spec

-----------------------------------------------------------------------------
(* No armed entry is stranded.  What the scan has passed has its trigger     *)
(* outside of process_event, and the entry it works on has its event in      *)
(* hand.                                                                     *)

Direct(n) == node[n].cnt > 0 => node[n].ev \in timers[node[n].task] \cup bits[node[n].task]

(* The same in the next state *)
DirectNext(n) ==
  node'[n].cnt > 0 => node'[n].ev \in timers'[node'[n].task] \cup bits'[node'[n].task]

Before(k, m) == \A j \in 1..k : list[j] # m

PassedTo(m) == \A k \in 1..Len(list) : Before(k, m) => Direct(list[k])

ScanDirect ==
  /\ pc = "scan" => PassedTo(cur)
  /\ pc = "advance" /\ cur \in Nodes => PassedTo(cur) /\ Direct(cur)
  /\ pc = "advance" /\ cur \notin Nodes => IsrCalls = {} /\ PassedTo(nx)

InWork == pc \in {"callback", "check", "decrement", "rearm"}

HandOK == InWork => node[cur].task = task /\ node[cur].ev \in events

ResKept ==
  IsrCalls # {} =>
    /\ \A n \in Nodes : node[n].res
    /\ pc = "decrement" => rd.res

AInv == EInv /\ ArmedHasTrigger /\ ScanDirect /\ HandOK /\ ResKept

LEMMA AInvInit == Init => AInv
<1> SUFFICES ASSUME Init PROVE AInv
  OBVIOUS
<1>1. EInv
  BY EInvInit
<1>2. Nodes = {} /\ pc = "idle"
  BY DEF Init, Nodes, ToSet
<1>3. QED
  BY <1>1, <1>2 DEF AInv, ArmedHasTrigger, ScanDirect, HandOK, InWork, ResKept

-----------------------------------------------------------------------------
(* A call of the interface *)

Grows ==
  /\ \A t \in Task : timers[t] \subseteq timers'[t] /\ bits[t] \subseteq bits'[t]
  /\ timers' \in [Task -> SUBSET Event]
  /\ bits' \in [Task -> SUBSET Event]

LEMMA SetAppEventGrows ==
  ASSUME PInv, NEW r \in Entry, SetAppEvent(r)
  PROVE  /\ Grows
         /\ r.cnt > 0 => r.ev \in timers'[r.task] \cup bits'[r.task]
<1>1. /\ timers \in [Task -> SUBSET Event] /\ bits \in [Task -> SUBSET Event]
      /\ r.task \in Task /\ r.ev \in Event
  BY DEF PInv, Storage, Entry
<1>2. QED
  BY <1>1 DEF SetAppEvent, Grows

(* What every kind of call has in common *)
Treated(n) ==
  /\ Grows
  /\ DirectNext(n)
  /\ node'[n].cnt > 0 => node'[n].task \in Task
  /\ n \in Nodes => node'[n].task = node[n].task /\ node'[n].ev = node[n].ev
  /\ \A m \in Nodes \ {n} : node'[m] = node[m]
  /\ Nodes' = Nodes \cup {n}

LEMMA OverwritesTreated ==
  ASSUME PInv, NEW c \in Call, NEW n \in Node, Overwrites(c, n)
  PROVE  Treated(n) /\ node'[n].res = c.res
<1>1. node[n].task \in Task /\ (\A m \in Nodes : m \in Node)
  BY NodesFacts DEF PInv, Storage, Entry
<1>2. /\ node'[n] = [EntryOf(c) EXCEPT !.task = node[n].task]
      /\ n \in Nodes /\ node[n].ev = c.ev /\ list' = list
      /\ \A m \in Node \ {n} : node'[m] = node[m]
      /\ SetAppEvent(node'[n])
  BY DEF Overwrites, OthersKept, Arms
<1>3. node'[n] \in Entry /\ node'[n].task = node[n].task /\ node'[n].ev = c.ev
      /\ node'[n].res = c.res
  BY <1>1, <1>2 DEF EntryOf, Entry, Call
<1>4. Grows /\ (node'[n].cnt > 0 =>
                  node'[n].ev \in timers'[node'[n].task] \cup bits'[node'[n].task])
  BY <1>2, <1>3, SetAppEventGrows
<1>5. Nodes' = Nodes \cup {n}
  BY <1>2 DEF Nodes
<1>6. QED
  BY <1>1, <1>2, <1>3, <1>4, <1>5 DEF Treated, DirectNext

LEMMA LinksTreated ==
  ASSUME PInv, NEW c \in Call, NEW i \in 1..Len(list) + 1, NEW n \in Node \ Nodes,
         Links(c, i, n)
  PROVE  Treated(n) /\ node'[n].res = c.res
<1>1. \A m \in Nodes : m \in Node
  BY NodesFacts DEF PInv, Storage
<1>2. /\ node'[n] = EntryOf(c) /\ list' = InsertAt(list, i, n)
      /\ \A m \in Node \ {n} : node'[m] = node[m]
      /\ SetAppEvent(node'[n])
  BY DEF Links, OthersKept, Arms
<1>3. node'[n] \in Entry /\ node'[n].res = c.res
  BY <1>2 DEF EntryOf, Entry, Call
<1>4. Grows /\ (node'[n].cnt > 0 =>
                  node'[n].ev \in timers'[node'[n].task] \cup bits'[node'[n].task])
  BY <1>2, <1>3, SetAppEventGrows
<1>5. Nodes' = Nodes \cup {n}
  <2>1. NoRepeat(list) /\ list \in Seq(Node)
    BY DEF PInv, Storage, NoDoubleLink, NoRepeat
  <2>2. ToSet(InsertAt(list, i, n)) = ToSet(list) \cup {n}
    BY <2>1, InsertAtSet DEF Nodes
  <2>3. QED
    BY <1>2, <2>2 DEF Nodes
<1>6. node'[n].task \in Task
  BY <1>3 DEF Entry
<1>7. QED
  BY <1>1, <1>2, <1>3, <1>4, <1>5, <1>6 DEF Treated, DirectNext

(* A treated entry and the others keep what they had. *)
LEMMA TreatedKeeps ==
  ASSUME AInv, NEW n \in Node, Treated(n), UNCHANGED scheduling
  PROVE  /\ ArmedHasTrigger'
         /\ HandOK'
         /\ \A m \in Nodes : Direct(m) => DirectNext(m)
<1>0. UNCHANGED <<pc, task, events, cur>>
  BY DEF scheduling
<1>1. \A m \in Nodes : m \in Node /\ node[m].task \in Task
  BY NodesFacts DEF AInv, EInv, PInv, Storage, Entry
<1>2. Grows /\ DirectNext(n) /\ Nodes' = Nodes \cup {n}
  BY DEF Treated
<1>3. \A m \in Nodes \ {n} : node'[m] = node[m]
  BY DEF Treated
<1>4. \A m \in Nodes : Direct(m) => DirectNext(m)
  BY <1>1, <1>2, <1>3 DEF Direct, DirectNext, Grows
<1>5. ArmedHasTrigger'
  <2>1. SUFFICES ASSUME NEW m \in Nodes', node'[m].cnt > 0
                 PROVE  Triggered(node[m].task, node[m].ev)'
    BY DEF ArmedHasTrigger
  <2>2. CASE m = n
    BY <1>2, <2>1, <2>2 DEF DirectNext, Triggered
  <2>3. CASE m # n
    <3>1. m \in Nodes /\ node'[m] = node[m] /\ node[m].task \in Task
      BY <1>1, <1>2, <1>3, <2>1, <2>3
    <3>2. Triggered(node[m].task, node[m].ev)
      BY <2>1, <3>1 DEF AInv, ArmedHasTrigger
    <3>3. QED
      BY <1>0, <1>2, <3>1, <3>2 DEF Triggered, Grows
  <2>4. QED
    BY <2>2, <2>3
<1>6. HandOK'
  <2>1. SUFFICES ASSUME InWork
                 PROVE  node'[cur].task = task /\ node'[cur].ev \in events
    BY <1>0 DEF HandOK, InWork
  <2>2. cur \in Nodes /\ node[cur].task = task /\ node[cur].ev \in events
    BY <2>1, Fields DEF AInv, EInv, HandOK, InWork
  <2>3. QED
    BY <1>3, <2>2 DEF Treated
<1>7. QED
  BY <1>4, <1>5, <1>6

LEMMA OverwritesPassed ==
  ASSUME AInv, NEW c \in Call, NEW n \in Node, Overwrites(c, n), UNCHANGED scheduling
  PROVE  ScanDirect'
<1>1. list' = list /\ UNCHANGED <<pc, cur, nx>>
  BY DEF Overwrites, scheduling
<1>2. \A m \in Nodes : Direct(m) => DirectNext(m)
  BY OverwritesTreated, TreatedKeeps DEF AInv, EInv
<1>3. \A k \in 1..Len(list) : list[k] \in Nodes
  BY NodesFacts DEF AInv, EInv, PInv, Storage
<1>4. ASSUME NEW m, PassedTo(m)
      PROVE  \A k \in 1..Len(list) : (\A j \in 1..k : list[j] # m) => DirectNext(list[k])
  BY <1>2, <1>3, <1>4 DEF PassedTo, Before
<1>5. Nodes' = Nodes
  BY <1>1 DEF Nodes
<1>6. ASSUME NEW m, PassedTo(m)
      PROVE  \A k \in 1..Len(list') : (\A j \in 1..k : list'[j] # m) => DirectNext(list'[k])
  BY <1>1, <1>4, <1>6
<1>7. PassedTo(cur) => PassedTo(cur)'
  <2>1. PassedTo(cur) =>
          \A k \in 1..Len(list') : (\A j \in 1..k : list'[j] # cur) => DirectNext(list'[k])
    BY <1>6
  <2>2. QED
    BY <1>1, <2>1 DEF PassedTo, Before, Direct, DirectNext
<1>8. PassedTo(nx) => PassedTo(nx)'
  <2>1. PassedTo(nx) =>
          \A k \in 1..Len(list') : (\A j \in 1..k : list'[j] # nx) => DirectNext(list'[k])
    BY <1>6
  <2>2. QED
    BY <1>1, <2>1 DEF PassedTo, Before, Direct, DirectNext
<1>9. cur \in Nodes /\ Direct(cur) => Direct(cur)'
  BY <1>1, <1>2 DEF Direct, DirectNext
<1>10. QED
  BY <1>1, <1>5, <1>7, <1>8, <1>9 DEF AInv, ScanDirect

(* A new entry is passed or not; the others keep their place. *)
LEMMA LinksPassed ==
  ASSUME AInv, NEW c \in Call, NEW i \in 1..Len(list) + 1, NEW n \in Node \ Nodes,
         Links(c, i, n), UNCHANGED scheduling, pc # "advance" \/ cur \in Nodes
  PROVE  ScanDirect'
<1>1. list' = InsertAt(list, i, n) /\ UNCHANGED <<pc, cur, nx>>
  BY DEF Links, scheduling
<1>2. Treated(n)
  BY LinksTreated DEF AInv, EInv
<1>3. /\ \A m \in Nodes : Direct(m) => DirectNext(m)
      /\ DirectNext(n) /\ Nodes' = Nodes \cup {n}
  BY <1>2, TreatedKeeps DEF Treated
<1>4. list \in Seq(Node) /\ Len(list) \in Nat /\ \A k \in 1..Len(list) : list[k] \in Nodes
  BY NodesFacts DEF AInv, EInv, PInv, Storage
<1>5. n \in Node /\ n \notin Nodes
  OBVIOUS
<1>6. Len(list') = Len(list) + 1
  BY <1>1, <1>4, <1>5, LinkedList
<1>7. \A k \in 1..Len(list) + 1 :
        list'[k] = IF k < i THEN list[k] ELSE IF k = i THEN n ELSE list[k - 1]
  BY <1>1, <1>4, <1>5, LinkedList
<1>8. ASSUME NEW m, PassedTo(m), NEW k \in 1..Len(list) + 1, \A j \in 1..k : list'[j] # m
       PROVE  DirectNext(list'[k])
  <2>1. CASE k = i
    BY <1>3, <1>7, <2>1
  <2>2. CASE k < i
    <3>1. k \in 1..Len(list) /\ list'[k] = list[k]
      BY <1>4, <1>7, <2>2
    <3>2. \A j \in 1..k : list'[j] = list[j]
      BY <1>4, <1>7, <2>2
    <3>3. Direct(list[k]) /\ list[k] \in Nodes
      BY <1>4, <1>8, <3>1, <3>2 DEF PassedTo, Before
    <3>4. QED
      BY <1>3, <3>1, <3>3
  <2>3. CASE k > i
    <3>1. k - 1 \in 1..Len(list) /\ list'[k] = list[k - 1]
      BY <1>4, <1>7, <2>3
    <3>2. ASSUME NEW j \in 1..k - 1 PROVE list[j] # m
      <4>1. CASE j < i
        <5>1. j \in 1..k /\ list'[j] = list[j]
          BY <1>4, <1>7, <2>3, <4>1
        <5>2. QED
          BY <1>8, <5>1
      <4>2. CASE j >= i
        <5>1. j + 1 \in 1..k /\ j + 1 \in 1..Len(list) + 1 /\ j + 1 > i /\ (j + 1) - 1 = j
          BY <1>4, <2>3, <4>2
        <5>2. list'[j + 1] = list[j]
          BY <1>4, <1>7, <5>1
        <5>3. QED
          BY <1>8, <5>1, <5>2
      <4>3. QED
        BY <1>4, <4>1, <4>2
    <3>3. Direct(list[k - 1]) /\ list[k - 1] \in Nodes
      BY <1>4, <1>8, <3>1, <3>2 DEF PassedTo, Before
    <3>4. QED
      BY <1>3, <3>1, <3>3
  <2>4. QED
    BY <1>4, <2>1, <2>2, <2>3
<1>9. pc \in {"scan", "advance"} => PassedTo(cur)
  BY DEF AInv, ScanDirect
<1>10. pc \in {"scan", "advance"} => PassedTo(cur)'
  <2>1. PassedTo(cur) =>
          \A k \in 1..Len(list) + 1 : (\A j \in 1..k : list'[j] # cur) => DirectNext(list'[k])
    BY <1>8
  <2>2. PassedTo(cur) => PassedTo(cur)'
    BY <1>1, <1>6, <2>1 DEF PassedTo, Before, Direct, DirectNext
  <2>3. QED
    BY <1>9, <2>2
<1>11. pc = "advance" => Direct(cur)' /\ cur \in Nodes'
  BY <1>1, <1>3 DEF AInv, ScanDirect, Direct, DirectNext
<1>12. QED
  BY <1>1, <1>10, <1>11 DEF ScanDirect

LEMMA AInvPerform ==
  ASSUME AInv, EInv', NEW c \in Call, Perform(c), UNCHANGED scheduling,
         pc # "advance" \/ cur \in Nodes, IsrCalls # {} => c.res
  PROVE  AInv'
<1>0. Storage /\ PInv
  BY DEF AInv, EInv, PInv
<1>1. CASE Idles
  BY <1>1 DEF Idles, scheduling, AInv, ArmedHasTrigger, ScanDirect, HandOK, InWork, ResKept,
              PassedTo, Before, Direct, Triggered, Nodes
<1>2. ASSUME NEW n \in Node, Treated(n), node'[n].res = c.res, ScanDirect'
      PROVE  AInv'
  <2>1. ArmedHasTrigger' /\ HandOK'
    BY <1>2, TreatedKeeps
  <2>2. ResKept'
    BY <1>2 DEF AInv, ResKept, Treated, scheduling
  <2>3. QED
    BY <1>2, <2>1, <2>2 DEF AInv
<1>3. ASSUME NEW n \in Node, Overwrites(c, n) PROVE AInv'
  BY <1>0, <1>2, <1>3, OverwritesTreated, OverwritesPassed
<1>4. ASSUME NEW i \in 1..Len(list) + 1, NEW n \in Node \ Nodes, Links(c, i, n) PROVE AInv'
  <2>1. Treated(n) /\ node'[n].res = c.res
    BY <1>0, <1>4, LinksTreated
  <2>2. ScanDirect'
    BY <1>4, LinksPassed
  <2>3. n \in Node
    OBVIOUS
  <2>4. QED
    BY <1>2, <2>1, <2>2, <2>3
<1>5. QED
  BY <1>0, <1>1, <1>3, <1>4, PerformKinds

LEMMA AInvAstray ==
  ASSUME AInv, EInv', NEW c \in Call, Astray(c)
  PROVE  AInv'
<1>1. Nodes' = {} /\ pc' = "lost"
  BY AstrayFacts DEF AInv, EInv
<1>2. QED
  BY <1>1 DEF AInv, ArmedHasTrigger, ScanDirect, HandOK, InWork, ResKept

(* process_event's steps *)

LEMMA AInvSpent ==
  ASSUME AInv, EInv', ScanSpent
  PROVE  AInv'
<1>0. /\ list \in Seq(Node) /\ Len(list) \in Nat /\ NoRepeat(list)
      /\ NoDoubleLink /\ cur \in Nodes /\ Nil \notin Nodes
      /\ \A k \in 1..Len(list) : list[k] \in Nodes
  BY NodesFacts, ConstantsAssumption
     DEF AInv, EInv, PInv, Storage, NoDoubleLink, NoRepeat, CursorSound, ScanSpent
<1>1. PICK i \in Mentions(node[cur].ev) :
        list' = RemoveAt(list, i) /\ nx' = NextOf(i)
  BY DEF ScanSpent
<1>2. i \in 1..Len(list) /\ list[i] = cur
  <2>1. PICK k \in 1..Len(list) : list[k] = cur
    BY <1>0, NodesFacts
  <2>2. i \in 1..Len(list) /\ node[list[i]].ev = node[list[k]].ev
    BY <1>1, <2>1 DEF Mentions
  <2>3. i = k
    BY <2>2 DEF AInv, EInv, NoDuplicateEvent
  <2>4. QED
    BY <2>1, <2>2, <2>3
<1>3. Len(list') = Len(list) - 1
  BY <1>0, <1>1, <1>2, UnlinkedList
<1>4. \A k \in 1..Len(list) - 1 : list'[k] = IF k < i THEN list[k] ELSE list[k + 1]
  BY <1>0, <1>1, <1>2, UnlinkedList
<1>5. Nodes' = Nodes \ {cur}
  <2>1. ToSet(RemoveAt(list, i)) = ToSet(list) \ {list[i]}
    BY <1>0, <1>2, RemoveAtSet
  <2>2. QED
    BY <1>1, <1>2, <2>1 DEF Nodes
<1>6. UNCHANGED <<node, timers, bits, task, events, cur>> /\ pc = "scan" /\ pc' = "advance"
  BY DEF ScanSpent
<1>7. IsrCalls = {}
  BY <1>0 DEF ScanSpent, Live, AInv, ResKept
<1>8. PassedTo(cur)
  BY <1>6 DEF AInv, ScanDirect
<1>9. ASSUME NEW k \in 1..Len(list) - 1, \A j \in 1..k : list'[j] # nx'
      PROVE  DirectNext(list'[k])
  <2>1. k < i
    <3>1. SUFFICES ASSUME k >= i PROVE FALSE
      BY <1>0, <1>2
    <3>2. i \in 1..k /\ i \in 1..Len(list) - 1 /\ i # Len(list)
      BY <1>0, <1>2, <3>1
    <3>3. list'[i] = list[i + 1] /\ nx' = list[i + 1]
      BY <1>1, <1>4, <3>2 DEF NextOf
    <3>4. QED
      BY <1>9, <3>2, <3>3
  <2>2. k \in 1..Len(list) /\ list'[k] = list[k]
    BY <1>0, <1>4, <2>1
  <2>3. \A j \in 1..k : list[j] # cur
    <3>1. SUFFICES ASSUME NEW j \in 1..k, list[j] = list[i] PROVE FALSE
      BY <1>2
    <3>2. j \in 1..Len(list) /\ j # i
      BY <1>0, <1>2, <2>1
    <3>3. QED
      BY <1>0, <1>2, <3>1, <3>2 DEF NoDoubleLink
  <2>4. Direct(list[k])
    BY <1>8, <2>2, <2>3 DEF PassedTo, Before
  <2>5. QED
    BY <1>6, <2>2, <2>4 DEF Direct, DirectNext
<1>10. PassedTo(nx)'
  BY <1>3, <1>9 DEF PassedTo, Before, Direct, DirectNext
<1>11. ScanDirect'
  BY <1>5, <1>6, <1>7, <1>10 DEF ScanDirect
<1>12. ArmedHasTrigger'
  BY <1>5, <1>6 DEF AInv, ArmedHasTrigger, Triggered
<1>13. HandOK' /\ ResKept'
  BY <1>6, <1>7 DEF HandOK, InWork, ResKept
<1>14. QED
  BY <1>11, <1>12, <1>13 DEF AInv

(* Only process_event's place changes. *)
LEMMA AInvAdvance ==
  ASSUME AInv, EInv', Advance
  PROVE  AInv'
<1>0. /\ list \in Seq(Node) /\ Len(list) \in Nat /\ NoDoubleLink
      /\ Nil \notin Nodes /\ (\A k \in 1..Len(list) : list[k] \in Nodes)
  BY NodesFacts, ConstantsAssumption DEF AInv, EInv, PInv, Storage
<1>1. UNCHANGED <<list, node, timers, bits, task, events, rd>> /\ pc = "advance" /\ pc' = "scan"
  BY DEF Advance
<1>2. CASE cur \notin Nodes /\ cur' = nx
  <2>1. PassedTo(nx)
    BY <1>1, <1>2 DEF AInv, ScanDirect
  <2>2. PassedTo(cur)'
    BY <1>1, <1>2, <2>1 DEF PassedTo, Before, Direct
  <2>3. QED
    BY <1>1, <2>2 DEF AInv, ScanDirect, ArmedHasTrigger, Triggered, HandOK, InWork, ResKept,
                      Nodes
<1>3. ASSUME NEW i \in 1..Len(list), list[i] = cur, cur' = NextOf(i)
      PROVE  AInv'
  <2>1. cur \in Nodes /\ PassedTo(cur) /\ Direct(cur)
    BY <1>0, <1>1, <1>3 DEF AInv, ScanDirect
  <2>2. ASSUME NEW k \in 1..Len(list), \A j \in 1..k : list[j] # NextOf(i)
        PROVE  Direct(list[k])
    <3>1. k <= i
      <4>1. SUFFICES ASSUME k > i PROVE FALSE
        BY <1>0
      <4>2. i + 1 \in 1..k /\ i # Len(list)
        BY <1>0, <4>1
      <4>3. QED
        BY <2>2, <4>2 DEF NextOf
    <3>2. CASE k = i
      BY <1>3, <2>1, <3>2
    <3>3. CASE k # i
      <4>1. \A j \in 1..k : j \in 1..Len(list) /\ j # i
        BY <1>0, <3>1, <3>3
      <4>2. \A j \in 1..k : list[j] # cur
        BY <1>0, <1>3, <4>1 DEF NoDoubleLink
      <4>3. QED
        BY <2>1, <4>2 DEF PassedTo, Before
    <3>4. QED
      BY <3>2, <3>3
  <2>3. PassedTo(cur)'
    BY <1>1, <1>3, <2>2 DEF PassedTo, Before, Direct
  <2>4. QED
    BY <1>1, <2>3 DEF AInv, ScanDirect, ArmedHasTrigger, Triggered, HandOK, InWork, ResKept,
                      Nodes
<1>4. QED
  BY <1>2, <1>3 DEF Advance

LEMMA AInvDispatch ==
  ASSUME AInv, EInv', NEW t \in Task, Dispatch(t)
  PROVE  AInv'
<1>1. /\ UNCHANGED <<list, node, timers, rd>> /\ Nodes' = Nodes
      /\ pc = "idle" /\ pc' = "scan" /\ task' = t /\ events' = bits[t]
      /\ bits' = [bits EXCEPT ![t] = {}]
      /\ cur' = IF list = <<>> THEN Nil ELSE Head(list)
  BY DEF Dispatch, Nodes
<1>2. bits \in [Task -> SUBSET Event] /\ list \in Seq(Node) /\ Len(list) \in Nat
  BY DEF AInv, EInv, PInv, Storage
<1>3. ArmedHasTrigger'
  <2>1. SUFFICES ASSUME NEW n \in Nodes, node[n].cnt > 0
                 PROVE  \/ node[n].ev \in timers[node[n].task] \cup bits'[node[n].task]
                        \/ t = node[n].task /\ node[n].ev \in bits[t]
    BY <1>1 DEF ArmedHasTrigger, Triggered
  <2>2. node[n].ev \in timers[node[n].task] \cup bits[node[n].task]
    BY <1>1, <2>1 DEF AInv, ArmedHasTrigger, Triggered
  <2>3. node[n].task \in Task
    BY Fields DEF AInv, EInv, PInv, Storage, Entry
  <2>4. QED
    BY <1>1, <1>2, <2>2, <2>3
<1>4. PassedTo(cur)'
  <2>1. SUFFICES ASSUME NEW k \in 1..Len(list), \A j \in 1..k : list[j] # cur'
                 PROVE  FALSE
    BY <1>1 DEF PassedTo, Before
  <2>2. 1 \in 1..k /\ list # <<>> /\ Head(list) = list[1]
    BY <1>2
  <2>3. QED
    BY <1>1, <2>1, <2>2
<1>5. QED
  BY <1>1, <1>3, <1>4 DEF AInv, ScanDirect, HandOK, InWork, ResKept

LEMMA AInvDecrement ==
  ASSUME AInv, EInv', Decrement
  PROVE  AInv'
<1>1. /\ UNCHANGED <<timers, bits, task, events, cur>> /\ Nodes' = Nodes
      /\ pc = "decrement" /\ pc' = "rearm" /\ list' = list
  BY DEF Decrement, Nodes
<1>2. /\ cur \in Nodes
      /\ \A m \in Nodes : /\ node'[m].ev = node[m].ev
                          /\ node'[m].task = node[m].task
                          /\ m # cur => node'[m] = node[m]
                          /\ m = cur => node'[m].res = rd.res
  BY DecrementKeeps DEF AInv, EInv
<1>3. node[cur].task = task /\ node[cur].ev \in events
  BY <1>1 DEF AInv, HandOK, InWork
<1>4. ArmedHasTrigger'
  <2>1. SUFFICES ASSUME NEW n \in Nodes, node'[n].cnt > 0
                 PROVE  Triggered(node[n].task, node[n].ev)
    BY <1>1, <1>2 DEF ArmedHasTrigger, Triggered
  <2>2. CASE n = cur
    BY <1>1, <1>3, <2>2 DEF Triggered
  <2>3. CASE n # cur
    BY <1>2, <2>1, <2>3 DEF AInv, ArmedHasTrigger
  <2>4. QED
    BY <2>2, <2>3
<1>5. HandOK' /\ ScanDirect'
  BY <1>1, <1>2, <1>3 DEF HandOK, ScanDirect
<1>6. ResKept'
  BY <1>1, <1>2 DEF AInv, ResKept
<1>7. QED
  BY <1>4, <1>5, <1>6 DEF AInv

LEMMA AInvRearm ==
  ASSUME AInv, EInv', Rearm
  PROVE  AInv'
<1>0. cur \in Nodes /\ node[cur] \in Entry /\ PInv
  BY Fields DEF AInv, EInv, PInv, Storage, Rearm
<1>1. /\ UNCHANGED <<list, node, task, cur>> /\ Nodes' = Nodes
      /\ pc = "rearm" /\ pc' = "ret" /\ events' = events \ {node[cur].ev}
      /\ SetAppEvent(node[cur])
  BY DEF Rearm, Unprocessed, Nodes
<1>2. /\ Grows
      /\ node[cur].cnt > 0 => node[cur].ev \in timers'[node[cur].task] \cup bits'[node[cur].task]
  BY <1>0, <1>1, SetAppEventGrows
<1>3. ArmedHasTrigger'
  <2>1. SUFFICES ASSUME NEW n \in Nodes, node[n].cnt > 0
                 PROVE  Triggered(node[n].task, node[n].ev)'
    BY <1>1 DEF ArmedHasTrigger
  <2>2. CASE n = cur
    BY <1>1, <1>2, <2>1, <2>2 DEF Triggered
  <2>3. CASE n # cur
    <3>1. Triggered(node[n].task, node[n].ev) /\ node[n].task \in Task
      BY <2>1, Fields DEF AInv, ArmedHasTrigger, EInv, PInv, Storage, Entry
    <3>2. node[n].ev # node[cur].ev
      <4>1. PICK j \in 1..Len(list) : list[j] = n
        BY NodesFacts, <1>0 DEF PInv, Storage
      <4>2. PICK k \in 1..Len(list) : list[k] = cur
        BY NodesFacts, <1>0 DEF PInv, Storage
      <4>3. QED
        BY <2>3, <4>1, <4>2 DEF AInv, EInv, NoDuplicateEvent
    <3>3. QED
      BY <1>1, <1>2, <3>1, <3>2 DEF Triggered, Grows
  <2>4. QED
    BY <2>2, <2>3
<1>4. QED
  BY <1>1, <1>3 DEF AInv, ScanDirect, HandOK, InWork, ResKept

LEMMA AInvScanEnd ==
  ASSUME AInv, EInv', ScanEnd
  PROVE  AInv'
<1>1. /\ UNCHANGED <<list, node, timers, bits, task, cur>> /\ Nodes' = Nodes
      /\ pc = "scan" /\ pc' = "ret" /\ cur = Nil
  BY DEF ScanEnd, Nodes
<1>2. list \in Seq(Node) /\ Nil \notin Node
  BY ConstantsAssumption DEF AInv, EInv, PInv, Storage
<1>3. \A k \in 1..Len(list) : Before(k, Nil)
  BY <1>2 DEF Before
<1>4. \A n \in Nodes : Direct(n)
  <2>1. PassedTo(Nil)
    BY <1>1 DEF AInv, ScanDirect
  <2>2. QED
    BY <1>2, <1>3, <2>1, NodesFacts DEF PassedTo
<1>5. ArmedHasTrigger'
  BY <1>1, <1>4 DEF ArmedHasTrigger, Triggered, Direct
<1>6. QED
  BY <1>1, <1>5 DEF AInv, ScanDirect, HandOK, InWork, ResKept

LEMMA AInvScanOthers ==
  ASSUME AInv, EInv', ScanMatch \/ ScanSkip \/ CallbackReturn \/ CheckCount
  PROVE  AInv'
<1>1. UNCHANGED <<list, node, timers, bits, task, events, cur>> /\ Nodes' = Nodes
  BY DEF ScanMatch, ScanSkip, CallbackReturn, CheckCount, Nodes
<1>2. pc # "idle" /\ pc' # "idle"
  BY DEF ScanMatch, ScanSkip, CallbackReturn, CheckCount
<1>3. ArmedHasTrigger'
  BY <1>1, <1>2 DEF AInv, ArmedHasTrigger, Triggered
<1>4. CASE ScanMatch
  BY <1>1, <1>3, <1>4 DEF ScanMatch, Matches, AInv, ScanDirect, HandOK, InWork, ResKept
<1>5. CASE CallbackReturn
  BY <1>1, <1>3, <1>5 DEF CallbackReturn, AInv, ScanDirect, HandOK, InWork, ResKept
<1>6. CASE CheckCount
  <2>1. cur \in Nodes
    BY <1>6, Fields DEF CheckCount, AInv, EInv
  <2>2. ResKept'
    BY <1>1, <1>6, <2>1 DEF CheckCount, AInv, ResKept
  <2>3. QED
    BY <1>1, <1>3, <1>6, <2>2 DEF CheckCount, AInv, ScanDirect, HandOK, InWork
<1>7. CASE ScanSkip
  <2>1. /\ pc = "scan" /\ pc' = "advance" /\ cur \in Nodes
        /\ Live(cur) /\ ~Matches(cur)
    BY <1>7 DEF ScanSkip, AInv, EInv, PInv, CursorSound
  <2>2. Direct(cur)
    BY <2>1 DEF Matches, AInv, ArmedHasTrigger, Triggered, Direct
  <2>3. PassedTo(cur)
    BY <2>1 DEF AInv, ScanDirect
  <2>4. PassedTo(cur)' /\ Direct(cur)'
    BY <1>1, <2>2, <2>3 DEF PassedTo, Before, Direct
  <2>5. ScanDirect'
    BY <1>1, <2>1, <2>4 DEF ScanDirect
  <2>6. QED
    BY <1>1, <1>3, <2>1, <2>5 DEF AInv, HandOK, InWork, ResKept
<1>8. QED
  BY <1>4, <1>5, <1>6, <1>7

LEMMA AInvReturn ==
  ASSUME AInv, EInv', Return
  PROVE  AInv'
<1>1. /\ UNCHANGED <<list, node, timers, task, events, cur>> /\ Nodes' = Nodes
      /\ pc' = "idle" /\ bits' = [bits EXCEPT ![task] = bits[task] \cup events]
  BY DEF Return, AddedBack, Nodes
<1>2. bits \in [Task -> SUBSET Event] /\ task \in Task
  BY DEF AInv, EInv, PInv, Storage, Control
<1>3. ArmedHasTrigger'
  <2>1. SUFFICES ASSUME NEW n \in Nodes, node[n].cnt > 0
                 PROVE  node[n].ev \in timers[node[n].task] \cup bits'[node[n].task]
    BY <1>1 DEF ArmedHasTrigger, Triggered
  <2>2. Triggered(node[n].task, node[n].ev) /\ node[n].task \in Task
    BY <2>1, Fields DEF AInv, ArmedHasTrigger, EInv, PInv, Storage, Entry
  <2>3. QED
    BY <1>1, <1>2, <2>2 DEF Triggered
<1>4. QED
  BY <1>1, <1>3 DEF AInv, ScanDirect, HandOK, InWork, ResKept

LEMMA AInvExpire ==
  ASSUME AInv, EInv', NEW t \in Task, NEW e \in Event, Expire(t, e)
  PROVE  AInv'
<1>1. /\ UNCHANGED <<list, node, pc, task, events, cur, nx, rd>> /\ Nodes' = Nodes
      /\ timers' = [timers EXCEPT ![t] = timers[t] \ {e}]
      /\ bits' = [bits EXCEPT ![t] = bits[t] \cup {e}]
  BY DEF Expire, scheduling, Nodes
<1>2. \A s \in Task : timers[s] \cup bits[s] \subseteq timers'[s] \cup bits'[s]
  BY <1>1 DEF AInv, EInv, PInv, Storage
<1>3. \A n \in Nodes : node[n].task \in Task
  BY Fields DEF AInv, EInv, PInv, Storage, Entry
<1>4. ArmedHasTrigger'
  BY <1>1, <1>2, <1>3 DEF AInv, ArmedHasTrigger, Triggered
<1>5. \A n \in Nodes : Direct(n) => DirectNext(n)
  BY <1>1, <1>2, <1>3 DEF Direct, DirectNext
<1>6. \A k \in 1..Len(list) : list[k] \in Nodes
  BY NodesFacts DEF AInv, EInv, PInv, Storage
<1>7. PassedTo(cur) => PassedTo(cur)'
  BY <1>1, <1>5, <1>6 DEF PassedTo, Before, Direct, DirectNext
<1>8. PassedTo(nx) => PassedTo(nx)'
  BY <1>1, <1>5, <1>6 DEF PassedTo, Before, Direct, DirectNext
<1>9. cur \in Nodes /\ Direct(cur) => Direct(cur)'
  BY <1>1, <1>5 DEF Direct, DirectNext
<1>10. ScanDirect'
  BY <1>1, <1>7, <1>8, <1>9 DEF AInv, ScanDirect
<1>11. QED
  BY <1>1, <1>4, <1>10 DEF AInv, HandOK, InWork, ResKept

LEMMA AInvStep ==
  ASSUME OneEntry(AllCalls), KeptByIsr(IsrCalls, AllCalls), AInv, [Next]_vars
  PROVE  AInv'
<1>0. EInv'
  BY EInvStep DEF AInv
<1>1. ASSUME NEW c \in MainCalls, MainCall(c) PROVE AInv'
  <2>1. c \in Call /\ (IsrCalls # {} => c.res)
    BY AllCallsFacts DEF AllCalls, KeptByIsr
  <2>2. QED
    BY <1>0, <1>1, <2>1, AInvPerform, AInvAstray DEF MainCall, Calls
<1>2. ASSUME NEW c \in IsrCalls, IsrCall(c) PROVE AInv'
  <2>1. c \in Call /\ c.res
    BY AllCallsFacts DEF AllCalls, KeptByIsr
  <2>2. pc # "advance" \/ cur \in Nodes
    BY DEF AInv, ScanDirect
  <2>3. QED
    BY <1>0, <1>2, <2>1, <2>2, AInvPerform, AInvAstray DEF IsrCall, Calls
<1>3. ASSUME NEW p \in CbCalls, CallbackCall(p[2]) PROVE AInv'
  <2>1. p[2] \in Call /\ (IsrCalls # {} => p[2].res)
    BY AllCallsFacts DEF AllCalls, KeptByIsr
  <2>2. QED
    BY <1>0, <1>3, <2>1, AInvPerform, AInvAstray DEF CallbackCall, Calls
<1>4. CASE Lost \/ UNCHANGED vars
  BY <1>0, <1>4 DEF Lost, vars, AInv, ArmedHasTrigger, ScanDirect, HandOK, InWork, ResKept, PassedTo,
                    Before, Direct, Triggered, Nodes
<1>5. QED
  BY <1>0, <1>1, <1>2, <1>3, <1>4, AInvExpire, AInvDispatch, AInvScanEnd, AInvScanOthers,
     AInvSpent, AInvAdvance, AInvDecrement, AInvRearm, AInvReturn
     DEF Next, ProcessEvent

(* An armed entry is never stranded, whatever process_event has in hand and  *)
(* whoever calls, provided an event owns one entry and a board with an       *)
(* interrupt arms resident entries only.                                     *)
THEOREM ArmedTriggered ==
  ASSUME OneEntry(AllCalls), KeptByIsr(IsrCalls, AllCalls)
  PROVE  Spec => []ArmedHasTrigger
<1>1. AInv /\ [Next]_vars => AInv'
  BY AInvStep
<1>2. AInv => ArmedHasTrigger
  BY DEF AInv
<1>3. QED
  BY AInvInit, <1>1, <1>2, PTL DEF Spec
=============================================================================
