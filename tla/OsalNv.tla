------------------------------- MODULE OsalNv -------------------------------
(***************************************************************************)
(* The NV memory in flash (Components/osal/mcu/cc2530/OSAL_Nv.c).  A page  *)
(* has a header of marks and a list of items, which are appended, marked   *)
(* as being transferred and zeroed out; only the erasure of a whole page   *)
(* gives space back.  One page is kept in reserve: the valid items of a    *)
(* full page are copied there and the pages change their roles.  Every     *)
(* step below writes one flash word or erases one page, and the power may  *)
(* fail before any of them; osal_nv_init then puts the pages in order.     *)
(***************************************************************************)
EXTENDS Naturals, FiniteSets, Sequences

CONSTANTS
  PageCount,  \* OSAL_NV_PAGES_USED
  Room,       \* OSAL_NV_PAGE_SIZE without the page's header
  Id,         \* item ids
  Size,       \* the room that an item and its header take
  Val,        \* their values
  HotIds,     \* the ids whose place is cached
  Torn,       \* the marks that an interrupted erasure may leave in a page
  Zeroed,     \* OSAL_NV_ZEROED_ID
  Blank       \* data whose checksum is not written yet

Page == 1..PageCount
Null == 0     \* OSAL_NV_PAGE_NULL
Marks == [act : BOOLEAN, xfer : BOOLEAN]
Item == [id : Id \cup {Zeroed}, len : 1..Room, val : Val \cup {Blank}, old : BOOLEAN]
Place == [pg : Page, at : 1..Room]
NoPlace == [pg |-> Null, at |-> 0]
NoOp == [kind |-> "none", id |-> Zeroed, val |-> Blank]

ASSUME ConstantsAssumption ==
  /\ PageCount \in Nat \ {0, 1}
  /\ Room \in Nat \ {0}
  /\ Size \in [Id -> 1..Room]
  /\ Torn \subseteq Marks
  /\ HotIds \subseteq Id
  /\ Zeroed \notin Id
  /\ Blank \notin Val

VARIABLES
  flash,  \* the pages: header words active and xfer, items
  res,    \* pgRes
  off,    \* pgOff, without the page's header
  lost,   \* pgLost
  hot,    \* hotPg and hotOff
  pc,     \* the step the driver is at
  op,     \* the call in progress: osal_nv_item_init or osal_nv_write
  src,    \* its srcPg and origOff
  dst,    \* its dstPg
  com,    \* the page being compacted
  cur     \* compactPage's srcOff, in items

ram == <<res, off, lost, hot, op, src, dst, com, cur>>
vars == <<flash, res, off, lost, hot, pc, op, src, dst, com, cur>>

Erased == [act |-> FALSE, xfer |-> FALSE, items |-> <<>>]

-----------------------------------------------------------------------------
(* Reading the flash *)

ItemAt(p, i) == flash[p].items[i]
Weight(it, ids) == IF it.id \in ids THEN it.len ELSE 0
Sums(items, ids) ==
  LET sum[i \in 0..Len(items)] == IF i = 0 THEN 0 ELSE sum[i - 1] + Weight(items[i], ids)
  IN  sum
Total(items, ids) == Sums(items, ids)[Len(items)]
Used(p) == Total(flash[p].items, Id \cup {Zeroed})
Gone(p) == Total(flash[p].items, {Zeroed})
Places == {l \in Place : l.at <= Len(flash[l.pg].items)}
Before(k, l) == k.pg < l.pg \/ (k.pg = l.pg /\ k.at <= l.at)

Versions(id, old) ==
  {l \in Places : ItemAt(l.pg, l.at).id = id /\ ItemAt(l.pg, l.at).old = old}

(* findItem: the new version of an item before one marked as transferred, in
   the order of the pages; checksums are not looked at. *)
FirstOf(S) == IF S = {} THEN NoPlace ELSE CHOOSE l \in S : \A k \in S : Before(l, k)
FindItem(id) ==
  IF Versions(id, FALSE) # {} THEN FirstOf(Versions(id, FALSE))
  ELSE FirstOf(Versions(id, TRUE))

-----------------------------------------------------------------------------
(* Writing the flash *)

ErasePage(p) ==
  /\ flash' = [flash EXCEPT ![p] = Erased]
  /\ off' = [off EXCEPT ![p] = 0]
  /\ lost' = [lost EXCEPT ![p] = 0]

(* The header of an item: writeItem up to its checksum *)
WriteHeader(p, id) ==
  /\ flash' = [flash EXCEPT ![p].items = Append(@,
                  [id |-> id, len |-> Size[id], val |-> Blank, old |-> FALSE])]
  /\ off' = [off EXCEPT ![p] = @ + Size[id]]

(* Its data and then the checksum, without which they do not count *)
WriteData(p, v) ==
  flash' = [flash EXCEPT ![p].items[Len(flash[p].items)].val = v]

HotUpdate(p, at, id) ==
  hot' = IF id \in HotIds THEN [hot EXCEPT ![id] = [pg |-> p, at |-> at]] ELSE hot

(* setItem: what a zeroed item held is never looked at again. *)
SetXfer(l) == flash' = [flash EXCEPT ![l.pg].items[l.at].old = TRUE]
SetZero(l) ==
  /\ flash' = [flash EXCEPT ![l.pg].items[l.at] =
                  [@ EXCEPT !.id = Zeroed, !.val = Blank, !.old = FALSE]]
  /\ lost' = [lost EXCEPT ![l.pg] = @ + ItemAt(l.pg, l.at).len]

Finished ==
  /\ pc' = "idle"
  /\ op' = NoOp
  /\ src' = NoPlace
  /\ dst' = Null
  /\ com' = Null
  /\ cur' = 0

-----------------------------------------------------------------------------
(* Power-up: initNV *)

Init ==
  /\ flash = [p \in Page |-> Erased]
  /\ res = Null
  /\ off = [p \in Page |-> 0]
  /\ lost = [p \in Page |-> 0]
  /\ hot = [id \in HotIds |-> NoPlace]
  /\ pc = "headers"
  /\ op = NoOp
  /\ src = NoPlace
  /\ dst = Null
  /\ com = Null
  /\ cur = 0

ResetRam ==
  /\ res' = Null
  /\ off' = [p \in Page |-> 0]
  /\ lost' = [p \in Page |-> 0]
  /\ hot' = [id \in HotIds |-> NoPlace]
  /\ pc' = "headers"
  /\ op' = NoOp
  /\ src' = NoPlace
  /\ dst' = Null
  /\ com' = Null
  /\ cur' = 0

ErasedPages == {p \in Page : ~flash[p].act}
OldPages == {p \in Page : flash[p].act /\ flash[p].xfer}
Lowest(P) == CHOOSE p \in P : \A q \in P : p <= q
Highest(P) == CHOOSE p \in P : \A q \in P : q <= p

(* The first erased page becomes the reserve, the others are put in use. *)
PutInUse ==
  /\ pc = "headers"
  /\ \E p \in ErasedPages :
       /\ Cardinality({q \in ErasedPages : q < p}) = 1
       /\ flash' = [flash EXCEPT ![p].act = TRUE]
  /\ UNCHANGED <<pc, ram>>

HeadersDone == pc = "headers" /\ \A p, q \in ErasedPages : p = q

(* A compaction was interrupted before its target was put in use: again. *)
ResumeCompaction ==
  /\ HeadersDone
  /\ ErasedPages # {}
  /\ OldPages # {}
  /\ ErasePage(Lowest(ErasedPages))
  /\ res' = Lowest(ErasedPages)
  /\ com' = Highest(OldPages)
  /\ cur' = 1
  /\ pc' = "compact"
  /\ UNCHANGED <<hot, op, src, dst>>

(* It was interrupted after that: the old page is erased. *)
DropOldPage ==
  /\ HeadersDone
  /\ ErasedPages = {}
  /\ OldPages # {}
  /\ ErasePage(Highest(OldPages))
  /\ res' = Highest(OldPages)
  /\ pc' = "items"
  /\ UNCHANGED <<hot, op, src, dst, com, cur>>

(* The erasure of the reserve may have been interrupted. *)
CleanReserve ==
  /\ HeadersDone
  /\ ErasedPages # {}
  /\ OldPages = {}
  /\ ErasePage(Lowest(ErasedPages))
  /\ res' = Lowest(ErasedPages)
  /\ pc' = "items"
  /\ UNCHANGED <<hot, op, src, dst, com, cur>>

NoReserve ==
  /\ HeadersDone
  /\ ErasedPages = {}
  /\ OldPages = {}
  /\ pc' = "items"
  /\ UNCHANGED <<flash, ram>>

(* initPage zeroes items without a valid checksum and, once it has met an old
   one, the old twins of valid items; it takes them in the order of the pages,
   here they come in any order. *)
Twins(l) ==
  {k \in Versions(ItemAt(l.pg, l.at).id, TRUE) : ItemAt(l.pg, l.at).id # Zeroed}
NoneBad == {}
BadItems ==
  {l \in Places : ItemAt(l.pg, l.at).id # Zeroed /\ ItemAt(l.pg, l.at).val = Blank}
NewItems ==
  {l \in Places : ~ItemAt(l.pg, l.at).old /\ ItemAt(l.pg, l.at).val # Blank}
TwinsKept == {}
OldTwins == UNION {Twins(l) : l \in NewItems}

ZeroItem ==
  /\ pc = "items"
  /\ \E l \in BadItems \cup OldTwins : SetZero(l)
  /\ UNCHANGED <<res, off, hot, pc, op, src, dst, com, cur>>

(* The last pass over the pages counts the bytes they have used and lost. *)
CountItems ==
  /\ pc = "items"
  /\ BadItems \cup OldTwins = {}
  /\ off' = [p \in Page |-> Used(p)]
  /\ lost' = [p \in Page |-> Gone(p)]
  /\ pc' = IF res = Null THEN "reserve" ELSE "idle"
  /\ UNCHANGED <<flash, res, hot, op, src, dst, com, cur>>

(* Without a reserve page: the first page that has lost everything, or else
   the one that has lost most. *)
MostLost ==
  LET full == {p \in Page : lost[p] = Room}
      most == {p \in Page : \A q \in Page : lost[q] <= lost[p]}
  IN  IF full # {} THEN Lowest(full) ELSE Lowest(most)

FindReserve ==
  /\ pc = "reserve"
  /\ ErasePage(MostLost)
  /\ res' = MostLost
  /\ pc' = "idle"
  /\ UNCHANGED <<hot, op, src, dst, com, cur>>

-----------------------------------------------------------------------------
(* Compaction: compactPage copies the valid items, but for the one that is
   about to be written, from com to res. *)

CurItem == ItemAt(com, cur)
CopiedToo(it) == it.id # Zeroed /\ it.val # Blank
Copied(it) == it.id \notin {Zeroed, op.id} /\ it.val # Blank

StayAtItem ==
  /\ pc = "compact"
  /\ cur <= Len(flash[com].items)
  /\ ~Copied(CurItem)
  /\ UNCHANGED vars
SkipItem ==
  /\ pc = "compact"
  /\ cur <= Len(flash[com].items)
  /\ ~Copied(CurItem)
  /\ cur' = cur + 1
  /\ UNCHANGED <<flash, res, off, lost, hot, pc, op, src, dst, com>>

MarkCopied ==
  /\ pc = "compact"
  /\ cur <= Len(flash[com].items)
  /\ Copied(CurItem)
  /\ ~CurItem.old
  /\ SetXfer([pg |-> com, at |-> cur])
  /\ UNCHANGED <<pc, ram>>

CopyHeader ==
  /\ pc = "compact"
  /\ cur <= Len(flash[com].items)
  /\ Copied(CurItem)
  /\ CurItem.old
  /\ WriteHeader(res, CurItem.id)
  /\ pc' = "copy"
  /\ UNCHANGED <<res, lost, hot, op, src, dst, com, cur>>

CopyData ==
  /\ pc = "copy"
  /\ WriteData(res, CurItem.val)
  /\ HotUpdate(res, Len(flash[res].items), CurItem.id)
  /\ cur' = cur + 1
  /\ pc' = "compact"
  /\ UNCHANGED <<res, off, lost, op, src, dst, com>>

CompactionDone ==
  /\ pc = "compact"
  /\ cur > Len(flash[com].items)
  /\ pc' = IF op = NoOp THEN "use" ELSE "header"
  /\ UNCHANGED <<flash, ram>>

(* COMPACT_PAGE_CLEANUP: the target is put in use before the old page is
   erased. *)
CleanupUse ==
  /\ pc = "use"
  /\ flash' = [flash EXCEPT ![res].act = TRUE]
  /\ pc' = "erase"
  /\ UNCHANGED ram

CleanupErase ==
  /\ pc = "erase"
  /\ ErasePage(com)
  /\ res' = com
  /\ IF op = NoOp
       THEN pc' = "items" /\ com' = Null /\ cur' = 0 /\ UNCHANGED <<op, src, dst>>
       ELSE IF op.kind = "write" /\ src.pg # com
         THEN pc' = "zero" /\ UNCHANGED <<op, src, dst, com, cur>>
         ELSE Finished
  /\ UNCHANGED hot

-----------------------------------------------------------------------------
(* osal_nv_item_init, osal_nv_write, osal_nv_delete *)

(* initItem looks for a page with room, counting what compaction would gain,
   from the page after the reserve on. *)
Behind(p) == (p + PageCount - res - 1) % PageCount
Roomy(id) == {p \in Page \ {res} : Size[id] <= Room - off[p] + lost[p]}
Chosen(id) == CHOOSE p \in Roomy(id) : \A q \in Roomy(id) : Behind(p) <= Behind(q)

Fits(p, id) == Size[id] <= Room - off[p]

StartItem(kind, id, v) ==
  /\ Roomy(id) # {}
  /\ op' = [kind |-> kind, id |-> id, val |-> v]
  /\ src' = FindItem(id)
  /\ IF Fits(Chosen(id), id)
       THEN /\ dst' = Chosen(id)
            /\ pc' = "header"
            /\ UNCHANGED <<flash, com, cur>>
       ELSE /\ flash' = [flash EXCEPT ![Chosen(id)].xfer = TRUE]
            /\ dst' = res
            /\ com' = Chosen(id)
            /\ cur' = 1
            /\ pc' = "compact"
  /\ UNCHANGED <<res, off, lost, hot>>

CreateItem(id, v) ==
  /\ pc = "idle"
  /\ FindItem(id) = NoPlace
  /\ StartItem("create", id, v)

(* An item that exists is left as it is, but its place is cached. *)
KeepItem(id) ==
  /\ pc = "idle"
  /\ FindItem(id) # NoPlace
  /\ HotUpdate(FindItem(id).pg, FindItem(id).at, id)
  /\ UNCHANGED <<flash, res, off, lost, pc, op, src, dst, com, cur>>

WriteItem(id, v) ==
  /\ pc = "idle"
  /\ FindItem(id) # NoPlace
  /\ ItemAt(FindItem(id).pg, FindItem(id).at).val # v
  /\ StartItem("write", id, v)

NewHeader ==
  /\ pc = "header"
  /\ WriteHeader(dst, op.id)
  /\ pc' = IF op.kind = "write" THEN "mark" ELSE "data"
  /\ UNCHANGED <<res, lost, hot, op, src, dst, com, cur>>

MarkOld ==
  /\ pc = "mark"
  /\ SetXfer(src)
  /\ pc' = "data"
  /\ UNCHANGED ram

NewData ==
  /\ pc = "data"
  /\ WriteData(dst, op.val)
  /\ HotUpdate(dst, Len(flash[dst].items), op.id)
  /\ IF com # Null
       THEN pc' = "use" /\ UNCHANGED <<op, src, dst, com, cur>>
       ELSE IF op.kind = "write"
         THEN pc' = "zero" /\ UNCHANGED <<op, src, dst, com, cur>>
         ELSE Finished
  /\ UNCHANGED <<res, off, lost>>

(* The old version is zeroed last. *)
ZeroOld ==
  /\ pc = "zero"
  /\ SetZero(src)
  /\ Finished
  /\ UNCHANGED <<res, off, hot>>

DeleteItem(id) ==
  /\ pc = "idle"
  /\ FindItem(id) # NoPlace
  /\ SetZero(FindItem(id))
  /\ UNCHANGED <<res, off, hot, pc, op, src, dst, com, cur>>

-----------------------------------------------------------------------------
(* The power fails, also while a page is being erased: its marks may then
   have been lost before its items. *)

PowerFails ==
  /\ UNCHANGED flash
  /\ ResetRam

Erasing ==
  CASE pc = "erase" -> {com}
    [] pc = "reserve" -> {MostLost}
    [] HeadersDone /\ ErasedPages # {} -> ErasedPages
    [] HeadersDone /\ ErasedPages = {} /\ OldPages # {} -> {Highest(OldPages)}
    [] OTHER -> {}

EraseFails ==
  /\ \E p \in Erasing, m \in Torn :
       /\ m.act => flash[p].act
       /\ m.xfer => flash[p].xfer
       /\ flash' = [flash EXCEPT ![p] =
                       [act |-> m.act, xfer |-> m.xfer, items |-> flash[p].items]]
  /\ ResetRam

Boot ==
  \/ PutInUse \/ ResumeCompaction \/ DropOldPage \/ CleanReserve \/ NoReserve
  \/ ZeroItem \/ CountItems \/ FindReserve

Compact ==
  SkipItem \/ MarkCopied \/ CopyHeader \/ CopyData \/ CompactionDone
    \/ CleanupUse \/ CleanupErase

Finish == NewHeader \/ MarkOld \/ NewData \/ ZeroOld

Call ==
  \E id \in Id :
    \/ KeepItem(id)
    \/ DeleteItem(id)
    \/ \E v \in Val : CreateItem(id, v) \/ WriteItem(id, v)

Run == Boot \/ Compact \/ Finish
Next == Run \/ Call \/ PowerFails \/ EraseFails

Spec == Init /\ [][Next]_vars

(* The processor runs. *)
FairSpec == Spec /\ WF_vars(Run)

-----------------------------------------------------------------------------
(* Properties *)

(* The value of an item that the flash holds at every moment: what is in use
   counts, an old page only until the target of its compaction is in use, and
   a new version of an item before an old one. *)
InUse(p) == flash[p].act /\ (flash[p].xfer => ErasedPages # {})
ValueAt(l) == ItemAt(l.pg, l.at).val
ValueOf(id) ==
  LET held == {l \in Places : /\ ItemAt(l.pg, l.at).id = id
                              /\ ValueAt(l) # Blank
                              /\ InUse(l.pg)}
      new == {l \in held : ~ItemAt(l.pg, l.at).old}
  IN  IF held = {} THEN Blank
      ELSE ValueAt(FirstOf(IF new = {} THEN held ELSE new))
Stored == [id \in Id |-> ValueOf(id)]

(* Whenever the power fails, an item has its old or its new value, the others
   keep theirs, and a loss of power and what is done after it change none; a
   call that returns has stored its value, and no item changes but by a call. *)
Mode == IF op # NoOp THEN "busy" ELSE IF pc = "idle" THEN "ready" ELSE "down"
Store == INSTANCE NvStore WITH
  None <- Blank,
  NoCall <- [id |-> Zeroed, val |-> Blank],
  store <- Stored,
  mode <- Mode,
  call <- [id |-> op.id, val |-> op.val]
ImplementsStore == Store!Spec

(* Between two calls, and after every start, what is kept in RAM agrees with
   the flash and nothing is left of an interrupted write or compaction:
   osal_nv_read finds what the flash holds; exactly the reserve page is
   erased; the counters by which pages are chosen are right; and a cached
   place is the item's, though compaction moves it (deleting an item leaves
   its place in the cache). *)
ReadsStored ==
  \A id \in Id :
    IF FindItem(id) = NoPlace THEN Stored[id] = Blank
    ELSE ValueAt(FindItem(id)) = Stored[id]
ReserveKept == ErasedPages = {res} /\ flash[res] = Erased /\ OldPages = {}
SpaceCounted == \A p \in Page : off[p] = Used(p) /\ lost[p] = Gone(p)
HotSound ==
  \A id \in HotIds : hot[id] \notin {NoPlace, FindItem(id)} => FindItem(id) = NoPlace
Settled == pc = "idle" => ReadsStored /\ ReserveKept /\ SpaceCounted /\ HotSound

(* The page that initNV takes for the one whose erasure was interrupted has
   only duplicates of what is elsewhere, as its comment has it. *)
GuessSound ==
  pc = "reserve" =>
    \A i \in 1..Len(flash[MostLost].items) : ItemAt(MostLost, i).id = Zeroed

(* A call that returns has stored the value. *)
Durable ==
  [][pc # "idle" /\ pc' = "idle" /\ op.kind \in {"create", "write"}
       => Stored'[op.id] = op.val]_vars

(* With power, every call and every start comes to an end. *)
Ends == <>[][~PowerFails /\ ~EraseFails]_vars => []<>(pc = "idle")
=============================================================================
