----------------------------- MODULE OsalMemory -----------------------------
(***************************************************************************)
(* The heap of OSAL (osal/common/OSAL_Memory.c): blocks that lie end to    *)
(* end, each headed by its length and whether it is in use.  An allocation *)
(* walks over them, merging free neighbours until one is long enough; a    *)
(* free only clears the mark.                                              *)
(*                                                                         *)
(* Both are critical sections, so the steps of a walk follow each other.   *)
(* A step is one turn of the loop.  Lengths are in bytes and count the     *)
(* header.                                                                 *)
(***************************************************************************)
EXTENDS Naturals

CONSTANTS
  HDRSZ,          \* OSALMEM_HDRSZ
  MIN_BLKSZ,      \* OSALMEM_MIN_BLKSZ
  SMALL_BLKSZ,    \* OSALMEM_SMALL_BLKSZ
  BUCKET,         \* OSALMEM_SMALLBLK_BUCKET
  BIGBLK_SZ,      \* OSALMEM_BIGBLK_SZ
  Request         \* the sizes that are asked for

(* The header of the target is two bytes, and alignment is to one byte.    *)
ASSUME HeapAssumption ==
  /\ HDRSZ \in Nat \ {0} /\ MIN_BLKSZ \in Nat /\ MIN_BLKSZ > HDRSZ
  /\ SMALL_BLKSZ \in Nat
  /\ BUCKET \in Nat /\ BUCKET > HDRSZ
  /\ BIGBLK_SZ \in Nat /\ BIGBLK_SZ > HDRSZ
  /\ Request \subseteq Nat \ {0}

VARIABLES
  blk,            \* the headers, by their places in theHeap
  ff1,            \* the first free block
  osalMemStat,    \* osal_mem_kick has been called
  call            \* the allocation in progress

vars == <<blk, ff1, osalMemStat, call>>

Block(l, u) == [len |-> l, inUse |-> u]

Blocker == BUCKET                 \* theHeap[OSALMEM_SMALLBLK_HDRCNT]
Wilderness == BUCKET + HDRSZ      \* theHeap[OSALMEM_BIGBLK_IDX]
End == Wilderness + BIGBLK_SZ     \* theHeap[OSALMEM_LASTBLK_IDX]

Init ==
  /\ blk = [a \in {0, Blocker, Wilderness} |->
              CASE a = 0 -> Block(BUCKET, FALSE)
                [] a = Blocker -> Block(HDRSZ, TRUE)
                [] OTHER -> Block(BIGBLK_SZ, FALSE)]
  /\ ff1 = 0
  /\ osalMemStat = FALSE
  /\ call = [pc |-> "none", kick |-> FALSE, size |-> 0, hdr |-> 0, prev |-> 0,
             coal |-> FALSE]

-----------------------------------------------------------------------------
(* The walk. *)

(* Small allocations, and all of them until the tasks are initialised,     *)
(* begin in the small-block bucket.                                        *)
Starts(size) == IF ~osalMemStat \/ size <= SMALL_BLKSZ THEN ff1 ELSE Wilderness

Enter(n, kick) ==
  /\ call.pc = "none"
  /\ call' = [pc |-> "walk", kick |-> kick, size |-> n + HDRSZ,
              hdr |-> Starts(n + HDRSZ), prev |-> 0, coal |-> FALSE]
  /\ UNCHANGED <<blk, ff1, osalMemStat>>

Alloc == \E n \in Request : Enter(n, FALSE)

KickEnter == ~osalMemStat /\ Enter(1, TRUE)

(* hdr goes to the next block, or the walk ends without a block. *)
Forward(next, prev, coal) ==
  call' = IF next = End
          THEN [call EXCEPT !.pc = "null"]
          ELSE [call EXCEPT !.hdr = next, !.prev = prev, !.coal = coal]

Found(a) == call' = [call EXCEPT !.pc = "found", !.hdr = a]

WalkNothing ==
  /\ call.pc = "walk" /\ call.hdr = End
  /\ call' = [call EXCEPT !.pc = "null"]
  /\ UNCHANGED <<blk, ff1, osalMemStat>>

(* Mutant: a block in use does not end a run of free ones. *)
UsedRunsOn ==
  /\ call.pc = "walk" /\ call.hdr # End
  /\ blk[call.hdr].inUse
  /\ Forward(call.hdr + blk[call.hdr].len, call.prev, call.coal)
  /\ UNCHANGED <<blk, ff1, osalMemStat>>

WalkUsed ==
  /\ call.pc = "walk" /\ call.hdr # End
  /\ blk[call.hdr].inUse
  /\ Forward(call.hdr + blk[call.hdr].len, call.prev, FALSE)
  /\ UNCHANGED <<blk, ff1, osalMemStat>>

(* Mutant: runs are never begun. *)
FreeAlone ==
  /\ call.pc = "walk" /\ call.hdr # End
  /\ ~blk[call.hdr].inUse /\ ~call.coal
  /\ IF blk[call.hdr].len >= call.size
     THEN Found(call.hdr)
     ELSE Forward(call.hdr + blk[call.hdr].len, call.hdr, FALSE)
  /\ UNCHANGED <<blk, ff1, osalMemStat>>

WalkFree ==
  /\ call.pc = "walk" /\ call.hdr # End
  /\ ~blk[call.hdr].inUse /\ ~call.coal
  /\ IF blk[call.hdr].len >= call.size
     THEN Found(call.hdr)
     ELSE Forward(call.hdr + blk[call.hdr].len, call.hdr, TRUE)
  /\ UNCHANGED <<blk, ff1, osalMemStat>>

Merged(a, b) ==
  [x \in DOMAIN blk \ {b} |->
     IF x = a THEN Block(blk[a].len + blk[b].len, FALSE) ELSE blk[x]]

WalkMerge ==
  /\ call.pc = "walk" /\ call.hdr # End
  /\ ~blk[call.hdr].inUse /\ call.coal
  /\ blk' = Merged(call.prev, call.hdr)
  /\ IF blk[call.prev].len + blk[call.hdr].len >= call.size
     THEN Found(call.prev)
     ELSE Forward(call.hdr + blk[call.hdr].len, call.prev, TRUE)
  /\ UNCHANGED <<ff1, osalMemStat>>

-----------------------------------------------------------------------------
(* The end of an allocation. *)

Splits(a, size) == blk[a].len - size >= MIN_BLKSZ

(* The block at a with size bytes of it in use, or all of it. *)
Taken(a, size, inUse) ==
  IF Splits(a, size)
  THEN [x \in DOMAIN blk \cup {a + size} |->
          IF x = a THEN Block(size, inUse)
          ELSE IF x = a + size THEN Block(blk[a].len - size, FALSE)
          ELSE blk[x]]
  ELSE [blk EXCEPT ![a] = Block(blk[a].len, inUse)]

Length(a, size) == IF Splits(a, size) THEN size ELSE blk[a].len

(* The first free block is behind the one that was it. *)
NextFf1(a, size) == IF osalMemStat /\ ff1 = a THEN a + Length(a, size) ELSE ff1

Return == call' = [call EXCEPT !.pc = "none", !.kick = FALSE]

AllocDone ==
  /\ call.pc = "found" /\ ~call.kick
  /\ blk' = Taken(call.hdr, call.size, TRUE)
  /\ ff1' = NextFf1(call.hdr, call.size)
  /\ Return
  /\ UNCHANGED osalMemStat

AllocNull ==
  /\ call.pc = "null" /\ ~call.kick
  /\ Return
  /\ UNCHANGED <<blk, ff1, osalMemStat>>

(* osal_mem_kick frees what it has been given: it only wants to know where *)
(* the first free block is.  It runs before interrupts are enabled, and    *)
(* asserts that there is one.                                              *)
KickDone ==
  /\ call.pc = "found" /\ call.kick
  /\ blk' = Taken(call.hdr, call.size, FALSE)
  /\ ff1' = call.hdr
  /\ osalMemStat' = TRUE
  /\ Return

(* The assertion stops the device for good. *)
KickFailed == call.pc = "null" /\ call.kick /\ UNCHANGED vars

(* Mutant: a block freed before ff1 is not the first free one. *)
LowerStays(a) == ff1

Lower(a) == IF ff1 > a THEN a ELSE ff1

(* osal_mem_free: a caller frees what it was given, once. *)
Free ==
  /\ call.pc = "none"
  /\ \E a \in DOMAIN blk \ {Blocker} :
       /\ blk[a].inUse
       /\ blk' = [blk EXCEPT ![a] = Block(blk[a].len, FALSE)]
       /\ ff1' = Lower(a)
  /\ UNCHANGED <<osalMemStat, call>>

Walk == WalkNothing \/ WalkUsed \/ WalkFree \/ WalkMerge

Next == Alloc \/ KickEnter \/ Walk \/ AllocDone \/ AllocNull \/ KickDone \/ KickFailed
        \/ Free

Spec == Init /\ [][Next]_vars

-----------------------------------------------------------------------------
(* Types: headers at places in the heap, with positive lengths. *)
TypeOK ==
  /\ DOMAIN blk \subseteq 0..(End - 1)
  /\ \A a \in DOMAIN blk : blk[a] \in [len : Nat \ {0}, inUse : BOOLEAN]
  /\ ff1 \in DOMAIN blk \cup {End}
  /\ osalMemStat \in BOOLEAN
  /\ call \in [pc : {"none", "walk", "found", "null"}, kick : BOOLEAN, size : Nat,
               hdr : 0..End, prev : 0..End, coal : BOOLEAN]

Behind(a) == a + blk[a].len

(* The blocks lie end to end from the first byte of the heap to the last:  *)
(* no two overlap and no byte is lost between them.                        *)
Tiles ==
  /\ {0, Blocker, Wilderness} \subseteq DOMAIN blk
  /\ \A a \in DOMAIN blk : Behind(a) \in DOMAIN blk \cup {End}
  /\ \A a, b \in DOMAIN blk : a < b => Behind(a) <= b

(* No free block lies before ff1: small allocations find every one of      *)
(* them, and a walk from the wilderness never swallows the block that ff1  *)
(* points to, which would leave ff1 inside somebody's data.                *)
FirstFree == \A a \in DOMAIN blk : a < ff1 => blk[a].inUse

(* The block between the small-block bucket and the wilderness is never    *)
(* part of another one.                                                    *)
Blocked == blk[Blocker] = Block(HDRSZ, TRUE)

HeapSound == Tiles /\ FirstFree /\ Blocked

(* An allocation fails only if, behind the place where it began to look,   *)
(* no run of free blocks is long enough: the walk leaves none unmerged.    *)
NullMeansFull ==
  call.pc = "null" =>
    \A a \in DOMAIN blk :
      a >= Starts(call.size) /\ ~blk[a].inUse =>
        /\ blk[a].len < call.size
        /\ Behind(a) = End \/ blk[Behind(a)].inUse

(* The pieces that callers hold. *)
Held ==
  {[from |-> a + HDRSZ, to |-> Behind(a)] :
     a \in {x \in DOMAIN blk : blk[x].inUse /\ x # Blocker}}

Heap == INSTANCE Allocator WITH Size <- End, held <- Held

(* Allocations and frees are those of a heap: what one caller holds, no    *)
(* other is given, and merging and splitting never touch it.               *)
ImplementsAllocator == Heap!Spec
=============================================================================
