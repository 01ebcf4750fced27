----------------------------- MODULE Allocator -----------------------------
(***************************************************************************)
(* What a heap promises: an allocation is given bytes that no other        *)
(* allocation holds, at least as many as it asked for, for as long as it   *)
(* keeps them.                                                             *)
(***************************************************************************)
EXTENDS Naturals

CONSTANTS Size,         \* bytes in the heap
          Request       \* the sizes that are asked for

VARIABLE held           \* the pieces in use: where they begin and end

Piece == [from : 0..Size, to : 0..Size]

Apart(p, q) == p.to <= q.from \/ q.to <= p.from

Init == held = {}

Alloc(n) ==
  \E p \in held' \ held :
    /\ p \in Piece
    /\ p.from + n <= p.to
    /\ \A q \in held : Apart(p, q)
    /\ held' = held \cup {p}

Free == \E p \in held : held' = held \ {p}

Next == Free \/ \E n \in Request : Alloc(n)

Spec == Init /\ [][Next]_held
=============================================================================
