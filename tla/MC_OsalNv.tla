------------------------------ MODULE MC_OsalNv ------------------------------
(***************************************************************************)
(* Small instances of OsalNv for TLC.                                      *)
(***************************************************************************)
EXTENDS OsalNv, TLC

CONSTANTS i1, i2, i3, v1, v2

MCId == {i1, i2}
MCIds == {i1, i2, i3}
MCVal == {v1, v2}
MCHot == {i1}

(* Items of one size fill a page; of different sizes: pages are compacted that
   are not full. *)
MCEven == [id \in MCId |-> 1]
MCUneven == [id \in MCIds |-> IF id = i3 THEN 3 ELSE 1]

(* An interrupted erasure may leave either mark. *)
MCTorn == Marks

MCSymmetry == Permutations(MCVal)
=============================================================================
