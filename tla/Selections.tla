----------------------------- MODULE Selections -----------------------------
(***************************************************************************)
(* The elements of a sequence that are in a set, in their order.  It is    *)
(* SelectSeq with a set for the test, defined so that theorems can be      *)
(* proved about it.                                                        *)
(***************************************************************************)
EXTENDS Naturals, Sequences

Selecting(s, A) ==
  LET f[n \in 0..Len(s)] ==
        IF n = 0 THEN <<>> ELSE IF s[n] \in A THEN Append(f[n - 1], s[n]) ELSE f[n - 1]
  IN  f

SelectIn(s, A) == Selecting(s, A)[Len(s)]
=============================================================================
