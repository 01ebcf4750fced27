------------------------------ MODULE ByteFifo ------------------------------
(***************************************************************************)
(* What a transmitter promises: a block is taken as a whole or refused,    *)
(* and the bytes taken leave in their order, none of them lost or doubled. *)
(***************************************************************************)
EXTENDS Naturals, SequencesExt

CONSTANTS Byte, MaxBlock

VARIABLE queue      \* the bytes taken and not yet sent

Init == queue = <<>>

Accept ==
  /\ queue' \in Seq(Byte) /\ IsPrefix(queue, queue')
  /\ Len(queue') - Len(queue) \in 1..MaxBlock

Send == queue # <<>> /\ queue' = Tail(queue)

Next == Accept \/ Send

Spec == Init /\ [][Next]_queue
=============================================================================
