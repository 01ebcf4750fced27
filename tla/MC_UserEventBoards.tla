------------------------- MODULE MC_UserEventBoards -------------------------
(***************************************************************************)
(* One of the boards that keep their promises, chosen at the start.        *)
(***************************************************************************)
EXTENDS MC_UserEvents

CONSTANT Chosen  \* the boards a run looks at

BoardCalls == CallsOf(Chosen)
BoardIsrCalls == IsrCallsOf(Chosen)
BoardCbCalls == CbCallsOf(Chosen)

VARIABLE board

(* What the proofs assume of a call table, for each of the boards *)
ASSUME BoardsAssumption ==
  \A b \in Chosen :
    LET calls == b.main \cup b.isr \cup {p[2] : p \in b.cb}
    IN  OneEntry(calls) /\ KeptByIsr(b.isr, calls)

BoardNext ==
  /\ \/ \E c \in board.main : MainCall(c)
     \/ \E c \in board.isr : IsrCall(c)
     \/ \E p \in board.cb : CallbackCall(p[2])
     \/ \E t \in Task, e \in Event : Expire(t, e)
     \/ \E t \in Task : Dispatch(t)
     \/ ProcessEvent
     \/ Lost
  /\ UNCHANGED board

BoardInit ==
  /\ Init
  /\ board \in Chosen

BoardSafety ==
  /\ BoardInit
  /\ [][BoardNext]_<<vars, board>>

BoardSpec ==
  /\ BoardSafety
  /\ \A t \in Task : WF_vars(Dispatch(t))
  /\ \A t \in Task, e \in Event : WF_vars(Expire(t, e))
  /\ WF_vars(ProcessEvent)
=============================================================================
