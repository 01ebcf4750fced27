---------------------------- MODULE EndDeviceBind ----------------------------
(***************************************************************************)
(* The end device bind of the coordinator (ZDObject.c): two devices ask    *)
(* for it within a time, and for every cluster that one of them sends and  *)
(* the other receives the coordinator has the sender remove its binding    *)
(* or, if it had none, make one.  The binding tables of the devices are    *)
(* sets here; BindTable shows how they are kept.  Messages may be lost and *)
(* overtake each other.  Allocations succeed.                              *)
(***************************************************************************)
EXTENDS Naturals, Sequences, SequencesExt, FiniteSets

CONSTANTS
  EndDevice,
  ClusterId,
  Out,          \* [EndDevice -> Seq(ClusterId)], the clusters a device sends
  In,           \* [EndDevice -> Seq(ClusterId)], and those it receives
  TransMod,     \* transaction numbers are uint8
  MaxRequests,  \* bound: the end device bind requests on their way at a time
  NoMatch       \* matchED == NULL

(* The clusters of the first list that are in the second as well *)
CommonClusters(out, in) == SelectSeq(out, LAMBDA c : c \in ToSet(in))

Transaction == 0 .. TransMod - 1

Match ==
  [ed1 : EndDevice, ed2 : EndDevice, state : {"wait", "binds"},
   sending : {"bind_req", "unbind_req"}, transSeq : Transaction,
   ed1Matched : Seq(ClusterId), ed2Matched : Seq(ClusterId)]

(* No list of a device has a cluster twice, so that none is matched twice. *)
ASSUME EndDeviceBindAssumption ==
  /\ Out \in [EndDevice -> Seq(ClusterId)] /\ In \in [EndDevice -> Seq(ClusterId)]
  /\ \A d, e \in EndDevice :
       LET s == CommonClusters(Out[d], In[e])
       IN  s \in Seq(ClusterId) /\ IsInjective(s)
  /\ TransMod \in Nat \ {0}
  /\ NoMatch \notin Match

VARIABLES
  matchED,      \* the match in progress, NoMatch if there is none
  timer,        \* does the time-out of APS_SetEndDeviceBindTimeout run?
  transID,      \* ZDP_TransID of the coordinator
  net,          \* the messages on their way
  bound,        \* what a device's binding table holds: <<cluster, destination>>
  told,         \* the status in the last responses to the requesting devices
  start         \* history: the bindings this match is about and which existed

matchVars == <<matchED, timer, transID, net, bound, told, start>>

Request == [type : {"edbind_req"}, src : EndDevice]
Order == [type : {"bind_req", "unbind_req"}, to : EndDevice, cluster : ClusterId,
          dst : EndDevice, seq : Transaction]
Answer ==
  [type : {"bind_rsp"}, seq : Transaction, status : {"success", "full"}]
    \cup [type : {"unbind_rsp"}, seq : Transaction, status : {"success", "none"}]

(* A binding as its source, its cluster and its destination *)
Bindings(m) ==
  {<<m.ed1, c, m.ed2>> : c \in ToSet(m.ed1Matched)}
    \cup {<<m.ed2, c, m.ed1>> : c \in ToSet(m.ed2Matched)}
Exists(b) == <<b[2], b[3]>> \in bound[b[1]]

NoStart == [about |-> {}, held |-> {}, clean |-> TRUE]

MatchInit ==
  /\ matchED = NoMatch
  /\ timer = FALSE
  /\ transID = 0
  /\ net = {}
  /\ bound \in [EndDevice -> {{}}]
  /\ told = "nothing"
  /\ start = NoStart

-----------------------------------------------------------------------------
(* The coordinator.  `rest` are the messages still on their way. *)

(* Both requesters are told and the memory of the match is released. *)
End(status, rest) ==
  /\ matchED' = NoMatch
  /\ told' = status
  /\ net' = rest
  /\ UNCHANGED transID

(* The next unbind or bind goes to its source.  No message outlives a      *)
(* whole round of transaction numbers.                                     *)
SendUntimed(m, src, cluster, dst, rest) ==     \* mutant: no time-out of the answer
  /\ matchED' = [m EXCEPT !.transSeq = transID]
  /\ transID' = (transID + 1) % TransMod
  /\ net' = {n \in rest : n.type = "edbind_req" \/ n.seq # transID}
              \cup {[type |-> m.sending, to |-> src, cluster |-> cluster, dst |-> dst,
                     seq |-> transID]}
  /\ timer' = FALSE
  /\ UNCHANGED told

SendOrder(m, src, cluster, dst, rest) ==
  /\ matchED' = [m EXCEPT !.transSeq = transID]
  /\ transID' = (transID + 1) % TransMod
  /\ net' = {n \in rest : n.type = "edbind_req" \/ n.seq # transID}
              \cup {[type |-> m.sending, to |-> src, cluster |-> cluster, dst |-> dst,
                     seq |-> transID]}
  /\ timer' = TRUE
  /\ UNCHANGED told

(* A binding that is removed, or made, is done with. *)
Moved(m) ==
  IF m.ed1Matched # <<>> THEN [m EXCEPT !.ed1Matched = Front(@)]
  ELSE IF m.ed2Matched # <<>> THEN [m EXCEPT !.ed2Matched = Front(@)]
  ELSE m

SendNext(m, rest) ==
  \/ /\ m.ed1Matched # <<>>
     /\ SendOrder(m, m.ed1, Last(m.ed1Matched), m.ed2, rest)
  \/ /\ m.ed1Matched = <<>> /\ m.ed2Matched # <<>>
     /\ SendOrder(m, m.ed2, Last(m.ed2Matched), m.ed1, rest)
  \/ /\ m.ed1Matched = <<>> /\ m.ed2Matched = <<>>
     /\ End("success", rest)
     /\ timer' = FALSE

(* ZDMatchSendState with an unbind response: what was not bound is bound. *)
UnbindResponse(status, rest) ==
  SendNext(IF status = "success" THEN Moved([matchED EXCEPT !.sending = "unbind_req"])
           ELSE [matchED EXCEPT !.sending = "bind_req"], rest)

(* ZDMatchSendState with a bind response: a failure ends the match. *)
BindResponse(status, rest) ==
  IF status = "success"
  THEN SendNext(Moved([matchED EXCEPT !.sending = "unbind_req"]), rest)
  ELSE End(status, rest) /\ timer' = FALSE

(* A response with another transaction number is ignored; while the first  *)
(* request waits the number is 0.                                          *)
AnyNumber(seq) == seq \in Transaction        \* mutant: not compared
Awaited(seq) == seq = matchED.transSeq

Response(n) ==
  /\ n.type \in {"bind_rsp", "unbind_rsp"}
  /\ \/ /\ matchED # NoMatch /\ Awaited(n.seq)
        /\ IF n.type = "unbind_rsp" THEN UnbindResponse(n.status, net \ {n})
           ELSE BindResponse(n.status, net \ {n})
     \/ /\ matchED = NoMatch \/ (matchED # NoMatch /\ ~Awaited(n.seq))
        /\ net' = net \ {n}
        /\ UNCHANGED <<matchED, timer, transID, told>>
  /\ UNCHANGED <<bound, start>>

(* ZDO_MatchEndDeviceBind: the first request waits for a second one. *)
FirstRequest(n) ==
  /\ n.type = "edbind_req" /\ matchED = NoMatch
  /\ matchED' = [ed1 |-> n.src, ed2 |-> n.src, state |-> "wait",
                 sending |-> "unbind_req", transSeq |-> 0,
                 ed1Matched |-> <<>>, ed2Matched |-> <<>>]
  /\ timer' = TRUE
  /\ net' = net \ {n}
  /\ start' = NoStart
  /\ UNCHANGED <<transID, bound, told>>

(* Every later one counts as the second, whoever it comes from and however *)
(* far the match has come: it is begun anew with this device.              *)
Paired(n) ==
  [matchED EXCEPT !.ed2 = n.src, !.state = "binds", !.sending = "unbind_req",
                  !.ed1Matched = CommonClusters(Out[matchED.ed1], In[n.src]),
                  !.ed2Matched = CommonClusters(Out[n.src], In[matchED.ed1])]

SecondRequest(n) ==
  /\ n.type = "edbind_req" /\ matchED # NoMatch
  /\ LET m == Paired(n) IN
       \/ /\ Bindings(m) # {}
          /\ SendNext(m, net \ {n})
          /\ start' = [about |-> Bindings(m), held |-> {b \in Bindings(m) : Exists(b)},
                       clean |-> /\ m.ed1 # m.ed2
                                 /\ \A o \in net : o.type \notin {"bind_req", "unbind_req"}]
       \/ /\ Bindings(m) = {}      \* the time-out of the first request runs on
          /\ End("nomatch", net \ {n})
          /\ UNCHANGED <<timer, start>>
  /\ UNCHANGED bound

(* ZDO_EndDeviceBindMatchTimeoutCB *)
Timeout ==
  /\ timer
  /\ timer' = FALSE
  /\ \/ matchED # NoMatch /\ End("timeout", net)
     \/ matchED = NoMatch /\ UNCHANGED <<matchED, told, net, transID>>
  /\ UNCHANGED <<bound, start>>

-----------------------------------------------------------------------------
(* The devices and the network *)

(* CommonApp_HandleKeys: the bind key was pressed. *)
Press(d) ==
  /\ Cardinality({n \in net : n.type = "edbind_req"}) < MaxRequests
  /\ net' = net \cup {[type |-> "edbind_req", src |-> d]}
  /\ UNCHANGED <<matchED, timer, transID, bound, told, start>>

Respond(n, status) ==
  net' = (net \ {n}) \cup {[type |-> IF n.type = "bind_req" THEN "bind_rsp"
                                     ELSE "unbind_rsp",
                            seq |-> n.seq, status |-> status]}

(* ZDO_ProcessBindUnbindReq; a new binding may find the table full. *)
BindOrder(n) ==
  /\ n.type = "bind_req"
  /\ \/ /\ bound' = [bound EXCEPT ![n.to] = @ \cup {<<n.cluster, n.dst>>}]
        /\ Respond(n, "success")
     \/ /\ <<n.cluster, n.dst>> \notin bound[n.to]
        /\ Respond(n, "full")
        /\ UNCHANGED bound
  /\ UNCHANGED <<matchED, timer, transID, told, start>>

UnbindOrder(n) ==
  /\ n.type = "unbind_req"
  /\ \/ /\ <<n.cluster, n.dst>> \in bound[n.to]
        /\ bound' = [bound EXCEPT ![n.to] = @ \ {<<n.cluster, n.dst>>}]
        /\ Respond(n, "success")
     \/ /\ <<n.cluster, n.dst>> \notin bound[n.to]
        /\ Respond(n, "none")
        /\ UNCHANGED bound
  /\ UNCHANGED <<matchED, timer, transID, told, start>>

Lose(n) ==
  /\ net' = net \ {n}
  /\ UNCHANGED <<matchED, timer, transID, bound, told, start>>

Receive(n) ==
  Response(n) \/ FirstRequest(n) \/ SecondRequest(n) \/ BindOrder(n) \/ UnbindOrder(n)

MatchNext ==
  \/ \E d \in EndDevice : Press(d)
  \/ \E n \in net : Receive(n) \/ Lose(n)
  \/ Timeout

MatchSpec == MatchInit /\ [][MatchNext]_matchVars

-----------------------------------------------------------------------------
MatchTypeOK ==
  /\ matchED \in Match \cup {NoMatch}
  /\ timer \in BOOLEAN
  /\ transID \in Transaction
  /\ net \subseteq Request \cup Order \cup Answer
  /\ bound \in [EndDevice -> SUBSET (ClusterId \X EndDevice)]
  /\ told \in {"nothing", "success", "full", "timeout", "nomatch"}
  /\ LET Binding == EndDevice \X ClusterId \X EndDevice
     IN  start \in [about : SUBSET Binding, held : SUBSET Binding, clean : BOOLEAN]

(* When two devices are told that their end device bind succeeded, every   *)
(* binding it was about is there if and only if it was not there before,   *)
(* whatever responses of earlier matches, losses and further requests came *)
(* in between; but for a device matched with itself, and for orders of an  *)
(* abandoned match that were still on their way when this one began.       *)
Toggled ==
  [][matchED # NoMatch /\ matchED' = NoMatch /\ told' = "success" /\ start.clean
       => \A b \in start.about : Exists(b) # (b \in start.held)]_matchVars

(* A match never waits without its time-out running: neither the request   *)
(* that waits for a second one nor any order whose answer may be lost, nor *)
(* one that a late answer has moved on.                                    *)
MatchIsTimed == matchED # NoMatch => timer
=============================================================================
