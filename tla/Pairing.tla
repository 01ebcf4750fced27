------------------------------ MODULE Pairing ------------------------------
(***************************************************************************)
(* Pairing super buttons with the devices they control: the button         *)
(* (SuperButton_DeviceDataCtrl.c), the connector, which is the coordinator *)
(* (ConnectorApp.c), and the device (EndnodeApp.c).                        *)
(*                                                                         *)
(* A button in pairing mode is listed by the connector, and a device whose *)
(* key is pressed is passed on to all listed buttons.  What a button is    *)
(* bound to it keeps in RAM to send to and in NV to ask for again: after a *)
(* restart the host behind the connector's serial line looks the stored    *)
(* devices up.  Messages may be lost and overtake each other.              *)
(***************************************************************************)
EXTENDS Naturals, Functions, FiniteSetsExt, SequencesExt

CONSTANTS
  Button, Device,
  Addr,       \* the short addresses that the network hands out
  Movers,     \* the nodes that may come back with another address
  MaxNet,     \* bound: the messages in flight
  MaxList     \* bound: the entries of a button's list

ASSUME PairingAssumption ==
  /\ Button \cap Device = {} /\ Movers \subseteq Button \cup Device
  /\ {MaxNet, MaxList} \subseteq Nat \ {0}
  /\ \E f \in [Button \cup Device -> Addr] : IsInjective(f)

Unit == Button \cup Device
Connector == "connector"       \* COORDINATOR_ADDR, which is no member of Addr
Endless == 127                 \* TIMER_LOOP_EXECUTION

VARIABLES
  addr,    \* the short addresses
  net,     \* the messages in flight
  btn,     \* per button: isAllowPair, whether coordAddr is known, bindList
  ev,      \* per button: its user event SUPERBUTTON_PAIR_EVT
  nv,      \* per button: the devices stored from ZCD_NV_SUPERBUTTON_BINDHEAD
  pairs,   \* the connector's pairList
  cev,     \* the connector's user event BINDSRCBTN_CLEAR_EVT
  asked    \* per button: the devices the host looks up for it

pairingVars == <<addr, net, btn, ev, nv, pairs, cev, asked>>

Message(op, to, macs, a) == [op |-> op, to |-> to, macs |-> macs, addr |-> a]

(* What is sent in a step may be lost on the way, all or in part. *)
Deliver(kept, sent) ==
  \E s \in SUBSET sent :
    /\ Cardinality(kept \cup s) <= MaxNet
    /\ net' = kept \cup s

-----------------------------------------------------------------------------
(* A user event armed with TIMER_ONE_EXECUTION (api_events.c). *)

NoEvent == [cnt |-> 0, short |-> FALSE, cb |-> FALSE, bit |-> FALSE, timer |-> FALSE]

(* update_user_event: TIMER_NO_LIMIT sets the event and leaves the timer. *)
Update(e, short, cb) ==
  [cnt |-> 1, short |-> short, cb |-> cb, bit |-> e.bit \/ short,
   timer |-> e.timer \/ ~short]

(* process_event, with a count of 7 bits. *)
Count(c) == IF c \in {0, Endless} THEN Endless ELSE c - 1

Fired(e) ==
  LET c == Count(e.cnt)
  IN  [e EXCEPT !.cnt = c, !.bit = c > 0 /\ e.short, !.timer = @ \/ (c > 0 /\ ~e.short)]

Expired(e) == [e EXCEPT !.timer = FALSE, !.bit = TRUE]

PairingInit ==
  /\ addr = CHOOSE f \in [Unit -> Addr] : IsInjective(f)
  /\ net = {}
  /\ btn = [b \in Button |-> [allow |-> FALSE, coord |-> FALSE, list |-> <<>>]]
  /\ ev = [b \in Button |-> NoEvent]
  /\ nv = [b \in Button |-> {}]
  /\ pairs = <<>> /\ cev = NoEvent
  /\ asked = [b \in Button |-> {}]

-----------------------------------------------------------------------------
(* The button *)

Configuration(b, a) == Message("cfg", Connector, {b} \cup nv[b], a)

(* HalStatesInit: on joining, the button reports what it has stored. *)
Rejoin(n) ==
  /\ n \in Movers
  /\ \E a \in Addr \ {addr[k] : k \in Unit} :
       /\ addr' = [addr EXCEPT ![n] = a]
       /\ Deliver(net, IF n \in Button THEN {Configuration(n, a)} ELSE {})
  /\ UNCHANGED <<btn, ev, nv, pairs, cev, asked>>

(* The RAM is lost; then the button joins. *)
Restart(b) ==
  /\ btn' = [btn EXCEPT ![b] = [allow |-> FALSE, coord |-> FALSE, list |-> <<>>]]
  /\ ev' = [ev EXCEPT ![b] = NoEvent]
  /\ Deliver(net, {Configuration(b, addr[b])})
  /\ UNCHANGED <<addr, nv, pairs, cev, asked>>

(* Mutant: the pairing mode is entered without a time-out. *)
PairKeyUntimed(b) ==
  /\ btn' = [btn EXCEPT ![b].allow = ~@]
  /\ IF btn[b].allow
     THEN Deliver(net, {}) /\ ev' = [ev EXCEPT ![b] = Update(@, TRUE, FALSE)]
     ELSE /\ Deliver(net, {Message("pair", Connector, {b}, addr[b])})
          /\ UNCHANGED ev
  /\ UNCHANGED <<addr, nv, pairs, cev, asked>>

(* SB_OPT_PAIR: three long pushes enter the pairing mode, or leave it. *)
PairKey(b) ==
  /\ btn' = [btn EXCEPT ![b].allow = ~@]
  /\ IF btn[b].allow
     THEN Deliver(net, {}) /\ ev' = [ev EXCEPT ![b] = Update(@, TRUE, FALSE)]
     ELSE /\ Deliver(net, {Message("pair", Connector, {b}, addr[b])})
          /\ ev' = [ev EXCEPT ![b] = Update(@, FALSE, TRUE)]
  /\ UNCHANGED <<addr, nv, pairs, cev, asked>>

(* SuperButton_KeyHandler: a short push.  An entry made under another        *)
(* coordinator, or before the coordinator was known, is passed over.         *)
Push(b) ==
  /\ LET Used == {e \in ToSet(btn[b].list) : e.coord = btn[b].coord}
     IN  Deliver(net, {Message("ctrl", e.dst, {}, addr[b]) : e \in {x \in Used : ~x.remote}}
                   \cup {Message("remote", Connector, {e.dst}, addr[b]) :
                           e \in {x \in Used : x.remote}})
  /\ UNCHANGED <<addr, btn, ev, nv, pairs, cev, asked>>

(* Five long pushes: nothing is done by a button without entries in RAM. *)
ResetKey(b) ==
  /\ IF btn[b].list = <<>> THEN UNCHANGED <<btn, nv>>
     ELSE /\ btn' = [btn EXCEPT ![b].list = <<>>]
          /\ nv' = [nv EXCEPT ![b] = {}]
  /\ UNCHANGED <<addr, net, ev, pairs, cev, asked>>

(* SuperButton_PairCB. *)
PairCB(b) ==
  /\ ev[b].bit
  /\ ev' = [ev EXCEPT ![b] = Fired(@)]
  /\ btn' = [btn EXCEPT ![b].allow = @ /\ ~ev[b].cb]
  /\ UNCHANGED <<addr, net, nv, pairs, cev, asked>>

Expire(b) ==
  /\ ev[b].timer
  /\ ev' = [ev EXCEPT ![b] = Expired(@)]
  /\ UNCHANGED <<addr, net, btn, nv, pairs, cev, asked>>

(* An entry is appended unless one before the last has its destination. *)
Same(e, f) == e.remote = f.remote /\ e.dst = f.dst
Listed(list, e) == \E i \in 1..(Len(list) - 1) : Same(list[i], e)

(* Mutant: the device is not stored. *)
Unstored(b, d) == nv
Stored(b, d) == [nv EXCEPT ![b] = @ \cup {d}]          \* write_nv_bindsrc

Bind(b, d, e) ==
  /\ Len(btn[b].list) < MaxList
  /\ nv' = Stored(b, d)
  /\ btn' = IF Listed(btn[b].list, e) THEN btn
            ELSE [btn EXCEPT ![b].list = Append(@, e)]

Entry(m, remote, coord) ==
  [coord |-> coord, remote |-> remote,
   dst |-> IF remote THEN CHOOSE d \in m.macs : TRUE ELSE m.addr]

(* set_device_data. *)
ButtonReceives(b, m) ==
  \/ /\ m.op = "cfgr"
     /\ btn' = [btn EXCEPT ![b].coord = TRUE]
     /\ UNCHANGED <<ev, nv>>
  \/ /\ m.op = "pairreg" /\ btn[b].allow
     /\ \E d \in m.macs : Bind(b, d, Entry(m, FALSE, btn[b].coord))
     /\ ev' = IF Listed(btn[b].list, Entry(m, FALSE, btn[b].coord)) THEN ev
              ELSE [ev EXCEPT ![b] = Update(@, TRUE, TRUE)]
  \/ /\ m.op = "match"
     /\ \E d \in m.macs : Bind(b, d, Entry(m, ~btn[b].coord, TRUE))
     /\ UNCHANGED ev
  \/ /\ (m.op = "pairreg" /\ ~btn[b].allow) \/ m.op \in {"ctrl", "devreg"}
     /\ UNCHANGED <<btn, ev, nv>>

-----------------------------------------------------------------------------
(* The device *)

(* Three long pushes: the device registers with the listed buttons. *)
DeviceKey(d) ==
  /\ Deliver(net, {Message("pairreg", Connector, {d}, addr[d])})
  /\ UNCHANGED <<addr, btn, ev, nv, pairs, cev, asked>>

(* DataBind_Ctrl: SB_OPT_DEVREG is answered; a command switches the device, *)
(* and it ignores what a button would take.                                 *)
DeviceReceives(d, m) ==
  Deliver(net \ {m},
       IF m.op = "devreg" THEN {Message("match", Connector, {d}, addr[d])} ELSE {})

ToUnit(m) ==
  /\ m \in net /\ m.to \in Addr
  /\ \/ \E b \in Button : addr[b] = m.to /\ ButtonReceives(b, m) /\ Deliver(net \ {m}, {})
     \/ /\ \/ \E d \in Device : addr[d] = m.to /\ DeviceReceives(d, m)
           \/ m.to \notin {addr[n] : n \in Unit} /\ Deliver(net \ {m}, {})
        /\ UNCHANGED <<btn, ev, nv>>
  /\ UNCHANGED <<addr, pairs, cev, asked>>

-----------------------------------------------------------------------------
(* The connector *)

(* SB_OPT_CFG: the button is answered, and the host learns what it stores. *)
Configure(m) ==
  /\ m \in net /\ m.op = "cfg"
  /\ Deliver(net \ {m}, {Message("cfgr", m.addr, {}, Connector)})
  /\ asked' = [b \in Button |-> IF b \in m.macs THEN m.macs \ Button ELSE asked[b]]
  /\ UNCHANGED <<addr, btn, ev, nv, pairs, cev>>

Positions(mac) == {i \in 1..Len(pairs) : pairs[i].mac = mac}

(* SB_OPT_PAIR: the button is listed, with the address it has now. *)
Pair(m) ==
  /\ m \in net /\ m.op = "pair"
  /\ \E b \in m.macs :
       LET p == [mac |-> b, nwk |-> m.addr]
       IN  pairs' = IF Positions(b) = {} THEN Append(pairs, p)
                    ELSE [i \in 1..Len(pairs) |->
                            IF i = Min(Positions(b)) THEN p ELSE pairs[i]]
  /\ cev' = Update(cev, FALSE, TRUE)
  /\ Deliver(net \ {m}, {})
  /\ UNCHANGED <<addr, btn, ev, nv, asked>>

(* SB_OPT_PAIRREG: the device is passed on, then the list is cleared. *)
PairReg(m) ==
  /\ m \in net /\ m.op = "pairreg" /\ m.to = Connector
  /\ Deliver(net \ {m}, {Message("pairreg", p.nwk, m.macs, m.addr) : p \in ToSet(pairs)})
  /\ cev' = IF pairs = <<>> THEN cev ELSE Update(cev, TRUE, TRUE)
  /\ UNCHANGED <<addr, btn, ev, nv, pairs, asked>>

(* Mutant: the event that clears the list is not kept for its entry. *)
ClearForgets ==
  /\ cev.bit
  /\ cev' = [cev EXCEPT !.bit = FALSE, !.cnt = 0]
  /\ UNCHANGED <<addr, net, btn, ev, nv, pairs, asked>>

(* ConnectorApp_BindSrcClearCB; a spent entry, which is not resident, is    *)
(* deleted instead.                                                         *)
Clear ==
  /\ cev.bit
  /\ IF cev.cnt > 0 THEN cev' = Fired(cev) /\ pairs' = <<>>
     ELSE cev' = [cev EXCEPT !.bit = FALSE] /\ UNCHANGED pairs
  /\ UNCHANGED <<addr, net, btn, ev, nv, asked>>

ClearExpires ==
  /\ cev.timer
  /\ cev' = Expired(cev)
  /\ UNCHANGED <<addr, net, btn, ev, nv, pairs, asked>>

-----------------------------------------------------------------------------
(* The host *)

(* It asks for a device that a button has stored ... *)
Ask(b) ==
  /\ \E d \in asked[b] : Deliver(net, {Message("devreg", addr[d], {}, Connector)})
  /\ UNCHANGED <<addr, btn, ev, nv, pairs, cev, asked>>

(* ... and passes the answer on to the buttons that wait for it. *)
Match(m) ==
  /\ m \in net /\ m.op = "match" /\ m.to = Connector
  /\ LET Waiting == {b \in Button : m.macs \subseteq asked[b]}
     IN  /\ Deliver(net \ {m}, {Message("match", addr[b], m.macs, m.addr) : b \in Waiting})
         /\ asked' = [b \in Button |-> asked[b] \ m.macs]
  /\ UNCHANGED <<addr, btn, ev, nv, pairs, cev>>

(* A command for a device of another coordinator goes to the host. *)
Remote(m) ==
  /\ m \in net /\ m.op = "remote"
  /\ Deliver(net \ {m}, {})
  /\ UNCHANGED <<addr, btn, ev, nv, pairs, cev, asked>>

-----------------------------------------------------------------------------
Keys ==
  \/ \E b \in Button : PairKey(b) \/ Push(b) \/ ResetKey(b) \/ Restart(b)
  \/ \E d \in Device : DeviceKey(d)
  \/ \E n \in Unit : Rejoin(n)

PairingNext ==
  \/ Keys
  \/ \E b \in Button : PairCB(b) \/ Expire(b) \/ Ask(b)
  \/ \E m \in net : ToUnit(m) \/ Configure(m) \/ Pair(m) \/ PairReg(m) \/ Match(m)
                    \/ Remote(m)
  \/ Clear \/ ClearExpires

(* The units' schedulers and timers go on; nobody need press a key, and no  *)
(* message need arrive.                                                     *)
UnitFairness ==
  /\ \A b \in Button : WF_pairingVars(PairCB(b)) /\ WF_pairingVars(Expire(b))
  /\ WF_pairingVars(Clear) /\ WF_pairingVars(ClearExpires)

PairingSpec == PairingInit /\ [][PairingNext]_pairingVars /\ UnitFairness

-----------------------------------------------------------------------------
EventState == [cnt : {0, 1, Endless}, short : BOOLEAN, cb : BOOLEAN,
               bit : BOOLEAN, timer : BOOLEAN]

Packet == [op : {"cfg", "cfgr", "pair", "pairreg", "devreg", "match", "ctrl", "remote"},
           to : Addr \cup {Connector}, macs : SUBSET Unit, addr : Addr \cup {Connector}]

ListEntry == [coord : BOOLEAN, remote : {TRUE}, dst : Device]
               \cup [coord : BOOLEAN, remote : {FALSE}, dst : Addr]

PairingTypeOK ==
  /\ addr \in [Unit -> Addr] /\ IsInjective(addr)
  /\ net \subseteq Packet
  /\ btn \in [Button -> [allow : BOOLEAN, coord : BOOLEAN, list : Seq(ListEntry)]]
  /\ ev \in [Button -> EventState]
  /\ nv \in [Button -> SUBSET Device] /\ asked \in [Button -> SUBSET Device]
  /\ pairs \in Seq([mac : Button, nwk : Addr]) /\ cev \in EventState

(* The connector never keeps a button listed without an end: while the     *)
(* list holds one, its clearing is timed or due, and the entry of the      *)
(* event has an execution left, whatever was armed and fired before.       *)
ListingEnds ==
  pairs # <<>> => cev.cb /\ cev.cnt > 0 /\ (cev.timer \/ cev.bit)

(* The pairing mode ends, though its event is re-armed, switched to        *)
(* immediate and left without a callback by other keys and messages.       *)
PairingEnds == \A b \in Button : btn[b].allow ~> ~btn[b].allow

(* What a button sends to it can ask for again after a restart: there are  *)
(* as many devices stored as the list has destinations at most, and those  *)
(* of the other coordinator are stored by name.                            *)
Destinations(b) == {e.dst : e \in ToSet(btn[b].list)}
BoundIsStored ==
  \A b \in Button :
    /\ btn[b].list # <<>> => nv[b] # {}
    /\ \A e \in ToSet(btn[b].list) : e.remote => e.dst \in nv[b]
    /\ Movers = {} =>
         \A e \in ToSet(btn[b].list) :
           ~e.remote => \E d \in nv[b] : addr[d] = e.dst
=============================================================================
