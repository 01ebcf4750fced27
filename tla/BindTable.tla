----------------------------- MODULE BindTable ------------------------------
(***************************************************************************)
(* The binding table (BindingTable.c) and its copy in NV memory: entries   *)
(* of a source, a destination and a list of clusters, found by walking the *)
(* table from its start, saved record by record with the number of records *)
(* last.  The power may fail at any time, in a save as well.               *)
(***************************************************************************)
EXTENDS Naturals, FiniteSets

CONSTANTS
  Source, Cluster, Destination,
  Device,
  On,           \* [Device -> SUBSET Destination], the destinations of a device
  MaxEntries,   \* gNWK_MAX_BINDING_ENTRIES
  MaxClusters,  \* gMAX_BINDING_CLUSTER_IDS
  Empty         \* an entry whose source endpoint is NV_BIND_EMPTY

Entry == [src : Source, dst : Destination, clusters : SUBSET Cluster]

BindTableAssumption ==
  /\ On \in [Device -> SUBSET Destination]
  /\ MaxEntries \in Nat \ {0} /\ MaxClusters \in Nat \ {0}
  /\ Empty \notin Entry
  /\ IsFiniteSet(Cluster)

Slot == 1 .. MaxEntries

VARIABLES
  BindingTable,
  records,      \* the item ZCD_NV_BINDING_TABLE: its records,
  numRecs,      \* and its header
  answer        \* the status of the last request

vars == <<BindingTable, records, numRecs, answer>>

Init ==
  /\ BindingTable = [x \in Slot |-> Empty]
  /\ records = BindingTable
  /\ numRecs = 0
  /\ answer = "success"

-----------------------------------------------------------------------------
Used(x) == BindingTable[x] # Empty

IsFor(x, s, d) == Used(x) /\ BindingTable[x].src = s /\ BindingTable[x].dst = d

(* The walk stops at the first entry it looks for. *)
FindExisting(x, s, d) == IsFor(x, s, d) /\ \A y \in 1 .. x - 1 : ~IsFor(y, s, d)
FindEmpty(x) == ~Used(x) /\ \A y \in 1 .. x - 1 : Used(y)

(* A cluster that is in the list is left there; a full list takes no other.*)
AddCluster(x, c) ==
  /\ c \in BindingTable[x].clusters
       \/ Cardinality(BindingTable[x].clusters) < MaxClusters
  /\ BindingTable' = [BindingTable EXCEPT ![x].clusters = @ \cup {c}]

AddEntry(x, s, c, d) ==
  BindingTable' = [BindingTable EXCEPT ![x] = [src |-> s, dst |-> d, clusters |-> {c}]]

NoneFor(s, d) == \A x \in Slot : ~IsFor(x, s, d)

CanAdd(s, c, d) ==
  \/ \E x \in Slot : FindExisting(x, s, d) /\ AddCluster(x, c)
  \/ NoneFor(s, d) /\ \E x \in Slot : FindEmpty(x) /\ AddEntry(x, s, c, d)

(* bindAddEntry, with room in the address manager *)
Bind(s, c, d) ==
  /\ CanAdd(s, c, d)
  /\ answer' = "success"
  /\ UNCHANGED <<records, numRecs>>

TableFull(s, c, d) ==
  \/ \E x \in Slot : /\ FindExisting(x, s, d)
                     /\ c \notin BindingTable[x].clusters
                     /\ Cardinality(BindingTable[x].clusters) >= MaxClusters
  \/ NoneFor(s, d) /\ \A x \in Slot : Used(x)

Refuse(s, c, d) ==
  /\ TableFull(s, c, d)
  /\ answer' = "table_full"
  /\ UNCHANGED <<BindingTable, records, numRecs>>

WithoutLeft(e, c) == [e EXCEPT !.clusters = @ \ {c}]     \* mutant: the entry stays

(* An entry whose last cluster goes is removed. *)
Without(e, c) ==
  IF e.clusters \subseteq {c} THEN Empty ELSE [e EXCEPT !.clusters = @ \ {c}]

Unbind(s, c, d) ==
  /\ \/ \E x \in Slot :
          /\ FindExisting(x, s, d) /\ c \in BindingTable[x].clusters
          /\ BindingTable' = [BindingTable EXCEPT ![x] = Without(@, c)]
          /\ answer' = "success"
     \/ /\ \A x \in Slot : FindExisting(x, s, d) => c \notin BindingTable[x].clusters
        /\ answer' = "no_entry"
        /\ UNCHANGED BindingTable
  /\ UNCHANGED <<records, numRecs>>

(* bindRemoveDev, of a device that leaves *)
RemoveDev(dev) ==
  /\ BindingTable' = [x \in Slot |-> IF Used(x) /\ BindingTable[x].dst \in On[dev]
                                     THEN Empty ELSE BindingTable[x]]
  /\ UNCHANGED <<records, numRecs, answer>>

(* BindWriteNV *)
WriteNV ==
  /\ records' = BindingTable
  /\ numRecs' = Cardinality({x \in Slot : Used(x)})
  /\ UNCHANGED <<BindingTable, answer>>

(* InitBindingTable and BindRestoreFromNV: with a header of 0 no record is *)
(* read.                                                                   *)
Restored(recs, n) == IF n = 0 THEN [x \in Slot |-> Empty] ELSE recs

Restart ==
  /\ BindingTable' = Restored(records, numRecs)
  /\ UNCHANGED <<records, numRecs, answer>>

(* BindWriteNV stopped by a power failure when n records are written *)
WriteStops(n) ==
  /\ records' = [x \in Slot |-> IF x <= n THEN BindingTable[x] ELSE records[x]]
  /\ UNCHANGED <<numRecs, answer>>
  /\ BindingTable' = Restored(records', numRecs)

Next ==
  \/ \E s \in Source, c \in Cluster, d \in Destination :
       Bind(s, c, d) \/ Refuse(s, c, d) \/ Unbind(s, c, d)
  \/ \E dev \in Device : RemoveDev(dev)
  \/ WriteNV \/ Restart
  \/ \E n \in Slot : WriteStops(n)

Spec == Init /\ [][Next]_vars

-----------------------------------------------------------------------------
Table == [Slot -> Entry \cup {Empty}]

(* The bindings of a table, and whether it has a destination twice *)
BindingsOf(t) ==
  {b \in Source \X Cluster \X Destination :
     \E x \in Slot : /\ t[x] # Empty
                     /\ t[x].src = b[1] /\ b[2] \in t[x].clusters /\ t[x].dst = b[3]}
TwiceIn(t) ==
  \E x, y \in Slot : /\ x # y /\ t[x] # Empty /\ t[y] # Empty
                     /\ t[x].src = t[y].src /\ t[x].dst = t[y].dst

B == INSTANCE Bindings WITH
  held <- BindingsOf(BindingTable), twice <- TwiceIn(BindingTable),
  kept <- BindingsOf(Restored(records, numRecs)),
  keptTwice <- TwiceIn(Restored(records, numRecs))

TypeOK ==
  /\ BindingTable \in Table
  /\ records \in Table
  /\ numRecs \in 0 .. MaxEntries
  /\ answer \in {"success", "table_full", "no_entry"}

(* The table is a set of bindings that a restart finds again as saved: it  *)
(* refuses one only when it is full, an unbind removes it, and a save that *)
(* is cut short invents none.                                              *)
ImplementsBindings == B!Spec
=============================================================================
