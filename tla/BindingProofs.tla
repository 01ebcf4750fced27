--------------------------- MODULE BindingProofs ---------------------------
(***************************************************************************)
(* Every table of BindTable is a set of bindings: the proof that BindTable *)
(* implements Bindings, for every number of entries and length of lists.   *)
(* And what EndDeviceBind promises, for every set of devices, clusters and *)
(* transaction numbers: a match is timed, and one that succeeds toggles    *)
(* the bindings it is about.                                               *)
(***************************************************************************)
EXTENDS BindTable, EndDeviceBind, FiniteSetTheorems, SeqLemmas

USE DEF Slot

(* The lists of a table are neither empty nor longer than their room. *)
ListsSound(t) ==
  \A x \in Slot : t[x] # Empty =>
    t[x].clusters # {} /\ Cardinality(t[x].clusters) <= MaxClusters

IInv == TypeOK /\ ListsSound(BindingTable) /\ ListsSound(records)

(* A set of clusters is finite, and one more is counted. *)
LEMMA Lists ==
  ASSUME BindTableAssumption, NEW S \in SUBSET Cluster
  PROVE  /\ IsFiniteSet(S) /\ Cardinality(S) \in Nat
         /\ \A c \in Cluster : Cardinality(S \cup {c}) <= Cardinality(S) + 1
         /\ \A c \in Cluster : Cardinality(S \ {c}) <= Cardinality(S)
<1>1. IsFiniteSet(S)  BY FS_Subset DEF BindTableAssumption
<1>2. Cardinality(S) \in Nat  BY <1>1, FS_CardinalityType
<1>3. ASSUME NEW c \in Cluster  PROVE Cardinality(S \cup {c}) <= Cardinality(S) + 1
  <2>1. Cardinality(S \cup {c}) = Cardinality(S)
          \/ Cardinality(S \cup {c}) = Cardinality(S) + 1
    BY <1>1, FS_AddElement, Zenon
  <2> QED  BY <1>2, <2>1
<1>4. ASSUME NEW c \in Cluster  PROVE Cardinality(S \ {c}) <= Cardinality(S)
  BY <1>1, <1>2, FS_RemoveElement
<1> QED  BY <1>1, <1>2, <1>3, <1>4

LEMMA OneCluster ==
  ASSUME BindTableAssumption, NEW c
  PROVE  Cardinality({c}) = 1 /\ 1 <= MaxClusters
<1>1. Cardinality({c}) = 1  BY FS_Singleton, Zenon
<1> QED  BY <1>1 DEF BindTableAssumption

LEMMA SlotCount ==
  ASSUME BindTableAssumption, NEW S \in SUBSET Slot
  PROVE  /\ IsFiniteSet(S) /\ Cardinality(S) \in 0 .. MaxEntries
         /\ Cardinality(S) = 0 <=> S = {}
<1>1. IsFiniteSet(Slot) /\ Cardinality(Slot) = MaxEntries
  BY FS_Interval DEF BindTableAssumption
<1>2. IsFiniteSet(S) /\ Cardinality(S) <= MaxEntries  BY <1>1, FS_Subset
<1>3. Cardinality(S) \in Nat  BY <1>2, FS_CardinalityType
<1>4. Cardinality(S) = 0 <=> S = {}  BY <1>2, FS_EmptySet, Zenon
<1> QED  BY <1>2, <1>3, <1>4 DEF BindTableAssumption

-----------------------------------------------------------------------------
LEMMA InitIInv ==
  ASSUME BindTableAssumption, Init
  PROVE  IInv
BY DEF BindTableAssumption, Init, IInv, TypeOK, ListsSound, Table

LEMMA RestoredSound ==
  ASSUME NEW recs, NEW n, recs \in Table, ListsSound(recs)
  PROVE  Restored(recs, n) \in Table /\ ListsSound(Restored(recs, n))
BY DEF Restored, Table, ListsSound

LEMMA StepIInv ==
  ASSUME BindTableAssumption, IInv, [Next]_vars
  PROVE  IInv'
<1> USE DEF IInv
<1>1. ASSUME NEW s \in Source, NEW c \in Cluster, NEW d \in Destination, Bind(s, c, d)
      PROVE IInv'
  <2>1. CASE \E x \in Slot : FindExisting(x, s, d) /\ AddCluster(x, c)
    <3>1. PICK x \in Slot : FindExisting(x, s, d) /\ AddCluster(x, c)  BY <2>1
    <3>2. BindingTable[x] \in Entry  BY <3>1 DEF FindExisting, IsFor, Used, TypeOK, Table
    <3> DEFINE e == [BindingTable[x] EXCEPT !.clusters = @ \cup {c}]
    <3>3. e \in Entry /\ e.clusters = BindingTable[x].clusters \cup {c}
      BY <3>2 DEF Entry
    <3>4. Cardinality(e.clusters) <= MaxClusters
      <4>1. CASE c \in BindingTable[x].clusters
        <5>1. e.clusters = BindingTable[x].clusters  BY <4>1, <3>3
        <5> QED  BY <5>1, <3>1 DEF ListsSound, FindExisting, IsFor, Used
      <4>2. CASE c \notin BindingTable[x].clusters
        <5>1. Cardinality(BindingTable[x].clusters) < MaxClusters
          BY <4>2, <3>1 DEF AddCluster
        <5>2. BindingTable[x].clusters \in SUBSET Cluster  BY <3>2 DEF Entry
        <5>3. Cardinality(e.clusters) <= Cardinality(BindingTable[x].clusters) + 1
          BY <3>3, <5>2, Lists
        <5>4. /\ Cardinality(e.clusters) \in Nat
              /\ Cardinality(BindingTable[x].clusters) \in Nat
          BY <3>3, <5>2, Lists DEF Entry
        <5> QED  BY <5>1, <5>3, <5>4 DEF BindTableAssumption
      <4> QED  BY <4>1, <4>2
    <3>5. BindingTable' = [BindingTable EXCEPT ![x] = e]  BY <3>1 DEF AddCluster
    <3> HIDE DEF e
    <3>6. BindingTable' \in Table  BY <3>3, <3>5 DEF TypeOK, Table
    <3>7. ListsSound(BindingTable')  BY <3>3, <3>4, <3>5 DEF ListsSound, TypeOK, Table
    <3> QED  BY <1>1, <3>6, <3>7 DEF Bind, TypeOK, ListsSound
  <2>2. CASE \E x \in Slot : AddEntry(x, s, c, d)
    <3>1. PICK x \in Slot : AddEntry(x, s, c, d)  BY <2>2
    <3> DEFINE e == [src |-> s, dst |-> d, clusters |-> {c}]
    <3>2. e \in Entry /\ e.clusters = {c}  BY DEF Entry
    <3>3. Cardinality(e.clusters) <= MaxClusters  BY <3>2, OneCluster
    <3>4. BindingTable' = [BindingTable EXCEPT ![x] = e]  BY <3>1 DEF AddEntry
    <3> HIDE DEF e
    <3>5. BindingTable' \in Table  BY <3>2, <3>4 DEF TypeOK, Table
    <3>6. ListsSound(BindingTable')  BY <3>2, <3>3, <3>4 DEF ListsSound, TypeOK, Table
    <3> QED  BY <1>1, <3>5, <3>6 DEF Bind, TypeOK, ListsSound
  <2> QED  BY <1>1, <2>1, <2>2 DEF Bind, CanAdd
<1>2. ASSUME NEW s \in Source, NEW c \in Cluster, NEW d \in Destination, Refuse(s, c, d)
      PROVE IInv'
  BY <1>2 DEF Refuse, TypeOK, ListsSound
<1>3. ASSUME NEW s \in Source, NEW c \in Cluster, NEW d \in Destination, Unbind(s, c, d)
      PROVE IInv'
  <2>1. CASE BindingTable' = BindingTable
    BY <1>3, <2>1 DEF Unbind, TypeOK, ListsSound
  <2>2. CASE \E x \in Slot : /\ FindExisting(x, s, d)
                             /\ BindingTable' = [BindingTable EXCEPT ![x] = Without(@, c)]
    <3>1. PICK x \in Slot : /\ FindExisting(x, s, d)
                            /\ BindingTable' = [BindingTable EXCEPT ![x] = Without(@, c)]
      BY <2>2
    <3> DEFINE e == Without(BindingTable[x], c)
    <3>2. BindingTable[x] \in Entry /\ Cardinality(BindingTable[x].clusters) <= MaxClusters
      BY <3>1 DEF FindExisting, IsFor, Used, TypeOK, Table, ListsSound
    <3>3. e \in Entry \cup {Empty}  BY <3>2 DEF Without, Entry
    <3>4. e # Empty => e.clusters # {} /\ e.clusters = BindingTable[x].clusters \ {c}
      BY <3>2 DEF Without, Entry
    <3>5. e # Empty => Cardinality(e.clusters) <= MaxClusters
      <4>1. BindingTable[x].clusters \in SUBSET Cluster  BY <3>2 DEF Entry
      <4>2. /\ Cardinality(BindingTable[x].clusters \ {c})
                 <= Cardinality(BindingTable[x].clusters)
            /\ Cardinality(BindingTable[x].clusters) \in Nat
        BY <4>1, Lists
      <4>3. BindingTable[x].clusters \ {c} \in SUBSET Cluster  BY <4>1
      <4>4. Cardinality(BindingTable[x].clusters \ {c}) \in Nat  BY <4>3, Lists
      <4>5. MaxClusters \in Nat  BY DEF BindTableAssumption
      <4>6. Cardinality(BindingTable[x].clusters \ {c}) <= MaxClusters
        BY <3>2, <4>2, <4>4, <4>5
      <4> QED  BY <3>4, <4>6
    <3>6. BindingTable' = [BindingTable EXCEPT ![x] = e]  BY <3>1
    <3> HIDE DEF e
    <3>7. BindingTable' \in Table  BY <3>3, <3>6 DEF TypeOK, Table
    <3>8. ListsSound(BindingTable')  BY <3>4, <3>5, <3>6 DEF ListsSound, TypeOK, Table
    <3> QED  BY <1>3, <3>7, <3>8 DEF Unbind, TypeOK, ListsSound
  <2> QED  BY <1>3, <2>1, <2>2 DEF Unbind
<1>4. ASSUME NEW dev \in Device, RemoveDev(dev)  PROVE IInv'
  BY <1>4 DEF RemoveDev, TypeOK, Table, ListsSound, Used
<1>5. ASSUME WriteNV  PROVE IInv'
  <2>1. {x \in Slot : Used(x)} \in SUBSET Slot  OBVIOUS
  <2>2. numRecs' \in 0 .. MaxEntries  BY <1>5, <2>1, SlotCount DEF WriteNV
  <2> QED  BY <1>5, <2>2 DEF WriteNV, TypeOK, ListsSound
<1>6. ASSUME Restart  PROVE IInv'
  <2>1. BindingTable' \in Table /\ ListsSound(BindingTable')
    BY <1>6, RestoredSound DEF Restart, TypeOK
  <2> QED  BY <1>6, <2>1 DEF Restart, TypeOK, ListsSound
<1>7. ASSUME NEW n \in Slot, WriteStops(n)  PROVE IInv'
  <2>1. records' \in Table /\ ListsSound(records')
    BY <1>7 DEF WriteStops, TypeOK, Table, ListsSound
  <2>2. BindingTable' \in Table /\ ListsSound(BindingTable')
    BY <1>7, <2>1, RestoredSound DEF WriteStops
  <2> QED  BY <1>7, <2>1, <2>2 DEF WriteStops, TypeOK, ListsSound
<1>8. CASE UNCHANGED vars  BY <1>8 DEF vars, TypeOK, ListsSound
<1> QED  BY <1>1, <1>2, <1>3, <1>4, <1>5, <1>6, <1>7, <1>8 DEF Next

-----------------------------------------------------------------------------
(* A table as a set of bindings *)

LEMMA Member ==
  ASSUME NEW t, NEW s \in Source, NEW c \in Cluster, NEW d \in Destination
  PROVE  <<s, c, d>> \in BindingsOf(t)
           <=> \E x \in Slot : /\ t[x] # Empty
                               /\ t[x].src = s /\ c \in t[x].clusters /\ t[x].dst = d
BY DEF BindingsOf

LEMMA SameBindings ==
  ASSUME NEW S, NEW T, S \subseteq Source \X Cluster \X Destination,
         T \subseteq Source \X Cluster \X Destination,
         \A s \in Source, c \in Cluster, d \in Destination :
           <<s, c, d>> \in S <=> <<s, c, d>> \in T
  PROVE  S = T
OBVIOUS

LEMMA EmptyTable ==
  /\ BindingsOf([x \in Slot |-> Empty]) = {}
  /\ ~TwiceIn([x \in Slot |-> Empty])
BY DEF BindingsOf, TwiceIn

(* What an entry, replaced by another for the same pair, adds and takes *)
LEMMA Replaced ==
  ASSUME NEW t \in Table, NEW x \in Slot, t[x] # Empty, NEW e \in Entry, e # Empty,
         e.src = t[x].src, e.dst = t[x].dst
  PROVE  TwiceIn([t EXCEPT ![x] = e]) = TwiceIn(t)
BY DEF TwiceIn, Table

LEMMA Added ==
  ASSUME NEW t \in Table, NEW x \in Slot, NEW s \in Source, NEW c \in Cluster,
         NEW d \in Destination, NEW e \in Entry, Empty \notin Entry,
         NEW u, u[x] = e, \A y \in Slot : y # x => u[y] = t[y], e.src = s, e.dst = d,
         \/ /\ t[x] # Empty /\ t[x].src = s /\ t[x].dst = d
            /\ e.clusters = t[x].clusters \cup {c}
         \/ t[x] = Empty /\ e.clusters = {c}
  PROVE  BindingsOf(u) = BindingsOf(t) \cup {<<s, c, d>>}
<1>1. ASSUME NEW r \in Source, NEW k \in Cluster, NEW f \in Destination
      PROVE  <<r, k, f>> \in BindingsOf(u)
               <=> <<r, k, f>> \in BindingsOf(t) \cup {<<s, c, d>>}
  <2>1. u[x] = e /\ \A y \in Slot : y # x => u[y] = t[y]  OBVIOUS
  <2>2. e # Empty  OBVIOUS
  <2>3. ASSUME <<r, k, f>> \in BindingsOf(u)
        PROVE  <<r, k, f>> \in BindingsOf(t) \/ (r = s /\ k = c /\ f = d)
    <3>1. PICK y \in Slot : /\ u[y] # Empty
                            /\ u[y].src = r /\ k \in u[y].clusters /\ u[y].dst = f
      BY <2>3, Member
    <3>2. CASE y # x  BY <3>1, <3>2, <2>1, Member
    <3>3. CASE y = x  BY <3>1, <3>3, <2>1, Member
    <3> QED  BY <3>2, <3>3
  <2>4. ASSUME <<r, k, f>> \in BindingsOf(t)
        PROVE  <<r, k, f>> \in BindingsOf(u)
    <3>1. PICK y \in Slot : /\ t[y] # Empty
                            /\ t[y].src = r /\ k \in t[y].clusters /\ t[y].dst = f
      BY <2>4, Member
    <3>2. CASE y # x  BY <3>1, <3>2, <2>1, Member
    <3>3. CASE y = x
      <4>1. u[x] # Empty /\ u[x].src = r /\ k \in u[x].clusters /\ u[x].dst = f
        BY <3>1, <3>3, <2>1, <2>2
      <4> QED  BY <4>1, Member
    <3> QED  BY <3>2, <3>3
  <2>5. <<s, c, d>> \in BindingsOf(u)
    <3>1. u[x] # Empty /\ u[x].src = s /\ c \in u[x].clusters /\ u[x].dst = d
      BY <2>1, <2>2
    <3> QED  BY <3>1, Member
  <2> QED  BY <2>3, <2>4, <2>5
<1>2. /\ BindingsOf(u) \subseteq Source \X Cluster \X Destination
      /\ BindingsOf(t) \cup {<<s, c, d>>} \subseteq Source \X Cluster \X Destination
  BY DEF BindingsOf
<1> QED  BY <1>1, <1>2, SameBindings

(* Taking a cluster off an entry takes its binding, unless another entry   *)
(* is for the same pair.                                                   *)
LEMMA Taken ==
  ASSUME NEW t \in Table, NEW x \in Slot, t[x] # Empty, NEW c \in t[x].clusters,
         Empty \notin Entry,
         NEW s, s = t[x].src, NEW d, d = t[x].dst,
         NEW u, u[x] = Without(t[x], c), \A y \in Slot : y # x => u[y] = t[y]
  PROVE  /\ BindingsOf(u) = BindingsOf(t) \ {<<s, c, d>>}
              \/ (TwiceIn(t) /\ BindingsOf(u) = BindingsOf(t))
         /\ <<s, c, d>> \in BindingsOf(t)
         /\ TwiceIn(u) => TwiceIn(t)
<1> DEFINE e == Without(t[x], c)
<1>1. t[x] \in Entry /\ s \in Source /\ d \in Destination /\ c \in Cluster
  BY DEF Table, Entry
<1>2. /\ e \in Entry \cup {Empty}
      /\ e # Empty => e.src = s /\ e.dst = d /\ e.clusters = t[x].clusters \ {c}
      /\ e = Empty => t[x].clusters \subseteq {c}
  BY <1>1 DEF Without, Entry
<1>3. u[x] = e /\ \A y \in Slot : y # x => u[y] = t[y]  OBVIOUS
<1> HIDE DEF e
<1>4. s = t[x].src /\ d = t[x].dst  OBVIOUS
<1>5. <<s, c, d>> \in BindingsOf(t)  BY <1>1, <1>4, Member
<1>6. TwiceIn(u) => TwiceIn(t)
  <2> SUFFICES ASSUME TwiceIn(u) PROVE TwiceIn(t)  OBVIOUS
  <2>1. PICK y, z \in Slot : /\ y # z /\ u[y] # Empty /\ u[z] # Empty
                             /\ u[y].src = u[z].src /\ u[y].dst = u[z].dst
    BY DEF TwiceIn
  <2>2. /\ t[y] # Empty /\ t[y].src = u[y].src /\ t[y].dst = u[y].dst
        /\ t[z] # Empty /\ t[z].src = u[z].src /\ t[z].dst = u[z].dst
    BY <2>1, <1>2, <1>3, <1>4
  <2> QED  BY <2>1, <2>2 DEF TwiceIn
<1>7. ASSUME NEW r \in Source, NEW k \in Cluster, NEW f \in Destination
      PROVE  /\ <<r, k, f>> \in BindingsOf(u) => <<r, k, f>> \in BindingsOf(t)
             /\ <<r, k, f>> \in BindingsOf(t) /\ ~(r = s /\ k = c /\ f = d)
                  => <<r, k, f>> \in BindingsOf(u)
  <2>1. ASSUME <<r, k, f>> \in BindingsOf(u)  PROVE <<r, k, f>> \in BindingsOf(t)
    <3>1. PICK y \in Slot : /\ u[y] # Empty
                            /\ u[y].src = r /\ k \in u[y].clusters /\ u[y].dst = f
      BY <2>1, Member
    <3>2. t[y] # Empty /\ t[y].src = r /\ k \in t[y].clusters /\ t[y].dst = f
      BY <3>1, <1>2, <1>3, <1>4
    <3> QED  BY <3>2, Member
  <2>2. ASSUME <<r, k, f>> \in BindingsOf(t), ~(r = s /\ k = c /\ f = d)
        PROVE  <<r, k, f>> \in BindingsOf(u)
    <3>1. PICK y \in Slot : /\ t[y] # Empty
                            /\ t[y].src = r /\ k \in t[y].clusters /\ t[y].dst = f
      BY <2>2, Member
    <3>2. u[y] # Empty /\ u[y].src = r /\ k \in u[y].clusters /\ u[y].dst = f
      BY <3>1, <2>2, <1>2, <1>3, <1>4
    <3> QED  BY <3>2, Member
  <2> QED  BY <2>1, <2>2
<1>8. /\ BindingsOf(u) \subseteq Source \X Cluster \X Destination
      /\ BindingsOf(t) \subseteq Source \X Cluster \X Destination
  BY DEF BindingsOf
<1>9. CASE <<s, c, d>> \notin BindingsOf(u)
  <2>1. ASSUME NEW r \in Source, NEW k \in Cluster, NEW f \in Destination
        PROVE  <<r, k, f>> \in BindingsOf(u)
                 <=> <<r, k, f>> \in BindingsOf(t) \ {<<s, c, d>>}
    BY <1>7, <1>9
  <2>2. BindingsOf(u) = BindingsOf(t) \ {<<s, c, d>>}  BY <2>1, <1>8, SameBindings
  <2> QED  BY <2>2, <1>5, <1>6
<1>10. CASE <<s, c, d>> \in BindingsOf(u)
  <2>1. ASSUME NEW r \in Source, NEW k \in Cluster, NEW f \in Destination
        PROVE  <<r, k, f>> \in BindingsOf(u) <=> <<r, k, f>> \in BindingsOf(t)
    BY <1>7, <1>10
  <2>2. BindingsOf(u) = BindingsOf(t)  BY <2>1, <1>8, SameBindings
  <2>3. PICK y \in Slot : /\ u[y] # Empty
                          /\ u[y].src = s /\ c \in u[y].clusters /\ u[y].dst = d
    BY <1>1, <1>10, Member
  <2>4. y # x  BY <2>3, <1>2, <1>3
  <2>5. t[y] # Empty /\ t[y].src = t[x].src /\ t[y].dst = t[x].dst
    BY <2>3, <2>4, <1>3, <1>4
  <2>6. TwiceIn(t)  BY <2>4, <2>5 DEF TwiceIn
  <2> QED  BY <2>2, <2>6, <1>5, <1>6
<1> QED  BY <1>9, <1>10

-----------------------------------------------------------------------------
(* Each step of the table is one of the set of bindings. *)

(* Bindings counts with an instance of its own of FiniteSets. *)
LEMMA SameCount ==
  ASSUME NEW S
  PROVE  B!Cardinality(S) = Cardinality(S)
BY Zenon DEF B!Cardinality, Cardinality, B!IsFiniteSet, IsFiniteSet

LEMMA InitMaps ==
  ASSUME BindTableAssumption, Init
  PROVE  B!Init
<1>1. ~TwiceIn(BindingTable) /\ BindingsOf(BindingTable) = {}  BY EmptyTable DEF Init
<1>2. Restored(records, numRecs) = BindingTable  BY DEF Init, Restored
<1>3. TwiceIn(BindingTable) = FALSE  BY <1>1 DEF TwiceIn
<1> QED  BY <1>1, <1>2, <1>3 DEF Init, B!Init

LEMMA BindMaps ==
  ASSUME BindTableAssumption, IInv,
         NEW s \in Source, NEW c \in Cluster, NEW d \in Destination, Bind(s, c, d)
  PROVE  B!Bind(s, c, d)
<1>1. BindingTable \in Table /\ Empty \notin Entry
  BY DEF IInv, TypeOK, BindTableAssumption
<1>2. /\ BindingsOf(BindingTable') = BindingsOf(BindingTable) \cup {<<s, c, d>>}
      /\ TwiceIn(BindingTable') = TwiceIn(BindingTable)
  <2>1. CASE \E x \in Slot : FindExisting(x, s, d) /\ AddCluster(x, c)
    <3>1. PICK x \in Slot : FindExisting(x, s, d) /\ AddCluster(x, c)  BY <2>1
    <3> DEFINE e == [BindingTable[x] EXCEPT !.clusters = @ \cup {c}]
    <3>2. /\ BindingTable[x] \in Entry /\ BindingTable[x] # Empty
          /\ BindingTable[x].src = s /\ BindingTable[x].dst = d
      BY <1>1, <3>1 DEF FindExisting, IsFor, Used, Table
    <3>3. /\ e \in Entry /\ e.clusters = BindingTable[x].clusters \cup {c}
          /\ e.src = s /\ e.dst = d
      BY <3>2 DEF Entry
    <3>4. BindingTable' = [BindingTable EXCEPT ![x] = e]  BY <3>1 DEF AddCluster
    <3> HIDE DEF e
    <3>9. /\ BindingTable'[x] = e
          /\ \A y \in Slot : y # x => BindingTable'[y] = BindingTable[y]
      BY <1>1, <3>4 DEF Table
    <3>5. BindingsOf(BindingTable') = BindingsOf(BindingTable) \cup {<<s, c, d>>}
      BY <1>1, <3>2, <3>3, <3>9, Added
    <3>6. e # Empty  BY <1>1, <3>3
    <3>7. TwiceIn(BindingTable') = TwiceIn(BindingTable)
      BY <1>1, <3>2, <3>3, <3>4, <3>6, Replaced
    <3> QED  BY <3>5, <3>7
  <2>2. CASE NoneFor(s, d) /\ \E x \in Slot : FindEmpty(x) /\ AddEntry(x, s, c, d)
    <3>1. PICK x \in Slot : FindEmpty(x) /\ AddEntry(x, s, c, d)  BY <2>2
    <3> DEFINE e == [src |-> s, dst |-> d, clusters |-> {c}]
    <3>2. e \in Entry /\ e.clusters = {c} /\ e.src = s /\ e.dst = d  BY DEF Entry
    <3>3. BindingTable[x] = Empty  BY <3>1 DEF FindEmpty, Used
    <3>4. BindingTable' = [BindingTable EXCEPT ![x] = e]  BY <3>1 DEF AddEntry
    <3> HIDE DEF e
    <3>6. /\ BindingTable'[x] = e
          /\ \A y \in Slot : y # x => BindingTable'[y] = BindingTable[y]
      BY <1>1, <3>4 DEF Table
    <3>5. BindingsOf(BindingTable') = BindingsOf(BindingTable) \cup {<<s, c, d>>}
      BY <1>1, <3>2, <3>3, <3>6, Added
    <3>7. \A y \in Slot : BindingTable[y] # Empty
                            => ~(BindingTable[y].src = s /\ BindingTable[y].dst = d)
      BY <2>2 DEF NoneFor, IsFor, Used
    <3>8. ASSUME TwiceIn(BindingTable')  PROVE TwiceIn(BindingTable)
      <4>1. PICK y, z \in Slot :
              /\ y # z /\ BindingTable'[y] # Empty /\ BindingTable'[z] # Empty
              /\ BindingTable'[y].src = BindingTable'[z].src
              /\ BindingTable'[y].dst = BindingTable'[z].dst
        BY <3>8 DEF TwiceIn
      <4>2. y # x /\ z # x  BY <4>1, <3>2, <3>6, <3>7
      <4> QED  BY <4>1, <4>2, <3>6 DEF TwiceIn
    <3>9. ASSUME TwiceIn(BindingTable)  PROVE TwiceIn(BindingTable')
      <4>1. PICK y, z \in Slot :
              /\ y # z /\ BindingTable[y] # Empty /\ BindingTable[z] # Empty
              /\ BindingTable[y].src = BindingTable[z].src
              /\ BindingTable[y].dst = BindingTable[z].dst
        BY <3>9 DEF TwiceIn
      <4>2. y # x /\ z # x  BY <4>1, <3>3
      <4> QED  BY <4>1, <4>2, <3>6 DEF TwiceIn
    <3> QED  BY <3>5, <3>8, <3>9 DEF TwiceIn
  <2> QED  BY <2>1, <2>2 DEF Bind, CanAdd
<1> QED  BY <1>2 DEF Bind, B!Bind

(* A table that is refused a binding holds as many pairs as it has entries *)
(* or as many clusters of the pair as a list has room for.                 *)
LEMMA RefuseMaps ==
  ASSUME BindTableAssumption, IInv,
         NEW s \in Source, NEW c \in Cluster, NEW d \in Destination, Refuse(s, c, d)
  PROVE  B!Refuse(s, c, d)
<1>1. BindingTable \in Table /\ ListsSound(BindingTable)  BY DEF IInv, TypeOK
<1>2. ASSUME ~TwiceIn(BindingTable)
      PROVE  <<s, c, d>> \notin BindingsOf(BindingTable) /\ B!Full(s, d)
  <2>1. CASE \E x \in Slot : /\ FindExisting(x, s, d)
                             /\ c \notin BindingTable[x].clusters
                             /\ Cardinality(BindingTable[x].clusters) >= MaxClusters
    <3>1. PICK x \in Slot : /\ FindExisting(x, s, d)
                            /\ c \notin BindingTable[x].clusters
                            /\ Cardinality(BindingTable[x].clusters) >= MaxClusters
      BY <2>1
    <3>2. /\ BindingTable[x] # Empty /\ BindingTable[x] \in Entry
          /\ BindingTable[x].src = s /\ BindingTable[x].dst = d
      BY <1>1, <3>1 DEF FindExisting, IsFor, Used, Table
    <3>3. \A y \in Slot : BindingTable[y] # Empty /\ BindingTable[y].src = s
                            /\ BindingTable[y].dst = d => y = x
      BY <1>2, <3>2 DEF TwiceIn
    <3>4. \A k \in Cluster : <<s, k, d>> \in BindingsOf(BindingTable)
                               <=> k \in BindingTable[x].clusters
      BY <3>2, <3>3, Member
    <3>5. B!Between(s, d) = BindingTable[x].clusters
      BY <3>2, <3>4 DEF B!Between, Entry
    <3>6. BindingTable[x].clusters # {} /\ Cardinality(BindingTable[x].clusters) <= MaxClusters
      BY <1>1, <3>2 DEF ListsSound
    <3>7. Cardinality(BindingTable[x].clusters) \in Nat /\ MaxClusters \in Nat
      BY <3>2, Lists DEF Entry, BindTableAssumption
    <3>8. Cardinality(BindingTable[x].clusters) = MaxClusters  BY <3>1, <3>6, <3>7
    <3>9. B!Full(s, d)  BY <3>5, <3>6, <3>8, SameCount DEF B!Full
    <3> QED  BY <3>1, <3>4, <3>9
  <2>2. CASE NoneFor(s, d) /\ \A x \in Slot : Used(x)
    <3>1. \A x \in Slot : BindingTable[x] \in Entry /\ BindingTable[x] # Empty
      BY <1>1, <2>2 DEF Used, Table
    <3>2. \A k \in Cluster : <<s, k, d>> \notin BindingsOf(BindingTable)
      BY <2>2, Member DEF NoneFor, IsFor, Used
    <3>3. B!Between(s, d) = {}  BY <3>2 DEF B!Between
    <3> DEFINE f == [x \in Slot |-> <<BindingTable[x].src, BindingTable[x].dst>>]
    <3>4. \A x \in Slot : f[x] \in B!Pairs
      <4> TAKE x \in Slot
      <4> DEFINE e == BindingTable[x]
      <4>1. e.src \in Source /\ e.dst \in Destination /\ e.clusters \in SUBSET Cluster
        BY <3>1 DEF Entry
      <4>2. PICK k \in e.clusters : TRUE  BY <1>1, <3>1 DEF ListsSound
      <4>3. <<e.src, k, e.dst>> \in BindingsOf(BindingTable)
        BY <3>1, <4>1, <4>2, Member
      <4>4. B!Between(e.src, e.dst) # {}  BY <4>1, <4>2, <4>3 DEF B!Between
      <4>5. f[x] = <<e.src, e.dst>>  OBVIOUS
      <4> QED  BY <4>1, <4>4, <4>5 DEF B!Pairs
    <3>5. \A p \in B!Pairs : \E x \in Slot : f[x] = p
      <4> TAKE p \in B!Pairs
      <4>1. /\ p \in Source \X Destination /\ p = <<p[1], p[2]>>
            /\ B!Between(p[1], p[2]) # {}
        BY DEF B!Pairs
      <4>2. PICK k \in Cluster : <<p[1], k, p[2]>> \in BindingsOf(BindingTable)
        BY <4>1 DEF B!Between
      <4>3. PICK x \in Slot : BindingTable[x].src = p[1] /\ BindingTable[x].dst = p[2]
        BY <4>1, <4>2, Member
      <4>4. f[x] = p  BY <4>1, <4>3
      <4> QED  BY <4>4
    <3>6. \A x, y \in Slot : f[x] = f[y] => x = y
      BY <1>2, <3>1 DEF TwiceIn
    <3>7. f \in Injection(Slot, B!Pairs) /\ f \in Surjection(Slot, B!Pairs)
      <4>1. f \in [Slot -> B!Pairs]  BY <3>4
      <4> HIDE DEF f
      <4> QED  BY <3>5, <3>6, <4>1 DEF Injection, Surjection, IsInjective
    <3> HIDE DEF f
    <3>8. IsFiniteSet(Slot) /\ Cardinality(Slot) = MaxEntries
      BY FS_Interval DEF BindTableAssumption
    <3>9. Cardinality(B!Pairs) = Cardinality(Slot)
      BY <3>7, <3>8, FS_Surjection
    <3>10. B!Full(s, d)  BY <3>3, <3>8, <3>9, SameCount DEF B!Full
    <3> QED  BY <3>2, <3>10
  <2> QED  BY <2>1, <2>2 DEF Refuse, TableFull
<1> QED  BY <1>2 DEF Refuse, B!Refuse

LEMMA UnbindMaps ==
  ASSUME BindTableAssumption, IInv,
         NEW s \in Source, NEW c \in Cluster, NEW d \in Destination, Unbind(s, c, d)
  PROVE  B!Unbind(s, c, d)
<1>1. BindingTable \in Table /\ Empty \notin Entry
  BY DEF IInv, TypeOK, BindTableAssumption
<1>2. CASE \E x \in Slot : /\ FindExisting(x, s, d) /\ c \in BindingTable[x].clusters
                           /\ BindingTable' = [BindingTable EXCEPT ![x] = Without(@, c)]
                           /\ answer' = "success"
  <2>1. PICK x \in Slot : /\ FindExisting(x, s, d) /\ c \in BindingTable[x].clusters
                          /\ BindingTable' = [BindingTable EXCEPT ![x] = Without(@, c)]
                          /\ answer' = "success"
    BY <1>2
  <2>2. BindingTable[x] # Empty /\ BindingTable[x].src = s /\ BindingTable[x].dst = d
    BY <2>1 DEF FindExisting, IsFor, Used
  <2>3. /\ BindingTable'[x] = Without(BindingTable[x], c)
        /\ \A y \in Slot : y # x => BindingTable'[y] = BindingTable[y]
    BY <1>1, <2>1 DEF Table
  <2>6. c \in BindingTable[x].clusters  BY <2>1
  <2>4. /\ BindingsOf(BindingTable') = BindingsOf(BindingTable) \ {<<s, c, d>>}
             \/ /\ TwiceIn(BindingTable)
                /\ BindingsOf(BindingTable') = BindingsOf(BindingTable)
        /\ <<s, c, d>> \in BindingsOf(BindingTable)
        /\ TwiceIn(BindingTable') => TwiceIn(BindingTable)
    BY <1>1, <2>2, <2>3, <2>6, Taken
  <2>5. TwiceIn(BindingTable') \in {TwiceIn(BindingTable), FALSE}
    BY <2>4 DEF TwiceIn
  <2> QED  BY <2>1, <2>4, <2>5 DEF Unbind, B!Unbind
<1>3. CASE /\ \A x \in Slot : FindExisting(x, s, d) => c \notin BindingTable[x].clusters
           /\ answer' = "no_entry"
           /\ UNCHANGED BindingTable
  <2>1. ASSUME <<s, c, d>> \in BindingsOf(BindingTable)  PROVE TwiceIn(BindingTable)
    <3>1. PICK x \in Slot : IsFor(x, s, d) /\ c \in BindingTable[x].clusters
      BY <2>1, Member DEF IsFor, Used
    <3>2. PICK y \in 1 .. x - 1 : IsFor(y, s, d)  BY <1>3, <3>1 DEF FindExisting
    <3>3. y \in Slot /\ y # x  BY <3>2 DEF BindTableAssumption
    <3> QED  BY <3>1, <3>2, <3>3 DEF IsFor, Used, TwiceIn
  <2> QED  BY <1>3, <2>1 DEF Unbind, B!Unbind
<1> QED  BY <1>2, <1>3 DEF Unbind

LEMMA LeaveMaps ==
  ASSUME BindTableAssumption, IInv, NEW dev \in Device, RemoveDev(dev)
  PROVE  B!Leave(dev)
<1>1. \A x \in Slot :
        /\ BindingTable'[x] # Empty => BindingTable'[x] = BindingTable[x]
        /\ BindingTable'[x] # Empty <=> /\ BindingTable[x] # Empty
                                        /\ BindingTable[x].dst \notin On[dev]
  BY DEF RemoveDev, Used
<1>2. BindingsOf(BindingTable') = {b \in BindingsOf(BindingTable) : b[3] \notin On[dev]}
  <2>1. ASSUME NEW s \in Source, NEW c \in Cluster, NEW d \in Destination
        PROVE  <<s, c, d>> \in BindingsOf(BindingTable')
                 <=> <<s, c, d>> \in {b \in BindingsOf(BindingTable) : b[3] \notin On[dev]}
    BY <1>1, Member
  <2>2. /\ BindingsOf(BindingTable') \subseteq Source \X Cluster \X Destination
        /\ {b \in BindingsOf(BindingTable) : b[3] \notin On[dev]}
             \subseteq Source \X Cluster \X Destination
    BY DEF BindingsOf
  <2> QED  BY <2>1, <2>2, SameBindings
<1>3. TwiceIn(BindingTable') => TwiceIn(BindingTable)  BY <1>1 DEF TwiceIn
<1>4. TwiceIn(BindingTable') \in {TwiceIn(BindingTable), FALSE}  BY <1>3 DEF TwiceIn
<1> QED  BY <1>2, <1>4 DEF RemoveDev, B!Leave

LEMMA SaveMaps ==
  ASSUME BindTableAssumption, IInv, WriteNV
  PROVE  B!Save
<1>1. Restored(records', numRecs') = BindingTable
  <2>1. CASE numRecs' = 0
    <3>1. {x \in Slot : Used(x)} = {}  BY <2>1, SlotCount DEF WriteNV
    <3>2. BindingTable = [x \in Slot |-> Empty]
      BY <3>1 DEF Used, IInv, TypeOK, Table
    <3> QED  BY <2>1, <3>2 DEF Restored
  <2>2. CASE numRecs' # 0  BY <2>2 DEF Restored, WriteNV
  <2> QED  BY <2>1, <2>2
<1> QED  BY <1>1 DEF WriteNV, B!Save

LEMMA StopMaps ==
  ASSUME BindTableAssumption, IInv, NEW n \in Slot, WriteStops(n)
  PROVE  B!SaveCutShort
<1>1. BindingsOf(BindingTable')
        \in SUBSET (BindingsOf(BindingTable) \cup BindingsOf(Restored(records, numRecs)))
  <2>1. CASE numRecs = 0  BY <2>1, EmptyTable DEF WriteStops, Restored
  <2>2. CASE numRecs # 0
    <3>1. \A x \in Slot : BindingTable'[x] \in {BindingTable[x], records[x]}
      BY <2>2 DEF WriteStops, Restored
    <3>2. Restored(records, numRecs) = records  BY <2>2 DEF Restored
    <3> QED  BY <3>1, <3>2 DEF BindingsOf
  <2> QED  BY <2>1, <2>2
<1>2. Restored(records', numRecs') = BindingTable'  BY DEF WriteStops
<1>3. TwiceIn(BindingTable') \in BOOLEAN  BY DEF TwiceIn
<1> QED  BY <1>1, <1>2, <1>3 DEF WriteStops, B!SaveCutShort

LEMMA StepMaps ==
  ASSUME BindTableAssumption, IInv, [Next]_vars
  PROVE  [B!Next]_(B!bvars)
<1>1. ASSUME NEW s \in Source, NEW c \in Cluster, NEW d \in Destination,
             Bind(s, c, d) \/ Refuse(s, c, d) \/ Unbind(s, c, d)
      PROVE  B!Next
  BY <1>1, BindMaps, RefuseMaps, UnbindMaps DEF B!Next
<1>2. ASSUME NEW dev \in Device, RemoveDev(dev)  PROVE B!Next
  BY <1>2, LeaveMaps DEF B!Next
<1>3. ASSUME WriteNV  PROVE B!Next  BY <1>3, SaveMaps DEF B!Next
<1>4. ASSUME Restart  PROVE B!Next  BY <1>4 DEF Restart, B!Restart, B!Next
<1>5. ASSUME NEW n \in Slot, WriteStops(n)  PROVE B!Next
  BY <1>5, StopMaps DEF B!Next
<1>6. CASE UNCHANGED vars  BY <1>6 DEF vars, B!bvars
<1> QED  BY <1>1, <1>2, <1>3, <1>4, <1>5, <1>6 DEF Next

(* For every number of entries and every length of the lists, the binding  *)
(* table is a set of bindings that is refused one only when it is full,    *)
(* that loses none but by an unbind, a device that leaves or a power       *)
(* failure, and that a restart finds as it was saved (BindingTable.c).     *)
THEOREM TableIsASet ==
  ASSUME BindTableAssumption
  PROVE  Spec => ImplementsBindings
<1>1. Init => IInv /\ B!Init  BY InitIInv, InitMaps
<1>2. IInv /\ [Next]_vars => IInv' /\ [B!Next]_(B!bvars)  BY StepIInv, StepMaps
<1> QED  BY <1>1, <1>2, PTL DEF Spec, ImplementsBindings, B!Spec
-----------------------------------------------------------------------------
(* The end device bind *)

(* A match never waits without its time-out. *)
THEOREM MatchTimed == MatchSpec => []MatchIsTimed
<1>1. MatchInit => MatchIsTimed
  BY DEF MatchInit, MatchIsTimed
<1>2. ASSUME MatchIsTimed, [MatchNext]_matchVars
      PROVE  MatchIsTimed'
  <2>1. ASSUME NEW m, NEW rest, SendNext(m, rest)
        PROVE  timer' = TRUE \/ matchED' = NoMatch
    BY <2>1 DEF SendNext, SendOrder, End
  <2>2. ASSUME NEW n, Response(n) PROVE MatchIsTimed'
    <3>1. CASE UNCHANGED <<matchED, timer>>
      BY <1>2, <3>1 DEF MatchIsTimed
    <3>2. CASE \/ UnbindResponse(n.status, net \ {n})
               \/ BindResponse(n.status, net \ {n})
      BY <2>1, <3>2 DEF UnbindResponse, BindResponse, End, MatchIsTimed
    <3> QED BY <2>2, <3>1, <3>2 DEF Response
  <2>3. ASSUME NEW n, SecondRequest(n) PROVE MatchIsTimed'
    BY <2>1, <2>3 DEF SecondRequest, End, MatchIsTimed
  <2>4. ASSUME NEW n, FirstRequest(n) \/ BindOrder(n) \/ UnbindOrder(n) \/ Lose(n)
        PROVE  MatchIsTimed'
    BY <1>2, <2>4 DEF FirstRequest, BindOrder, UnbindOrder, Lose, MatchIsTimed
  <2>5. ASSUME NEW d, Press(d) PROVE MatchIsTimed'
    BY <1>2, <2>5 DEF Press, MatchIsTimed
  <2>6. ASSUME Timeout PROVE MatchIsTimed'
    BY <2>6 DEF Timeout, End, MatchIsTimed
  <2>7. CASE UNCHANGED matchVars
    BY <1>2, <2>7 DEF matchVars, MatchIsTimed
  <2> QED BY <1>2, <2>2, <2>3, <2>4, <2>5, <2>6, <2>7 DEF MatchNext, Receive
<1> QED BY <1>1, <1>2, PTL DEF MatchSpec
-----------------------------------------------------------------------------
(* The bindings of a match *)

Current(m) ==
  IF m.ed1Matched # <<>> THEN <<m.ed1, Last(m.ed1Matched), m.ed2>>
  ELSE <<m.ed2, Last(m.ed2Matched), m.ed1>>

(* No binding is there twice. *)
Distinct(m) ==
  m.ed1 # m.ed2 /\ IsInjective(m.ed1Matched) /\ IsInjective(m.ed2Matched)

LEMMA BindingsFacts ==
  ASSUME NEW m \in Match
  PROVE  /\ \A b : b \in Bindings(m) <=>
              \/ \E c \in ToSet(m.ed1Matched) : b = <<m.ed1, c, m.ed2>>
              \/ \E c \in ToSet(m.ed2Matched) : b = <<m.ed2, c, m.ed1>>
         /\ Bindings(m) = {} <=> m.ed1Matched = <<>> /\ m.ed2Matched = <<>>
         /\ Bindings(m) # {} =>
              /\ Current(m) \in Bindings(m)
              /\ Current(m) \in EndDevice \X ClusterId \X EndDevice
<1>1. \A b : b \in Bindings(m) <=>
              \/ \E c \in ToSet(m.ed1Matched) : b = <<m.ed1, c, m.ed2>>
              \/ \E c \in ToSet(m.ed2Matched) : b = <<m.ed2, c, m.ed1>>
  BY DEF Bindings
<1>2. m.ed1Matched \in Seq(ClusterId) /\ m.ed2Matched \in Seq(ClusterId)
  BY DEF Match
<1>3. /\ m.ed1Matched = <<>> => ToSet(m.ed1Matched) = {}
      /\ m.ed2Matched = <<>> => ToSet(m.ed2Matched) = {}
  BY DEF ToSet
<1>4. ASSUME NEW s \in Seq(ClusterId), s # <<>>
      PROVE  Last(s) \in ClusterId /\ Last(s) \in ToSet(s)
  <2>1. Last(s) \in ClusterId /\ ToSet(s) = ToSet(Front(s)) \cup {Last(s)}
    BY Zenon, <1>4, FrontFacts
  <2> QED BY Zenon, <2>1
<1>5. m.ed1 \in EndDevice /\ m.ed2 \in EndDevice
  BY DEF Match
<1>6. CASE m.ed1Matched # <<>>
  <2>1. Current(m) = <<m.ed1, Last(m.ed1Matched), m.ed2>>
    BY <1>6 DEF Current
  <2> QED BY <1>1, <1>2, <1>4, <1>5, <1>6, <2>1
<1>7. CASE m.ed1Matched = <<>> /\ m.ed2Matched # <<>>
  <2>1. Current(m) = <<m.ed2, Last(m.ed2Matched), m.ed1>>
    BY <1>7 DEF Current
  <2> QED BY <1>1, <1>2, <1>4, <1>5, <1>7, <2>1
<1>8. CASE m.ed1Matched = <<>> /\ m.ed2Matched = <<>>
  BY <1>1, <1>3, <1>8
<1> QED BY <1>6, <1>7, <1>8

LEMMA MovedFacts ==
  ASSUME NEW m \in Match, Bindings(m) # {}
  PROVE  /\ Moved(m) \in Match
         /\ Moved(m).ed1 = m.ed1 /\ Moved(m).ed2 = m.ed2
         /\ Moved(m).state = m.state
         /\ Moved(m).sending = m.sending
         /\ Distinct(m) => /\ Distinct(Moved(m))
                           /\ Bindings(Moved(m)) = Bindings(m) \ {Current(m)}
<1>2. m.ed1Matched \in Seq(ClusterId) /\ m.ed2Matched \in Seq(ClusterId)
  BY DEF Match
<1>3. CASE m.ed1Matched # <<>>
  <2>1. PICK f \in Seq(ClusterId) : f = Front(m.ed1Matched)
    BY <1>2, <1>3, FrontFacts
  <2>2. /\ ToSet(m.ed1Matched) = ToSet(f) \cup {Last(m.ed1Matched)}
        /\ IsInjective(m.ed1Matched) =>
             IsInjective(f) /\ Last(m.ed1Matched) \notin ToSet(f)
    BY <1>2, <1>3, <2>1, FrontFacts
  <2>3. Moved(m) = [m EXCEPT !.ed1Matched = f]
    BY <1>3, <2>1 DEF Moved
  <2>4. /\ Moved(m) \in Match
        /\ Moved(m).ed1 = m.ed1 /\ Moved(m).ed2 = m.ed2
        /\ Moved(m).state = m.state /\ Moved(m).sending = m.sending
        /\ Moved(m).ed1Matched = f /\ Moved(m).ed2Matched = m.ed2Matched
    BY <2>3 DEF Match
  <2>5. Current(m) = <<m.ed1, Last(m.ed1Matched), m.ed2>>
    BY <1>3 DEF Current
  <2>6. ASSUME Distinct(m)
        PROVE  Bindings(Moved(m)) = Bindings(m) \ {Current(m)}
    <3>1. \A b : b \in Bindings(m) <=>
              \/ \E c \in ToSet(m.ed1Matched) : b = <<m.ed1, c, m.ed2>>
              \/ \E c \in ToSet(m.ed2Matched) : b = <<m.ed2, c, m.ed1>>
      BY BindingsFacts
    <3>2. \A b : b \in Bindings(Moved(m)) <=>
              \/ \E c \in ToSet(f) : b = <<m.ed1, c, m.ed2>>
              \/ \E c \in ToSet(m.ed2Matched) : b = <<m.ed2, c, m.ed1>>
      BY <2>4 DEF Bindings
    <3>3. \A c \in ToSet(f) : <<m.ed1, c, m.ed2>> # Current(m)
      BY <2>2, <2>5, <2>6 DEF Distinct
    <3>4. \A c : <<m.ed2, c, m.ed1>> # Current(m)
      BY <2>5, <2>6 DEF Distinct
    <3> QED BY <2>2, <2>5, <3>1, <3>2, <3>3, <3>4
  <2> QED BY <2>2, <2>4, <2>6 DEF Distinct
<1>4. CASE m.ed1Matched = <<>>
  <2>0. m.ed2Matched # <<>>
    BY <1>4, BindingsFacts
  <2>1. PICK f \in Seq(ClusterId) : f = Front(m.ed2Matched)
    BY <1>2, <2>0, FrontFacts
  <2>2. /\ ToSet(m.ed2Matched) = ToSet(f) \cup {Last(m.ed2Matched)}
        /\ IsInjective(m.ed2Matched) =>
             IsInjective(f) /\ Last(m.ed2Matched) \notin ToSet(f)
    BY <1>2, <2>0, <2>1, FrontFacts
  <2>3. Moved(m) = [m EXCEPT !.ed2Matched = f]
    BY <1>4, <2>0, <2>1 DEF Moved
  <2>4. /\ Moved(m) \in Match
        /\ Moved(m).ed1 = m.ed1 /\ Moved(m).ed2 = m.ed2
        /\ Moved(m).state = m.state /\ Moved(m).sending = m.sending
        /\ Moved(m).ed1Matched = m.ed1Matched /\ Moved(m).ed2Matched = f
    BY <2>3 DEF Match
  <2>5. Current(m) = <<m.ed2, Last(m.ed2Matched), m.ed1>>
    BY <1>4 DEF Current
  <2>6. ASSUME Distinct(m)
        PROVE  Bindings(Moved(m)) = Bindings(m) \ {Current(m)}
    <3>1. \A b : b \in Bindings(m) <=>
              \E c \in ToSet(m.ed2Matched) : b = <<m.ed2, c, m.ed1>>
      BY <1>4, BindingsFacts DEF ToSet
    <3>2. \A b : b \in Bindings(Moved(m)) <=>
              \E c \in ToSet(f) : b = <<m.ed2, c, m.ed1>>
      BY <1>4, <2>4 DEF Bindings, ToSet
    <3>3. \A c \in ToSet(f) : <<m.ed2, c, m.ed1>> # Current(m)
      BY <2>2, <2>5, <2>6 DEF Distinct
    <3> QED BY <2>2, <2>5, <3>1, <3>2, <3>3
  <2> QED BY <2>2, <2>4, <2>6 DEF Distinct
<1> QED BY <1>3, <1>4
-----------------------------------------------------------------------------
(* Types *)

Messages == Request \cup Order \cup Answer

LEMMA MatchIsRecord == ASSUME NEW m \in Match PROVE m # NoMatch
BY EndDeviceBindAssumption

LEMMA SendType ==
  ASSUME NEW m \in Match, NEW rest \in SUBSET Messages, SendNext(m, rest),
         MatchTypeOK
  PROVE  /\ matchED' \in Match \cup {NoMatch}
         /\ timer' \in BOOLEAN
         /\ transID' \in Transaction
         /\ net' \subseteq Messages
         /\ told' \in {told, "success"}
<1>1. transID \in Transaction /\ (transID + 1) % TransMod \in Transaction
  BY EndDeviceBindAssumption DEF MatchTypeOK, Transaction
<1>2. ASSUME NEW src \in EndDevice, NEW c \in ClusterId, NEW dst \in EndDevice,
             SendOrder(m, src, c, dst, rest)
      PROVE  /\ matchED' \in Match /\ timer' \in BOOLEAN
             /\ transID' \in Transaction /\ net' \subseteq Messages /\ told' = told
  <2>1. [m EXCEPT !.transSeq = transID] \in Match
    BY <1>1 DEF Match
  <2>2. [type |-> m.sending, to |-> src, cluster |-> c, dst |-> dst, seq |-> transID]
          \in Order
    BY <1>1 DEF Match, Order
  <2> QED BY <1>1, <1>2, <2>1, <2>2 DEF SendOrder, Messages
<1>3. CASE m.ed1Matched # <<>>
  <2>1. /\ m.ed1 \in EndDevice /\ m.ed2 \in EndDevice
        /\ m.ed1Matched \in Seq(ClusterId)
    BY DEF Match
  <2>2. Last(m.ed1Matched) \in ClusterId
    BY <1>3, <2>1, FrontFacts
  <2>3. SendOrder(m, m.ed1, Last(m.ed1Matched), m.ed2, rest)
    BY <1>3 DEF SendNext
  <2> QED BY <1>2, <2>1, <2>2, <2>3
<1>4. CASE m.ed1Matched = <<>> /\ m.ed2Matched # <<>>
  <2>1. /\ m.ed1 \in EndDevice /\ m.ed2 \in EndDevice
        /\ m.ed2Matched \in Seq(ClusterId)
    BY DEF Match
  <2>2. Last(m.ed2Matched) \in ClusterId
    BY <1>4, <2>1, FrontFacts
  <2>3. SendOrder(m, m.ed2, Last(m.ed2Matched), m.ed1, rest)
    BY <1>4 DEF SendNext
  <2> QED BY <1>2, <2>1, <2>2, <2>3
<1>5. CASE m.ed1Matched = <<>> /\ m.ed2Matched = <<>>
  BY <1>1, <1>5 DEF SendNext, End
<1> QED BY <1>3, <1>4, <1>5

LEMMA PairedFacts ==
  ASSUME MatchTypeOK, NEW n \in Request, matchED # NoMatch
  PROVE  /\ Paired(n) \in Match
         /\ Paired(n).state = "binds" /\ Paired(n).sending = "unbind_req"
         /\ Paired(n).ed1 # Paired(n).ed2 => Distinct(Paired(n))
<1>1. matchED \in Match /\ n.src \in EndDevice
  BY DEF MatchTypeOK, Request
<1>2. PICK a \in EndDevice, b \in EndDevice : a = matchED.ed1 /\ b = n.src
  BY <1>1 DEF Match
<1>3. PICK s, t : s = CommonClusters(Out[a], In[b]) /\ t = CommonClusters(Out[b], In[a])
  OBVIOUS
<1>4. /\ s \in Seq(ClusterId) /\ IsInjective(s)
      /\ t \in Seq(ClusterId) /\ IsInjective(t)
  BY <1>3, EndDeviceBindAssumption
<1>5. Paired(n) = [matchED EXCEPT !.ed2 = b, !.state = "binds",
                     !.sending = "unbind_req", !.ed1Matched = s, !.ed2Matched = t]
  BY <1>2, <1>3 DEF Paired
<1>6. /\ Paired(n) \in Match
      /\ Paired(n).state = "binds" /\ Paired(n).sending = "unbind_req"
      /\ Paired(n).ed1Matched = s /\ Paired(n).ed2Matched = t
  BY <1>1, <1>4, <1>5 DEF Match
<1> QED BY <1>4, <1>6 DEF Distinct

LEMMA MatchTypeInit == ASSUME MatchInit PROVE MatchTypeOK
<1>1. transID \in Transaction
  BY EndDeviceBindAssumption DEF MatchInit, Transaction
<1> QED BY <1>1 DEF MatchInit, MatchTypeOK, NoStart

LEMMA MatchTypeStep ==
  ASSUME MatchTypeOK, [MatchNext]_matchVars
  PROVE  MatchTypeOK'
<1> DEFINE Binding == EndDevice \X ClusterId \X EndDevice
           History == [about : SUBSET Binding, held : SUBSET Binding, clean : BOOLEAN]
<1>1. /\ matchED \in Match \cup {NoMatch}
      /\ timer \in BOOLEAN /\ transID \in Transaction
      /\ net \subseteq Messages
      /\ bound \in [EndDevice -> SUBSET (ClusterId \X EndDevice)]
      /\ told \in {"nothing", "success", "full", "timeout", "nomatch"}
      /\ start \in History
  BY DEF MatchTypeOK, Messages
<1>2. ASSUME /\ matchED' \in Match \cup {NoMatch}
             /\ timer' \in BOOLEAN /\ transID' \in Transaction
             /\ net' \subseteq Messages
             /\ bound' \in [EndDevice -> SUBSET (ClusterId \X EndDevice)]
             /\ told' \in {"nothing", "success", "full", "timeout", "nomatch"}
             /\ start' \in History
      PROVE  MatchTypeOK'
  BY <1>2 DEF MatchTypeOK, Messages
<1> HIDE DEF Binding
<1>3. ASSUME NEW n \in net, Response(n)
      PROVE  /\ matchED' \in Match \cup {NoMatch}
             /\ timer' \in BOOLEAN /\ transID' \in Transaction
             /\ net' \subseteq Messages
             /\ told' \in {"nothing", "success", "full", "timeout", "nomatch"}
  <2>1. CASE UNCHANGED <<matchED, timer, transID, told>> /\ net' = net \ {n}
    BY <1>1, <2>1
  <2>2. CASE /\ matchED # NoMatch
             /\ n.type = "unbind_rsp" /\ UnbindResponse(n.status, net \ {n})
    <3>1. matchED \in Match
      BY <1>1, <2>2
    <3>2. PICK x \in Match, y \in Match :
            /\ x = [matchED EXCEPT !.sending = "unbind_req"]
            /\ y = [matchED EXCEPT !.sending = "bind_req"]
      BY <3>1 DEF Match
    <3>3. Moved(x) \in Match
      <4>1. CASE Bindings(x) # {}
        BY <4>1, MovedFacts
      <4>2. CASE Bindings(x) = {}
        BY <4>2, BindingsFacts DEF Moved
      <4> QED BY <4>1, <4>2
    <3>4. PICK z \in Match, rest \in SUBSET Messages :
            rest = net \ {n} /\ SendNext(z, rest)
      BY <1>1, <2>2, <3>2, <3>3 DEF UnbindResponse
    <3> QED BY <1>1, <3>4, SendType
  <2>3. CASE /\ matchED # NoMatch
             /\ n.type # "unbind_rsp" /\ BindResponse(n.status, net \ {n})
    <3>1. matchED \in Match
      BY <1>1, <2>3
    <3>2. PICK x \in Match : x = [matchED EXCEPT !.sending = "unbind_req"]
      BY <3>1 DEF Match
    <3>3. Moved(x) \in Match
      <4>1. CASE Bindings(x) # {}
        BY <4>1, MovedFacts
      <4>2. CASE Bindings(x) = {}
        BY <4>2, BindingsFacts DEF Moved
      <4> QED BY <4>1, <4>2
    <3>4. CASE n.status = "success"
      <4>1. PICK z \in Match, rest \in SUBSET Messages :
              rest = net \ {n} /\ SendNext(z, rest)
        BY <1>1, <2>3, <3>2, <3>3, <3>4 DEF BindResponse
      <4> QED BY <1>1, <4>1, SendType
    <3>5. CASE n.status # "success"
      <4>1. n \in Answer /\ n.type = "bind_rsp"
        BY <1>1, <1>3, <2>3 DEF Response, Messages, Request, Order, Answer
      <4>2. n.status \in {"success", "full"}
        BY <4>1 DEF Answer
      <4> QED BY <1>1, <2>3, <3>5, <4>2 DEF BindResponse, End
    <3> QED BY <3>4, <3>5
  <2> QED BY <1>3, <2>1, <2>2, <2>3 DEF Response
<1>4. ASSUME NEW n \in net, FirstRequest(n) PROVE MatchTypeOK'
  <2>1. n.src \in EndDevice
    BY <1>1, <1>4 DEF FirstRequest, Messages, Request, Order, Answer
  <2>2. 0 \in Transaction /\ <<>> \in Seq(ClusterId)
    BY EndDeviceBindAssumption DEF Transaction
  <2>3. matchED' \in Match
    BY <1>4, <2>1, <2>2 DEF FirstRequest, Match
  <2>4. NoStart \in History
    BY DEF NoStart
  <2> QED BY <1>1, <1>2, <1>4, <2>3, <2>4 DEF FirstRequest
<1>5. ASSUME NEW n \in net, SecondRequest(n) PROVE MatchTypeOK'
  <2>1. n \in Request /\ matchED # NoMatch
    BY <1>1, <1>5 DEF SecondRequest, Messages, Request, Order, Answer
  <2>2. PICK m \in Match : m = Paired(n)
    BY <2>1, PairedFacts
  <2>3. Bindings(m) \in SUBSET Binding
    <3>1. m.ed1Matched \in Seq(ClusterId) /\ m.ed2Matched \in Seq(ClusterId)
          /\ m.ed1 \in EndDevice /\ m.ed2 \in EndDevice
      BY DEF Match
    <3>2. ToSet(m.ed1Matched) \subseteq ClusterId /\ ToSet(m.ed2Matched) \subseteq ClusterId
      BY <3>1, ToSetFacts
    <3> QED BY <3>1, <3>2 DEF Bindings, Binding
  <2>4. start' \in History
    <3>1. CASE UNCHANGED start
      BY <1>1, <3>1
    <3>2. CASE start' = [about |-> Bindings(m), held |-> {b \in Bindings(m) : Exists(b)},
                         clean |-> /\ m.ed1 # m.ed2
                                   /\ \A o \in net : o.type \notin {"bind_req", "unbind_req"}]
      BY <2>3, <3>2
    <3> QED BY <1>5, <2>2, <3>1, <3>2 DEF SecondRequest
  <2>5. PICK rest \in SUBSET Messages : rest = net \ {n}
    BY <1>1
  <2>6. CASE SendNext(m, rest)
    <3>1. UNCHANGED bound
      BY <1>5 DEF SecondRequest
    <3> QED BY <1>1, <1>2, <2>4, <2>6, <3>1, SendType
  <2>7. CASE End("nomatch", rest) /\ UNCHANGED timer
    BY <1>1, <1>2, <1>5, <2>4, <2>5, <2>7 DEF SecondRequest, End
  <2> QED BY <1>5, <2>2, <2>5, <2>6, <2>7 DEF SecondRequest
<1>6. ASSUME NEW n \in net, BindOrder(n) \/ UnbindOrder(n) PROVE MatchTypeOK'
  <2>1. /\ n.to \in EndDevice /\ n.cluster \in ClusterId /\ n.dst \in EndDevice
        /\ n.seq \in Transaction
    BY <1>1, <1>6 DEF BindOrder, UnbindOrder, Messages, Request, Order, Answer
  <2>2. bound' \in [EndDevice -> SUBSET (ClusterId \X EndDevice)]
    BY <1>1, <1>6, <2>1 DEF BindOrder, UnbindOrder
  <2>3. net' \subseteq Messages
    <3>1. PICK status : /\ Respond(n, status)
                        /\ status \in IF n.type = "bind_req" THEN {"success", "full"}
                                      ELSE {"success", "none"}
      BY <1>6 DEF BindOrder, UnbindOrder
    <3>2. [type |-> IF n.type = "bind_req" THEN "bind_rsp" ELSE "unbind_rsp",
           seq |-> n.seq, status |-> status] \in Answer
      BY <2>1, <3>1 DEF Answer
    <3> QED BY <1>1, <3>1, <3>2 DEF Respond, Messages
  <2> QED BY <1>1, <1>2, <1>6, <2>2, <2>3 DEF BindOrder, UnbindOrder
<1>7. ASSUME NEW n, Lose(n) PROVE MatchTypeOK'
  BY <1>1, <1>2, <1>7 DEF Lose
<1>8. ASSUME NEW d \in EndDevice, Press(d) PROVE MatchTypeOK'
  <2>1. [type |-> "edbind_req", src |-> d] \in Messages
    BY DEF Messages, Request
  <2> QED BY <1>1, <1>2, <1>8, <2>1 DEF Press
<1>9. CASE Timeout
  BY <1>1, <1>2, <1>9 DEF Timeout, End
<1>10. CASE UNCHANGED matchVars
  BY <1>1, <1>2, <1>10 DEF matchVars
<1>11. ASSUME NEW n \in net, Response(n) PROVE MatchTypeOK'
  BY <1>1, <1>2, <1>3, <1>11 DEF Response
<1> QED BY <1>4, <1>5, <1>6, <1>7, <1>8, <1>9, <1>10, <1>11 DEF MatchNext, Receive
-----------------------------------------------------------------------------
(* What is known of a match that began cleanly: what it has done with, what *)
(* is still to do, and what the one message under way means.                *)

IsOrder(n) == n.type \in {"bind_req", "unbind_req"}
IsAnswer(n) == n.type \in {"bind_rsp", "unbind_rsp"}

Holds(b, tables) == <<b[2], b[3]>> \in tables[b[1]]
Changed(b, s, tables) == ~(Holds(b, tables) <=> b \in s.held)

CurrentOrder(m) ==
  [type |-> m.sending, to |-> Current(m)[1], cluster |-> Current(m)[2],
   dst |-> Current(m)[3], seq |-> m.transSeq]

Done(m, s, tables) ==
  /\ Distinct(m)
  /\ Bindings(m) \subseteq s.about
  /\ \A b \in s.about : b \notin Bindings(m) => Changed(b, s, tables)

ToDo(m, s, tables) ==
  \A b \in Bindings(m) : b # Current(m) => ~Changed(b, s, tables)

BindsNew(m, s) == m.sending = "bind_req" => Current(m) \notin s.held

OrdersSound(m, s, tables, messages) ==
  \A n \in messages : IsOrder(n) =>
    n = CurrentOrder(m) /\ ~Changed(Current(m), s, tables)

AnswersSound(m, s, tables, messages) ==
  \A n \in messages : IsAnswer(n) /\ n.seq = m.transSeq =>
    /\ \A o \in messages : ~IsOrder(o)
    /\ n.type = "bind_rsp" <=> m.sending = "bind_req"
    /\ n.status = "success" => Changed(Current(m), s, tables)
    /\ n.status # "success" => /\ ~Changed(Current(m), s, tables)
                               /\ ~Holds(Current(m), tables)

Sound(m, s, tables, messages) ==
  /\ Bindings(m) # {}
  /\ Done(m, s, tables) /\ ToDo(m, s, tables) /\ BindsNew(m, s)
  /\ OrdersSound(m, s, tables, messages)
  /\ AnswersSound(m, s, tables, messages)

MatchSound ==
  matchED # NoMatch /\ matchED.state = "binds" /\ start.clean =>
    Sound(matchED, start, bound, net)

(* While the first request waits there is nothing to change. *)
WaitSound ==
  matchED # NoMatch /\ matchED.state = "wait" =>
    Bindings(matchED) = {} /\ start.about = {}

TInv == MatchTypeOK /\ WaitSound /\ MatchSound

(* The next order of a match that is about to change what is left of it *)
LEMMA SendSound ==
  ASSUME NEW m \in Match, NEW s, NEW tables, NEW rest \in SUBSET Messages,
         transID \in Transaction,
         SendNext(m, rest), Done(m, s, tables),
         \A b \in Bindings(m) : ~Changed(b, s, tables),
         BindsNew(m, s),
         \A n \in rest : ~IsOrder(n)
  PROVE  /\ Bindings(m) = {} => matchED' = NoMatch /\ told' = "success"
         /\ Bindings(m) # {} => /\ matchED' \in Match /\ matchED'.state = m.state
                                /\ Sound(matchED', s, tables, net')
<1>1. CASE Bindings(m) = {}
  BY <1>1, BindingsFacts DEF SendNext, End
<1>2. CASE Bindings(m) # {}
  <2>1. PICK a, c, d : /\ Current(m) = <<a, c, d>>
                       /\ SendOrder(m, a, c, d, rest)
    <3>1. CASE m.ed1Matched # <<>>
      BY <3>1 DEF Current, SendNext
    <3>2. CASE m.ed1Matched = <<>>
      <4>1. m.ed2Matched # <<>>
        BY <1>2, <3>2, BindingsFacts
      <4> QED BY <3>2, <4>1 DEF Current, SendNext
    <3> QED BY <3>1, <3>2
  <2>2. PICK x \in Match : x = [m EXCEPT !.transSeq = transID]
    BY DEF Match
  <2>3. /\ x.ed1 = m.ed1 /\ x.ed2 = m.ed2 /\ x.state = m.state
        /\ x.sending = m.sending /\ x.transSeq = transID
        /\ x.ed1Matched = m.ed1Matched /\ x.ed2Matched = m.ed2Matched
    BY <2>2 DEF Match
  <2>4. Bindings(x) = Bindings(m) /\ Current(x) = Current(m)
    BY <2>3 DEF Bindings, Current
  <2>5. Done(x, s, tables) /\ ToDo(x, s, tables) /\ BindsNew(x, s)
    BY <2>3, <2>4 DEF Done, ToDo, BindsNew, Distinct
  <2>6. PICK o : o = [type |-> m.sending, to |-> a, cluster |-> c, dst |-> d,
                      seq |-> transID]
    OBVIOUS
  <2>7. /\ matchED' = x
        /\ net' = {n \in rest : n.type = "edbind_req" \/ n.seq # transID} \cup {o}
    BY <2>1, <2>2, <2>6 DEF SendOrder
  <2>8. o = CurrentOrder(x) /\ IsOrder(o)
    BY <2>1, <2>3, <2>4, <2>6 DEF CurrentOrder, IsOrder, Match
  <2>9. ~Changed(Current(x), s, tables)
    BY <1>2, <2>4, BindingsFacts
  <2>10. OrdersSound(x, s, tables, net')
    BY <2>7, <2>8, <2>9 DEF OrdersSound
  <2>11. AnswersSound(x, s, tables, net')
    <3>1. \A n \in net' : ~(IsAnswer(n) /\ n.seq = x.transSeq)
      BY <2>3, <2>7, <2>8 DEF IsAnswer, IsOrder
    <3> QED BY <3>1 DEF AnswersSound
  <2> QED BY <1>2, <2>3, <2>4, <2>5, <2>7, <2>10, <2>11 DEF Sound
<1> QED BY <1>1, <1>2

(* The answer to the order under way moves the match on. *)
LEMMA AnswerSound ==
  ASSUME TInv, NEW n \in net, matchED # NoMatch, Response(n), Awaited(n.seq),
         matchED.state = "binds", start.clean
  PROVE  \/ matchED' = NoMatch /\ told' # "success"
         \/ /\ matchED' = NoMatch
            /\ \A b \in start.about : Changed(b, start, bound)
         \/ /\ matchED' \in Match /\ matchED'.state = "binds"
            /\ Sound(matchED', start, bound, net')
<1>1. /\ matchED \in Match /\ transID \in Transaction
      /\ n \in Messages /\ net \subseteq Messages
      /\ Sound(matchED, start, bound, net)
  BY DEF TInv, MatchTypeOK, MatchSound, Messages
<1>2. PICK m \in Match : m = matchED
  BY <1>1
<1>3. Sound(m, start, bound, net) /\ n.seq = m.transSeq /\ IsAnswer(n)
  BY <1>1, <1>2 DEF Awaited, Response, IsAnswer
<1>4. /\ \A o \in net : ~IsOrder(o)
      /\ n.type = "bind_rsp" <=> m.sending = "bind_req"
      /\ n.status = "success" => Changed(Current(m), start, bound)
      /\ n.status # "success" => /\ ~Changed(Current(m), start, bound)
                                 /\ ~Holds(Current(m), bound)
  BY <1>3 DEF Sound, AnswersSound
<1>5. PICK rest \in SUBSET Messages : rest = net \ {n} /\ \A o \in rest : ~IsOrder(o)
  BY <1>1, <1>4
<1>6. /\ Bindings(m) # {} /\ Done(m, start, bound) /\ ToDo(m, start, bound)
      /\ m.state = "binds"
  BY <1>2, <1>3 DEF Sound
<1>7. CASE n.status = "success"
  <2>1. PICK x \in Match : x = [m EXCEPT !.sending = "unbind_req"]
    BY DEF Match
  <2>2. /\ x.ed1 = m.ed1 /\ x.ed2 = m.ed2 /\ x.state = m.state
        /\ x.sending = "unbind_req"
        /\ x.ed1Matched = m.ed1Matched /\ x.ed2Matched = m.ed2Matched
    BY <2>1 DEF Match
  <2>3. Bindings(x) = Bindings(m) /\ Current(x) = Current(m) /\ Distinct(x)
    BY <1>6, <2>2 DEF Bindings, Current, Done, Distinct
  <2>4. PICK y \in Match : y = Moved(x)
    BY <1>6, <2>3, MovedFacts
  <2>5. /\ y.sending = "unbind_req" /\ y.state = "binds" /\ Distinct(y)
        /\ Bindings(y) = Bindings(m) \ {Current(m)}
    BY <1>6, <2>2, <2>3, <2>4, MovedFacts
  <2>6. SendNext(y, rest)
    <3>1. CASE n.type = "unbind_rsp"
      BY <1>2, <1>5, <1>7, <2>1, <2>4, <3>1 DEF Response, UnbindResponse, Awaited
    <3>2. CASE n.type # "unbind_rsp"
      BY <1>2, <1>5, <1>7, <2>1, <2>4, <3>2 DEF Response, BindResponse, Awaited
    <3> QED BY <3>1, <3>2
  <2>7. Done(y, start, bound)
    BY <1>4, <1>6, <1>7, <2>5 DEF Done
  <2>8. \A b \in Bindings(y) : ~Changed(b, start, bound)
    BY <1>6, <2>5 DEF ToDo
  <2>9. BindsNew(y, start)
    BY <2>5 DEF BindsNew
  <2>10. /\ Bindings(y) = {} => matchED' = NoMatch /\ told' = "success"
         /\ Bindings(y) # {} => /\ matchED' \in Match /\ matchED'.state = y.state
                                /\ Sound(matchED', start, bound, net')
    BY <1>1, <1>5, <2>6, <2>7, <2>8, <2>9, SendSound
  <2> QED BY <2>5, <2>7, <2>10 DEF Done
<1>8. CASE n.status # "success" /\ n.type = "unbind_rsp"
  <2>1. PICK x \in Match : x = [m EXCEPT !.sending = "bind_req"]
    BY DEF Match
  <2>2. /\ x.ed1 = m.ed1 /\ x.ed2 = m.ed2 /\ x.state = m.state
        /\ x.sending = "bind_req"
        /\ x.ed1Matched = m.ed1Matched /\ x.ed2Matched = m.ed2Matched
    BY <2>1 DEF Match
  <2>3. Bindings(x) = Bindings(m) /\ Current(x) = Current(m) /\ Distinct(x)
    BY <1>6, <2>2 DEF Bindings, Current, Done, Distinct
  <2>4. SendNext(x, rest)
    BY <1>2, <1>5, <1>8, <2>1 DEF Response, UnbindResponse, Awaited
  <2>5. Done(x, start, bound)
    BY <1>6, <2>3 DEF Done
  <2>6. \A b \in Bindings(x) : ~Changed(b, start, bound)
    BY <1>4, <1>6, <1>8, <2>3 DEF ToDo
  <2>7. BindsNew(x, start)
    BY <1>4, <1>8, <2>3 DEF BindsNew, Changed
  <2>8. /\ matchED' \in Match /\ matchED'.state = x.state
        /\ Sound(matchED', start, bound, net')
    BY <1>1, <1>5, <1>6, <2>3, <2>4, <2>5, <2>6, <2>7, SendSound
  <2> QED BY <1>6, <2>2, <2>8
<1>9. CASE n.status # "success" /\ n.type # "unbind_rsp"
  BY <1>9 DEF Response, BindResponse, End, Awaited
<1> QED BY <1>7, <1>8, <1>9

(* A device that handles an order changes one binding and answers. *)
LEMMA OrderDone ==
  ASSUME MatchTypeOK, NEW n \in net, BindOrder(n) \/ UnbindOrder(n),
         NEW cur \in EndDevice \X ClusterId \X EndDevice,
         n.to = cur[1], n.cluster = cur[2], n.dst = cur[3]
  PROVE  /\ \A b \in EndDevice \X ClusterId \X EndDevice :
              b # cur => Holds(b, bound') = Holds(b, bound)
         /\ \E status : /\ Respond(n, status)
                        /\ status = "success" =>
                             /\ n.type = "bind_req" => Holds(cur, bound')
                             /\ n.type = "unbind_req" => /\ Holds(cur, bound)
                                                         /\ ~Holds(cur, bound')
                        /\ status # "success" => /\ ~Holds(cur, bound)
                                                 /\ ~Holds(cur, bound')
<1>1. bound \in [EndDevice -> SUBSET (ClusterId \X EndDevice)]
  BY DEF MatchTypeOK
<1>2. PICK t \in EndDevice, c \in ClusterId, d \in EndDevice : cur = <<t, c, d>>
  OBVIOUS
<1>3. n.to = t /\ n.cluster = c /\ n.dst = d
  BY <1>2
<1>4. \A b \in EndDevice \X ClusterId \X EndDevice :
        \E x \in EndDevice, y \in ClusterId, z \in EndDevice : b = <<x, y, z>>
  OBVIOUS
<1>5. ASSUME NEW x \in EndDevice, NEW y \in ClusterId, NEW z \in EndDevice,
             <<x, y, z>> # cur
      PROVE  Holds(<<x, y, z>>, bound') = Holds(<<x, y, z>>, bound)
  <2>1. x # t \/ <<y, z>> # <<c, d>>
    BY <1>2, <1>5
  <2> QED BY <1>1, <1>3, <2>1 DEF BindOrder, UnbindOrder, Holds
<1>6. CASE BindOrder(n)
  BY <1>1, <1>2, <1>3, <1>4, <1>5, <1>6 DEF BindOrder, Holds
<1>7. CASE UnbindOrder(n)
  BY <1>1, <1>2, <1>3, <1>4, <1>5, <1>7 DEF UnbindOrder, Holds
<1> QED BY <1>6, <1>7

LEMMA OrderSound ==
  ASSUME TInv, NEW n \in net, BindOrder(n) \/ UnbindOrder(n)
  PROVE  MatchSound'
<1>1. UNCHANGED <<matchED, start>>
  BY DEF BindOrder, UnbindOrder
<1>2. SUFFICES ASSUME matchED # NoMatch, matchED.state = "binds", start.clean
               PROVE  Sound(matchED, start, bound', net')
  BY <1>1 DEF MatchSound
<1>3. PICK m \in Match : m = matchED /\ Sound(m, start, bound, net)
  BY <1>2 DEF TInv, MatchTypeOK, MatchSound
<1>4. IsOrder(n)
  BY DEF BindOrder, UnbindOrder, IsOrder
<1>5. /\ n = CurrentOrder(m) /\ ~Changed(Current(m), start, bound)
      /\ \A o \in net : IsOrder(o) => o = n
  BY <1>3, <1>4 DEF Sound, OrdersSound
<1>6. \A o \in net : ~(IsAnswer(o) /\ o.seq = m.transSeq)
  BY <1>3, <1>4 DEF Sound, AnswersSound
<1>7. PICK cur \in EndDevice \X ClusterId \X EndDevice : cur = Current(m)
  BY <1>3, BindingsFacts DEF Sound
<1>8. /\ n.to = cur[1] /\ n.cluster = cur[2] /\ n.dst = cur[3]
      /\ n.type = m.sending /\ n.seq = m.transSeq
  BY <1>5, <1>7 DEF CurrentOrder
<1>9. MatchTypeOK
  BY DEF TInv
<1>10. /\ \A b \in EndDevice \X ClusterId \X EndDevice :
              b # cur => Holds(b, bound') = Holds(b, bound)
       /\ \E status : /\ Respond(n, status)
                      /\ status = "success" =>
                           /\ n.type = "bind_req" => Holds(cur, bound')
                           /\ n.type = "unbind_req" => /\ Holds(cur, bound)
                                                       /\ ~Holds(cur, bound')
                      /\ status # "success" => /\ ~Holds(cur, bound)
                                               /\ ~Holds(cur, bound')
  BY <1>8, <1>9, OrderDone
<1>11. PICK status : /\ Respond(n, status)
                     /\ status = "success" =>
                          /\ n.type = "bind_req" => Holds(cur, bound')
                          /\ n.type = "unbind_req" => /\ Holds(cur, bound)
                                                      /\ ~Holds(cur, bound')
                     /\ status # "success" => /\ ~Holds(cur, bound)
                                              /\ ~Holds(cur, bound')
  BY <1>10
<1>12. start.about \subseteq EndDevice \X ClusterId \X EndDevice
  BY <1>9 DEF MatchTypeOK
<1>13. \A b \in start.about : b # cur =>
         Changed(b, start, bound') = Changed(b, start, bound)
  BY <1>10, <1>12 DEF Changed
<1>14. Current(m) \in Bindings(m) /\ Done(m, start, bound) /\ ToDo(m, start, bound)
  BY <1>3, BindingsFacts DEF Sound
<1>15. Done(m, start, bound') /\ ToDo(m, start, bound')
  BY <1>7, <1>13, <1>14 DEF Done, ToDo
<1>16. m.sending \in {"bind_req", "unbind_req"}
  BY DEF Match
<1>17. /\ status = "success" => Changed(cur, start, bound')
       /\ status # "success" => ~Changed(cur, start, bound') /\ ~Holds(cur, bound')
  <2>1. m.sending = "bind_req" => cur \notin start.held
    BY <1>3, <1>7 DEF Sound, BindsNew
  <2> QED BY <1>5, <1>7, <1>8, <1>11, <1>16, <2>1 DEF Changed
<1>18. PICK reply : reply = [type |-> IF n.type = "bind_req" THEN "bind_rsp"
                                        ELSE "unbind_rsp",
                               seq |-> n.seq, status |-> status]
  OBVIOUS
<1>19. /\ reply.seq = m.transSeq /\ reply.status = status
       /\ reply.type = "bind_rsp" <=> m.sending = "bind_req"
       /\ ~IsOrder(reply)
  BY <1>8, <1>18 DEF IsOrder
<1>20. net' = (net \ {n}) \cup {reply}
  BY <1>11, <1>18 DEF Respond
<1>21. \A o \in net' : ~IsOrder(o)
  BY <1>5, <1>19, <1>20
<1>22. \A o \in net' : IsAnswer(o) /\ o.seq = m.transSeq => o = reply
  BY <1>6, <1>20
<1>23. AnswersSound(m, start, bound', net')
  BY <1>7, <1>17, <1>19, <1>21, <1>22 DEF AnswersSound
<1>24. OrdersSound(m, start, bound', net')
  BY <1>21 DEF OrdersSound
<1> QED BY <1>3, <1>15, <1>23, <1>24 DEF Sound

(* A second request begins the match anew. *)
LEMMA RequestSound ==
  ASSUME TInv, NEW n \in net, SecondRequest(n)
  PROVE  MatchSound' /\ WaitSound'
<1>1. /\ MatchTypeOK /\ net \subseteq Messages /\ transID \in Transaction
      /\ UNCHANGED bound
  BY DEF TInv, MatchTypeOK, Messages, SecondRequest
<1>2. n \in Request /\ matchED # NoMatch
  BY <1>1 DEF SecondRequest, Messages, Request, Order, Answer
<1>3. PICK m \in Match : m = Paired(n)
  BY <1>1, <1>2, PairedFacts
<1>4. /\ m.state = "binds" /\ m.sending = "unbind_req"
      /\ m.ed1 # m.ed2 => Distinct(m)
  BY <1>1, <1>2, <1>3, PairedFacts
<1>5. CASE matchED' = NoMatch
  BY <1>5 DEF MatchSound, WaitSound
<1>6. CASE Bindings(m) # {}
  <2>1. PICK rest \in SUBSET Messages : rest = net \ {n} /\ SendNext(m, rest)
    BY <1>1, <1>3, <1>6 DEF SecondRequest
  <2>2. start' = [about |-> Bindings(m), held |-> {b \in Bindings(m) : Exists(b)},
                  clean |-> /\ m.ed1 # m.ed2
                            /\ \A o \in net : o.type \notin {"bind_req", "unbind_req"}]
    BY <1>3, <1>6 DEF SecondRequest
  <2>3. CASE start'.clean
    <3>1. /\ m.ed1 # m.ed2
          /\ \A o \in net : o.type \notin {"bind_req", "unbind_req"}
      BY <2>2, <2>3
    <3>2. \A b \in Bindings(m) : ~Changed(b, start', bound)
      <4>1. start'.held = {b \in Bindings(m) : Exists(b)}
        BY <2>2
      <4>2. \A b \in Bindings(m) : b \in start'.held <=> Exists(b)
        BY Zenon, <4>1
      <4>3. \A b : Holds(b, bound) <=> Exists(b)
        BY DEF Holds, Exists
      <4> QED BY <4>2, <4>3 DEF Changed
    <3>3. Done(m, start', bound) /\ BindsNew(m, start')
      BY <1>4, <2>2, <3>1 DEF Done, BindsNew
    <3>4. \A o \in rest : ~IsOrder(o)
      BY <2>1, <3>1 DEF IsOrder
    <3>5. /\ matchED' \in Match /\ matchED'.state = m.state
          /\ Sound(matchED', start', bound, net')
      <4>1. PICK s : s = start'
        OBVIOUS
      <4>2. /\ Done(m, s, bound) /\ BindsNew(m, s)
            /\ \A b \in Bindings(m) : ~Changed(b, s, bound)
        BY <3>2, <3>3, <4>1
      <4>3. /\ matchED' \in Match /\ matchED'.state = m.state
            /\ Sound(matchED', s, bound, net')
        BY <1>1, <1>6, <2>1, <3>4, <4>2, SendSound
      <4> QED BY <4>1, <4>3
    <3> QED BY <1>1, <1>4, <3>5 DEF MatchSound, WaitSound
  <2>4. CASE ~start'.clean
    <3>1. matchED'.state = "binds"
      <4>1. PICK a, c, d : SendOrder(m, a, c, d, rest)
        BY <1>6, <2>1, BindingsFacts DEF SendNext
      <4> QED BY <1>4, <4>1 DEF SendOrder, Match
    <3> QED BY <2>4, <3>1 DEF MatchSound, WaitSound
  <2> QED BY <2>3, <2>4
<1>7. CASE Bindings(m) = {}
  BY <1>3, <1>5, <1>7 DEF SecondRequest, End
<1> QED BY <1>6, <1>7

LEMMA TogglingStep ==
  ASSUME TInv, [MatchNext]_matchVars
  PROVE  TInv'
<1>1. MatchTypeOK'
  BY MatchTypeStep DEF TInv
<1>2. CASE UNCHANGED matchVars
  BY <1>1, <1>2 DEF matchVars, TInv, MatchSound, WaitSound
<1>3. ASSUME NEW n \in net, Response(n) PROVE MatchSound' /\ WaitSound'
  <2>1. UNCHANGED <<bound, start>>
    BY <1>3 DEF Response
  <2>2. CASE UNCHANGED matchED /\ net' = net \ {n}
    BY <2>1, <2>2 DEF TInv, MatchSound, WaitSound, Sound, OrdersSound, AnswersSound
  <2>3. CASE matchED' = NoMatch
    BY <2>3 DEF MatchSound, WaitSound
  <2>4. CASE matchED # NoMatch /\ Awaited(n.seq)
    <3>1. PICK m \in Match : m = matchED
      BY <2>4 DEF TInv, MatchTypeOK
    <3>2. CASE m.state = "binds" /\ start.clean
      <4>1. \/ matchED' = NoMatch
            \/ /\ matchED' \in Match /\ matchED'.state = "binds"
               /\ Sound(matchED', start, bound, net')
        BY <1>3, <2>4, <3>1, <3>2, AnswerSound
      <4> QED BY <2>1, <2>3, <4>1 DEF MatchSound, WaitSound
    <3>3. CASE m.state = "binds" /\ ~start.clean
      <4>1. ASSUME NEW x \in Match, x.state = "binds", NEW rest, SendNext(x, rest)
            PROVE  matchED' = NoMatch \/ matchED'.state = "binds"
        BY <4>1 DEF SendNext, SendOrder, End, Match
      <4>2. ASSUME NEW what \in {"bind_req", "unbind_req"}
            PROVE  LET x == [m EXCEPT !.sending = what]
                   IN  /\ x \in Match /\ x.state = "binds"
                       /\ Moved(x) \in Match /\ Moved(x).state = "binds"
        <5>1. PICK x \in Match : x = [m EXCEPT !.sending = what]
          BY DEF Match
        <5>2. x.state = "binds"
          BY <3>3, <5>1 DEF Match
        <5>3. Moved(x) \in Match /\ Moved(x).state = "binds"
          <6>1. CASE Bindings(x) # {}
            BY <5>2, <6>1, MovedFacts
          <6>2. CASE Bindings(x) = {}
            BY <5>2, <6>2, BindingsFacts DEF Moved
          <6> QED BY <6>1, <6>2
        <5> QED BY <5>1, <5>2, <5>3
      <4>3. matchED' = NoMatch \/ matchED'.state = "binds"
        <5>1. CASE n.type = "unbind_rsp"
          BY <1>3, <2>4, <3>1, <4>1, <4>2, <5>1 DEF Response, UnbindResponse
        <5>2. CASE n.type # "unbind_rsp" /\ n.status = "success"
          BY <1>3, <2>4, <3>1, <4>1, <4>2, <5>2 DEF Response, BindResponse
        <5>3. CASE n.type # "unbind_rsp" /\ n.status # "success"
          BY <1>3, <2>4, <5>3 DEF Response, BindResponse, End
        <5> QED BY <5>1, <5>2, <5>3
      <4> QED BY <2>1, <3>3, <4>3 DEF MatchSound, WaitSound
    <3>4. CASE m.state = "wait"
      <4>1. m.ed1Matched = <<>> /\ m.ed2Matched = <<>>
        BY <2>4, <3>1, <3>4, BindingsFacts DEF TInv, WaitSound
      <4>2. ASSUME NEW what, NEW x, x = [m EXCEPT !.sending = what], NEW rest,
                   SendNext(x, rest) \/ SendNext(Moved(x), rest)
            PROVE  matchED' = NoMatch
        <5>1. x.ed1Matched = <<>> /\ x.ed2Matched = <<>>
          BY <4>1, <4>2 DEF Match
        <5>2. Moved(x) = x
          BY <5>1 DEF Moved
        <5> QED BY <4>2, <5>1, <5>2 DEF SendNext, End
      <4>3. matchED' = NoMatch
        BY <1>3, <2>4, <3>1, <4>2 DEF Response, UnbindResponse, BindResponse, End
      <4> QED BY <2>3, <4>3
    <3> QED BY <3>1, <3>2, <3>3, <3>4 DEF Match
  <2> QED BY <1>3, <2>2, <2>4 DEF Response
<1>4. ASSUME NEW n \in net, FirstRequest(n) PROVE MatchSound' /\ WaitSound'
  <2>1. matchED'.state = "wait" /\ Bindings(matchED') = {} /\ start' = NoStart
    BY <1>4 DEF FirstRequest, Bindings, ToSet
  <2> QED BY <2>1 DEF MatchSound, WaitSound, NoStart
<1>5. ASSUME NEW n \in net, SecondRequest(n) PROVE MatchSound' /\ WaitSound'
  BY <1>5, RequestSound
<1>6. ASSUME NEW n \in net, BindOrder(n) \/ UnbindOrder(n)
      PROVE  MatchSound' /\ WaitSound'
  <2>1. UNCHANGED <<matchED, start>>
    BY <1>6 DEF BindOrder, UnbindOrder
  <2> QED BY <1>6, <2>1, OrderSound DEF TInv, WaitSound
<1>7. ASSUME NEW n, Lose(n) PROVE MatchSound' /\ WaitSound'
  BY <1>7 DEF Lose, TInv, MatchSound, WaitSound, Sound, OrdersSound, AnswersSound
<1>8. ASSUME NEW d \in EndDevice, Press(d) PROVE MatchSound' /\ WaitSound'
  <2>1. PICK r : r = [type |-> "edbind_req", src |-> d]
    OBVIOUS
  <2>2. /\ net' = net \cup {r} /\ ~IsOrder(r) /\ ~IsAnswer(r)
        /\ UNCHANGED <<matchED, bound, start>>
    BY <1>8, <2>1 DEF Press, IsOrder, IsAnswer
  <2> QED BY <2>2 DEF TInv, MatchSound, WaitSound, Sound, OrdersSound, AnswersSound
<1>9. ASSUME Timeout PROVE MatchSound' /\ WaitSound'
  <2>1. matchED' = NoMatch
    BY <1>9 DEF Timeout, End
  <2> QED BY <2>1 DEF MatchSound, WaitSound
<1> QED BY <1>1, <1>2, <1>3, <1>4, <1>5, <1>6, <1>7, <1>8, <1>9
        DEF MatchNext, Receive, TInv

(* When both devices are told of success, exactly the bindings that were   *)
(* there at the beginning are gone and the others are made.                *)
THEOREM MatchToggles == MatchSpec => Toggled
<1>1. MatchInit => TInv
  BY MatchTypeInit DEF MatchInit, TInv, MatchSound, WaitSound
<1>2. ASSUME TInv, [MatchNext]_matchVars, matchED # NoMatch, matchED' = NoMatch,
             told' = "success", start.clean, NEW b \in start.about
      PROVE  Exists(b) # (b \in start.held)
  <2>1. PICK m \in Match : m = matchED
    BY <1>2 DEF TInv, MatchTypeOK
  <2>2. CASE m.state = "wait"
    BY <1>2, <2>1, <2>2 DEF TInv, WaitSound
  <2>3. CASE m.state = "binds"
    <3>1. PICK n \in net : Response(n) \/ SecondRequest(n)
      BY <1>2 DEF MatchNext, Receive, matchVars, FirstRequest, BindOrder,
                  UnbindOrder, Lose, Press, Timeout, End
    <3>2. CASE Response(n)
      <4>1. Awaited(n.seq)
        BY <1>2, <3>2 DEF Response
      <4>2. Changed(b, start, bound)
        BY <1>2, <2>1, <2>3, <3>2, <4>1, AnswerSound, MatchIsRecord
      <4> QED BY <4>2 DEF Changed, Holds, Exists
    <3>3. CASE SecondRequest(n)
      <4>1. n \in Request
        BY <1>2, <3>3 DEF SecondRequest, TInv, MatchTypeOK, Request, Order, Answer
      <4>2. PICK x \in Match : x = Paired(n)
        BY <1>2, <4>1, PairedFacts DEF TInv
      <4>3. Bindings(x) # {} /\ SendNext(x, net \ {n})
        BY <1>2, <3>3, <4>2 DEF SecondRequest, End
      <4>4. PICK a, c, d : SendOrder(x, a, c, d, net \ {n})
        BY <4>3, BindingsFacts DEF SendNext
      <4>5. matchED' \in Match
        <5>1. transID \in Transaction
          BY <1>2 DEF TInv, MatchTypeOK
        <5> QED BY <4>4, <5>1 DEF SendOrder, Match
      <4> QED BY <1>2, <4>5, MatchIsRecord
    <3> QED BY <3>1, <3>2, <3>3
  <2> QED BY <2>1, <2>2, <2>3 DEF Match
<1>3. ASSUME TInv, [MatchNext]_matchVars
      PROVE  matchED # NoMatch /\ matchED' = NoMatch /\ told' = "success" /\ start.clean
               => \A b \in start.about : Exists(b) # (b \in start.held)
  BY <1>2, <1>3
<1> QED BY <1>1, <1>3, TogglingStep, PTL DEF MatchSpec, Toggled
=============================================================================
