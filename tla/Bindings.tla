------------------------------ MODULE Bindings ------------------------------
(***************************************************************************)
(* What the binding table promises the rest of the device: it is a set of  *)
(* bindings, each a source, a cluster and a destination; what is not told  *)
(* to be full takes a new one, what is removed is gone, and a restart      *)
(* finds what the last save has kept.  A save that a power failure cuts    *)
(* short loses or keeps what it likes but invents nothing; it may leave a  *)
(* destination in the table twice, and such a table promises less.         *)
(***************************************************************************)
EXTENDS FiniteSets

CONSTANTS
  Source, Cluster, Destination,
  Device,
  On,           \* [Device -> SUBSET Destination], the destinations of a device
  MaxEntries,   \* a table of so many pairs of a source and a destination,
  MaxClusters   \* each with so many clusters

VARIABLES
  held,         \* the bindings
  twice,        \* may a destination be in the table twice?
  kept,         \* what a restart finds
  keptTwice,
  answer        \* the answer to the last request

bvars == <<held, twice, kept, keptTwice, answer>>

Binding == Source \X Cluster \X Destination

Init ==
  /\ held = {} /\ twice = FALSE
  /\ kept = {} /\ keptTwice = FALSE
  /\ answer = "success"

(* The clusters bound between a source and a destination *)
Between(s, d) == {c \in Cluster : <<s, c, d>> \in held}

Pairs == {p \in Source \X Destination : Between(p[1], p[2]) # {}}

Full(s, d) ==
  IF Between(s, d) = {} THEN Cardinality(Pairs) = MaxEntries
  ELSE Cardinality(Between(s, d)) = MaxClusters

Bind(s, c, d) ==
  /\ held' = held \cup {<<s, c, d>>}
  /\ answer' = "success"
  /\ UNCHANGED <<twice, kept, keptTwice>>

Refuse(s, c, d) ==
  /\ twice \/ (<<s, c, d>> \notin held /\ Full(s, d))
  /\ answer' = "table_full"
  /\ UNCHANGED <<held, twice, kept, keptTwice>>

(* Of two entries for a destination only the first is looked at. *)
Unbind(s, c, d) ==
  /\ \/ /\ <<s, c, d>> \in held
        /\ held' = held \ {<<s, c, d>>} \/ (twice /\ held' = held)
        /\ twice' \in {twice, FALSE}
        /\ answer' = "success"
     \/ /\ twice \/ <<s, c, d>> \notin held
        /\ answer' = "no_entry"
        /\ UNCHANGED <<held, twice>>
  /\ UNCHANGED <<kept, keptTwice>>

Leave(dev) ==
  /\ held' = {b \in held : b[3] \notin On[dev]}
  /\ twice' \in {twice, FALSE}
  /\ UNCHANGED <<kept, keptTwice, answer>>

Save == kept' = held /\ keptTwice' = twice /\ UNCHANGED <<held, twice, answer>>

Restart == held' = kept /\ twice' = keptTwice /\ UNCHANGED <<kept, keptTwice, answer>>

SaveCutShort ==
  /\ held' \in SUBSET (held \cup kept)
  /\ twice' \in BOOLEAN
  /\ kept' = held' /\ keptTwice' = twice'
  /\ UNCHANGED answer

Next ==
  \/ \E s \in Source, c \in Cluster, d \in Destination :
       Bind(s, c, d) \/ Refuse(s, c, d) \/ Unbind(s, c, d)
  \/ \E dev \in Device : Leave(dev)
  \/ Save \/ Restart \/ SaveCutShort

Spec == Init /\ [][Next]_bvars
=============================================================================
