------------------------------- MODULE DevList -------------------------------
(***************************************************************************)
(* What the driver's device list promises: the devices with storage, in    *)
(* the order their storage was set up.  A new device goes to the end, and  *)
(* any device may be taken out wherever it stands; the others keep their   *)
(* order.  DevRing implements it with a circular doubly linked list.       *)
(***************************************************************************)
CONSTANT Node          \* addresses of T_DevNode blocks

VARIABLES
  nodes,               \* the nodes in the list
  before               \* the pairs of them of which a walk visits the first first

vars == <<nodes, before>>

Init == nodes = {} /\ before = {}

Insert(n) ==
  /\ n \notin nodes
  /\ nodes'  = nodes \cup {n}
  /\ before' = before \cup (nodes \X {n})

Delete(n) ==
  /\ n \in nodes
  /\ nodes'  = nodes \ {n}
  /\ before' = {p \in before : p[1] # n /\ p[2] # n}

Next == \E n \in Node : Insert(n) \/ Delete(n)

Spec == Init /\ [][Next]_vars

=============================================================================
