------------------------------- MODULE DevRing -------------------------------
(***************************************************************************)
(* The circular doubly linked list of T_DevNode blocks that gDrvInfo.      *)
(* pHeadDevNode points to (src/common.h).  The driver thread links a node  *)
(* at the end in DevSetCustomIdiDevData and unlinks it in                  *)
(* DevRemoveCustomIdiDevData; both the driver thread and the ETI thread    *)
(* walk it from the head until they are back at the head.                  *)
(*                                                                         *)
(* A node is identified with the T_DevSto block it points to: the code     *)
(* allocates and frees the two together.  A block that is not linked has   *)
(* NULL in both pointer fields here; the program cannot look at them.      *)
(***************************************************************************)
EXTENDS Integers, FiniteSets

CONSTANTS
  Sto,                 \* the addresses calloc can return for a device's storage
  NULL

ASSUME NULLAssumption == NULL \notin Sto
ASSUME StoAssumption  == IsFiniteSet(Sto)

VARIABLES
  pHeadDevNode,        \* the head of the list, NULL when there is no device
  pNext,               \* T_DevNode.pNext
  pPrevious            \* T_DevNode.pPrevious

ringVars == <<pHeadDevNode, pNext, pPrevious>>

(* The nodes that take part in the list. *)
Linked == {n \in Sto : pNext[n] # NULL}

RingInit ==
  /\ pHeadDevNode = NULL
  /\ pNext        = [n \in Sto |-> NULL]
  /\ pPrevious    = [n \in Sto |-> NULL]

-----------------------------------------------------------------------------
(***************************************************************************)
(* Walking: start at the head, follow pNext, stop when back at the head.   *)
(* The nodes a walk visits are those that lie in every set that holds the  *)
(* head and is closed under pNext.                                         *)
(***************************************************************************)
WalkClosed(S) ==
  /\ pHeadDevNode \in S
  /\ \A n \in S : pNext[n] \in S \cup {NULL}

Walked == {n \in Sto : pHeadDevNode # NULL /\ \A S \in SUBSET Sto : WalkClosed(S) => n \in S}

-----------------------------------------------------------------------------
(* The first device is alone in its ring. *)
LinkOnly(n) ==
  /\ pHeadDevNode = NULL
  /\ pHeadDevNode' = n
  /\ pNext'        = [pNext     EXCEPT ![n] = n]
  /\ pPrevious'    = [pPrevious EXCEPT ![n] = n]

(* Slips a test would pass: the last node is not led on to the new one; the *)
(* new node becomes the head.                                              *)
LinkLastForgetsNext(n) ==
  /\ pHeadDevNode # NULL
  /\ pNext'     = [pNext     EXCEPT ![n] = pHeadDevNode]
  /\ pPrevious' = [pPrevious EXCEPT ![n] = pPrevious[pHeadDevNode], ![pHeadDevNode] = n]
  /\ UNCHANGED pHeadDevNode

LinkLastAtHead(n) ==
  LET last == pPrevious[pHeadDevNode] IN
  /\ pHeadDevNode # NULL
  /\ pNext'        = [pNext     EXCEPT ![n] = pHeadDevNode, ![last] = n]
  /\ pPrevious'    = [pPrevious EXCEPT ![n] = last, ![pHeadDevNode] = n]
  /\ pHeadDevNode' = n

(* A further device goes between the last node and the head. *)
LinkLast(n) ==
  LET last == pPrevious[pHeadDevNode] IN
  /\ pHeadDevNode # NULL
  /\ pNext'     = [pNext     EXCEPT ![n] = pHeadDevNode, ![last] = n]
  /\ pPrevious' = [pPrevious EXCEPT ![n] = last, ![pHeadDevNode] = n]
  /\ UNCHANGED pHeadDevNode

Link(n) == LinkOnly(n) \/ LinkLast(n)

(* A slip: any head is taken for the only node. *)
UnlinkOnlyAnyHead(n) ==
  /\ n = pHeadDevNode
  /\ pHeadDevNode' = NULL
  /\ pNext'        = [pNext     EXCEPT ![n] = NULL]
  /\ pPrevious'    = [pPrevious EXCEPT ![n] = NULL]

(* The only node: the list becomes empty. *)
UnlinkOnly(n) ==
  /\ n = pHeadDevNode
  /\ pNext[n] = n
  /\ pHeadDevNode' = NULL
  /\ pNext'        = [pNext     EXCEPT ![n] = NULL]
  /\ pPrevious'    = [pPrevious EXCEPT ![n] = NULL]

(* A slip: the next node keeps pointing back at the removed one. *)
UnlinkInnerOneWay(n) ==
  /\ ~(n = pHeadDevNode /\ pNext[n] = n)
  /\ pHeadDevNode' = IF n = pHeadDevNode THEN pNext[n] ELSE pHeadDevNode
  /\ pNext'     = [pNext     EXCEPT ![pPrevious[n]] = pNext[n], ![n] = NULL]
  /\ pPrevious' = [pPrevious EXCEPT ![n] = NULL]

(* Its neighbours close the gap; the head moves on when the head is removed. *)
UnlinkInner(n) ==
  /\ ~(n = pHeadDevNode /\ pNext[n] = n)
  /\ pHeadDevNode' = IF n = pHeadDevNode THEN pNext[n] ELSE pHeadDevNode
  /\ pNext'     = [pNext     EXCEPT ![pPrevious[n]] = pNext[n], ![n] = NULL]
  /\ pPrevious' = [pPrevious EXCEPT ![pNext[n]] = pPrevious[n], ![n] = NULL]

Unlink(n) == UnlinkOnly(n) \/ UnlinkInner(n)

-----------------------------------------------------------------------------
RingTypeOK ==
  /\ pHeadDevNode \in Sto \cup {NULL}
  /\ pNext        \in [Sto -> Sto \cup {NULL}]
  /\ pPrevious    \in [Sto -> Sto \cup {NULL}]

(***************************************************************************)
(* The pointers of the list agree: following pNext and then pPrevious (or  *)
(* the other way round) leads back, no linked node points to a block that  *)
(* is not linked, and the head is a linked node exactly when there is one. *)
(***************************************************************************)
RingConsistent ==
  /\ \A n \in Linked : /\ pNext[n] \in Linked
                       /\ pPrevious[n] \in Linked
                       /\ pPrevious[pNext[n]] = n
                       /\ pNext[pPrevious[n]] = n
  /\ \A n \in Sto \ Linked : pPrevious[n] = NULL
  /\ IF Linked = {} THEN pHeadDevNode = NULL ELSE pHeadDevNode \in Linked

(***************************************************************************)
(* A walk from the head reaches every linked node: there is one ring, not  *)
(* several.                                                                *)
(***************************************************************************)
WalkReachesAll == Walked = Linked

=============================================================================
