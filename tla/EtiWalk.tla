------------------------------- MODULE EtiWalk -------------------------------
(***************************************************************************)
(* The ETI thread (vTaskEtiDevAct in src/eti.cpp) looks a device up in the *)
(* list while the driver thread may be linking or unlinking a node; there  *)
(* is no lock.  Here every access either thread makes to memory the other  *)
(* may be using is a step of its own, in the order of the source.          *)
(*                                                                         *)
(* DevRing has linking and unlinking as single steps; RingAtRest states    *)
(* that the statements below come to the same once they are all done.  A   *)
(* step that would use a freed node does not exist: what it would do is    *)
(* undefined.                                                              *)
(***************************************************************************)
EXTENDS DevRing, Sequences

CONSTANTS
  Uids,                \* the UIDs devices have and ev messages name
  MQ_HARD_LIM,         \* capacity of etiDevActQueue
  MaxMsgs              \* bound: ev messages in a run

ASSUME UidsAssumption  == NULL \notin Uids
ASSUME QueueAssumption == MQ_HARD_LIM \in Nat \ {0} /\ MaxMsgs \in Nat

VARIABLES
  alloc,               \* the nodes that are allocated, each with its T_DevSto
  devUid,              \* T_DevSto.devUid of the node's device, NULL when empty
  regVal,              \* what its register was last set to: an ev message's UID, or NULL
  dpc, dnode, duid,    \* the driver thread: its place, its node, the new device's UID
  etiDevActQueue,      \* the UIDs of the ev messages that wait
  epc, enode, euid,    \* the ETI thread: its place, pDevStorNode, the message's UID
  msgs,                \* ev messages accepted so far
  disturbed,           \* whether a deletion overlapped the walk
  target               \* the node with the UID when the walk began, NULL when none

blockVars  == <<alloc, devUid, regVal>>
driverVars == <<dpc, dnode, duid>>
etiVars    == <<epc, enode, euid, target>>
queueVars  == <<etiDevActQueue, msgs>>
vars       == <<ringVars, blockVars, driverVars, etiVars, queueVars, disturbed>>

Init ==
  /\ RingInit
  /\ alloc  = {}
  /\ devUid = [n \in Sto |-> NULL]
  /\ regVal = [n \in Sto |-> NULL]
  /\ dpc = "idle" /\ dnode = NULL /\ duid = NULL
  /\ epc = "idle" /\ enode = NULL /\ euid = NULL
  /\ etiDevActQueue = <<>> /\ msgs = 0
  /\ disturbed = FALSE /\ target = NULL

-----------------------------------------------------------------------------
(* The driver thread creates a device: DevSetCustomIdiDevData.             *)
AllocNode(n, u) ==
  /\ dpc = "idle" /\ n \in Sto \ alloc
  /\ \A m \in alloc : devUid[m] # u
  /\ alloc' = alloc \cup {n}
  /\ dpc' = "fill" /\ dnode' = n /\ duid' = u
  /\ UNCHANGED <<ringVars, devUid, regVal, etiVars, queueVars, disturbed>>

FillNodeBackOnly ==   \* a slip: the new node's pNext is not set
  /\ dpc = "fill"
  /\ LET last == IF pHeadDevNode = NULL THEN dnode ELSE pPrevious[pHeadDevNode] IN
       /\ pPrevious' = [pPrevious EXCEPT ![dnode] = last]
       /\ dpc' = "publish"
  /\ UNCHANGED <<pHeadDevNode, pNext, blockVars, dnode, duid, etiVars, queueVars, disturbed>>

(* The new node's own pointers; no other thread sees it yet. *)
FillNode ==
  /\ dpc = "fill"
  /\ LET head == IF pHeadDevNode = NULL THEN dnode ELSE pHeadDevNode
         last == IF pHeadDevNode = NULL THEN dnode ELSE pPrevious[pHeadDevNode]
     IN /\ pNext'     = [pNext EXCEPT ![dnode] = head]
        /\ pPrevious' = [pPrevious EXCEPT ![dnode] = last]
  /\ dpc' = "publish"
  /\ UNCHANGED <<pHeadDevNode, blockVars, dnode, duid, etiVars, queueVars, disturbed>>

(* pHeadDevNode, or the last node's pNext, leads to it. *)
PublishOnly ==
  /\ dpc = "publish" /\ pHeadDevNode = NULL
  /\ pHeadDevNode' = dnode
  /\ dpc' = "uid"
  /\ UNCHANGED <<pNext, pPrevious, blockVars, dnode, duid, etiVars, queueVars, disturbed>>

PublishLast ==
  /\ dpc = "publish" /\ pHeadDevNode # NULL
  /\ pNext' = [pNext EXCEPT ![pPrevious[pHeadDevNode]] = dnode]
  /\ dpc' = "back"
  /\ UNCHANGED <<pHeadDevNode, pPrevious, blockVars, dnode, duid, etiVars, queueVars, disturbed>>

LinkBack ==
  /\ dpc = "back"
  /\ pPrevious' = [pPrevious EXCEPT ![pHeadDevNode] = dnode]
  /\ dpc' = "uid"
  /\ UNCHANGED <<pHeadDevNode, pNext, blockVars, dnode, duid, etiVars, queueVars, disturbed>>

(* Only then is the UID copied. *)
CopyUid ==
  /\ dpc = "uid"
  /\ devUid' = [devUid EXCEPT ![dnode] = duid]
  /\ dpc' = "idle" /\ dnode' = NULL /\ duid' = NULL
  /\ UNCHANGED <<ringVars, alloc, regVal, etiVars, queueVars, disturbed>>

-----------------------------------------------------------------------------
(* It deletes one: DevRemoveCustomIdiDevData.  The head moves first.       *)
UnlinkHead(n) ==
  /\ dpc = "idle" /\ n \in Walked
  /\ pHeadDevNode' = IF n # pHeadDevNode THEN pHeadDevNode
                     ELSE IF pNext[n] = n THEN NULL ELSE pNext[n]
  /\ dpc' = IF n = pHeadDevNode /\ pNext[n] = n THEN "free" ELSE "unnext"
  /\ dnode' = n
  /\ disturbed' = (epc # "idle")
  /\ UNCHANGED <<pNext, pPrevious, blockVars, duid, etiVars, queueVars>>

UnlinkNextKept ==   \* a slip: the previous node still leads to the removed one
  /\ dpc = "unnext"
  /\ dpc' = "unprev"
  /\ UNCHANGED <<ringVars, blockVars, dnode, duid, etiVars, queueVars, disturbed>>

UnlinkNext ==
  /\ dpc = "unnext"
  /\ pNext' = [pNext EXCEPT ![pPrevious[dnode]] = pNext[dnode]]
  /\ dpc' = "unprev"
  /\ UNCHANGED <<pHeadDevNode, pPrevious, blockVars, dnode, duid, etiVars, queueVars, disturbed>>

UnlinkPrevious ==
  /\ dpc = "unprev"
  /\ pPrevious' = [pPrevious EXCEPT ![pNext[dnode]] = pPrevious[dnode]]
  /\ dpc' = "free"
  /\ UNCHANGED <<pHeadDevNode, pNext, blockVars, dnode, duid, etiVars, queueVars, disturbed>>

(* The vectors, the structure and the node are freed. *)
FreeNode ==
  /\ dpc = "free"
  /\ alloc'     = alloc \ {dnode}
  /\ devUid'    = [devUid EXCEPT ![dnode] = NULL]
  /\ regVal'    = [regVal EXCEPT ![dnode] = NULL]
  /\ pNext'     = [pNext EXCEPT ![dnode] = NULL]
  /\ pPrevious' = [pPrevious EXCEPT ![dnode] = NULL]
  /\ dpc' = "idle" /\ dnode' = NULL
  /\ UNCHANGED <<pHeadDevNode, duid, etiVars, queueVars, disturbed>>

Deleting == dpc \in {"unnext", "unprev", "free"}

-----------------------------------------------------------------------------
(* mosquitto's thread puts an ev message into the queue: EtiMessageCb.     *)
EtiMessageCb(u) ==
  /\ msgs < MaxMsgs /\ Len(etiDevActQueue) < MQ_HARD_LIM
  /\ msgs' = msgs + 1
  /\ etiDevActQueue' = Append(etiDevActQueue, u)
  /\ UNCHANGED <<ringVars, blockVars, driverVars, etiVars, disturbed>>

(* The ETI thread takes it out. *)
Receive ==
  /\ epc = "idle" /\ etiDevActQueue # <<>>
  /\ euid' = Head(etiDevActQueue)
  /\ etiDevActQueue' = Tail(etiDevActQueue)
  /\ epc' = "head"
  /\ UNCHANGED <<ringVars, blockVars, driverVars, enode, target, msgs, disturbed>>

(* DevEvHndl: pDevStorNode starts at the head. *)
NodeOf(u) ==
  IF \E n \in Walked : devUid[n] = u THEN CHOOSE n \in Walked : devUid[n] = u ELSE NULL

LoadSecond ==   \* a slip: the walk starts behind the head
  /\ epc = "head"
  /\ enode'     = IF pHeadDevNode = NULL THEN NULL ELSE pNext[pHeadDevNode]
  /\ target'    = NodeOf(euid)
  /\ disturbed' = Deleting
  /\ epc' = IF enode' = pHeadDevNode THEN "done" ELSE "compare"
  /\ UNCHANGED <<ringVars, blockVars, driverVars, euid, queueVars>>

LoadHead ==
  /\ epc = "head"
  /\ enode'     = pHeadDevNode
  /\ target'    = NodeOf(euid)
  /\ disturbed' = Deleting
  /\ epc' = IF pHeadDevNode = NULL THEN "done" ELSE "compare"
  /\ UNCHANGED <<ringVars, blockVars, driverVars, euid, queueVars>>

(* strcmp with the node's UID. *)
Compare ==
  /\ epc = "compare" /\ enode \in alloc
  /\ epc' = IF devUid[enode] = euid THEN "found" ELSE "next"
  /\ UNCHANGED <<ringVars, blockVars, driverVars, enode, euid, target, queueVars, disturbed>>

LoadNext ==
  /\ epc = "next" /\ enode \in alloc
  /\ enode' = pNext[enode]
  /\ epc' = "end"
  /\ UNCHANGED <<ringVars, blockVars, driverVars, euid, target, queueVars, disturbed>>

EndAtNull ==   \* a slip: the list is taken for one that ends in NULL
  /\ epc = "end"
  /\ epc' = IF enode = NULL THEN "done" ELSE "compare"
  /\ UNCHANGED <<ringVars, blockVars, driverVars, enode, euid, target, queueVars, disturbed>>

(* Back at the head, the head being read again. *)
EndAtHead ==
  /\ epc = "end"
  /\ epc' = IF enode = pHeadDevNode \/ enode = NULL THEN "done" ELSE "compare"
  /\ UNCHANGED <<ringVars, blockVars, driverVars, enode, euid, target, queueVars, disturbed>>

(* DevRegEvHndl sets the register of the node found. *)
DevRegEvHndl ==
  /\ epc = "found" /\ enode \in alloc
  /\ regVal' = [regVal EXCEPT ![enode] = euid]
  /\ epc' = "done"
  /\ UNCHANGED <<ringVars, alloc, devUid, driverVars, enode, euid, target, queueVars, disturbed>>

FreeMessage ==
  /\ epc = "done"
  /\ epc' = "idle" /\ enode' = NULL /\ euid' = NULL
  /\ disturbed' = FALSE /\ target' = NULL
  /\ UNCHANGED <<ringVars, blockVars, driverVars, queueVars>>

-----------------------------------------------------------------------------
DriverThread ==
  \/ \E n \in Sto, u \in Uids : AllocNode(n, u)
  \/ \E n \in Sto : UnlinkHead(n)
  \/ FillNode \/ PublishOnly \/ PublishLast \/ LinkBack \/ CopyUid
  \/ UnlinkNext \/ UnlinkPrevious \/ FreeNode

vTaskEtiDevAct ==
  Receive \/ LoadHead \/ Compare \/ LoadNext \/ EndAtHead \/ DevRegEvHndl \/ FreeMessage

Next == DriverThread \/ vTaskEtiDevAct \/ \E u \in Uids : EtiMessageCb(u)

(* The ETI thread is never stopped.  Nothing is assumed of the others.     *)
Spec == Init /\ [][Next]_vars /\ WF_vars(vTaskEtiDevAct)

-----------------------------------------------------------------------------
(* The ETI thread is about to look into the node it stands at. *)
UsesNode == epc \in {"compare", "next", "found"}

(***************************************************************************)
(* Between two requests the list is what DevRing says: one ring, of the    *)
(* allocated nodes.  The statements of linking and unlinking, done one by  *)
(* one, come to its single steps.                                          *)
(***************************************************************************)
RingAtRest ==
  dpc = "idle" => RingConsistent /\ WalkReachesAll /\ Linked = alloc

(***************************************************************************)
(* A walk no deletion overlaps finds the device that was in the list when  *)
(* it began, and sets its register, whatever is linked meanwhile.          *)
(***************************************************************************)
EventReachesDevice ==
  (epc = "done" /\ ~disturbed /\ target # NULL) => regVal[target] = euid

(* Such a walk uses allocated nodes only, and only nodes in the list.      *)
UndisturbedWalkIsSafe ==
  (UsesNode /\ ~disturbed) => enode \in alloc \cap Walked

(* And it comes to an end, although nodes are linked in front of it.       *)
WalkEnds == (UsesNode /\ ~disturbed) ~> (epc = "idle" \/ disturbed)

(* The ETI thread never looks into a freed node. *)
NoFreedNode == UsesNode => enode \in alloc
=============================================================================
