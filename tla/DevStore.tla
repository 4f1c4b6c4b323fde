------------------------------ MODULE DevStore ------------------------------
(***************************************************************************)
(* The storage the driver keeps for devices and their datapoints, and the  *)
(* routines of src/example.cpp that change it.  They run on the driver     *)
(* thread, one request at a time; here the requests come in any order the  *)
(* IDL library may make them in.  IdiDriver adds the queue between the two.*)
(*                                                                         *)
(* An element of Sto stands for the T_DevSto block of a device with the    *)
(* two vectors and the list node allocated with it.  The contents of a     *)
(* block that is not allocated are kept blank: nothing may look at them.   *)
(***************************************************************************)
EXTENDS DevRing

CONSTANTS
  Devs,                \* the IdlDev objects of the IDL library
  Handled,             \* those with a handle
  Dps,                 \* the datapoints of a device, as its XIF lists them
  Uids,                \* the UIDs devices are given
  Address,             \* IdlDatapoint.address, the ETI register of a datapoint
  TestMultiplier,      \* its custom column: NULL when absent, BAD when malformed
  BAD,
  Vals,                \* values a register is set to by writes and ETI events
  CDDEVLIMIT,          \* devices the driver accepts
  AllocFails           \* whether calloc may return NULL

(* The sum of iapdp->dpCnt over a device's interface blocks. *)
DevDpCounts == Cardinality(Dps)
Regs        == 0..(DevDpCounts - 1)
DefVal      == 0           \* what GenerateDpDefVal makes, abstracted

ASSUME DevsAssumption    == IsFiniteSet(Devs) /\ Handled \subseteq Devs
ASSUME DpsAssumption     == IsFiniteSet(Dps)
ASSUME UidsAssumption    == NULL \notin Uids
ASSUME PointerAssumption == NULL \notin Sto \X Regs
ASSUME AddressAssumption == Address \in [Dps -> Nat]
ASSUME ColumnAssumption  == /\ NULL \notin Nat /\ BAD \notin Nat
                            /\ TestMultiplier \in [Dps -> Nat \cup {NULL, BAD}]
ASSUME ValsAssumption    == Vals \subseteq Int \cup {NULL}
ASSUME LimitAssumption   == CDDEVLIMIT \in Nat
ASSUME AllocAssumption   == AllocFails \in BOOLEAN

(* IdlErrorCodes, src/idl/include/libidl.h; IErrs are those the driver sends. *)
IErr_Success == 0
IErr_Failure == 1
IErr_IdiBusy == 2

VARIABLES
  idiDevData,          \* IdlDev.idiDevData: the device's block or NULL
  idiDpData,           \* IdlDatapoint.idiDpData: <<block, slot>> or NULL
  alloc,               \* the blocks that are allocated
  devUid,              \* per block: T_DevSto.devUid, NULL when empty
  devDpEntry,          \* per block: slots of pDevDpVector in use
  pDevDpVector,        \* per block and slot: the datapoint's register and multiplier
  pDevDpValVector,     \* per block and register: the value, or NULL
  deviceEntry,         \* gDrvInfo.deviceEntry
  devState,            \* the IDL's view of an IdlDev
  unid                 \* IdlDev.unid

blockVars == <<devUid, devDpEntry, pDevDpVector, pDevDpValVector>>
storeVars == <<ringVars, idiDevData, idiDpData, alloc, blockVars, deviceEntry>>
idlVars   == <<devState, unid>>
allVars   == <<storeVars, idlVars>>

DevStates == {"absent", "creating", "created", "deleting", "dead"}
BlankSlot == [address |-> 0, testMultiplier |-> 0]
NoSlots   == [k \in Regs |-> BlankSlot]
NoValues  == [r \in Regs |-> NULL]
NoDps     == [p \in Dps |-> NULL]

StoreInit ==
  /\ RingInit
  /\ idiDevData      = [d \in Devs |-> NULL]
  /\ idiDpData       = [d \in Devs |-> NoDps]
  /\ alloc           = {}
  /\ devUid          = [s \in Sto |-> NULL]
  /\ devDpEntry      = [s \in Sto |-> 0]
  /\ pDevDpVector    = [s \in Sto |-> NoSlots]
  /\ pDevDpValVector = [s \in Sto |-> NoValues]
  /\ deviceEntry     = 0
  /\ devState        = [d \in Devs |-> "absent"]
  /\ unid            = [d \in Devs |-> NULL]

-----------------------------------------------------------------------------
(* DevSetCustomIdiDevData.  Whatever path it takes it returns the Success  *)
(* its result was initialised with.                                        *)

(* A slip: the counter also goes up when the device is refused. *)
SetRefusedCounts(d) ==
  /\ deviceEntry >= CDDEVLIMIT \/ idiDevData[d] # NULL
  /\ deviceEntry' = deviceEntry + 1
  /\ UNCHANGED <<ringVars, idiDevData, idiDpData, alloc, blockVars>>

(* Over the limit, or already set. *)
SetRefused(d) ==
  /\ deviceEntry >= CDDEVLIMIT \/ idiDevData[d] # NULL
  /\ UNCHANGED storeVars

(* A slip: the counter goes up before the allocations are known to succeed. *)
SetNoMemoryCounts ==
  /\ AllocFails \/ alloc = Sto
  /\ deviceEntry' = deviceEntry + 1
  /\ UNCHANGED <<ringVars, idiDevData, idiDpData, alloc, blockVars>>

(* calloc fails for the structure, or for one of the vectors: then what    *)
(* was allocated before is lost.                                           *)
SetNoMemory ==
  /\ AllocFails \/ alloc = Sto
  /\ \/ UNCHANGED alloc
     \/ AllocFails /\ \E s \in Sto \ alloc : alloc' = alloc \cup {s}
  /\ UNCHANGED <<ringVars, idiDevData, idiDpData, blockVars, deviceEntry>>

(* The device gets block s; only when the node is allocated too is it linked. *)
SetStored(d, s) ==
  /\ Link(s) \/ (AllocFails /\ UNCHANGED ringVars)
  /\ alloc'       = alloc \cup {s}
  /\ idiDevData'  = [idiDevData EXCEPT ![d] = s]
  /\ devUid'      = [devUid EXCEPT ![s] = unid[d]]
  /\ deviceEntry' = deviceEntry + 1
  /\ UNCHANGED <<idiDpData, devDpEntry, pDevDpVector, pDevDpValVector>>

DevSetCustomIdiDevData(d, err) ==
  /\ err = IErr_Success
  /\ \/ SetRefused(d)
     \/ /\ deviceEntry < CDDEVLIMIT /\ idiDevData[d] = NULL
        /\ SetNoMemory \/ \E s \in Sto \ alloc : SetStored(d, s)

-----------------------------------------------------------------------------
(* DevRemoveCustomIdiDevData.  The datapoints' idiDpData stay as they are. *)
RemoveFoundKeepsPointer(d, s) ==   \* a slip: dev->idiDevData is not reset
  /\ Unlink(s)
  /\ alloc'       = alloc \ {s}
  /\ deviceEntry' = deviceEntry - 1
  /\ UNCHANGED <<idiDevData, idiDpData, blockVars>>

RemoveFound(d, s) ==
  /\ Unlink(s)
  /\ alloc'           = alloc \ {s}
  /\ devUid'          = [devUid EXCEPT ![s] = NULL]
  /\ devDpEntry'      = [devDpEntry EXCEPT ![s] = 0]
  /\ pDevDpVector'    = [pDevDpVector EXCEPT ![s] = NoSlots]
  /\ pDevDpValVector' = [pDevDpValVector EXCEPT ![s] = NoValues]
  /\ idiDevData'      = [idiDevData EXCEPT ![d] = NULL]
  /\ deviceEntry'     = deviceEntry - 1
  /\ UNCHANGED idiDpData

DevRemoveCustomIdiDevData(d, err) ==
  \/ err = IErr_Success /\ idiDevData[d] \in Walked /\ RemoveFound(d, idiDevData[d])
  \/ err = IErr_Failure /\ idiDevData[d] \notin Walked /\ UNCHANGED storeVars

-----------------------------------------------------------------------------
(* DevReplaceUnid. *)
DevReplaceUnidOnce(d) ==   \* a slip: a UID that is set already is kept
  /\ devUid' = IF idiDevData[d] # NULL /\ devUid[idiDevData[d]] = NULL
               THEN [devUid EXCEPT ![idiDevData[d]] = unid[d]] ELSE devUid
  /\ UNCHANGED <<ringVars, idiDevData, idiDpData, alloc, devDpEntry,
                 pDevDpVector, pDevDpValVector, deviceEntry>>

DevReplaceUnid(d) ==
  /\ devUid' = IF idiDevData[d] # NULL /\ unid[d] # NULL
               THEN [devUid EXCEPT ![idiDevData[d]] = unid[d]] ELSE devUid
  /\ UNCHANGED <<ringVars, idiDevData, idiDpData, alloc, devDpEntry,
                 pDevDpVector, pDevDpValVector, deviceEntry>>

-----------------------------------------------------------------------------
(* DpSetCustomIdiDpData: the next free slot goes to the datapoint; its     *)
(* register gets the default value unless another datapoint or an ETI      *)
(* event has already filled it.                                            *)
MayBindOffByOne(d, p) ==   \* a slip: the last slot is never used
  /\ idiDevData[d] # NULL
  /\ devDpEntry[idiDevData[d]] + 1 < DevDpCounts
  /\ Address[p] < DevDpCounts

MayBind(d, p) ==
  /\ idiDevData[d] # NULL
  /\ devDpEntry[idiDevData[d]] < DevDpCounts
  /\ Address[p] < DevDpCounts

(* IdiDpProcessCustomColum: the multiplier the slot ends up with, and the result. *)
ColumnMultUnchecked(p, old) ==   \* a slip: the column is used whatever it is
  IF TestMultiplier[p] = 0 THEN 1 ELSE TestMultiplier[p]

ColumnMult(p, old) ==
  IF TestMultiplier[p] = BAD THEN old
  ELSE IF TestMultiplier[p] \in {NULL, 0} THEN 1 ELSE TestMultiplier[p]

ColumnErr(p) == IF TestMultiplier[p] \in {NULL, BAD} THEN IErr_Failure ELSE IErr_Success

(* A slip: devDpEntry is not incremented, so the next datapoint gets the   *)
(* same slot.                                                              *)
BindDpSameSlot(d, p) ==
  LET s == idiDevData[d]
      k == devDpEntry[s]
      r == Address[p]
  IN /\ idiDpData'    = [idiDpData EXCEPT ![d][p] = <<s, k>>]
     /\ pDevDpVector' = [pDevDpVector EXCEPT ![s][k] =
                           [address |-> r, testMultiplier |-> ColumnMult(p, 0)]]
     /\ UNCHANGED <<ringVars, idiDevData, alloc, devUid, devDpEntry,
                    pDevDpValVector, deviceEntry>>

BindDpResets(d, p) ==   \* a slip: the register's value is set to the default again
  LET s == idiDevData[d]
      k == devDpEntry[s]
      r == Address[p]
  IN /\ idiDpData'       = [idiDpData EXCEPT ![d][p] = <<s, k>>]
     /\ devDpEntry'      = [devDpEntry EXCEPT ![s] = k + 1]
     /\ pDevDpVector'    = [pDevDpVector EXCEPT ![s][k] =
                              [address |-> r, testMultiplier |-> ColumnMult(p, 0)]]
     /\ pDevDpValVector' = [pDevDpValVector EXCEPT ![s][r] = DefVal]
     /\ UNCHANGED <<ringVars, idiDevData, alloc, devUid, deviceEntry>>

BindDp(d, p) ==
  LET s == idiDevData[d]
      k == devDpEntry[s]
      r == Address[p]
  IN /\ idiDpData'    = [idiDpData EXCEPT ![d][p] = <<s, k>>]
     /\ devDpEntry'   = [devDpEntry EXCEPT ![s] = k + 1]
     /\ pDevDpVector' = [pDevDpVector EXCEPT ![s][k] =
                           [address |-> r, testMultiplier |-> ColumnMult(p, 0)]]
     /\ pDevDpValVector' = IF pDevDpValVector[s][r] = NULL
                           THEN [pDevDpValVector EXCEPT ![s][r] = DefVal]
                           ELSE pDevDpValVector
     /\ UNCHANGED <<ringVars, idiDevData, alloc, devUid, deviceEntry>>

(* The datapoint's slot lies in its own device's block. *)
Bound(d, p) == idiDpData[d][p] # NULL /\ idiDpData[d][p][1] = idiDevData[d]

(* A datapoint that is already set up only has its column read again, into *)
(* the same slot.                                                          *)
IdiDpProcessCustomColum(d, p, err) ==
  \/ /\ idiDpData[d][p] = NULL /\ MayBind(d, p)
     /\ err = ColumnErr(p)
     /\ BindDp(d, p)
  \/ /\ idiDpData[d][p] = NULL /\ ~MayBind(d, p)
     /\ err = IErr_Failure
     /\ UNCHANGED storeVars
  \/ /\ Bound(d, p)
     /\ err = ColumnErr(p)
     /\ UNCHANGED storeVars

-----------------------------------------------------------------------------
(* A datapoint's pointers can be followed: they lead to the allocated      *)
(* block of its own device, and from there to the driver's mosquitto       *)
(* handle, which only a linked block has.                                  *)
Usable(d, p) == Bound(d, p) /\ idiDevData[d] \in alloc \cap Linked

DpReg(d, p)  == pDevDpVector[idiDpData[d][p][1]][idiDpData[d][p][2]].address
DpMult(d, p) == pDevDpVector[idiDpData[d][p][1]][idiDpData[d][p][2]].testMultiplier
DpVal(d, p)  == pDevDpValVector[idiDpData[d][p][1]][DpReg(d, p)]

SetReg(s, r, v) ==
  /\ pDevDpValVector' = [pDevDpValVector EXCEPT ![s][r] = v]
  /\ UNCHANGED <<ringVars, idiDevData, idiDpData, alloc, devUid, devDpEntry,
                 pDevDpVector, deviceEntry>>

(* The part of IdiaDpwrite that stores the value. *)
StoreWrite(d, p, v) == Usable(d, p) /\ SetReg(idiDevData[d], DpReg(d, p), v)

(* DevRegEvHndl, taken as one step: an ev message sets a register of the   *)
(* block whose UID it names; one without a payload clears it (NULL).       *)
DevRegEvHndl(s, r, v) == s \in Walked /\ r \in Regs /\ SetReg(s, r, v)

-----------------------------------------------------------------------------
(* The IDL library's side.  It makes an IdlDev, gives it a UID no other    *)
(* device has, asks for its deletion, and frees it after the device is     *)
(* gone or could not be created; a freed IdlDev may be used again.         *)
UnidFree(u) == \A d \in Devs : devState[d] \notin {"absent", "dead"} => unid[d] # u

IdlNewDev(d, u) ==
  /\ devState[d] = "absent"
  /\ u = NULL \/ UnidFree(u)
  /\ devState' = [devState EXCEPT ![d] = "creating"]
  /\ unid'     = [unid EXCEPT ![d] = u]
  /\ UNCHANGED storeVars

IdlNewUnid(d, u) ==
  /\ devState[d] = "created" /\ UnidFree(u)
  /\ unid' = [unid EXCEPT ![d] = u]
  /\ UNCHANGED <<storeVars, devState>>

IdlStartDelete(d) ==
  /\ devState[d] = "created"
  /\ devState' = [devState EXCEPT ![d] = "deleting"]
  /\ UNCHANGED <<storeVars, unid>>

IdlFreeDev(d) ==
  /\ devState[d] = "dead"
  /\ devState'   = [devState EXCEPT ![d] = "absent"]
  /\ unid'       = [unid EXCEPT ![d] = NULL]
  /\ idiDpData'  = [idiDpData EXCEPT ![d] = NoDps]
  /\ UNCHANGED <<ringVars, idiDevData, alloc, blockVars, deviceEntry>>

(* IdlDevCreateResult and IdlDevDeleteResult. *)
IdlCreateResult(d, err) ==
  devState' = [devState EXCEPT ![d] = IF err = IErr_Success THEN "created" ELSE "dead"]

IdlDeleteResult(d, err) ==
  devState' = [devState EXCEPT ![d] = IF err = IErr_Success THEN "dead" ELSE "created"]

-----------------------------------------------------------------------------
(* What the driver thread does for each kind of request. *)
Create(d, err) ==
  /\ devState[d] = "creating" \/ (devState[d] = "created" /\ d \in Handled)
  /\ IF d \in Handled THEN DevSetCustomIdiDevData(d, err)
     ELSE err = IErr_Failure /\ UNCHANGED storeVars
  /\ IdlCreateResult(d, err)
  /\ UNCHANGED unid

Delete(d, err) ==
  /\ devState[d] = "deleting"
  /\ IF d \in Handled THEN DevRemoveCustomIdiDevData(d, err)
     ELSE err = IErr_Failure /\ UNCHANGED storeVars
  /\ IdlDeleteResult(d, err)
  /\ UNCHANGED unid

Replace(d) ==
  /\ devState[d] # "absent" /\ d \in Handled
  /\ DevReplaceUnid(d)
  /\ UNCHANGED idlVars

DpCreate(d, p, err) ==
  /\ devState[d] # "absent"
  /\ IdiDpProcessCustomColum(d, p, err)
  /\ UNCHANGED idlVars

DpWrite(d, p, v)      == StoreWrite(d, p, v) /\ UNCHANGED idlVars
DevEvent(s, r, v)     == DevRegEvHndl(s, r, v) /\ UNCHANGED idlVars

StoreNext ==
  \/ \E d \in Devs : \/ \E u \in Uids \cup {NULL} : IdlNewDev(d, u)
                     \/ \E u \in Uids : IdlNewUnid(d, u)
                     \/ IdlStartDelete(d)
                     \/ IdlFreeDev(d)
                     \/ Replace(d)
  \/ \E d \in Devs, err \in {IErr_Success, IErr_Failure} :
       Create(d, err) \/ Delete(d, err) \/ \E p \in Dps : DpCreate(d, p, err)
  \/ \E v \in Vals : \/ \E d \in Devs, p \in Dps : DpWrite(d, p, v)
                     \/ \E s \in Sto, r \in Regs : DevEvent(s, r, v)

StoreSpec == StoreInit /\ [][StoreNext]_allVars

-----------------------------------------------------------------------------
SlotType == [address : Regs, testMultiplier : Nat]

(* The variables hold values of their types.  In particular a datapoint's  *)
(* pointer and its register stay inside the vectors allocated for its      *)
(* device, and deviceEntry within the limit the Makefile compiles in, so   *)
(* the unsigned counter never wraps.                                       *)
StoreTypeOK ==
  /\ RingTypeOK
  /\ idiDevData      \in [Devs -> Sto \cup {NULL}]
  /\ idiDpData       \in [Devs -> [Dps -> (Sto \X Regs) \cup {NULL}]]
  /\ alloc           \in SUBSET Sto
  /\ devUid          \in [Sto -> Uids \cup {NULL}]
  /\ devDpEntry      \in [Sto -> 0..DevDpCounts]
  /\ pDevDpVector    \in [Sto -> [Regs -> SlotType]]
  /\ pDevDpValVector \in [Sto -> [Regs -> Int \cup {NULL}]]
  /\ deviceEntry     \in 0..CDDEVLIMIT
  /\ devState        \in [Devs -> DevStates]
  /\ unid            \in [Devs -> Uids \cup {NULL}]

Stored == {d \in Devs : idiDevData[d] # NULL}

(***************************************************************************)
(* Every block has at most one owner, is allocated while it has one, and   *)
(* the list holds owned blocks only: DevRemoveCustomIdiDevData never       *)
(* leaves a freed block in the list, DevSetCustomIdiDevData never gives    *)
(* one block to two devices, and a device the IDL has not yet seen         *)
(* created, or may free, has none.                                         *)
(***************************************************************************)
StorageOwned ==
  /\ \A d \in Stored : /\ idiDevData[d] \in alloc
                       /\ devState[d] \in {"created", "deleting"}
  /\ \A d, e \in Stored : idiDevData[d] = idiDevData[e] => d = e
  /\ \A s \in Linked : \E d \in Stored : idiDevData[d] = s

(* deviceEntry counts the devices that have storage, also after a calloc   *)
(* failed or a deletion found nothing.                                     *)
DeviceCount == deviceEntry = Cardinality(Stored)

(***************************************************************************)
(* The datapoints of a device that has not been deleted lie in its own     *)
(* block, in different slots below devDpEntry, with their own register and *)
(* the multiplier of their own column.                                     *)
(***************************************************************************)
DpSlotsOwn ==
  \A d \in Devs, p \in Dps :
    (devState[d] # "dead" /\ idiDpData[d][p] # NULL) =>
      /\ Bound(d, p)
      /\ idiDpData[d][p][2] < devDpEntry[idiDevData[d]]
      /\ DpReg(d, p) = Address[p]
      /\ DpMult(d, p) = ColumnMult(p, 0)
      /\ \A q \in Dps \ {p} : idiDpData[d][q] # idiDpData[d][p]

(* When every allocation succeeds, a device with storage is in the list:   *)
(* its ev messages can find it and its deletion can find its block.        *)
StoredIsLinked == ~AllocFails => \A d \in Stored : idiDevData[d] \in Walked

-----------------------------------------------------------------------------
(* For the refinement of DevList: a walk goes on until it would be back at *)
(* the head.  One that stands at m has n Ahead when it can not get round n.*)
GoesOn(S)   == \A k \in S : pNext[k] \in S \cup {pHeadDevNode, NULL}
Ahead(m, n) == m # n /\ \A S \in SUBSET (Sto \ {n}) : m \in S => ~GoesOn(S)

WalkBefore == {p \in Linked \X Linked : Ahead(p[1], p[2])}

List == INSTANCE DevList WITH Node <- Sto, nodes <- Walked, before <- WalkBefore

(* The ring behaves as the ordered list of DevList: linking appends,       *)
(* unlinking removes one node and keeps the order of the others.           *)
ListSpec == List!Spec
=============================================================================
