--------------------------- MODULE DevStoreProofs ---------------------------
(***************************************************************************)
(* The device list and the ownership of storage blocks are right for any   *)
(* number of devices, datapoints and blocks, whatever the addresses and    *)
(* columns of the XIF, and whether or not calloc fails.  Two things rest   *)
(* on the ownership of blocks, as what is done to the block of one device  *)
(* does not touch another's: every datapoint keeps its own slot, and every *)
(* device with storage is in the list.                                     *)
(***************************************************************************)
EXTENDS DevStore, FiniteSetTheorems, TLAPS

RingOK == RingTypeOK /\ RingConsistent /\ WalkReachesAll

(* A walk visits linked nodes only, and when there is a head, the head.    *)
LEMMA WalkStaysLinked == RingTypeOK /\ RingConsistent => Walked \subseteq Linked
<1>. SUFFICES ASSUME RingTypeOK, RingConsistent, NEW n \in Walked PROVE n \in Linked
  OBVIOUS
<1>1. pHeadDevNode \in Linked
  BY DEF Walked, RingTypeOK, RingConsistent
<1>2. WalkClosed(Linked)
  BY <1>1 DEF WalkClosed, RingConsistent
<1>. QED BY <1>2 DEF Walked, Linked

LEMMA WalkStaysLinkedNext == (RingTypeOK /\ RingConsistent => Walked \subseteq Linked)'
  BY WalkStaysLinked, PTL

(* Every set of blocks that a walk cannot leave holds every linked node.   *)
LEMMA ClosedHoldsLinked ==
  ASSUME WalkReachesAll, NEW S \in SUBSET Sto, WalkClosed(S)
  PROVE  Linked \subseteq S
BY DEF WalkReachesAll, Walked

(* How the next state's ring is shown to be a single one.                  *)
LEMMA ReachesAllNext ==
  ASSUME RingTypeOK', RingConsistent', Linked' # {},
         ASSUME NEW S \in SUBSET Sto, pHeadDevNode' \in S,
                \A m \in S : pNext'[m] \in S \cup {NULL}
         PROVE  Linked' \subseteq S
  PROVE  WalkReachesAll'
<1>1. Walked' \subseteq Linked'
  BY WalkStaysLinkedNext
<1>2. Linked' \subseteq Walked'
  <2>. SUFFICES ASSUME NEW n \in Linked' PROVE n \in Walked'
    OBVIOUS
  <2>1. pHeadDevNode' # NULL
    BY NULLAssumption DEF RingConsistent, Linked
  <2>2. n \in Sto
    BY DEF Linked
  <2>3. ASSUME NEW S \in SUBSET Sto, WalkClosed(S)' PROVE n \in S
    BY <2>3 DEF WalkClosed
  <2>. QED BY <2>1, <2>2, <2>3 DEF Walked
<1>. QED BY <1>1, <1>2 DEF WalkReachesAll

(* The linking in DevSetCustomIdiDevData, of a node that is not linked:    *)
(* the ring is a ring again and the node has joined the others.            *)
LEMMA LinkKeepsRing ==
  ASSUME RingOK, NEW n \in Sto, n \notin Linked, Link(n)
  PROVE  RingOK' /\ Linked' = Linked \cup {n}
<1>. USE NULLAssumption DEF RingOK, RingTypeOK
<1>1. pNext[n] = NULL /\ pPrevious[n] = NULL
  BY DEF RingConsistent, Linked
<1>2. CASE LinkOnly(n)
  <2>1. Linked = {}
    BY <1>2 DEF LinkOnly, RingConsistent, Linked
  <2>2. \A m \in Sto : m # n => pNext[m] = NULL /\ pPrevious[m] = NULL
    BY <2>1 DEF RingConsistent, Linked
  <2>3. RingTypeOK'
    BY <1>2 DEF LinkOnly
  <2>4. Linked' = {n}
    BY <1>2, <2>2 DEF LinkOnly, Linked
  <2>5. RingConsistent'
    BY <1>2, <2>2, <2>3, <2>4 DEF LinkOnly, RingConsistent
  <2>6. WalkReachesAll'
    BY <1>2, <2>3, <2>4, <2>5, ReachesAllNext DEF LinkOnly
  <2>. QED BY <2>1, <2>3, <2>4, <2>5, <2>6
<1>3. CASE LinkLast(n)
  <2>. DEFINE head == pHeadDevNode
              last == pPrevious[head]
  <2>1. head \in Linked /\ last \in Linked /\ pNext[last] = head
    BY <1>3 DEF LinkLast, RingConsistent
  <2>2. head # n /\ last # n /\ head \in Sto /\ last \in Sto
    BY <2>1 DEF Linked
  <2>3. /\ pNext'     = [pNext     EXCEPT ![n] = head, ![last] = n]
        /\ pPrevious' = [pPrevious EXCEPT ![n] = last, ![head] = n]
        /\ pHeadDevNode' = head
    BY <1>3 DEF LinkLast
  <2>4. RingTypeOK'
    BY <2>2, <2>3
  <2>5. /\ pNext'[n] = head /\ pNext'[last] = n
        /\ pPrevious'[n] = last /\ pPrevious'[head] = n
        /\ \A m \in Sto : m # n /\ m # last => pNext'[m] = pNext[m]
        /\ \A m \in Sto : m # n /\ m # head => pPrevious'[m] = pPrevious[m]
    BY <2>2, <2>3
  <2>6. pHeadDevNode = head /\ pHeadDevNode' = head /\ pPrevious[head] = last
    BY <2>3
  <2>. HIDE DEF head, last
  <2>7. Linked' = Linked \cup {n}
    BY <2>1, <2>2, <2>5 DEF Linked
  <2>8. ASSUME NEW m \in Linked'
        PROVE  /\ pNext'[m] \in Linked' /\ pPrevious'[m] \in Linked'
               /\ pPrevious'[pNext'[m]] = m /\ pNext'[pPrevious'[m]] = m
    <3>1. CASE m = n
      BY <3>1, <2>1, <2>5, <2>7
    <3>2. CASE m \in Linked
      <4>1. /\ pNext[m] \in Linked /\ pPrevious[m] \in Linked
            /\ pPrevious[pNext[m]] = m /\ pNext[pPrevious[m]] = m /\ m \in Sto /\ m # n
        BY <3>2 DEF RingConsistent, Linked
      <4>2. pNext'[m] \in Linked' /\ pPrevious'[pNext'[m]] = m
        <5>1. CASE m = last
          BY <5>1, <2>5, <2>7
        <5>2. CASE m # last
          <6>1. pNext'[m] = pNext[m] /\ pNext[m] \in Sto /\ pNext[m] # n
            BY <4>1, <5>2, <2>5 DEF Linked
          <6>2. pNext[m] # head
            BY <4>1, <5>2, <2>6
          <6>. QED BY <6>1, <6>2, <4>1, <2>5, <2>7
        <5>. QED BY <5>1, <5>2
      <4>3. pPrevious'[m] \in Linked' /\ pNext'[pPrevious'[m]] = m
        <5>1. CASE m = head
          BY <5>1, <2>5, <2>7
        <5>2. CASE m # head
          <6>1. pPrevious'[m] = pPrevious[m] /\ pPrevious[m] \in Sto /\ pPrevious[m] # n
            BY <4>1, <5>2, <2>5 DEF Linked
          <6>2. pPrevious[m] # last
            BY <4>1, <5>2, <2>1
          <6>. QED BY <6>1, <6>2, <4>1, <2>5, <2>7
        <5>. QED BY <5>1, <5>2
      <4>. QED BY <4>2, <4>3
    <3>. QED BY <3>1, <3>2, <2>7
  <2>9. RingConsistent'
    <3>1. \A m \in Sto \ Linked' : pPrevious'[m] = NULL
      BY <2>1, <2>2, <2>5, <2>7 DEF RingConsistent
    <3>2. pHeadDevNode' \in Linked'
      BY <2>1, <2>6, <2>7
    <3>. QED BY <2>8, <3>1, <3>2 DEF RingConsistent
  <2>10. ASSUME NEW S \in SUBSET Sto, pHeadDevNode' \in S,
                \A m \in S : pNext'[m] \in S \cup {NULL}
         PROVE  Linked' \subseteq S
    <3>. DEFINE T == S \cap Linked
    <3>1. WalkClosed(T)
      <4>1. head \in T
        BY <2>1, <2>6, <2>10
      <4>2. ASSUME NEW m \in T PROVE pNext[m] \in T
        <5>1. CASE m = last
          BY <5>1, <4>1, <2>1
        <5>2. CASE m # last
          <6>1. pNext'[m] = pNext[m] /\ pNext[m] \in Linked /\ pNext[m] # NULL
            BY <5>2, <2>5 DEF RingConsistent, Linked
          <6>. QED BY <6>1, <2>10
        <5>. QED BY <5>1, <5>2
      <4>. QED BY <4>1, <4>2, <2>6 DEF WalkClosed
    <3>2. Linked \subseteq S
      BY <3>1, ClosedHoldsLinked
    <3>3. n \in S
      <4>1. last \in S
        BY <3>2, <2>1
      <4>2. pNext'[last] = n
        BY <2>5
      <4>. QED BY <4>1, <4>2, <2>10
    <3>. QED BY <3>2, <3>3, <2>7
  <2>11. WalkReachesAll'
    <3>1. Linked' # {}
      BY <2>7
    <3>. QED BY <2>4, <2>9, <2>10, <3>1, ReachesAllNext
  <2>. QED BY <2>4, <2>7, <2>9, <2>11
<1>. QED BY <1>2, <1>3 DEF Link

(* Pointing to itself, a node in a ring of its own is the only node.       *)
LEMMA SelfLinkedIsOnly ==
  ASSUME RingOK, NEW n \in Linked, pNext[n] = n
  PROVE  Linked = {n} /\ n = pHeadDevNode
<1>. USE NULLAssumption DEF RingOK, RingTypeOK
<1>1. pHeadDevNode \in Linked /\ n \in Sto
  BY DEF RingConsistent, Linked
<1>2. n = pHeadDevNode
  <2>. SUFFICES ASSUME n # pHeadDevNode PROVE FALSE
    OBVIOUS
  <2>. DEFINE T == Linked \ {n}
  <2>1. \A m \in T : pNext[m] \in T
    BY DEF RingConsistent, Linked
  <2>2. WalkClosed(T)
    BY <1>1, <2>1 DEF WalkClosed
  <2>3. Linked \subseteq T
    BY <2>2, ClosedHoldsLinked DEF Linked
  <2>. QED BY <2>3
<1>3. WalkClosed({n})
  BY <1>2 DEF WalkClosed
<1>. QED BY <1>1, <1>2, <1>3, ClosedHoldsLinked

(* The unlinking in DevRemoveCustomIdiDevData, of a linked node: what is   *)
(* left is a ring, of all the other nodes.                                 *)
LEMMA UnlinkKeepsRing ==
  ASSUME RingOK, NEW n \in Linked, Unlink(n)
  PROVE  RingOK' /\ Linked' = Linked \ {n}
<1>. USE NULLAssumption DEF RingOK, RingTypeOK
<1>1. n \in Sto /\ pHeadDevNode \in Linked
  BY DEF RingConsistent, Linked
<1>2. CASE UnlinkOnly(n)
  <2>1. Linked = {n}
    BY <1>2, SelfLinkedIsOnly DEF UnlinkOnly
  <2>2. RingTypeOK'
    BY <1>2 DEF UnlinkOnly
  <2>3. \A m \in Sto : pNext'[m] = NULL /\ pPrevious'[m] = NULL
    BY <1>1, <1>2, <2>1 DEF UnlinkOnly, RingConsistent, Linked
  <2>4. Linked' = {}
    BY <2>3 DEF Linked
  <2>5. RingConsistent'
    BY <1>2, <2>3, <2>4 DEF UnlinkOnly, RingConsistent
  <2>6. WalkReachesAll'
    BY <1>2, <2>4 DEF UnlinkOnly, WalkReachesAll, Walked
  <2>. QED BY <2>1, <2>2, <2>4, <2>5, <2>6
<1>3. CASE UnlinkInner(n)
  <2>. DEFINE nx == pNext[n]
              pr == pPrevious[n]
  <2>1. nx # n
    BY <1>3, SelfLinkedIsOnly DEF UnlinkInner
  <2>2. /\ nx \in Linked /\ pr \in Linked /\ nx \in Sto /\ pr \in Sto
        /\ pPrevious[nx] = n /\ pNext[pr] = n /\ pr # n
    BY <2>1 DEF RingConsistent, Linked
  <2>3. /\ pNext'     = [pNext     EXCEPT ![pr] = nx, ![n] = NULL]
        /\ pPrevious' = [pPrevious EXCEPT ![nx] = pr, ![n] = NULL]
        /\ pHeadDevNode' = IF n = pHeadDevNode THEN nx ELSE pHeadDevNode
    BY <1>3 DEF UnlinkInner
  <2>4. RingTypeOK'
    BY <1>1, <2>2, <2>3
  <2>5. /\ pNext'[n] = NULL /\ pNext'[pr] = nx
        /\ pPrevious'[n] = NULL /\ pPrevious'[nx] = pr
        /\ \A m \in Sto : m # n /\ m # pr => pNext'[m] = pNext[m]
        /\ \A m \in Sto : m # n /\ m # nx => pPrevious'[m] = pPrevious[m]
    BY <1>1, <2>1, <2>2, <2>3
  <2>6. pNext[n] = nx /\ pPrevious[n] = pr
    OBVIOUS
  <2>. HIDE DEF nx, pr
  <2>7. Linked' = Linked \ {n}
    BY <1>1, <2>2, <2>5 DEF Linked
  <2>8. ASSUME NEW m \in Linked'
        PROVE  /\ pNext'[m] \in Linked' /\ pPrevious'[m] \in Linked'
               /\ pPrevious'[pNext'[m]] = m /\ pNext'[pPrevious'[m]] = m
    <3>1. /\ pNext[m] \in Linked /\ pPrevious[m] \in Linked
          /\ pPrevious[pNext[m]] = m /\ pNext[pPrevious[m]] = m
          /\ m \in Sto /\ m # n
      BY <2>7 DEF RingConsistent, Linked
    <3>2. pNext'[m] \in Linked' /\ pPrevious'[pNext'[m]] = m
      <4>1. CASE m = pr
        BY <4>1, <2>1, <2>2, <2>5, <2>7
      <4>2. CASE m # pr
        <5>1. pNext'[m] = pNext[m] /\ pNext[m] \in Sto
          BY <3>1, <4>2, <2>5 DEF Linked
        <5>2. pNext[m] # n /\ pNext[m] # nx
          BY <3>1, <4>2, <2>2, <2>6
        <5>. QED BY <5>1, <5>2, <3>1, <2>5, <2>7
      <4>. QED BY <4>1, <4>2
    <3>3. pPrevious'[m] \in Linked' /\ pNext'[pPrevious'[m]] = m
      <4>1. CASE m = nx
        BY <4>1, <2>2, <2>5, <2>7
      <4>2. CASE m # nx
        <5>1. pPrevious'[m] = pPrevious[m] /\ pPrevious[m] \in Sto
          BY <3>1, <4>2, <2>5 DEF Linked
        <5>2. pPrevious[m] # n /\ pPrevious[m] # pr
          BY <3>1, <4>2, <2>2, <2>6
        <5>. QED BY <5>1, <5>2, <3>1, <2>5, <2>7
      <4>. QED BY <4>1, <4>2
    <3>. QED BY <3>2, <3>3
  <2>9. RingConsistent'
    <3>1. \A m \in Sto \ Linked' : pPrevious'[m] = NULL
      BY <2>2, <2>5, <2>7 DEF RingConsistent
    <3>2. pHeadDevNode' \in Linked'
      BY <1>1, <2>1, <2>2, <2>3, <2>7
    <3>. QED BY <2>8, <3>1, <3>2 DEF RingConsistent
  <2>10. ASSUME NEW S \in SUBSET Sto, pHeadDevNode' \in S,
                \A m \in S : pNext'[m] \in S \cup {NULL}
         PROVE  Linked' \subseteq S
    <3>1. \A m \in S \cap Linked : m # n /\ m # pr => pNext[m] \in S \cap Linked
      BY <2>5, <2>10 DEF RingConsistent, Linked
    <3>2. nx \in S
      <4>1. CASE pr \in S
        BY <4>1, <2>2, <2>5, <2>10 DEF Linked
      <4>2. CASE pHeadDevNode = n
        BY <4>2, <2>3, <2>10
      <4>3. CASE pr \notin S /\ pHeadDevNode # n
        <5>. DEFINE T == (S \cap Linked) \ {n}
        <5>1. ASSUME NEW m \in T PROVE pNext[m] \in T
          <6>1. m # pr /\ m # n /\ m \in Linked /\ m \in S
            BY <4>3
          <6>2. pNext[m] \in S \cap Linked
            BY <6>1, <3>1
          <6>3. pNext[m] # n
            BY <6>1, <2>6 DEF RingConsistent
          <6>. QED BY <6>2, <6>3
        <5>2. pHeadDevNode \in T
          BY <4>3, <1>1, <2>3, <2>10
        <5>3. WalkClosed(T)
          BY <5>1, <5>2 DEF WalkClosed
        <5>4. Linked \subseteq T
          BY <5>3, ClosedHoldsLinked
        <5>. QED BY <5>4, <4>3, <2>2
      <4>. QED BY <4>1, <4>2, <4>3
    <3>. DEFINE T == (S \cap Linked) \cup {n}
    <3>3. ASSUME NEW m \in T PROVE pNext[m] \in T
      <4>1. CASE m = n
        BY <4>1, <3>2, <2>2, <2>6
      <4>2. CASE m = pr
        BY <4>2, <2>2
      <4>3. CASE m # n /\ m # pr
        BY <4>3, <3>1
      <4>. QED BY <4>1, <4>2, <4>3
    <3>4. pHeadDevNode \in T
      BY <1>1, <2>3, <2>10
    <3>5. WalkClosed(T)
      BY <3>3, <3>4 DEF WalkClosed
    <3>6. Linked \subseteq T
      BY <3>5, <1>1, ClosedHoldsLinked
    <3>. QED BY <3>6, <2>7
  <2>11. WalkReachesAll'
    <3>1. Linked' # {}
      BY <2>1, <2>2, <2>7
    <3>. QED BY <2>4, <2>9, <2>10, <3>1, ReachesAllNext
  <2>. QED BY <2>4, <2>7, <2>9, <2>11
<1>. QED BY <1>2, <1>3 DEF Unlink

-----------------------------------------------------------------------------
(* The inductive invariant.  None of its conjuncts is inductive alone: a   *)
(* node may only be linked because an owned block is allocated and a fresh *)
(* one is not; removing the only node empties the list because there is    *)
(* one ring; and a block is found because owned means linked or lost.      *)
StoreInv ==
  /\ StoreTypeOK
  /\ RingConsistent
  /\ WalkReachesAll
  /\ StorageOwned
  /\ DeviceCount

LEMMA StoreInitInv == StoreInit => StoreInv
<1>. SUFFICES ASSUME StoreInit PROVE StoreInv
  OBVIOUS
<1>. USE DEF StoreInit, RingInit
<1>1. Linked = {} /\ Stored = {} /\ Walked = {}
  BY DEF Linked, Stored, Walked
<1>2. DevDpCounts \in Nat
  BY DpsAssumption, FS_CardinalityType DEF DevDpCounts
<1>3. StoreTypeOK
  BY <1>2, LimitAssumption
     DEF StoreTypeOK, RingTypeOK, NoDps, NoSlots, NoValues, BlankSlot, SlotType, DevStates,
         Regs
<1>4. RingConsistent /\ WalkReachesAll
  BY <1>1 DEF RingConsistent, WalkReachesAll
<1>5. StorageOwned
  BY <1>1 DEF StorageOwned
<1>6. DeviceCount
  BY <1>1, FS_EmptySet DEF DeviceCount
<1>. QED BY <1>3, <1>4, <1>5, <1>6 DEF StoreInv

-----------------------------------------------------------------------------
(* A step that leaves the list, the devices' blocks and the counter alone, *)
(* frees nothing, and does not take a device with storage out of the       *)
(* states such a device may be in.                                         *)
LEMMA QuietStepKeepsInv ==
  ASSUME StoreInv, StoreTypeOK',
         UNCHANGED <<ringVars, idiDevData, deviceEntry>>,
         alloc \subseteq alloc',
         \A d \in Stored : devState'[d] \in {"created", "deleting"}
  PROVE  StoreInv'
<1>1. RingConsistent' /\ WalkReachesAll' /\ Linked' = Linked
  BY DEF StoreInv, ringVars, RingConsistent, WalkReachesAll, Walked, WalkClosed, Linked
<1>2. Stored' = Stored
  BY DEF Stored
<1>3. StorageOwned'
  BY <1>1, <1>2 DEF StoreInv, StorageOwned
<1>4. DeviceCount'
  BY <1>2 DEF StoreInv, DeviceCount
<1>. QED BY <1>1, <1>3, <1>4 DEF StoreInv

LEMMA StutterKeepsInv ==
  ASSUME StoreInv, UNCHANGED allVars
  PROVE  StoreInv'
<1>1. StoreTypeOK'
  BY DEF StoreInv, StoreTypeOK, RingTypeOK, allVars, storeVars, ringVars, blockVars, idlVars
<1>2. \A d \in Stored : devState'[d] \in {"created", "deleting"}
  BY DEF StoreInv, StorageOwned, allVars, idlVars
<1>. QED BY <1>1, <1>2, QuietStepKeepsInv DEF allVars, storeVars

(* A device gets a block that was not allocated. *)
LEMMA SetStoredKeepsInv ==
  ASSUME StoreInv, NEW d \in Devs, NEW s \in Sto \ alloc,
         deviceEntry < CDDEVLIMIT, idiDevData[d] = NULL, SetStored(d, s),
         devState' = [devState EXCEPT ![d] = "created"], UNCHANGED unid
  PROVE  StoreInv'
<1>. USE NULLAssumption
<1>1. s \notin Linked /\ \A e \in Devs : idiDevData[e] # s
  BY DEF StoreInv, StorageOwned, Stored
<1>2. /\ RingTypeOK' /\ RingConsistent' /\ WalkReachesAll'
      /\ Linked' \subseteq Linked \cup {s}
  <2>1. RingOK
    BY DEF StoreInv, StoreTypeOK, RingOK
  <2>2. CASE Link(s)
    BY <1>1, <2>1, <2>2, LinkKeepsRing DEF RingOK
  <2>3. CASE UNCHANGED ringVars
    BY <2>1, <2>3 DEF RingOK, ringVars, RingTypeOK, RingConsistent, WalkReachesAll,
                      Walked, WalkClosed, Linked
  <2>. QED BY <2>2, <2>3 DEF SetStored
<1>3. StoreTypeOK'
  <2>. USE DEF StoreInv, StoreTypeOK, SetStored
  <2>1. /\ idiDevData' \in [Devs -> Sto \cup {NULL}]
        /\ alloc' \in SUBSET Sto
        /\ devUid' \in [Sto -> Uids \cup {NULL}]
    OBVIOUS
  <2>2. deviceEntry' \in 0..CDDEVLIMIT
    BY LimitAssumption
  <2>3. devState' \in [Devs -> DevStates] /\ unid' \in [Devs -> Uids \cup {NULL}]
    BY DEF DevStates
  <2>4. UNCHANGED <<idiDpData, devDpEntry, pDevDpVector, pDevDpValVector>>
    OBVIOUS
  <2>. QED BY <1>2, <2>1, <2>2, <2>3, <2>4
<1>4. /\ idiDevData' = [idiDevData EXCEPT ![d] = s] /\ alloc' = alloc \cup {s}
      /\ deviceEntry' = deviceEntry + 1
      /\ idiDevData \in [Devs -> Sto \cup {NULL}] /\ devState \in [Devs -> DevStates]
  BY DEF SetStored, StoreInv, StoreTypeOK
<1>5. Stored' = Stored \cup {d} /\ d \notin Stored
  BY <1>4 DEF Stored
<1>6. StorageOwned'
  <2>1. \A e \in Stored' : idiDevData'[e] = IF e = d THEN s ELSE idiDevData[e]
    BY <1>4 DEF Stored
  <2>2. \A e \in Stored' : devState'[e] = IF e = d THEN "created" ELSE devState[e]
    BY <1>4 DEF Stored
  <2>. QED BY <1>1, <1>2, <1>4, <1>5, <2>1, <2>2 DEF StoreInv, StorageOwned, Stored
<1>7. DeviceCount'
  <2>1. IsFiniteSet(Stored)
    BY DevsAssumption, FS_Subset DEF Stored
  <2>. QED BY <1>4, <1>5, <2>1, FS_AddElement DEF StoreInv, DeviceCount
<1>. QED BY <1>2, <1>3, <1>6, <1>7 DEF StoreInv

LEMMA OneBelow ==
  ASSUME NEW N \in Nat, NEW n \in 0..N, n # 0
  PROVE  n - 1 \in 0..N
OBVIOUS

(* A device's block is found in the list, unlinked and freed. *)
LEMMA RemoveFoundKeepsInv ==
  ASSUME StoreInv, NEW d \in Devs, idiDevData[d] \in Walked,
         RemoveFound(d, idiDevData[d]),
         devState' = [devState EXCEPT ![d] = "dead"], UNCHANGED unid
  PROVE  StoreInv'
<1>. USE NULLAssumption
<1>. DEFINE s == idiDevData[d]
<1>1. s \in Linked /\ s \in Sto /\ d \in Stored
  BY DEF StoreInv, WalkReachesAll, Linked, Stored
<1>2. RingTypeOK' /\ RingConsistent' /\ WalkReachesAll' /\ Linked' = Linked \ {s}
  BY <1>1, UnlinkKeepsRing DEF StoreInv, StoreTypeOK, RingOK, RemoveFound
<1>3. IsFiniteSet(Stored) /\ Cardinality(Stored) \in Nat /\ Cardinality(Stored) # 0
  BY <1>1, DevsAssumption, FS_Subset, FS_CardinalityType, FS_EmptySet DEF Stored
<1>4. /\ idiDevData' = [idiDevData EXCEPT ![d] = NULL] /\ alloc' = alloc \ {s}
      /\ deviceEntry' = deviceEntry - 1
      /\ idiDevData \in [Devs -> Sto \cup {NULL}] /\ devState \in [Devs -> DevStates]
  BY DEF RemoveFound, StoreInv, StoreTypeOK
<1>9. deviceEntry' \in 0..CDDEVLIMIT
  <2>1. deviceEntry \in 0..CDDEVLIMIT /\ deviceEntry = Cardinality(Stored)
    BY DEF StoreInv, StoreTypeOK, DeviceCount
  <2>2. deviceEntry # 0 /\ deviceEntry' = deviceEntry - 1
    BY <2>1, <1>3, <1>4
  <2>. QED BY <2>1, <2>2, OneBelow, LimitAssumption
<1>5. StoreTypeOK'
  <2>. USE DEF StoreInv, StoreTypeOK
  <2>1. DevDpCounts \in Nat
    BY DpsAssumption, FS_CardinalityType DEF DevDpCounts
  <2>2. /\ idiDevData' \in [Devs -> Sto \cup {NULL}]
        /\ alloc' \in SUBSET Sto
    BY <1>4
  <2>7. devUid' \in [Sto -> Uids \cup {NULL}]
    BY DEF RemoveFound
  <2>8. devDpEntry' \in [Sto -> 0..DevDpCounts]
    <3>1. 0 \in 0..DevDpCounts
      BY <2>1
    <3>. QED BY <3>1 DEF RemoveFound
  <2>3. /\ pDevDpVector' \in [Sto -> [Regs -> SlotType]]
        /\ pDevDpValVector' \in [Sto -> [Regs -> Int \cup {NULL}]]
    <3>1. NoSlots \in [Regs -> SlotType]
      BY <2>1 DEF NoSlots, BlankSlot, SlotType, Regs
    <3>. QED BY <3>1 DEF RemoveFound, NoValues
  <2>4. deviceEntry' \in 0..CDDEVLIMIT
    BY <1>9
  <2>5. devState' \in [Devs -> DevStates] /\ unid' \in [Devs -> Uids \cup {NULL}]
    BY DEF DevStates
  <2>6. UNCHANGED idiDpData
    BY DEF RemoveFound
  <2>. QED BY <1>2, <2>2, <2>7, <2>8, <2>3, <2>4, <2>5, <2>6
<1>6. Stored' = Stored \ {d}
  BY <1>4 DEF Stored
<1>7. StorageOwned'
  <2>1. \A e \in Stored' : idiDevData'[e] = idiDevData[e] /\ idiDevData[e] # s
    BY <1>1, <1>4, <1>6 DEF StoreInv, StorageOwned, Stored
  <2>2. \A e \in Stored' : devState'[e] = devState[e]
    BY <1>4, <1>6 DEF Stored
  <2>. QED BY <1>2, <1>4, <1>6, <2>1, <2>2 DEF StoreInv, StorageOwned
<1>8. DeviceCount'
  BY <1>1, <1>3, <1>4, <1>6, FS_RemoveElement DEF StoreInv, DeviceCount
<1>. QED BY <1>2, <1>5, <1>7, <1>8 DEF StoreInv

-----------------------------------------------------------------------------
(* DevSetCustomIdiDevData within the driver thread's creation, on each of  *)
(* its paths.                                                              *)
LEMMA CreateKeepsInv ==
  ASSUME StoreInv, NEW d \in Devs, NEW err, Create(d, err)
  PROVE  StoreInv'
<1>. USE NULLAssumption
<1>1. /\ devState[d] \in {"creating", "created"} /\ UNCHANGED unid
      /\ devState' = [devState EXCEPT ![d] = IF err = IErr_Success THEN "created" ELSE "dead"]
      /\ devState \in [Devs -> DevStates]
  BY DEF Create, IdlCreateResult, StoreInv, StoreTypeOK
<1>2. devState' \in [Devs -> DevStates]
  BY <1>1 DEF DevStates
<1>3. CASE d \notin Handled
  <2>1. devState[d] = "creating" /\ UNCHANGED storeVars
    BY <1>3 DEF Create
  <2>2. d \notin Stored
    BY <2>1 DEF StoreInv, StorageOwned
  <2>3. StoreTypeOK'
    BY <1>1, <1>2, <2>1 DEF StoreInv, StoreTypeOK, RingTypeOK, storeVars, blockVars, ringVars
  <2>4. \A e \in Stored : devState'[e] \in {"created", "deleting"}
    BY <1>1, <2>2 DEF StoreInv, StorageOwned, Stored
  <2>. QED BY <2>1, <2>3, <2>4, QuietStepKeepsInv DEF storeVars
<1>4. CASE d \in Handled
  <2>1. DevSetCustomIdiDevData(d, err) /\ err = IErr_Success
    BY <1>4 DEF Create, DevSetCustomIdiDevData
  <2>2. devState' = [devState EXCEPT ![d] = "created"]
    BY <1>1, <2>1
  <2>3. \A e \in Stored : devState'[e] \in {"created", "deleting"}
    BY <1>1, <2>2 DEF StoreInv, StorageOwned, Stored
  <2>4. CASE SetRefused(d)
    <3>1. StoreTypeOK'
      BY <1>1, <1>2, <2>4
         DEF SetRefused, StoreInv, StoreTypeOK, RingTypeOK, storeVars, blockVars, ringVars
    <3>. QED BY <2>3, <2>4, <3>1, QuietStepKeepsInv DEF SetRefused, storeVars
  <2>5. CASE SetNoMemory
    <3>1. StoreTypeOK'
      BY <1>1, <1>2, <2>5
         DEF SetNoMemory, StoreInv, StoreTypeOK, RingTypeOK, blockVars, ringVars
    <3>. QED BY <2>3, <2>5, <3>1, QuietStepKeepsInv DEF SetNoMemory
  <2>6. ASSUME NEW s \in Sto \ alloc, SetStored(d, s),
               deviceEntry < CDDEVLIMIT, idiDevData[d] = NULL
        PROVE  StoreInv'
    BY <1>1, <2>2, <2>6, SetStoredKeepsInv
  <2>. QED BY <2>1, <2>4, <2>5, <2>6 DEF DevSetCustomIdiDevData
<1>. QED BY <1>3, <1>4

(* DevRemoveCustomIdiDevData within the driver thread's deletion.          *)
LEMMA DeleteKeepsInv ==
  ASSUME StoreInv, NEW d \in Devs, NEW err, Delete(d, err)
  PROVE  StoreInv'
<1>. USE NULLAssumption
<1>1. /\ devState[d] = "deleting" /\ UNCHANGED unid
      /\ devState' = [devState EXCEPT ![d] = IF err = IErr_Success THEN "dead" ELSE "created"]
      /\ devState \in [Devs -> DevStates]
  BY DEF Delete, IdlDeleteResult, StoreInv, StoreTypeOK
<1>2. devState' \in [Devs -> DevStates]
  BY <1>1 DEF DevStates
<1>3. CASE err = IErr_Failure /\ UNCHANGED storeVars
  <2>1. devState' = [devState EXCEPT ![d] = "created"]
    BY <1>1, <1>3 DEF IErr_Success, IErr_Failure
  <2>2. StoreTypeOK'
    BY <1>1, <1>2, <1>3 DEF StoreInv, StoreTypeOK, RingTypeOK, storeVars, blockVars, ringVars
  <2>3. \A e \in Stored : devState'[e] \in {"created", "deleting"}
    BY <1>1, <2>1 DEF StoreInv, StorageOwned, Stored
  <2>. QED BY <1>3, <2>2, <2>3, QuietStepKeepsInv DEF storeVars
<1>4. CASE /\ err = IErr_Success /\ idiDevData[d] \in Walked
           /\ RemoveFound(d, idiDevData[d])
  BY <1>1, <1>4, RemoveFoundKeepsInv
<1>. QED BY <1>3, <1>4 DEF Delete, DevRemoveCustomIdiDevData

(* The multiplier a column gives is a number. *)
LEMMA ColumnMultType ==
  ASSUME NEW p \in Dps, NEW old \in Nat
  PROVE  ColumnMult(p, old) \in Nat
BY ColumnAssumption DEF ColumnMult

(* Setting a register, of whatever number, leaves the values typed.        *)
LEMMA RegisterType ==
  ASSUME NEW f \in [Sto -> [Regs -> Int \cup {NULL}]], NEW s, NEW r,
         NEW v \in Int \cup {NULL}
  PROVE  [f EXCEPT ![s][r] = v] \in [Sto -> [Regs -> Int \cup {NULL}]]
OBVIOUS

LEMMA BindDpType ==
  ASSUME StoreInv, NEW d \in Devs, NEW p \in Dps, MayBind(d, p), BindDp(d, p),
         UNCHANGED idlVars
  PROVE  StoreTypeOK'
<1>. USE NULLAssumption
<1>. DEFINE s == idiDevData[d]
            k == devDpEntry[s]
            r == Address[p]
<1>1. DevDpCounts \in Nat
  BY DpsAssumption, FS_CardinalityType DEF DevDpCounts
<1>2. s \in Sto /\ k \in 0..DevDpCounts /\ k < DevDpCounts
  BY DEF MayBind, StoreInv, StoreTypeOK
<1>3. k \in Regs /\ k + 1 \in 0..DevDpCounts
  BY <1>1, <1>2 DEF Regs
<1>4. [address |-> r, testMultiplier |-> ColumnMult(p, 0)] \in SlotType
  <2>1. r \in Regs
    BY <1>1, AddressAssumption DEF MayBind, Regs
  <2>. QED BY <2>1, ColumnMultType DEF SlotType
<1>. USE DEF StoreInv, StoreTypeOK
<1>5. idiDpData' \in [Devs -> [Dps -> (Sto \X Regs) \cup {NULL}]]
  BY <1>2, <1>3 DEF BindDp
<1>6. devDpEntry' \in [Sto -> 0..DevDpCounts]
  BY <1>2, <1>3 DEF BindDp
<1>7. pDevDpVector' \in [Sto -> [Regs -> SlotType]]
  BY <1>2, <1>3, <1>4 DEF BindDp
<1>8. pDevDpValVector' \in [Sto -> [Regs -> Int \cup {NULL}]]
  <2>1. CASE pDevDpValVector' = pDevDpValVector
    BY <2>1
  <2>2. CASE pDevDpValVector' = [pDevDpValVector EXCEPT ![s][r] = DefVal]
    <3>1. DefVal \in Int \cup {NULL}
      BY DEF DefVal
    <3>2. pDevDpValVector \in [Sto -> [Regs -> Int \cup {NULL}]]
      OBVIOUS
    <3>. HIDE DEF StoreInv, StoreTypeOK, s, r
    <3>. QED BY <2>2, <3>1, <3>2, RegisterType
  <2>. QED BY <2>1, <2>2 DEF BindDp
<1>. QED BY <1>5, <1>6, <1>7, <1>8
         DEF BindDp, idlVars, ringVars, RingTypeOK

(* A datapoint is set up, refused, or only has its column read again.      *)
LEMMA DpCreateKeepsInv ==
  ASSUME StoreInv, NEW d \in Devs, NEW p \in Dps, NEW err, DpCreate(d, p, err)
  PROVE  StoreInv'
<1>1. UNCHANGED idlVars /\ \A e \in Stored : devState'[e] \in {"created", "deleting"}
  BY DEF DpCreate, idlVars, StoreInv, StorageOwned
<1>2. CASE MayBind(d, p) /\ BindDp(d, p)
  <2>1. StoreTypeOK'
    BY <1>1, <1>2, BindDpType
  <2>2. UNCHANGED <<ringVars, idiDevData, deviceEntry>> /\ alloc \subseteq alloc'
    BY <1>2 DEF BindDp
  <2>. QED BY <1>1, <2>1, <2>2, QuietStepKeepsInv
<1>3. CASE UNCHANGED storeVars
  BY <1>1, <1>3, StutterKeepsInv DEF allVars
<1>. QED BY <1>2, <1>3 DEF DpCreate, IdiDpProcessCustomColum

(* A register is set, by a write or by an ETI event.                       *)
LEMMA SetRegKeepsInv ==
  ASSUME StoreInv, NEW s, NEW r, NEW v \in Vals, SetReg(s, r, v), UNCHANGED idlVars
  PROVE  StoreInv'
<1>1. \A e \in Stored : devState'[e] \in {"created", "deleting"}
  BY DEF idlVars, StoreInv, StorageOwned
<1>2. pDevDpValVector' \in [Sto -> [Regs -> Int \cup {NULL}]]
  BY RegisterType, ValsAssumption DEF SetReg, StoreInv, StoreTypeOK
<1>3. StoreTypeOK'
  BY <1>2 DEF SetReg, idlVars, StoreInv, StoreTypeOK, RingTypeOK, ringVars
<1>. QED BY <1>1, <1>3, QuietStepKeepsInv DEF SetReg

(* A device's UID is stored in its block.                                  *)
LEMMA ReplaceKeepsInv ==
  ASSUME StoreInv, NEW d \in Devs, Replace(d)
  PROVE  StoreInv'
<1>1. /\ UNCHANGED idlVars /\ DevReplaceUnid(d)
      /\ \A e \in Stored : devState'[e] \in {"created", "deleting"}
  BY DEF Replace, idlVars, StoreInv, StorageOwned
<1>2. devUid' \in [Sto -> Uids \cup {NULL}]
  BY <1>1 DEF DevReplaceUnid, StoreInv, StoreTypeOK
<1>3. StoreTypeOK'
  BY <1>1, <1>2 DEF DevReplaceUnid, idlVars, StoreInv, StoreTypeOK, RingTypeOK, ringVars
<1>. QED BY <1>1, <1>3, QuietStepKeepsInv DEF DevReplaceUnid

(* The IDL library's own steps.                                            *)
LEMMA IdlStepKeepsInv ==
  ASSUME StoreInv, NEW d \in Devs,
         \/ \E u \in Uids \cup {NULL} : IdlNewDev(d, u)
         \/ \E u \in Uids : IdlNewUnid(d, u)
         \/ IdlStartDelete(d)
         \/ IdlFreeDev(d)
  PROVE  StoreInv'
<1>. USE NULLAssumption
<1>1. \A e \in Stored : devState[e] \in {"created", "deleting"}
  BY DEF StoreInv, StorageOwned
<1>2. Stored \subseteq Devs /\ devState \in [Devs -> DevStates]
  BY DEF Stored, StoreInv, StoreTypeOK
<1>. USE <1>1, <1>2
<1>3. ASSUME NEW u \in Uids \cup {NULL}, IdlNewDev(d, u) PROVE StoreInv'
  <2>1. StoreTypeOK'
    BY <1>3 DEF IdlNewDev, StoreInv, StoreTypeOK, RingTypeOK, storeVars, ringVars, blockVars,
                DevStates
  <2>2. \A e \in Stored : devState'[e] \in {"created", "deleting"}
    BY <1>3 DEF IdlNewDev
  <2>. QED BY <1>3, <2>1, <2>2, QuietStepKeepsInv DEF IdlNewDev, storeVars
<1>4. ASSUME NEW u \in Uids, IdlNewUnid(d, u) PROVE StoreInv'
  <2>1. StoreTypeOK'
    BY <1>4 DEF IdlNewUnid, StoreInv, StoreTypeOK, RingTypeOK, storeVars, ringVars, blockVars
  <2>. QED BY <1>4, <2>1, QuietStepKeepsInv DEF IdlNewUnid, storeVars
<1>5. CASE IdlStartDelete(d)
  <2>1. StoreTypeOK'
    BY <1>5 DEF IdlStartDelete, StoreInv, StoreTypeOK, RingTypeOK, storeVars, ringVars,
                blockVars, DevStates
  <2>2. \A e \in Stored : devState'[e] \in {"created", "deleting"}
    BY <1>5 DEF IdlStartDelete
  <2>. QED BY <1>5, <2>1, <2>2, QuietStepKeepsInv DEF IdlStartDelete, storeVars
<1>6. CASE IdlFreeDev(d)
  <2>1. idiDpData' \in [Devs -> [Dps -> (Sto \X Regs) \cup {NULL}]]
    BY <1>6 DEF IdlFreeDev, NoDps, StoreInv, StoreTypeOK
  <2>2. StoreTypeOK'
    BY <1>6, <2>1 DEF IdlFreeDev, StoreInv, StoreTypeOK, RingTypeOK, ringVars, blockVars,
                      DevStates
  <2>3. \A e \in Stored : devState'[e] \in {"created", "deleting"}
    BY <1>6 DEF IdlFreeDev
  <2>. QED BY <1>6, <2>2, <2>3, QuietStepKeepsInv DEF IdlFreeDev
<1>. QED BY <1>3, <1>4, <1>5, <1>6

-----------------------------------------------------------------------------
LEMMA StoreStepKeepsInv == StoreInv /\ [StoreNext]_allVars => StoreInv'
<1>. SUFFICES ASSUME StoreInv, [StoreNext]_allVars PROVE StoreInv'
  OBVIOUS
<1>1. ASSUME NEW d \in Devs,
             \/ \E u \in Uids \cup {NULL} : IdlNewDev(d, u)
             \/ \E u \in Uids : IdlNewUnid(d, u)
             \/ IdlStartDelete(d)
             \/ IdlFreeDev(d)
      PROVE  StoreInv'
  BY <1>1, IdlStepKeepsInv
<1>2. ASSUME NEW d \in Devs, Replace(d) PROVE StoreInv'
  BY <1>2, ReplaceKeepsInv
<1>3. ASSUME NEW d \in Devs, NEW err \in {IErr_Success, IErr_Failure}, Create(d, err)
      PROVE  StoreInv'
  BY <1>3, CreateKeepsInv
<1>4. ASSUME NEW d \in Devs, NEW err \in {IErr_Success, IErr_Failure}, Delete(d, err)
      PROVE  StoreInv'
  BY <1>4, DeleteKeepsInv
<1>5. ASSUME NEW d \in Devs, NEW p \in Dps, NEW err \in {IErr_Success, IErr_Failure},
             DpCreate(d, p, err)
      PROVE  StoreInv'
  BY <1>5, DpCreateKeepsInv
<1>6. ASSUME NEW v \in Vals, NEW d \in Devs, NEW p \in Dps, DpWrite(d, p, v)
      PROVE  StoreInv'
  BY <1>6, SetRegKeepsInv DEF DpWrite, StoreWrite
<1>7. ASSUME NEW v \in Vals, NEW s \in Sto, NEW r \in Regs, DevEvent(s, r, v)
      PROVE  StoreInv'
  BY <1>7, SetRegKeepsInv DEF DevEvent, DevRegEvHndl
<1>8. CASE UNCHANGED allVars
  BY <1>8, StutterKeepsInv
<1>. QED BY <1>1, <1>2, <1>3, <1>4, <1>5, <1>6, <1>7, <1>8 DEF StoreNext

(* Whatever the IDL library asks for and whichever allocations fail, the   *)
(* store keeps its invariant.                                              *)
THEOREM StoreInvariant == StoreSpec => []StoreInv
<1>1. StoreInit => StoreInv
  BY StoreInitInv
<1>2. StoreInv /\ [StoreNext]_allVars => StoreInv'
  BY StoreStepKeepsInv
<1>. QED BY <1>1, <1>2, PTL DEF StoreSpec

(* The types hold, and deviceEntry never passes the Makefile's limit.      *)
THEOREM StoreTypeCorrect == StoreSpec => []StoreTypeOK
<1>1. StoreInv => StoreTypeOK
  BY DEF StoreInv
<1>. QED BY <1>1, StoreInvariant, PTL

(* The device list is one ring: pNext and pPrevious agree, so a node can   *)
(* be unlinked from its neighbours.                                        *)
THEOREM OneRing == StoreSpec => []RingConsistent
<1>1. StoreInv => RingConsistent
  BY DEF StoreInv
<1>. QED BY <1>1, StoreInvariant, PTL

(* A walk from the head, which is how events and deletions find a device,  *)
(* reaches every node and comes back.                                      *)
THEOREM WalksReachAll == StoreSpec => []WalkReachesAll
<1>1. StoreInv => WalkReachesAll
  BY DEF StoreInv
<1>. QED BY <1>1, StoreInvariant, PTL

(* No two devices share a block, an owned block is allocated, and no freed *)
(* block is left in the list.                                              *)
THEOREM BlocksAreOwned == StoreSpec => []StorageOwned
<1>1. StoreInv => StorageOwned
  BY DEF StoreInv
<1>. QED BY <1>1, StoreInvariant, PTL

(* deviceEntry is the number of devices with storage.                      *)
THEOREM DevicesAreCounted == StoreSpec => []DeviceCount
<1>1. StoreInv => DeviceCount
  BY DEF StoreInv
<1>. QED BY <1>1, StoreInvariant, PTL

-----------------------------------------------------------------------------
(* The order of the list.  A set that a walk does not leave but by being   *)
(* back at the head holds the last node, wherever the walk enters it.      *)
LEMMA LastIsAhead ==
  ASSUME RingOK, NEW x \in Linked, NEW S \in SUBSET Sto, x \in S, GoesOn(S)
  PROVE  pPrevious[pHeadDevNode] \in S
<1>. USE NULLAssumption DEF RingOK, RingTypeOK
<1>. DEFINE head == pHeadDevNode
            last == pPrevious[head]
            V    == {z \in Linked : \A T \in SUBSET Sto : z \in T /\ GoesOn(T) => last \in T}
<1>1. head \in Linked /\ last \in Linked /\ pNext[last] = head
  BY DEF RingConsistent
<1>2. \A z \in Linked : z \in Sto /\ pNext[z] \in Linked /\ pNext[z] # NULL
  BY DEF RingConsistent, Linked
<1>3. head \in V
  <2>. SUFFICES ASSUME NEW T \in SUBSET Sto, head \in T, GoesOn(T) PROVE last \in T
    BY <1>1
  <2>1. WalkClosed(T)
    BY DEF WalkClosed, GoesOn
  <2>. QED BY <1>1, <2>1, ClosedHoldsLinked
<1>4. ASSUME NEW z \in V PROVE pNext[z] \in V
  <2>1. CASE z = last
    BY <1>1, <1>3, <2>1
  <2>2. CASE z # last
    <3>. SUFFICES ASSUME NEW T \in SUBSET Sto, pNext[z] \in T, GoesOn(T) PROVE last \in T
      BY <1>2
    <3>1. GoesOn(T \cup {z}) /\ T \cup {z} \in SUBSET Sto
      BY <1>2 DEF GoesOn
    <3>2. last \in T \cup {z}
      BY <3>1
    <3>. QED BY <2>2, <3>2
  <2>. QED BY <2>1, <2>2
<1>5. WalkClosed(V)
  BY <1>3, <1>4 DEF WalkClosed
<1>6. x \in V
  BY <1>2, <1>5, ClosedHoldsLinked
<1>. QED BY <1>6

(* How the relation of the next state is shown from its members.           *)
LEMMA BeforeNext ==
  ASSUME NEW R, \A p \in R : p \in Linked' \X Linked' /\ Ahead(p[1], p[2])',
         \A x, y \in Linked' : Ahead(x, y)' => <<x, y>> \in R
  PROVE  WalkBefore' = R
<1>1. R \subseteq WalkBefore'
  BY DEF WalkBefore
<1>2. ASSUME NEW p \in WalkBefore' PROVE p \in R
  <2>1. p \in Linked' \X Linked' /\ Ahead(p[1], p[2])'
    BY DEF WalkBefore
  <2>2. p[1] \in Linked' /\ p[2] \in Linked' /\ p = <<p[1], p[2]>>
    BY <2>1
  <2>. QED BY <2>1, <2>2
<1>. QED BY <1>1, <1>2

LEMMA InWalkBefore ==
  /\ WalkBefore \subseteq Linked \X Linked
  /\ \A x, y \in Linked : <<x, y>> \in WalkBefore <=> Ahead(x, y)
  /\ \A p \in WalkBefore : p = <<p[1], p[2]>> /\ p[1] \in Linked /\ p[2] \in Linked
<1>1. \A x, y \in Linked : <<x, y>> \in Linked \X Linked /\ <<x, y>>[1] = x /\ <<x, y>>[2] = y
  OBVIOUS
<1>2. \A p \in Linked \X Linked : p = <<p[1], p[2]>> /\ p[1] \in Linked /\ p[2] \in Linked
  OBVIOUS
<1>. QED BY <1>1, <1>2 DEF WalkBefore

(* Linking appends: the new node comes after all others, and a walk that   *)
(* went through another node before goes through it still.                 *)
LEMMA LinkAppends ==
  ASSUME RingOK, NEW n \in Sto, n \notin Linked, Link(n)
  PROVE  List!Insert(n)
<1>. USE NULLAssumption DEF RingOK, RingTypeOK
<1>1. RingOK' /\ Linked' = Linked \cup {n}
  BY LinkKeepsRing
<1>2. n \notin Walked /\ Walked = Linked /\ Walked' = Walked \cup {n}
  BY <1>1 DEF WalkReachesAll
<1>3. CASE LinkOnly(n)
  <2>1. Linked = {} /\ Linked' = {n}
    BY <1>1, <1>3 DEF LinkOnly, RingConsistent, Linked
  <2>2. WalkBefore' = {}
    BY <2>1, BeforeNext DEF Ahead
  <2>. QED BY <1>2, <2>1, <2>2, InWalkBefore DEF List!Insert
<1>4. CASE LinkLast(n)
  <2>. DEFINE head == pHeadDevNode
              last == pPrevious[head]
  <2>1. head \in Linked /\ last \in Linked /\ pNext[last] = head
    BY <1>4 DEF LinkLast, RingConsistent
  <2>2. head # n /\ last # n /\ head \in Sto /\ last \in Sto /\ pNext[n] = NULL
    BY <2>1 DEF Linked
  <2>3. /\ pHeadDevNode' = head /\ pNext'[n] = head /\ pNext'[last] = n
        /\ \A m \in Sto : m # n /\ m # last => pNext'[m] = pNext[m]
    BY <1>4, <2>2 DEF LinkLast
  <2>4. pHeadDevNode = head /\ last = pPrevious[pHeadDevNode]
    OBVIOUS
  <2>. HIDE DEF head, last
  <2>5. ASSUME NEW y \in Linked PROVE ~Ahead(n, y)'
    <3>1. GoesOn({n})' /\ {n} \in SUBSET (Sto \ {y})
      BY <2>3 DEF GoesOn
    <3>. QED BY <3>1 DEF Ahead
  <2>6. ASSUME NEW x \in Linked PROVE Ahead(x, n)'
    <3>. SUFFICES ASSUME NEW S \in SUBSET (Sto \ {n}), x \in S, GoesOn(S)' PROVE FALSE
      BY DEF Ahead
    <3>1. last \notin S
      BY <2>2, <2>3 DEF GoesOn
    <3>2. GoesOn(S)
      BY <2>3, <2>4, <3>1 DEF GoesOn
    <3>. QED BY <2>4, <3>1, <3>2, LastIsAhead
  <2>7. ASSUME NEW x \in Linked, NEW y \in Linked PROVE Ahead(x, y)' <=> Ahead(x, y)
    <3>1. ASSUME Ahead(x, y), NEW S \in SUBSET (Sto \ {y}), x \in S, GoesOn(S)' PROVE FALSE
      <4>. DEFINE T == S \cap Linked
      <4>1. ASSUME NEW k \in T PROVE pNext[k] \in T \cup {head}
        <5>1. k \in Sto /\ k # n /\ pNext[k] \in Linked /\ pNext[k] \in Sto
          BY DEF RingConsistent, Linked
        <5>2. pNext[k] \in S \cup {head, NULL} \/ k = last
          BY <2>3, <3>1, <5>1 DEF GoesOn
        <5>. QED BY <2>1, <5>1, <5>2
      <4>2. GoesOn(T) /\ T \in SUBSET (Sto \ {y}) /\ x \in T
        BY <2>4, <3>1, <4>1 DEF GoesOn
      <4>. QED BY <3>1, <4>2 DEF Ahead
    <3>2. ASSUME Ahead(x, y)', NEW S \in SUBSET (Sto \ {y}), x \in S, GoesOn(S) PROVE FALSE
      <4>. DEFINE T == S \cup {n}
      <4>1. ASSUME NEW k \in T PROVE pNext'[k] \in T \cup {head, NULL}
        <5>1. CASE k = n \/ k = last
          BY <2>3, <5>1
        <5>2. CASE k # n /\ k # last
          BY <2>3, <2>4, <3>2, <5>2 DEF GoesOn
        <5>. QED BY <5>1, <5>2
      <4>2. GoesOn(T)' /\ T \in SUBSET (Sto \ {y}) /\ x \in T
        BY <2>3, <3>2, <4>1 DEF GoesOn
      <4>. QED BY <3>2, <4>2 DEF Ahead
    <3>. QED BY <3>1, <3>2 DEF Ahead
  <2>. DEFINE R == WalkBefore \cup (Linked \X {n})
  <2>8. ASSUME NEW p \in R PROVE p \in Linked' \X Linked' /\ Ahead(p[1], p[2])'
    <3>1. CASE p \in WalkBefore
      <4>1. PICK x \in Linked, y \in Linked : p = <<x, y>> /\ Ahead(x, y)
        BY <3>1, InWalkBefore
      <4>2. Ahead(x, y)'
        BY <2>7, <4>1
      <4>. QED BY <1>1, <4>1, <4>2
    <3>2. CASE p \in Linked \X {n}
      <4>1. PICK x \in Linked : p = <<x, n>>
        BY <3>2
      <4>2. Ahead(x, n)'
        BY <2>6
      <4>. QED BY <1>1, <4>1, <4>2
    <3>. QED BY <3>1, <3>2
  <2>9. ASSUME NEW x \in Linked', NEW y \in Linked', Ahead(x, y)' PROVE <<x, y>> \in R
    <3>1. CASE y = n
      <4>1. x # n
        BY <2>9, <3>1 DEF Ahead
      <4>. QED BY <1>1, <3>1, <4>1
    <3>2. CASE y \in Linked
      <4>1. x \in Linked
        BY <1>1, <2>5, <2>9, <3>2
      <4>. QED BY <2>7, <2>9, <3>2, <4>1, InWalkBefore
    <3>. QED BY <1>1, <3>1, <3>2
  <2>. HIDE DEF R
  <2>10. WalkBefore' = R
    BY <2>8, <2>9, BeforeNext
  <2>. QED BY <1>2, <2>10 DEF List!Insert, R
<1>. QED BY <1>3, <1>4 DEF Link

(* Unlinking takes one node out of the order and leaves that of the others.*)
LEMMA UnlinkDeletes ==
  ASSUME RingOK, NEW n \in Linked, Unlink(n)
  PROVE  List!Delete(n)
<1>. USE NULLAssumption DEF RingOK, RingTypeOK
<1>1. RingOK' /\ Linked' = Linked \ {n}
  BY UnlinkKeepsRing
<1>2. n \in Walked /\ Walked = Linked /\ Walked' = Walked \ {n}
  BY <1>1 DEF WalkReachesAll
<1>. DEFINE R == {p \in WalkBefore : p[1] # n /\ p[2] # n}
<1>3. ASSUME \A x, y \in Linked' : Ahead(x, y)' <=> Ahead(x, y)
      PROVE  List!Delete(n)
  <2>1. ASSUME NEW p \in R PROVE p \in Linked' \X Linked' /\ Ahead(p[1], p[2])'
    <3>1. PICK x \in Linked, y \in Linked : p = <<x, y>> /\ Ahead(x, y)
      BY InWalkBefore
    <3>2. x # n /\ y # n
      BY <3>1
    <3>3. Ahead(x, y)'
      BY <1>1, <1>3, <3>1, <3>2
    <3>. QED BY <1>1, <3>1, <3>2, <3>3
  <2>2. ASSUME NEW x \in Linked', NEW y \in Linked', Ahead(x, y)' PROVE <<x, y>> \in R
    <3>1. Ahead(x, y) /\ x \in Linked /\ y \in Linked /\ x # n /\ y # n
      BY <1>1, <1>3, <2>2
    <3>2. <<x, y>> \in WalkBefore
      BY <3>1, InWalkBefore
    <3>. QED BY <3>1, <3>2
  <2>3. WalkBefore' = R
    <3>. HIDE DEF R
    <3>. QED BY <2>1, <2>2, BeforeNext
  <2>. QED BY <1>2, <2>3 DEF List!Delete
<1>4. CASE UnlinkOnly(n)
  <2>1. Linked' = {}
    BY <1>1, <1>4, SelfLinkedIsOnly DEF UnlinkOnly
  <2>. QED BY <1>3, <2>1
<1>5. CASE UnlinkInner(n)
  <2>. DEFINE nx == pNext[n]
              pr == pPrevious[n]
  <2>1. /\ n \in Sto /\ nx \in Linked /\ pr \in Linked /\ nx # NULL
        /\ pPrevious[nx] = n /\ pNext[pr] = n
    BY DEF RingConsistent, Linked
  <2>2. /\ nx # n /\ pr # n
    BY <1>5, <2>1, SelfLinkedIsOnly DEF UnlinkInner
  <2>3. /\ pNext' = [pNext EXCEPT ![pr] = nx, ![n] = NULL]
        /\ pHeadDevNode' = IF n = pHeadDevNode THEN nx ELSE pHeadDevNode
    BY <1>5 DEF UnlinkInner
  <2>4. /\ pNext'[pr] = nx
        /\ \A k \in Sto : k # n /\ k # pr => pNext'[k] = pNext[k]
    BY <2>1, <2>2, <2>3 DEF Linked
  <2>5. \A k \in Linked : /\ k \in Sto /\ pNext[k] \in Linked /\ pNext[k] # NULL
                          /\ k # pr => pNext[k] # n
                          /\ k # n => pNext[k] # nx
    BY <2>1 DEF RingConsistent, Linked
  <2>6. pNext[n] = nx
    OBVIOUS
  <2>. HIDE DEF nx, pr
  <2>7. ASSUME NEW x \in Linked', NEW y \in Linked' PROVE Ahead(x, y)' <=> Ahead(x, y)
    <3>1. x \in Linked /\ y \in Linked /\ x # n /\ y # n
      BY <1>1
    <3>2. ASSUME Ahead(x, y), NEW S \in SUBSET (Sto \ {y}), x \in S, GoesOn(S)' PROVE FALSE
      <4>1. \A k \in (S \cap Linked) \ {n, pr} :
              pNext[k] \in ((S \cap Linked) \ {n}) \cup {pHeadDevNode'}
        BY <2>4, <2>5, <3>2 DEF GoesOn
      <4>2. pr \in S => nx \in S \cup {pHeadDevNode'}
        BY <2>1, <2>4, <3>2 DEF GoesOn
      <4>3. CASE n = pHeadDevNode \/ pr \notin S
        <5>. DEFINE T == (S \cap Linked) \ {n}
        <5>1. \A k \in T : pNext[k] \in T \cup {pHeadDevNode}
          BY <2>1, <2>3, <2>5, <4>1, <4>3
        <5>2. GoesOn(T) /\ T \in SUBSET (Sto \ {y}) /\ x \in T
          BY <3>1, <3>2, <5>1 DEF GoesOn
        <5>. QED BY <3>2, <5>2 DEF Ahead
      <4>4. CASE n # pHeadDevNode /\ pr \in S
        <5>. DEFINE T == (S \cap Linked) \cup {n}
        <5>1. \A k \in T : pNext[k] \in T \cup {pHeadDevNode}
          BY <2>1, <2>3, <2>6, <4>1, <4>2, <4>4
        <5>2. GoesOn(T) /\ T \in SUBSET (Sto \ {y}) /\ x \in T
          BY <2>1, <3>1, <3>2, <5>1 DEF GoesOn
        <5>. QED BY <3>2, <5>2 DEF Ahead
      <4>. QED BY <4>3, <4>4
    <3>3. ASSUME Ahead(x, y)', NEW S \in SUBSET (Sto \ {y}), x \in S, GoesOn(S) PROVE FALSE
      <4>0. PICK T \in SUBSET (Sto \ {y}) : T = (S \cap Linked) \ {n}
        OBVIOUS
      <4>1. ASSUME NEW k \in T PROVE pNext'[k] \in T \cup {pHeadDevNode'}
        <5>1. k \in S /\ k \in Linked /\ k # n /\ pNext[k] \in S \cup {pHeadDevNode}
          BY <2>5, <3>3, <4>0 DEF GoesOn
        <5>2. CASE k # pr
          BY <2>3, <2>4, <2>5, <4>0, <5>1, <5>2
        <5>3. CASE k = pr /\ n = pHeadDevNode
          BY <2>3, <2>4, <4>0, <5>1, <5>3
        <5>4. CASE k = pr /\ n # pHeadDevNode
          <6>1. n \in S
            BY <2>1, <5>1, <5>4
          <6>2. nx \in S \cup {pHeadDevNode}
            BY <2>1, <2>6, <3>3, <6>1 DEF GoesOn
          <6>. QED BY <2>1, <2>2, <2>3, <2>4, <4>0, <5>4, <6>2
        <5>. QED BY <5>2, <5>3, <5>4
      <4>2. GoesOn(T)' /\ T \in SUBSET (Sto \ {y}) /\ x \in T
        BY <3>1, <3>3, <4>0, <4>1 DEF GoesOn
      <4>. QED BY <3>3, <4>2 DEF Ahead
    <3>. QED BY <3>2, <3>3 DEF Ahead
  <2>. QED BY <1>3, <2>7
<1>. QED BY <1>4, <1>5 DEF Unlink

(* Each step of the store appends to the list, deletes from it, or leaves  *)
(* it as it is.                                                            *)
LEMMA ListStep == StoreInv /\ [StoreNext]_allVars => [List!Next]_(List!vars)
<1>. SUFFICES ASSUME StoreInv, [StoreNext]_allVars PROVE [List!Next]_(List!vars)
  OBVIOUS
<1>1. RingOK
  BY DEF StoreInv, StoreTypeOK, RingOK
<1>2. ASSUME UNCHANGED ringVars PROVE UNCHANGED List!vars
  BY <1>2 DEF ringVars, List!vars, Walked, WalkClosed, WalkBefore, Linked, Ahead, GoesOn
<1>3. ASSUME NEW d \in Devs, NEW err, Create(d, err) PROVE [List!Next]_(List!vars)
  <2>1. ASSUME NEW s \in Sto \ alloc, Link(s) PROVE List!Next
    <3>1. s \notin Linked
      BY <2>1 DEF StoreInv, StorageOwned
    <3>2. List!Insert(s) /\ s \in Sto
      BY <1>1, <2>1, <3>1, LinkAppends
    <3>. QED BY <3>2 DEF List!Next
  <2>. QED BY <1>2, <1>3, <2>1
       DEF Create, DevSetCustomIdiDevData, SetRefused, SetNoMemory, SetStored, storeVars
<1>4. ASSUME NEW d \in Devs, NEW err, Delete(d, err) PROVE [List!Next]_(List!vars)
  <2>1. ASSUME NEW s \in Walked, Unlink(s) PROVE List!Next
    <3>1. s \in Linked /\ s \in Sto
      BY DEF StoreInv, WalkReachesAll, Linked
    <3>2. List!Delete(s)
      BY <1>1, <2>1, <3>1, UnlinkDeletes
    <3>. QED BY <3>1, <3>2 DEF List!Next
  <2>2. ASSUME idiDevData[d] \in Walked, Unlink(idiDevData[d]) PROVE List!Next
    <3>1. PICK s \in Walked : s = idiDevData[d]
      BY <2>2
    <3>. QED BY <2>1, <2>2, <3>1
  <2>. QED BY <1>2, <1>4, <2>2 DEF Delete, DevRemoveCustomIdiDevData, RemoveFound, storeVars
<1>5. ASSUME NEW d \in Devs, NEW p \in Dps, NEW err, DpCreate(d, p, err)
      PROVE  UNCHANGED ringVars
  BY <1>5 DEF DpCreate, IdiDpProcessCustomColum, BindDp, storeVars
<1>6. ASSUME NEW s, NEW r, NEW v, SetReg(s, r, v) PROVE UNCHANGED ringVars
  BY <1>6 DEF SetReg
<1>7. ASSUME NEW d \in Devs,
             \/ \E u \in Uids \cup {NULL} : IdlNewDev(d, u)
             \/ \E u \in Uids : IdlNewUnid(d, u)
             \/ IdlStartDelete(d) \/ IdlFreeDev(d) \/ Replace(d)
      PROVE  UNCHANGED ringVars
  BY <1>7 DEF IdlNewDev, IdlNewUnid, IdlStartDelete, IdlFreeDev, Replace, DevReplaceUnid,
              storeVars
<1>8. CASE UNCHANGED allVars
  BY <1>2, <1>8 DEF allVars, storeVars
<1>. QED BY <1>2, <1>3, <1>4, <1>5, <1>6, <1>7, <1>8
     DEF StoreNext, DpWrite, StoreWrite, DevEvent, DevRegEvHndl

(* The ring of pointers implements the ordered list: whatever is created   *)
(* and deleted, a walk visits the nodes in the order they were linked in.  *)
THEOREM RingIsList == StoreSpec => ListSpec
<1>1. StoreInit => List!Init
  <2>1. StoreInit => Linked = {} /\ Walked = {}
    BY DEF StoreInit, RingInit, Linked, Walked
  <2>. QED BY <2>1, InWalkBefore DEF List!Init
<1>2. StoreInv /\ [StoreNext]_allVars => [List!Next]_(List!vars)
  BY ListStep
<1>. QED BY <1>1, <1>2, StoreInvariant, PTL DEF StoreSpec, ListSpec, List!Spec

-----------------------------------------------------------------------------
SlotsInv == StoreInv /\ DpSlotsOwn
LinkInv  == StoreInv /\ StoredIsLinked

(* Without storage a device that is not dead has no datapoint set up.      *)
LEMMA NoStorageNoSlots ==
  ASSUME SlotsInv, NEW d \in Devs, devState[d] # "dead", idiDevData[d] = NULL, NEW p \in Dps
  PROVE  idiDpData[d][p] = NULL
<1>1. idiDpData[d][p] \in (Sto \X Regs) \cup {NULL}
  BY DEF SlotsInv, StoreInv, StoreTypeOK
<1>2. idiDpData[d][p] # NULL => idiDpData[d][p][1] = NULL
  BY DEF SlotsInv, DpSlotsOwn, Bound
<1>. QED BY <1>1, <1>2, NULLAssumption

(* A step that leaves the slots alone and wakes no dead device.            *)
LEMMA QuietStepKeepsSlots ==
  ASSUME DpSlotsOwn,
         UNCHANGED <<idiDevData, idiDpData, devDpEntry, pDevDpVector>>,
         \A d \in Devs : devState[d] = "dead" => devState'[d] = "dead"
  PROVE  DpSlotsOwn'
BY DEF DpSlotsOwn, Bound, DpReg, DpMult

(* A device gets a block; it has no datapoint set up yet.                  *)
LEMMA SetStoredKeepsSlots ==
  ASSUME SlotsInv, NEW d \in Devs, NEW s \in Sto \ alloc, idiDevData[d] = NULL,
         SetStored(d, s), devState[d] # "dead",
         devState' = [devState EXCEPT ![d] = "created"]
  PROVE  DpSlotsOwn'
<1>1. \A p \in Dps : idiDpData[d][p] = NULL
  BY NoStorageNoSlots
<1>2. UNCHANGED <<idiDpData, devDpEntry, pDevDpVector>>
  BY DEF SetStored
<1>3. \A e \in Devs \ {d} : idiDevData'[e] = idiDevData[e] /\ devState'[e] = devState[e]
  BY DEF SetStored, SlotsInv, StoreInv, StoreTypeOK
<1>. SUFFICES ASSUME NEW e \in Devs, NEW p \in Dps,
                     devState'[e] # "dead", idiDpData'[e][p] # NULL
              PROVE  /\ Bound(e, p)'
                     /\ idiDpData'[e][p][2] < devDpEntry'[idiDevData'[e]]
                     /\ DpReg(e, p)' = Address[p]
                     /\ DpMult(e, p)' = ColumnMult(p, 0)
                     /\ \A q \in Dps \ {p} : idiDpData'[e][q] # idiDpData'[e][p]
  BY DEF DpSlotsOwn
<1>4. e # d
  BY <1>1, <1>2
<1>. QED BY <1>2, <1>3, <1>4 DEF SlotsInv, DpSlotsOwn, Bound, DpReg, DpMult

(* A device's block is freed; no other device's slots are in it.           *)
LEMMA RemoveFoundKeepsSlots ==
  ASSUME SlotsInv, NEW d \in Devs, idiDevData[d] \in Walked,
         RemoveFound(d, idiDevData[d]),
         devState' = [devState EXCEPT ![d] = "dead"]
  PROVE  DpSlotsOwn'
<1>. DEFINE s == idiDevData[d]
<1>1. s \in Sto
  BY DEF Walked
<1>2. \A e \in Devs \ {d} : idiDevData[e] # s
  BY <1>1, NULLAssumption DEF SlotsInv, StoreInv, StorageOwned, Stored
<1>3. /\ idiDpData' = idiDpData /\ devState'[d] = "dead"
      /\ \A e \in Devs \ {d} : idiDevData'[e] = idiDevData[e] /\ devState'[e] = devState[e]
      /\ \A t \in Sto \ {s} : devDpEntry'[t] = devDpEntry[t] /\ pDevDpVector'[t] = pDevDpVector[t]
  BY DEF RemoveFound, SlotsInv, StoreInv, StoreTypeOK
<1>. HIDE DEF s
<1>. SUFFICES ASSUME NEW e \in Devs, NEW p \in Dps,
                     devState'[e] # "dead", idiDpData'[e][p] # NULL
              PROVE  /\ Bound(e, p)'
                     /\ idiDpData'[e][p][2] < devDpEntry'[idiDevData'[e]]
                     /\ DpReg(e, p)' = Address[p]
                     /\ DpMult(e, p)' = ColumnMult(p, 0)
                     /\ \A q \in Dps \ {p} : idiDpData'[e][q] # idiDpData'[e][p]
  BY DEF DpSlotsOwn
<1>4. e # d /\ idiDevData'[e] = idiDevData[e] /\ devState[e] # "dead" /\ idiDpData[e][p] # NULL
  BY <1>3
<1>5. idiDpData[e][p] \in Sto \X Regs /\ Bound(e, p)
  BY <1>4 DEF SlotsInv, StoreInv, StoreTypeOK, DpSlotsOwn
<1>6. idiDevData[e] \in Sto \ {s} /\ idiDpData[e][p][1] = idiDevData[e]
  BY <1>2, <1>4, <1>5 DEF Bound
<1>. QED BY <1>3, <1>4, <1>6 DEF SlotsInv, DpSlotsOwn, Bound, DpReg, DpMult

(* A datapoint gets the next slot of its device's block.                   *)
LEMMA BindDpKeepsSlots ==
  ASSUME SlotsInv, NEW d \in Devs, NEW p \in Dps, idiDpData[d][p] = NULL,
         MayBind(d, p), BindDp(d, p), UNCHANGED idlVars
  PROVE  DpSlotsOwn'
<1>. DEFINE s == idiDevData[d]
            k == devDpEntry[s]
            slot == [address |-> Address[p], testMultiplier |-> ColumnMult(p, 0)]
<1>1. DevDpCounts \in Nat
  BY DpsAssumption, FS_CardinalityType DEF DevDpCounts
<1>2. s \in Sto /\ k \in Nat /\ k \in Regs /\ d \in Stored /\ devState[d] # "dead"
  BY <1>1 DEF MayBind, Regs, SlotsInv, StoreInv, StoreTypeOK, StorageOwned, Stored
<1>3. \A e \in Devs \ {d} : idiDevData[e] # s
  BY <1>2, NULLAssumption DEF SlotsInv, StoreInv, StorageOwned, Stored
<1>4. /\ idiDevData' = idiDevData /\ devState' = devState
      /\ idiDpData' = [idiDpData EXCEPT ![d][p] = <<s, k>>]
      /\ devDpEntry' = [devDpEntry EXCEPT ![s] = k + 1]
      /\ pDevDpVector' = [pDevDpVector EXCEPT ![s][k] = slot]
  BY DEF BindDp, idlVars
<1>5. /\ idiDpData \in [Devs -> [Dps -> (Sto \X Regs) \cup {NULL}]]
      /\ devDpEntry \in [Sto -> 0..DevDpCounts]
      /\ pDevDpVector \in [Sto -> [Regs -> SlotType]]
  BY DEF SlotsInv, StoreInv, StoreTypeOK
<1>6. /\ idiDpData'[d][p] = <<s, k>> /\ devDpEntry'[s] = k + 1
      /\ \A e \in Devs, q \in Dps : <<e, q>> # <<d, p>> => idiDpData'[e][q] = idiDpData[e][q]
  BY <1>2, <1>4, <1>5
<1>7. /\ pDevDpVector'[s][k] = slot
      /\ \A t \in Sto, j \in Regs : <<t, j>> # <<s, k>> => pDevDpVector'[t][j] = pDevDpVector[t][j]
  BY <1>2, <1>4, <1>5
<1>8. \A t \in Sto \ {s} : devDpEntry'[t] = devDpEntry[t]
  BY <1>2, <1>4, <1>5
<1>9. \A q \in Dps : idiDpData[d][q] # NULL =>
        idiDpData[d][q][1] = s /\ idiDpData[d][q][2] < k /\ idiDpData[d][q][2] \in Nat
  BY <1>1, <1>2, <1>5 DEF SlotsInv, DpSlotsOwn, Bound, Regs
<1>10. slot.address = Address[p] /\ slot.testMultiplier = ColumnMult(p, 0)
  OBVIOUS
<1>. HIDE DEF s, k, slot
<1>. SUFFICES ASSUME NEW e \in Devs, NEW q \in Dps,
                     devState'[e] # "dead", idiDpData'[e][q] # NULL
              PROVE  /\ Bound(e, q)'
                     /\ idiDpData'[e][q][2] < devDpEntry'[idiDevData'[e]]
                     /\ DpReg(e, q)' = Address[q]
                     /\ DpMult(e, q)' = ColumnMult(q, 0)
                     /\ \A o \in Dps \ {q} : idiDpData'[e][o] # idiDpData'[e][q]
  BY DEF DpSlotsOwn
<1>11. s = idiDevData[d] /\ <<s, k>>[1] = s /\ <<s, k>>[2] = k
  BY DEF s
<1>12. CASE e = d /\ q = p
  <2>1. \A o \in Dps \ {p} : idiDpData'[d][o] # <<s, k>>
    <3>. SUFFICES ASSUME NEW o \in Dps \ {p}, idiDpData[d][o] = <<s, k>> PROVE FALSE
      BY <1>6
    <3>1. idiDpData[d][o] # NULL
      BY <1>2, PointerAssumption
    <3>2. idiDpData[d][o][2] < k
      BY <1>9, <3>1
    <3>3. idiDpData[d][o][2] = k
      BY <1>11
    <3>. QED BY <1>2, <3>2, <3>3
  <2>. QED BY <1>2, <1>4, <1>6, <1>7, <1>10, <1>11, <1>12, <2>1 DEF Bound, DpReg, DpMult
<1>13. CASE e = d /\ q # p
  <2>1. idiDpData'[d][q] = idiDpData[d][q] /\ idiDpData[d][q] \in Sto \X Regs
    BY <1>5, <1>6, <1>13
  <2>2. idiDpData[d][q][1] = s /\ idiDpData[d][q][2] < k /\ idiDpData[d][q][2] \in Regs
    BY <1>9, <1>13, <2>1
  <2>3. /\ Bound(d, q) /\ DpReg(d, q) = Address[q] /\ DpMult(d, q) = ColumnMult(q, 0)
        /\ \A o \in Dps \ {q} : idiDpData[d][o] # idiDpData[d][q]
    BY <1>4, <1>13, <2>1 DEF SlotsInv, DpSlotsOwn
  <2>4. DpReg(d, q)' = DpReg(d, q) /\ DpMult(d, q)' = DpMult(d, q)
    BY <1>2, <1>7, <2>1, <2>2 DEF DpReg, DpMult
  <2>5. \A o \in Dps \ {q} : idiDpData'[d][o] # idiDpData'[d][q]
    BY <1>2, <1>6, <1>11, <2>1, <2>2, <2>3
  <2>6. idiDpData'[d][q][2] < devDpEntry'[idiDevData'[d]]
    BY <1>1, <1>2, <1>4, <1>6, <1>11, <2>1, <2>2 DEF Regs
  <2>. QED BY <1>4, <1>13, <2>1, <2>3, <2>4, <2>5, <2>6 DEF Bound
<1>14. CASE e # d
  <2>1. /\ \A o \in Dps : idiDpData'[e][o] = idiDpData[e][o]
        /\ idiDpData[e][q] \in Sto \X Regs
    BY <1>5, <1>6, <1>14
  <2>2. /\ Bound(e, q) /\ DpReg(e, q) = Address[q] /\ DpMult(e, q) = ColumnMult(q, 0)
        /\ idiDpData[e][q][2] < devDpEntry[idiDevData[e]]
        /\ \A o \in Dps \ {q} : idiDpData[e][o] # idiDpData[e][q]
    BY <1>4, <2>1 DEF SlotsInv, DpSlotsOwn
  <2>3. idiDpData[e][q][1] = idiDevData[e] /\ idiDevData[e] \in Sto \ {s}
    BY <1>3, <1>14, <2>1, <2>2 DEF Bound
  <2>4. DpReg(e, q)' = DpReg(e, q) /\ DpMult(e, q)' = DpMult(e, q)
    BY <1>7, <2>1, <2>3 DEF DpReg, DpMult
  <2>. QED BY <1>4, <1>8, <2>1, <2>2, <2>3, <2>4 DEF Bound
<1>. QED BY <1>12, <1>13, <1>14

-----------------------------------------------------------------------------
LEMMA SlotsStep == SlotsInv /\ [StoreNext]_allVars => DpSlotsOwn'
<1>. SUFFICES ASSUME SlotsInv, [StoreNext]_allVars PROVE DpSlotsOwn'
  OBVIOUS
<1>. USE DEF SlotsInv
<1>1. devState \in [Devs -> DevStates] /\ idiDpData \in [Devs -> [Dps -> (Sto \X Regs) \cup {NULL}]]
  BY DEF StoreInv, StoreTypeOK
<1>2. ASSUME NEW d \in Devs, \/ \E u \in Uids \cup {NULL} : IdlNewDev(d, u)
                             \/ IdlStartDelete(d)
      PROVE  DpSlotsOwn'
  <2>1. /\ devState[d] # "dead" /\ UNCHANGED storeVars
        /\ \A e \in Devs \ {d} : devState'[e] = devState[e]
    BY <1>1, <1>2 DEF IdlNewDev, IdlStartDelete
  <2>. QED BY <2>1, QuietStepKeepsSlots DEF storeVars, blockVars
<1>3. ASSUME NEW d \in Devs, \/ \E u \in Uids : IdlNewUnid(d, u)
                             \/ Replace(d)
      PROVE  DpSlotsOwn'
  <2>1. UNCHANGED <<idiDevData, idiDpData, devDpEntry, pDevDpVector, devState>>
    BY <1>3 DEF IdlNewUnid, Replace, DevReplaceUnid, storeVars, blockVars, idlVars
  <2>. QED BY <2>1, QuietStepKeepsSlots
<1>4. ASSUME NEW d \in Devs, IdlFreeDev(d) PROVE DpSlotsOwn'
  <2>1. /\ \A p \in Dps : idiDpData'[d][p] = NULL
        /\ \A e \in Devs \ {d} : idiDpData'[e] = idiDpData[e] /\ devState'[e] = devState[e]
        /\ UNCHANGED <<idiDevData, devDpEntry, pDevDpVector>>
    BY <1>1, <1>4 DEF IdlFreeDev, NoDps, blockVars
  <2>. QED BY <2>1 DEF DpSlotsOwn, Bound, DpReg, DpMult
<1>5. ASSUME NEW d \in Devs, NEW err, Create(d, err) PROVE DpSlotsOwn'
  <2>1. /\ devState[d] \in {"creating", "created"}
        /\ devState' = [devState EXCEPT ![d] = IF err = IErr_Success THEN "created" ELSE "dead"]
    BY <1>5 DEF Create, IdlCreateResult
  <2>2. CASE UNCHANGED <<idiDevData, idiDpData, devDpEntry, pDevDpVector>>
    <3>1. \A e \in Devs : devState[e] = "dead" => devState'[e] = "dead"
      BY <1>1, <2>1
    <3>. QED BY <2>2, <3>1, QuietStepKeepsSlots
  <2>3. ASSUME NEW s \in Sto \ alloc, idiDevData[d] = NULL, SetStored(d, s), err = IErr_Success
        PROVE  DpSlotsOwn'
    BY <2>1, <2>3, SetStoredKeepsSlots
  <2>. QED BY <1>5, <2>2, <2>3
           DEF Create, DevSetCustomIdiDevData, SetRefused, SetNoMemory, storeVars, blockVars
<1>6. ASSUME NEW d \in Devs, NEW err, Delete(d, err) PROVE DpSlotsOwn'
  <2>1. /\ devState[d] = "deleting"
        /\ devState' = [devState EXCEPT ![d] = IF err = IErr_Success THEN "dead" ELSE "created"]
    BY <1>6 DEF Delete, IdlDeleteResult
  <2>2. CASE UNCHANGED storeVars
    <3>1. \A e \in Devs : devState[e] = "dead" => devState'[e] = "dead"
      BY <1>1, <2>1
    <3>. QED BY <2>2, <3>1, QuietStepKeepsSlots DEF storeVars, blockVars
  <2>3. CASE /\ err = IErr_Success /\ idiDevData[d] \in Walked
             /\ RemoveFound(d, idiDevData[d])
    BY <2>1, <2>3, RemoveFoundKeepsSlots
  <2>. QED BY <1>6, <2>2, <2>3 DEF Delete, DevRemoveCustomIdiDevData
<1>7. ASSUME NEW d \in Devs, NEW p \in Dps, NEW err, DpCreate(d, p, err) PROVE DpSlotsOwn'
  <2>1. CASE idiDpData[d][p] = NULL /\ MayBind(d, p) /\ BindDp(d, p)
    BY <1>7, <2>1, BindDpKeepsSlots DEF DpCreate
  <2>2. CASE UNCHANGED storeVars
    BY <1>7, <2>2, QuietStepKeepsSlots DEF DpCreate, idlVars, storeVars, blockVars
  <2>. QED BY <1>7, <2>1, <2>2 DEF DpCreate, IdiDpProcessCustomColum
<1>8. ASSUME NEW s, NEW r, NEW v, SetReg(s, r, v), UNCHANGED idlVars PROVE DpSlotsOwn'
  BY <1>8, QuietStepKeepsSlots DEF SetReg, idlVars
<1>9. CASE UNCHANGED allVars
  BY <1>9, QuietStepKeepsSlots DEF allVars, idlVars, storeVars, blockVars
<1>. QED BY <1>2, <1>3, <1>4, <1>5, <1>6, <1>7, <1>8, <1>9
         DEF StoreNext, DpWrite, StoreWrite, DevEvent, DevRegEvHndl

(* The datapoints of a device that has not been deleted lie in its own     *)
(* block, in different slots, with their own registers and multipliers.    *)
THEOREM SlotsAreOwn == StoreSpec => []DpSlotsOwn
<1>1. StoreInit => SlotsInv
  <2>1. StoreInit => DpSlotsOwn
    BY DEF StoreInit, NoDps, DpSlotsOwn
  <2>. QED BY <2>1, StoreInitInv DEF SlotsInv
<1>2. SlotsInv /\ [StoreNext]_allVars => SlotsInv'
  BY StoreStepKeepsInv, SlotsStep DEF SlotsInv
<1>3. SlotsInv => DpSlotsOwn
  BY DEF SlotsInv
<1>. QED BY <1>1, <1>2, <1>3, PTL DEF StoreSpec

-----------------------------------------------------------------------------
LEMMA LinkStep == LinkInv /\ [StoreNext]_allVars => StoredIsLinked'
<1>. SUFFICES ASSUME LinkInv, [StoreNext]_allVars PROVE StoredIsLinked'
  OBVIOUS
<1>0. StoreInv'
  BY StoreStepKeepsInv DEF LinkInv
<1>. SUFFICES ASSUME ~AllocFails, NEW d \in Devs, idiDevData'[d] # NULL
              PROVE  idiDevData'[d] \in Linked'
  BY <1>0 DEF StoreInv, WalkReachesAll, StoredIsLinked, Stored
<1>1. /\ StoreInv /\ idiDevData \in [Devs -> Sto \cup {NULL}]
      /\ \A e \in Devs : idiDevData[e] # NULL => idiDevData[e] \in Linked
  BY DEF LinkInv, StoredIsLinked, Stored, StoreInv, StoreTypeOK, WalkReachesAll
<1>2. RingOK
  BY <1>1 DEF StoreInv, StoreTypeOK, RingOK
<1>3. CASE UNCHANGED <<ringVars, idiDevData>>
  BY <1>1, <1>3 DEF ringVars, Linked
<1>4. ASSUME NEW e \in Devs, NEW s \in Sto \ alloc, SetStored(e, s)
      PROVE  idiDevData'[d] \in Linked'
  <2>1. s \notin Linked
    BY <1>1 DEF StoreInv, StorageOwned, Stored
  <2>2. Linked' = Linked \cup {s} /\ idiDevData' = [idiDevData EXCEPT ![e] = s]
    BY <1>2, <1>4, <2>1, LinkKeepsRing DEF SetStored
  <2>. QED BY <1>1, <2>2
<1>5. ASSUME NEW e \in Devs, idiDevData[e] \in Walked, RemoveFound(e, idiDevData[e])
      PROVE  idiDevData'[d] \in Linked'
  <2>1. idiDevData[e] \in Linked
    BY <1>1, <1>5 DEF StoreInv, WalkReachesAll
  <2>2. /\ Linked' = Linked \ {idiDevData[e]}
        /\ idiDevData' = [idiDevData EXCEPT ![e] = NULL]
    BY <1>2, <1>5, <2>1, UnlinkKeepsRing DEF RemoveFound
  <2>3. d # e
    BY <1>1, <2>2
  <2>4. idiDevData[d] # idiDevData[e]
    BY <1>1, <2>1, <2>2, <2>3, NULLAssumption DEF StoreInv, StorageOwned, Stored, Linked
  <2>. QED BY <1>1, <2>2, <2>3, <2>4
<1>6. \/ UNCHANGED <<ringVars, idiDevData>>
      \/ \E e \in Devs, s \in Sto \ alloc : SetStored(e, s)
      \/ \E e \in Devs : idiDevData[e] \in Walked /\ RemoveFound(e, idiDevData[e])
  <2>1. CASE UNCHANGED allVars
    BY <2>1 DEF allVars, storeVars
  <2>2. ASSUME NEW e \in Devs, NEW err, Create(e, err)
        PROVE  UNCHANGED <<ringVars, idiDevData>> \/ \E s \in Sto \ alloc : SetStored(e, s)
    BY <2>2 DEF Create, DevSetCustomIdiDevData, SetRefused, SetNoMemory, storeVars
  <2>3. ASSUME NEW e \in Devs, NEW err, Delete(e, err)
        PROVE  \/ UNCHANGED <<ringVars, idiDevData>>
               \/ idiDevData[e] \in Walked /\ RemoveFound(e, idiDevData[e])
    BY <2>3 DEF Delete, DevRemoveCustomIdiDevData, storeVars
  <2>4. ASSUME NEW e \in Devs, \/ \E u \in Uids \cup {NULL} : IdlNewDev(e, u)
                               \/ \E u \in Uids : IdlNewUnid(e, u)
                               \/ IdlStartDelete(e)
                               \/ IdlFreeDev(e)
                               \/ Replace(e)
        PROVE  UNCHANGED <<ringVars, idiDevData>>
    BY <2>4 DEF IdlNewDev, IdlNewUnid, IdlStartDelete, IdlFreeDev, Replace, DevReplaceUnid,
                storeVars
  <2>5. ASSUME NEW e \in Devs, NEW p \in Dps, NEW err, DpCreate(e, p, err)
        PROVE  UNCHANGED <<ringVars, idiDevData>>
    BY <2>5 DEF DpCreate, IdiDpProcessCustomColum, BindDp, storeVars
  <2>6. ASSUME NEW s, NEW r, NEW v, SetReg(s, r, v)
        PROVE  UNCHANGED <<ringVars, idiDevData>>
    BY <2>6 DEF SetReg
  <2>. QED BY <2>1, <2>2, <2>3, <2>4, <2>5, <2>6
           DEF StoreNext, DpWrite, StoreWrite, DevEvent, DevRegEvHndl
<1>. QED BY <1>3, <1>4, <1>5, <1>6

(* When no allocation fails, every device with storage is in the list, so  *)
(* its deletion and its ev messages find it.                               *)
THEOREM StoredAreLinked == StoreSpec => []StoredIsLinked
<1>1. StoreInit => LinkInv
  <2>1. StoreInit => StoredIsLinked
    BY DEF StoreInit, StoredIsLinked, Stored
  <2>. QED BY <2>1, StoreInitInv DEF LinkInv
<1>2. LinkInv /\ [StoreNext]_allVars => LinkInv'
  BY StoreStepKeepsInv, LinkStep DEF LinkInv
<1>3. LinkInv => StoredIsLinked
  BY DEF LinkInv
<1>. QED BY <1>1, <1>2, <1>3, PTL DEF StoreSpec

-----------------------------------------------------------------------------
(* devDpEntry counts the datapoints that have been set up, so a slot is    *)
(* left for each that has not.                                             *)
SetUp(d) == {p \in Dps : idiDpData[d][p] # NULL}

SlotCount ==
  /\ \A s \in Sto \ alloc : devDpEntry[s] = 0
  /\ \A d \in Stored : devDpEntry[idiDevData[d]] = Cardinality(SetUp(d))

(* No block is lost. *)
NoLostBlock == \A s \in alloc : \E d \in Stored : idiDevData[d] = s

LEMMA QuietKeepsCount ==
  ASSUME SlotCount, UNCHANGED <<idiDevData, devDpEntry>>, alloc \subseteq alloc',
         \A d \in Stored : idiDpData'[d] = idiDpData[d]
  PROVE  SlotCount'
BY DEF SlotCount, Stored, SetUp

LEMMA SetStoredKeepsCount ==
  ASSUME SlotsInv, SlotCount, NEW d \in Devs, NEW s \in Sto \ alloc, idiDevData[d] = NULL,
         SetStored(d, s), devState[d] # "dead"
  PROVE  SlotCount'
<1>1. SetUp(d) = {}
  BY NoStorageNoSlots DEF SetUp
<1>2. /\ UNCHANGED <<idiDpData, devDpEntry>> /\ alloc' = alloc \cup {s}
      /\ idiDevData' = [idiDevData EXCEPT ![d] = s] /\ devDpEntry[s] = 0
      /\ idiDevData \in [Devs -> Sto \cup {NULL}]
  BY DEF SetStored, SlotCount, SlotsInv, StoreInv, StoreTypeOK
<1>3. ASSUME NEW e \in Devs, idiDevData'[e] # NULL
      PROVE  devDpEntry'[idiDevData'[e]] = Cardinality(SetUp(e)')
  <2>1. SetUp(e)' = SetUp(e)
    BY <1>2 DEF SetUp
  <2>2. CASE e = d
    BY <1>1, <1>2, <2>1, <2>2, FS_EmptySet
  <2>3. CASE e # d
    BY <1>2, <1>3, <2>1, <2>3 DEF SlotCount, Stored
  <2>. QED BY <2>2, <2>3
<1>. QED BY <1>2, <1>3 DEF SlotCount, Stored

LEMMA RemoveFoundKeepsCount ==
  ASSUME StoreInv, SlotCount, NEW d \in Devs, idiDevData[d] \in Walked,
         RemoveFound(d, idiDevData[d])
  PROVE  SlotCount'
<1>. DEFINE s == idiDevData[d]
<1>1. s \in Sto /\ s # NULL /\ \A e \in Devs \ {d} : idiDevData[e] # s
  BY NULLAssumption DEF Walked, StoreInv, StorageOwned, Stored
<1>2. /\ idiDpData' = idiDpData /\ alloc' = alloc \ {s} /\ idiDevData'[d] = NULL
      /\ \A e \in Devs \ {d} : idiDevData'[e] = idiDevData[e]
      /\ devDpEntry'[s] = 0 /\ \A t \in Sto \ {s} : devDpEntry'[t] = devDpEntry[t]
  BY <1>1 DEF RemoveFound, StoreInv, StoreTypeOK
<1>3. \A e \in Devs : SetUp(e)' = SetUp(e) /\ idiDevData[e] \in Sto \cup {NULL}
  BY <1>2 DEF SetUp, StoreInv, StoreTypeOK
<1>. HIDE DEF s
<1>. QED BY <1>1, <1>2, <1>3 DEF SlotCount, Stored

LEMMA BindDpKeepsCount ==
  ASSUME StoreInv, SlotCount, NEW d \in Devs, NEW p \in Dps, idiDpData[d][p] = NULL,
         MayBind(d, p), BindDp(d, p)
  PROVE  SlotCount'
<1>. DEFINE s == idiDevData[d]
            k == devDpEntry[s]
<1>1. /\ s \in Sto /\ d \in Stored /\ s \in alloc /\ <<s, k>> # NULL
      /\ \A e \in Devs \ {d} : idiDevData[e] # s
  <2>1. s \in Sto /\ d \in Stored
    BY DEF MayBind, StoreInv, StoreTypeOK, Stored
  <2>2. k \in Regs
    BY <2>1, DpsAssumption, FS_CardinalityType
       DEF MayBind, Regs, DevDpCounts, StoreInv, StoreTypeOK
  <2>. QED BY <2>1, <2>2, PointerAssumption DEF StoreInv, StorageOwned, Stored
<1>2. /\ UNCHANGED <<idiDevData, alloc>>
      /\ idiDpData' = [idiDpData EXCEPT ![d][p] = <<s, k>>]
      /\ devDpEntry'[s] = k + 1 /\ \A t \in Sto \ {s} : devDpEntry'[t] = devDpEntry[t]
  BY <1>1 DEF BindDp, StoreInv, StoreTypeOK
<1>3. idiDpData \in [Devs -> [Dps -> (Sto \X Regs) \cup {NULL}]]
  BY DEF StoreInv, StoreTypeOK
<1>4. SetUp(d)' = SetUp(d) \cup {p} /\ p \notin SetUp(d)
      /\ \A e \in Devs \ {d} : SetUp(e)' = SetUp(e)
  <2>. HIDE DEF k, s
  <2>1. /\ idiDpData'[d][p] # NULL /\ \A q \in Dps \ {p} : idiDpData'[d][q] = idiDpData[d][q]
        /\ \A e \in Devs \ {d} : idiDpData'[e] = idiDpData[e]
    BY <1>1, <1>2, <1>3
  <2>. QED BY <2>1 DEF SetUp
<1>5. Cardinality(SetUp(d)') = Cardinality(SetUp(d)) + 1
  <2>1. IsFiniteSet(SetUp(d))
    BY DpsAssumption, FS_Subset DEF SetUp
  <2>. QED BY <1>4, <2>1, FS_AddElement
<1>6. k = Cardinality(SetUp(d)) /\ \A e \in Devs : idiDevData[e] \in Sto \cup {NULL}
  BY <1>1 DEF SlotCount, StoreInv, StoreTypeOK
<1>. HIDE DEF k
<1>7. devDpEntry'[idiDevData'[d]] = Cardinality(SetUp(d)')
  BY <1>2, <1>5, <1>6
<1>. HIDE DEF s
<1>8. \A e \in Stored' \ {d} : devDpEntry'[idiDevData'[e]] = Cardinality(SetUp(e)')
  BY <1>1, <1>2, <1>4, <1>6 DEF SlotCount, Stored
<1>. QED BY <1>1, <1>2, <1>7, <1>8 DEF SlotCount

LEMMA CountStep == SlotsInv /\ SlotCount /\ [StoreNext]_allVars => SlotCount'
<1>. SUFFICES ASSUME SlotsInv, SlotCount, [StoreNext]_allVars PROVE SlotCount'
  OBVIOUS
<1>1. StoreInv
  BY DEF SlotsInv
<1>2. CASE UNCHANGED storeVars
  BY <1>2, QuietKeepsCount DEF storeVars, blockVars
<1>3. ASSUME NEW d \in Devs, \/ \E u \in Uids \cup {NULL} : IdlNewDev(d, u)
                             \/ \E u \in Uids : IdlNewUnid(d, u)
                             \/ IdlStartDelete(d)
      PROVE  UNCHANGED storeVars
  BY <1>3 DEF IdlNewDev, IdlNewUnid, IdlStartDelete
<1>4. ASSUME NEW d \in Devs, Replace(d)  PROVE SlotCount'
  BY <1>4, QuietKeepsCount DEF Replace, DevReplaceUnid
<1>5. ASSUME NEW d \in Devs, IdlFreeDev(d)  PROVE SlotCount'
  <2>1. d \notin Stored
    BY <1>1, <1>5 DEF IdlFreeDev, StoreInv, StorageOwned
  <2>2. \A e \in Stored : idiDpData'[e] = idiDpData[e]
    BY <1>1, <1>5, <2>1 DEF IdlFreeDev, StoreInv, StoreTypeOK, Stored
  <2>. QED BY <1>5, <2>2, QuietKeepsCount DEF IdlFreeDev, blockVars
<1>6. ASSUME NEW d \in Devs, NEW err, Create(d, err)  PROVE SlotCount'
  <2>1. devState[d] # "dead"
    BY <1>6 DEF Create
  <2>2. CASE SetNoMemory
    BY <2>2, QuietKeepsCount DEF SetNoMemory, blockVars
  <2>. QED BY <1>2, <1>6, <2>1, <2>2, SetStoredKeepsCount
           DEF Create, DevSetCustomIdiDevData, SetRefused
<1>7. ASSUME NEW d \in Devs, NEW err, Delete(d, err)  PROVE SlotCount'
  BY <1>1, <1>2, <1>7, RemoveFoundKeepsCount DEF Delete, DevRemoveCustomIdiDevData
<1>8. ASSUME NEW d \in Devs, NEW p \in Dps, NEW err, DpCreate(d, p, err)  PROVE SlotCount'
  BY <1>1, <1>2, <1>8, BindDpKeepsCount DEF DpCreate, IdiDpProcessCustomColum
<1>9. ASSUME NEW s, NEW r, NEW v, SetReg(s, r, v)  PROVE SlotCount'
  BY <1>9, QuietKeepsCount DEF SetReg
<1>. QED BY <1>2, <1>3, <1>4, <1>5, <1>6, <1>7, <1>8, <1>9
         DEF StoreNext, DpWrite, StoreWrite, DevEvent, DevRegEvHndl, allVars

LEMMA LostStep ==
  ASSUME ~AllocFails
  PROVE  StoreInv /\ NoLostBlock /\ [StoreNext]_allVars => NoLostBlock'
<1>. SUFFICES ASSUME StoreInv, NoLostBlock, [StoreNext]_allVars PROVE NoLostBlock'
  OBVIOUS
<1>1. CASE UNCHANGED <<alloc, idiDevData>>
  BY <1>1 DEF NoLostBlock, Stored
<1>2. idiDevData \in [Devs -> Sto \cup {NULL}] /\ NULL \notin Sto
  BY NULLAssumption DEF StoreInv, StoreTypeOK
<1>3. ASSUME NEW d \in Devs, NEW s \in Sto \ alloc, idiDevData[d] = NULL, SetStored(d, s)
      PROVE  NoLostBlock'
  BY <1>2, <1>3 DEF SetStored, NoLostBlock, Stored
<1>4. ASSUME NEW d \in Devs, idiDevData[d] \in Walked, RemoveFound(d, idiDevData[d])
      PROVE  NoLostBlock'
  BY <1>2, <1>4 DEF RemoveFound, NoLostBlock, Stored
<1>5. ASSUME NEW d \in Devs, NEW err, Create(d, err)  PROVE NoLostBlock'
  BY <1>1, <1>3, <1>5
     DEF Create, DevSetCustomIdiDevData, SetRefused, SetNoMemory, storeVars
<1>6. ASSUME NEW d \in Devs, NEW err, Delete(d, err)  PROVE NoLostBlock'
  BY <1>1, <1>4, <1>6 DEF Delete, DevRemoveCustomIdiDevData, storeVars
<1>7. ASSUME NEW d \in Devs, \/ \E u \in Uids \cup {NULL} : IdlNewDev(d, u)
                             \/ \E u \in Uids : IdlNewUnid(d, u)
                             \/ IdlStartDelete(d) \/ IdlFreeDev(d) \/ Replace(d)
      PROVE  NoLostBlock'
  BY <1>1, <1>7
     DEF IdlNewDev, IdlNewUnid, IdlStartDelete, IdlFreeDev, Replace, DevReplaceUnid, storeVars
<1>8. ASSUME NEW d \in Devs, NEW p \in Dps, NEW err, DpCreate(d, p, err)
      PROVE  NoLostBlock'
  BY <1>1, <1>8 DEF DpCreate, IdiDpProcessCustomColum, BindDp, storeVars
<1>9. ASSUME NEW s, NEW r, NEW v, SetReg(s, r, v)  PROVE NoLostBlock'
  BY <1>1, <1>9 DEF SetReg
<1>10. CASE UNCHANGED allVars
  BY <1>1, <1>10 DEF allVars, storeVars
<1>. QED BY <1>5, <1>6, <1>7, <1>8, <1>9, <1>10
         DEF StoreNext, DpWrite, StoreWrite, DevEvent, DevRegEvHndl

(* devDpEntry is the number of datapoints set up, and, when no calloc      *)
(* fails, every allocated block is some device's.                          *)
THEOREM SlotsAreCounted == StoreSpec => []SlotCount
<1>1. StoreInit => SlotCount
  BY DEF StoreInit, SlotCount, Stored
<1>2. SlotsInv /\ SlotCount /\ [StoreNext]_allVars => SlotCount'
  BY CountStep
<1>. QED BY <1>1, <1>2, StoreInvariant, SlotsAreOwn, PTL DEF StoreSpec, SlotsInv

THEOREM NoBlockIsLost ==
  ASSUME ~AllocFails
  PROVE  StoreSpec => []NoLostBlock
<1>1. StoreInit => NoLostBlock
  BY DEF StoreInit, NoLostBlock
<1>2. StoreInv /\ NoLostBlock /\ [StoreNext]_allVars => NoLostBlock'
  BY LostStep
<1>. QED BY <1>1, <1>2, StoreInvariant, PTL DEF StoreSpec
=============================================================================
