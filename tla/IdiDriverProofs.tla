--------------------------- MODULE IdiDriverProofs ---------------------------
(***************************************************************************)
(* The driver with its queue does to its storage only what DevStore allows,*)
(* so all that DevStoreProofs shows of the storage holds of the driver, for*)
(* any queue length, number of requests and timing.  The results the       *)
(* library is given come in the order of its requests and one for each, as *)
(* long as mosquitto_publish does not return the number of IdiBusy; and,   *)
(* in the shipped build, no request stays without one.                     *)
(***************************************************************************)
EXTENDS IdiDriver, DevStoreProofs, SequenceTheorems

(* The part of DriverTypeOK about the requests. *)
QueueTypeOK ==
  /\ log \in Seq(RequestType) /\ Len(log) <= MaxReqs
  /\ \A i \in Ids : log[i].action \in DpActions => log[i].dp \in Dps
  /\ devQ \in Seq(Ids)
  /\ cur \in Ids \cup {0}

LEMMA QueueTypeInit == DriverInit => QueueTypeOK
<1>. SUFFICES ASSUME DriverInit PROVE QueueTypeOK
  OBVIOUS
<1>. QED BY BoundAssumption DEF DriverInit, QueueTypeOK, Ids

(* A callback puts a well-formed request at the end of the queue.          *)
LEMMA SendKeepsType ==
  ASSUME QueueTypeOK, NEW req \in RequestType, Send(req),
         req.action \in DpActions => req.dp \in Dps
  PROVE  QueueTypeOK'
<1>1. /\ log' = Append(log, req) /\ devQ' = Append(devQ, Len(log) + 1) /\ cur' = cur
      /\ Len(log) < MaxReqs
  BY DEF Send
<1>2. log \in Seq(RequestType) /\ devQ \in Seq(1..Len(log)) /\ Len(log) \in Nat
  BY DEF QueueTypeOK, Ids
<1>3. log' \in Seq(RequestType) /\ Len(log') = Len(log) + 1 /\ Ids' = 1..(Len(log) + 1)
  BY <1>1, <1>2 DEF Ids
<1>4. \A i \in Ids : log'[i] = log[i]
  BY <1>1, <1>2 DEF Ids
<1>5. log'[Len(log) + 1] = req
  BY <1>1, <1>2
<1>6. Len(log') <= MaxReqs
  BY <1>1, <1>2, <1>3, BoundAssumption
<1>7. \A i \in Ids' : log'[i].action \in DpActions => log'[i].dp \in Dps
  <2>. SUFFICES ASSUME NEW i \in 1..(Len(log) + 1), i # Len(log) + 1 PROVE i \in Ids
    BY <1>3, <1>4, <1>5 DEF QueueTypeOK
  <2>. QED BY <1>2 DEF Ids
<1>8. devQ' \in Seq(Ids')
  <2>1. devQ \in Seq(Ids') /\ Len(log) + 1 \in Ids'
    BY <1>2, <1>3
  <2>. QED BY <1>1, <2>1
<1>9. cur' \in Ids' \cup {0}
  BY <1>1, <1>2, <1>3 DEF QueueTypeOK, Ids
<1>. QED BY <1>3, <1>6, <1>7, <1>8, <1>9 DEF QueueTypeOK

LEMMA ReceiveKeepsType ==
  ASSUME QueueTypeOK, Receive
  PROVE  QueueTypeOK'
<1>1. Head(devQ) \in Ids /\ Tail(devQ) \in Seq(Ids)
  BY DEF QueueTypeOK, Receive
<1>. QED BY <1>1 DEF QueueTypeOK, Receive, Ids

(* A round of the state machine keeps the request or ends it.              *)
LEMMA RoundKeepsType ==
  ASSUME QueueTypeOK, NEW err, Round(err)
  PROVE  QueueTypeOK'
BY DEF QueueTypeOK, Round, Ids

(* The request the driver thread is working on. *)
LEMMA CurrentRequest ==
  ASSUME QueueTypeOK, cur # 0
  PROVE  /\ Req.dev \in Devs /\ cur \in 1..MaxReqs /\ cur \in Vals
         /\ Req.action \in DpActions => Req.dp \in Dps
<1>1. cur \in 1..Len(log) /\ log[cur] \in RequestType /\ Len(log) \in Nat
  BY DEF QueueTypeOK, Ids
<1>2. cur \in 1..MaxReqs
  BY <1>1, BoundAssumption DEF QueueTypeOK
<1>. QED BY <1>1, <1>2, WriteAssumption DEF Req, RequestType, QueueTypeOK, Ids

(* Each case of the state machine is a step of DevStore or none at all.    *)
LEMMA FsmIsStoreStep ==
  ASSUME QueueTypeOK, IdiGenericResultFsm
  PROVE  [StoreNext]_allVars
<1>. USE DEF DpActions
<1>1. /\ Req.dev \in Devs /\ cur \in Vals
      /\ Req.action \in DpActions => Req.dp \in Dps
  BY CurrentRequest DEF IdiGenericResultFsm
<1>2. CASE FsmDpCreate
  <2>1. PICK err \in {IErr_Success, IErr_Failure} : DpCreate(Req.dev, Req.dp, err)
    BY <1>2 DEF FsmDpCreate
  <2>2. Req.dp \in Dps
    BY <1>1, <1>2 DEF FsmDpCreate
  <2>. QED BY <1>1, <2>1, <2>2 DEF StoreNext
<1>3. CASE FsmCreate
  <2>1. PICK err \in {IErr_Success, IErr_Failure} : Create(Req.dev, err)
    BY <1>3 DEF FsmCreate
  <2>. QED BY <1>1, <2>1 DEF StoreNext
<1>4. CASE FsmDelete
  <2>1. PICK err \in {IErr_Success, IErr_Failure} : Delete(Req.dev, err)
    BY <1>4 DEF FsmDelete
  <2>. QED BY <1>1, <2>1 DEF StoreNext
<1>5. CASE FsmReplace
  BY <1>1, <1>5 DEF FsmReplace, StoreNext
<1>6. CASE FsmWrite
  <2>1. Req.dp \in Dps
    BY <1>1, <1>6 DEF FsmWrite
  <2>. QED BY <1>1, <1>6, <2>1 DEF FsmWrite, StoreNext
<1>7. CASE UNCHANGED allVars
  BY <1>7
<1>. QED BY <1>2, <1>3, <1>4, <1>5, <1>6, <1>7
         DEF IdiGenericResultFsm, StillBusy, FsmRead, FsmProvision

LEMMA FsmKeepsType ==
  ASSUME QueueTypeOK, IdiGenericResultFsm
  PROVE  QueueTypeOK'
<1>1. PICK err : Round(err)
  BY DEF IdiGenericResultFsm, StillBusy, FsmDpCreate, FsmCreate, FsmDelete, FsmReplace,
         FsmWrite, FsmRead, FsmProvision, Result, NoResult
<1>. QED BY <1>1, RoundKeepsType

(* Each call of the library is a step of DevStore or none at all, and      *)
(* queues a well-formed request.                                           *)
LEMMA IdlCallStep ==
  ASSUME QueueTypeOK, IdlCall
  PROVE  QueueTypeOK' /\ [StoreNext]_allVars
<1>. PICK d \in Devs :
    \/ \E u \in Uids \cup {NULL} : OnDevCreateCb(d, u)
    \/ \E u \in Uids : OnDevReplaceCb(d, u)
    \/ OnDevProvisionCb(d) \/ OnDevDeprovisionCb(d) \/ OnDevDeleteCb(d)
    \/ \E p \in Dps : \/ OnDpCreateCb(d, p)
                      \/ OnDpReadCb(d, p)  \/ OnDpReadExCb(d, p)
                      \/ OnDpWriteCb(d, p) \/ OnDpWriteExCb(d, p)
  BY DEF IdlCall
<1>1. ASSUME NEW a \in Actions, NEW p \in Dps \cup {NULL}, NEW g \in BOOLEAN,
             NEW t \in {IDI_ACTION_NORMAL_TIMEOUT, IDI_ACTION_LONG_TIMEOUT},
             a \in DpActions => p \in Dps, Send(ACB(a, d, p, t, g))
      PROVE  QueueTypeOK'
  <2>1. ACB(a, d, p, t, g) \in RequestType
    BY DEF ACB, RequestType
  <2>2. ACB(a, d, p, t, g).action = a /\ ACB(a, d, p, t, g).dp = p
    BY DEF ACB
  <2>. QED BY <1>1, <2>1, <2>2, SendKeepsType
<1>2. CASE SendFails
  BY <1>2 DEF SendFails, vars, driverVars, QueueTypeOK, Ids
<1>. USE DEF Actions, DpActions
<1>3. ASSUME NEW u \in Uids \cup {NULL}, OnDevCreateCb(d, u)
      PROVE  QueueTypeOK' /\ [StoreNext]_allVars
  <2>1. CASE SendFails
    BY <1>2, <2>1 DEF SendFails, vars
  <2>2. CASE IdlNewDev(d, u) /\ Send(ACB("IdiaCreate", d, NULL, IDI_ACTION_LONG_TIMEOUT, TRUE))
    BY <1>1, <2>2 DEF StoreNext
  <2>. QED BY <1>3, <2>1, <2>2 DEF OnDevCreateCb
<1>4. ASSUME NEW u \in Uids, OnDevReplaceCb(d, u)
      PROVE  QueueTypeOK' /\ [StoreNext]_allVars
  BY <1>1, <1>4 DEF OnDevReplaceCb, StoreNext
<1>5. CASE OnDevDeleteCb(d)
  BY <1>1, <1>5 DEF OnDevDeleteCb, StoreNext
<1>6. CASE OnDevProvisionCb(d) \/ OnDevDeprovisionCb(d)
  BY <1>1, <1>6 DEF OnDevProvisionCb, OnDevDeprovisionCb
<1>7. ASSUME NEW p \in Dps, \/ OnDpCreateCb(d, p)
                            \/ OnDpReadCb(d, p)  \/ OnDpReadExCb(d, p)
                            \/ OnDpWriteCb(d, p) \/ OnDpWriteExCb(d, p)
      PROVE  QueueTypeOK' /\ [StoreNext]_allVars
  BY <1>1, <1>7 DEF OnDpCreateCb, OnDpReadCb, OnDpReadExCb, OnDpWriteCb, OnDpWriteExCb
<1>. QED BY <1>3, <1>4, <1>5, <1>6, <1>7

LEMMA DriverStep ==
  QueueTypeOK /\ [DriverNext]_vars => QueueTypeOK' /\ [StoreNext]_allVars
<1>. SUFFICES ASSUME QueueTypeOK, [DriverNext]_vars
              PROVE  QueueTypeOK' /\ [StoreNext]_allVars
  OBVIOUS
<1>1. CASE IdiGenericResultFsm
  BY <1>1, FsmKeepsType, FsmIsStoreStep
<1>2. CASE Receive
  BY <1>2, ReceiveKeepsType DEF Receive
<1>3. CASE StartQueue \/ Tick
  BY <1>3 DEF StartQueue, Tick, QueueTypeOK, Ids
<1>4. CASE IdlCall
  BY <1>4, IdlCallStep
<1>5. ASSUME NEW d \in Devs, IdlFree(d) PROVE QueueTypeOK' /\ [StoreNext]_allVars
  BY <1>5 DEF IdlFree, driverVars, QueueTypeOK, Ids, StoreNext
<1>6. ASSUME NEW s \in Sto, NEW r \in Regs, NEW v \in EvPayloads, EtiEvent(s, r, v)
      PROVE  QueueTypeOK' /\ [StoreNext]_allVars
  BY <1>6, WriteAssumption DEF EtiEvent, driverVars, QueueTypeOK, Ids, StoreNext
<1>7. CASE UNCHANGED vars
  BY <1>7 DEF vars, driverVars, QueueTypeOK, Ids
<1>. QED BY <1>1, <1>2, <1>3, <1>4, <1>5, <1>6, <1>7 DEF DriverNext, Worker

(* The driver implements DevStore: whatever the order of the library's     *)
(* calls, the timeouts and the ETI events, its storage changes only by the *)
(* operations of DevStore.                                                 *)
THEOREM DriverImplementsStore == DriverSpec => StoreRefined
<1>1. DriverInit => QueueTypeOK /\ StoreInit
  BY QueueTypeInit DEF DriverInit
<1>2. QueueTypeOK /\ [DriverNext]_vars => QueueTypeOK' /\ [StoreNext]_allVars
  BY DriverStep
<1>. QED BY <1>1, <1>2, PTL DEF DriverSpec, StoreRefined, StoreSpec

(* So the driver's device list is one ring in the order of creation, no    *)
(* block has two owners or is freed while in the list, and each datapoint  *)
(* has its own slot.                                                       *)
THEOREM DriverStorage ==
  DriverSpec => /\ [](StoreTypeOK /\ RingConsistent /\ WalkReachesAll /\ StorageOwned
                      /\ DeviceCount /\ DpSlotsOwn /\ StoredIsLinked)
                /\ ListSpec
<1>1. StoreInv => /\ StoreTypeOK /\ RingConsistent /\ WalkReachesAll
                  /\ StorageOwned /\ DeviceCount
  BY DEF StoreInv
<1>. QED BY <1>1, DriverImplementsStore, StoreInvariant, SlotsAreOwn, StoredAreLinked,
            RingIsList, PTL
         DEF StoreRefined

-----------------------------------------------------------------------------
(* What the proofs below need of the storage and the requests.             *)
DriverInv == StoreInv /\ QueueTypeOK

LEMMA DriverInvariant == DriverSpec => []DriverInv
<1>1. DriverInit => QueueTypeOK
  BY QueueTypeInit
<1>2. QueueTypeOK /\ [DriverNext]_vars => QueueTypeOK'
  BY DriverStep
<1>3. DriverSpec => []QueueTypeOK
  BY <1>1, <1>2, PTL DEF DriverSpec
<1>. QED BY <1>3, DriverImplementsStore, StoreInvariant, PTL DEF StoreRefined, DriverInv

(* What a read answers is a number.                                        *)
LEMMA ReadResultType ==
  ASSUME DriverInv, NEW d \in Devs, NEW p \in Dps, Usable(d, p)
  PROVE  ReadResult(d, p) \in [err : {IErr_Success, IErr_Failure}, val : Int, mult : Nat]
<1>1. idiDpData[d][p] \in Sto \X Regs
  BY DEF DriverInv, StoreInv, StoreTypeOK, Usable, Bound
<1>. DEFINE s == idiDpData[d][p][1]
            k == idiDpData[d][p][2]
<1>2. s \in Sto /\ k \in Regs
  BY <1>1
<1>3. DpReg(d, p) \in Regs /\ DpMult(d, p) \in Nat
  BY <1>2 DEF DpReg, DpMult, SlotType, DriverInv, StoreInv, StoreTypeOK
<1>4. DpVal(d, p) \in Int \cup {NULL}
  BY <1>2, <1>3 DEF DpVal, DriverInv, StoreInv, StoreTypeOK
<1>. QED BY <1>3, <1>4 DEF ReadResult, IErr_Success, IErr_Failure

(* A round of the state machine gives one result and ends the request, or  *)
(* none; a result that mosquitto's return code makes IdiBusy is both a     *)
(* result and a further round.                                             *)
Results == {IErr_Success, IErr_Failure} \cup PublishRc

LEMMA FsmOutcome ==
  ASSUME DriverInv, IdiGenericResultFsm
  PROVE  \/ \E err \in Results, val \in Int, mult \in Nat : Answer(err, val, mult) /\ Round(err)
         \/ ENABLE_SIMULATION /\ NoResult(IErr_IdiBusy)
         \/ Req.action = "IdiaDpCreate" /\ \E err \in {IErr_Success, IErr_Failure} : NoResult(err)
<1>1. /\ Req.dev \in Devs
      /\ Req.action \in DpActions => Req.dp \in Dps
  BY CurrentRequest DEF IdiGenericResultFsm, DriverInv
<1>2. CASE StillBusy
  BY <1>2 DEF StillBusy
<1>3. CASE FsmDpCreate
  BY <1>3 DEF FsmDpCreate
<1>4. ASSUME NEW err \in Results, Result(err)
      PROVE  \E e \in Results, val \in Int, mult \in Nat : Answer(e, val, mult) /\ Round(e)
  BY <1>4 DEF Result
<1>5. CASE FsmCreate \/ FsmDelete \/ FsmReplace \/ FsmWrite \/ FsmProvision
  BY <1>4, <1>5 DEF FsmCreate, FsmDelete, FsmReplace, FsmWrite, FsmProvision, Results
<1>6. CASE FsmRead
  <2>1. CASE Result(IErr_Failure)
    BY <1>4, <2>1 DEF Results
  <2>2. CASE /\ Usable(Req.dev, Req.dp)
             /\ LET res == ReadResult(Req.dev, Req.dp)
                IN Answer(res.err, res.val, res.mult) /\ Round(res.err)
    <3>1. Req.dp \in Dps
      BY <1>1, <1>6 DEF FsmRead, DpActions
    <3>2. ReadResult(Req.dev, Req.dp)
            \in [err : {IErr_Success, IErr_Failure}, val : Int, mult : Nat]
      BY <1>1, <2>2, <3>1, ReadResultType
    <3>. QED BY <2>2, <3>2 DEF Results
  <2>. QED BY <1>6, <2>1, <2>2 DEF FsmRead
<1>. QED BY <1>2, <1>3, <1>5, <1>6 DEF IdiGenericResultFsm

-----------------------------------------------------------------------------
(* The answered requests come before the one being worked on, and that one *)
(* before those in the queue.                                              *)
OrderInv ==
  /\ answered \in Seq(AnswerType)
  /\ AnswersInOrder
  /\ \A k \in DOMAIN answered : cur # 0 => answered[k].id < cur
  /\ \A k \in DOMAIN answered, l \in DOMAIN devQ : answered[k].id < devQ[l]
  /\ \A l \in DOMAIN devQ : cur < devQ[l]
  /\ \A k, l \in DOMAIN devQ : k < l => devQ[k] < devQ[l]

(* A step that only adds requests, if anything.                            *)
LEMMA SendKeepsOrder ==
  ASSUME DriverInv, OrderInv, NEW req, Send(req)
  PROVE  OrderInv'
<1>1. /\ log \in Seq(RequestType) /\ Len(log) \in Nat /\ devQ \in Seq(1..Len(log))
      /\ cur \in 0..Len(log) /\ answered \in Seq(AnswerType)
  BY DEF DriverInv, QueueTypeOK, OrderInv, Ids
<1>2. /\ log' = Append(log, req) /\ devQ' = Append(devQ, Len(log) + 1)
      /\ cur' = cur /\ answered' = answered
  BY DEF Send
<1>3. DOMAIN log' = 1..(Len(log) + 1)
  BY <1>1, <1>2
<1>4. answered' \in Seq(AnswerType')
  <2>1. AnswerType \subseteq AnswerType'
    BY <1>1, <1>3 DEF AnswerType, Ids
  <2>. QED BY <1>1, <1>2, <2>1
<1>5. \A k \in DOMAIN answered : answered[k].id \in 1..Len(log)
  <2>1. \A k \in DOMAIN answered : answered[k] \in AnswerType
    BY <1>1
  <2>2. Ids = 1..Len(log)
    BY <1>1 DEF Ids
  <2>. QED BY <2>1, <2>2 DEF AnswerType
<1>6. /\ DOMAIN devQ' = 1..(Len(devQ) + 1) /\ DOMAIN devQ = 1..Len(devQ) /\ Len(devQ) \in Nat
      /\ \A l \in DOMAIN devQ : devQ'[l] = devQ[l] /\ devQ[l] \in 1..Len(log)
      /\ devQ'[Len(devQ) + 1] = Len(log) + 1
  BY <1>1, <1>2
<1>7. \A l \in DOMAIN devQ' : l \in DOMAIN devQ \/ l = Len(devQ) + 1
  BY <1>6
<1>8. \A k \in DOMAIN answered, l \in DOMAIN devQ' : answered[k].id < devQ'[l]
  BY <1>1, <1>5, <1>6, <1>7 DEF OrderInv
<1>9. \A l \in DOMAIN devQ' : cur < devQ'[l]
  BY <1>1, <1>6, <1>7 DEF OrderInv
<1>10. \A k, l \in DOMAIN devQ' : k < l => devQ'[k] < devQ'[l]
  <2>. SUFFICES ASSUME NEW k \in DOMAIN devQ', NEW l \in DOMAIN devQ', k < l
                PROVE  devQ'[k] < devQ'[l]
    OBVIOUS
  <2>1. k \in DOMAIN devQ
    BY <1>6
  <2>2. CASE l = Len(devQ) + 1
    BY <1>1, <1>6, <2>1, <2>2
  <2>3. CASE l \in DOMAIN devQ
    BY <1>6, <2>1, <2>3 DEF OrderInv
  <2>. QED BY <1>7, <2>2, <2>3
<1>. QED BY <1>2, <1>4, <1>8, <1>9, <1>10 DEF OrderInv, AnswersInOrder

(* The oldest waiting request is taken up.                                 *)
LEMMA ReceiveKeepsOrder ==
  ASSUME DriverInv, OrderInv, Receive
  PROVE  OrderInv'
<1>1. /\ devQ \in Seq(Ids) /\ devQ # <<>> /\ cur' = Head(devQ) /\ devQ' = Tail(devQ)
      /\ UNCHANGED <<log, answered>>
  BY DEF DriverInv, QueueTypeOK, Receive
<1>2. /\ Head(devQ) = devQ[1] /\ 1 \in DOMAIN devQ
      /\ \A l \in DOMAIN Tail(devQ) : l + 1 \in DOMAIN devQ /\ Tail(devQ)[l] = devQ[l + 1]
                                      /\ l \in Nat /\ 1 < l + 1
  BY <1>1
<1>3. \A k \in DOMAIN answered : answered[k].id < cur'
  BY <1>1, <1>2 DEF OrderInv
<1>4. \A k \in DOMAIN answered, l \in DOMAIN devQ' : answered[k].id < devQ'[l]
  BY <1>1, <1>2 DEF OrderInv
<1>5. \A l \in DOMAIN devQ' : cur' < devQ'[l]
  BY <1>1, <1>2 DEF OrderInv
<1>6. \A k, l \in DOMAIN devQ' : k < l => devQ'[k] < devQ'[l]
  <2>. SUFFICES ASSUME NEW k \in DOMAIN devQ', NEW l \in DOMAIN devQ', k < l
                PROVE  devQ'[k] < devQ'[l]
    OBVIOUS
  <2>1. k + 1 \in DOMAIN devQ /\ l + 1 \in DOMAIN devQ /\ k + 1 < l + 1
    BY <1>1, <1>2
  <2>. QED BY <1>1, <1>2, <2>1 DEF OrderInv
<1>7. answered' \in Seq(AnswerType')
  BY <1>1 DEF OrderInv, AnswerType, Ids
<1>. QED BY <1>1, <1>3, <1>4, <1>5, <1>6, <1>7 DEF OrderInv, AnswersInOrder

(* The request being worked on gets its result, which is not IdiBusy.      *)
LEMMA AnswerKeepsOrder ==
  ASSUME DriverInv, OrderInv, cur # 0,
         NEW err \in Nat, err # IErr_IdiBusy, NEW val \in Int, NEW mult \in Nat,
         Answer(err, val, mult), Round(err)
  PROVE  OrderInv'
<1>. DEFINE a == [id |-> cur, err |-> err, val |-> val, mult |-> mult]
<1>1. /\ answered' = Append(answered, a) /\ cur' = 0 /\ UNCHANGED <<devQ, log>>
      /\ answered \in Seq(AnswerType) /\ a \in AnswerType /\ a.id = cur /\ cur \in Nat
      /\ devQ \in Seq(Ids)
  BY DEF Answer, Round, DriverInv, QueueTypeOK, OrderInv, AnswerType, Ids
<1>. HIDE DEF a
<1>2. /\ DOMAIN answered' = 1..(Len(answered) + 1) /\ DOMAIN answered = 1..Len(answered)
      /\ Len(answered) \in Nat
      /\ \A k \in DOMAIN answered : answered'[k] = answered[k]
      /\ answered'[Len(answered) + 1] = a
  BY <1>1
<1>3. answered' \in Seq(AnswerType')
  BY <1>1 DEF AnswerType, Ids
<1>4. \A k \in DOMAIN answered' : k \in DOMAIN answered \/ k = Len(answered) + 1
  BY <1>2
<1>5. \A k, l \in DOMAIN answered' : k < l => answered'[k].id < answered'[l].id
  <2>. SUFFICES ASSUME NEW k \in DOMAIN answered', NEW l \in DOMAIN answered', k < l
                PROVE  answered'[k].id < answered'[l].id
    OBVIOUS
  <2>1. k \in DOMAIN answered
    BY <1>2
  <2>2. CASE l = Len(answered) + 1
    BY <1>1, <1>2, <2>1, <2>2 DEF OrderInv
  <2>3. CASE l \in DOMAIN answered
    BY <1>2, <2>1, <2>3 DEF OrderInv, AnswersInOrder
  <2>. QED BY <1>4, <2>2, <2>3
<1>6. \A k \in DOMAIN answered', l \in DOMAIN devQ' : answered'[k].id < devQ'[l]
  BY <1>1, <1>2, <1>4 DEF OrderInv
<1>7. \A l \in DOMAIN devQ' : 0 < devQ'[l]
  BY <1>1 DEF Ids, DriverInv, QueueTypeOK
<1>. QED BY <1>1, <1>3, <1>5, <1>6, <1>7 DEF OrderInv, AnswersInOrder

(* A step that leaves the requests alone, or ends the one worked on.       *)
LEMMA QuietKeepsOrder ==
  ASSUME DriverInv, OrderInv, UNCHANGED <<log, devQ, answered>>, cur' \in {0, cur}
  PROVE  OrderInv'
<1>1. \A l \in DOMAIN devQ : 0 < devQ[l]
  BY DEF Ids, DriverInv, QueueTypeOK
<1>. QED BY <1>1 DEF OrderInv, AnswersInOrder, AnswerType, Ids

(* What the queue, the requests and the results do in a step.              *)
QueueStep ==
  \/ UNCHANGED <<log, devQ, answered, cur, liveArgs>>
  \/ \E req \in RequestType :
       Send(req) /\ (req.action = "IdiaDpCreate" => ~req.args)
  \/ Receive
  \/ /\ cur # 0
     /\ \E err \in Results, val \in Int, mult \in Nat : Answer(err, val, mult) /\ Round(err)
  \/ /\ cur # 0
     /\ \/ ENABLE_SIMULATION /\ NoResult(IErr_IdiBusy)
        \/ Req.action = "IdiaDpCreate" /\ \E err \in {IErr_Success, IErr_Failure} : NoResult(err)

LEMMA EveryStepIsQueueStep ==
  ASSUME DriverInv, [DriverNext]_vars
  PROVE  QueueStep
<1>1. CASE IdiGenericResultFsm
  BY <1>1, FsmOutcome DEF QueueStep, IdiGenericResultFsm
<1>2. CASE Receive
  BY <1>2 DEF QueueStep
<1>3. CASE StartQueue \/ Tick
  BY <1>3 DEF QueueStep, StartQueue, Tick
<1>4. CASE IdlCall
  <2>. USE DEF Actions
  <2>1. ASSUME NEW a \in Actions, NEW d \in Devs, NEW p \in Dps \cup {NULL},
               NEW g \in BOOLEAN, a = "IdiaDpCreate" => ~g,
               NEW t \in {IDI_ACTION_NORMAL_TIMEOUT, IDI_ACTION_LONG_TIMEOUT},
               Send(ACB(a, d, p, t, g))
        PROVE  QueueStep
    <3>1. /\ ACB(a, d, p, t, g) \in RequestType
          /\ ACB(a, d, p, t, g).action = a /\ ACB(a, d, p, t, g).args = g
      BY DEF ACB, RequestType
    <3>. QED BY <2>1, <3>1 DEF QueueStep
  <2>2. CASE SendFails
    BY <2>2 DEF QueueStep, SendFails, vars, driverVars
  <2>. QED BY <1>4, <2>1, <2>2
           DEF IdlCall, OnDevCreateCb, OnDevReplaceCb, OnDevProvisionCb, OnDevDeprovisionCb,
               OnDevDeleteCb, OnDpCreateCb, OnDpReadCb, OnDpReadExCb, OnDpWriteCb,
               OnDpWriteExCb
<1>5. CASE UNCHANGED driverVars
  BY <1>5 DEF QueueStep, driverVars
<1>. QED BY <1>1, <1>2, <1>3, <1>4, <1>5
         DEF DriverNext, Worker, IdlFree, EtiEvent, vars

LEMMA OrderStep ==
  ASSUME IErr_IdiBusy \notin PublishRc, DriverInv, OrderInv, QueueStep
  PROVE  OrderInv'
<1>1. CASE \E req \in RequestType : Send(req)
  BY <1>1, SendKeepsOrder
<1>2. CASE Receive
  BY <1>2, ReceiveKeepsOrder
<1>3. ASSUME NEW err \in Results, NEW val \in Int, NEW mult \in Nat,
             cur # 0, Answer(err, val, mult), Round(err)
      PROVE  OrderInv'
  <2>1. err \in Nat /\ err # IErr_IdiBusy
    BY PublishAssumption DEF Results, IErr_Success, IErr_Failure, IErr_IdiBusy
  <2>. QED BY <1>3, <2>1, AnswerKeepsOrder
<1>4. ASSUME NEW err, NoResult(err)
      PROVE  OrderInv'
  BY <1>4, QuietKeepsOrder DEF NoResult, Round
<1>5. CASE UNCHANGED <<log, devQ, answered, cur>>
  BY <1>5, QuietKeepsOrder
<1>. QED BY <1>1, <1>2, <1>3, <1>4, <1>5 DEF QueueStep

(* The library gets the results in the order of its requests, as long as   *)
(* no return code of mosquitto_publish is taken for IdiBusy.               *)
THEOREM AnswersAreInOrder ==
  ASSUME IErr_IdiBusy \notin PublishRc
  PROVE  DriverSpec => []AnswersInOrder
<1>1. DriverInit => OrderInv
  BY DEF DriverInit, OrderInv, AnswersInOrder
<1>2. DriverInv /\ OrderInv /\ [DriverNext]_vars => OrderInv'
  BY EveryStepIsQueueStep, OrderStep
<1>3. OrderInv => AnswersInOrder
  BY DEF OrderInv
<1>. QED BY <1>1, <1>2, <1>3, DriverInvariant, PTL DEF DriverSpec

(* Then no request has two results.                                        *)
THEOREM AnswersAreUnique ==
  ASSUME IErr_IdiBusy \notin PublishRc
  PROVE  DriverSpec => []AtMostOneAnswer
<1>1. DriverInit => OrderInv
  BY DEF DriverInit, OrderInv, AnswersInOrder
<1>2. DriverInv /\ OrderInv /\ [DriverNext]_vars => OrderInv'
  BY EveryStepIsQueueStep, OrderStep
<1>3. DriverInv /\ OrderInv => AtMostOneAnswer
  <2>. SUFFICES ASSUME DriverInv, OrderInv, NEW k \in DOMAIN answered, NEW l \in DOMAIN answered,
                       answered[k].id = answered[l].id, k # l
                PROVE  FALSE
    BY DEF AtMostOneAnswer
  <2>1. /\ DOMAIN answered = 1..Len(answered) /\ Len(answered) \in Nat
        /\ answered[k] \in AnswerType /\ answered[l] \in AnswerType
    BY DEF OrderInv
  <2>2. answered[k].id \in Nat
    <3>1. answered[k].id \in Ids /\ Ids \subseteq Nat
      BY <2>1 DEF AnswerType, Ids, DriverInv, QueueTypeOK
    <3>. QED BY <3>1
  <2>3. k < l \/ l < k
    BY <2>1
  <2>. QED BY <2>2, <2>3 DEF OrderInv, AnswersInOrder
<1>. QED BY <1>1, <1>2, <1>3, DriverInvariant, PTL DEF DriverSpec

-----------------------------------------------------------------------------
(* In the build without simulation, nothing accepted is lost: a request    *)
(* with a result waits, is worked on or is answered; and its args are held *)
(* exactly until then.                                                     *)
KeptInv ==
  /\ NoRequestLost
  /\ ArgsHeld
  /\ \A i \in Ids : log[i].action = "IdiaDpCreate" => ~log[i].args

LEMMA SendKeepsKept ==
  ASSUME DriverInv, OrderInv, KeptInv, NEW req \in RequestType, Send(req),
         req.action = "IdiaDpCreate" => ~req.args
  PROVE  KeptInv'
<1>1. /\ log \in Seq(RequestType) /\ Len(log) \in Nat /\ devQ \in Seq(1..Len(log))
      /\ cur \in 0..Len(log) /\ answered \in Seq(AnswerType) /\ Ids = 1..Len(log)
  BY DEF DriverInv, QueueTypeOK, OrderInv, Ids
<1>. DEFINE new == Len(log) + 1
<1>2. /\ log' = Append(log, req) /\ devQ' = Append(devQ, new)
      /\ cur' = cur /\ answered' = answered
      /\ liveArgs' = IF req.args THEN liveArgs \cup {new} ELSE liveArgs
  BY DEF Send
<1>3. /\ Ids' = Ids \cup {new} /\ new \notin Ids /\ log'[new] = req
      /\ \A i \in Ids : log'[i] = log[i]
  BY <1>1, <1>2 DEF Ids
<1>4. Pending' = Pending \cup {new} /\ AnsweredIds' = AnsweredIds /\ Pending \subseteq Ids
  <2>1. /\ DOMAIN devQ' = DOMAIN devQ \cup {Len(devQ) + 1}
        /\ \A k \in DOMAIN devQ : devQ'[k] = devQ[k] /\ devQ[k] \in Ids
        /\ devQ'[Len(devQ) + 1] = new
    BY <1>1, <1>2
  <2>2. {devQ'[k] : k \in DOMAIN devQ'} = {devQ[k] : k \in DOMAIN devQ} \cup {new}
    <3>. HIDE DEF new
    <3>. QED BY <2>1
  <2>3. cur = 0 \/ cur \in Ids
    BY <1>1
  <2>. HIDE DEF new
  <2>. QED BY <1>2, <2>1, <2>2, <2>3 DEF Pending, AnsweredIds
<1>. HIDE DEF new
<1>5. NoRequestLost'
  BY <1>3, <1>4 DEF KeptInv, NoRequestLost, HasResult
<1>6. ArgsHeld'
  BY <1>2, <1>3, <1>4 DEF KeptInv, ArgsHeld
<1>7. \A i \in Ids' : log'[i].action = "IdiaDpCreate" => ~log'[i].args
  BY <1>3 DEF KeptInv
<1>. QED BY <1>5, <1>6, <1>7 DEF KeptInv

LEMMA ReceiveKeepsKept ==
  ASSUME DriverInv, KeptInv, Receive
  PROVE  KeptInv'
<1>1. /\ devQ \in Seq(Ids) /\ devQ # <<>> /\ cur = 0 /\ cur' = Head(devQ)
      /\ devQ' = Tail(devQ) /\ UNCHANGED <<log, answered, liveArgs>>
      /\ \A l \in DOMAIN devQ : devQ[l] # 0
  BY DEF DriverInv, QueueTypeOK, Receive, Ids
<1>2. {devQ[l] : l \in DOMAIN devQ} = {devQ'[l] : l \in DOMAIN devQ'} \cup {cur'}
  <2>1. \A l \in DOMAIN devQ : l = 1 \/ (l - 1 \in DOMAIN devQ' /\ devQ'[l - 1] = devQ[l])
    BY <1>1
  <2>2. \A l \in DOMAIN devQ' : l + 1 \in DOMAIN devQ /\ devQ'[l] = devQ[l + 1]
    BY <1>1
  <2>3. cur' = devQ[1] /\ 1 \in DOMAIN devQ
    BY <1>1
  <2>. QED BY <2>1, <2>2, <2>3
<1>3. Pending' = Pending
  <2>1. cur' # 0
    BY <1>1
  <2>. QED BY <1>1, <1>2, <2>1 DEF Pending
<1>. QED BY <1>1, <1>3
         DEF KeptInv, NoRequestLost, ArgsHeld, HasResult, AnsweredIds, Ids

(* The request being worked on is done with, and is not in the queue.      *)
LEMMA EndKeepsKept ==
  ASSUME DriverInv, OrderInv, KeptInv, cur # 0, cur' = 0, UNCHANGED <<log, devQ>>,
         AnsweredIds \subseteq AnsweredIds',
         \/ cur \in AnsweredIds' /\ liveArgs' = liveArgs \ {cur}
         \/ Req.action = "IdiaDpCreate" /\ liveArgs' = liveArgs
  PROVE  KeptInv'
<1>1. cur \in Ids /\ Ids' = Ids
  BY DEF DriverInv, QueueTypeOK, Ids
<1>2. Pending' = Pending \ {cur}
  <2>1. \A l \in DOMAIN devQ : devQ[l] # cur
    <3>1. cur \in Nat /\ \A l \in DOMAIN devQ : devQ[l] \in Nat /\ cur < devQ[l]
      BY <1>1 DEF OrderInv, DriverInv, QueueTypeOK, Ids
    <3>. QED BY <3>1
  <2>. QED BY <2>1 DEF Pending
<1>3. NoRequestLost'
  BY <1>1, <1>2 DEF KeptInv, NoRequestLost, HasResult, Req
<1>4. ArgsHeld'
  BY <1>1, <1>2 DEF KeptInv, ArgsHeld, Req
<1>. QED BY <1>1, <1>3, <1>4 DEF KeptInv

LEMMA KeptStep ==
  ASSUME IErr_IdiBusy \notin PublishRc, ~ENABLE_SIMULATION,
         DriverInv, OrderInv, KeptInv, QueueStep
  PROVE  KeptInv'
<1>1. ASSUME NEW req \in RequestType, Send(req), req.action = "IdiaDpCreate" => ~req.args
      PROVE  KeptInv'
  BY <1>1, SendKeepsKept
<1>2. CASE Receive
  BY <1>2, ReceiveKeepsKept
<1>3. ASSUME NEW err \in Results, NEW val \in Int, NEW mult \in Nat,
             cur # 0, Answer(err, val, mult), Round(err)
      PROVE  KeptInv'
  <2>1. err # IErr_IdiBusy
    BY DEF Results, IErr_Success, IErr_Failure, IErr_IdiBusy
  <2>2. cur' = 0 /\ UNCHANGED <<log, devQ>> /\ liveArgs' = liveArgs \ {cur}
    BY <1>3, <2>1 DEF Round, Answer
  <2>. DEFINE a == [id |-> cur, err |-> err, val |-> val, mult |-> mult]
  <2>3. /\ answered \in Seq(AnswerType) /\ a \in AnswerType /\ a.id = cur
        /\ answered' = Append(answered, a)
    <3>1. err \in Nat /\ cur \in Ids
      BY <1>3, PublishAssumption
         DEF Results, IErr_Success, IErr_Failure, DriverInv, QueueTypeOK
    <3>2. a \in AnswerType /\ a.id = cur
      BY <3>1 DEF AnswerType
    <3>. QED BY <1>3, <3>2 DEF Answer, OrderInv
  <2>. HIDE DEF a
  <2>4. cur \in AnsweredIds' /\ AnsweredIds \subseteq AnsweredIds'
    <3>1. /\ Len(answered) + 1 \in DOMAIN answered'
          /\ answered'[Len(answered) + 1] = a
          /\ \A k \in DOMAIN answered : k \in DOMAIN answered' /\ answered'[k] = answered[k]
      BY <2>3
    <3>. QED BY <2>3, <3>1 DEF AnsweredIds
  <2>. QED BY <1>3, <2>2, <2>4, EndKeepsKept
<1>4. ASSUME NEW err \in {IErr_Success, IErr_Failure}, cur # 0,
             Req.action = "IdiaDpCreate", NoResult(err)
      PROVE  KeptInv'
  <2>1. cur' = 0 /\ UNCHANGED <<log, devQ, liveArgs, answered>>
    BY <1>4 DEF NoResult, Round, IErr_Success, IErr_Failure, IErr_IdiBusy
  <2>2. AnsweredIds' = AnsweredIds
    BY <2>1 DEF AnsweredIds
  <2>. QED BY <1>4, <2>1, <2>2, EndKeepsKept
<1>5. CASE UNCHANGED <<log, devQ, answered, cur, liveArgs>>
  BY <1>5 DEF KeptInv, NoRequestLost, ArgsHeld, Pending, AnsweredIds, HasResult, Ids
<1>. QED BY <1>1, <1>2, <1>3, <1>4, <1>5 DEF QueueStep

(* In the shipped build, a request that has a result is answered or still  *)
(* to be served, and the args of exactly the requests still to be served   *)
(* are allocated.                                                          *)
THEOREM NothingIsLost ==
  ASSUME IErr_IdiBusy \notin PublishRc, ~ENABLE_SIMULATION
  PROVE  DriverSpec => [](NoRequestLost /\ ArgsHeld)
<1>1. DriverInit => OrderInv /\ KeptInv
  BY DEF DriverInit, OrderInv, AnswersInOrder, KeptInv, NoRequestLost, ArgsHeld, Pending,
         Ids
<1>2. DriverInv /\ OrderInv /\ KeptInv /\ [DriverNext]_vars => OrderInv' /\ KeptInv'
  BY EveryStepIsQueueStep, OrderStep, KeptStep
<1>3. KeptInv => NoRequestLost /\ ArgsHeld
  BY DEF KeptInv
<1>. QED BY <1>1, <1>2, <1>3, DriverInvariant, PTL DEF DriverSpec
=============================================================================
