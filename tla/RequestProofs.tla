---------------------------- MODULE RequestProofs ----------------------------
(***************************************************************************)
(* What the driver's queue and its devices have to do with each other: a   *)
(* request that waits is still about the device it was made for, because   *)
(* a deletion waits behind the requests made before it.  So no request     *)
(* made before the deletion follows a datapoint's pointer into freed       *)
(* storage, and a block's UID is out of date only while a replacement      *)
(* waits.                                                                  *)
(***************************************************************************)
EXTENDS IdiDriverProofs

(* The oldest request is worked on first.                                  *)
Fifo ==
  /\ \A l \in DOMAIN devQ : cur < devQ[l]
  /\ \A k, l \in DOMAIN devQ : k < l => devQ[k] < devQ[l]

QueueInv == QueueTypeOK /\ Fifo

(* How the requests that are pending change.                               *)
LEMMA PendingAccepted ==
  ASSUME QueueInv
  PROVE  Pending \subseteq Ids /\ Ids = 1..Len(log) /\ Len(log) \in Nat
<1>1. log \in Seq(RequestType) /\ devQ \in Seq(Ids) /\ cur \in Ids \cup {0}
  BY DEF QueueInv, QueueTypeOK
<1>2. \A l \in DOMAIN devQ : devQ[l] \in Ids
  BY <1>1
<1>. QED BY <1>1, <1>2 DEF Pending, Ids

LEMMA CurrentIsOldest ==
  ASSUME QueueInv, cur # 0
  PROVE  cur \in Pending /\ \A i \in Pending : cur <= i
<1>1. cur \in Nat /\ \A i \in Pending : i \in Nat
  BY PendingAccepted DEF QueueInv, QueueTypeOK
<1>. QED BY <1>1 DEF QueueInv, Fifo, Pending

LEMMA SendAddsPending ==
  ASSUME QueueInv, NEW req, Send(req)
  PROVE  /\ Pending' = Pending \cup {Len(log) + 1} /\ cur' = cur
         /\ \A i \in Pending : i < Len(log) + 1
         /\ Ids' = Ids \cup {Len(log) + 1} /\ Len(log) + 1 \notin Ids
         /\ \A i \in Ids : log'[i] = log[i]
         /\ log'[Len(log) + 1] = req
         /\ Fifo'
<1>. DEFINE new == Len(log) + 1
<1>1. /\ log \in Seq(RequestType) /\ Len(log) \in Nat /\ devQ \in Seq(Ids) /\ cur \in Ids \cup {0}
      /\ Ids = 1..Len(log)
  BY DEF QueueInv, QueueTypeOK, Ids
<1>2. log' = Append(log, req) /\ devQ' = Append(devQ, new) /\ cur' = cur
  BY DEF Send
<1>3. /\ Ids' = Ids \cup {new} /\ new \notin Ids /\ log'[new] = req
      /\ \A i \in Ids : log'[i] = log[i]
  BY <1>1, <1>2 DEF Ids
<1>4. /\ DOMAIN devQ' = DOMAIN devQ \cup {Len(devQ) + 1}
      /\ \A l \in DOMAIN devQ : devQ'[l] = devQ[l] /\ devQ[l] \in Ids /\ l \in 1..Len(devQ)
      /\ devQ'[Len(devQ) + 1] = new /\ Len(devQ) \in Nat
  BY <1>1, <1>2
<1>5. Pending' = Pending \cup {new}
  <2>. HIDE DEF new
  <2>. QED BY <1>2, <1>4 DEF Pending
<1>6. \A i \in Ids : i < new
  BY <1>1
<1>7. Fifo'
  <2>1. \A l \in DOMAIN devQ' : cur' < devQ'[l]
    BY <1>1, <1>2, <1>4, <1>6 DEF QueueInv, Fifo
  <2>2. ASSUME NEW k \in DOMAIN devQ', NEW l \in DOMAIN devQ', k < l
        PROVE  devQ'[k] < devQ'[l]
    <3>1. k \in DOMAIN devQ
      BY <1>4, <2>2
    <3>2. CASE l = Len(devQ) + 1
      BY <1>4, <1>6, <3>1, <3>2
    <3>3. CASE l \in DOMAIN devQ
      BY <1>4, <2>2, <3>1, <3>3 DEF QueueInv, Fifo
    <3>. QED BY <1>4, <3>2, <3>3
  <2>. QED BY <2>1, <2>2 DEF Fifo
<1>. QED BY <1>2, <1>3, <1>5, <1>6, <1>7, PendingAccepted

LEMMA ReceiveKeepsPending ==
  ASSUME QueueInv, Receive
  PROVE  Pending' = Pending /\ log' = log /\ Fifo'
<1>1. /\ devQ \in Seq(Ids) /\ devQ # <<>> /\ cur = 0 /\ cur' = Head(devQ)
      /\ devQ' = Tail(devQ) /\ log' = log /\ Ids \subseteq Nat \ {0}
  BY DEF QueueInv, QueueTypeOK, Receive, Ids
<1>2. /\ cur' = devQ[1] /\ 1 \in DOMAIN devQ
      /\ \A l \in DOMAIN devQ' : l + 1 \in DOMAIN devQ /\ devQ'[l] = devQ[l + 1] /\ 1 < l + 1
                                 /\ l \in Nat
  BY <1>1
<1>3. {devQ[l] : l \in DOMAIN devQ} = {devQ'[l] : l \in DOMAIN devQ'} \cup {cur'}
  <2>1. \A l \in DOMAIN devQ : l = 1 \/ (l - 1 \in DOMAIN devQ' /\ devQ'[l - 1] = devQ[l])
    BY <1>1
  <2>. QED BY <1>2, <2>1
<1>4. Pending' = Pending
  <2>1. cur' # 0
    BY <1>1
  <2>. QED BY <1>1, <1>3, <2>1 DEF Pending
<1>5. \A l \in DOMAIN devQ' : cur' < devQ'[l]
  BY <1>2 DEF QueueInv, Fifo
<1>6. \A k, l \in DOMAIN devQ' : k < l => devQ'[k] < devQ'[l]
  <2>. SUFFICES ASSUME NEW k \in DOMAIN devQ', NEW l \in DOMAIN devQ', k < l
                PROVE  devQ'[k] < devQ'[l]
    OBVIOUS
  <2>1. k + 1 \in DOMAIN devQ /\ l + 1 \in DOMAIN devQ /\ k + 1 < l + 1
    BY <1>2
  <2>. QED BY <1>2, <2>1 DEF QueueInv, Fifo
<1>. QED BY <1>1, <1>4, <1>5, <1>6 DEF Fifo

LEMMA RoundEndsPending ==
  ASSUME QueueInv, cur # 0, NEW err, Round(err)
  PROVE  /\ log' = log /\ Fifo'
         /\ \/ cur' = cur /\ Pending' = Pending
            \/ cur' = 0 /\ Pending' = Pending \ {cur}
         /\ err # IErr_IdiBusy => cur' = 0
<1>1. cur \in Nat /\ \A l \in DOMAIN devQ : devQ[l] \in Nat \ {0} /\ cur < devQ[l]
  BY DEF QueueInv, QueueTypeOK, Fifo, Ids
<1>2. UNCHANGED <<log, devQ>> /\ cur' \in {0, cur} /\ (err # IErr_IdiBusy => cur' = 0)
  BY DEF Round
<1>3. \A l \in DOMAIN devQ : devQ[l] # cur
  BY <1>1
<1>4. Fifo'
  BY <1>1, <1>2 DEF QueueInv, Fifo
<1>. QED BY <1>2, <1>3, <1>4 DEF Pending

LEMMA QuietKeepsPending ==
  ASSUME QueueInv, UNCHANGED <<log, devQ, cur>>
  PROVE  Pending' = Pending /\ Fifo'
BY DEF QueueInv, Fifo, Pending

-----------------------------------------------------------------------------
(* The library has asked for the device's deletion.                        *)
Late(d) == devState[d] \in {"deleting", "dead"}

(* A call of the library, by what it does to the device.                   *)
CallOf(d, action, dp) ==
  \/ /\ action = "IdiaCreate" /\ dp = NULL
     /\ \E u \in Uids \cup {NULL} : IdlNewDev(d, u)
  \/ /\ action = "IdiaReplace" /\ dp = NULL
     /\ \E u \in Uids : IdlNewUnid(d, u)
  \/ action = "IdiaDelete" /\ dp = NULL /\ IdlStartDelete(d)
  \/ /\ action \in {"IdiaProvision", "IdiaDeprovision"} /\ dp = NULL
     /\ devState[d] = "created" /\ UNCHANGED allVars
  \/ /\ action \in DpActions
     /\ Pollable(d) \/ (action = "IdiaDpCreate" /\ devState[d] = "creating")
     /\ action = "IdiaDpCreate" => ~Late(d)
     /\ UNCHANGED allVars

Called(d, req) ==
  Send(req) /\ req.dev = d /\ req.late = Late(d) /\ CallOf(d, req.action, req.dp)

LEMMA CallKinds ==
  ASSUME IdlCall
  PROVE  SendFails \/ \E d \in Devs : \E req : Called(d, req)
<1>. PICK d \in Devs :
    \/ \E u \in Uids \cup {NULL} : OnDevCreateCb(d, u)
    \/ \E u \in Uids : OnDevReplaceCb(d, u)
    \/ OnDevProvisionCb(d) \/ OnDevDeprovisionCb(d) \/ OnDevDeleteCb(d)
    \/ \E p \in Dps : \/ OnDpCreateCb(d, p)
                      \/ OnDpReadCb(d, p)  \/ OnDpReadExCb(d, p)
                      \/ OnDpWriteCb(d, p) \/ OnDpWriteExCb(d, p)
  BY DEF IdlCall
<1>1. ASSUME NEW a, NEW p, NEW t, NEW g, Send(ACB(a, d, p, t, g)), CallOf(d, a, p)
      PROVE  \E req : Called(d, req)
  <2>1. /\ ACB(a, d, p, t, g).action = a /\ ACB(a, d, p, t, g).dev = d
        /\ ACB(a, d, p, t, g).dp = p /\ ACB(a, d, p, t, g).late = Late(d)
    BY DEF ACB, Late
  <2>2. Called(d, ACB(a, d, p, t, g))
    BY <1>1, <2>1 DEF Called
  <2>. QED BY <2>2
<1>2. ASSUME NEW u \in Uids \cup {NULL}, OnDevCreateCb(d, u)
      PROVE  SendFails \/ \E req : Called(d, req)
  <2>1. CASE IdlNewDev(d, u) /\ Send(ACB("IdiaCreate", d, NULL, IDI_ACTION_LONG_TIMEOUT, TRUE))
    <3>1. CallOf(d, "IdiaCreate", NULL)
      BY <2>1 DEF CallOf
    <3>. QED BY <1>1, <2>1, <3>1
  <2>. QED BY <1>2, <2>1 DEF OnDevCreateCb
<1>3. ASSUME NEW u \in Uids, OnDevReplaceCb(d, u)
      PROVE  \E req : Called(d, req)
  <2>1. CallOf(d, "IdiaReplace", NULL)
    BY <1>3 DEF OnDevReplaceCb, CallOf
  <2>. QED BY <1>1, <1>3, <2>1 DEF OnDevReplaceCb
<1>4. CASE OnDevProvisionCb(d) \/ OnDevDeprovisionCb(d)
  <2>1. devState[d] = "created" /\ UNCHANGED allVars
    BY <1>4 DEF OnDevProvisionCb, OnDevDeprovisionCb
  <2>2. CallOf(d, "IdiaProvision", NULL) /\ CallOf(d, "IdiaDeprovision", NULL)
    BY <2>1 DEF CallOf
  <2>. QED BY <1>1, <1>4, <2>2 DEF OnDevProvisionCb, OnDevDeprovisionCb
<1>5. CASE OnDevDeleteCb(d)
  <2>1. CallOf(d, "IdiaDelete", NULL)
    BY <1>5 DEF OnDevDeleteCb, CallOf
  <2>. QED BY <1>1, <1>5, <2>1 DEF OnDevDeleteCb
<1>6. ASSUME NEW p \in Dps, \/ OnDpCreateCb(d, p)
                            \/ OnDpReadCb(d, p)  \/ OnDpReadExCb(d, p)
                            \/ OnDpWriteCb(d, p) \/ OnDpWriteExCb(d, p)
      PROVE  \E req : Called(d, req)
  <2>1. CASE OnDpCreateCb(d, p)
    <3>1. CallOf(d, "IdiaDpCreate", p)
      BY <2>1 DEF OnDpCreateCb, CallOf, Pollable, DpActions, Late
    <3>. QED BY <1>1, <2>1, <3>1 DEF OnDpCreateCb
  <2>2. CASE OnDpReadCb(d, p) \/ OnDpReadExCb(d, p)
    <3>1. CallOf(d, "IdiaDpread", p)
      BY <2>2 DEF OnDpReadCb, OnDpReadExCb, CallOf, DpActions
    <3>. QED BY <1>1, <2>2, <3>1 DEF OnDpReadCb, OnDpReadExCb
  <2>3. CASE OnDpWriteCb(d, p) \/ OnDpWriteExCb(d, p)
    <3>1. CallOf(d, "IdiaDpwrite", p)
      BY <2>3 DEF OnDpWriteCb, OnDpWriteExCb, CallOf, DpActions
    <3>. QED BY <1>1, <2>3, <3>1 DEF OnDpWriteCb, OnDpWriteExCb
  <2>. QED BY <1>6, <2>1, <2>2, <2>3
<1>. QED BY <1>2, <1>3, <1>4, <1>5, <1>6

(* A round of the state machine, by what it does to the request's device.  *)
Served(d, err) ==
  /\ cur # 0 /\ d = Req.dev /\ Round(err)
  /\ \/ /\ UNCHANGED allVars
        /\ \/ ENABLE_SIMULATION
           \/ /\ Req.action \notin {"IdiaCreate", "IdiaDelete"}
              /\ Req.action = "IdiaReplace" => d \notin Handled
     \/ Req.action = "IdiaCreate" /\ Create(d, err) /\ err # IErr_IdiBusy
     \/ Req.action = "IdiaDelete" /\ Delete(d, err) /\ err # IErr_IdiBusy
     \/ Req.action = "IdiaReplace" /\ d \in Handled /\ Replace(d) /\ err # IErr_IdiBusy
     \/ /\ Req.action \in DpActions
        /\ \/ \E p \in Dps : DpCreate(d, p, err)
           \/ \E p \in Dps, v \in Vals : DpWrite(d, p, v)

LEMMA FsmKinds ==
  ASSUME QueueInv, IdiGenericResultFsm
  PROVE  Req.dev \in Devs /\ \E err : Served(Req.dev, err)
<1>1. /\ cur # 0 /\ Req.dev \in Devs /\ cur \in Vals
      /\ Req.action \in DpActions => Req.dp \in Dps
  BY CurrentRequest DEF IdiGenericResultFsm, QueueInv
<1>. USE DEF IErr_Success, IErr_Failure, IErr_IdiBusy, Result, NoResult
<1>2. CASE StillBusy
  BY <1>1, <1>2 DEF StillBusy, Served
<1>3. CASE FsmDpCreate
  <2>1. PICK err \in {IErr_Success, IErr_Failure} : DpCreate(Req.dev, Req.dp, err) /\ NoResult(err)
    BY <1>3 DEF FsmDpCreate
  <2>. QED BY <1>1, <1>3, <2>1 DEF FsmDpCreate, Served, DpActions
<1>4. CASE FsmCreate
  <2>1. PICK err \in {IErr_Success, IErr_Failure} : Create(Req.dev, err) /\ Result(err)
    BY <1>4 DEF FsmCreate
  <2>. QED BY <1>1, <1>4, <2>1 DEF FsmCreate, Served
<1>5. CASE FsmDelete
  <2>1. PICK err \in {IErr_Success, IErr_Failure} : Delete(Req.dev, err) /\ Result(err)
    BY <1>5 DEF FsmDelete
  <2>. QED BY <1>1, <1>5, <2>1 DEF FsmDelete, Served
<1>6. CASE FsmReplace
  BY <1>1, <1>6 DEF FsmReplace, Served
<1>7. CASE FsmWrite
  BY <1>1, <1>7 DEF FsmWrite, Served, DpActions
<1>8. CASE FsmRead
  <2>1. PICK err : Round(err)
    BY <1>8 DEF FsmRead
  <2>. QED BY <1>1, <1>8, <2>1 DEF FsmRead, Served
<1>9. CASE FsmProvision
  BY <1>1, <1>9 DEF FsmProvision, Served
<1>. QED BY <1>1, <1>2, <1>3, <1>4, <1>5, <1>6, <1>7, <1>8, <1>9 DEF IdiGenericResultFsm

(* Every step of the driver is one of these.                               *)
StepOf ==
  \/ \E d \in Devs : \E req : Called(d, req)
  \/ \E d \in Devs : \E err : Served(d, err)
  \/ Receive
  \/ \E d \in Devs : IdlFree(d)
  \/ UNCHANGED <<log, devQ, cur, idlVars, idiDevData, idiDpData, devUid>>

LEMMA StepKinds ==
  ASSUME QueueInv, [DriverNext]_vars
  PROVE  StepOf
<1>1. CASE IdlCall
  <2>1. CASE SendFails
    BY <2>1 DEF SendFails, vars, allVars, storeVars, blockVars, driverVars, StepOf
  <2>. QED BY <1>1, <2>1, CallKinds DEF StepOf
<1>2. CASE IdiGenericResultFsm
  BY <1>2, FsmKinds DEF StepOf
<1>3. CASE StartQueue \/ Tick
  BY <1>3 DEF StartQueue, Tick, allVars, storeVars, blockVars, StepOf
<1>4. ASSUME NEW s \in Sto, NEW r \in Regs, NEW v \in EvPayloads, EtiEvent(s, r, v)
      PROVE  StepOf
  BY <1>4 DEF EtiEvent, DevEvent, DevRegEvHndl, SetReg, driverVars, StepOf
<1>5. CASE UNCHANGED vars
  BY <1>5 DEF vars, allVars, storeVars, blockVars, driverVars, StepOf
<1>6. CASE Receive \/ \E d \in Devs : IdlFree(d)
  BY <1>6 DEF StepOf
<1>. QED BY <1>1, <1>2, <1>3, <1>4, <1>5, <1>6 DEF DriverNext, Worker

-----------------------------------------------------------------------------
(* A device is not freed while a request about it is pending, and a        *)
(* deletion that is pending is the only one, of a device being deleted.    *)
(* A datapoint is announced in time.                                       *)
Requests ==
  /\ \A i \in Pending : devState[log[i].dev] # "absent"
  /\ \A i \in Pending : log[i].action = "IdiaDelete" => devState[log[i].dev] = "deleting"
  /\ \A i, j \in Pending :
       (log[i].action = "IdiaDelete" /\ log[j].action = "IdiaDelete"
          /\ log[j].dev = log[i].dev) => i = j
  /\ \A i \in Ids : log[i].dp # NULL => log[i].action \in DpActions
  /\ \A i \in Ids : log[i].action = "IdiaDpCreate" => ~log[i].late

RequestInv == StoreInv /\ QueueInv /\ Requests

LEMMA RequestFacts ==
  ASSUME RequestInv
  PROVE  /\ devState \in [Devs -> DevStates] /\ \A i \in Ids : log[i].dev \in Devs
         /\ Pending \subseteq Ids /\ Ids \subseteq Nat /\ Len(log) \in Nat
<1>1. Pending \subseteq Ids /\ Ids = 1..Len(log) /\ Len(log) \in Nat
  BY PendingAccepted DEF RequestInv
<1>2. \A i \in Ids : log[i] \in RequestType
  BY DEF RequestInv, QueueInv, QueueTypeOK, Ids
<1>3. \A i \in Ids : log[i].dev \in Devs
  BY <1>2 DEF RequestType
<1>. QED BY <1>1, <1>3 DEF RequestInv, StoreInv, StoreTypeOK

(* What a call and a round do to the states of the devices.                *)
LEMMA CallMoves ==
  ASSUME RequestInv, NEW d \in Devs, NEW req, Called(d, req)
  PROVE  /\ \A e \in Devs \ {d} : devState'[e] = devState[e]
         /\ devState'[d] # "absent" /\ (devState'[d] = "dead" => devState[d] = "dead")
         /\ req.action = "IdiaDelete" => devState[d] = "created" /\ devState'[d] = "deleting"
         /\ req.action # "IdiaDelete" => devState[d] = devState'[d] \/ devState[d] = "absent"
         /\ req.dp # NULL => req.action \in DpActions
         /\ req.action \in DpActions =>
              /\ devState' = devState /\ (devState[d] = "creating" \/ Pollable(d))
              /\ ~req.late => devState[d] \in {"creating", "created"}
         /\ req.action = "IdiaDpCreate" => ~req.late
<1>1. devState \in [Devs -> DevStates]
  BY RequestFacts
<1>. QED BY <1>1
         DEF Called, CallOf, IdlNewDev, IdlNewUnid, IdlStartDelete, allVars, idlVars, DpActions,
             Pollable, Late

LEMMA ServeMoves ==
  ASSUME RequestInv, NEW d \in Devs, NEW err, Served(d, err)
  PROVE  /\ \A e \in Devs \ {d} : devState'[e] = devState[e]
         /\ \/ devState' = devState
            \/ /\ Req.action = "IdiaCreate" /\ devState[d] \in {"creating", "created"}
               /\ devState'[d] \in {"created", "dead"} /\ cur' = 0
               /\ devState'[d] = "dead" => d \notin Handled
            \/ /\ Req.action = "IdiaDelete" /\ devState[d] = "deleting"
               /\ devState'[d] \in {"created", "dead"} /\ cur' = 0
<1>1. devState \in [Devs -> DevStates]
  BY RequestFacts
<1>2. UNCHANGED devState \/ Create(d, err) \/ Delete(d, err)
  BY DEF Served, allVars, idlVars, Replace, DpCreate, DpWrite
<1>3. CASE UNCHANGED allVars
  BY <1>3 DEF allVars, idlVars
<1>4. CASE Req.action = "IdiaCreate" /\ Create(d, err) /\ err # IErr_IdiBusy
  <2>1. /\ devState[d] \in {"creating", "created"}
        /\ devState' = [devState EXCEPT ![d] = IF err = IErr_Success THEN "created" ELSE "dead"]
        /\ d \in Handled => err = IErr_Success
    BY <1>4 DEF Create, IdlCreateResult, DevSetCustomIdiDevData
  <2>2. cur' = 0
    BY <1>4, RoundEndsPending DEF Served, RequestInv
  <2>. QED BY <1>1, <1>4, <2>1, <2>2
<1>5. CASE Req.action = "IdiaDelete" /\ Delete(d, err) /\ err # IErr_IdiBusy
  <2>1. /\ devState[d] = "deleting"
        /\ devState' = [devState EXCEPT ![d] = IF err = IErr_Success THEN "dead" ELSE "created"]
    BY <1>5 DEF Delete, IdlDeleteResult
  <2>2. cur' = 0
    BY <1>5, RoundEndsPending DEF Served, RequestInv
  <2>. QED BY <1>1, <1>5, <2>1, <2>2
<1>6. CASE Replace(d) \/ (\E p \in Dps : DpCreate(d, p, err))
                     \/ (\E p \in Dps, v \in Vals : DpWrite(d, p, v))
  BY <1>6 DEF Replace, DpCreate, DpWrite, idlVars
<1>. QED BY <1>3, <1>4, <1>5, <1>6 DEF Served

LEMMA RequestsStep == RequestInv /\ [DriverNext]_vars => Requests' /\ Fifo'
<1>. SUFFICES ASSUME RequestInv, [DriverNext]_vars  PROVE Requests' /\ Fifo'
  OBVIOUS
<1>. USE DEF RequestInv
<1>1. /\ \A i \in Ids : log[i].dev \in Devs
      /\ Pending \subseteq Ids /\ Ids \subseteq Nat /\ Len(log) \in Nat
  BY RequestFacts
<1>2. ASSUME Pending' \subseteq Pending, log' = log, UNCHANGED devState  PROVE Requests'
  BY <1>2 DEF Requests, Ids
<1>3. ASSUME NEW d \in Devs, NEW req, Called(d, req)  PROVE Requests' /\ Fifo'
  <2>. DEFINE new == Len(log) + 1
  <2>1. /\ Pending' = Pending \cup {new} /\ Ids' = Ids \cup {new} /\ new \notin Ids
        /\ \A i \in Pending : i < new
        /\ \A i \in Ids : log'[i] = log[i]
        /\ log'[new] = req /\ req.dev = d /\ Fifo'
    BY <1>3, SendAddsPending DEF Called
  <2>. HIDE DEF new
  <2>2. \A i \in Pending : log'[i] = log[i] /\ log[i].dev \in Devs
    BY <1>1, <2>1
  <2>3. /\ \A e \in Devs \ {d} : devState'[e] = devState[e]
        /\ devState'[d] # "absent" /\ (devState'[d] = "dead" => devState[d] = "dead")
        /\ req.action = "IdiaDelete" => devState[d] = "created" /\ devState'[d] = "deleting"
        /\ req.action # "IdiaDelete" => devState[d] = devState'[d] \/ devState[d] = "absent"
        /\ req.dp # NULL => req.action \in DpActions
        /\ req.action = "IdiaDpCreate" => ~req.late
    BY <1>3, CallMoves
  <2>4. \A i \in Pending' : devState'[log'[i].dev] # "absent"
    BY <2>1, <2>2, <2>3 DEF Requests
  <2>5. \A i \in Pending' : log'[i].action = "IdiaDelete" => devState'[log'[i].dev] = "deleting"
    BY <2>1, <2>2, <2>3 DEF Requests
  <2>6. ASSUME NEW i \in Pending', NEW j \in Pending', log'[i].action = "IdiaDelete",
               log'[j].action = "IdiaDelete", log'[j].dev = log'[i].dev
        PROVE  i = j
    BY <1>1, <2>1, <2>2, <2>3, <2>6 DEF Requests
  <2>7. /\ \A i \in Ids' : log'[i].dp # NULL => log'[i].action \in DpActions
        /\ \A i \in Ids' : log'[i].action = "IdiaDpCreate" => ~log'[i].late
    BY <2>1, <2>3 DEF Requests
  <2>. QED BY <2>1, <2>4, <2>5, <2>6, <2>7 DEF Requests
<1>4. ASSUME NEW d \in Devs, NEW err, Served(d, err)  PROVE Requests' /\ Fifo'
  <2>1. /\ log' = log /\ Fifo' /\ Pending' \subseteq Pending
        /\ cur' = 0 => Pending' = Pending \ {cur}
        /\ cur \in Pending /\ log[cur].dev = d
    <3>1. cur # 0 /\ d = Req.dev /\ Round(err)
      BY <1>4 DEF Served
    <3>. QED BY <3>1, RoundEndsPending, CurrentIsOldest DEF Req
  <2>2. CASE devState' = devState
    BY <1>2, <2>1, <2>2
  <2>3. CASE /\ Req.action \in {"IdiaCreate", "IdiaDelete"} /\ devState'[d] # "absent" /\ cur' = 0
             /\ devState[d] # "deleting" \/ Req.action = "IdiaDelete"
    <3>1. \A e \in Devs \ {d} : devState'[e] = devState[e]
      BY <1>4, ServeMoves
    <3>2. \A i \in Pending' : devState'[log'[i].dev] # "absent"
      BY <1>1, <2>1, <2>3, <3>1 DEF Requests
    <3>3. ASSUME NEW i \in Pending', log'[i].action = "IdiaDelete"
          PROVE  devState'[log'[i].dev] = "deleting"
      <4>1. i \in Pending /\ i # cur /\ i \in Nat /\ cur \in Nat /\ log[i].action = "IdiaDelete"
        BY <1>1, <2>1, <2>3, <3>3
      <4>2. log[i].dev # d
        BY <2>1, <2>3, <4>1 DEF Requests, Req
      <4>. QED BY <1>1, <2>1, <3>1, <4>1, <4>2 DEF Requests
    <3>. QED BY <2>1, <3>2, <3>3 DEF Requests, Ids
  <2>. QED BY <1>4, <2>1, <2>2, <2>3, ServeMoves
<1>5. CASE Receive
  <2>1. Pending' = Pending /\ log' = log /\ Fifo' /\ UNCHANGED devState
    BY <1>5, ReceiveKeepsPending DEF Receive, allVars, idlVars
  <2>. QED BY <1>2, <2>1
<1>6. ASSUME NEW d \in Devs, IdlFree(d)  PROVE Requests' /\ Fifo'
  <2>1. /\ Pending' = Pending /\ log' = log /\ Fifo'
        /\ \A i \in Pending : log[i].dev # d
        /\ devState' = [devState EXCEPT ![d] = "absent"]
    BY <1>6, QuietKeepsPending DEF IdlFree, IdlFreeDev, driverVars
  <2>2. \A i \in Pending : devState'[log[i].dev] = devState[log[i].dev]
    BY <1>1, <2>1, RequestFacts
  <2>. QED BY <2>1, <2>2 DEF Requests, Ids
<1>7. CASE UNCHANGED <<log, devQ, cur, idlVars, idiDevData, idiDpData, devUid>>
  <2>1. Pending' = Pending /\ log' = log /\ Fifo' /\ UNCHANGED devState
    BY <1>7, QuietKeepsPending DEF idlVars
  <2>. QED BY <1>2, <2>1
<1>. QED BY <1>3, <1>4, <1>5, <1>6, <1>7, StepKinds DEF StepOf

LEMMA RequestInvariant == DriverSpec => []RequestInv
<1>1. DriverInit => RequestInv
  <2>1. DriverInit => QueueTypeOK /\ StoreInv
    BY QueueTypeInit, StoreInitInv DEF DriverInit
  <2>2. DriverInit => Fifo /\ Requests
    BY DEF DriverInit, Fifo, Requests, Pending, Ids
  <2>. QED BY <2>1, <2>2 DEF RequestInv, QueueInv
<1>2. RequestInv /\ [DriverNext]_vars => RequestInv'
  BY RequestsStep, DriverStep, StoreStepKeepsInv DEF RequestInv, QueueInv
<1>. QED BY <1>1, <1>2, PTL DEF DriverSpec

-----------------------------------------------------------------------------
(* A device without a handle never gets storage nor datapoints.            *)
Bare == \A d \in Devs \ Handled : idiDevData[d] = NULL /\ \A p \in Dps : idiDpData[d][p] = NULL

(* A request that looks at a datapoint, made in time.                      *)
AsksDp(j) == log[j].action \in DpActions /\ ~log[j].late

(* The requests that look at a device's datapoints and were made before    *)
(* its deletion was, are pending before it, and the device is there.       *)
Follows ==
  /\ \A i, j \in Pending :
       (log[i].action = "IdiaDelete" /\ AsksDp(j) /\ log[j].dev = log[i].dev) => j < i
  /\ \A j \in Pending : AsksDp(j) =>
       devState[log[j].dev] # "dead" \/ log[j].dev \notin Handled

LEMMA BareStep == RequestInv /\ Bare /\ [DriverNext]_vars => Bare'
<1>. SUFFICES ASSUME RequestInv, Bare, [DriverNext]_vars  PROVE Bare'
  OBVIOUS
<1>1. /\ idiDevData \in [Devs -> Sto \cup {NULL}]
      /\ idiDpData \in [Devs -> [Dps -> (Sto \X Regs) \cup {NULL}]]
  BY DEF RequestInv, StoreInv, StoreTypeOK
<1>2. CASE UNCHANGED <<idiDevData, idiDpData>>
  BY <1>2 DEF Bare
<1>3. ASSUME NEW d \in Devs, NEW req, Called(d, req)  PROVE Bare'
  BY <1>2, <1>3
     DEF Called, CallOf, IdlNewDev, IdlNewUnid, IdlStartDelete, allVars, storeVars
<1>4. ASSUME NEW d \in Devs, NEW err, Served(d, err)  PROVE Bare'
  <2>1. CASE Create(d, err) \/ Delete(d, err)
    <3>1. CASE d \notin Handled
      BY <1>2, <2>1, <3>1 DEF Create, Delete, storeVars
    <3>2. CASE d \in Handled
      <4>1. idiDpData' = idiDpData /\ \A e \in Devs \ {d} : idiDevData'[e] = idiDevData[e]
        BY <1>1, <2>1, <3>2
           DEF Create, Delete, DevSetCustomIdiDevData, SetRefused, SetNoMemory, SetStored,
               DevRemoveCustomIdiDevData, RemoveFound, storeVars
      <4>. QED BY <3>2, <4>1 DEF Bare
    <3>. QED BY <3>1, <3>2
  <2>2. ASSUME NEW p \in Dps, DpCreate(d, p, err)  PROVE Bare'
    <3>1. CASE BindDp(d, p) /\ MayBind(d, p)
      <4>1. idiDevData' = idiDevData /\ \A e \in Devs \ {d} : idiDpData'[e] = idiDpData[e]
        BY <1>1, <3>1 DEF BindDp
      <4>2. d \in Handled
        BY <3>1 DEF Bare, MayBind
      <4>. QED BY <4>1, <4>2 DEF Bare
    <3>. QED BY <1>2, <2>2, <3>1 DEF DpCreate, IdiDpProcessCustomColum, storeVars
  <2>3. CASE Replace(d) \/ (\E p \in Dps, v \in Vals : DpWrite(d, p, v)) \/ UNCHANGED allVars
    BY <1>2, <2>3 DEF Replace, DevReplaceUnid, DpWrite, StoreWrite, SetReg, allVars, storeVars
  <2>. QED BY <1>4, <2>1, <2>2, <2>3 DEF Served
<1>5. CASE Receive
  BY <1>2, <1>5 DEF Receive, allVars, storeVars
<1>6. ASSUME NEW d \in Devs, IdlFree(d)  PROVE Bare'
  <2>1. idiDevData' = idiDevData /\ idiDpData' = [idiDpData EXCEPT ![d] = NoDps]
    BY <1>6 DEF IdlFree, IdlFreeDev
  <2>. QED BY <1>1, <2>1 DEF Bare, NoDps
<1>. QED BY <1>2, <1>3, <1>4, <1>5, <1>6, StepKinds DEF StepOf, RequestInv

LEMMA FollowsStep == RequestInv /\ Follows /\ [DriverNext]_vars => Follows'
<1>. SUFFICES ASSUME RequestInv, Follows, [DriverNext]_vars  PROVE Follows'
  OBVIOUS
<1>. USE DEF RequestInv
<1>1. /\ \A i \in Ids : log[i].dev \in Devs
      /\ Pending \subseteq Ids /\ Ids \subseteq Nat /\ Len(log) \in Nat
  BY RequestFacts
<1>2. ASSUME Pending' \subseteq Pending, log' = log, UNCHANGED devState  PROVE Follows'
  BY <1>2 DEF Follows, AsksDp
<1>3. ASSUME NEW d \in Devs, NEW req, Called(d, req)  PROVE Follows'
  <2>. DEFINE new == Len(log) + 1
  <2>1. /\ Pending' = Pending \cup {new} /\ new \notin Ids
        /\ \A i \in Pending : i < new
        /\ \A i \in Ids : log'[i] = log[i]
        /\ log'[new] = req /\ req.dev = d
    BY <1>3, SendAddsPending DEF Called
  <2>. HIDE DEF new
  <2>2. \A i \in Pending : log'[i] = log[i] /\ log[i].dev \in Devs
    BY <1>1, <2>1
  <2>3. /\ \A e \in Devs \ {d} : devState'[e] = devState[e]
        /\ devState'[d] = "dead" => devState[d] = "dead"
        /\ req.action \in DpActions /\ ~req.late =>
             devState' = devState /\ devState[d] \in {"creating", "created"}
    BY <1>3, CallMoves
  <2>4. \A j \in Pending' : AsksDp(j)' =>
          devState'[log'[j].dev] # "dead" \/ log'[j].dev \notin Handled
    BY <2>1, <2>2, <2>3 DEF Follows, AsksDp
  <2>5. ASSUME NEW i \in Pending', NEW j \in Pending', log'[i].action = "IdiaDelete",
               AsksDp(j)', log'[j].dev = log'[i].dev
        PROVE  j < i
    <3>1. CASE i = new
      <4>1. j # new
        BY <2>5, <3>1 DEF DpActions, AsksDp
      <4>. QED BY <2>1, <3>1, <4>1
    <3>2. CASE i \in Pending /\ j = new
      BY <2>1, <2>2, <2>3, <2>5, <3>2 DEF Requests, AsksDp
    <3>3. CASE i \in Pending /\ j \in Pending
      BY <2>2, <2>5, <3>3 DEF Follows, AsksDp
    <3>. QED BY <2>1, <3>1, <3>2, <3>3
  <2>. QED BY <2>4, <2>5 DEF Follows
<1>4. ASSUME NEW d \in Devs, NEW err, Served(d, err)  PROVE Follows'
  <2>1. /\ log' = log /\ Pending' \subseteq Pending
        /\ cur' = 0 => Pending' = Pending \ {cur}
        /\ cur \in Pending /\ log[cur].dev = d /\ \A i \in Pending : cur <= i
    <3>1. cur # 0 /\ d = Req.dev /\ Round(err)
      BY <1>4 DEF Served
    <3>. QED BY <3>1, RoundEndsPending, CurrentIsOldest DEF Req
  <2>2. CASE devState' = devState
    BY <1>2, <2>1, <2>2
  <2>3. ASSUME devState'[d] = "dead" => d \notin Handled \/ Req.action = "IdiaDelete"
        PROVE  Follows'
    <3>1. \A e \in Devs \ {d} : devState'[e] = devState[e]
      BY <1>4, ServeMoves
    <3>2. ASSUME NEW j \in Pending', AsksDp(j)', log'[j].dev \in Handled, devState'[log'[j].dev] = "dead"
          PROVE  FALSE
      <4>1. j \in Pending /\ AsksDp(j) /\ log[j].dev \in Handled \cap Devs
        BY <1>1, <2>1, <3>2 DEF AsksDp
      <4>2. log[j].dev = d
        BY <2>1, <3>1, <3>2, <4>1 DEF Follows
      <4>3. j < cur
        BY <2>1, <2>3, <3>2, <4>1, <4>2 DEF Follows, Req
      <4>. QED BY <1>1, <2>1, <4>1, <4>3
    <3>. QED BY <2>1, <3>2 DEF Follows, AsksDp
  <2>. QED BY <1>4, <2>2, <2>3, ServeMoves
<1>5. CASE Receive
  <2>1. Pending' = Pending /\ log' = log /\ UNCHANGED devState
    BY <1>5, ReceiveKeepsPending DEF Receive, allVars, idlVars
  <2>. QED BY <1>2, <2>1
<1>6. ASSUME NEW d \in Devs, IdlFree(d)  PROVE Follows'
  <2>1. /\ Pending' = Pending /\ log' = log
        /\ \A i \in Pending : log[i].dev # d
        /\ devState' = [devState EXCEPT ![d] = "absent"]
    BY <1>6, QuietKeepsPending DEF IdlFree, IdlFreeDev, driverVars
  <2>2. \A i \in Pending : devState'[log[i].dev] = devState[log[i].dev]
    BY <1>1, <2>1, RequestFacts
  <2>. QED BY <2>1, <2>2 DEF Follows, AsksDp
<1>7. CASE UNCHANGED <<log, devQ, cur, idlVars, idiDevData, idiDpData, devUid>>
  <2>1. Pending' = Pending /\ log' = log /\ UNCHANGED devState
    BY <1>7, QuietKeepsPending DEF idlVars
  <2>. QED BY <1>2, <2>1
<1>. QED BY <1>3, <1>4, <1>5, <1>6, <1>7, StepKinds DEF StepOf

(* The driver thread follows a datapoint's pointer into the block of the   *)
(* device the datapoint belongs to, still allocated, for every request     *)
(* that was made before the library asked for the device's deletion:       *)
(* whatever callocs fail, however long the queue and the retries are, and  *)
(* whatever the library asks for after the deletion.                       *)
THEOREM NothingDangles == DriverSpec => []NoDanglingUse
<1>1. DriverInit => Bare /\ Follows
  BY DEF DriverInit, StoreInit, NoDps, Bare, Follows, Pending
<1>2. RequestInv /\ Bare /\ Follows /\ [DriverNext]_vars => Bare' /\ Follows'
  BY BareStep, FollowsStep
<1>3. RequestInv /\ Bare /\ Follows /\ DpSlotsOwn => NoDanglingUse
  <2>. SUFFICES ASSUME RequestInv, Bare, Follows, DpSlotsOwn,
                       cur # 0, Req.dp # NULL, ~Req.late, idiDpData[Req.dev][Req.dp] # NULL
                PROVE  Bound(Req.dev, Req.dp) /\ idiDevData[Req.dev] \in alloc
    BY DEF NoDanglingUse
  <2>. DEFINE d == Req.dev
              p == Req.dp
  <2>1. /\ cur \in Pending /\ cur \in Ids /\ d \in Devs /\ Req.action \in DpActions /\ p \in Dps
    BY CurrentIsOldest, PendingAccepted, CurrentRequest
       DEF RequestInv, Requests, QueueInv, Req
  <2>2. d \in Handled /\ devState[d] # "dead"
    BY <2>1 DEF Bare, Follows, AsksDp, Req
  <2>3. Bound(d, p)
    BY <2>1, <2>2 DEF DpSlotsOwn
  <2>4. idiDpData[d][p] \in Sto \X Regs /\ NULL \notin Sto
    BY <2>1, NULLAssumption DEF RequestInv, StoreInv, StoreTypeOK
  <2>5. idiDevData[d] \in Sto /\ d \in Stored
    BY <2>1, <2>3, <2>4 DEF Bound, Stored
  <2>. QED BY <2>3, <2>5 DEF RequestInv, StoreInv, StorageOwned
<1>. QED BY <1>1, <1>2, <1>3, RequestInvariant, DriverStorage, PTL DEF DriverSpec

-----------------------------------------------------------------------------
(* The devices the library has not seen fail or go.                        *)
Present(d) == devState[d] \notin {"absent", "dead"}

(* A block has its device's UID unless a replacement waits, a replacement  *)
(* brings a UID, and no two devices that are present have the same.        *)
Uniquely ==
  /\ \A d \in Stored : devUid[idiDevData[d]] = unid[d] \/ ReplacePending(d)
  /\ \A i \in Pending : log[i].action = "IdiaReplace" => unid[log[i].dev] # NULL
  /\ \A d, e \in Devs : (Present(d) /\ Present(e) /\ unid[d] = unid[e] /\ unid[d] # NULL) => d = e

LEMMA UniquelyStep ==
  ASSUME ~ENABLE_SIMULATION
  PROVE  RequestInv /\ Bare /\ Uniquely /\ [DriverNext]_vars => Uniquely'
<1>. SUFFICES ASSUME RequestInv, Bare, Uniquely, [DriverNext]_vars  PROVE Uniquely'
  OBVIOUS
<1>. USE DEF RequestInv
<1>1. /\ \A i \in Ids : log[i].dev \in Devs
      /\ Pending \subseteq Ids /\ Ids \subseteq Nat /\ Len(log) \in Nat
  BY RequestFacts
<1>2. /\ idiDevData \in [Devs -> Sto \cup {NULL}] /\ devUid \in [Sto -> Uids \cup {NULL}]
      /\ unid \in [Devs -> Uids \cup {NULL}] /\ devState \in [Devs -> DevStates]
      /\ NULL \notin Sto /\ NULL \notin Uids /\ alloc \subseteq Sto
      /\ Stored \subseteq Devs
      /\ \A d \in Stored : idiDevData[d] \in Sto /\ idiDevData[d] \in alloc /\ Present(d)
      /\ \A d, e \in Stored : idiDevData[d] = idiDevData[e] => d = e
  BY NULLAssumption, UidsAssumption
     DEF StoreInv, StoreTypeOK, StorageOwned, Stored, Present
(* A step that changes no UID and whose device has its UID, or no storage, *)
(* afterwards.                                                             *)
<1>3. ASSUME NEW d \in Devs, log' = log, unid' = unid, Pending' \subseteq Pending,
             \A e \in Devs \ {d} : devState'[e] = devState[e],
             Present(d)' => Present(d),
             \A e \in Stored' \ {d} :
               e \in Stored /\ devUid'[idiDevData'[e]] = devUid[idiDevData[e]],
             \A i \in Pending \ Pending' : log[i].dev = d,
             d \in Stored' => \/ devUid'[idiDevData'[d]] = unid[d]
                              \/ /\ d \in Stored /\ devUid'[idiDevData'[d]] = devUid[idiDevData[d]]
                                 /\ \A i \in Pending \ Pending' : log[i].action # "IdiaReplace"
      PROVE  Uniquely'
  <2>1. ASSUME NEW e \in Stored'  PROVE (devUid[idiDevData[e]] = unid[e] \/ ReplacePending(e))'
    <3>1. CASE e # d
      BY <1>3, <2>1, <3>1 DEF Uniquely, ReplacePending
    <3>2. CASE e = d
      BY <1>3, <2>1, <3>2 DEF Uniquely, ReplacePending
    <3>. QED BY <3>1, <3>2
  <2>2. \A i \in Pending' : log'[i].action = "IdiaReplace" => unid'[log'[i].dev] # NULL
    BY <1>3 DEF Uniquely
  <2>3. \A e \in Devs : Present(e)' => Present(e)
    BY <1>3 DEF Present
  <2>. QED BY <1>3, <2>1, <2>2, <2>3 DEF Uniquely
<1>4. ASSUME Pending' = Pending, log' = log, UNCHANGED <<idlVars, idiDevData, devUid>>
      PROVE  Uniquely'
  BY <1>4 DEF Uniquely, ReplacePending, Present, Stored, idlVars
<1>5. ASSUME NEW d \in Devs, NEW req, Called(d, req)  PROVE Uniquely'
  <2>. DEFINE new == Len(log) + 1
  <2>1. /\ Pending' = Pending \cup {new} /\ new \notin Ids
        /\ \A i \in Ids : log'[i] = log[i]
        /\ log'[new] = req /\ req.dev = d
    BY <1>5, SendAddsPending DEF Called
  <2>. HIDE DEF new
  <2>2. \A i \in Pending : log'[i] = log[i] /\ log[i].dev \in Devs
    BY <1>1, <2>1
  <2>3. idiDevData' = idiDevData /\ devUid' = devUid /\ Stored' = Stored
    BY <1>5 DEF Called, CallOf, IdlNewDev, IdlNewUnid, IdlStartDelete, allVars, storeVars,
                blockVars, Stored
  <2>4. /\ \A e \in Devs \ {d} : devState'[e] = devState[e] /\ unid'[e] = unid[e]
        /\ \/ unid'[d] = unid[d] /\ (Present(d)' => Present(d)) /\ req.action # "IdiaReplace"
           \/ /\ unid'[d] = NULL \/ \A e \in Devs : Present(e) => unid[e] # unid'[d]
              /\ \/ req.action = "IdiaReplace" /\ unid'[d] # NULL
                 \/ req.action = "IdiaCreate" /\ ~Present(d) /\ devState[d] = "absent"
    BY <1>2, <1>5
       DEF Called, CallOf, IdlNewDev, IdlNewUnid, IdlStartDelete, UnidFree, allVars, idlVars,
           Present, DpActions
  <2>5. \A e \in Devs : ReplacePending(e) => ReplacePending(e)'
    BY <2>1, <2>2 DEF ReplacePending
  <2>6. req.action = "IdiaReplace" => ReplacePending(d)'
    BY <2>1 DEF ReplacePending
  <2>7. \A e \in Stored' : (devUid[idiDevData[e]] = unid[e] \/ ReplacePending(e))'
    BY <1>2, <2>3, <2>4, <2>5, <2>6 DEF Uniquely
  <2>8. \A i \in Pending' : log'[i].action = "IdiaReplace" => unid'[log'[i].dev] # NULL
    BY <2>1, <2>2, <2>4 DEF Uniquely, Requests
  <2>9. \A e \in Devs \ {d} : Present(e)' => Present(e)
    BY <2>4 DEF Present
  <2>10. \A e, f \in Devs : (Present(e) /\ Present(f) /\ unid[e] = unid[f] /\ unid[e] # NULL)'
                            => e = f
    BY <2>4, <2>9 DEF Uniquely
  <2>. QED BY <2>7, <2>8, <2>10 DEF Uniquely
<1>6. ASSUME NEW d \in Devs, NEW err, Served(d, err)  PROVE Uniquely'
  <2>1. /\ log' = log /\ Pending' \subseteq Pending /\ Pending \ Pending' \subseteq {cur}
        /\ cur \in Pending /\ d = Req.dev /\ Req = log[cur]
    BY <1>6, RoundEndsPending, CurrentIsOldest DEF Served, Req
  <2>2. CASE UNCHANGED allVars /\ (Req.action = "IdiaReplace" => d \notin Handled)
    <3>1. Req.action = "IdiaReplace" => d \notin Stored
      BY <2>2 DEF Bare, Stored
    <3>2. UNCHANGED <<idiDevData, devUid, devState, unid>> /\ Stored' = Stored
      BY <2>2 DEF allVars, storeVars, blockVars, idlVars, Stored
    <3>. QED BY <1>3, <2>1, <3>1, <3>2 DEF Present
  <2>3. CASE Req.action = "IdiaCreate" /\ Create(d, err)
    <3>1. /\ unid' = unid /\ \A e \in Devs \ {d} : devState'[e] = devState[e]
          /\ Present(d)' => Present(d)
      BY <1>2, <2>3 DEF Create, IdlCreateResult, Present
    <3>2. CASE UNCHANGED <<idiDevData, devUid>>
      <4>1. Stored' = Stored
        BY <3>2 DEF Stored
      <4>. QED BY <1>3, <2>1, <2>3, <3>1, <3>2, <4>1
    <3>3. ASSUME NEW s \in Sto \ alloc, idiDevData[d] = NULL, SetStored(d, s)  PROVE Uniquely'
      <4>1. /\ idiDevData' = [idiDevData EXCEPT ![d] = s]
            /\ devUid' = [devUid EXCEPT ![s] = unid[d]]
        BY <3>3 DEF SetStored
      <4>2. /\ devUid'[idiDevData'[d]] = unid[d]
            /\ \A e \in Stored' \ {d} :
                 e \in Stored /\ devUid'[idiDevData'[e]] = devUid[idiDevData[e]]
        BY <1>2, <4>1 DEF Stored
      <4>. QED BY <1>3, <2>1, <2>3, <3>1, <4>2
    <3>4. \/ UNCHANGED <<idiDevData, devUid>>
          \/ idiDevData[d] = NULL /\ \E s \in Sto \ alloc : SetStored(d, s)
      BY <2>3 DEF Create, DevSetCustomIdiDevData, SetRefused, SetNoMemory, storeVars, blockVars
    <3>. QED BY <3>2, <3>3, <3>4
  <2>4. CASE Req.action = "IdiaDelete" /\ Delete(d, err)
    <3>1. /\ unid' = unid /\ \A e \in Devs \ {d} : devState'[e] = devState[e]
          /\ Present(d)' => Present(d)
      BY <1>2, <2>4 DEF Delete, IdlDeleteResult, Present
    <3>2. CASE UNCHANGED <<idiDevData, devUid>>
      <4>1. Stored' = Stored
        BY <3>2 DEF Stored
      <4>. QED BY <1>3, <2>1, <2>4, <3>1, <3>2, <4>1
    <3>3. CASE idiDevData[d] \in Sto /\ RemoveFound(d, idiDevData[d])
      <4>1. /\ idiDevData' = [idiDevData EXCEPT ![d] = NULL]
            /\ devUid' = [devUid EXCEPT ![idiDevData[d]] = NULL]
        BY <3>3 DEF RemoveFound
      <4>2. d \in Stored /\ d \notin Stored'
        BY <1>2, <3>3, <4>1 DEF Stored
      <4>3. \A e \in Stored' \ {d} :
              e \in Stored /\ devUid'[idiDevData'[e]] = devUid[idiDevData[e]]
        BY <1>2, <4>1, <4>2 DEF Stored
      <4>. QED BY <1>3, <2>1, <2>4, <3>1, <4>2, <4>3
    <3>4. \/ UNCHANGED <<idiDevData, devUid>>
          \/ idiDevData[d] \in Walked /\ RemoveFound(d, idiDevData[d])
      BY <2>4 DEF Delete, DevRemoveCustomIdiDevData, storeVars, blockVars
    <3>5. Walked \subseteq Sto
      BY DEF Walked
    <3>. QED BY <3>2, <3>3, <3>4, <3>5
  <2>5. CASE Req.action = "IdiaReplace" /\ d \in Handled /\ Replace(d)
    <3>1. UNCHANGED <<unid, devState, idiDevData>> /\ DevReplaceUnid(d) /\ Stored' = Stored
      BY <2>5 DEF Replace, DevReplaceUnid, idlVars, Stored
    <3>2. unid[d] # NULL
      BY <2>1, <2>5 DEF Uniquely
    <3>3. d \in Stored => devUid'[idiDevData'[d]] = unid[d]
      BY <1>2, <3>1, <3>2 DEF DevReplaceUnid, Stored
    <3>4. \A e \in Stored \ {d} : devUid'[idiDevData'[e]] = devUid[idiDevData[e]]
      BY <1>2, <3>1 DEF DevReplaceUnid, Stored
    <3>. QED BY <1>3, <2>1, <3>1, <3>3, <3>4 DEF Present
  <2>6. CASE /\ Req.action \in DpActions
             /\ \/ \E p \in Dps : DpCreate(d, p, err)
                \/ \E p \in Dps, v \in Vals : DpWrite(d, p, v)
    <3>1. UNCHANGED <<unid, devState, idiDevData, devUid>> /\ Stored' = Stored
      BY <2>6 DEF DpCreate, IdiDpProcessCustomColum, BindDp, DpWrite, StoreWrite, SetReg,
                  storeVars, blockVars, idlVars, Stored
    <3>2. Req.action # "IdiaReplace"
      BY <2>6 DEF DpActions
    <3>. QED BY <1>3, <2>1, <3>1, <3>2 DEF Present
  <2>. QED BY <1>6, <2>2, <2>3, <2>4, <2>5, <2>6 DEF Served, DpActions
<1>7. CASE Receive
  BY <1>4, <1>7, ReceiveKeepsPending DEF Receive, allVars, storeVars, blockVars
<1>8. ASSUME NEW d \in Devs, IdlFree(d)  PROVE Uniquely'
  <2>1. /\ Pending' = Pending /\ log' = log
        /\ \A i \in Pending : log[i].dev # d
        /\ UNCHANGED <<idiDevData, devUid>> /\ devState[d] = "dead"
        /\ devState' = [devState EXCEPT ![d] = "absent"]
        /\ unid' = [unid EXCEPT ![d] = NULL]
    BY <1>8, QuietKeepsPending DEF IdlFree, IdlFreeDev, driverVars, blockVars
  <2>2. d \notin Stored /\ Stored' = Stored
    BY <1>2, <2>1 DEF Present, Stored
  <2>3. \A i \in Pending : unid'[log[i].dev] = unid[log[i].dev]
    BY <1>1, <1>2, <2>1
  <2>4. \A e \in Devs : Present(e)' => Present(e) /\ unid'[e] = unid[e]
    BY <1>2, <2>1 DEF Present
  <2>5. \A e \in Stored : unid'[e] = unid[e] /\ (ReplacePending(e)' <=> ReplacePending(e))
    BY <1>2, <2>1, <2>2 DEF ReplacePending
  <2>. QED BY <2>1, <2>2, <2>3, <2>4, <2>5 DEF Uniquely
<1>9. CASE UNCHANGED <<log, devQ, cur, idlVars, idiDevData, idiDpData, devUid>>
  BY <1>4, <1>9, QuietKeepsPending
<1>. QED BY <1>5, <1>6, <1>7, <1>8, <1>9, StepKinds DEF StepOf

(* When every request is served in its first round, as in the shipped      *)
(* build, a block's UID is that of its device, and two blocks have the     *)
(* same only while a request to replace one of the devices waits: an ev    *)
(* message finds the device it is for.                                     *)
THEOREM EventsComeRight ==
  ASSUME ~ENABLE_SIMULATION
  PROVE  DriverSpec => []EventsFindDevice
<1>1. DriverInit => Bare /\ Uniquely
  BY DEF DriverInit, StoreInit, NoDps, Bare, Uniquely, Stored, Pending, Present
<1>2. RequestInv /\ Bare /\ Uniquely /\ [DriverNext]_vars => Bare' /\ Uniquely'
  BY BareStep, UniquelyStep
<1>3. RequestInv /\ Uniquely => EventsFindDevice
  <2>1. RequestInv => \A d \in Stored : d \in Devs /\ Present(d)
    BY DEF RequestInv, StoreInv, StorageOwned, Stored, Present
  <2>. QED BY <2>1 DEF Uniquely, EventsFindDevice
<1>. QED BY <1>1, <1>2, <1>3, RequestInvariant, PTL DEF DriverSpec

-----------------------------------------------------------------------------
(* The part of DriverTypeOK that is not in StoreInv or QueueInv.           *)
TypeInv ==
  /\ queueOpen \in BOOLEAN
  /\ elapsed \in 0..(IF cur = 0 THEN 0 ELSE Req.timeout)
  /\ liveArgs \subseteq Ids
  /\ answered \in Seq(AnswerType)

LEMMA TypeStep == RequestInv /\ TypeInv /\ [DriverNext]_vars => TypeInv'
<1>. SUFFICES ASSUME RequestInv, TypeInv, [DriverNext]_vars  PROVE TypeInv'
  OBVIOUS
<1>1. /\ log \in Seq(RequestType) /\ devQ \in Seq(Ids) /\ cur \in Ids \cup {0}
      /\ Ids \subseteq Nat \ {0} /\ DriverInv
      /\ \A i \in Ids : log[i].timeout \in Nat
  <2>1. \A i \in Ids : log[i].timeout \in {IDI_ACTION_NORMAL_TIMEOUT, IDI_ACTION_LONG_TIMEOUT}
    <3>1. \A i \in Ids : log[i] \in RequestType
      BY DEF RequestInv, QueueInv, QueueTypeOK, Ids
    <3>. QED BY <3>1 DEF RequestType
  <2>. QED BY <2>1, TimeoutAssumption DEF RequestInv, QueueInv, QueueTypeOK, Ids, DriverInv
<1>2. ASSUME NEW d \in Devs, NEW req, Called(d, req)  PROVE TypeInv'
  <2>1. Send(req) /\ UNCHANGED <<queueOpen, cur, elapsed, answered>>
    BY <1>2 DEF Called, Send
  <2>2. /\ Ids \subseteq Ids' /\ Len(log) + 1 \in Ids' /\ \A i \in Ids : log'[i] = log[i]
    BY <2>1, SendAddsPending DEF RequestInv
  <2>3. AnswerType \subseteq AnswerType'
    BY <2>2 DEF AnswerType
  <2>4. answered' \in Seq(AnswerType')
    BY <2>1, <2>3 DEF TypeInv
  <2>5. liveArgs' \subseteq Ids'
    BY <2>1, <2>2 DEF TypeInv, Send
  <2>6. (elapsed \in 0..(IF cur = 0 THEN 0 ELSE Req.timeout))'
    BY <1>1, <2>1, <2>2 DEF TypeInv, Req
  <2>. QED BY <2>1, <2>4, <2>5, <2>6 DEF TypeInv
<1>3. CASE Receive
  <2>1. cur' \in Ids /\ log' = log
    BY <1>1, <1>3 DEF Receive
  <2>. QED BY <1>1, <1>3, <2>1 DEF Receive, TypeInv, Req, Ids, AnswerType
<1>4. CASE Tick
  <2>1. elapsed \in Nat /\ Req.timeout \in Nat /\ cur # 0
    BY <1>1, <1>4 DEF Tick, TypeInv, Req
  <2>. QED BY <1>4, <2>1 DEF Tick, TypeInv, Req, Ids, AnswerType
<1>5. CASE StartQueue
  BY <1>5 DEF StartQueue, TypeInv, Req, Ids, AnswerType
<1>6. ASSUME NEW err, Round(err), cur # 0, answered' \in Seq(AnswerType),
             liveArgs' \subseteq liveArgs
      PROVE  TypeInv'
  <2>1. /\ UNCHANGED <<queueOpen, devQ, log>>
        /\ (cur' = cur /\ elapsed' = elapsed) \/ (cur' = 0 /\ elapsed' = 0)
    BY <1>6 DEF Round
  <2>. QED BY <1>1, <1>6, <2>1 DEF TypeInv, Req, Ids, AnswerType
<1>7. CASE IdiGenericResultFsm
  <2>1. cur # 0
    BY <1>7 DEF IdiGenericResultFsm
  <2>2. ASSUME NEW err \in Results, NEW val \in Int, NEW mult \in Nat,
               Answer(err, val, mult), Round(err)
        PROVE  TypeInv'
    <3>1. err \in Nat
      BY PublishAssumption DEF Results, IErr_Success, IErr_Failure
    <3>2. [id |-> cur, err |-> err, val |-> val, mult |-> mult] \in AnswerType
      BY <1>1, <2>1, <3>1 DEF AnswerType
    <3>3. answered' \in Seq(AnswerType) /\ liveArgs' \subseteq liveArgs
      BY <2>2, <3>2 DEF Answer, TypeInv
    <3>. QED BY <1>6, <2>1, <2>2, <3>3
  <2>3. ASSUME NEW err, NoResult(err)  PROVE TypeInv'
    BY <1>6, <2>1, <2>3 DEF NoResult, TypeInv
  <2>. QED BY <1>1, <1>7, <2>2, <2>3, FsmOutcome
<1>8. CASE UNCHANGED driverVars
  BY <1>8 DEF driverVars, TypeInv, Req, Ids, AnswerType
<1>9. CASE IdlCall
  BY <1>2, <1>8, <1>9, CallKinds DEF SendFails, vars
<1>. QED BY <1>3, <1>4, <1>5, <1>7, <1>8, <1>9
         DEF DriverNext, Worker, IdlFree, EtiEvent, vars

(* Every variable keeps its type, every request that is looked at is one   *)
(* that was accepted, and no request is worked on past its timeout, for    *)
(* any queue length, timeouts and build.                                   *)
THEOREM DriverTypes == DriverSpec => []DriverTypeOK
<1>1. DriverInit => TypeInv
  <2>. SUFFICES ASSUME DriverInit  PROVE TypeInv
    OBVIOUS
  <2>1. queueOpen = FALSE /\ cur = 0 /\ elapsed = 0 /\ liveArgs = {} /\ answered = <<>>
    BY DEF DriverInit
  <2>2. elapsed \in 0..(IF cur = 0 THEN 0 ELSE Req.timeout)
    BY <2>1
  <2>3. queueOpen \in BOOLEAN /\ liveArgs \subseteq Ids
    BY <2>1
  <2>4. answered \in Seq(AnswerType)
    BY <2>1
  <2>. QED BY <2>2, <2>3, <2>4 DEF TypeInv
<1>2. RequestInv /\ TypeInv => DriverTypeOK
  BY DEF RequestInv, StoreInv, QueueInv, QueueTypeOK, TypeInv, DriverTypeOK
<1>. QED BY <1>1, <1>2, TypeStep, RequestInvariant, PTL DEF DriverSpec

(* What the driver thread does when it lets go of a request.               *)
GivenUp ==
  cur # 0 /\ cur' = 0 =>
    \/ ~HasResult(cur) \/ cur \in AnsweredIds'
    \/ ENABLE_SIMULATION /\ elapsed = Req.timeout

LEMMA GivenUpStep == DriverTypeOK /\ DriverInv /\ [DriverNext]_vars => [GivenUp]_vars
<1>. SUFFICES ASSUME DriverTypeOK, DriverInv, [DriverNext]_vars, cur # 0, cur' = 0
              PROVE  \/ ~HasResult(cur) \/ cur \in AnsweredIds'
                     \/ ENABLE_SIMULATION /\ elapsed = Req.timeout
  BY DEF GivenUp
<1>1. CASE UNCHANGED <<log, devQ, answered, cur, liveArgs>> \/ Receive
           \/ \E req \in RequestType : Send(req)
  BY <1>1 DEF Receive, Send
<1>2. ASSUME NEW err, NEW val, NEW mult, Answer(err, val, mult) PROVE cur \in AnsweredIds'
  <2>. DEFINE a == [id |-> cur, err |-> err, val |-> val, mult |-> mult]
  <2>1. answered \in Seq(AnswerType) /\ answered' = Append(answered, a) /\ a.id = cur
    BY <1>2 DEF DriverTypeOK, Answer
  <2>. HIDE DEF a
  <2>2. Len(answered) + 1 \in DOMAIN answered' /\ answered'[Len(answered) + 1] = a
    BY <2>1
  <2>. QED BY <2>1, <2>2 DEF AnsweredIds
<1>3. CASE ENABLE_SIMULATION /\ NoResult(IErr_IdiBusy)
  <2>1. elapsed >= Req.timeout
    BY <1>3 DEF NoResult, Round
  <2>2. elapsed \in 0..Req.timeout
    BY DEF DriverTypeOK
  <2>3. Req.timeout \in Nat
    <3>1. cur \in Ids /\ log[cur] \in RequestType
      BY DEF DriverTypeOK, Ids
    <3>. QED BY <3>1, TimeoutAssumption DEF Req, RequestType
  <2>. QED BY <1>3, <2>1, <2>2, <2>3
<1>4. CASE Req.action = "IdiaDpCreate"
  BY <1>4 DEF HasResult, Req
<1>. QED BY <1>1, <1>2, <1>3, <1>4, EveryStepIsQueueStep DEF QueueStep

(* The driver thread drops a request that has a result unanswered only in  *)
(* a build that simulates a busy device, when it was busy all of its time: *)
(* for any timeouts, queue length, return codes and failures.              *)
THEOREM BusyGetsItsTime == DriverSpec => GivenUpOnlyInTime
<1>1. DriverTypeOK /\ DriverInv /\ [DriverNext]_vars => [GivenUp]_vars
  BY GivenUpStep
<1>. QED BY <1>1, DriverTypes, DriverInvariant, PTL DEF DriverSpec, GivenUpOnlyInTime, GivenUp

-----------------------------------------------------------------------------
(* The driver as a RequestService: what is to be answered, and what is.    *)
Todo == {i \in Pending : HasResult(i)}
Done == [k \in DOMAIN answered |-> answered[k].id]

LEMMA NoResultOfAnnouncement ==
  ASSUME IdiGenericResultFsm, Req.action = "IdiaDpCreate"
  PROVE  answered' = answered
BY DEF IdiGenericResultFsm, FsmCreate, FsmDelete, FsmReplace, FsmProvision, FsmWrite, FsmRead,
       FsmDpCreate, StillBusy, NoResult

(* A step accepts a request that has a result, answers the oldest, or does *)
(* neither.                                                                *)
LEMMA ServiceStep ==
  ASSUME IErr_IdiBusy \notin PublishRc, ~ENABLE_SIMULATION,
         DriverInv, OrderInv, QueueInv, [DriverNext]_vars
  PROVE  [Service!Next]_<<Todo, Done>>
<1>1. /\ Pending \subseteq Ids /\ Ids = 1..Len(log) /\ Len(log) \in Nat
      /\ answered \in Seq(AnswerType) /\ \A k \in DOMAIN answered : answered[k].id \in Ids
  <2>1. answered \in Seq(AnswerType) /\ \A k \in DOMAIN answered : answered[k].id \in Ids
    <3>1. answered \in Seq(AnswerType)
      BY DEF OrderInv
    <3>2. \A k \in DOMAIN answered : answered[k] \in AnswerType
      BY <3>1
    <3>. QED BY <3>1, <3>2 DEF AnswerType
  <2>. QED BY <2>1, PendingAccepted
<1>2. CASE UNCHANGED <<answered, log>> /\ Pending' = Pending
  BY <1>2 DEF Todo, Done, HasResult
<1>3. ASSUME NEW req, Send(req) PROVE [Service!Next]_<<Todo, Done>>
  <2>0. PICK n \in Nat : n = Len(log) + 1
    BY <1>1
  <2>1. /\ Pending' = Pending \cup {n} /\ \A i \in Ids : i < n /\ log'[i] = log[i]
        /\ answered' = answered /\ n \in 1..MaxReqs
    BY <1>1, <1>3, <2>0, SendAddsPending, BoundAssumption DEF Send
  <2>2. Todo' = IF HasResult(n)' THEN Todo \cup {n} ELSE Todo
    BY <1>1, <2>1 DEF Todo, HasResult
  <2>3. Done' = Done /\ \A k \in DOMAIN Done : Done[k] < n
    BY <1>1, <2>1 DEF Done
  <2>4. \A j \in Todo : j < n
    BY <1>1, <2>1 DEF Todo
  <2>. HIDE DEF Todo, Done
  <2>5. Todo' = Todo \cup {n} => Service!Accept(n)
    BY <2>3, <2>4 DEF Service!Accept, Todo, Done
  <2>. QED BY <2>1, <2>2, <2>3, <2>5 DEF Service!Next
<1>4. ASSUME NEW err, NEW val, NEW mult, cur # 0, HasResult(cur), Answer(err, val, mult),
             Round(err), err # IErr_IdiBusy
      PROVE  Service!Next
  <2>. DEFINE a == [id |-> cur, err |-> err, val |-> val, mult |-> mult]
  <2>1. log' = log /\ Pending' = Pending \ {cur} /\ cur \in Pending /\ \A i \in Pending : cur <= i
    BY <1>4, RoundEndsPending, CurrentIsOldest
  <2>2. PICK c \in 1..MaxReqs : c = cur
    BY <1>4, CurrentRequest DEF DriverInv
  <2>3. answered' = Append(answered, a) /\ a.id = cur
    BY <1>4 DEF Answer
  <2>. HIDE DEF a
  <2>4. Done' = Append(Done, c)
    BY <1>1, <2>2, <2>3 DEF Done
  <2>5. Todo' = Todo \ {c} /\ c \in Todo /\ \A j \in Todo : c <= j
    BY <1>4, <2>1, <2>2 DEF Todo, HasResult
  <2>6. Service!Answer(c)
    BY <2>4, <2>5 DEF Service!Answer, Todo, Done
  <2>. QED BY <2>6 DEF Service!Next
<1>5. CASE IdiGenericResultFsm
  <2>1. cur # 0
    BY <1>5 DEF IdiGenericResultFsm
  <2>2. ASSUME NEW err \in Results, NEW val, NEW mult, Answer(err, val, mult), Round(err)
        PROVE  Service!Next
    <3>1. err # IErr_IdiBusy
      BY DEF Results, IErr_Success, IErr_Failure, IErr_IdiBusy
    <3>2. answered' # answered
      BY <1>1, <2>2 DEF Answer
    <3>3. HasResult(cur)
      BY <1>5, <3>2, NoResultOfAnnouncement DEF HasResult, Req
    <3>. QED BY <1>4, <2>1, <2>2, <3>1, <3>3
  <2>3. ASSUME NEW err \in {IErr_Success, IErr_Failure}, Req.action = "IdiaDpCreate",
               NoResult(err)
        PROVE  Todo' = Todo /\ Done' = Done
    <3>1. log' = log /\ Pending' = Pending \ {cur} /\ answered' = answered
      BY <2>1, <2>3, RoundEndsPending
         DEF NoResult, IErr_Success, IErr_Failure, IErr_IdiBusy
    <3>2. ~HasResult(cur)
      BY <2>3 DEF HasResult, Req
    <3>. QED BY <3>1, <3>2 DEF Todo, Done, HasResult
  <2>. QED BY <1>5, <2>2, <2>3, FsmOutcome
<1>6. CASE StartQueue \/ Tick \/ UNCHANGED vars \/ SendFails
  BY <1>2, <1>6, QuietKeepsPending DEF StartQueue, Tick, SendFails, vars, driverVars
<1>7. CASE Receive
  BY <1>2, <1>7, ReceiveKeepsPending DEF Receive
<1>8. CASE IdlCall
  BY <1>3, <1>6, <1>8, CallKinds DEF Called
<1>9. ASSUME UNCHANGED driverVars PROVE [Service!Next]_<<Todo, Done>>
  BY <1>2, <1>9, QuietKeepsPending DEF driverVars
<1>. QED BY <1>5, <1>6, <1>7, <1>8, <1>9 DEF DriverNext, Worker, IdlFree, EtiEvent

(* In the shipped build the driver implements RequestService, but for the  *)
(* promise to answer in the end: of the requests that have a result it     *)
(* answers none twice, none out of order and none it did not accept.       *)
THEOREM DriverServes ==
  ASSUME IErr_IdiBusy \notin PublishRc, ~ENABLE_SIMULATION
  PROVE  DriverSpec => Service!Safety
<1>1. DriverInit => OrderInv /\ Service!Init
  <2>. SUFFICES ASSUME DriverInit PROVE OrderInv /\ Service!Init
    OBVIOUS
  <2>1. OrderInv
    BY DEF DriverInit, OrderInv, AnswersInOrder
  <2>2. Pending = {} /\ answered = <<>>
    BY DEF DriverInit, Pending
  <2>. QED BY <2>1, <2>2 DEF Service!Init
<1>2. DriverInv /\ OrderInv /\ [DriverNext]_vars => OrderInv'
  BY EveryStepIsQueueStep, OrderStep
<1>3. DriverInv /\ OrderInv /\ RequestInv /\ [DriverNext]_vars => [Service!Next]_Service!vars
  BY ServiceStep DEF Service!vars, Todo, Done, RequestInv
<1>. QED BY <1>1, <1>2, <1>3, DriverInvariant, RequestInvariant, PTL
         DEF DriverSpec, Service!Safety
=============================================================================
