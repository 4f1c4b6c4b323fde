------------------------------ MODULE IdiDriver ------------------------------
(***************************************************************************)
(* The driver between the IDL library and its storage (src/example.cpp).   *)
(* The library's threads call the On...Cb routines; each puts one action   *)
(* control block into the message queue idiDevActQueue and returns.  The   *)
(* driver thread (ProcAsynThrdFunc) takes them out one at a time, runs     *)
(* IdiGenericResultFsm on each until it is no longer busy or its time is   *)
(* up, and tells the library the result.                                   *)
(*                                                                         *)
(* A request is named by its place in log, the sequence of the requests    *)
(* the driver has accepted.  A write writes its own number, so that a read *)
(* tells which write it sees.                                              *)
(***************************************************************************)
EXTENDS DevStore, Sequences

CONSTANTS
  MQ_HARD_LIM,                 \* capacity of the queue
  IDI_ACTION_NORMAL_TIMEOUT,   \* in ticks of the clock the driver looks at
  IDI_ACTION_LONG_TIMEOUT,
  ENABLE_SIMULATION,           \* whether the build simulates a busy device
  PublishRc,                   \* what mosquitto_publish can return
  StringDps,                   \* datapoints of type ascii or structured native
  EvPayloads,                  \* what ETI events set registers to; NULL clears
  PollWhileDeleting,           \* the library reads and writes a device it deletes
  Calls,                       \* bound: the callbacks the library uses in a run
  MaxReqs,                     \* bound: requests in a run
  MaxAnswers                   \* bound: answers in a run

(* A payload that is no value for a double datapoint. *)
Junk == -2

ASSUME TimeoutAssumption == /\ IDI_ACTION_NORMAL_TIMEOUT \in Nat
                            /\ IDI_ACTION_LONG_TIMEOUT \in Nat
ASSUME BoundAssumption   == /\ MQ_HARD_LIM \in Nat \ {0}
                            /\ MaxReqs \in Nat /\ MaxAnswers \in Nat
ASSUME WriteAssumption   == 1..MaxReqs \subseteq Vals /\ EvPayloads \subseteq Vals
ASSUME PublishAssumption == PublishRc \subseteq Nat
ASSUME FlagAssumption    == ENABLE_SIMULATION \in BOOLEAN /\ PollWhileDeleting \in BOOLEAN

VARIABLES
  queueOpen,           \* IdiCreateQueue has set gDrvInfo.idiDevActQueue
  devQ,                \* idiDevActQueue
  cur,                 \* the request the driver thread works on, 0 when none
  elapsed,             \* time(NULL) - timeStart
  liveArgs,            \* the requests whose aCB.args is still allocated
  log,                 \* the requests accepted so far
  answered             \* the results the library has been given

driverVars == <<queueOpen, devQ, cur, elapsed, liveArgs, log, answered>>
vars       == <<allVars, driverVars>>

Ids == DOMAIN log
Req == log[cur]

DriverInit ==
  /\ StoreInit
  /\ queueOpen = FALSE
  /\ devQ      = <<>>
  /\ cur       = 0
  /\ elapsed   = 0
  /\ liveArgs  = {}
  /\ log       = <<>>
  /\ answered  = <<>>

-----------------------------------------------------------------------------
SendNewestFirst(req) ==   \* a slip: a higher mq priority for newer requests
  /\ queueOpen /\ req.action \in Calls
  /\ Len(log) < MaxReqs /\ Len(devQ) < MQ_HARD_LIM
  /\ log'      = Append(log, req)
  /\ devQ'     = <<Len(log) + 1>> \o devQ
  /\ liveArgs' = IF req.args THEN liveArgs \cup {Len(log) + 1} ELSE liveArgs
  /\ UNCHANGED <<queueOpen, cur, elapsed, answered>>

(* A callback's mq_send.  Before the driver thread has opened the queue it *)
(* fails and the callback returns IdiBusy, with nothing done.  While the   *)
(* queue is full the callback waits.                                       *)
Send(req) ==
  /\ queueOpen /\ req.action \in Calls
  /\ Len(log) < MaxReqs /\ Len(devQ) < MQ_HARD_LIM
  /\ log'      = Append(log, req)
  /\ devQ'     = Append(devQ, Len(log) + 1)
  /\ liveArgs' = IF req.args THEN liveArgs \cup {Len(log) + 1} ELSE liveArgs
  /\ UNCHANGED <<queueOpen, cur, elapsed, answered>>

SendFails == ~queueOpen /\ UNCHANGED vars

(* late is no field of the code's block: it remembers that the library     *)
(* made the request after it had asked for the device's deletion.          *)
ACB(a, d, p, t, args) ==
  [action |-> a, dev |-> d, dp |-> p, timeout |-> t, args |-> args,
   late |-> devState[d] \in {"deleting", "dead"}]

(* When the library makes each call.  It knows a device's datapoints as    *)
(* soon as it has the device, and polls them once it is created.           *)
Pollable(d) == \/ devState[d] = "created"
               \/ PollWhileDeleting /\ devState[d] \in {"deleting", "dead"}

OnDevCreateCb(d, u) ==
  \/ IdlNewDev(d, u) /\ Send(ACB("IdiaCreate", d, NULL, IDI_ACTION_LONG_TIMEOUT, TRUE))
  \/ devState[d] = "absent" /\ SendFails

OnDpCreateCb(d, p) ==
  /\ devState[d] \in {"creating", "created"}
  /\ Send(ACB("IdiaDpCreate", d, p, IDI_ACTION_NORMAL_TIMEOUT, FALSE))
  /\ UNCHANGED allVars

OnDpReadCb(d, p) ==
  /\ Pollable(d) /\ p \notin StringDps
  /\ Send(ACB("IdiaDpread", d, p, IDI_ACTION_NORMAL_TIMEOUT, FALSE))
  /\ UNCHANGED allVars

OnDpReadExCb(d, p) ==
  /\ Pollable(d) /\ p \in StringDps
  /\ Send(ACB("IdiaDpread", d, p, IDI_ACTION_NORMAL_TIMEOUT, FALSE))
  /\ UNCHANGED allVars

OnDpWriteCb(d, p) ==
  /\ Pollable(d) /\ p \notin StringDps
  /\ Send(ACB("IdiaDpwrite", d, p, IDI_ACTION_NORMAL_TIMEOUT, FALSE))
  /\ UNCHANGED allVars

OnDpWriteExCb(d, p) ==
  /\ Pollable(d) /\ p \in StringDps
  /\ Send(ACB("IdiaDpwrite", d, p, IDI_ACTION_NORMAL_TIMEOUT, FALSE))
  /\ UNCHANGED allVars

OnDevProvisionCb(d) ==
  /\ devState[d] = "created"
  /\ Send(ACB("IdiaProvision", d, NULL, IDI_ACTION_LONG_TIMEOUT, TRUE))
  /\ UNCHANGED allVars

OnDevDeprovisionCb(d) ==
  /\ devState[d] = "created"
  /\ Send(ACB("IdiaDeprovision", d, NULL, IDI_ACTION_LONG_TIMEOUT, FALSE))
  /\ UNCHANGED allVars

OnDevReplaceCb(d, u) ==
  /\ IdlNewUnid(d, u)
  /\ Send(ACB("IdiaReplace", d, NULL, IDI_ACTION_LONG_TIMEOUT, TRUE))

OnDevDeleteCb(d) ==
  /\ IdlStartDelete(d)
  /\ Send(ACB("IdiaDelete", d, NULL, IDI_ACTION_LONG_TIMEOUT, FALSE))

-----------------------------------------------------------------------------
(* ProcAsynThrdFunc: it opens the queue, then takes one request after      *)
(* another and keeps it until IdiBlockWhileBusy returns.                   *)
StartQueue ==
  /\ ~queueOpen
  /\ queueOpen' = TRUE
  /\ UNCHANGED <<allVars, devQ, cur, elapsed, liveArgs, log, answered>>

Receive ==
  /\ cur = 0 /\ devQ # <<>>
  /\ cur'     = Head(devQ)
  /\ devQ'    = Tail(devQ)
  /\ elapsed' = 0
  /\ UNCHANGED <<allVars, queueOpen, liveArgs, log, answered>>

(* The seconds pass, as far as the driver thread can tell them apart. *)
Tick ==
  /\ cur # 0 /\ elapsed < Req.timeout
  /\ elapsed' = elapsed + 1
  /\ UNCHANGED <<allVars, queueOpen, devQ, cur, liveArgs, log, answered>>

(* IdiBlockWhileBusy, after one round of the state machine has returned    *)
(* err: done unless busy; given up when busy for too long.                 *)
RoundRetriesErrors(err) ==   \* a slip: only a success ends the rounds
  /\ cur' = IF err = IErr_Success \/ elapsed >= Req.timeout THEN 0 ELSE cur
  /\ elapsed' = IF cur' = 0 THEN 0 ELSE elapsed
  /\ UNCHANGED <<queueOpen, devQ, log>>

RoundGivesUpEarly(err) ==    \* a slip: it gives up a tick before its time
  /\ cur' = IF err # IErr_IdiBusy \/ elapsed + 1 >= Req.timeout THEN 0 ELSE cur
  /\ elapsed' = IF cur' = 0 THEN 0 ELSE elapsed
  /\ UNCHANGED <<queueOpen, devQ, log>>

Round(err) ==
  /\ cur' = IF err # IErr_IdiBusy \/ elapsed >= Req.timeout THEN 0 ELSE cur
  /\ elapsed' = IF cur' = 0 THEN 0 ELSE elapsed
  /\ UNCHANGED <<queueOpen, devQ, log>>

AnswerKeepsArgs(err, val, mult) ==   \* a slip: IdiFree(aCB.args) is left out
  /\ Len(answered) < MaxAnswers
  /\ answered' = Append(answered, [id |-> cur, err |-> err, val |-> val, mult |-> mult])
  /\ UNCHANGED liveArgs

(* Idl...Result; the request's args are freed just before. *)
Answer(err, val, mult) ==
  /\ Len(answered) < MaxAnswers
  /\ answered' = Append(answered, [id |-> cur, err |-> err, val |-> val, mult |-> mult])
  /\ liveArgs' = liveArgs \ {cur}

Result(err) == Answer(err, 0, 1) /\ Round(err)

NoResult(err) == UNCHANGED <<answered, liveArgs>> /\ Round(err)

(* IsFsmProcessingDone returns false; the shipped build never does. *)
StillBusyAfterWork ==   \* a slip: the check comes after a creation's work is done
  /\ ENABLE_SIMULATION
  /\ NoResult(IErr_IdiBusy)
  /\ IF Req.action = "IdiaCreate"
     THEN DevSetCustomIdiDevData(Req.dev, IErr_Success) /\ UNCHANGED idlVars
     ELSE UNCHANGED allVars

StillBusy ==
  /\ ENABLE_SIMULATION
  /\ Req.action \in {"IdiaCreate", "IdiaDelete", "IdiaReplace"} => Req.dev \in Handled
  /\ NoResult(IErr_IdiBusy)
  /\ UNCHANGED allVars

-----------------------------------------------------------------------------
(* The cases of IdiGenericResultFsm. *)
FsmDpCreate ==
  /\ Req.action = "IdiaDpCreate"
  /\ \E err \in {IErr_Success, IErr_Failure} :
       DpCreate(Req.dev, Req.dp, err) /\ NoResult(err)

FsmCreate ==
  /\ Req.action = "IdiaCreate"
  /\ \E err \in {IErr_Success, IErr_Failure} : Create(Req.dev, err) /\ Result(err)

FsmDelete ==
  /\ Req.action = "IdiaDelete"
  /\ \E err \in {IErr_Success, IErr_Failure} : Delete(Req.dev, err) /\ Result(err)

(* What DevReplaceUnid returns is not looked at. *)
FsmReplace ==
  /\ Req.action = "IdiaReplace"
  /\ IF Req.dev \in Handled THEN Replace(Req.dev) /\ Result(IErr_Success)
     ELSE UNCHANGED allVars /\ Result(IErr_Failure)

(* The write is stored, then published; the library gets mosquitto's       *)
(* return code as the result.                                              *)
FsmWrite ==
  /\ Req.action = "IdiaDpwrite"
  /\ \/ /\ idiDpData[Req.dev][Req.dp] # NULL
        /\ DpWrite(Req.dev, Req.dp, cur)
        /\ \E rc \in PublishRc : Result(rc)
     \/ /\ idiDpData[Req.dev][Req.dp] = NULL
        /\ UNCHANGED allVars
        /\ Result(IErr_Failure)

(* What SetDpValueFromDpLocalStorage and the multiplier make of a value. *)
ReadResult(d, p) ==
  CASE DpVal(d, p) = NULL -> [err |-> IErr_Failure, val |-> 0, mult |-> 1]
    [] p \in StringDps /\ DpVal(d, p) # NULL ->
         [err |-> IErr_Success, val |-> DpVal(d, p), mult |-> 1]
    [] p \notin StringDps /\ DpVal(d, p) = Junk ->
         [err |-> IErr_Failure, val |-> 0, mult |-> 1]
    [] OTHER -> [err |-> IErr_Success, val |-> DpVal(d, p),
                 mult |-> IF DpMult(d, p) = 0 THEN 1 ELSE DpMult(d, p)]

FsmRead ==
  /\ Req.action = "IdiaDpread"
  /\ UNCHANGED allVars
  /\ \/ /\ Usable(Req.dev, Req.dp)
        /\ LET res == ReadResult(Req.dev, Req.dp)
           IN Answer(res.err, res.val, res.mult) /\ Round(res.err)
     \/ /\ idiDpData[Req.dev][Req.dp] = NULL
        /\ Result(IErr_Failure)

(* Provision and deprovision change nothing in the driver. *)
FsmProvision ==
  /\ Req.action \in {"IdiaProvision", "IdiaDeprovision"}
  /\ UNCHANGED allVars
  /\ Result(IErr_Success)

IdiGenericResultFsm ==
  /\ cur # 0
  /\ \/ StillBusy
     \/ FsmDpCreate \/ FsmCreate \/ FsmDelete \/ FsmReplace
     \/ FsmWrite \/ FsmRead \/ FsmProvision

-----------------------------------------------------------------------------
(* An ETI event, handled on the ETI thread. *)
EtiEvent(s, r, v) == DevEvent(s, r, v) /\ UNCHANGED driverVars

(* The library frees an IdlDev when no request about it is pending. *)
Pending == {devQ[k] : k \in DOMAIN devQ} \cup ({cur} \ {0})

IdlFree(d) ==
  /\ \A i \in Pending : log[i].dev # d
  /\ IdlFreeDev(d)
  /\ UNCHANGED driverVars

Worker == StartQueue \/ Receive \/ IdiGenericResultFsm

IdlCall ==
  \E d \in Devs :
    \/ \E u \in Uids \cup {NULL} : OnDevCreateCb(d, u)
    \/ \E u \in Uids : OnDevReplaceCb(d, u)
    \/ OnDevProvisionCb(d) \/ OnDevDeprovisionCb(d) \/ OnDevDeleteCb(d)
    \/ \E p \in Dps : \/ OnDpCreateCb(d, p)
                      \/ OnDpReadCb(d, p)  \/ OnDpReadExCb(d, p)
                      \/ OnDpWriteCb(d, p) \/ OnDpWriteExCb(d, p)

DriverNext ==
  \/ Worker
  \/ Tick
  \/ IdlCall
  \/ \E d \in Devs : IdlFree(d)
  \/ \E s \in Sto, r \in Regs, v \in EvPayloads : EtiEvent(s, r, v)

(* The driver thread is never stopped: it goes on whenever it can.  Nothing *)
(* is assumed of the library, of the clock or of the ETI thread.           *)
DriverSpec == DriverInit /\ [][DriverNext]_vars /\ WF_vars(Worker)

-----------------------------------------------------------------------------
HasResult(i) == log[i].action # "IdiaDpCreate"
AnsweredIds  == {answered[k].id : k \in DOMAIN answered}

Actions == {"IdiaCreate", "IdiaDelete", "IdiaReplace", "IdiaProvision", "IdiaDeprovision",
            "IdiaDpCreate", "IdiaDpread", "IdiaDpwrite"}
DpActions == {"IdiaDpCreate", "IdiaDpread", "IdiaDpwrite"}

RequestType ==
  [action  : Actions,
   dev     : Devs,
   dp      : Dps \cup {NULL},
   timeout : {IDI_ACTION_NORMAL_TIMEOUT, IDI_ACTION_LONG_TIMEOUT},
   args    : BOOLEAN,
   late    : BOOLEAN]

AnswerType == [id : Ids, err : Nat, val : Int, mult : Nat]

(* The variables hold values of their types; the driver thread never looks *)
(* at a request that was not accepted, nor at a datapoint of one that has  *)
(* none, and the clock of a request stops at its timeout.                  *)
DriverTypeOK ==
  /\ StoreTypeOK
  /\ queueOpen \in BOOLEAN
  /\ log \in Seq(RequestType) /\ Len(log) <= MaxReqs
  /\ \A i \in Ids : log[i].action \in DpActions => log[i].dp \in Dps
  /\ devQ \in Seq(Ids)
  /\ cur \in Ids \cup {0}
  /\ elapsed \in 0..(IF cur = 0 THEN 0 ELSE Req.timeout)
  /\ liveArgs \subseteq Ids
  /\ answered \in Seq(AnswerType)

(***************************************************************************)
(* The library gets the results in the order it made the requests, and no  *)
(* request's result twice: each callback's request index is answered once. *)
(***************************************************************************)
AnswersInOrder ==
  \A k, l \in DOMAIN answered : k < l => answered[k].id < answered[l].id

(* No request the driver accepted gets the library more than one result.   *)
AtMostOneAnswer ==
  \A k, l \in DOMAIN answered : answered[k].id = answered[l].id => k = l

(* A request the driver has accepted, and has a result for, is waiting, is *)
(* being worked on, or has been answered.                                  *)
NoRequestLost ==
  \A i \in Ids : HasResult(i) => i \in Pending \cup AnsweredIds

(* The driver thread lets go of a request only when it has answered it or  *)
(* it has no result, or, in a build that can be busy, when it was busy all *)
(* of its time: a busy device gets every retry it is promised.             *)
GivenUpOnlyInTime ==
  [][cur # 0 /\ cur' = 0 =>
       \/ ~HasResult(cur) \/ cur \in AnsweredIds'
       \/ ENABLE_SIMULATION /\ elapsed = Req.timeout]_vars

(* The requests waiting, and the answers given, for the refinement. *)
Service == INSTANCE RequestService WITH
  Id   <- 1..MaxReqs,
  todo <- {i \in Pending : HasResult(i)},
  done <- [k \in DOMAIN answered |-> answered[k].id]

(* The driver implements RequestService: every accepted request is answered *)
(* exactly once, in order, and in the end.                                 *)
ServiceSpec == Service!Spec

(* The driver's steps are steps of DevStore: the queue, the retries and    *)
(* the refused calls do nothing to the storage that DevStore does not.     *)
StoreRefined == StoreSpec

(***************************************************************************)
(* The datapoint pointer a request is about to follow leads to the block   *)
(* of its own device, still allocated, also when callocs fail and when the *)
(* library polls a device it deletes: of the requests made in time.  One   *)
(* made late may find the block freed.                                     *)
(***************************************************************************)
NoDanglingUse ==
  (cur # 0 /\ Req.dp # NULL /\ ~Req.late) =>
     \/ idiDpData[Req.dev][Req.dp] = NULL
     \/ Bound(Req.dev, Req.dp) /\ idiDevData[Req.dev] \in alloc

(* What example.cpp's message "Unitialized idiDpData - device possibly has *)
(* been deleted!" relies on: a read that is served after the deletion of   *)
(* its device finds the datapoint's pointer reset.                         *)
DeletedReadFindsNothing ==
  (cur # 0 /\ Req.action = "IdiaDpread" /\ devState[Req.dev] = "dead") =>
     idiDpData[Req.dev][Req.dp] = NULL

-----------------------------------------------------------------------------
(* For the properties of reads: the device was deleted after request j and *)
(* before request i; write j was stored; j writes the register i reads.    *)
DeletedBetween(j, i) ==
  \E k \in DOMAIN answered :
    /\ answered[k].id \in j..i
    /\ answered[k].err = IErr_Success
    /\ log[answered[k].id].action = "IdiaDelete"
    /\ log[answered[k].id].dev = log[i].dev

WrittenBefore(i) ==
  {j \in AnsweredIds \cap 1..(i - 1) :
     /\ log[j].action = "IdiaDpwrite"
     /\ log[j].dev = log[i].dev /\ Address[log[j].dp] = Address[log[i].dp]
     /\ \E k \in DOMAIN answered : answered[k].id = j /\ answered[k].err # IErr_Failure
     /\ ~DeletedBetween(j, i)}

LastWrite(i) ==
  IF WrittenBefore(i) = {} THEN DefVal
  ELSE CHOOSE j \in WrittenBefore(i) : \A l \in WrittenBefore(i) : l <= j

(***************************************************************************)
(* Without ETI events, a read returns what the last write accepted before  *)
(* it stored in the datapoint's register, whichever of the datapoints that *)
(* share the register was written, or the default when the device has not  *)
(* been written since it was created; times the multiplier of the XIF row  *)
(* of the datapoint read.                                                  *)
(***************************************************************************)
ReadReturnsLastWrite ==
  \A k \in DOMAIN answered :
    LET a == answered[k] r == log[answered[k].id] IN
    (r.action = "IdiaDpread" /\ a.err = IErr_Success) =>
      /\ a.val  = LastWrite(a.id)
      /\ a.mult = IF r.dp \in StringDps \/ TestMultiplier[r.dp] \in {NULL, BAD, 0}
                  THEN 1 ELSE TestMultiplier[r.dp]

(***************************************************************************)
(* Without ETI events, once the library has announced a datapoint of a     *)
(* device it may be read: the read succeeds unless the device was deleted  *)
(* in between.  The announcement is queued behind the creation, so it      *)
(* finds the storage.                                                      *)
(***************************************************************************)
AnnouncedIsReadable ==
  \A k \in DOMAIN answered :
    LET a == answered[k] r == log[answered[k].id] IN
    ( /\ r.action = "IdiaDpread" /\ Address[r.dp] < DevDpCounts
      /\ \E j \in 1..(a.id - 1) : /\ log[j].action = "IdiaDpCreate"
                                  /\ log[j].dev = r.dev /\ log[j].dp = r.dp
                                  /\ ~DeletedBetween(j, a.id) )
      => a.err = IErr_Success

(* A request to replace the device is accepted and not served yet. *)
ReplacePending(d) ==
  \E i \in Pending : log[i].action = "IdiaReplace" /\ log[i].dev = d

(***************************************************************************)
(* An ev message finds the right device: a block has the UID of its device *)
(* and no two in the list have the same, unless a request to replace a     *)
(* device is still to be served.  Which UID it brings is read when it is   *)
(* served: two replacements that overlap may bring a UID before the block  *)
(* that has it still has given it up.                                      *)
(***************************************************************************)
EventsFindDevice ==
  /\ \A d \in Stored : devUid[idiDevData[d]] = unid[d] \/ ReplacePending(d)
  /\ \A d, e \in Stored :
       (d # e /\ devUid[idiDevData[d]] = devUid[idiDevData[e]] /\ devUid[idiDevData[d]] # NULL)
         => ReplacePending(d) \/ ReplacePending(e)

(* The args of a request are freed when it is answered, not before.        *)
ArgsHeld == liveArgs = {i \in Pending : log[i].args}
=============================================================================
