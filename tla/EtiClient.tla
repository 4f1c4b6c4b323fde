------------------------------ MODULE EtiClient ------------------------------
(***************************************************************************)
(* The life of the ETI client: systemd starts the process, EtiInit         *)
(* (src/eti.cpp) opens the queue, connects and subscribes step by step and *)
(* gives up on the first failure it sees; then ev messages go from the     *)
(* broker through mosquitto's network thread (EtiMessageCb) and            *)
(* etiDevActQueue to the ETI thread (vTaskEtiDevAct).  The process may     *)
(* crash at any step and the connection may drop at any time; the POSIX    *)
(* queue outlives the process, with the pointers that are in it.           *)
(*                                                                         *)
(* A message is known by its number.  What the ETI thread does with one,   *)
(* the list walk and the register, is in EtiWalk and RegAccess.            *)
(***************************************************************************)
EXTENDS Integers, Sequences, FiniteSets, Functions

CONSTANTS
  MQ_HARD_LIM,         \* capacity of etiDevActQueue
  StartLimitBurst,     \* starts systemd allows within its interval
  MaxMsgs,             \* bound: messages published in a run
  SubscribeFails,      \* mosquitto_subscribe may fail
  MaxFaults,           \* bound: crashes, dropped connections and failing calls
  NONE

ASSUME QueueAssumption == MQ_HARD_LIM \in Nat \ {0}
ASSUME LimitAssumption == StartLimitBurst \in Nat \ {0}
ASSUME BoundAssumption == MaxMsgs \in Nat /\ MaxFaults \in Nat
ASSUME FlagAssumption  == SubscribeFails \in BOOLEAN

Categories == {"rd", "wr", "ev"}
Messages   == [id : 1 .. MaxMsgs, cat : Categories, body : BOOLEAN]
InHands    == [id : 1 .. MaxMsgs, body : BOOLEAN, done : BOOLEAN]

ASSUME NoneAssumption == NONE \notin Messages \cup InHands

VARIABLES
  main,                \* how far the process has come
  starts,              \* starts in systemd's present interval
  thread,              \* whether there is a thread vTaskEtiDevAct
  mqueue,              \* the POSIX queue of that name, NONE when there is none
  connected,           \* whether the client has a session with the broker
  subscribed,          \* the categories that session is subscribed to
  wire,                \* messages on their way from the broker to the client
  net,                 \* the message in EtiMessageCb's hands, or NONE
  eti,                 \* the message in vTaskEtiDevAct's hands, or NONE
  heap,                \* the copies of topics and payloads that are allocated
  published,           \* messages published so far
  handled,             \* numbers of the messages handled, in their order
  lost,                \* numbers of those a fault has lost on the way
  faults               \* faults so far

procVars   == <<main, starts, thread>>
brokerVars == <<connected, subscribed, wire>>
queueVars  == <<mqueue, net, eti, heap>>
history    == <<published, handled, lost, faults>>
vars       == <<procVars, brokerVars, queueVars, history>>

Steps      == {"queue", "unlink", "mosq", "connect", "subscribe", "thread", "loop"}
Alive      == main \in Steps \cup {"running"}

Init ==
  /\ main = "down" /\ starts = 0 /\ thread = FALSE
  /\ mqueue = NONE /\ net = NONE /\ eti = NONE /\ heap = {}
  /\ connected = FALSE /\ subscribed = {} /\ wire = <<>>
  /\ published = 0 /\ handled = <<>> /\ lost = {} /\ faults = 0

-----------------------------------------------------------------------------
(* A copy of the topic and, unless the message is empty, of the payload.   *)
Bufs(m)    == {m.id} \X (IF m.body THEN {"topic", "payload"} ELSE {"topic"})

IsEvent(m) == m.cat = "ev"
Opened     == main \in {"mosq", "connect", "subscribe", "thread", "loop", "running"}

(* The ev messages on their way.                                           *)
IdsIn(s)    == {s[k].id : k \in 1 .. Len(s)}
EventsIn(s) == {s[k].id : k \in {j \in 1 .. Len(s) : IsEvent(s[j])}}

OnTheWay ==
  (IF eti = NONE \/ eti.done THEN {} ELSE {eti.id})
    \cup (IF Opened THEN IdsIn(mqueue) ELSE {})
    \cup (IF net = NONE THEN {} ELSE {net.id})
    \cup EventsIn(wire)

Fault == faults < MaxFaults /\ faults' = faults + 1

(* The process is gone: its memory, its connection and with it the clean   *)
(* session.  The queue stays.                                              *)
ProcessEnds(queue) ==
  /\ main' = "down" /\ thread' = FALSE /\ mqueue' = queue
  /\ connected' = FALSE /\ subscribed' = {} /\ wire' = <<>>
  /\ net' = NONE /\ eti' = NONE /\ heap' = {}
  /\ lost' = lost \cup OnTheWay
  /\ UNCHANGED <<starts, published, handled>>

Crash == Alive /\ Fault /\ ProcessEnds(mqueue)

(* A call of EtiInit fails: it tidies up and exits. *)
InitFails(step) == main = step /\ Fault /\ ProcessEnds(mqueue)

(* systemd: Restart=always, but not more often than StartLimitBurst. *)
Start ==
  /\ main = "down" /\ starts < StartLimitBurst
  /\ main' = "queue" /\ starts' = starts + 1
  /\ UNCHANGED <<thread, brokerVars, queueVars, history>>

StartLimitHit ==
  /\ main = "down" /\ starts = StartLimitBurst
  /\ main' = "failed"
  /\ UNCHANGED <<starts, thread, brokerVars, queueVars, history>>

(* The process has run for longer than StartLimitIntervalSec. *)
IntervalPasses ==
  /\ main = "running" /\ starts > 0
  /\ starts' = 0
  /\ UNCHANGED <<main, thread, brokerVars, queueVars, history>>

Advance(step, next) ==
  /\ main = step /\ main' = next
  /\ UNCHANGED <<starts, net, eti, heap, published, handled, lost>>
GoesOn(step, next) == Advance(step, next) /\ UNCHANGED <<thread, faults>>

(* IdiCreateQueue: O_EXCL makes mq_open fail on a queue that is left over; *)
(* then that one is deleted and a new one made.                            *)
CreateQueue ==
  \/ mqueue = NONE /\ mqueue' = <<>> /\ GoesOn("queue", "mosq") /\ UNCHANGED brokerVars
  \/ mqueue # NONE /\ GoesOn("queue", "unlink") /\ UNCHANGED <<mqueue, brokerVars>>
  \/ InitFails("queue")

CreateAgainKeepsOld ==   \* a slip: the queue that is left over is opened as it is
  GoesOn("unlink", "mosq") /\ UNCHANGED <<mqueue, brokerVars>>

CreateAgainGivesUp ==    \* a slip: a queue that is left over is an error
  main = "unlink" /\ ProcessEnds(mqueue) /\ UNCHANGED faults

CreateAgain ==
  \/ GoesOn("unlink", "mosq") /\ mqueue' = <<>> /\ UNCHANGED brokerVars
  \/ main = "unlink" /\ Fault /\ ProcessEnds(NONE)

NewClient ==
  \/ GoesOn("mosq", "connect") /\ UNCHANGED <<mqueue, brokerVars>>
  \/ InitFails("mosq")

(* mosquitto_connect, with a clean session. *)
Connect ==
  \/ /\ GoesOn("connect", "subscribe")
     /\ connected' = TRUE /\ subscribed' = {} /\ wire' = <<>>
     /\ UNCHANGED mqueue
  \/ InitFails("connect")

SubToAllCategories ==   \* a slip, or what its comment says: ev, rd and wr
  /\ GoesOn("subscribe", "thread")
  /\ subscribed' = IF connected THEN Categories ELSE subscribed
  /\ UNCHANGED <<mqueue, connected, wire>>

(* What mosquitto_subscribe returns is not looked at: when it fails the    *)
(* client goes on, connected and without a subscription.                   *)
SubToDeviceCatTopic ==
  /\ Advance("subscribe", "thread") /\ UNCHANGED <<thread, mqueue, connected, wire>>
  /\ \/ /\ subscribed' = (IF connected THEN {"ev"} ELSE subscribed)
        /\ UNCHANGED faults
     \/ SubscribeFails /\ Fault /\ UNCHANGED subscribed

(* When it is pthread_create that fails, CreateThread returns what         *)
(* pthread_attr_init has returned: SUCCESS.                                *)
CreateThread ==
  \/ /\ Advance("thread", "loop") /\ UNCHANGED <<mqueue, brokerVars>>
     /\ \/ thread' = TRUE /\ UNCHANGED faults
        \/ Fault /\ UNCHANGED thread
  \/ InitFails("thread")

LoopStart ==
  \/ GoesOn("loop", "running") /\ UNCHANGED <<mqueue, brokerVars>>
  \/ InitFails("loop")

EtiInit == CreateQueue \/ CreateAgain \/ NewClient \/ Connect \/ SubToDeviceCatTopic
             \/ CreateThread \/ LoopStart

-----------------------------------------------------------------------------
(* The broker and mosquitto's network thread.                              *)

(* Anyone publishes; the broker passes on what the session subscribes to.  *)
Publish(cat) ==
  /\ published < MaxMsgs
  /\ published' = published + 1
  /\ \E body \in BOOLEAN :
       wire' = IF connected /\ cat \in subscribed
               THEN Append(wire, [id |-> published + 1, cat |-> cat, body |-> body])
               ELSE wire
  /\ UNCHANGED <<procVars, connected, subscribed, queueVars, handled, lost, faults>>

(* The session ends with the connection: it is a clean one. *)
Drop ==
  /\ connected /\ Fault
  /\ connected' = FALSE /\ subscribed' = {} /\ wire' = <<>>
  /\ lost' = lost \cup EventsIn(wire)
  /\ UNCHANGED <<procVars, queueVars, published, handled>>

(* mosquitto connects again by itself; it does not subscribe again. *)
Reconnect ==
  /\ main = "running" /\ net = NONE
  /\ ~connected /\ connected' = TRUE
  /\ UNCHANGED <<procVars, subscribed, wire, queueVars, history>>

(* EtiMessageCb up to mq_send.  The topic is copied first: a message of    *)
(* another category leaves its copy behind.                                *)
TakeMessage ==
  /\ main = "running" /\ net = NONE
  /\ wire # <<>> /\ wire' = Tail(wire)
  /\ LET m == Head(wire)
     IN /\ net'  = IF IsEvent(m) THEN m ELSE NONE
        /\ heap' = heap \cup (IF IsEvent(m) THEN Bufs(m) ELSE {<<m.id, "topic">>})
  /\ UNCHANGED <<procVars, connected, subscribed, mqueue, eti, history>>

CallocFails ==
  /\ main = "running" /\ net = NONE /\ Fault
  /\ wire # <<>> /\ IsEvent(Head(wire)) /\ Head(wire).body
  /\ wire' = Tail(wire) /\ lost' = lost \cup {Head(wire).id}
  /\ UNCHANGED <<procVars, connected, subscribed, queueVars, published, handled>>

SendMessageOverLimit ==   \* a slip: as if the queue had no limit
  /\ net # NONE /\ net' = NONE
  /\ mqueue' = Append(mqueue, net)
  /\ UNCHANGED <<procVars, brokerVars, eti, heap, history>>

SendMessageDropsWhenFull ==   \* a slip: as if the queue did not block
  /\ net # NONE /\ net' = NONE
  /\ mqueue' = IF Len(mqueue) < MQ_HARD_LIM THEN Append(mqueue, net) ELSE mqueue
  /\ UNCHANGED <<procVars, brokerVars, eti, heap, history>>

(* mq_send blocks the network thread while the queue is full. *)
SendMessage ==
  /\ net # NONE /\ Len(mqueue) < MQ_HARD_LIM
  /\ mqueue' = Append(mqueue, net) /\ net' = NONE
  /\ UNCHANGED <<procVars, brokerVars, eti, heap, history>>

(* It fails, interrupted by a signal: topic and payload are not freed. *)
SendFails ==
  /\ net # NONE /\ net' = NONE /\ Fault
  /\ lost' = lost \cup {net.id}
  /\ UNCHANGED <<procVars, brokerVars, mqueue, eti, heap, published, handled>>

NetworkThread == Reconnect \/ TakeMessage \/ CallocFails \/ SendMessage \/ SendFails

-----------------------------------------------------------------------------
(* vTaskEtiDevAct.                                                         *)

ReceiveNewest ==   \* a slip: the queue is a stack
  /\ thread /\ eti = NONE /\ mqueue # <<>>
  /\ eti' = [id |-> mqueue[Len(mqueue)].id, body |-> mqueue[Len(mqueue)].body, done |-> FALSE]
  /\ mqueue' = SubSeq(mqueue, 1, Len(mqueue) - 1)
  /\ UNCHANGED <<procVars, brokerVars, net, heap, history>>

(* mq_receive blocks while the queue is empty. *)
Receive ==
  /\ thread /\ eti = NONE /\ mqueue # <<>>
  /\ eti' = [id |-> Head(mqueue).id, body |-> Head(mqueue).body, done |-> FALSE]
  /\ mqueue' = Tail(mqueue)
  /\ UNCHANGED <<procVars, brokerVars, net, heap, history>>

HandleEvent ==
  /\ eti # NONE /\ ~eti.done
  /\ eti' = [eti EXCEPT !.done = TRUE]
  /\ handled' = Append(handled, eti.id)
  /\ UNCHANGED <<procVars, brokerVars, mqueue, net, heap, published, lost, faults>>

FreeMessage ==
  /\ eti # NONE /\ eti.done /\ eti' = NONE
  /\ heap' = heap \ Bufs(eti)
  /\ UNCHANGED <<procVars, brokerVars, mqueue, net, history>>

EtiThread == Receive \/ HandleEvent \/ FreeMessage

Next ==
  \/ Start \/ StartLimitHit \/ IntervalPasses \/ EtiInit \/ Crash
  \/ Drop \/ NetworkThread \/ EtiThread
  \/ \E cat \in Categories : Publish(cat)

(* systemd starts the process again, the threads of the process run, and   *)
(* mosquitto connects again; nobody has to publish and no interval to pass. *)
Fairness ==
  /\ WF_vars(Start) /\ WF_vars(StartLimitHit) /\ WF_vars(EtiInit)
  /\ WF_vars(NetworkThread) /\ WF_vars(EtiThread)

Spec == Init /\ [][Next]_vars /\ Fairness

-----------------------------------------------------------------------------
(* Types, and the sizes the queue and the counters keep to. *)
ClientTypeOK ==
  /\ main \in Steps \cup {"down", "running", "failed"}
  /\ starts \in 0 .. StartLimitBurst /\ thread \in BOOLEAN
  /\ mqueue # NONE => mqueue \in Seq(Messages) /\ Len(mqueue) <= MQ_HARD_LIM
  /\ connected \in BOOLEAN /\ subscribed \subseteq Categories /\ wire \in Seq(Messages)
  /\ net \in Messages \cup {NONE}
  /\ eti \in InHands \cup {NONE}
  /\ heap \subseteq (1 .. MaxMsgs) \X {"topic", "payload"}
  /\ published \in 0 .. MaxMsgs /\ handled \in Seq(1 .. MaxMsgs)
  /\ lost \subseteq 1 .. MaxMsgs /\ faults \in 0 .. MaxFaults

(* What the ETI thread has in its hands was allocated by this process and  *)
(* not by one before it: the queue outlives a crash, the memory its        *)
(* messages point to does not (src/eti.cpp mq_receive, src/example.cpp     *)
(* IdiCreateQueue).                                                        *)
NoStaleMessage == eti # NONE => Bufs(eti) \subseteq heap

(* Every copy of a topic or payload belongs to one message on its way,     *)
(* but for those of a message mq_send failed on.                           *)
HeapOwned ==
  heap \subseteq
    (UNION {Bufs(m) : m \in ({net, eti} \cup (IF Opened THEN Range(mqueue) ELSE {})) \ {NONE}})
      \cup (lost \X {"topic", "payload"})

(* No ev message the broker passed on disappears but by a fault: while the *)
(* queue is full the network thread waits instead of dropping.             *)
NoEventVanishes ==
  [][/\ OnTheWay \subseteq OnTheWay' \cup Range(handled') \cup lost'
     /\ lost' # lost => faults' > faults]_vars

Feed == INSTANCE EventFeed WITH Id <- 1 .. MaxMsgs, pending <- OnTheWay

(* The client implements the feed: at most once, in order, and in the end  *)
(* unless it runs on without the thread that handles them.                 *)
Unattended == main = "running" /\ ~thread
FeedSpec == Feed!Safety /\ (<>[]~Unattended => Feed!Liveness)

(* The driver comes up and stays up, whatever a crash left behind, unless  *)
(* systemd has seen it fail StartLimitBurst times.                         *)
ComesUp == <>[](main = "running") \/ <>(main = "failed" /\ faults >= StartLimitBurst)

(* An ev message published while the client runs and is connected gets to  *)
(* the client.                                                             *)
EventsAreHeard ==
  [][Publish("ev") /\ main = "running" /\ connected => OnTheWay' # OnTheWay]_vars
=============================================================================
