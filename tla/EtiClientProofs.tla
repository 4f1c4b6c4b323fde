--------------------------- MODULE EtiClientProofs ---------------------------
(***************************************************************************)
(* The ETI client's messages, for every capacity of the queue and any      *)
(* number of messages, starts and faults: no pointer of an earlier process *)
(* is followed, every copy has an owner, no ev message disappears without  *)
(* a fault, and they are handled in their order.                           *)
(*                                                                         *)
(* The invariant has three parts: how far the process must be for its      *)
(* threads to hold messages (TypeInv), that the messages further on are    *)
(* the older ones, so that no two are the same (Order), and which copies   *)
(* they own (Memory).  Steps that do nothing to the messages are taken     *)
(* together (StepKinds).                                                   *)
(***************************************************************************)
EXTENDS EtiClient, SequenceTheorems, TLAPS

(* What the first and the other elements of a queue are, and what one that *)
(* is added makes of it.                                                   *)
LEMMA NoMessages == <<>> \in Seq(Messages) /\ Len(<<>>) = 0 /\ <<>> \in Seq(1 .. MaxMsgs)
<1>1. <<>> \in Seq(Messages) /\ <<>> \in Seq(1 .. MaxMsgs)
  BY EmptySeq
<1>2. Len(<<>>) = 0
  OBVIOUS
<1>. QED BY <1>1, <1>2

LEMMA QueueElements ==
  ASSUME NEW s \in Seq(Messages)
  PROVE  Len(s) \in Nat /\ \A k \in 1 .. Len(s) : s[k] \in Messages
BY ElementOfSeq, LenProperties

LEMMA QueueHead ==
  ASSUME NEW s \in Seq(Messages), s # <<>>
  PROVE  /\ Head(s) = s[1] /\ Head(s) \in Messages /\ Len(s) > 0
         /\ Tail(s) \in Seq(Messages) /\ Len(Tail(s)) = Len(s) - 1
         /\ \A k \in 1 .. Len(s) - 1 : Tail(s)[k] = s[k + 1]
<1>1. Head(s) = s[1] /\ Len(s) > 0
  BY LenProperties, EmptySeq
<1>. QED BY <1>1, HeadTailProperties

LEMMA QueueAppend ==
  ASSUME NEW s \in Seq(Messages), NEW e \in Messages
  PROVE  /\ Append(s, e) \in Seq(Messages) /\ Len(Append(s, e)) = Len(s) + 1
         /\ \A k \in 1 .. Len(s) : Append(s, e)[k] = s[k]
         /\ Append(s, e)[Len(s) + 1] = e
BY AppendProperties

LEMMA HandledAppend ==
  ASSUME NEW s \in Seq(1 .. MaxMsgs), NEW e \in 1 .. MaxMsgs
  PROVE  Append(s, e) \in Seq(1 .. MaxMsgs) /\ e \in Range(Append(s, e))
<1>1. /\ Append(s, e) \in Seq(1 .. MaxMsgs) /\ Len(Append(s, e)) = Len(s) + 1
      /\ Append(s, e)[Len(s) + 1] = e
  BY AppendProperties
<1>2. Len(s) + 1 \in DOMAIN Append(s, e)
  BY <1>1, LenProperties
<1>. QED BY <1>1, <1>2 DEF Range

-----------------------------------------------------------------------------
(* The steps of EtiInit and systemd, by what they do to the messages.      *)

Ends == Fault /\ (ProcessEnds(mqueue) \/ ProcessEnds(NONE))

Boots ==
  /\ ~Opened /\ ~Opened'
  /\ main' \in Steps \cup {"failed"}
  /\ \/ UNCHANGED starts
     \/ starts < StartLimitBurst /\ starts' = starts + 1
  /\ UNCHANGED <<thread, brokerVars, queueVars, history>>

Opens ==
  /\ ~Opened /\ main' = "mosq" /\ mqueue' = <<>>
  /\ UNCHANGED <<starts, thread, brokerVars, net, eti, heap, history>>

SetsUp ==
  /\ Opened /\ main # "running"
  /\ main' \in Steps \cup {"running"} /\ Opened'
  /\ thread' # thread => main' = "loop" /\ thread' = TRUE
  /\ thread => main' = "running"
  /\ \/ UNCHANGED <<connected, subscribed>>
     \/ connected' = TRUE /\ subscribed' = {} /\ main' = "subscribe"
     \/ connected' = connected /\ subscribed' = {"ev"}
  /\ connected => main' \in {"thread", "loop", "running"}
  /\ UNCHANGED <<starts, wire, queueVars, published, handled, lost>>
  /\ UNCHANGED faults \/ Fault

Messaging ==
  \/ IntervalPasses \/ Drop \/ NetworkThread \/ EtiThread
  \/ \E cat \in Categories : Publish(cat)

(* The threads run when the process is far enough, and messages come only  *)
(* to a session, and only ev messages.                                     *)
Phases ==
  /\ Opened => mqueue \in Seq(Messages) /\ Len(mqueue) <= MQ_HARD_LIM
  /\ thread => main \in {"loop", "running"}
  /\ net # NONE => main = "running"
  /\ eti # NONE => thread
  /\ connected => main \in {"subscribe", "thread", "loop", "running"}
  /\ ~connected => wire = <<>>
  /\ subscribed \subseteq {"ev"}
  /\ \A k \in 1 .. Len(wire) : IsEvent(wire[k])

TypeInv == ClientTypeOK /\ Phases

LEMMA StepKinds ==
  ASSUME TypeInv, Next
  PROVE  Ends \/ Boots \/ Opens \/ SetsUp \/ Messaging
<1>. USE DEF TypeInv, Phases, Opened, Steps
<1>1. CASE Start \/ StartLimitHit
  BY <1>1 DEF Start, StartLimitHit, Boots
<1>2. CASE Crash
  BY <1>2 DEF Crash, Ends
<1>3. ASSUME NEW step, InitFails(step)  PROVE Ends
  BY <1>3 DEF InitFails, Ends
<1>4. CASE CreateQueue
  BY <1>3, <1>4 DEF CreateQueue, GoesOn, Advance, Opens, Boots, brokerVars, queueVars, history
<1>5. CASE CreateAgain
  BY <1>5 DEF CreateAgain, GoesOn, Advance, Opens, Ends, history
<1>6. CASE NewClient
  BY <1>3, <1>6 DEF NewClient, GoesOn, Advance, SetsUp, brokerVars, queueVars
<1>7. CASE Connect
  BY <1>3, <1>7 DEF Connect, GoesOn, Advance, SetsUp, queueVars
<1>8. CASE SubToDeviceCatTopic
  BY <1>8 DEF SubToDeviceCatTopic, Advance, SetsUp, queueVars
<1>9. CASE CreateThread
  BY <1>3, <1>9 DEF CreateThread, Advance, SetsUp, brokerVars, queueVars
<1>10. CASE LoopStart
  BY <1>3, <1>10 DEF LoopStart, GoesOn, Advance, SetsUp, brokerVars, queueVars
<1>. QED BY <1>1, <1>2, <1>4, <1>5, <1>6, <1>7, <1>8, <1>9, <1>10 DEF Next, EtiInit, Messaging

(* What an ev message needs of the bounds, in the client's hands or not.   *)
LEMMA MessageFacts ==
  ASSUME NEW m \in Messages
  PROVE  /\ m.id \in 1 .. MaxMsgs /\ m.body \in BOOLEAN
         /\ Bufs(m) \subseteq (1 .. MaxMsgs) \X {"topic", "payload"}
BY DEF Messages, Bufs

LEMMA HandsFacts ==
  ASSUME NEW m \in InHands
  PROVE  /\ m.id \in 1 .. MaxMsgs /\ m.body \in BOOLEAN /\ m.done \in BOOLEAN
         /\ Bufs(m) \subseteq (1 .. MaxMsgs) \X {"topic", "payload"}
BY DEF InHands, Bufs

LEMMA FaultFacts == faults \in 0 .. MaxFaults /\ Fault => faults' \in 0 .. MaxFaults
BY BoundAssumption DEF Fault

LEMMA IdsBounds ==
  ASSUME NEW s \in Seq(Messages)
  PROVE  IdsIn(s) \subseteq 1 .. MaxMsgs /\ EventsIn(s) \subseteq 1 .. MaxMsgs
<1>1. \A k \in 1 .. Len(s) : s[k].id \in 1 .. MaxMsgs
  BY QueueElements, MessageFacts
<1>. QED BY <1>1 DEF IdsIn, EventsIn

LEMMA TypeInit == Init => TypeInv
<1>. SUFFICES ASSUME Init  PROVE TypeInv
  OBVIOUS
<1>1. ClientTypeOK
  <2>1. 0 \in 0 .. StartLimitBurst /\ 0 \in 0 .. MaxMsgs /\ 0 \in 0 .. MaxFaults
    BY LimitAssumption, BoundAssumption
  <2>. QED BY <2>1, NoMessages DEF Init, ClientTypeOK
<1>2. Phases
  BY NoMessages DEF Init, Phases, Opened
<1>. QED BY <1>1, <1>2 DEF TypeInv

LEMMA TypeStep == TypeInv /\ [Next]_vars => TypeInv'
<1>. SUFFICES ASSUME TypeInv, [Next]_vars  PROVE TypeInv'
  OBVIOUS
<1>. USE DEF TypeInv, ClientTypeOK, Phases, Opened, Steps, IsEvent
<1>2. wire \in Seq(Messages) /\ Len(wire) \in Nat
  BY QueueElements
<1>3. EventsIn(wire) \subseteq 1 .. MaxMsgs
  BY <1>2, IdsBounds
<1>4. OnTheWay \subseteq 1 .. MaxMsgs
  <2>1. Opened => IdsIn(mqueue) \subseteq 1 .. MaxMsgs
    BY IdsBounds
  <2>2. net # NONE => net.id \in 1 .. MaxMsgs
    BY MessageFacts
  <2>3. eti # NONE => eti.id \in 1 .. MaxMsgs
    BY HandsFacts
  <2>. QED BY <1>3, <2>1, <2>2, <2>3 DEF OnTheWay
<1>5. CASE UNCHANGED vars
  BY <1>5 DEF vars, procVars, brokerVars, queueVars, history
<1>6. CASE Ends
  <2>1. /\ main' = "down" /\ ~thread' /\ mqueue' \in {mqueue, NONE}
        /\ connected' = FALSE /\ subscribed' = {} /\ wire' = <<>>
        /\ net' = NONE /\ eti' = NONE /\ heap' = {}
        /\ lost' = lost \cup OnTheWay /\ starts' = starts /\ published' = published
        /\ handled' = handled /\ faults' \in 0 .. MaxFaults
    BY <1>6, FaultFacts DEF Ends, ProcessEnds
  <2>2. thread' \in BOOLEAN
    BY <1>6 DEF Ends, ProcessEnds
  <2>3. ClientTypeOK'
    BY <1>4, <2>1, <2>2, NoMessages
  <2>4. Phases'
    BY <2>1, NoMessages
  <2>. QED BY <2>3, <2>4
<1>7. CASE Boots
  BY <1>7, LimitAssumption DEF Boots, brokerVars, queueVars, history
<1>8. CASE Opens
  BY <1>8, NoMessages, QueueAssumption DEF Opens, brokerVars, history
<1>9. CASE SetsUp
  <2>1. faults' \in 0 .. MaxFaults
    BY <1>9, FaultFacts DEF SetsUp
  <2>2. wire' = wire
    BY <1>9 DEF SetsUp
  <2>3. subscribed' \subseteq {"ev"} /\ subscribed' \subseteq Categories
    BY <1>9 DEF SetsUp, Categories
  <2>4. thread' \in BOOLEAN /\ connected' \in BOOLEAN
    BY <1>9 DEF SetsUp
  <2>5. ClientTypeOK'
    BY <1>9, <2>1, <2>2, <2>3, <2>4 DEF SetsUp, queueVars
  <2>6. Phases'
    BY <1>9, <2>2, <2>3 DEF SetsUp, queueVars
  <2>. QED BY <2>5, <2>6
<1>10. CASE IntervalPasses
  BY <1>10, LimitAssumption DEF IntervalPasses, brokerVars, queueVars, history
<1>11. CASE Drop
  <2>1. faults' \in 0 .. MaxFaults
    BY <1>11, FaultFacts DEF Drop
  <2>2. ClientTypeOK'
    BY <1>3, <1>11, <2>1, NoMessages DEF Drop, procVars, queueVars
  <2>3. Phases'
    BY <1>11, NoMessages DEF Drop, procVars, queueVars
  <2>. QED BY <2>2, <2>3
<1>12. CASE Reconnect
  BY <1>12 DEF Reconnect, procVars, queueVars, history
<1>13. ASSUME wire # <<>>
       PROVE  /\ Head(wire) \in Messages /\ Tail(wire) \in Seq(Messages)
              /\ \A k \in 1 .. Len(Tail(wire)) : IsEvent(Tail(wire)[k])
              /\ IsEvent(Head(wire))
  <2>1. /\ Head(wire) = wire[1] /\ Head(wire) \in Messages /\ Len(wire) > 0
        /\ Tail(wire) \in Seq(Messages) /\ Len(Tail(wire)) = Len(wire) - 1
        /\ \A k \in 1 .. Len(wire) - 1 : Tail(wire)[k] = wire[k + 1]
    BY <1>2, <1>13, QueueHead
  <2>2. \A k \in 1 .. Len(wire) - 1 : k + 1 \in 1 .. Len(wire)
    BY <1>2
  <2>3. 1 \in 1 .. Len(wire)
    BY <1>2, <2>1
  <2>. QED BY <2>1, <2>2, <2>3
<1>14. CASE TakeMessage
  BY <1>13, <1>14, MessageFacts, NoneAssumption DEF TakeMessage, procVars, history
<1>15. CASE CallocFails
  <2>1. faults' \in 0 .. MaxFaults /\ Head(wire).id \in 1 .. MaxMsgs
    BY <1>13, <1>15, FaultFacts, MessageFacts DEF CallocFails
  <2>2. ClientTypeOK'
    BY <1>13, <1>15, <2>1 DEF CallocFails, procVars, queueVars
  <2>3. Phases'
    BY <1>13, <1>15 DEF CallocFails, procVars, queueVars
  <2>. QED BY <2>2, <2>3
<1>16. CASE SendMessage
  <2>1. mqueue \in Seq(Messages) /\ net \in Messages
    BY <1>16 DEF SendMessage
  <2>2. mqueue' \in Seq(Messages) /\ Len(mqueue') = Len(mqueue) + 1
    BY <1>16, <2>1, QueueAppend DEF SendMessage
  <2>3. Len(mqueue') <= MQ_HARD_LIM
    BY <1>16, <2>1, <2>2, QueueElements, QueueAssumption DEF SendMessage
  <2>. QED BY <1>16, <2>2, <2>3 DEF SendMessage, procVars, brokerVars, history
<1>17. CASE SendFails
  <2>1. faults' \in 0 .. MaxFaults /\ net.id \in 1 .. MaxMsgs
    BY <1>17, FaultFacts, MessageFacts DEF SendFails
  <2>2. ClientTypeOK'
    BY <1>17, <2>1 DEF SendFails, procVars, brokerVars
  <2>3. Phases'
    BY <1>17 DEF SendFails, procVars, brokerVars
  <2>. QED BY <2>2, <2>3
<1>18. CASE Receive
  <2>1. mqueue \in Seq(Messages) /\ Len(mqueue) \in Nat /\ Len(mqueue) <= MQ_HARD_LIM
    BY <1>18, QueueElements DEF Receive
  <2>2. Head(mqueue) \in Messages /\ mqueue' \in Seq(Messages) /\ Len(mqueue') = Len(mqueue) - 1
    BY <1>18, <2>1, QueueHead DEF Receive
  <2>3. Len(mqueue') <= MQ_HARD_LIM
    BY <2>1, <2>2, QueueAssumption
  <2>4. eti' \in InHands
    BY <1>18, <2>2, MessageFacts DEF Receive, InHands
  <2>. QED BY <1>18, <2>2, <2>3, <2>4 DEF Receive, procVars, brokerVars, history
<1>19. CASE HandleEvent
  <2>1. eti' \in InHands /\ eti.id \in 1 .. MaxMsgs
    BY <1>19, HandsFacts DEF HandleEvent, InHands
  <2>2. handled' \in Seq(1 .. MaxMsgs)
    BY <1>19, <2>1, HandledAppend DEF HandleEvent
  <2>. QED BY <1>19, <2>1, <2>2 DEF HandleEvent, procVars, brokerVars
<1>20. CASE FreeMessage
  BY <1>20 DEF FreeMessage, procVars, brokerVars, history
<1>21. ASSUME NEW cat \in Categories, Publish(cat)
       PROVE  TypeInv'
  <2>1. published' \in 0 .. MaxMsgs /\ published + 1 \in 1 .. MaxMsgs
    BY <1>21, BoundAssumption DEF Publish
  <2>2. CASE wire' = wire
    BY <1>21, <2>1, <2>2 DEF Publish, procVars, queueVars
  <2>3. ASSUME NEW body \in BOOLEAN, cat \in subscribed,
               wire' = Append(wire, [id |-> published + 1, cat |-> cat, body |-> body])
        PROVE  TypeInv'
    <3>. DEFINE m == [id |-> published + 1, cat |-> cat, body |-> body]
    <3>1. m \in Messages /\ IsEvent(m)
      BY <2>1, <2>3 DEF Messages
    <3>2. /\ wire' \in Seq(Messages) /\ Len(wire') = Len(wire) + 1
          /\ \A k \in 1 .. Len(wire) : wire'[k] = wire[k]
          /\ IsEvent(wire'[Len(wire) + 1])
      BY <1>2, <2>3, <3>1, QueueAppend
    <3>3. \A k \in 1 .. Len(wire') : k \in 1 .. Len(wire) \/ k = Len(wire) + 1
      BY <1>2, <3>2
    <3>4. \A k \in 1 .. Len(wire') : IsEvent(wire'[k])
      BY <3>2, <3>3
    <3>. QED BY <1>21, <2>1, <3>2, <3>4 DEF Publish, procVars, queueVars
  <2>. QED BY <1>21, <2>2, <2>3 DEF Publish
<1>. QED
  BY <1>5, <1>6, <1>7, <1>8, <1>9, <1>10, <1>11, <1>12, <1>14, <1>15, <1>16, <1>17,
     <1>18, <1>19, <1>20, <1>21, StepKinds DEF Messaging, NetworkThread, EtiThread

-----------------------------------------------------------------------------
(* Where the messages are, and that those further on are the older ones.   *)

Before(A, B) == \A a \in A, b \in B : a < b
Ascends(s)   == \A j, k \in 1 .. Len(s) : j < k => s[j].id < s[k].id

HandledIds == {handled[k] : k \in 1 .. Len(handled)}
EtiIds     == IF eti = NONE THEN {} ELSE {eti.id}
ToHandle   == IF eti = NONE \/ eti.done THEN {} ELSE {eti.id}
QueueIds   == IF Opened THEN IdsIn(mqueue) ELSE {}
NetIds     == IF net = NONE THEN {} ELSE {net.id}
WireIds    == IdsIn(wire)
AllIds     == HandledIds \cup EtiIds \cup QueueIds \cup NetIds \cup WireIds

HandledInOrder == \A j, k \in 1 .. Len(handled) : j < k => handled[j] < handled[k]

Order ==
  /\ Before(HandledIds, ToHandle \cup QueueIds \cup NetIds \cup WireIds)
  /\ Before(EtiIds, QueueIds \cup NetIds \cup WireIds)
  /\ Before(QueueIds, NetIds \cup WireIds)
  /\ Before(NetIds, WireIds)
  /\ AllIds \subseteq 1 .. published
  /\ HandledInOrder
  /\ Opened => Ascends(mqueue)
  /\ Ascends(wire)

LEMMA HandledLast ==
  ASSUME NEW s \in Seq(1 .. MaxMsgs), NEW e \in 1 .. MaxMsgs,
         \A j, k \in 1 .. Len(s) : j < k => s[j] < s[k],
         \A k \in 1 .. Len(s) : s[k] < e
  PROVE  LET t == Append(s, e)
         IN  /\ \A j, k \in 1 .. Len(t) : j < k => t[j] < t[k]
             /\ \A k \in 1 .. Len(t) : t[k] = e \/ \E j \in 1 .. Len(s) : t[k] = s[j]
<1>. DEFINE t == Append(s, e)
<1>1. /\ Len(s) \in Nat /\ Len(t) = Len(s) + 1
      /\ \A k \in 1 .. Len(s) : t[k] = s[k]
      /\ t[Len(s) + 1] = e
  BY AppendProperties, LenProperties
<1>2. \A k \in 1 .. Len(t) : k \in 1 .. Len(s) \/ k = Len(s) + 1
  BY <1>1
<1>3. \A k \in 1 .. Len(t) : t[k] = e \/ \E j \in 1 .. Len(s) : t[k] = s[j]
  BY <1>1, <1>2
<1>4. ASSUME NEW j \in 1 .. Len(t), NEW k \in 1 .. Len(t), j < k
      PROVE  t[j] < t[k]
  <2>1. j \in 1 .. Len(s)
    BY <1>1, <1>4
  <2>2. t[j] = s[j]
    BY <1>1, <2>1
  <2>3. CASE k = Len(s) + 1
    BY <1>1, <2>1, <2>2, <2>3
  <2>4. CASE k \in 1 .. Len(s)
    BY <1>1, <1>4, <2>1, <2>2, <2>4
  <2>. QED BY <1>2, <2>3, <2>4
<1>. QED BY <1>3, <1>4

LEMMA NoIds == IdsIn(<<>>) = {} /\ Ascends(<<>>)
BY NoMessages DEF IdsIn, Ascends

LEMMA OldestFirst ==
  ASSUME NEW s \in Seq(Messages), s # <<>>, Ascends(s)
  PROVE  /\ IdsIn(s) = {Head(s).id} \cup IdsIn(Tail(s))
         /\ Before({Head(s).id}, IdsIn(Tail(s))) /\ Ascends(Tail(s))
<1>1. /\ Head(s) = s[1] /\ Len(s) \in Nat /\ Len(s) > 0 /\ Len(Tail(s)) = Len(s) - 1
      /\ \A k \in 1 .. Len(s) - 1 : Tail(s)[k] = s[k + 1]
  BY QueueHead, QueueElements
<1>2. \A k \in 1 .. Len(s) - 1 : k + 1 \in 1 .. Len(s) /\ 1 < k + 1
  BY <1>1
<1>3. \A k \in 1 .. Len(s) : k = 1 \/ (k - 1 \in 1 .. Len(s) - 1 /\ (k - 1) + 1 = k)
  BY <1>1
<1>4. 1 \in 1 .. Len(s)
  BY <1>1
<1>5. IdsIn(s) \subseteq {Head(s).id} \cup IdsIn(Tail(s))
  <2>1. SUFFICES ASSUME NEW k \in 1 .. Len(s)
                 PROVE  s[k].id \in {Head(s).id} \cup IdsIn(Tail(s))
    BY DEF IdsIn
  <2>2. CASE k = 1
    BY <1>1, <2>2
  <2>3. CASE k # 1
    <3>1. k - 1 \in 1 .. Len(Tail(s)) /\ Tail(s)[k - 1] = s[k]
      BY <1>1, <1>3, <2>3
    <3>. QED BY <3>1 DEF IdsIn
  <2>. QED BY <2>2, <2>3
<1>6. {Head(s).id} \cup IdsIn(Tail(s)) \subseteq IdsIn(s)
  BY <1>1, <1>2, <1>4 DEF IdsIn
<1>7. Before({Head(s).id}, IdsIn(Tail(s)))
  BY <1>1, <1>2, <1>4 DEF IdsIn, Before, Ascends
<1>8. Ascends(Tail(s))
  <2>1. SUFFICES ASSUME NEW j \in 1 .. Len(s) - 1, NEW k \in 1 .. Len(s) - 1, j < k
                 PROVE  Tail(s)[j].id < Tail(s)[k].id
    BY <1>1 DEF Ascends
  <2>2. j + 1 < k + 1
    BY <2>1
  <2>3. s[j + 1].id < s[k + 1].id
    BY <1>2, <2>2 DEF Ascends
  <2>. QED BY <1>1, <2>3
<1>. QED BY <1>5, <1>6, <1>7, <1>8

LEMMA NewestLast ==
  ASSUME NEW s \in Seq(Messages), NEW e \in Messages, Ascends(s), Before(IdsIn(s), {e.id})
  PROVE  IdsIn(Append(s, e)) = IdsIn(s) \cup {e.id} /\ Ascends(Append(s, e))
<1>1. /\ Len(s) \in Nat /\ Len(Append(s, e)) = Len(s) + 1
      /\ \A k \in 1 .. Len(s) : Append(s, e)[k] = s[k]
      /\ Append(s, e)[Len(s) + 1] = e
  BY QueueAppend, QueueElements
<1>2. \A k \in 1 .. Len(s) + 1 : k \in 1 .. Len(s) \/ k = Len(s) + 1
  BY <1>1
<1>3. \A k \in 1 .. Len(s) : k \in 1 .. Len(s) + 1 /\ k < Len(s) + 1
  BY <1>1
<1>4. Len(s) + 1 \in 1 .. Len(s) + 1
  BY <1>1
<1>5. IdsIn(Append(s, e)) = IdsIn(s) \cup {e.id}
  BY <1>1, <1>2, <1>3, <1>4 DEF IdsIn
<1>6. SUFFICES ASSUME NEW j \in 1 .. Len(s) + 1, NEW k \in 1 .. Len(s) + 1, j < k
               PROVE  Append(s, e)[j].id < Append(s, e)[k].id
  BY <1>1, <1>5 DEF Ascends
<1>7. j \in 1 .. Len(s)
  BY <1>1, <1>6
<1>8. CASE k \in 1 .. Len(s)
  BY <1>1, <1>6, <1>7, <1>8 DEF Ascends
<1>9. CASE k = Len(s) + 1
  BY <1>1, <1>7, <1>9 DEF Before, IdsIn
<1>. QED BY <1>2, <1>8, <1>9

(* A step leaves every message where it is, moves one on, adds one at the  *)
(* end, or drops some.                                                     *)
LEMMA OrderStep == TypeInv /\ Order /\ [Next]_vars => Order'
<1>. SUFFICES ASSUME TypeInv, Order, [Next]_vars  PROVE Order'
  OBVIOUS
<1>1. /\ wire \in Seq(Messages) /\ Ascends(wire) /\ published \in 0 .. MaxMsgs
      /\ Opened => mqueue \in Seq(Messages) /\ Ascends(mqueue)
  BY DEF TypeInv, ClientTypeOK, Phases, Order
<1>2. ASSUME /\ EtiIds' \subseteq EtiIds /\ QueueIds' \subseteq QueueIds
             /\ NetIds' \subseteq NetIds /\ WireIds' \subseteq WireIds
             /\ ToHandle' \subseteq ToHandle /\ UNCHANGED <<published, handled>>
             /\ Opened' => Ascends(mqueue')
             /\ Ascends(wire')
      PROVE  Order'
  BY <1>2 DEF Order, Before, AllIds, HandledIds, HandledInOrder
<1>3. CASE UNCHANGED <<mqueue, net, eti, wire, published, handled>> /\ (Opened <=> Opened')
  <2>1. /\ EtiIds' = EtiIds /\ ToHandle' = ToHandle /\ NetIds' = NetIds
        /\ WireIds' = WireIds /\ QueueIds' = QueueIds
    BY <1>3 DEF EtiIds, ToHandle, QueueIds, NetIds, WireIds, IdsIn
  <2>2. (Opened' => Ascends(mqueue')) /\ Ascends(wire')
    BY <1>1, <1>3 DEF Ascends
  <2>. QED BY <1>2, <1>3, <2>1, <2>2
<1>4. CASE UNCHANGED vars \/ IntervalPasses \/ Reconnect
  BY <1>3, <1>4
    DEF vars, procVars, brokerVars, queueVars, history, IntervalPasses, Reconnect, Opened
<1>5. CASE Ends
  <2>1. ~Opened' /\ net' = NONE /\ eti' = NONE /\ wire' = <<>>
        /\ UNCHANGED <<published, handled>>
    BY <1>5 DEF Ends, ProcessEnds, Opened
  <2>. QED BY <1>2, <2>1, NoIds DEF EtiIds, ToHandle, QueueIds, NetIds, WireIds
<1>6. CASE Boots
  BY <1>3, <1>6 DEF Boots, brokerVars, queueVars, history
<1>7. CASE Opens
  <2>1. /\ EtiIds' = EtiIds /\ ToHandle' = ToHandle /\ QueueIds' = {}
        /\ NetIds' = NetIds /\ WireIds' = WireIds
        /\ Ascends(mqueue') /\ Ascends(wire') /\ UNCHANGED <<published, handled>>
    BY <1>1, <1>7, NoIds
      DEF Opens, brokerVars, history, EtiIds, ToHandle, QueueIds, NetIds, WireIds, Ascends
  <2>. QED BY <1>2, <2>1
<1>8. CASE SetsUp
  BY <1>3, <1>8 DEF SetsUp, queueVars
<1>9. CASE Drop
  <2>1. /\ UNCHANGED <<main, mqueue, net, eti, published, handled>> /\ wire' = <<>>
    BY <1>9 DEF Drop, procVars, queueVars
  <2>2. WireIds' = {} /\ Ascends(wire')
    BY <2>1, NoIds DEF WireIds
  <2>3. /\ EtiIds' = EtiIds /\ ToHandle' = ToHandle /\ QueueIds' = QueueIds
        /\ NetIds' = NetIds /\ (Opened' => Ascends(mqueue'))
    BY <1>1, <2>1 DEF EtiIds, ToHandle, QueueIds, NetIds, Opened, Ascends, IdsIn
  <2>. QED BY <1>2, <2>1, <2>2, <2>3
<1>10. CASE TakeMessage
  <2>1. /\ wire # <<>> /\ wire' = Tail(wire) /\ net = NONE /\ IsEvent(Head(wire))
        /\ net' = Head(wire) /\ UNCHANGED <<main, mqueue, eti, published, handled>>
    <3>1. wire # <<>> /\ 1 \in 1 .. Len(wire)
      BY <1>1, <1>10, QueueHead, QueueElements DEF TakeMessage
    <3>2. IsEvent(Head(wire))
      BY <1>1, <3>1, QueueHead DEF TypeInv, Phases
    <3>. QED BY <1>10, <3>1, <3>2 DEF TakeMessage, procVars, history
  <2>2. /\ Before({Head(wire).id}, WireIds') /\ Ascends(wire')
        /\ WireIds = {Head(wire).id} \cup WireIds'
    BY <1>1, <2>1, OldestFirst DEF WireIds
  <2>3. NetIds = {} /\ NetIds' \subseteq {Head(wire).id}
    BY <2>1 DEF NetIds
  <2>4. /\ EtiIds' = EtiIds /\ ToHandle' = ToHandle
        /\ QueueIds' = QueueIds /\ (Opened' => Ascends(mqueue'))
    BY <1>1, <2>1 DEF EtiIds, ToHandle, QueueIds, Opened, Ascends, IdsIn
  <2>. QED BY <2>1, <2>2, <2>3, <2>4 DEF Order, Before, AllIds, HandledIds, HandledInOrder
<1>11. CASE CallocFails
  <2>1. /\ wire # <<>> /\ wire' = Tail(wire)
        /\ UNCHANGED <<main, mqueue, net, eti, published, handled>>
    BY <1>11 DEF CallocFails, procVars, queueVars
  <2>2. WireIds' \subseteq WireIds /\ Ascends(wire')
    BY <1>1, <2>1, OldestFirst DEF WireIds
  <2>3. /\ EtiIds' = EtiIds /\ ToHandle' = ToHandle /\ QueueIds' = QueueIds
        /\ NetIds' = NetIds /\ (Opened' => Ascends(mqueue'))
    BY <1>1, <2>1 DEF EtiIds, ToHandle, QueueIds, NetIds, Opened, Ascends, IdsIn
  <2>. QED BY <1>2, <2>1, <2>2, <2>3
<1>12. CASE SendMessage
  <2>1. /\ net \in Messages /\ net' = NONE /\ Opened /\ Opened' /\ mqueue' = Append(mqueue, net)
        /\ UNCHANGED <<eti, wire, published, handled>> /\ NetIds = {net.id} /\ NetIds' = {}
    BY <1>12
      DEF SendMessage, procVars, brokerVars, history, TypeInv, ClientTypeOK, Phases, Opened, NetIds
  <2>2. Before(IdsIn(mqueue), {net.id})
    BY <2>1 DEF Order, QueueIds, Before
  <2>3. QueueIds' = QueueIds \cup NetIds /\ Ascends(mqueue')
    BY <1>1, <2>1, <2>2, NewestLast DEF QueueIds
  <2>4. EtiIds' = EtiIds /\ ToHandle' = ToHandle /\ WireIds' = WireIds /\ Ascends(wire')
    BY <1>1, <2>1 DEF EtiIds, ToHandle, WireIds, Ascends, IdsIn
  <2>. QED BY <2>1, <2>3, <2>4 DEF Order, Before, AllIds, HandledIds, HandledInOrder
<1>13. CASE SendFails
  <2>1. UNCHANGED <<main, mqueue, eti, wire, published, handled>> /\ net' = NONE
    BY <1>13 DEF SendFails, procVars, brokerVars
  <2>2. /\ EtiIds' = EtiIds /\ ToHandle' = ToHandle /\ QueueIds' = QueueIds
        /\ NetIds' = {} /\ WireIds' = WireIds
        /\ (Opened' => Ascends(mqueue')) /\ Ascends(wire')
    BY <1>1, <2>1 DEF EtiIds, ToHandle, QueueIds, NetIds, WireIds, Opened, Ascends, IdsIn
  <2>. QED BY <1>2, <2>1, <2>2
<1>14. CASE Receive
  <2>1. /\ mqueue # <<>> /\ mqueue' = Tail(mqueue) /\ Opened /\ Opened' /\ eti = NONE
        /\ UNCHANGED <<net, wire, published, handled>>
        /\ EtiIds = {} /\ EtiIds' \subseteq {Head(mqueue).id} /\ ToHandle' \subseteq EtiIds'
    BY <1>14
      DEF Receive, procVars, brokerVars, history, TypeInv, Phases, Opened, EtiIds, ToHandle
  <2>2. /\ Before({Head(mqueue).id}, QueueIds') /\ Ascends(mqueue')
        /\ QueueIds = {Head(mqueue).id} \cup QueueIds'
    BY <1>1, <2>1, OldestFirst DEF QueueIds
  <2>3. NetIds' = NetIds /\ WireIds' = WireIds /\ Ascends(wire')
    BY <1>1, <2>1 DEF NetIds, WireIds, Ascends, IdsIn
  <2>4. HandledIds' = HandledIds /\ HandledInOrder'
    BY <2>1 DEF Order, HandledIds, HandledInOrder
  <2>5. AllIds' \subseteq 1 .. published'
    BY <2>1, <2>2, <2>3, <2>4 DEF Order, AllIds
  <2>6. /\ Before(HandledIds', ToHandle' \cup QueueIds' \cup NetIds' \cup WireIds')
        /\ Before(EtiIds', QueueIds' \cup NetIds' \cup WireIds')
        /\ Before(QueueIds', NetIds' \cup WireIds') /\ Before(NetIds', WireIds')
    BY <2>1, <2>2, <2>3, <2>4 DEF Order, Before
  <2>. QED BY <2>2, <2>3, <2>4, <2>5, <2>6 DEF Order
<1>15. CASE HandleEvent
  <2>1. /\ UNCHANGED <<main, mqueue, net, wire, published>> /\ handled' = Append(handled, eti.id)
        /\ eti # NONE /\ ToHandle = {eti.id} /\ eti.id \in 1 .. MaxMsgs
    BY <1>15, HandsFacts
      DEF HandleEvent, procVars, brokerVars, ToHandle, TypeInv, ClientTypeOK
  <2>2. EtiIds' \subseteq {eti.id} /\ ToHandle' = {}
    BY <1>15, NoneAssumption DEF HandleEvent, EtiIds, ToHandle, TypeInv, ClientTypeOK, InHands
  <2>3. /\ QueueIds' = QueueIds /\ NetIds' = NetIds /\ WireIds' = WireIds
        /\ (Opened' => Ascends(mqueue')) /\ Ascends(wire')
    BY <1>1, <2>1 DEF QueueIds, NetIds, WireIds, Opened, Ascends, IdsIn
  <2>4. HandledInOrder /\ Before(HandledIds, {eti.id}) /\ EtiIds = {eti.id}
    BY <2>1 DEF Order, Before, EtiIds
  <2>5. HandledInOrder' /\ HandledIds' \subseteq HandledIds \cup {eti.id}
    BY <2>1, <2>4, HandledLast DEF TypeInv, ClientTypeOK, HandledIds, HandledInOrder, Before
  <2>. QED BY <2>1, <2>2, <2>3, <2>4, <2>5 DEF Order, Before, AllIds
<1>16. CASE FreeMessage
  <2>1. UNCHANGED <<main, mqueue, net, wire, published, handled>> /\ eti' = NONE
    BY <1>16 DEF FreeMessage, procVars, brokerVars, history
  <2>2. EtiIds' = {} /\ ToHandle' = {}
    BY <2>1 DEF EtiIds, ToHandle
  <2>3. /\ QueueIds' = QueueIds /\ NetIds' = NetIds /\ WireIds' = WireIds
        /\ (Opened' => Ascends(mqueue')) /\ Ascends(wire')
    BY <1>1, <2>1 DEF QueueIds, NetIds, WireIds, Opened, Ascends, IdsIn
  <2>. QED BY <1>2, <2>1, <2>2, <2>3
<1>17. ASSUME NEW cat \in Categories, Publish(cat)
       PROVE  Order'
  <2>1. /\ published' = published + 1 /\ published + 1 \in 1 .. MaxMsgs
        /\ UNCHANGED <<main, mqueue, net, eti, handled>>
    BY <1>1, <1>17, BoundAssumption DEF Publish, procVars, queueVars
  <2>2. /\ EtiIds' = EtiIds /\ ToHandle' = ToHandle /\ QueueIds' = QueueIds /\ NetIds' = NetIds
        /\ (Opened' => Ascends(mqueue'))
    BY <1>1, <2>1 DEF EtiIds, ToHandle, QueueIds, NetIds, Opened, Ascends, IdsIn
  <2>3. Ascends(wire') /\ WireIds' \subseteq WireIds \cup {published + 1}
    <3>1. CASE wire' = wire
      BY <1>1, <3>1 DEF WireIds, Ascends, IdsIn
    <3>2. ASSUME NEW body \in BOOLEAN,
                 wire' = Append(wire, [id |-> published + 1, cat |-> cat, body |-> body])
          PROVE  Ascends(wire') /\ WireIds' \subseteq WireIds \cup {published + 1}
      <4>. DEFINE m == [id |-> published + 1, cat |-> cat, body |-> body]
      <4>1. m \in Messages /\ m.id = published + 1
        BY <2>1 DEF Messages
      <4>2. Before(IdsIn(wire), {m.id})
        BY <1>1, <4>1 DEF Order, Before, AllIds, WireIds
      <4>. QED BY <1>1, <3>2, <4>1, <4>2, NewestLast DEF WireIds
    <3>. QED BY <1>17, <3>1, <3>2 DEF Publish
  <2>4. \A a \in AllIds : a \in 1 .. published
    BY DEF Order
  <2>5. \A a \in AllIds : a < published + 1 /\ a \in 1 .. published'
    BY <1>1, <2>1, <2>4
  <2>6. published + 1 \in 1 .. published'
    BY <1>1, <2>1
  <2>7. HandledIds' = HandledIds /\ HandledInOrder'
    BY <2>1 DEF Order, HandledIds, HandledInOrder
  <2>8. AllIds' \subseteq AllIds \cup {published + 1}
    BY <2>2, <2>3, <2>7 DEF AllIds
  <2>9. AllIds' \subseteq 1 .. published'
    BY <2>5, <2>6, <2>8
  <2>10. /\ Before(HandledIds', ToHandle' \cup QueueIds' \cup NetIds' \cup WireIds')
         /\ Before(EtiIds', QueueIds' \cup NetIds' \cup WireIds')
         /\ Before(QueueIds', NetIds' \cup WireIds') /\ Before(NetIds', WireIds')
    BY <2>2, <2>3, <2>5, <2>7 DEF Order, Before, AllIds
  <2>. QED BY <2>2, <2>3, <2>7, <2>9, <2>10 DEF Order, Before
<1>. QED
  BY <1>4, <1>5, <1>6, <1>7, <1>8, <1>9, <1>10, <1>11, <1>12, <1>13, <1>14, <1>15, <1>16,
     <1>17, StepKinds DEF Messaging, NetworkThread, EtiThread

-----------------------------------------------------------------------------
(* The copies a message on its way owns.                                   *)

BufsOf(s) == UNION {Bufs(s[k]) : k \in 1 .. Len(s)}

EtiBufs   == IF eti = NONE THEN {} ELSE Bufs(eti)
QueueBufs == IF Opened THEN BufsOf(mqueue) ELSE {}
NetBufs   == IF net = NONE THEN {} ELSE Bufs(net)
Owned     == EtiBufs \cup QueueBufs \cup NetBufs

(* Every owner's copies are allocated, and nothing else is but what a      *)
(* failing mq_send has left.                                               *)
Memory == Owned \subseteq heap /\ heap \subseteq Owned \cup (lost \X {"topic", "payload"})

LEMMA BufsOldest ==
  ASSUME NEW s \in Seq(Messages), s # <<>>
  PROVE  BufsOf(s) = Bufs(Head(s)) \cup BufsOf(Tail(s))
<1>1. /\ Head(s) = s[1] /\ Len(s) \in Nat /\ Len(s) > 0 /\ Len(Tail(s)) = Len(s) - 1
      /\ \A k \in 1 .. Len(s) - 1 : Tail(s)[k] = s[k + 1]
  BY QueueHead, QueueElements
<1>2. \A k \in 1 .. Len(s) - 1 : k + 1 \in 1 .. Len(s)
  BY <1>1
<1>3. \A k \in 1 .. Len(s) : k = 1 \/ (k - 1 \in 1 .. Len(s) - 1 /\ (k - 1) + 1 = k)
  BY <1>1
<1>4. 1 \in 1 .. Len(s)
  BY <1>1
<1>5. \A k \in 1 .. Len(s) : Bufs(s[k]) \subseteq Bufs(Head(s)) \cup BufsOf(Tail(s))
  <2>1. SUFFICES ASSUME NEW k \in 1 .. Len(s)
                 PROVE  Bufs(s[k]) \subseteq Bufs(Head(s)) \cup BufsOf(Tail(s))
    OBVIOUS
  <2>2. CASE k = 1
    BY <1>1, <2>2
  <2>3. CASE k # 1
    <3>1. k - 1 \in 1 .. Len(Tail(s)) /\ Tail(s)[k - 1] = s[k]
      BY <1>1, <1>3, <2>3
    <3>. QED BY <3>1 DEF BufsOf
  <2>. QED BY <2>2, <2>3
<1>6. Bufs(Head(s)) \cup BufsOf(Tail(s)) \subseteq BufsOf(s)
  BY <1>1, <1>2, <1>4 DEF BufsOf
<1>. QED BY <1>5, <1>6 DEF BufsOf

LEMMA BufsNewest ==
  ASSUME NEW s \in Seq(Messages), NEW e \in Messages
  PROVE  BufsOf(Append(s, e)) = BufsOf(s) \cup Bufs(e)
<1>1. /\ Len(s) \in Nat /\ Len(Append(s, e)) = Len(s) + 1
      /\ \A k \in 1 .. Len(s) : Append(s, e)[k] = s[k]
      /\ Append(s, e)[Len(s) + 1] = e
  BY QueueAppend, QueueElements
<1>2. \A k \in 1 .. Len(s) + 1 : k \in 1 .. Len(s) \/ k = Len(s) + 1
  BY <1>1
<1>3. \A k \in 1 .. Len(s) : k \in 1 .. Len(s) + 1
  BY <1>1
<1>4. Len(s) + 1 \in 1 .. Len(s) + 1
  BY <1>1
<1>. QED BY <1>1, <1>2, <1>3, <1>4 DEF BufsOf

LEMMA NoBufs == BufsOf(<<>>) = {}
BY NoMessages DEF BufsOf

(* Two messages have no copy in common.                                    *)
LEMMA BufsApart ==
  ASSUME NEW s \in Seq(Messages), NEW m, \A i \in IdsIn(s) : i # m.id
  PROVE  BufsOf(s) \cap Bufs(m) = {}
<1>1. \A k \in 1 .. Len(s) : s[k].id # m.id
  BY DEF IdsIn
<1>2. \A k \in 1 .. Len(s) : Bufs(s[k]) \cap Bufs(m) = {}
  BY <1>1 DEF Bufs
<1>. QED BY <1>2 DEF BufsOf

LEMMA MemoryStep == TypeInv /\ Order /\ Memory /\ [Next]_vars => Memory'
<1>. SUFFICES ASSUME TypeInv, Order, Memory, [Next]_vars  PROVE Memory'
  OBVIOUS
<1>1. Opened => mqueue \in Seq(Messages)
  BY DEF TypeInv, Phases
<1>2. ASSUME Owned' = Owned, heap' = heap, lost \subseteq lost'  PROVE Memory'
  BY <1>2 DEF Memory
<1>3. CASE UNCHANGED <<mqueue, net, eti, heap>> /\ (Opened <=> Opened') /\ lost \subseteq lost'
  <2>1. EtiBufs' = EtiBufs /\ QueueBufs' = QueueBufs /\ NetBufs' = NetBufs
    BY <1>3 DEF EtiBufs, QueueBufs, NetBufs, BufsOf
  <2>. QED BY <1>2, <1>3, <2>1 DEF Owned
<1>4. CASE UNCHANGED vars \/ IntervalPasses \/ Reconnect
  BY <1>3, <1>4
    DEF vars, procVars, brokerVars, queueVars, history, IntervalPasses, Reconnect, Opened
<1>5. CASE Ends
  <2>1. ~Opened' /\ net' = NONE /\ eti' = NONE /\ heap' = {}
    BY <1>5 DEF Ends, ProcessEnds, Opened
  <2>. QED BY <2>1 DEF Memory, Owned, EtiBufs, QueueBufs, NetBufs
<1>6. CASE Boots
  BY <1>3, <1>6 DEF Boots, brokerVars, queueVars, history
<1>7. CASE Opens
  <2>1. QueueBufs' = {} /\ QueueBufs = {} /\ UNCHANGED <<net, eti, heap, lost>>
    BY <1>7, NoBufs DEF Opens, QueueBufs, history
  <2>. QED BY <1>2, <2>1 DEF Owned, EtiBufs, NetBufs
<1>8. CASE SetsUp
  BY <1>3, <1>8 DEF SetsUp, queueVars
<1>9. CASE Drop \/ CallocFails
  BY <1>3, <1>9 DEF Drop, CallocFails, procVars, queueVars, Opened
<1>10. CASE TakeMessage
  <2>1. /\ wire # <<>> /\ IsEvent(Head(wire)) /\ Head(wire) \in Messages
    <3>1. wire \in Seq(Messages) /\ wire # <<>>
      BY <1>10 DEF TakeMessage, TypeInv, ClientTypeOK
    <3>2. Head(wire) = wire[1] /\ Head(wire) \in Messages /\ 1 \in 1 .. Len(wire)
      BY <3>1, QueueHead, QueueElements
    <3>. QED BY <3>1, <3>2 DEF TypeInv, Phases
  <2>2. /\ net = NONE /\ net' = Head(wire) /\ net' # NONE
        /\ heap' = heap \cup Bufs(Head(wire)) /\ UNCHANGED <<main, mqueue, eti, lost>>
    BY <1>10, <2>1, NoneAssumption DEF TakeMessage, procVars, history
  <2>3. /\ EtiBufs' = EtiBufs /\ QueueBufs' = QueueBufs
        /\ NetBufs = {} /\ NetBufs' = Bufs(Head(wire))
    BY <2>2 DEF EtiBufs, QueueBufs, NetBufs, BufsOf, Opened
  <2>. QED BY <2>2, <2>3 DEF Memory, Owned
<1>11. CASE SendMessage
  <2>1. /\ net \in Messages /\ net # NONE /\ net' = NONE /\ Opened /\ Opened'
        /\ mqueue' = Append(mqueue, net) /\ UNCHANGED <<eti, heap, lost>>
    BY <1>11
      DEF SendMessage, procVars, brokerVars, history, TypeInv, ClientTypeOK, Phases, Opened
  <2>2. /\ QueueBufs' = QueueBufs \cup Bufs(net)
        /\ NetBufs = Bufs(net) /\ NetBufs' = {} /\ EtiBufs' = EtiBufs
    BY <1>1, <2>1, BufsNewest DEF QueueBufs, NetBufs, EtiBufs
  <2>. QED BY <1>2, <2>1, <2>2 DEF Owned
<1>12. CASE SendFails
  <2>1. /\ net # NONE /\ net' = NONE /\ UNCHANGED <<main, mqueue, eti, heap>>
        /\ lost' = lost \cup {net.id}
    BY <1>12 DEF SendFails, procVars, brokerVars
  <2>2. /\ EtiBufs' = EtiBufs /\ QueueBufs' = QueueBufs
        /\ NetBufs = Bufs(net) /\ NetBufs' = {}
    BY <2>1 DEF EtiBufs, QueueBufs, NetBufs, BufsOf, Opened
  <2>3. Bufs(net) \subseteq lost' \X {"topic", "payload"}
    BY <2>1 DEF Bufs
  <2>4. lost \X {"topic", "payload"} \subseteq lost' \X {"topic", "payload"}
    BY <2>1
  <2>. QED BY <2>1, <2>2, <2>3, <2>4 DEF Memory, Owned
<1>13. CASE Receive
  <2>1. /\ mqueue # <<>> /\ mqueue' = Tail(mqueue) /\ Opened /\ Opened' /\ eti = NONE
        /\ eti' = [id |-> Head(mqueue).id, body |-> Head(mqueue).body, done |-> FALSE]
        /\ UNCHANGED <<net, heap, lost>>
    BY <1>13
      DEF Receive, procVars, brokerVars, history, TypeInv, Phases, Opened
  <2>2. Head(mqueue) \in Messages
    BY <1>1, <2>1, QueueHead
  <2>3. eti' \in InHands
    BY <2>1, <2>2, MessageFacts DEF InHands
  <2>4. EtiBufs = {} /\ EtiBufs' = Bufs(Head(mqueue)) /\ NetBufs' = NetBufs
    BY <2>1, <2>3, NoneAssumption DEF EtiBufs, NetBufs, Bufs
  <2>5. QueueBufs = Bufs(Head(mqueue)) \cup QueueBufs'
    BY <1>1, <2>1, BufsOldest DEF QueueBufs
  <2>. QED BY <1>2, <2>1, <2>4, <2>5 DEF Owned
<1>14. CASE HandleEvent
  <2>1. /\ UNCHANGED <<main, mqueue, net, heap, lost>> /\ eti # NONE
        /\ eti' = [eti EXCEPT !.done = TRUE] /\ eti \in InHands
    BY <1>14 DEF HandleEvent, procVars, brokerVars, TypeInv, ClientTypeOK
  <2>2. eti' \in InHands /\ eti'.id = eti.id /\ eti'.body = eti.body
    BY <2>1 DEF InHands
  <2>3. EtiBufs' = EtiBufs
    BY <2>1, <2>2, NoneAssumption DEF EtiBufs, Bufs
  <2>4. QueueBufs' = QueueBufs /\ NetBufs' = NetBufs
    BY <2>1 DEF QueueBufs, NetBufs, BufsOf, Opened
  <2>. QED BY <1>2, <2>1, <2>3, <2>4 DEF Owned
<1>15. CASE FreeMessage
  <2>1. /\ UNCHANGED <<main, mqueue, net, lost>> /\ eti # NONE /\ eti' = NONE
        /\ heap' = heap \ Bufs(eti)
    BY <1>15 DEF FreeMessage, procVars, brokerVars, history
  <2>2. EtiBufs = Bufs(eti) /\ EtiBufs' = {} /\ QueueBufs' = QueueBufs /\ NetBufs' = NetBufs
    BY <2>1 DEF EtiBufs, QueueBufs, NetBufs, BufsOf, Opened
  <2>3. \A i \in QueueIds \cup NetIds \cup WireIds : eti.id < i /\ i \in Int /\ eti.id \in Int
    BY <2>1 DEF Order, Before, AllIds, EtiIds
  <2>4. \A i \in QueueIds \cup NetIds : i # eti.id
    BY <2>3
  <2>5. QueueBufs \cap Bufs(eti) = {}
    BY <1>1, <2>4, BufsApart DEF QueueBufs, QueueIds
  <2>6. NetBufs \cap Bufs(eti) = {}
    BY <2>4 DEF NetBufs, NetIds, Bufs
  <2>. QED BY <2>1, <2>2, <2>5, <2>6 DEF Memory, Owned
<1>16. ASSUME NEW cat \in Categories, Publish(cat)
       PROVE  Memory'
  BY <1>3, <1>16 DEF Publish, procVars, queueVars, Opened
<1>. QED
  BY <1>4, <1>5, <1>6, <1>7, <1>8, <1>9, <1>10, <1>11, <1>12, <1>13, <1>14, <1>15, <1>16,
     StepKinds DEF Messaging, NetworkThread, EtiThread

-----------------------------------------------------------------------------
(* A step of the client keeps each ev message on its way, or handles it,   *)
(* or is a fault, and counts it as lost.                                   *)

Kept ==
  /\ OnTheWay \subseteq OnTheWay' \cup Range(handled') \cup lost'
  /\ lost' # lost => faults' > faults

KeptIds ==
  /\ ToHandle \cup QueueIds \cup NetIds \cup WireIds
       \subseteq (ToHandle' \cup QueueIds' \cup NetIds' \cup WireIds')
                 \cup Range(handled') \cup lost'
  /\ lost' = lost \/ Fault

LEMMA OnTheWayIds ==
  /\ TypeInv => OnTheWay = ToHandle \cup QueueIds \cup NetIds \cup WireIds
  /\ TypeInv' => OnTheWay' = ToHandle' \cup QueueIds' \cup NetIds' \cup WireIds'
<1>1. TypeInv => EventsIn(wire) = IdsIn(wire)
  BY DEF TypeInv, Phases, EventsIn, IdsIn
<1>2. TypeInv' => EventsIn(wire)' = IdsIn(wire)'
  BY DEF TypeInv, Phases, EventsIn, IdsIn
<1>. QED BY <1>1, <1>2 DEF OnTheWay, ToHandle, QueueIds, NetIds, WireIds

LEMMA StepKeeps == TypeInv /\ Order /\ [Next]_vars => Kept
<1>. SUFFICES ASSUME TypeInv, Order, [Next]_vars  PROVE Kept
  OBVIOUS
<1>1. /\ TypeInv' /\ wire \in Seq(Messages) /\ Ascends(wire) /\ faults \in Nat
      /\ Opened => mqueue \in Seq(Messages) /\ Ascends(mqueue)
  BY TypeStep, BoundAssumption DEF TypeInv, ClientTypeOK, Phases, Order
<1>2. Fault => faults' > faults
  BY <1>1 DEF Fault
<1>. SUFFICES KeptIds
  BY <1>1, <1>2, OnTheWayIds DEF Kept, KeptIds
<1>. USE DEF KeptIds
<1>4. CASE UNCHANGED <<mqueue, net, eti, wire, lost>> /\ (Opened <=> Opened')
  BY <1>4 DEF ToHandle, QueueIds, NetIds, WireIds, IdsIn
<1>5. CASE UNCHANGED vars \/ IntervalPasses \/ Reconnect
  BY <1>4, <1>5
    DEF vars, procVars, brokerVars, queueVars, history, IntervalPasses, Reconnect, Opened
<1>6. CASE Ends
  BY <1>6, OnTheWayIds DEF Ends, ProcessEnds
<1>7. CASE Boots
  BY <1>4, <1>7 DEF Boots, brokerVars, queueVars, history
<1>8. CASE Opens
  <2>1. QueueIds = {} /\ UNCHANGED <<net, eti, wire, lost>>
    BY <1>8 DEF Opens, QueueIds, brokerVars, history
  <2>. QED BY <2>1 DEF ToHandle, NetIds, WireIds, IdsIn
<1>9. CASE SetsUp
  BY <1>4, <1>9 DEF SetsUp, queueVars
<1>10. CASE Drop
  <2>1. UNCHANGED <<main, mqueue, net, eti>> /\ Fault /\ lost' = lost \cup EventsIn(wire)
    BY <1>10 DEF Drop, procVars, queueVars
  <2>2. WireIds = EventsIn(wire)
    BY DEF WireIds, IdsIn, EventsIn, TypeInv, Phases
  <2>. QED BY <2>1, <2>2 DEF ToHandle, QueueIds, NetIds, Opened, IdsIn
<1>11. CASE TakeMessage \/ CallocFails
  <2>1. /\ wire # <<>> /\ wire' = Tail(wire) /\ UNCHANGED <<main, mqueue, eti>>
        /\ NetIds = {} \/ UNCHANGED net
    BY <1>11 DEF TakeMessage, CallocFails, procVars, queueVars, history, NetIds
  <2>2. WireIds = {Head(wire).id} \cup WireIds'
    BY <1>1, <2>1, OldestFirst DEF WireIds
  <2>3. ToHandle' = ToHandle /\ QueueIds' = QueueIds
    BY <2>1 DEF ToHandle, QueueIds, Opened, IdsIn
  <2>4. CASE TakeMessage
    <3>1. Head(wire) = wire[1] /\ Head(wire) \in Messages /\ 1 \in 1 .. Len(wire)
      BY <1>1, <2>1, QueueHead, QueueElements
    <3>2. NetIds = {} /\ NetIds' = {Head(wire).id} /\ lost' = lost
      BY <2>4, <3>1, NoneAssumption DEF TakeMessage, history, NetIds, TypeInv, Phases
    <3>. QED BY <2>2, <2>3, <3>2
  <2>5. CASE CallocFails
    BY <2>2, <2>3, <2>5 DEF CallocFails, NetIds
  <2>. QED BY <1>11, <2>4, <2>5
<1>12. CASE SendMessage
  <2>1. /\ net \in Messages /\ net # NONE /\ net' = NONE /\ Opened /\ Opened'
        /\ mqueue' = Append(mqueue, net) /\ UNCHANGED <<eti, wire, lost>>
    BY <1>12
      DEF SendMessage, procVars, brokerVars, history, TypeInv, ClientTypeOK, Phases, Opened
  <2>2. Before(IdsIn(mqueue), {net.id})
    BY <2>1 DEF Order, QueueIds, NetIds, Before
  <2>3. QueueIds' = QueueIds \cup NetIds
    BY <1>1, <2>1, <2>2, NewestLast DEF QueueIds, NetIds
  <2>. QED BY <2>1, <2>3 DEF ToHandle, WireIds, IdsIn
<1>13. CASE SendFails
  <2>1. /\ UNCHANGED <<main, mqueue, eti, wire>> /\ Fault
        /\ net # NONE /\ lost' = lost \cup {net.id}
    BY <1>13 DEF SendFails, procVars, brokerVars
  <2>. QED BY <2>1 DEF ToHandle, QueueIds, NetIds, WireIds, Opened, IdsIn
<1>14. CASE Receive
  <2>1. /\ mqueue # <<>> /\ mqueue' = Tail(mqueue) /\ Opened /\ Opened' /\ eti = NONE
        /\ eti' = [id |-> Head(mqueue).id, body |-> Head(mqueue).body, done |-> FALSE]
        /\ UNCHANGED <<net, wire, lost>>
    BY <1>14
      DEF Receive, procVars, brokerVars, history, TypeInv, Phases, Opened
  <2>2. QueueIds = {Head(mqueue).id} \cup QueueIds'
    BY <1>1, <2>1, OldestFirst DEF QueueIds
  <2>3. Head(mqueue) \in Messages
    BY <1>1, <2>1, QueueHead
  <2>4. eti' \in InHands
    BY <2>1, <2>3, MessageFacts DEF InHands
  <2>5. ToHandle = {} /\ ToHandle' = {Head(mqueue).id}
    BY <2>1, <2>4, NoneAssumption DEF ToHandle
  <2>. QED BY <2>1, <2>2, <2>5 DEF NetIds, WireIds, IdsIn
<1>15. CASE HandleEvent
  <2>1. /\ UNCHANGED <<main, mqueue, net, wire, lost>> /\ handled' = Append(handled, eti.id)
        /\ eti.id \in 1 .. MaxMsgs /\ handled \in Seq(1 .. MaxMsgs)
    BY <1>15, HandsFacts DEF HandleEvent, procVars, brokerVars, TypeInv, ClientTypeOK
  <2>2. ToHandle \subseteq Range(handled')
    BY <2>1, HandledAppend DEF ToHandle
  <2>. QED BY <2>1, <2>2 DEF QueueIds, NetIds, WireIds, Opened, IdsIn
<1>16. CASE FreeMessage
  <2>1. UNCHANGED <<main, mqueue, net, wire, lost>> /\ ToHandle = {}
    BY <1>16 DEF FreeMessage, procVars, brokerVars, history, ToHandle
  <2>. QED BY <2>1 DEF QueueIds, NetIds, WireIds, Opened, IdsIn
<1>17. ASSUME NEW cat \in Categories, Publish(cat)
       PROVE  KeptIds
  <2>1. UNCHANGED <<main, mqueue, net, eti, lost>>
    BY <1>17 DEF Publish, procVars, queueVars
  <2>2. WireIds \subseteq WireIds'
    <3>1. ASSUME NEW body \in BOOLEAN,
                 wire' = Append(wire, [id |-> published + 1, cat |-> cat, body |-> body])
          PROVE  WireIds \subseteq WireIds'
      <4>. DEFINE m == [id |-> published + 1, cat |-> cat, body |-> body]
      <4>1. published + 1 \in 1 .. MaxMsgs /\ published \in Nat
        BY <1>17, BoundAssumption DEF Publish, TypeInv, ClientTypeOK
      <4>2. m \in Messages /\ m.id = published + 1
        BY <4>1 DEF Messages
      <4>3. Before(IdsIn(wire), {m.id})
        BY <4>1, <4>2 DEF Order, Before, AllIds, WireIds
      <4>. QED BY <1>1, <3>1, <4>2, <4>3, NewestLast DEF WireIds
    <3>. QED BY <1>17, <3>1 DEF Publish, WireIds, IdsIn
  <2>3. ToHandle' = ToHandle /\ QueueIds' = QueueIds /\ NetIds' = NetIds
    BY <2>1 DEF ToHandle, QueueIds, NetIds, Opened, IdsIn
  <2>. QED BY <2>1, <2>2, <2>3
<1>. HIDE DEF KeptIds
<1>. QED
  BY <1>5, <1>6, <1>7, <1>8, <1>9, <1>10, <1>11, <1>12, <1>13, <1>14, <1>15, <1>16, <1>17,
     StepKinds DEF Messaging, NetworkThread, EtiThread

-----------------------------------------------------------------------------
Inv == TypeInv /\ Order /\ Memory

LEMMA InvInit == Init => Inv
<1>. SUFFICES ASSUME Init  PROVE Inv
  OBVIOUS
<1>1. TypeInv
  BY TypeInit
<1>2. /\ EtiIds = {} /\ ToHandle = {} /\ QueueIds = {} /\ NetIds = {} /\ WireIds = {}
      /\ HandledIds = {} /\ HandledInOrder /\ ~Opened /\ Ascends(wire)
  BY NoMessages, NoIds
    DEF Init, EtiIds, ToHandle, QueueIds, NetIds, WireIds, HandledIds, HandledInOrder, Opened
<1>3. Order
  BY <1>2 DEF Order, Before, AllIds
<1>4. Memory
  BY <1>2 DEF Init, Memory, Owned, EtiBufs, NetBufs, QueueBufs
<1>. QED BY <1>1, <1>3, <1>4 DEF Inv

LEMMA InvSpec == Spec => []Inv
<1>1. Inv /\ [Next]_vars => Inv'
  BY TypeStep, OrderStep, MemoryStep DEF Inv
<1>. QED BY <1>1, InvInit, PTL DEF Spec

(* The types, the capacity of the queue and the bounds of the counters     *)
(* hold in every state the client can reach.                               *)
THEOREM ClientTypes == Spec => []ClientTypeOK
<1>1. Inv => ClientTypeOK
  BY DEF Inv, TypeInv
<1>. QED BY <1>1, InvSpec, PTL

(* Whatever queue a crash has left behind, the ETI thread never has a      *)
(* message whose copies an earlier process allocated.                      *)
THEOREM NothingStale == Spec => []NoStaleMessage
<1>1. Inv => NoStaleMessage
  BY DEF Inv, Memory, Owned, EtiBufs, NoStaleMessage
<1>. QED BY <1>1, InvSpec, PTL

(* Copies without an owner are those of messages mq_send has failed on.    *)
THEOREM CopiesOwned == Spec => []HeapOwned
<1>1. ASSUME Inv  PROVE HeapOwned
  <2>. DEFINE H == ({net, eti} \cup (IF Opened THEN Range(mqueue) ELSE {})) \ {NONE}
              U == UNION {Bufs(m) : m \in H}
  <2>1. EtiBufs \subseteq U /\ NetBufs \subseteq U
    BY DEF EtiBufs, NetBufs
  <2>2. ASSUME Opened  PROVE BufsOf(mqueue) \subseteq U
    <3>1. mqueue \in Seq(Messages)
      BY <1>1, <2>2 DEF Inv, TypeInv, Phases
    <3>2. \A k \in 1 .. Len(mqueue) : mqueue[k] \in Range(mqueue) /\ mqueue[k] # NONE
      BY <3>1, QueueElements, LenProperties, NoneAssumption DEF Range
    <3>. QED BY <2>2, <3>2 DEF BufsOf
  <2>3. Owned \subseteq U
    BY <2>1, <2>2 DEF Owned, QueueBufs
  <2>4. HeapOwned <=> heap \subseteq U \cup (lost \X {"topic", "payload"})
    BY DEF HeapOwned
  <2>. HIDE DEF U
  <2>. QED BY <1>1, <2>3, <2>4 DEF Inv, Memory
<1>. QED BY <1>1, InvSpec, PTL

(* An ev message the broker has passed on is on its way until it is        *)
(* handled or a fault loses it; a full queue loses none.                   *)
THEOREM EventsKept == Spec => NoEventVanishes
<1>1. Inv /\ [Next]_vars => Kept
  BY StepKeeps DEF Inv
<1>. QED BY <1>1, InvSpec, PTL DEF Spec, NoEventVanishes, Kept

(* Events are handled in the order of their publication, none twice.       *)
THEOREM EventsInOrder == Spec => []HandledInOrder
<1>1. Inv => HandledInOrder
  BY DEF Inv, Order
<1>. QED BY <1>1, InvSpec, PTL

-----------------------------------------------------------------------------
(* The client as an EventFeed: a step takes on one more message, handles   *)
(* the oldest, or loses some.                                              *)
LEMMA FeedStep ==
  ASSUME TypeInv, Order, [Next]_vars
  PROVE  [Feed!Next]_<<OnTheWay, handled>>
<1>. DEFINE Waiting == ToHandle \cup QueueIds \cup NetIds \cup WireIds
<1>1. /\ OnTheWay = Waiting /\ OnTheWay' = Waiting'
      /\ wire \in Seq(Messages) /\ Ascends(wire)
      /\ Opened => mqueue \in Seq(Messages) /\ Ascends(mqueue)
  BY TypeStep, OnTheWayIds DEF TypeInv, ClientTypeOK, Phases, Order
<1>2. ASSUME OnTheWay' \subseteq OnTheWay, handled' = handled
      PROVE  Feed!Next
  BY <1>2 DEF Feed!Next, Feed!Lose
<1>3. CASE UNCHANGED <<mqueue, net, eti, wire, handled>> /\ (Opened <=> Opened')
  BY <1>1, <1>2, <1>3 DEF ToHandle, QueueIds, NetIds, WireIds, IdsIn
<1>4. CASE UNCHANGED vars \/ IntervalPasses \/ Reconnect \/ Boots \/ SetsUp
  BY <1>3, <1>4
    DEF vars, procVars, brokerVars, queueVars, history, IntervalPasses, Reconnect, Opened,
        Boots, SetsUp
<1>5. CASE Ends
  <2>1. ~Opened' /\ net' = NONE /\ eti' = NONE /\ wire' = <<>> /\ handled' = handled
    BY <1>5 DEF Ends, ProcessEnds, Opened
  <2>. QED BY <1>1, <1>2, <2>1, NoIds DEF ToHandle, QueueIds, NetIds, WireIds
<1>6. CASE Opens
  <2>1. QueueIds' = {} /\ UNCHANGED <<net, eti, wire, handled>>
    BY <1>6, NoIds DEF Opens, QueueIds, brokerVars, history
  <2>. QED BY <1>1, <1>2, <2>1 DEF ToHandle, NetIds, WireIds, IdsIn
<1>7. CASE Drop
  <2>1. UNCHANGED <<main, mqueue, net, eti, handled>> /\ wire' = <<>>
    BY <1>7 DEF Drop, procVars, queueVars
  <2>. QED BY <1>1, <1>2, <2>1, NoIds DEF ToHandle, QueueIds, NetIds, WireIds, Opened, IdsIn
<1>8. CASE TakeMessage \/ CallocFails
  <2>1. /\ wire # <<>> /\ wire' = Tail(wire) /\ UNCHANGED <<main, mqueue, eti, handled>>
        /\ net' \in {NONE, Head(wire), net}
    BY <1>8 DEF TakeMessage, CallocFails, procVars, queueVars, history
  <2>2. WireIds = {Head(wire).id} \cup WireIds'
    BY <1>1, <2>1, OldestFirst DEF WireIds
  <2>3. NetIds' \subseteq NetIds \cup {Head(wire).id}
    BY <2>1 DEF NetIds
  <2>4. ToHandle' = ToHandle /\ QueueIds' = QueueIds
    BY <2>1 DEF ToHandle, QueueIds, Opened, IdsIn
  <2>. QED BY <1>1, <1>2, <2>1, <2>2, <2>3, <2>4
<1>9. CASE SendMessage
  <2>1. /\ net \in Messages /\ net # NONE /\ net' = NONE /\ Opened /\ Opened'
        /\ mqueue' = Append(mqueue, net) /\ UNCHANGED <<eti, wire, handled>>
    BY <1>9
      DEF SendMessage, procVars, brokerVars, history, TypeInv, ClientTypeOK, Phases, Opened
  <2>2. Before(IdsIn(mqueue), {net.id})
    BY <2>1 DEF Order, QueueIds, NetIds, Before
  <2>3. QueueIds' = QueueIds \cup NetIds /\ NetIds' = {}
    BY <1>1, <2>1, <2>2, NewestLast DEF QueueIds, NetIds
  <2>. QED BY <1>1, <1>2, <2>1, <2>3 DEF ToHandle, WireIds, IdsIn
<1>10. CASE SendFails \/ FreeMessage
  <2>1. /\ UNCHANGED <<main, mqueue, wire, handled>>
        /\ net' \in {NONE, net} /\ eti' \in {NONE, eti}
    BY <1>10 DEF SendFails, FreeMessage, procVars, brokerVars, history
  <2>2. ToHandle' \subseteq ToHandle /\ NetIds' \subseteq NetIds
    BY <2>1 DEF ToHandle, NetIds
  <2>3. QueueIds' = QueueIds /\ WireIds' = WireIds
    BY <2>1 DEF QueueIds, WireIds, Opened, IdsIn
  <2>. QED BY <1>1, <1>2, <2>1, <2>2, <2>3
<1>11. CASE Receive
  <2>1. /\ mqueue # <<>> /\ mqueue' = Tail(mqueue) /\ Opened /\ Opened' /\ eti = NONE
        /\ eti' = [id |-> Head(mqueue).id, body |-> Head(mqueue).body, done |-> FALSE]
        /\ UNCHANGED <<net, wire, handled>>
    BY <1>11
      DEF Receive, procVars, brokerVars, history, TypeInv, Phases, Opened
  <2>2. QueueIds = {Head(mqueue).id} \cup QueueIds'
    BY <1>1, <2>1, OldestFirst DEF QueueIds
  <2>3. ToHandle' \subseteq {Head(mqueue).id}
    BY <2>1 DEF ToHandle
  <2>. QED BY <1>1, <1>2, <2>1, <2>2, <2>3 DEF NetIds, WireIds, IdsIn
<1>12. CASE HandleEvent
  <2>1. /\ UNCHANGED <<main, mqueue, net, wire>> /\ eti # NONE /\ ~eti.done
        /\ eti' = [eti EXCEPT !.done = TRUE] /\ handled' = Append(handled, eti.id)
        /\ eti \in InHands
    BY <1>12 DEF HandleEvent, procVars, brokerVars, TypeInv, ClientTypeOK
  <2>2. PICK i \in 1 .. MaxMsgs : i = eti.id
    BY <2>1, HandsFacts
  <2>3. eti' \in InHands /\ eti'.done
    BY <2>1 DEF InHands
  <2>4. ToHandle = {i} /\ ToHandle' = {} /\ EtiIds = {i}
    BY <2>1, <2>2, <2>3 DEF ToHandle, EtiIds
  <2>5. QueueIds' = QueueIds /\ NetIds' = NetIds /\ WireIds' = WireIds
    BY <2>1 DEF QueueIds, NetIds, WireIds, Opened, IdsIn
  <2>6. \A j \in QueueIds \cup NetIds \cup WireIds : i < j /\ j \in Int
    BY <2>4 DEF Order, Before, AllIds
  <2>7. OnTheWay' = OnTheWay \ {i} /\ i \in OnTheWay /\ \A j \in OnTheWay : i <= j
    BY <1>1, <2>4, <2>5, <2>6
  <2>8. Feed!Handle(i)
    BY <2>1, <2>2, <2>7 DEF Feed!Handle
  <2>. QED BY <2>8 DEF Feed!Next
<1>13. ASSUME NEW cat \in Categories, Publish(cat)
       PROVE  Feed!Next
  <2>1. UNCHANGED <<main, mqueue, net, eti, handled>> /\ published \in Nat
    BY <1>13, BoundAssumption DEF Publish, procVars, queueVars, TypeInv, ClientTypeOK
  <2>2. ToHandle' = ToHandle /\ QueueIds' = QueueIds /\ NetIds' = NetIds
    BY <2>1 DEF ToHandle, QueueIds, NetIds, Opened, IdsIn
  <2>3. CASE wire' = wire
    BY <1>3, <2>1, <2>3 DEF Opened, Feed!Next, Feed!Lose
  <2>4. ASSUME NEW body \in BOOLEAN,
               wire' = Append(wire, [id |-> published + 1, cat |-> cat, body |-> body])
        PROVE  Feed!Next
    <3>. DEFINE m == [id |-> published + 1, cat |-> cat, body |-> body]
    <3>1. PICK n \in 1 .. MaxMsgs : n = published + 1
      BY <1>13, <2>1, BoundAssumption DEF Publish, TypeInv, ClientTypeOK
    <3>2. m \in Messages /\ m.id = n
      BY <1>13, <3>1 DEF Messages
    <3>3. \A i \in AllIds : i < n
      BY <2>1, <3>1 DEF Order
    <3>4. WireIds' = WireIds \cup {n}
      BY <1>1, <2>4, <3>2, <3>3, NewestLast DEF WireIds, Before, AllIds
    <3>5. OnTheWay' = OnTheWay \cup {n}
      BY <1>1, <2>2, <3>4
    <3>6. \A i \in OnTheWay : i < n
      BY <1>1, <3>3 DEF AllIds, EtiIds, ToHandle
    <3>7. \A k \in DOMAIN handled : handled[k] < n
      BY <3>3, LenProperties DEF AllIds, HandledIds, TypeInv, ClientTypeOK
    <3>8. Feed!Accept(n)
      BY <2>1, <3>5, <3>6, <3>7 DEF Feed!Accept
    <3>. QED BY <3>8 DEF Feed!Next
  <2>. QED BY <1>13, <2>3, <2>4 DEF Publish
<1>. QED
  BY <1>4, <1>5, <1>6, <1>7, <1>8, <1>9, <1>10, <1>11, <1>12, <1>13, StepKinds
    DEF Messaging, NetworkThread, EtiThread

(* The client implements EventFeed, but for the promise to handle in the   *)
(* end: of the ev messages passed on it handles none twice, none out of    *)
(* order and none it was not passed, whatever crashes and restarts.        *)
THEOREM FeedServes == Spec => Feed!Safety
<1>1. Init => Feed!Init
  <2>1. Init => OnTheWay = {} /\ handled = <<>>
    BY NoMessages DEF Init, OnTheWay, Opened, EventsIn
  <2>. QED BY <2>1 DEF Feed!Init
<1>2. Inv /\ [Next]_vars => [Feed!Next]_<<OnTheWay, handled>>
  BY FeedStep DEF Inv
<1>. QED BY <1>1, <1>2, InvSpec, PTL DEF Spec, Feed!Safety, Feed!vars
=============================================================================
