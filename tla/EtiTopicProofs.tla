--------------------------- MODULE EtiTopicProofs ---------------------------
(***************************************************************************)
(* What a message sets, for any names, UIDs and topics.  First the fields  *)
(* GetTopicField finds in a topic that the broker passes on; then the way  *)
(* of a message.                                                           *)
(***************************************************************************)
EXTENDS EtiTopic, FiniteSetTheorems, SequenceTheorems, TLAPS

LEMMA CountTo ==
  ASSUME NEW n \in Nat
  PROVE  IsFiniteSet(1..n) /\ Cardinality(1..n) = n
BY FS_Interval

(* The fields in front of a level are counted one by one.                  *)
LEMMA FieldsFinite ==
  ASSUME NEW t, NEW k \in Nat
  PROVE  IsFiniteSet(Fields(t, k)) /\ Cardinality(Fields(t, k)) \in Nat
         /\ Cardinality(Fields(t, k)) <= k
<1>1. Fields(t, k) \in SUBSET (1..k)
  BY DEF Fields
<1>. QED BY <1>1, CountTo, FS_Subset, FS_CardinalityType

LEMMA FieldsGrow ==
  ASSUME NEW t, NEW i \in Nat, NEW j \in Nat, i < j, t[j] # Empty
  PROVE  Cardinality(Fields(t, i)) < Cardinality(Fields(t, j))
<1>1. Fields(t, i) \in SUBSET Fields(t, j) /\ j \in Fields(t, j) /\ j \notin Fields(t, i)
  BY DEF Fields
<1>2. /\ Cardinality(Fields(t, i)) <= Cardinality(Fields(t, j))
      /\ Cardinality(Fields(t, i)) # Cardinality(Fields(t, j))
  BY <1>1, FieldsFinite, FS_Subset
<1>. QED BY <1>2, FieldsFinite

(* A field is found where it is.                                           *)
LEMMA FieldFound ==
  ASSUME NEW t, Len(t) \in Nat, NEW key, NEW k \in 1..Len(t), IsField(t, key, k)
  PROVE  GetTopicField(t, key) = Cut[t[k]]
<1>1. ASSUME NEW l \in 1..Len(t), IsField(t, key, l) PROVE l = k
  <2>1. ~(l < k) /\ ~(k < l)
    BY <1>1, FieldsGrow, FieldsFinite DEF IsField
  <2>. QED BY <2>1
<1>2. (CHOOSE l \in 1..Len(t) : IsField(t, key, l)) = k
  BY <1>1
<1>. QED BY <1>2 DEF GetTopicField

LEMMA FieldMissing ==
  ASSUME NEW t, NEW key, GetTopicField(t, key) # NONE
  PROVE  \E k \in 1..Len(t) : IsField(t, key, k)
BY DEF GetTopicField

(* While no level is empty, fields and levels are the same.                *)
LEMMA FieldIsLevel ==
  ASSUME NEW t, Len(t) \in Nat, NEW n \in 1..Len(t), \A i \in 1..n : t[i] # Empty
  PROVE  GetTopicField(t, n) = Cut[t[n]]
<1>1. Fields(t, n) = 1..n
  BY DEF Fields
<1>. QED BY <1>1, CountTo, FieldFound DEF IsField

(* A level that is empty is none: the next one is in its place.            *)
LEMMA FieldAfterEmpty ==
  ASSUME NEW t, Len(t) \in Nat, NEW n \in Nat, n + 2 <= Len(t), \A i \in 1..n : t[i] # Empty,
         t[n + 1] = Empty, t[n + 2] # Empty
  PROVE  GetTopicField(t, n + 1) = Cut[t[n + 2]]
<1>1. Fields(t, n + 2) = (1..n) \cup {n + 2}
  BY DEF Fields
<1>2. /\ Cardinality(1..n) = n /\ IsFiniteSet(1..n) /\ n + 2 \notin 1..n
      /\ n + 2 \in 1..Len(t) /\ n + 1 \in Nat
  BY CountTo
<1>. DEFINE S == 1..n
<1>. HIDE DEF S
<1>3. Cardinality(S \cup {n + 2}) = n + 1
  <2>1. Cardinality(S) = n /\ IsFiniteSet(S) /\ n + 2 \notin S
    BY <1>2 DEF S
  <2>. QED BY <2>1, FS_AddElement
<1>4. IsField(t, n + 1, n + 2)
  BY <1>1, <1>3 DEF IsField, S
<1>. QED BY <1>2, <1>4, FieldFound

(* The next field after the first n levels is in the first level that is   *)
(* not empty.                                                              *)
LEMMA FieldAfter ==
  ASSUME NEW t, Len(t) \in Nat, NEW n \in Nat, \A i \in 1..n : t[i] # Empty, n <= Len(t),
         GetTopicField(t, n + 1) # NONE
  PROVE  \E k \in n + 1 .. Len(t) :
           /\ GetTopicField(t, n + 1) = Cut[t[k]] /\ t[k] # Empty
           /\ \A i \in n + 1 .. k - 1 : t[i] = Empty
<1>1. PICK k \in 1..Len(t) : IsField(t, n + 1, k)
  BY FieldMissing
<1>2. Cardinality(Fields(t, n)) = n
  <2>1. Fields(t, n) = 1..n
    BY DEF Fields
  <2>. QED BY <2>1, CountTo
<1>3. t[k] # Empty /\ Cardinality(Fields(t, k)) = n + 1 /\ k \in Nat
  BY <1>1 DEF IsField
<1>4. k \in n + 1 .. Len(t)
  <2>1. Cardinality(Fields(t, k)) <= k
    BY FieldsFinite
  <2>. QED BY <1>3, <2>1
<1>5. ASSUME NEW i \in n + 1 .. k - 1, t[i] # Empty PROVE FALSE
  <2>1. /\ Cardinality(Fields(t, n)) < Cardinality(Fields(t, i))
        /\ Cardinality(Fields(t, i)) < Cardinality(Fields(t, k))
        /\ Cardinality(Fields(t, i)) \in Nat
    BY <1>3, <1>5, FieldsGrow, FieldsFinite
  <2>. QED BY <1>2, <1>3, <2>1
<1>6. GetTopicField(t, n + 1) = Cut[t[k]]
  BY <1>1, FieldFound
<1>. QED BY <1>3, <1>4, <1>5, <1>6

-----------------------------------------------------------------------------
(* The levels of a topic.                                                  *)
LEMMA TopicLevels ==
  ASSUME NEW t \in Topics
  PROVE  /\ Len(t) \in Nat /\ Len(t) >= 4
         /\ t[1] = "eti" /\ t[2] = CDNAME /\ t[3] \in Categories /\ t[4] \in {"dev", "devices"}
         /\ \A i \in 5..Len(t) : t[i] \in Names
<1>1. PICK cat \in Categories, key \in {"dev", "devices"}, tail \in BoundedSeq(Names, MaxTail) :
        t = TopicOf(cat, key, tail)
  BY DEF Topics
<1>2. tail \in Seq(Names)
  BY SeqDef, BoundAssumption DEF BoundedSeq, SeqOf
<1>. QED BY <1>1, <1>2 DEF TopicOf

(* What the broker passes on is an ev topic of a device's register.        *)
Heard(t) == Len(t) >= 6 /\ t[3] = "ev" /\ t[4] = "dev" /\ t[6] = "reg"

LEMMA FilterLevels ==
  /\ Len(SubToDeviceCatTopic) = 7
  /\ SubToDeviceCatTopic[1] = "eti" /\ SubToDeviceCatTopic[2] = CDNAME
  /\ SubToDeviceCatTopic[3] = "ev" /\ SubToDeviceCatTopic[4] = "dev"
  /\ SubToDeviceCatTopic[5] = "+" /\ SubToDeviceCatTopic[6] = "reg"
BY DEF SubToDeviceCatTopic, DevKeyTopic

LEMMA PassedIsHeard ==
  ASSUME NEW t \in Topics
  PROVE  Matches(SubToDeviceCatTopic, t) <=> Heard(t)
<1>1. Matches(SubToDeviceCatTopic, t) => Heard(t)
  BY FilterLevels, TopicLevels DEF Matches, Heard
<1>2. ASSUME Heard(t), NEW k \in 1..6 PROVE SubToDeviceCatTopic[k] \in {"+", t[k]}
  <2>1. k = 1 \/ k = 2 \/ k = 3 \/ k = 4 \/ k = 5 \/ k = 6
    OBVIOUS
  <2>. QED BY <1>2, <2>1, FilterLevels, TopicLevels DEF Heard
<1>. QED BY <1>1, <1>2, FilterLevels, TopicLevels DEF Matches, Heard

LEMMA HeardStarts ==
  ASSUME NEW t \in Topics, Heard(t)
  PROVE  StartsAs(t, "ev")
<1>. DEFINE s == <<"eti", CDNAME, "ev", "dev">>
<1>1. Len(s) = 4 /\ Len(t) >= 4 /\ Len(t) \in Nat
  BY TopicLevels
<1>2. ASSUME NEW k \in 1..4 PROVE s[k] = t[k]
  <2>1. k = 1 \/ k = 2 \/ k = 3 \/ k = 4
    OBVIOUS
  <2>. QED BY <2>1, TopicLevels DEF Heard
<1>3. SubSeq(s, 1, 4) = SubSeq(t, 1, 4)
  BY <1>1, <1>2
<1>4. IsPrefix(s, t)
  BY <1>1, <1>3 DEF IsPrefix
<1>. QED BY <1>4 DEF StartsAs

(* The topic the driver writes for a register.                             *)
LEMMA RegTopicLevels ==
  ASSUME NEW cat \in Categories, NEW u \in Uids, NEW r \in Regs
  PROVE  LET t == DevRegTopic(cat, u, r) IN
         /\ t \in Topics /\ Len(t) = 7 /\ t[3] = cat /\ t[4] = "dev"
         /\ t[5] = u /\ t[6] = "reg" /\ t[7] = RegStr[r]
<1>. DEFINE t == DevRegTopic(cat, u, r)
            tail == <<u, "reg", RegStr[r]>>
<1>1. RegStr[r] \in Names /\ u \in Names /\ "reg" \in Names
  BY NamesAssumption, RegAssumption
<1>2. tail \in [1..3 -> Names]
  BY <1>1
<1>3. tail \in BoundedSeq(Names, MaxTail)
  BY <1>2, BoundAssumption DEF BoundedSeq, SeqOf
<1>4. t = <<"eti", CDNAME, cat, "dev">> \o tail
  BY DEF DevRegTopic, DevKeyTopic
<1>5. t \in Topics
  <2>1. t = TopicOf(cat, "dev", tail)
    BY <1>4 DEF TopicOf
  <2>. HIDE DEF t, tail
  <2>. QED BY <1>3, <2>1 DEF Topics
<1>6. Len(t) = 7 /\ t[3] = cat /\ t[4] = "dev" /\ t[5] = u /\ t[6] = "reg" /\ t[7] = RegStr[r]
  BY <1>1, <1>4
<1>. QED BY <1>5, <1>6

-----------------------------------------------------------------------------
(* How far a message has come says what its topic is: only what the filter *)
(* matches gets into the client, and that is never the driver's own.       *)
WayInv ==
  /\ at = "none" <=> topic = NONE
  /\ at = "unheard" => ~Heard(topic)
  /\ at \in {"callback", "queue", "handled"} => Heard(topic)
  /\ own => at = "unheard"
  /\ at # "handled" => found = NONE

TopicInv == TopicTypeOK /\ HeardIsHandled /\ WayInv

LEMMA SendKeepsInv ==
  ASSUME TopicInv, topic = NONE, NEW t \in Topics, NEW mine \in BOOLEAN, Send(t, mine),
         mine => ~Heard(t)
  PROVE  TopicInv'
<1>1. t # NONE /\ topic' = t /\ own' = mine /\ devs' = devs /\ found' = found
      /\ at' = IF Heard(t) THEN "callback" ELSE "unheard"
  BY NoneAssumption, PassedIsHeard DEF Send
<1>2. TopicTypeOK'
  BY <1>1 DEF TopicInv, TopicTypeOK
<1>3. HeardIsHandled'
  BY <1>1 DEF HeardIsHandled
<1>4. WayInv'
  BY <1>1 DEF TopicInv, WayInv
<1>. QED BY <1>2, <1>3, <1>4 DEF TopicInv

LEMMA OwnSend ==
  ASSUME TopicInv, topic = NONE, NEW cat \in {"rd", "wr"}, NEW u \in devs, NEW r \in Regs,
         Send(DevRegTopic(cat, u, r), TRUE)
  PROVE  TopicInv'
<1>1. u \in Uids /\ cat \in Categories /\ cat # "ev"
  BY DEF TopicInv, TopicTypeOK, Categories
<1>2. DevRegTopic(cat, u, r) \in Topics /\ ~Heard(DevRegTopic(cat, u, r))
  BY <1>1, RegTopicLevels DEF Heard
<1>. QED BY <1>2, SendKeepsInv

LEMMA HandledKeepsInv ==
  ASSUME TopicInv, DevEvHndl
  PROVE  TopicInv'
<1>. DEFINE unid == GetTopicField(topic, 5)
            regId == GetTopicField(topic, 7)
<1>1. at = "queue" /\ at' = "handled" /\ UNCHANGED <<devs, topic, own>>
  BY DEF DevEvHndl
<1>2. topic # NONE /\ topic \in Topics
  BY <1>1 DEF TopicInv, WayInv, TopicTypeOK
<1>3. found' = found \/ (unid \in devs /\ DevRegEvHndl(unid))
  BY DEF DevEvHndl
<1>4. ASSUME regId # NONE PROVE strtol[regId] \in Nat
  <2>1. PICK k \in 1..Len(topic) : IsField(topic, 7, k) /\ k \in Nat
    BY <1>4, <1>2, TopicLevels, FieldMissing
  <2>2. regId = Cut[topic[k]]
    BY <1>2, <2>1, TopicLevels, FieldFound
  <2>3. k >= 5
    BY <2>1, FieldsFinite DEF IsField
  <2>4. topic[k] \in Names
    BY <1>2, <2>1, <2>3, TopicLevels
  <2>. QED BY <2>2, <2>4, CutAssumption, RegAssumption
<1>5. found' \in [uid : devs, reg : Regs] \cup {NONE}
  <2>1. CASE found' = found
    BY <2>1 DEF TopicInv, TopicTypeOK
  <2>2. CASE unid \in devs /\ regId # NONE /\ strtol[regId] < DevDpCounts
             /\ found' = [uid |-> unid, reg |-> strtol[regId]]
    <3>1. strtol[regId] \in Regs
      BY <1>4, <2>2, RegAssumption DEF Regs
    <3>. QED BY <2>2, <3>1
  <2>. QED BY <1>3, <2>1, <2>2 DEF DevRegEvHndl
<1>6. TopicTypeOK'
  BY <1>1, <1>5 DEF TopicInv, TopicTypeOK
<1>7. HeardIsHandled'
  BY <1>1 DEF HeardIsHandled
<1>8. WayInv'
  BY <1>1 DEF TopicInv, WayInv
<1>. QED BY <1>6, <1>7, <1>8 DEF TopicInv

LEMMA CallbackKeepsInv ==
  ASSUME TopicInv, EtiMessageCb
  PROVE  TopicInv' /\ at' = "queue"
<1>1. at = "callback" /\ UNCHANGED <<devs, topic, own, found>>
  BY DEF EtiMessageCb
<1>2. topic \in Topics /\ Heard(topic)
  BY <1>1 DEF TopicInv, WayInv, TopicTypeOK
<1>3. at' = "queue"
  BY <1>2, HeardStarts DEF EtiMessageCb
<1>4. TopicTypeOK'
  BY <1>1, <1>3 DEF TopicInv, TopicTypeOK
<1>5. HeardIsHandled' /\ WayInv'
  BY <1>1, <1>3 DEF TopicInv, WayInv, HeardIsHandled
<1>. QED BY <1>3, <1>4, <1>5 DEF TopicInv

LEMMA TopicStep == TopicInv /\ [Next]_vars => TopicInv'
<1>. SUFFICES ASSUME TopicInv, [Next]_vars PROVE TopicInv'
  OBVIOUS
<1>1. CASE Publish
  BY <1>1, SendKeepsInv DEF Publish
<1>2. CASE DevReadPublish
  BY <1>2, OwnSend DEF DevReadPublish
<1>3. CASE DevWritePublish
  BY <1>3, OwnSend DEF DevWritePublish
<1>4. CASE EtiMessageCb
  BY <1>4, CallbackKeepsInv
<1>5. CASE DevEvHndl
  BY <1>5, HandledKeepsInv
<1>6. CASE UNCHANGED vars
  BY <1>6 DEF vars, TopicInv, TopicTypeOK, HeardIsHandled, WayInv
<1>. QED BY <1>1, <1>2, <1>3, <1>4, <1>5, <1>6 DEF Next

LEMMA TopicInit == Init => TopicInv
BY DEF Init, TopicInv, TopicTypeOK, HeardIsHandled, WayInv

LEMMA TopicInvariant == Spec => []TopicInv
BY TopicInit, TopicStep, PTL DEF Spec

(* A message sets only a register that a listed device has, for any topics *)
(* and any number of registers.                                            *)
THEOREM TopicTypes == Spec => []TopicTypeOK
<1>1. TopicInv => TopicTypeOK
  BY DEF TopicInv
<1>. QED BY <1>1, TopicInvariant, PTL

(* Whatever the filter lets through passes the test of the category, so no *)
(* copy of a topic is left behind in EtiMessageCb.                         *)
THEOREM NothingIgnored == Spec => []HeardIsHandled
<1>1. TopicInv => HeardIsHandled
  BY DEF TopicInv
<1>. QED BY <1>1, TopicInvariant, PTL

(* The driver's own rd and wr messages never set a register of its own.    *)
THEOREM NothingEchoes == Spec => []NoEcho
<1>1. TopicInv => NoEcho
  BY DEF TopicInv, WayInv, NoEcho
<1>. QED BY <1>1, TopicInvariant, PTL

-----------------------------------------------------------------------------
(* The fields of a topic that is heard: the sixth level is never empty, so *)
(* the fifth field is the UID or, where that is empty, "reg".              *)
LEMMA HeardFields ==
  ASSUME NEW t \in Topics, Heard(t)
  PROVE  /\ t[5] = Empty => GetTopicField(t, 5) = "reg"
         /\ t[5] # Empty => /\ GetTopicField(t, 5) = Cut[t[5]]
                            /\ GetTopicField(t, 7) # NONE =>
                                 \E k \in 7..Len(t) :
                                   /\ GetTopicField(t, 7) = Cut[t[k]] /\ t[k] # Empty
                                   /\ \A i \in 7..k - 1 : t[i] = Empty
<1>1. Len(t) \in Nat /\ Len(t) >= 6 /\ t[6] = "reg" /\ t[6] # Empty
  BY TopicLevels, NamesAssumption DEF Heard
<1>2. \A i \in 1..4 : t[i] # Empty
  <2>1. t[1] # Empty /\ t[2] # Empty /\ t[3] # Empty /\ t[4] # Empty
    BY TopicLevels, NamesAssumption
  <2>. QED BY <2>1
<1>3. CASE t[5] = Empty
  <2>1. 4 \in Nat /\ 4 + 2 <= Len(t) /\ t[4 + 1] = Empty /\ t[4 + 2] # Empty
    BY <1>1, <1>3
  <2>2. GetTopicField(t, 4 + 1) = Cut[t[4 + 2]]
    BY <1>1, <1>2, <2>1, FieldAfterEmpty
  <2>. QED BY <1>1, <1>3, <2>2, CutAssumption
<1>4. CASE t[5] # Empty
  <2>1. \A i \in 1..6 : t[i] # Empty
    BY <1>1, <1>2, <1>4
  <2>2. GetTopicField(t, 5) = Cut[t[5]]
    BY <1>1, <2>1, FieldIsLevel
  <2>3. ASSUME GetTopicField(t, 6 + 1) # NONE
        PROVE  \E k \in 6 + 1 .. Len(t) :
                 /\ GetTopicField(t, 6 + 1) = Cut[t[k]] /\ t[k] # Empty
                 /\ \A i \in 6 + 1 .. k - 1 : t[i] = Empty
    BY <1>1, <2>1, <2>3, FieldAfter
  <2>. QED BY <1>4, <2>2, <2>3
<1>. QED BY <1>3, <1>4

(* What is set is of the device the fifth level names and of the register  *)
(* the next level but one names, empty levels aside, unless a device is    *)
(* called "reg" or the UID is cut.                                         *)
THEOREM DeviceIsReached == Spec => []ReachesItsDevice
<1>1. Init => ReachesItsDevice
  BY DEF Init, ReachesItsDevice
<1>2. TopicInv /\ TopicInv' /\ ReachesItsDevice /\ [Next]_vars => ReachesItsDevice'
  <2>. SUFFICES ASSUME TopicInv, TopicInv', ReachesItsDevice, [Next]_vars
                PROVE  ReachesItsDevice'
    OBVIOUS
  <2>1. CASE at' # "handled"
    BY <2>1 DEF TopicInv, WayInv, ReachesItsDevice
  <2>2. CASE at' = "handled" /\ ~DevEvHndl
    <3>1. topic' # NONE /\ at' \notin {"callback", "unheard", "queue"}
      BY <2>2 DEF TopicInv, WayInv
    <3>2. UNCHANGED vars
      BY <2>2, <3>1
         DEF Next, Publish, DevReadPublish, DevWritePublish, Send, EtiMessageCb
    <3>. QED BY <3>2 DEF vars, ReachesItsDevice
  <2>3. CASE DevEvHndl
    <3>. DEFINE t == topic
                unid == GetTopicField(t, 5)
                regId == GetTopicField(t, 7)
    <3>. SUFFICES ASSUME found' # NONE, "reg" \notin devs, Cut[t[5]] = t[5]
                  PROVE  \E u, r : /\ found'.uid = u /\ found'.reg = r /\ u = t[5]
                                   /\ \E k \in 7 .. Len(t) :
                                        /\ r = strtol[Cut[t[k]]] /\ t[k] # Empty
                                        /\ \A i \in 7 .. k - 1 : t[i] = Empty
      BY <2>3 DEF DevEvHndl, ReachesItsDevice
    <3>1. t \in Topics /\ Heard(t) /\ found = NONE
      BY <2>3 DEF DevEvHndl, TopicInv, WayInv, TopicTypeOK
    <3>2. unid \in devs /\ regId # NONE /\ found' = [uid |-> unid, reg |-> strtol[regId]]
      BY <2>3, <3>1 DEF DevEvHndl, DevRegEvHndl
    <3>3. t[5] # Empty
      BY <3>1, <3>2, HeardFields
    <3>4. unid = t[5]
      BY <3>1, <3>3, HeardFields
    <3>5. PICK k \in 7..Len(t) : /\ regId = Cut[t[k]] /\ t[k] # Empty
                                 /\ \A i \in 7..k - 1 : t[i] = Empty
      BY <3>1, <3>2, <3>3, HeardFields
    <3>6. found'.uid = unid /\ found'.reg = strtol[regId]
      BY <3>2
    <3>. HIDE DEF unid, regId, t
    <3>. QED BY <3>4, <3>5, <3>6
  <2>. QED BY <2>1, <2>2, <2>3
<1>. QED BY <1>1, <1>2, TopicInvariant, PTL DEF Spec

(* The ev topic of a listed device's register, as the driver writes it,    *)
(* gets to that register.                                                  *)
THEOREM RegistersAreReached == Spec => []RegularArrives
<1>1. ASSUME NEW u \in devs, NEW r \in Regs, TopicInv
      PROVE  LET t == DevRegTopic("ev", u, r) IN
             /\ t \in Topics /\ t # NONE /\ Heard(t) /\ StartsAs(t, "ev")
             /\ Cut[u] = u => /\ GetTopicField(t, 5) = u /\ GetTopicField(t, 6) = "reg"
                              /\ GetTopicField(t, 7) = RegStr[r]
  <2>. DEFINE t == DevRegTopic("ev", u, r)
  <2>. HIDE DEF t
  <2>1. u \in Uids /\ "ev" \in Categories
    BY <1>1 DEF TopicInv, TopicTypeOK, Categories
  <2>2. /\ t \in Topics /\ Len(t) = 7 /\ t[3] = "ev" /\ t[4] = "dev"
        /\ t[5] = u /\ t[6] = "reg" /\ t[7] = RegStr[r]
    BY <2>1, RegTopicLevels DEF t
  <2>3. Heard(t) /\ t # NONE
    BY <2>2, NoneAssumption DEF Heard
  <2>4. \A i \in 1..7 : t[i] # Empty
    <3>1. t[1] # Empty /\ t[2] # Empty /\ t[3] # Empty /\ t[4] # Empty
      BY <2>2, TopicLevels, NamesAssumption
    <3>2. t[5] # Empty /\ t[6] # Empty /\ t[7] # Empty
      BY <2>1, <2>2, NamesAssumption, RegAssumption
    <3>. QED BY <3>1, <3>2
  <2>5. /\ GetTopicField(t, 5) = Cut[u] /\ GetTopicField(t, 6) = Cut["reg"]
        /\ GetTopicField(t, 7) = Cut[RegStr[r]]
    <3>1. ASSUME NEW n \in 1..7 PROVE GetTopicField(t, n) = Cut[t[n]]
      <4>1. Len(t) \in Nat /\ n \in 1..Len(t) /\ \A i \in 1..n : t[i] # Empty
        BY <2>2, <2>4
      <4>. QED BY <4>1, FieldIsLevel
    <3>. QED BY <2>2, <3>1
  <2>6. Cut["reg"] = "reg" /\ Cut[RegStr[r]] = RegStr[r]
    BY CutAssumption, RegAssumption
  <2>. QED BY <2>2, <2>3, <2>5, <2>6, HeardStarts DEF t
<1>2. Init => RegularArrives
  <2>. SUFFICES ASSUME Init, NEW u \in devs, NEW r \in Regs, topic = DevRegTopic("ev", u, r)
                PROVE  FALSE
    BY DEF RegularArrives
  <2>. QED BY <1>1, TopicInit DEF Init
<1>3. TopicInv /\ TopicInv' /\ RegularArrives /\ [Next]_vars => RegularArrives'
  <2>. SUFFICES ASSUME TopicInv, TopicInv', RegularArrives, [Next]_vars,
                       NEW u \in devs', NEW r \in Regs, topic' = DevRegTopic("ev", u, r),
                       at' \notin {"callback", "queue"}, Cut[u] = u
                PROVE  found' = [uid |-> u, reg |-> r]
    BY DEF RegularArrives
  <2>1. devs' = devs
    BY DEF Next, Publish, DevReadPublish, DevWritePublish, Send, EtiMessageCb, DevEvHndl, vars
  <2>2. topic' # NONE /\ Heard(topic')
    BY <1>1, <2>1
  <2>3. at' = "handled"
    BY <2>2 DEF TopicInv, WayInv, TopicTypeOK, HeardIsHandled
  <2>4. CASE UNCHANGED vars
    BY <2>3, <2>4 DEF vars, RegularArrives
  <2>5. CASE DevEvHndl
    <3>1. topic' = topic /\ strtol[RegStr[r]] = r /\ r < DevDpCounts /\ RegStr[r] # NONE
      BY <2>5, RegAssumption, NoneAssumption DEF DevEvHndl, Regs
    <3>2. /\ GetTopicField(topic, 5) = u /\ GetTopicField(topic, 6) = "reg"
          /\ GetTopicField(topic, 7) = RegStr[r] /\ StartsAs(topic, "ev")
      BY <1>1, <2>1, <3>1
    <3>. QED BY <2>1, <2>5, <3>1, <3>2 DEF DevEvHndl, DevRegEvHndl
  <2>. QED BY <2>3, <2>4, <2>5
           DEF Next, Publish, DevReadPublish, DevWritePublish, Send, EtiMessageCb
<1>. QED BY <1>2, <1>3, TopicInvariant, PTL DEF Spec
=============================================================================
