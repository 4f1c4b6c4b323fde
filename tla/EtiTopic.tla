------------------------------ MODULE EtiTopic ------------------------------
(***************************************************************************)
(* The topics of the ETI (src/eti.cpp, src/eti.h): what the driver         *)
(* publishes and subscribes to, and how the topic of a message that        *)
(* reaches it is taken apart to find the device and the register.          *)
(*                                                                         *)
(* A topic is the sequence of its levels, empty ones included.  A          *)
(* behaviour follows one message; what several of them do to each other is *)
(* in EtiClient, EtiWalk and RegAccess.                                    *)
(***************************************************************************)
EXTENDS Naturals, FiniteSets, SequencesExt

CONSTANTS
  CDNAME,              \* the driver's name
  Empty,               \* a level with no characters, between adjacent slashes
  Names,               \* what a level of a topic may be
  Uids,                \* the UIDs of devices
  Cut,                 \* the first 64 characters of a name
  strtol,              \* the number a name begins with, 0 when there is none
  RegStr,              \* a register's number as sprintf writes it
  DevDpCounts,         \* registers of a device
  MaxTail,             \* bound: levels after the fourth
  NONE

Regs       == 0 .. DevDpCounts - 1
Categories == {"rd", "wr", "ev"}
TopicOf(cat, key, tail) == <<"eti", CDNAME, cat, key>> \o tail
Topics ==
  {TopicOf(cat, key, tail) :
     cat \in Categories, key \in {"dev", "devices"}, tail \in BoundedSeq(Names, MaxTail)}

ASSUME NamesAssumption ==
  /\ {Empty, "reg"} \cup Uids \subseteq Names
  /\ Empty \notin {"eti", CDNAME, "dev", "devices", "reg"} \cup Categories \cup Uids
ASSUME CutAssumption ==
  /\ Cut \in [Names -> Names]
  /\ \A l \in Names : Cut[Cut[l]] = Cut[l] /\ (Cut[l] = Empty <=> l = Empty)
  /\ Cut["reg"] = "reg" /\ \A r \in DOMAIN RegStr : Cut[RegStr[r]] = RegStr[r]
ASSUME RegAssumption ==
  /\ DevDpCounts \in Nat /\ strtol \in [Names -> Nat]
  /\ RegStr \in [Regs -> Names \ {Empty}]
  /\ \A r \in Regs : strtol[RegStr[r]] = r
ASSUME BoundAssumption == MaxTail \in Nat /\ MaxTail >= 3   \* those of a register's topic
ASSUME NoneAssumption  == NONE \notin Names /\ NONE \notin Topics

VARIABLES
  devs,                \* the UIDs in the device list
  topic,               \* the topic of the message, NONE before it is published
  own,                 \* whether the driver itself has published it
  at,                  \* how far the message has come
  found                \* the device and register it has set, or NONE

vars == <<devs, topic, own, at, found>>

Init ==
  /\ devs \in SUBSET Uids
  /\ topic = NONE /\ own = FALSE /\ at = "none" /\ found = NONE

-----------------------------------------------------------------------------
DevKeyTopic(cat)       == <<"eti", CDNAME, cat, "dev">>
DevRegTopic(cat, u, r) == DevKeyTopic(cat) \o <<u, "reg", RegStr[r]>>

(* strncmp with the text of DevKeyTopic, of which the last level may be    *)
(* the beginning of a longer word.                                         *)
StartsAs(t, cat) ==
  \E key \in {"dev", "devices"} : IsPrefix(<<"eti", CDNAME, cat, key>>, t)

(* strtok_r takes adjacent slashes for one, so that field key is in the    *)
(* key-th level that is not empty; 64 bytes of it are copied.              *)
Fields(t, k) == {i \in 1..k : t[i] # Empty}

IsField(t, key, k) == t[k] # Empty /\ Cardinality(Fields(t, k)) = key

GetTopicFieldFromZero(t, key) ==   \* a slip: keys are counted from 0
  IF \E k \in 1..Len(t) : IsField(t, key + 1, k)
  THEN Cut[t[CHOOSE k \in 1..Len(t) : IsField(t, key + 1, k)]] ELSE NONE

GetTopicField(t, key) ==
  IF \E k \in 1..Len(t) : IsField(t, key, k)
  THEN Cut[t[CHOOSE k \in 1..Len(t) : IsField(t, key, k)]] ELSE NONE

(* The broker: + stands for one level, # for those that are left, if any.  *)
Matches(filter, t) ==
  /\ Len(t) >= Len(filter) - 1
  /\ \A k \in 1 .. Len(filter) - 1 : filter[k] \in {"+", t[k]}

FilterOfDevices == DevKeyTopic("ev") \o <<"#">>   \* a slip: all below the devices
FilterOfAllCategories == DevKeyTopic("+") \o <<"+", "reg", "#">>   \* a slip: rd and wr too

(* The filter the client subscribes with.                                  *)
SubToDeviceCatTopic == DevKeyTopic("ev") \o <<"+", "reg", "#">>

Send(t, mine) ==
  /\ topic' = t /\ own' = mine
  /\ at' = IF Matches(SubToDeviceCatTopic, t) THEN "callback" ELSE "unheard"
  /\ UNCHANGED <<devs, found>>

(* Anyone publishes.                                                       *)
Publish == topic = NONE /\ \E t \in Topics : Send(t, FALSE)

DevReadPublish ==
  topic = NONE /\ \E u \in devs, r \in Regs : Send(DevRegTopic("rd", u, r), TRUE)

DevWritePublishAsEvent ==   \* a slip: under the category of events
  topic = NONE /\ \E u \in devs, r \in Regs : Send(DevRegTopic("ev", u, r), TRUE)

DevWritePublish ==
  topic = NONE /\ \E u \in devs, r \in Regs : Send(DevRegTopic("wr", u, r), TRUE)

(* mosquitto's thread: other categories are left, with a copy of the topic.*)
EtiMessageCb ==
  /\ at = "callback"
  /\ at' = IF StartsAs(topic, "ev") THEN "queue" ELSE "ignored"
  /\ UNCHANGED <<devs, topic, own, found>>

(* What is done for the device that has been found: a field that begins    *)
(* with no number is register 0.                                           *)
DevRegEvHndlUnbounded(u) ==   \* a slip: any register will do
  LET regId == GetTopicField(topic, 7)
  IN  found' = IF regId # NONE THEN [uid |-> u, reg |-> strtol[regId]] ELSE NONE

DevRegEvHndl(u) ==
  LET regId == GetTopicField(topic, 7)
  IN  found' = IF regId # NONE /\ strtol[regId] < DevDpCounts
               THEN [uid |-> u, reg |-> strtol[regId]] ELSE NONE

(* The ETI thread.                                                         *)
DevEvHndl ==
  LET unid == GetTopicField(topic, 5)
  IN  /\ at = "queue" /\ at' = "handled"
      /\ IF StartsAs(topic, "ev") /\ unid \in devs /\ GetTopicField(topic, 6) = "reg"
         THEN DevRegEvHndl(unid)
         ELSE UNCHANGED found
      /\ UNCHANGED <<devs, topic, own>>

Next == Publish \/ DevReadPublish \/ DevWritePublish \/ EtiMessageCb \/ DevEvHndl

Spec == Init /\ [][Next]_vars

-----------------------------------------------------------------------------
(* Types: a message sets only a register its device has.                   *)
TopicTypeOK ==
  /\ devs \subseteq Uids /\ own \in BOOLEAN
  /\ topic \in Topics \cup {NONE}
  /\ at \in {"none", "unheard", "callback", "ignored", "queue", "handled"}
  /\ found \in [uid : devs, reg : Regs] \cup {NONE}

(* What is set is of the device that the fifth level names, whatever empty *)
(* or further levels the topic has, and the register the first one after   *)
(* "reg" that is not empty: what GetTopicField makes of a topic is what    *)
(* the broker makes of it.  It takes that no device is called "reg", which *)
(* GetTopicField would see in the place of an empty UID, and that the UID  *)
(* is not cut.                                                             *)
ReachesItsDevice ==
  found # NONE /\ "reg" \notin devs /\ Cut[topic[5]] = topic[5] =>
    /\ found.uid = topic[5]
    /\ \E k \in 7 .. Len(topic) :
         /\ found.reg = strtol[Cut[topic[k]]] /\ topic[k] # Empty
         /\ \A i \in 7 .. k - 1 : topic[i] = Empty

(* The ev topic of a register, as the driver's own format writes it, gets  *)
(* through subscription, category test and GetTopicField to that register, *)
(* if its UID fits in what GetTopicField copies.                           *)
RegularArrives ==
  \A u \in devs, r \in Regs :
    topic = DevRegTopic("ev", u, r) /\ at \notin {"callback", "queue"} /\ Cut[u] = u =>
      found = [uid |-> u, reg |-> r]

(* Whatever the broker passes on also passes EtiMessageCb's test of the    *)
(* category, behind which the copy of a topic would be left.               *)
HeardIsHandled == at # "ignored"

(* What the driver publishes itself, under the tree it subscribes to,      *)
(* never comes back and overwrites a register.                             *)
NoEcho == own => found = NONE
=============================================================================
