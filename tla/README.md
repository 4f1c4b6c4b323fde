# A specification of the SmartServer IDL driver template

The repository is a driver that runs between Dialog's IDL library (`libidl.so`,
binary only) and an MQTT broker that carries the "Example Test I/O" (ETI)
registers of its devices. This directory models the driver in TLA+, checks the
models with TLC, and proves the main results for every size with TLAPS.

## The system

| Part | Code | State | Operations |
|---|---|---|---|
| Device list and storage | `example.cpp` 233-405, `common.h` 70-112 | `gDrvInfo.pHeadDevNode`, the ring of `T_DevNode`, a `T_DevSto` per device, `deviceEntry`, `IdlDev.idiDevData` | create (`DevSetCustomIdiDevData`), delete (`DevRemoveCustomIdiDevData`), replace a UID |
| Datapoint storage | `example.cpp` 184-229, 1057-1106 | `pDevDpVector`, `pDevDpValVector`, `devDpEntry`, `IdlDatapoint.idiDpData` | bind a datapoint, read its XIF column, set a register |
| Callbacks, action queue, driver thread | `example.cpp` 408-851, 1113-1395 | `idiDevActQueue`, the `IdiActionCB` being served, its clock, its args | ten callbacks, `ProcAsynThrdFunc`, `IdiBlockWhileBusy`, `IdiGenericResultFsm` |
| ETI client | `eti.cpp` | the mosquitto session, `etiDevActQueue`, the copies of topics and payloads | publish read and write, receive ev messages, set registers |
| Value conversions | `example.cpp` 863-1054 | the cJSON value of a register, the datapoint's raw and actual value buffers | defaults, ranges, enums, strings |
| Startup | `main.cpp`, `example.cpp` 59-137, `eti.cpp` 378-449, `template/cd-template.service` | threads, queues, what a crash leaves behind | create queues, connect, start, restart |
| IDL library | `idl/include/*.h` | devices, datapoints, pending requests | calls the callbacks, takes the results |
| Packaging | `build.sh`, `Makefile`, `template/` | files on the SmartServer | setup, reset, start on boot |

How they interact. The library's threads call the `On...Cb` routines. Each fills
an action control block, sends it to `idiDevActQueue` and returns. The driver
thread takes the blocks out one at a time and runs `IdiGenericResultFsm` on each
until it is no longer busy or its time is up; the state machine changes the
storage, publishes to the broker and calls an `Idl...Result` function. A third
thread, `vTaskEtiDevAct`, takes ev messages from its own queue, walks the device
list and sets registers. The driver thread and the ETI thread share the list and
the registers without a lock.

What is hard here. The library, the driver thread, the clock and the ETI thread
interleave. A request is served long after the library made it, when the device
may have changed or gone. A busy request is run again from its start. `calloc`
and `mosquitto_publish` fail. Two vectors, the device limit and the queue have
boundaries. The datapoints keep pointers into storage that a deletion frees. The
process may die and be started again, and its POSIX queues outlive it with the
pointers that are in them; the connection to the broker comes and goes.

What makes each part correct:

- *List and storage*: one ring, in order of creation, that holds exactly the
  blocks owned by devices; each block has one owner; the counter counts them.
- *Datapoint storage*: a datapoint has its own slot in its own device's block and
  the register of its XIF row; a shared register keeps its value.
- *Driver thread*: each accepted request is answered once, in order and in the
  end; nothing is done twice; no stale pointer is followed; a read sees the last
  write.
- *ETI client*: an ev message reaches the device that has its UID, no freed node
  or value is touched, each copy of a message is freed once, and events go on
  arriving.
- *Values*: a read gives back what a write or an ev message has put there; texts
  and cJSON values have one owner.
- *Startup*: the driver comes up whatever its last life has left behind.

## The modules

| Module | What it is |
|---|---|
| `DevList` | Abstract: an ordered list with append and delete, as its nodes and which is before which. |
| `DevRing` | `T_DevNode`, `pHeadDevNode`, the four ways to link and unlink, the walk. |
| `DevStore` | Extends `DevRing` by the blocks, the datapoints and the routines of `example.cpp` that change them; the library's side of a device's life. |
| `RequestService` | Abstract: requests accepted, and answered once each, in order, in the end. |
| `IdiDriver` | Extends `DevStore` by the callbacks, the queue, the driver thread, the retries, the clock and the answers. |
| `EtiWalk` | Extends `DevRing` by the ETI thread's walk and the driver thread's statements that link and unlink a node, one memory access a step; the ETI queue. |
| `EventFeed` | Abstract: ev messages accepted, and handled at most once, in order, in the end. |
| `EtiClient` | The life of the ETI client: systemd, `IdiCreateQueue` and `EtiInit` call by call, the broker session, `EtiMessageCb`, the queue, `vTaskEtiDevAct` and the memory of the messages; crashes, failing calls and dropped connections. |
| `EtiTopic` | The way of one message from its topic to the register it sets: the formats the driver publishes and subscribes with, the test of the category and `GetTopicField`. |
| `DpValue` | The conversions between a datapoint's value and the cJSON value in its register, as operators. |
| `RegAccess` | Extends `DpValue` by the registers of one device: binding, writes and reads on the driver thread and `DevRegEvHndl` on the ETI thread, statement by statement; the values and texts that are allocated. |
| `MCDevStore`, `MCIdiDriver`, `MCEtiWalk`, `MCEtiTopic`, `MCRegAccess` | Constants for TLC; `EtiClient` is checked itself. |
| `DevStoreProofs` | Proofs: the ring, the storage, the slots. |
| `IdiDriverProofs`, `RequestProofs`, `ReadProofs` | Proofs: the driver as a store and as a server of requests; what waiting requests say of their devices; what reads return, and when they succeed. Each extends the one before. |
| `EtiWalkProofs`, `EtiClientProofs`, `EtiTopicProofs`, `RegAccessProofs` | Proofs of the ETI side, a module each. |

Refinements tie them: `DevStore` implements `DevList` (`ListSpec`),
`IdiDriver` implements both `RequestService` (`ServiceSpec`) and `DevStore`
(`StoreRefined`), and `EtiClient` implements `EventFeed` (`FeedSpec`). So what is checked or proved of the storage under requests in
any order also holds with the queue in front of it. The ETI thread appears at
four grains: in `EtiClient` handling a message is one step, in `EtiTopic` its topic
is taken apart, in `EtiWalk` the walk of the list and in `RegAccess` the access to a
register.

### How state and actions correspond to the code

- An element of `Sto` is the address of a `T_DevSto` together with its two vectors
  and its list node; `alloc` says which are allocated. What a block that is not
  allocated would hold is kept blank. The code frees all four together.
- `SetNoMemory` is a `calloc` that fails for one of the first three allocations
  (a `T_DevSto` is then leaked: it is in `alloc` and nobody's); `SetStored`
  without `Link` is a failure of the fourth, after which the device has storage
  but is not in the list. `DevSetCustomIdiDevData` returns `IErr_Success` on every
  path, as the code does.
- `Walked` is the set of nodes `while (pCurNode)` visits, stated as a least fixed
  point, so that it says something of a broken ring too. `Ahead` says in the same way
  that a walk cannot get round a node, which gives the order for `ListSpec`.
- `idiDpData` is a pair of block and slot. A deletion leaves it as it is, as the
  code does. `IdiDpProcessCustomColum` covers a datapoint that is not set up and
  one that is; setting up a slot whose block is gone (the third case, undefined
  in the code) has no step; the same holds of `FsmWrite` and `FsmRead`. A request
  carries whether it was made after the deletion of its device was asked for
  (`late`, which is history). `NoDanglingUse` states that for a request made in time
  such a case does not come up; for a late one it does (`poll_deleting`).
- `IsFsmProcessingDone` is the choice between `StillBusy` and the rest of the
  state machine, where `ENABLE_SIMULATION` is defined; otherwise it is always done.
- `Round` is `IdiBlockWhileBusy` after one run of the state machine. `Tick` is the
  passing of time; the clock stops at the timeout because later is the same.
- `mosquitto_publish` of a write returns any of `PublishRc`; that of a read is not
  looked at.
- The library's side is external: `IdlNewDev` and the rest say what an `IdlDev`
  goes through as the driver can tell. A UID belongs to one device at a time; a
  device is deleted once it has been created; an `IdlDev` is freed when it is gone
  and no request about it is pending.
- In `EtiWalk` the driver thread's place is `dpc` and the ETI thread's is `epc`.
  Memory only one thread can see at the time is set in one step (`FillNode`), all
  else statement by statement, in the order of the source; locals that are out of
  use are reset. What the ETI thread would do with a freed node is undefined, so
  such a step does not exist, and `NoFreedNode` and `UndisturbedWalkIsSafe` say
  whether it comes to that. Two variables are history: `target`, the node an
  ev message was for when its walk began, and `disturbed`, whether a deletion
  overlapped the walk. A register keeps the UID of the message that set it last,
  and is set in one step.
- In `EtiClient` a message is known by its number; `Bufs` are the copies of its
  topic and payload. `main` is the call `IdiCreateQueue` or `EtiInit` has come to,
  and each of them may fail, which ends the process as `exit` does. `CreateThread`
  has a third outcome: when `pthread_create` fails it returns the 0 of
  `pthread_attr_init`, and the driver runs on without the thread. The return code of
  `mosquitto_subscribe` is not looked at: where `SubscribeFails`, the client may go on
  without a subscription. `mqueue` is the
  queue of that name in the system, which a crash leaves as it is. What the broker
  keeps of a session is external: with a clean session it is discarded when the
  connection ends, and mosquitto's `loop_start` thread connects again but does not
  subscribe. Messages that a crash, a dropped connection or a failing call takes
  are in `lost`.
- In `EtiTopic` a topic is the sequence of its levels, `Empty` ones included; field
  `key` of `GetTopicField` is in the `key`-th level that is not empty, and
  `Cut` and `strtol` say what is left of a name that is copied or read as a number.
  What the broker does with a filter is external. `at` is "unheard" for a message
  the subscription does not match and "ignored" for one `EtiMessageCb` leaves. The
  walk of the list is whether the UID is in `devs`.
- In `RegAccess` a register holds a pointer, `heap` says what the allocated values
  are, and an address freed may be given out again. The model knows a value
  by its node; what is below the node is left out. `DeviceDeleted` frees the vector of
  registers and not the values (`example.cpp` 379); the values drop out of `heap`, which
  is what is allocated for the present life of the device. `clash` is history:
  two operations on one register have met, one of them replacing its value. A read
  that meets an ev message with the value the register has is no clash. After a
  clash the code's behaviour is undefined, so the run checks such a state and does
  not go on from it. `UIntMod` is 2^32 scaled down. What the library does with the
  two texts between reads is external: it may free one and forget it or keep one
  text for both. The texts it has for native datapoints are taken to be JSON
  (`NativeAssumption`).
- `DpValue` has integers for doubles and knows of strings only their lower-case
  form and what they parse to. cJSON is external.
- A write writes its own number, so a read tells which write it sees; `DefVal`
  stands for what `GenerateDpDefVal` makes; `Junk` for a JSON value that is no
  number for a datapoint of type double.

## The runs

| Run | Bounds | Properties |
|---|---|---|
| `dev_store` | 4 devices, limit 3, 3 blocks, a datapoint that is announced, `calloc` may fail; symmetric in devices and blocks | `RingConsistent`, `WalkReachesAll`, `StorageOwned`, `DeviceCount`, `StoreTypeOK`, `ListSpec` |
| `idi_data` | 1 device, 2 datapoints on register 0 with multipliers, queue of 2, 7 requests | `ReadReturnsLastWrite`, `AnnouncedIsReadable` |
| `idi_queue` | 2 devices, 3 UIDs, queue of 2, 5 device requests | `EventsFindDevice`, `ArgsHeld`, `StoredIsLinked`, `ServiceSpec` |
| `idi_busy` | simulation build, 2 devices, one of them without a handle, 2 blocks, a numeric and a string datapoint, all callbacks, ETI events, queue of 2, 4 requests, `calloc` may fail, devices may be polled while they are deleted | `DriverTypeOK`, `AnswersInOrder`, `NoDanglingUse`, `DpSlotsOwn`, `StoreRefined`, `GivenUpOnlyInTime` |
| `eti_walk` | 3 nodes, 3 UIDs, ETI queue of 1, 2 ev messages | `RingAtRest`, `EventReachesDevice`, `UndisturbedWalkIsSafe`, `WalkEnds` |
| `eti_client` | 4 messages of any category, ETI queue of 2, 2 starts an interval, 3 faults, `mosquitto_subscribe` may fail | `ClientTypeOK`, `NoStaleMessage`, `HeapOwned`, `NoEventVanishes`, `FeedSpec`, `ComesUp` |
| `reg_access` | 2 registers: a number and an enumeration share one, a text and a native value the other; 6 ev messages; any number of deletions | `RegTypeOK`, `ApartIsSafe`, `OnlyDeletionLoses`, `TextsOwned`, `ReadsBack` |
| `eti_topic` | all topics of at most 4 levels after the fourth, out of 7 names; 4 UIDs, any of them listed; 2 registers | `TopicTypeOK`, `ReachesItsDevice`, `RegularArrives`, `HeardIsHandled`, `NoEcho` |
| `eti_race` | as `eti_walk` | `NoFreedNode`, violated |
| `protocol_err` | `PublishRc = {0, 2}` | `AtMostOneAnswer`, violated |
| `eti_lost` | 2 messages, 1 fault, `mosquitto_subscribe` succeeds | `EventsAreHeard`, violated |
| `poll_deleting` | 1 device, 1 datapoint, 4 requests, a library that polls a device it deletes | `DeletedReadFindsNothing`, violated |

Why the bounds are enough for the questions asked. Three linked nodes give every
shape of unlinking (only, head, inner, last) and the fourth device is refused or waits
for a place; a failed `calloc` may take a block for good. In `idi_busy` one of two
datapoints has an address outside the registers, and in `idi_data` two share one,
which gives every branch of the binding. Seven requests are a creation, two announcements, two writes and
reads and a deletion, or a deletion and a second life of the device in the same
block. A queue of two is full, partly full and empty next to a request in service.
Timeouts are one or two ticks: a retry before, at, and no retry after. Nothing in
the code compares two devices except by pointer and UID. Three UIDs let two
replacements overlap: the second may bring, when it is served, the UID that the
first device has given up and its block still has.

`MaxReqs` and `MaxAnswers` only end a run: `MaxReqs` in the guard of `Send`,
`MaxAnswers` in `Answer`. `MaxAnswers` (9) exceeds `MaxReqs` (at most 7), so it
stops only a request that is answered more than once. `CHECK_DEADLOCK FALSE` is
set throughout: the driver rests when no request is made, and in the data runs
all requests of the bound are used up. `EvPayloads` is empty where a read is
compared with writes, as ev messages change registers too.

Fairness: `WF_vars(Worker)` only. `ProcAsynThrdFunc` is a thread that is never
stopped (`gDrvInfo.stat` is never set to `IdiStop`), so it goes on when it can:
it opens its queue, receives, and runs the state machine. Nothing is assumed of
the library, the clock or the ETI thread. In `idi_queue` the state machine is
never busy, so no assumption on the coin in `IsFsmProcessingDone` is needed.

In `eti_walk` it is `WF_vars(vTaskEtiDevAct)`, for the same reason: the ETI
thread's loop is never stopped. The driver thread need not go on.

Three nodes suffice for `eti_walk`: the one the walk stands at, one linked or
removed before and one behind it; the second message starts a walk in a list the
first has seen change.

In `eti_client` it is weak fairness of `Start` and `StartLimitHit` (systemd has
`Restart=always`), of `EtiInit` (a call returns in the end), of the network thread
(mosquitto's loop runs and connects again) and of the ETI thread. Nobody has to
publish and no interval has to pass, so `failed` is a possible end; `ComesUp`
says that it takes `StartLimitBurst` faults. Faults are bounded by `MaxFaults`,
without which "stays up" would not make sense. `FeedSpec` promises handling in the
end only while there is a thread to do it (`Unattended`), which is the case unless
`pthread_create` has failed.

Three faults let a crash, a second one during the restart, and the start limit
with one more happen; a queue of two with four messages is full while one is in
the network thread's hands and one in the ETI thread's. In `reg_access` three
values at a time are one in each register and the new one of an ev message; two
registers let the threads be at the same one and at different ones. The
enumeration has a label that another equals but for case and a written number
without label; one of the ev messages is the text "invalid", one clears, one's
register is no number, one's is negative and one's is 2^32.

Four levels in `eti_topic` are a UID, "reg", the register and one empty or further
level before, between or after them. Of the UIDs one is also a register's number, one
is the word "reg", and one is cut to another; of the registers one is out of range.
`GetTopicField` looks at seven fields, and a fifth level would only come after them or
be a second empty one.

What the violations show:

- `eti_race`: the driver thread frees the node the ETI thread stands at. Since
  `calloc` may give the address to another device, the walk could also set that
  device's register. `eti_walk` shows that creations, on the other hand,
  never disturb a walk.
- `protocol_err`: the result of a write is mosquitto's return code;
  `MOSQ_ERR_PROTOCOL` is 2, the number of `IErr_IdiBusy`, and the write is done
  and answered over and over until its timeout.
- `eti_lost`: after the connection has dropped and come back, the client is
  connected and not subscribed; no ev message arrives any more. The run lets no
  `mosquitto_subscribe` fail, so that the reconnect alone is to blame; a failing one,
  whose return code `eti.cpp` 343 ignores, has the same end.
- `poll_deleting`: a deletion leaves `dp->idiDpData` pointing to freed storage. The read
  (`example.cpp` 1329) has a message for a device that "possibly has been deleted", but
  it comes for a NULL pointer, and a pointer that was set is never NULL again: a read
  asked for while the deletion is queued goes on into the freed vector.

More differences are in the models without a run of their own:

- A device beyond `CDDEVLIMIT`, or one whose allocation fails, is answered
  `IErr_Success` (`example.cpp` 255, 309-326) though it has no storage; its datapoints
  can be neither bound nor read. `dev_store` and `DeviceCount` show that the storage
  stays whole all the same.
- A request that is busy until its timeout (simulation build) is dropped without a
  result, though the state machine's comment (`example.cpp` 1164-1166) says that the
  result is finally called. `GivenUpOnlyInTime` says that this is the only case and that
  all its time was used.
- The deletion of a device loses the value of every register (`example.cpp` 379), though
  1222 says that it frees the device's storage. `OnlyDeletionLoses` says that nothing else
  loses a value as long as the threads have not met.
- A failing `mosquitto_subscribe` is not noticed (`eti.cpp` 343): no ev message is heard.
- A device whose UID has more than 64 characters (`common.h` allows 132) is not found by
  its events, as `GetTopicField` copies no more; a device whose UID is those 64
  characters has its register set instead. `eti_topic` shows that with shorter UIDs, and
  no device called "reg", what `GetTopicField` makes of a topic is what the broker makes
  of it, though `strtok_r` skips empty levels. That needs the filter: one that ended
  after "dev" would let through topics whose fields have moved up.

## The proofs

The assumptions are those `DevRing`, `DevStore`, `IdiDriver`, `EtiClient`, `EtiTopic`
and `RegAccess` name: finite sets of devices, datapoints and blocks, `NULL` and `NONE`
different from what they must not be, no name of the formats or UID empty, copying 64
characters of a name twice the same as once, and the types of the parameters. TLC evaluates
them in every run. What a theorem needs beyond them is in its own ASSUME:

| Assumption | Needed by | Why |
|---|---|---|
| `IErr_IdiBusy \notin PublishRc` | the results' order, `DriverServes`, `ReadsAreRight`, `AnnouncedAreReadable` | a publication answered with 2 is done and answered again (`protocol_err`) |
| `IErr_Failure \notin PublishRc` | `ReadsAreRight` | 1 is also `MOSQ_ERR_NOMEM`: such a write is in its register though its result says failure, and the property counts the writes by their results |
| `EvPayloads = {}` | `ReadsAreRight`, `AnnouncedAreReadable` | ev messages change registers too, and may clear one; `RegAccess` has both |
| `~AllocFails` | `StoredAreLinked`, `NoBlockIsLost`, `AnnouncedAreReadable` | a device whose last `calloc` fails is not in the list (`SetStored`) |
| `~PollWhileDeleting` | `AnnouncedAreReadable` | without it it is false: a datapoint may be announced of a device whose storage is freed |
| `~ENABLE_SIMULATION` | `NothingIsLost`, `DriverServes`, `EventsComeRight`, `AnnouncedAreReadable` | the shipped build: a request that is busy until its timeout is dropped |
| `Room`: no more devices with a handle than `CDDEVLIMIT` and blocks | `AnnouncedAreReadable` | a device beyond the limit is created without storage (see above) |


- **`StoreInv`** (`DevStoreProofs`) is `StoreTypeOK`, `RingConsistent`,
  `WalkReachesAll`, `StorageOwned` and `DeviceCount` together. None is inductive
  alone: unlinking a node keeps the ring consistent only for a linked node, which
  it is because the walk finds it and the walk visits linked nodes only; linking
  a block keeps the ring because a block not allocated is not linked, which is
  ownership; the counter stays positive because the deleted device was counted,
  and below the limit only as a count of distinct owners. The lemmas of the
  pointers come first: each way of linking and unlinking preserves
  `RingConsistent`, adds or removes one node, and keeps one ring. That a walk
  still reaches everything is shown with closed sets: a set closed under the new
  `pNext` gives one closed under the old.
- **`SlotsAreOwn`** (`DevStoreProofs`): `DpSlotsOwn` is inductive together with
  `StoreInv`. A slot is given out at `devDpEntry`, above those in use; a device
  without storage has no datapoint set up, so a new block starts clean; and a
  block with one owner keeps what is done to one device away from another.
  **`StoredAreLinked`** excludes failing allocations; **`NoBlockIsLost`**, too: each
  allocated block is then some device's. **`SlotsAreCounted`**: `devDpEntry` is the
  number of datapoints set up in a block.
- **`RingIsList`** (`DevStoreProofs`): the ring implements `DevList`. A walk has a
  node `Ahead` when each set it does not leave, but by being back at the head, holds
  that node. For linking and for each way of unlinking, such a set of the new ring
  gives one of the old and the other way round, so a step changes the order only as
  `DevList` does; that the new node comes after all others rests on `LastIsAhead`:
  the last node is ahead of every other.
- **`DriverImplementsStore`** (`IdiDriverProofs`): with `QueueTypeOK` (queued
  numbers are requests), every step of `IdiDriver` is one of `DevStore` or leaves
  it alone. **`DriverStorage`** carries every storage invariant over.
- **`AnswersAreInOrder`, `AnswersAreUnique`, `NothingIsLost`** (`IdiDriverProofs`):
  every step is one of five kinds of queue step. `OrderInv` says that answers,
  the request in service and the queue are one ascending sequence; it needs that
  a round which answered does not leave the request in service, which is where
  `IErr_IdiBusy \notin PublishRc` comes in. `KeptInv` is that nothing drops out
  of that sequence, and needs a build that is never busy. The run `protocol_err`
  shows that the first assumption is needed; without the second, timeouts drop
  requests.
- **`NothingDangles`, `EventsComeRight`, `DriverTypes`** (`RequestProofs`): what a
  waiting request says of its device. `Fifo`: the request in service is the oldest.
  `Requests`: a device with a request pending is not freed, and at most one deletion
  of it is pending, while it is being deleted. `Follows`: the requests for a device's
  datapoints that were made in time are older than its deletion, so while one of them
  is pending the deletion has not been served. `Bare`: a device the driver does not
  handle has no storage. With `DpSlotsOwn` and `StorageOwned` a slot such a request
  looks at is then in its own device's block, which is allocated. Nothing is assumed of
  `calloc`, the build or the polling; requests made late are left to `poll_deleting`,
  which shows that they may find the block freed. `Uniquely`: a block has its device's UID unless a
  replacement waits, and no two devices that are present have the same. It needs
  `~ENABLE_SIMULATION`: a replacement given up on its timeout leaves the old UID.
- **`BusyGetsItsTime`** (`RequestProofs`) covers that build: the only round that takes
  the request in service away without a result is a busy one at its timeout.
- **`DriverServes`** (`RequestProofs`): the driver implements `RequestService`, but for
  its fairness. What is to be answered are the pending requests that have a result;
  accepting adds the youngest of them, and the request in service is the oldest
  (`CurrentIsOldest`), so its result is the answer `RequestService` gives next.
- **`ReadsAreRight`** (`ReadProofs`): the invariant relates the registers to the
  results. `ValuesInv`: a datapoint of a usable block finds in its register the last
  of the writes to it that are answered and not followed by a deletion (`Until`), or
  the default. `ReadsInv`: each read given has the value of those before it. `OrderInv`
  joins the two: when a read is served, all that is older is answered and all that is
  answered is older, so the register's present value is the one the property asks
  for, and no later result changes it (`UntilOfOther`). A write joins the set, a
  deletion empties it (`UntilOfWrite`, `UntilOfDelete`), a creation finds it empty and
  its registers blank (`Blank`), and binding a second datapoint to a register leaves
  the value there (`DpCreateFills`). Every other step is `Silent`: it gives no result
  of interest and touches no register. `DpSlotsOwn` keeps one datapoint's row
  from being another's.
- **`AnnouncedAreReadable`** (`ReadProofs`) says when a read does succeed. `Past`: a
  request that waits no more is older than those that do. `Creations`: a created
  device has storage, and the creation of one that is not created yet is the oldest
  request about it; so when an announcement is served its device has storage, for
  which there is room because each allocated block is a device's (`NoLostBlock`)
  and `deviceEntry` counts the devices that have one. A slot is free for each
  datapoint because `devDpEntry` counts those set up (`SlotCount`).
  `Announcements`: once served, the datapoint stays set up until a deletion is
  answered, which by `Follows` and `Past` comes after the announcement. `Fillings` and
  `Numbers`: what is set up has a value, and the value is a number.
- **`RegTypes`, `ApartThreadsAreSafe`, `OnlyADeletionLosesValues`, `TextsHaveOneOwner`,
  `ReadsAnswerTheLastWrite`** (`RegAccessProofs`): `RegInv` is
  an invariant of the two threads at the grain of a statement. `ValuesInv` says, as
  long as they have not met on a register, what each register leads to at each of the
  threads' places: no two registers to one value, none but the one being replaced to
  a freed value, and an ev message's new value to nobody else; what is allocated for the
  present life of the device is exactly that. A deletion empties registers and `heap`
  together. `TextsInv` follows the
  two text pointers of a datapoint through the library's changes. `ReadsInv` says what
  a register's value is by its origin: the conversion of what was written through the
  datapoint it was written through, or the ev message's. That a read gives back what
  was written is then a fact of the conversions alone, of labels that are
  looked up in the order of the enumeration.
- **`NothingStale`, `CopiesOwned`, `EventsKept`, `EventsInOrder`**
  (`EtiClientProofs`): the invariant has three parts. `TypeInv` says how far the
  process must have come for a thread to hold a message, so that a queue left
  over is not read before it has been replaced, and that only `ev` messages come.
  `Order` says that the messages further on, from the wire to the handled ones,
  are the older ones: hence no two have the same number, and what `FreeMessage`
  frees is nobody else's. `Memory` says that each message owns allocated copies
  and that only those of a failed `mq_send` have no owner. `EventsKept` is an
  action property: each kind of step moves a message on, or counts it as lost.
  The bounds `MaxMsgs` and `MaxFaults` are arbitrary in these proofs.
- **`FeedServes`** (`EtiClientProofs`): hence the client implements `EventFeed`, but for
  its fairness. `OnTheWay` grows only by a message younger than all of them, shrinks
  by any number when the process or the connection ends, and what `HandleEvent` takes
  from it is the oldest, as `Order` says.
- **`RingStaysWhole`, `WalksAreSafe`, `EventsReachDevices`** (`EtiWalkProofs`): the
  two threads at the grain of one memory access. `ListInv` describes the list at
  each of the driver thread's places by the ring it was or the ring it is going to
  be, with pointers that may differ from the list's own in the one or two places
  not yet written. A ring may be entered at any of its nodes (`AnyHead`), which is
  what moving the head needs. `WalkInv` is about a walk no deletion has
  overlapped: the node its message is for is `Ahead` of it, in every set of nodes
  that holds where the walk stands and is closed under the walk's next step.
  Linking takes nothing away from what is ahead (`LinkingKeepsWalk`): a new node
  is filled before it can be reached, and the last node leads to it and it to the
  head. `UidInv` keeps a UID to one device. Nothing is
  assumed but that `NULL` is no address and no UID.
- **`DeviceIsReached`, `RegistersAreReached`, `NothingIgnored`, `NothingEchoes`,
  `TopicTypes`** (`EtiTopicProofs`): `WayInv` says what the topic is by how far the
  message has come; what the filter matches (`Heard`) has "reg" in its sixth level, so
  its fields move up by one at most, and then the fifth is "reg" (`HeardFields`). That
  the fields are where `GetTopicField` finds them is counted: `Cardinality(Fields(t, k))`
  grows at each level that is not empty, hence a field is in one level only
  (`FieldFound`), and all levels between two fields that follow each other are empty
  (`FieldAfter`). Topics of any length and any names.

Only model-checked is what must happen in the end, as liveness is beyond the prover:
the fairness parts of `ServiceSpec` and `FeedSpec`, `ComesUp` and `WalkEnds`. All
other properties of the runs that pass are proved, under the assumptions above. The
four that are violated are not true of the code.

## Not modelled

- What happens after an ev message and a request have met on one register, or the
  ETI thread has met a freed node: undefined behaviour. The models say when it
  cannot come to that. Likewise what a request made after its device's deletion was
  asked for does with the freed block, and what a publication does with the NULL
  `pDrvInfo` of a device whose node could not be allocated.
- What the library does with the `IErr_IdiBusy` of a callback whose `mq_send` failed:
  `SendFails` changes nothing.
- Topics character by character: a level is a name. UIDs with a slash, which would be
  two levels.
- `prio` and `relinquish` of a write, which the driver only carries along, and
  the priority array it returns, which is constant. `writeInvalidToDp`, which only
  the library looks at.
- What is below a value's node, the text of a string and the items of an object. It is
  given back by `IdlCjsonDelete` and `cJSON_Delete` and left behind by `cJSON_free`, with
  which `DevRegEvHndl` frees a register's values (`eti.cpp` 148, 151, 163) and
  `OnUnrecColumnCb` and `IdiDpProcessCustomColum` the column they have parsed
  (`example.cpp` 585, 590, 1089, 1094): each of these leaks, against `cJSON.h` 138.
- Floating point: doubles are small integers, which the conversions only compare
  and multiply.
- `setrlimit` in `IdiCreateQueue`, whose result is not looked at; the conditional
  wait for a debugger in `main`.
- Packaging scripts: sequential copies with no state of the driver's.
- The library itself; its header says what it calls, not when.

## Plan

1. Safety behind the liveness that the runs check, as theorems: that a thread with
   work is never stuck (the steps its guards allow, without `ENABLED`), and a measure
   that each round of the driver thread and each step of a walk lowers.
2. `RegAccess` and `EtiWalk` under `DevStore`: that the steps of the two threads,
   while they have not met, come to the single steps `SetReg` and `DevRegEvHndl`.
