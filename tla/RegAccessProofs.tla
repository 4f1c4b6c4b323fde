-------------------------- MODULE RegAccessProofs --------------------------
(***************************************************************************)
(* The registers of a device under two threads: as long as an ev message   *)
(* and a request do not meet on one register, values and texts have one    *)
(* owner, none is used after it was freed, none is lost but with its       *)
(* device, and a read answers what was put there last.                     *)
(***************************************************************************)
EXTENDS RegAccess, FiniteSetTheorems, WellFoundedInduction, TLAPS

(* What calloc returns is free, as there are more addresses than values.   *)
LEMMA NewIsFree ==
  ASSUME DOMAIN heap \subseteq 1 .. MaxValues, Cardinality(DOMAIN heap) < MaxValues
  PROVE  New \in 1 .. MaxValues /\ New \notin DOMAIN heap
<1>1. MaxValues \in Nat
  BY BoundAssumption
<1>2. Cardinality(1 .. MaxValues) = MaxValues
  BY <1>1, FS_Interval
<1>3. DOMAIN heap # 1 .. MaxValues
  BY <1>1, <1>2
<1>4. \E v \in 1 .. MaxValues : ~IsLive(v)
  BY <1>3 DEF IsLive
<1>. QED BY <1>4 DEF New, IsLive

(* An ev message names a register, whatever text or number it has there.   *)
LEMMA RegisterOfType == \A m \in Messages : RegisterOf(m.field) \in Nat
BY MessageAssumption, RegAssumption DEF RegisterOf

LEMMA AddressType == \A d \in Dp : Address(d) \in Regs
BY AddressAssumption DEF Address, Dp, Regs

-----------------------------------------------------------------------------
(* What the threads have in hand, and where the pointers lead.             *)
JobOK ==
  drv # NONE =>
    /\ drv.dp \in Dp /\ drv.at \in JobPlaces
    /\ drv.op = "bind" => bound < Len(Xif)
    /\ \/ drv.op \in {"bind", "read"} /\ drv = Job(drv.op, drv.dp, 0, drv.at)
       \/ drv.value \in Writes[drv.dp] /\ drv = Job("write", drv.dp, drv.value, drv.at)

ArrivalOK ==
  evt # NONE =>
    \E m \in Messages, r \in Regs, v \in 0 .. MaxValues, at \in ArrivalPlaces :
      evt = Arrival(r, m.msg, v, at)

HandsInv == JobOK /\ ArrivalOK /\ bound \in 0 .. Len(Xif)

MemoryInv ==
  /\ reg \in [Regs -> 0 .. MaxValues]
  /\ DOMAIN heap \subseteq 1 .. MaxValues
  /\ clash \in BOOLEAN /\ misused \subseteq {"value", "text"}

TypeInv == HandsInv /\ MemoryInv

LEMMA TypeInit == Init => TypeInv
<1>1. Init => HandsInv
  BY XifAssumption DEF Init, HandsInv, JobOK, ArrivalOK
<1>2. Init => DOMAIN heap = {}
  BY DEF Init
<1>3. Init => MemoryInv
  <2>. SUFFICES ASSUME Init PROVE MemoryInv
    OBVIOUS
  <2>1. 0 \in 0 .. MaxValues
    BY BoundAssumption
  <2>2. reg = [r \in Regs |-> 0] /\ clash = FALSE /\ misused = {}
    BY DEF Init
  <2>. QED BY <1>2, <2>1, <2>2 DEF MemoryInv
<1>. QED BY <1>1, <1>3 DEF TypeInv

LEMMA RequestTypes ==
  ASSUME NEW op \in {"bind", "read", "write"}, NEW d \in Dp, NEW value,
         op = "bind" => bound < Len(Xif),
         op # "write" => value = 0, op = "write" => value \in Writes[d],
         TypeInv, Request(op, d, value)
  PROVE  TypeInv'
BY DEF TypeInv, HandsInv, MemoryInv, JobOK, ArrivalOK, Request, Job, JobPlaces, strings, values

LEMMA BoundDps == bound \in 0 .. Len(Xif) => Bound \subseteq Dp
BY XifAssumption DEF Bound, Dp

(* Requests are all a driver thread at rest starts.                        *)
LEMMA RequestKinds ==
  ASSUME TypeInv, OnDpCreate \/ OnDpWrite \/ OnDpRead
  PROVE  \E op \in {"bind", "read", "write"}, d \in Dp : \E value :
           /\ op = "bind" => bound < Len(Xif)
           /\ op # "write" => value = 0
           /\ op = "write" => value \in Writes[d]
           /\ Request(op, d, value)
<1>1. CASE OnDpCreate
  <2>1. Xif[bound + 1] \in Dp
    BY <1>1, XifAssumption DEF OnDpCreate, TypeInv, HandsInv, Dp
  <2>. QED BY <1>1, <2>1 DEF OnDpCreate
<1>2. CASE OnDpWrite
  BY <1>2, BoundDps DEF OnDpWrite, TypeInv, HandsInv
<1>3. CASE OnDpRead
  BY <1>3, BoundDps DEF OnDpRead, TypeInv, HandsInv
<1>. QED BY <1>1, <1>2, <1>3

(* Freeing and allocating keep the pointers within the addresses.          *)
LEMMA AllocateTypes ==
  ASSUME TypeInv, NEW j, Allocate(j)
  PROVE  /\ New \in 1 .. MaxValues /\ New \notin DOMAIN heap
         /\ DOMAIN heap' = DOMAIN heap \cup {New} /\ DOMAIN heap' \subseteq 1 .. MaxValues
         /\ heap'[New] = j /\ \A v \in DOMAIN heap : heap'[v] = heap[v]
BY NewIsFree DEF Allocate, TypeInv, MemoryInv

LEMMA FreedTypes ==
  ASSUME NEW v, Freed(v)
  PROVE  /\ DOMAIN heap' = DOMAIN heap \ {v}
         /\ \A w \in DOMAIN heap' : heap'[w] = heap[w]
BY DEF Freed

LEMMA DriverTypesStep ==
  ASSUME TypeInv, DriverThread
  PROVE  TypeInv'
<1>1. CASE OnDpCreate \/ OnDpWrite \/ OnDpRead
  BY <1>1, RequestKinds, RequestTypes
<1>2. ASSUME NEW at \in JobPlaces, drv # NONE, GoesOnAt(at), bound' = bound
      PROVE  JobOK' /\ bound' \in 0 .. Len(Xif)
  BY <1>2 DEF GoesOnAt, TypeInv, HandsInv, JobOK, Job
<1>3. ASSUME drv' = NONE, bound' = bound \/ (drv # NONE /\ drv.op = "bind" /\ bound' = bound + 1)
      PROVE  JobOK' /\ bound' \in 0 .. Len(Xif)
  BY <1>3, XifAssumption DEF JobOK, TypeInv, HandsInv
<1>4. ASSUME evt' = evt
      PROVE  ArrivalOK'
  BY <1>4 DEF TypeInv, HandsInv, ArrivalOK
<1>5. ASSUME NEW v, Uses(v)
      PROVE  misused' \subseteq {"value", "text"}
  BY <1>5 DEF Uses, TypeInv, MemoryInv
<1>6. CASE BindChecks
  BY <1>6, <1>2, <1>3, <1>4
     DEF BindChecks, DrvAt, JobPlaces, TypeInv, HandsInv, MemoryInv, values, ghosts
<1>7. CASE BindStores
  <2>1. New \in 0 .. MaxValues /\ DOMAIN heap' \subseteq 1 .. MaxValues
    BY <1>7, BoundAssumption, AllocateTypes DEF BindStores
  <2>. QED BY <1>7, <1>2, <1>4, <2>1
           DEF BindStores, Allocate, DrvAt, JobPlaces, TypeInv, HandsInv, MemoryInv
<1>8. CASE BindPrints
  BY <1>8, <1>3, <1>4, <1>5
     DEF BindPrints, DrvAt, values, TypeInv, HandsInv, MemoryInv
<1>9. CASE WriteDeletes
  BY <1>9, <1>2, <1>4, <1>5, FreedTypes
     DEF WriteDeletes, CjsonFree, DrvAt, JobPlaces, TypeInv, HandsInv, MemoryInv
<1>10. CASE WriteStores
  <2>1. New \in 0 .. MaxValues /\ DOMAIN heap' \subseteq 1 .. MaxValues
    BY <1>10, BoundAssumption, AllocateTypes DEF WriteStores
  <2>. QED BY <1>10, <1>2, <1>4, <2>1
           DEF WriteStores, Allocate, DrvAt, JobPlaces, TypeInv, HandsInv, MemoryInv
<1>11. CASE WritePrints
  BY <1>11, <1>2, <1>3, <1>4, <1>5
     DEF WritePrints, DrvAt, JobPlaces, TypeInv, HandsInv, MemoryInv, values
<1>12. CASE ReadChecks
  BY <1>12, <1>2, <1>3, <1>4
     DEF ReadChecks, DrvAt, JobPlaces, TypeInv, HandsInv, MemoryInv, values
<1>13. CASE ReadPrints
  BY <1>13, <1>2, <1>4, <1>5
     DEF ReadPrints, DrvAt, JobPlaces, TypeInv, HandsInv, MemoryInv, values
<1>14. CASE ReadConverts
  <2>1. misused' \subseteq {"value", "text"}
    BY <1>14, <1>5 DEF ReadConverts, SetAsciiTexts, SetNativeText, TypeInv, MemoryInv
  <2>. QED BY <1>14, <1>3, <1>4, <2>1
           DEF ReadConverts, DrvAt, TypeInv, HandsInv, MemoryInv, values
<1>15. CASE DeviceDeleted
  <2>1. HandsInv'
    BY <1>4, <1>15, XifAssumption DEF DeviceDeleted, TypeInv, HandsInv, JobOK
  <2>2. DOMAIN heap' \subseteq 1 .. MaxValues /\ 0 \in 0 .. MaxValues
    BY <1>15, BoundAssumption DEF DeviceDeleted, TypeInv, MemoryInv
  <2>. QED BY <1>15, <2>1, <2>2 DEF DeviceDeleted, TypeInv, MemoryInv
<1>. QED BY <1>1, <1>6, <1>7, <1>8, <1>9, <1>10, <1>11, <1>12, <1>13, <1>14, <1>15
         DEF DriverThread

LEMMA ArrivalFacts ==
  ASSUME TypeInv, evt # NONE
  PROVE  /\ evt.reg \in Regs /\ evt.new \in 0 .. MaxValues /\ evt.at \in ArrivalPlaces
         /\ evt = Arrival(evt.reg, evt.msg, evt.new, evt.at)
BY DEF TypeInv, HandsInv, ArrivalOK, Arrival

LEMMA EtiTypesStep ==
  ASSUME TypeInv, EtiThread
  PROVE  TypeInv'
<1>1. ASSUME drv' = drv, bound' = bound
      PROVE  JobOK' /\ bound' \in 0 .. Len(Xif)
  BY <1>1 DEF TypeInv, HandsInv, JobOK
<1>2. ASSUME NEW v, Uses(v)
      PROVE  misused' \subseteq {"value", "text"}
  BY <1>2 DEF Uses, TypeInv, MemoryInv
<1>3. ASSUME NEW m \in Messages, EventArrives(m)
      PROVE  TypeInv'
  <2>1. ArrivalOK'
    <3>. DEFINE r  == RegisterOf(m.field)
                at == IF Clears(m.msg) THEN "free" ELSE "parse"
    <3>1. evt' = NONE \/ (r < RegMax /\ evt' = Arrival(r, m.msg, 0, at))
      BY <1>3 DEF EventArrives
    <3>2. r < RegMax => r \in Regs
      BY RegisterOfType, RegAssumption DEF Regs
    <3>3. 0 \in 0 .. MaxValues /\ at \in ArrivalPlaces
      BY BoundAssumption DEF ArrivalPlaces
    <3>. QED BY <3>1, <3>2, <3>3 DEF ArrivalOK
  <2>. QED BY <1>1, <1>3, <2>1 DEF EventArrives, TypeInv, HandsInv, MemoryInv, values
<1>4. ASSUME NEW v \in 0 .. MaxValues, NEW at \in ArrivalPlaces, evt # NONE,
             evt' = [evt EXCEPT !.new = v, !.at = at] \/ evt' = [evt EXCEPT !.at = at]
      PROVE  ArrivalOK'
  <2>1. PICK m \in Messages, r \in Regs, w \in 0 .. MaxValues, from \in ArrivalPlaces :
          evt = Arrival(r, m.msg, w, from)
    BY <1>4 DEF TypeInv, HandsInv, ArrivalOK
  <2>2. evt' = Arrival(r, m.msg, v, at) \/ evt' = Arrival(r, m.msg, w, at)
    BY <1>4, <2>1 DEF Arrival
  <2>. QED BY <2>2 DEF ArrivalOK
<1>5. CASE EventParses
  <2>1. ArrivalOK'
    <3>1. New \in 0 .. MaxValues
      BY <1>5, BoundAssumption, AllocateTypes DEF EventParses
    <3>2. \E at \in ArrivalPlaces : evt' = [evt EXCEPT !.new = New, !.at = at]
      BY <1>5 DEF EventParses, ArrivalPlaces
    <3>. QED BY <1>5, <1>4, <3>1, <3>2 DEF EventParses, EvtAt
  <2>. QED BY <1>1, <1>5, <2>1, AllocateTypes
           DEF EventParses, Allocate, TypeInv, HandsInv, MemoryInv
<1>6. CASE EventCompares
  <2>1. ArrivalOK'
    BY <1>6, <1>4 DEF EventCompares, EvtAt, ArrivalPlaces, TypeInv, HandsInv, ArrivalOK, Arrival
  <2>. QED BY <1>1, <1>2, <1>6, <2>1, FreedTypes
           DEF EventCompares, TypeInv, HandsInv, MemoryInv
<1>7. CASE EventFrees
  <2>1. ArrivalOK'
    BY <1>7, <1>4 DEF EventFrees, EvtAt, ArrivalPlaces, TypeInv, HandsInv, ArrivalOK, Arrival
  <2>. QED BY <1>1, <1>2, <1>7, <2>1, FreedTypes
           DEF EventFrees, CjsonFree, TypeInv, HandsInv, MemoryInv
<1>8. CASE EventStores
  <2>1. ArrivalOK' /\ reg' \in [Regs -> 0 .. MaxValues]
    BY <1>8, ArrivalFacts DEF EventStores, EvtAt, ArrivalOK, TypeInv, MemoryInv
  <2>. QED BY <1>1, <1>8, <2>1 DEF EventStores, TypeInv, HandsInv, MemoryInv
<1>. QED BY <1>3, <1>5, <1>6, <1>7, <1>8 DEF EtiThread

LEMMA TypeStep == TypeInv /\ [Next]_vars => TypeInv'
<1>1. ASSUME TypeInv, NEW d \in Dp, LibraryTakesTexts(d)
      PROVE  TypeInv'
  BY <1>1 DEF LibraryTakesTexts, TypeInv, HandsInv, JobOK, ArrivalOK, MemoryInv,
              values, threads, ghosts
<1>2. ASSUME TypeInv, UNCHANGED vars
      PROVE  TypeInv'
  BY <1>2 DEF TypeInv, HandsInv, JobOK, ArrivalOK, MemoryInv, vars, values, threads, ghosts
<1>. QED BY <1>1, <1>2, DriverTypesStep, EtiTypesStep DEF Next

-----------------------------------------------------------------------------
(* The register's value is freed and the next one is not stored yet.       *)
Gap(r) ==
  \/ DrvAt("write", "store") /\ DrvReg = r
  \/ EvtAt("store") /\ evt.reg = r

(* The registers that lead to a value, as far as the code may know.        *)
Solid == {r \in Regs : reg[r] # 0 /\ ~Gap(r)}

Carried == IF evt = NONE THEN 0 ELSE evt.new

(* The threads are at one register only to look at it.                     *)
Apart ==
  drv # NONE /\ evt # NONE /\ evt.reg = DrvReg =>
    drv.op = "read" /\ evt.at \in {"parse", "compare"}

(* What a thread has found out of its register stays true.                 *)
Remembered ==
  /\ DrvAt("bind", "store") => reg[DrvReg] = 0
  /\ DrvAt("read", "print") \/ DrvAt("read", "convert") => reg[DrvReg] # 0
  /\ EvtAt("compare") => reg[evt.reg] # 0
  /\ evt # NONE => /\ evt.at = "parse" \/ Clears(evt.msg) <=> evt.new = 0
                   /\ Clears(evt.msg) => evt.at \in {"free", "store"}

(* Each value has one holder.                                              *)
Owned ==
  /\ \A r \in Solid : reg[r] \in DOMAIN heap /\ reg[r] # Carried
  /\ \A r, q \in Solid : reg[r] = reg[q] => r = q
  /\ Carried \in DOMAIN heap \cup {0}
  /\ \A v \in DOMAIN heap : v = Carried \/ \E r \in Solid : reg[r] = v

ValuesInv == ~clash => Apart /\ Remembered /\ Owned /\ "value" \notin misused

(* A register that is not NULL holds what the operation that set it last   *)
(* has made.                                                               *)
Tells(j, o) ==
  \/ o.by = "default"
  \/ o.by = "write" /\ j = GetDpValForLocStorUpdate(Info[o.dp], o.value)
  \/ o.by = "event" /\ Same(j, o.json)

Meanings ==
  /\ \A r \in Regs : reg[r] = 0 => origin[r].by \in {"nobody", "clear"}
  /\ \A r \in Solid : Tells(heap[reg[r]], origin[r])
  /\ Carried # 0 => heap[Carried] = NewValue

ReadsInv == ~clash => Meanings /\ DOMAIN origin = Regs

(* What a step can do to the values: nothing; free that of a register; put *)
(* a new one into a register that holds none; make one for an ev message;  *)
(* drop that; put it into a register; leave them all behind.               *)
Keeps == /\ UNCHANGED <<reg, heap, origin>> /\ Solid' = Solid /\ Carried' = Carried
         /\ Carried # 0 => NewValue' = NewValue

Frees(r) ==
  /\ reg[r] = 0 \/ r \in Solid
  /\ Freed(reg[r]) /\ UNCHANGED <<reg, origin>>
  /\ Solid' = Solid \ {r} /\ Carried' = Carried
  /\ Carried # 0 => NewValue' = NewValue

Puts(r, j, o) ==
  /\ r \notin Solid /\ Allocate(j) /\ Tells(j, o)
  /\ reg' = [reg EXCEPT ![r] = New] /\ origin' = [origin EXCEPT ![r] = o]
  /\ Solid' = Solid \cup {r} /\ Carried' = Carried
  /\ Carried # 0 => NewValue' = NewValue

Parses ==
  /\ Carried = 0 /\ Allocate(NewValue) /\ Carried' = New /\ NewValue' = NewValue
  /\ UNCHANGED <<reg, origin>> /\ Solid' = Solid

Drops(r) ==
  /\ r \in Solid /\ Same(heap[reg[r]], NewValue)
  /\ Freed(Carried) /\ Carried' = 0
  /\ origin' = [origin EXCEPT ![r] = [by |-> "event", json |-> NewValue]]
  /\ UNCHANGED reg /\ Solid' = Solid

HandsOver(r) ==
  /\ r \notin Solid /\ reg' = [reg EXCEPT ![r] = Carried] /\ UNCHANGED heap
  /\ \/ /\ Carried = 0 /\ Solid' = Solid
        /\ origin' = [origin EXCEPT ![r] = [by |-> "clear"]]
     \/ /\ Carried # 0 /\ Solid' = Solid \cup {r}
        /\ origin' = [origin EXCEPT ![r] = [by |-> "event", json |-> NewValue]]
  /\ Carried' = 0

Leaves ==
  /\ Carried = 0 /\ Carried' = 0 /\ Solid' = {}
  /\ reg' = [r \in Regs |-> 0] /\ origin' = [r \in Regs |-> [by |-> "nobody"]]
  /\ heap' = [v \in DOMAIN heap \ {reg[r] : r \in Regs} |-> heap[v]]

Moves ==
  \/ Keeps \/ Parses \/ Leaves
  \/ \E r \in Regs : Frees(r) \/ Drops(r) \/ HandsOver(r) \/ \E j, o : Puts(r, j, o)

(* The side conditions of a step.                                          *)
Sound == Apart /\ Remembered /\ "value" \notin misused

(* A pointer read from a register that holds something may be used.        *)
LEMMA SolidIsUsable ==
  ASSUME TypeInv, Owned, "value" \notin misused, NEW r \in Regs, reg[r] = 0 \/ r \in Solid,
         Uses(reg[r])
  PROVE  "value" \notin misused'
BY DEF Owned, Uses, IsLive

LEMMA RequestMoves ==
  ASSUME TypeInv, ValuesInv, ~clash', NEW op \in {"bind", "read", "write"}, NEW d \in Dp,
         NEW value, Request(op, d, value)
  PROVE  Sound' /\ Keeps
<1>1. Sound /\ drv = NONE /\ drv' = Job(op, d, value, "check") /\ UNCHANGED <<reg, heap, origin, evt, misused>>
  BY DEF Request, ValuesInv, Sound, values
<1>2. evt # NONE /\ evt.reg = Address(d) => op = "read" /\ evt.at \in {"parse", "compare"}
  BY ArrivalFacts DEF Request, EventReplaces, ArrivalPlaces
<1>3. Apart' /\ Remembered'
  BY <1>1, <1>2 DEF Sound, Apart, Remembered, DrvAt, EvtAt, DrvReg, Job
<1>4. \A r \in Regs : Gap(r)' <=> Gap(r)
  BY <1>1 DEF Gap, DrvAt, EvtAt, Job
<1>5. Solid' = Solid
  BY <1>1, <1>4 DEF Solid
<1>. QED BY <1>1, <1>3, <1>5 DEF Sound, Keeps, Carried, NewValue

(* The driver thread's request on its way.                                 *)
LEMMA JobFacts ==
  ASSUME TypeInv, drv # NONE
  PROVE  DrvReg \in Regs /\ drv.op \in {"bind", "read", "write"}
BY AddressType DEF TypeInv, HandsInv, JobOK, DrvReg, Job

LEMMA GoesOn ==
  ASSUME TypeInv, NEW at \in JobPlaces, drv # NONE, GoesOnAt(at)
  PROVE  /\ drv' # NONE /\ drv'.op = drv.op /\ drv'.at = at /\ drv'.dp = drv.dp
         /\ DrvReg' = DrvReg
<1>1. \/ \E op \in {"bind", "read"} :
           drv' = Job(op, drv.dp, 0, at) /\ drv = Job(op, drv.dp, 0, drv.at)
      \/ /\ drv.value \in Writes[drv.dp] /\ drv' = Job("write", drv.dp, drv.value, at)
         /\ drv = Job("write", drv.dp, drv.value, drv.at)
  BY DEF GoesOnAt, TypeInv, HandsInv, JobOK, Job
<1>2. drv.dp \in Dp
  BY DEF TypeInv, HandsInv, JobOK
<1>3. drv' # NONE
  BY <1>1, <1>2, NoneAssumption
<1>. QED BY <1>1, <1>3 DEF Job, DrvReg

(* A step of the driver thread that leaves the values alone.               *)
LEMMA QuietJobMoves ==
  ASSUME TypeInv, ValuesInv, ~clash, drv # NONE, ~DrvAt("write", "store"),
         UNCHANGED <<reg, heap, origin, evt>>, "value" \notin misused',
         drv' = NONE \/ \E at \in JobPlaces :
           /\ GoesOnAt(at) /\ ~(drv.op = "write" /\ at = "store")
           /\ drv.op = "bind" /\ at = "store" => reg[DrvReg] = 0
           /\ drv.op = "read" => reg[DrvReg] # 0
  PROVE  Sound' /\ Keeps
<1>1. Sound
  BY DEF ValuesInv, Sound
<1>2. CASE drv' = NONE
  <2>1. Apart' /\ Remembered'
    BY <1>1, <1>2 DEF Sound, Apart, Remembered, DrvAt, EvtAt
  <2>2. \A r \in Regs : Gap(r)' <=> Gap(r)
    BY <1>2 DEF Gap, DrvAt, EvtAt
  <2>. QED BY <2>1, <2>2 DEF Sound, Keeps, Carried, NewValue, Solid
<1>3. CASE drv' # NONE
  <2>1. PICK at \in JobPlaces :
           /\ GoesOnAt(at) /\ ~(drv.op = "write" /\ at = "store")
           /\ drv.op = "bind" /\ at = "store" => reg[DrvReg] = 0
           /\ drv.op = "read" => reg[DrvReg] # 0
    BY <1>3
  <2>2. /\ drv' # NONE /\ drv'.op = drv.op /\ drv'.at = at /\ drv'.dp = drv.dp
        /\ DrvReg' = DrvReg
    BY <2>1, GoesOn
  <2>3. Apart' /\ Remembered'
    BY <1>1, <2>1, <2>2 DEF Sound, Apart, Remembered, DrvAt, EvtAt
  <2>4. \A r \in Regs : Gap(r)' <=> Gap(r)
    BY <2>1, <2>2 DEF Gap, DrvAt, EvtAt
  <2>. QED BY <2>3, <2>4 DEF Sound, Keeps, Carried, NewValue, Solid
<1>. QED BY <1>2, <1>3

(* Behind its first step a request is at a register that is not changed,   *)
(* and holds a value when it is not NULL.                                  *)
LEMMA OwnRegister ==
  ASSUME TypeInv, ValuesInv, ~clash, drv # NONE, ~DrvAt("write", "store")
  PROVE  reg[DrvReg] = 0 \/ DrvReg \in Solid
BY JobFacts, ArrivalFacts DEF ValuesInv, Apart, Solid, Gap, DrvAt, EvtAt

LEMMA DriverMoves ==
  ASSUME TypeInv, ValuesInv, ~clash', DriverThread
  PROVE  Sound' /\ Moves
<1>1. CASE OnDpCreate \/ OnDpWrite \/ OnDpRead
  BY <1>1, RequestKinds, RequestMoves DEF Moves
<1>0. CASE DeviceDeleted
  <2>1. drv = NONE /\ drv' = NONE /\ evt = NONE /\ evt' = NONE /\ misused' = misused /\ ~clash
    BY <1>0 DEF DeviceDeleted
  <2>2. Sound'
    BY <2>1 DEF ValuesInv, Sound, Apart, Remembered, DrvAt, EvtAt
  <2>3. reg' = [r \in Regs |-> 0]
    BY <1>0 DEF DeviceDeleted
  <2>4. Solid' = {}
    BY <2>3 DEF Solid
  <2>. QED BY <1>0, <2>1, <2>2, <2>4 DEF DeviceDeleted, Leaves, Moves, Carried
<1>2. SUFFICES ASSUME ~(OnDpCreate \/ OnDpWrite \/ OnDpRead \/ DeviceDeleted)
               PROVE  Sound' /\ Moves
  BY <1>1, <1>0
<1>3. ~clash /\ evt' = evt /\ drv # NONE
  BY <1>2 DEF DriverThread, BindChecks, BindStores, BindPrints, WriteDeletes, WriteStores,
              WritePrints, ReadChecks, ReadPrints, ReadConverts, ghosts, DrvAt
<1>4. Sound /\ Owned /\ DrvReg \in Regs /\ drv.op \in {"bind", "read", "write"}
  BY <1>3, JobFacts DEF ValuesInv, Sound
<1>5. ASSUME ~DrvAt("write", "store"), Uses(reg[DrvReg])
      PROVE  "value" \notin misused'
  BY <1>3, <1>4, <1>5, OwnRegister, SolidIsUsable DEF Sound
<1>6. CASE BindChecks
  BY <1>3, <1>4, <1>6, QuietJobMoves
     DEF BindChecks, DrvAt, JobPlaces, Moves, Sound, values, ghosts
<1>7. CASE BindPrints
  BY <1>3, <1>4, <1>5, <1>7, QuietJobMoves
     DEF BindPrints, DrvAt, values, Moves
<1>8. CASE WritePrints
  BY <1>3, <1>4, <1>5, <1>8, QuietJobMoves
     DEF WritePrints, DrvAt, JobPlaces, Moves, values
<1>9. CASE ReadChecks
  BY <1>3, <1>4, <1>9, QuietJobMoves
     DEF ReadChecks, DrvAt, JobPlaces, Moves, Sound, values
<1>10. CASE ReadPrints
  <2>1. reg[DrvReg] # 0
    BY <1>4, <1>10 DEF ReadPrints, Sound, Remembered
  <2>. QED BY <1>3, <1>4, <1>5, <1>10, <2>1, QuietJobMoves
           DEF ReadPrints, DrvAt, JobPlaces, Moves, values
<1>11. CASE ReadConverts
  <2>1. reg[DrvReg] # 0 /\ drv' = NONE /\ UNCHANGED <<reg, heap, origin>> /\ ~DrvAt("write", "store")
    BY <1>4, <1>11 DEF ReadConverts, Sound, Remembered, DrvAt, values
  <2>2. IsLive(reg[DrvReg])
    BY <1>3, <1>4, <2>1, OwnRegister DEF Owned, IsLive
  <2>3. "value" \notin misused'
    BY <1>4, <1>5, <1>11, <2>1, <2>2
       DEF ReadConverts, SetAsciiTexts, SetNativeText, Sound
  <2>. QED BY <1>3, <2>1, <2>3, QuietJobMoves DEF Moves
<1>12. ASSUME NEW at \in JobPlaces, GoesOnAt(at), drv.op # "read"
       PROVE  /\ Apart' /\ (\A r \in Regs : Gap(r)' <=>
                               (drv.op = "write" /\ at = "store" /\ r = DrvReg)
                                 \/ (r # DrvReg /\ EvtAt("store") /\ evt.reg = r))
              /\ Carried' = Carried /\ NewValue' = NewValue
  <2>1. /\ drv' # NONE /\ drv'.op = drv.op /\ drv'.at = at /\ DrvReg' = DrvReg
    BY <1>3, <1>12, GoesOn
  <2>2. evt # NONE => evt.reg # DrvReg
    BY <1>3, <1>4, <1>12 DEF Sound, Apart
  <2>. QED BY <1>3, <2>1, <2>2 DEF Apart, Gap, DrvAt, EvtAt, Carried, NewValue
<1>13. ASSUME NEW at \in {"store", "print"}, GoesOnAt(at), drv.op # "read",
              drv.op = "bind" => at = "print",
              \A r \in Regs \ {DrvReg} : reg'[r] = reg[r]
       PROVE  Remembered'
  <2>1. /\ drv' # NONE /\ drv'.op = drv.op /\ drv'.at = at
    BY <1>3, <1>13, GoesOn DEF JobPlaces
  <2>2. evt # NONE => evt.reg \in Regs \ {DrvReg}
    BY <1>3, <1>4, <1>13, ArrivalFacts DEF Sound, Apart
  <2>. QED BY <1>3, <1>4, <1>13, <2>1, <2>2 DEF Sound, Remembered, DrvAt, EvtAt
<1>14. ASSUME NEW j, NEW o, Allocate(j), Tells(j, o), GoesOnAt("print"), DrvReg \notin Solid,
              reg' = [reg EXCEPT ![DrvReg] = New], origin' = [origin EXCEPT ![DrvReg] = o],
              drv.op # "read", misused' = misused
       PROVE  Sound' /\ Moves
  <2>1. New \in 1 .. MaxValues
    BY <1>14, AllocateTypes
  <2>2. "print" \in JobPlaces
    BY DEF JobPlaces
  <2>3. \A r \in Regs : Gap(r)' <=> r # DrvReg /\ EvtAt("store") /\ evt.reg = r
    BY <1>12, <1>14, <2>2
  <2>4. reg'[DrvReg] # 0 /\ \A r \in Regs \ {DrvReg} : reg'[r] = reg[r]
    BY <1>4, <1>14, <2>1 DEF TypeInv, MemoryInv
  <2>5. Solid' = Solid \cup {DrvReg}
    <3>1. \A r \in Regs \ {DrvReg} : Gap(r)' <=> Gap(r)
      BY <2>3 DEF Gap
    <3>. QED BY <1>4, <2>3, <2>4, <3>1 DEF Solid
  <2>6. Puts(DrvReg, j, o)
    BY <1>12, <1>14, <2>2, <2>5 DEF Puts
  <2>. QED BY <1>4, <1>12, <1>13, <1>14, <2>2, <2>4, <2>6 DEF Sound, Moves
<1>15. CASE BindStores
  <2>1. DrvReg \notin Solid
    BY <1>4, <1>15 DEF BindStores, Sound, Remembered, Solid
  <2>. QED BY <1>14, <1>15, <2>1 DEF BindStores, SetBy, DrvAt, Tells
<1>16. CASE WriteStores
  <2>1. DrvReg \notin Solid
    BY <1>16 DEF WriteStores, Solid, Gap
  <2>. QED BY <1>14, <1>16, <2>1 DEF WriteStores, SetBy, DrvAt, Tells
<1>17. CASE WriteDeletes
  <2>1. /\ drv.op = "write" /\ GoesOnAt("store") /\ "store" \in JobPlaces /\ ~DrvAt("write", "store")
        /\ Freed(reg[DrvReg]) /\ UNCHANGED <<reg, origin>> /\ Uses(reg[DrvReg])
    BY <1>17 DEF WriteDeletes, CjsonFree, DrvAt, JobPlaces
  <2>2. reg[DrvReg] = 0 \/ DrvReg \in Solid
    BY <1>3, <2>1, OwnRegister
  <2>3. Solid' = Solid \ {DrvReg}
    BY <1>12, <2>1 DEF Solid, Gap
  <2>4. Frees(DrvReg)
    BY <1>12, <2>1, <2>2, <2>3 DEF Frees
  <2>. QED BY <1>4, <1>5, <1>12, <1>13, <2>1, <2>4 DEF Sound, Moves
<1>. QED BY <1>2, <1>6, <1>7, <1>8, <1>9, <1>10, <1>11, <1>15, <1>16, <1>17 DEF DriverThread

(* The ETI thread's message on its way.                                    *)
LEMMA ArrivalGoesOn ==
  ASSUME TypeInv, evt # NONE, NEW v \in 0 .. MaxValues, NEW at \in ArrivalPlaces,
         evt' = [evt EXCEPT !.new = v, !.at = at] \/ (evt' = [evt EXCEPT !.at = at] /\ v = evt.new)
  PROVE  /\ evt' # NONE /\ evt'.reg = evt.reg /\ evt'.at = at /\ evt'.new = v
         /\ evt'.msg = evt.msg
<1>1. PICK m \in Messages, r \in Regs, w \in 0 .. MaxValues, from \in ArrivalPlaces :
        evt = Arrival(r, m.msg, w, from)
  BY DEF TypeInv, HandsInv, ArrivalOK
<1>2. evt' = Arrival(r, m.msg, v, at)
  BY <1>1 DEF Arrival
<1>. QED BY <1>1, <1>2, NoneAssumption DEF Arrival

LEMMA EtiMoves ==
  ASSUME TypeInv, ValuesInv, ReadsInv, ~clash', EtiThread
  PROVE  Sound' /\ Moves
<1>1. ~clash /\ drv' = drv
  <2>1. ASSUME NEW m \in Messages, EventArrives(m)
        PROVE  ~clash /\ drv' = drv
    <3>1. drv' = drv /\ (clash => clash')
      BY <2>1 DEF EventArrives
    <3>. QED BY <3>1
  <2>2. CASE EventParses
    BY <2>2 DEF EventParses
  <2>3. CASE EventCompares
    BY <2>3 DEF EventCompares
  <2>4. CASE EventFrees
    BY <2>4 DEF EventFrees
  <2>5. CASE EventStores
    BY <2>5 DEF EventStores
  <2>. QED BY <2>1, <2>2, <2>3, <2>4, <2>5 DEF EtiThread
<1>2. Sound /\ Owned /\ Meanings /\ DrvReg' = DrvReg
  BY <1>1 DEF ValuesInv, ReadsInv, Sound, DrvReg
<1>3. ASSUME NEW m \in Messages, EventArrives(m)
      PROVE  Sound' /\ Moves
  <2>. DEFINE at == IF Clears(m.msg) THEN "free" ELSE "parse"
  <2>1. PICK r :
          /\ evt = NONE /\ UNCHANGED <<reg, heap, origin, misused>>
          /\ \/ evt' = NONE
             \/ /\ evt' = Arrival(r, m.msg, 0, at)
                /\ drv # NONE /\ r = DrvReg => ~Clears(m.msg) /\ drv.op = "read"
    BY <1>3 DEF EventArrives, values
  <2>2. Apart' /\ Remembered'
    BY <1>1, <1>2, <2>1 DEF Sound, Apart, Remembered, Arrival, DrvAt, EvtAt
  <2>3. \A q \in Regs : Gap(q)' <=> Gap(q)
    BY <1>1, <1>2, <2>1 DEF Gap, Arrival, DrvAt, EvtAt
  <2>4. Carried = 0 /\ Carried' = 0
    BY <2>1 DEF Carried, Arrival
  <2>. QED BY <1>2, <2>1, <2>2, <2>3, <2>4 DEF Sound, Moves, Keeps, Solid
<1>4. SUFFICES ASSUME evt # NONE, EventParses \/ EventCompares \/ EventFrees \/ EventStores
               PROVE  Sound' /\ Moves
  BY <1>3 DEF EtiThread, EventParses, EventCompares, EventFrees, EventStores, EvtAt
<1>5. PICK p \in Regs : p = evt.reg
  BY <1>4, ArrivalFacts
<1>6. evt.new \in 0 .. MaxValues /\ Carried = evt.new
  BY <1>4, ArrivalFacts DEF Carried
<1>7. ~EvtAt("store") => reg[p] = 0 \/ p \in Solid
  BY <1>2, <1>4, <1>5 DEF Sound, Apart, Solid, Gap, DrvAt, EvtAt
<1>8. \A q \in Regs \ {p} : Gap(q)' <=> Gap(q)
  <2>1. evt' = NONE \/ evt'.reg = p
    BY <1>4, <1>5, ArrivalFacts DEF EventParses, EventCompares, EventFrees, EventStores, Arrival
  <2>. QED BY <1>1, <1>2, <1>5, <2>1 DEF Gap, DrvAt, EvtAt
<1>9. ASSUME UNCHANGED reg, reg[p] # 0 => (Gap(p)' <=> Gap(p))
      PROVE  Solid' = Solid
  <2>1. \A q \in Regs : q \in Solid' <=> q \in Solid
    BY <1>8, <1>9 DEF Solid
  <2>2. Solid \subseteq Regs /\ Solid' \subseteq Regs
    BY DEF Solid
  <2>. QED BY <2>1, <2>2
<1>10. ASSUME NEW at \in ArrivalPlaces, NEW v \in 0 .. MaxValues, UNCHANGED <<reg, misused>>,
              evt' = [evt EXCEPT !.new = v, !.at = at] \/ (evt' = [evt EXCEPT !.at = at] /\ v = evt.new),
              at # "parse", evt.at = "parse" => v # 0, evt.at # "parse" => v = evt.new,
              at = "compare" => evt.at = "parse" /\ reg[p] # 0,
              at # "compare" => drv = NONE \/ DrvReg # p
       PROVE  /\ Sound' /\ Carried' = v /\ NewValue' = NewValue
              /\ Gap(p)' <=> (at = "store" \/ (DrvAt("write", "store") /\ DrvReg = p))
  <2>1. /\ evt' # NONE /\ evt'.reg = p /\ evt'.at = at /\ evt'.new = v /\ evt'.msg = evt.msg
    BY <1>4, <1>5, <1>10, ArrivalGoesOn
  <2>2. Apart'
    BY <1>1, <1>2, <1>4, <1>5, <1>10, <2>1 DEF Sound, Apart
  <2>3. Remembered'
    <3>1. EvtAt("compare")' => reg'[evt'.reg] # 0
      BY <1>10, <2>1 DEF EvtAt
    <3>2. /\ evt'.at = "parse" \/ Clears(evt'.msg) <=> evt'.new = 0
          /\ Clears(evt'.msg) => evt'.at \in {"free", "store"}
      BY <1>2, <1>4, <1>10, <2>1 DEF Sound, Remembered, ArrivalPlaces
    <3>. QED BY <1>1, <1>2, <1>10, <2>1, <3>1, <3>2 DEF Sound, Remembered, DrvAt, DrvReg
  <2>4. Gap(p)' <=> (at = "store" \/ (DrvAt("write", "store") /\ DrvReg = p))
    BY <1>1, <1>2, <2>1 DEF Gap, DrvAt, EvtAt
  <2>. QED BY <1>2, <1>10, <2>1, <2>2, <2>3, <2>4 DEF Sound, Carried, NewValue
<1>11. CASE EventParses
  <2>. DEFINE at == IF Current = 0 THEN "store" ELSE "compare"
  <2>1. /\ EvtAt("parse") /\ Allocate(NewValue) /\ UNCHANGED <<reg, origin, misused>>
        /\ evt' = [evt EXCEPT !.new = New, !.at = at]
        /\ Current = 0 => drv = NONE \/ DrvReg # p
        /\ Current = reg[p]
    BY <1>1, <1>5, <1>11 DEF EventParses, Current
  <2>2. New \in 0 .. MaxValues /\ New # 0 /\ at \in ArrivalPlaces /\ evt.at = "parse"
    BY <2>1, BoundAssumption, AllocateTypes DEF ArrivalPlaces, EvtAt
  <2>3. PICK v \in 0 .. MaxValues : v = New
    BY <2>2
  <2>4. PICK to \in ArrivalPlaces : to = at
    BY <2>2
  <2>5. /\ evt' = [evt EXCEPT !.new = v, !.at = to] /\ v # 0
        /\ to = "compare" => evt.at = "parse" /\ reg[p] # 0
        /\ to # "compare" => drv = NONE \/ DrvReg # p
        /\ to # "parse"
    BY <2>1, <2>2, <2>3, <2>4
  <2>6. /\ Sound' /\ Carried' = v /\ NewValue' = NewValue
        /\ Gap(p)' <=> (to = "store" \/ (DrvAt("write", "store") /\ DrvReg = p))
    BY <1>10, <2>1, <2>2, <2>5
  <2>7. Carried = 0
    BY <1>2, <1>4, <1>6, <2>2 DEF Sound, Remembered
  <2>8. reg[p] # 0 => (Gap(p)' <=> Gap(p))
    BY <2>1, <2>2, <2>4, <2>6 DEF Gap, EvtAt
  <2>. QED BY <1>9, <2>1, <2>3, <2>6, <2>7, <2>8 DEF Parses, Moves
<1>12. CASE EventCompares
  <2>1. /\ evt.at = "compare" /\ EvtAt("compare") /\ UNCHANGED reg /\ Uses(reg[p]) /\ Current = reg[p]
    BY <1>5, <1>12 DEF EventCompares, EvtAt, Current
  <2>2. reg[p] # 0 /\ p \in Solid /\ IsLive(reg[p])
    BY <1>2, <1>5, <1>7, <2>1 DEF Sound, Remembered, EvtAt, Owned, IsLive
  <2>3. misused' = misused
    BY <2>1, <2>2 DEF Uses
  <2>4. CASE Same(ValueOf(Current), NewValue)
    <3>1. /\ Freed(evt.new) /\ evt' = NONE
          /\ origin' = [origin EXCEPT ![p] = [by |-> "event", json |-> NewValue]]
      BY <1>5, <1>12, <2>4 DEF EventCompares, SetBy
    <3>2. Same(heap[reg[p]], NewValue)
      BY <2>1, <2>2, <2>4 DEF ValueOf
    <3>3. Sound' /\ Carried' = 0
      BY <1>1, <1>2, <2>1, <2>3, <3>1 DEF Sound, Apart, Remembered, DrvAt, EvtAt, Carried
    <3>4. Gap(p)' <=> Gap(p)
      BY <1>1, <1>2, <2>1, <3>1 DEF Gap, DrvAt, EvtAt
    <3>. QED BY <1>6, <1>9, <2>1, <2>2, <3>1, <3>2, <3>3, <3>4 DEF Drops, Moves
  <2>5. CASE ~Same(ValueOf(Current), NewValue)
    <3>1. /\ evt' = [evt EXCEPT !.at = "free"] /\ UNCHANGED <<heap, origin>>
          /\ "free" \in ArrivalPlaces
          /\ drv = NONE \/ DrvReg # p
      BY <1>1, <1>5, <1>12, <2>5 DEF EventCompares, ArrivalPlaces
    <3>2. PICK v \in 0 .. MaxValues : v = evt.new
      BY <1>6
    <3>3. /\ Sound' /\ Carried' = v /\ NewValue' = NewValue
          /\ Gap(p)' <=> (DrvAt("write", "store") /\ DrvReg = p)
      BY <1>10, <2>1, <2>3, <3>1, <3>2
    <3>4. Gap(p)' <=> Gap(p)
      BY <2>1, <3>3 DEF Gap, EvtAt
    <3>. QED BY <1>6, <1>9, <2>1, <3>1, <3>2, <3>3, <3>4 DEF Keeps, Moves
  <2>. QED BY <2>4, <2>5
<1>13. CASE EventFrees
  <2>1. /\ evt.at = "free" /\ evt' = [evt EXCEPT !.at = "store"] /\ "store" \in ArrivalPlaces
        /\ Freed(reg[p]) /\ Uses(reg[p]) /\ UNCHANGED <<reg, origin>>
    BY <1>5, <1>13 DEF EventFrees, EvtAt, CjsonFree, Current, ArrivalPlaces
  <2>2. reg[p] = 0 \/ p \in Solid
    BY <1>7, <2>1 DEF EvtAt
  <2>3. misused' = misused
    BY <1>2, <2>1, <2>2 DEF Owned, Uses, IsLive
  <2>4. drv = NONE \/ DrvReg # p
    BY <1>2, <1>4, <1>5, <2>1 DEF Sound, Apart
  <2>5. PICK v \in 0 .. MaxValues : v = evt.new
    BY <1>6
  <2>6. Sound' /\ Carried' = v /\ NewValue' = NewValue /\ Gap(p)'
    BY <1>10, <2>1, <2>3, <2>4, <2>5
  <2>7. Solid' = Solid \ {p}
    <3>1. \A q \in Regs : q \in Solid' <=> q \in Solid \ {p}
      BY <1>8, <2>1, <2>6 DEF Solid
    <3>2. Solid \subseteq Regs /\ Solid' \subseteq Regs
      BY DEF Solid
    <3>. QED BY <3>1, <3>2
  <2>. QED BY <1>6, <2>1, <2>2, <2>5, <2>6, <2>7 DEF Frees, Moves
<1>14. CASE EventStores
  <2>1. /\ evt.at = "store" /\ EvtAt("store") /\ evt' = NONE /\ UNCHANGED <<heap, misused>>
        /\ reg' = [reg EXCEPT ![p] = evt.new]
        /\ origin' = [origin EXCEPT ![p] =
             IF Clears(evt.msg) THEN [by |-> "clear"] ELSE [by |-> "event", json |-> NewValue]]
    BY <1>5, <1>14 DEF EventStores, EvtAt, SetBy
  <2>2. p \notin Solid /\ Carried' = 0
    BY <1>5, <2>1 DEF Solid, Gap, Carried
  <2>3. ~Gap(p)'
    <3>1. ~(DrvAt("write", "store") /\ DrvReg = p)
      BY <1>2, <1>4, <1>5, <2>1 DEF Sound, Apart, DrvAt
    <3>. QED BY <1>1, <1>2, <2>1, <3>1 DEF Gap, DrvAt, EvtAt
  <2>4. Clears(evt.msg) <=> evt.new = 0
    BY <1>2, <1>4, <2>1 DEF Sound, Remembered
  <2>5. reg'[p] = evt.new /\ \A q \in Regs \ {p} : reg'[q] = reg[q]
    BY <1>5, <2>1 DEF TypeInv, MemoryInv
  <2>6. Sound'
    <3>1. drv # NONE => DrvReg # p
      BY <1>2, <1>4, <1>5, <2>1 DEF Sound, Apart
    <3>2. drv # NONE => DrvReg \in Regs
      BY AddressType DEF TypeInv, HandsInv, JobOK, DrvReg
    <3>. QED BY <1>1, <1>2, <2>1, <2>5, <3>1, <3>2 DEF Sound, Apart, Remembered, DrvAt, EvtAt
  <2>7. Solid' = IF evt.new = 0 THEN Solid ELSE Solid \cup {p}
    <3>1. \A q \in Regs \ {p} : q \in Solid' <=> q \in Solid
      BY <1>8, <2>5 DEF Solid
    <3>2. p \in Solid' <=> evt.new # 0
      BY <2>3, <2>5 DEF Solid
    <3>3. Solid \subseteq Regs /\ Solid' \subseteq Regs
      BY DEF Solid
    <3>. QED BY <1>5, <2>2, <3>1, <3>2, <3>3
  <2>8. HandsOver(p)
    BY <1>6, <2>1, <2>2, <2>4, <2>7 DEF HandsOver
  <2>. QED BY <2>6, <2>8 DEF Moves
<1>. QED BY <1>4, <1>11, <1>12, <1>13, <1>14

-----------------------------------------------------------------------------
LEMMA MovesKeepOwned ==
  ASSUME TypeInv, Owned, Moves
  PROVE  Owned'
<1>1. /\ reg \in [Regs -> 0 .. MaxValues] /\ DOMAIN heap \subseteq 1 .. MaxValues
      /\ Solid \subseteq Regs /\ 0 \notin DOMAIN heap /\ \A r \in Solid : reg[r] # 0
  BY BoundAssumption DEF TypeInv, MemoryInv, Solid
<1>2. CASE Keeps
  BY <1>2 DEF Keeps, Owned
<1>3. CASE Parses
  <2>1. New # 0 /\ New \notin DOMAIN heap /\ DOMAIN heap' = DOMAIN heap \cup {New}
    BY <1>3, AllocateTypes DEF Parses
  <2>. QED BY <1>1, <1>3, <2>1 DEF Parses, Owned
<1>4. ASSUME NEW r \in Regs, Frees(r)
      PROVE  Owned'
  <2>1. DOMAIN heap' = DOMAIN heap \ {reg[r]}
    BY <1>4, FreedTypes DEF Frees
  <2>. QED BY <1>1, <1>4, <2>1 DEF Frees, Owned
<1>5. ASSUME NEW r \in Regs, Drops(r)
      PROVE  Owned'
  <2>1. DOMAIN heap' = DOMAIN heap \ {Carried}
    BY <1>5, FreedTypes DEF Drops
  <2>. QED BY <1>1, <1>5, <2>1 DEF Drops, Owned
<1>6. ASSUME NEW r \in Regs, HandsOver(r)
      PROVE  Owned'
  <2>1. reg'[r] = Carried /\ \A q \in Regs \ {r} : reg'[q] = reg[q]
    BY <1>1, <1>6 DEF HandsOver
  <2>. QED BY <1>1, <1>6, <2>1 DEF HandsOver, Owned
<1>7. ASSUME NEW r \in Regs, NEW j, NEW o, Puts(r, j, o)
      PROVE  Owned'
  <2>1. New # 0 /\ New \notin DOMAIN heap /\ DOMAIN heap' = DOMAIN heap \cup {New}
    BY <1>7, AllocateTypes DEF Puts
  <2>2. reg'[r] = New /\ \A q \in Regs \ {r} : reg'[q] = reg[q]
    BY <1>1, <1>7 DEF Puts
  <2>. QED BY <1>1, <1>7, <2>1, <2>2 DEF Puts, Owned
<1>8. CASE Leaves
  <2>1. DOMAIN heap' = DOMAIN heap \ {reg[r] : r \in Regs} /\ Solid' = {} /\ Carried' = 0
    BY <1>8 DEF Leaves
  <2>2. \A v \in DOMAIN heap : \E r \in Regs : reg[r] = v
    BY <1>1, <1>8 DEF Leaves, Owned
  <2>3. DOMAIN heap' = {}
    BY <2>1, <2>2
  <2>. QED BY <2>1, <2>3 DEF Owned
<1>. QED BY <1>2, <1>3, <1>4, <1>5, <1>6, <1>7, <1>8 DEF Moves

(* Steps that touch no register.                                           *)
LEMMA IdleMoves ==
  ASSUME ValuesInv, ~clash', UNCHANGED <<values, threads, ghosts>>
  PROVE  ~clash /\ Sound' /\ Moves
<1>1. ~clash /\ Sound
  BY DEF ValuesInv, Sound, ghosts
<1>2. Sound'
  BY <1>1 DEF values, threads, ghosts, Sound, Apart, Remembered, DrvAt, EvtAt, DrvReg
<1>3. Solid' = Solid /\ Carried' = Carried /\ NewValue' = NewValue
  BY DEF values, threads, Solid, Gap, DrvAt, EvtAt, DrvReg, Carried, NewValue
<1>. QED BY <1>1, <1>2, <1>3 DEF Keeps, Moves, values, ghosts

LEMMA ClashStays == clash /\ [Next]_vars => clash'
<1>1. ASSUME NEW op, NEW d, NEW value, Request(op, d, value), clash
      PROVE  clash'
  BY <1>1 DEF Request
<1>2. ASSUME OnDpCreate \/ OnDpWrite \/ OnDpRead, clash
      PROVE  clash'
  BY <1>1, <1>2 DEF OnDpCreate, OnDpWrite, OnDpRead
<1>3. ASSUME BindChecks \/ BindStores \/ BindPrints, clash
      PROVE  clash'
  BY <1>3 DEF BindChecks, BindStores, BindPrints, ghosts
<1>4. ASSUME WriteDeletes \/ WriteStores \/ WritePrints, clash
      PROVE  clash'
  BY <1>4 DEF WriteDeletes, WriteStores, WritePrints
<1>5. ASSUME ReadChecks \/ ReadPrints \/ ReadConverts, clash
      PROVE  clash'
  BY <1>5 DEF ReadChecks, ReadPrints, ReadConverts
<1>6. ASSUME NEW m \in Messages, EventArrives(m), clash
      PROVE  clash'
  BY <1>6 DEF EventArrives
<1>7. ASSUME EventParses \/ EventFrees \/ EventStores, clash
      PROVE  clash'
  BY <1>7 DEF EventParses, EventFrees, EventStores
<1>8. ASSUME EventCompares, clash
      PROVE  clash'
  BY <1>8 DEF EventCompares
<1>9. ASSUME NEW d \in Dp, LibraryTakesTexts(d), clash
      PROVE  clash'
  BY <1>9 DEF LibraryTakesTexts, ghosts
<1>10. ASSUME UNCHANGED vars, clash
       PROVE  clash'
  BY <1>10 DEF vars, ghosts
<1>11. ASSUME DeviceDeleted, clash
       PROVE  clash'
  BY <1>11 DEF DeviceDeleted
<1>. QED BY <1>2, <1>3, <1>4, <1>5, <1>6, <1>7, <1>8, <1>9, <1>10, <1>11
         DEF Next, DriverThread, EtiThread

LEMMA NextMoves ==
  ASSUME TypeInv, ValuesInv, ReadsInv, ~clash', [Next]_vars
  PROVE  ~clash /\ Sound' /\ Moves
<1>0. ~clash
  BY ClashStays
<1>1. CASE DriverThread
  BY <1>0, <1>1, DriverMoves
<1>2. CASE EtiThread
  BY <1>0, <1>2, EtiMoves
<1>3. CASE UNCHANGED vars
  BY <1>3, IdleMoves DEF vars
<1>4. ASSUME NEW d \in Dp, LibraryTakesTexts(d)
      PROVE  ~clash /\ Sound' /\ Moves
  BY <1>4, IdleMoves DEF LibraryTakesTexts
<1>. QED BY <1>1, <1>2, <1>3, <1>4 DEF Next

LEMMA ValuesInit == Init => ValuesInv /\ ReadsInv
<1>. SUFFICES ASSUME Init PROVE ValuesInv /\ ReadsInv
  OBVIOUS
<1>1. /\ drv = NONE /\ evt = NONE /\ misused = {} /\ DOMAIN heap = {} /\ DOMAIN origin = Regs
      /\ \A r \in Regs : reg[r] = 0 /\ origin[r] = [by |-> "nobody"]
  BY DEF Init
<1>2. Solid = {} /\ Carried = 0
  BY <1>1 DEF Solid, Carried
<1>. QED BY <1>1, <1>2 DEF ValuesInv, ReadsInv, Apart, Remembered, Owned, Meanings, DrvAt, EvtAt

LEMMA ValuesStep ==
  ASSUME TypeInv, ValuesInv, ReadsInv, [Next]_vars
  PROVE  ValuesInv'
<1>. SUFFICES ASSUME ~clash' PROVE Sound' /\ Owned'
  BY DEF ValuesInv, Sound
<1>1. ~clash /\ Sound' /\ Moves
  BY NextMoves
<1>. QED BY <1>1, MovesKeepOwned DEF ValuesInv

-----------------------------------------------------------------------------
LEMMA MovesKeepMeanings ==
  ASSUME TypeInv, Owned, Meanings, Moves, DOMAIN origin = Regs
  PROVE  Meanings'
<1>1. /\ reg \in [Regs -> 0 .. MaxValues] /\ DOMAIN heap \subseteq 1 .. MaxValues
      /\ Solid \subseteq Regs /\ 0 \notin DOMAIN heap /\ \A r \in Solid : reg[r] # 0
  BY BoundAssumption DEF TypeInv, MemoryInv, Solid
<1>2. CASE Keeps
  <2>1. \A r \in Solid' : Tells(heap[reg[r]], origin[r])
    BY <1>2 DEF Keeps, Meanings
  <2>2. /\ \A r \in Regs : reg'[r] = 0 => origin'[r].by \in {"nobody", "clear"}
        /\ Carried' # 0 => heap'[Carried'] = NewValue'
    BY <1>2 DEF Keeps, Meanings
  <2>. QED BY <1>2, <2>1, <2>2 DEF Keeps, Meanings
<1>3. CASE Parses
  <2>1. /\ New # 0 /\ New \notin DOMAIN heap /\ heap'[New] = NewValue
        /\ \A v \in DOMAIN heap : heap'[v] = heap[v]
    BY <1>3, AllocateTypes DEF Parses
  <2>2. \A r \in Solid : heap'[reg[r]] = heap[reg[r]]
    BY <2>1 DEF Owned
  <2>. QED BY <1>3, <2>1, <2>2 DEF Parses, Meanings
<1>4. ASSUME NEW r \in Regs, Frees(r)
      PROVE  Meanings'
  <2>1. /\ DOMAIN heap' = DOMAIN heap \ {reg[r]}
        /\ \A v \in DOMAIN heap' : heap'[v] = heap[v]
    BY <1>4, FreedTypes DEF Frees
  <2>2. \A q \in Solid' : reg'[q] \in DOMAIN heap'
    BY <1>1, <1>4, MovesKeepOwned DEF Owned
  <2>3. \A q \in Solid' : heap'[reg'[q]] = heap[reg[q]]
    BY <1>4, <2>1, <2>2 DEF Frees
  <2>4. Carried' # 0 => heap'[Carried'] = heap[Carried]
    BY <1>1, <1>4, <2>1 DEF Frees, Owned
  <2>. QED BY <1>1, <1>4, <2>3, <2>4 DEF Frees, Meanings
<1>5. ASSUME NEW r \in Regs, Drops(r)
      PROVE  Meanings'
  <2>1. /\ DOMAIN heap' = DOMAIN heap \ {Carried}
        /\ \A v \in DOMAIN heap' : heap'[v] = heap[v]
    BY <1>5, FreedTypes DEF Drops
  <2>2. \A q \in Solid : heap'[reg[q]] = heap[reg[q]]
    BY <1>1, <2>1 DEF Owned
  <2>3. origin'[r] = [by |-> "event", json |-> NewValue] /\ \A q \in Regs \ {r} : origin'[q] = origin[q]
    BY <1>5 DEF Drops
  <2>4. \A q \in Solid : Tells(heap'[reg[q]], origin'[q])
    BY <1>1, <1>5, <2>2, <2>3 DEF Drops, Meanings, Tells
  <2>5. \A q \in Regs : reg[q] = 0 => origin'[q].by \in {"nobody", "clear"}
    BY <1>1, <1>5, <2>3 DEF Drops, Meanings
  <2>. QED BY <1>5, <2>4, <2>5 DEF Drops, Meanings
<1>6. ASSUME NEW r \in Regs, HandsOver(r)
      PROVE  Meanings'
  <2>1. reg'[r] = Carried /\ \A q \in Regs \ {r} : reg'[q] = reg[q]
    BY <1>1, <1>6 DEF HandsOver
  <2>2. /\ Carried = 0 => origin'[r] = [by |-> "clear"]
        /\ Carried # 0 => origin'[r] = [by |-> "event", json |-> NewValue]
        /\ \A q \in Regs \ {r} : origin'[q] = origin[q]
    BY <1>6 DEF HandsOver
  <2>3. Carried # 0 => Tells(heap[Carried], origin'[r])
    BY <2>2 DEF Tells, Meanings, Same
  <2>4. \A q \in Solid' : Tells(heap'[reg'[q]], origin'[q])
    BY <1>1, <1>6, <2>1, <2>2, <2>3 DEF HandsOver, Meanings
  <2>5. \A q \in Regs : reg'[q] = 0 => origin'[q].by \in {"nobody", "clear"}
    BY <2>1, <2>2 DEF Meanings
  <2>. QED BY <1>6, <2>4, <2>5 DEF HandsOver, Meanings
<1>7. ASSUME NEW r \in Regs, NEW j, NEW o, Puts(r, j, o)
      PROVE  Meanings'
  <2>1. /\ New # 0 /\ heap'[New] = j
        /\ \A v \in DOMAIN heap : heap'[v] = heap[v]
    BY <1>7, AllocateTypes DEF Puts
  <2>2. /\ reg'[r] = New /\ origin'[r] = o
        /\ \A q \in Regs \ {r} : reg'[q] = reg[q] /\ origin'[q] = origin[q]
    BY <1>1, <1>7 DEF Puts
  <2>3. \A q \in Solid' : Tells(heap'[reg'[q]], origin'[q])
    BY <1>1, <1>7, <2>1, <2>2 DEF Puts, Owned, Meanings
  <2>4. Carried # 0 => heap'[Carried] = heap[Carried]
    BY <2>1 DEF Owned
  <2>. QED BY <1>7, <2>1, <2>2, <2>3, <2>4 DEF Puts, Meanings
<1>8. CASE Leaves
  <2>1. Solid' = {} /\ Carried' = 0 /\ \A r \in Regs : origin'[r] = [by |-> "nobody"]
    BY <1>8 DEF Leaves
  <2>. QED BY <2>1 DEF Meanings
<1>. QED BY <1>2, <1>3, <1>4, <1>5, <1>6, <1>7, <1>8 DEF Moves

LEMMA MovesKeepRegisters ==
  ASSUME Moves, DOMAIN origin = Regs
  PROVE  DOMAIN origin' = DOMAIN origin
<1>1. ASSUME Keeps \/ Parses
      PROVE  DOMAIN origin' = DOMAIN origin
  BY <1>1 DEF Keeps, Parses
<1>2. ASSUME NEW r \in Regs, Frees(r) \/ Drops(r) \/ HandsOver(r)
      PROVE  DOMAIN origin' = DOMAIN origin
  BY <1>2 DEF Frees, Drops, HandsOver
<1>3. ASSUME NEW r \in Regs, NEW j, NEW o, Puts(r, j, o)
      PROVE  DOMAIN origin' = DOMAIN origin
  BY <1>3 DEF Puts
<1>4. CASE Leaves
  BY <1>4 DEF Leaves
<1>. QED BY <1>1, <1>2, <1>3, <1>4 DEF Moves

LEMMA ReadsStep ==
  ASSUME TypeInv, ValuesInv, ReadsInv, [Next]_vars
  PROVE  ReadsInv'
<1>. SUFFICES ASSUME ~clash' PROVE Meanings' /\ DOMAIN origin' = Regs
  BY DEF ReadsInv
<1>1. ~clash /\ Moves
  BY NextMoves
<1>. QED BY <1>1, MovesKeepMeanings, MovesKeepRegisters DEF ValuesInv, ReadsInv

-----------------------------------------------------------------------------
(* The conversions.                                                        *)
LEMMA LeastPlace ==
  ASSUME NEW S \in SUBSET Nat, S # {}
  PROVE  Min(S) \in S /\ \A y \in S : Min(S) <= y
<1>1. PICK x \in S : \A y \in S : ~(<<y, x>> \in OpToRel(<, Nat))
  BY NatLessThanWellFounded, WFMin
<1>2. \A y \in S : ~(y < x)
  BY <1>1 DEF OpToRel
<1>3. \A y \in S : x <= y
  BY <1>2
<1>. QED BY <1>3 DEF Min

(* A number comes back as the number it is, whatever the range.            *)
LEMMA NumberReadsBack ==
  ASSUME NEW info, NEW j, j.kind = "number"
  PROVE  ReadsBackNumber(info, j.num, Times(JsonDpValueToDouble(j, info), info.mult))
<1>1. JsonDpValueToDouble(j, info) = Converted(j.num)
  BY DEF JsonDpValueToDouble, IsInvalid, DpValueRangeCheck
<1>2. ReadsBackNumber(info, j.num, Times(Converted(j.num), info.mult))
  BY DEF ReadsBackNumber, Times, Converted
<1>. QED BY <1>1, <1>2

(* A label comes back as its number, if no label before it equals it.      *)
LEMMA LabelReadsBack ==
  ASSUME NEW info, info.enum \in Seq([value : Int, label : STRING]), NEW k \in DOMAIN info.enum,
         ~Shadowed(info, k), ~IsInvalid(info, Text(info.enum[k].label))
  PROVE  JsonDpValueToDouble(Text(info.enum[k].label), info) = Converted(info.enum[k].value)
<1>1. PICK json : json = Text(info.enum[k].label)
  OBVIOUS
<1>. DEFINE found == {l \in DOMAIN info.enum : Lower[info.enum[l].label] = Lower[json.str]}
<1>2. json.kind = "string" /\ json.str = info.enum[k].label /\ ~IsInvalid(info, json)
  BY <1>1 DEF Text
<1>3. DOMAIN info.enum = 1 .. Len(info.enum) /\ Len(info.enum) \in Nat
  OBVIOUS
<1>4. k \in found /\ found \in SUBSET Nat
  BY <1>2, <1>3
<1>5. \A l \in found : k <= l
  <2>. SUFFICES ASSUME NEW l \in found, ~(k <= l) PROVE FALSE
    OBVIOUS
  <2>1. l \in 1 .. k - 1
    BY <1>3
  <2>. QED BY <1>2, <2>1 DEF Shadowed
<1>6. Min(found) = k
  <2>. HIDE DEF found
  <2>1. Min(found) \in found /\ Min(found) <= k
    BY <1>4, LeastPlace
  <2>. QED BY <1>4, <1>5, <2>1
<1>7. info.enum # <<>>
  BY <1>3
<1>8. JsonDpValueToDouble(json, info) =
        Converted(IF found # {} THEN info.enum[Min(found)].value ELSE info.dflt)
  BY <1>2, <1>7 DEF JsonDpValueToDouble, Places
<1>. QED BY <1>1, <1>4, <1>6, <1>8

LEMMA WriteReadsBack ==
  ASSUME NEW info, NEW from, NEW v, from.type = "double",
         info.enum \in Seq([value : Int, label : STRING])
  PROVE  ReadsBackWrite(info, from, v,
           Times(JsonDpValueToDouble(GetDpValForLocStorUpdate(from, v), info), info.mult))
<1>. DEFINE j == GetDpValForLocStorUpdate(from, v)
            result == Times(JsonDpValueToDouble(j, info), info.mult)
<1>. SUFFICES ASSUME info.enum = from.enum PROVE ReadsBackWrite(info, from, v, result)
  BY DEF ReadsBackWrite
<1>1. CASE info.enum = <<>>
  <2>1. j.kind = "number" /\ j.num = v
    BY <1>1 DEF GetDpValForLocStorUpdate, ConvertDoubleToJson, Number
  <2>. QED BY <1>1, <2>1, NumberReadsBack DEF ReadsBackWrite
<1>2. CASE info.enum # <<>> /\ Labels(info, v) = {}
  <2>1. j = JsonNull
    BY <1>2 DEF GetDpValForLocStorUpdate, ConvertDoubleToJson, Places, Labels
  <2>2. JsonDpValueToDouble(j, info) = Failed
    BY <2>1 DEF JsonDpValueToDouble, JsonNull, IsInvalid
  <2>. QED BY <1>2, <2>2 DEF ReadsBackWrite, Times, Failed
<1>3. CASE info.enum # <<>> /\ Labels(info, v) # {}
  <2>1. Labels(info, v) \in SUBSET Nat
    BY DEF Labels
  <2>2. PICK k \in Labels(info, v) : k = Min(Labels(info, v)) /\ \A l \in Labels(info, v) : k <= l
    BY <1>3, <2>1, LeastPlace
  <2>3. k \in DOMAIN info.enum /\ info.enum[k].value = v
    BY DEF Labels
  <2>4. j = Text(info.enum[k].label)
    BY <1>3, <2>2 DEF GetDpValForLocStorUpdate, ConvertDoubleToJson, Places, Labels
  <2>5. CASE Shadowed(info, k) \/ IsInvalid(info, Text(info.enum[k].label))
    BY <2>2, <2>5 DEF ReadsBackWrite
  <2>6. CASE ~Shadowed(info, k) /\ ~IsInvalid(info, Text(info.enum[k].label))
    <3>1. JsonDpValueToDouble(j, info) = Converted(v)
      BY <2>3, <2>4, <2>6, LabelReadsBack
    <3>2. result = Times(Converted(v), info.mult)
      BY <3>1
    <3>. HIDE DEF result
    <3>3. ReadsBackNumber(info, v, result)
      BY <3>2 DEF ReadsBackNumber, Times, Converted
    <3>4. ReadsBackWrite(info, from, v, result)
      BY <2>2, <3>3 DEF ReadsBackWrite
    <3>. QED BY <3>4
  <2>. QED BY <2>5, <2>6
<1>. QED BY <1>1, <1>2, <1>3

-----------------------------------------------------------------------------
(* What a read answers.                                                    *)
ReadOK(info, o, result) ==
  /\ o.by \in {"nobody", "clear"} => ~result.ok
  /\ o.by = "write" /\ info.type = "double" /\ Info[o.dp].type = "double" =>
       ReadsBackWrite(info, Info[o.dp], o.value, result)
  /\ o.by = "event" /\ info.type = "double" /\ o.json.kind = "number" =>
       ReadsBackNumber(info, o.json.num, result)
  /\ o.by = "event" /\ info.type # "double" => Same(result.value, o.json)

LEMMA ReadsBackAsReadOK ==
  ReadsBack <=> (answer # NONE /\ ~clash => ReadOK(Info[answer.dp], answer.origin, answer.result))
BY DEF ReadsBack, ReadOK

LEMMA TellsReadOK ==
  ASSUME NEW d \in Dp, NEW j, NEW o, Tells(j, o)
  PROVE  ReadOK(Info[d], o, IF Info[d].type = "double"
                            THEN Times(JsonDpValueToDouble(j, Info[d]), Info[d].mult)
                            ELSE Converted(j))
<1>. DEFINE info == Info[d]
            result == IF info.type = "double"
                      THEN Times(JsonDpValueToDouble(j, info), info.mult) ELSE Converted(j)
<1>1. o.by \notin {"nobody", "clear"}
  BY DEF Tells
<1>2. ASSUME o.by = "write", info.type = "double", Info[o.dp].type = "double"
      PROVE  ReadsBackWrite(info, Info[o.dp], o.value, result)
  <2>1. j = GetDpValForLocStorUpdate(Info[o.dp], o.value)
    BY <1>2 DEF Tells
  <2>2. info.enum \in Seq([value : Int, label : STRING])
    BY EnumAssumption, XifAssumption DEF Dp
  <2>. QED BY <1>2, <2>1, <2>2, WriteReadsBack
<1>3. ASSUME o.by = "event", info.type = "double", o.json.kind = "number"
      PROVE  ReadsBackNumber(info, o.json.num, result)
  <2>1. j = o.json /\ j.kind = "number"
    BY <1>3 DEF Tells, Same
  <2>. QED BY <1>3, <2>1, NumberReadsBack
<1>4. o.by = "event" /\ info.type # "double" => Same(result.value, o.json)
  BY DEF Tells, Converted
<1>. HIDE DEF info, result
<1>5. ReadOK(info, o, result)
  BY <1>1, <1>2, <1>3, <1>4 DEF ReadOK
<1>. QED BY <1>5 DEF info, result

(* Each step but the last ones of a read leaves the answer, or takes it    *)
(* back for the next request.                                              *)
LEMMA AnswerStep ==
  [Next]_vars => answer' = answer \/ answer' = NONE \/ ReadChecks \/ ReadConverts
<1>1. OnDpCreate \/ OnDpWrite \/ OnDpRead => answer' = NONE
  BY DEF OnDpCreate, OnDpWrite, OnDpRead, Request
<1>2. BindChecks \/ BindStores \/ BindPrints => answer' = answer
  BY DEF BindChecks, BindStores, BindPrints, ghosts
<1>3. WriteDeletes \/ WriteStores \/ WritePrints \/ ReadPrints => answer' = answer
  BY DEF WriteDeletes, WriteStores, WritePrints, ReadPrints
<1>4. ASSUME NEW m \in Messages, EventArrives(m)
      PROVE  answer' = answer
  BY <1>4 DEF EventArrives
<1>5. EventParses \/ EventFrees \/ EventStores => answer' = answer
  BY DEF EventParses, EventFrees, EventStores
<1>6. EventCompares => answer' = answer
  BY DEF EventCompares
<1>7. ASSUME NEW d \in Dp, LibraryTakesTexts(d)
      PROVE  answer' = answer
  BY <1>7 DEF LibraryTakesTexts, ghosts
<1>8. UNCHANGED vars => answer' = answer
  BY DEF vars, ghosts
<1>9. DeviceDeleted => answer' = NONE
  BY DEF DeviceDeleted
<1>. QED BY <1>1, <1>2, <1>3, <1>4, <1>5, <1>6, <1>7, <1>8, <1>9
         DEF Next, DriverThread, EtiThread

LEMMA ReadsBackStep ==
  ASSUME TypeInv, ValuesInv, ReadsInv, ReadsBack, [Next]_vars
  PROVE  ReadsBack'
<1>. SUFFICES ASSUME ~clash', answer' # NONE
              PROVE  ReadOK(Info[answer'.dp], answer'.origin, answer'.result)
  BY DEF ReadsBack, ReadOK
<1>1. ~clash
  BY ClashStays
<1>2. CASE answer' = answer
  BY <1>1, <1>2, ReadsBackAsReadOK
<1>3. CASE ReadChecks /\ answer' # answer
  <2>1. /\ drv # NONE /\ reg[DrvReg] = 0 /\ answer'.dp = drv.dp /\ answer'.result = Failed
        /\ answer'.origin = origin[DrvReg]
    BY <1>3 DEF ReadChecks, DrvAt
  <2>2. origin[DrvReg].by \in {"nobody", "clear"}
    BY <1>1, <2>1, JobFacts DEF ReadsInv, Meanings
  <2>. QED BY <2>1, <2>2 DEF ReadOK, Failed
<1>4. CASE ReadConverts
  <2>1. /\ drv # NONE /\ ~DrvAt("write", "store") /\ DrvAt("read", "convert")
        /\ answer'.dp = drv.dp /\ answer'.origin = origin[DrvReg]
        /\ answer'.result = IF Info[drv.dp].type = "double"
             THEN Times(JsonDpValueToDouble(ValueOf(reg[DrvReg]), Info[drv.dp]), Info[drv.dp].mult)
             ELSE Converted(ValueOf(reg[DrvReg]))
    BY <1>4 DEF ReadConverts, DrvAt
  <2>2. DrvReg \in Solid
    BY <1>1, <2>1, OwnRegister DEF ValuesInv, Remembered
  <2>3. ValueOf(reg[DrvReg]) = heap[reg[DrvReg]] /\ Tells(heap[reg[DrvReg]], origin[DrvReg])
    BY <1>1, <2>2 DEF ValuesInv, Owned, ReadsInv, Meanings, ValueOf, IsLive
  <2>4. drv.dp \in Dp
    BY <2>1 DEF TypeInv, HandsInv, JobOK
  <2>. QED BY <2>1, <2>3, <2>4, TellsReadOK
<1>. QED BY <1>2, <1>3, <1>4, AnswerStep

-----------------------------------------------------------------------------
(* A text buffer is allocated as long as a datapoint leads to it.          *)
Leads(d, t) == t # 0 /\ t \in {raw[d], actual[d]}

TextsInv ==
  /\ raw \in [Dp -> 0 .. 3] /\ actual \in [Dp -> 0 .. 3]
  /\ texts \subseteq Dp \X (1 .. 3)
  /\ \A d \in Dp, t \in 1 .. 3 : <<d, t>> \in texts <=> Leads(d, t)
  /\ \A d \in Dp : Info[d].type # "ascii" => actual[d] = 0
  /\ "text" \notin misused

(* Steps that change no text.                                              *)
LEMMA TextsStay ==
  ASSUME TextsInv, UNCHANGED strings, "text" \notin misused'
  PROVE  TextsInv'
BY DEF TextsInv, Leads, strings

(* Of three buffers one is free while another is in use at most.           *)
LEMMA FreshTextIsFree ==
  ASSUME NEW d, NEW T, NEW s, \A t \in 1 .. 3 : <<d, t>> \in T => t = s
  PROVE  FreshText(d, T) \in 1 .. 3 /\ <<d, FreshText(d, T)>> \notin T
<1>1. 1 \in 1 .. 3 /\ 2 \in 1 .. 3 /\ 1 # 2
  OBVIOUS
<1>2. \E t \in 1 .. 3 : <<d, t>> \notin T
  BY <1>1
<1>. QED BY <1>2 DEF FreshText

(* The datapoint read gets new texts, all others keep theirs.              *)
LEMMA AsciiTexts ==
  ASSUME TextsInv, NEW d \in Dp, Info[d].type = "ascii", SetAsciiTexts(d)
  PROVE  TextsInv'
<1>. DEFINE left1 == texts \ {<<d, actual[d]>>}
            act   == FreshText(d, left1)
            left2 == IF FreesRaw(d) THEN left1 \ {<<d, raw[d]>>} ELSE left1
            rw    == FreshText(d, left2 \cup {<<d, act>>})
<1>1. /\ \A t \in 1 .. 3 : <<d, t>> \in left1 => t = raw[d]
      /\ \A e \in Dp \ {d}, t \in 1 .. 3 : <<e, t>> \in left1 <=> Leads(e, t)
      /\ left1 \subseteq Dp \X (1 .. 3)
  BY DEF TextsInv, Leads
<1>2. act \in 1 .. 3
  <2>. HIDE DEF left1
  <2>. QED BY <1>1, FreshTextIsFree
<1>3. /\ \A t \in 1 .. 3 : <<d, t>> \notin left2
      /\ \A e \in Dp \ {d}, t \in 1 .. 3 : <<e, t>> \in left2 <=> Leads(e, t)
      /\ left2 \subseteq Dp \X (1 .. 3)
  BY <1>1 DEF TextsInv, Leads, FreesRaw
<1>4. rw \in 1 .. 3
  <2>. HIDE DEF left2, act
  <2>. QED BY <1>3, FreshTextIsFree
<1>5. /\ actual' = [actual EXCEPT ![d] = act] /\ raw' = [raw EXCEPT ![d] = rw]
      /\ texts' = left2 \cup {<<d, act>>, <<d, rw>>}
  BY DEF SetAsciiTexts
<1>6. "text" \notin misused'
  <2>1. ASSUME FreesRaw(d)
        PROVE  <<d, raw[d]>> \in left1
    <3>1. raw[d] \in 1 .. 3 /\ raw[d] # actual[d]
      BY <2>1 DEF TextsInv, FreesRaw
    <3>2. Leads(d, raw[d])
      BY <3>1 DEF Leads
    <3>3. <<d, raw[d]>> \in texts
      BY <3>1, <3>2 DEF TextsInv
    <3>. QED BY <3>1, <3>3
  <2>. QED BY <2>1 DEF SetAsciiTexts, TextsInv
<1>. HIDE DEF left1, left2, act, rw
<1>7. /\ raw' \in [Dp -> 0 .. 3] /\ actual' \in [Dp -> 0 .. 3]
      /\ raw'[d] = rw /\ actual'[d] = act
      /\ \A e \in Dp \ {d} : raw'[e] = raw[e] /\ actual'[e] = actual[e]
  BY <1>2, <1>4, <1>5 DEF TextsInv
<1>8. \A e \in Dp, t \in 1 .. 3 : <<e, t>> \in texts' <=> Leads(e, t)'
  <2>1. \A t \in 1 .. 3 : <<d, t>> \in texts' <=> Leads(d, t)'
    BY <1>3, <1>5, <1>7 DEF Leads
  <2>2. \A e \in Dp \ {d}, t \in 1 .. 3 : <<e, t>> \in texts' <=> Leads(e, t)'
    BY <1>3, <1>5, <1>7 DEF Leads
  <2>. QED BY <2>1, <2>2
<1>9. texts' \subseteq Dp \X (1 .. 3)
  BY <1>2, <1>3, <1>4, <1>5
<1>10. \A e \in Dp : Info[e].type # "ascii" => actual'[e] = 0
  BY <1>7 DEF TextsInv
<1>. QED BY <1>6, <1>7, <1>8, <1>9, <1>10 DEF TextsInv

LEMMA NativeText ==
  ASSUME TextsInv, NEW d \in Dp, Info[d].type = "native", SetNativeText(d)
  PROVE  TextsInv'
<1>. DEFINE left == texts \ {<<d, raw[d]>>}
            rw   == FreshText(d, left)
<1>1. /\ \A t \in 1 .. 3 : <<d, t>> \notin left
      /\ \A e \in Dp \ {d}, t \in 1 .. 3 : <<e, t>> \in left <=> Leads(e, t)
      /\ left \subseteq Dp \X (1 .. 3)
  BY DEF TextsInv, Leads
<1>2. rw \in 1 .. 3
  <2>. HIDE DEF left
  <2>. QED BY <1>1, FreshTextIsFree
<1>3. /\ raw' = [raw EXCEPT ![d] = rw] /\ texts' = left \cup {<<d, rw>>} /\ actual' = actual
      /\ "text" \notin misused'
  BY DEF SetNativeText, Uses, TextsInv
<1>. HIDE DEF left, rw
<1>4. /\ raw' \in [Dp -> 0 .. 3] /\ raw'[d] = rw
      /\ \A e \in Dp \ {d} : raw'[e] = raw[e]
  BY <1>2, <1>3 DEF TextsInv
<1>5. \A e \in Dp, t \in 1 .. 3 : <<e, t>> \in texts' <=> Leads(e, t)'
  <2>1. \A t \in 1 .. 3 : <<d, t>> \in texts' <=> Leads(d, t)'
    BY <1>1, <1>3, <1>4 DEF Leads, TextsInv
  <2>2. \A e \in Dp \ {d}, t \in 1 .. 3 : <<e, t>> \in texts' <=> Leads(e, t)'
    BY <1>1, <1>3, <1>4 DEF Leads
  <2>. QED BY <2>1, <2>2
<1>6. texts' \subseteq Dp \X (1 .. 3)
  BY <1>1, <1>2, <1>3
<1>. QED BY <1>3, <1>4, <1>5, <1>6 DEF TextsInv

(* The library takes a text that nothing else leads to.                    *)
LEMMA TakenTexts ==
  ASSUME TextsInv, NEW d \in Dp, LibraryTakesTexts(d)
  PROVE  TextsInv'
<1>1. /\ raw[d] # 0 /\ raw[d] # actual[d] /\ misused' = misused
  BY DEF LibraryTakesTexts, FreesRaw, ghosts
<1>2. /\ raw' \in [Dp -> 0 .. 3] /\ actual' \in [Dp -> 0 .. 3]
      /\ \A e \in Dp \ {d} : raw'[e] = raw[e] /\ actual'[e] = actual[e]
  BY DEF LibraryTakesTexts, TextsInv
<1>3. \/ raw'[d] = 0 /\ actual'[d] = actual[d] /\ texts' = texts \ {<<d, raw[d]>>}
      \/ /\ raw'[d] = raw[d] /\ actual[d] # 0 /\ actual'[d] \in {0, raw[d]}
         /\ texts' = texts \ {<<d, actual[d]>>}
  <2>1. CASE raw' = [raw EXCEPT ![d] = 0] /\ texts' = texts \ {<<d, raw[d]>>} /\ UNCHANGED actual
    BY <2>1 DEF TextsInv
  <2>2. CASE /\ actual[d] # 0
             /\ \E t \in {0, raw[d]} : actual' = [actual EXCEPT ![d] = t]
             /\ texts' = texts \ {<<d, actual[d]>>} /\ UNCHANGED raw
    BY <2>2 DEF TextsInv
  <2>. QED BY <2>1, <2>2 DEF LibraryTakesTexts
<1>4. \A e \in Dp, t \in 1 .. 3 : <<e, t>> \in texts' <=> Leads(e, t)'
  <2>1. \A t \in 1 .. 3 : <<d, t>> \in texts' <=> Leads(d, t)'
    BY <1>1, <1>2, <1>3 DEF TextsInv, Leads
  <2>2. \A e \in Dp \ {d}, t \in 1 .. 3 : <<e, t>> \in texts' <=> Leads(e, t)'
    BY <1>2, <1>3 DEF TextsInv, Leads
  <2>. QED BY <2>1, <2>2
<1>5. \A e \in Dp : Info[e].type # "ascii" => actual'[e] = 0
  BY <1>2, <1>3 DEF TextsInv
<1>6. texts' \subseteq Dp \X (1 .. 3)
  BY <1>3 DEF TextsInv
<1>. QED BY <1>1, <1>2, <1>4, <1>5, <1>6 DEF TextsInv

LEMMA TextsStep ==
  ASSUME TypeInv, TextsInv, [Next]_vars
  PROVE  TextsInv'
<1>1. ASSUME NEW v, Uses(v)
      PROVE  "text" \notin misused'
  BY <1>1 DEF Uses, TextsInv
<1>2. ASSUME OnDpCreate \/ OnDpWrite \/ OnDpRead
      PROVE  TextsInv'
  BY <1>2, TextsStay DEF OnDpCreate, OnDpWrite, OnDpRead, Request, TextsInv
<1>3. ASSUME BindChecks \/ BindStores \/ BindPrints
      PROVE  TextsInv'
  <2>1. UNCHANGED strings /\ "text" \notin misused'
    BY <1>1, <1>3 DEF BindChecks, BindStores, BindPrints, TextsInv, ghosts
  <2>. QED BY <2>1, TextsStay
<1>4. ASSUME WriteDeletes \/ WriteStores \/ WritePrints
      PROVE  TextsInv'
  <2>1. UNCHANGED strings /\ "text" \notin misused'
    BY <1>1, <1>4 DEF WriteDeletes, CjsonFree, WriteStores, WritePrints, TextsInv
  <2>. QED BY <2>1, TextsStay
<1>5. ASSUME ReadChecks \/ ReadPrints
      PROVE  TextsInv'
  <2>1. UNCHANGED strings /\ "text" \notin misused'
    BY <1>1, <1>5 DEF ReadChecks, ReadPrints, TextsInv
  <2>. QED BY <2>1, TextsStay
<1>6. ASSUME ReadConverts
      PROVE  TextsInv'
  <2>1. drv.dp \in Dp
    BY <1>6 DEF ReadConverts, DrvAt, TypeInv, HandsInv, JobOK
  <2>2. \/ Info[drv.dp].type = "ascii" /\ SetAsciiTexts(drv.dp)
        \/ Info[drv.dp].type = "native" /\ SetNativeText(drv.dp)
        \/ Uses(reg[DrvReg]) /\ UNCHANGED strings
    BY <1>6 DEF ReadConverts
  <2>. QED BY <1>1, <2>1, <2>2, AsciiTexts, NativeText, TextsStay
<1>7. ASSUME EtiThread
      PROVE  TextsInv'
  <2>1. ASSUME NEW m \in Messages, EventArrives(m)
        PROVE  UNCHANGED strings /\ "text" \notin misused'
    BY <2>1 DEF EventArrives, TextsInv
  <2>2. ASSUME EventParses \/ EventFrees \/ EventStores
        PROVE  UNCHANGED strings /\ "text" \notin misused'
    BY <1>1, <2>2 DEF EventParses, EventFrees, CjsonFree, EventStores, TextsInv
  <2>3. ASSUME EventCompares
        PROVE  UNCHANGED strings /\ "text" \notin misused'
    BY <1>1, <2>3 DEF EventCompares
  <2>. QED BY <1>7, <2>1, <2>2, <2>3, TextsStay DEF EtiThread
<1>8. ASSUME UNCHANGED vars
      PROVE  TextsInv'
  BY <1>8, TextsStay DEF vars, ghosts, TextsInv
<1>9. ASSUME DeviceDeleted
      PROVE  TextsInv'
  <2>1. /\ raw' = [d \in Dp |-> 0] /\ actual' = [d \in Dp |-> 0] /\ texts' = {}
        /\ misused' = misused
    BY <1>9 DEF DeviceDeleted
  <2>2. \A d \in Dp : raw'[d] = 0 /\ actual'[d] = 0
    BY <2>1
  <2>3. raw' \in [Dp -> 0 .. 3] /\ actual' \in [Dp -> 0 .. 3]
    BY <2>1
  <2>. QED BY <2>1, <2>2, <2>3 DEF TextsInv, Leads
<1>. QED BY <1>2, <1>3, <1>4, <1>5, <1>6, <1>7, <1>8, <1>9, TakenTexts DEF Next, DriverThread

LEMMA TextsInit == Init => TextsInv
BY DEF Init, TextsInv, Leads

-----------------------------------------------------------------------------
(* The inductive invariant.                                                *)
RegInv == TypeInv /\ TextsInv /\ ValuesInv /\ ReadsInv /\ ReadsBack

LEMMA RegInvariant == Spec => []RegInv
<1>1. Init => RegInv
  <2>1. Init => ReadsBack
    BY DEF Init, ReadsBack
  <2>. QED BY <2>1, TypeInit, TextsInit, ValuesInit DEF RegInv
<1>2. RegInv /\ [Next]_vars => RegInv'
  BY TypeStep, TextsStep, ValuesStep, ReadsStep, ReadsBackStep DEF RegInv
<1>. QED BY <1>1, <1>2, PTL DEF Spec

(* Every register a thread is at is one of the device's, whatever register *)
(* an ev message names.                                                    *)
THEOREM RegTypes == Spec => []RegTypeOK
<1>1. RegInv => RegTypeOK
  BY ArrivalFacts DEF RegInv, TypeInv, HandsInv, JobOK, MemoryInv, TextsInv, RegTypeOK
<1>. QED BY <1>1, RegInvariant, PTL

(* As long as no ev message has met a request on its register, no value is *)
(* used or freed after it was freed.                                       *)
THEOREM ApartThreadsAreSafe == Spec => []ApartIsSafe
<1>1. RegInv => ApartIsSafe
  BY DEF RegInv, ValuesInv, Owned, Solid, Gap, IsLive, ApartIsSafe
<1>. QED BY <1>1, RegInvariant, PTL

(* Nor is one lost while its device lives: each has a register or the ETI  *)
(* thread to free it.                                                      *)
THEOREM OnlyADeletionLosesValues == Spec => []OnlyDeletionLoses
<1>1. RegInv => OnlyDeletionLoses
  <2>. SUFFICES ASSUME RegInv, ~clash, NEW v \in DOMAIN heap PROVE v \in Held
    BY DEF OnlyDeletionLoses
  <2>1. v = Carried \/ \E r \in Solid : reg[r] = v
    BY DEF RegInv, ValuesInv, Owned
  <2>2. v # 0
    BY BoundAssumption DEF RegInv, TypeInv, MemoryInv
  <2>. QED BY <2>1, <2>2 DEF Held, Carried, Solid
<1>. QED BY <1>1, RegInvariant, PTL

(* The buffers of a datapoint's texts are allocated as long as something   *)
(* leads to them and no longer, and none is freed twice.                   *)
THEOREM TextsHaveOneOwner == Spec => []TextsOwned
<1>1. TextsInv => TextsOwned
  <2>. SUFFICES ASSUME TextsInv PROVE TextsOwned
    OBVIOUS
  <2>. DEFINE led == UNION {{<<d, raw[d]>>, <<d, actual[d]>>} : d \in Dp}
  <2>1. ASSUME NEW p \in texts
        PROVE  p \in led \ (Dp \X {0})
    <3>1. PICK d \in Dp, t \in 1 .. 3 : p = <<d, t>>
      BY DEF TextsInv
    <3>2. t \in {raw[d], actual[d]}
      BY <3>1 DEF TextsInv, Leads
    <3>. QED BY <3>1, <3>2
  <2>2. ASSUME NEW p \in led \ (Dp \X {0})
        PROVE  p \in texts
    <3>1. PICK d \in Dp : p \in {<<d, raw[d]>>, <<d, actual[d]>>}
      OBVIOUS
    <3>2. PICK t \in 0 .. 3 : p = <<d, t>> /\ t \in {raw[d], actual[d]}
      BY <3>1 DEF TextsInv
    <3>3. t # 0
      BY <3>2
    <3>4. Leads(d, t) /\ t \in 1 .. 3
      BY <3>2, <3>3 DEF Leads
    <3>. QED BY <3>2, <3>4 DEF TextsInv
  <2>3. texts = led \ (Dp \X {0})
    <3>. HIDE DEF led
    <3>. QED BY <2>1, <2>2
  <2>4. "text" \notin misused
    BY DEF TextsInv
  <2>. QED BY <2>3, <2>4 DEF TextsOwned
<1>2. RegInv => TextsInv
  BY DEF RegInv
<1>. QED BY <1>1, <1>2, RegInvariant, PTL

(* A read answers what was written or announced last.                      *)
THEOREM ReadsAnswerTheLastWrite == Spec => []ReadsBack
<1>1. RegInv => ReadsBack
  BY DEF RegInv
<1>. QED BY <1>1, RegInvariant, PTL
=============================================================================
