----------------------------- MODULE RegAccess -----------------------------
(***************************************************************************)
(* The registers of one device, statement by statement: the driver thread  *)
(* binds, writes and reads datapoints (src/example.cpp) while the ETI      *)
(* thread puts the values of ev messages into the same vector (src/eti.cpp *)
(* DevRegEvHndl).  Nothing locks a register.  When the device is deleted   *)
(* the vector goes and the values it points to stay; a device created      *)
(* after that starts with a vector of NULL pointers.                       *)
(*                                                                         *)
(* A cJSON value is a pointer to its node.  What a string or a tree has    *)
(* allocated below the node is left out, and with it that IdlCjsonDelete   *)
(* frees it and cJSON_free (eti.cpp 148, 151 and 163) leaves it behind.    *)
(***************************************************************************)
EXTENDS DpValue

CONSTANTS
  Xif,                 \* the datapoints of the device, in the order of their rows
  Info,                \* per datapoint: IdlDpInfo, address and testMultiplier
  RegMax,              \* devDpCounts
  UIntMod,             \* 2^32, the range of an unsigned int
  Writes,              \* bound: per datapoint, the values written to it
  Messages,            \* bound: the ev messages, each a field and a payload
  MaxValues,           \* bound: values allocated at a time
  NONE

ASSUME XifAssumption == Xif \in Seq(DOMAIN Info)
ASSUME RegAssumption == RegMax \in Nat \ {0} /\ UIntMod \in Nat /\ RegMax <= UIntMod
ASSUME AddressAssumption == \A k \in DOMAIN Xif : Info[Xif[k]].address \in 0 .. RegMax - 1
ASSUME BoundAssumption == MaxValues \in Nat
ASSUME EnumAssumption ==
  \A d \in DOMAIN Info : Info[d].enum \in Seq([value : Int, label : STRING])
(* The texts the library has for a native datapoint are JSON. *)
ASSUME NativeAssumption ==
  \A k \in DOMAIN Xif : Info[Xif[k]].type = "native" =>
    Writes[Xif[k]] \cup {Info[Xif[k]].dfltText} \subseteq DOMAIN JsonOf

ASSUME MessageAssumption ==
  \A m \in Messages : "word" \in DOMAIN m.field \/ m.field.num \in Int

Dp   == {Xif[k] : k \in DOMAIN Xif}
Regs == 0 .. RegMax - 1

(* What the two threads have in hand; NONE is neither. *)
Job(op, d, value, at) == [op |-> op, dp |-> d, value |-> value, at |-> at]
Arrival(r, msg, v, at) == [reg |-> r, msg |-> msg, new |-> v, at |-> at]

JobPlaces     == {"check", "store", "print", "publish", "convert"}
ArrivalPlaces == {"parse", "compare", "free", "store"}

ASSUME NoneAssumption ==
  /\ \A d \in Dp, at \in JobPlaces :
       /\ \A op \in {"bind", "read"} : Job(op, d, 0, at) # NONE
       /\ \A value \in Writes[d] : Job("write", d, value, at) # NONE
  /\ \A m \in Messages, r \in Regs, v \in 0 .. MaxValues, at \in ArrivalPlaces :
       Arrival(r, m.msg, v, at) # NONE

VARIABLES
  reg,                 \* pDevDpValVector: per register the value it points to, 0 for NULL
  heap,                \* the values allocated for the device: what each is
  bound,               \* how many datapoints have their idiDpData set
  drv,                 \* the driver thread's request, or NONE
  evt,                 \* the ETI thread's message, or NONE
  raw, actual,         \* per datapoint: rawStringValue and actualStringValue, 0 for NULL
  texts,               \* the text buffers that are allocated
  answer,              \* what the last read has answered
  origin,              \* per register: the operation that set it last
  clash,               \* two operations on a register have met, one of them replacing its value
  misused              \* "value" or "text": one that is not allocated was used or freed

values  == <<reg, heap>>
strings == <<raw, actual, texts>>
threads == <<bound, drv, evt>>
ghosts  == <<answer, origin, clash, misused>>
vars    == <<values, strings, threads, ghosts>>

Init ==
  /\ reg = [r \in Regs |-> 0] /\ heap = <<>>
  /\ bound = 0 /\ drv = NONE /\ evt = NONE
  /\ raw = [d \in Dp |-> 0] /\ actual = [d \in Dp |-> 0] /\ texts = {}
  /\ answer = NONE /\ origin = [r \in Regs |-> [by |-> "nobody"]]
  /\ clash = FALSE /\ misused = {}

-----------------------------------------------------------------------------
(* cJSON values: 0 is the NULL pointer.                                    *)

IsLive(v)  == v \in DOMAIN heap
ValueOf(v) == IF IsLive(v) THEN heap[v] ELSE Nothing

(* The next pointer calloc returns, and what it then points to. *)
New == CHOOSE v \in 1 .. MaxValues : ~IsLive(v)
Allocate(j) ==
  /\ Cardinality(DOMAIN heap) < MaxValues
  /\ heap' = [v \in DOMAIN heap \cup {New} |-> IF v = New THEN j ELSE heap[v]]

Uses(v)  == misused' = misused \cup (IF v = 0 \/ IsLive(v) THEN {} ELSE {"value"})

Freed(v) == heap' = [w \in DOMAIN heap \ {v} |-> heap[w]]

(* cJSON_free, or IdlCjsonDelete, of a value. *)
CjsonFree(v) == Freed(v) /\ Uses(v)

-----------------------------------------------------------------------------
(* The driver thread.                                                      *)

Address(d) == Info[d].address

EventReplaces == evt.at \in {"free", "store"}

Request(op, d, value) ==
  /\ drv = NONE /\ answer' = NONE
  /\ drv' = Job(op, d, value, "check")
  /\ clash' = (clash \/ (/\ evt # NONE /\ evt.reg = Address(d)
                         /\ (op # "read" \/ EventReplaces)))
  /\ UNCHANGED <<values, strings, bound, evt, origin, misused>>

Bound      == {Xif[k] : k \in 1 .. bound}
OnDpCreate == bound < Len(Xif) /\ Request("bind", Xif[bound + 1], 0)
OnDpWrite  == \E d \in Bound : \E value \in Writes[d] : Request("write", d, value)
OnDpRead   == \E d \in Bound : Request("read", d, 0)

DrvAt(op, at)  == drv # NONE /\ drv.op = op /\ drv.at = at
DrvReg         == Address(drv.dp)
GoesOnAt(at)   == drv' = [drv EXCEPT !.at = at]
SetBy(r, by)   == origin' = [origin EXCEPT ![r] = by]

(* DpSetCustomIdiDpData: another datapoint may have set the register. *)
BindChecks ==
  /\ DrvAt("bind", "check")
  /\ IF reg[DrvReg] = 0 THEN GoesOnAt("store") /\ UNCHANGED bound
                        ELSE drv' = NONE /\ bound' = bound + 1
  /\ UNCHANGED <<values, strings, evt, ghosts>>

BindStores ==
  /\ DrvAt("bind", "store") /\ GoesOnAt("print")
  /\ Allocate(GenerateDpDefVal(Info[drv.dp]))
  /\ reg' = [reg EXCEPT ![DrvReg] = New]
  /\ SetBy(DrvReg, [by |-> "default", dp |-> drv.dp])
  /\ UNCHANGED <<strings, bound, evt, answer, clash, misused>>

BindPrints ==
  /\ DrvAt("bind", "print") /\ drv' = NONE /\ bound' = bound + 1
  /\ Uses(reg[DrvReg])
  /\ UNCHANGED <<values, strings, evt, answer, origin, clash>>

(* IdiaDpwrite: the old value is deleted, the new one stored, printed and *)
(* published.                                                             *)
WriteDeletes ==
  /\ DrvAt("write", "check") /\ GoesOnAt("store")
  /\ CjsonFree(reg[DrvReg])
  /\ UNCHANGED <<reg, strings, bound, evt, answer, origin, clash>>

WriteStores ==
  /\ DrvAt("write", "store") /\ GoesOnAt("print")
  /\ Allocate(GetDpValForLocStorUpdate(Info[drv.dp], drv.value))
  /\ reg' = [reg EXCEPT ![DrvReg] = New]
  /\ SetBy(DrvReg, [by |-> "write", dp |-> drv.dp, value |-> drv.value])
  /\ UNCHANGED <<strings, bound, evt, answer, clash, misused>>

(* The text that is printed is published after that: the value is read a   *)
(* second time.                                                            *)
WritePrints ==
  /\ drv # NONE /\ drv.op = "write" /\ drv.at \in {"print", "publish"}
  /\ IF drv.at = "print" THEN GoesOnAt("publish") ELSE drv' = NONE
  /\ Uses(reg[DrvReg])
  /\ UNCHANGED <<values, strings, bound, evt, answer, origin, clash>>

(* IdiaDpread: the value is looked at, printed and converted. *)
ReadChecks ==
  /\ DrvAt("read", "check")
  /\ IF reg[DrvReg] # 0 THEN GoesOnAt("print") /\ UNCHANGED answer
     ELSE /\ drv' = NONE
          /\ answer' = [dp |-> drv.dp, result |-> Failed, origin |-> origin[DrvReg]]
  /\ UNCHANGED <<values, strings, bound, evt, origin, clash, misused>>

ReadPrints ==
  /\ DrvAt("read", "print") /\ GoesOnAt("convert")
  /\ Uses(reg[DrvReg])
  /\ UNCHANGED <<values, strings, bound, evt, answer, origin, clash>>

Times(result, mult) ==
  IF result.ok /\ mult # 0 THEN Converted(result.value * mult) ELSE result

FreshText(d, T) == CHOOSE t \in 1 .. 3 : <<d, t>> \notin T

FreesRawAlways(d) == raw[d] # 0     \* a slip: without pTemp

(* The library may have made both pointers the same text. *)
FreesRaw(d) == raw[d] # 0 /\ raw[d] # actual[d]

(* SetDpValueFromDpLocalStorage for an ascii datapoint: both texts are     *)
(* freed and made anew.                                                    *)
SetAsciiTexts(d) ==
  LET left1 == texts \ {<<d, actual[d]>>}
      act   == FreshText(d, left1)
      left2 == IF FreesRaw(d) THEN left1 \ {<<d, raw[d]>>} ELSE left1
      rw    == FreshText(d, left2 \cup {<<d, act>>})
  IN /\ actual' = [actual EXCEPT ![d] = act]
     /\ raw'    = [raw EXCEPT ![d] = rw]
     /\ texts'  = left2 \cup {<<d, act>>, <<d, rw>>}
     /\ misused' = misused
          \cup (IF FreesRaw(d) /\ <<d, raw[d]>> \notin left1 THEN {"text"} ELSE {})
          \cup (IF IsLive(reg[DrvReg]) THEN {} ELSE {"value"})

(* For a native one it is rawStringValue alone. *)
SetNativeText(d) ==
  LET left == texts \ {<<d, raw[d]>>}
      rw   == FreshText(d, left)
  IN /\ raw'   = [raw EXCEPT ![d] = rw]
     /\ texts' = left \cup {<<d, rw>>}
     /\ Uses(reg[DrvReg]) /\ UNCHANGED actual

ReadConverts ==
  /\ DrvAt("read", "convert") /\ drv' = NONE
  /\ LET d == drv.dp  info == Info[d]  j == ValueOf(reg[DrvReg])
     IN /\ \/ info.type = "ascii" /\ SetAsciiTexts(d)
           \/ info.type = "native" /\ SetNativeText(d)
           \/ info.type = "double" /\ Uses(reg[DrvReg]) /\ UNCHANGED strings
        /\ answer' = [dp |-> d, origin |-> origin[DrvReg], result |->
                        IF info.type = "double"
                        THEN Times(JsonDpValueToDouble(j, info), info.mult)
                        ELSE Converted(j)]
  /\ UNCHANGED <<values, bound, evt, origin, clash>>

(* What the library may do with the texts between two reads: free one and  *)
(* forget it, or keep one text for both.                                   *)
LibraryTakesTexts(d) ==
  /\ drv = NONE /\ FreesRaw(d)
  /\ \/ raw' = [raw EXCEPT ![d] = 0] /\ texts' = texts \ {<<d, raw[d]>>} /\ UNCHANGED actual
     \/ /\ actual[d] # 0
        /\ \E t \in {0, raw[d]} : actual' = [actual EXCEPT ![d] = t]
        /\ texts' = texts \ {<<d, actual[d]>>} /\ UNCHANGED raw
  /\ UNCHANGED <<values, threads, ghosts>>

(* DevRemoveCustomIdiDevData frees the vector and none of the values in    *)
(* it: no pointer leads to them any more, and heap drops them.  The        *)
(* library frees its datapoints and their texts.  What comes next is the   *)
(* life of a device created after that, whose vector is calloc'd; an ev    *)
(* message in between finds no node.  One that is being served when the    *)
(* device goes is a clash.                                                 *)
DeviceDeleted ==
  /\ drv = NONE
  /\ heap' = [v \in DOMAIN heap \ {reg[r] : r \in Regs} |-> heap[v]]
  /\ reg' = [r \in Regs |-> 0] /\ origin' = [r \in Regs |-> [by |-> "nobody"]]
  /\ bound' = 0 /\ answer' = NONE
  /\ raw' = [d \in Dp |-> 0] /\ actual' = [d \in Dp |-> 0] /\ texts' = {}
  /\ clash' = (clash \/ evt # NONE)
  /\ UNCHANGED <<drv, evt, misused>>

DriverThread ==
  \/ OnDpCreate \/ OnDpWrite \/ OnDpRead \/ DeviceDeleted
  \/ BindChecks \/ BindStores \/ BindPrints
  \/ WriteDeletes \/ WriteStores \/ WritePrints
  \/ ReadChecks \/ ReadPrints \/ ReadConverts

-----------------------------------------------------------------------------
(* The ETI thread: DevRegEvHndl.                                           *)

RegisterAsItIs(field) ==   \* a slip: the result stays a signed number
  IF "word" \in DOMAIN field THEN 0 ELSE field.num

(* strtol: a field that is no number is 0; the result is cut to a uint. *)
RegisterOf(field) == IF "word" \in DOMAIN field THEN 0 ELSE field.num % UIntMod

(* An ev message without a payload. *)
Clears(msg) == msg = ""

(* A register the device does not have, or a text that is no JSON, is     *)
(* passed over.                                                           *)
EventArrives(m) ==
  /\ evt = NONE
  /\ LET r == RegisterOf(m.field)
         known == r < RegMax /\ (Clears(m.msg) \/ IdlStringTocJSON(m.msg) # Nothing)
     IN /\ evt' = IF known THEN Arrival(r, m.msg, 0, IF Clears(m.msg) THEN "free" ELSE "parse")
                 ELSE NONE
        /\ clash' = (clash \/ (/\ known /\ drv # NONE /\ r = DrvReg
                              /\ (Clears(m.msg) \/ drv.op # "read")))
  /\ UNCHANGED <<values, strings, bound, drv, answer, origin, misused>>

EvtAt(at) == evt # NONE /\ evt.at = at
Current   == reg[evt.reg]
NewValue  == IdlStringTocJSON(evt.msg)

EventParses ==
  /\ EvtAt("parse")
  /\ Allocate(NewValue)
  /\ evt' = [evt EXCEPT !.new = New, !.at = IF Current = 0 THEN "store" ELSE "compare"]
  /\ clash' = (clash \/ (Current = 0 /\ drv # NONE /\ DrvReg = evt.reg))
  /\ UNCHANGED <<reg, strings, bound, drv, answer, origin, misused>>

KeepsBoth ==   \* a slip: the new value is not freed when it is the same
  /\ EvtAt("compare") /\ Uses(Current)
  /\ IF Same(ValueOf(Current), NewValue)
     THEN /\ UNCHANGED heap /\ evt' = NONE
          /\ SetBy(evt.reg, [by |-> "event", json |-> NewValue]) /\ UNCHANGED clash
     ELSE /\ evt' = [evt EXCEPT !.at = "free"] /\ UNCHANGED <<heap, origin>>
          /\ clash' = (clash \/ (drv # NONE /\ DrvReg = evt.reg))
  /\ UNCHANGED <<reg, strings, bound, drv, answer>>

FreesTheOldOne ==   \* a slip: the register's value is freed instead of the new one
  /\ EvtAt("compare") /\ Uses(Current)
  /\ IF Same(ValueOf(Current), NewValue)
     THEN /\ Freed(Current) /\ evt' = NONE
          /\ SetBy(evt.reg, [by |-> "event", json |-> NewValue]) /\ UNCHANGED clash
     ELSE /\ evt' = [evt EXCEPT !.at = "free"] /\ UNCHANGED <<heap, origin>>
          /\ clash' = (clash \/ (drv # NONE /\ DrvReg = evt.reg))
  /\ UNCHANGED <<reg, strings, bound, drv, answer>>

(* An equal value leaves the register alone; any other replaces it. *)
EventCompares ==
  /\ EvtAt("compare") /\ Uses(Current)
  /\ IF Same(ValueOf(Current), NewValue)
     THEN /\ Freed(evt.new) /\ evt' = NONE
          /\ SetBy(evt.reg, [by |-> "event", json |-> NewValue]) /\ UNCHANGED clash
     ELSE /\ evt' = [evt EXCEPT !.at = "free"] /\ UNCHANGED <<heap, origin>>
          /\ clash' = (clash \/ (drv # NONE /\ DrvReg = evt.reg))
  /\ UNCHANGED <<reg, strings, bound, drv, answer>>

(* The old value goes, for a new one or for none. *)
EventFrees ==
  /\ EvtAt("free")
  /\ evt' = [evt EXCEPT !.at = "store"]
  /\ CjsonFree(Current)
  /\ UNCHANGED <<reg, strings, bound, drv, answer, origin, clash>>

EventStores ==
  /\ EvtAt("store") /\ evt' = NONE
  /\ reg' = [reg EXCEPT ![evt.reg] = evt.new]
  /\ SetBy(evt.reg, IF Clears(evt.msg) THEN [by |-> "clear"] ELSE [by |-> "event", json |-> NewValue])
  /\ UNCHANGED <<heap, strings, bound, drv, answer, clash, misused>>

EtiThread ==
  \/ \E m \in Messages : EventArrives(m)
  \/ EventParses \/ EventCompares \/ EventFrees \/ EventStores

Next == DriverThread \/ EtiThread \/ \E d \in Dp : LibraryTakesTexts(d)

Spec == Init /\ [][Next]_vars

-----------------------------------------------------------------------------
(* Types; each register the threads are at is one of the device's.         *)
RegTypeOK ==
  /\ reg \in [Regs -> 0 .. MaxValues]
  /\ DOMAIN heap \subseteq 1 .. MaxValues
  /\ bound \in 0 .. Len(Xif)
  /\ drv # NONE => drv.dp \in Dp
  /\ evt # NONE => evt.reg \in Regs /\ evt.new \in 0 .. MaxValues
  /\ raw \in [Dp -> 0 .. 3] /\ actual \in [Dp -> 0 .. 3] /\ texts \subseteq Dp \X (1 .. 3)
  /\ clash \in BOOLEAN /\ misused \subseteq {"value", "text"}

(* The values something still leads to. *)
Held == {reg[r] : r \in Regs} \cup (IF evt = NONE THEN {} ELSE {evt.new})

(* As long as no ev message has met a request on the same register,        *)
(* whatever the two threads do to different registers at the same time, no *)
(* value is used or freed that was freed before, and what a register leads *)
(* to is allocated but for the statement between freeing and replacing it. *)
ApartIsSafe ==
  ~clash =>
    /\ "value" \notin misused
    /\ \A r \in Regs :
         \/ reg[r] = 0 \/ IsLive(reg[r])
         \/ DrvAt("write", "store") /\ DrvReg = r
         \/ EvtAt("store") /\ evt.reg = r

(* Until then no step but a deletion loses a value's node: each that is    *)
(* allocated for the device is in a register or in the hands of the ETI    *)
(* thread, in each life of the device.                                     *)
OnlyDeletionLoses == ~clash => DOMAIN heap \subseteq Held

(* The texts of a read are freed once, whichever of them the library has   *)
(* freed or made the same before, and no text is lost.                     *)
TextsOwned ==
  /\ "text" \notin misused
  /\ texts = (UNION {{<<d, raw[d]>>, <<d, actual[d]>>} : d \in Dp}) \ (Dp \X {0})

(* What a read has to answer: the number that was written through a        *)
(* datapoint with the same enumeration, times the multiplier of the        *)
(* datapoint read, if there is a label for it that no label before it      *)
(* equals but for case; an error if there is no label for it.  The range   *)
(* of the scale never gets in the way of a number, and an ev message       *)
(* counts like a write.  Nothing of a deleted device's values is answered  *)
(* by the one created after it.                                            *)
Labels(info, v) == {k \in DOMAIN info.enum : info.enum[k].value = v}
Shadowed(info, k) ==
  \E l \in 1 .. k - 1 : Lower[info.enum[l].label] = Lower[info.enum[k].label]

ReadsBackNumber(info, n, result) ==
  result = Converted(IF info.mult = 0 THEN n ELSE n * info.mult)

ReadsBackWrite(info, from, v, result) ==
  \/ info.enum # from.enum
  \/ info.enum = <<>> /\ ReadsBackNumber(info, v, result)
  \/ info.enum # <<>> /\ Labels(info, v) = {} /\ ~result.ok
  \/ \E k \in Labels(info, v) :
       /\ \A l \in Labels(info, v) : k <= l
       /\ Shadowed(info, k) \/ IsInvalid(info, Text(info.enum[k].label)) \/ ReadsBackNumber(info, v, result)

ReadsBack ==
  answer # NONE /\ ~clash =>
    LET info == Info[answer.dp]  o == answer.origin  result == answer.result
    IN /\ o.by \in {"nobody", "clear"} => ~result.ok
       /\ o.by = "write" /\ info.type = "double" /\ Info[o.dp].type = "double" =>
            ReadsBackWrite(info, Info[o.dp], o.value, result)
       /\ o.by = "event" /\ info.type = "double" /\ o.json.kind = "number" =>
            ReadsBackNumber(info, o.json.num, result)
       /\ o.by = "event" /\ info.type # "double" => Same(result.value, o.json)
=============================================================================
