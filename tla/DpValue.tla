------------------------------ MODULE DpValue ------------------------------
(***************************************************************************)
(* The conversions between a datapoint's value and the cJSON value that is *)
(* kept in its register (src/example.cpp, "taken directly from Idl         *)
(* library").  A double datapoint is kept as a number or, when it has an   *)
(* enumeration, as a label; an ascii or native one as the JSON of a text.  *)
(***************************************************************************)
EXTENDS Integers, Sequences, FiniteSetsExt

CONSTANTS
  Lower,               \* the lower-case form of each string
  JsonOf               \* the value of each string that is a JSON text

(* cJSON values.  A tree stands for an object or an array.                 *)
Number(n) == [kind |-> "number", num |-> n]
Text(s)   == [kind |-> "string", str |-> s]
Tree(s)   == [kind |-> "tree", str |-> s]
JsonNull  == [kind |-> "null"]
Nothing   == [kind |-> "none"]      \* no value at all: a NULL pointer

(* IdlStringTocJSON: a text that is no JSON has no value. *)
IdlStringTocJSON(text) == IF text \in DOMAIN JsonOf THEN JsonOf[text] ELSE Nothing

(* cJSON_Compare(a, b, 0): the names in objects are compared without case. *)
Same(a, b) ==
  \/ a = b
  \/ a.kind = "tree" /\ b.kind = "tree" /\ Lower[a.str] = Lower[b.str]

-----------------------------------------------------------------------------
(* IdlDpInfo: type is "ascii", "native" or "double"; enum is the list of   *)
(* [value, label], empty when enumMap is NULL; dflt is Nothing or has the  *)
(* text or the number; min and max are the scale's range.                  *)

Places(info, P(_)) == {k \in DOMAIN info.enum : P(info.enum[k])}

ConvertDoubleToJson(info, value) ==
  LET found == Places(info, LAMBDA e : e.value = value)
  IN CASE info.enum = <<>> -> Number(value)
       [] info.enum # <<>> /\ found = {} -> JsonNull
       [] OTHER -> Text(info.enum[Min(found)].label)

FromText(info, text) ==
  IF info.type = "ascii" THEN Text(text) ELSE IdlStringTocJSON(text)

(* Without a valid default it is the number 0, for every type. *)
GenerateDpDefVal(info) ==
  CASE ~info.isDefaultValid   -> Number(0)
    [] info.isDefaultValid /\ info.type = "double" -> ConvertDoubleToJson(info, info.dflt)
    [] OTHER -> FromText(info, info.dfltText)

GetDpValForLocStorUpdate(info, value) ==
  IF info.type = "double" THEN ConvertDoubleToJson(info, value) ELSE FromText(info, value)

RangeEnforced(info, value, exceptionType) ==   \* a slip: looked at in any case
  info.min <= value /\ value <= info.max

(* With no exceptionType to report to, every value is in range. *)
DpValueRangeCheck(info, value, exceptionType) ==
  exceptionType => info.min <= value /\ value <= info.max

Failed       == [ok |-> FALSE]
Converted(n) == [ok |-> TRUE, value |-> n]

(* INVALID_STR is written as the value the library has at the moment.      *)
IsInvalid(info, json) == json.kind = "string" /\ json.str = "invalid" /\ info.isInvalidPresent

JsonDpValueToDouble(json, info) ==
  LET found == Places(info, LAMBDA e : Lower[e.label] = Lower[json.str])
  IN CASE IsInvalid(info, json) -> Converted(info.actualValue)
       [] json.kind = "string" /\ ~IsInvalid(info, json) /\ info.enum # <<>> ->
            Converted(IF found # {} THEN info.enum[Min(found)].value ELSE info.dflt)
       [] json.kind = "number" /\ DpValueRangeCheck(info, json.num, FALSE) -> Converted(json.num)
       [] OTHER -> Failed
=============================================================================
