---------------------------- MODULE MCRegAccess ----------------------------
(* A device of two registers: a counter with a multiplier and a range      *)
(* shares one with a state that has an enumeration, a text the other with  *)
(* a native value (compare the rows of src/example_xif.xpl).               *)
EXTENDS RegAccess

Double == [type |-> "double", enum |-> <<>>, isDefaultValid |-> FALSE, dflt |-> 0, dfltText |-> "",
           min |-> 0, max |-> 1, isInvalidPresent |-> FALSE, actualValue |-> 0,
           mult |-> 1, address |-> 0]

Label(v, s) == [value |-> v, label |-> s]

MCInfo ==
  [ counter    |-> [Double EXCEPT !.mult = 5],
    state      |-> [Double EXCEPT !.isDefaultValid = TRUE, !.dflt = 3, !.mult = 2,
                                  !.isInvalidPresent = TRUE, !.actualValue = 4,
                                  !.enum = <<Label(0, "off"), Label(1, "on"), Label(3, "ON")>>],
    name       |-> [Double EXCEPT !.type = "ascii", !.address = 1],
    native     |-> [Double EXCEPT !.type = "native", !.address = 1, !.isDefaultValid = TRUE,
                                  !.dfltText = "{A}"] ]

MCXif == <<"counter", "state", "name", "native">>

MCWrites ==
  [d \in DOMAIN MCInfo |->
     CASE d \in {"name", "native"} -> {"{A}"}
       [] d = "state" -> {1, 2}
       [] OTHER -> {2}]

MCLower == [s \in {"on", "off", "ON", "invalid", "A", "a", "{A}"} |->
              CASE s = "ON" -> "on" [] s = "A" -> "a" [] s = "{A}" -> "{a}" [] OTHER -> s]

MCJsonOf == [s \in {"7", "{A}", "{a}", "invalid"} |->
               CASE s = "7" -> Number(7) [] s = "{A}" -> Tree("A") [] s = "{a}" -> Tree("a")
                 [] OTHER -> Text("invalid")]

(* The field UIntMod is the scaled-down 2^32. *)
MCMessages ==
  [field : {[num |-> UIntMod]}, msg : {"7", "", "invalid"}]
    \cup [field : {[num |-> 1]}, msg : {"{a}"}]
    \cup [field : {[num |-> -1]}, msg : {"7"}]
    \cup [field : {[word |-> "x"]}, msg : {"word"}]

(* Once an ev message has met a request on the same register nothing is    *)
(* promised any more: such a state is checked, its successors are not.     *)
Undisturbed == ~clash
=============================================================================
