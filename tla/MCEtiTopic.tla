---------------------------- MODULE MCEtiTopic ----------------------------
(* Constants of the EtiTopic run: "u64" stands for a UID of 64 characters *)
(* and "u65" for one that begins with it; "1" is the UID of a device and a *)
(* register as well; register 2 is one too many.                           *)
EXTENDS EtiTopic

MCUids   == {"1", "reg", "u64", "u65"}
MCNames  == MCUids \cup {Empty, "0", "2"}
MCCut    == [l \in MCNames |-> IF l = "u65" THEN "u64" ELSE l]
MCStrtol == [l \in MCNames |-> CASE l = "1" -> 1 [] l = "2" -> 2 [] OTHER -> 0]
MCRegStr == [r \in 0 .. 1 |-> IF r = 0 THEN "0" ELSE "1"]
=============================================================================
