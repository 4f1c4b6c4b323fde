---------------------------- MODULE MCIdiDriver ----------------------------
(* Constants of the IdiDriver runs.                                        *)
EXTENDS IdiDriver, TLC

CONSTANTS d1, d2, s1, s2, RO, RW, Str, u1, u2

(* The example XIF's pair of datapoints on register 0.                     *)
TwoDps        == {RO, RW}
TwoAddress    == (RO :> 0) @@ (RW :> 0)
TwoMultiplier == (RO :> 5) @@ (RW :> 0)

(* A numeric datapoint whose address is a register, and a string one       *)
(* without the custom column whose address is not.                         *)
MixDps        == {RO, Str}
MixAddress    == (RO :> 1) @@ (Str :> 1)
MixMultiplier == (RO :> BAD) @@ (Str :> NULL)

OneDp         == {RO}
OneAddress    == RO :> 0
OneMultiplier == RO :> 1
AllVals       == {NULL, Junk, -1} \cup 1..9
Disturbing    == {NULL, Junk}

DataCalls   == {"IdiaCreate", "IdiaDpCreate", "IdiaDpread", "IdiaDpwrite", "IdiaDelete"}
DeviceCalls == {"IdiaCreate", "IdiaProvision", "IdiaDeprovision", "IdiaReplace",
                "IdiaDelete", "IdiaDpCreate"}
AllCalls    == DataCalls \cup DeviceCalls
=============================================================================
