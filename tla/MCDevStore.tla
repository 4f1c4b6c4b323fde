----------------------------- MODULE MCDevStore -----------------------------
(* Constants of the DevStore run.                                          *)
EXTENDS DevStore, TLC

CONSTANTS d1, d2, d3, d4, s1, s2, s3, u1, RO

(* One datapoint, so that a device has slots and values to allocate.       *)
OneAddress    == RO :> 0
OneMultiplier == RO :> 5

ListSymmetry == Permutations({s1, s2, s3}) \cup Permutations({d1, d2, d3, d4})
=============================================================================
