----------------------------- MODULE MCEtiWalk -----------------------------
(* Constants of the EtiWalk runs.                                          *)
EXTENDS EtiWalk

CONSTANTS s1, s2, s3, u1, u2, u3
=============================================================================
