---------------------------- MODULE MCStreamStart ---------------------------
(* Instances of StreamStart for TLC.                                        *)
EXTENDS StreamStart

CONSTANTS i1, i2, v1, v2
=============================================================================
