---------------------------- MODULE MCTrackClaim ----------------------------
(* Instances of TrackClaim for TLC: model values.                           *)
EXTENDS TrackClaim

CONSTANTS a, b, c
=============================================================================
