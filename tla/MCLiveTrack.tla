---------------------------- MODULE MCLiveTrack ----------------------------
EXTENDS LiveTrack
=============================================================================
