------------------------------ MODULE MCComms ------------------------------
(***************************************************************************)
(* Comms on two records, with one client that may be killed and one that   *)
(* may not.                                                                *)
(***************************************************************************)
EXTENDS Comms
CONSTANTS a, b
=============================================================================
