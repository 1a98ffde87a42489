---------------------------- MODULE MCConnectors ---------------------------
(* Instances of Connectors for TLC: two settings of one listener and a      *)
(* connector that binds no address; two settings of each of two listeners,  *)
(* changed in one go.                                                       *)
EXTENDS Connectors

CONSTANTS p1, p2, p3, p4, a, b

Cmds3 == 1 .. 3
Keys3 == <<a, NoKey, a>>
Sets3 == {{1, 2}, {2, 3}, {1}}

Cmds4 == 1 .. 4
Keys4 == <<a, b, a, b>>
Sets4 == {{1, 2}, {3, 4}}
=============================================================================
