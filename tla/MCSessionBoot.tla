--------------------------- MODULE MCSessionBoot ---------------------------
(* Instances of SessionBoot for TLC: model values, their symmetry and the   *)
(* settings.                                                                *)
EXTENDS SessionBoot, TLC

CONSTANTS c1, c2, p1, p2, p3

Symmetry == Permutations(Conns) \union Permutations(Procs)

Crowd == [crashAt |-> {}, upset |-> FALSE, conns |-> 2, procs |-> 3]
Upset == [crashAt |-> {}, upset |-> TRUE, conns |-> 1, procs |-> 2]
Crashes == [crashAt |-> {"run", "invalid", "unlinksem", "unlinkpage", "ending", "sleep"},
            upset |-> FALSE, conns |-> 1, procs |-> 2]
SafeSettings == {Crowd, Upset, Crashes}
=============================================================================
