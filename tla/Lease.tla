------------------------------- MODULE Lease --------------------------------
(***************************************************************************)
(* What the claim on a track promises to those who write the track: it is  *)
(* one word, which names one process at most.  A process that took it has  *)
(* the track to itself until it lets go or dies, and the word is cleared   *)
(* only after that: however many list pages there are, and whoever wrote   *)
(* to which of them.                                                       *)
(***************************************************************************)
CONSTANTS Procs, Nobody

VARIABLES
    word,   \* whom the track is claimed by, or was by one who left
    users   \* the processes that rely on a claim

Init == word = Nobody /\ users = {}

Take(p) ==
    /\ word = Nobody
    /\ word' = p
    /\ users' = users \union {p}

\* A process lets go of the track, or dies
Leave(p) ==
    /\ p \in users
    /\ users' = users \ {p}
    /\ UNCHANGED word

Clear ==
    /\ word \notin users
    /\ word' = Nobody
    /\ UNCHANGED users

Next == Clear \/ \E p \in Procs : Take(p) \/ Leave(p)

Spec == Init /\ [][Next]_<<word, users>>
=============================================================================
