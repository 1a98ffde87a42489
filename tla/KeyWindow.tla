------------------------------- MODULE KeyWindow -------------------------------
(***************************************************************************)
(* What a track in shared memory promises to those who read it.  The keys  *)
(* that are announced form a window: it grows at one end and shrinks at    *)
(* the other, and never to nothing.  A key is announced only when its data *)
(* can be fetched, and the data stays until the key has left the window; a *)
(* reader that gets data gets that of the key it wanted.                   *)
(***************************************************************************)
EXTENDS Naturals

CONSTANT Nothing

VARIABLES
    first, end,  \* the keys announced: first .. end - 1
    stored,      \* the keys whose data can be fetched
    reading      \* the key whose data the reader has, or Nothing

Init == first = 0 /\ end = 0 /\ stored = {} /\ reading = Nothing

\* The data of the key to come
Store ==
    /\ stored' = stored \union {end}
    /\ UNCHANGED <<first, end, reading>>

Announce ==
    /\ end \in stored
    /\ end' = end + 1
    /\ UNCHANGED <<first, stored, reading>>

Retire ==
    /\ first + 1 < end
    /\ first' = first + 1
    /\ UNCHANGED <<end, stored, reading>>

\* The data of retired keys is deleted
Drop ==
    /\ stored' \in SUBSET stored
    /\ stored \ stored' \subseteq 0 .. first - 1
    /\ UNCHANGED <<first, end, reading>>

Fetch ==
    /\ reading = Nothing
    /\ reading' \in stored
    /\ UNCHANGED <<first, end, stored>>

Done ==
    /\ reading # Nothing
    /\ reading' = Nothing
    /\ UNCHANGED <<first, end, stored>>

Next == Store \/ Announce \/ Retire \/ Drop \/ Fetch \/ Done
=============================================================================
