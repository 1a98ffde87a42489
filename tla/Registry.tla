------------------------------ MODULE Registry ------------------------------
(***************************************************************************)
(* What a communications page promises to those who use it.  A client      *)
(* takes a free record and has it to itself until it gives it back or      *)
(* dies.  Only then does the master free the record, once per use, with    *)
(* its onDisconnect: sessions count connections, and buffers users, by it. *)
(***************************************************************************)
CONSTANTS Clients, Slots

VARIABLES
    taken,  \* the records that are not free
    holds   \* who holds which record: pairs of a client and a record

Init == taken = {} /\ holds = {}

Take(c, i) ==
    /\ i \notin taken
    /\ \A j \in Slots : <<c, j>> \notin holds
    /\ taken' = taken \union {i}
    /\ holds' = holds \union {<<c, i>>}

\* The client gives its record back, or dies
Leave(c, i) ==
    /\ <<c, i>> \in holds
    /\ holds' = holds \ {<<c, i>>}
    /\ UNCHANGED taken

Free(i) ==
    /\ i \in taken
    /\ \A c \in Clients : <<c, i>> \notin holds
    /\ taken' = taken \ {i}
    /\ UNCHANGED holds

Next == \E i \in Slots : Free(i) \/ \E c \in Clients : Take(c, i) \/ Leave(c, i)

Spec == Init /\ [][Next]_<<taken, holds>>
=============================================================================
