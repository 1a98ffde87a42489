------------------------------- MODULE Comms -------------------------------
(***************************************************************************)
(* A communications page (lib/comms.{h,cpp}): a shared-memory page of      *)
(* records on which client processes (viewers, sources, processes) claim a *)
(* record and which one master process (an input's buffer, a session, the  *)
(* controller) walks periodically with COMM_LOOP.  Used for the Users      *)
(* page of a stream, the Connections page of a session and the Sessions    *)
(* page of the controller.                                                 *)
(*                                                                         *)
(* A step is one access to shared memory, or a run of accesses no other    *)
(* process can observe in between.  Client records are claimed under the   *)
(* page's semaphore; status bytes are read and written without it.         *)
(***************************************************************************)
EXTENDS Naturals, FiniteSets

CONSTANTS
    Clients,      \* client processes
    NoKill,       \* the clients whose records carry NOKILL (defaultCommFlags)
    Records,      \* RCount: the number of records that fit on the page
    Rounds,       \* finishAll's round limit (8 in the code)
    KillAfter,    \* finishAll soft-kills in rounds after this one (4)
    Nobody        \* not a client: nobody holds the semaphore, a pid of 0

ASSUME CommsAssumption ==
    /\ NoKill \subseteq Clients
    /\ Records \in Nat \ {0}
    /\ Rounds \in Nat \ {0}
    /\ KillAfter \in Nat
    /\ Nobody \notin Clients

VARIABLES
    status,   \* record -> set of COMM_STATUS flags; {} is INVALID
    pid,      \* record -> the process that claimed it last
    endPos,   \* records [0, endPos) are walked by the master
    exit,     \* the page's exit flag: no new claims
    sem,      \* holder of the page semaphore
    cpc,      \* client -> where it is in reload / unload
    cidx,     \* client -> its Comms::index
    crd,      \* client -> the status byte it read for its read-modify-write
    mpc,      \* master -> where it is in COMM_LOOP / finishAll
    mid,      \* master -> the record it is at
    mrc,      \* master -> rc, the record count COMM_LOOP works with
    mmax,     \* master -> maxRec
    mrd,      \* master -> s, the status byte it read
    mround,   \* master -> c, the finishAll round
    mkeep,    \* master -> keepGoing
    sig       \* clients that were sent a soft kill

pageVars   == <<status, pid, endPos, exit, sem>>
clientVars == <<cpc, cidx, crd>>
masterVars == <<mpc, mid, mrc, mmax, mrd, mround, mkeep>>
vars == <<pageVars, clientVars, masterVars, sig>>

Index == 0 .. Records - 1
Flags == {"ACTIVE", "NOKILL", "SOURCE", "REQDISCONNECT", "DISCONNECT"}
INVALID == {}

\* defaultCommFlags of a client
defaultCommFlags(c) == IF c \in NoKill THEN {"NOKILL"} ELSE {}

Running(c) == cpc[c] # "dead"

ClientStates == {"out", "scan", "lock", "mark", "grow", "claimed", "in",
                 "leave", "dead"}
MasterStates == {"idle", "read", "check", "reap", "trim", "request",
                 "fin", "finwrite", "done"}

Init ==
    /\ status = [i \in Index |-> INVALID]
    /\ pid = [i \in Index |-> Nobody]
    /\ endPos = 1
    /\ exit = FALSE
    /\ sem = Nobody
    /\ cpc = [c \in Clients |-> "out"]
    /\ cidx = [c \in Clients |-> 0]
    /\ crd = [c \in Clients |-> {}]
    /\ mpc = "idle"
    /\ mid = 0 /\ mrc = 0 /\ mmax = 0 /\ mrd = {}
    /\ mround = 0 /\ mkeep = FALSE
    /\ sig = {}

----------------------------------------------------------------------------
(* Clients: Comms::reload claims a record, unload / ~Comms gives it back.  *)

Goto(c, pc) == cpc' = [cpc EXCEPT ![c] = pc]

\* The Comms object is gone, and its locals with it
Forget(c) ==
    /\ cidx' = [cidx EXCEPT ![c] = 0]
    /\ crd' = [crd EXCEPT ![c] = {}]

\* reload: open the page, if its master has not removed it and it is not
\* flagged exit
Open(c) ==
    /\ cpc[c] = "out" /\ c \notin sig
    /\ mpc # "done"
    /\ ~exit
    /\ Goto(c, "scan")
    /\ cidx' = [cidx EXCEPT ![c] = 0]
    /\ UNCHANGED <<pageVars, crd, masterVars, sig>>

\* reload: look for an INVALID record without holding the semaphore
Scan(c) ==
    /\ cpc[c] = "scan"
    /\ cidx[c] < Records
    /\ IF status[cidx[c]] = INVALID
       THEN Goto(c, "lock") /\ UNCHANGED cidx
       ELSE cidx' = [cidx EXCEPT ![c] = @ + 1] /\ UNCHANGED cpc
    /\ UNCHANGED <<pageVars, crd, masterVars, sig>>

\* reload: every record is taken, close the page ("Could not register entry")
ScanFull(c) ==
    /\ cpc[c] = "scan"
    /\ cidx[c] = Records
    /\ Goto(c, "out")
    /\ cidx' = [cidx EXCEPT ![c] = 0]
    /\ UNCHANGED <<pageVars, crd, masterVars, sig>>

\* reload: semGuard, and the record was taken in between: release, go on
Retry(c) ==
    /\ cpc[c] = "lock" /\ sem = Nobody
    /\ status[cidx[c]] # INVALID
    /\ cidx' = [cidx EXCEPT ![c] = @ + 1]
    /\ Goto(c, "scan")
    /\ UNCHANGED <<pageVars, crd, masterVars, sig>>

\* Mutant of Claim: no second look at the status byte under the semaphore
ClaimUnchecked(c) ==
    /\ cpc[c] = "lock" /\ sem = Nobody
    /\ sem' = c
    /\ pid' = [pid EXCEPT ![cidx[c]] = c]
    /\ Goto(c, "mark")
    /\ UNCHANGED <<status, endPos, exit, cidx, crd, masterVars, sig>>

\* reload: semGuard, the record is still INVALID: nullFields sets the pid
Claim(c) ==
    /\ cpc[c] = "lock" /\ sem = Nobody
    /\ status[cidx[c]] = INVALID
    /\ sem' = c
    /\ pid' = [pid EXCEPT ![cidx[c]] = c]
    /\ Goto(c, "mark")
    /\ UNCHANGED <<status, endPos, exit, cidx, crd, masterVars, sig>>

\* reload: setStatus(ACTIVE | defaultCommFlags), which publishes the record
Mark(c) ==
    /\ cpc[c] = "mark"
    /\ status' = [status EXCEPT ![cidx[c]] = {"ACTIVE"} \union defaultCommFlags(c)]
    /\ Goto(c, "grow")
    /\ UNCHANGED <<pid, endPos, exit, sem, cidx, crd, masterVars, sig>>

\* Mutant of Grow: the comparison and the new end are off by one
GrowTooFar(c) ==
    /\ cpc[c] = "grow"
    /\ endPos' = IF endPos <= cidx[c] + 1 THEN cidx[c] + 2 ELSE endPos
    /\ sem' = Nobody
    /\ \E pc \in {"claimed", "in"} : Goto(c, pc)
    /\ UNCHANGED <<status, pid, exit, cidx, crd, masterVars, sig>>

\* reload: grow endPos to cover the record, leave the semGuard's scope.  A
\* Connections object has its record now, a Users object sets its flags first
Grow(c) ==
    /\ cpc[c] = "grow"
    /\ endPos' = IF endPos <= cidx[c] THEN cidx[c] + 1 ELSE endPos
    /\ sem' = Nobody
    /\ \E pc \in {"claimed", "in"} : Goto(c, pc)
    /\ UNCHANGED <<status, pid, exit, cidx, crd, masterVars, sig>>

\* Mutant of EnterUser: the initial state replaces the default flags
EnterUserPlain(c) ==
    /\ cpc[c] = "claimed"
    /\ status' = [status EXCEPT ![cidx[c]] = {"ACTIVE"}]
    /\ Goto(c, "in")
    /\ UNCHANGED <<pid, endPos, exit, sem, cidx, crd, masterVars, sig>>

\* Users::reload(name, idx, initialState) overwrites the status byte
EnterUser(c) ==
    /\ cpc[c] = "claimed"
    /\ \E initialState \in {{"ACTIVE"}, {"ACTIVE", "SOURCE"}} :
          status' = [status EXCEPT ![cidx[c]] = initialState \union defaultCommFlags(c)]
    /\ Goto(c, "in")
    /\ UNCHANGED <<pid, endPos, exit, sem, cidx, crd, masterVars, sig>>

\* unload / ~Comms: the read half of setStatus(DISCONNECT | getStatus())
LeaveRead(c) ==
    /\ cpc[c] = "in"
    /\ crd' = [crd EXCEPT ![c] = status[cidx[c]]]
    /\ Goto(c, "leave")
    /\ UNCHANGED <<pageVars, cidx, masterVars, sig>>

\* Mutant of LeaveWrite: the client frees its record itself
LeaveWriteFree(c) ==
    /\ cpc[c] = "leave"
    /\ status' = [status EXCEPT ![cidx[c]] = INVALID]
    /\ Goto(c, "out")
    /\ Forget(c)
    /\ UNCHANGED <<pid, endPos, exit, sem, masterVars, sig>>

\* unload / ~Comms: the write half; the object forgets its index
LeaveWrite(c) ==
    /\ cpc[c] = "leave"
    /\ status' = [status EXCEPT ![cidx[c]] = {"DISCONNECT"} \union crd[c]]
    /\ Goto(c, "out")
    /\ Forget(c)
    /\ UNCHANGED <<pid, endPos, exit, sem, masterVars, sig>>

\* A client process dies anywhere, also inside the semGuard's scope
Crash(c) ==
    /\ cpc[c] # "dead"
    /\ Goto(c, "dead")
    /\ Forget(c)
    /\ UNCHANGED <<pageVars, masterVars, sig>>

\* The system starts a new process under the pid of one that is gone and of
\* which no record and no semaphore remains
Spawn(c) ==
    /\ cpc[c] = "dead"
    /\ sem # c
    /\ \A i \in Index : pid[i] = c => status[i] = INVALID
    /\ Goto(c, "out")
    /\ sig' = sig \ {c}
    /\ UNCHANGED <<pageVars, cidx, crd, masterVars>>

----------------------------------------------------------------------------
(* The master: COMM_LOOP, removeTrack's disconnect request, finishAll.      *)

\* The locals of a loop go out of scope
ForgetLoop == mid' = 0 /\ mrc' = 0 /\ mmax' = 0 /\ mrd' = {}

\* COMM_LOOP: rc = recordCount(), maxRec = 0, id = 0
LoopStart ==
    /\ mpc = "idle"
    /\ mpc' = "read" /\ mrc' = endPos /\ mid' = 0 /\ mmax' = 0
    /\ UNCHANGED <<pageVars, clientVars, mrd, mround, mkeep, sig>>

\* COMM_LOOP: s = getStatus(id); INVALID records are skipped
LoopRead ==
    /\ mpc = "read" /\ mid < mrc
    /\ mrd' = status[mid]
    /\ IF status[mid] = INVALID
       THEN mid' = mid + 1 /\ UNCHANGED mpc
       ELSE mpc' = "check" /\ UNCHANGED mid
    /\ UNCHANGED <<pageVars, clientVars, mrc, mmax, mround, mkeep, sig>>

\* COMM_LOOP: maxRec = id, on to the next record
LoopNext == mpc' = "read" /\ mmax' = mid /\ mid' = mid + 1 /\ mrd' = {}

\* Mutant of LoopCheck: no check that the process still runs
LoopCheckNoPid ==
    /\ mpc = "check"
    /\ IF "DISCONNECT" \in mrd
       THEN mpc' = "reap" /\ UNCHANGED <<mid, mmax, mrd>>
       ELSE LoopNext
    /\ UNCHANGED <<pageVars, clientVars, mrc, mround, mkeep, sig>>

\* COMM_LOOP: flag the record of a process that no longer runs; the branch
\* below is on s as it was read, so such a record is reaped by the next pass
LoopCheck ==
    /\ mpc = "check"
    /\ status' = IF /\ "DISCONNECT" \notin mrd
                    /\ pid[mid] # Nobody
                    /\ ~Running(pid[mid])
                 THEN [status EXCEPT ![mid] = {"DISCONNECT"} \union mrd]
                 ELSE status
    /\ IF "DISCONNECT" \in mrd
       THEN mpc' = "reap" /\ UNCHANGED <<mid, mmax, mrd>>
       ELSE LoopNext
    /\ UNCHANGED <<pid, endPos, exit, sem, clientVars, mrc, mround, mkeep, sig>>

\* COMM_LOOP: onDisconnect has run, free the record
LoopReap ==
    /\ mpc = "reap"
    /\ status' = [status EXCEPT ![mid] = INVALID]
    /\ LoopNext
    /\ UNCHANGED <<pid, endPos, exit, sem, clientVars, mrc, mround, mkeep, sig>>

\* COMM_LOOP: the walk is over
LoopEnd ==
    /\ mpc = "read" /\ mid = mrc
    /\ IF mmax + 1 < mrc
       THEN mpc' = "trim" /\ UNCHANGED <<mid, mrc, mmax, mrd>>
       ELSE mpc' = "idle" /\ ForgetLoop
    /\ UNCHANGED <<pageVars, clientVars, mround, mkeep, sig>>

\* setRecordCount(maxRec + 1, rc), under the semaphore
setRecordCount ==
    /\ mpc = "trim" /\ sem = Nobody
    /\ endPos' = IF endPos <= mrc THEN mmax + 1 ELSE endPos
    /\ mpc' = "idle"
    /\ ForgetLoop
    /\ UNCHANGED <<status, pid, exit, sem, clientVars, mround, mkeep, sig>>

\* InputBuffer::removeTrack: the read half of setStatus(REQDISCONNECT | getStatus(i), i)
RequestRead ==
    /\ mpc = "idle"
    /\ \E i \in 0 .. endPos - 1 :
          /\ "SOURCE" \in status[i]
          /\ mid' = i
          /\ mrd' = status[i]
    /\ mpc' = "request"
    /\ UNCHANGED <<pageVars, clientVars, mrc, mmax, mround, mkeep, sig>>

\* InputBuffer::removeTrack: the write half
RequestWrite ==
    /\ mpc = "request"
    /\ status' = [status EXCEPT ![mid] = {"REQDISCONNECT"} \union mrd]
    /\ mpc' = "idle"
    /\ ForgetLoop
    /\ UNCHANGED <<pid, endPos, exit, sem, clientVars, mround, mkeep, sig>>

\* finishAll: a session that ends (it calls setExit first), a master's ~Comms
finishAll ==
    /\ mpc = "idle"
    /\ exit' \in BOOLEAN
    /\ mpc' = "fin" /\ mid' = 0 /\ mround' = 0 /\ mkeep' = FALSE
    /\ UNCHANGED <<status, pid, endPos, sem, clientVars, mrc, mmax, mrd, sig>>

\* finishAll: records that are free or already disconnecting are skipped
FinishSkip ==
    /\ mpc = "fin" /\ mid < endPos
    /\ status[mid] = INVALID \/ "DISCONNECT" \in status[mid]
    /\ mid' = mid + 1
    /\ UNCHANGED <<pageVars, clientVars, mpc, mrc, mmax, mrd, mround, mkeep, sig>>

\* finishAll: decide on a soft kill (Procs::Stop), read the status byte.  The reads of
\* status and pid and the signal are one step
FinishRead ==
    /\ mpc = "fin" /\ mid < endPos
    /\ status[mid] # INVALID /\ "DISCONNECT" \notin status[mid]
    /\ IF "NOKILL" \notin status[mid]
       THEN /\ mkeep' = TRUE
            /\ sig' = IF mround > KillAfter THEN sig \union {pid[mid]} ELSE sig
       ELSE UNCHANGED <<mkeep, sig>>
    /\ mrd' = status[mid]
    /\ mpc' = "finwrite"
    /\ UNCHANGED <<pageVars, clientVars, mid, mrc, mmax, mround>>

\* finishAll: setStatus(REQDISCONNECT | getStatus(i), i)
FinishWrite ==
    /\ mpc = "finwrite"
    /\ status' = [status EXCEPT ![mid] = {"REQDISCONNECT"} \union mrd]
    /\ mid' = mid + 1 /\ mrd' = {}
    /\ mpc' = "fin"
    /\ UNCHANGED <<pid, endPos, exit, sem, clientVars, mrc, mmax, mround, mkeep, sig>>

\* finishAll: the next round, or the end: ~Comms removes the page
FinishRound ==
    /\ mpc = "fin" /\ mid >= endPos
    /\ IF mkeep /\ mround + 1 < Rounds
       THEN /\ mround' = mround + 1 /\ mid' = 0 /\ mkeep' = FALSE
            /\ UNCHANGED mpc
       ELSE /\ mpc' = "done"
            /\ mround' = 0 /\ mid' = 0 /\ mkeep' = FALSE
    /\ UNCHANGED <<pageVars, clientVars, mrc, mmax, mrd, sig>>

----------------------------------------------------------------------------

Claiming(c) == Open(c) \/ Scan(c) \/ ScanFull(c) \/ Retry(c) \/ Claim(c) \/ Mark(c) \/ Grow(c)
Using(c)    == EnterUser(c) \/ LeaveRead(c) \/ LeaveWrite(c)
Client(c)   == Claiming(c) \/ Using(c) \/ Crash(c) \/ Spawn(c)
Loop        == LoopStart \/ LoopRead \/ LoopCheck \/ LoopReap \/ LoopEnd \/ setRecordCount
Request     == RequestRead \/ RequestWrite
Finish      == finishAll \/ FinishSkip \/ FinishRead \/ FinishWrite \/ FinishRound

Next == (\E c \in Clients : Client(c)) \/ Loop \/ Request \/ Finish

Spec == Init /\ [][Next]_vars

\* Mutant of Asked: the page's exit flag is not polled
AskedByFlag(c) == "REQDISCONNECT" \in status[cidx[c]]

\* A client polls its record (Output::stats, Input::realtimeMainLoop): it
\* leaves when it is asked to, or when the page is flagged exit
Asked(c) == exit \/ "REQDISCONNECT" \in status[cidx[c]]

\* A process that runs finishes the semGuard's scope, its reload and its
\* unload, and it polls; the master runs COMM_LOOP once a second and goes on
\* with what it started
Fairness ==
    /\ \A c \in Clients :
          /\ WF_vars(Scan(c) \/ ScanFull(c) \/ Mark(c) \/ Grow(c))
          /\ WF_vars(EnterUser(c) \/ LeaveWrite(c))
          /\ WF_vars(LeaveRead(c) /\ Asked(c))
    /\ SF_vars(LoopStart)
    /\ WF_vars(LoopRead \/ LoopCheck \/ LoopReap \/ LoopEnd \/ RequestWrite)
    /\ SF_vars(setRecordCount)
    /\ WF_vars(FinishSkip \/ FinishRead \/ FinishWrite \/ FinishRound)

FairSpec == Spec /\ Fairness

----------------------------------------------------------------------------

TypeOK ==
    /\ status \in [Index -> SUBSET Flags]
    /\ pid \in [Index -> Clients \union {Nobody}]
    /\ endPos \in 1 .. Records
    /\ exit \in BOOLEAN
    /\ sem \in Clients \union {Nobody}
    /\ cpc \in [Clients -> ClientStates]
    /\ cidx \in [Clients -> 0 .. Records]
    /\ crd \in [Clients -> SUBSET Flags]
    /\ mpc \in MasterStates
    /\ mid \in 0 .. Records
    /\ mrc \in 0 .. Records
    /\ mmax \in 0 .. Records - 1
    /\ mrd \in SUBSET Flags
    /\ mround \in 0 .. Rounds - 1
    /\ mkeep \in BOOLEAN
    /\ sig \in SUBSET Clients

\* The clients that own a record: from the write that publishes it to the
\* write that gives it back
Registered == {c \in Clients : cpc[c] \in {"grow", "claimed", "in", "leave"}}

\* A running client keeps the record it claimed: it is the one named in it,
\* and the record is neither freed nor flagged DISCONNECT behind its back.
\* (A record is claimed without a test-and-set on the byte itself, pids are
\* compared after the status byte was read, and three read-modify-writes of
\* that byte run unsynchronised.)
RecordKept ==
    \A c \in Registered :
        /\ pid[cidx[c]] = c
        /\ status[cidx[c]] # INVALID
        /\ "DISCONNECT" \notin status[cidx[c]]

\* finishAll never signals a process that registered with NOKILL, although
\* it reads the pid and the flags of a record separately
NoKillSafe == sig \cap NoKill = {}

\* The record of a dead process is freed.  It is not when the process took
\* the semaphore with it, when the record is hidden above endPos or when
\* the master has begun to stop.
DeadReclaimed ==
    \A i \in Index :
        (status[i] # INVALID /\ pid[i] # Nobody /\ ~Running(pid[i]))
          ~> \/ status[i] = INVALID
             \/ i >= endPos
             \/ mpc \in {"fin", "finwrite", "done"}
             \/ sem # Nobody /\ ~Running(sem)

\* Once a page is flagged exit no client stays registered on it, also one
\* that opened the page before the flag and claims after finishAll ended
FinishEmpties == exit ~> \A c \in Clients : cpc[c] \notin {"claimed", "in", "leave"}
----------------------------------------------------------------------------
(* The page as its users see it.                                            *)

taken == {i \in Index : status[i] # INVALID}
holds == {<<c, cidx[c]>> : c \in Registered}

Page == INSTANCE Registry WITH Slots <- Index

\* The page implements a registry: a record passes from free to one client,
\* from that client to nobody, and is freed by the master then and no sooner.
\* Single writes to status bytes and indices make up these steps, in any
\* order the processes, their deaths and the master's passes allow.
ImplementsRegistry == Page!Spec

----------------------------------------------------------------------------
(* The inductive invariant behind RecordKept and NoKillSafe.                *)

\* Indices in use are on the page
Bounds ==
    /\ \A c \in Clients :
          cpc[c] \in {"lock", "mark", "grow", "claimed", "in", "leave"} => cidx[c] < Records
    /\ mpc \in {"check", "reap", "request", "finwrite"} => mid < Records

\* Who writes a claim holds the semaphore; a claim starts on a free record
Claims ==
    \A c \in Clients :
        /\ cpc[c] \in {"mark", "grow"} => sem = c
        /\ cpc[c] = "mark" => pid[cidx[c]] = c /\ status[cidx[c]] = INVALID

\* Only clients own records
Owners == \A i \in Index : status[i] # INVALID => pid[i] \in Clients

\* The record the master is at is in use, and when the master has read
\* DISCONNECT from it, no running client owns it any more
MasterSees ==
    mpc \in {"check", "reap", "request", "finwrite"} =>
        /\ status[mid] # INVALID
        /\ "DISCONNECT" \in mrd => \A c \in Registered : cidx[c] # mid
        /\ mpc = "reap" => "DISCONNECT" \in mrd

\* NOKILL survives every read-modify-write of a status byte
NoKillKept ==
    /\ \A i \in Index :
          status[i] # INVALID /\ pid[i] \in NoKill => "NOKILL" \in status[i]
    /\ mpc \in {"check", "request", "finwrite"} /\ pid[mid] \in NoKill => "NOKILL" \in mrd
    /\ \A c \in NoKill : cpc[c] = "leave" => "NOKILL" \in crd[c]

IInv ==
    /\ TypeOK
    /\ Bounds
    /\ Claims
    /\ Owners
    /\ RecordKept
    /\ MasterSees
    /\ NoKillKept
    /\ NoKillSafe
=============================================================================
