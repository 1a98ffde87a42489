---------------------------- MODULE SessionBoot ----------------------------
(***************************************************************************)
(* How the processes of one viewer session find each other: connections    *)
(* (Connections::reload in any input or output), the session processes     *)
(* they spawn (session.cpp) and the controller that cleans up after them   *)
(* (statOnDisconnect).  They share two NAMES, the session's semaphore and  *)
(* its connections page.  A name can be unlinked and created again while   *)
(* others still hold the object it used to stand for, so objects are       *)
(* numbered: semName and pageName say which object a name leads to now.    *)
(*                                                                         *)
(* Claiming a record is one step here; module Comms has its details.       *)
(***************************************************************************)
EXTENDS Naturals, FiniteSets

CONSTANTS
    Conns,       \* connections; one that ended stands for the next one
    Procs,       \* session processes; likewise
    MaxObjs,     \* bound: semaphores, and pages, that exist at a time
    Settings     \* what may happen: see SettingType

\* crashAt: where in main session processes may die; upset: whether they may be
\* told to stop (SIGTERM), USER_NEW may reject a session, and may outlast
\* tryWaitOneSecond; conns, procs: bounds on how many there are at a time
SettingType == [crashAt : SUBSET STRING, upset : BOOLEAN, conns : Nat, procs : Nat]

ASSUME SessionAssumption ==
    /\ MaxObjs \in Nat \ {0}
    /\ Settings \subseteq SettingType

VARIABLES
    setting,   \* the one of Settings this behaviour has
    semName,   \* the semaphore the name leads to, NoObj when there is none
    semVal,    \* semaphore -> its value
    pageName,  \* the page the name leads to, NoObj when there is none
    pageExit,  \* page -> its exit flag
    ppc,       \* session process -> where it is in main
    plock,     \* session process -> its sessionLock
    ppage,     \* session process -> its connections page
    shouldSleep, \* session process -> whether it left its loop because of the exit flag
    rec,       \* session process -> its record on the controller's Sessions page
    cpc,       \* connection -> where it is in Connections::reload
    csem,      \* connection -> its semaphore
    cpage,     \* connection -> its page
    kpc,       \* controller -> where it is in statOnDisconnect
    ksem,      \* controller -> its sessionLock
    kid        \* controller -> the process whose record it handles

semVars  == <<semName, semVal>>
pageVars == <<pageName, pageExit>>
procVars == <<ppc, plock, ppage, shouldSleep, rec>>
connVars == <<cpc, csem, cpage>>
ctrlVars == <<kpc, ksem, kid>>
vars == <<setting, semVars, pageVars, procVars, connVars, ctrlVars>>

Objs == 1 .. MaxObjs
NoObj == 0

\* A process that is not there, or no longer there, is at "none"
ProcStates == {"none", "start", "trylock", "check", "register", "opensem", "attach",
               "trigger", "run", "invalid", "unlinksem", "unlinkpage", "ending", "sleep"}
ConnStates == {"none", "opensem", "openpage", "wait", "in"}
CtrlStates == {"idle", "trylock", "check", "unlinksem", "unlinkboth", "unlinkpage"}

Init ==
    /\ setting \in Settings
    /\ semName = NoObj /\ semVal = [s \in Objs |-> 0]
    /\ pageName = NoObj /\ pageExit = [g \in Objs |-> FALSE]
    /\ ppc = [p \in Procs |-> "none"]
    /\ plock = [p \in Procs |-> NoObj]
    /\ ppage = [p \in Procs |-> NoObj]
    /\ shouldSleep = [p \in Procs |-> FALSE]
    /\ rec = [p \in Procs |-> "none"]
    /\ cpc = [c \in Conns |-> "none"]
    /\ csem = [c \in Conns |-> NoObj]
    /\ cpage = [c \in Conns |-> NoObj]
    /\ kpc = "idle" /\ ksem = NoObj /\ kid \in Procs

----------------------------------------------------------------------------
(* Named objects                                                            *)

\* A number the name does not lead to and under which nobody has an object
FreeSem(s) == /\ s # semName /\ s # ksem
              /\ \A p \in Procs : s # plock[p]
              /\ \A c \in Conns : s # csem[c]
FreePage(g) == /\ g # pageName
               /\ \A p \in Procs : g # ppage[p]
               /\ \A c \in Conns : g # cpage[c]

\* sem_open(name, O_CREAT, 1): s is the semaphore the name leads to afterwards
OpenOrCreate(s) ==
    IF semName # NoObj
    THEN s = semName /\ UNCHANGED semVars
    ELSE /\ FreeSem(s) /\ \A t \in 1 .. s - 1 : ~FreeSem(t)
         /\ semName' = s
         /\ semVal' = [semVal EXCEPT ![s] = 1]

Lock(s)   == semVal[s] > 0 /\ semVal' = [semVal EXCEPT ![s] = @ - 1]
Unlock(s) == semVal' = [semVal EXCEPT ![s] = @ + 1]

----------------------------------------------------------------------------
(* Connections: Connections::reload                                         *)

CGoto(c, pc) == cpc' = [cpc EXCEPT ![c] = pc]

\* The connection ends, or did not get a session
CEnd(c) ==
    /\ CGoto(c, "none")
    /\ csem' = [csem EXCEPT ![c] = NoObj]
    /\ cpage' = [cpage EXCEPT ![c] = NoObj]

\* There is room for another connection
Connects(c) == cpc[c] = "none" /\ Cardinality({d \in Conns : cpc[d] # "none"}) < setting.conns

\* The page exists: connect to the existing session
Join(c) ==
    /\ Connects(c)
    /\ pageName # NoObj
    /\ CGoto(c, "opensem")
    /\ UNCHANGED <<semVars, pageVars, procVars, csem, cpage, ctrlVars>>

\* The page does not exist: spawn a session process, or fail to and give up
Boot(c) ==
    /\ Connects(c)
    /\ pageName = NoObj
    /\ Cardinality({p \in Procs : ppc[p] # "none" \/ rec[p] # "none"}) < setting.procs
    /\ \E p \in Procs :
          /\ ppc[p] = "none" /\ rec[p] = "none"
          /\ ppc' = [ppc EXCEPT ![p] = "start"]
    /\ CGoto(c, "opensem")
    /\ UNCHANGED <<semVars, pageVars, plock, ppage, shouldSleep, rec, csem, cpage, ctrlVars>>

\* Open the session semaphore, which is not created here
OpenSem(c) ==
    /\ cpc[c] = "opensem"
    /\ semName # NoObj
    /\ csem' = [csem EXCEPT ![c] = semName]
    /\ CGoto(c, "openpage")
    /\ UNCHANGED <<semVars, pageVars, procVars, cpage, ctrlVars>>

\* No semaphore within SESSION_SEMAPHORE_WAIT_MS, or told to stop
OpenSemFail(c) ==
    /\ cpc[c] = "opensem"
    /\ semName = NoObj
    /\ CEnd(c)
    /\ UNCHANGED <<semVars, pageVars, procVars, ctrlVars>>

\* Comms::reload: open the page
OpenPage(c) ==
    /\ cpc[c] = "openpage"
    /\ pageName # NoObj
    /\ ~pageExit[pageName]
    /\ cpage' = [cpage EXCEPT ![c] = pageName]
    /\ CGoto(c, "wait")
    /\ UNCHANGED <<semVars, pageVars, procVars, csem, ctrlVars>>

\* Comms::reload: no page within the backoff, or one that is flagged exit
OpenPageFail(c) ==
    /\ cpc[c] = "openpage"
    /\ pageName # NoObj => pageExit[pageName]
    /\ CEnd(c)
    /\ UNCHANGED <<semVars, pageVars, procVars, ctrlVars>>

\* Comms::reload: wait for the semaphore without a limit, claim a record,
\* release it
Claim(c) ==
    /\ cpc[c] = "wait"
    /\ semVal[csem[c]] > 0
    /\ CGoto(c, "in")
    /\ UNCHANGED <<semVars, pageVars, procVars, csem, cpage, ctrlVars>>

\* Output::stats sees the exit flag, right after the claim or a second later,
\* or the connection ends by itself
Leave(c) ==
    /\ cpc[c] = "in"
    /\ CEnd(c)
    /\ UNCHANGED <<semVars, pageVars, procVars, ctrlVars>>

----------------------------------------------------------------------------
(* Session processes: main of session.cpp                                   *)

PGoto(p, pc) == ppc' = [ppc EXCEPT ![p] = pc]

\* The process ends
PEnd(p) ==
    /\ PGoto(p, "none")
    /\ plock' = [plock EXCEPT ![p] = NoObj]
    /\ ppage' = [ppage EXCEPT ![p] = NoObj]
    /\ shouldSleep' = [shouldSleep EXCEPT ![p] = FALSE]

\* sessionLock.open(O_CREAT)
OpenLock(p) ==
    /\ ppc[p] = "start"
    /\ \E s \in Objs : OpenOrCreate(s) /\ plock' = [plock EXCEPT ![p] = s]
    /\ PGoto(p, "trylock")
    /\ UNCHANGED <<pageVars, ppage, shouldSleep, rec, connVars, ctrlVars>>

\* tryWaitOneSecond succeeds
TryLock(p) ==
    /\ ppc[p] = "trylock"
    /\ Lock(plock[p])
    /\ PGoto(p, "check")
    /\ UNCHANGED <<semName, pageVars, plock, ppage, shouldSleep, rec, connVars, ctrlVars>>

\* Who holds s, and who of them may hold it for more than a second: a boot
\* that runs the USER_NEW trigger, or waits for the semaphore's name
Holds(p, s) == plock[p] = s /\ ppc[p] \in {"check", "register", "opensem", "attach", "trigger"}
HoldsLong(p) == \/ setting.upset /\ ppc[p] = "trigger"
                \/ ppc[p] = "opensem" /\ semName = NoObj

\* tryWaitOneSecond on s can time out
TimesOut(s) ==
    /\ semVal[s] = 0
    /\ \A p \in Procs : Holds(p, s) => HoldsLong(p)
    /\ ~(ksem = s /\ kpc # "trylock")

\* tryWaitOneSecond times out: "already locked", exit 1
LockTimeout(p) ==
    /\ ppc[p] = "trylock"
    /\ TimesOut(plock[p])
    /\ PEnd(p)
    /\ UNCHANGED <<semVars, pageVars, rec, connVars, ctrlVars>>

\* The page exists: "already has a running process", release, exit 0
PageExists(p) ==
    /\ ppc[p] = "check"
    /\ pageName # NoObj
    /\ Unlock(plock[p])
    /\ PEnd(p)
    /\ UNCHANGED <<semName, pageVars, rec, connVars, ctrlVars>>

\* Mutant: main posts sessionLock as soon as it has found no page
PageAbsentPosts(p) ==
    /\ ppc[p] = "check"
    /\ pageName = NoObj
    /\ PGoto(p, "register")
    /\ Unlock(plock[p])
    /\ UNCHANGED <<semName, pageVars, plock, ppage, shouldSleep, rec, connVars, ctrlVars>>

\* Mutant: main does not look for a page before it goes on booting
PageAbsentUnchecked(p) ==
    /\ ppc[p] = "check"
    /\ PGoto(p, "register")
    /\ UNCHANGED <<semVars, pageVars, plock, ppage, shouldSleep, rec, connVars, ctrlVars>>

\* The page does not exist: go on booting
PageAbsent(p) ==
    /\ ppc[p] = "check"
    /\ pageName = NoObj
    /\ PGoto(p, "register")
    /\ UNCHANGED <<semVars, pageVars, plock, ppage, shouldSleep, rec, connVars, ctrlVars>>

\* Claim a record on the Sessions page and name the session in it, in one step: who looks
\* for a record with that name holds the lock
Register(p) ==
    /\ ppc[p] = "register"
    /\ rec' = [rec EXCEPT ![p] = "live"]
    /\ PGoto(p, "opensem")
    /\ UNCHANGED <<semVars, pageVars, plock, ppage, shouldSleep, connVars, ctrlVars>>

\* ... or fail to: release, exit 1
RegisterFail(p) ==
    /\ ppc[p] = "register"
    /\ Unlock(plock[p])
    /\ PEnd(p)
    /\ UNCHANGED <<semName, pageVars, rec, connVars, ctrlVars>>

\* connections.reload(id, true): open the semaphore by its name
MasterOpenSem(p) ==
    /\ ppc[p] = "opensem"
    /\ semName # NoObj
    /\ PGoto(p, "attach")
    /\ UNCHANGED <<semVars, pageVars, plock, ppage, shouldSleep, rec, connVars, ctrlVars>>

\* ... it does not exist (any more): the session has no connections page
MasterOpenSemFail(p) ==
    /\ ppc[p] = "opensem"
    /\ semName = NoObj
    /\ PGoto(p, "trigger")
    /\ UNCHANGED <<semVars, pageVars, plock, ppage, shouldSleep, rec, connVars, ctrlVars>>

\* connections.reload(id, true): attach to the page, or create it
Attach(p) ==
    /\ ppc[p] = "attach"
    /\ IF pageName # NoObj
       THEN ppage' = [ppage EXCEPT ![p] = pageName] /\ UNCHANGED pageVars
       ELSE \E g \in Objs :
              /\ FreePage(g) /\ \A h \in 1 .. g - 1 : ~FreePage(h)
              /\ pageName' = g
              /\ pageExit' = [pageExit EXCEPT ![g] = FALSE]
              /\ ppage' = [ppage EXCEPT ![p] = g]
    /\ PGoto(p, "trigger")
    /\ UNCHANGED <<semVars, plock, shouldSleep, rec, connVars, ctrlVars>>

\* Mutant: main does not flag its page before it closes it
setExitForgotten(p) == UNCHANGED pageExit

\* setExit and getExit (isExit): without a page, a no-op and TRUE
setExit(p) ==
    pageExit' = IF ppage[p] = NoObj THEN pageExit ELSE [pageExit EXCEPT ![ppage[p]] = TRUE]
getExit(p) == IF ppage[p] = NoObj THEN TRUE ELSE pageExit[ppage[p]]

\* USER_NEW accepts (or a valid token needs no trigger): allow viewers
Accept(p) ==
    /\ ppc[p] = "trigger"
    /\ Unlock(plock[p])
    /\ PGoto(p, "run")
    /\ UNCHANGED <<semName, pageVars, plock, ppage, shouldSleep, rec, connVars, ctrlVars>>

\* USER_NEW rejects: flag the page, then let the waiting connections see it; in one
\* step, for those that wait look at the page again only after the post
Reject(p) ==
    /\ setting.upset
    /\ ppc[p] = "trigger"
    /\ setExit(p)
    /\ Unlock(plock[p])
    /\ PGoto(p, "run")
    /\ UNCHANGED <<semName, pageName, plock, ppage, shouldSleep, rec, connVars, ctrlVars>>

\* A re-sync (SIGUSR1 runs USER_NEW again) rejects: flag the page, leave the loop
RejectAgain(p) ==
    /\ setting.upset
    /\ ppc[p] = "run" /\ ~getExit(p)
    /\ setExit(p)
    /\ UNCHANGED <<semVars, pageName, procVars, connVars, ctrlVars>>

\* Whether a connection still updates the page of p: those on it are taken to do so
\* every second, so that none gets ten seconds old
InUse(p) == \E c \in Conns : cpc[c] = "in" /\ cpage[c] = ppage[p]

\* STATS_DELAY seconds pass: whoever was booting or connecting is done, and so
\* are an earlier session's unlinks, its USER_END and the controller's clean-up
Settled ==
    /\ \A p \in Procs :
          /\ ppc[p] \notin {"start", "trylock", "check", "unlinksem", "unlinkpage", "ending"}
          /\ rec[p] # "none" => ppc[p] # "none"
    /\ \A c \in Conns : /\ cpc[c] \notin {"opensem", "openpage"}
                        /\ cpc[c] = "wait" => semVal[csem[c]] = 0
    /\ kpc = "idle"

\* The main loop ends: nobody connected for STATS_DELAY, or told to stop
EndLoop(p) ==
    /\ ppc[p] = "run" /\ ~getExit(p)
    /\ setting.upset \/ (~InUse(p) /\ Settled)
    /\ setExit(p)
    /\ PGoto(p, "unlinksem")
    /\ UNCHANGED <<semVars, pageName, plock, ppage, shouldSleep, rec, connVars, ctrlVars>>

\* The main loop ends: rejected, or no page.  The session is kept invalidated
EndInvalid(p) ==
    /\ ppc[p] = "run" /\ getExit(p)
    /\ shouldSleep' = [shouldSleep EXCEPT ![p] = TRUE]
    /\ PGoto(p, "invalid")
    /\ UNCHANGED <<semVars, pageVars, plock, ppage, rec, connVars, ctrlVars>>

\* ... for SESS_TIMEOUT, or until it is told to stop
EndTimeout(p) ==
    /\ ppc[p] = "invalid"
    /\ setting.upset \/ Settled
    /\ PGoto(p, IF ppage[p] = NoObj THEN "ending" ELSE "unlinksem")
    /\ UNCHANGED <<semVars, pageVars, plock, ppage, shouldSleep, rec, connVars, ctrlVars>>

\* ~Comms of connections: sem.unlink(), by name
UnlinkSem(p) ==
    /\ ppc[p] = "unlinksem"
    /\ semName' = NoObj
    /\ PGoto(p, "unlinkpage")
    /\ UNCHANGED <<semVal, pageVars, plock, ppage, shouldSleep, rec, connVars, ctrlVars>>

\* ~sharedPage of connections: shm_unlink, by name
UnlinkPage(p) ==
    /\ ppc[p] = "unlinkpage"
    /\ pageName' = NoObj
    /\ PGoto(p, "ending")
    /\ UNCHANGED <<semVars, pageExit, plock, ppage, shouldSleep, rec, connVars, ctrlVars>>

\* main returns: ~Sessions flags the record DISCONNECT
Return(p) ==
    /\ rec' = [rec EXCEPT ![p] = "disconnect"]
    /\ PEnd(p)

\* USER_END runs and main returns
End(p) ==
    /\ ppc[p] = "ending"
    /\ ~shouldSleep[p]
    /\ Return(p)
    /\ UNCHANGED <<semVars, pageVars, connVars, ctrlVars>>

\* USER_END runs; the session is to be kept invalidated for another SESS_TIMEOUT
EndSleep(p) ==
    /\ ppc[p] = "ending"
    /\ shouldSleep[p]
    /\ PGoto(p, "sleep")
    /\ UNCHANGED <<semVars, pageVars, plock, ppage, shouldSleep, rec, connVars, ctrlVars>>

\* ... which ends, at the latest when it is told to stop or re-synced
Wake(p) ==
    /\ ppc[p] = "sleep"
    /\ Return(p)
    /\ UNCHANGED <<semVars, pageVars, connVars, ctrlVars>>

\* The process dies; what it locked stays locked
Crash(p) ==
    /\ ppc[p] \in setting.crashAt \ {"none"}
    /\ PEnd(p)
    /\ UNCHANGED <<semVars, pageVars, rec, connVars, ctrlVars>>

----------------------------------------------------------------------------
(* The controller: statOnDisconnect for a session's record                  *)

\* COMM_LOOP meets a record that is flagged, or whose process died
CtrlOpen ==
    /\ kpc = "idle"
    /\ \E p \in Procs :
          /\ rec[p] = "disconnect" \/ (rec[p] = "live" /\ ppc[p] = "none")
          /\ kid' = p
    /\ \E s \in Objs : OpenOrCreate(s) /\ ksem' = s
    /\ kpc' = "trylock"
    /\ UNCHANGED <<pageVars, procVars, connVars>>

\* COMM_LOOP frees the record
CtrlDone ==
    /\ rec' = [rec EXCEPT ![kid] = "none"]
    /\ kpc' = "idle"
    /\ ksem' = NoObj
    /\ UNCHANGED <<ppc, plock, ppage, shouldSleep, kid>>

\* tryWaitOneSecond times out: "likely crashed during boot", unlink by name
CtrlTimeout ==
    /\ kpc = "trylock"
    /\ TimesOut(ksem)
    /\ semName' = NoObj
    /\ CtrlDone
    /\ UNCHANGED <<semVal, pageVars, connVars>>

\* tryWaitOneSecond succeeds
CtrlLock ==
    /\ kpc = "trylock"
    /\ Lock(ksem)
    /\ kpc' = "check"
    /\ UNCHANGED <<semName, pageVars, procVars, connVars, ksem, kid>>

\* Mutant: statOnDisconnect does not look for another process that serves the session
sessIdExistsNever == FALSE

\* A running process has a record with this session id
sessIdExists == \E q \in Procs : rec[q] = "live" /\ ppc[q] # "none"

\* The session is served: ~semaphore releases the lock
CtrlKeep ==
    /\ kpc = "check"
    /\ sessIdExists
    /\ Unlock(ksem)
    /\ CtrlDone
    /\ UNCHANGED <<semName, pageVars, connVars>>

\* Mutant: statOnDisconnect removes the lock, and not the page
CtrlGoneKeepsPage ==
    /\ kpc = "check"
    /\ ~sessIdExists
    /\ kpc' = "unlinksem"
    /\ UNCHANGED <<semVars, pageVars, procVars, connVars, ksem, kid>>

\* Nobody serves it; whether it left a page decides what is unlinked
CtrlGone ==
    /\ kpc = "check"
    /\ ~sessIdExists
    /\ kpc' = IF pageName # NoObj THEN "unlinkboth" ELSE "unlinksem"
    /\ UNCHANGED <<semVars, pageVars, procVars, connVars, ksem, kid>>

\* sessionLock.unlink(), by name, which closes it without a post
CtrlUnlinkSem ==
    /\ kpc \in {"unlinksem", "unlinkboth"}
    /\ semName' = NoObj
    /\ IF kpc = "unlinksem"
       THEN CtrlDone
       ELSE kpc' = "unlinkpage" /\ ksem' = NoObj /\ UNCHANGED <<procVars, kid>>
    /\ UNCHANGED <<semVal, pageVars, connVars>>

\* ~sharedPage of dataPage: shm_unlink, by name
CtrlUnlinkPage ==
    /\ kpc = "unlinkpage"
    /\ pageName' = NoObj
    /\ CtrlDone
    /\ UNCHANGED <<semVars, pageExit, connVars>>

----------------------------------------------------------------------------

Conn(c) == \/ Join(c) \/ Boot(c) \/ OpenSem(c) \/ OpenSemFail(c)
           \/ OpenPage(c) \/ OpenPageFail(c) \/ Claim(c) \/ Leave(c)

BootProc(p) == \/ OpenLock(p) \/ TryLock(p) \/ LockTimeout(p) \/ PageExists(p) \/ PageAbsent(p)
               \/ Register(p) \/ RegisterFail(p) \/ MasterOpenSem(p) \/ MasterOpenSemFail(p)
               \/ Attach(p) \/ Accept(p) \/ Reject(p)

RunProc(p) == \/ RejectAgain(p) \/ EndLoop(p) \/ EndInvalid(p) \/ EndTimeout(p)
              \/ UnlinkSem(p) \/ UnlinkPage(p) \/ End(p) \/ EndSleep(p) \/ Wake(p)

Controller == \/ CtrlOpen \/ CtrlTimeout \/ CtrlLock \/ CtrlKeep \/ CtrlGone
              \/ CtrlUnlinkSem \/ CtrlUnlinkPage

Next == /\ \/ \E c \in Conns : Conn(c)
           \/ \E p \in Procs : BootProc(p) \/ RunProc(p) \/ Crash(p)
           \/ Controller
        /\ UNCHANGED setting

Spec == Init /\ [][Next]_vars

----------------------------------------------------------------------------
(* Properties                                                               *)

\* Every variable has its type; a semaphore is never posted above one.
TypeOK ==
    /\ setting \in Settings
    /\ semName \in Objs \union {NoObj} /\ semVal \in [Objs -> {0, 1}]
    /\ pageName \in Objs \union {NoObj} /\ pageExit \in [Objs -> BOOLEAN]
    /\ ppc \in [Procs -> ProcStates]
    /\ plock \in [Procs -> Objs \union {NoObj}]
    /\ ppage \in [Procs -> Objs \union {NoObj}]
    /\ shouldSleep \in [Procs -> BOOLEAN]
    /\ rec \in [Procs -> {"none", "live", "disconnect"}]
    /\ cpc \in [Conns -> ConnStates]
    /\ csem \in [Conns -> Objs \union {NoObj}]
    /\ cpage \in [Conns -> Objs \union {NoObj}]
    /\ kpc \in CtrlStates /\ ksem \in Objs \union {NoObj} /\ kid \in Procs

\* A process that decides about, or runs, the session
Serving(p) == ppc[p] \in {"trigger", "run"}

\* "Try to lock to ensure we are the only process initialising this session":
\* no two processes run USER_NEW for, or serve, the same session, as long as
\* USER_NEW answers within a second and rejects nobody.
OneServes == ~setting.upset => \A p, q \in Procs : p # q => ~(Serving(p) /\ Serving(q))

\* "start allowing viewers": while a session serves, its two names lead a new
\* connection to its page, so nobody else clears or replaces them; as long as
\* USER_NEW answers within a second and rejects nobody.
Joinable == ~setting.upset =>
    \A p \in Procs : ppc[p] = "run" /\ ~getExit(p) => pageName = ppage[p] /\ semName # NoObj

\* A connection that got into a session, whose page is not flagged exit, is
\* accounted for by a process that serves that page, unless processes die.
Accounted == setting.crashAt = {} =>
    \A c \in Conns : cpc[c] = "in" /\ ~pageExit[cpage[c]] =>
        \E p \in Procs : Serving(p) /\ ppage[p] = cpage[c]

\* Nobody boots, serves or ends the session, and the controller has handled
\* the records of all who did
AllEnded == kpc = "idle" /\ \A p \in Procs : ppc[p] = "none" /\ rec[p] = "none"

\* "It's the Controller's task to clean everything up": wherever the processes
\* died once they served, and whatever the triggers said, when all is over no
\* page keeps its name, which would make later connections wait for nobody.
CleanedUp == AllEnded => pageName = NoObj

----------------------------------------------------------------------------
(* The inductive invariants: TInv for TypeOK, AInv for Accounted, CInv for  *)
(* the others while nothing goes wrong                                      *)

CtrlHolds(s) == ksem = s /\ kpc \in {"check", "unlinksem", "unlinkboth"}

\* Who has opened what, and a semaphore that is held is taken, by one holder
Locks ==
    /\ \A p \in Procs : ppc[p] \in {"trylock", "check", "register", "opensem", "attach", "trigger"} => plock[p] # NoObj
    /\ kpc \in {"trylock", "check", "unlinksem", "unlinkboth"} => ksem # NoObj
    /\ \A s \in Objs : \A p \in Procs : Holds(p, s) =>
          semVal[s] = 0 /\ ~CtrlHolds(s) /\ \A q \in Procs : Holds(q, s) => q = p
    /\ \A s \in Objs : CtrlHolds(s) => semVal[s] = 0
    /\ \A c \in Conns : cpc[c] \in {"wait", "in"} => cpage[c] # NoObj

TInv == TypeOK /\ Locks

\* A page somebody has, or can find, is served or flagged
PagesServed == \A g \in Objs :
    (~pageExit[g] /\ (g = pageName \/ \E c \in Conns : cpage[c] = g)) => \E p \in Procs : Serving(p) /\ ppage[p] = g

AInv == TInv /\ (setting.crashAt = {} => PagesServed)

\* Nobody dies, is stopped or rejected
Calm == setting.crashAt = {} /\ ~setting.upset

Owning(p) == ppc[p] \in {"register", "opensem", "attach", "trigger", "run", "unlinksem", "unlinkpage"}
Paged(p) == ppc[p] \in {"trigger", "run", "unlinksem", "unlinkpage"}
Unlinking(p) == ppc[p] \in {"unlinksem", "unlinkpage"}

\* Who holds a lock holds the one of the name, and a lock without a name is taken for good
NamedLock ==
    /\ \A p \in Procs : \A s \in Objs : Holds(p, s) => s = semName
    /\ kpc \in {"trylock", "check", "unlinksem"} => ksem = semName
    /\ \A p \in Procs : (ppc[p] = "trylock" /\ plock[p] # semName) => semVal[plock[p]] = 0
    /\ \A p \in Procs : ppc[p] = "run" => semName # NoObj /\ kpc # "unlinksem"
    /\ (semName # NoObj /\ semVal[semName] = 0) => CtrlHolds(semName) \/ \E p \in Procs : Holds(p, semName)

\* One process owns the session; the page is there while it does
OneOwner ==
    /\ \A p, q \in Procs : Owning(p) /\ Owning(q) => p = q
    /\ \A p \in Procs : Paged(p) => pageName # NoObj /\ ppage[p] = pageName /\ (Unlinking(p) \/ ~pageExit[pageName])
    /\ pageName # NoObj => \E p \in Procs : Paged(p)

\* A session ends alone, when all records of the ones before it were handled
EndsAlone ==
    /\ \A p \in Procs : Unlinking(p) => /\ kpc = "idle"
                                        /\ \A q \in Procs : rec[q] # "disconnect" /\ (q # p => ppc[q] = "none")
    /\ \A p \in Procs : ppc[p] \notin {"invalid", "sleep"} /\ ~shouldSleep[p]

\* Whose record is live runs, and the controller handles one that is not
Records ==
    /\ \A p \in Procs : /\ rec[p] = "live" <=> (ppc[p] = "ending" \/ (Owning(p) /\ ppc[p] # "register"))
                        /\ rec[p] = "disconnect" => ppc[p] = "none"
    /\ kpc # "idle" => rec[kid] = "disconnect"
    /\ kpc \notin {"unlinkboth", "unlinkpage"}

CInv == TInv /\ Calm /\ NamedLock /\ OneOwner /\ EndsAlone /\ Records
=============================================================================
