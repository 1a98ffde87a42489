---------------------------- MODULE StreamStart ----------------------------
(***************************************************************************)
(* How one stream gets its input, and only one.  Whoever wants the stream  *)
(* (an output for a viewer, the controller for an always-on stream) calls  *)
(* Util::startInput: look at the state page, look at the SEM_INPUT         *)
(* semaphore, spawn an input.  The input (Input::boot) takes SEM_INPUT,    *)
(* publishes its state and its pid, and stays as the angel of a child that *)
(* serves; the controller's checkStream adopts, starts or reclaims.        *)
(*                                                                         *)
(* The semaphore and the pages are found by NAME, and a name can be        *)
(* unlinked and created again while others still hold what it stood for:   *)
(* semName says which semaphore SEM_INPUT leads to now.                    *)
(*                                                                         *)
(* The stream has one source of the kind that needs SEM_INPUT (a buffer or *)
(* a file); the MstSemPull semaphore of pull inputs, STREAM_SOURCE and the *)
(* OFFLINE state, and the WAIT state of buffers are left out.              *)
(***************************************************************************)
EXTENDS Naturals

CONSTANTS
    Inputs,      \* input processes (an angel and its child); reused when gone
    Viewers,     \* processes that start the stream when they want it
    Ctrl,        \* the controller, which starts an always-on stream
    None,
    MaxSems,     \* bound: semaphores that exist at a time
    MaxFaults,   \* bound: processes that are killed, forks that fail
    Settings     \* the sets of starters that may be active

ASSUME StartAssumption ==
    /\ MaxSems \in Nat \ {0} /\ MaxFaults \in Nat
    /\ \A S \in Settings : S \subseteq Viewers \union {Ctrl}
    /\ Ctrl \notin Viewers /\ None \notin Inputs

VARIABLES
    active,      \* who wants the stream; the controller does when it is always-on
    semName,     \* the semaphore SEM_INPUT leads to, NoSem without one
    semVal,      \* semaphore -> its value
    statePage,   \* what the stream's state page says, "absent" without one
    mapped,      \* the inputs whose streamStatus is the page of that name
    pidPage,     \* the input the stream's IPID page names, or None
    apc,         \* input -> where its angel is in Input::boot
    playerLock,  \* input -> the semaphore its angel opened
    child,       \* input -> where its child is
    spc,         \* starter -> where it is in startInput (the controller: in checkStream)
    probe,       \* starter -> the semaphore streamAlive holds
    spawned,     \* starter -> the input it spawned
    tracked,     \* the controller's inputProcesses entry
    since,       \* its alwaysOnUnadopted entry: none, or for less or more than 15 s
    faults

semVars   == <<semName, semVal>>
pageVars  == <<statePage, mapped, pidPage>>
inputVars == <<apc, playerLock, child>>
startVars == <<spc, probe, spawned>>
ctrlVars  == <<tracked, since>>
vars == <<active, semVars, pageVars, inputVars, startVars, ctrlVars, faults>>

Sems == 1 .. MaxSems
NoSem == 0

Starters == Viewers \union {Ctrl}

AngelStates == {"none", "open", "trywait", "setinit", "setpid", "spawn", "wait",
                "clearpid", "clearstate", "unlink"}
ChildStates == {"none", "start", "init", "boot", "ready", "shutdown", "off", "clean", "crash"}
StartStates == {"none", "status", "alive", "alivepost", "spawn", "await", "awaitpost", "polled", "last",
                "lastpost", "check", "checkpost", "free", "held", "reclaim"}
PageStates  == {"absent", "OFF", "INIT", "BOOT", "READY", "SHUTDOWN", "INVALID"}

Init ==
    /\ active \in Settings
    /\ semName = NoSem /\ semVal = [m \in Sems |-> 0]
    /\ statePage = "absent" /\ mapped = {} /\ pidPage = None
    /\ apc = [i \in Inputs |-> "none"]
    /\ playerLock = [i \in Inputs |-> NoSem]
    /\ child = [i \in Inputs |-> "none"]
    /\ spc = [s \in Starters |-> "none"]
    /\ probe = [s \in Starters |-> NoSem]
    /\ spawned = [s \in Starters |-> None]
    /\ tracked = None /\ since = "none"
    /\ faults = 0

----------------------------------------------------------------------------
(* Helpers                                                                  *)

\* kill(pid, 0) on the pid an input runs under, its angel's
isRunning(i) == i # None /\ apc[i] # "none"

\* A child that has not ended
ChildRuns(i) == child[i] \notin {"none", "clean", "crash"}

\* An input that is gone, which can stand for a new process; a pid page or the
\* controller may still name the old one
Unused(i) == /\ apc[i] = "none" /\ child[i] = "none"
             /\ \A s \in Starters : spawned[s] # i
Forget(i, x) == IF x = i THEN None ELSE x

\* The angel of i holds m
HoldsLock(i, m) == playerLock[i] = m /\ apc[i] \notin {"none", "open", "trywait"}

\* A semaphore nobody has
FreeSem(m) == /\ m # semName
              /\ \A i \in Inputs : playerLock[i] # m
              /\ \A s \in Starters : probe[s] # m

\* getStreamStatus: without a page the stream is off
Status == IF statePage = "absent" THEN "OFF" ELSE statePage

\* A write through the streamStatus a child has mapped
SetStatus(i, st) == statePage' = IF i \in mapped THEN st ELSE statePage

\* The state page goes, whoever made it; what is mapped stays with its owner
UnlinkStatePage == statePage' = "absent" /\ mapped' = {}

AGoto(i, pc) == apc' = [apc EXCEPT ![i] = pc]
CGoto(i, pc) == child' = [child EXCEPT ![i] = pc]
SGoto(s, pc) == spc' = [spc EXCEPT ![s] = pc]

----------------------------------------------------------------------------
(* Angels: Input::boot                                                      *)

\* playerLock.open(O_CREAT, 1)
OpenLock(i) ==
    /\ apc[i] = "open"
    /\ IF semName # NoSem
       THEN UNCHANGED semVars
       ELSE \E m \in Sems : /\ FreeSem(m) /\ \A n \in 1 .. m - 1 : ~FreeSem(n)
                            /\ semName' = m
                            /\ semVal' = [semVal EXCEPT ![m] = 1]
    /\ playerLock' = [playerLock EXCEPT ![i] = semName']
    /\ AGoto(i, "trywait")
    /\ UNCHANGED <<active, pageVars, child, startVars, ctrlVars, faults>>

\* playerLock.tryWait() succeeds
TakeLock(i) ==
    /\ apc[i] = "trywait"
    /\ semVal[playerLock[i]] > 0
    /\ semVal' = [semVal EXCEPT ![playerLock[i]] = @ - 1]
    /\ AGoto(i, "setinit")
    /\ UNCHANGED <<active, semName, pageVars, playerLock, child, startVars, ctrlVars, faults>>

\* Mutant: semaphore::close posts what it did not take
RefusePosts(i) ==
    /\ apc[i] = "trywait"
    /\ semVal[playerLock[i]] = 0
    /\ semVal' = [semVal EXCEPT ![playerLock[i]] = @ + 1]
    /\ AGoto(i, "none")
    /\ playerLock' = [playerLock EXCEPT ![i] = NoSem]
    /\ UNCHANGED <<active, semName, pageVars, child, startVars, ctrlVars, faults>>

\* ... fails: "A player for this stream is already running", exit 1
Refuse(i) ==
    /\ apc[i] = "trywait"
    /\ semVal[playerLock[i]] = 0
    /\ AGoto(i, "none")
    /\ playerLock' = [playerLock EXCEPT ![i] = NoSem]
    /\ UNCHANGED <<active, semVars, pageVars, child, startVars, ctrlVars, faults>>

\* The state page: the one that is there or a new one, cleared, INIT, closed
PublishState(i) ==
    /\ apc[i] = "setinit"
    /\ statePage' = "INIT"
    /\ AGoto(i, "setpid")
    /\ UNCHANGED <<active, semVars, mapped, pidPage, playerLock, child, startVars, ctrlVars, faults>>

\* The IPID page: made, or made anew
PublishPid(i) ==
    /\ apc[i] = "setpid"
    /\ pidPage' = i
    /\ AGoto(i, "spawn")
    /\ UNCHANGED <<active, semVars, statePage, mapped, playerLock, child, startVars, ctrlVars, faults>>

\* StartPiped(argv) with HOLY_CHILD
SpawnChild(i) ==
    /\ apc[i] = "spawn"
    /\ CGoto(i, "start")
    /\ AGoto(i, "wait")
    /\ UNCHANGED <<active, semVars, pageVars, playerLock, startVars, ctrlVars, faults>>

\* ... fails: unlink the lock, leave the pages, exit 2
SpawnFail(i) ==
    /\ apc[i] = "spawn"
    /\ faults < MaxFaults /\ faults' = faults + 1
    /\ semName' = NoSem
    /\ AGoto(i, "none")
    /\ playerLock' = [playerLock EXCEPT ![i] = NoSem]
    /\ UNCHANGED <<active, semVal, pageVars, child, startVars, ctrlVars>>

\* waitpid: the child exited with 0 or 1, leave the loop
ReapClean(i) ==
    /\ apc[i] = "wait" /\ child[i] = "clean"
    /\ CGoto(i, "none")
    /\ AGoto(i, "clearpid")
    /\ UNCHANGED <<active, semVars, pageVars, playerLock, startVars, ctrlVars, faults>>

\* waitpid: the child died.  The state becomes INVALID; start another child, or
\* (told to stop meanwhile, or a development build) leave the loop
ReapCrash(i) ==
    /\ apc[i] = "wait" /\ child[i] = "crash"
    /\ statePage' = IF statePage = "absent" THEN statePage ELSE "INVALID"
    /\ CGoto(i, "none")
    /\ \E pc \in {"spawn", "clearpid"} : AGoto(i, pc)
    /\ UNCHANGED <<active, semVars, mapped, pidPage, playerLock, startVars, ctrlVars, faults>>

\* The pages and the lock go, by their names, one after the other
ClearPid(i) ==
    /\ apc[i] = "clearpid"
    /\ pidPage' = None
    /\ AGoto(i, "clearstate")
    /\ UNCHANGED <<active, semVars, statePage, mapped, playerLock, child, startVars, ctrlVars, faults>>

ClearState(i) ==
    /\ apc[i] = "clearstate"
    /\ UnlinkStatePage
    /\ AGoto(i, "unlink")
    /\ UNCHANGED <<active, semVars, pidPage, playerLock, child, startVars, ctrlVars, faults>>

\* Mutant: the angel closes its lock without unlinking it
UnlinkLockCloses(i) ==
    /\ apc[i] = "unlink"
    /\ AGoto(i, "none")
    /\ playerLock' = [playerLock EXCEPT ![i] = NoSem]
    /\ UNCHANGED <<active, semVars, pageVars, child, startVars, ctrlVars, faults>>

UnlinkLock(i) ==
    /\ apc[i] = "unlink"
    /\ semName' = NoSem
    /\ AGoto(i, "none")
    /\ playerLock' = [playerLock EXCEPT ![i] = NoSem]
    /\ UNCHANGED <<active, semVal, pageVars, child, startVars, ctrlVars, faults>>

----------------------------------------------------------------------------
(* Children: the HOLY_CHILD part of boot, run and serve                     *)

\* What a child's step leaves alone
ChildOnly == UNCHANGED <<active, semVars, pidPage, apc, playerLock, startVars, ctrlVars, faults>>

\* The state page again, made when it is gone; preRun
ChildInit(i) ==
    /\ child[i] = "start"
    /\ statePage' = "INIT" /\ mapped' = mapped \union {i}
    /\ CGoto(i, "init")
    /\ ChildOnly

\* preRun fails: exit 1 with the pages as they are
PreRunFail(i) ==
    /\ child[i] = "init"
    /\ CGoto(i, "clean")
    /\ UNCHANGED <<statePage, mapped>> /\ ChildOnly

\* run: BOOT, the header is read or made
Run(i) ==
    /\ child[i] = "init"
    /\ SetStatus(i, "BOOT") /\ UNCHANGED mapped
    /\ CGoto(i, "boot")
    /\ ChildOnly

\* ... which fails
RunFail(i) ==
    /\ child[i] = "boot"
    /\ CGoto(i, "off")
    /\ UNCHANGED <<statePage, mapped>> /\ ChildOnly

\* serve: READY, until keepRunning says no, then SHUTDOWN, finish, OFF
Serve(i) ==
    /\ child[i] = "boot"
    /\ SetStatus(i, "READY") /\ UNCHANGED mapped
    /\ CGoto(i, "ready")
    /\ ChildOnly

ServeEnds(i) ==
    /\ child[i] = "ready"
    /\ SetStatus(i, "SHUTDOWN") /\ UNCHANGED mapped
    /\ CGoto(i, "shutdown")
    /\ ChildOnly

Finish(i) ==
    /\ child[i] = "shutdown"
    /\ SetStatus(i, "OFF") /\ UNCHANGED mapped
    /\ CGoto(i, "off")
    /\ ChildOnly

\* boot, after run: the state page goes, exit 0 or 1; the dead angel of a child
\* does not wait for it
ChildExit(i) ==
    /\ child[i] = "off"
    /\ UnlinkStatePage
    /\ CGoto(i, IF apc[i] = "wait" THEN "clean" ELSE "none")
    /\ ChildOnly

----------------------------------------------------------------------------
(* Faults                                                                   *)

\* SIGKILL of an angel; what it locked stays locked, its child lives on
KillAngel(i) ==
    /\ apc[i] # "none"
    /\ faults < MaxFaults /\ faults' = faults + 1
    /\ AGoto(i, "none")
    /\ playerLock' = [playerLock EXCEPT ![i] = NoSem]
    /\ child' = IF ChildRuns(i) THEN child ELSE [child EXCEPT ![i] = "none"]
    /\ UNCHANGED <<active, semVars, pageVars, startVars, ctrlVars>>

\* A child crashes or is killed
KillChild(i) ==
    /\ ChildRuns(i)
    /\ faults < MaxFaults /\ faults' = faults + 1
    /\ CGoto(i, IF apc[i] = "wait" THEN "crash" ELSE "none")
    /\ mapped' = mapped \ {i}
    /\ UNCHANGED <<active, semVars, statePage, pidPage, apc, playerLock, startVars, ctrlVars>>

\* Seconds pass: no process stays that long between two of its calls.  (An
\* angel may: it waits before it starts another child.)
Settled ==
    /\ \A i \in Inputs : /\ apc[i] \notin {"open", "trywait", "setinit", "setpid", "clearpid",
                                           "clearstate", "unlink"}
                         /\ child[i] \notin {"start", "off"}
    /\ spc[Ctrl] \notin {"check", "checkpost", "free", "held", "reclaim"}
    /\ \A s \in Starters : probe[s] = NoSem

\* A rolling restart of the controller, which takes that long; what it knows of
\* the stream's input is memory of the process
RestartCtrl ==
    /\ Ctrl \in active /\ spc[Ctrl] = "none" /\ Settled
    /\ faults < MaxFaults /\ faults' = faults + 1
    /\ tracked' = None /\ since' = "none"
    /\ UNCHANGED <<active, semVars, pageVars, inputVars, startVars>>

----------------------------------------------------------------------------
(* Starters: Util::startInput                                               *)

\* What a starter's step leaves alone, whatever the rest of it does
StartOnly == UNCHANGED <<active, pageVars, playerLock, child, faults>>

\* An output wants the stream
Want(s) ==
    /\ s \in active \ {Ctrl}
    /\ spc[s] = "none"
    /\ SGoto(s, "status")
    /\ UNCHANGED <<semVars, apc, probe, spawned, ctrlVars>> /\ StartOnly

\* Up to 60 seconds for the stream to be off or ready; the controller passes
\* "throughboot" and does not wait through BOOT
StatusWaits(s) == Status \notin {"OFF", "READY"} /\ ~(s = Ctrl /\ Status = "BOOT")

StatusSeen(s) ==
    /\ spc[s] = "status"
    /\ ~StatusWaits(s)
    /\ SGoto(s, "alive")
    /\ UNCHANGED <<semVars, apc, probe, spawned, ctrlVars>> /\ StartOnly

StatusTimeout(s) ==
    /\ spc[s] = "status"
    /\ StatusWaits(s)
    /\ SGoto(s, "alive")
    /\ UNCHANGED <<semVars, apc, probe, spawned, ctrlVars>> /\ StartOnly

\* The end of startInput; the controller remembers the process it started
Return(s) ==
    /\ SGoto(s, "none")
    /\ spawned' = [spawned EXCEPT ![s] = None]
    /\ tracked' = IF s = Ctrl /\ spawned[s] # None THEN spawned[s] ELSE tracked
    /\ UNCHANGED since

\* streamAlive, at three places of startInput and one of checkStream: open the
\* semaphore; without one, or when tryWait succeeds, the stream is not alive.
\* A semaphore that was taken is posted in a step of its own.
StreamAlive == semName # NoSem /\ semVal[semName] = 0

ProbeTakes(s, at) ==
    /\ spc[s] = at
    /\ semName # NoSem /\ semVal[semName] > 0
    /\ semVal' = [semVal EXCEPT ![semName] = @ - 1]
    /\ probe' = [probe EXCEPT ![s] = semName]
    /\ SGoto(s, CASE at = "alive" -> "alivepost" [] at = "await" -> "awaitpost"
                  [] at = "last" -> "lastpost" [] at = "check" -> "checkpost")
    /\ UNCHANGED <<semName, apc, spawned, ctrlVars>> /\ StartOnly

ProbePosts(s) ==
    /\ probe[s] # NoSem
    /\ semVal' = [semVal EXCEPT ![probe[s]] = @ + 1]
    /\ probe' = [probe EXCEPT ![s] = NoSem]

\* Not alive: go on to load the configuration and spawn an input
AliveNo(s) ==
    /\ \/ spc[s] = "alive" /\ semName = NoSem /\ UNCHANGED <<semVal, probe>>
       \/ spc[s] = "alivepost" /\ ProbePosts(s)
    /\ SGoto(s, "spawn")
    /\ UNCHANGED <<semName, apc, spawned, ctrlVars>> /\ StartOnly

\* "already active; continuing"
AliveYes(s) ==
    /\ spc[s] = "alive"
    /\ StreamAlive
    /\ Return(s)
    /\ UNCHANGED <<semVars, apc, probe>> /\ StartOnly

\* StartPiped of the input
SpawnInput(s) ==
    /\ spc[s] = "spawn"
    /\ \E i \in Inputs :
          /\ Unused(i)
          /\ AGoto(i, "open")
          /\ spawned' = [spawned EXCEPT ![s] = i]
          /\ pidPage' = Forget(i, pidPage) /\ tracked' = Forget(i, tracked)
    /\ SGoto(s, "await")
    /\ UNCHANGED <<active, semVars, statePage, mapped, playerLock, child, probe, since, faults>>

\* The loop that waits for the input, up to 240 times: the stream is alive
AwaitYes(s) ==
    /\ spc[s] = "await"
    /\ StreamAlive
    /\ Return(s)
    /\ UNCHANGED <<semVars, apc, probe>> /\ StartOnly

AwaitNo(s) ==
    /\ \/ spc[s] = "await" /\ semName = NoSem /\ UNCHANGED <<semVal, probe>>
       \/ spc[s] = "awaitpost" /\ ProbePosts(s)
    /\ SGoto(s, "polled")
    /\ UNCHANGED <<semName, apc, spawned, ctrlVars>> /\ StartOnly

\* "shut down before stream coming online", or the loop's end: look once more
AwaitEnds(s) ==
    /\ spc[s] = "polled"
    /\ ~isRunning(spawned[s]) \/ apc[spawned[s]] = "wait"
    /\ SGoto(s, "last")
    /\ UNCHANGED <<semVars, apc, probe, spawned, ctrlVars>> /\ StartOnly

\* The state says it boots or is ready, which "throughboot" takes for started
AwaitBoots(s) ==
    /\ s = Ctrl /\ spc[s] = "polled"
    /\ isRunning(spawned[s]) /\ Status \in {"BOOT", "READY"}
    /\ Return(s)
    /\ UNCHANGED <<semVars, apc, probe>> /\ StartOnly

AwaitAgain(s) ==
    /\ spc[s] = "polled"
    /\ isRunning(spawned[s]) /\ ~(s = Ctrl /\ Status \in {"BOOT", "READY"})
    /\ SGoto(s, "await")
    /\ UNCHANGED <<semVars, apc, probe, spawned, ctrlVars>> /\ StartOnly

LastLook(s) ==
    /\ \/ spc[s] = "last" /\ (semName = NoSem \/ StreamAlive) /\ UNCHANGED <<semVal, probe>>
       \/ spc[s] = "lastpost" /\ ProbePosts(s)
    /\ Return(s)
    /\ UNCHANGED <<semName, apc>> /\ StartOnly

----------------------------------------------------------------------------
(* The controller: checkStream of an always-on stream, every three seconds  *)

\* Mutant: checkStream goes on whatever the state page says
CheckPassesAlways == TRUE

\* checkStream goes on to the always-on branch only from these states
CheckPasses == Status \in {"OFF", "INVALID"}

\* The input it knows runs: ALWAYS_ON_NONE.  Otherwise look at the lock
Check ==
    /\ Ctrl \in active
    /\ spc[Ctrl] = "none"
    /\ CheckPasses
    /\ IF isRunning(tracked)
       THEN since' = "none" /\ UNCHANGED spc
       ELSE UNCHANGED since /\ SGoto(Ctrl, "check")
    /\ UNCHANGED <<semVars, apc, probe, spawned, tracked>> /\ StartOnly

CheckLock ==
    /\ \/ /\ spc[Ctrl] = "check" /\ (semName = NoSem \/ StreamAlive)
          /\ SGoto(Ctrl, IF StreamAlive THEN "held" ELSE "free")
          /\ UNCHANGED <<semVal, probe>>
       \/ /\ spc[Ctrl] = "checkpost" /\ ProbePosts(Ctrl)
          /\ SGoto(Ctrl, "free")
    /\ UNCHANGED <<semName, apc, spawned, ctrlVars>> /\ StartOnly

\* alwaysOnAction: the lock was free, and the state is off: ALWAYS_ON_START
StartAlwaysOn ==
    /\ spc[Ctrl] = "free" /\ Status = "OFF"
    /\ since' = "none"
    /\ SGoto(Ctrl, "status")
    /\ UNCHANGED <<semVars, apc, probe, spawned, tracked>> /\ StartOnly

\* served: the lock was held, or the state is not terminal
Served == spc[Ctrl] = "held" \/ (spc[Ctrl] = "free" /\ Status # "OFF")

\* streamInputPid is asked only when the lock was held: ALWAYS_ON_ADOPT
Adopt ==
    /\ spc[Ctrl] = "held" /\ isRunning(pidPage)
    /\ tracked' = pidPage /\ since' = "none"
    /\ SGoto(Ctrl, "none")
    /\ UNCHANGED <<semVars, apc, probe, spawned>> /\ StartOnly

Unadopted == Served /\ ~(spc[Ctrl] = "held" /\ isRunning(pidPage))

\* ALWAYS_ON_SKIP: note the time, unless one is noted
Skip ==
    /\ Unadopted /\ since # "old"
    /\ since' = "fresh"
    /\ SGoto(Ctrl, "none")
    /\ UNCHANGED <<semVars, apc, probe, spawned, tracked>> /\ StartOnly

\* ALWAYS_ON_RECLAIM
Reclaim ==
    /\ Unadopted /\ since = "old"
    /\ SGoto(Ctrl, "reclaim")
    /\ UNCHANGED <<semVars, apc, probe, spawned, ctrlVars>> /\ StartOnly

\* Mutant: a semaphore that is taken is closed like one that is free
ReleaseNothing ==
    /\ spc[Ctrl] = "reclaim"
    /\ since' = "none"
    /\ SGoto(Ctrl, "status")
    /\ UNCHANGED <<semVars, apc, probe, spawned, tracked>> /\ StartOnly

\* releaseAbandonedLock: unlink the semaphore unless it can be taken; start.  Its look at
\* the lock, which it takes and posts, and the unlink are one step
ReleaseAbandonedLock ==
    /\ spc[Ctrl] = "reclaim"
    /\ semName' = IF StreamAlive THEN NoSem ELSE semName
    /\ since' = "none"
    /\ SGoto(Ctrl, "status")
    /\ UNCHANGED <<semVal, apc, probe, spawned, tracked>> /\ StartOnly

\* What a check would find now leaves the alwaysOnUnadopted entry alone
EntryStays == CheckPasses => /\ ~isRunning(tracked)
                             /\ IF StreamAlive THEN ~isRunning(pidPage) ELSE Status # "OFF"

\* ALWAYS_ON_ABANDONED_LOCK_MS pass, in which the controller checks several times
Age ==
    /\ since = "fresh"
    /\ EntryStays /\ Settled
    /\ since' = "old"
    /\ UNCHANGED <<active, semVars, pageVars, inputVars, startVars, tracked, faults>>

----------------------------------------------------------------------------

Angel(i) == \/ OpenLock(i) \/ TakeLock(i) \/ Refuse(i) \/ PublishState(i) \/ PublishPid(i)
            \/ SpawnChild(i) \/ ReapClean(i) \/ ReapCrash(i) \/ ClearPid(i) \/ ClearState(i)
            \/ UnlinkLock(i)
Child(i) == \/ ChildInit(i) \/ PreRunFail(i) \/ Run(i) \/ RunFail(i) \/ Serve(i)
            \/ Finish(i) \/ ChildExit(i)
Starter(s) == \/ StatusSeen(s) \/ StatusTimeout(s)
              \/ \E at \in {"alive", "await", "last", "check"} : ProbeTakes(s, at)
              \/ AliveNo(s) \/ AliveYes(s) \/ SpawnInput(s)
              \/ AwaitYes(s) \/ AwaitNo(s) \/ AwaitEnds(s)
              \/ AwaitBoots(s) \/ AwaitAgain(s) \/ LastLook(s)
Controller == \/ Check \/ CheckLock \/ StartAlwaysOn \/ Adopt \/ Skip \/ Reclaim
              \/ ReleaseAbandonedLock

Next == \/ \E i \in Inputs : \/ Angel(i) \/ Child(i) \/ ServeEnds(i)
                             \/ SpawnFail(i) \/ KillAngel(i) \/ KillChild(i)
        \/ \E s \in Starters : Starter(s) \/ Want(s)
        \/ Controller \/ RestartCtrl \/ Age

Spec == Init /\ [][Next]_vars

\* What processes do without anybody asking: waits are bounded, a child gets
\* past its boot, and the controller checks every three seconds
FairSpec == /\ Spec
            /\ \A i \in Inputs : WF_vars(Angel(i)) /\ WF_vars(Child(i))
            /\ \A s \in Starters : WF_vars(Starter(s))
            /\ WF_vars(Controller) /\ SF_vars(Age)

----------------------------------------------------------------------------
(* Properties                                                               *)

\* Every variable has its type; a semaphore is never posted above one.
TypeOK ==
    /\ active \in Settings
    /\ semName \in Sems \union {NoSem} /\ semVal \in [Sems -> {0, 1}]
    /\ statePage \in PageStates /\ mapped \subseteq Inputs /\ pidPage \in Inputs \union {None}
    /\ apc \in [Inputs -> AngelStates]
    /\ playerLock \in [Inputs -> Sems \union {NoSem}]
    /\ child \in [Inputs -> ChildStates]
    /\ spc \in [Starters -> StartStates]
    /\ probe \in [Starters -> Sems \union {NoSem}]
    /\ spawned \in [Starters -> Inputs \union {None}]
    /\ tracked \in Inputs \union {None} /\ since \in {"none", "fresh", "old"}
    /\ faults \in 0 .. MaxFaults

\* A child that has the stream's state page and serves, or is about to
Serving(i) == child[i] \in {"init", "boot", "ready", "shutdown"}

\* "It's still possible a duplicate starts anyway, this is caught in the inputs
\* initializer": no two inputs serve the stream, whether viewers race to start it
\* or the controller does and takes the lock of a killed angel away from its child.
\* A viewer beside the controller is left out, and so is a third fault: there two
\* inputs may serve, for the controller unlinks the lock of a live one; see the README.
OneInput == \A i, j \in Inputs : i # j => ~(Serving(i) /\ Serving(j))

\* No process of an input, or of a starter, is there
Nobody == \A i \in Inputs : ~isRunning(i) /\ ~ChildRuns(i)
Resting == Nobody /\ \A s \in Starters : spc[s] = "none"

\* When the inputs ended by themselves they left nothing a starter would take
\* for a stream that is served: no state, no pid, no semaphore that is taken.
NothingLeft ==
    Resting /\ faults = 0 => statePage = "absent" /\ pidPage = None /\ ~StreamAlive

\* The state page of an input that is gone still says that it boots or serves
Orphaned == Nobody /\ Status \in {"INIT", "BOOT", "READY", "SHUTDOWN"}

\* "the stream is reclaimed instead of skipped for good": the controller starts
\* an always-on stream again and again, whatever a dead input left taken; but
\* for a state page that says the input is there (see AlwaysOnReturns).
AlwaysOnReclaimed == Ctrl \in active => []<>(~Nobody \/ Orphaned)

\* ... and without the exception: what the comment of alwaysOnAction promises
\* for "a non-terminal state" that outlives its input.
AlwaysOnReturns == Ctrl \in active => []<>~Nobody

----------------------------------------------------------------------------
(* The inductive invariants: SInv for TypeOK, VInv for OneInput when only   *)
(* viewers start the stream, NInv for NothingLeft                           *)

\* A semaphore that a starter probes is taken, by that starter alone
Probes == \A s \in Starters : probe[s] # NoSem =>
              /\ semVal[probe[s]] = 0
              /\ \A t \in Starters : probe[t] = probe[s] => t = s

\* An angel has a lock once it opened it; its child is there while it waits, or outlives it
Locks == \A i \in Inputs : /\ apc[i] \notin {"none", "open"} => playerLock[i] # NoSem
                           /\ child[i] # "none" => apc[i] \in {"none", "wait"}

SInv == TypeOK /\ Probes /\ Locks

\* An angel that took the lock, or what is left of its input
Owns(i) == apc[i] \notin {"none", "open", "trywait"} \/ child[i] # "none"

\* An owner has the semaphore the name leads to, and it is the only one
Owner == \A i \in Inputs : Owns(i) =>
             /\ semName # NoSem /\ semVal[semName] = 0
             /\ apc[i] # "none" => playerLock[i] = semName
             /\ \A s \in Starters : probe[s] # semName
             /\ \A j \in Inputs : Owns(j) => j = i

\* A semaphore that lost its name was taken for good
Nameless == /\ \A i \in Inputs : apc[i] = "trywait" /\ playerLock[i] # semName => semVal[playerLock[i]] = 0
            /\ \A s \in Starters : probe[s] \in {NoSem, semName}

VInv == SInv /\ Owner /\ Nameless

\* Without faults a child has its angel, and who holds a semaphore is about to post it
Paired == /\ \A i \in Inputs : child[i] # "none" => apc[i] = "wait"
          /\ \A s \in Starters : probe[s] # NoSem =>
                 spc[s] \in {"alivepost", "awaitpost", "lastpost", "checkpost"}

\* The pages are there only as long as an input is; a semaphore is taken only by it or a probe
Cleared == (\A i \in Inputs : ~Owns(i)) =>
    /\ statePage = "absent" /\ pidPage = None
    /\ semName # NoSem => semVal[semName] = 1 \/ \E s \in Starters : probe[s] = semName

\* An angel makes the pages one after the other, and removes them so
Stages == \A i \in Inputs :
    /\ apc[i] \in {"setinit", "setpid", "clearstate", "unlink"} => pidPage = None
    /\ apc[i] \in {"setinit", "unlink"} => statePage = "absent"

\* The controller, where it starts the stream alone, knows the input there is
Knows == IF Ctrl \in active
         THEN /\ \A s \in Viewers : spc[s] = "none"
              /\ \A i \in Inputs : apc[i] # "none" =>
                     \/ spc[Ctrl] = "none" /\ tracked = i
                     \/ spc[Ctrl] \in {"await", "awaitpost", "polled", "last", "lastpost"} /\ spawned[Ctrl] = i
         ELSE spc[Ctrl] = "none"

NInv == SInv /\ (faults = 0 => Owner /\ Nameless /\ Paired /\ Cleared /\ Stages /\ Knows)
=============================================================================
