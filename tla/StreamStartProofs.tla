-------------------------- MODULE StreamStartProofs --------------------------
(***************************************************************************)
(* For any inputs, viewers and number of semaphores: every variable keeps  *)
(* its type, so no semaphore is posted above one; when only viewers start  *)
(* the stream, no two inputs ever serve it, whoever dies; and when viewers *)
(* or the controller alone start it, inputs that end by themselves leave   *)
(* nothing that is taken for a stream that is served.                      *)
(***************************************************************************)
EXTENDS StreamStart, TLAPS

\* The bound is a number, and no semaphore is NoSem
LEMMA Bounds == /\ MaxFaults \in Nat /\ NoSem \notin Sems
                /\ Ctrl \in Starters /\ Ctrl \notin Viewers /\ None \notin Inputs
BY StartAssumption DEF NoSem, Sems, Starters

\* What a fault does to the count of them
LEMMA CountFault == ASSUME faults \in 0 .. MaxFaults, faults < MaxFaults, faults' = faults + 1
                    PROVE  faults' \in 0 .. MaxFaults
BY Bounds

\* Who forgets an input that is reused
LEMMA ForgetType == ASSUME NEW i, NEW x \in Inputs \union {None}
                    PROVE  Forget(i, x) \in Inputs \union {None}
BY DEF Forget

-----------------------------------------------------------------------------
\* Types

\* At the start nobody probes and nobody holds the lock
LEMMA InitSInv == Init => SInv
<1> SUFFICES ASSUME Init PROVE SInv OBVIOUS
<1>1. 0 \in 0 .. MaxFaults
  BY Bounds
<1>2. TypeOK
  BY <1>1 DEF Init, TypeOK, PageStates, AngelStates, ChildStates, StartStates
<1>3. Probes /\ Locks
  BY DEF Init, Probes, Locks
<1> QED BY <1>2, <1>3 DEF SInv

\* The semaphore an angel opens: the one of the name, or a new one at 1
LEMMA OpenedLock == ASSUME TypeOK, NEW i \in Inputs, OpenLock(i)
                    PROVE  /\ semName' \in Sems
                           /\ playerLock' = [playerLock EXCEPT ![i] = semName']
                           /\ \/ (semName # NoSem /\ UNCHANGED semVars)
                              \/ (semName = NoSem /\ FreeSem(semName') /\ semVal' = [semVal EXCEPT ![semName'] = 1])
<1>1. CASE semName # NoSem
  BY <1>1 DEF OpenLock, TypeOK, semVars
<1>2. CASE semName = NoSem
  BY <1>2 DEF OpenLock, TypeOK
<1> QED BY <1>1, <1>2

\* Input::boot takes, keeps and gives back SEM_INPUT as one
LEMMA AngelSInv == ASSUME SInv, NEW i \in Inputs, Angel(i) PROVE SInv'
<1> USE Bounds DEF semVars, pageVars, inputVars, startVars, ctrlVars, AGoto, CGoto
<1>1. CASE OpenLock(i)
  <2>1. /\ semName' \in Sems /\ apc[i] = "open" /\ apc' = [apc EXCEPT ![i] = "trywait"]
        /\ playerLock' = [playerLock EXCEPT ![i] = semName']
        /\ UNCHANGED <<active, pageVars, child, startVars, ctrlVars, faults>>
    BY <1>1, OpenedLock DEF OpenLock, SInv
  <2>2. semVal' \in [Sems -> {0, 1}]
    BY <1>1, <2>1, OpenedLock DEF SInv, TypeOK
  <2>3. TypeOK'
    BY <2>1, <2>2 DEF SInv, TypeOK, AngelStates
  <2>4. \A s \in Starters : probe[s] # NoSem => semVal'[probe[s]] = semVal[probe[s]]
    BY <1>1, <2>1, OpenedLock DEF SInv, TypeOK, FreeSem
  <2>5. Probes'
    BY <2>1, <2>4 DEF SInv, Probes
  <2>6. Locks'
    BY <2>1 DEF SInv, Locks, TypeOK
  <2> QED BY <2>3, <2>5, <2>6 DEF SInv
<1>2. CASE TakeLock(i)
  <2>1. playerLock[i] \in Sems
    BY <1>2 DEF SInv, TypeOK, Locks, TakeLock
  <2>2. semVal[playerLock[i]] = 1 /\ semVal' = [semVal EXCEPT ![playerLock[i]] = 0]
    <3>1. semVal[playerLock[i]] \in {0, 1} /\ semVal[playerLock[i]] > 0
      BY <1>2, <2>1 DEF SInv, TypeOK, TakeLock
    <3>2. semVal' = [semVal EXCEPT ![playerLock[i]] = semVal[playerLock[i]] - 1]
      BY <1>2 DEF TakeLock
    <3>3. semVal[playerLock[i]] = 1 /\ semVal[playerLock[i]] - 1 = 0
      BY <3>1
    <3> QED BY <3>2, <3>3
  <2>3. TypeOK'
    BY <1>2, <2>1, <2>2 DEF SInv, TypeOK, AngelStates, TakeLock
  <2>4. Probes'
    BY <1>2, <2>1, <2>2 DEF SInv, TypeOK, Probes, TakeLock
  <2>5. Locks'
    BY <1>2 DEF SInv, Locks, TypeOK, TakeLock
  <2> QED BY <2>3, <2>4, <2>5 DEF SInv
<1>3. CASE Refuse(i) \/ PublishState(i) \/ PublishPid(i) \/ ClearPid(i) \/ ClearState(i) \/ UnlinkLock(i)
  <2> USE DEF Refuse, PublishState, PublishPid, ClearPid, ClearState, UnlinkLock, UnlinkStatePage
  <2>1. TypeOK'
    BY <1>3 DEF SInv, TypeOK, AngelStates, PageStates
  <2>2. Probes'
    BY <1>3 DEF SInv, Probes
  <2>3. Locks'
    BY <1>3 DEF SInv, Locks, TypeOK
  <2> QED BY <2>1, <2>2, <2>3 DEF SInv
<1>4. CASE SpawnChild(i) \/ ReapClean(i) \/ ReapCrash(i)
  <2> USE DEF SpawnChild, ReapClean, ReapCrash
  <2>1. TypeOK'
    BY <1>4 DEF SInv, TypeOK, AngelStates, PageStates, ChildStates
  <2>2. Probes'
    BY <1>4 DEF SInv, Probes
  <2>3. Locks'
    BY <1>4 DEF SInv, Locks, TypeOK
  <2> QED BY <2>1, <2>2, <2>3 DEF SInv
<1> QED BY <1>1, <1>2, <1>3, <1>4 DEF Angel

\* The child of an input touches no semaphore
LEMMA ChildSInv == ASSUME SInv, NEW i \in Inputs, Child(i) \/ ServeEnds(i) PROVE SInv'
<1> USE Bounds DEF semVars, pageVars, inputVars, startVars, ctrlVars, CGoto, ChildOnly, SetStatus, UnlinkStatePage,
                   ChildInit, PreRunFail, Run, RunFail, Serve, ServeEnds, Finish, ChildExit
<1>1. UNCHANGED <<active, semVars, pidPage, apc, playerLock, startVars, ctrlVars, faults>>
  BY DEF Child
<1>2. \E c \in ChildStates : child[i] # "none" /\ child' = [child EXCEPT ![i] = c]
  BY DEF Child, ChildStates
<1>3. statePage' \in PageStates /\ mapped' \subseteq Inputs
  BY DEF Child, SInv, TypeOK, PageStates
<1>4. TypeOK'
  BY <1>1, <1>2, <1>3 DEF SInv, TypeOK
<1>5. Probes'
  BY <1>1 DEF SInv, Probes
<1>6. Locks'
  BY <1>1, <1>2 DEF SInv, Locks, TypeOK
<1> QED BY <1>4, <1>5, <1>6 DEF SInv

\* Who is killed takes the lock along; nobody posts it for him
LEMMA FaultSInv == ASSUME SInv, NEW i \in Inputs, SpawnFail(i) \/ KillAngel(i) \/ KillChild(i) PROVE SInv'
<1> USE Bounds DEF semVars, pageVars, inputVars, startVars, ctrlVars, AGoto, CGoto
<1>0. faults' \in 0 .. MaxFaults
  BY CountFault DEF SInv, TypeOK, SpawnFail, KillAngel, KillChild
<1>1. CASE SpawnFail(i)
  BY <1>0, <1>1 DEF SInv, TypeOK, Probes, Locks, SpawnFail, AngelStates
<1>2. CASE KillAngel(i)
  <2>1. /\ apc' = [apc EXCEPT ![i] = "none"] /\ playerLock' = [playerLock EXCEPT ![i] = NoSem]
        /\ child' \in {child, [child EXCEPT ![i] = "none"]}
        /\ UNCHANGED <<active, semVars, pageVars, startVars, ctrlVars>>
    BY <1>2 DEF KillAngel
  <2> QED BY <1>0, <2>1 DEF SInv, TypeOK, Probes, Locks, AngelStates, ChildStates
<1>3. CASE KillChild(i)
  <2>1. child[i] # "none"
    BY <1>3 DEF KillChild, ChildRuns
  <2>2. \E c \in ChildStates : child' = [child EXCEPT ![i] = c]
    BY <1>3 DEF KillChild, ChildStates
  <2>3. mapped' \subseteq mapped /\ UNCHANGED <<active, semVars, statePage, pidPage, apc, playerLock, startVars, ctrlVars>>
    BY <1>3 DEF KillChild
  <2> QED BY <1>0, <2>1, <2>2, <2>3 DEF SInv, TypeOK, Probes, Locks
<1> QED BY <1>1, <1>2, <1>3

\* A probe takes a free semaphore, and gives it back
LEMMA TakeSInv == ASSUME SInv, NEW s \in Starters, NEW at \in {"alive", "await", "last", "check"},
                         ProbeTakes(s, at)
                  PROVE  SInv'
<1> USE Bounds DEF semVars, pageVars, inputVars, startVars, ctrlVars, StartOnly, SGoto
<1>1. /\ semName \in Sems /\ semVal[semName] > 0
      /\ semVal' = [semVal EXCEPT ![semName] = semVal[semName] - 1]
      /\ probe' = [probe EXCEPT ![s] = semName]
      /\ UNCHANGED <<semName, apc, spawned, tracked, since, active, statePage, mapped, pidPage,
                     playerLock, child, faults>>
  BY DEF ProbeTakes, SInv, TypeOK
<1>2. semVal[semName] \in {0, 1}
  BY <1>1 DEF SInv, TypeOK
<1>3. semVal[semName] = 1 /\ semVal[semName] - 1 = 0
  BY <1>1, <1>2
<1>4. semVal' = [semVal EXCEPT ![semName] = 0]
  BY <1>1, <1>3
<1>5. spc' \in [Starters -> StartStates]
  <2>1. \E pc \in StartStates : spc' = [spc EXCEPT ![s] = pc]
    <3>1. CASE at = "alive"
      BY <3>1 DEF ProbeTakes, StartStates
    <3>2. CASE at = "await"
      BY <3>2 DEF ProbeTakes, StartStates
    <3>3. CASE at = "last"
      BY <3>3 DEF ProbeTakes, StartStates
    <3>4. CASE at = "check"
      BY <3>4 DEF ProbeTakes, StartStates
    <3> QED BY <3>1, <3>2, <3>3, <3>4
  <2> QED BY <2>1 DEF SInv, TypeOK
<1>6. TypeOK'
  BY <1>1, <1>4, <1>5 DEF SInv, TypeOK
<1>7. Probes'
  BY <1>1, <1>3, <1>4 DEF SInv, TypeOK, Probes
<1>8. Locks'
  BY <1>1 DEF SInv, Locks
<1> QED BY <1>6, <1>7, <1>8 DEF SInv

\* A starter posts what it took, once
LEMMA PostsSInv == ASSUME TypeOK, Probes, NEW s \in Starters, ProbePosts(s)
                   PROVE  /\ semVal' \in [Sems -> {0, 1}] /\ probe' \in [Starters -> Sems \union {NoSem}]
                          /\ semVal' = [semVal EXCEPT ![probe[s]] = 1] /\ Probes'
<1> USE Bounds
<1>1. probe[s] \in Sems /\ semVal[probe[s]] = 0
  BY DEF TypeOK, Probes, ProbePosts
<1>2. semVal' = [semVal EXCEPT ![probe[s]] = semVal[probe[s]] + 1]
  BY DEF ProbePosts
<1>3. semVal[probe[s]] + 1 = 1
  BY <1>1
<1>4. semVal' = [semVal EXCEPT ![probe[s]] = 1]
  BY <1>2, <1>3
<1>5. semVal' \in [Sems -> {0, 1}] /\ probe' \in [Starters -> Sems \union {NoSem}]
  BY <1>1, <1>4 DEF TypeOK, ProbePosts
<1>6. ASSUME NEW t \in Starters, probe'[t] # NoSem
      PROVE  t # s /\ probe'[t] = probe[t] /\ probe[t] # probe[s] /\ semVal'[probe[t]] = 0
  <2>1. t # s /\ probe'[t] = probe[t]
    BY <1>6 DEF ProbePosts, TypeOK
  <2>2. probe[t] # probe[s]
    BY <1>6, <2>1 DEF Probes
  <2> QED BY <1>4, <1>6, <2>1, <2>2 DEF Probes, TypeOK
<1>7. Probes'
  BY <1>6 DEF Probes
<1> QED BY <1>4, <1>5, <1>7

\* The steps of a starter that look, wait and spawn
LEMMA StarterSInv == ASSUME SInv, NEW s \in Starters, Starter(s) \/ Want(s) PROVE SInv'
<1> USE Bounds DEF semVars, pageVars, inputVars, startVars, ctrlVars, StartOnly, SGoto
<1>1. CASE \E at \in {"alive", "await", "last", "check"} : ProbeTakes(s, at)
  BY <1>1, TakeSInv
<1>2. CASE AliveNo(s) \/ AwaitNo(s)
  <2>1. /\ (UNCHANGED <<semVal, probe>> \/ ProbePosts(s))
        /\ spc' \in {[spc EXCEPT ![s] = "spawn"], [spc EXCEPT ![s] = "polled"]}
        /\ UNCHANGED <<semName, apc, spawned, tracked, since, active, statePage, mapped, pidPage,
                       playerLock, child, faults>>
    BY <1>2 DEF AliveNo, AwaitNo
  <2>2. /\ semVal' \in [Sems -> {0, 1}] /\ probe' \in [Starters -> Sems \union {NoSem}] /\ Probes'
    BY <2>1, PostsSInv DEF SInv, TypeOK, Probes
  <2>3. TypeOK'
    BY <2>1, <2>2 DEF SInv, TypeOK, StartStates
  <2> QED BY <2>1, <2>2, <2>3 DEF SInv, Locks
<1>3. CASE LastLook(s)
  <2>1. /\ (UNCHANGED <<semVal, probe>> \/ ProbePosts(s))
        /\ Return(s)
        /\ UNCHANGED <<semName, apc, active, statePage, mapped, pidPage, playerLock, child, faults>>
    BY <1>3 DEF LastLook
  <2>2. /\ semVal' \in [Sems -> {0, 1}] /\ probe' \in [Starters -> Sems \union {NoSem}] /\ Probes'
    BY <2>1, PostsSInv DEF SInv, TypeOK, Probes
  <2>3. TypeOK'
    BY <2>1, <2>2 DEF SInv, TypeOK, StartStates, Return
  <2> QED BY <2>1, <2>2, <2>3 DEF SInv, Locks
<1>4. CASE Want(s) \/ StatusSeen(s) \/ StatusTimeout(s) \/ AwaitEnds(s) \/ AwaitAgain(s)
  <2> USE DEF Want, StatusSeen, StatusTimeout, AwaitEnds, AwaitAgain
  <2>1. /\ \E pc \in StartStates : spc' = [spc EXCEPT ![s] = pc]
        /\ UNCHANGED <<semName, semVal, apc, probe, spawned, tracked, since, active, statePage, mapped,
                       pidPage, playerLock, child, faults>>
    BY <1>4 DEF StartStates
  <2> QED BY <2>1 DEF SInv, TypeOK, Probes, Locks
<1>5. CASE AliveYes(s) \/ AwaitYes(s) \/ AwaitBoots(s)
  <2>1. Return(s) /\ UNCHANGED <<semName, semVal, apc, probe, active, statePage, mapped, pidPage,
                                 playerLock, child, faults>>
    BY <1>5 DEF AliveYes, AwaitYes, AwaitBoots
  <2> QED BY <2>1 DEF SInv, TypeOK, Probes, Locks, Return, StartStates
<1>6. CASE SpawnInput(s)
  <2>1. PICK i \in Inputs : /\ Unused(i) /\ apc' = [apc EXCEPT ![i] = "open"]
                            /\ spawned' = [spawned EXCEPT ![s] = i]
                            /\ pidPage' = Forget(i, pidPage) /\ tracked' = Forget(i, tracked)
    BY <1>6 DEF SpawnInput, AGoto
  <2>2. /\ spc' = [spc EXCEPT ![s] = "await"]
        /\ UNCHANGED <<active, semName, semVal, statePage, mapped, playerLock, child, probe, since, faults>>
    BY <1>6 DEF SpawnInput
  <2>3. TypeOK'
    BY <2>1, <2>2, ForgetType DEF SInv, TypeOK, StartStates, AngelStates
  <2>4. Probes'
    BY <2>2 DEF SInv, Probes
  <2>5. Locks'
    BY <2>1, <2>2 DEF SInv, TypeOK, Locks, Unused
  <2> QED BY <2>3, <2>4, <2>5 DEF SInv
<1> QED BY <1>1, <1>2, <1>3, <1>4, <1>5, <1>6 DEF Starter

\* The controller's check of an always-on stream
LEMMA ControllerSInv == ASSUME SInv, Controller \/ Age PROVE SInv'
<1> USE Bounds DEF semVars, pageVars, inputVars, startVars, ctrlVars, StartOnly, SGoto
<1>1. CASE CheckLock
  <2>1. /\ (UNCHANGED <<semVal, probe>> \/ ProbePosts(Ctrl))
        /\ spc' \in {[spc EXCEPT ![Ctrl] = "held"], [spc EXCEPT ![Ctrl] = "free"]}
        /\ UNCHANGED <<semName, apc, spawned, tracked, since, active, statePage, mapped, pidPage,
                       playerLock, child, faults>>
    BY <1>1 DEF CheckLock
  <2>2. /\ semVal' \in [Sems -> {0, 1}] /\ probe' \in [Starters -> Sems \union {NoSem}] /\ Probes'
    BY <2>1, PostsSInv DEF SInv, TypeOK, Probes
  <2>3. TypeOK'
    BY <2>1, <2>2 DEF SInv, TypeOK, StartStates
  <2> QED BY <2>1, <2>2, <2>3 DEF SInv, Locks
<1>2. CASE Check \/ StartAlwaysOn \/ Adopt \/ Skip \/ Reclaim \/ ReleaseAbandonedLock \/ Age
  <2> USE DEF Check, StartAlwaysOn, Adopt, Skip, Reclaim, ReleaseAbandonedLock, Age
  <2>1. /\ spc' = spc \/ \E pc \in StartStates : spc' = [spc EXCEPT ![Ctrl] = pc]
        /\ since' \in {since, "none", "fresh", "old"} /\ tracked' \in {tracked, pidPage}
        /\ semName' \in {semName, NoSem}
        /\ UNCHANGED <<semVal, apc, probe, spawned, active, statePage, mapped, pidPage,
                       playerLock, child, faults>>
    BY <1>2 DEF StartStates
  <2> QED BY <2>1 DEF SInv, TypeOK, Probes, Locks
<1> QED BY <1>1, <1>2 DEF Controller

\* Every step keeps SInv
LEMMA NextSInv == ASSUME SInv, [Next]_vars PROVE SInv'
<1>1. CASE RestartCtrl
  <2>1. faults' \in 0 .. MaxFaults
    BY <1>1, CountFault DEF RestartCtrl, SInv, TypeOK
  <2> QED BY <1>1, <2>1 DEF RestartCtrl, SInv, TypeOK, Probes, Locks, semVars, pageVars, inputVars, startVars
<1>2. CASE UNCHANGED vars
  BY <1>2 DEF vars, semVars, pageVars, inputVars, startVars, ctrlVars, SInv, TypeOK, Probes, Locks
<1> QED BY <1>1, <1>2, AngelSInv, ChildSInv, FaultSInv, StarterSInv, ControllerSInv DEF Next

\* Every variable keeps its type: however starters, inputs and the controller
\* interleave, and whoever is killed, SEM_INPUT is never posted above one, so
\* it never lets two inputs by at once
THEOREM StartTypeOK == Spec => []TypeOK
<1>1. Init => SInv
  BY InitSInv
<1>2. SInv /\ [Next]_vars => SInv'
  BY NextSInv
<1>3. SInv => TypeOK
  BY DEF SInv
<1> QED BY <1>1, <1>2, <1>3, PTL DEF Spec

-----------------------------------------------------------------------------
\* One input, when the controller does not start the stream

\* An owner takes no lock: it is the one who has it
LEMMA OwnerHas == ASSUME VInv, NEW i \in Inputs, apc[i] \notin {"none", "open", "trywait"}
                  PROVE  /\ semName \in Sems /\ semVal[semName] = 0 /\ playerLock[i] = semName
                         /\ \A s \in Starters : probe[s] = NoSem
                         /\ \A j \in Inputs : Owns(j) => j = i
BY DEF VInv, SInv, TypeOK, Owner, Owns, Nameless

\* A step that makes no owner, and leaves the semaphores alone
LEMMA NoNewOwner == ASSUME VInv, SInv', UNCHANGED <<semName, semVal, probe>>,
                           \A i \in Inputs :
                               /\ Owns(i)' => Owns(i)
                               /\ apc'[i] = "trywait" => apc[i] = "trywait"
                               /\ (apc'[i] \notin {"none", "open"}) =>
                                     (apc[i] # "none" /\ playerLock'[i] = playerLock[i])
                    PROVE  VInv'
<1>1. \A i \in Inputs : Owns(i)' => apc'[i] # "open"
  BY DEF Owns, SInv, Locks
<1>2. Owner'
  BY <1>1 DEF VInv, Owner
<1>3. Nameless'
  BY DEF VInv, Nameless
<1> QED BY <1>2, <1>3 DEF VInv

\* The angel that has the lock unlinks it and is gone
LEMMA NameGoes == ASSUME VInv, SInv', NEW i \in Inputs, apc[i] \in {"spawn", "unlink"},
                         semName' = NoSem, apc' = [apc EXCEPT ![i] = "none"],
                         playerLock' = [playerLock EXCEPT ![i] = NoSem],
                         UNCHANGED <<semVal, child, probe>>
                  PROVE  VInv'
<1>0. TypeOK /\ Probes /\ Locks /\ Owner /\ Nameless
  BY DEF VInv, SInv
<1>1. /\ semName \in Sems /\ semVal[semName] = 0 /\ \A s \in Starters : probe[s] = NoSem
      /\ \A j \in Inputs : Owns(j) => j = i
  BY OwnerHas
<1>2. \A j \in Inputs : ~Owns(j)'
  BY <1>0, <1>1 DEF Owns, Locks, TypeOK
<1>3. Owner'
  BY <1>2 DEF Owner
<1>4. ASSUME NEW j \in Inputs, apc'[j] = "trywait" PROVE semVal'[playerLock'[j]] = 0
  <2>1. apc[j] = "trywait" /\ playerLock'[j] = playerLock[j]
    BY <1>0, <1>4 DEF TypeOK
  <2> QED BY <1>0, <1>1, <2>1 DEF Nameless
<1>5. Nameless'
  BY <1>1, <1>4 DEF Nameless
<1> QED BY <1>0, <1>3, <1>5 DEF VInv

\* A step of the angel: it opens the lock, takes it, goes without it, has it,
\* or lets it go
LEMMA AngelVInv == ASSUME VInv, SInv', NEW i \in Inputs, Angel(i) PROVE VInv'
<1> USE Bounds DEF semVars, pageVars, inputVars, startVars, ctrlVars, AGoto, CGoto
<1>0. TypeOK /\ Probes /\ Locks /\ Owner /\ Nameless
  BY DEF VInv, SInv
<1>1. CASE OpenLock(i)
  <2>1. /\ semName' \in Sems /\ apc[i] = "open" /\ apc' = [apc EXCEPT ![i] = "trywait"]
        /\ playerLock' = [playerLock EXCEPT ![i] = semName']
        /\ UNCHANGED <<active, pageVars, child, startVars, ctrlVars, faults>>
    BY <1>0, <1>1, OpenedLock DEF OpenLock
  <2>2. \A j \in Inputs : Owns(j)' <=> Owns(j)
    BY <1>0, <2>1 DEF Owns, TypeOK
  <2>3. CASE semName # NoSem /\ UNCHANGED <<semName, semVal>>
    <3>1. Owner'
      BY <1>0, <2>1, <2>2, <2>3 DEF Owner, Locks, TypeOK, Owns
    <3>2. Nameless'
      BY <1>0, <2>1, <2>3 DEF Nameless, TypeOK
    <3> QED BY <1>0, <2>1, <3>1, <3>2 DEF VInv
  <2>4. CASE semName = NoSem /\ FreeSem(semName') /\ semVal' = [semVal EXCEPT ![semName'] = 1]
    <3>1. \A j \in Inputs : ~Owns(j)
      BY <1>0, <2>4 DEF Owner
    <3>2. Owner'
      BY <2>2, <3>1 DEF Owner
    <3>3. ASSUME NEW j \in Inputs, apc'[j] = "trywait", playerLock'[j] # semName'
          PROVE  semVal'[playerLock'[j]] = 0
      <4>1. j # i /\ apc[j] = "trywait" /\ playerLock'[j] = playerLock[j]
        BY <1>0, <2>1, <3>3 DEF TypeOK
      <4>2. playerLock[j] \in Sems /\ playerLock[j] # semName /\ playerLock[j] # semName'
        BY <1>0, <2>4, <4>1, <3>3 DEF Locks, TypeOK
      <4> QED BY <1>0, <2>4, <4>1, <4>2 DEF Nameless, TypeOK
    <3>4. \A s \in Starters : probe'[s] = NoSem
      BY <1>0, <2>1, <2>4 DEF Nameless
    <3>5. Nameless'
      BY <3>3, <3>4 DEF Nameless
    <3> QED BY <1>0, <2>1, <3>2, <3>5 DEF VInv
  <2> QED BY <1>0, <1>1, <2>3, <2>4, OpenedLock
<1>2. CASE TakeLock(i)
  <2>1. /\ apc[i] = "trywait" /\ playerLock[i] \in Sems /\ semVal[playerLock[i]] > 0
        /\ apc' = [apc EXCEPT ![i] = "setinit"]
        /\ UNCHANGED <<active, semName, pageVars, playerLock, child, startVars, ctrlVars, faults>>
    BY <1>0, <1>2 DEF TakeLock, TypeOK, Locks
  <2>2. playerLock[i] = semName /\ semVal[semName] # 0
    BY <1>0, <2>1 DEF Nameless
  <2>3. semVal' = [semVal EXCEPT ![semName] = 0]
    <3>1. semVal' = [semVal EXCEPT ![semName] = semVal[semName] - 1]
      BY <1>2, <2>2 DEF TakeLock
    <3>2. semVal[semName] \in {0, 1}
      BY <1>0, <2>1, <2>2 DEF TypeOK
    <3>3. semVal[semName] - 1 = 0
      BY <2>2, <3>2
    <3> QED BY <3>1, <3>3
  <2>4. \A j \in Inputs : ~Owns(j)
    BY <1>0, <2>2 DEF Owner
  <2>5. \A s \in Starters : probe[s] # semName
    BY <1>0, <2>1, <2>2 DEF Probes
  <2>6. \A j \in Inputs : Owns(j)' => j = i
    BY <1>0, <2>1, <2>4 DEF Owns, TypeOK
  <2>7. Owner'
    BY <1>0, <2>1, <2>2, <2>3, <2>5, <2>6 DEF Owner, TypeOK
  <2>8. Nameless'
    BY <1>0, <2>1, <2>2, <2>3 DEF Nameless, TypeOK
  <2> QED BY <1>0, <2>1, <2>7, <2>8 DEF VInv
<1>3. CASE Refuse(i)
  BY <1>0, <1>3, NoNewOwner DEF Refuse, Owns, TypeOK
<1>4. CASE PublishState(i) \/ PublishPid(i) \/ ClearPid(i) \/ ClearState(i)
  BY <1>0, <1>4, NoNewOwner DEF PublishState, PublishPid, ClearPid, ClearState, Owns, TypeOK
<1>5. CASE SpawnChild(i) \/ ReapClean(i) \/ ReapCrash(i)
  BY <1>0, <1>5, NoNewOwner DEF SpawnChild, ReapClean, ReapCrash, Owns, TypeOK
<1>6. CASE UnlinkLock(i)
  <2>1. /\ apc[i] = "unlink" /\ semName' = NoSem /\ apc' = [apc EXCEPT ![i] = "none"]
        /\ playerLock' = [playerLock EXCEPT ![i] = NoSem]
        /\ UNCHANGED <<active, semVal, pageVars, child, startVars, ctrlVars, faults>>
    BY <1>6 DEF UnlinkLock
  <2> QED BY <1>0, <2>1, NameGoes
<1> QED BY <1>1, <1>2, <1>3, <1>4, <1>5, <1>6 DEF Angel

\* The children, and the faults: nobody becomes an owner
LEMMA ChildVInv == ASSUME VInv, SInv', NEW i \in Inputs,
                          Child(i) \/ ServeEnds(i) \/ KillAngel(i) \/ KillChild(i) \/ SpawnFail(i)
                   PROVE  VInv'
<1> USE Bounds DEF semVars, pageVars, inputVars, startVars, ctrlVars, AGoto, CGoto
<1>0. TypeOK /\ Locks
  BY DEF VInv, SInv
<1>1. CASE Child(i) \/ ServeEnds(i) \/ KillChild(i)
  <2>1. UNCHANGED <<semName, semVal, probe, apc, playerLock>>
    BY <1>1 DEF Child, ChildInit, PreRunFail, Run, RunFail, Serve, ServeEnds, Finish, ChildExit, KillChild, ChildOnly
  <2>2. child[i] # "none" /\ \A j \in Inputs : j # i => child'[j] = child[j]
    BY <1>0, <1>1 DEF Child, ChildInit, PreRunFail, Run, RunFail, Serve, ServeEnds, Finish, ChildExit, KillChild,
                      ChildRuns, TypeOK
  <2>3. \A j \in Inputs : Owns(j)' => Owns(j)
    BY <2>1, <2>2 DEF Owns
  <2> QED BY <1>0, <2>1, <2>3, NoNewOwner
<1>2. CASE KillAngel(i)
  <2>1. /\ apc' = [apc EXCEPT ![i] = "none"] /\ playerLock' = [playerLock EXCEPT ![i] = NoSem]
        /\ child' \in {child, [child EXCEPT ![i] = "none"]}
        /\ UNCHANGED <<semName, semVal, probe>>
    BY <1>2 DEF KillAngel
  <2>2. \A j \in Inputs : Owns(j)' => Owns(j)
    BY <1>0, <2>1 DEF Owns, TypeOK
  <2> QED BY <1>0, <2>1, <2>2, NoNewOwner DEF TypeOK
<1>3. CASE SpawnFail(i)
  <2>1. /\ apc[i] = "spawn" /\ semName' = NoSem /\ apc' = [apc EXCEPT ![i] = "none"]
        /\ playerLock' = [playerLock EXCEPT ![i] = NoSem]
        /\ UNCHANGED <<semVal, child, probe>>
    BY <1>3 DEF SpawnFail
  <2> QED BY <2>1, NameGoes
<1> QED BY <1>1, <1>2, <1>3

\* A starter posts the lock that it took
LEMMA PostsVInv == ASSUME VInv, SInv', NEW s \in Starters, ProbePosts(s), UNCHANGED <<semName, apc, playerLock, child>>
                   PROVE  VInv'
<1>0. TypeOK /\ Probes /\ Locks /\ Owner /\ Nameless
  BY DEF VInv, SInv
<1>1. probe[s] = semName /\ semName # NoSem
  BY <1>0 DEF Nameless, ProbePosts
<1>2. \A i \in Inputs : ~Owns(i)
  BY <1>0, <1>1 DEF Owner
<1>3. Owner'
  BY <1>2 DEF Owner, Owns
<1>4. semVal' = [semVal EXCEPT ![semName] = 1] /\ probe' = [probe EXCEPT ![s] = NoSem]
  BY <1>0, <1>1, PostsSInv DEF ProbePosts
<1>5. Nameless'
  BY <1>0, <1>4 DEF Nameless, TypeOK
<1> QED BY <1>3, <1>5 DEF VInv

\* A starter's look at the lock: it takes one that is free, and gives it back
LEMMA StarterVInv == ASSUME VInv, SInv', NEW s \in Starters, Starter(s) \/ Want(s) PROVE VInv'
<1> USE Bounds DEF semVars, pageVars, inputVars, startVars, ctrlVars, StartOnly, SGoto
<1>0. TypeOK /\ Probes /\ Locks /\ Owner /\ Nameless
  BY DEF VInv, SInv
<1>3. CASE \E at \in {"alive", "await", "last", "check"} : ProbeTakes(s, at)
  <2>1. /\ semName \in Sems /\ semVal[semName] > 0
        /\ semVal' = [semVal EXCEPT ![semName] = semVal[semName] - 1]
        /\ probe' = [probe EXCEPT ![s] = semName]
        /\ UNCHANGED <<semName, apc, playerLock, child>>
    BY <1>0, <1>3 DEF ProbeTakes, TypeOK
  <2>2. \A i \in Inputs : ~Owns(i)
    BY <1>0, <2>1 DEF Owner
  <2>3. Owner'
    BY <2>1, <2>2 DEF Owner, Owns
  <2>4. Nameless'
    BY <1>0, <2>1 DEF Nameless, TypeOK
  <2> QED BY <2>3, <2>4 DEF VInv
<1>4. CASE ProbePosts(s) /\ UNCHANGED <<semName, apc, playerLock, child>>
  BY <1>4, PostsVInv
<1>5. CASE UNCHANGED <<semName, semVal, probe, apc, playerLock, child>>
  <2>1. \A i \in Inputs : Owns(i)' <=> Owns(i)
    BY <1>5 DEF Owns
  <2> QED BY <1>0, <1>5, <2>1, NoNewOwner
<1>6. CASE SpawnInput(s)
  <2>1. PICK i \in Inputs : Unused(i) /\ apc' = [apc EXCEPT ![i] = "open"]
    BY <1>6 DEF SpawnInput, AGoto
  <2>2. UNCHANGED <<semName, semVal, playerLock, child, probe>>
    BY <1>6 DEF SpawnInput
  <2>3. \A j \in Inputs : Owns(j)' => Owns(j)
    BY <1>0, <2>1, <2>2 DEF Owns, Unused, TypeOK
  <2> QED BY <1>0, <2>1, <2>2, <2>3, NoNewOwner DEF TypeOK
<1>7. CASE \/ Want(s) \/ StatusSeen(s) \/ StatusTimeout(s) \/ AliveYes(s) \/ AwaitYes(s) \/ AwaitEnds(s)
           \/ AwaitBoots(s) \/ AwaitAgain(s)
  BY <1>5, <1>7 DEF Want, StatusSeen, StatusTimeout, AliveYes, AwaitYes, AwaitEnds, AwaitBoots, AwaitAgain
<1>8. CASE AliveNo(s) \/ AwaitNo(s) \/ LastLook(s)
  BY <1>4, <1>5, <1>8 DEF AliveNo, AwaitNo, LastLook
<1> QED BY <1>3, <1>6, <1>7, <1>8 DEF Starter

\* The controller's check, but for its release of the lock
LEMMA ControllerVInv == ASSUME VInv, SInv', Controller \/ RestartCtrl \/ Age, ~ReleaseAbandonedLock PROVE VInv'
<1> USE Bounds DEF semVars, pageVars, inputVars, startVars, ctrlVars, StartOnly, SGoto
<1>1. CASE ProbePosts(Ctrl) /\ UNCHANGED <<semName, apc, playerLock, child>>
  BY <1>1, PostsVInv
<1>2. CASE UNCHANGED <<semName, semVal, probe, apc, playerLock, child>>
  <2>1. \A i \in Inputs : Owns(i)' <=> Owns(i)
    BY <1>2 DEF Owns
  <2> QED BY <1>2, <2>1, NoNewOwner
<1> QED BY <1>1, <1>2 DEF Controller, Check, CheckLock, StartAlwaysOn, Adopt, Skip, Reclaim, RestartCtrl, Age

\* The controller does nothing: it is not active
LEMMA NoController == ASSUME SInv, Ctrl \notin active, spc[Ctrl] = "none", [Next]_vars
                      PROVE  ~Controller /\ ~RestartCtrl /\ spc'[Ctrl] = "none"
<1> USE Bounds DEF semVars, pageVars, inputVars, startVars, ctrlVars, SGoto
<1>1. ~Controller /\ ~RestartCtrl
  BY DEF Controller, Check, CheckLock, StartAlwaysOn, Adopt, Skip, Served, Unadopted, Reclaim,
         ReleaseAbandonedLock, RestartCtrl
<1>2. ASSUME NEW s \in Starters, Starter(s) \/ Want(s) PROVE spc'[Ctrl] = "none"
  <2>1. s # Ctrl
    BY <1>2 DEF Starter, StatusSeen, StatusTimeout, ProbeTakes, AliveNo, AliveYes, SpawnInput, AwaitYes, AwaitNo,
                AwaitEnds, AwaitBoots, AwaitAgain, LastLook, Want
  <2> QED BY <1>2, <2>1 DEF Starter, StatusSeen, StatusTimeout, ProbeTakes, AliveNo, AliveYes, SpawnInput, AwaitYes,
                            AwaitNo, AwaitEnds, AwaitBoots, AwaitAgain, LastLook, Want, Return, SInv, TypeOK
<1>3. ASSUME NEW i \in Inputs, Angel(i) \/ Child(i) \/ ServeEnds(i) \/ SpawnFail(i) \/ KillAngel(i) \/ KillChild(i)
      PROVE  UNCHANGED spc
  BY <1>3 DEF Angel, OpenLock, TakeLock, Refuse, PublishState, PublishPid, SpawnChild, ReapClean, ReapCrash, ClearPid,
              ClearState, UnlinkLock, Child, ChildInit, PreRunFail, Run, RunFail, Serve, ServeEnds, Finish, ChildExit,
              ChildOnly, SpawnFail, KillAngel, KillChild
<1>4. CASE Age \/ UNCHANGED vars
  BY <1>1, <1>4 DEF Age, vars
<1> QED BY <1>1, <1>2, <1>3, <1>4 DEF Next

\* Every step keeps VInv but the controller's release of the lock
LEMMA NextVInv == ASSUME VInv, [Next]_vars, ~ReleaseAbandonedLock PROVE VInv'
<1>1. SInv'
  BY NextSInv DEF VInv
<1>2. CASE UNCHANGED vars
  <2>1. UNCHANGED <<semName, semVal, probe, apc, playerLock, child>>
    BY <1>2 DEF vars, semVars, inputVars, startVars
  <2>2. \A i \in Inputs : Owns(i)' <=> Owns(i)
    BY <2>1 DEF Owns
  <2> QED BY <1>1, <2>1, <2>2, NoNewOwner
<1> QED BY <1>1, <1>2, AngelVInv, ChildVInv, StarterVInv, ControllerVInv DEF Next

\* An input that serves is an owner, and there is one owner
LEMMA OwnerServes == VInv => OneInput
BY DEF VInv, Owner, Owns, Serving, OneInput

\* "caught in the inputs initializer": when only viewers start the stream, no
\* two inputs serve it, however many of them raced to start it, whichever angel
\* or child is killed and whichever fork fails.  (With an always-on stream it is
\* the controller that may take the lock's name away.)
THEOREM StartOneInput == ASSUME \A S \in Settings : Ctrl \notin S
                         PROVE  Spec => []OneInput
<1> DEFINE Inv == VInv /\ Ctrl \notin active /\ spc[Ctrl] = "none"
<1>1. Init => Inv
  <2> SUFFICES ASSUME Init PROVE Inv OBVIOUS
  <2>1. SInv
    BY InitSInv
  <2> QED BY <2>1, Bounds DEF Init, VInv, Owner, Owns, Nameless
<1>2. Inv /\ [Next]_vars => Inv'
  <2> SUFFICES ASSUME Inv, [Next]_vars PROVE Inv' OBVIOUS
  <2>1. ~Controller /\ spc'[Ctrl] = "none"
    BY NoController DEF VInv
  <2>2. VInv'
    BY <2>1, NextVInv DEF Controller
  <2>3. Ctrl \notin active'
    BY <2>2 DEF VInv, SInv, TypeOK
  <2> QED BY <2>1, <2>2, <2>3
<1>3. Inv => OneInput
  BY OwnerServes
<1> QED BY <1>1, <1>2, <1>3, PTL DEF Spec

-----------------------------------------------------------------------------
\* What inputs leave behind that end by themselves

\* The controller starts a stream alone, or not at all
AloneOrNot == \A S \in Settings : Ctrl \in S => S = {Ctrl}

\* What NInv says while nothing failed
NParts == VInv /\ Paired /\ Cleared /\ Stages /\ Knows

\* An angel's step: the pages are made by who has the lock, and are gone before it is
LEMMA AngelNInv == ASSUME NParts, VInv', NEW i \in Inputs, Angel(i) PROVE NParts'
<1> USE Bounds DEF semVars, pageVars, inputVars, startVars, ctrlVars, AGoto, CGoto
<1>0. VInv /\ Paired /\ Cleared /\ Stages /\ Knows /\ TypeOK /\ Locks /\ Owner
  BY DEF NParts, VInv, SInv
<1>1. /\ apc[i] # "none" /\ \A j \in Inputs : j # i => apc'[j] = apc[j] /\ child'[j] = child[j]
      /\ UNCHANGED <<active, spc, probe, spawned, tracked>>
  BY <1>0 DEF Angel, OpenLock, TakeLock, Refuse, PublishState, PublishPid, SpawnChild, ReapClean, ReapCrash, ClearPid,
              ClearState, UnlinkLock, TypeOK
<1>2. Knows'
  BY <1>0, <1>1 DEF Knows
<1>3. Paired'
  <2>1. child'[i] # "none" => apc'[i] = "wait"
    BY <1>0 DEF Angel, OpenLock, TakeLock, Refuse, PublishState, PublishPid, SpawnChild, ReapClean, ReapCrash, ClearPid,
                ClearState, UnlinkLock, TypeOK, Paired
  <2> QED BY <1>0, <1>1, <2>1 DEF Paired
<1>4. CASE OpenLock(i) \/ Refuse(i)
  <2>1. /\ apc[i] \in {"open", "trywait"} /\ apc'[i] \in {"trywait", "none"} /\ UNCHANGED <<child, statePage, pidPage>>
    BY <1>0, <1>4 DEF OpenLock, Refuse, TypeOK
  <2>2. \A j \in Inputs : Owns(j)' <=> Owns(j)
    BY <1>1, <2>1 DEF Owns
  <2>3. semName' # NoSem => (semVal'[semName'] = 1 \/ (semName' = semName /\ UNCHANGED semVal))
    BY <1>0, <1>4, OpenedLock DEF Refuse, TypeOK
  <2>4. Cleared'
    BY <1>0, <1>1, <2>1, <2>2, <2>3 DEF Cleared
  <2>5. Stages'
    BY <1>0, <1>1, <2>1 DEF Stages
  <2> QED BY <1>2, <1>3, <2>4, <2>5 DEF NParts
<1>5. CASE TakeLock(i)
  <2>1. /\ apc[i] = "trywait" /\ apc'[i] = "setinit" /\ UNCHANGED <<semName, statePage, pidPage>>
    BY <1>0, <1>5 DEF TakeLock, TypeOK
  <2>2. Owns(i)' /\ \A j \in Inputs : Owns(j)' => j = i
    BY <2>1 DEF Owns, VInv, Owner
  <2>3. \A j \in Inputs : ~Owns(j)
    BY <1>0, <1>1, <2>1, <2>2 DEF Owns, Locks
  <2>4. statePage = "absent" /\ pidPage = None
    BY <1>0, <2>3 DEF Cleared
  <2>5. Stages'
    BY <2>1, <2>4 DEF Stages
  <2> QED BY <1>2, <1>3, <2>2, <2>5 DEF NParts, Cleared
<1>6. CASE \/ PublishState(i) \/ PublishPid(i) \/ SpawnChild(i) \/ ReapClean(i) \/ ReapCrash(i) \/ ClearPid(i)
           \/ ClearState(i)
  <2>1. apc[i] \notin {"none", "open", "trywait"} /\ apc'[i] \notin {"none", "open", "trywait"}
    BY <1>0, <1>6 DEF PublishState, PublishPid, SpawnChild, ReapClean, ReapCrash, ClearPid, ClearState, TypeOK
  <2>2. Owns(i)' /\ \A j \in Inputs : j # i => apc'[j] \in {"none", "open", "trywait"}
    BY <2>1 DEF Owns, VInv, Owner
  <2>3. /\ apc'[i] \in {"setinit", "setpid", "clearstate", "unlink"} => pidPage' = None
        /\ apc'[i] \in {"setinit", "unlink"} => statePage' = "absent"
    BY <1>0, <1>6 DEF PublishState, PublishPid, SpawnChild, ReapClean, ReapCrash, ClearPid, ClearState, UnlinkStatePage,
                      Stages, TypeOK
  <2>4. Stages'
    BY <2>2, <2>3 DEF Stages
  <2> QED BY <1>2, <1>3, <2>2, <2>4 DEF NParts, Cleared
<1>7. CASE UnlinkLock(i)
  <2>1. /\ apc[i] = "unlink" /\ apc'[i] = "none" /\ semName' = NoSem /\ UNCHANGED <<statePage, pidPage>>
    BY <1>0, <1>7 DEF UnlinkLock, TypeOK
  <2>2. statePage' = "absent" /\ pidPage' = None
    BY <1>0, <2>1 DEF Stages
  <2> QED BY <1>2, <1>3, <2>1, <2>2 DEF NParts, Cleared, Stages
<1> QED BY <1>4, <1>5, <1>6, <1>7 DEF Angel

\* A child's step: its angel waits for it, and has the lock
LEMMA ChildNInv == ASSUME NParts, VInv', NEW i \in Inputs, Child(i) \/ ServeEnds(i) PROVE NParts'
<1> USE Bounds DEF semVars, pageVars, inputVars, startVars, ctrlVars, CGoto
<1>0. VInv /\ Paired /\ Knows /\ TypeOK
  BY DEF NParts, VInv, SInv
<1>1. /\ child[i] # "none" /\ \A j \in Inputs : j # i => child'[j] = child[j]
      /\ UNCHANGED <<active, apc, spc, probe, spawned, tracked>>
  BY <1>0 DEF Child, ChildInit, PreRunFail, Run, RunFail, Serve, ServeEnds, Finish, ChildExit, ChildOnly, TypeOK
<1>2. apc'[i] = "wait"
  BY <1>0, <1>1 DEF Paired
<1>3. Owns(i)' /\ \A j \in Inputs : Owns(j)' => j = i
  BY <1>2 DEF Owns, VInv, Owner
<1>4. Paired' /\ Knows'
  BY <1>0, <1>1, <1>2 DEF Paired, Knows
<1>5. Cleared'
  BY <1>3 DEF Cleared
<1>6. Stages'
  <2>1. \A j \in Inputs : j # i => apc'[j] \in {"none", "open", "trywait"}
    BY <1>3 DEF Owns
  <2> QED BY <1>2, <2>1 DEF Stages
<1> QED BY <1>4, <1>5, <1>6 DEF NParts

\* A step of a starter, or of the controller's check: the pages stay, a semaphore that was taken
\* from the name is posted there
LEMMA LookNInv == ASSUME NParts, NEW s \in Starters, Knows',
                         \/ \E at \in {"alive", "await", "last", "check"} : ProbeTakes(s, at)
                         \/ probe[s] # NoSem /\ ProbePosts(s) /\ UNCHANGED semName
                         \/ probe[s] = NoSem /\ UNCHANGED <<semName, semVal, probe>>,
                         VInv', UNCHANGED <<statePage, pidPage, apc, child>>,
                         \A u \in Starters : u # s => spc'[u] = spc[u],
                         probe'[s] # NoSem => spc'[s] \in {"alivepost", "awaitpost", "lastpost", "checkpost"}
                  PROVE  NParts'
<1> USE Bounds
<1>0. VInv /\ Paired /\ Cleared /\ Stages /\ TypeOK /\ Probes /\ Nameless
  BY DEF NParts, VInv, SInv
<1>1. \A u \in Starters : u # s => probe'[u] = probe[u]
  BY <1>0 DEF ProbeTakes, ProbePosts, TypeOK
<1>2. Paired'
  BY <1>0, <1>1 DEF Paired
<1>3. Stages'
  BY <1>0 DEF Stages
<1>4. \A i \in Inputs : Owns(i)' <=> Owns(i)
  BY DEF Owns
<1>5. semName' = semName
  BY DEF ProbeTakes
<1>6. ASSUME semName # NoSem, semVal[semName] = 1 \/ \E u \in Starters : probe[u] = semName
      PROVE  semVal'[semName] = 1 \/ \E u \in Starters : probe'[u] = semName
  <2>1. CASE \E at \in {"alive", "await", "last", "check"} : ProbeTakes(s, at)
    BY <1>0, <2>1 DEF ProbeTakes, TypeOK
  <2>2. CASE probe[s] # NoSem /\ ProbePosts(s)
    <3>1. probe[s] = semName /\ semName \in Sems
      BY <1>0, <2>2 DEF Nameless, TypeOK
    <3>2. semVal' = [semVal EXCEPT ![semName] = 1]
      BY <1>0, <2>2, <3>1, PostsSInv
    <3> QED BY <1>0, <3>1, <3>2 DEF TypeOK
  <2> QED BY <1>6, <2>1, <2>2
<1>7. Cleared'
  BY <1>0, <1>4, <1>5, <1>6 DEF Cleared
<1> QED BY <1>2, <1>3, <1>7 DEF NParts

\* Where the controller starts the stream it is the only one who does
LEMMA OnlyCtrl == ASSUME AloneOrNot, NParts, Ctrl \in active, NEW s \in Starters, Starter(s) \/ Want(s)
                  PROVE  s = Ctrl /\ ~Want(s)
<1>1. active = {Ctrl}
  BY DEF AloneOrNot, NParts, VInv, SInv, TypeOK
<1>2. \A v \in Viewers : spc[v] = "none" /\ probe[v] = NoSem
  BY Bounds DEF NParts, Knows, Paired, Starters
<1> QED BY <1>1, <1>2 DEF Starter, StatusSeen, StatusTimeout, ProbeTakes, AliveNo, AliveYes, SpawnInput, AwaitYes, AwaitNo,
                          AwaitEnds, AwaitBoots, AwaitAgain, LastLook, Want, Starters

\* The controller goes on, or returns: it knows the input it spawned, and remembers it
LEMMA CtrlKnows == ASSUME AloneOrNot, NParts, Ctrl \in active, Starter(Ctrl) PROVE Knows'
<1> USE Bounds DEF semVars, pageVars, inputVars, startVars, ctrlVars, StartOnly, SGoto
<1> DEFINE Spawned == {"await", "awaitpost", "polled", "last", "lastpost"}
<1>0. Knows /\ TypeOK /\ Ctrl \notin Viewers
  BY DEF NParts, VInv, SInv
<1>1. /\ \A v \in Viewers : spc[v] = "none"
      /\ \A i \in Inputs : apc[i] # "none" => \/ spc[Ctrl] = "none" /\ tracked = i
                                              \/ spc[Ctrl] \in Spawned /\ spawned[Ctrl] = i
  BY <1>0 DEF Knows
<1>2. ASSUME NEW pc \in StartStates, spc' = [spc EXCEPT ![Ctrl] = pc], UNCHANGED <<active, apc, spawned>>,
             spc[Ctrl] # "none", spc[Ctrl] \in Spawned => pc \in Spawned
      PROVE  Knows'
  <2>1. \A v \in Viewers : spc'[v] = "none"
    BY <1>0, <1>1, <1>2 DEF TypeOK
  <2>2. \A i \in Inputs : apc'[i] # "none" => spc'[Ctrl] \in Spawned /\ spawned'[Ctrl] = i
    BY <1>0, <1>1, <1>2 DEF TypeOK
  <2> QED BY <1>2, <2>1, <2>2 DEF Knows
<1>3. ASSUME Return(Ctrl), UNCHANGED <<active, apc>>, spc[Ctrl] # "none" PROVE Knows'
  <2>1. spc' = [spc EXCEPT ![Ctrl] = "none"] /\ (spawned[Ctrl] # None => tracked' = spawned[Ctrl])
    BY <1>3 DEF Return
  <2>2. \A v \in Viewers : spc'[v] = "none"
    BY <1>0, <1>1, <2>1 DEF TypeOK
  <2>3. \A i \in Inputs : apc'[i] # "none" => spc'[Ctrl] = "none" /\ tracked' = i
    BY <1>0, <1>1, <1>3, <2>1 DEF TypeOK
  <2> QED BY <1>3, <2>2, <2>3 DEF Knows
<1>4. CASE StatusSeen(Ctrl) \/ StatusTimeout(Ctrl) \/ AwaitEnds(Ctrl) \/ AwaitAgain(Ctrl) \/ AliveNo(Ctrl) \/ AwaitNo(Ctrl)
  <2>1. \E pc \in StartStates : /\ spc' = [spc EXCEPT ![Ctrl] = pc] /\ spc[Ctrl] # "none"
                                /\ spc[Ctrl] \in Spawned => pc \in Spawned
    BY <1>4 DEF StatusSeen, StatusTimeout, AwaitEnds, AwaitAgain, AliveNo, AwaitNo, StartStates
  <2>2. UNCHANGED <<active, apc, spawned>>
    BY <1>4 DEF StatusSeen, StatusTimeout, AwaitEnds, AwaitAgain, AliveNo, AwaitNo
  <2> QED BY <1>2, <2>1, <2>2
<1>5. CASE \E at \in {"alive", "await", "last", "check"} : ProbeTakes(Ctrl, at)
  <2>1. PICK at \in {"alive", "await", "last", "check"} : ProbeTakes(Ctrl, at)
    BY <1>5
  <2>2. \E pc \in StartStates : /\ spc' = [spc EXCEPT ![Ctrl] = pc]
                                /\ at \in Spawned => pc \in Spawned
    <3>1. CASE at = "alive"
      BY <2>1, <3>1 DEF ProbeTakes, StartStates
    <3>2. CASE at = "await"
      BY <2>1, <3>2 DEF ProbeTakes, StartStates
    <3>3. CASE at = "last"
      BY <2>1, <3>3 DEF ProbeTakes, StartStates
    <3>4. CASE at = "check"
      BY <2>1, <3>4 DEF ProbeTakes, StartStates
    <3> QED BY <3>1, <3>2, <3>3, <3>4
  <2>3. spc[Ctrl] = at /\ spc[Ctrl] # "none" /\ UNCHANGED <<active, apc, spawned>>
    BY <2>1 DEF ProbeTakes
  <2> QED BY <1>2, <2>2, <2>3
<1>6. CASE AliveYes(Ctrl) \/ AwaitYes(Ctrl) \/ AwaitBoots(Ctrl) \/ LastLook(Ctrl)
  BY <1>3, <1>6 DEF AliveYes, AwaitYes, AwaitBoots, LastLook
<1>7. CASE SpawnInput(Ctrl)
  <2>1. PICK i \in Inputs : apc' = [apc EXCEPT ![i] = "open"] /\ spawned' = [spawned EXCEPT ![Ctrl] = i]
    BY <1>7 DEF SpawnInput, AGoto
  <2>2. spc[Ctrl] = "spawn" /\ spc' = [spc EXCEPT ![Ctrl] = "await"] /\ UNCHANGED active
    BY <1>7 DEF SpawnInput
  <2>3. \A j \in Inputs : apc[j] = "none"
    BY <1>1, <2>2
  <2>4. \A v \in Viewers : spc'[v] = "none"
    BY <1>0, <1>1, <2>2 DEF TypeOK
  <2>5. \A j \in Inputs : apc'[j] # "none" => spc'[Ctrl] = "await" /\ spawned'[Ctrl] = j
    BY <1>0, <2>1, <2>2, <2>3 DEF TypeOK
  <2> QED BY <2>2, <2>4, <2>5 DEF Knows
<1> QED BY <1>4, <1>5, <1>6, <1>7 DEF Starter

\* A starter's step
LEMMA StarterNInv == ASSUME AloneOrNot, NParts, VInv', NEW s \in Starters, Starter(s) \/ Want(s) PROVE NParts'
<1> USE Bounds DEF semVars, pageVars, inputVars, startVars, ctrlVars, StartOnly, SGoto
<1>0. VInv /\ Paired /\ Cleared /\ Stages /\ TypeOK /\ Probes /\ SInv
  BY DEF NParts, VInv, SInv
<1>1. Knows'
  <2>1. CASE Ctrl \in active
    BY <2>1, OnlyCtrl, CtrlKnows
  <2>2. CASE Ctrl \notin active
    <3>1. spc[Ctrl] = "none" /\ [Next]_vars
      BY <2>2 DEF NParts, Knows, Next
    <3>2. spc'[Ctrl] = "none"
      BY <1>0, <2>2, <3>1, NoController
    <3>3. active' = active
      BY DEF Starter, StatusSeen, StatusTimeout, ProbeTakes, AliveNo, AliveYes, SpawnInput, AwaitYes, AwaitNo, AwaitEnds,
             AwaitBoots, AwaitAgain, LastLook, Want
    <3> QED BY <2>2, <3>2, <3>3 DEF Knows
  <2> QED BY <2>1, <2>2
<1>2. CASE SpawnInput(s)
  <2>1. PICK i \in Inputs : Unused(i) /\ apc' = [apc EXCEPT ![i] = "open"] /\ pidPage' = Forget(i, pidPage)
    BY <1>2 DEF SpawnInput, AGoto
  <2>2. spc[s] = "spawn" /\ spc' = [spc EXCEPT ![s] = "await"] /\ UNCHANGED <<semName, semVal, statePage, child, probe>>
    BY <1>2 DEF SpawnInput
  <2>3. pidPage = None => pidPage' = None
    BY <2>1 DEF Forget
  <2>4. \A j \in Inputs : Owns(j)' <=> Owns(j)
    BY <1>0, <2>1, <2>2 DEF Owns, Unused, TypeOK
  <2>5. Paired'
    BY <1>0, <2>1, <2>2 DEF Paired, Unused, TypeOK
  <2>6. Cleared'
    BY <1>0, <2>2, <2>3, <2>4 DEF Cleared
  <2>7. Stages'
    BY <1>0, <2>1, <2>2, <2>3 DEF Stages, TypeOK
  <2> QED BY <1>1, <2>5, <2>6, <2>7 DEF NParts
<1>3. CASE \E at \in {"alive", "await", "last", "check"} : ProbeTakes(s, at)
  <2>1. PICK at \in {"alive", "await", "last", "check"} : ProbeTakes(s, at)
    BY <1>3
  <2>2. /\ UNCHANGED <<statePage, pidPage, apc, child>> /\ \A u \in Starters : u # s => spc'[u] = spc[u]
        /\ spc'[s] \in {"alivepost", "awaitpost", "lastpost", "checkpost"}
    BY <1>0, <2>1 DEF ProbeTakes, TypeOK
  <2> QED BY <1>1, <1>3, <2>2, LookNInv
<1>4. CASE AliveNo(s) \/ AwaitNo(s) \/ LastLook(s)
  <2>1. /\ UNCHANGED <<semName, statePage, pidPage, apc, child>> /\ \A u \in Starters : u # s => spc'[u] = spc[u]
        /\ \/ ProbePosts(s)
           \/ spc[s] \in {"alive", "await", "last"} /\ UNCHANGED <<semVal, probe>>
    BY <1>0, <1>4 DEF AliveNo, AwaitNo, LastLook, Return, TypeOK
  <2>2. \/ probe[s] # NoSem /\ ProbePosts(s)
        \/ probe[s] = NoSem /\ UNCHANGED <<semName, semVal, probe>>
    <3>1. spc[s] \in {"alive", "await", "last"} => probe[s] = NoSem
      BY <1>0 DEF Paired
    <3>2. ProbePosts(s) => probe[s] # NoSem
      BY DEF ProbePosts
    <3> QED BY <2>1, <3>1, <3>2
  <2>3. probe'[s] = NoSem
    BY <1>0, <2>2 DEF ProbePosts, TypeOK
  <2> QED BY <1>1, <2>1, <2>2, <2>3, LookNInv
<1>5. CASE \/ Want(s) \/ StatusSeen(s) \/ StatusTimeout(s) \/ AliveYes(s) \/ AwaitYes(s) \/ AwaitEnds(s)
           \/ AwaitBoots(s) \/ AwaitAgain(s)
  <2>1. /\ UNCHANGED <<semName, semVal, probe, statePage, pidPage, apc, child>>
        /\ \A u \in Starters : u # s => spc'[u] = spc[u]
        /\ spc[s] \notin {"alivepost", "awaitpost", "lastpost", "checkpost"}
    BY <1>0, <1>5 DEF Want, StatusSeen, StatusTimeout, AliveYes, AwaitYes, AwaitEnds, AwaitBoots, AwaitAgain, Return, TypeOK
  <2>2. probe[s] = NoSem
    BY <1>0, <2>1 DEF Paired
  <2> QED BY <1>1, <2>1, <2>2, LookNInv
<1> QED BY <1>2, <1>3, <1>4, <1>5 DEF Starter

\* The controller's check: while it checks there is no input, so the lock it finds is not taken,
\* and it takes none away
LEMMA ControllerNInv == ASSUME AloneOrNot, NParts, SInv', Controller \/ Age PROVE NParts' /\ UNCHANGED faults
<1> USE Bounds DEF semVars, pageVars, inputVars, startVars, ctrlVars, StartOnly, SGoto
<1>0. VInv /\ Paired /\ Cleared /\ Stages /\ Knows /\ TypeOK /\ Ctrl \notin Viewers
  BY DEF NParts, VInv, SInv
<1>1. UNCHANGED <<active, statePage, pidPage, apc, child, faults>> /\ \A u \in Starters : u # Ctrl => spc'[u] = spc[u]
  BY <1>0 DEF Controller, Check, CheckLock, StartAlwaysOn, Adopt, Skip, Reclaim, ReleaseAbandonedLock, Age, TypeOK
<1>2. CASE Age
  <2>1. VInv'
    BY <1>0, <1>2, ControllerVInv DEF Age, ReleaseAbandonedLock
  <2>2. Knows'
    BY <1>0, <1>2 DEF Knows, Age
  <2>3. Paired' /\ Cleared' /\ Stages'
    BY <1>0, <1>2 DEF Paired, Cleared, Stages, Owns, Age
  <2> QED BY <1>1, <2>1, <2>2, <2>3 DEF NParts
<1>3. CASE Controller
  <2>1. Ctrl \in active
    BY <1>0, <1>3 DEF Knows, Controller, Check, CheckLock, StartAlwaysOn, Adopt, Skip, Served, Unadopted, Reclaim,
                      ReleaseAbandonedLock
  <2>2. /\ \A v \in Viewers : spc[v] = "none" /\ probe[v] = NoSem
        /\ \A i \in Inputs : apc[i] # "none" => \/ spc[Ctrl] = "none" /\ tracked = i
                                                \/ /\ spc[Ctrl] \in {"await", "awaitpost", "polled", "last", "lastpost"}
                                                   /\ spawned[Ctrl] = i
    BY <1>0, <2>1 DEF Knows, Paired, Starters
  <2>3. /\ spc[Ctrl] \in {"none", "check", "checkpost", "free", "held", "reclaim"}
        /\ \/ spc' = spc /\ tracked' = tracked
           \/ \A i \in Inputs : apc[i] = "none"
    BY <1>3, <2>2 DEF Controller, Check, CheckLock, StartAlwaysOn, Adopt, Skip, Served, Unadopted, Reclaim,
                      ReleaseAbandonedLock, isRunning
  <2>4. \A v \in Viewers : spc'[v] = "none"
    BY <1>0, <1>1, <2>2 DEF Starters
  <2>5. Knows'
    BY <1>1, <2>1, <2>2, <2>3, <2>4 DEF Knows
  <2>6. spc[Ctrl] = "reclaim" => ~StreamAlive
    <3>1. SUFFICES ASSUME spc[Ctrl] = "reclaim", semName # NoSem PROVE semVal[semName] = 1
      BY DEF StreamAlive
    <3>2. \A i \in Inputs : ~Owns(i)
      BY <1>0, <2>2, <3>1 DEF Owns, Paired
    <3>3. probe[Ctrl] = NoSem
      BY <1>0, <3>1 DEF Paired
    <3> QED BY <1>0, <2>2, <3>1, <3>2, <3>3 DEF Cleared, Starters
  <2>7. \/ probe[Ctrl] # NoSem /\ ProbePosts(Ctrl) /\ UNCHANGED semName
        \/ probe[Ctrl] = NoSem /\ UNCHANGED <<semName, semVal, probe>>
    <3>1. UNCHANGED semName
      BY <1>3, <2>6 DEF Controller, Check, CheckLock, StartAlwaysOn, Adopt, Skip, Reclaim, ReleaseAbandonedLock
    <3>2. \/ ProbePosts(Ctrl)
          \/ spc[Ctrl] \in {"none", "check", "free", "held", "reclaim"} /\ UNCHANGED <<semVal, probe>>
      BY <1>3 DEF Controller, Check, CheckLock, StartAlwaysOn, Adopt, Skip, Served, Unadopted, Reclaim, ReleaseAbandonedLock
    <3>3. spc[Ctrl] \in {"none", "check", "free", "held", "reclaim"} => probe[Ctrl] = NoSem
      BY <1>0 DEF Paired
    <3>4. ProbePosts(Ctrl) => probe[Ctrl] # NoSem
      BY DEF ProbePosts
    <3> QED BY <3>1, <3>2, <3>3, <3>4
  <2>8. probe'[Ctrl] = NoSem
    BY <1>0, <2>7 DEF ProbePosts, TypeOK
  <2>9. VInv'
    <3>1. CASE ReleaseAbandonedLock
      <4>1. UNCHANGED <<semName, semVal, probe, apc, playerLock, child>>
        BY <2>6, <3>1 DEF ReleaseAbandonedLock
      <4>2. \A i \in Inputs : Owns(i)' <=> Owns(i)
        BY <4>1 DEF Owns
      <4> QED BY <1>0, <4>1, <4>2, NoNewOwner
    <3>2. CASE ~ReleaseAbandonedLock
      BY <1>0, <1>3, <3>2, ControllerVInv
    <3> QED BY <3>1, <3>2
  <2> QED BY <1>1, <2>5, <2>7, <2>8, <2>9, LookNInv
<1> QED BY <1>2, <1>3

\* Every step keeps NInv; a fault ends what it says
LEMMA NextNInv == ASSUME AloneOrNot, NInv, [Next]_vars PROVE NInv'
<1> USE Bounds DEF semVars, pageVars, inputVars, startVars, ctrlVars
<1>0. SInv /\ SInv' /\ faults \in Nat
  BY NextSInv DEF NInv, SInv, TypeOK
<1> SUFFICES ASSUME faults' = 0 PROVE NParts'
  BY <1>0 DEF NInv, NParts, VInv
<1>1. CASE \E i \in Inputs : SpawnFail(i) \/ KillAngel(i) \/ KillChild(i)
  BY <1>0, <1>1 DEF SpawnFail, KillAngel, KillChild
<1>2. CASE RestartCtrl
  BY <1>0, <1>2 DEF RestartCtrl
<1>3. faults = 0 => NParts
  BY DEF NInv, NParts, VInv
<1>4. ASSUME NEW i \in Inputs, Angel(i) \/ Child(i) \/ ServeEnds(i) PROVE NParts'
  <2>1. faults = 0
    BY <1>4 DEF Angel, OpenLock, TakeLock, Refuse, PublishState, PublishPid, SpawnChild, ReapClean, ReapCrash, ClearPid,
                ClearState, UnlinkLock, Child, ChildInit, PreRunFail, Run, RunFail, Serve, ServeEnds, Finish, ChildExit,
                ChildOnly
  <2>2. NParts /\ VInv
    BY <1>3, <2>1 DEF NParts
  <2>3. VInv'
    BY <1>0, <1>4, <2>2, AngelVInv, ChildVInv
  <2> QED BY <1>4, <2>2, <2>3, AngelNInv, ChildNInv
<1>5. ASSUME NEW s \in Starters, Starter(s) \/ Want(s) PROVE NParts'
  <2>1. faults = 0
    BY <1>5 DEF Starter, StatusSeen, StatusTimeout, ProbeTakes, AliveNo, AliveYes, SpawnInput, AwaitYes, AwaitNo, AwaitEnds,
                AwaitBoots, AwaitAgain, LastLook, Want, StartOnly
  <2>2. NParts /\ VInv
    BY <1>3, <2>1 DEF NParts
  <2>3. VInv'
    BY <1>0, <1>5, <2>2, StarterVInv
  <2> QED BY <1>5, <2>2, <2>3, StarterNInv
<1>6. CASE Controller \/ Age
  <2>1. faults = 0
    BY <1>6 DEF Controller, Check, CheckLock, StartAlwaysOn, Adopt, Skip, Reclaim, ReleaseAbandonedLock, Age, StartOnly
  <2> QED BY <1>0, <1>3, <1>6, <2>1, ControllerNInv
<1>7. CASE UNCHANGED vars
  <2>1. NParts
    BY <1>3, <1>7 DEF vars
  <2>2. VInv'
    <3>1. UNCHANGED <<semName, semVal, probe, apc, playerLock, child>>
      BY <1>7 DEF vars
    <3>2. \A i \in Inputs : Owns(i)' <=> Owns(i)
      BY <3>1 DEF Owns
    <3> QED BY <1>0, <2>1, <3>1, <3>2, NoNewOwner DEF NParts
  <2> QED BY <1>7, <2>1, <2>2 DEF vars, NParts, Paired, Cleared, Stages, Knows, Owns
<1> QED BY <1>1, <1>2, <1>4, <1>5, <1>6, <1>7 DEF Next

\* NInv holds in every state
LEMMA NoFaultsInvariant == ASSUME AloneOrNot PROVE Spec => []NInv
<1>1. Init => NInv
  <2> SUFFICES ASSUME Init PROVE NInv OBVIOUS
  <2>1. SInv
    BY InitSInv
  <2>2. Owner /\ Nameless /\ Paired
    BY Bounds DEF Init, Owner, Owns, Nameless, Paired
  <2>3. Cleared /\ Stages /\ Knows
    BY Bounds DEF Init, Cleared, Stages, Knows, Starters
  <2> QED BY <2>1, <2>2, <2>3 DEF NInv
<1>2. NInv /\ [Next]_vars => NInv'
  BY NextNInv
<1> QED BY <1>1, <1>2, PTL DEF Spec

\* Inputs that end by themselves leave nothing that a starter takes for a stream that is served:
\* no state, no pid, no semaphore that is taken; for any inputs and viewers, or the controller
\* alone.
THEOREM StartNothingLeft == ASSUME AloneOrNot PROVE Spec => []NothingLeft
<1>1. NInv => NothingLeft
  <2> SUFFICES ASSUME NInv, Resting, faults = 0 PROVE statePage = "absent" /\ pidPage = None /\ ~StreamAlive
    BY DEF NothingLeft
  <2>1. \A i \in Inputs : ~Owns(i)
    BY Bounds DEF NInv, Paired, Resting, Nobody, isRunning, Owns, SInv, TypeOK
  <2>2. \A s \in Starters : probe[s] = NoSem
    BY DEF NInv, Paired, Resting
  <2> QED BY <2>1, <2>2 DEF NInv, Cleared, StreamAlive
<1> QED BY <1>1, NoFaultsInvariant, PTL

\* As long as nothing fails no two inputs serve a stream that the controller alone starts either:
\* a check of its finds no input to take the lock from
THEOREM StartOneInputNoFaults == ASSUME AloneOrNot PROVE Spec => [](faults = 0 => OneInput)
<1>1. NInv => (faults = 0 => OneInput)
  BY OwnerServes DEF NInv, VInv
<1> QED BY <1>1, NoFaultsInvariant, PTL
=============================================================================
