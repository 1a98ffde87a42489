-------------------------- MODULE SessionBootProofs --------------------------
(***************************************************************************)
(* For any connections, session processes and number of objects: every     *)
(* variable keeps its type, so no session lock is posted above one; while  *)
(* no process dies, who is connected is accounted for; and while nobody    *)
(* is rejected or told to stop either, one process serves a session, its   *)
(* names lead to it, and nothing is left when all is over.                 *)
(***************************************************************************)
EXTENDS SessionBoot, TLAPS

\* A name without an object leads to no semaphore and no page
LEMMA NoObjIsNone == NoObj \notin Objs
BY SessionAssumption DEF NoObj, Objs

-----------------------------------------------------------------------------
\* Types and locks

\* sem_open: the semaphore of the name, or a new one that is free
LEMMA Opened == ASSUME TypeOK, NEW s \in Objs, OpenOrCreate(s)
                PROVE  /\ semName' = s /\ semVal' \in [Objs -> {0, 1}]
                       /\ (semName # NoObj /\ s = semName /\ semVal' = semVal)
                          \/ (semName = NoObj /\ FreeSem(s) /\ semVal' = [semVal EXCEPT ![s] = 1])
<1>1. CASE semName # NoObj
  BY <1>1 DEF OpenOrCreate, semVars, TypeOK
<1>2. CASE semName = NoObj
  BY <1>2 DEF OpenOrCreate, TypeOK
<1> QED BY <1>1, <1>2

\* tryWait takes a semaphore nobody holds
LEMMA Taken == ASSUME TInv, NEW s \in Objs, Lock(s)
               PROVE  /\ semVal[s] = 1 /\ semVal' = [semVal EXCEPT ![s] = 0] /\ semVal' \in [Objs -> {0, 1}]
                      /\ ~CtrlHolds(s) /\ \A p \in Procs : ~Holds(p, s)
<1>1. semVal[s] \in {0, 1} /\ semVal[s] > 0 /\ semVal' = [semVal EXCEPT ![s] = semVal[s] - 1]
  BY DEF Lock, TInv, TypeOK
<1>2. semVal[s] = 1 /\ semVal[s] - 1 = 0
  BY <1>1
<1>3. semVal' = [semVal EXCEPT ![s] = 0]
  BY <1>1, <1>2
<1> QED BY <1>2, <1>3 DEF TInv, TypeOK, Locks

\* post by who holds it
LEMMA Posted == ASSUME TInv, NEW s \in Objs, semVal[s] = 0, Unlock(s)
                PROVE  semVal' = [semVal EXCEPT ![s] = 1] /\ semVal' \in [Objs -> {0, 1}]
<1>1. semVal' = [semVal EXCEPT ![s] = semVal[s] + 1]
  BY DEF Unlock
<1>2. semVal[s] + 1 = 1
  OBVIOUS
<1>3. semVal' = [semVal EXCEPT ![s] = 1]
  BY <1>1, <1>2
<1> QED BY <1>3 DEF TInv, TypeOK

\* At the start nobody holds a lock
LEMMA InitTInv == Init => TInv
<1> SUFFICES ASSUME Init PROVE TInv OBVIOUS
<1>1. TypeOK
  BY DEF Init, TypeOK, ProcStates, ConnStates, CtrlStates
<1>2. Locks
  BY DEF Init, Locks, Holds, CtrlHolds
<1> QED BY <1>1, <1>2 DEF TInv

\* Connections touch no lock
LEMMA ConnTInv == ASSUME TInv, UNCHANGED setting, NEW c \in Conns, Conn(c) PROVE TInv'
<1> USE NoObjIsNone DEF semVars, pageVars, procVars, connVars, ctrlVars, CGoto, CEnd, Connects
<1>0. TypeOK /\ Locks
  BY DEF TInv
<1>1. CASE Boot(c)
  <2>1. PICK p \in Procs : ppc[p] = "none" /\ ppc' = [ppc EXCEPT ![p] = "start"]
    BY <1>1 DEF Boot
  <2>2. TypeOK'
    BY <1>0, <1>1, <2>1 DEF Boot, TypeOK, ProcStates, ConnStates
  <2>3. \A q \in Procs, s \in Objs : Holds(q, s)' <=> Holds(q, s)
    BY <1>0, <1>1, <2>1 DEF Boot, Holds, TypeOK
  <2>4. \A q \in Procs : ppc'[q] \in {"trylock", "check", "register", "opensem", "attach", "trigger"} => ppc'[q] = ppc[q]
    BY <1>0, <2>1 DEF TypeOK
  <2>5. cpc' = [cpc EXCEPT ![c] = "opensem"]
    BY <1>1 DEF Boot
  <2>6. Locks'
    BY <1>0, <1>1, <2>3, <2>4, <2>5 DEF Boot, Locks, CtrlHolds, TypeOK
  <2> QED BY <2>2, <2>6 DEF TInv
<1>2. CASE Join(c) \/ OpenSem(c) \/ OpenSemFail(c) \/ OpenPage(c) \/ OpenPageFail(c) \/ Claim(c) \/ Leave(c)
  <2> USE DEF Join, OpenSem, OpenSemFail, OpenPage, OpenPageFail, Claim, Leave
  <2>1. UNCHANGED <<semVal, pageVars, procVars, ctrlVars>> /\ semName' = semName
    BY <1>2
  <2>2. TypeOK'
    BY <1>0, <1>2 DEF TypeOK, ConnStates
  <2>3. \A d \in Conns : cpc'[d] \in {"wait", "in"} => cpage'[d] # NoObj
    BY <1>0, <1>2 DEF TypeOK, Locks
  <2>4. Locks'
    BY <1>0, <2>1, <2>3 DEF Locks, Holds, CtrlHolds
  <2> QED BY <2>2, <2>4 DEF TInv
<1> QED BY <1>1, <1>2 DEF Conn

\* A step in which nobody takes a lock, and no semaphore changes
LEMMA NobodyLocks ==
    ASSUME TInv, TypeOK', semVal' = semVal, UNCHANGED connVars,
           \A q \in Procs : /\ ppc'[q] = "trylock" => ppc[q] = "trylock" /\ plock'[q] = plock[q]
                            /\ \A s \in Objs : Holds(q, s)' => Holds(q, s)
                            /\ ppc'[q] \in {"check", "register", "opensem", "attach", "trigger"} => plock'[q] # NoObj,
           \/ UNCHANGED <<kpc, ksem>>
           \/ kpc' \in {"idle", "unlinkpage"}
           \/ kpc = "check" /\ kpc' \in {"unlinksem", "unlinkboth"} /\ ksem' = ksem
    PROVE  TInv'
<1>0. Locks
  BY DEF TInv
<1>1. \A s \in Objs : CtrlHolds(s)' => CtrlHolds(s)
  BY DEF CtrlHolds
<1>2. Locks'
  BY <1>0, <1>1 DEF Locks, connVars
<1> QED BY <1>2 DEF TInv

\* Opening the session's semaphore takes no lock
LEMMA OpenLockTInv == ASSUME TInv, UNCHANGED setting, NEW p \in Procs, OpenLock(p) PROVE TInv'
<1> USE NoObjIsNone DEF semVars, pageVars, procVars, connVars, ctrlVars, PGoto
<1>0. TypeOK /\ Locks
  BY DEF TInv
<1>1. PICK s \in Objs : OpenOrCreate(s) /\ plock' = [plock EXCEPT ![p] = s]
  BY DEF OpenLock
<1>2. /\ ppc[p] = "start" /\ ppc' = [ppc EXCEPT ![p] = "trylock"]
      /\ UNCHANGED <<pageVars, ppage, shouldSleep, rec, connVars, ctrlVars>>
  BY DEF OpenLock
<1>3. semName' = s /\ semVal' \in [Objs -> {0, 1}]
  BY <1>0, <1>1, Opened
<1>4. TypeOK'
  BY <1>0, <1>1, <1>2, <1>3 DEF TypeOK, ProcStates
<1>5. \A q \in Procs, t \in Objs : Holds(q, t)' <=> Holds(q, t)
  BY <1>0, <1>1, <1>2 DEF Holds, TypeOK
<1>6. \A q \in Procs, t \in Objs : Holds(q, t) \/ CtrlHolds(t) => semVal'[t] = semVal[t]
  <2>1. CASE semVal' = semVal
    BY <2>1
  <2>2. CASE FreeSem(s) /\ semVal' = [semVal EXCEPT ![s] = 1]
    BY <1>0, <2>2 DEF FreeSem, Holds, CtrlHolds, TypeOK
  <2> QED BY <1>0, <1>1, <2>1, <2>2, Opened
<1>7. \A q \in Procs : ppc'[q] \in {"trylock", "check", "register", "opensem", "attach", "trigger"} => plock'[q] # NoObj
  BY <1>0, <1>1, <1>2 DEF TypeOK, Locks
<1>8. \A t \in Objs : CtrlHolds(t)' <=> CtrlHolds(t)
  BY <1>2 DEF CtrlHolds
<1>9. \A t \in Objs : CtrlHolds(t) => semVal'[t] = 0
  BY <1>0, <1>6 DEF Locks
<1>10. \A t \in Objs, q \in Procs : Holds(q, t) =>
          semVal'[t] = 0 /\ ~CtrlHolds(t) /\ \A r \in Procs : Holds(r, t) => r = q
  BY <1>0, <1>6 DEF Locks
<1>11. Locks'
  BY <1>0, <1>2, <1>5, <1>7, <1>8, <1>9, <1>10 DEF Locks
<1> QED BY <1>4, <1>11 DEF TInv

\* The process takes its lock
LEMMA TryLockTInv == ASSUME TInv, UNCHANGED setting, NEW p \in Procs, TryLock(p) PROVE TInv'
<1> USE NoObjIsNone DEF semVars, pageVars, procVars, connVars, ctrlVars, PGoto
<1>0. TypeOK /\ Locks
  BY DEF TInv
<1>1. /\ ppc[p] = "trylock" /\ ppc' = [ppc EXCEPT ![p] = "check"] /\ Lock(plock[p])
      /\ UNCHANGED <<semName, pageVars, plock, ppage, shouldSleep, rec, connVars, ctrlVars>>
  BY DEF TryLock
<1>2. plock[p] \in Objs
  BY <1>0, <1>1 DEF Locks, TypeOK
<1>3. /\ semVal' = [semVal EXCEPT ![plock[p]] = 0] /\ semVal' \in [Objs -> {0, 1}]
      /\ ~CtrlHolds(plock[p]) /\ \A q \in Procs : ~Holds(q, plock[p])
  BY <1>1, <1>2, Taken
<1>4. TypeOK'
  BY <1>0, <1>1, <1>3 DEF TypeOK, ProcStates
<1>5. \A q \in Procs, t \in Objs : Holds(q, t)' <=> Holds(q, t) \/ (q = p /\ t = plock[p])
  BY <1>0, <1>1 DEF Holds, TypeOK
<1>6. \A t \in Objs : t # plock[p] => semVal'[t] = semVal[t]
  BY <1>0, <1>3 DEF TypeOK
<1>7. semVal'[plock[p]] = 0
  BY <1>0, <1>2, <1>3 DEF TypeOK
<1>8. \A t \in Objs : CtrlHolds(t)' <=> CtrlHolds(t)
  BY <1>1 DEF CtrlHolds
<1>9. \A q \in Procs : ppc'[q] \in {"trylock", "check", "register", "opensem", "attach", "trigger"} => plock'[q] # NoObj
  BY <1>0, <1>1, <1>2 DEF TypeOK, Locks
<1>10. \A t \in Objs : CtrlHolds(t) => semVal'[t] = 0
  BY <1>0, <1>6, <1>7 DEF Locks
<1>11. \A t \in Objs, q \in Procs : Holds(q, t)' =>
          semVal'[t] = 0 /\ ~CtrlHolds(t) /\ \A r \in Procs : Holds(r, t)' => r = q
  BY <1>0, <1>3, <1>5, <1>6, <1>7 DEF Locks
<1>12. Locks'
  BY <1>0, <1>1, <1>8, <1>9, <1>10, <1>11 DEF Locks
<1> QED BY <1>4, <1>12 DEF TInv

\* The holder of a lock posts it, and is past holding it
LEMMA PostTInv == ASSUME TInv, TypeOK', NEW p \in Procs, Holds(p, plock[p]), Unlock(plock[p]),
                         \A q \in Procs : q # p => ppc'[q] = ppc[q] /\ plock'[q] = plock[q],
                         ppc'[p] \in {"none", "run"}, UNCHANGED <<connVars, ctrlVars>>
                  PROVE  TInv'
<1> USE NoObjIsNone DEF connVars, ctrlVars
<1>0. TypeOK /\ Locks
  BY DEF TInv
<1>1. plock[p] \in Objs
  BY <1>0 DEF TypeOK, Locks, Holds
<1>2. semVal[plock[p]] = 0 /\ ~CtrlHolds(plock[p]) /\ \A q \in Procs : Holds(q, plock[p]) => q = p
  BY <1>0, <1>1 DEF Locks
<1>3. semVal' = [semVal EXCEPT ![plock[p]] = 1]
  BY <1>1, <1>2, Posted
<1>4. \A t \in Objs : t # plock[p] => semVal'[t] = semVal[t]
  BY <1>0, <1>3 DEF TypeOK
<1>5. \A q \in Procs, t \in Objs : Holds(q, t)' => Holds(q, t) /\ q # p /\ t # plock[p]
  BY <1>2 DEF Holds
<1>6. \A t \in Objs : CtrlHolds(t)' <=> CtrlHolds(t)
  BY DEF CtrlHolds
<1>7. \A q \in Procs : ppc'[q] \in {"trylock", "check", "register", "opensem", "attach", "trigger"} => plock'[q] # NoObj
  BY <1>0 DEF TypeOK, Locks
<1>8. \A t \in Objs : CtrlHolds(t) => semVal'[t] = 0
  BY <1>0, <1>2, <1>4 DEF Locks
<1>9. \A t \in Objs, q \in Procs : Holds(q, t)' =>
          semVal'[t] = 0 /\ ~CtrlHolds(t) /\ \A r \in Procs : Holds(r, t)' => r = q
  BY <1>0, <1>4, <1>5 DEF Locks
<1>10. Locks'
  BY <1>0, <1>6, <1>7, <1>8, <1>9 DEF Locks
<1> QED BY <1>10 DEF TInv

\* A session process
LEMMA ProcTInv == ASSUME TInv, UNCHANGED setting, NEW p \in Procs, BootProc(p) \/ RunProc(p) \/ Crash(p) PROVE TInv'
<1> USE NoObjIsNone DEF semVars, pageVars, procVars, connVars, ctrlVars, PGoto, PEnd
<1>0. TypeOK /\ Locks
  BY DEF TInv
<1>1. CASE OpenLock(p) \/ TryLock(p)
  BY <1>1, OpenLockTInv, TryLockTInv
<1>2. CASE PageExists(p) \/ RegisterFail(p) \/ Accept(p) \/ Reject(p)
  <2> USE DEF PageExists, RegisterFail, Accept, Reject, setExit
  <2>1. Holds(p, plock[p]) /\ Unlock(plock[p])
    BY <1>2 DEF Holds
  <2>2. plock[p] \in Objs /\ semVal[plock[p]] = 0
    BY <1>0, <2>1 DEF TypeOK, Locks, Holds
  <2>3. semVal' \in [Objs -> {0, 1}]
    BY <2>1, <2>2, Posted
  <2>4. TypeOK'
    BY <1>0, <1>2, <2>3 DEF TypeOK, ProcStates
  <2>5. /\ \A q \in Procs : q # p => ppc'[q] = ppc[q] /\ plock'[q] = plock[q]
        /\ ppc'[p] \in {"none", "run"} /\ UNCHANGED <<connVars, ctrlVars>>
    BY <1>0, <1>2 DEF TypeOK
  <2> QED BY <2>1, <2>4, <2>5, PostTInv
<1>3. CASE \/ LockTimeout(p) \/ PageAbsent(p) \/ Register(p) \/ MasterOpenSem(p) \/ MasterOpenSemFail(p)
           \/ EndInvalid(p) \/ EndTimeout(p) \/ UnlinkSem(p) \/ EndSleep(p)
  <2> USE DEF LockTimeout, PageAbsent, Register, MasterOpenSem, MasterOpenSemFail, EndInvalid, EndTimeout,
              UnlinkSem, EndSleep
  <2>1. TypeOK'
    BY <1>0, <1>3 DEF TypeOK, ProcStates
  <2>2. semVal' = semVal /\ UNCHANGED <<connVars, ctrlVars>>
    BY <1>3
  <2>3. \A q \in Procs : /\ ppc'[q] = "trylock" => ppc[q] = "trylock" /\ plock'[q] = plock[q]
                         /\ \A s \in Objs : Holds(q, s)' => Holds(q, s)
                         /\ ppc'[q] \in {"check", "register", "opensem", "attach", "trigger"} => plock'[q] # NoObj
    BY <1>0, <1>3 DEF TypeOK, Holds, Locks
  <2> QED BY <2>1, <2>2, <2>3, NobodyLocks
<1>4. CASE Attach(p)
  <2>1. /\ ppc[p] = "attach" /\ ppc' = [ppc EXCEPT ![p] = "trigger"]
        /\ UNCHANGED <<semVars, plock, shouldSleep, rec, connVars, ctrlVars>>
    BY <1>4 DEF Attach
  <2>2. /\ pageName' \in Objs /\ ppage' = [ppage EXCEPT ![p] = pageName']
        /\ pageExit' \in [Objs -> BOOLEAN]
    BY <1>0, <1>4 DEF Attach, TypeOK
  <2>3. TypeOK'
    BY <1>0, <2>1, <2>2 DEF TypeOK, ProcStates
  <2>4. \A q \in Procs : /\ ppc'[q] = "trylock" => ppc[q] = "trylock" /\ plock'[q] = plock[q]
                         /\ \A s \in Objs : Holds(q, s)' => Holds(q, s)
                         /\ ppc'[q] \in {"check", "register", "opensem", "attach", "trigger"} => plock'[q] # NoObj
    BY <1>0, <2>1 DEF TypeOK, Holds, Locks
  <2> QED BY <2>1, <2>3, <2>4, NobodyLocks
<1>5. CASE RejectAgain(p) \/ EndLoop(p) \/ UnlinkPage(p) \/ End(p) \/ Wake(p) \/ Crash(p)
  <2> USE DEF RejectAgain, EndLoop, UnlinkPage, End, Wake, Crash, Return, setExit
  <2>1. TypeOK'
    BY <1>0, <1>5 DEF TypeOK, ProcStates
  <2>2. semVal' = semVal /\ UNCHANGED <<connVars, ctrlVars>>
    BY <1>5
  <2>3. \A q \in Procs : /\ ppc'[q] = "trylock" => ppc[q] = "trylock" /\ plock'[q] = plock[q]
                         /\ \A s \in Objs : Holds(q, s)' => Holds(q, s)
                         /\ ppc'[q] \in {"check", "register", "opensem", "attach", "trigger"} => plock'[q] # NoObj
    BY <1>0, <1>5 DEF TypeOK, Holds, Locks
  <2> QED BY <2>1, <2>2, <2>3, NobodyLocks
<1> QED BY <1>1, <1>2, <1>3, <1>4, <1>5 DEF BootProc, RunProc

\* The controller
LEMMA CtrlTInv == ASSUME TInv, UNCHANGED setting, Controller PROVE TInv'
<1> USE NoObjIsNone DEF semVars, pageVars, procVars, connVars, ctrlVars, CtrlDone
<1>0. TypeOK /\ Locks
  BY DEF TInv
<1>1. CASE CtrlOpen
  <2>1. PICK s \in Objs : OpenOrCreate(s) /\ ksem' = s
    BY <1>1 DEF CtrlOpen
  <2>2. kpc = "idle" /\ kpc' = "trylock" /\ kid' \in Procs /\ UNCHANGED <<pageVars, procVars, connVars>>
    BY <1>1 DEF CtrlOpen
  <2>3. semName' = s /\ semVal' \in [Objs -> {0, 1}]
    BY <1>0, <2>1, Opened
  <2>4. TypeOK'
    BY <1>0, <2>1, <2>2, <2>3 DEF TypeOK, CtrlStates
  <2>5. \A q \in Procs, t \in Objs : (Holds(q, t)' <=> Holds(q, t)) /\ ~CtrlHolds(t) /\ ~CtrlHolds(t)'
    BY <2>2 DEF Holds, CtrlHolds
  <2>6. \A q \in Procs, t \in Objs : Holds(q, t) => semVal'[t] = semVal[t]
    <3>1. CASE semVal' = semVal
      BY <3>1
    <3>2. CASE FreeSem(s) /\ semVal' = [semVal EXCEPT ![s] = 1]
      BY <1>0, <3>2 DEF FreeSem, Holds, TypeOK
    <3> QED BY <1>0, <2>1, <3>1, <3>2, Opened
  <2>7. \A t \in Objs, q \in Procs : Holds(q, t)' =>
            semVal'[t] = 0 /\ ~CtrlHolds(t)' /\ \A r \in Procs : Holds(r, t)' => r = q
    BY <1>0, <2>5, <2>6 DEF Locks
  <2>8. \A t \in Objs : ~CtrlHolds(t)'
    BY <2>2 DEF CtrlHolds
  <2>9. Locks'
    BY <1>0, <2>1, <2>2, <2>7, <2>8 DEF Locks
  <2> QED BY <2>4, <2>9 DEF TInv
<1>2. CASE CtrlLock
  <2>1. /\ kpc = "trylock" /\ Lock(ksem) /\ kpc' = "check"
        /\ UNCHANGED <<semName, pageVars, procVars, connVars, ksem, kid>>
    BY <1>2 DEF CtrlLock
  <2>2. ksem \in Objs
    BY <1>0, <2>1 DEF Locks, TypeOK
  <2>3. /\ semVal' = [semVal EXCEPT ![ksem] = 0] /\ semVal' \in [Objs -> {0, 1}]
        /\ \A q \in Procs : ~Holds(q, ksem)
    BY <2>1, <2>2, Taken
  <2>4. TypeOK'
    BY <1>0, <2>1, <2>3 DEF TypeOK, CtrlStates
  <2>5. \A q \in Procs, t \in Objs : (Holds(q, t)' <=> Holds(q, t)) /\ (CtrlHolds(t)' <=> t = ksem)
    BY <2>1 DEF Holds, CtrlHolds
  <2>6. \A t \in Objs : t # ksem => semVal'[t] = semVal[t]
    BY <1>0, <2>3 DEF TypeOK
  <2>7. \A t \in Objs : CtrlHolds(t)' => semVal'[t] = 0
    BY <1>0, <2>1, <2>2, <2>3 DEF TypeOK, CtrlHolds
  <2>8. \A t \in Objs, q \in Procs : Holds(q, t)' =>
            semVal'[t] = 0 /\ ~CtrlHolds(t)' /\ \A r \in Procs : Holds(r, t)' => r = q
    BY <1>0, <2>3, <2>5, <2>6 DEF Locks
  <2>9. Locks'
    BY <1>0, <2>1, <2>2, <2>7, <2>8 DEF Locks
  <2> QED BY <2>4, <2>9 DEF TInv
<1>3. CASE CtrlKeep
  <2>1. /\ kpc = "check" /\ Unlock(ksem) /\ kpc' = "idle" /\ ksem' = NoObj /\ rec' = [rec EXCEPT ![kid] = "none"]
        /\ UNCHANGED <<semName, pageVars, connVars, ppc, plock, ppage, shouldSleep, kid>>
    BY <1>3 DEF CtrlKeep
  <2>2. ksem \in Objs /\ CtrlHolds(ksem) /\ semVal[ksem] = 0
    BY <1>0, <2>1 DEF Locks, TypeOK, CtrlHolds
  <2>3. /\ semVal' = [semVal EXCEPT ![ksem] = 1] /\ semVal' \in [Objs -> {0, 1}]
    BY <2>1, <2>2, Posted
  <2>4. TypeOK'
    BY <1>0, <2>1, <2>3 DEF TypeOK, CtrlStates
  <2>5. \A q \in Procs, t \in Objs : Holds(q, t)' => Holds(q, t) /\ t # ksem
    BY <1>0, <2>1, <2>2 DEF Holds, Locks
  <2>6. \A t \in Objs : ~CtrlHolds(t)'
    BY <2>1 DEF CtrlHolds
  <2>7. \A t \in Objs : t # ksem => semVal'[t] = semVal[t]
    BY <1>0, <2>3 DEF TypeOK
  <2>8. \A t \in Objs, q \in Procs : Holds(q, t)' =>
            semVal'[t] = 0 /\ ~CtrlHolds(t)' /\ \A r \in Procs : Holds(r, t)' => r = q
    BY <1>0, <2>5, <2>6, <2>7 DEF Locks
  <2>9. Locks'
    BY <1>0, <2>1, <2>6, <2>8 DEF Locks
  <2> QED BY <2>4, <2>9 DEF TInv
<1>4. CASE CtrlTimeout \/ CtrlGone \/ CtrlUnlinkSem \/ CtrlUnlinkPage
  <2> USE DEF CtrlTimeout, CtrlGone, CtrlUnlinkSem, CtrlUnlinkPage
  <2>1. TypeOK'
    BY <1>0, <1>4 DEF TypeOK, CtrlStates
  <2>2. semVal' = semVal /\ UNCHANGED <<ppc, plock, connVars>>
    BY <1>4
  <2>3. \/ kpc' \in {"idle", "unlinkpage"}
        \/ kpc = "check" /\ kpc' \in {"unlinksem", "unlinkboth"} /\ ksem' = ksem
    BY <1>4
  <2>4. \A q \in Procs : /\ ppc'[q] = "trylock" => ppc[q] = "trylock" /\ plock'[q] = plock[q]
                         /\ \A s \in Objs : Holds(q, s)' => Holds(q, s)
                         /\ ppc'[q] \in {"check", "register", "opensem", "attach", "trigger"} => plock'[q] # NoObj
    BY <1>0, <2>2 DEF Holds, Locks
  <2> QED BY <2>1, <2>2, <2>3, <2>4, NobodyLocks
<1> QED BY <1>1, <1>2, <1>3, <1>4 DEF Controller

\* Every step keeps types and locks
LEMMA NextTInv == ASSUME TInv, [Next]_vars PROVE TInv'
<1>1. CASE UNCHANGED vars
  BY <1>1 DEF vars, semVars, pageVars, procVars, connVars, ctrlVars, TInv, TypeOK, Locks, Holds, CtrlHolds
<1> QED BY <1>1, ConnTInv, ProcTInv, CtrlTInv DEF Next

\* Every variable keeps its type, whoever dies and whatever the triggers say: the
\* session's lock, whichever semaphore the name leads to, is never posted above
\* one, so that it never lets two by at once
THEOREM SessionTypeOK == Spec => []TypeOK
<1>1. Init => TInv
  BY InitTInv
<1>2. TInv /\ [Next]_vars => TInv'
  BY NextTInv
<1>3. TInv => TypeOK
  BY DEF TInv
<1> QED BY <1>1, <1>2, <1>3, PTL DEF Spec

-----------------------------------------------------------------------------
\* Who is connected is accounted for

\* Who decides about or runs a session goes on to, or flags its page, as long as
\* nobody dies
LEMMA StaysServed ==
    ASSUME AInv, TInv', UNCHANGED setting, setting.crashAt = {},
           \A g \in Objs : (~pageExit'[g] /\ (g = pageName' \/ \E c \in Conns : cpage'[c] = g)) =>
               (~pageExit[g] /\ (g = pageName \/ \E c \in Conns : cpage[c] = g)),
           \A p \in Procs : (Serving(p) /\ ppage[p] # NoObj /\ ~pageExit'[ppage[p]]) =>
               Serving(p)' /\ ppage'[p] = ppage[p]
    PROVE  AInv'
<1>1. PagesServed
  BY DEF AInv
<1>2. ASSUME NEW g \in Objs, ~pageExit'[g], g = pageName' \/ \E c \in Conns : cpage'[c] = g
      PROVE  \E p \in Procs : Serving(p)' /\ ppage'[p] = g
  <2>1. PICK p \in Procs : Serving(p) /\ ppage[p] = g
    BY <1>1, <1>2 DEF PagesServed
  <2> QED BY <1>2, <2>1, NoObjIsNone
<1>3. PagesServed'
  BY <1>2 DEF PagesServed
<1> QED BY <1>3 DEF AInv

\* No step of a connection puts anybody on a page that is not served
LEMMA ConnAInv == ASSUME AInv, TInv', UNCHANGED setting, setting.crashAt = {}, NEW c \in Conns, Conn(c) PROVE AInv'
<1> USE NoObjIsNone DEF semVars, pageVars, procVars, connVars, ctrlVars, CGoto, CEnd, Connects
<1>0. TypeOK /\ Locks
  BY DEF AInv, TInv
<1>1. UNCHANGED pageVars /\ ppage' = ppage /\ \A p \in Procs : Serving(p) => Serving(p)'
  BY <1>0 DEF Conn, Join, Boot, OpenSem, OpenSemFail, OpenPage, OpenPageFail, Claim, Leave, Serving, TypeOK
<1>2. \A d \in Conns : cpage'[d] \in {cpage[d], NoObj, pageName}
  BY <1>0 DEF Conn, Join, Boot, OpenSem, OpenSemFail, OpenPage, OpenPageFail, Claim, Leave, TypeOK
<1> QED BY <1>1, <1>2, StaysServed

\* A session process flags its page before it stops to serve it
LEMMA ProcAInv == ASSUME AInv, TInv', UNCHANGED setting, setting.crashAt = {},
                         NEW p \in Procs, BootProc(p) \/ RunProc(p) \/ Crash(p)
                  PROVE  AInv'
<1> USE NoObjIsNone DEF semVars, pageVars, procVars, connVars, ctrlVars, PGoto, PEnd
<1>0. TypeOK /\ Locks /\ PagesServed
  BY DEF AInv, TInv
<1>1. CASE \/ OpenLock(p) \/ TryLock(p) \/ LockTimeout(p) \/ PageExists(p) \/ PageAbsent(p) \/ Register(p)
           \/ RegisterFail(p) \/ MasterOpenSem(p) \/ MasterOpenSemFail(p) \/ Accept(p) \/ EndTimeout(p)
           \/ UnlinkSem(p) \/ End(p) \/ EndSleep(p) \/ Wake(p)
  <2> USE DEF OpenLock, TryLock, LockTimeout, PageExists, PageAbsent, Register, RegisterFail, MasterOpenSem,
              MasterOpenSemFail, Accept, EndTimeout, UnlinkSem, End, EndSleep, Wake, Return
  <2>1. UNCHANGED <<pageName, pageExit, cpage>>
    BY <1>1
  <2>2. \A q \in Procs : Serving(q) => Serving(q)' /\ ppage'[q] = ppage[q]
    BY <1>0, <1>1 DEF Serving, TypeOK
  <2> QED BY <2>1, <2>2, StaysServed
<1>2. CASE Reject(p) \/ RejectAgain(p) \/ EndLoop(p)
  <2> USE DEF Reject, RejectAgain, EndLoop, setExit
  <2>1. UNCHANGED <<pageName, cpage, ppage>> /\ \A q \in Procs : q # p => ppc'[q] = ppc[q]
    BY <1>0, <1>2 DEF TypeOK
  <2>2. \A g \in Objs : ~pageExit'[g] => ~pageExit[g] /\ g # ppage[p]
    BY <1>0, <1>2 DEF TypeOK
  <2>3. ppage[p] # NoObj => ppage[p] \in Objs
    BY <1>0 DEF TypeOK
  <2> HIDE DEF Reject, RejectAgain, EndLoop, setExit
  <2>4. \A q \in Procs : (Serving(q) /\ ppage[q] # NoObj /\ ~pageExit'[ppage[q]]) =>
               Serving(q)' /\ ppage'[q] = ppage[q]
    BY <1>0, <2>1, <2>2, <2>3 DEF Serving, TypeOK
  <2> QED BY <2>1, <2>2, <2>4, StaysServed
<1>3. CASE EndInvalid(p) \/ UnlinkPage(p)
  <2> USE DEF EndInvalid, UnlinkPage, getExit
  <2>1. /\ UNCHANGED <<pageExit, cpage, ppage>> /\ pageName' \in {pageName, NoObj}
        /\ \A q \in Procs : q # p => ppc'[q] = ppc[q]
    BY <1>0, <1>3 DEF TypeOK
  <2>2. ~Serving(p) \/ ppage[p] = NoObj \/ pageExit[ppage[p]]
    BY <1>0, <1>3 DEF Serving
  <2> HIDE DEF EndInvalid, UnlinkPage, getExit
  <2>3. \A q \in Procs : (Serving(q) /\ ppage[q] # NoObj /\ ~pageExit'[ppage[q]]) =>
               Serving(q)' /\ ppage'[q] = ppage[q]
    BY <2>1, <2>2 DEF Serving
  <2> QED BY <2>1, <2>3, StaysServed
<1>4. CASE Attach(p)
  <2>1. /\ ppc[p] = "attach" /\ ppc' = [ppc EXCEPT ![p] = "trigger"] /\ UNCHANGED cpage
    BY <1>4 DEF Attach
  <2>2. ppage' = [ppage EXCEPT ![p] = pageName'] /\ pageName' \in Objs
    BY <1>0, <1>4 DEF Attach, TypeOK
  <2>3. \A g \in Objs : g # pageName' => pageExit'[g] = pageExit[g] /\ g # pageName
    BY <1>0, <1>4 DEF Attach, TypeOK
  <2>4. Serving(p)' /\ ppage'[p] = pageName'
    BY <1>0, <2>1, <2>2 DEF Serving, TypeOK
  <2>5. \A q \in Procs : Serving(q) => Serving(q)' /\ ppage'[q] = ppage[q]
    BY <1>0, <2>1, <2>2 DEF Serving, TypeOK
  <2>6. ASSUME NEW g \in Objs, ~pageExit'[g], g = pageName' \/ \E c \in Conns : cpage'[c] = g
        PROVE  \E q \in Procs : Serving(q)' /\ ppage'[q] = g
    <3>1. CASE g = pageName'
      BY <2>4, <3>1
    <3>2. CASE g # pageName'
      <4>1. PICK q \in Procs : Serving(q) /\ ppage[q] = g
        BY <1>0, <2>1, <2>3, <2>6, <3>2 DEF PagesServed
      <4> QED BY <2>5, <4>1
    <3> QED BY <3>1, <3>2
  <2>7. PagesServed'
    BY <2>6 DEF PagesServed
  <2> QED BY <2>7 DEF AInv
<1>5. ~Crash(p)
  BY DEF Crash
<1> QED BY <1>1, <1>2, <1>3, <1>4, <1>5 DEF BootProc, RunProc

\* Every step keeps the pages served
LEMMA NextAInv == ASSUME AInv, [Next]_vars PROVE AInv'
<1>1. TInv' /\ UNCHANGED setting
  BY NextTInv DEF AInv, Next, vars
<1>2. CASE setting.crashAt # {}
  BY <1>1, <1>2 DEF AInv
<1>3. CASE setting.crashAt = {} /\ (Controller \/ UNCHANGED vars)
  <2>1. UNCHANGED <<pageExit, ppc, ppage, cpage>> /\ pageName' \in {pageName, NoObj}
    BY <1>3 DEF Controller, CtrlOpen, CtrlTimeout, CtrlLock, CtrlKeep, CtrlGone, CtrlUnlinkSem, CtrlUnlinkPage,
                CtrlDone, vars, semVars, pageVars, procVars, connVars, ctrlVars
  <2>2. \A q \in Procs : Serving(q) => Serving(q)'
    BY <2>1 DEF Serving
  <2> QED BY <1>1, <1>3, <2>1, <2>2, NoObjIsNone, StaysServed
<1> QED BY <1>1, <1>2, <1>3, ConnAInv, ProcAInv DEF Next

\* A connection on a page that is not flagged exit is accounted for by a process
\* that serves that page, for any number of connections and processes, whatever
\* USER_NEW says, however long it takes, and whoever is told to stop, as long as
\* processes do not die
THEOREM SessionAccounted == Spec => []Accounted
<1>1. Init => AInv
  <2> SUFFICES ASSUME Init PROVE AInv OBVIOUS
  <2>1. PagesServed
    BY NoObjIsNone DEF Init, PagesServed
  <2> QED BY <2>1, InitTInv DEF AInv
<1>2. AInv /\ [Next]_vars => AInv'
  BY NextAInv
<1>3. AInv => Accounted
  <2> SUFFICES ASSUME AInv, setting.crashAt = {}, NEW c \in Conns, cpc[c] = "in", ~pageExit[cpage[c]]
               PROVE  \E p \in Procs : Serving(p) /\ ppage[p] = cpage[c]
    BY DEF Accounted
  <2>1. cpage[c] \in Objs
    BY DEF AInv, TInv, TypeOK, Locks
  <2> QED BY <2>1 DEF AInv, PagesServed
<1> QED BY <1>1, <1>2, <1>3, PTL DEF Spec

-----------------------------------------------------------------------------
\* One process serves, while nobody dies, is stopped or rejected

\* The parts of CInv, to be cited one by one
LEMMA CalmParts == ASSUME CInv
                   PROVE  /\ TInv /\ TypeOK /\ Locks /\ setting.crashAt = {} /\ ~setting.upset
                          /\ NamedLock /\ OneOwner /\ EndsAlone /\ Records
BY DEF CInv, TInv, Calm

\* What does not happen then
LEMMA NotCalm == ASSUME CInv, NEW p \in Procs
                 PROVE  /\ ~Reject(p) /\ ~RejectAgain(p) /\ ~Crash(p) /\ ~MasterOpenSemFail(p)
                        /\ ~EndInvalid(p) /\ ~EndTimeout(p) /\ ~EndSleep(p) /\ ~Wake(p)
<1>0. /\ TypeOK /\ Locks /\ setting.crashAt = {} /\ ~setting.upset
      /\ NamedLock /\ OneOwner /\ EndsAlone
  BY CalmParts
<1>1. ~Reject(p) /\ ~RejectAgain(p) /\ ~Crash(p)
  BY <1>0 DEF Reject, RejectAgain, Crash
<1>2. ~EndTimeout(p) /\ ~EndSleep(p) /\ ~Wake(p)
  BY <1>0 DEF EndTimeout, EndSleep, Wake, EndsAlone
<1>3. ~EndInvalid(p)
  BY <1>0 DEF EndInvalid, getExit, OneOwner, Paged, Unlinking
<1>4. ~MasterOpenSemFail(p)
  <2> SUFFICES ASSUME ppc[p] = "opensem", semName = NoObj PROVE FALSE
    BY DEF MasterOpenSemFail
  <2>1. plock[p] \in Objs /\ Holds(p, plock[p])
    BY <1>0 DEF Locks, Holds, TypeOK
  <2> QED BY <1>0, <2>1, NoObjIsNone DEF NamedLock
<1> QED BY <1>1, <1>2, <1>3, <1>4

\* The controller finds the lock free at last, and no page without a process
LEMMA CtrlCalm == ASSUME CInv PROVE ~CtrlTimeout /\ ~CtrlUnlinkPage
<1>0. /\ TypeOK /\ Locks /\ setting.crashAt = {} /\ ~setting.upset
      /\ NamedLock /\ Records
  BY CalmParts
<1>1. ~CtrlUnlinkPage
  BY <1>0 DEF CtrlUnlinkPage, Records
<1>2. ~CtrlTimeout
  <2> SUFFICES ASSUME kpc = "trylock", TimesOut(ksem) PROVE FALSE
    BY DEF CtrlTimeout
  <2>1. ksem = semName /\ ksem \in Objs /\ semVal[semName] = 0 /\ semName # NoObj
    BY <1>0 DEF NamedLock, Locks, TypeOK, TimesOut
  <2>2. PICK p \in Procs : Holds(p, semName)
    BY <1>0, <2>1 DEF NamedLock, CtrlHolds
  <2>3. ~HoldsLong(p)
    BY <1>0, <2>1 DEF HoldsLong
  <2> QED BY <2>1, <2>2, <2>3 DEF TimesOut
<1> QED BY <1>1, <1>2

\* Connections
LEMMA ConnCInv == ASSUME CInv, TInv', UNCHANGED setting, NEW c \in Conns, Conn(c) PROVE CInv'
<1> USE NoObjIsNone DEF semVars, pageVars, procVars, connVars, ctrlVars
<1>0. /\ TypeOK /\ Locks /\ NamedLock /\ OneOwner /\ EndsAlone /\ Records /\ Calm'
  BY CalmParts DEF Calm
<1>1. CASE Boot(c)
  <2>1. PICK p \in Procs : ppc[p] = "none" /\ rec[p] = "none" /\ ppc' = [ppc EXCEPT ![p] = "start"]
    BY <1>1 DEF Boot
  <2>2. pageName = NoObj /\ UNCHANGED <<semVars, pageVars, plock, ppage, shouldSleep, rec, csem, cpage, ctrlVars>>
    BY <1>1 DEF Boot
  <2>3. \A q \in Procs : /\ Owning(q)' <=> Owning(q)
                         /\ Paged(q)' <=> Paged(q)
                         /\ Unlinking(q)' <=> Unlinking(q)
                         /\ ~Unlinking(q)
                         /\ \A s \in Objs : Holds(q, s)' <=> Holds(q, s)
                         /\ ppc'[q] = ppc[q] \/ ppc'[q] = "start"
    BY <1>0, <2>1, <2>2 DEF Owning, Paged, Unlinking, Holds, TypeOK, OneOwner
  <2>4. NamedLock'
    BY <1>0, <2>2, <2>3 DEF NamedLock, CtrlHolds, TypeOK
  <2>5. OneOwner'
    BY <1>0, <2>2, <2>3 DEF OneOwner
  <2>6. EndsAlone'
    BY <1>0, <2>2, <2>3 DEF EndsAlone
  <2>7. Records'
    BY <1>0, <2>1, <2>2, <2>3 DEF Records, Owning, TypeOK
  <2> QED BY <1>0, <2>4, <2>5, <2>6, <2>7 DEF CInv
<1>2. CASE UNCHANGED <<semVars, pageVars, procVars, ctrlVars>>
  <2>1. NamedLock' /\ OneOwner' /\ EndsAlone' /\ Records'
    BY <1>0, <1>2 DEF NamedLock, OneOwner, EndsAlone, Records, Owning, Paged, Unlinking, Holds, CtrlHolds
  <2> QED BY <1>0, <2>1 DEF CInv
<1>3. CASE Join(c) \/ OpenSem(c) \/ OpenSemFail(c) \/ OpenPage(c) \/ OpenPageFail(c) \/ Claim(c) \/ Leave(c)
  BY <1>2, <1>3 DEF Join, OpenSem, OpenSemFail, OpenPage, OpenPageFail, Claim, Leave
<1> QED BY <1>1, <1>3 DEF Conn

\* The lock's name comes back: nobody had it
LEMMA OpenLockCInv == ASSUME CInv, TInv', UNCHANGED setting, NEW p \in Procs, OpenLock(p) PROVE CInv'
<1> USE NoObjIsNone DEF semVars, pageVars, procVars, connVars, ctrlVars, PGoto
<1>0. /\ TypeOK /\ Locks /\ NamedLock /\ OneOwner /\ EndsAlone /\ Records /\ Calm'
  BY CalmParts DEF Calm
<1>1. PICK s \in Objs : OpenOrCreate(s) /\ plock' = [plock EXCEPT ![p] = s]
  BY DEF OpenLock
<1>2. /\ ppc[p] = "start" /\ ppc' = [ppc EXCEPT ![p] = "trylock"]
      /\ UNCHANGED <<pageVars, ppage, shouldSleep, rec, connVars, ctrlVars>>
  BY DEF OpenLock
<1>3. \A q \in Procs : /\ Owning(q)' <=> Owning(q)
                       /\ Paged(q)' <=> Paged(q)
                       /\ Unlinking(q)' <=> Unlinking(q)
                       /\ \A t \in Objs : Holds(q, t)' <=> Holds(q, t)
                       /\ q # p => ppc'[q] = ppc[q] /\ plock'[q] = plock[q]
  BY <1>0, <1>1, <1>2 DEF Owning, Paged, Unlinking, Holds, TypeOK
<1>4. OneOwner'
  BY <1>0, <1>2, <1>3 DEF OneOwner
<1>5. EndsAlone'
  BY <1>0, <1>2, <1>3 DEF EndsAlone, TypeOK
<1>6. Records'
  BY <1>0, <1>2, <1>3 DEF Records, TypeOK, Owning
<1>7. semName' = s /\ plock'[p] = semName' /\ ppc'[p] = "trylock"
  BY <1>0, <1>1, <1>2, Opened DEF TypeOK
<1>8. CASE semName # NoObj /\ s = semName /\ semVal' = semVal
  <2>1. \A q \in Procs : (ppc'[q] = "trylock" /\ plock'[q] # semName') => semVal'[plock'[q]] = 0
    BY <1>0, <1>3, <1>7, <1>8 DEF NamedLock
  <2>2. \A t \in Objs : CtrlHolds(t)' <=> CtrlHolds(t)
    BY <1>2 DEF CtrlHolds
  <2>3. semName' = semName /\ semName \in Objs
    BY <1>7, <1>8
  <2>4. (semVal'[semName'] = 0) => CtrlHolds(semName)' \/ \E q \in Procs : Holds(q, semName)'
    BY <1>0, <1>3, <1>8, <2>2, <2>3 DEF NamedLock
  <2>5. NamedLock'
    BY <1>0, <1>2, <1>3, <1>7, <1>8, <2>1, <2>3, <2>4 DEF NamedLock, CtrlHolds, Holds
  <2> QED BY <1>0, <1>4, <1>5, <1>6, <2>5 DEF CInv
<1>9. CASE semName = NoObj /\ FreeSem(s) /\ semVal' = [semVal EXCEPT ![s] = 1]
  <2>1. /\ \A q \in Procs, t \in Objs : ~Holds(q, t)
        /\ \A q \in Procs : ppc[q] # "run"
        /\ kpc \notin {"trylock", "check", "unlinksem"}
    BY <1>0, <1>9 DEF NamedLock, Locks
  <2>2. semVal'[s] = 1
    BY <1>0, <1>9 DEF TypeOK
  <2>3. ASSUME NEW q \in Procs, ppc'[q] = "trylock", plock'[q] # semName' PROVE semVal'[plock'[q]] = 0
    <3>1. q # p /\ ppc[q] = "trylock" /\ plock'[q] = plock[q]
      BY <1>3, <1>7, <2>3
    <3>2. plock[q] \in Objs /\ plock[q] # s /\ plock[q] # semName
      BY <1>0, <1>9, <3>1 DEF FreeSem, Locks, TypeOK
    <3> QED BY <1>0, <1>9, <3>1, <3>2 DEF NamedLock, TypeOK
  <2>4. NamedLock'
    BY <1>2, <1>3, <1>7, <2>1, <2>2, <2>3 DEF NamedLock
  <2> QED BY <1>0, <1>4, <1>5, <1>6, <2>4 DEF CInv
<1> QED BY <1>0, <1>1, <1>8, <1>9, Opened

\* There is one lock, and one who holds it
LEMMA OneHolder == ASSUME CInv, NEW p \in Procs, ppc[p] \in {"check", "register", "opensem", "attach", "trigger"}
                   PROVE  /\ plock[p] = semName /\ semName \in Objs /\ Holds(p, semName) /\ semVal[semName] = 0
                          /\ kpc \notin {"check", "unlinksem"}
                          /\ \A q \in Procs : ppc[q] \in {"check", "register", "opensem", "attach", "trigger"} => q = p
<1>0. TypeOK /\ Locks /\ NamedLock
  BY CalmParts
<1>1. \A q \in Procs : ppc[q] \in {"check", "register", "opensem", "attach", "trigger"} =>
          plock[q] \in Objs /\ Holds(q, plock[q]) /\ plock[q] = semName
  BY <1>0, NoObjIsNone DEF TypeOK, Locks, Holds, NamedLock
<1>2. semName \in Objs /\ Holds(p, semName)
  BY <1>1
<1> QED BY <1>0, <1>1, <1>2 DEF Locks, NamedLock, CtrlHolds

\* What a process's step changes, when it neither owns the session nor comes to own it
LEMMA Outside == ASSUME CInv, TInv', UNCHANGED setting, NEW p \in Procs,
                        ~Owning(p), ~Owning(p)', ppc'[p] \notin {"invalid", "sleep"}, ~shouldSleep'[p],
                        ppc'[p] = "ending" <=> ppc[p] = "ending", rec' = rec,
                        rec[p] = "disconnect" => ppc'[p] = "none", ppc[p] # "none",
                        \A q \in Procs : q # p => ppc'[q] = ppc[q] /\ shouldSleep'[q] = shouldSleep[q],
                        \A q \in Procs : q # p => ppage'[q] = ppage[q],
                        UNCHANGED <<pageVars, ctrlVars>>
                 PROVE  Calm' /\ OneOwner' /\ EndsAlone' /\ Records'
<1> USE DEF pageVars, ctrlVars
<1>0. /\ TypeOK /\ NamedLock /\ OneOwner /\ EndsAlone /\ Records /\ Calm'
  BY CalmParts DEF Calm
<1>1. \A q \in Procs : /\ Owning(q)' <=> Owning(q)
                       /\ Paged(q)' <=> Paged(q)
                       /\ Unlinking(q)' <=> Unlinking(q)
                       /\ Paged(q) => q # p
  BY DEF Owning, Paged, Unlinking
<1>2. OneOwner'
  BY <1>0, <1>1 DEF OneOwner
<1>3. \A q \in Procs : Unlinking(q) => q = p
  BY <1>0 DEF EndsAlone
<1>4. \A q \in Procs : ~Unlinking(q)
  BY <1>3 DEF Owning, Unlinking
<1>5. EndsAlone'
  BY <1>0, <1>1, <1>4 DEF EndsAlone
<1>6. \A q \in Procs : (ppc'[q] = "ending" <=> ppc[q] = "ending") /\ (Owning(q) => ppc'[q] = ppc[q])
  BY DEF Owning
<1>7. Records'
  BY <1>0, <1>1, <1>6 DEF Records
<1> QED BY <1>0, <1>2, <1>5, <1>7

\* Who gets past tryWait is the only owner
LEMMA TryLockCInv == ASSUME CInv, TInv', UNCHANGED setting, NEW p \in Procs, TryLock(p) PROVE CInv'
<1> USE NoObjIsNone DEF semVars, pageVars, procVars, connVars, ctrlVars, PGoto
<1>0. /\ TInv /\ TypeOK /\ Locks /\ NamedLock /\ OneOwner /\ EndsAlone /\ Records
  BY CalmParts
<1>1. /\ ppc[p] = "trylock" /\ ppc' = [ppc EXCEPT ![p] = "check"] /\ Lock(plock[p])
      /\ UNCHANGED <<semName, pageVars, plock, ppage, shouldSleep, rec, connVars, ctrlVars>>
  BY DEF TryLock
<1>2. plock[p] \in Objs
  BY <1>0, <1>1 DEF Locks, TypeOK
<1>3. /\ semVal[plock[p]] = 1 /\ semVal' = [semVal EXCEPT ![plock[p]] = 0]
      /\ ~CtrlHolds(plock[p]) /\ \A q \in Procs : ~Holds(q, plock[p])
  BY <1>0, <1>1, <1>2, Taken
<1>4. plock[p] = semName
  BY <1>0, <1>1, <1>3 DEF NamedLock
<1>5. rec[p] # "disconnect"
  BY <1>0, <1>1 DEF Records
<1>6. Calm' /\ OneOwner' /\ EndsAlone' /\ Records'
  <2>1. ppc'[p] = "check" /\ ~shouldSleep'[p] /\ \A q \in Procs : q # p => ppc'[q] = ppc[q]
    BY <1>0, <1>1 DEF TypeOK, EndsAlone
  <2>2. ~Owning(p) /\ ~Owning(p)'
    BY <1>1, <2>1 DEF Owning
  <2> QED BY <1>1, <1>5, <2>1, <2>2, Outside
<1>7. \A q \in Procs, t \in Objs : Holds(q, t)' <=> Holds(q, t) \/ (q = p /\ t = semName)
  BY <1>0, <1>1, <1>4 DEF Holds, TypeOK
<1>8. \A t \in Objs : semVal[t] = 0 => semVal'[t] = 0
  BY <1>0, <1>3 DEF TypeOK
<1>9. \A q \in Procs : (ppc'[q] = "trylock" /\ plock'[q] # semName') => semVal'[plock'[q]] = 0
  BY <1>0, <1>1, <1>8 DEF NamedLock, Locks, TypeOK
<1>10. Holds(p, semName)'
  BY <1>0, <1>1, <1>4 DEF Holds, TypeOK
<1>11. \A q \in Procs : ppc'[q] = "run" => ppc[q] = "run"
  BY <1>0, <1>1 DEF TypeOK
<1>12. NamedLock'
  BY <1>0, <1>1, <1>7, <1>9, <1>10, <1>11 DEF NamedLock
<1> QED BY <1>6, <1>12 DEF CInv

\* The lock after its holder posted it
LEMMA PostNamed == ASSUME CInv, TInv', NEW p \in Procs, Holds(p, plock[p]), Unlock(plock[p]),
                          \A q \in Procs : q # p => ppc'[q] = ppc[q] /\ plock'[q] = plock[q],
                          ppc'[p] \in {"none", "run"}, UNCHANGED <<semName, kpc, ksem>>
                   PROVE  NamedLock'
<1> USE NoObjIsNone
<1>0. TInv /\ TypeOK /\ Locks /\ NamedLock
  BY CalmParts
<1>1. /\ plock[p] = semName /\ semName \in Objs /\ semVal[semName] = 0 /\ kpc \notin {"check", "unlinksem"}
  BY OneHolder DEF Holds
<1>2. semVal' = [semVal EXCEPT ![semName] = 1]
  BY <1>0, <1>1, Posted
<1>3. \A q \in Procs, t \in Objs : Holds(q, t)' => Holds(q, t)
  BY DEF Holds
<1>4. semVal'[semName] = 1 /\ \A t \in Objs : t # semName => semVal'[t] = semVal[t]
  BY <1>0, <1>1, <1>2 DEF TypeOK
<1>5. ASSUME NEW q \in Procs, ppc'[q] = "trylock", plock'[q] # semName' PROVE semVal'[plock'[q]] = 0
  <2>1. ppc[q] = "trylock" /\ plock'[q] = plock[q] /\ plock[q] \in Objs
    BY <1>0, <1>5 DEF Locks, TypeOK
  <2> QED BY <1>0, <1>4, <1>5, <2>1 DEF NamedLock
<1>6. \A q \in Procs : ppc'[q] = "run" => semName # NoObj /\ kpc # "unlinksem"
  BY <1>1
<1> QED BY <1>0, <1>3, <1>4, <1>5, <1>6 DEF NamedLock

\* The three steps that post the lock: the page is there, registering failed, or
\* the session is accepted
LEMMA PostCInv == ASSUME CInv, TInv', UNCHANGED setting, NEW p \in Procs,
                         PageExists(p) \/ RegisterFail(p) \/ Accept(p)
                  PROVE  CInv'
<1> USE NoObjIsNone DEF semVars, pageVars, procVars, connVars, ctrlVars, PGoto, PEnd
<1>0. /\ TypeOK /\ Locks /\ NamedLock /\ OneOwner /\ EndsAlone /\ Records /\ Calm'
  BY CalmParts DEF Calm
<1>1. NamedLock'
  <2>1. Holds(p, plock[p]) /\ Unlock(plock[p])
    BY DEF PageExists, RegisterFail, Accept, Holds
  <2>2. /\ \A q \in Procs : q # p => ppc'[q] = ppc[q] /\ plock'[q] = plock[q]
        /\ ppc'[p] \in {"none", "run"} /\ UNCHANGED <<semName, kpc, ksem>>
    BY <1>0 DEF PageExists, RegisterFail, Accept, TypeOK
  <2> QED BY <2>1, <2>2, PostNamed
<1>2. CASE PageExists(p)
  <2>1. rec[p] # "disconnect"
    BY <1>0, <1>2 DEF Records, PageExists
  <2>2. Calm' /\ OneOwner' /\ EndsAlone' /\ Records'
    BY <1>0, <1>2, <2>1, Outside DEF PageExists, Owning, TypeOK
  <2> QED BY <1>1, <2>2 DEF CInv
<1>3. CASE RegisterFail(p)
  <2>1. /\ ppc[p] = "register" /\ ppc' = [ppc EXCEPT ![p] = "none"] /\ ppage' = [ppage EXCEPT ![p] = NoObj]
        /\ shouldSleep' = [shouldSleep EXCEPT ![p] = FALSE] /\ UNCHANGED <<pageVars, rec, ctrlVars>>
    BY <1>3 DEF RegisterFail
  <2>2. \A q \in Procs : /\ Owning(q)' <=> Owning(q) /\ q # p
                         /\ Paged(q)' <=> Paged(q)
                         /\ Unlinking(q)' <=> Unlinking(q)
                         /\ Paged(q) => q # p
    BY <1>0, <2>1 DEF Owning, Paged, Unlinking, TypeOK
  <2>3. OneOwner'
    BY <1>0, <2>1, <2>2 DEF OneOwner, TypeOK
  <2>4. EndsAlone'
    BY <1>0, <2>1, <2>2 DEF EndsAlone, TypeOK
  <2>5. Records'
    BY <1>0, <2>1, <2>2 DEF Records, TypeOK, Owning
  <2> QED BY <1>0, <1>1, <2>3, <2>4, <2>5 DEF CInv
<1>4. CASE Accept(p)
  <2>1. /\ ppc[p] = "trigger" /\ ppc' = [ppc EXCEPT ![p] = "run"]
        /\ UNCHANGED <<pageVars, plock, ppage, shouldSleep, rec, ctrlVars>>
    BY <1>4 DEF Accept
  <2>2. \A q \in Procs : /\ Owning(q)' <=> Owning(q)
                         /\ Paged(q)' <=> Paged(q)
                         /\ Unlinking(q)' <=> Unlinking(q)
    BY <1>0, <2>1 DEF Owning, Paged, Unlinking, TypeOK
  <2>3. OneOwner'
    BY <1>0, <2>1, <2>2 DEF OneOwner
  <2>4. EndsAlone'
    BY <1>0, <2>1, <2>2 DEF EndsAlone, TypeOK
  <2>5. Records'
    BY <1>0, <2>1, <2>2 DEF Records, TypeOK, Owning
  <2> QED BY <1>0, <1>1, <2>3, <2>4, <2>5 DEF CInv
<1> QED BY <1>2, <1>3, <1>4

\* A step that leaves the locks and their holders as they are
LEMMA KeepNamed == ASSUME CInv, UNCHANGED <<semName, semVal, kpc, ksem>>,
                          \A q \in Procs : /\ \A s \in Objs : Holds(q, s)' <=> Holds(q, s)
                                           /\ ppc'[q] = "trylock" => ppc[q] = "trylock" /\ plock'[q] = plock[q]
                                           /\ ppc'[q] = "run" => ppc[q] = "run"
                   PROVE  NamedLock'
<1>0. TypeOK /\ NamedLock
  BY CalmParts
<1>1. semName # NoObj => semName \in Objs
  BY <1>0 DEF TypeOK
<1>2. (semName' # NoObj /\ semVal'[semName'] = 0) => CtrlHolds(semName)' \/ \E p \in Procs : Holds(p, semName)'
  BY <1>0, <1>1 DEF NamedLock, CtrlHolds, Holds
<1> QED BY <1>0, <1>2 DEF NamedLock

\* The one who owns the session is the only one
LEMMA OwnerAlone == ASSUME CInv, NEW p \in Procs, Owning(p)
                    PROVE  \A q \in Procs : q # p => ~Owning(q) /\ ~Paged(q) /\ ~Unlinking(q)
BY CalmParts DEF OneOwner, Owning, Paged, Unlinking

\* The steps of a boot
LEMMA BootCInv == ASSUME CInv, TInv', UNCHANGED setting, NEW p \in Procs,
                         LockTimeout(p) \/ PageAbsent(p) \/ Register(p) \/ MasterOpenSem(p) \/ Attach(p)
                  PROVE  CInv'
<1> USE NoObjIsNone DEF semVars, pageVars, procVars, connVars, ctrlVars, PGoto, PEnd
<1>0. /\ TypeOK /\ Locks /\ NamedLock /\ OneOwner /\ EndsAlone /\ Records /\ Calm'
  BY CalmParts DEF Calm
<1>1. NamedLock'
  <2>1. UNCHANGED <<semName, semVal, kpc, ksem>>
    BY DEF LockTimeout, PageAbsent, Register, MasterOpenSem, Attach
  <2>2. \A q \in Procs : /\ \A s \in Objs : Holds(q, s)' <=> Holds(q, s)
                         /\ ppc'[q] = "trylock" => ppc[q] = "trylock" /\ plock'[q] = plock[q]
                         /\ ppc'[q] = "run" => ppc[q] = "run"
    BY <1>0 DEF LockTimeout, PageAbsent, Register, MasterOpenSem, Attach, Holds, TypeOK
  <2> QED BY <2>1, <2>2, KeepNamed
<1>2. CASE LockTimeout(p)
  <2>1. /\ ppc[p] = "trylock" /\ ppc'[p] = "none" /\ ~shouldSleep'[p] /\ UNCHANGED <<rec, pageVars, ctrlVars>>
        /\ \A q \in Procs : q # p => ppc'[q] = ppc[q] /\ shouldSleep'[q] = shouldSleep[q]
        /\ \A q \in Procs : q # p => ppage'[q] = ppage[q]
    BY <1>0, <1>2 DEF LockTimeout, TypeOK
  <2>2. ~Owning(p) /\ ~Owning(p)' /\ rec[p] # "disconnect"
    BY <1>0, <2>1 DEF Owning, Records
  <2>3. Calm' /\ OneOwner' /\ EndsAlone' /\ Records'
    BY <2>1, <2>2, Outside
  <2> QED BY <1>1, <2>3 DEF CInv
<1>3. CASE PageAbsent(p)
  <2>1. /\ ppc[p] = "check" /\ pageName = NoObj /\ ppc' = [ppc EXCEPT ![p] = "register"]
        /\ UNCHANGED <<pageVars, ppage, shouldSleep, rec, ctrlVars>>
    BY <1>3 DEF PageAbsent
  <2>2. \A q \in Procs : ~Paged(q) /\ ~Owning(q) /\ ~Unlinking(q)
    BY <1>0, <2>1, OneHolder DEF OneOwner, Owning, Paged, Unlinking
  <2>3. \A q \in Procs : ~Paged(q)' /\ (Owning(q)' <=> q = p) /\ ~Unlinking(q)'
    BY <1>0, <2>1, <2>2 DEF Owning, Paged, Unlinking, TypeOK
  <2>4. OneOwner' /\ EndsAlone'
    BY <1>0, <2>1, <2>3 DEF OneOwner, EndsAlone, TypeOK
  <2>5. Records'
    BY <1>0, <2>1, <2>2, <2>3 DEF Records, TypeOK
  <2> QED BY <1>0, <1>1, <2>4, <2>5 DEF CInv
<1>4. CASE Register(p)
  <2>1. /\ ppc[p] = "register" /\ ppc' = [ppc EXCEPT ![p] = "opensem"] /\ rec' = [rec EXCEPT ![p] = "live"]
        /\ UNCHANGED <<pageVars, ppage, shouldSleep, ctrlVars, kid>>
    BY <1>4 DEF Register
  <2>2. \A q \in Procs : q # p => ~Owning(q) /\ ~Paged(q) /\ ~Unlinking(q)
    BY <2>1, OwnerAlone DEF Owning
  <2>3. \A q \in Procs : ~Paged(q) /\ ~Paged(q)' /\ (Owning(q)' <=> q = p) /\ ~Unlinking(q)'
    BY <1>0, <2>1, <2>2 DEF Owning, Paged, Unlinking, TypeOK
  <2>4. OneOwner' /\ EndsAlone'
    BY <1>0, <2>1, <2>3 DEF OneOwner, EndsAlone, TypeOK
  <2>5. \A q \in Procs : /\ rec'[q] = "live" <=> (ppc'[q] = "ending" \/ (Owning(q)' /\ ppc'[q] # "register"))
                         /\ rec'[q] = "disconnect" => ppc'[q] = "none"
    BY <1>0, <2>1, <2>2, <2>3 DEF Records, TypeOK
  <2>6. kpc # "idle" => kid # p
    BY <1>0, <2>1 DEF Records
  <2>7. Records'
    BY <1>0, <2>1, <2>5, <2>6 DEF Records, TypeOK
  <2> QED BY <1>0, <1>1, <2>4, <2>7 DEF CInv
<1>5. CASE MasterOpenSem(p)
  <2>1. /\ ppc[p] = "opensem" /\ ppc' = [ppc EXCEPT ![p] = "attach"]
        /\ UNCHANGED <<pageVars, ppage, shouldSleep, rec, ctrlVars>>
    BY <1>5 DEF MasterOpenSem
  <2>2. \A q \in Procs : (Owning(q)' <=> Owning(q)) /\ (Paged(q)' <=> Paged(q)) /\ (Unlinking(q)' <=> Unlinking(q))
    BY <1>0, <2>1 DEF Owning, Paged, Unlinking, TypeOK
  <2>3. \A q \in Procs : ~Unlinking(q)
    BY <2>1, OwnerAlone DEF Owning, Unlinking
  <2>4. OneOwner' /\ EndsAlone'
    BY <1>0, <2>1, <2>2, <2>3 DEF OneOwner, EndsAlone, TypeOK
  <2>5. Records'
    BY <1>0, <2>1, <2>2 DEF Records, TypeOK, Owning
  <2> QED BY <1>0, <1>1, <2>4, <2>5 DEF CInv
<1>6. CASE Attach(p)
  <2>1. /\ ppc[p] = "attach" /\ ppc' = [ppc EXCEPT ![p] = "trigger"]
        /\ UNCHANGED <<shouldSleep, rec, ctrlVars>>
    BY <1>6 DEF Attach
  <2>2. \A q \in Procs : q # p => ~Owning(q) /\ ~Paged(q) /\ ~Unlinking(q)
    BY <2>1, OwnerAlone DEF Owning
  <2>3. pageName = NoObj
    BY <1>0, <2>1, <2>2 DEF OneOwner, Paged
  <2>4. pageName' \in Objs /\ ~pageExit'[pageName'] /\ ppage' = [ppage EXCEPT ![p] = pageName']
    BY <1>0, <1>6, <2>3 DEF Attach, TypeOK
  <2>5. \A q \in Procs : (Paged(q)' <=> q = p) /\ (Owning(q)' <=> q = p) /\ ~Unlinking(q)'
    BY <1>0, <2>1, <2>2 DEF Owning, Paged, Unlinking, TypeOK
  <2>6. OneOwner' /\ EndsAlone'
    BY <1>0, <2>1, <2>4, <2>5 DEF OneOwner, EndsAlone, TypeOK
  <2>7. Records'
    BY <1>0, <2>1, <2>2, <2>5 DEF Records, TypeOK, Owning
  <2> QED BY <1>0, <1>1, <2>6, <2>7 DEF CInv
<1> QED BY <1>2, <1>3, <1>4, <1>5, <1>6

\* The end of a session
LEMMA EndCInv == ASSUME CInv, TInv', UNCHANGED setting, NEW p \in Procs,
                        EndLoop(p) \/ UnlinkSem(p) \/ UnlinkPage(p) \/ End(p)
                 PROVE  CInv'
<1> USE NoObjIsNone DEF semVars, pageVars, procVars, connVars, ctrlVars, PGoto, PEnd
<1>0. /\ TypeOK /\ Locks /\ NamedLock /\ OneOwner /\ EndsAlone /\ Records /\ Calm' /\ ~setting.upset
  BY CalmParts DEF Calm
<1>1. CASE EndLoop(p)
  <2>1. /\ ppc[p] = "run" /\ ppc' = [ppc EXCEPT ![p] = "unlinksem"] /\ Settled /\ setExit(p)
        /\ UNCHANGED <<semName, semVal, pageName, plock, ppage, shouldSleep, rec, ctrlVars>>
    BY <1>0, <1>1 DEF EndLoop
  <2>2. \A q \in Procs : q # p => ~Owning(q) /\ ~Paged(q) /\ ~Unlinking(q)
    BY <2>1, OwnerAlone DEF Owning
  <2>3. \A q \in Procs : /\ Owning(q)' <=> Owning(q)
                         /\ Paged(q)' <=> Paged(q)
                         /\ Unlinking(q)' <=> q = p
    BY <1>0, <2>1, <2>2 DEF Owning, Paged, Unlinking, TypeOK
  <2>4. \A q \in Procs : q # p => ppc[q] = "none"
    BY <1>0, <2>1, <2>2 DEF Settled, EndsAlone, Owning, TypeOK, ProcStates
  <2>5. \A q \in Procs : rec[q] # "disconnect"
    BY <1>0, <2>1 DEF Settled, Records
  <2>6. kpc = "idle"
    BY <2>1 DEF Settled
  <2>7. OneOwner'
    BY <1>0, <2>1, <2>2, <2>3 DEF OneOwner, Owning, Paged
  <2>8. EndsAlone'
    BY <1>0, <2>1, <2>3, <2>4, <2>5, <2>6 DEF EndsAlone, TypeOK
  <2>9. Records'
    BY <1>0, <2>1, <2>3, <2>5 DEF Records, TypeOK, Owning
  <2>10. \A q \in Procs : /\ \A s \in Objs : Holds(q, s)' <=> Holds(q, s)
                          /\ ppc'[q] = "trylock" => ppc[q] = "trylock" /\ plock'[q] = plock[q]
                          /\ ppc'[q] = "run" => ppc[q] = "run"
    BY <1>0, <2>1 DEF Holds, TypeOK
  <2>11. NamedLock'
    BY <2>1, <2>10, KeepNamed
  <2> QED BY <1>0, <2>7, <2>8, <2>9, <2>11 DEF CInv
<1>2. CASE UnlinkSem(p)
  <2>1. /\ ppc[p] = "unlinksem" /\ ppc' = [ppc EXCEPT ![p] = "unlinkpage"] /\ semName' = NoObj
        /\ UNCHANGED <<semVal, pageVars, plock, ppage, shouldSleep, rec, ctrlVars>>
    BY <1>2 DEF UnlinkSem
  <2>2. kpc = "idle" /\ \A q \in Procs : rec[q] # "disconnect" /\ (q # p => ppc[q] = "none")
    BY <1>0, <2>1 DEF EndsAlone, Unlinking
  <2>3. \A q \in Procs : ppc'[q] \in {"none", "unlinkpage"}
    BY <1>0, <2>1, <2>2 DEF TypeOK
  <2>4. \A q \in Procs : /\ Owning(q)' <=> Owning(q)
                         /\ Paged(q)' <=> Paged(q)
                         /\ Unlinking(q)' <=> Unlinking(q)
    BY <1>0, <2>1 DEF Owning, Paged, Unlinking, TypeOK
  <2>5. OneOwner' /\ EndsAlone'
    BY <1>0, <2>1, <2>2, <2>3, <2>4 DEF OneOwner, EndsAlone
  <2>6. Records'
    BY <1>0, <2>1, <2>2, <2>3, <2>4 DEF Records, TypeOK, Owning
  <2>7. NamedLock'
    BY <2>1, <2>2, <2>3 DEF NamedLock, Holds
  <2> QED BY <1>0, <2>5, <2>6, <2>7 DEF CInv
<1>3. CASE UnlinkPage(p)
  <2>1. /\ ppc[p] = "unlinkpage" /\ ppc' = [ppc EXCEPT ![p] = "ending"] /\ pageName' = NoObj
        /\ UNCHANGED <<semName, semVal, pageExit, plock, ppage, shouldSleep, rec, ctrlVars>>
    BY <1>3 DEF UnlinkPage
  <2>2. kpc = "idle" /\ \A q \in Procs : rec[q] # "disconnect" /\ (q # p => ppc[q] = "none")
    BY <1>0, <2>1 DEF EndsAlone, Unlinking
  <2>3. \A q \in Procs : ppc'[q] \in {"none", "ending"} /\ ~Owning(q)' /\ ~Paged(q)' /\ ~Unlinking(q)'
    BY <1>0, <2>1, <2>2 DEF TypeOK, Owning, Paged, Unlinking
  <2>4. OneOwner' /\ EndsAlone'
    BY <1>0, <2>1, <2>3 DEF OneOwner, EndsAlone
  <2>5. Records'
    BY <1>0, <2>1, <2>2, <2>3 DEF Records, TypeOK, Owning
  <2>6. \A q \in Procs : /\ \A s \in Objs : Holds(q, s)' <=> Holds(q, s)
                         /\ ppc'[q] # "trylock" /\ ppc'[q] # "run"
    BY <1>0, <2>1, <2>2, <2>3 DEF Holds, TypeOK
  <2>7. NamedLock'
    BY <2>1, <2>6, KeepNamed
  <2> QED BY <1>0, <2>4, <2>5, <2>7 DEF CInv
<1>4. CASE End(p)
  <2>1. /\ ppc[p] = "ending" /\ ppc' = [ppc EXCEPT ![p] = "none"] /\ rec' = [rec EXCEPT ![p] = "disconnect"]
        /\ ppage' = [ppage EXCEPT ![p] = NoObj] /\ shouldSleep' = [shouldSleep EXCEPT ![p] = FALSE]
        /\ plock' = [plock EXCEPT ![p] = NoObj]
        /\ UNCHANGED <<semName, semVal, pageVars, ctrlVars>>
    BY <1>4 DEF End, Return
  <2>2. \A q \in Procs : /\ Owning(q)' <=> Owning(q)
                         /\ Paged(q)' <=> Paged(q)
                         /\ Unlinking(q)' <=> Unlinking(q)
                         /\ Paged(q) => q # p
    BY <1>0, <2>1 DEF Owning, Paged, Unlinking, TypeOK
  <2>3. \A q \in Procs : ~Unlinking(q)
    <3>1. \A q \in Procs : Unlinking(q) => p # q
      BY <2>1 DEF Unlinking
    <3> QED BY <1>0, <2>1, <3>1 DEF EndsAlone
  <2>4. OneOwner' /\ EndsAlone'
    BY <1>0, <2>1, <2>2, <2>3 DEF OneOwner, EndsAlone, TypeOK
  <2>5. \A q \in Procs : /\ rec'[q] = "live" <=> (ppc'[q] = "ending" \/ (Owning(q)' /\ ppc'[q] # "register"))
                         /\ rec'[q] = "disconnect" => ppc'[q] = "none"
    BY <1>0, <2>1, <2>2 DEF Records, TypeOK, Owning
  <2>6. Records'
    BY <1>0, <2>1, <2>5 DEF Records, TypeOK
  <2>7. \A q \in Procs : /\ \A s \in Objs : Holds(q, s)' <=> Holds(q, s)
                         /\ ppc'[q] = "trylock" => ppc[q] = "trylock" /\ plock'[q] = plock[q]
                         /\ ppc'[q] = "run" => ppc[q] = "run"
    BY <1>0, <2>1 DEF Holds, TypeOK
  <2>8. NamedLock'
    BY <2>1, <2>7, KeepNamed
  <2> QED BY <1>0, <2>4, <2>6, <2>8 DEF CInv
<1> QED BY <1>1, <1>2, <1>3, <1>4

\* The controller handles the record of a session that ended
LEMMA CtrlCInv == ASSUME CInv, TInv', UNCHANGED setting, Controller PROVE CInv'
<1> USE NoObjIsNone DEF semVars, pageVars, procVars, connVars, ctrlVars, CtrlDone
<1>0. /\ TInv /\ TypeOK /\ Locks /\ NamedLock /\ OneOwner /\ EndsAlone /\ Records /\ Calm'
  BY CalmParts DEF Calm
<1>1. ASSUME UNCHANGED <<pageName, pageExit, ppc, ppage, shouldSleep>>,
             kpc # "idle" \/ \E q \in Procs : rec[q] = "disconnect"
      PROVE  /\ OneOwner' /\ EndsAlone' /\ \A q \in Procs : (Owning(q)' <=> Owning(q)) /\ ~Unlinking(q)
  <2>1. \A q \in Procs : ~Unlinking(q)
    BY <1>0, <1>1 DEF EndsAlone
  <2>2. \A q \in Procs : (Owning(q)' <=> Owning(q)) /\ (Paged(q)' <=> Paged(q)) /\ (Unlinking(q)' <=> Unlinking(q))
    BY <1>1 DEF Owning, Paged, Unlinking
  <2>3. OneOwner'
    BY <1>0, <1>1, <2>2 DEF OneOwner
  <2>4. EndsAlone'
    BY <1>0, <1>1, <2>1, <2>2 DEF EndsAlone
  <2> QED BY <2>1, <2>2, <2>3, <2>4
<1>2. CASE CtrlOpen
  <2>1. PICK s \in Objs : OpenOrCreate(s) /\ ksem' = s
    BY <1>2 DEF CtrlOpen
  <2>2. kpc = "idle" /\ kpc' = "trylock" /\ kid' \in Procs /\ UNCHANGED <<pageVars, procVars, connVars>>
    BY <1>2 DEF CtrlOpen
  <2>3. rec[kid'] = "disconnect"
    <3>1. rec[kid'] = "disconnect" \/ (rec[kid'] = "live" /\ ppc[kid'] = "none")
      BY <1>2 DEF CtrlOpen
    <3> QED BY <1>0, <2>2, <3>1 DEF Records, Owning
  <2>4. OneOwner' /\ EndsAlone' /\ \A q \in Procs : Owning(q)' <=> Owning(q)
    BY <1>1, <2>2, <2>3
  <2>5. Records'
    BY <1>0, <2>2, <2>3, <2>4 DEF Records
  <2>6. semName' = s
    BY <1>0, <2>1, Opened
  <2>7. CASE semName # NoObj /\ s = semName /\ semVal' = semVal
    <3>1. NamedLock'
      BY <1>0, <2>1, <2>2, <2>6, <2>7 DEF NamedLock, CtrlHolds, Holds
    <3> QED BY <1>0, <2>4, <2>5, <3>1 DEF CInv
  <2>8. CASE semName = NoObj /\ FreeSem(s) /\ semVal' = [semVal EXCEPT ![s] = 1]
    <3>1. \A q \in Procs, t \in Objs : ~Holds(q, t) /\ ~Holds(q, t)' /\ ppc'[q] # "run"
      BY <1>0, <2>2, <2>8 DEF NamedLock, Holds
    <3>2. ASSUME NEW q \in Procs, ppc'[q] = "trylock", plock'[q] # semName' PROVE semVal'[plock'[q]] = 0
      <4>1. plock[q] \in Objs /\ plock[q] # s /\ plock[q] # semName /\ plock'[q] = plock[q] /\ ppc[q] = "trylock"
        BY <1>0, <2>2, <2>8, <3>2 DEF FreeSem, Locks, TypeOK
      <4> QED BY <1>0, <2>8, <4>1 DEF NamedLock, TypeOK
    <3>3. semVal'[s] = 1
      BY <1>0, <2>8 DEF TypeOK
    <3>4. NamedLock'
      BY <2>1, <2>2, <2>6, <3>1, <3>2, <3>3 DEF NamedLock
    <3> QED BY <1>0, <2>4, <2>5, <3>4 DEF CInv
  <2> QED BY <1>0, <2>1, <2>7, <2>8, Opened
<1>3. CASE CtrlLock
  <2>1. /\ kpc = "trylock" /\ Lock(ksem) /\ kpc' = "check" /\ ksem = semName
        /\ UNCHANGED <<semName, pageVars, procVars, connVars, ksem, kid>>
    BY <1>0, <1>3 DEF CtrlLock, NamedLock
  <2>2. ksem \in Objs
    BY <1>0, <2>1 DEF Locks, TypeOK
  <2>3. semVal' = [semVal EXCEPT ![semName] = 0] /\ \A q \in Procs : ~Holds(q, semName)
    BY <1>0, <2>1, <2>2, Taken
  <2>4. OneOwner' /\ EndsAlone' /\ \A q \in Procs : Owning(q)' <=> Owning(q)
    BY <1>1, <2>1
  <2>5. Records'
    BY <1>0, <2>1, <2>4 DEF Records
  <2>6. \A t \in Objs : semVal[t] = 0 => semVal'[t] = 0
    BY <1>0, <2>3 DEF TypeOK
  <2>7. \A q \in Procs : (ppc'[q] = "trylock" /\ plock'[q] # semName') => semVal'[plock'[q]] = 0
    BY <1>0, <2>1, <2>6 DEF NamedLock, Locks, TypeOK
  <2>8. CtrlHolds(semName)'
    BY <2>1 DEF CtrlHolds
  <2>9. NamedLock'
    BY <1>0, <2>1, <2>7, <2>8 DEF NamedLock, Holds
  <2> QED BY <1>0, <2>4, <2>5, <2>9 DEF CInv
<1>4. CASE CtrlKeep
  <2>1. /\ kpc = "check" /\ Unlock(ksem) /\ kpc' = "idle" /\ ksem' = NoObj /\ rec' = [rec EXCEPT ![kid] = "none"]
        /\ UNCHANGED <<semName, pageVars, connVars, ppc, plock, ppage, shouldSleep, kid>>
    BY <1>4 DEF CtrlKeep
  <2>2. ksem \in Objs /\ ksem = semName /\ semVal[ksem] = 0
    BY <1>0, <2>1 DEF Locks, TypeOK, CtrlHolds, NamedLock
  <2>3. semVal' = [semVal EXCEPT ![semName] = 1]
    BY <1>0, <2>1, <2>2, Posted
  <2>4. rec[kid] = "disconnect" /\ ppc[kid] = "none"
    BY <1>0, <2>1 DEF Records, TypeOK
  <2>5. OneOwner' /\ \A q \in Procs : (Owning(q)' <=> Owning(q)) /\ ~Unlinking(q)
    BY <1>1, <2>1
  <2>6. EndsAlone'
    BY <1>1, <2>1
  <2>7. Records'
    BY <1>0, <2>1, <2>4, <2>5 DEF Records, TypeOK, Owning
  <2>8. semVal'[semName] = 1 /\ \A t \in Objs : t # semName => semVal'[t] = semVal[t]
    BY <1>0, <2>2, <2>3 DEF TypeOK
  <2>9. \A q \in Procs : (ppc'[q] = "trylock" /\ plock'[q] # semName') => semVal'[plock'[q]] = 0
    BY <1>0, <2>1, <2>8 DEF NamedLock, Locks, TypeOK
  <2>10. NamedLock'
    BY <1>0, <2>1, <2>8, <2>9 DEF NamedLock, Holds
  <2> QED BY <1>0, <2>5, <2>6, <2>7, <2>10 DEF CInv
<1>5. CASE CtrlGone
  <2>1. /\ kpc = "check" /\ ~sessIdExists /\ UNCHANGED <<semVars, pageVars, procVars, connVars, ksem, kid>>
    BY <1>5 DEF CtrlGone
  <2>2. \A q \in Procs : ~Paged(q)
    BY <1>0, <2>1 DEF sessIdExists, Records, Owning, Paged
  <2>3. pageName = NoObj /\ kpc' = "unlinksem"
    BY <1>0, <1>5, <2>2 DEF OneOwner, CtrlGone
  <2>4. OneOwner' /\ EndsAlone' /\ \A q \in Procs : Owning(q)' <=> Owning(q)
    BY <1>1, <2>1
  <2>5. Records'
    BY <1>0, <2>1, <2>3, <2>4 DEF Records
  <2>6. \A q \in Procs : ppc[q] # "run"
    BY <2>2 DEF Paged
  <2>7. NamedLock'
    BY <1>0, <2>1, <2>3, <2>6 DEF NamedLock, Holds, CtrlHolds
  <2> QED BY <1>0, <2>4, <2>5, <2>7 DEF CInv
<1>6. CASE CtrlUnlinkSem
  <2>1. /\ kpc = "unlinksem" /\ semName' = NoObj /\ kpc' = "idle" /\ ksem' = NoObj
        /\ rec' = [rec EXCEPT ![kid] = "none"]
        /\ UNCHANGED <<semVal, pageVars, connVars, ppc, plock, ppage, shouldSleep, kid>>
    BY <1>0, <1>6 DEF CtrlUnlinkSem, Records
  <2>2. ksem \in Objs /\ ksem = semName /\ semVal[semName] = 0 /\ CtrlHolds(ksem)
    BY <1>0, <2>1 DEF Locks, TypeOK, CtrlHolds, NamedLock
  <2>3. rec[kid] = "disconnect" /\ ppc[kid] = "none"
    BY <1>0, <2>1 DEF Records, TypeOK
  <2>4. OneOwner' /\ EndsAlone' /\ \A q \in Procs : Owning(q)' <=> Owning(q)
    BY <1>1, <2>1
  <2>5. Records'
    BY <1>0, <2>1, <2>3, <2>4 DEF Records, TypeOK, Owning
  <2>6. \A q \in Procs, t \in Objs : ~Holds(q, t)'
    <3>1. \A q \in Procs, t \in Objs : ~Holds(q, t)
      BY <1>0, <2>2 DEF Locks, NamedLock
    <3> QED BY <2>1, <3>1 DEF Holds
  <2>7. \A q \in Procs : ppc'[q] # "run"
    BY <1>0, <2>1 DEF NamedLock
  <2>8. \A q \in Procs : ppc'[q] = "trylock" => semVal'[plock'[q]] = 0
    BY <1>0, <2>1, <2>2 DEF NamedLock
  <2>9. NamedLock'
    BY <2>1, <2>6, <2>7, <2>8 DEF NamedLock
  <2> QED BY <1>0, <2>4, <2>5, <2>9 DEF CInv
<1> QED BY <1>2, <1>3, <1>4, <1>5, <1>6, CtrlCalm DEF Controller

\* Every step of a calm session keeps CInv
LEMMA NextCInv == ASSUME CInv, [Next]_vars PROVE CInv'
<1>1. TInv' /\ UNCHANGED setting
  BY NextTInv DEF CInv, Next, vars
<1>2. CASE UNCHANGED vars
  BY <1>2 DEF vars, semVars, pageVars, procVars, connVars, ctrlVars, CInv, TInv, TypeOK, Locks, Calm, NamedLock,
              OneOwner, EndsAlone, Records, Owning, Paged, Unlinking, Holds, CtrlHolds
<1>3. ASSUME NEW p \in Procs, BootProc(p) \/ RunProc(p) \/ Crash(p) PROVE CInv'
  BY <1>1, <1>3, NotCalm, OpenLockCInv, TryLockCInv, PostCInv, BootCInv, EndCInv DEF BootProc, RunProc
<1> QED BY <1>1, <1>2, <1>3, ConnCInv, CtrlCInv DEF Next

\* The settings in which nothing goes wrong
AllCalm == \A s \in Settings : s.crashAt = {} /\ ~s.upset

\* CInv is an inductive invariant when nothing upsets the session
LEMMA CalmInvariant == ASSUME AllCalm PROVE Spec => []CInv
<1>1. Init => CInv
  <2> SUFFICES ASSUME Init PROVE CInv OBVIOUS
  <2>1. TInv /\ Calm
    BY InitTInv DEF Init, AllCalm, Calm
  <2>2. NamedLock /\ OneOwner /\ EndsAlone /\ Records
    BY DEF Init, NamedLock, OneOwner, EndsAlone, Records, Owning, Paged, Unlinking, Holds
  <2> QED BY <2>1, <2>2 DEF CInv
<1>2. CInv /\ [Next]_vars => CInv'
  BY NextCInv
<1> QED BY <1>1, <1>2, PTL DEF Spec

\* "Try to lock to ensure we are the only process initialising this session":
\* for any number of connections and processes no two serve the session, while
\* nobody dies, is stopped or rejected
THEOREM SessionOneServes == ASSUME AllCalm PROVE Spec => []OneServes
<1>1. CInv => OneServes
  BY CalmParts DEF OneServes, Serving, OneOwner, Owning
<1> QED BY <1>1, CalmInvariant, PTL

\* ... and its two names lead a new connection to its page
THEOREM SessionJoinable == ASSUME AllCalm PROVE Spec => []Joinable
<1>1. CInv => Joinable
  BY CalmParts DEF Joinable, OneOwner, Paged, NamedLock
<1> QED BY <1>1, CalmInvariant, PTL

\* ... and no page is left when all is over
THEOREM SessionCleanedUp == ASSUME AllCalm PROVE Spec => []CleanedUp
<1>1. CInv => CleanedUp
  BY CalmParts DEF CleanedUp, AllEnded, OneOwner, Paged
<1> QED BY <1>1, CalmInvariant, PTL
=============================================================================
