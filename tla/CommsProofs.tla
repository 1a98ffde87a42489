---------------------------- MODULE CommsProofs ----------------------------
(***************************************************************************)
(* For any number of clients, records and finishAll rounds: a running      *)
(* client keeps the record it claimed (RecordKept), and finishAll signals  *)
(* no process that registered with NOKILL (NoKillSafe).                    *)
(***************************************************************************)
EXTENDS Comms, TLAPS

\* An empty page satisfies the invariant
LEMMA InitIInv == Init => IInv
<1> USE CommsAssumption
<1> SUFFICES ASSUME Init PROVE IInv OBVIOUS
<1>1. TypeOK
  <2>1. exit \in BOOLEAN /\ mkeep \in BOOLEAN
    BY Zenon DEF Init
  <2> QED BY <2>1 DEF Init, TypeOK, Index, INVALID, ClientStates, MasterStates
<1>2. Registered = {}
  BY DEF Init, Registered
<1>3. Bounds /\ Claims
  BY DEF Init, Bounds, Claims
<1>4. Owners /\ MasterSees /\ NoKillKept
  BY DEF Init, Owners, MasterSees, NoKillKept, INVALID
<1>5. RecordKept /\ NoKillSafe
  BY <1>2 DEF Init, RecordKept, NoKillSafe
<1> QED BY <1>1, <1>3, <1>4, <1>5 DEF IInv

\* A step of a client preserves the invariant
LEMMA ClientIInv == ASSUME IInv, NEW c \in Clients, Client(c) PROVE IInv'
<1> USE CommsAssumption
<1> USE DEF IInv, TypeOK, Bounds, Claims, Owners, RecordKept, Registered, MasterSees,
            NoKillKept, NoKillSafe, Index, INVALID, pageVars, masterVars, Goto
<1>1. CASE Open(c)
  BY <1>1 DEF Open, ClientStates
<1>2. CASE Scan(c)
  <2>1. CASE status[cidx[c]] = INVALID
    BY <1>2, <2>1 DEF Scan, ClientStates
  <2>2. CASE status[cidx[c]] # INVALID
    <3>1. /\ cpc[c] = "scan"
          /\ cidx' = [cidx EXCEPT ![c] = @ + 1] /\ cidx[c] + 1 \in 0 .. Records
          /\ UNCHANGED <<pageVars, cpc, crd, masterVars, sig>>
      BY <1>2, <2>2 DEF Scan
    <3>2. TypeOK'
      BY <3>1
    <3>3. Bounds' /\ Claims' /\ Owners'
      BY <3>1
    <3>4. RecordKept' /\ MasterSees' /\ NoKillKept' /\ NoKillSafe'
      BY <3>1
    <3> QED BY <3>2, <3>3, <3>4
  <2> QED BY <2>1, <2>2
<1>3. CASE ScanFull(c)
  BY <1>3 DEF ScanFull, ClientStates
<1>4. CASE Retry(c)
  BY <1>4 DEF Retry, ClientStates
<1>5. CASE Claim(c)
  BY <1>5 DEF Claim, ClientStates
<1>6. CASE Mark(c)
  <2> DEFINE new == {"ACTIVE"} \union defaultCommFlags(c)
  <2>1. /\ new \in SUBSET Flags /\ new # {} /\ "DISCONNECT" \notin new
        /\ c \in NoKill => "NOKILL" \in new
    BY DEF Flags, defaultCommFlags
  <2> HIDE DEF new
  <2>2. /\ cpc[c] = "mark" /\ cidx[c] \in Index /\ pid[cidx[c]] = c
        /\ status' = [status EXCEPT ![cidx[c]] = new] /\ status[cidx[c]] = {}
        /\ cpc' = [cpc EXCEPT ![c] = "grow"]
        /\ UNCHANGED <<pid, endPos, exit, sem, cidx, crd, masterVars, sig>>
    BY <1>6 DEF Mark, new
  <2>3. TypeOK'
    BY <2>1, <2>2 DEF ClientStates
  <2>4. Bounds' /\ Claims' /\ Owners'
    BY <2>1, <2>2
  <2>5. RecordKept' /\ MasterSees'
    BY <2>1, <2>2
  <2>6. NoKillKept' /\ NoKillSafe'
    BY <2>1, <2>2
  <2> QED BY <2>3, <2>4, <2>5, <2>6
<1>7. CASE Grow(c)
  BY <1>7 DEF Grow, ClientStates
<1>8. CASE EnterUser(c)
  <2>1. PICK new \in SUBSET Flags :
           /\ new # {} /\ "DISCONNECT" \notin new
           /\ c \in NoKill => "NOKILL" \in new
           /\ status' = [status EXCEPT ![cidx[c]] = new]
    BY <1>8 DEF EnterUser, Flags, defaultCommFlags
  <2>2. /\ cpc[c] = "claimed" /\ cidx[c] \in Index /\ pid[cidx[c]] = c
        /\ status[cidx[c]] # {} /\ "DISCONNECT" \notin status[cidx[c]]
        /\ cpc' = [cpc EXCEPT ![c] = "in"]
        /\ UNCHANGED <<pid, endPos, exit, sem, cidx, crd, masterVars, sig>>
    BY <1>8 DEF EnterUser
  <2>3. TypeOK'
    BY <2>1, <2>2 DEF ClientStates
  <2>4. Bounds' /\ Claims' /\ Owners'
    BY <2>1, <2>2
  <2>5. RecordKept' /\ MasterSees'
    BY <2>1, <2>2
  <2>6. NoKillKept' /\ NoKillSafe'
    BY <2>1, <2>2
  <2> QED BY <2>3, <2>4, <2>5, <2>6
<1>9. CASE LeaveRead(c)
  BY <1>9 DEF LeaveRead, ClientStates
<1>10. CASE LeaveWrite(c)
  BY <1>10 DEF LeaveWrite, ClientStates, Flags, Forget
<1>11. CASE Crash(c)
  BY <1>11 DEF Crash, ClientStates, Forget
<1>12. CASE Spawn(c)
  BY <1>12 DEF Spawn, ClientStates
<1> QED
  BY <1>1, <1>2, <1>3, <1>4, <1>5, <1>6, <1>7, <1>8, <1>9, <1>10, <1>11, <1>12
  DEF Client, Claiming, Using

\* A step of the master preserves the invariant
LEMMA MasterIInv == ASSUME IInv, Loop \/ Request \/ Finish PROVE IInv'
<1> USE CommsAssumption
<1> USE DEF IInv, TypeOK, Bounds, Claims, Owners, RecordKept, Registered, MasterSees,
            NoKillKept, NoKillSafe, Index, INVALID, pageVars, clientVars
<1>1. CASE LoopStart
  BY <1>1 DEF LoopStart, MasterStates
<1>2. CASE LoopRead
  BY <1>2 DEF LoopRead, MasterStates
<1>3. CASE LoopCheck
  <2>1. CASE "DISCONNECT" \in mrd
    BY <1>3, <2>1 DEF LoopCheck, MasterStates
  <2>2. CASE "DISCONNECT" \notin mrd /\ (pid[mid] = Nobody \/ Running(pid[mid]))
    BY <1>3, <2>2 DEF LoopCheck, LoopNext, MasterStates
  <2>3. CASE "DISCONNECT" \notin mrd /\ pid[mid] # Nobody /\ ~Running(pid[mid])
    <3>1. pid[mid] \notin Registered /\ \A c \in Registered : cidx[c] # mid
      BY <1>3, <2>3 DEF LoopCheck, Running
    <3> QED BY <1>3, <2>3, <3>1 DEF LoopCheck, LoopNext, MasterStates, Flags
  <2> QED BY <2>1, <2>2, <2>3
<1>4. CASE LoopReap
  BY <1>4 DEF LoopReap, LoopNext, MasterStates
<1>5. CASE LoopEnd
  BY <1>5 DEF LoopEnd, MasterStates, ForgetLoop
<1>6. CASE setRecordCount
  BY <1>6 DEF setRecordCount, MasterStates, ForgetLoop
<1>7. CASE RequestRead
  BY <1>7 DEF RequestRead, MasterStates
<1>8. CASE RequestWrite
  <2> DEFINE new == {"REQDISCONNECT"} \union mrd
  <2>1. /\ new \in SUBSET Flags /\ new # {}
        /\ "DISCONNECT" \in new <=> "DISCONNECT" \in mrd
        /\ "NOKILL" \in mrd => "NOKILL" \in new
    BY DEF Flags
  <2> HIDE DEF new
  <2>2. /\ mid \in Index /\ status' = [status EXCEPT ![mid] = new] /\ status[mid] # {}
        /\ UNCHANGED <<pid, endPos, exit, sem, clientVars, mround, mkeep, sig>>
    BY <1>8 DEF RequestWrite, new
  <2>3. TypeOK'
    BY <1>8, <2>1, <2>2 DEF RequestWrite, MasterStates, ForgetLoop
  <2>4. Bounds' /\ Claims' /\ Owners'
    BY <1>8, <2>1, <2>2 DEF RequestWrite
  <2>5. RecordKept'
    <3> SUFFICES ASSUME NEW d \in Registered
                 PROVE /\ pid[cidx[d]] = d /\ status'[cidx[d]] # {}
                       /\ "DISCONNECT" \notin status'[cidx[d]]
      BY <2>2 DEF clientVars
    <3>1. CASE cidx[d] = mid
      BY <1>8, <2>1, <2>2, <3>1 DEF RequestWrite
    <3>2. CASE cidx[d] # mid
      BY <2>2, <3>2
    <3> QED BY <3>1, <3>2
  <2>6. MasterSees'
    BY <1>8 DEF RequestWrite
  <2>7. NoKillKept' /\ NoKillSafe'
    BY <1>8, <2>1, <2>2 DEF RequestWrite
  <2> QED BY <2>3, <2>4, <2>5, <2>6, <2>7
<1>9. CASE finishAll
  <2>1. exit' \in BOOLEAN /\ mkeep' \in BOOLEAN
    BY <1>9, Zenon DEF finishAll
  <2> QED BY <1>9, <2>1 DEF finishAll, MasterStates
<1>10. CASE FinishSkip
  BY <1>10 DEF FinishSkip, MasterStates
<1>11. CASE FinishRead
  <2>1. mkeep' \in BOOLEAN
    BY <1>11, Zenon DEF FinishRead
  <2>2. mid \in Index /\ pid[mid] \in Clients /\ status[mid] \in SUBSET Flags
    BY <1>11 DEF FinishRead
  <2>3. sig' \in SUBSET Clients /\ NoKillSafe'
    BY <1>11, <2>2 DEF FinishRead
  <2> QED BY <1>11, <2>1, <2>2, <2>3 DEF FinishRead, MasterStates
<1>12. CASE FinishWrite
  <2> DEFINE new == {"REQDISCONNECT"} \union mrd
  <2>1. /\ new \in SUBSET Flags /\ new # {}
        /\ "DISCONNECT" \in new <=> "DISCONNECT" \in mrd
        /\ "NOKILL" \in mrd => "NOKILL" \in new
    BY DEF Flags
  <2> HIDE DEF new
  <2>2. /\ mid \in Index /\ status' = [status EXCEPT ![mid] = new] /\ status[mid] # {}
        /\ UNCHANGED <<pid, endPos, exit, sem, clientVars, mround, mkeep, sig>>
    BY <1>12 DEF FinishWrite, new
  <2>3. TypeOK'
    BY <1>12, <2>1, <2>2 DEF FinishWrite, MasterStates
  <2>4. Bounds' /\ Claims' /\ Owners'
    BY <1>12, <2>1, <2>2 DEF FinishWrite
  <2>5. RecordKept'
    <3> SUFFICES ASSUME NEW d \in Registered
                 PROVE /\ pid[cidx[d]] = d /\ status'[cidx[d]] # {}
                       /\ "DISCONNECT" \notin status'[cidx[d]]
      BY <2>2 DEF clientVars
    <3>1. CASE cidx[d] = mid
      BY <1>12, <2>1, <2>2, <3>1 DEF FinishWrite
    <3>2. CASE cidx[d] # mid
      BY <2>2, <3>2
    <3> QED BY <3>1, <3>2
  <2>6. MasterSees'
    BY <1>12 DEF FinishWrite
  <2>7. NoKillKept' /\ NoKillSafe'
    BY <1>12, <2>1, <2>2 DEF FinishWrite
  <2> QED BY <2>3, <2>4, <2>5, <2>6, <2>7
<1>13. CASE FinishRound
  <2>1. mkeep' \in BOOLEAN
    BY <1>13, Zenon DEF FinishRound
  <2> QED BY <1>13, <2>1 DEF FinishRound, MasterStates
<1> QED
  BY <1>1, <1>2, <1>3, <1>4, <1>5, <1>6, <1>7, <1>8, <1>9, <1>10, <1>11, <1>12, <1>13
  DEF Loop, Request, Finish

\* IInv is an inductive invariant of the page
THEOREM CommsInvariant == Spec => []IInv
<1>1. ASSUME IInv, [Next]_vars PROVE IInv'
  <2>1. CASE UNCHANGED vars
    BY <1>1, <2>1 DEF vars, pageVars, clientVars, masterVars, IInv, TypeOK, Bounds, Claims,
       Owners, RecordKept, Registered, MasterSees, NoKillKept, NoKillSafe
  <2> QED BY <1>1, <2>1, ClientIInv, MasterIInv DEF Next
<1> QED BY InitIInv, <1>1, PTL DEF Spec

\* Every variable of the page keeps its type: no index leaves the page
THEOREM CommsTypeOK == Spec => []TypeOK
BY CommsInvariant, PTL DEF IInv

\* A running client keeps the record it claimed
THEOREM CommsRecordKept == Spec => []RecordKept
BY CommsInvariant, PTL DEF IInv

\* A process that registered with NOKILL is never signalled
THEOREM CommsNoKillSafe == Spec => []NoKillSafe
BY CommsInvariant, PTL DEF IInv

\* No two running clients hold the same record
LEMMA OneHolder == ASSUME IInv, NEW c \in Registered, NEW d \in Registered, cidx[c] = cidx[d]
                   PROVE  c = d
BY DEF IInv, RecordKept

\* A step that changes neither who is registered, nor where, nor which
\* records are free is a stutter of the registry
LEMMA RegistryStutter ==
    ASSUME Registered' = Registered, UNCHANGED cidx,
           \A i \in Index : status'[i] = INVALID <=> status[i] = INVALID
    PROVE  UNCHANGED <<taken, holds>>
BY DEF taken, holds

\* A step of a client is a step of the registry or a stutter
LEMMA ClientRegistry ==
    ASSUME IInv, NEW c \in Clients, Client(c)
    PROVE  Page!Next \/ UNCHANGED <<taken, holds>>
<1> USE CommsAssumption DEF Goto
<1>0. TypeOK /\ Bounds /\ Claims /\ RecordKept
  BY DEF IInv
<1>1. CASE Mark(c)
  <2> DEFINE i == cidx[c]
  <2>1. /\ i \in Index /\ status[i] = INVALID /\ cpc[c] = "mark"
        /\ status' = [status EXCEPT ![i] = {"ACTIVE"} \union defaultCommFlags(c)]
        /\ cpc' = [cpc EXCEPT ![c] = "grow"] /\ UNCHANGED cidx
    BY <1>0, <1>1 DEF Mark, Bounds, Claims, TypeOK, Index
  <2>2. i \notin taken /\ \A j \in Index : <<c, j>> \notin holds
    BY <2>1 DEF taken, holds, Registered
  <2>3. taken' = taken \union {i}
    BY <1>0, <2>1 DEF taken, TypeOK, INVALID
  <2>4. Registered' = Registered \union {c}
    BY <1>0, <2>1 DEF Registered, TypeOK
  <2>5. holds' = holds \union {<<c, i>>}
    BY <2>1, <2>4 DEF holds
  <2>6. Page!Take(c, i)
    BY <2>2, <2>3, <2>5 DEF Page!Take
  <2> QED BY <2>1, <2>6 DEF Page!Next
<1>2. CASE LeaveWrite(c) \/ Crash(c)
  <2>1. /\ \A i \in Index : status'[i] = INVALID <=> status[i] = INVALID
        /\ Registered' = Registered \ {c}
        /\ \A d \in Clients : d # c => cidx'[d] = cidx[d]
    <3>1. CASE LeaveWrite(c)
      <4>1. /\ cidx[c] \in Index /\ status[cidx[c]] # INVALID
            /\ status' = [status EXCEPT ![cidx[c]] = {"DISCONNECT"} \union crd[c]]
            /\ cpc' = [cpc EXCEPT ![c] = "out"] /\ cidx' = [cidx EXCEPT ![c] = 0]
        BY <1>0, <3>1 DEF LeaveWrite, Forget, Bounds, RecordKept, Registered, TypeOK, Index
      <4> QED BY <1>0, <4>1 DEF TypeOK, Registered, INVALID
    <3>2. CASE Crash(c)
      BY <1>0, <3>2 DEF Crash, Forget, TypeOK, Registered, pageVars
    <3> QED BY <1>2, <3>1, <3>2
  <2>2. taken' = taken
    BY <2>1 DEF taken
  <2>3. CASE c \notin Registered
    <3>1. Registered' = Registered /\ \A d \in Registered : cidx'[d] = cidx[d]
      BY <2>1, <2>3 DEF Registered
    <3>2. holds' = holds
      BY <3>1 DEF holds
    <3> QED BY <2>2, <3>2
  <2>4. CASE c \in Registered
    <3>1. cidx[c] \in Index
      BY <1>0, <2>4 DEF Bounds, Registered, TypeOK, Index
    <3>2. <<c, cidx[c]>> \in holds
      BY <2>4, <3>1 DEF holds
    <3>3. holds' = holds \ {<<c, cidx[c]>>}
      <4>1. holds' = {<<d, cidx'[d]>> : d \in Registered \ {c}}
        BY <2>1 DEF holds
      <4>2. \A d \in Registered \ {c} : cidx'[d] = cidx[d] /\ <<d, cidx[d]>> # <<c, cidx[c]>>
        BY <2>1 DEF Registered
      <4> QED BY <4>1, <4>2 DEF holds
    <3>4. Page!Leave(c, cidx[c])
      BY <2>2, <3>2, <3>3 DEF Page!Leave
    <3> QED BY <3>1, <3>4 DEF Page!Next
  <2> QED BY <2>3, <2>4
<1>3. CASE EnterUser(c)
  <2>1. /\ cidx[c] \in Index /\ status[cidx[c]] # INVALID
        /\ Registered' = Registered /\ UNCHANGED cidx
    BY <1>0, <1>3 DEF EnterUser, Bounds, RecordKept, Registered, TypeOK, Index
  <2>2. PICK new : new # INVALID /\ status' = [status EXCEPT ![cidx[c]] = new]
    BY <1>3 DEF EnterUser, INVALID
  <2>3. \A i \in Index : status'[i] = INVALID <=> status[i] = INVALID
    BY <1>0, <2>1, <2>2 DEF TypeOK
  <2> QED BY <2>1, <2>3, RegistryStutter
<1>4. CASE Grow(c) \/ LeaveRead(c) \/ Claim(c) \/ Retry(c) \/ Open(c) \/ Scan(c) \/ ScanFull(c) \/ Spawn(c)
  <2>1. /\ UNCHANGED status /\ Registered' = Registered
        /\ \A d \in Registered : cidx'[d] = cidx[d]
    BY <1>0, <1>4 DEF Grow, LeaveRead, Claim, Retry, Open, Scan, ScanFull, Spawn, Registered,
                      TypeOK, pageVars
  <2>2. taken' = taken /\ holds' = holds
    BY <2>1 DEF taken, holds
  <2> QED BY <2>2
<1> QED BY <1>1, <1>2, <1>3, <1>4 DEF Client, Claiming, Using

\* A step of the master is a step of the registry or a stutter
LEMMA MasterRegistry ==
    ASSUME IInv, Loop \/ Request \/ Finish
    PROVE  Page!Next \/ UNCHANGED <<taken, holds>>
<1> USE CommsAssumption
<1>0. TypeOK /\ Bounds /\ MasterSees
  BY DEF IInv
<1>1. Registered' = Registered /\ UNCHANGED cidx
  BY DEF Loop, LoopStart, LoopRead, LoopCheck, LoopReap, LoopEnd, setRecordCount, Request,
         RequestRead, RequestWrite, Finish, finishAll, FinishSkip, FinishRead, FinishWrite,
         FinishRound, clientVars, Registered
<1>2. CASE LoopReap
  <2>1. /\ mid \in Index /\ status[mid] # INVALID /\ \A c \in Registered : cidx[c] # mid
        /\ status' = [status EXCEPT ![mid] = INVALID]
    BY <1>0, <1>2 DEF LoopReap, Bounds, MasterSees, TypeOK, Index
  <2>2. taken' = taken \ {mid} /\ mid \in taken
    BY <1>0, <2>1 DEF taken, TypeOK
  <2>3. holds' = holds /\ \A c \in Clients : <<c, mid>> \notin holds
    BY <1>1, <2>1 DEF holds
  <2>4. Page!Free(mid)
    BY <2>2, <2>3 DEF Page!Free
  <2> QED BY <2>1, <2>4 DEF Page!Next
<1>3. CASE ~LoopReap
  <2>1. \/ UNCHANGED status
        \/ \E f : mpc \in {"check", "request", "finwrite"} /\ status' = [status EXCEPT ![mid] = {f} \union mrd]
    <3>1. CASE LoopCheck \/ RequestWrite \/ FinishWrite
      BY <3>1 DEF LoopCheck, RequestWrite, FinishWrite
    <3>2. CASE ~(LoopCheck \/ RequestWrite \/ FinishWrite)
      BY <1>3, <3>2 DEF Loop, LoopStart, LoopRead, LoopEnd, setRecordCount, Request, RequestRead,
                        Finish, finishAll, FinishSkip, FinishRead, FinishRound, pageVars
    <3> QED BY <3>1, <3>2
  <2>2. mpc \in {"check", "request", "finwrite"} => mid \in Index /\ status[mid] # INVALID
    BY <1>0 DEF Bounds, MasterSees, TypeOK, Index
  <2>3. \A i \in Index : status'[i] = INVALID <=> status[i] = INVALID
    BY <1>0, <2>1, <2>2 DEF TypeOK, INVALID
  <2> QED BY <1>1, <2>3, RegistryStutter
<1> QED BY <1>2, <1>3

\* The page implements a registry of records that are used by one client at a time
THEOREM CommsImplementsRegistry == Spec => ImplementsRegistry
<1>1. Init => Page!Init
  BY DEF Init, Page!Init, taken, holds, Registered, INVALID
<1>2. IInv /\ [Next]_vars => [Page!Next]_<<taken, holds>>
  <2> SUFFICES ASSUME IInv, [Next]_vars PROVE Page!Next \/ UNCHANGED <<taken, holds>>
    OBVIOUS
  <2>1. CASE UNCHANGED vars
    BY <2>1, RegistryStutter DEF vars, pageVars, clientVars, Registered
  <2> QED BY <2>1, ClientRegistry, MasterRegistry DEF Next
<1> QED BY <1>1, <1>2, CommsInvariant, PTL DEF Spec, ImplementsRegistry, Page!Spec
=============================================================================
