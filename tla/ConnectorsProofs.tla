-------------------------- MODULE ConnectorsProofs --------------------------
(***************************************************************************)
(* For any configurations, addresses and processes: when the controller is *)
(* not killed while something is missing on the page, each connector is    *)
(* known to somebody who will stop it (Known), a shutdown leaves none      *)
(* behind (NoneLeft), and, when one connector at most is to be stopped at  *)
(* a time, no two have the same address (OneListener).                     *)
(***************************************************************************)
EXTENDS Connectors, Extrema, FiniteSetTheorems

\* The next one of a set of configurations is one of them
LEMMA MinIn == ASSUME NEW S \in SUBSET Cmds, S # {} PROVE Min(S) \in S
BY Least, ConnectorsAssumption DEF Min

\* A process that is to be started is a free one
LEMMA NextProcIn == \A p \in NextProc : p \in Procs /\ st[p] = "none" /\ p \notin Stopping
<1> SUFFICES ASSUME NEW p \in NextProc PROVE p \in Unused
  BY DEF Unused
<1>1. Unused # {} /\ p = CHOOSE q \in Unused : TRUE
  BY DEF NextProc
<1> QED BY <1>1

\* The bounds are numbers
LEMMA Bounds == MaxChanges \in Nat /\ MaxFaults \in Nat /\ MaxRemoved \in Nat
BY ConnectorsAssumption

\* Empty maps
LEMMA EmptyMaps == NoConns \in [Cmds -> Procs \union {None}] /\ NotStopping \in [Procs -> {"no", "young", "old"}]
BY DEF NoConns, NotStopping

\* What is configured, now or when the pass began, are connectors
LEMMA ConfigIn == ASSUME TypeOK PROVE config \subseteq Cmds /\ conns \subseteq Cmds
BY ConnectorsAssumption DEF TypeOK

-----------------------------------------------------------------------------
\* Types

\* The first controller starts from variables of their types
LEMMA InitTypeOK == Init => TypeOK
<1> SUFFICES ASSUME Init PROVE TypeOK OBVIOUS
<1>1. 0 \in 0 .. MaxChanges /\ 0 \in 0 .. MaxFaults
  BY Bounds
<1>2. st \in [Procs -> {"none", "boot", "listen"}] /\ cmdOf \in [Procs -> Cmds \union {None}]
  BY DEF Init
<1> QED BY <1>1, <1>2, EmptyMaps DEF Init, TypeOK

\* A step of CheckProtocols keeps the types
LEMMA PassTypeOK == ASSUME TypeOK, Pass PROVE TypeOK'
<1>0. config \subseteq Cmds /\ conns \subseteq Cmds /\ Current \subseteq Cmds
  BY ConfigIn DEF Current
<1> USE DEF passVars, ctrlVars, procVars
<1>1. CASE BeginPass \/ EndPass
  BY <1>0, <1>1 DEF BeginPass, EndPass, TypeOK
<1>2. CASE Keep
  BY <1>2 DEF Keep, TypeOK
<1>3. CASE StopConnector
  <2> DEFINE c == Min(todo)
  <2>1. AfterErase(Current \ {c}) \subseteq Cmds
    BY <1>0 DEF AfterErase
  <2> DEFINE rest == AfterErase(Current \ {c})
  <2>2. /\ cpc = "delete" /\ cur' = [cur EXCEPT ![c] = None] /\ todo' = rest
        /\ \/ (told' = told \union {cur[c]} /\ stopping' = [stopping EXCEPT ![cur[c]] = "young"]
               /\ acted' = TRUE /\ Alive(cur[c]))
           \/ UNCHANGED <<told, stopping, acted>>
        /\ UNCHANGED <<config, cpc, conns, plist, page, st, cmdOf, ending, changes, faults>>
    BY <1>3 DEF StopConnector
  <2>3. c \in Cmds
    BY <1>3, MinIn DEF StopConnector, TypeOK
  <2> HIDE DEF c, rest
  <2>4. Alive(cur[c]) => cur[c] \in Procs
    BY <2>3 DEF Alive, TypeOK
  <2> QED BY <2>1, <2>2, <2>3, <2>4 DEF TypeOK, rest
<1>4. CASE Handover
  BY <1>0, <1>4 DEF Handover, Ends, TypeOK
<1>5. CASE Skip
  <2>1. /\ todo' \subseteq todo /\ (faults' = faults \/ (faults < MaxFaults /\ faults' = faults + 1))
        /\ UNCHANGED <<config, cpc, conns, acted, ctrlVars, page, procVars, ending, changes>>
    BY <1>5 DEF Skip
  <2>2. faults' \in 0 .. MaxFaults
    BY <2>1, Bounds DEF TypeOK
  <2> QED BY <2>1, <2>2 DEF TypeOK
<1>6. CASE StartConnector
  <2>1. Min(todo) \in Cmds
    BY <1>6, MinIn DEF StartConnector, TypeOK
  <2>2. PICK p \in NextProc : /\ cur' = [Forget(cur, p) EXCEPT ![Min(todo)] = p] /\ page' = Forget(page, p)
                              /\ plist' = plist \union {p} /\ st' = [st EXCEPT ![p] = "boot"]
                              /\ cmdOf' = [cmdOf EXCEPT ![p] = Min(todo)]
    BY <1>6 DEF StartConnector
  <2>3. p \in Procs
    BY NextProcIn
  <2>4. /\ todo' \subseteq todo /\ acted' = TRUE
        /\ UNCHANGED <<config, cpc, conns, stopping, told, ending, changes, faults>>
    BY <1>6 DEF StartConnector
  <2>5. Forget(cur, p) \in [Cmds -> Procs \union {None}] /\ Forget(page, p) \in [Cmds -> Procs \union {None}]
    BY DEF Forget, TypeOK
  <2> QED BY <2>1, <2>2, <2>3, <2>4, <2>5 DEF TypeOK
<1> QED BY <1>1, <1>2, <1>3, <1>4, <1>5, <1>6 DEF Pass

\* Every step keeps the types
LEMMA NextTypeOK == ASSUME TypeOK, [Next]_vars PROVE TypeOK'
<1> USE Bounds, EmptyMaps DEF passVars, ctrlVars, procVars, TypeOK
<1>1. CASE Pass
  BY <1>1, PassTypeOK
<1>2. CASE Configure
  BY <1>2 DEF Configure
<1>3. CASE Reload
  <2>1. changes' \in 0 .. MaxChanges
    BY <1>3 DEF Reload
  <2> QED BY <1>3, <2>1 DEF Reload
<1>4. CASE Shutdown
  BY <1>4 DEF Shutdown
<1>5. CASE ExitDone
  BY <1>5 DEF ExitDone, Ends, Gone
<1>6. CASE Crash
  <2>1. faults' \in 0 .. MaxFaults
    BY <1>6 DEF Crash
  <2> QED BY <1>6, <2>1 DEF Crash, Gone
<1>7. CASE Load
  <2>1. plist' \subseteq Procs
    BY <1>7 DEF Load
  <2> QED BY <1>7, <2>1 DEF Load
<1>8. ASSUME NEW p \in Procs, Age(p) \/ Bind(p) \/ Exit(p) \/ Die(p) PROVE TypeOK'
  <2>1. CASE Age(p)
    BY <2>1 DEF Age
  <2>2. CASE Bind(p)
    BY <2>2 DEF Bind, Ends
  <2>3. CASE Exit(p)
    BY <2>3 DEF Exit, Ends
  <2>4. CASE Die(p)
    BY <2>4 DEF Die, Ends
  <2> QED BY <1>8, <2>1, <2>2, <2>3, <2>4
<1>9. CASE UNCHANGED vars
  BY <1>9 DEF vars
<1> QED BY <1>1, <1>2, <1>3, <1>4, <1>5, <1>6, <1>7, <1>8, <1>9 DEF Next

\* Every variable keeps its type, whenever the controller is killed
THEOREM ConnectorsTypeOK == Spec => []TypeOK
<1>1. Init => TypeOK
  BY InitTypeOK
<1>2. TypeOK /\ [Next]_vars => TypeOK'
  BY NextTypeOK
<1> QED BY <1>1, <1>2, PTL DEF Spec

-----------------------------------------------------------------------------
\* Somebody lists each connector that runs

\* Connectors that end need not be listed
LEMMA FewerManaged ==
    ASSUME KInv, UNCHANGED <<cpc, cur, page, ending>>, plist' \subseteq plist,
           \A p \in Procs : Alive(p)' => Alive(p) /\ (p \in plist => p \in plist') /\ (p \in Stopping => p \in Stopping')
    PROVE  Managed'
<1>1. ASSUME Running, NEW p \in Procs, Alive(p)'
      PROVE  p \in plist' /\ (p \in Stopping' \/ \E c \in Cmds : cur'[c] = p)
  BY <1>1 DEF KInv, Managed
<1>2. ASSUME cpc \notin {"idle", "delete", "start"}, NEW p \in Procs, Alive(p)'
      PROVE  /\ cpc = "exit" => p \in plist' \/ (~ending /\ Listed(p))
             /\ cpc \in {"down", "ended"} => cpc = "down" /\ Listed(p)
  BY <1>2 DEF KInv, Managed
<1>3. cpc \in {"down", "ended"} => plist' = {}
  BY DEF KInv, Managed
<1> QED BY <1>1, <1>2, <1>3 DEF Managed, Running, Listed

\* In a pass a connector moves from the list to those being stopped, and is
\* dropped there only when it is gone
LEMMA PassManaged == ASSUME KInv, Pass PROVE Managed'
<1> USE DEF passVars, ctrlVars, procVars
<1>1. Running /\ Running'
  BY DEF Pass, BeginPass, Keep, StopConnector, Handover, Skip, StartConnector, EndPass, Running
<1>2. \A p \in Procs : Alive(p) => p \in plist /\ (p \in Stopping \/ \E c \in Cmds : cur[c] = p)
  BY <1>1 DEF KInv, Managed
<1>3. SUFFICES ASSUME NEW p \in Procs, Alive(p)'
               PROVE  p \in plist' /\ (p \in Stopping' \/ \E c \in Cmds : cur'[c] = p)
  BY <1>1 DEF Managed, Running
<1>4. CASE BeginPass \/ Keep \/ Skip \/ EndPass
  BY <1>2, <1>3, <1>4 DEF BeginPass, Keep, Skip, EndPass, Alive, Stopping
<1>5. CASE StopConnector
  <2> DEFINE m == Min(todo)
  <2>1. /\ cur' = [cur EXCEPT ![m] = None] /\ UNCHANGED <<plist, st>>
        /\ Alive(cur[m]) => stopping' = [stopping EXCEPT ![cur[m]] = "young"]
        /\ ~Alive(cur[m]) => stopping' = stopping
    BY <1>5 DEF StopConnector
  <2>2. cur \in [Cmds -> Procs \union {None}] /\ stopping \in [Procs -> {"no", "young", "old"}]
    BY DEF KInv, TypeOK
  <2> HIDE DEF m
  <2>3. Alive(p) /\ p \in plist'
    BY <1>2, <1>3, <2>1 DEF Alive
  <2>4. CASE p \in Stopping
    BY <2>1, <2>2, <2>3, <2>4 DEF Stopping
  <2>5. CASE \E c \in Cmds : cur[c] = p
    <3>1. PICK c \in Cmds : cur[c] = p
      BY <2>5
    <3>2. CASE c = m
      BY <2>1, <2>2, <2>3, <3>1, <3>2 DEF Stopping
    <3>3. CASE c # m
      BY <2>1, <2>2, <2>3, <3>1, <3>3
    <3> QED BY <3>2, <3>3
  <2> QED BY <1>2, <2>3, <2>4, <2>5
<1>6. CASE Handover
  <2>1. /\ stopping' = [q \in Procs |-> IF Alive(q) THEN stopping[q] ELSE "no"]
        /\ st' = [q \in Procs |-> IF stopping[q] = "old" THEN "none" ELSE st[q]]
        /\ plist' = plist \ {q \in Procs : stopping[q] = "old"} /\ cur' = cur
    BY <1>6 DEF Handover, Ends
  <2>2. Alive(p) /\ stopping[p] # "old"
    BY <1>3, <2>1 DEF Alive
  <2> QED BY <1>2, <2>1, <2>2 DEF Stopping
<1>7. CASE StartConnector
  <2> DEFINE m == Min(todo)
  <2>1. PICK n \in NextProc : /\ cur' = [Forget(cur, n) EXCEPT ![m] = n]
                              /\ plist' = plist \union {n} /\ st' = [st EXCEPT ![n] = "boot"]
    BY <1>7 DEF StartConnector
  <2>2. n \in Procs /\ m \in Cmds /\ ~Alive(cur[m]) /\ stopping' = stopping
    BY <1>7, NextProcIn, MinIn DEF StartConnector, KInv, TypeOK
  <2>3. st \in [Procs -> {"none", "boot", "listen"}]
    BY DEF KInv, TypeOK
  <2>4. Forget(cur, n) = [c \in Cmds |-> IF cur[c] = n THEN None ELSE cur[c]]
    BY DEF Forget
  <2> HIDE DEF m
  <2>5. CASE p = n
    BY <2>1, <2>2, <2>4, <2>5
  <2>6. CASE p # n
    <3>1. Alive(p)
      BY <1>3, <2>1, <2>2, <2>3, <2>6 DEF Alive
    <3>2. \A c \in Cmds : cur[c] = p => c # m /\ cur'[c] = p
      BY <2>1, <2>2, <2>4, <2>6, <3>1
    <3> QED BY <1>2, <2>1, <2>2, <3>1, <3>2 DEF Stopping
  <2> QED BY <2>5, <2>6
<1> QED BY <1>4, <1>5, <1>6, <1>7 DEF Pass

\* No step of a controller that is not killed at will loses track of a connector
LEMMA NextKInv == ASSUME ~AnyCrash, KInv, [Next]_vars PROVE KInv'
<1> USE DEF passVars, ctrlVars, procVars
<1>1. TypeOK'
  BY NextTypeOK DEF KInv
<1> SUFFICES Managed'
  BY <1>1 DEF KInv
<1>2. CASE Pass
  BY <1>2, PassManaged
<1>3. CASE Configure
  BY <1>3 DEF Configure, KInv, Managed, Running, Listed, Alive, Stopping
<1>4. CASE Reload
  <2>1. /\ cpc' = "exit" /\ ending' = FALSE /\ page' = cur /\ plist' = plist \ {cur[c] : c \in Cmds}
        /\ \A p \in Procs : Alive(p)' => p \in plist
    BY <1>4 DEF Reload, KInv, Managed, Running, Alive
  <2> QED BY <2>1 DEF Managed, Running, Listed
<1>5. CASE Shutdown
  <2>1. cpc' = "exit" /\ plist' = plist /\ \A p \in Procs : Alive(p)' => p \in plist
    BY <1>5 DEF Shutdown, KInv, Managed, Running, Alive
  <2> QED BY <2>1 DEF Managed, Running
<1>6. CASE ExitDone
  <2>1. /\ cpc = "exit" /\ plist' = {} /\ cpc' = IF ending THEN "ended" ELSE "down"
        /\ UNCHANGED <<page, ending>>
        /\ st' = [p \in Procs |-> IF p \in plist THEN "none" ELSE st[p]]
    BY <1>6 DEF ExitDone, Ends, Gone
  <2>2. \A p \in Procs : Alive(p)' => ~ending /\ Listed(p)
    BY <2>1 DEF Alive, KInv, Managed
  <2> QED BY <2>1, <2>2 DEF Managed, Running, Listed
<1>7. CASE Crash
  <2>1. OnPage /\ cpc' = "down" /\ plist' = {} /\ UNCHANGED <<page, st>>
    BY <1>7 DEF Crash, Gone
  <2> QED BY <2>1 DEF OnPage, Managed, Running, Listed, Alive
<1>8. CASE Load
  <2>1. /\ cpc' = "idle" /\ cur' = page /\ plist' = {page[c] : c \in Cmds} \ {None}
        /\ \A p \in Procs : Alive(p)' => Listed(p) /\ p # None
    BY <1>8 DEF Load, KInv, Managed, Alive
  <2> QED BY <2>1 DEF Managed, Running, Listed
<1>9. ASSUME NEW p \in Procs, Age(p) \/ Bind(p) \/ Exit(p) \/ Die(p) PROVE Managed'
  <2>1. UNCHANGED <<cpc, cur, page, ending>> /\ plist' \subseteq plist
    BY <1>9 DEF Age, Bind, Exit, Die, Ends
  <2>2. /\ stopping \in [Procs -> {"no", "young", "old"}] /\ st \in [Procs -> {"none", "boot", "listen"}]
    BY DEF KInv, TypeOK
  <2>3. ASSUME NEW q \in Procs, Alive(q)'
        PROVE  Alive(q) /\ (q \in plist => q \in plist') /\ (q \in Stopping => q \in Stopping')
    <3>1. CASE Age(p)
      BY <2>2, <2>3, <3>1 DEF Age, Alive, Stopping
    <3>2. CASE Bind(p)
      BY <2>2, <2>3, <3>2 DEF Bind, Ends, Alive, Stopping
    <3>3. CASE Exit(p) \/ Die(p)
      BY <2>2, <2>3, <3>3 DEF Exit, Die, Ends, Alive, Stopping
    <3> QED BY <1>9, <3>1, <3>2, <3>3
  <2> QED BY <2>1, <2>3, FewerManaged
<1>10. CASE UNCHANGED vars
  BY <1>10 DEF vars, KInv, Managed, Running, Listed, Alive, Stopping
<1> QED BY <1>2, <1>3, <1>4, <1>5, <1>6, <1>7, <1>8, <1>9, <1>10 DEF Next

\* KInv is an inductive invariant of a controller that is not killed at will
LEMMA ConnectorsInvariant == ASSUME ~AnyCrash PROVE Spec => []KInv
<1>1. Init => KInv
  BY InitTypeOK DEF Init, KInv, Managed, Running, Alive
<1>2. KInv /\ [Next]_vars => KInv'
  BY NextKInv
<1> QED BY <1>1, <1>2, PTL DEF Spec

\* Every connector that runs is listed by whoever will stop it
THEOREM ConnectorsKnown == ASSUME ~AnyCrash PROVE Spec => []Known
<1>1. Spec => []KInv
  BY ConnectorsInvariant
<1>2. KInv => Known
  BY DEF KInv, TypeOK, Managed, Running, Listed, Known
<1> QED BY <1>1, <1>2, PTL

\* After a shutdown no connector runs
THEOREM ConnectorsNoneLeft == ASSUME ~AnyCrash PROVE Spec => []NoneLeft
<1>1. Spec => []KInv
  BY ConnectorsInvariant
<1>2. KInv => NoneLeft
  BY DEF KInv, Managed, NoneLeft
<1> QED BY <1>1, <1>2, PTL

-----------------------------------------------------------------------------
\* One connector per address

\* MaxRemoved <= 1 as a statement about elements
LEMMA OneAtMost == ASSUME NEW S \in SUBSET Cmds, Cardinality(S) <= 1 PROVE \A c, d \in S : c = d
<1> SUFFICES ASSUME NEW c \in S, NEW d \in S, c # d PROVE FALSE
  OBVIOUS
<1>1. IsFiniteSet(S)
  BY FS_Subset, ConnectorsAssumption
<1>2. IsFiniteSet(S \ {c}) /\ Cardinality(S \ {c}) = Cardinality(S) - 1
  BY <1>1, FS_RemoveElement
<1>3. Cardinality(S) \in Nat /\ Cardinality(S \ {c}) \in Nat
  BY <1>1, <1>2, FS_CardinalityType
<1>4. Cardinality(S \ {c}) = 0
  BY <1>2, <1>3
<1>5. S \ {c} = {}
  BY <1>2, <1>4, FS_EmptySet
<1> QED BY <1>5

\* What holds of the connectors that run still holds when none was started
LEMMA FewerListen ==
    ASSUME KInv, Named, OneListener, cmdOf' = cmdOf,
           \A c \in Cmds : cur'[c] \in {cur[c], page[c], None} /\ page'[c] \in {cur[c], page[c], None},
           \A p \in Procs : st'[p] # "none" => st[p] # "none"
    PROVE  Named' /\ OneListener'
<1>1. \A c \in Cmds : cur[c] \in Procs \union {None} /\ page[c] \in Procs \union {None}
  BY DEF KInv, TypeOK
<1>2. Named'
  <2> SUFFICES ASSUME NEW c \in Cmds
               PROVE  /\ Alive(cur[c])' => cmdOf[cur'[c]] = c
                      /\ Alive(page[c])' => cmdOf[page'[c]] = c
    BY DEF Named
  <2>1. (Alive(cur[c]) => cmdOf[cur[c]] = c) /\ (Alive(page[c]) => cmdOf[page[c]] = c)
    BY DEF Named
  <2>2. Alive(cur[c])' => cmdOf[cur'[c]] = c
    BY <1>1, <2>1 DEF Alive
  <2>3. Alive(page[c])' => cmdOf[page'[c]] = c
    BY <1>1, <2>1 DEF Alive
  <2> QED BY <2>2, <2>3
<1>3. OneListener'
  BY DEF OneListener, Alive
<1> QED BY <1>2, <1>3

\* What a pass knows, when nothing of it changes but connectors that end
LEMMA SameList ==
    ASSUME KInv, Visits, Saved, OneToStop, UNCHANGED <<config, cpc, conns, todo, acted, cur, page>>,
           \A p \in Procs : st'[p] # "none" => st[p] # "none"
    PROVE  Visits' /\ Saved' /\ OneToStop'
<1>1. \A c \in Cmds : page[c] \in Procs \union {None}
  BY DEF KInv, TypeOK
<1>2. \A c \in Cmds : Alive(page[c])' => Alive(page[c])
  BY <1>1 DEF Alive
<1>3. Visits'
  BY DEF Visits, Current
<1>4. Saved'
  BY <1>2 DEF Saved
<1>5. OneToStop'
  BY <1>2 DEF OneToStop, Current, Running
<1> QED BY <1>3, <1>4, <1>5

\* The steps of a pass that start nothing
LEMMA PassListens == ASSUME OInv, Pass, ~StartConnector PROVE Named' /\ OneListener'
<1> USE DEF passVars, ctrlVars, procVars
<1>1. \A c \in Cmds : cur'[c] \in {cur[c], None} /\ page'[c] \in {cur[c], page[c]}
  <2>1. CASE StopConnector
    BY <2>1 DEF StopConnector, OInv, KInv, TypeOK
  <2>2. CASE ~StopConnector
    BY <2>2 DEF Pass, BeginPass, Keep, Handover, Skip, EndPass, Ends
  <2> QED BY <2>1, <2>2
<1>2. \A p \in Procs : st'[p] # "none" => st[p] # "none"
  BY DEF Pass, BeginPass, Keep, StopConnector, Handover, Skip, EndPass, Ends
<1>3. cmdOf' = cmdOf
  BY DEF Pass, BeginPass, Keep, StopConnector, Handover, Skip, EndPass
<1> QED BY <1>1, <1>2, <1>3, FewerListen DEF OInv

\* Nothing that is not configured is passed over, when there is one at most
LEMMA StopVisits == ASSUME OInv, StopConnector PROVE Visits' /\ Saved' /\ OneToStop'
<1> DEFINE m == Min(todo)
<1>1. /\ cpc = "delete" /\ m \notin conns /\ cur' = [cur EXCEPT ![m] = None]
      /\ todo' = AfterErase(Current \ {m}) /\ (~Alive(cur[m]) => acted' = acted) /\ (Alive(cur[m]) => acted' = TRUE)
      /\ UNCHANGED <<config, cpc, conns, page, st>>
  BY DEF StopConnector
<1>2. m \in todo /\ m \in Current /\ m \notin config /\ conns = config
  <2>1. m \in todo
    BY MinIn DEF StopConnector, OInv, KInv, TypeOK
  <2> HIDE DEF m
  <2> QED BY <1>1, <2>1 DEF OInv, Visits
<1> HIDE DEF m
<1>3. cur \in [Cmds -> Procs \union {None}]
  BY DEF OInv, KInv, TypeOK
<1>4. Current' = Current \ {m}
  BY <1>1, <1>2, <1>3 DEF Current
<1>5. Current' \ config = {}
  BY <1>1, <1>2, <1>4 DEF OInv, OneToStop
<1>6. Visits'
  <2>1. todo' \subseteq Current'
    BY <1>1, <1>4 DEF AfterErase
  <2> QED BY <1>1, <1>2, <1>5, <2>1 DEF Visits
<1>7. Saved'
  <2> SUFFICES ASSUME ~acted', NEW c \in Cmds, Alive(page[c]) PROVE cur'[c] = page[c]
    BY <1>1 DEF Saved, Alive
  <2>1. ~acted /\ ~Alive(cur[m])
    BY <1>1
  <2>2. cur[c] = page[c]
    BY <1>1, <2>1 DEF OInv, Saved
  <2> QED BY <1>1, <1>3, <2>1, <2>2
<1>8. OneToStop'
  BY <1>1, <1>5 DEF OInv, OneToStop, Running, Alive
<1> QED BY <1>6, <1>7, <1>8

\* The steps of a pass that neither stop nor start a connector
LEMMA OtherVisits ==
    ASSUME OInv, BeginPass \/ Keep \/ Handover \/ Skip \/ EndPass
    PROVE  Visits' /\ Saved' /\ OneToStop'
<1> USE DEF passVars, ctrlVars, procVars
<1>1. \A c \in Cmds : page[c] \in Procs \union {None}
  BY DEF OInv, KInv, TypeOK
<1>2. CASE BeginPass
  <2>1. Visits'
    BY <1>2 DEF BeginPass, Visits, Current
  <2>2. Saved' /\ OneToStop'
    BY <1>2 DEF BeginPass, OInv, Saved, OneToStop, Current, Running, Alive
  <2> QED BY <2>1, <2>2
<1>3. CASE Keep
  <2>1. conns = config /\ Min(todo) \in conns
    BY <1>3 DEF Keep, OInv, Visits
  <2>2. Visits'
    BY <1>3, <2>1 DEF Keep, OInv, Visits, Current
  <2>3. Saved' /\ OneToStop'
    BY <1>3 DEF Keep, OInv, Saved, OneToStop, Current, Running, Alive
  <2> QED BY <2>2, <2>3
<1>4. CASE Handover
  <2>1. /\ cpc = "delete" /\ todo = {} /\ cpc' = "start" /\ todo' = conns
        /\ UNCHANGED <<config, conns, acted, cur, page>>
        /\ \A p \in Procs : st'[p] # "none" => st[p] # "none"
    BY <1>4 DEF Handover, Ends
  <2>2. \A c \in Cmds : Alive(page[c])' => Alive(page[c])
    BY <1>1, <2>1 DEF Alive
  <2>3. Visits'
    BY <2>1 DEF OInv, Visits, Current
  <2>4. Saved'
    BY <2>1, <2>2 DEF OInv, Saved
  <2>5. OneToStop'
    BY <2>1, <2>2 DEF OInv, OneToStop, Running
  <2> QED BY <2>3, <2>4, <2>5
<1>5. CASE Skip
  <2>1. cpc = "start" /\ todo' \subseteq todo /\ UNCHANGED <<config, cpc, conns, acted, cur, page, st>>
    BY <1>5 DEF Skip
  <2> QED BY <2>1 DEF OInv, Visits, Saved, OneToStop, Current, Running, Alive
<1>6. CASE EndPass
  <2>1. /\ cpc = "start" /\ page' = (IF acted THEN cur ELSE page) /\ cpc' = "idle"
        /\ UNCHANGED <<config, cur, st>>
    BY <1>6 DEF EndPass
  <2>2. Current \subseteq config /\ Current' = Current
    BY <2>1 DEF OInv, Visits, Current
  <2>3. Visits'
    BY <2>1 DEF Visits
  <2>4. Saved'
    BY <2>1 DEF OInv, Saved, Alive
  <2>5. \A c \in Cmds \ config : ~Alive(cur[c])
    BY <2>2 DEF Current, Alive
  <2>6. OneToStop'
    BY <2>1, <2>2, <2>5 DEF OInv, OneToStop, Running, Alive
  <2> QED BY <2>3, <2>4, <2>6
<1> QED BY <1>2, <1>3, <1>4, <1>5, <1>6

\* A connector is started: nobody else has its address
LEMMA StartListens == ASSUME OInv, StartConnector PROVE Named' /\ Visits' /\ Saved' /\ OneToStop' /\ OneListener'
<1> DEFINE m == Min(todo)
<1>1. PICK n \in NextProc : /\ cur' = [Forget(cur, n) EXCEPT ![m] = n] /\ page' = Forget(page, n)
                            /\ st' = [st EXCEPT ![n] = "boot"] /\ cmdOf' = [cmdOf EXCEPT ![n] = m]
  BY DEF StartConnector
<1>2. /\ cpc = "start" /\ ~Alive(cur[m]) /\ ~BindHeld(m) /\ acted' = TRUE /\ todo' \subseteq todo
      /\ UNCHANGED <<config, cpc, conns>>
  BY DEF StartConnector
<1>3. n \in Procs /\ m \in todo /\ m \in Cmds
  BY NextProcIn, MinIn DEF StartConnector, OInv, KInv, TypeOK
<1> HIDE DEF m
<1>4. /\ cur \in [Cmds -> Procs \union {None}] /\ page \in [Cmds -> Procs \union {None}]
      /\ st \in [Procs -> {"none", "boot", "listen"}] /\ cmdOf \in [Procs -> Cmds \union {None}]
      /\ m \in config /\ Current \subseteq config /\ conns = config /\ todo \subseteq config
  BY <1>2, <1>3 DEF OInv, KInv, TypeOK, Visits
<1>5. \A c \in Cmds : /\ cur'[c] = IF c = m THEN n ELSE IF cur[c] = n THEN None ELSE cur[c]
                      /\ page'[c] = IF page[c] = n THEN None ELSE page[c]
  BY <1>1, <1>3 DEF Forget
<1>6. \A p \in Procs : p # n => st'[p] = st[p] /\ cmdOf'[p] = cmdOf[p]
  BY <1>1, <1>3, <1>4
<1>7. cmdOf'[n] = m
  BY <1>1, <1>3, <1>4
<1>8. \A c \in Cmds : Alive(page[c])' => Alive(page[c]) /\ page'[c] = page[c] /\ page[c] # n
  BY <1>3, <1>4, <1>5, <1>6 DEF Alive
<1>9. Named'
  <2> SUFFICES ASSUME NEW c \in Cmds
               PROVE  /\ Alive(cur[c])' => cmdOf'[cur'[c]] = c
                      /\ Alive(page[c])' => cmdOf'[page'[c]] = c
    BY DEF Named
  <2>1. (Alive(cur[c]) => cmdOf[cur[c]] = c) /\ (Alive(page[c]) => cmdOf[page[c]] = c)
    BY DEF OInv, Named
  <2>2. Alive(cur[c])' => cmdOf'[cur'[c]] = c
    BY <1>3, <1>4, <1>5, <1>6, <1>7, <2>1 DEF Alive
  <2>3. Alive(page[c])' => cmdOf'[page'[c]] = c
    BY <1>4, <1>6, <1>8, <2>1 DEF Alive
  <2> QED BY <2>2, <2>3
<1>10. Visits'
  <2>1. Current' \subseteq Current \union {m}
    BY <1>5 DEF Current
  <2> QED BY <1>2, <1>4, <2>1 DEF Visits
<1>11. Saved'
  BY <1>2 DEF Saved
<1>12. OneToStop'
  BY <1>2, <1>8 DEF OInv, OneToStop, Running
<1>13. ASSUME NEW q \in Procs, q # n, Alive(q), KeyOf[cmdOf[q]] = KeyOf[m]
       PROVE  KeyOf[m] = NoKey
  <2>1. q \in Stopping \/ \E c \in Cmds : cur[c] = q
    BY <1>2, <1>13 DEF OInv, KInv, Managed, Running
  <2>2. CASE q \in Stopping
    BY <1>2, <1>13, <2>2 DEF BindHeld
  <2>3. CASE \E c \in Cmds : cur[c] = q
    <3>1. PICK c \in Cmds : cur[c] = q
      BY <2>3
    <3>2. c # m /\ c \in config /\ cmdOf[q] = c
      BY <1>2, <1>4, <1>13, <3>1 DEF OInv, Named, Current, Alive
    <3>3. config \in Configs
      BY DEF OInv, KInv, TypeOK
    <3> QED BY <1>4, <1>13, <3>2, <3>3, ConnectorsAssumption
  <2> QED BY <2>1, <2>2, <2>3
<1>14. OneListener'
  <2> SUFFICES ASSUME NEW p \in Procs, NEW q \in Procs, p # q, Alive(p)', Alive(q)',
                      KeyOf[cmdOf'[p]] = KeyOf[cmdOf'[q]]
               PROVE  KeyOf[cmdOf'[p]] = NoKey
    BY DEF OneListener
  <2>1. CASE p = n
    BY <1>6, <1>7, <1>13, <2>1 DEF Alive
  <2>2. CASE q = n
    BY <1>6, <1>7, <1>13, <2>2 DEF Alive
  <2>3. CASE p # n /\ q # n
    BY <1>6, <2>3 DEF OInv, OneListener, Alive
  <2> QED BY <2>1, <2>2, <2>3
<1> QED BY <1>9, <1>10, <1>11, <1>12, <1>14

\* A change of the configuration, and what a controller leaves to the next one
LEMMA LifeVisits ==
    ASSUME ~AnyCrash, MaxRemoved <= 1, OInv, Configure \/ Reload \/ Shutdown \/ ExitDone \/ Crash \/ Load
    PROVE  Visits' /\ Saved' /\ OneToStop'
<1> USE DEF passVars, ctrlVars, procVars
<1>1. \A c \in Cmds : cur[c] \in Procs \union {None} /\ page[c] \in Procs \union {None}
  BY DEF OInv, KInv, TypeOK
<1>2. CASE Configure
  <2>1. cpc = "idle" /\ Cardinality(Current \ config') <= 1 /\ UNCHANGED <<cpc, cur, page, st>>
    <3>1. Cardinality(Current \ config') <= MaxRemoved /\ IsFiniteSet(Current \ config')
      BY <1>2, FS_Subset, ConnectorsAssumption DEF Configure, Current
    <3>2. Cardinality(Current \ config') \in Nat
      BY <3>1, FS_CardinalityType
    <3> QED BY <1>2, <3>1, <3>2, Bounds DEF Configure
  <2>2. \A c, d \in Current \ config' : c = d
    BY <2>1, OneAtMost DEF Current
  <2>3. \A c \in Cmds : Alive(page[c]) => cur[c] = page[c] /\ c \in Current
    BY <2>1 DEF OInv, Saved, Current, Alive
  <2>4. Visits'
    BY <2>1 DEF Visits
  <2>5. Saved'
    BY <2>1, <2>3 DEF Saved, Alive
  <2>6. OneToStop'
    BY <2>1, <2>2, <2>3 DEF OneToStop, Running, Current, Alive
  <2> QED BY <2>4, <2>5, <2>6
<1>3. CASE Reload
  <2>1. cpc = "idle" /\ cpc' = "exit" /\ page' = cur /\ config' = config
    BY <1>3 DEF Reload
  <2>2. \A c, d \in Cmds \ config : cur[c] # None /\ cur[d] # None => c = d
    BY <2>1 DEF OInv, OneToStop, Current
  <2>3. OneToStop'
    BY <2>1, <2>2 DEF OneToStop, Running
  <2> QED BY <2>1, <2>3 DEF Visits, Saved
<1>4. CASE Shutdown
  <2>1. cpc' = "exit" /\ page' = NoConns
    BY <1>4 DEF Shutdown
  <2> QED BY <2>1 DEF OneToStop, Running, NoConns, Visits, Saved
<1>5. CASE ExitDone
  <2>1. cpc = "exit" /\ cpc' \in {"down", "ended"} /\ UNCHANGED <<page, config>>
    BY <1>5 DEF ExitDone, Gone
  <2> QED BY <2>1 DEF OInv, OneToStop, Running, Visits, Saved
<1>6. CASE Crash
  <2>1. OnPage /\ cpc' = "down" /\ UNCHANGED <<page, config>>
    BY <1>6 DEF Crash, Gone
  <2>2. \A c \in Cmds : page[c] # None => Alive(page[c])
    BY <1>1, <2>1 DEF OnPage
  <2>3. OneToStop'
    BY <2>1, <2>2 DEF OInv, OneToStop, Running
  <2> QED BY <2>1, <2>3 DEF Visits, Saved
<1>7. CASE Load
  <2>1. cpc \in {"down", "ended"} /\ cpc' = "idle" /\ cur' = page /\ UNCHANGED <<page, config, st>>
    BY <1>7 DEF Load
  <2>2. \A c, d \in Cmds \ config : page[c] # None /\ page[d] # None => c = d
    BY <2>1 DEF OInv, OneToStop, Running
  <2>3. OneToStop'
    BY <2>1, <2>2 DEF OneToStop, Running, Current, Alive
  <2> QED BY <2>1, <2>3 DEF Visits, Saved
<1> QED BY <1>2, <1>3, <1>4, <1>5, <1>6, <1>7

\* Changes of the configuration and of the controller start no connector
LEMMA LifeListens ==
    ASSUME OInv, Configure \/ Reload \/ Shutdown \/ ExitDone \/ Crash \/ Load
    PROVE  Named' /\ OneListener'
<1> USE DEF passVars, ctrlVars, procVars
<1>1. \A c \in Cmds : cur'[c] \in {cur[c], page[c], None} /\ page'[c] \in {cur[c], page[c], None}
  BY DEF Configure, Reload, Shutdown, ExitDone, Crash, Load, Gone, NoConns
<1>2. (\A p \in Procs : st'[p] # "none" => st[p] # "none") /\ cmdOf' = cmdOf
  BY DEF Configure, Reload, Shutdown, ExitDone, Ends, Crash, Load, Gone
<1> QED BY <1>1, <1>2, FewerListen DEF OInv

\* Every step keeps one listener at an address, with one connector to stop at most
LEMMA NextOInv == ASSUME ~AnyCrash, MaxRemoved <= 1, OInv, [Next]_vars PROVE OInv'
<1> USE DEF passVars, ctrlVars, procVars
<1>1. KInv'
  BY NextKInv DEF OInv
<1> SUFFICES Named' /\ Visits' /\ Saved' /\ OneToStop' /\ OneListener'
  BY <1>1 DEF OInv
<1>2. CASE StartConnector
  BY <1>2, StartListens
<1>3. CASE Pass /\ ~StartConnector
  BY <1>3, PassListens, StopVisits, OtherVisits DEF Pass
<1>4. CASE Configure \/ Reload \/ Shutdown \/ ExitDone \/ Crash \/ Load
  BY <1>4, LifeVisits, LifeListens
<1>5. ASSUME NEW p \in Procs, Age(p) \/ Bind(p) \/ Exit(p) \/ Die(p)
      PROVE  Named' /\ Visits' /\ Saved' /\ OneToStop' /\ OneListener'
  <2>1. UNCHANGED <<config, cpc, conns, todo, acted, cur, page, cmdOf>>
    BY <1>5 DEF Age, Bind, Exit, Die, Ends
  <2>2. \A q \in Procs : st'[q] # "none" => st[q] # "none"
    <3>1. st \in [Procs -> {"none", "boot", "listen"}]
      BY DEF OInv, KInv, TypeOK
    <3>2. CASE Bind(p)
      BY <3>1, <3>2 DEF Bind, Ends
    <3>3. CASE Age(p) \/ Exit(p) \/ Die(p)
      BY <3>1, <3>3 DEF Age, Exit, Die, Ends
    <3> QED BY <1>5, <3>2, <3>3
  <2> QED BY <2>1, <2>2, SameList, FewerListen DEF OInv
<1>6. CASE UNCHANGED vars
  <2>1. UNCHANGED <<config, cpc, conns, todo, acted, cur, page, cmdOf, st>>
    BY <1>6 DEF vars
  <2> QED BY <2>1, SameList, FewerListen DEF OInv
<1> QED BY <1>2, <1>3, <1>4, <1>5, <1>6 DEF Next

\* At the start nothing runs, so no address is taken twice
LEMMA InitOInv == Init => OInv
<1> SUFFICES ASSUME Init PROVE OInv OBVIOUS
<1>1. KInv
  BY InitTypeOK DEF Init, KInv, Managed, Running, Alive
<1>2. \A c \in Cmds : cur[c] = None /\ page[c] = None
  BY DEF Init, NoConns
<1>3. \A p \in Procs : ~Alive(p)
  BY DEF Init, Alive
<1> QED BY <1>1, <1>2, <1>3 DEF Init, OInv, Named, Visits, Saved, OneToStop, OneListener, Current, Alive

\* No connector is started at an address where another still listens
THEOREM ConnectorsOneListener == ASSUME ~AnyCrash, MaxRemoved <= 1 PROVE Spec => []OneListener
<1>1. Init => OInv
  BY InitOInv
<1>2. OInv /\ [Next]_vars => OInv'
  BY NextOInv
<1>3. OInv => OneListener
  BY DEF OInv
<1> QED BY <1>1, <1>2, <1>3, PTL DEF Spec
=============================================================================
