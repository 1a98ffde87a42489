-------------------------- MODULE TrackClaimProofs --------------------------
(***************************************************************************)
(* For any number of processes and list pages every variable keeps its     *)
(* type; and as long as at most one process breaks the claims of the dead, *)
(* no two live processes claim the track (ClaimExclusive), a claim stays   *)
(* on the newest list page (ClaimKept), and a claim that was given up is   *)
(* not on that page once nobody is at work (ReleaseKept); and the pages    *)
(* implement the one word of Lease.                                        *)
(***************************************************************************)
EXTENDS TrackClaim, TLAPS

\* At most one process finds owners dead
OneBreaker == \A p, q \in Breakers : p = q

\* A track that nobody claims satisfies the invariant
LEMMA InitCInv == Init => CInv
<1> USE ClaimAssumption
<1> SUFFICES ASSUME Init PROVE CInv OBVIOUS
<1>1. pages \in [Pages -> [ready : BOOLEAN, reload : BOOLEAN, pid : Procs \union {Nobody}]]
  BY DEF Init, NewPage
<1>2. pages[1].ready /\ ~pages[1].reload /\ 1 \in Pages
  <2>1. 1 \in Pages
    BY DEF Pages
  <2>2. pages[1] = [[ready |-> FALSE, reload |-> FALSE, pid |-> Nobody] EXCEPT !.ready = (1 = 1)]
    BY <2>1 DEF Init, NewPage
  <2> QED BY <2>1, <2>2
<1>3. TypeOK
  BY <1>1, <1>2 DEF Init, TypeOK, PCs, LockPCs, Pages
<1>4. ListPages
  BY <1>2 DEF Init, ListPages, LockPCs, Pages, NoPage
<1>5. Releases /\ Held
  BY DEF Init, Releases, Held, ReleasePCs
<1> QED BY <1>3, <1>4, <1>5 DEF CInv

\* What a process does when it holds no lock and releases nothing
LEMMA IdleCInv == ASSUME CInv, NEW p \in Procs, Reload(p) \/ TakeLock(p) PROVE CInv'
<1> USE ClaimAssumption
<1>0. TypeOK /\ ListPages /\ Releases /\ Held
  BY DEF CInv
<1>1. CASE Reload(p)
  <2>1. /\ pc[p] = "idle" /\ p \notin dead /\ name \in 1 .. made
        /\ page' = [page EXCEPT ![p] = name] /\ givenUp' = [givenUp EXCEPT ![p] = FALSE]
        /\ UNCHANGED <<pages, made, name, lock, pc, orig, target, before, claimed, dead>>
    BY <1>0, <1>1 DEF Reload, At, SwitchTo, TypeOK, NoPage, pageVars, Pages
  <2>2. TypeOK'
    BY <1>0, <2>1 DEF TypeOK
  <2>3. ListPages'
    BY <1>0, <2>1 DEF ListPages, TypeOK, LockPCs
  <2>4. Releases'
    BY <1>0, <2>1 DEF Releases, TypeOK, ReleasePCs, Pid
  <2>5. Held'
    BY <1>0, <2>1 DEF Held
  <2> QED BY <2>2, <2>3, <2>4, <2>5 DEF CInv
<1>2. CASE TakeLock(p)
  <2>1. /\ pc[p] = "idle" /\ p \notin dead /\ lock = Nobody /\ lock' = p
        /\ pc' = [pc EXCEPT ![p] = "locked"]
        /\ UNCHANGED <<pages, made, name, orig, target, before, claimed, dead>>
    BY <1>2 DEF TakeLock, At, Goto, pageVars
  <2>2. name = made /\ pages[made].ready /\ ~pages[made].reload /\ made \in Pages
    BY <1>0, <2>1 DEF ListPages, TypeOK
  <2>3. page' = [page EXCEPT ![p] = made] /\ givenUp' \in [Procs -> BOOLEAN]
    <3>1. CASE Replaced(p)
      BY <1>0, <1>2, <2>2, <3>1 DEF TakeLock, SwitchTo, TypeOK
    <3>2. CASE ~Replaced(p)
      <4>1. page[p] \in Pages /\ page[p] <= made /\ made \in Nat /\ page[p] \in Nat
        BY <1>0 DEF TypeOK, Pages
      <4>2. ~pages[page[p]].reload
        BY <2>2, <3>2, <4>1 DEF Replaced, NoPage, Pages
      <4>3. page[p] = made
        BY <1>0, <4>1, <4>2 DEF ListPages
      <4> QED BY <1>0, <1>2, <3>2, <4>3 DEF TakeLock, TypeOK
    <3> QED BY <3>1, <3>2
  <2>4. TypeOK'
    BY <1>0, <2>1, <2>2, <2>3 DEF TypeOK, PCs, LockPCs, Pages
  <2>5. ListPages'
    BY <1>0, <2>1, <2>2, <2>3 DEF ListPages, TypeOK, LockPCs
  <2>6. Releases'
    BY <1>0, <2>1, <2>3 DEF Releases, TypeOK, ReleasePCs, Pid
  <2>7. Held'
    BY <1>0, <2>1 DEF Held, TypeOK
  <2> QED BY <2>4, <2>5, <2>6, <2>7 DEF CInv
<1> QED BY <1>1, <1>2

\* What a process does that holds the track list lock
LEMMA LockedCInv == ASSUME CInv, NEW p \in Procs, Locked(p) PROVE CInv'
<1> USE ClaimAssumption
<1>0. TypeOK /\ ListPages /\ Releases /\ Held /\ made \in Pages
  BY DEF CInv, TypeOK
<1>1. /\ p \notin dead /\ pc[p] \in LockPCs /\ lock = p /\ page[p] = made
      /\ \A q \in Procs : pc[q] \in LockPCs => q = p
  <2>1. p \notin dead /\ pc[p] \in LockPCs
    BY DEF Locked, Claim, Unlock, GrowFlag, GrowCopy, GrowUnlink, GrowCreate, GrowReady, At, LockPCs
  <2> QED BY <1>0, <2>1 DEF TypeOK, ListPages
<1>2. CASE Claim(p)
  <2>1. /\ pc[p] = "locked" /\ pages[made].pid = Nobody
        /\ pages' = [pages EXCEPT ![made].pid = p] /\ claimed' = claimed \union {p}
        /\ lock' = Nobody /\ pc' = [pc EXCEPT ![p] = "idle"]
        /\ UNCHANGED <<made, name, page, orig, target, before, givenUp, dead>>
    BY <1>1, <1>2 DEF Claim, At, Pid, SetPid, Goto
  <2>2. /\ pages' \in [Pages -> [ready : BOOLEAN, reload : BOOLEAN, pid : Procs \union {Nobody}]]
        /\ pages'[made].pid = p
        /\ \A g \in Pages : /\ pages'[g].ready = pages[g].ready /\ pages'[g].reload = pages[g].reload
                            /\ g # made => pages'[g].pid = pages[g].pid
    BY <1>0, <2>1 DEF TypeOK
  <2>3. TypeOK'
    BY <1>0, <1>1, <2>1, <2>2 DEF TypeOK, PCs, LockPCs
  <2>4. ListPages'
    <3>1. name = made /\ pages[made].ready /\ ~pages[made].reload
      BY <1>0, <1>1, <2>1 DEF ListPages
    <3> QED BY <1>0, <1>1, <2>1, <2>2, <3>1 DEF ListPages, TypeOK, LockPCs
  <2>5. Releases'
    <3> SUFFICES ASSUME NEW r \in Procs \ dead, pc'[r] \in ReleasePCs
                 PROVE  /\ (target[r] = r /\ r \notin claimed') \/ (r \in Breakers /\ target[r] \in dead)
                        /\ pc'[r] \in {"read", "write"} => Pid(r)' = target[r]
                        /\ pc'[r] # "read" => before[r] = target[r]
      BY <2>1 DEF Releases
    <3>1. r # p /\ pc'[r] = pc[r] /\ page[r] \in Pages
      BY <1>0, <2>1 DEF TypeOK, ReleasePCs, Pages
    <3>2. target[r] \in Procs
      BY <1>0, <3>1 DEF Releases, TypeOK
    <3>3. pc[r] \in {"read", "write"} => page[r] # made
      BY <1>0, <2>1, <3>1, <3>2 DEF Releases, Pid
    <3>4. /\ (target[r] = r /\ r \notin claimed') \/ (r \in Breakers /\ target[r] \in dead)
          /\ pc'[r] # "read" => before[r] = target[r]
      BY <1>0, <2>1, <3>1 DEF Releases
    <3>5. pc'[r] \in {"read", "write"} => Pid(r)' = target[r]
      BY <1>0, <2>1, <2>2, <3>1, <3>3 DEF Releases, Pid
    <3> QED BY <3>4, <3>5
  <2>6. Held'
    <3>1. claimed \ dead = {}
      BY <1>0, <2>1 DEF Held, TypeOK
    <3>2. \A q \in Procs : pc'[q] \notin {"unlink", "create"}
      BY <1>0, <1>1, <2>1 DEF TypeOK, LockPCs
    <3> QED BY <2>1, <2>2, <3>1, <3>2 DEF Held
  <2> QED BY <2>3, <2>4, <2>5, <2>6 DEF CInv
<1>3. CASE Unlock(p)
  <2>1. /\ pc[p] = "locked" /\ lock' = Nobody /\ pc' = [pc EXCEPT ![p] = "idle"]
        /\ UNCHANGED <<pages, made, name, page, orig, target, before, givenUp, claimed, dead>>
    BY <1>3 DEF Unlock, At, Goto, pageVars
  <2>2. TypeOK'
    BY <1>0, <1>1, <2>1 DEF TypeOK, PCs, LockPCs
  <2>3. ListPages'
    BY <1>0, <1>1, <2>1 DEF ListPages, TypeOK, LockPCs
  <2>4. Releases' /\ Held'
    BY <1>0, <2>1 DEF Releases, Held, TypeOK, ReleasePCs, Pid
  <2> QED BY <2>2, <2>3, <2>4 DEF CInv
<1>4. CASE GrowFlag(p)
  <2>1. /\ pc[p] = "locked" /\ made < MaxPages
        /\ pages' = [pages EXCEPT ![made].reload = TRUE] /\ pc' = [pc EXCEPT ![p] = "copy"]
        /\ UNCHANGED <<made, name, lock, page, orig, target, before, givenUp, claimed, dead>>
    BY <1>1, <1>4 DEF GrowFlag, At, Goto
  <2>2. /\ pages' \in [Pages -> [ready : BOOLEAN, reload : BOOLEAN, pid : Procs \union {Nobody}]]
        /\ pages'[made].reload = TRUE
        /\ \A g \in Pages : /\ pages'[g].ready = pages[g].ready /\ pages'[g].pid = pages[g].pid
                            /\ pages[g].reload => pages'[g].reload
    <3> DEFINE g0 == [pages[made] EXCEPT !.reload = TRUE]
    <3>1. pages[made] \in [ready : BOOLEAN, reload : BOOLEAN, pid : Procs \union {Nobody}]
      BY <1>0 DEF TypeOK
    <3>2. /\ g0 \in [ready : BOOLEAN, reload : BOOLEAN, pid : Procs \union {Nobody}]
          /\ g0.reload = TRUE /\ g0.ready = pages[made].ready /\ g0.pid = pages[made].pid
      BY <3>1
    <3>3. pages' = [pages EXCEPT ![made] = g0]
      BY <2>1
    <3> HIDE DEF g0
    <3>4. pages'[made] = g0 /\ \A g \in Pages : g # made => pages'[g] = pages[g]
      BY <1>0, <3>3 DEF TypeOK
    <3>5. pages' \in [Pages -> [ready : BOOLEAN, reload : BOOLEAN, pid : Procs \union {Nobody}]]
      BY <1>0, <3>2, <3>3 DEF TypeOK
    <3> QED BY <3>2, <3>4, <3>5
  <2>3. TypeOK'
    BY <1>0, <1>1, <2>1, <2>2 DEF TypeOK, PCs, LockPCs
  <2>4. ListPages'
    BY <1>0, <1>1, <2>1, <2>2 DEF ListPages, TypeOK, LockPCs, Pages
  <2>5. Releases'
    BY <1>0, <2>1, <2>2 DEF Releases, TypeOK, ReleasePCs, Pid, Pages
  <2>6. Held'
    BY <1>0, <2>1, <2>2 DEF Held, TypeOK
  <2> QED BY <2>3, <2>4, <2>5, <2>6 DEF CInv
<1>5. CASE GrowCopy(p)
  <2>1. /\ pc[p] = "copy" /\ pc' = [pc EXCEPT ![p] = "unlink"]
        /\ orig' = [orig EXCEPT ![p] = pages[made].pid]
        /\ UNCHANGED <<pages, made, name, lock, page, target, before, givenUp, claimed, dead>>
    BY <1>1, <1>5 DEF GrowCopy, At, Goto, Pid, pageVars
  <2>2. TypeOK'
    BY <1>0, <1>1, <2>1 DEF TypeOK, PCs, LockPCs
  <2>3. ListPages'
    BY <1>0, <1>1, <2>1 DEF ListPages, TypeOK, LockPCs
  <2>4. Releases'
    BY <1>0, <2>1 DEF Releases, TypeOK, ReleasePCs, Pid
  <2>5. Held'
    BY <1>0, <2>1 DEF Held, TypeOK
  <2> QED BY <2>2, <2>3, <2>4, <2>5 DEF CInv
<1>6. CASE GrowUnlink(p)
  <2>1. /\ pc[p] = "unlink" /\ pc' = [pc EXCEPT ![p] = "create"] /\ name' = NoPage
        /\ UNCHANGED <<pages, made, lock, page, orig, target, before, givenUp, claimed, dead>>
    BY <1>6 DEF GrowUnlink, At, Goto
  <2>2. TypeOK'
    BY <1>0, <1>1, <2>1 DEF TypeOK, PCs, LockPCs, NoPage, Pages
  <2>3. ListPages'
    BY <1>0, <1>1, <2>1 DEF ListPages, TypeOK, LockPCs
  <2>4. Releases'
    BY <1>0, <2>1 DEF Releases, TypeOK, ReleasePCs, Pid
  <2>5. Held'
    BY <1>0, <2>1 DEF Held, TypeOK
  <2> QED BY <2>2, <2>3, <2>4, <2>5 DEF CInv
<1>7. CASE GrowCreate(p)
  <2>1. /\ pc[p] = "create" /\ pc' = [pc EXCEPT ![p] = "ready"] /\ made' = made + 1 /\ name' = made + 1
        /\ pages' = [pages EXCEPT ![made + 1] = NewPage(orig[p])]
        /\ page' = [page EXCEPT ![p] = made + 1] /\ givenUp' = [givenUp EXCEPT ![p] = FALSE]
        /\ UNCHANGED <<lock, orig, target, before, claimed, dead>>
    BY <1>7 DEF GrowCreate, At, Goto, SwitchTo
  <2>2. made + 1 \in Pages /\ pages[made].reload
    BY <1>0, <2>1 DEF ListPages, Pages
  <2>3. NewPage(orig[p]) \in [ready : BOOLEAN, reload : BOOLEAN, pid : Procs \union {Nobody}]
    BY <1>0 DEF NewPage, TypeOK
  <2>4. /\ pages' \in [Pages -> [ready : BOOLEAN, reload : BOOLEAN, pid : Procs \union {Nobody}]]
        /\ pages'[made + 1].pid = orig[p] /\ ~pages'[made + 1].reload
        /\ \A g \in Pages : g # made + 1 => pages'[g] = pages[g]
    BY <1>0, <2>1, <2>2, <2>3 DEF TypeOK, NewPage
  <2>5. TypeOK'
    BY <1>0, <1>1, <2>1, <2>2, <2>4 DEF TypeOK, PCs, LockPCs, Pages
  <2>6. ListPages'
    BY <1>0, <1>1, <2>1, <2>2, <2>4 DEF ListPages, TypeOK, LockPCs, Pages
  <2>7. Releases'
    BY <1>0, <2>1, <2>4 DEF Releases, TypeOK, ReleasePCs, Pid, Pages
  <2>8. Held'
    <3>1. \A q \in Procs : pc'[q] \notin {"unlink", "create"}
      BY <1>0, <1>1, <2>1 DEF TypeOK, LockPCs
    <3> QED BY <1>0, <2>1, <2>4, <3>1 DEF Held
  <2> QED BY <2>5, <2>6, <2>7, <2>8 DEF CInv
<1>8. CASE GrowReady(p)
  <2>1. /\ pc[p] = "ready" /\ pc' = [pc EXCEPT ![p] = "idle"] /\ lock' = Nobody
        /\ pages' = [pages EXCEPT ![made].ready = TRUE]
        /\ UNCHANGED <<made, name, page, orig, target, before, givenUp, claimed, dead>>
    BY <1>1, <1>8 DEF GrowReady, At, Goto
  <2>2. /\ pages' \in [Pages -> [ready : BOOLEAN, reload : BOOLEAN, pid : Procs \union {Nobody}]]
        /\ pages'[made].ready
        /\ \A g \in Pages : pages'[g].reload = pages[g].reload /\ pages'[g].pid = pages[g].pid
    <3> DEFINE g0 == [pages[made] EXCEPT !.ready = TRUE]
    <3>1. pages[made] \in [ready : BOOLEAN, reload : BOOLEAN, pid : Procs \union {Nobody}]
      BY <1>0 DEF TypeOK
    <3>2. /\ g0 \in [ready : BOOLEAN, reload : BOOLEAN, pid : Procs \union {Nobody}]
          /\ g0.ready = TRUE /\ g0.reload = pages[made].reload /\ g0.pid = pages[made].pid
      BY <3>1
    <3>3. pages' = [pages EXCEPT ![made] = g0]
      BY <2>1
    <3> HIDE DEF g0
    <3>4. pages'[made] = g0 /\ \A g \in Pages : g # made => pages'[g] = pages[g]
      BY <1>0, <3>3 DEF TypeOK
    <3>5. pages' \in [Pages -> [ready : BOOLEAN, reload : BOOLEAN, pid : Procs \union {Nobody}]]
      BY <1>0, <3>2, <3>3 DEF TypeOK
    <3> QED BY <3>2, <3>4, <3>5
  <2>3. TypeOK'
    BY <1>0, <1>1, <2>1, <2>2 DEF TypeOK, PCs, LockPCs
  <2>4. ListPages'
    BY <1>0, <1>1, <2>1, <2>2 DEF ListPages, TypeOK, LockPCs
  <2>5. Releases'
    BY <1>0, <2>1, <2>2 DEF Releases, TypeOK, ReleasePCs, Pid, Pages
  <2>6. Held'
    BY <1>0, <2>1, <2>2 DEF Held, TypeOK
  <2> QED BY <2>3, <2>4, <2>5, <2>6 DEF CInv
<1> QED BY <1>2, <1>3, <1>4, <1>5, <1>6, <1>7, <1>8 DEF Locked

\* A release: it changes a page only where the claim it clears is
LEMMA ReleaseCInv == ASSUME OneBreaker, CInv, NEW p \in Procs, Abandon(p) \/ Break(p) \/ Releasing(p)
                     PROVE  CInv'
<1> USE ClaimAssumption
<1>0. TypeOK /\ ListPages /\ Releases /\ Held /\ page[p] \in Pages
  BY DEF CInv, TypeOK, Pages
<1>1. CASE Abandon(p)
  <2>1. /\ pc[p] = "idle" /\ p \notin dead /\ Pid(p) = p /\ pc' = [pc EXCEPT ![p] = "read"]
        /\ claimed' = claimed \ {p} /\ target' = [target EXCEPT ![p] = p]
        /\ UNCHANGED <<pages, made, name, lock, page, orig, before, givenUp, dead>>
    BY <1>1 DEF Abandon, At, Goto, pageVars
  <2>2. TypeOK'
    BY <1>0, <2>1 DEF TypeOK, PCs, ReleasePCs, LockPCs
  <2>3. ListPages'
    BY <1>0, <2>1 DEF ListPages, TypeOK, LockPCs
  <2>4. Releases'
    BY <1>0, <2>1 DEF Releases, TypeOK, Pid, ReleasePCs
  <2>5. Held'
    BY <1>0, <2>1 DEF Held, TypeOK
  <2> QED BY <2>2, <2>3, <2>4, <2>5 DEF CInv
<1>2. CASE Break(p)
  <2>1. /\ pc[p] = "idle" /\ p \notin dead /\ p \in Breakers /\ Pid(p) \in dead
        /\ pc' = [pc EXCEPT ![p] = "read"] /\ target' = [target EXCEPT ![p] = Pid(p)]
        /\ UNCHANGED <<pages, made, name, lock, page, orig, before, givenUp, claimed, dead>>
    BY <1>2 DEF Break, At, Goto, pageVars
  <2>2. TypeOK'
    BY <1>0, <2>1 DEF TypeOK, PCs, ReleasePCs, LockPCs
  <2>3. ListPages'
    BY <1>0, <2>1 DEF ListPages, TypeOK, LockPCs
  <2>4. Releases'
    BY <1>0, <2>1 DEF Releases, TypeOK, Pid, ReleasePCs
  <2>5. Held'
    BY <1>0, <2>1 DEF Held, TypeOK
  <2> QED BY <2>2, <2>3, <2>4, <2>5 DEF CInv
<1>3. CASE ReadBefore(p)
  <2>1. /\ pc[p] = "read" /\ p \notin dead /\ pc' = [pc EXCEPT ![p] = "write"]
        /\ before' = [before EXCEPT ![p] = Pid(p)]
        /\ UNCHANGED <<pages, made, name, lock, page, orig, target, givenUp, claimed, dead>>
    BY <1>3 DEF ReadBefore, At, Goto, pageVars
  <2>2. TypeOK'
    BY <1>0, <2>1 DEF TypeOK, PCs, ReleasePCs, LockPCs, Pid
  <2>3. ListPages'
    BY <1>0, <2>1 DEF ListPages, TypeOK, LockPCs
  <2>4. Releases'
    BY <1>0, <2>1 DEF Releases, TypeOK, Pid, ReleasePCs
  <2>5. Held'
    BY <1>0, <2>1 DEF Held, TypeOK
  <2> QED BY <2>2, <2>3, <2>4, <2>5 DEF CInv
<1>4. CASE Write(p)
  <2>1. /\ pc[p] = "write" /\ p \notin dead /\ pc' = [pc EXCEPT ![p] = "flag"]
        /\ pages' = [pages EXCEPT ![page[p]].pid = Nobody]
        /\ UNCHANGED <<made, name, lock, page, orig, target, before, givenUp, claimed, dead>>
    BY <1>4 DEF Write, At, SetPid, Goto
  <2>2. /\ pages' \in [Pages -> [ready : BOOLEAN, reload : BOOLEAN, pid : Procs \union {Nobody}]]
        /\ \A g \in Pages : /\ pages'[g].ready = pages[g].ready /\ pages'[g].reload = pages[g].reload
                            /\ g # page[p] => pages'[g].pid = pages[g].pid
    BY <1>0, <2>1 DEF TypeOK
  <2>3. /\ pages[page[p]].pid = target[p] /\ target[p] \in Procs
        /\ (target[p] = p /\ p \notin claimed) \/ (p \in Breakers /\ target[p] \in dead)
    BY <1>0, <2>1 DEF Releases, ReleasePCs, Pid, TypeOK
  <2>4. TypeOK'
    BY <1>0, <2>1, <2>2 DEF TypeOK, PCs, ReleasePCs, LockPCs
  <2>5. ListPages'
    BY <1>0, <2>1, <2>2 DEF ListPages, TypeOK, LockPCs
  <2>6. Releases'
    <3> SUFFICES ASSUME NEW r \in Procs \ dead, pc'[r] \in ReleasePCs
                 PROVE  /\ (target[r] = r /\ r \notin claimed) \/ (r \in Breakers /\ target[r] \in dead)
                        /\ pc'[r] \in {"read", "write"} => Pid(r)' = target[r]
                        /\ pc'[r] # "read" => before[r] = target[r]
      BY <2>1 DEF Releases
    <3>1. CASE r = p
      BY <1>0, <2>1, <3>1 DEF Releases, TypeOK, ReleasePCs
    <3>2. CASE r # p
      <4>1. pc'[r] = pc[r] /\ page[r] \in Pages
        BY <1>0, <2>1, <3>2 DEF TypeOK, Pages
      <4>2. /\ (target[r] = r /\ r \notin claimed) \/ (r \in Breakers /\ target[r] \in dead)
            /\ pc[r] \in {"read", "write"} => pages[page[r]].pid = target[r]
            /\ pc[r] # "read" => before[r] = target[r]
        BY <1>0, <4>1 DEF Releases, Pid
      <4>3. target[r] # target[p]
        BY <2>1, <2>3, <3>2, <4>2 DEF OneBreaker
      <4>4. pc[r] \in {"read", "write"} => page[r] # page[p]
        BY <2>3, <4>2, <4>3
      <4> QED BY <2>1, <2>2, <4>1, <4>2, <4>4 DEF Pid
    <3> QED BY <3>1, <3>2
  <2>7. Held'
    BY <1>0, <2>1, <2>2, <2>3 DEF Held, TypeOK, Pages
  <2> QED BY <2>4, <2>5, <2>6, <2>7 DEF CInv
<1>5. CASE FlagClear(p) \/ CompareOther(p) \/ SwitchTimeout(p)
  <2>1. /\ pc' = [pc EXCEPT ![p] = "idle"] /\ pc[p] \in ReleasePCs
        /\ claimed' \subseteq claimed /\ claimed \ claimed' \subseteq dead
        /\ givenUp' \in [Procs -> BOOLEAN]
        /\ UNCHANGED <<pages, made, name, lock, page, orig, target, before, dead>>
    BY <1>0, <1>5 DEF FlagClear, CompareOther, SwitchTimeout, Released, At, Goto, pageVars, TypeOK, ReleasePCs
  <2>2. TypeOK'
    BY <1>0, <2>1 DEF TypeOK, PCs, ReleasePCs, LockPCs
  <2>3. ListPages'
    BY <1>0, <2>1 DEF ListPages, TypeOK, LockPCs, ReleasePCs
  <2>4. Releases'
    BY <1>0, <2>1 DEF Releases, TypeOK, Pid, ReleasePCs
  <2>5. Held'
    BY <1>0, <2>1 DEF Held, TypeOK
  <2> QED BY <2>2, <2>3, <2>4, <2>5 DEF CInv
<1>6. CASE FlagSet(p)
  <2>1. /\ pc[p] = "flag" /\ p \notin dead /\ pc' = [pc EXCEPT ![p] = "switch"]
        /\ UNCHANGED <<pages, made, name, lock, page, orig, target, before, givenUp, claimed, dead>>
    BY <1>6 DEF FlagSet, At, Goto, pageVars
  <2>2. TypeOK'
    BY <1>0, <2>1 DEF TypeOK, PCs, ReleasePCs, LockPCs
  <2>3. ListPages'
    BY <1>0, <2>1 DEF ListPages, TypeOK, LockPCs
  <2>4. Releases' /\ Held'
    BY <1>0, <2>1 DEF Releases, Held, TypeOK, Pid, ReleasePCs
  <2> QED BY <2>2, <2>3, <2>4 DEF CInv
<1>7. CASE Switch(p)
  <2>1. /\ pc[p] = "switch" /\ p \notin dead /\ pc' = [pc EXCEPT ![p] = "compare"]
        /\ name \in 1 .. made /\ page' = [page EXCEPT ![p] = name]
        /\ givenUp' = [givenUp EXCEPT ![p] = FALSE]
        /\ UNCHANGED <<pages, made, name, lock, orig, target, before, claimed, dead>>
    BY <1>0, <1>7 DEF Switch, Replaced, SwitchTo, At, Goto, pageVars, TypeOK, NoPage, Pages
  <2>2. TypeOK'
    BY <1>0, <2>1 DEF TypeOK, PCs, ReleasePCs, LockPCs
  <2>3. ListPages'
    BY <1>0, <2>1 DEF ListPages, TypeOK, LockPCs
  <2>4. Releases' /\ Held'
    BY <1>0, <2>1 DEF Releases, Held, TypeOK, Pid, ReleasePCs
  <2> QED BY <2>2, <2>3, <2>4 DEF CInv
<1>8. CASE CompareSame(p)
  <2>1. /\ pc[p] = "compare" /\ p \notin dead /\ pc' = [pc EXCEPT ![p] = "write"] /\ Pid(p) = before[p]
        /\ UNCHANGED <<pages, made, name, lock, page, orig, target, before, givenUp, claimed, dead>>
    BY <1>8 DEF CompareSame, At, Goto, pageVars
  <2>2. TypeOK'
    BY <1>0, <2>1 DEF TypeOK, PCs, ReleasePCs, LockPCs
  <2>3. ListPages'
    BY <1>0, <2>1 DEF ListPages, TypeOK, LockPCs
  <2>4. Releases' /\ Held'
    BY <1>0, <2>1 DEF Releases, Held, TypeOK, Pid, ReleasePCs
  <2> QED BY <2>2, <2>3, <2>4 DEF CInv
<1> QED BY <1>1, <1>2, <1>3, <1>4, <1>5, <1>6, <1>7, <1>8 DEF Releasing

\* A process dies
LEMMA DieCInv == ASSUME CInv, NEW p \in Procs, Die(p) PROVE CInv'
<1>1. dead' = dead \union {p} /\ UNCHANGED <<pages, made, name, lock, pc, page, orig, target, before, givenUp, claimed>>
  BY DEF Die, pageVars, procVars
<1> QED BY <1>1 DEF CInv, TypeOK, ListPages, Releases, Held, Pid

\* The inductive invariant holds in every state
THEOREM ClaimInvariant == ASSUME OneBreaker PROVE Spec => []CInv
<1>1. ASSUME CInv, [Next]_vars PROVE CInv'
  <2>1. CASE UNCHANGED vars
    BY <1>1, <2>1 DEF vars, pageVars, procVars, CInv, TypeOK, ListPages, Releases, Held, Pid
  <2>2. ASSUME NEW p \in Procs,
               \/ Reload(p) \/ TakeLock(p) \/ Locked(p)
               \/ Abandon(p) \/ Break(p) \/ Releasing(p) \/ Die(p)
        PROVE  CInv'
    BY <1>1, <2>2, IdleCInv, LockedCInv, ReleaseCInv, DieCInv
  <2> QED BY <1>1, <2>1, <2>2 DEF Next
<1> QED BY InitCInv, <1>1, PTL DEF Spec

-----------------------------------------------------------------------------
(* Types, without the hypothesis                                            *)

\* Only one process grows the list, and only when there is a number for the page
TInv == TypeOK /\ \A p \in Procs : pc[p] \in {"copy", "unlink", "create"} => made < MaxPages

\* What a list page is
ListPage == [ready : BOOLEAN, reload : BOOLEAN, pid : Procs \union {Nobody}]

\* A list page with one field changed, or a new one, is a list page
LEMMA PageIn ==
    ASSUME NEW r \in ListPage, NEW q \in Procs \union {Nobody}
    PROVE  /\ [r EXCEPT !.pid = q] \in ListPage
           /\ [r EXCEPT !.reload = TRUE] \in ListPage
           /\ [r EXCEPT !.ready = TRUE] \in ListPage
           /\ NewPage(q) \in ListPage
BY DEF ListPage, NewPage

\* A step keeps every type, whoever breaks claims
LEMMA StepTInv == ASSUME TInv, NEW p \in Procs,
                         \/ Reload(p) \/ TakeLock(p) \/ Locked(p)
                         \/ Abandon(p) \/ Break(p) \/ Releasing(p) \/ Die(p)
                  PROVE  TInv'
<1> USE ClaimAssumption
<1>0. /\ TypeOK /\ \A q \in Procs : pc[q] \in {"copy", "unlink", "create"} => made < MaxPages
      /\ page[p] \in Pages /\ made \in Pages /\ made \in Nat /\ MaxPages \in Nat
      /\ pages \in [Pages -> ListPage] /\ orig[p] \in Procs \union {Nobody}
  BY DEF TInv, TypeOK, Pages, ListPage
<1>1. CASE Reload(p) \/ Switch(p)
  <2>1. /\ pc[p] \in {"idle", "switch"} /\ name \in 1 .. made
        /\ page' = [page EXCEPT ![p] = name] /\ givenUp' = [givenUp EXCEPT ![p] = FALSE]
        /\ pc' = [pc EXCEPT ![p] = IF pc[p] = "idle" THEN "idle" ELSE "compare"]
        /\ UNCHANGED <<pages, made, name, lock, orig, target, before, claimed, dead>>
    BY <1>0, <1>1 DEF Reload, Switch, Replaced, SwitchTo, At, Goto, pageVars, TypeOK, NoPage, Pages
  <2> QED BY <1>0, <2>1 DEF TInv, TypeOK, PCs, LockPCs, ReleasePCs
<1>2. CASE TakeLock(p)
  <2>1. /\ pc[p] = "idle" /\ lock = Nobody /\ lock' = p /\ pc' = [pc EXCEPT ![p] = "locked"]
        /\ UNCHANGED <<pages, made, name, orig, target, before, claimed, dead>>
    BY <1>2 DEF TakeLock, At, Goto, pageVars
  <2>2. page' \in [Procs -> 1 .. made] /\ givenUp' \in [Procs -> BOOLEAN]
    <3>1. CASE Replaced(p)
      <4>1. name \in 1 .. made
        BY <1>0, <3>1 DEF Replaced, TypeOK, NoPage
      <4>2. page' = [page EXCEPT ![p] = name] /\ givenUp' = [givenUp EXCEPT ![p] = FALSE]
        BY <1>2, <3>1 DEF TakeLock, SwitchTo
      <4> QED BY <1>0, <4>1, <4>2 DEF TypeOK
    <3>2. CASE ~Replaced(p)
      BY <1>0, <1>2, <3>2 DEF TakeLock, TypeOK
    <3> QED BY <3>1, <3>2
  <2> QED BY <1>0, <2>1, <2>2 DEF TInv, TypeOK, PCs, LockPCs, ReleasePCs
<1>3. CASE Claim(p) \/ Write(p)
  <2>1. /\ pc[p] \in {"locked", "write"} /\ pc'[p] \in {"idle", "flag"}
        /\ \E q \in Procs \union {Nobody} : pages' = [pages EXCEPT ![page[p]] = [pages[page[p]] EXCEPT !.pid = q]]
        /\ \/ lock' = Nobody /\ pc[p] = "locked"
           \/ lock' = lock
        /\ pc' \in [Procs -> PCs] /\ \A q \in Procs : q # p => pc'[q] = pc[q]
        /\ claimed' \subseteq Procs
        /\ UNCHANGED <<made, name, page, orig, target, before, givenUp, dead>>
    BY <1>0, <1>3 DEF Claim, Write, SetPid, At, Goto, TypeOK, PCs, LockPCs, ReleasePCs
  <2>2. pages[page[p]] \in ListPage
    BY <1>0
  <2>3. pages' \in [Pages -> ListPage]
    BY <1>0, <2>1, <2>2, PageIn
  <2>4. \A q \in Procs : pc'[q] \in LockPCs => lock' = q
    BY <1>0, <2>1 DEF TypeOK, LockPCs
  <2> QED BY <1>0, <2>1, <2>3, <2>4 DEF TInv, TypeOK, ListPage
<1>4. CASE Unlock(p)
  <2>1. /\ pc[p] = "locked" /\ lock' = Nobody /\ pc' = [pc EXCEPT ![p] = "idle"]
        /\ UNCHANGED <<pages, made, name, page, orig, target, before, givenUp, claimed, dead>>
    BY <1>4 DEF Unlock, At, Goto, pageVars
  <2> QED BY <1>0, <2>1 DEF TInv, TypeOK, PCs, LockPCs, ReleasePCs
<1>5. CASE GrowFlag(p)
  <2>1. /\ pc[p] = "locked" /\ made < MaxPages /\ pc' = [pc EXCEPT ![p] = "copy"]
        /\ pages' = [pages EXCEPT ![page[p]] = [pages[page[p]] EXCEPT !.reload = TRUE]]
        /\ UNCHANGED <<made, name, lock, page, orig, target, before, givenUp, claimed, dead>>
    BY <1>0, <1>5 DEF GrowFlag, At, Goto
  <2>2. pages' \in [Pages -> ListPage]
    BY <1>0, <2>1, PageIn
  <2> QED BY <1>0, <2>1, <2>2 DEF TInv, TypeOK, PCs, LockPCs, ReleasePCs, ListPage
<1>6. CASE GrowCopy(p)
  <2>1. /\ pc[p] = "copy" /\ pc' = [pc EXCEPT ![p] = "unlink"]
        /\ orig' = [orig EXCEPT ![p] = pages[page[p]].pid] /\ pages[page[p]].pid \in Procs \union {Nobody}
        /\ UNCHANGED <<pages, made, name, lock, page, target, before, givenUp, claimed, dead>>
    BY <1>0, <1>6 DEF GrowCopy, At, Goto, Pid, pageVars, ListPage
  <2> QED BY <1>0, <2>1 DEF TInv, TypeOK, PCs, LockPCs, ReleasePCs
<1>7. CASE GrowUnlink(p)
  <2>1. /\ pc[p] = "unlink" /\ pc' = [pc EXCEPT ![p] = "create"] /\ name' = 0
        /\ UNCHANGED <<pages, made, lock, page, orig, target, before, givenUp, claimed, dead>>
    BY <1>7 DEF GrowUnlink, At, Goto, NoPage
  <2> QED BY <1>0, <2>1 DEF TInv, TypeOK, PCs, LockPCs, ReleasePCs
<1>8. CASE GrowCreate(p)
  <2>1. /\ pc[p] = "create" /\ pc' = [pc EXCEPT ![p] = "ready"] /\ made' = made + 1 /\ name' = made + 1
        /\ pages' = [pages EXCEPT ![made + 1] = NewPage(orig[p])]
        /\ page' = [page EXCEPT ![p] = made + 1] /\ givenUp' = [givenUp EXCEPT ![p] = FALSE]
        /\ UNCHANGED <<lock, orig, target, before, claimed, dead>>
    BY <1>8 DEF GrowCreate, At, Goto, SwitchTo
  <2>2. made + 1 \in Pages
    BY <1>0, <2>1 DEF Pages
  <2>3. pages' \in [Pages -> ListPage]
    BY <1>0, <2>1, PageIn
  <2>4. \A q \in Procs : pc'[q] \notin {"copy", "unlink", "create"}
    BY <1>0, <2>1 DEF TypeOK, LockPCs
  <2>5. page' \in [Procs -> 1 .. made + 1] /\ made + 1 \in 0 .. made + 1
    BY <1>0, <2>1 DEF TypeOK
  <2> QED BY <1>0, <2>1, <2>2, <2>3, <2>4, <2>5 DEF TInv, TypeOK, PCs, LockPCs, ListPage
<1>9. CASE GrowReady(p)
  <2>1. /\ pc[p] = "ready" /\ pc' = [pc EXCEPT ![p] = "idle"] /\ lock' = Nobody
        /\ pages' = [pages EXCEPT ![page[p]] = [pages[page[p]] EXCEPT !.ready = TRUE]]
        /\ UNCHANGED <<made, name, page, orig, target, before, givenUp, claimed, dead>>
    BY <1>0, <1>9 DEF GrowReady, At, Goto
  <2>2. pages' \in [Pages -> ListPage]
    BY <1>0, <2>1, PageIn
  <2> QED BY <1>0, <2>1, <2>2 DEF TInv, TypeOK, PCs, LockPCs, ReleasePCs, ListPage
<1>10. CASE \/ Abandon(p) \/ Break(p) \/ ReadBefore(p) \/ FlagClear(p) \/ FlagSet(p)
            \/ SwitchTimeout(p) \/ CompareOther(p) \/ CompareSame(p) \/ Die(p)
  <2>1. pages[page[p]].pid \in Procs \union {Nobody}
    BY <1>0 DEF ListPage
  <2>2. /\ pc'[p] = pc[p] \/ pc'[p] \in {"idle"} \union ReleasePCs
        /\ pc' \in [Procs -> PCs] /\ \A q \in Procs : q # p => pc'[q] = pc[q]
    BY <1>0, <1>10 DEF Abandon, Break, ReadBefore, FlagClear, FlagSet, SwitchTimeout, CompareOther,
                        CompareSame, Die, Released, At, Goto, procVars, TypeOK, PCs, ReleasePCs
  <2>3. target' \in [Procs -> Procs \union {Nobody}] /\ before' \in [Procs -> Procs \union {Nobody}]
    BY <1>0, <1>10, <2>1 DEF Abandon, Break, ReadBefore, FlagClear, FlagSet, SwitchTimeout, CompareOther,
                        CompareSame, Die, Pid, procVars, TypeOK
  <2>4. givenUp' \in [Procs -> BOOLEAN] /\ claimed' \subseteq Procs /\ dead' \subseteq Procs
    BY <1>0, <1>10 DEF Abandon, Break, ReadBefore, FlagClear, FlagSet, SwitchTimeout, CompareOther,
                        CompareSame, Die, Released, procVars, TypeOK
  <2>5. UNCHANGED <<pages, made, name, lock, page, orig>>
    BY <1>10 DEF Abandon, Break, ReadBefore, FlagClear, FlagSet, SwitchTimeout, CompareOther,
                        CompareSame, Die, procVars, pageVars
  <2> QED BY <1>0, <2>2, <2>3, <2>4, <2>5 DEF TInv, TypeOK, LockPCs, ReleasePCs
<1> QED BY <1>1, <1>2, <1>3, <1>4, <1>5, <1>6, <1>7, <1>8, <1>9, <1>10 DEF Locked, Releasing

\* Every variable of the claim's model has its type, the lock's holder included,
\* for any number of processes that break claims
THEOREM ClaimTypeOK == Spec => []TypeOK
<1>1. Init => TInv
  BY InitCInv DEF Init, CInv, TInv
<1>2. ASSUME TInv, [Next]_vars PROVE TInv'
  <2>1. CASE UNCHANGED vars
    BY <1>2, <2>1 DEF vars, pageVars, procVars, TInv, TypeOK
  <2>2. CASE Next
    BY <1>2, <2>2, StepTInv DEF Next
  <2> QED BY <1>2, <2>1, <2>2
<1>3. TInv => TypeOK
  BY DEF TInv
<1> QED BY <1>1, <1>2, <1>3, PTL DEF Spec

\* No two live processes claim the track
THEOREM ClaimIsExclusive == ASSUME OneBreaker PROVE Spec => []ClaimExclusive
<1>1. CInv => ClaimExclusive
  BY DEF CInv, Held, ClaimExclusive
<1> QED BY <1>1, ClaimInvariant, PTL

\* A claim of a live process is not lost when the list is replaced
THEOREM ClaimIsKept == ASSUME OneBreaker PROVE Spec => []ClaimKept
<1>1. CInv => ClaimKept
  BY DEF CInv, ListPages, Held, ClaimKept, Quiet
<1> QED BY <1>1, ClaimInvariant, PTL

-----------------------------------------------------------------------------
(* Nothing that was released comes back                                      *)

\* Who may hold the lock and who may copy the list
LEMMA Growing ==
    ASSUME CInv
    PROVE  /\ \A p, q \in Procs : pc[p] \in LockPCs /\ pc[q] \in LockPCs => p = q
           /\ made \in Pages /\ page \in [Procs -> 1 .. made] /\ \A p \in Procs : page[p] \in Pages
           /\ ~pages[made].reload => \A p \in Procs : pc[p] \notin {"copy", "unlink", "create"}
           /\ \A p \in Procs : pages[page[p]].reload \/ page[p] = made
<1> USE ClaimAssumption
<1>1. \A p, q \in Procs : pc[p] \in LockPCs /\ pc[q] \in LockPCs => p = q
  BY DEF CInv, TypeOK
<1>2. made \in Pages /\ page \in [Procs -> 1 .. made] /\ \A p \in Procs : page[p] \in Pages
  BY DEF CInv, TypeOK, Pages
<1>3. ~pages[made].reload => \A p \in Procs : pc[p] \notin {"copy", "unlink", "create"}
  BY DEF CInv, ListPages
<1>4. \A p \in Procs : pages[page[p]].reload \/ page[p] = made
  <2> SUFFICES ASSUME NEW p \in Procs, page[p] # made PROVE pages[page[p]].reload
    OBVIOUS
  <2>1. page[p] \in Pages /\ page[p] < made
    BY <1>2 DEF Pages
  <2> QED BY <2>1 DEF CInv, ListPages
<1> QED BY <1>1, <1>2, <1>3, <1>4

\* A live process's release has a process for its target, not one that is at work
LEMMA Targets ==
    ASSUME CInv, NEW r \in Procs \ dead, pc[r] \in ReleasePCs
    PROVE  /\ target[r] \in Procs
           /\ target[r] = r \/ (target[r] \in dead /\ r \in Breakers)
           /\ pc[r] \in {"read", "write"} => pages[page[r]].pid = target[r]
           /\ pc[r] # "read" => before[r] = target[r]
BY ClaimAssumption DEF CInv, TypeOK, Releases, Pid

\* A release ends: what it was to clear is noted nowhere
LEMMA EndLettingGo ==
    ASSUME LettingGo, NEW p \in Procs, pc \in [Procs -> PCs], Released(p), ~Noted(target[p]),
           UNCHANGED <<pages, made, orig, target>>, pc[p] \in ReleasePCs
    PROVE  LettingGo'
<1>1. /\ claimed' = claimed \ ({target[p]} \intersect dead)
      /\ pc' = [pc EXCEPT ![p] = "idle"]
  BY DEF Released, Goto
<1> SUFFICES ASSUME NEW q \in Procs, q \notin claimed', Noted(q)'
             PROVE  pc'[q] \in ReleasePCs /\ target'[q] = q
  BY DEF LettingGo
<1>2. Noted(q)
  BY <1>1 DEF Noted, ReleasePCs
<1>3. q # target[p]
  BY <1>2
<1>4. q \notin claimed
  BY <1>1, <1>3
<1>5. pc[q] \in ReleasePCs /\ target[q] = q
  BY <1>2, <1>4 DEF LettingGo
<1>6. q # p
  BY <1>3, <1>5
<1> QED BY <1>1, <1>5, <1>6

\* Written, with the target of a release under a name of its own
LEMMA WrittenNext ==
    ASSUME \A r \in Procs \ dead', q \in Procs \union {Nobody} :
             (q = target'[r] /\ pc'[r] \in {"flag", "compare"}) =>
                /\ pc'[r] = "flag" => Pid(r)' # q
                /\ (pc'[r] = "compare" /\ Pid(r)' # q) => ~Noted(q)',
           CInv'
    PROVE  Written'
<1> SUFFICES ASSUME NEW r \in Procs \ dead',
                    ~(/\ pc'[r] = "flag" => Pid(r)' # target'[r]
                      /\ (pc'[r] = "compare" /\ Pid(r)' # target'[r]) => ~Noted(target[r])')
             PROVE  FALSE
  BY DEF Written, Noted
<1>1. target'[r] \in Procs \union {Nobody} /\ pc'[r] \in {"flag", "compare"}
  BY DEF CInv, TypeOK
<1>2. PICK q \in Procs \union {Nobody} : q = target'[r]
  BY <1>1
<1>3. Noted(target[r])' <=> Noted(q)'
  BY <1>2 DEF Noted
<1> QED BY <1>1, <1>2, <1>3

\* Steps that change no page, no copy and nobody's place in a release
LEMMA NotedSame ==
    ASSUME RInv, NEW p \in Procs, pc' \in [Procs -> PCs], \A q \in Procs : q # p => pc'[q] = pc[q],
           pc[p] \notin ReleasePCs, pc'[p] \notin ReleasePCs,
           pc[p] \in {"unlink", "create"} <=> pc'[p] \in {"unlink", "create"},
           \A g \in Pages : pages'[g].pid = pages[g].pid,
           \A q \in Procs : q # p => page'[q] = page[q],
           UNCHANGED <<made, orig, target, claimed, dead>>
    PROVE  Written' /\ (LettingGo => LettingGo')
<1>1. \A q \in Procs : Noted(q)' <=> Noted(q)
  BY Growing DEF Noted, RInv
<1>2. Written'
  <2> SUFFICES ASSUME NEW r \in Procs \ dead, pc'[r] \in {"flag", "compare"}
               PROVE  /\ pc'[r] = "flag" => Pid(r)' # target[r]
                      /\ (pc'[r] = "compare" /\ Pid(r)' # target[r]) => ~Noted(target[r])'
    BY DEF Written
  <2>1. r # p /\ pc'[r] = pc[r]
    BY DEF ReleasePCs
  <2>2. Pid(r)' = Pid(r) /\ target[r] \in Procs
    BY <2>1, Growing, Targets DEF Pid, RInv, ReleasePCs
  <2> QED BY <1>1, <2>1, <2>2 DEF Written, RInv
<1>3. ASSUME LettingGo PROVE LettingGo'
  BY <1>1, <1>3 DEF LettingGo
<1> QED BY <1>2, <1>3

\* What a process does that holds no lock and releases nothing
LEMMA IdleRInv == ASSUME RInv, CInv', NEW p \in Procs, Reload(p) \/ TakeLock(p) PROVE RInv'
<1> USE ClaimAssumption
<1>0. /\ CInv /\ GivenUp /\ lock \in Procs \union {Nobody} /\ dead \subseteq Procs /\ pc' \in [Procs -> PCs]
      /\ givenUp \in [Procs -> BOOLEAN] /\ page \in [Procs -> 1 .. made]
  BY DEF RInv, CInv, TypeOK
<1>1. /\ pc[p] = "idle" /\ p \notin dead /\ pc'[p] \in {"idle", "locked"}
      /\ \A q \in Procs : q # p => pc'[q] = pc[q] /\ page'[q] = page[q]
      /\ UNCHANGED <<pages, made, name, orig, target, before, claimed, dead>>
  BY <1>0 DEF Reload, TakeLock, SwitchTo, At, Goto, pageVars
<1>2. Written' /\ (LettingGo => LettingGo')
  BY <1>0, <1>1, NotedSame DEF ReleasePCs
<1>3. CASE Reload(p)
  <2>1. lock' = lock /\ givenUp' = [givenUp EXCEPT ![p] = FALSE]
    BY <1>3 DEF Reload, SwitchTo
  <2>2. GivenUp'
    BY <1>0, <1>1, <2>1 DEF GivenUp
  <2> QED BY <1>1, <1>2, <2>1, <2>2 DEF RInv
<1>4. CASE TakeLock(p)
  <2>1. lock = Nobody /\ lock' = p /\ lock \notin dead
    BY <1>0, <1>4 DEF TakeLock
  <2>2. \A q \in Procs : ~givenUp[q] /\ ~givenUp'[q]
    BY <1>0, <1>4, <2>1 DEF GivenUp, TakeLock, SwitchTo
  <2>3. GivenUp'
    BY <1>0, <1>1, <2>2 DEF GivenUp
  <2> QED BY <1>1, <1>2, <2>1, <2>3 DEF RInv
<1> QED BY <1>3, <1>4

\* What a process does that holds the track list lock
LEMMA LockedRInv == ASSUME RInv, CInv', NEW p \in Procs, Locked(p) PROVE RInv'
<1> USE ClaimAssumption
<1>0. /\ CInv /\ TypeOK /\ ListPages /\ GivenUp /\ Written /\ dead \subseteq Procs /\ pc \in [Procs -> PCs]
      /\ pc' \in [Procs -> PCs] /\ givenUp \in [Procs -> BOOLEAN] /\ page \in [Procs -> 1 .. made]
  BY DEF RInv, CInv, TypeOK
<1>1. p \notin dead /\ pc[p] \in LockPCs /\ lock = p /\ page[p] = made /\ pc[p] \notin ReleasePCs
  <2>1. p \notin dead /\ pc[p] \in LockPCs
    BY DEF Locked, Claim, Unlock, GrowFlag, GrowCopy, GrowUnlink, GrowCreate, GrowReady, At, LockPCs
  <2> QED BY <1>0, <2>1 DEF TypeOK, ListPages, LockPCs, ReleasePCs
<1>2. LettingGo
  BY <1>1 DEF RInv
<1>3. \A q \in Procs : q # p => pc[q] \notin LockPCs /\ pc'[q] = pc[q]
  BY <1>0, <1>1, Growing DEF Locked, Claim, Unlock, GrowFlag, GrowCopy, GrowUnlink, GrowCreate, GrowReady, Goto
<1>4. \A q \in Procs : ~givenUp[q]
  BY <1>0, <1>1 DEF GivenUp
<1>5. SUFFICES GivenUp' /\ Written' /\ LettingGo'
  BY DEF RInv
<1>6. GivenUp'
  <2>1. \A q \in Procs : ~givenUp'[q]
    BY <1>0, <1>4 DEF Locked, Claim, Unlock, GrowFlag, GrowCopy, GrowUnlink, GrowCreate, GrowReady, SwitchTo
  <2>2. name' \in {made', NoPage}
    BY <1>0 DEF Locked, Claim, Unlock, GrowFlag, GrowCopy, GrowUnlink, GrowCreate, GrowReady, GivenUp, pageVars
  <2> QED BY <2>1, <2>2 DEF GivenUp
<1>7. CASE Claim(p)
  <2>1. /\ pages' = [pages EXCEPT ![made].pid = p] /\ claimed' = claimed \union {p}
        /\ pc[p] = "locked" /\ pc'[p] = "idle" /\ UNCHANGED <<made, page, orig, target, dead>>
    BY <1>0, <1>1, <1>7 DEF Claim, At, SetPid, Goto
  <2>2. \A q \in Procs : pc'[q] \notin {"unlink", "create"}
    BY <1>3, <2>1 DEF LockPCs
  <2>3. pages'[made].pid = p /\ \A g \in Pages : g # made => pages'[g].pid = pages[g].pid
    BY <1>0, <2>1, Growing DEF TypeOK
  <2>4. \A q \in Procs : q # p => ~Noted(q)'
    BY <2>1, <2>2, <2>3 DEF Noted
  <2>5. LettingGo'
    BY <2>1, <2>4 DEF LettingGo
  <2>6. Written'
    <3> SUFFICES ASSUME NEW r \in Procs \ dead, pc'[r] \in {"flag", "compare"}, NEW q \in Procs \union {Nobody}, q = target'[r]
                 PROVE  /\ pc'[r] = "flag" => Pid(r)' # q
                        /\ (pc'[r] = "compare" /\ Pid(r)' # q) => ~Noted(q)'
      BY <1>1, <2>1, WrittenNext
    <3>1. r # p /\ pc[r] = pc'[r] /\ pc[r] \in ReleasePCs
      BY <1>3, <2>1 DEF ReleasePCs
    <3>2. target[r] = q /\ q \in Procs /\ q # p
      BY <1>0, <1>1, <2>1, <3>1, Targets
    <3>3. pc'[r] = "flag" => Pid(r)' # q
      <4>1. page[r] \in Pages
        BY <1>0, Growing
      <4>2. pc[r] = "flag" => pages[page[r]].pid # target[r]
        BY <1>0 DEF Written, Pid
      <4> QED BY <2>1, <2>3, <3>1, <3>2, <4>1, <4>2 DEF Pid
    <3> QED BY <2>4, <3>2, <3>3
  <2> QED BY <1>6, <2>5, <2>6
<1>8. CASE Unlock(p) \/ GrowUnlink(p)
  <2>1. /\ pc'[p] \in {"idle", "create"} /\ UNCHANGED <<pages, made, page, orig, target, claimed, dead>>
        /\ pc[p] \in {"unlink", "create"} <=> pc'[p] \in {"unlink", "create"}
    BY <1>0, <1>8 DEF Unlock, GrowUnlink, At, Goto, pageVars
  <2> QED BY <1>0, <1>1, <1>2, <1>3, <1>6, <2>1, NotedSame DEF ReleasePCs
<1>9. CASE GrowFlag(p) \/ GrowReady(p)
  <2>1. /\ pc'[p] \in {"copy", "idle"} /\ UNCHANGED <<made, page, orig, target, claimed, dead>>
        /\ pc[p] \in {"locked", "ready"}
    BY <1>0, <1>9 DEF GrowFlag, GrowReady, At, Goto
  <2>2. \A g \in Pages : pages'[g].pid = pages[g].pid
    <3>1. \/ pages' = [pages EXCEPT ![made].reload = TRUE]
          \/ pages' = [pages EXCEPT ![made].ready = TRUE]
      BY <1>1, <1>9 DEF GrowFlag, GrowReady
    <3>2. /\ pages \in [Pages -> ListPage] /\ made \in Pages
          /\ [pages[made] EXCEPT !.reload = TRUE].pid = pages[made].pid
          /\ [pages[made] EXCEPT !.ready = TRUE].pid = pages[made].pid
      BY <1>0, Growing DEF TypeOK, ListPage
    <3> QED BY <3>1, <3>2
  <2> QED BY <1>0, <1>1, <1>2, <1>3, <1>6, <2>1, <2>2, NotedSame DEF ReleasePCs
<1>10. CASE GrowCopy(p)
  <2>1. /\ orig' = [orig EXCEPT ![p] = pages[made].pid] /\ pc[p] = "copy" /\ pc'[p] = "unlink"
        /\ UNCHANGED <<pages, made, page, target, claimed, dead>>
    BY <1>0, <1>1, <1>10 DEF GrowCopy, At, Pid, Goto, pageVars
  <2>2. \A q \in Procs : Noted(q)' => Noted(q)
    BY <1>0, <1>3, <2>1 DEF Noted, LockPCs, TypeOK
  <2>3. LettingGo'
    BY <1>1, <1>2, <1>3, <2>1, <2>2 DEF LettingGo
  <2>4. Written'
    <3> SUFFICES ASSUME NEW r \in Procs \ dead, pc'[r] \in {"flag", "compare"}, NEW q \in Procs \union {Nobody}, q = target'[r]
                 PROVE  /\ pc'[r] = "flag" => Pid(r)' # q
                        /\ (pc'[r] = "compare" /\ Pid(r)' # q) => ~Noted(q)'
      BY <1>1, <2>1, WrittenNext
    <3>1. pc[r] = pc'[r] /\ pc[r] \in ReleasePCs
      BY <1>3, <2>1 DEF ReleasePCs
    <3>2. target[r] = q /\ q \in Procs /\ Pid(r)' = Pid(r)
      BY <1>0, <2>1, <3>1, Targets DEF Pid
    <3>3. Noted(q)' => Noted(q)
      BY <2>2, <3>2
    <3> QED BY <1>0, <3>1, <3>2, <3>3 DEF Written
  <2> QED BY <1>6, <2>3, <2>4
<1>11. CASE GrowCreate(p)
  <2>1. /\ pc[p] = "create" /\ pc'[p] = "ready" /\ made' = made + 1
        /\ pages' = [pages EXCEPT ![made + 1] = NewPage(orig[p])]
        /\ page' = [page EXCEPT ![p] = made + 1] /\ UNCHANGED <<orig, target, claimed, dead>>
    BY <1>0, <1>11 DEF GrowCreate, At, Goto, SwitchTo
  <2>2. made + 1 \in Pages /\ made \in Nat
    BY <1>0, <2>1, Growing DEF ListPages, Pages
  <2>3. pages'[made + 1].pid = orig[p] /\ \A g \in Pages : g # made + 1 => pages'[g] = pages[g]
    BY <1>0, <2>1, <2>2 DEF TypeOK, NewPage
  <2>4. \A q \in Procs : Noted(q)' => Noted(q)
    BY <1>3, <2>1, <2>3 DEF Noted, LockPCs
  <2>5. LettingGo'
    BY <1>1, <1>2, <1>3, <2>1, <2>4 DEF LettingGo
  <2>6. Written'
    <3> SUFFICES ASSUME NEW r \in Procs \ dead, pc'[r] \in {"flag", "compare"}, NEW q \in Procs \union {Nobody}, q = target'[r]
                 PROVE  /\ pc'[r] = "flag" => Pid(r)' # q
                        /\ (pc'[r] = "compare" /\ Pid(r)' # q) => ~Noted(q)'
      BY <1>1, <2>1, WrittenNext
    <3>1. r # p /\ pc[r] = pc'[r] /\ pc[r] \in ReleasePCs
      BY <1>3, <2>1 DEF ReleasePCs
    <3>2. target[r] = q /\ q \in Procs
      BY <1>0, <2>1, <3>1, Targets
    <3>3. Pid(r)' = Pid(r)
      BY <1>0, <2>1, <2>2, <2>3, <3>1 DEF Pid, Pages
    <3>4. Noted(q)' => Noted(q)
      BY <2>4, <3>2
    <3> QED BY <1>0, <3>1, <3>2, <3>3, <3>4 DEF Written
  <2> QED BY <1>6, <2>5, <2>6
<1> QED BY <1>7, <1>8, <1>9, <1>10, <1>11 DEF Locked

\* A release: what it clears is noted nowhere once it ends, unless the lock is lost
LEMMA ReleaseRInv == ASSUME OneBreaker, RInv, CInv', NEW p \in Procs, Abandon(p) \/ Break(p) \/ Releasing(p)
                     PROVE  RInv'
<1> USE ClaimAssumption
<1>0. /\ CInv /\ TypeOK /\ ListPages /\ GivenUp /\ Written /\ dead \subseteq Procs /\ pc \in [Procs -> PCs]
      /\ givenUp \in [Procs -> BOOLEAN] /\ page \in [Procs -> 1 .. made] /\ target \in [Procs -> Procs \union {Nobody}]
      /\ page[p] \in Pages /\ (lock \in dead \/ LettingGo)
  BY Growing DEF RInv, CInv, TypeOK
<1>1. p \notin dead /\ UNCHANGED <<made, name, lock, orig, dead>>
  BY DEF Abandon, Break, Releasing, ReadBefore, Write, FlagClear, FlagSet, Switch, SwitchTimeout,
         CompareOther, CompareSame, At, pageVars
<1>2. SUFFICES GivenUp' /\ Written' /\ (LettingGo /\ lock \notin dead => LettingGo')
  BY <1>0, <1>1 DEF RInv
<1>3. GivenUp'
  <2>1. UNCHANGED givenUp \/ givenUp' = [givenUp EXCEPT ![p] = FALSE] \/ lock \in dead
    BY DEF Abandon, Break, Releasing, ReadBefore, Write, FlagClear, FlagSet, Switch, SwitchTo, SwitchTimeout,
           CompareOther, CompareSame
  <2> QED BY <1>0, <1>1, <2>1 DEF GivenUp
<1>4. CASE Abandon(p) \/ Break(p)
  <2>1. /\ pc[p] = "idle" /\ pc' = [pc EXCEPT ![p] = "read"] /\ UNCHANGED <<pages, page>>
        /\ \A q \in Procs : q # p => target'[q] = target[q]
        /\ claimed' = claimed \/ (claimed' = claimed \ {p} /\ target'[p] = p)
    BY <1>0, <1>4 DEF Abandon, Break, At, Goto, pageVars
  <2>2. \A q \in Procs : Noted(q)' <=> Noted(q)
    BY <1>0, <1>1, <2>1 DEF Noted
  <2>3. LettingGo => LettingGo'
    <3> SUFFICES ASSUME LettingGo, NEW q \in Procs \ claimed', Noted(q)
                 PROVE  pc'[q] \in ReleasePCs /\ target'[q] = q
      BY <2>2 DEF LettingGo
    <3>1. CASE q \notin claimed
      <4>1. pc[q] \in ReleasePCs /\ target[q] = q
        BY <3>1 DEF LettingGo
      <4> QED BY <1>0, <2>1, <4>1 DEF ReleasePCs
    <3>2. CASE q \in claimed
      BY <1>0, <2>1, <3>2 DEF ReleasePCs
    <3> QED BY <3>1, <3>2
  <2>4. Written'
    <3> SUFFICES ASSUME NEW r \in Procs \ dead, pc'[r] \in {"flag", "compare"}, NEW q \in Procs \union {Nobody}, q = target'[r]
                 PROVE  /\ pc'[r] = "flag" => Pid(r)' # q
                        /\ (pc'[r] = "compare" /\ Pid(r)' # q) => ~Noted(q)'
      BY <1>1, <2>1, WrittenNext
    <3>1. pc[r] = pc'[r] /\ pc[r] \in ReleasePCs /\ q = target[r] /\ Pid(r)' = Pid(r)
      BY <1>0, <2>1 DEF ReleasePCs, Pid
    <3>2. q \in Procs
      BY <1>0, <3>1, Targets
    <3>3. Noted(q)' <=> Noted(q)
      BY <2>2, <3>2
    <3> QED BY <1>0, <3>1, <3>3 DEF Written
  <2> QED BY <1>2, <1>3, <2>3, <2>4
<1>5. CASE ReadBefore(p) \/ FlagSet(p) \/ CompareSame(p)
  <2>1. /\ pc[p] \in ReleasePCs /\ pc'[p] \in {"write", "switch"} /\ \A q \in Procs : q # p => pc'[q] = pc[q]
        /\ UNCHANGED <<pages, page, target, claimed>>
    BY <1>0, <1>5 DEF ReadBefore, FlagSet, CompareSame, At, Goto, pageVars, ReleasePCs
  <2>2. \A q : Noted(q)' <=> Noted(q)
    BY <1>0, <1>1, <2>1 DEF Noted, ReleasePCs
  <2>3. LettingGo => LettingGo'
    BY <2>1, <2>2 DEF LettingGo, ReleasePCs
  <2>4. Written'
    BY <1>0, <1>1, <2>1, <2>2 DEF Written, Pid
  <2> QED BY <1>2, <1>3, <2>3, <2>4
<1>6. CASE Write(p)
  <2>1. /\ pc[p] = "write" /\ pc' = [pc EXCEPT ![p] = "flag"] /\ pages' = [pages EXCEPT ![page[p]].pid = Nobody]
        /\ UNCHANGED <<page, target, claimed>>
    BY <1>6 DEF Write, At, SetPid, Goto
  <2>2. /\ pages'[page[p]].pid = Nobody
        /\ \A g \in Pages : g # page[p] => pages'[g].pid = pages[g].pid
    BY <1>0, <2>1 DEF TypeOK
  <2>3. /\ target[p] \in Procs /\ pages[page[p]].pid = target[p]
        /\ target[p] = p \/ (target[p] \in dead /\ p \in Breakers)
    BY <1>0, <1>1, <2>1, Targets DEF ReleasePCs
  <2>4. \A q \in Procs : Noted(q)' => Noted(q)
    BY <1>0, <1>1, <2>1, <2>2, Growing DEF Noted
  <2>5. LettingGo => LettingGo'
    BY <1>0, <2>1, <2>4 DEF LettingGo, ReleasePCs
  <2>6. Written'
    <3> SUFFICES ASSUME NEW r \in Procs \ dead, pc'[r] \in {"flag", "compare"}, NEW q \in Procs \union {Nobody}, q = target'[r]
                 PROVE  /\ pc'[r] = "flag" => Pid(r)' # q
                        /\ (pc'[r] = "compare" /\ Pid(r)' # q) => ~Noted(q)'
      BY <1>1, <2>1, WrittenNext
    <3>1. CASE r = p
      BY <1>0, <2>1, <2>2, <2>3, <3>1 DEF Pid
    <3>2. CASE r # p
      <4>1. pc[r] = pc'[r] /\ pc[r] \in ReleasePCs /\ page[r] \in Pages
        BY <1>0, <2>1, <3>2, Growing DEF ReleasePCs
      <4>2. q = target[r] /\ q \in Procs /\ (q = r \/ (q \in dead /\ r \in Breakers))
        BY <1>0, <2>1, <4>1, Targets
      <4>3. q # target[p]
        BY <1>1, <2>3, <3>2, <4>2 DEF OneBreaker
      <4>4. Pid(r)' = Pid(r) \/ (page[r] = page[p] /\ Pid(r)' = Nobody /\ Pid(r) # q)
        BY <2>1, <2>2, <2>3, <4>1, <4>3 DEF Pid
      <4>5. Noted(q)' => Noted(q)
        BY <2>4, <4>2
      <4>6. /\ pc[r] = "flag" => Pid(r) # q
            /\ pc[r] = "compare" /\ Pid(r) # q => ~Noted(q)
        BY <1>0, <4>2 DEF Written
      <4> QED BY <4>1, <4>2, <4>4, <4>5, <4>6
    <3> QED BY <3>1, <3>2
  <2> QED BY <1>2, <1>3, <2>5, <2>6
<1>7. CASE Switch(p)
  <2>1. /\ pc[p] = "switch" /\ pc' = [pc EXCEPT ![p] = "compare"] /\ name = made /\ ~pages[made].reload
        /\ page' = [page EXCEPT ![p] = made] /\ UNCHANGED <<pages, target, claimed>>
    BY <1>0, <1>7 DEF Switch, Replaced, SwitchTo, At, Goto, pageVars, GivenUp
  <2>2. \A q : Noted(q)' <=> Noted(q)
    BY <1>0, <1>1, <2>1 DEF Noted
  <2>3. LettingGo => LettingGo'
    BY <1>0, <2>1, <2>2 DEF LettingGo, ReleasePCs
  <2>4. \A q : pages[made].pid # q => ~Noted(q)
    BY <1>0, <2>1, Growing DEF Noted
  <2>5. Written'
    <3> SUFFICES ASSUME NEW r \in Procs \ dead, pc'[r] \in {"flag", "compare"}, NEW q \in Procs \union {Nobody}, q = target'[r]
                 PROVE  /\ pc'[r] = "flag" => Pid(r)' # q
                        /\ (pc'[r] = "compare" /\ Pid(r)' # q) => ~Noted(q)'
      BY <1>1, <2>1, WrittenNext
    <3>1. q = target[r] /\ (Noted(q)' <=> Noted(q))
      BY <2>1, <2>2
    <3>2. CASE r = p
      <4>1. pc'[r] = "compare" /\ Pid(r)' = pages[made].pid
        BY <1>0, <2>1, <3>2 DEF Pid
      <4> QED BY <2>4, <3>1, <4>1
    <3>3. CASE r # p
      <4>1. pc'[r] = pc[r] /\ Pid(r)' = Pid(r)
        BY <1>0, <2>1, <3>3 DEF Pid
      <4> QED BY <1>0, <3>1, <4>1 DEF Written
    <3> QED BY <3>2, <3>3
  <2> QED BY <1>2, <1>3, <2>3, <2>5
<1>8. CASE FlagClear(p) \/ CompareOther(p) \/ SwitchTimeout(p)
  <2>1. /\ pc[p] \in ReleasePCs /\ Released(p) /\ pc' = [pc EXCEPT ![p] = "idle"]
        /\ UNCHANGED <<pages, page, target>>
    BY <1>8 DEF FlagClear, CompareOther, SwitchTimeout, At, Released, Goto, pageVars, ReleasePCs
  <2>2. \A q : Noted(q)' <=> Noted(q)
    BY <1>0, <1>1, <2>1 DEF Noted, ReleasePCs
  <2>3. Written'
    <3> SUFFICES ASSUME NEW r \in Procs \ dead, pc'[r] \in {"flag", "compare"}, NEW q \in Procs \union {Nobody}, q = target'[r]
                 PROVE  /\ pc'[r] = "flag" => Pid(r)' # q
                        /\ (pc'[r] = "compare" /\ Pid(r)' # q) => ~Noted(q)'
      BY <1>1, <2>1, WrittenNext
    <3>1. pc[r] = pc'[r] /\ q = target[r] /\ Pid(r)' = Pid(r)
      BY <1>0, <2>1 DEF Pid
    <3>2. Noted(q)' <=> Noted(q)
      BY <2>2
    <3> QED BY <1>0, <3>1, <3>2 DEF Written
  <2>4. ASSUME LettingGo, lock \notin dead PROVE LettingGo'
    <3>1. ~SwitchTimeout(p) /\ ~givenUp[p]
      BY <1>0, <2>4 DEF SwitchTimeout, GivenUp
    <3>2. CASE FlagClear(p)
      <4>1. pc[p] = "flag" /\ ~pages[page[p]].reload
        BY <3>1, <3>2 DEF FlagClear, At
      <4>2. page[p] = made /\ ~pages[made].reload
        BY <1>0, <4>1, Growing
      <4>3. pages[made].pid # target[p]
        BY <1>0, <1>1, <4>1, <4>2 DEF Written, Pid
      <4>4. ~Noted(target[p])
        BY <1>0, <4>2, <4>3, Growing DEF Noted
      <4> QED BY <1>0, <1>1, <2>1, <2>4, <4>4, EndLettingGo
    <3>3. CASE CompareOther(p)
      <4>1. pc[p] = "compare" /\ Pid(p) # before[p]
        BY <3>3 DEF CompareOther, At
      <4>2. before[p] = target[p]
        BY <1>0, <1>1, <2>1, <4>1, Targets
      <4>3. ~Noted(target[p])
        BY <1>0, <1>1, <4>1, <4>2 DEF Written
      <4> QED BY <1>0, <1>1, <2>1, <2>4, <4>3, EndLettingGo
    <3> QED BY <1>8, <3>1, <3>2, <3>3
  <2> QED BY <1>2, <1>3, <2>3, <2>4
<1> QED BY <1>4, <1>5, <1>6, <1>7, <1>8 DEF Releasing

\* A process dies; the lock of the dead stays taken
LEMMA DieRInv == ASSUME RInv, CInv', NEW p \in Procs, Die(p) PROVE RInv'
<1>1. dead' = dead \union {p} /\ UNCHANGED <<pages, made, name, lock, pc, page, orig, target, before, givenUp, claimed>>
  BY DEF Die, pageVars, procVars
<1>2. GivenUp'
  BY <1>1 DEF RInv, GivenUp
<1>3. Written'
  BY <1>1 DEF RInv, Written, Pid, Noted
<1>4. (lock \in dead \/ LettingGo)'
  BY <1>1 DEF RInv, LettingGo, Noted
<1> QED BY <1>2, <1>3, <1>4 DEF RInv

\* Who is noted without a claim is letting go, in every state
THEOREM ReleaseInvariant == ASSUME OneBreaker PROVE Spec => []RInv
<1>1. Init => RInv
  <2> SUFFICES ASSUME Init PROVE RInv OBVIOUS
  <2>1. CInv
    BY InitCInv
  <2>2. GivenUp /\ Written
    BY DEF Init, GivenUp, Written
  <2>3. LettingGo
    <3>1. pages[1].pid = Nobody
      BY ClaimAssumption DEF Init, NewPage, Pages
    <3> QED BY <3>1, ClaimAssumption DEF Init, LettingGo, Noted
  <2> QED BY <2>1, <2>2, <2>3 DEF RInv
<1>2. ASSUME RInv, [Next]_vars PROVE RInv'
  <2>1. CInv
    BY <1>2 DEF RInv
  <2>2. CASE UNCHANGED vars
    BY <1>2, <2>2 DEF vars, pageVars, procVars, RInv, CInv, TypeOK, ListPages, Releases, Held, Pid,
                      GivenUp, Written, LettingGo, Noted
  <2>3. ASSUME NEW p \in Procs,
               \/ Reload(p) \/ TakeLock(p) \/ Locked(p)
               \/ Abandon(p) \/ Break(p) \/ Releasing(p) \/ Die(p)
        PROVE  RInv'
    <3>1. CInv'
      BY <2>1, <2>3, IdleCInv, LockedCInv, ReleaseCInv, DieCInv
    <3> QED BY <1>2, <2>3, <3>1, IdleRInv, LockedRInv, ReleaseRInv, DieRInv
  <2> QED BY <1>2, <2>2, <2>3 DEF Next
<1> QED BY <1>1, <1>2, PTL DEF Spec

\* A claim that was released, or broken, while the list grew is not on the newest
\* page once nobody is at work
THEOREM ClaimReleaseKept == ASSUME OneBreaker PROVE Spec => []ReleaseKept
<1>1. RInv => ReleaseKept
  <2> SUFFICES ASSUME RInv, Quiet, pages[name].pid \notin claimed \union {Nobody}
               PROVE  \E p \in dead : pages[name].pid = p /\ pc[p] # "idle"
    BY DEF ReleaseKept
  <2> DEFINE q == pages[name].pid
  <2>1. lock = Nobody /\ name = made /\ made \in Pages /\ lock \notin dead
    BY ClaimAssumption DEF Quiet, RInv, CInv, ListPages, TypeOK
  <2>2. q \in Procs
    BY <2>1 DEF RInv, CInv, TypeOK
  <2>3. Noted(q)
    BY <2>1 DEF Noted
  <2>4. pc[q] \in ReleasePCs
    BY <2>1, <2>2, <2>3 DEF RInv, LettingGo
  <2>5. q \in dead
    BY <2>2, <2>4 DEF Quiet, ReleasePCs
  <2> QED BY <2>4, <2>5 DEF ReleasePCs
<1> QED BY <1>1, ReleaseInvariant, PTL

-----------------------------------------------------------------------------
(* The pages are one word                                                   *)

\* Who has the lock uses the newest page until it makes another
LEMMA LockedPage == ASSUME CInv, NEW p \in Procs, pc[p] \in LockPCs
                    PROVE  lock = p /\ page[p] = made /\ p # Nobody /\ made \in Pages
BY ClaimAssumption DEF CInv, TypeOK, ListPages

\* A claim, and the replacement of the list, by who holds the lock
LEMMA LockedWord == ASSUME CInv, CInv', NEW p \in Procs, Locked(p)
                    PROVE  TheClaim!Next \/ UNCHANGED <<Word, Users>>
<1> USE ClaimAssumption
<1>0. TypeOK /\ lock = p /\ page[p] = made /\ p # Nobody /\ made \in Pages /\ p \notin dead
  BY LockedPage DEF Locked, Claim, Unlock, GrowFlag, GrowCopy, GrowUnlink, GrowCreate, GrowReady, At, LockPCs, CInv
<1>1. CASE Claim(p)
  <2>1. /\ pc[p] = "locked" /\ pages[made].pid = Nobody /\ pages' = [pages EXCEPT ![made].pid = p]
        /\ lock' = Nobody /\ made' = made /\ claimed' = claimed \union {p} /\ dead' = dead
    BY <1>0, <1>1 DEF Claim, At, Pid, SetPid
  <2>2. Word = Nobody
    BY <1>0, <2>1 DEF Word
  <2>3. Word' = p
    BY <1>0, <2>1 DEF Word, TypeOK
  <2>4. Users' = Users \union {p}
    BY <1>0, <2>1 DEF Users
  <2>5. TheClaim!Take(p)
    BY <2>2, <2>3, <2>4 DEF TheClaim!Take
  <2> QED BY <2>5 DEF TheClaim!Next
<1>2. CASE Unlock(p) \/ GrowFlag(p) \/ GrowReady(p)
  <2>1. pc[p] \in {"locked", "ready"} /\ pc' \in {[pc EXCEPT ![p] = "idle"], [pc EXCEPT ![p] = "copy"]}
    BY <1>2 DEF Unlock, GrowFlag, GrowReady, At, Goto
  <2>2. lock' \in {p, Nobody} /\ UNCHANGED <<made, orig, claimed, dead>> /\ pages'[made].pid = pages[made].pid
    BY <1>0, <1>2 DEF Unlock, GrowFlag, GrowReady, pageVars, TypeOK
  <2>3. Word' = Word
    BY <1>0, <2>1, <2>2 DEF Word, TypeOK
  <2> QED BY <2>2, <2>3 DEF Users
<1>3. CASE GrowCopy(p) \/ GrowUnlink(p)
  <2>1. /\ lock' = lock /\ UNCHANGED <<pages, made, claimed, dead>>
        /\ pc' \in {[pc EXCEPT ![p] = "unlink"], [pc EXCEPT ![p] = "create"]}
        /\ \/ pc[p] = "copy" /\ orig' = [orig EXCEPT ![p] = pages[made].pid]
           \/ pc[p] = "unlink" /\ orig' = orig
    BY <1>0, <1>3 DEF GrowCopy, GrowUnlink, At, Goto, Pid, pageVars
  <2>2. Word' = Word
    BY <1>0, <2>1 DEF Word, TypeOK
  <2> QED BY <2>1, <2>2 DEF Users
<1>4. CASE GrowCreate(p)
  <2>1. /\ pc[p] = "create" /\ pc' = [pc EXCEPT ![p] = "ready"] /\ made' = made + 1
        /\ pages' = [pages EXCEPT ![made'] = NewPage(orig[p])] /\ UNCHANGED <<lock, claimed, dead>>
    BY <1>4 DEF GrowCreate, At, Goto
  <2>2. made' \in Pages
    BY DEF CInv, TypeOK
  <2>3. pages'[made'].pid = orig[p]
    BY <1>0, <2>1, <2>2 DEF TypeOK, NewPage
  <2>4. Word' = orig[p] /\ Word = orig[p]
    BY <1>0, <2>1, <2>3 DEF Word, TypeOK
  <2> QED BY <2>1, <2>4 DEF Users
<1> QED BY <1>1, <1>2, <1>3, <1>4 DEF Locked

\* A release, of its own claim or of that of a dead process: it clears what that process left
LEMMA ReleaseWord == ASSUME CInv, CInv', NEW p \in Procs, Abandon(p) \/ Break(p) \/ Releasing(p)
                     PROVE  TheClaim!Next \/ UNCHANGED <<Word, Users>>
<1> USE ClaimAssumption
<1>0. TypeOK
  BY DEF CInv
<1>1. \A q \in Procs : (pc'[q] \in {"unlink", "create"}) <=> (pc[q] \in {"unlink", "create"})
  BY <1>0 DEF Abandon, Break, Releasing, ReadBefore, Write, FlagClear, FlagSet, Switch, SwitchTimeout, CompareOther,
              CompareSame, Released, At, Goto, TypeOK
<1>2. UNCHANGED <<lock, orig, made, dead>>
  BY DEF Abandon, Break, Releasing, ReadBefore, Write, FlagClear, FlagSet, Switch, SwitchTimeout, CompareOther,
         CompareSame, pageVars
<1>3. CASE Abandon(p)
  <2>1. p \in Users /\ Users' = Users \ {p} /\ UNCHANGED pages
    BY <1>3 DEF Abandon, Users, At, pageVars
  <2>2. Word' = Word
    BY <1>0, <1>1, <1>2, <2>1 DEF Word, TypeOK
  <2>3. TheClaim!Leave(p)
    BY <2>1, <2>2 DEF TheClaim!Leave
  <2> QED BY <2>3 DEF TheClaim!Next
<1>4. CASE Write(p)
  <2>1. /\ pc[p] = "write" /\ p \notin dead /\ page[p] \in Pages /\ UNCHANGED claimed
        /\ pages' = [pages EXCEPT ![page[p]].pid = Nobody]
    BY <1>0, <1>4 DEF Write, At, SetPid, TypeOK, Pages
  <2>2. pages[page[p]].pid = target[p] /\ target[p] \notin Users
    <3>1. /\ \/ target[p] = p /\ p \notin claimed
             \/ target[p] \in dead
          /\ Pid(p) = target[p]
      BY <2>1 DEF CInv, Releases, ReleasePCs
    <3> QED BY <3>1 DEF Users, Pid
  <2>3. Users' = Users
    BY <1>2, <2>1 DEF Users
  <2>4. Word' = Word \/ (Word = target[p] /\ Word' = Nobody)
    <3>1. pages'[made].pid = pages[made].pid \/ (pages[made].pid = target[p] /\ pages'[made].pid = Nobody)
      BY <1>0, <2>1, <2>2 DEF TypeOK
    <3> QED BY <1>0, <1>1, <1>2, <3>1 DEF Word, TypeOK
  <2>5. (Word = target[p] /\ Word' = Nobody) => TheClaim!Clear
    BY <2>2, <2>3 DEF TheClaim!Clear
  <2> QED BY <2>3, <2>4, <2>5 DEF TheClaim!Next
<1>5. CASE ~Abandon(p) /\ ~Write(p)
  <2>1. UNCHANGED pages /\ Users' = Users
    BY <1>5 DEF Break, Releasing, ReadBefore, FlagClear, FlagSet, Switch, SwitchTimeout, CompareOther, CompareSame,
                Released, Users, pageVars
  <2> QED BY <1>0, <1>1, <1>2, <2>1 DEF Word, TypeOK
<1> QED BY <1>3, <1>4, <1>5

\* What writers of the track rely on: list pages that are copied, replaced and written to without
\* a lock are one word, which a process takes when nobody has it, and which is cleared only when the
\* process it names let go of the track or died
THEOREM ClaimImplementsLease == ASSUME OneBreaker PROVE Spec => ImplementsLease
<1>1. Init => TheClaim!Init
  <2> SUFFICES ASSUME Init PROVE Word = Nobody /\ Users = {}
    BY DEF TheClaim!Init
  <2>1. 1 \in Pages
    BY ClaimAssumption DEF Pages
  <2> QED BY <2>1 DEF Init, Word, Users, NewPage
<1>2. CInv /\ CInv' /\ [Next]_vars => [TheClaim!Next]_<<Word, Users>>
  <2> SUFFICES ASSUME CInv, CInv', [Next]_vars PROVE TheClaim!Next \/ UNCHANGED <<Word, Users>>
    OBVIOUS
  <2>1. CASE UNCHANGED vars
    BY <2>1 DEF vars, pageVars, procVars, Word, Users
  <2>2. ASSUME NEW p \in Procs, Reload(p) \/ TakeLock(p) PROVE UNCHANGED <<Word, Users>>
    <3>1. UNCHANGED <<pages, made, orig, claimed, dead>>
      BY <2>2 DEF Reload, TakeLock, pageVars
    <3>2. Word' = Word
      <4>1. CASE Reload(p)
        BY <3>1, <4>1 DEF Reload, Word
      <4>2. CASE TakeLock(p)
        <5>1. lock = Nobody /\ lock' = p /\ pc'[p] = "locked"
          BY <4>2 DEF TakeLock, Goto, CInv, TypeOK
        <5> QED BY <3>1, <5>1, ClaimAssumption DEF Word
      <4> QED BY <2>2, <4>1, <4>2
    <3> QED BY <3>1, <3>2 DEF Users
  <2>3. ASSUME NEW p \in Procs, Die(p) PROVE TheClaim!Next \/ UNCHANGED <<Word, Users>>
    <3>1. Word' = Word /\ claimed' = claimed /\ dead' = dead \union {p}
      BY <2>3 DEF Die, pageVars, procVars, Word
    <3>2. Users' = Users \ {p}
      BY <3>1 DEF Users
    <3>3. CASE p \in Users
      BY <3>1, <3>2, <3>3 DEF TheClaim!Next, TheClaim!Leave
    <3>4. CASE p \notin Users
      BY <3>1, <3>2, <3>4
    <3> QED BY <3>3, <3>4
  <2> QED BY <2>1, <2>2, <2>3, LockedWord, ReleaseWord DEF Next
<1> QED BY <1>1, <1>2, ClaimInvariant, PTL DEF Spec, ImplementsLease, TheClaim!Spec
=============================================================================
