-------------------------- MODULE StreamBufferProofs -------------------------
(***************************************************************************)
(* For any publishers, processes, streams and orders of the Users page: a  *)
(* source at work keeps its claim (KeepsClaim), the records of processes   *)
(* are known as such (ProcessesAreKnown), and no process is there once the *)
(* producers were called finished (ProducersFinished).  When ticks see the *)
(* records of processes before they end: a source whose track was removed  *)
(* was asked to leave (AskedToLeave; its theorem says which publishers     *)
(* have to be seen too), and readers of an output know whether its next    *)
(* process will come (ReaderWaits).                                        *)
(***************************************************************************)
EXTENDS StreamBuffer, Extrema

\* A list of tracks as TypeOK and Owned have it
ListOK(K) ==
    /\ K \in [Track -> TrackRecord]
    /\ \A t \in Track : K[t].hold # "no" => K[t].kind = "output"
    /\ \A t \in Track : K[t].kind \in {"none", "reserved"} => K[t].claim = Nobody

\* The records as they were, but for marks on some that are in use
Marked(R) ==
    /\ R \in [Pids -> SUBSET Flags]
    /\ \A p \in Pids : rec[p] = {} => R[p] = {}
    /\ \A p \in Pids : rec[p] \subseteq R[p]
    /\ \A p \in Pids : "disc" \in R[p] => "disc" \in rec[p] \/ ~Alive(p)

-----------------------------------------------------------------------------
\* Operators

\* What the assumptions say of pids and bounds
LEMMA Constants ==
    /\ Sources \subseteq Pids /\ Processes \subseteq Sources /\ Publishers \subseteq Sources
    /\ Nobody \notin Pids /\ Viewer \in Pids /\ Viewer \notin Sources
    /\ Track = 1 .. MaxTracks /\ MaxTracks \in Nat
BY StreamBufferAssumption DEF Pids, Sources, Track

\* Who has which record
LEMMA OrderIn ==
    ASSUME TypeOK
    PROVE  /\ setting \in SettingType /\ Len(setting.order) \in Nat
           /\ DOMAIN setting.order = 1 .. Len(setting.order)
           /\ \A i \in DOMAIN setting.order : setting.order[i] \in Pids
<1>1. setting \in SettingType
  BY StreamBufferAssumption DEF TypeOK
<1>2. setting.order \in Seq(Pids)
  BY <1>1 DEF SettingType
<1> QED BY <1>1, <1>2

\* Min of a set of numbers is one of them
LEMMA MinIn == ASSUME NEW T \in SUBSET Nat, T # {} PROVE Min(T) \in T
BY Least DEF Min

\* Max of a set of tracks is one of them
LEMMA MaxIn == ASSUME NEW T \in SUBSET Track, T # {} PROVE Max(T) \in T
BY Greatest, Constants DEF Max

\* The track list as a function, for the lemmas on lists
LEMMA TracksTyped == TypeOK => tracks \in [Track -> TrackRecord]
BY DEF TypeOK

\* One track described anew
LEMMA ChangedOK ==
    ASSUME NEW K, ListOK(K), NEW t \in Track, NEW r \in TrackRecord,
           r.hold # "no" => r.kind = "output", r.kind \in {"none", "reserved"} => r.claim = Nobody
    PROVE  ListOK([K EXCEPT ![t] = r])
BY DEF ListOK

\* A track is added to the list under a number that was not used
LEMMA AddedOK ==
    ASSUME NEW p \in Sources, NEW kind \in {"source", "output"}, NEW K, ListOK(K), Added(p, kind, K)
    PROVE  /\ ListOK(tracks')
           /\ \E t \in Track : /\ K[t].claim = Nobody
                               /\ trk' = [trk EXCEPT ![p] = t]
                               /\ \A u \in Track : u # t => tracks'[u] = K[u]
<1> DEFINE unused == {u \in Track : K[u].kind = "none"}
           t == Min(unused)
<1>1. unused \in SUBSET Nat /\ unused # {}
  BY Constants DEF Added
<1>2. t \in Track /\ K[t].kind = "none"
  <2> HIDE DEF unused
  <2>1. t \in unused
    BY <1>1, MinIn
  <2> QED BY <2>1 DEF unused
<1>3. tracks' = [K EXCEPT ![t].kind = kind, ![t].claim = p] /\ trk' = [trk EXCEPT ![p] = t]
  BY DEF Added
<1> HIDE DEF t
<1> DEFINE r == [K[t] EXCEPT !.kind = kind, !.claim = p]
<1>4. K[t] \in TrackRecord /\ K[t].claim = Nobody /\ K[t].hold = "no"
  BY <1>2 DEF ListOK
<1>5. r \in TrackRecord /\ r.kind = kind /\ r.hold = "no"
  BY <1>4 DEF TrackRecord
<1>6. tracks' = [K EXCEPT ![t] = r]
  BY <1>3, <1>2 DEF ListOK
<1>7. ListOK(tracks')
  <2> HIDE DEF r
  <2> QED BY <1>2, <1>5, <1>6, ChangedOK
<1>8. \A u \in Track : u # t => tracks'[u] = K[u]
  BY <1>6 DEF ListOK
<1> QED BY <1>2, <1>3, <1>4, <1>7, <1>8

\* A track of the list is claimed
LEMMA ResumedOK ==
    ASSUME NEW p \in Sources, NEW t \in Track, NEW kind \in {"source", "output"}, ListOK(tracks),
           tracks[t].hold = "no" \/ kind = "output", Resumed(p, t, kind)
    PROVE  /\ ListOK(tracks') /\ trk' = [trk EXCEPT ![p] = t]
           /\ \A u \in Track : u # t => tracks'[u] = tracks[u]
<1> DEFINE r == [tracks[t] EXCEPT !.kind = kind, !.claim = p, !.old = FALSE]
<1>1. tracks[t] \in TrackRecord
  BY DEF ListOK
<1>2. r \in TrackRecord /\ r.kind = kind /\ (r.hold = "no" \/ kind = "output")
  BY <1>1 DEF TrackRecord
<1>3. tracks' = [tracks EXCEPT ![t] = r] /\ trk' = [trk EXCEPT ![p] = t]
  BY DEF Resumed, ListOK
<1>4. ListOK(tracks')
  <2> HIDE DEF r
  <2> QED BY <1>2, <1>3, ChangedOK
<1>5. \A u \in Track : u # t => tracks'[u] = tracks[u]
  BY <1>3 DEF ListOK
<1> QED BY <1>3, <1>4, <1>5

\* Tracks are removed: nobody's claim changes
LEMMA RemovedOK ==
    ASSUME NEW K, ListOK(K), NEW T
    PROVE  /\ ListOK(WithRemoved(K, T))
           /\ \A t \in Track : WithRemoved(K, T)[t].claim = K[t].claim
<1> DEFINE L == WithRemoved(K, T)
<1>1. ASSUME NEW t \in Track
      PROVE  /\ L[t] \in TrackRecord /\ L[t].claim = K[t].claim
             /\ L[t].hold # "no" => L[t].kind = "output"
             /\ L[t].kind \in {"none", "reserved"} => L[t].claim = Nobody
  <2>1. K[t] \in TrackRecord
    BY DEF ListOK
  <2>2. CASE t \in T
    <3>1. L[t] = [K[t] EXCEPT !.kind = "gone", !.hold = "no"]
      BY <2>2 DEF WithRemoved
    <3> HIDE DEF L
    <3> QED BY <2>1, <3>1 DEF TrackRecord
  <2>3. CASE t \notin T
    <3>1. L[t] = K[t]
      BY <2>3 DEF WithRemoved
    <3> HIDE DEF L
    <3> QED BY <2>1, <3>1 DEF ListOK
  <2> QED BY <2>2, <2>3
<1>2. L = [t \in Track |-> L[t]]
  BY DEF WithRemoved
<1> HIDE DEF L
<1>3. L \in [Track -> TrackRecord]
  BY <1>1, <1>2
<1> QED BY <1>1, <1>3 DEF ListOK, L

\* The claim of somebody who left is broken
LEMMA FreedOK ==
    ASSUME ListOK(tracks), NEW p \in Sources, trk[p] \in Track
    PROVE  /\ ListOK(LetGo(p))
           /\ \A t \in Track : tracks[t].claim # p => LetGo(p)[t].claim = tracks[t].claim
<1> DEFINE t == trk[p]
           r == [tracks[t] EXCEPT !.claim = IF @ = p THEN Nobody ELSE @]
<1>1. t \in Track /\ tracks[t] \in TrackRecord
  BY DEF ListOK
<1>2. /\ r \in TrackRecord /\ r.kind = tracks[t].kind /\ r.hold = tracks[t].hold
      /\ r.claim = IF tracks[t].claim = p THEN Nobody ELSE tracks[t].claim
  BY <1>1 DEF TrackRecord
<1>3. LetGo(p) = [tracks EXCEPT ![t] = r]
  BY DEF LetGo, ListOK
<1> HIDE DEF t, r
<1>4. /\ r.hold # "no" => r.kind = "output"
      /\ r.kind \in {"none", "reserved"} => r.claim = Nobody
  BY <1>1, <1>2 DEF ListOK
<1>5. ListOK([tracks EXCEPT ![t] = r])
  BY <1>1, <1>2, <1>4, ChangedOK
<1> QED BY <1>1, <1>2, <1>3, <1>5 DEF ListOK

\* So is, without another look, the one the buffer is about to break
LEMMA BrokenOK ==
    ASSUME ListOK(tracks), NEW p \in Sources, trk[p] \in Track
    PROVE  ListOK(Freed(p))
<1> DEFINE t == trk[p]
           r == [tracks[t] EXCEPT !.claim = Nobody]
<1>1. t \in Track /\ tracks[t] \in TrackRecord
  BY DEF ListOK
<1>2. r \in TrackRecord /\ r.kind = tracks[t].kind /\ r.hold = tracks[t].hold /\ r.claim = Nobody
  BY <1>1 DEF TrackRecord
<1>3. Freed(p) \in {tracks, [tracks EXCEPT ![t] = r]}
  BY DEF Freed, ListOK
<1> HIDE DEF t, r
<1>4. r.hold # "no" => r.kind = "output"
  BY <1>1, <1>2 DEF ListOK
<1>5. ListOK([tracks EXCEPT ![t] = r])
  BY <1>1, <1>2, <1>4, ChangedOK
<1> QED BY <1>3, <1>5

\* Where nobody else breaks that claim, it is still the one of who left
Apart == ~setting.together /\ Breaking

LEMMA FreedIsLetGo ==
    ASSUME ListOK(tracks), Apart, userOnDisconnect, NEW p, p = setting.order[at], p \in Sources,
           trk[p] \in Track, Keeps(p) \/ phase = "break"
    PROVE  Freed(p) = LetGo(p)
<1>1. tracks \in [Track -> TrackRecord]
  BY DEF ListOK
<1>2. CASE phase = "break"
  <2>1. tracks[trk[p]].claim = p
    BY <1>2 DEF Apart, Breaking
  <2> QED BY <1>1, <1>2, <2>1 DEF Freed, LetGo
<1>3. CASE phase # "break"
  <2>1. tracks[trk[p]].claim # p
    BY <1>3 DEF userOnDisconnect
  <2>2. [tracks EXCEPT ![trk[p]].claim = IF @ = p THEN Nobody ELSE @]
          = [tracks EXCEPT ![trk[p]] = [tracks[trk[p]] EXCEPT !.claim = tracks[trk[p]].claim]]
    BY <1>1, <2>1
  <2>3. [tracks[trk[p]] EXCEPT !.claim = tracks[trk[p]].claim] = tracks[trk[p]]
    BY <1>1 DEF TrackRecord
  <2>4. [tracks EXCEPT ![trk[p]] = tracks[trk[p]]] = tracks
    BY <1>1
  <2>5. Freed(p) = tracks
    BY <1>3 DEF Freed
  <2> QED BY <2>2, <2>3, <2>4, <2>5 DEF LetGo
<1> QED BY <1>2, <1>3

\* Reserving a track for the process, and giving the reservation up
LEMMA ReservedOK ==
    ASSUME ListOK(tracks)
    PROVE  ListOK(Reserved) /\ \A t \in Track : Reserved[t].claim = tracks[t].claim
<1> DEFINE unused == {u \in Track : tracks[u].kind = "none"}
           t == Min(unused)
<1>1. CASE Reserved = tracks
  BY <1>1
<1>2. CASE Reserved # tracks
  <2>1. unused \in SUBSET Nat /\ unused # {}
    BY <1>2, Constants DEF Reserved
  <2>2. t \in Track /\ tracks[t].kind = "none"
    <3> HIDE DEF unused
    <3>1. t \in unused
      BY <2>1, MinIn
    <3> QED BY <3>1 DEF unused
  <2>3. Reserved = [tracks EXCEPT ![t].kind = "reserved"]
    BY <1>2 DEF Reserved
  <2> HIDE DEF t
  <2> DEFINE r == [tracks[t] EXCEPT !.kind = "reserved"]
  <2>4. tracks[t] \in TrackRecord /\ tracks[t].claim = Nobody /\ tracks[t].hold = "no"
    BY <2>2 DEF ListOK
  <2>5. r \in TrackRecord /\ r.hold = "no" /\ r.claim = Nobody
    BY <2>4 DEF TrackRecord
  <2>6. Reserved = [tracks EXCEPT ![t] = r]
    BY <2>2, <2>3 DEF ListOK
  <2> HIDE DEF r
  <2>7. ListOK(Reserved)
    BY <2>2, <2>5, <2>6, ChangedOK
  <2> QED BY <2>2, <2>4, <2>5, <2>6, <2>7 DEF ListOK
<1> QED BY <1>1, <1>2

\* Giving up the reserved tracks leaves a proper list
LEMMA ReleasedOK ==
    ASSUME ListOK(tracks)
    PROVE  ListOK(Released) /\ \A t \in Track : Released[t].claim = tracks[t].claim
<1> DEFINE L == Released
<1>1. ASSUME NEW t \in Track
      PROVE  /\ L[t] \in TrackRecord /\ L[t].claim = tracks[t].claim
             /\ L[t].hold # "no" => L[t].kind = "output"
             /\ L[t].kind \in {"none", "reserved"} => L[t].claim = Nobody
  <2>1. tracks[t] \in TrackRecord
    BY DEF ListOK
  <2>2. CASE tracks[t].kind = "reserved"
    <3>1. L[t] = [tracks[t] EXCEPT !.kind = "gone"]
      BY <2>2 DEF Released
    <3>2. tracks[t].hold = "no"
      BY <2>2 DEF ListOK
    <3> HIDE DEF L
    <3> QED BY <2>1, <3>1, <3>2 DEF TrackRecord
  <2>3. CASE tracks[t].kind # "reserved"
    <3>1. L[t] = tracks[t]
      BY <2>3 DEF Released
    <3> HIDE DEF L
    <3> QED BY <2>1, <3>1 DEF ListOK
  <2> QED BY <2>2, <2>3
<1>2. L = [t \in Track |-> L[t]]
  BY DEF Released
<1> HIDE DEF L
<1>3. L \in [Track -> TrackRecord]
  BY <1>1, <1>2
<1> QED BY <1>1, <1>3 DEF ListOK, L

\* The deadline of one track is set, kept or taken back
LEMMA HeldOK ==
    ASSUME NEW K \in TrackRecord, NEW t \in Track, K.hold # "no" => K.kind = "output",
           {setting.resume, setting.controlled, everHadPush, hasPush} \subseteq BOOLEAN
    PROVE  /\ Held(K, t) \in TrackRecord /\ Held(K, t).kind = K.kind /\ Held(K, t).claim = K.claim
           /\ Held(K, t).hold # "no" => K.kind = "output"
<1> DEFINE up == K.claim # Nobody /\ Running(K.claim)
           hold == IF ~ComesBack \/ up THEN "no" ELSE IF K.hold = "no" THEN "set" ELSE K.hold
           until == ComesBack /\ (up \/ hold = "set")
           back == setting.resume /\ ~setting.controlled /\ (up \/ ~K.old)
<1>1. hold \in {"no", "set", "past"} /\ until \in BOOLEAN /\ back \in BOOLEAN
  BY DEF TrackRecord
<1>2. /\ K.kind = "output" => Held(K, t) = [K EXCEPT !.hold = hold, !.until = until]
      /\ K.kind = "source" => Held(K, t) = [K EXCEPT !.until = back]
      /\ K.kind \notin {"output", "source"} => Held(K, t) = K
  BY DEF Held
<1> HIDE DEF up, hold, until, back
<1> QED BY <1>1, <1>2 DEF TrackRecord

\* Marks on records
LEMMA AskedOK ==
    ASSUME TypeOK, NEW R, Marked(R), NEW T
    PROVE  Marked(WithAsked(R, T))
<1>1. ASSUME NEW p \in Pids, NEW t, FirstUser(t) = p
      PROVE  rec[p] # {}
  <2> DEFINE users == {i \in DOMAIN setting.order :
                        LET u == setting.order[i] IN u \in Sources /\ rec[u] # {} /\ trk[u] = t}
  <2>1. users # {} /\ p = setting.order[Min(users)]
    BY <1>1, Constants DEF FirstUser
  <2>2. users \in SUBSET Nat
    BY OrderIn
  <2>3. Min(users) \in users
    <3> HIDE DEF users
    <3> QED BY <2>1, <2>2, MinIn
  <2> QED BY <2>1, <2>3
<1> DEFINE A == WithAsked(R, T)
<1>2. ASSUME NEW p \in Pids
      PROVE  /\ A[p] \in SUBSET Flags /\ rec[p] \subseteq A[p] /\ (rec[p] = {} => A[p] = {})
             /\ "disc" \in A[p] => "disc" \in rec[p] \/ ~Alive(p)
  <2>1. CASE \E t \in T : FirstUser(t) = p
    <3>1. A[p] = R[p] \union {"asked"}
      BY <2>1 DEF WithAsked
    <3>2. rec[p] # {}
      BY <2>1, <1>1
    <3> HIDE DEF A
    <3> QED BY <3>1, <3>2 DEF Marked, Flags
  <2>2. CASE ~ \E t \in T : FirstUser(t) = p
    <3>1. A[p] = R[p]
      BY <2>2 DEF WithAsked
    <3> HIDE DEF A
    <3> QED BY <3>1 DEF Marked
  <2> QED BY <2>1, <2>2
<1>3. A = [p \in Pids |-> A[p]]
  BY DEF WithAsked
<1> HIDE DEF A
<1>4. A \in [Pids -> SUBSET Flags]
  BY <1>2, <1>3
<1>5. Marked(A)
  BY <1>2, <1>4 DEF Marked
<1> QED BY <1>5 DEF A

\* Leaving the records as they are counts as marking none
LEMMA UnmarkedOK == TypeOK => Marked(rec)
BY DEF TypeOK, Marked

\* Seeing that a client is gone marks its record alone
LEMMA SeenOK ==
    ASSUME TypeOK, NEW p \in Pids, rec[p] # {}
    PROVE  Marked(Seen(p))
<1>1. CASE Seen(p) = rec
  BY <1>1, UnmarkedOK
<1>2. CASE Seen(p) # rec
  <2>1. Seen(p) = [rec EXCEPT ![p] = rec[p] \union {"disc"}] /\ ~Alive(p)
    BY <1>2 DEF Seen
  <2> QED BY <2>1 DEF TypeOK, Marked, Flags
<1> QED BY <1>1, <1>2

\* The walk finds a record in use
LEMMA StandingIn ==
    ASSUME TypeOK, AtRecord
    PROVE  Standing \in DOMAIN setting.order /\ rec[setting.order[Standing]] # {}
<1> DEFINE used == {i \in DOMAIN setting.order : i >= at /\ rec[setting.order[i]] # {}}
<1>1. used \in SUBSET Nat
  BY OrderIn
<1>2. used # {}
  BY DEF AtRecord
<1>3. Min(used) \in used
  <2> HIDE DEF used
  <2> QED BY <1>1, <1>2, MinIn
<1> QED BY <1>3 DEF Standing

\* The invariant has a proper track list
LEMMA ListOfInv == BInv => ListOK(tracks)
BY DEF BInv, TypeOK, Owned, ListOK

-----------------------------------------------------------------------------
\* What others do

\* A stream starts without tracks, records and processes
LEMMA InitBInv == Init => BInv
<1> SUFFICES ASSUME Init PROVE BInv OBVIOUS
<1> USE Constants
<1>1. setting \in SettingType
  BY StreamBufferAssumption DEF Init
<1>2. NoTrack \in TrackRecord
  BY DEF NoTrack, TrackRecord
<1>3. TypeOK
  <2>1. setting.sessions \in Nat /\ setting.order \in Seq(Pids)
    BY <1>1 DEF SettingType
  <2>2. at \in 0 .. Len(setting.order) + 1
    BY <2>1 DEF Init
  <2>3. MaxFaults \in Nat
    BY StreamBufferAssumption
  <2>4. pc \in [Pids -> PCs] /\ trk \in [Sources -> {0} \union Track] /\ rec \in [Pids -> SUBSET Flags]
    BY DEF Init, PCs
  <2>5. tracks \in [Track -> TrackRecord] /\ \A t \in Track : tracks[t].hold # "no" => tracks[t].kind = "output"
    BY <1>2 DEF Init, NoTrack
  <2>6. {boots, failed, stopped, consumers, hasPush, everHadPush, ended, eof, fin, active} \subseteq BOOLEAN
    BY DEF Init
  <2>7. /\ phase = "idle" /\ proc = Nobody /\ next = "no" /\ procUsers = {} /\ srcUsers = {} /\ retained = {}
        /\ state = "UP" /\ sessions \in Nat /\ faults \in 0 .. MaxFaults /\ setting \in Settings
    BY <2>1, <2>3 DEF Init
  <2> QED BY <2>2, <2>4, <2>5, <2>6, <2>7 DEF TypeOK
<1>4. Owned /\ Left /\ Kinds /\ KnownProcess /\ NoneStarts
  BY DEF Init, Owned, Left, Kinds, KnownProcess, NoneStarts, NoTrack
<1> QED BY <1>3, <1>4 DEF BInv

\* A publisher arrives
LEMMA ArriveBInv == ASSUME BInv, NEW p \in Pids, Arrive(p) PROVE BInv'
<1> USE Constants, StreamBufferAssumption DEF BInv, Arrive, procVars, userVars, stateVars
<1>1. p \notin Processes /\ sessions' \in Nat
  BY DEF TypeOK
<1>2. TypeOK'
  BY <1>1 DEF TypeOK, PCs
<1>3. Owned'
  BY DEF TypeOK, Owned, SourceTracks
<1>4. Left'
  BY DEF TypeOK, Left, Alive
<1>5. Kinds' /\ KnownProcess' /\ NoneStarts'
  BY <1>1 DEF TypeOK, Kinds, KnownProcess, NoneStarts
<1> QED BY <1>2, <1>3, <1>4, <1>5

\* A claim that no other process may take: of who is alive, or while the buffer breaks one
Safe(q) == Alive(q) \/ (phase = "break" /\ ~setting.together)

\* Only the track of the claimant changes hands, and it was free or a dead one's
LEMMA ClaimTracks ==
    ASSUME BInv, NEW p \in Pids, Claim(p)
    PROVE  /\ p \in Sources /\ ListOK(tracks')
           /\ \E t \in Track : trk' = [trk EXCEPT ![p] = t]
           /\ \A t \in Track, q \in Sources : (Safe(q) /\ tracks[t].claim = q) => tracks'[t].claim = q
<1> USE Constants
<1>1. ListOK(tracks)
  BY ListOfInv
<1> DEFINE Fits == /\ \E t \in Track : trk' = [trk EXCEPT ![p] = t]
                   /\ \A t \in Track, q \in Sources : (Safe(q) /\ tracks[t].claim = q) => tracks'[t].claim = q
<1>2. ASSUME p \in Sources, NEW kind \in {"source", "output"}, Added(p, kind, tracks)
      PROVE  ListOK(tracks') /\ Fits
  BY <1>1, <1>2, AddedOK
<1>3. ASSUME p \in Sources, NEW t \in Track, NEW kind \in {"source", "output"}, Resumed(p, t, kind),
             tracks[t].hold = "no" \/ kind = "output", \A q \in Sources : Safe(q) => tracks[t].claim # q
      PROVE  ListOK(tracks') /\ Fits
  BY <1>1, <1>3, ResumedOK
<1>4. CASE p \in Processes
  <2>1. ProcessClaims(p) /\ p \in Sources
    BY <1>4 DEF Claim
  <2> DEFINE newest == Max(Outputs)
             busy == Claimed(newest) /\ Alive(tracks[newest].claim)
             reserved == {t \in Track : tracks[t].kind = "reserved"}
  <2>2. ASSUME Outputs # {} PROVE newest \in Outputs /\ newest \in Track
    <3>1. Outputs \in SUBSET Track
      BY DEF Outputs
    <3>2. Max(Outputs) \in Outputs
      BY <2>2, <3>1, MaxIn
    <3> QED BY <3>1, <3>2
  <2>3. ASSUME reserved # {} PROVE Min(reserved) \in Track /\ tracks[Min(reserved)].kind = "reserved"
    <3>1. reserved \in SUBSET Nat
      OBVIOUS
    <3>2. Min(reserved) \in reserved
      <4> HIDE DEF reserved
      <4> QED BY <2>3, <3>1, MinIn
    <3> QED BY <3>2
  <2>8. ASSUME Outputs # {}, ~busy PROVE \A q \in Sources : Safe(q) => tracks[newest].claim # q
    <3>1. Claimed(newest) => phase # "break" \/ setting.together
      BY <2>1, <2>8 DEF ProcessClaims
    <3>2. Claimed(newest) => ~Alive(tracks[newest].claim)
      BY <2>8
    <3> HIDE DEF newest
    <3> QED BY <3>1, <3>2 DEF Claimed, Safe
  <2>4. CASE Outputs # {} /\ ~busy /\ Resumed(p, newest, "output")
    <3>1. \A q \in Sources : Safe(q) => tracks[newest].claim # q
      BY <2>4, <2>8
    <3> HIDE DEF newest
    <3> QED BY <2>1, <2>2, <2>4, <3>1, <1>3
  <2>5. CASE /\ Outputs # {} /\ (busy \/ setting.changes)
             /\ Added(p, "output", IF busy THEN tracks ELSE [tracks EXCEPT ![newest].claim = Nobody])
    <3>1. CASE busy
      BY <2>1, <2>5, <3>1, <1>2
    <3>2. CASE ~busy
      <4> DEFINE r == [tracks[newest] EXCEPT !.claim = Nobody]
                 K == [tracks EXCEPT ![newest] = r]
      <4>1. \A q \in Sources : Safe(q) => tracks[newest].claim # q
        BY <2>5, <2>8, <3>2
      <4> HIDE DEF newest
      <4>2. newest \in Track /\ tracks[newest] \in TrackRecord /\ tracks[newest].kind = "output"
        BY <2>2, <2>5, <1>1 DEF ListOK, Outputs
      <4>3. r \in TrackRecord /\ r.kind = "output" /\ r.claim = Nobody
        BY <4>2 DEF TrackRecord
      <4>4. K = [tracks EXCEPT ![newest].claim = Nobody] /\ K[newest] = r
        BY <4>2, <1>1 DEF ListOK
      <4>5. ListOK(K)
        <5> HIDE DEF r
        <5> QED BY <1>1, <4>2, <4>3, ChangedOK
      <4>6. Added(p, "output", K)
        BY <2>5, <3>2, <4>4
      <4>7. \A t \in Track : t # newest => K[t] = tracks[t]
        BY <1>1 DEF ListOK
      <4>8. \A t \in Track, q \in Sources : (Safe(q) /\ tracks[t].claim = q) => K[t].claim = q
        BY <4>1, <4>7
      <4> HIDE DEF K
      <4>9. /\ ListOK(tracks')
            /\ \E t \in Track : /\ K[t].claim = Nobody
                                /\ trk' = [trk EXCEPT ![p] = t]
                                /\ \A u \in Track : u # t => tracks'[u] = K[u]
        BY <2>1, <4>5, <4>6, AddedOK
      <4> QED BY <2>1, <4>8, <4>9
    <3> QED BY <3>1, <3>2
  <2>6. CASE Outputs = {} /\ reserved # {} /\ Resumed(p, Min(reserved), "output")
    <3>1. tracks[Min(reserved)].claim = Nobody
      BY <2>3, <2>6, <1>1 DEF ListOK
    <3>2. \A q \in Sources : tracks[Min(reserved)].claim # q
      BY <3>1
    <3> HIDE DEF reserved
    <3> QED BY <2>1, <2>3, <2>6, <3>2, <1>3
  <2>7. CASE Outputs = {} /\ reserved = {} /\ Added(p, "output", tracks)
    BY <2>1, <2>7, <1>2
  <2> QED BY <2>1, <2>4, <2>5, <2>6, <2>7 DEF ProcessClaims
<1>5. CASE p \notin Processes
  <2>1. PublisherClaims(p)
    BY <1>5 DEF Claim
  <2>2. p \in Sources
    BY DEF Claim
  <2> DEFINE free == {t \in SourceTracks : ~Claimed(t)}
  <2>3. CASE free # {} /\ Resumed(p, Min(free), "source")
    <3>1. free \in SUBSET Nat
      BY DEF SourceTracks
    <3>2. Min(free) \in free
      <4> HIDE DEF free
      <4> QED BY <2>3, <3>1, MinIn
    <3>3. /\ Min(free) \in Track /\ tracks[Min(free)].hold = "no"
          /\ tracks[Min(free)].claim = Nobody
      BY <3>2, <1>1 DEF SourceTracks, Claimed, ListOK
    <3> HIDE DEF free
    <3> QED BY <2>2, <2>3, <3>3, <1>3
  <2>4. CASE Added(p, "source", tracks)
    BY <2>2, <2>4, <1>2
  <2> QED BY <2>1, <2>3, <2>4 DEF PublisherClaims
<1> QED BY <1>4, <1>5

\* A source claims a track
LEMMA ClaimBInv == ASSUME BInv, NEW p \in Pids, Claim(p) PROVE BInv'
<1> USE Constants DEF procVars, userVars, stateVars
<1>1. p \in Sources /\ ListOK(tracks')
  BY ClaimTracks
<1>2. PICK t \in Track : trk' = [trk EXCEPT ![p] = t]
  BY ClaimTracks
<1>3. pc[p] = "boot" /\ pc' = [pc EXCEPT ![p] = "claimed"]
  BY DEF Claim
<1>4. UNCHANGED <<setting, rec, phase, at, procVars, userVars, stateVars, sessions, faults>>
  BY DEF Claim
<1>5. TypeOK'
  BY <1>1, <1>2, <1>3, <1>4 DEF BInv, TypeOK, PCs, ListOK
<1>6. Owned'
  BY <1>1, <1>2, <1>3, <1>4 DEF BInv, TypeOK, Owned, ListOK
<1>7. Left'
  BY <1>3, <1>4 DEF BInv, TypeOK, Left, Alive
<1>8. Kinds' /\ KnownProcess' /\ NoneStarts'
  BY <1>3, <1>4 DEF BInv, TypeOK, Kinds, KnownProcess, NoneStarts
<1> QED BY <1>5, <1>6, <1>7, <1>8 DEF BInv

\* A source registers for the track it claimed
LEMMA RegisterBInv == ASSUME BInv, NEW p \in Pids, Register(p) PROVE BInv'
<1> USE Constants DEF BInv, Register, procVars, userVars, stateVars
<1>1. TypeOK'
  BY DEF TypeOK, PCs, Flags
<1>2. Owned'
  BY DEF TypeOK, Owned
<1>3. Left'
  BY OrderIn DEF TypeOK, Left, Alive
<1>4. Kinds' /\ KnownProcess' /\ NoneStarts'
  BY DEF TypeOK, Kinds, KnownProcess, NoneStarts
<1> QED BY <1>1, <1>2, <1>3, <1>4

\* A source gives back its own claim
LEMMA AbandonTracks ==
    ASSUME BInv, NEW p \in Pids, Abandon(p)
    PROVE  /\ p \in Sources /\ ListOK(tracks')
           /\ \A t \in Track, q \in Sources : (q # p /\ tracks[t].claim = q) => tracks'[t].claim = q
<1> USE Constants
<1>1. p \in Sources /\ tracks' = LetGo(p)
  BY DEF Abandon, LetGo
<1>2. ListOK(tracks) /\ trk[p] \in Track
  BY <1>1, ListOfInv DEF BInv, Owned, Abandon
<1> QED BY <1>1, <1>2, FreedOK

\* A source lets go of its track
LEMMA AbandonBInv == ASSUME BInv, NEW p \in Pids, Abandon(p) PROVE BInv'
<1> USE Constants DEF procVars, userVars, stateVars
<1>1. p \in Sources /\ ListOK(tracks')
  BY AbandonTracks
<1>2. /\ pc[p] = "on" /\ pc' = [pc EXCEPT ![p] = "left"] /\ (p \in Processes => WasSeen(p))
      /\ UNCHANGED <<setting, trk, rec, phase, at, procVars, userVars, stateVars, sessions, faults>>
  BY DEF Abandon
<1>3. TypeOK'
  BY <1>1, <1>2 DEF BInv, TypeOK, PCs, ListOK
<1>4. Owned' /\ Left'
  BY <1>1, <1>2 DEF BInv, TypeOK, Owned, Left, Alive, ListOK
<1>5. Kinds' /\ KnownProcess' /\ NoneStarts'
  BY <1>1, <1>2 DEF BInv, TypeOK, Kinds, KnownProcess, NoneStarts, WasSeen
<1> QED BY <1>3, <1>4, <1>5 DEF BInv

\* A client gives its record back
LEMMA DisconnectBInv == ASSUME BInv, NEW p \in Pids, Disconnect(p) PROVE BInv'
<1> USE Constants DEF BInv, Disconnect, procVars, userVars, stateVars
<1>1. TypeOK'
  BY DEF TypeOK, PCs, Flags
<1>2. Owned'
  BY DEF TypeOK, Owned, Left
<1>3. Left'
  BY OrderIn DEF TypeOK, Left, Alive
<1>4. Kinds' /\ NoneStarts'
  BY DEF TypeOK, Kinds, NoneStarts
<1>5. KnownProcess'
  BY DEF TypeOK, KnownProcess, WasSeen, Left
<1> QED BY <1>1, <1>2, <1>3, <1>4, <1>5

\* A process exits
LEMMA ExitBInv == ASSUME BInv, NEW p \in Pids, Exit(p) PROVE BInv'
<1> USE Constants DEF Exit, procVars, userVars, stateVars
<1>1. PICK how \in Exits : pc' = [pc EXCEPT ![p] = how]
  OBVIOUS
<1>2. TypeOK'
  BY <1>1 DEF BInv, TypeOK, PCs
<1>3. Owned' /\ Left'
  BY <1>1 DEF BInv, TypeOK, Owned, Left, Alive, Exits
<1>4. Kinds' /\ KnownProcess' /\ NoneStarts'
  BY <1>1 DEF BInv, TypeOK, Kinds, KnownProcess, NoneStarts
<1> QED BY <1>2, <1>3, <1>4 DEF BInv

\* A client dies
LEMMA DieBInv == ASSUME BInv, NEW p \in Pids, Die(p) PROVE BInv'
<1> USE Constants DEF BInv, Die, procVars, userVars, stateVars
<1>1. faults' \in 0 .. MaxFaults
  BY StreamBufferAssumption DEF TypeOK
<1>2. TypeOK'
  BY <1>1 DEF TypeOK, PCs, Exits
<1>3. Owned' /\ Left'
  BY DEF TypeOK, Owned, Left, Alive
<1>4. Kinds' /\ NoneStarts'
  BY DEF TypeOK, Kinds, NoneStarts
<1>5. KnownProcess'
  BY DEF TypeOK, KnownProcess, WasSeen, Alive
<1> QED BY <1>2, <1>3, <1>4, <1>5

\* A viewer comes
LEMMA WatchBInv == ASSUME BInv, Watch PROVE BInv'
<1> USE Constants DEF BInv, Watch, procVars, userVars, stateVars
<1>1. TypeOK'
  BY DEF TypeOK, PCs, Flags
<1>2. Owned'
  BY DEF TypeOK, Owned
<1>3. Left'
  BY OrderIn DEF TypeOK, Left, Alive
<1>4. Kinds' /\ KnownProcess' /\ NoneStarts'
  BY DEF TypeOK, Kinds, KnownProcess, NoneStarts
<1> QED BY <1>1, <1>2, <1>3, <1>4

-----------------------------------------------------------------------------
\* The tick

\* At most one process is there afterwards, which has no record yet
LEMMA MaybeStartOK ==
    ASSUME BInv, NEW deadline \in {"no", "wait", "due"}, NEW none \in [Pids -> PCs],
           \A q \in Processes : none[q] = "none", \A p \in Pids \ Processes : none[p] = pc[p],
           MaybeStart(deadline, none)
    PROVE  /\ ListOK(tracks') /\ boots' \in BOOLEAN /\ next' \in {"no", "wait", "due"}
           /\ proc' \in Processes \union {Nobody} /\ (proc' # Nobody => rec[proc'] = {})
           /\ pc' \in [Pids -> PCs]
           /\ \A q \in Processes : pc'[q] # "none" => (q = proc' /\ pc'[q] = "boot")
           /\ \A p \in Pids \ Processes : pc'[p] = pc[p]
           /\ fin => proc' = Nobody
           /\ \A t \in Track : tracks'[t].claim = tracks[t].claim
<1> USE Constants
<1>1. ListOK(tracks) /\ boots \in BOOLEAN
  BY ListOfInv DEF BInv, TypeOK
<1>2. CASE /\ MayStart
           /\ \E q \in {r \in Processes : Unused(r)} : proc' = q /\ pc' = [none EXCEPT ![q] = "boot"]
           /\ boots' = TRUE /\ next' = "no" /\ tracks' = Reserved
  <2>1. ~fin
    BY <1>2 DEF MayStart, BInv, NoneStarts
  <2>2. PICK q \in Processes : Unused(q) /\ proc' = q /\ pc' = [none EXCEPT ![q] = "boot"]
    BY <1>2
  <2>3. rec[q] = {} /\ pc' \in [Pids -> PCs]
    BY <2>2 DEF Unused, PCs
  <2> QED BY <1>1, <1>2, <2>1, <2>2, <2>3, ReservedOK
<1>3. CASE /\ proc' = Nobody /\ next' = deadline
           /\ tracks' = IF setting.restart = "disabled" /\ boots THEN Released ELSE tracks
           /\ pc' = none /\ UNCHANGED boots
  BY <1>1, <1>3, ReleasedOK
<1> QED BY <1>2, <1>3 DEF MaybeStart

\* What userLeadIn does to the track list leaves a proper one
LEMMA LeadInTracks ==
    ASSUME BInv, userLeadIn
    PROVE  /\ ListOK(tracks') /\ {boots', failed', stopped'} \subseteq BOOLEAN
           /\ next' \in {"no", "wait", "due"}
           /\ proc' \in Processes \union {Nobody} /\ (proc' \notin {proc, Nobody} => rec[proc'] = {})
           /\ pc' \in [Pids -> PCs]
           /\ \A q \in Processes : /\ (pc'[q] # "none" => q = proc')
                                    /\ (pc'[q] = pc[q] \/ pc'[q] = "none" \/ (pc'[q] = "boot" /\ rec[q] = {}))
                                    /\ ((q = proc /\ pc[q] = "on") => (q = proc' /\ pc'[q] = "on"))
           /\ \A p \in Pids \ Processes : pc'[p] = pc[p]
           /\ fin => proc' = Nobody
           /\ \A t \in Track : tracks'[t].claim = tracks[t].claim
<1> USE Constants
<1>1. /\ ListOK(tracks) /\ {boots, failed, stopped} \subseteq BOOLEAN /\ next \in {"no", "wait", "due"}
      /\ pc \in [Pids -> PCs] /\ proc \in Processes \union {Nobody}
      /\ \A q \in Processes : pc[q] # "none" => q = proc
      /\ fin => proc = Nobody
  BY ListOfInv DEF BInv, TypeOK, KnownProcess, NoneStarts
<1>2. CASE UNCHANGED <<pc, tracks, procVars>>
  BY <1>1, <1>2 DEF procVars
<1>3. Deadline \in {"no", "wait", "due"}
  BY <1>1 DEF Deadline
<1>4. CASE Collect
  <2>1. proc \in Processes /\ pc[proc] \in Exits /\ pc[proc] # "on"
    BY <1>1, <1>4 DEF Collect, HasExited, Exits
  <2> DEFINE none == [pc EXCEPT ![proc] = "none"]
  <2>2. /\ none \in [Pids -> PCs] /\ \A q \in Processes : none[q] = "none"
        /\ \A p \in Pids \ Processes : none[p] = pc[p]
    BY <1>1, <2>1 DEF PCs
  <2>3. CASE /\ proc' = Nobody /\ failed' = (failed \/ pc[proc] = "failed")
             /\ stopped' = (stopped \/ pc[proc] = "stopped")
             /\ tracks' = Released /\ pc' = none /\ UNCHANGED <<boots, next>>
    <3>1. ListOK(tracks') /\ \A t \in Track : tracks'[t].claim = tracks[t].claim
      BY <1>1, <2>3, ReleasedOK
    <3>2. {boots', failed', stopped'} \subseteq BOOLEAN /\ next' \in {"no", "wait", "due"}
      BY <1>1, <2>3
    <3> HIDE DEF none
    <3> QED BY <2>1, <2>2, <2>3, <3>1, <3>2
  <2>4. CASE MaybeStart(Deadline, none) /\ UNCHANGED <<failed, stopped>>
    <3> HIDE DEF none
    <3>1. /\ ListOK(tracks') /\ boots' \in BOOLEAN /\ next' \in {"no", "wait", "due"}
          /\ proc' \in Processes \union {Nobody} /\ (proc' # Nobody => rec[proc'] = {})
          /\ pc' \in [Pids -> PCs]
          /\ \A q \in Processes : pc'[q] # "none" => (q = proc' /\ pc'[q] = "boot")
          /\ \A p \in Pids \ Processes : pc'[p] = pc[p]
          /\ fin => proc' = Nobody
          /\ \A t \in Track : tracks'[t].claim = tracks[t].claim
      BY <1>3, <2>2, <2>4, MaybeStartOK
    <3> QED BY <1>1, <2>1, <2>4, <3>1
  <2> QED BY <1>4, <2>3, <2>4 DEF Collect
<1>5. CASE Start
  <2>1. proc = Nobody /\ (\A q \in Processes : pc[q] = "none") /\ MaybeStart(Deadline, pc)
    BY <1>1, <1>5 DEF Start
  <2>2. /\ ListOK(tracks') /\ boots' \in BOOLEAN /\ next' \in {"no", "wait", "due"}
        /\ proc' \in Processes \union {Nobody} /\ (proc' # Nobody => rec[proc'] = {})
        /\ pc' \in [Pids -> PCs]
        /\ \A q \in Processes : pc'[q] # "none" => (q = proc' /\ pc'[q] = "boot")
        /\ \A p \in Pids \ Processes : pc'[p] = pc[p]
        /\ fin => proc' = Nobody
        /\ \A t \in Track : tracks'[t].claim = tracks[t].claim
    BY <1>1, <1>3, <2>1, MaybeStartOK
  <2> QED BY <1>1, <1>5, <2>1, <2>2 DEF Start
<1> QED BY <1>2, <1>4, <1>5 DEF userLeadIn

\* userLeadIn starts one process, and none for a stream that is finished
LEMMA LeadInBInv == ASSUME BInv, userLeadIn PROVE BInv'
<1> USE Constants DEF userVars, stateVars
<1>1. /\ ListOK(tracks') /\ {boots', failed', stopped'} \subseteq BOOLEAN
      /\ next' \in {"no", "wait", "due"}
      /\ proc' \in Processes \union {Nobody} /\ (proc' \notin {proc, Nobody} => rec[proc'] = {})
      /\ pc' \in [Pids -> PCs] /\ (fin => proc' = Nobody)
  BY LeadInTracks
<1>2. /\ \A q \in Processes : /\ (pc'[q] # "none" => q = proc')
                               /\ (pc'[q] = pc[q] \/ pc'[q] = "none" \/ (pc'[q] = "boot" /\ rec[q] = {}))
                               /\ ((q = proc /\ pc[q] = "on") => (q = proc' /\ pc'[q] = "on"))
      /\ \A p \in Pids \ Processes : pc'[p] = pc[p]
  BY LeadInTracks
<1>3. /\ phase' = "walk" /\ at' = 1 /\ hasPush' = FALSE
      /\ UNCHANGED <<setting, trk, rec, procUsers, srcUsers, consumers, everHadPush, ended, retained,
                     stateVars, sessions, faults>>
  BY DEF userLeadIn
<1>4. 1 \in 0 .. Len(setting.order) + 1
  BY OrderIn DEF BInv
<1>5. TypeOK'
  BY <1>1, <1>3, <1>4 DEF BInv, TypeOK, ListOK
<1>6. \A p \in Pids : (pc'[p] # pc[p]) =>
                        (p \in Processes /\ (pc'[p] = "none" \/ (pc'[p] = "boot" /\ rec[p] = {})))
  BY <1>2
<1>7. procUsers \subseteq Sources /\ srcUsers \subseteq Sources /\ proc \in Processes \union {Nobody}
  BY DEF BInv, TypeOK
<1>8. Owned'
  <2>1. \A p \in Sources : (pc'[p] \in {"claimed", "on"} \/ rec'[p] # {}) => trk'[p] \in Track
    BY <1>3, <1>6 DEF BInv, Owned
  <2> QED BY <1>1, <2>1 DEF Owned, ListOK
<1>9. Left'
  <2>1. \A p \in Pids : "disc" \in rec'[p] => ~Alive(p)'
    BY <1>3, <1>6 DEF BInv, Left, Alive
  <2>2. \A p \in Pids : pc'[p] \in {"on", "left"} => rec'[p] # {}
    BY <1>3, <1>6 DEF BInv, Left
  <2> QED BY <1>3, <2>1, <2>2 DEF Left
<1>10. Kinds'
  <2>1. \A p \in procUsers \union srcUsers : rec[p] # {}
    BY DEF BInv, Kinds
  <2>2. proc' \notin srcUsers
    BY <1>1, <1>7, <2>1 DEF BInv, Kinds
  <2>3. UNCHANGED <<procUsers, srcUsers, rec>>
    BY <1>3
  <2> QED BY <2>1, <2>2, <2>3 DEF BInv, Kinds
<1>11. KnownProcess'
  <2>1. \A q \in Processes : pc'[q] # "none" => q = proc'
    BY <1>2
  <2>2. \A q \in Processes : (q = proc /\ pc[q] = "on") => (q = proc' /\ pc'[q] = "on")
    BY <1>2
  <2> QED BY <1>3, <2>1, <2>2 DEF BInv, KnownProcess
<1>12. NoneStarts'
  BY <1>1, <1>3 DEF BInv, NoneStarts
<1> QED BY <1>5, <1>8, <1>9, <1>10, <1>11, <1>12 DEF BInv

\* A record is seen: it may be marked, or asked to leave
LEMMA ActiveEffect ==
    ASSUME BInv, userOnActive, NEW p, p = setting.order[Standing]
    PROVE  /\ p \in Pids /\ rec[p] # {} /\ Standing \in DOMAIN setting.order
           /\ Marked(rec') /\ ListOK(tracks') /\ \A t \in Track : tracks'[t].claim = tracks[t].claim
           /\ {stopped', consumers', hasPush', everHadPush', ended'} \subseteq BOOLEAN
           /\ retained' \subseteq Track
           /\ \/ UNCHANGED <<procUsers, srcUsers>>
              \/ (p \in Sources /\ IsProcess(p) /\ procUsers' = procUsers \union {p} /\ srcUsers' = srcUsers)
              \/ (p \in Sources /\ ~IsProcess(p) /\ srcUsers' = srcUsers \union {p} /\ procUsers' = procUsers)
<1> USE Constants
<1>1. p \in Pids /\ rec[p] # {} /\ Standing \in DOMAIN setting.order
  BY StandingIn, OrderIn DEF BInv, userOnActive
<1>2. /\ ListOK(tracks) /\ Marked(Seen(p)) /\ retained \subseteq Track
      /\ {stopped, consumers, hasPush, everHadPush, ended} \subseteq BOOLEAN
  BY <1>1, ListOfInv, SeenOK DEF BInv, TypeOK
<1>3. CASE /\ p = Viewer /\ consumers' = TRUE /\ rec' = Seen(p)
           /\ UNCHANGED <<tracks, stopped, procUsers, srcUsers, hasPush, everHadPush, ended, retained>>
  BY <1>1, <1>2, <1>3
<1>4. CASE /\ p \in Sources /\ IsProcess(p) /\ procUsers' = procUsers \union {p} /\ rec' = Seen(p)
           /\ UNCHANGED <<tracks, stopped, srcUsers, consumers, hasPush, everHadPush, ended, retained>>
  BY <1>1, <1>2, <1>4
<1>5. CASE p \in Sources /\ ~IsProcess(p) /\ PublisherActive(p, Seen(p))
  <2> DEFINE drop == IF p \notin srcUsers THEN {t \in retained : Valid(t) /\ t # trk[p]} ELSE {}
  <2>1. /\ tracks' = WithRemoved(tracks, drop) /\ rec' = WithAsked(Seen(p), drop)
        /\ srcUsers' = srcUsers \union {p} /\ UNCHANGED <<procUsers, consumers>>
        /\ retained' \in {{}, retained}
        /\ ended' = (ended /\ p \in srcUsers) /\ stopped' = (stopped /\ ~(p \notin srcUsers /\ ended))
        /\ everHadPush' = (everHadPush \/ Valid(trk[p]))
        /\ hasPush' = (hasPush \/ (Valid(trk[p]) /\ "disc" \notin Seen(p)[p]))
    BY <1>5 DEF PublisherActive
  <2> HIDE DEF drop
  <2>2. ListOK(tracks') /\ \A t \in Track : tracks'[t].claim = tracks[t].claim
    BY <1>2, <2>1, RemovedOK
  <2>3. Marked(rec')
    BY <1>2, <2>1, AskedOK DEF BInv
  <2>4. {stopped', consumers', hasPush', everHadPush', ended'} \subseteq BOOLEAN
    BY <1>2, <2>1
  <2> QED BY <1>1, <1>2, <1>5, <2>1, <2>2, <2>3, <2>4
<1> QED BY <1>3, <1>4, <1>5 DEF userOnActive

\* userOnActive sees a record
LEMMA ActiveBInv == ASSUME BInv, userOnActive PROVE BInv'
<1> USE Constants DEF stateVars
<1> DEFINE p == setting.order[Standing]
<1>1. /\ p \in Pids /\ rec[p] # {} /\ Standing \in DOMAIN setting.order
      /\ Marked(rec') /\ ListOK(tracks')
      /\ {stopped', consumers', hasPush', everHadPush', ended'} \subseteq BOOLEAN
      /\ retained' \subseteq Track
  BY ActiveEffect
<1>2. \/ UNCHANGED <<procUsers, srcUsers>>
      \/ (p \in Sources /\ IsProcess(p) /\ procUsers' = procUsers \union {p} /\ srcUsers' = srcUsers)
      \/ (p \in Sources /\ ~IsProcess(p) /\ srcUsers' = srcUsers \union {p} /\ procUsers' = procUsers)
  BY ActiveEffect
<1>3. /\ IF "disc" \in rec[p] THEN phase' = "disconnect" /\ at' = Standing
                              ELSE phase' = "walk" /\ at' = Standing + 1
      /\ UNCHANGED <<setting, pc, trk, proc, boots, next, failed, stateVars, sessions, faults>>
  BY DEF userOnActive
<1>4. at' \in 0 .. Len(setting.order) + 1
  BY <1>1, <1>3, OrderIn DEF BInv
<1> HIDE DEF p
<1>5. /\ rec' \in [Pids -> SUBSET Flags]
      /\ \A q \in Pids : rec[q] = {} <=> rec'[q] = {}
      /\ \A q \in Pids : "disc" \in rec'[q] => "disc" \in rec[q] \/ ~Alive(q)
      /\ "disc" \in rec[p] => "disc" \in rec'[p]
  BY <1>1 DEF Marked
<1>6. TypeOK'
  <2>1. procUsers' \subseteq Sources /\ srcUsers' \subseteq Sources
    BY <1>2 DEF BInv, TypeOK
  <2>2. phase' \in {"idle", "walk", "disconnect", "break", "tidy"}
    BY <1>3
  <2> QED BY <1>1, <1>3, <1>4, <1>5, <2>1, <2>2 DEF BInv, TypeOK, ListOK
<1>7. Owned'
  BY <1>1, <1>3, <1>5 DEF BInv, Owned, ListOK
<1>8. Left'
  <2>1. \A q \in Pids : "disc" \in rec'[q] => ~Alive(q)'
    BY <1>3, <1>5 DEF BInv, Left, Alive
  <2>2. \A q \in Pids : pc'[q] \in {"on", "left"} => rec'[q] # {}
    BY <1>3, <1>5 DEF BInv, Left
  <2>3. phase' \in {"disconnect", "break"} => at' \in DOMAIN setting'.order /\ "disc" \in rec'[setting'.order[at']]
    BY <1>1, <1>3, <1>5 DEF p
  <2> QED BY <2>1, <2>2, <2>3 DEF Left
<1>9. Kinds'
  BY <1>1, <1>2, <1>3, <1>5 DEF BInv, TypeOK, Kinds, IsProcess
<1>10. KnownProcess'
  BY <1>1, <1>2, <1>3, <1>5 DEF BInv, KnownProcess, IsProcess
<1>11. NoneStarts'
  BY <1>3 DEF BInv, NoneStarts
<1> QED BY <1>6, <1>7, <1>8, <1>9, <1>10, <1>11 DEF BInv

\* A record that says its process left is dropped, with the claim if it still is that one's
LEMMA GoneEffect ==
    ASSUME BInv, userOnDisconnect, NEW p, p = setting.order[at]
    PROVE  /\ p \in Pids /\ ~Alive(p) /\ at \in DOMAIN setting.order
           /\ ListOK(tracks')
           /\ Apart => \A t \in Track, q \in Sources : (q # p /\ tracks[t].claim = q) => tracks'[t].claim = q
           /\ rec' \in [Pids -> SUBSET Flags] /\ rec'[p] = {}
           /\ \A q \in Pids : q # p => (rec[q] = {} <=> rec'[q] = {})
           /\ \A q \in Pids : "disc" \in rec'[q] => ~Alive(q)
           /\ ended' \in BOOLEAN /\ retained' \subseteq Track
           /\ procUsers' \subseteq procUsers \ {p} /\ srcUsers' \subseteq srcUsers \ {p}
           /\ \A q \in procUsers : q # p => q \in procUsers'
<1> USE Constants
<1>1. at \in DOMAIN setting.order /\ p \in Pids /\ "disc" \in rec[p] /\ ~Alive(p) /\ rec[p] # {}
  BY OrderIn DEF BInv, Left, userOnDisconnect
<1>2. /\ ListOK(tracks) /\ Marked(rec) /\ retained \subseteq Track /\ ended \in BOOLEAN
      /\ procUsers \subseteq Sources /\ srcUsers \subseteq Sources /\ procUsers \intersect srcUsers = {}
      /\ rec \in [Pids -> SUBSET Flags]
      /\ \A q \in Pids : "disc" \in rec[q] => ~Alive(q)
  BY ListOfInv, UnmarkedOK DEF BInv, TypeOK, Kinds, Left
<1>3. ASSUME p \in Sources
      PROVE  /\ trk[p] \in Track /\ ListOK(Freed(p))
             /\ (Apart /\ (Keeps(p) \/ phase = "break")) =>
                    \A t \in Track, q \in Sources : (q # p /\ tracks[t].claim = q) => Freed(p)[t].claim = q
  <2>1. trk[p] \in Track
    BY <1>1, <1>3 DEF BInv, Owned
  <2>2. \A t \in Track, q \in Sources : (q # p /\ tracks[t].claim = q) => LetGo(p)[t].claim = q
    BY <1>2, <1>3, <2>1, FreedOK
  <2>3. (Apart /\ (Keeps(p) \/ phase = "break")) => Freed(p) = LetGo(p)
    BY <1>2, <1>3, <2>1, FreedIsLetGo
  <2> QED BY <1>2, <1>3, <2>1, <2>2, <2>3, BrokenOK
<1> DEFINE Dropped(R) == rec' = [R EXCEPT ![p] = {}]
<1>4. ASSUME NEW R, Marked(R), Dropped(R)
      PROVE  /\ rec' \in [Pids -> SUBSET Flags] /\ rec'[p] = {}
             /\ \A q \in Pids : q # p => (rec[q] = {} <=> rec'[q] = {})
             /\ \A q \in Pids : "disc" \in rec'[q] => ~Alive(q)
  <2>1. R \in [Pids -> SUBSET Flags] /\ \A q \in Pids : q # p => rec'[q] = R[q]
    BY <1>1, <1>4 DEF Marked
  <2>2. rec' \in [Pids -> SUBSET Flags] /\ rec'[p] = {}
    BY <1>1, <1>4, <2>1
  <2>3. \A q \in Pids : (rec[q] = {} <=> R[q] = {}) /\ ("disc" \in R[q] => ~Alive(q))
    BY <1>2, <1>4 DEF Marked
  <2> HIDE DEF Dropped
  <2> QED BY <2>1, <2>2, <2>3
<1>5. CASE ProcessGone(p)
  <2>1. /\ p \in Sources /\ p \notin srcUsers /\ tracks' = Freed(p) /\ Dropped(rec) /\ Keeps(p)
        /\ procUsers' = procUsers \ {p} /\ UNCHANGED <<srcUsers, ended, retained>>
    BY <1>2, <1>5 DEF ProcessGone, Keeps
  <2> HIDE DEF Dropped
  <2> QED BY <1>1, <1>2, <1>3, <1>4, <2>1
<1>6. CASE PublisherGone(p)
  <2>1. /\ p \in Sources /\ p \notin procUsers /\ srcUsers' = srcUsers \ {p} /\ UNCHANGED procUsers
        /\ ended' = (ended \/ (~setting.controlled /\ srcUsers' = {})) /\ trk[p] \in Track
    BY <1>2, <1>3, <1>6 DEF PublisherGone
  <2>2. ended' \in BOOLEAN
    BY <1>2, <2>1
  <2>3. CASE /\ retained' = IF setting.controlled THEN retained ELSE retained \union {trk[p]}
             /\ tracks' = Freed(p) /\ Dropped(rec) /\ (phase = "break" \/ Keeps(p))
    <3> HIDE DEF Dropped
    <3> QED BY <1>1, <1>2, <1>3, <1>4, <2>1, <2>2, <2>3
  <2>4. CASE /\ retained' = retained \ {trk[p]}
             /\ tracks' = WithRemoved(tracks, {trk[p]} \intersect {t \in Track : Valid(t)})
             /\ Dropped(WithAsked(rec, {trk[p]}))
    <3> HIDE DEF Dropped
    <3>1. Marked(WithAsked(rec, {trk[p]}))
      BY <1>2, AskedOK DEF BInv
    <3>2. ListOK(tracks') /\ \A t \in Track : tracks'[t].claim = tracks[t].claim
      BY <1>2, <2>4, RemovedOK
    <3> QED BY <1>1, <1>2, <1>4, <2>1, <2>2, <2>4, <3>1, <3>2
  <2> QED BY <1>6, <2>3, <2>4 DEF PublisherGone
<1>7. CASE ViewerGone(p)
  <2>1. /\ p \notin Sources /\ Dropped(rec) /\ UNCHANGED <<tracks, procUsers, srcUsers, ended, retained>>
    BY <1>7 DEF ViewerGone
  <2> HIDE DEF Dropped
  <2> QED BY <1>1, <1>2, <1>4, <2>1
<1> QED BY <1>5, <1>6, <1>7 DEF userOnDisconnect

\* userOnDisconnect frees the claim and the track of who left
LEMMA GoneBInv == ASSUME BInv, userOnDisconnect PROVE BInv'
<1> USE Constants DEF procVars, stateVars
<1> DEFINE p == setting.order[at]
<1>1. /\ p \in Pids /\ ~Alive(p) /\ at \in DOMAIN setting.order
      /\ ListOK(tracks')
      /\ rec' \in [Pids -> SUBSET Flags] /\ rec'[p] = {}
      /\ \A q \in Pids : q # p => (rec[q] = {} <=> rec'[q] = {})
      /\ \A q \in Pids : "disc" \in rec'[q] => ~Alive(q)
      /\ ended' \in BOOLEAN /\ retained' \subseteq Track
      /\ procUsers' \subseteq procUsers \ {p} /\ srcUsers' \subseteq srcUsers \ {p}
      /\ \A q \in procUsers : q # p => q \in procUsers'
  BY GoneEffect
<1>2. /\ trk' = [u \in Sources |-> IF u = p THEN 0 ELSE trk[u]]
      /\ phase' = "walk" /\ at' = at + 1
      /\ UNCHANGED <<setting, pc, procVars, consumers, hasPush, everHadPush, stateVars, sessions, faults>>
  BY DEF userOnDisconnect
<1>3. at' \in 0 .. Len(setting.order) + 1
  BY <1>1, <1>2, OrderIn DEF BInv
<1> HIDE DEF p
<1>4. TypeOK'
  <2>1. trk' \in [Sources -> {0} \union Track]
    BY <1>2 DEF BInv, TypeOK
  <2> QED BY <1>1, <1>2, <1>3, <2>1 DEF BInv, TypeOK, ListOK
<1>5. Owned'
  <2>1. \A q \in Sources : (pc'[q] \in {"claimed", "on"} \/ rec'[q] # {}) => trk'[q] \in Track
    BY <1>1, <1>2 DEF BInv, Owned, Alive
  <2> QED BY <1>1, <2>1 DEF Owned, ListOK
<1>6. Left'
  BY <1>1, <1>2 DEF BInv, Left, Alive
<1>7. Kinds' /\ KnownProcess' /\ NoneStarts'
  BY <1>1, <1>2 DEF BInv, TypeOK, Kinds, KnownProcess, NoneStarts
<1> QED BY <1>4, <1>5, <1>6, <1>7 DEF BInv

\* The buffer looks at a claim
LEMMA FindsBInv == ASSUME BInv, FindsClaim PROVE BInv'
<1> USE Constants DEF FindsClaim, actorVars, procVars, userVars, stateVars
<1>1. TypeOK'
  BY DEF BInv, TypeOK
<1>2. Owned' /\ Left'
  BY DEF BInv, Owned, Left, Alive
<1>3. Kinds' /\ KnownProcess' /\ NoneStarts'
  BY DEF BInv, Kinds, KnownProcess, NoneStarts
<1> QED BY <1>1, <1>2, <1>3 DEF BInv

\* With no producer left no process is there
LEMMA LeadOutBInv == ASSUME BInv, userLeadOut PROVE BInv'
<1> USE Constants DEF actorVars, procVars, userVars
<1>1. /\ phase' = "tidy" /\ at' = 0
      /\ UNCHANGED <<setting, actorVars, tracks, procVars, userVars, sessions, faults>>
      /\ eof' = (setting.controlled /\ everHadPush /\ ~hasPush)
      /\ fin' = (setting.controlled /\ everHadPush /\ ~hasPush /\ ~ProducersLeft)
      /\ active' = (EofAction # "stop")
  BY DEF userLeadOut
<1>2. state' \in {"UP", "SHUTDOWN"}
  BY DEF userLeadOut, BInv, TypeOK
<1>3. 0 \in 0 .. Len(setting.order) + 1
  BY OrderIn DEF BInv
<1>4. eof' \in BOOLEAN /\ fin' \in BOOLEAN /\ active' \in BOOLEAN
  BY <1>1
<1>5. TypeOK'
  BY <1>1, <1>2, <1>3, <1>4 DEF BInv, TypeOK
<1>6. Owned' /\ Left' /\ Kinds' /\ KnownProcess'
  BY <1>1 DEF BInv, Owned, Left, Alive, Kinds, KnownProcess
<1>7. NoneStarts'
  BY <1>1 DEF NoneStarts, ProducersLeft
<1> QED BY <1>5, <1>6, <1>7 DEF BInv

\* What removeUnused does to the track list and to the records
LEMMA UnusedEffect ==
    ASSUME BInv, removeUnused
    PROVE  /\ ListOK(tracks') /\ \A t \in Track : tracks'[t].claim = tracks[t].claim
           /\ Marked(rec') /\ retained' \subseteq Track
<1> DEFINE L == WithRemoved(tracks, Replaced)
           kept == [t \in Track |-> Held(L[t], t)]
           gone == Replaced \union Idle(kept)
<1>1. tracks' = WithRemoved(kept, gone) /\ rec' = WithAsked(rec, gone) /\ retained' = retained \ gone
  BY DEF removeUnused
<1>2. ListOK(L) /\ \A t \in Track : L[t].claim = tracks[t].claim
  BY ListOfInv, RemovedOK
<1>3. {setting.resume, setting.controlled, everHadPush, hasPush} \subseteq BOOLEAN
  BY OrderIn DEF BInv, TypeOK, SettingType
<1> HIDE DEF L
<1>4. ASSUME NEW t \in Track
      PROVE  /\ kept[t] \in TrackRecord /\ kept[t].kind = L[t].kind /\ kept[t].claim = L[t].claim
             /\ kept[t].hold # "no" => L[t].kind = "output"
  <2>1. L[t] \in TrackRecord /\ (L[t].hold # "no" => L[t].kind = "output")
    BY <1>2 DEF ListOK
  <2> QED BY <1>3, <2>1, HeldOK
<1>5. ListOK(kept) /\ \A t \in Track : kept[t].claim = tracks[t].claim
  <2>1. kept \in [Track -> TrackRecord]
    BY <1>4
  <2> HIDE DEF kept
  <2> QED BY <1>2, <1>4, <2>1 DEF ListOK
<1> HIDE DEF kept, gone
<1>6. ListOK(tracks') /\ \A t \in Track : tracks'[t].claim = tracks[t].claim
  BY <1>1, <1>5, RemovedOK
<1>7. Marked(rec')
  BY <1>1, UnmarkedOK, AskedOK DEF BInv
<1>8. retained' \subseteq Track
  BY <1>1 DEF BInv, TypeOK
<1> QED BY <1>6, <1>7, <1>8

\* removeUnused removes tracks, and asks who is on them to leave
LEMMA UnusedBInv == ASSUME BInv, removeUnused PROVE BInv'
<1> USE Constants DEF procVars, stateVars
<1>1. ListOK(tracks') /\ Marked(rec') /\ retained' \subseteq Track
  BY UnusedEffect
<1>2. /\ phase' = "idle" /\ consumers' = FALSE
      /\ UNCHANGED <<setting, pc, trk, at, procVars, procUsers, srcUsers, hasPush, everHadPush, ended,
                     stateVars, sessions, faults>>
  BY DEF removeUnused
<1>3. /\ rec' \in [Pids -> SUBSET Flags]
      /\ \A q \in Pids : rec[q] = {} <=> rec'[q] = {}
      /\ \A q \in Pids : "disc" \in rec'[q] => "disc" \in rec[q] \/ ~Alive(q)
  BY <1>1 DEF Marked
<1>4. TypeOK'
  BY <1>1, <1>2, <1>3 DEF BInv, TypeOK, ListOK
<1>5. Owned'
  BY <1>1, <1>2, <1>3 DEF BInv, Owned, ListOK
<1>6. Left'
  BY <1>2, <1>3 DEF BInv, Left, Alive
<1>7. Kinds' /\ KnownProcess' /\ NoneStarts'
  BY <1>2, <1>3 DEF BInv, TypeOK, Kinds, KnownProcess, NoneStarts
<1> QED BY <1>4, <1>5, <1>6, <1>7 DEF BInv

-----------------------------------------------------------------------------
\* Time

\* A track that idles out, or whose deadline passes, stays the track it was
LEMMA IdlesTracks ==
    ASSUME BInv, NEW t \in Track, IdlesOut(t) \/ DeadlinePasses(t)
    PROVE  ListOK(tracks') /\ \A u \in Track : tracks'[u].claim = tracks[u].claim
<1>1. ListOK(tracks) /\ tracks[t] \in TrackRecord
  BY ListOfInv DEF ListOK
<1>2. PICK r \in {[tracks[t] EXCEPT !.old = TRUE], [tracks[t] EXCEPT !.hold = "past", !.until = FALSE]} :
          tracks' = [tracks EXCEPT ![t] = r] /\ (r.hold = tracks[t].hold \/ tracks[t].hold = "set")
  <2>1. CASE IdlesOut(t)
    BY <1>1, <2>1 DEF IdlesOut, ListOK, TrackRecord
  <2>2. CASE DeadlinePasses(t)
    BY <1>1, <2>2 DEF DeadlinePasses, ListOK
  <2> QED BY <2>1, <2>2
<1>3. r \in TrackRecord /\ r.kind = tracks[t].kind /\ r.claim = tracks[t].claim
  BY <1>1, <1>2 DEF TrackRecord
<1>4. ListOK(tracks')
  BY <1>1, <1>2, <1>3, ChangedOK DEF ListOK
<1> QED BY <1>1, <1>2, <1>3, <1>4 DEF ListOK

\* Time passes for a track
LEMMA IdlesBInv == ASSUME BInv, NEW t \in Track, IdlesOut(t) \/ DeadlinePasses(t) PROVE BInv'
<1> USE Constants DEF actorVars, procVars, userVars, stateVars
<1>1. ListOK(tracks')
  BY IdlesTracks
<1>2. /\ faults > 0 /\ faults' = faults - 1
      /\ UNCHANGED <<setting, actorVars, phase, at, procVars, userVars, stateVars, sessions>>
  BY DEF IdlesOut, DeadlinePasses
<1>3. faults' \in 0 .. MaxFaults
  BY <1>2, StreamBufferAssumption DEF BInv, TypeOK
<1>4. TypeOK'
  BY <1>1, <1>2, <1>3 DEF BInv, TypeOK, ListOK
<1>5. Owned'
  BY <1>1, <1>2 DEF BInv, Owned, ListOK
<1>6. Left' /\ Kinds' /\ KnownProcess' /\ NoneStarts'
  BY <1>2 DEF BInv, Left, Alive, Kinds, KnownProcess, NoneStarts
<1> QED BY <1>4, <1>5, <1>6 DEF BInv

\* Time passes for a restart
LEMMA RestartBInv == ASSUME BInv, RestartDue PROVE BInv'
<1> USE DEF RestartDue, actorVars, userVars, stateVars
<1>1. TypeOK'
  BY DEF BInv, TypeOK
<1>2. Owned' /\ Left' /\ Kinds' /\ KnownProcess' /\ NoneStarts'
  BY DEF BInv, Owned, Left, Alive, Kinds, KnownProcess, NoneStarts
<1> QED BY <1>1, <1>2 DEF BInv

\* Nothing happens
LEMMA StutterBInv == ASSUME BInv, UNCHANGED vars PROVE BInv'
BY DEF vars, actorVars, procVars, userVars, stateVars, BInv, TypeOK, Owned, Left, Alive, Kinds, KnownProcess, NoneStarts

-----------------------------------------------------------------------------

\* Every step keeps BInv
LEMMA NextBInv == BInv /\ [Next]_vars => BInv'
<1> SUFFICES ASSUME BInv, [Next]_vars PROVE BInv'
  OBVIOUS
<1>1. CASE Tick
  BY <1>1, LeadInBInv, ActiveBInv, FindsBInv, GoneBInv, LeadOutBInv, UnusedBInv DEF Tick
<1>2. ASSUME NEW p \in Pids, Actor(p) PROVE BInv'
  BY <1>2, ArriveBInv, ClaimBInv, RegisterBInv, AbandonBInv, DisconnectBInv, ExitBInv, DieBInv DEF Actor
<1>3. CASE Watch
  BY <1>3, WatchBInv
<1>4. ASSUME NEW t \in Track, IdlesOut(t) \/ DeadlinePasses(t) PROVE BInv'
  BY <1>4, IdlesBInv
<1>5. CASE RestartDue
  BY <1>5, RestartBInv
<1>6. CASE UNCHANGED vars
  BY <1>6, StutterBInv
<1> QED BY <1>1, <1>2, <1>3, <1>4, <1>5, <1>6 DEF Next

\* BInv is an inductive invariant of the buffer
LEMMA BufferInvariant == Spec => []BInv
<1>1. Init => BInv
  BY InitBInv
<1>2. BInv /\ [Next]_vars => BInv'
  BY NextBInv
<1> QED BY <1>1, <1>2, PTL DEF Spec

\* The buffer, its processes and publishers keep every variable in its type
THEOREM BufferTypeOK == Spec => []TypeOK
<1>1. BInv => TypeOK
  BY DEF BInv
<1> QED BY <1>1, BufferInvariant, PTL

\* userOnActive takes no process for a publisher: the buffer saw the record of each before it
\* forgot which process it had started
THEOREM BufferProcessesAreKnown == Spec => []ProcessesAreKnown
<1>1. BInv => ProcessesAreKnown
  BY DEF BInv, KnownProcess, ProcessesAreKnown
<1> QED BY <1>1, BufferInvariant, PTL

\* After PROCESS_PRODUCERS_FINISHED no process is there, and none is started
THEOREM BufferProducersFinished == Spec => []ProducersFinished
<1>1. BInv => ProducersFinished
  <2> SUFFICES ASSUME BInv, fin, NEW q \in Processes PROVE ~Alive(q)
    BY DEF ProducersFinished
  <2>1. q # Nobody
    BY Constants
  <2> QED BY <2>1 DEF BInv, NoneStarts, KnownProcess, Alive
<1> QED BY <1>1, BufferInvariant, PTL

\* Nobody touches the claim the buffer is about to break
LEMMA OthersBreaking ==
    ASSUME BInv, Breaking,
           (\E p \in Pids : Actor(p)) \/ Watch \/ (\E t \in Track : IdlesOut(t) \/ DeadlinePasses(t)) \/ RestartDue \/ UNCHANGED vars
    PROVE  Breaking'
<1> USE Constants
<1>1. UNCHANGED <<setting, phase, at>>
  BY DEF Actor, Arrive, Claim, Register, Abandon, Disconnect, Exit, Die, Watch, IdlesOut, DeadlinePasses, RestartDue, vars
<1> SUFFICES ASSUME phase = "break", ~setting.together, NEW p, p = setting.order[at]
             PROVE  p \in Sources /\ tracks'[trk'[p]].claim = p
  BY <1>1 DEF Breaking
<1>2. p \in Sources /\ tracks[trk[p]].claim = p /\ Safe(p)
  BY DEF Breaking, Safe
<1>3. ~Alive(p) /\ rec[p] # {} /\ trk[p] \in Track /\ p \in Pids /\ trk \in [Sources -> {0} \union Track]
  BY <1>2 DEF BInv, Left, Owned, TypeOK
<1>4. ASSUME UNCHANGED tracks, trk'[p] = trk[p] PROVE tracks'[trk'[p]].claim = p
  BY <1>2, <1>4
<1>5. ASSUME NEW q \in Pids, Claim(q) PROVE tracks'[trk'[p]].claim = p
  <2>1. q # p /\ trk'[p] = trk[p]
    <3>1. q # p
      BY <1>3, <1>5 DEF Claim, Alive
    <3>2. PICK t \in Track : trk' = [trk EXCEPT ![q] = t]
      BY <1>5, ClaimTracks
    <3> QED BY <1>2, <1>3, <3>1, <3>2
  <2>2. tracks'[trk[p]].claim = p
    BY <1>2, <1>3, <1>5, ClaimTracks
  <2> QED BY <2>1, <2>2
<1>6. ASSUME NEW q \in Pids, Abandon(q) PROVE tracks'[trk'[p]].claim = p
  <2>1. q # p /\ trk' = trk
    BY <1>3, <1>6 DEF Abandon, Alive
  <2> QED BY <1>2, <1>3, <1>6, <2>1, AbandonTracks
<1>7. ASSUME NEW t \in Track, IdlesOut(t) \/ DeadlinePasses(t) PROVE tracks'[trk'[p]].claim = p
  <2>1. trk' = trk
    BY <1>7 DEF IdlesOut, DeadlinePasses, actorVars
  <2> QED BY <1>2, <1>3, <1>7, <2>1, IdlesTracks
<1>8. ASSUME NEW q \in Pids, Die(q) PROVE UNCHANGED tracks /\ trk'[p] = trk[p]
  BY <1>2, <1>3, <1>8 DEF Die
<1>9. ASSUME NEW q \in Pids, Arrive(q) \/ Register(q) \/ Disconnect(q) \/ Exit(q) PROVE UNCHANGED <<tracks, trk>>
  BY <1>9 DEF Arrive, Register, Disconnect, Exit
<1>10. ASSUME NEW q \in Pids, Actor(q) PROVE tracks'[trk'[p]].claim = p
  BY <1>4, <1>5, <1>6, <1>8, <1>9, <1>10 DEF Actor
<1>11. ASSUME Watch \/ RestartDue \/ UNCHANGED vars PROVE UNCHANGED <<tracks, trk>>
  BY <1>11 DEF Watch, RestartDue, vars, actorVars
<1> QED BY <1>2, <1>4, <1>7, <1>10, <1>11

\* Until it breaks it, having looked at it
LEMMA NextBreaking == BInv /\ Breaking /\ [Next]_vars => Breaking'
<1> SUFFICES ASSUME BInv, Breaking, [Next]_vars PROVE Breaking'
  OBVIOUS
<1>1. CASE FindsClaim
  <2>1. \A p : Keeps(p) => p \in Sources
    BY DEF Keeps, BInv, TypeOK
  <2> QED BY <1>1, <2>1 DEF FindsClaim, Breaking, actorVars
<1>2. CASE userLeadIn \/ userOnActive \/ userOnDisconnect \/ userLeadOut \/ removeUnused
  <2>1. phase' # "break"
    BY <1>2 DEF userLeadIn, userOnActive, userOnDisconnect, userLeadOut, removeUnused
  <2> QED BY <2>1 DEF Breaking
<1> QED BY <1>1, <1>2, OthersBreaking DEF Next, Tick

LEMMA BufferBreaking == Spec => []Breaking
<1>1. Init => Breaking
  BY DEF Init, Breaking
<1> QED BY <1>1, NextBreaking, BufferInvariant, PTL DEF Spec

\* No step of the buffer or of another process takes the claim of a source at work, when only
\* one of them breaks the claim of a dead one
LEMMA NextKeepsClaim ==
    ASSUME BInv, Apart, [Next]_vars, NEW p \in Sources, pc[p] \in {"claimed", "on"}, pc'[p] = pc[p],
           tracks[trk[p]].claim = p
    PROVE  tracks'[trk[p]].claim = p
<1> USE Constants
<1>1. trk[p] \in Track /\ Alive(p) /\ p \in Pids
  BY DEF BInv, Owned, Alive
<1>2. CASE userLeadIn \/ userOnActive \/ removeUnused
  BY <1>1, <1>2, LeadInTracks, ActiveEffect, UnusedEffect
<1>3. CASE userOnDisconnect
  <2> DEFINE g == setting.order[at]
  <2>1. ~Alive(g) /\ \A t \in Track, q \in Sources : (q # g /\ tracks[t].claim = q) => tracks'[t].claim = q
    BY <1>3, GoneEffect
  <2> HIDE DEF g
  <2> QED BY <1>1, <2>1
<1>4. ASSUME NEW q \in Pids, Claim(q) PROVE tracks'[trk[p]].claim = p
  BY <1>1, <1>4, ClaimTracks DEF Safe
<1>5. ASSUME NEW q \in Pids, Abandon(q) PROVE tracks'[trk[p]].claim = p
  <2>1. q # p
    BY <1>5 DEF BInv, TypeOK, Abandon
  <2> QED BY <1>1, <1>5, <2>1, AbandonTracks
<1>6. ASSUME NEW t \in Track, IdlesOut(t) \/ DeadlinePasses(t) PROVE tracks'[trk[p]].claim = p
  BY <1>1, <1>6, IdlesTracks
<1>7. CASE UNCHANGED tracks
  BY <1>7
<1>8. ASSUME NEW q \in Pids, Actor(q) PROVE tracks'[trk[p]].claim = p
  BY <1>4, <1>5, <1>7, <1>8 DEF Actor, Arrive, Register, Disconnect, Exit, Die
<1>9. CASE Tick
  BY <1>2, <1>3, <1>7, <1>9 DEF Tick, FindsClaim, userLeadOut
<1> QED BY <1>6, <1>7, <1>8, <1>9 DEF Next, Watch, RestartDue, vars

\* "A process restarted before this disconnect was handled may already own the
\* track again": in a stream where no process breaks a dead one's claim between the
\* two steps in which the buffer looks at that claim and breaks it, no step of the
\* buffer or of another source takes the claim of a source that is at work.
THEOREM BufferKeepsClaim == Spec => KeepsClaim
<1>1. BInv /\ Breaking /\ [Next]_vars =>
        [~setting.together =>
           \A p \in Sources : (pc[p] \in {"claimed", "on"} /\ pc'[p] = pc[p] /\ tracks[trk[p]].claim = p)
                                   => tracks'[trk[p]].claim = p]_vars
  BY NextKeepsClaim DEF Apart
<1> QED BY <1>1, BufferInvariant, BufferBreaking, PTL DEF Spec, KeepsClaim


-----------------------------------------------------------------------------
\* The tracks of sources at work, and of those that left

\* Every stream's processes are seen by a tick before they end, and break no claim that the
\* buffer is about to break
Calm == \A s \in Settings : ~s.hasty /\ ~s.together

\* A track list after a step in which nobody claims a track: nothing is added but reservations,
\* and tracks go
Thinned(K, L) == \A t \in Track :
    /\ L[t].kind \in {K[t].kind, "gone"} \/ (K[t].kind = "none" /\ L[t].kind = "reserved")
    /\ L[t].claim \in {K[t].claim, Nobody}
    /\ L[t].old = K[t].old \/ L[t].kind \in {"source", "output"}

\* Removing tracks changes those alone, and marks them
LEMMA RemovedIs ==
    ASSUME NEW K, ListOK(K), NEW T, NEW t \in Track
    PROVE  /\ t \notin T => WithRemoved(K, T)[t] = K[t]
           /\ t \in T => /\ WithRemoved(K, T)[t].kind = "gone"
                         /\ WithRemoved(K, T)[t].claim = K[t].claim /\ WithRemoved(K, T)[t].old = K[t].old
                         /\ WithRemoved(K, T)[t].until = K[t].until /\ WithRemoved(K, T)[t].hold = "no"
<1>1. K[t] \in TrackRecord
  BY DEF ListOK
<1>2. t \notin T => WithRemoved(K, T)[t] = K[t]
  BY DEF WithRemoved
<1>3. t \in T => WithRemoved(K, T)[t] = [K[t] EXCEPT !.kind = "gone", !.hold = "no"]
  BY DEF WithRemoved
<1> QED BY <1>1, <1>2, <1>3 DEF TrackRecord

\* A broken claim is all that changes
LEMMA FreedIs ==
    ASSUME ListOK(tracks), NEW p \in Sources, trk[p] \in Track, NEW t \in Track
    PROVE  /\ t # trk[p] \/ tracks[t].claim # p => LetGo(p)[t] = tracks[t]
           /\ t = trk[p] /\ tracks[t].claim = p => LetGo(p)[t] = [tracks[t] EXCEPT !.claim = Nobody]
           /\ LetGo(p)[t].kind = tracks[t].kind /\ LetGo(p)[t].old = tracks[t].old
           /\ LetGo(p)[t].until = tracks[t].until /\ LetGo(p)[t].hold = tracks[t].hold
           /\ LetGo(p)[t].claim = IF t = trk[p] /\ tracks[t].claim = p THEN Nobody ELSE tracks[t].claim
<1> DEFINE c == IF tracks[t].claim = p THEN Nobody ELSE tracks[t].claim
<1>1. tracks[t] \in TrackRecord /\ tracks \in [Track -> TrackRecord]
  BY DEF ListOK
<1>2. t # trk[p] => LetGo(p)[t] = tracks[t]
  BY <1>1 DEF LetGo
<1>3. t = trk[p] => LetGo(p)[t] = [tracks[t] EXCEPT !.claim = c]
  BY <1>1 DEF LetGo
<1>4. [tracks[t] EXCEPT !.claim = tracks[t].claim] = tracks[t]
  BY <1>1 DEF TrackRecord
<1> QED BY <1>1, <1>2, <1>3, <1>4 DEF TrackRecord

\* What readers see of the track stays, and nobody else loses a claim
LEMMA FreedKeeps ==
    ASSUME ListOK(tracks), NEW p \in Sources, trk[p] \in Track, tracks' = LetGo(p)
    PROVE  \A t \in Track : /\ tracks'[t].kind = tracks[t].kind
                            /\ tracks'[t].until = tracks[t].until /\ tracks'[t].hold = tracks[t].hold
                            /\ tracks'[t].claim = tracks[t].claim \/ (t = trk[p] /\ tracks[t].claim = p)
<1> SUFFICES ASSUME NEW t \in Track
             PROVE  /\ LetGo(p)[t].kind = tracks[t].kind
                    /\ LetGo(p)[t].until = tracks[t].until /\ LetGo(p)[t].hold = tracks[t].hold
                    /\ LetGo(p)[t].claim = tracks[t].claim \/ (t = trk[p] /\ tracks[t].claim = p)
  OBVIOUS
<1>1. LetGo(p)[t].kind = tracks[t].kind /\ LetGo(p)[t].until = tracks[t].until /\ LetGo(p)[t].hold = tracks[t].hold
  BY FreedIs
<1>2. LetGo(p)[t].claim = IF t = trk[p] /\ tracks[t].claim = p THEN Nobody ELSE tracks[t].claim
  BY FreedIs
<1>3. LetGo(p)[t].claim = tracks[t].claim \/ (t = trk[p] /\ tracks[t].claim = p)
  BY <1>2
<1> QED BY <1>1, <1>3

\* So it thins the list
LEMMA FreedThinned ==
    ASSUME ListOK(tracks), NEW p \in Sources, trk[p] \in Track
    PROVE  /\ Thinned(tracks, LetGo(p))
           /\ \A t \in Track : LetGo(p)[t].kind = tracks[t].kind /\ LetGo(p)[t].old = tracks[t].old
<1>1. ASSUME NEW t \in Track
      PROVE  /\ LetGo(p)[t].kind = tracks[t].kind /\ LetGo(p)[t].old = tracks[t].old
             /\ LetGo(p)[t].claim \in {tracks[t].claim, Nobody}
  BY <1>1, FreedIs
<1> QED BY <1>1 DEF Thinned

\* Removing tracks does
LEMMA RemovedThinned == ASSUME NEW K, ListOK(K), NEW T PROVE Thinned(K, WithRemoved(K, T))
<1> SUFFICES ASSUME NEW t \in Track
             PROVE  /\ WithRemoved(K, T)[t].kind \in {K[t].kind, "gone"}
                    /\ WithRemoved(K, T)[t].old = K[t].old /\ WithRemoved(K, T)[t].claim = K[t].claim
  BY DEF Thinned
<1> QED BY RemovedIs

\* Reserving a track and releasing the reserved ones leave the others alone
LEMMA ReservedIs ==
    ASSUME ListOK(tracks), NEW t \in Track
    PROVE  /\ Reserved[t] = tracks[t] \/ (tracks[t].kind = "none" /\ Reserved[t].kind = "reserved" /\ Reserved[t].old = tracks[t].old)
           /\ Released[t] = tracks[t] \/ (tracks[t].kind = "reserved" /\ Released[t].kind = "gone" /\ Released[t].old = tracks[t].old)
           /\ Reserved[t].claim = tracks[t].claim /\ Released[t].claim = tracks[t].claim
<1> USE Constants
<1> DEFINE unused == {u \in Track : tracks[u].kind = "none"}
           m == Min(unused)
<1>1. tracks[t] \in TrackRecord /\ tracks \in [Track -> TrackRecord]
  BY DEF ListOK
<1>2. Reserved[t].claim = tracks[t].claim /\ Released[t].claim = tracks[t].claim
  BY ReservedOK, ReleasedOK
<1>3. CASE Reserved # tracks
  <2>1. unused \in SUBSET Nat /\ unused # {} /\ Reserved = [tracks EXCEPT ![m].kind = "reserved"]
    BY <1>3 DEF Reserved
  <2>2. m \in unused
    <3> HIDE DEF unused
    <3> QED BY <2>1, MinIn
  <2>3. Reserved[t] = IF t = m THEN [tracks[t] EXCEPT !.kind = "reserved"] ELSE tracks[t]
    BY <1>1, <2>1
  <2> HIDE DEF m
  <2>4. Reserved[t] = tracks[t] \/ (tracks[t].kind = "none" /\ Reserved[t].kind = "reserved" /\ Reserved[t].old = tracks[t].old)
    BY <1>1, <2>2, <2>3 DEF TrackRecord
  <2>5. Released[t] = IF tracks[t].kind = "reserved" THEN [tracks[t] EXCEPT !.kind = "gone"] ELSE tracks[t]
    BY DEF Released
  <2> QED BY <1>1, <1>2, <2>4, <2>5 DEF TrackRecord
<1>4. CASE Reserved = tracks
  <2>5. Released[t] = IF tracks[t].kind = "reserved" THEN [tracks[t] EXCEPT !.kind = "gone"] ELSE tracks[t]
    BY DEF Released
  <2> QED BY <1>1, <1>2, <1>4, <2>5 DEF TrackRecord
<1> QED BY <1>3, <1>4

\* Thinning keeps the kinds of tracks
LEMMA ThinnedKinds ==
    ASSUME TInv, Thinned(tracks, tracks'), setting' = setting,
           \A t \in retained' : t \in Track /\ tracks[t].kind \in {"source", "gone"},
           setting.controlled => retained' = {},
           \A p \in Sources : trk'[p] \in {trk[p], 0}
    PROVE  TrackKinds'
<1> USE Constants
<1>1. ListOK(tracks) /\ \A p \in Sources : trk[p] \in {0} \union Track
  BY ListOfInv DEF TInv, BInv, TypeOK
<1>2. ASSUME NEW p \in Sources, trk'[p] # 0 PROVE tracks'[trk'[p]].kind \in {Kind(p), "gone"}
  <2>1. trk'[p] = trk[p] /\ trk[p] \in Track
    BY <1>1, <1>2
  <2>2. tracks[trk[p]].kind \in {"output", "source", "gone"} /\ tracks[trk[p]].kind \in {Kind(p), "gone"}
    BY <1>2, <2>1 DEF TInv, TrackKinds, Kind
  <2> QED BY <2>1, <2>2 DEF Thinned
<1>3. ASSUME NEW t \in Track, Valid(t)', Claimed(t)' PROVE tracks'[t].kind = Kind(tracks'[t].claim)
  <2>1. tracks'[t].kind = tracks[t].kind /\ tracks'[t].claim = tracks[t].claim
    BY <1>3 DEF Valid, Claimed, Thinned
  <2>2. Valid(t) /\ Claimed(t)
    BY <1>3, <2>1 DEF Valid, Claimed
  <2> QED BY <2>1, <2>2 DEF TInv, TrackKinds
<1>4. ASSUME NEW t \in Track, tracks'[t].kind \in {"none", "reserved"} PROVE ~tracks'[t].old
  <2>1. tracks[t].kind \in {"none", "reserved"} /\ tracks'[t].old = tracks[t].old
    BY <1>4 DEF Thinned
  <2> QED BY <2>1 DEF TInv, TrackKinds
<1>5. ASSUME NEW t \in retained' PROVE tracks'[t].kind \in {"source", "gone"}
  <2>1. t \in Track /\ tracks[t].kind \in {"source", "gone"}
    BY <1>5
  <2> QED BY <2>1 DEF Thinned
<1>6. setting'.controlled => retained' = {}
  OBVIOUS
<1> QED BY <1>2, <1>3, <1>4, <1>5, <1>6 DEF TrackKinds

\* The tracks kept for a publisher that comes back are sources'
LEMMA RetainedKinds ==
    ASSUME TInv, retained' \subseteq retained
    PROVE  /\ \A t \in retained' : t \in Track /\ tracks[t].kind \in {"source", "gone"}
           /\ setting.controlled => retained' = {}
BY DEF TInv, BInv, TypeOK, TrackKinds

\* Thinning keeps what sources claim, when no live one loses its track
LEMMA ThinnedClaims ==
    ASSUME TInv, Thinned(tracks, tracks'), setting' = setting,
           \A p \in Sources : pc'[p] \in {"claimed", "on"} =>
               pc[p] \in {"claimed", "on"} /\ trk'[p] = trk[p] /\ tracks'[trk[p]].claim = p,
           \A p \in Sources : pc'[p] = "boot" => pc[p] = "boot" \/ ~Named(p),
           \A p \in Sources : pc'[p] \in {"boot", "claimed"} => rec'[p] = {},
           \A p \in Sources : pc'[p] # "none" => pc[p] # "none" \/ p \in Present
    PROVE  OwnClaims'
<1> USE Constants
<1>1. \A p \in Sources : pc'[p] \in {"claimed", "on"} => tracks'[trk'[p]].claim = p
  OBVIOUS
<1>2. ASSUME NEW p \in Sources, pc'[p] = "boot", Named(p)' PROVE FALSE
  <2>1. PICK t \in Track : Valid(t)' /\ tracks'[t].claim = p
    BY <1>2 DEF Named
  <2>2. Valid(t) /\ tracks[t].claim = p
    BY <2>1 DEF Thinned, Valid
  <2> QED BY <1>2, <2>2 DEF TInv, OwnClaims, Named
<1>3. \A p \in Sources : pc'[p] # "none" => p \in Present'
  BY DEF TInv, OwnClaims, Present
<1> QED BY <1>1, <1>2, <1>3 DEF OwnClaims

\* A step that leaves the tracks alone, and starts and claims nothing, keeps TInv
LEMMA SameTracks ==
    ASSUME TInv, BInv', UNCHANGED <<setting, tracks>>, retained' \subseteq retained,
           \A p \in Sources : trk'[p] \in {trk[p], 0},
           \A p \in Sources : pc'[p] \in {"claimed", "on"} => pc[p] \in {"claimed", "on"} /\ trk'[p] = trk[p],
           \A p \in Sources : pc'[p] = "boot" => pc[p] = "boot" \/ ~Named(p),
           \A p \in Sources : pc'[p] \in {"boot", "claimed"} => rec'[p] = {},
           \A p \in Sources : pc'[p] # "none" => pc[p] # "none" \/ p \in Present
    PROVE  TInv'
<1>1. Thinned(tracks, tracks')
  BY DEF Thinned
<1>2. TrackKinds'
  BY <1>1, RetainedKinds, ThinnedKinds
<1>3. \A p \in Sources : pc[p] \in {"claimed", "on"} => tracks'[trk[p]].claim = p
  BY DEF TInv, OwnClaims
<1>4. OwnClaims'
  BY <1>1, <1>3, ThinnedClaims
<1> QED BY <1>2, <1>4 DEF TInv

\* A stream starts without any
LEMMA InitTInv == Init => TInv
<1> SUFFICES ASSUME Init PROVE TInv
  OBVIOUS
<1>1. BInv
  BY InitBInv
<1>2. OwnClaims /\ TrackKinds
  BY Constants DEF Init, OwnClaims, TrackKinds, NoTrack, Valid
<1> QED BY <1>1, <1>2 DEF TInv

\* Those who come, register, leave or die leave the tracks to those who stay
LEMMA ActorTInv ==
    ASSUME TInv, NEW p \in Pids,
           Arrive(p) \/ Register(p) \/ Disconnect(p) \/ Exit(p) \/ Die(p) \/ Watch
    PROVE  TInv'
<1> USE Constants
<1>1. BInv /\ pc \in [Pids -> PCs] /\ rec \in [Pids -> SUBSET Flags] /\ trk \in [Sources -> {0} \union Track]
      /\ \A q \in Sources : pc[q] \in {"boot", "claimed"} => rec[q] = {}
  BY DEF TInv, BInv, TypeOK, OwnClaims
<1>2. BInv'
  BY <1>1, ArriveBInv, RegisterBInv, DisconnectBInv, ExitBInv, DieBInv, WatchBInv
<1>3. UNCHANGED <<setting, tracks, retained>>
  BY DEF Arrive, Register, Disconnect, Exit, Die, Watch, userVars
<1> DEFINE Fits ==
    /\ \A q \in Sources : trk'[q] \in {trk[q], 0}
    /\ \A q \in Sources : pc'[q] \in {"claimed", "on"} => pc[q] \in {"claimed", "on"} /\ trk'[q] = trk[q]
    /\ \A q \in Sources : pc'[q] = "boot" => pc[q] = "boot" \/ ~Named(q)
    /\ \A q \in Sources : pc'[q] \in {"boot", "claimed"} => rec'[q] = {}
    /\ \A q \in Sources : pc'[q] # "none" => pc[q] # "none" \/ q \in Present
<1>4. ASSUME Arrive(p) PROVE Fits
  BY <1>1, <1>4 DEF Arrive
<1>5. ASSUME Register(p) PROVE Fits
  BY <1>1, <1>5 DEF Register
<1>6. ASSUME Disconnect(p) PROVE Fits
  BY <1>1, <1>6 DEF Disconnect
<1>7. ASSUME Exit(p) PROVE Fits
  BY <1>1, <1>7 DEF Exit, Exits
<1>8. ASSUME Die(p) PROVE Fits
  BY <1>1, <1>8 DEF Die, Alive
<1>9. ASSUME Watch PROVE Fits
  BY <1>1, <1>9 DEF Watch
<1>10. Fits
  BY <1>4, <1>5, <1>6, <1>7, <1>8, <1>9
<1> QED BY <1>2, <1>3, <1>10, SameTracks

-----------------------------------------------------------------------------
\* Claims

\* Who starts to claim is the only process, and names no track
LEMMA NobodyElse ==
    ASSUME TInv, NEW p \in Processes, pc[p] = "boot", NEW t \in Outputs
    PROVE  \A q \in Sources : Alive(q) => tracks[t].claim # q
<1> USE Constants
<1> SUFFICES ASSUME NEW q \in Sources, Alive(q), tracks[t].claim = q PROVE FALSE
  OBVIOUS
<1>1. t \in Track /\ Valid(t) /\ Claimed(t) /\ tracks[t].kind = "output"
  BY DEF Outputs, Valid, Claimed
<1>2. q \in Processes
  BY <1>1 DEF TInv, TrackKinds, Kind
<1>3. q = p
  BY <1>2 DEF TInv, BInv, KnownProcess, Alive
<1> QED BY <1>1, <1>3 DEF TInv, OwnClaims, Named

\* A track that is there is resumed, of which the claimant knows that no live source has it
Resumes(p, t) ==
    /\ tracks[t].kind \in {"reserved", Kind(p)} /\ (\A q \in Sources : Alive(q) => tracks[t].claim # q)
    /\ Resumed(p, t, Kind(p))
    /\ p \in Processes => t = Max(Outputs) \/ Outputs = {}

\* A track is added to the list, a process's after the claim of a dead one on the newest was broken
Adds(p) ==
    \/ (p \in Processes => Outputs = {}) /\ Added(p, Kind(p), tracks)
    \/ /\ p \in Processes /\ Outputs # {} /\ (\A q \in Sources : Alive(q) => tracks[Max(Outputs)].claim # q)
       /\ Added(p, "output", [tracks EXCEPT ![Max(Outputs)].claim = Nobody])

\* What a process claims
LEMMA ProcessClaimIs ==
    ASSUME TInv, NEW p \in Processes, pc[p] = "boot", ProcessClaims(p)
    PROVE  (\E t \in Track : Resumes(p, t)) \/ Adds(p)
<1> USE Constants
<1> DEFINE newest == Max(Outputs)
           busy == Claimed(newest) /\ Alive(tracks[newest].claim)
           reserved == {t \in Track : tracks[t].kind = "reserved"}
<1>1. ListOK(tracks) /\ Kind(p) = "output"
  BY ListOfInv DEF TInv, Kind
<1>2. ASSUME Outputs # {}
      PROVE  /\ newest \in Track /\ tracks[newest].kind = "output" /\ ~busy
             /\ \A q \in Sources : Alive(q) => tracks[newest].claim # q
  <2>1. newest \in Outputs
    BY <1>2, MaxIn DEF Outputs
  <2>2. newest \in Track /\ tracks[newest].kind = "output" /\ tracks[newest].claim \in Sources \union {Nobody}
    BY <1>1, <2>1 DEF Outputs, ListOK, TrackRecord
  <2>3. \A q \in Sources : Alive(q) => tracks[newest].claim # q
    BY <2>1, NobodyElse
  <2> QED BY <2>2, <2>3 DEF Claimed
<1>3. ASSUME reserved # {} PROVE Min(reserved) \in Track /\ tracks[Min(reserved)].kind = "reserved"
  <2>1. reserved \in SUBSET Nat
    OBVIOUS
  <2>2. Min(reserved) \in reserved
    <3> HIDE DEF reserved
    <3> QED BY <1>3, <2>1, MinIn
  <2> QED BY <2>2
<1>4. CASE Outputs # {} /\ ~busy /\ Resumed(p, newest, "output")
  BY <1>1, <1>2, <1>4 DEF Resumes
<1>5. CASE /\ Outputs # {} /\ (busy \/ setting.changes)
           /\ Added(p, "output", IF busy THEN tracks ELSE [tracks EXCEPT ![newest].claim = Nobody])
  <2>1. Added(p, "output", [tracks EXCEPT ![newest].claim = Nobody])
    BY <1>2, <1>5
  <2> QED BY <1>2, <1>5, <2>1 DEF Adds
<1>6. CASE Outputs = {} /\ reserved # {} /\ Resumed(p, Min(reserved), "output")
  <2>1. tracks[Min(reserved)].claim = Nobody /\ Min(reserved) \in Track
    BY <1>1, <1>3, <1>6 DEF ListOK
  <2>2. Resumes(p, Min(reserved))
    BY <1>1, <1>3, <1>6, <2>1 DEF Resumes
  <2> QED BY <2>1, <2>2
<1>7. CASE Outputs = {} /\ reserved = {} /\ Added(p, "output", tracks)
  BY <1>1, <1>7 DEF Adds
<1> QED BY <1>4, <1>5, <1>6, <1>7 DEF ProcessClaims

\* What a source claims
LEMMA ClaimIs ==
    ASSUME TInv, NEW p \in Pids, Claim(p)
    PROVE  p \in Sources /\ ((\E t \in Track : Resumes(p, t)) \/ Adds(p))
<1> USE Constants
<1>1. p \in Sources /\ pc[p] = "boot" /\ ListOK(tracks)
  BY ListOfInv DEF Claim, TInv
<1>2. CASE p \in Processes
  BY <1>1, <1>2, ProcessClaimIs DEF Claim
<1>3. CASE p \notin Processes
  <2> DEFINE free == {t \in SourceTracks : ~Claimed(t)}
  <2>1. Kind(p) = "source" /\ PublisherClaims(p)
    BY <1>3 DEF Kind, Claim
  <2>2. CASE free # {} /\ Resumed(p, Min(free), "source")
    <3>1. free \in SUBSET Nat
      BY DEF SourceTracks
    <3>2. Min(free) \in free
      <4> HIDE DEF free
      <4> QED BY <2>2, <3>1, MinIn
    <3>3. Min(free) \in Track /\ tracks[Min(free)].kind = "source" /\ tracks[Min(free)].claim = Nobody
      BY <3>2 DEF SourceTracks, Claimed
    <3> HIDE DEF free
    <3>4. Resumes(p, Min(free))
      BY <1>3, <2>1, <2>2, <3>3 DEF Resumes
    <3> QED BY <1>1, <3>3, <3>4
  <2>3. CASE Added(p, "source", tracks)
    BY <1>1, <1>3, <2>1, <2>3 DEF Adds
  <2> QED BY <2>1, <2>2, <2>3 DEF PublisherClaims
<1> QED BY <1>1, <1>2, <1>3

\* A track that is added has the least number that was not used
LEMMA AddedIs ==
    ASSUME NEW p \in Sources, NEW kind \in {"source", "output"}, NEW K, ListOK(K), Added(p, kind, K)
    PROVE  \E t \in Track :
              /\ K[t].kind = "none" /\ K[t].claim = Nobody /\ \A u \in Track : K[u].kind = "none" => t <= u
              /\ trk' = [trk EXCEPT ![p] = t]
              /\ tracks'[t].kind = kind /\ tracks'[t].claim = p /\ tracks'[t].old = K[t].old
              /\ \A u \in Track : u # t => tracks'[u] = K[u]
<1> USE Constants
<1> DEFINE unused == {u \in Track : K[u].kind = "none"}
           t == Min(unused)
<1>1. unused \in SUBSET Nat /\ unused # {}
  BY DEF Added
<1>2. t \in unused /\ \A u \in unused : t <= u
  <2> HIDE DEF unused
  <2>1. \E x \in unused : \A y \in unused : x <= y
    BY <1>1, Least
  <2> QED BY <2>1 DEF Min
<1>3. tracks' = [K EXCEPT ![t].kind = kind, ![t].claim = p] /\ trk' = [trk EXCEPT ![p] = t]
  BY DEF Added
<1> HIDE DEF t
<1>4. t \in Track /\ K[t] \in TrackRecord /\ K[t].claim = Nobody /\ K[t].kind = "none"
  BY <1>2 DEF ListOK
<1>5. tracks' = [K EXCEPT ![t] = [K[t] EXCEPT !.kind = kind, !.claim = p]]
  BY <1>3, <1>4 DEF ListOK
<1>6. /\ tracks'[t].kind = kind /\ tracks'[t].claim = p /\ tracks'[t].old = K[t].old
      /\ \A u \in Track : u # t => tracks'[u] = K[u]
  BY <1>4, <1>5 DEF ListOK, TrackRecord
<1> QED BY <1>2, <1>3, <1>4, <1>6

\* The track t is the claimant's now, the others are as they were, but for a broken claim on the newest
TakesOver(p, t) ==
    /\ trk' = [trk EXCEPT ![p] = t]
    /\ tracks'[t].kind = Kind(p) /\ tracks'[t].claim = p /\ ~tracks'[t].old
    /\ tracks[t].kind \in {"none", "reserved", Kind(p)} /\ (\A q \in Sources : Alive(q) => tracks[t].claim # q)
    /\ tracks[t].kind = "none" => \A u \in Track : tracks[u].kind = "none" => t <= u
    /\ \A u \in Track : u # t => \/ tracks'[u] = tracks[u]
                                 \/ /\ p \in Processes /\ tracks'[u] = [tracks[u] EXCEPT !.claim = Nobody]
                                    /\ \A q \in Sources : Alive(q) => tracks[u].claim # q

\* Where a process finds its output: it is the newest already, or becomes it
NewestBecomes(t) ==
    \/ t = Max(Outputs) /\ tracks[t].kind # "none"
    \/ Outputs = {} /\ tracks[t].kind # "none"
    \/ /\ tracks[t].kind = "none"
       /\ Outputs # {} => Max(Outputs) \in Track /\ tracks'[Max(Outputs)].claim = Nobody

\* The effect of a claim
LEMMA ClaimEffect ==
    ASSUME TInv, NEW p \in Pids, Claim(p)
    PROVE  /\ p \in Sources /\ pc[p] = "boot" /\ pc' = [pc EXCEPT ![p] = "claimed"]
           /\ UNCHANGED <<setting, rec, phase, at, procVars, userVars, stateVars, sessions, faults>>
           /\ \E t \in Track : TakesOver(p, t) /\ (p \in Processes => NewestBecomes(t))
<1> USE Constants
<1>1. /\ p \in Sources /\ pc[p] = "boot" /\ pc' = [pc EXCEPT ![p] = "claimed"] /\ ListOK(tracks)
      /\ UNCHANGED <<setting, rec, phase, at, procVars, userVars, stateVars, sessions, faults>>
  BY ListOfInv DEF Claim, TInv
<1>2. Kind(p) \in {"source", "output"} /\ (p \in Processes => Kind(p) = "output")
  BY DEF Kind
<1>3. ASSUME NEW t \in Track, Resumes(p, t)
      PROVE  TakesOver(p, t) /\ (p \in Processes => NewestBecomes(t))
  <2>1. tracks[t] \in TrackRecord /\ tracks \in [Track -> TrackRecord]
    BY <1>1 DEF ListOK
  <2>2. tracks' = [tracks EXCEPT ![t] = [tracks[t] EXCEPT !.kind = Kind(p), !.claim = p, !.old = FALSE]]
    BY <1>3, <2>1 DEF Resumes, Resumed
  <2>3. tracks'[t].kind = Kind(p) /\ tracks'[t].claim = p /\ ~tracks'[t].old
    BY <2>1, <2>2 DEF TrackRecord
  <2>4. \A u \in Track : u # t => tracks'[u] = tracks[u]
    BY <2>1, <2>2
  <2>5. trk' = [trk EXCEPT ![p] = t]
    BY <1>3 DEF Resumes, Resumed
  <2>6. tracks[t].kind # "none"
    BY <1>2, <1>3 DEF Resumes
  <2> QED BY <1>3, <2>3, <2>4, <2>5, <2>6 DEF Resumes, TakesOver, NewestBecomes
<1>4. CASE (p \in Processes => Outputs = {}) /\ Added(p, Kind(p), tracks)
  <2>1. PICK t \in Track :
              /\ tracks[t].kind = "none" /\ tracks[t].claim = Nobody /\ \A u \in Track : tracks[u].kind = "none" => t <= u
              /\ trk' = [trk EXCEPT ![p] = t]
              /\ tracks'[t].kind = Kind(p) /\ tracks'[t].claim = p /\ tracks'[t].old = tracks[t].old
              /\ \A u \in Track : u # t => tracks'[u] = tracks[u]
    BY <1>1, <1>2, <1>4, AddedIs
  <2>2. ~tracks[t].old
    BY <2>1 DEF TInv, TrackKinds
  <2>3. \A q \in Sources : tracks[t].claim # q
    BY <2>1
  <2>4. TakesOver(p, t)
    BY <2>1, <2>2, <2>3 DEF TakesOver
  <2>5. p \in Processes => NewestBecomes(t)
    BY <1>4, <2>1 DEF NewestBecomes
  <2> QED BY <1>1, <2>4, <2>5
<1>5. CASE /\ p \in Processes /\ Outputs # {} /\ (\A q \in Sources : Alive(q) => tracks[Max(Outputs)].claim # q)
           /\ Added(p, "output", [tracks EXCEPT ![Max(Outputs)].claim = Nobody])
  <2> DEFINE m == Max(Outputs)
             r == [tracks[m] EXCEPT !.claim = Nobody]
             K == [tracks EXCEPT ![m] = r]
  <2>1. m \in Track /\ tracks[m] \in TrackRecord /\ tracks[m].kind = "output"
    <3>1. m \in Outputs
      BY <1>5, MaxIn DEF Outputs
    <3> QED BY <1>1, <3>1 DEF Outputs, ListOK
  <2>2. \A q \in Sources : Alive(q) => tracks[m].claim # q
    BY <1>5
  <2>3. Added(p, "output", K)
    BY <1>1, <1>5, <2>1 DEF ListOK
  <2> HIDE DEF m
  <2>4. r \in TrackRecord /\ r.kind = "output" /\ r.claim = Nobody
    BY <2>1 DEF TrackRecord
  <2>5. ListOK(K)
    <3> HIDE DEF r
    <3> QED BY <1>1, <2>1, <2>4, ChangedOK
  <2>6. K[m] = r /\ \A u \in Track : u # m => K[u] = tracks[u]
    BY <1>1, <2>1 DEF ListOK
  <2> HIDE DEF K
  <2>7. PICK t \in Track :
              /\ K[t].kind = "none" /\ K[t].claim = Nobody /\ \A u \in Track : K[u].kind = "none" => t <= u
              /\ trk' = [trk EXCEPT ![p] = t]
              /\ tracks'[t].kind = "output" /\ tracks'[t].claim = p /\ tracks'[t].old = K[t].old
              /\ \A u \in Track : u # t => tracks'[u] = K[u]
    BY <1>1, <2>3, <2>5, AddedIs
  <2>8. t # m /\ tracks[t].kind = "none" /\ K[t] = tracks[t]
    BY <2>4, <2>6, <2>7
  <2>9. ~tracks[t].old
    BY <2>8 DEF TInv, TrackKinds
  <2>10. \A q \in Sources : tracks[t].claim # q
    BY <2>7, <2>8
  <2>11. \A u \in Track : u # t => tracks'[u] = IF u = m THEN r ELSE tracks[u]
    BY <2>6, <2>7
  <2>12. \A u \in Track : u # t => \/ tracks'[u] = tracks[u]
                                   \/ /\ p \in Processes /\ tracks'[u] = [tracks[u] EXCEPT !.claim = Nobody]
                                      /\ \A q \in Sources : Alive(q) => tracks[u].claim # q
    BY <1>5, <2>2, <2>11
  <2>13. \A u \in Track : tracks[u].kind = "none" => t <= u
    BY <2>1, <2>6, <2>7
  <2>14. TakesOver(p, t)
    BY <1>2, <1>5, <2>7, <2>8, <2>9, <2>10, <2>12, <2>13 DEF TakesOver
  <2>15. tracks'[m].claim = Nobody
    BY <2>1, <2>4, <2>8, <2>11
  <2>16. NewestBecomes(t)
    BY <2>1, <2>8, <2>15 DEF NewestBecomes, m
  <2> QED BY <1>1, <2>14, <2>16
<1> QED BY <1>1, <1>3, <1>4, <1>5, ClaimIs DEF Adds

\* A claim keeps the tracks of the others theirs
LEMMA ClaimTInv == ASSUME TInv, NEW p \in Pids, Claim(p) PROVE TInv'
<1> USE Constants
<1>1. /\ p \in Sources /\ pc[p] = "boot" /\ pc' = [pc EXCEPT ![p] = "claimed"]
      /\ UNCHANGED <<setting, rec, phase, at, procVars, userVars, stateVars, sessions, faults>>
  BY ClaimEffect
<1>2. PICK t \in Track : TakesOver(p, t)
  BY ClaimEffect
<1>3. BInv' /\ ListOK(tracks) /\ TypeOK
  BY ClaimBInv, ListOfInv DEF TInv, BInv
<1>4. /\ trk' = [trk EXCEPT ![p] = t] /\ tracks'[t].kind = Kind(p) /\ tracks'[t].claim = p /\ ~tracks'[t].old
      /\ tracks[t].kind \in {"none", "reserved", Kind(p)} /\ \A q \in Sources : Alive(q) => tracks[t].claim # q
  BY <1>2 DEF TakesOver
<1>5. ASSUME NEW u \in Track, u # t
      PROVE  /\ tracks'[u].kind = tracks[u].kind /\ tracks'[u].old = tracks[u].old
             /\ tracks'[u].claim \in {tracks[u].claim, Nobody}
             /\ \A q \in Sources : (Alive(q) /\ tracks[u].claim = q) => tracks'[u].claim = q
  <2>1. tracks[u] \in TrackRecord
    BY <1>3 DEF ListOK
  <2>2. CASE tracks'[u] = tracks[u]
    BY <2>2
  <2>3. CASE /\ tracks'[u] = [tracks[u] EXCEPT !.claim = Nobody]
             /\ \A q \in Sources : Alive(q) => tracks[u].claim # q
    BY <2>1, <2>3 DEF TrackRecord
  <2> QED BY <1>2, <1>5, <2>2, <2>3 DEF TakesOver
<1>6. pc \in [Pids -> PCs] /\ trk \in [Sources -> {0} \union Track]
  BY <1>3 DEF TypeOK
<1>7. TrackKinds'
  <2>1. ASSUME NEW q \in Sources, trk'[q] # 0 PROVE tracks'[trk'[q]].kind \in {Kind(q), "gone"}
    <3>1. CASE q = p
      BY <1>4, <1>6, <3>1
    <3>2. CASE q # p
      <4>1. trk'[q] = trk[q] /\ trk[q] \in Track /\ tracks[trk[q]].kind \in {Kind(q), "gone"}
        BY <1>4, <1>6, <2>1, <3>2 DEF TInv, TrackKinds
      <4>2. CASE trk[q] = t
        BY <1>4, <4>1, <4>2 DEF Kind
      <4>3. CASE trk[q] # t
        BY <1>5, <4>1, <4>3
      <4> QED BY <4>2, <4>3
    <3> QED BY <3>1, <3>2
  <2>2. ASSUME NEW u \in Track, Valid(u)', Claimed(u)' PROVE tracks'[u].kind = Kind(tracks'[u].claim)
    <3>1. CASE u = t
      BY <1>4, <3>1
    <3>2. CASE u # t
      <4>1. Valid(u) /\ Claimed(u) /\ tracks'[u].claim = tracks[u].claim /\ tracks'[u].kind = tracks[u].kind
        BY <1>5, <2>2, <3>2 DEF Valid, Claimed
      <4> QED BY <4>1 DEF TInv, TrackKinds
    <3> QED BY <3>1, <3>2
  <2>3. \A u \in Track : tracks'[u].kind \in {"none", "reserved"} => ~tracks'[u].old
    BY <1>4, <1>5 DEF TInv, TrackKinds
  <2>4. ASSUME NEW u \in retained' PROVE tracks'[u].kind \in {"source", "gone"}
    <3>1. u \in retained /\ u \in Track /\ tracks[u].kind \in {"source", "gone"}
      BY <1>1, <1>3 DEF userVars, TypeOK, TInv, TrackKinds
    <3>2. CASE u = t
      BY <1>4, <3>1, <3>2
    <3>3. CASE u # t
      BY <1>5, <3>1, <3>3
    <3> QED BY <3>2, <3>3
  <2>5. setting'.controlled => retained' = {}
    BY <1>1 DEF userVars, TInv, TrackKinds
  <2> QED BY <2>1, <2>2, <2>3, <2>4, <2>5 DEF TrackKinds
<1>8. OwnClaims'
  <2>1. ASSUME NEW q \in Sources, pc'[q] \in {"claimed", "on"} PROVE tracks'[trk'[q]].claim = q
    <3>1. CASE q = p
      BY <1>4, <1>6, <3>1
    <3>2. CASE q # p
      <4>1. pc[q] \in {"claimed", "on"} /\ trk'[q] = trk[q] /\ Alive(q) /\ trk[q] \in Track
        BY <1>1, <1>4, <1>6, <2>1, <3>2 DEF Alive, TInv, BInv, Owned
      <4>2. tracks[trk[q]].claim = q
        BY <4>1 DEF TInv, OwnClaims
      <4>3. trk[q] # t
        BY <1>4, <4>1, <4>2
      <4> QED BY <1>5, <4>1, <4>2, <4>3
    <3> QED BY <3>1, <3>2
  <2>2. ASSUME NEW q \in Sources, pc'[q] = "boot", Named(q)' PROVE FALSE
    <3>1. q # p /\ pc[q] = "boot"
      BY <1>1, <1>6, <2>2
    <3>2. PICK u \in Track : Valid(u)' /\ tracks'[u].claim = q
      BY <2>2 DEF Named
    <3>3. u # t
      BY <1>4, <3>1, <3>2
    <3>4. Valid(u) /\ tracks[u].claim = q
      BY <1>5, <3>2, <3>3 DEF Valid
    <3> QED BY <3>1, <3>4 DEF TInv, OwnClaims, Named
  <2>3. \A q \in Sources : pc'[q] \in {"boot", "claimed"} => rec'[q] = {}
    BY <1>1, <1>6 DEF TInv, OwnClaims
  <2>4. \A q \in Sources : pc'[q] # "none" => q \in Present'
    BY <1>1, <1>6 DEF TInv, OwnClaims, Present
  <2> QED BY <2>1, <2>2, <2>3, <2>4 DEF OwnClaims
<1> QED BY <1>3, <1>7, <1>8 DEF TInv

\* A source that lets go of its track takes no other's
LEMMA AbandonTInv == ASSUME TInv, NEW p \in Pids, Abandon(p) PROVE TInv'
<1> USE Constants
<1>1. /\ p \in Sources /\ pc[p] = "on" /\ pc' = [pc EXCEPT ![p] = "left"] /\ tracks' = LetGo(p)
      /\ UNCHANGED <<setting, trk, rec, phase, at, procVars, userVars, stateVars, sessions, faults>>
  BY DEF Abandon, LetGo
<1>2. /\ BInv' /\ ListOK(tracks) /\ pc \in [Pids -> PCs] /\ trk[p] \in Track
      /\ \A t \in Track, q \in Sources : (q # p /\ tracks[t].claim = q) => tracks'[t].claim = q
  BY <1>1, AbandonBInv, AbandonTracks, ListOfInv DEF TInv, BInv, TypeOK, Owned
<1>3. Thinned(tracks, tracks')
  BY <1>1, <1>2, FreedThinned
<1>4. ASSUME NEW q \in Sources, pc'[q] \in {"claimed", "on"}
      PROVE  pc[q] \in {"claimed", "on"} /\ trk'[q] = trk[q] /\ tracks'[trk[q]].claim = q
  <2>1. q # p /\ pc[q] \in {"claimed", "on"} /\ trk'[q] = trk[q] /\ trk[q] \in Track
    BY <1>1, <1>2, <1>4 DEF TInv, BInv, Owned
  <2>2. tracks[trk[q]].claim = q
    BY <2>1 DEF TInv, OwnClaims
  <2> QED BY <1>2, <2>1, <2>2
<1>5. OwnClaims'
  <2>1. /\ \A q \in Sources : pc'[q] = "boot" => pc[q] = "boot" \/ ~Named(q)
        /\ \A q \in Sources : pc'[q] \in {"boot", "claimed"} => rec'[q] = {}
        /\ \A q \in Sources : pc'[q] # "none" => pc[q] # "none" \/ q \in Present
    BY <1>1, <1>2 DEF TInv, OwnClaims
  <2> QED BY <1>1, <1>3, <1>4, <2>1, ThinnedClaims
<1>6. TrackKinds'
  BY <1>1, <1>3, RetainedKinds, ThinnedKinds DEF userVars
<1> QED BY <1>2, <1>5, <1>6 DEF TInv

-----------------------------------------------------------------------------
\* The steps of the buffer

\* A track is reserved under the least number that was not used
LEMMA ReservedLeast ==
    ASSUME NEW t \in Track, ListOK(tracks), tracks[t].kind = "none", Reserved[t].kind = "reserved"
    PROVE  \A u \in Track : tracks[u].kind = "none" => t <= u
<1> USE Constants
<1> DEFINE unused == {u \in Track : tracks[u].kind = "none"}
           m == Min(unused)
<1>1. unused \in SUBSET Nat /\ unused # {} /\ Reserved = [tracks EXCEPT ![m].kind = "reserved"]
  BY DEF Reserved
<1>2. m \in unused /\ \A u \in unused : m <= u
  <2> HIDE DEF unused
  <2>1. \E x \in unused : \A y \in unused : x <= y
    BY <1>1, Least
  <2> QED BY <2>1 DEF Min
<1>3. m = t
  <2> HIDE DEF m
  <2> QED BY <1>1 DEF ListOK
<1> QED BY <1>2, <1>3

\* What a check of the process may do to the track list
Reservations == \A t \in Track :
    \/ tracks'[t] = tracks[t]
    \/ /\ tracks[t].kind = "none" /\ tracks'[t].kind = "reserved" /\ tracks'[t].old = tracks[t].old
       /\ \A u \in Track : tracks[u].kind = "none" => t <= u
    \/ tracks[t].kind = "reserved" /\ tracks'[t].kind = "gone" /\ tracks'[t].old = tracks[t].old

\* A process that is started is one that nothing names
LEMMA MaybeStartIs ==
    ASSUME ListOK(tracks), NEW deadline, NEW none \in [Pids -> PCs], MaybeStart(deadline, none)
    PROVE  /\ Reservations
           /\ \A q \in Pids : pc'[q] # none[q] => q \in Processes /\ pc'[q] = "boot" /\ Unused(q)
<1>1. tracks' \in {Reserved, Released, tracks}
  BY DEF MaybeStart
<1>2. Reservations
  BY <1>1, ReservedIs, ReservedLeast DEF Reservations
<1>3. ASSUME NEW q \in Pids, pc'[q] # none[q] PROVE q \in Processes /\ pc'[q] = "boot" /\ Unused(q)
  <2>1. PICK r \in Processes : Unused(r) /\ pc' = [none EXCEPT ![r] = "boot"]
    BY <1>3 DEF MaybeStart
  <2> QED BY <1>3, <2>1
<1> QED BY <1>2, <1>3

\* checkProcesses: reservations come and go, the process that exited makes room for another
LEMMA LeadInIs ==
    ASSUME BInv, userLeadIn
    PROVE  /\ Reservations
           /\ \A q \in Pids : pc'[q] # pc[q] => q \in Processes /\ (pc'[q] = "none" \/ (pc'[q] = "boot" /\ Unused(q)))
<1> USE Constants
<1>1. ListOK(tracks) /\ pc \in [Pids -> PCs]
  BY ListOfInv DEF BInv, TypeOK
<1>2. CASE UNCHANGED <<pc, tracks, procVars>>
  BY <1>2 DEF Reservations
<1>3. CASE Collect
  <2> DEFINE none == [pc EXCEPT ![proc] = "none"]
  <2>1. none \in [Pids -> PCs]
    BY <1>1 DEF PCs
  <2>2. proc \in Processes
    BY <1>3 DEF Collect, HasExited, BInv, TypeOK
  <2>3. \A q \in Pids : none[q] # pc[q] => q \in Processes /\ none[q] = "none"
    BY <1>1, <2>2
  <2>4. CASE tracks' = Released /\ pc' = none
    <3>1. Reservations
      BY <1>1, <2>4, ReservedIs DEF Reservations
    <3> QED BY <2>3, <2>4, <3>1
  <2>5. CASE MaybeStart(Deadline, none)
    <3> HIDE DEF none
    <3> QED BY <1>1, <2>1, <2>3, <2>5, MaybeStartIs
  <2> QED BY <1>3, <2>4, <2>5 DEF Collect
<1>4. CASE Start
  BY <1>1, <1>4, MaybeStartIs DEF Start
<1> QED BY <1>2, <1>3, <1>4 DEF userLeadIn

\* Reservations thin the list
LEMMA ReservationsThin == ASSUME Reservations, \A t \in Track : tracks'[t].claim = tracks[t].claim PROVE Thinned(tracks, tracks')
BY DEF Reservations, Thinned

\* A check of the process starts one that claims nothing yet
LEMMA LeadInTInv == ASSUME TInv, userLeadIn PROVE TInv'
<1> USE Constants
<1>1. /\ BInv /\ BInv' /\ pc \in [Pids -> PCs]
      /\ \A t \in Track : tracks'[t].claim = tracks[t].claim
      /\ UNCHANGED <<setting, trk, rec, retained>>
  BY LeadInBInv, LeadInTracks DEF TInv, BInv, TypeOK, userLeadIn
<1>2. Thinned(tracks, tracks')
  BY <1>1, LeadInIs, ReservationsThin
<1>3. TrackKinds'
  BY <1>1, <1>2, RetainedKinds, ThinnedKinds
<1>4. \A q \in Sources : pc'[q] # pc[q] => q \in Processes /\ (pc'[q] = "none" \/ (pc'[q] = "boot" /\ Unused(q)))
  BY <1>1, LeadInIs
<1>5. \A p \in Sources : pc'[p] \in {"claimed", "on"} =>
               pc[p] \in {"claimed", "on"} /\ trk'[p] = trk[p] /\ tracks'[trk[p]].claim = p
  <2> SUFFICES ASSUME NEW p \in Sources, pc'[p] \in {"claimed", "on"}
               PROVE  pc[p] \in {"claimed", "on"} /\ tracks'[trk[p]].claim = p
    BY <1>1
  <2>1. pc[p] \in {"claimed", "on"}
    BY <1>4
  <2>2. trk[p] \in Track /\ tracks[trk[p]].claim = p
    BY <2>1 DEF TInv, BInv, Owned, OwnClaims
  <2> QED BY <1>1, <2>1, <2>2
<1>6. /\ \A p \in Sources : pc'[p] = "boot" => pc[p] = "boot" \/ ~Named(p)
      /\ \A p \in Sources : pc'[p] \in {"boot", "claimed"} => rec'[p] = {}
      /\ \A p \in Sources : pc'[p] # "none" => pc[p] # "none" \/ p \in Present
  BY <1>1, <1>4 DEF Unused, TInv, OwnClaims
<1>7. OwnClaims'
  BY <1>1, <1>2, <1>5, <1>6, ThinnedClaims
<1> QED BY <1>1, <1>3, <1>7 DEF TInv

\* A step of the buffer that starts nothing and thins the list
LEMMA BufferTInv ==
    ASSUME TInv, BInv', Thinned(tracks, tracks'), UNCHANGED <<setting, pc>>,
           \A q \in Sources : trk'[q] = trk[q] \/ (trk'[q] = 0 /\ ~Alive(q)),
           \A q \in Sources : rec[q] = {} => rec'[q] = {},
           \A t \in Track, q \in Sources : (Alive(q) /\ tracks[t].claim = q) => tracks'[t].claim = q,
           TrackKinds'
    PROVE  TInv'
<1> USE Constants
<1>1. \A p \in Sources : pc'[p] \in {"claimed", "on"} =>
               pc[p] \in {"claimed", "on"} /\ trk'[p] = trk[p] /\ tracks'[trk[p]].claim = p
  <2> SUFFICES ASSUME NEW p \in Sources, pc'[p] \in {"claimed", "on"}
               PROVE  pc[p] \in {"claimed", "on"} /\ trk'[p] = trk[p] /\ tracks'[trk[p]].claim = p
    OBVIOUS
  <2>1. pc[p] \in {"claimed", "on"} /\ Alive(p)
    BY DEF Alive
  <2>2. trk'[p] = trk[p] /\ trk[p] \in Track /\ tracks[trk[p]].claim = p
    BY <2>1 DEF TInv, BInv, Owned, OwnClaims
  <2> QED BY <2>1, <2>2
<1>2. /\ \A p \in Sources : pc'[p] = "boot" => pc[p] = "boot" \/ ~Named(p)
      /\ \A p \in Sources : pc'[p] \in {"boot", "claimed"} => rec'[p] = {}
      /\ \A p \in Sources : pc'[p] # "none" => pc[p] # "none" \/ p \in Present
  BY DEF TInv, OwnClaims
<1>3. OwnClaims'
  BY <1>1, <1>2, ThinnedClaims
<1> QED BY <1>3 DEF TInv

\* A new publisher's record drops tracks kept for publishers, but not its own; no other step
\* of the walk at a record touches the tracks
LEMMA ActiveIs ==
    ASSUME TInv, ~setting.hasty, userOnActive, NEW p, p = setting.order[Standing]
    PROVE  /\ retained' \subseteq retained /\ Thinned(tracks, tracks')
           /\ \A t \in Track : \/ tracks'[t] = tracks[t]
                               \/ /\ p \in Publishers \ srcUsers /\ rec[p] # {}
                                  /\ t \in retained /\ t # trk[p] /\ tracks'[t].kind = "gone"
<1> USE Constants
<1>1. p \in Pids /\ rec[p] # {} /\ ListOK(tracks)
  BY ListOfInv, ActiveEffect DEF TInv
<1>2. CASE UNCHANGED <<tracks, retained>>
  BY <1>2 DEF Thinned
<1>3. CASE p \in Sources /\ ~IsProcess(p) /\ PublisherActive(p, Seen(p))
  <2> DEFINE drop == IF p \notin srcUsers THEN {t \in retained : Valid(t) /\ t # trk[p]} ELSE {}
  <2>1. tracks' = WithRemoved(tracks, drop) /\ retained' \in {{}, retained}
    BY <1>3 DEF PublisherActive
  <2>2. p \in Publishers
    BY <1>1, <1>3 DEF IsProcess, TInv, BInv, KnownProcess, Sources
  <2>3. ASSUME NEW t \in Track
        PROVE  \/ tracks'[t] = tracks[t]
               \/ /\ p \in Publishers \ srcUsers
                  /\ t \in retained /\ t # trk[p] /\ tracks'[t].kind = "gone"
    <3>1. CASE t \in drop
      BY <1>1, <2>1, <2>2, <3>1, RemovedIs
    <3>2. CASE t \notin drop
      BY <1>1, <2>1, <3>2, RemovedIs
    <3> QED BY <3>1, <3>2
  <2> HIDE DEF drop
  <2>4. Thinned(tracks, tracks')
    BY <1>1, <2>1, RemovedThinned
  <2> QED BY <1>1, <2>1, <2>3, <2>4
<1> QED BY <1>2, <1>3 DEF userOnActive

\* userOnActive keeps TInv
LEMMA ActiveTInv == ASSUME TInv, ~setting.hasty, userOnActive PROVE TInv'
<1> USE Constants
<1>1. BInv' /\ Marked(rec') /\ \A t \in Track : tracks'[t].claim = tracks[t].claim
  BY ActiveBInv, ActiveEffect DEF TInv
<1>2. Thinned(tracks, tracks') /\ retained' \subseteq retained
  BY ActiveIs
<1>3. UNCHANGED <<setting, pc, trk>>
  BY DEF userOnActive
<1>4. TrackKinds'
  BY <1>2, <1>3, RetainedKinds, ThinnedKinds
<1>5. \A q \in Sources : rec[q] = {} => rec'[q] = {}
  BY <1>1 DEF Marked
<1> QED BY <1>1, <1>2, <1>3, <1>4, <1>5, BufferTInv

\* Who left frees its track, and a source's is removed when nothing comes back for it
LEMMA GoneIs ==
    ASSUME TInv, ~setting.hasty, Apart, userOnDisconnect, NEW p, p = setting.order[at]
    PROVE  /\ Thinned(tracks, tracks')
           /\ setting.resume \/ setting.controlled => \A t \in Track : /\ tracks'[t].kind = tracks[t].kind
                                                                      /\ tracks'[t].old = tracks[t].old
           /\ \A t \in Track : tracks[t].kind # tracks'[t].kind => tracks[t].kind = "source"
           /\ setting.resume \/ setting.controlled => \A q \in Pids \ {p} : rec'[q] = rec[q]
           /\ \A q \in Pids \ {p} : rec[q] \subseteq rec'[q]
           /\ \A t \in retained' : t \in retained \/ (p \in Publishers /\ ~setting.controlled /\ t = trk[p])
<1> USE Constants
<1>1. at \in DOMAIN setting.order /\ p \in Pids /\ "disc" \in rec[p] /\ rec[p] # {}
  BY OrderIn DEF TInv, BInv, Left, userOnDisconnect
<1>2. ListOK(tracks) /\ TypeOK /\ Marked(rec)
  BY ListOfInv, UnmarkedOK DEF TInv, BInv
<1>3. ASSUME p \in Sources, tracks' = LetGo(p)
      PROVE  /\ Thinned(tracks, tracks')
             /\ \A t \in Track : tracks'[t].kind = tracks[t].kind /\ tracks'[t].old = tracks[t].old
  <2>1. trk[p] \in Track
    BY <1>1, <1>3 DEF TInv, BInv, Owned
  <2>2. /\ Thinned(tracks, LetGo(p))
        /\ \A t \in Track : LetGo(p)[t].kind = tracks[t].kind /\ LetGo(p)[t].old = tracks[t].old
    BY <1>2, <1>3, <2>1, FreedThinned
  <2> QED BY <1>3, <2>2
<1>7. ASSUME p \in Sources, Keeps(p) \/ phase = "break" PROVE Freed(p) = LetGo(p)
  <2>1. trk[p] \in Track
    BY <1>1, <1>7 DEF TInv, BInv, Owned
  <2> QED BY <1>2, <1>7, <2>1, FreedIsLetGo
<1>4. CASE ProcessGone(p)
  <2>1. tracks' = Freed(p) /\ Keeps(p) /\ rec' = [rec EXCEPT ![p] = {}] /\ retained' = retained /\ p \in Sources
    BY <1>2, <1>4 DEF ProcessGone, Keeps, TypeOK
  <2>2. tracks' = LetGo(p)
    BY <1>7, <2>1
  <2> QED BY <1>2, <1>3, <2>1, <2>2 DEF TypeOK
<1>5. CASE PublisherGone(p)
  <2>1. p \in srcUsers /\ p \in Publishers /\ p \in Sources
    BY <1>2, <1>5 DEF PublisherGone, TInv, BInv, KnownProcess, TypeOK, Sources
  <2>2. CASE /\ retained' = IF setting.controlled THEN retained ELSE retained \union {trk[p]}
             /\ tracks' = LetGo(p) /\ rec' = [rec EXCEPT ![p] = {}]
    BY <1>2, <1>3, <2>1, <2>2 DEF TypeOK
  <2>3. CASE /\ ~(setting.resume \/ setting.controlled)
             /\ retained' = retained \ {trk[p]}
             /\ tracks' = WithRemoved(tracks, {trk[p]} \intersect {t \in Track : Valid(t)})
             /\ rec' = [WithAsked(rec, {trk[p]}) EXCEPT ![p] = {}]
    <3>1. trk[p] # 0 /\ tracks[trk[p]].kind \in {"source", "gone"}
      BY <1>1, <2>1, StreamBufferAssumption DEF TInv, BInv, Owned, TrackKinds, Kind
    <3>2. Thinned(tracks, tracks')
      BY <1>2, <2>3, RemovedThinned
    <3>3. ASSUME NEW t \in Track, tracks[t].kind # tracks'[t].kind PROVE tracks[t].kind = "source"
      <4>1. t = trk[p] /\ Valid(t)
        BY <1>2, <2>3, <3>3, RemovedIs
      <4> QED BY <3>1, <4>1 DEF Valid
    <3>4. Marked(WithAsked(rec, {trk[p]}))
      BY <1>2, AskedOK
    <3>5. \A q \in Pids \ {p} : rec[q] \subseteq rec'[q]
      BY <2>3, <3>4 DEF Marked
    <3> QED BY <2>3, <3>2, <3>3, <3>5
  <2>4. CASE phase = "break" \/ Keeps(p)
    <3>1. /\ retained' = IF setting.controlled THEN retained ELSE retained \union {trk[p]}
          /\ tracks' = Freed(p) /\ rec' = [rec EXCEPT ![p] = {}]
      BY <1>5, <2>4 DEF PublisherGone
    <3> QED BY <1>7, <2>1, <2>2, <2>4, <3>1
  <2>5. CASE ~(phase = "break" \/ Keeps(p))
    BY <1>5, <2>1, <2>3, <2>5 DEF PublisherGone, Keeps
  <2> QED BY <2>4, <2>5
<1>6. CASE ViewerGone(p)
  BY <1>2, <1>6 DEF ViewerGone, Thinned, TypeOK
<1> QED BY <1>4, <1>5, <1>6 DEF userOnDisconnect

\* userOnDisconnect keeps TInv
LEMMA GoneTInv == ASSUME TInv, ~setting.hasty, Apart, userOnDisconnect PROVE TInv'
<1> USE Constants
<1> DEFINE p == setting.order[at]
<1>1. /\ BInv' /\ ~Alive(p) /\ p \in Pids /\ \A t \in Track, q \in Sources : (q # p /\ tracks[t].claim = q) => tracks'[t].claim = q
      /\ rec'[p] = {} /\ \A q \in Pids : q # p => (rec[q] = {} <=> rec'[q] = {})
  BY GoneBInv, GoneEffect DEF TInv
<1>2. /\ Thinned(tracks, tracks')
      /\ \A t \in retained' : t \in retained \/ (p \in Publishers /\ ~setting.controlled /\ t = trk[p])
  BY GoneIs
<1>3. UNCHANGED <<setting, pc>> /\ \A u \in Sources : trk'[u] = IF u = p THEN 0 ELSE trk[u]
  BY DEF userOnDisconnect
<1>4. p \in Publishers => trk[p] \in Track /\ tracks[trk[p]].kind \in {"source", "gone"}
  <2>1. "disc" \in rec[p]
    BY DEF TInv, BInv, Left, userOnDisconnect
  <2>2. p \in Publishers => trk[p] \in Track /\ trk[p] # 0 /\ Kind(p) = "source"
    BY <1>1, <2>1, StreamBufferAssumption DEF TInv, BInv, Owned, Kind
  <2> HIDE DEF p
  <2> QED BY <2>2 DEF TInv, TrackKinds
<1> HIDE DEF p
<1>5. \A t \in retained' : t \in Track /\ tracks[t].kind \in {"source", "gone"}
  BY <1>2, <1>4 DEF TInv, BInv, TypeOK, TrackKinds
<1>6. setting.controlled => retained' = {}
  BY <1>2 DEF TInv, TrackKinds
<1>7. TrackKinds'
  <2>1. \A q \in Sources : trk'[q] \in {trk[q], 0}
    BY <1>3
  <2> QED BY <1>2, <1>3, <1>5, <1>6, <2>1, ThinnedKinds
<1>8. /\ \A q \in Sources : trk'[q] = trk[q] \/ (trk'[q] = 0 /\ ~Alive(q))
      /\ \A q \in Sources : rec[q] = {} => rec'[q] = {}
  BY <1>1, <1>3
<1>9. \A t \in Track, q \in Sources : (Alive(q) /\ tracks[t].claim = q) => tracks'[t].claim = q
  BY <1>1
<1> QED BY <1>1, <1>2, <1>3, <1>7, <1>8, <1>9, BufferTInv

\* userLeadOut keeps TInv, and so do the look at a claim and the time that passes for a restart
LEMMA LeadOutTInv == ASSUME TInv, userLeadOut \/ FindsClaim \/ RestartDue PROVE TInv'
<1>1. BInv' /\ UNCHANGED <<setting, tracks, retained, pc, trk, rec>>
  BY LeadOutBInv, FindsBInv, RestartBInv DEF TInv, userLeadOut, FindsClaim, RestartDue, actorVars, userVars
<1> QED BY <1>1, SameTracks DEF TInv, OwnClaims

\* Holding a track changes its deadlines alone
LEMMA HeldIs ==
    ASSUME NEW K \in TrackRecord, NEW t \in Track
    PROVE  /\ Held(K, t).old = K.old
           /\ K.kind = "output" =>
                /\ Held(K, t).hold = IF ~ComesBack \/ (K.claim # Nobody /\ Running(K.claim)) THEN "no"
                                     ELSE IF K.hold = "no" THEN "set" ELSE K.hold
                /\ Held(K, t).until = (ComesBack /\ ((K.claim # Nobody /\ Running(K.claim)) \/ Held(K, t).hold = "set"))
<1> DEFINE up == K.claim # Nobody /\ Running(K.claim)
           hold == IF ~ComesBack \/ up THEN "no" ELSE IF K.hold = "no" THEN "set" ELSE K.hold
           until == ComesBack /\ (up \/ hold = "set")
           back == setting.resume /\ ~setting.controlled /\ (up \/ ~K.old)
<1>1. /\ K.kind = "output" => Held(K, t) = [K EXCEPT !.hold = hold, !.until = until]
      /\ K.kind = "source" => Held(K, t) = [K EXCEPT !.until = back]
      /\ K.kind \notin {"output", "source"} => Held(K, t) = K
  BY DEF Held
<1>2. Held(K, t).old = K.old
  <2> HIDE DEF hold, until, back
  <2> QED BY <1>1 DEF TrackRecord
<1>3. ASSUME K.kind = "output" PROVE Held(K, t).hold = hold /\ Held(K, t).until = until
  <2> HIDE DEF hold, until, back
  <2> QED BY <1>1, <1>3 DEF TrackRecord
<1> QED BY <1>2, <1>3

\* A track goes when a newer one replaced it or when it idled out, and its first user is asked to leave
LEMMA UnusedIs ==
    ASSUME BInv, removeUnused, NEW t \in Track
    PROVE  /\ tracks'[t].kind \in {tracks[t].kind, "gone"} /\ tracks'[t].old = tracks[t].old
           /\ \/ tracks'[t] = Held(tracks[t], t) /\ tracks'[t].kind = tracks[t].kind /\ t \notin Replaced
              \/ /\ tracks'[t].kind = "gone" /\ (t \in Replaced \/ tracks[t].old)
                 /\ \A p \in Pids : FirstUser(t) = p => "asked" \in rec'[p]
<1> DEFINE L == WithRemoved(tracks, Replaced)
           kept == [u \in Track |-> Held(L[u], u)]
           gone == Replaced \union Idle(kept)
<1>1. tracks' = WithRemoved(kept, gone) /\ rec' = WithAsked(rec, gone)
  BY DEF removeUnused
<1>2. ListOK(L) /\ ListOK(tracks)
  BY ListOfInv, RemovedOK
<1>3. {setting.resume, setting.controlled, everHadPush, hasPush} \subseteq BOOLEAN
  BY OrderIn DEF BInv, TypeOK, SettingType
<1>4. L[t].old = tracks[t].old /\ L[t].kind \in {tracks[t].kind, "gone"} /\ (t \notin Replaced => L[t] = tracks[t])
  BY <1>2, RemovedIs
<1> HIDE DEF L
<1>5. ASSUME NEW u \in Track
      PROVE  /\ kept[u] \in TrackRecord /\ kept[u].kind = L[u].kind /\ kept[u].claim = L[u].claim
             /\ kept[u].old = L[u].old /\ (kept[u].hold # "no" => L[u].kind = "output")
  <2>1. L[u] \in TrackRecord /\ (L[u].hold # "no" => L[u].kind = "output")
    BY <1>2 DEF ListOK
  <2> QED BY <1>3, <2>1, HeldOK, HeldIs
<1>6. ListOK(kept)
  <2>1. kept \in [Track -> TrackRecord]
    BY <1>5
  <2> HIDE DEF kept
  <2> QED BY <1>2, <1>5, <2>1 DEF ListOK
<1>7. kept[t] = Held(L[t], t)
  OBVIOUS
<1>8. t \in gone => t \in Replaced \/ kept[t].old
  BY DEF Idle
<1> HIDE DEF kept
<1>9. CASE t \in gone
  <2>1. tracks'[t].kind = "gone" /\ tracks'[t].old = kept[t].old
    BY <1>1, <1>6, <1>9, RemovedIs
  <2>2. \A p \in Pids : FirstUser(t) = p => rec'[p] = rec[p] \union {"asked"}
    BY <1>1, <1>9 DEF WithAsked
  <2> QED BY <1>4, <1>5, <1>8, <1>9, <2>1, <2>2
<1>10. CASE t \notin gone
  <2>1. tracks'[t] = kept[t]
    BY <1>1, <1>6, <1>10, RemovedIs
  <2> QED BY <1>4, <1>5, <1>7, <1>10, <2>1
<1> QED BY <1>9, <1>10

\* removeUnused keeps TInv
LEMMA UnusedTInv == ASSUME TInv, removeUnused PROVE TInv'
<1>1. /\ BInv' /\ Marked(rec') /\ \A t \in Track : tracks'[t].claim = tracks[t].claim
      /\ BInv /\ rec \in [Pids -> SUBSET Flags]
  BY UnusedBInv, UnusedEffect DEF TInv, BInv, TypeOK
<1>2. UNCHANGED <<setting, pc, trk>> /\ retained' \subseteq retained
  BY DEF removeUnused
<1>3. Thinned(tracks, tracks')
  BY <1>1, UnusedIs DEF Thinned
<1>4. TrackKinds'
  BY <1>2, <1>3, RetainedKinds, ThinnedKinds
<1>5. \A q \in Sources : rec[q] = {} => rec'[q] = {}
  BY <1>1, Constants DEF Marked
<1> QED BY <1>1, <1>2, <1>3, <1>4, <1>5, BufferTInv

\* Time changes how long a track idled, or its deadline
LEMMA IdlesIs ==
    ASSUME BInv, NEW t \in Track, IdlesOut(t) \/ DeadlinePasses(t), NEW u \in Track
    PROVE  /\ tracks'[u].kind = tracks[u].kind /\ tracks'[u].claim = tracks[u].claim
           /\ tracks'[u].old = tracks[u].old \/ (u = t /\ IdlesOut(t) /\ Valid(u))
           /\ \/ tracks'[u].hold = tracks[u].hold /\ tracks'[u].until = tracks[u].until
              \/ tracks'[u].hold = "past"
<1>1. tracks \in [Track -> TrackRecord] /\ tracks[u] \in TrackRecord
  BY ListOfInv DEF ListOK
<1>2. CASE IdlesOut(t)
  <2>1. tracks'[u] = IF u = t THEN [tracks[u] EXCEPT !.old = TRUE] ELSE tracks[u]
    BY <1>1, <1>2 DEF IdlesOut
  <2> QED BY <1>1, <1>2, <2>1 DEF TrackRecord, IdlesOut
<1>3. CASE DeadlinePasses(t)
  <2>1. tracks'[u] = IF u = t THEN [tracks[u] EXCEPT !.hold = "past", !.until = FALSE] ELSE tracks[u]
    BY <1>1, <1>3 DEF DeadlinePasses
  <2> QED BY <1>1, <2>1 DEF TrackRecord
<1> QED BY <1>2, <1>3

\* Time keeps TInv
LEMMA IdlesTInv == ASSUME TInv, NEW t \in Track, IdlesOut(t) \/ DeadlinePasses(t) PROVE TInv'
<1>1. BInv /\ BInv' /\ \A u \in Track : tracks'[u].claim = tracks[u].claim
  BY IdlesBInv, IdlesTracks DEF TInv
<1>2. UNCHANGED <<setting, pc, trk, rec, retained>>
  BY DEF IdlesOut, DeadlinePasses, actorVars, userVars
<1>3. \A u \in Track : /\ tracks'[u].kind = tracks[u].kind /\ tracks'[u].claim = tracks[u].claim
                       /\ tracks'[u].old = tracks[u].old \/ Valid(u)
  BY <1>1, IdlesIs
<1>4. Thinned(tracks, tracks')
  BY <1>3 DEF Thinned, Valid
<1>5. TrackKinds'
  BY <1>2, <1>4, RetainedKinds, ThinnedKinds
<1> QED BY <1>1, <1>2, <1>4, <1>5, BufferTInv

\* Every step keeps TInv, when a tick sees the record of each process
LEMMA NextTInv == ASSUME TInv, ~setting.hasty, Apart, [Next]_vars PROVE TInv'
<1>1. CASE Tick
  BY <1>1, LeadInTInv, ActiveTInv, GoneTInv, LeadOutTInv, UnusedTInv DEF Tick
<1>2. ASSUME NEW p \in Pids, Actor(p) PROVE TInv'
  BY <1>2, ActorTInv, ClaimTInv, AbandonTInv DEF Actor
<1>3. CASE Watch
  BY <1>3, ActorTInv, Constants
<1>4. ASSUME NEW t \in Track, IdlesOut(t) \/ DeadlinePasses(t) PROVE TInv'
  BY <1>4, IdlesTInv
<1>5. CASE RestartDue
  BY <1>5, LeadOutTInv
<1>6. CASE UNCHANGED vars
  <2>1. BInv' /\ UNCHANGED <<setting, tracks, retained, pc, trk, rec>>
    BY <1>6, StutterBInv DEF TInv, vars, actorVars, userVars
  <2> QED BY <2>1, SameTracks DEF TInv, OwnClaims
<1> QED BY <1>1, <1>2, <1>3, <1>4, <1>5, <1>6 DEF Next

-----------------------------------------------------------------------------
\* Sources that are asked to leave

\* From the third on, a publisher arrives after a tick saw the records of those before it
Orderly == (~setting.controlled /\ sessions' + 2 < setting.sessions) =>
    \A p, q \in Publishers : (pc[p] = "none" /\ pc'[p] = "boot" /\ rec[q] # {}) => q \in srcUsers

\* A step that changes no track under a source at work, and no source comes to
LEMMA KeepsAsked ==
    ASSUME TInv, AtWork, AskedToLeave, setting' = setting,
           \A p \in Sources : pc'[p] \in {"claimed", "on"} =>
               /\ pc'[p] = pc[p] /\ trk'[p] = trk[p]
               /\ tracks'[trk[p]].kind = tracks[trk[p]].kind /\ tracks'[trk[p]].old = tracks[trk[p]].old
               /\ "asked" \in rec[p] => "asked" \in rec'[p],
           \A u \in Sources : rec'[u] # {} => rec[u] # {} /\ trk'[u] = trk[u]
    PROVE  AtWork' /\ AskedToLeave'
<1> USE Constants
<1> SUFFICES ASSUME setting.resume \/ setting.controlled
             PROVE  /\ \A p \in Sources : pc'[p] = "claimed" => Valid(trk[p])' /\ ~tracks'[trk'[p]].old
                    /\ \A p \in Sources : (pc'[p] = "on" /\ Valid(trk[p])' /\ tracks'[trk'[p]].old) =>
                           \A u \in Sources \ {p} : rec'[u] # {} => trk'[u] # trk'[p]
                    /\ \A p \in Sources : (pc'[p] = "on" /\ ~Valid(trk[p])') => "asked" \in rec'[p]
  BY DEF AtWork, AskedToLeave, Valid
<1>1. ASSUME NEW p \in Sources, pc'[p] \in {"claimed", "on"}
      PROVE  pc[p] = pc'[p] /\ trk'[p] = trk[p] /\ tracks'[trk'[p]].old = tracks[trk[p]].old /\ (Valid(trk[p])' <=> Valid(trk[p]))
  BY <1>1 DEF Valid
<1> QED BY <1>1 DEF AtWork, AskedToLeave

\* A step in which no publisher arrives, and no track is retained
LEMMA KeepsSeen ==
    ASSUME TwoSessions, OthersSeen, UNCHANGED <<setting, sessions>>, retained' \subseteq retained,
           \A p \in Publishers : /\ pc'[p] \in {"boot", "claimed", "on"} => pc[p] \in {"boot", "claimed", "on"}
                                 /\ pc[p] \in {"none", "left"} => pc'[p] \in {"none", "left"}
                                 /\ rec'[p] # {} => rec[p] # {} \/ pc[p] \notin {"none", "left"}
                                 /\ (rec'[p] # {} /\ p \in srcUsers) => p \in srcUsers'
                                 /\ Here(p)' => Here(p)
    PROVE  TwoSessions' /\ OthersSeen'
<1>1. TwoSessions'
  BY DEF TwoSessions
<1>2. CASE setting.controlled
  BY <1>1, <1>2 DEF OthersSeen
<1>3. CASE ~setting.controlled
  BY <1>1, <1>3 DEF OthersSeen
<1> QED BY <1>2, <1>3

\* What a step that touches no track does to the invariant
LEMMA ActorAsked ==
    ASSUME AInv, NEW p \in Pids, Disconnect(p) \/ Exit(p) \/ Die(p) \/ Watch
    PROVE  (TwoSessions /\ OthersSeen /\ AtWork /\ AskedToLeave)'
<1> USE Constants
<1>1. /\ TInv /\ TwoSessions /\ OthersSeen /\ AtWork /\ AskedToLeave /\ BInv
      /\ pc \in [Pids -> PCs] /\ rec \in [Pids -> SUBSET Flags] /\ trk \in [Sources -> {0} \union Track]
  BY DEF AInv, TInv, BInv, TypeOK
<1>2. UNCHANGED <<setting, tracks, srcUsers, retained, sessions>>
  BY DEF Disconnect, Exit, Die, Watch, userVars
<1> DEFINE Fits ==
        /\ \A q \in Sources : pc'[q] \in {"claimed", "on"} =>
               pc'[q] = pc[q] /\ trk'[q] = trk[q] /\ ("asked" \in rec[q] => "asked" \in rec'[q])
        /\ \A u \in Sources : rec'[u] # {} => rec[u] # {} /\ trk'[u] = trk[u]
        /\ \A q \in Publishers : /\ pc'[q] \in {"boot", "claimed", "on"} => pc[q] \in {"boot", "claimed", "on"}
                                 /\ pc[q] \in {"none", "left"} => pc'[q] \in {"none", "left"}
                                 /\ Alive(q)' => Alive(q)
<1>3. ASSUME Disconnect(p) PROVE Fits
  <2>1. pc[p] \in {"on", "left"} /\ rec[p] # {}
    BY <1>1, <1>3 DEF Disconnect, BInv, Left
  <2> QED BY <1>1, <1>3, <2>1, StreamBufferAssumption DEF Disconnect, Alive
<1>4. ASSUME Exit(p) PROVE Fits
  BY <1>1, <1>4, StreamBufferAssumption DEF Exit, Exits, Alive
<1>5. ASSUME Die(p) PROVE Fits
  BY <1>1, <1>5, StreamBufferAssumption DEF Die, Alive
<1>6. ASSUME Watch PROVE Fits
  BY <1>1, <1>6 DEF Watch, Alive
<1>7. Fits
  BY <1>3, <1>4, <1>5, <1>6
<1>8. AtWork' /\ AskedToLeave'
  BY <1>1, <1>2, <1>7, KeepsAsked
<1>9. TwoSessions' /\ OthersSeen'
  BY <1>1, <1>2, <1>7, KeepsSeen DEF Here
<1> QED BY <1>8, <1>9

\* A publisher arrives after those before it were seen
LEMMA ArriveAsked ==
    ASSUME AInv, NEW p \in Pids, Arrive(p), Orderly PROVE (TwoSessions /\ OthersSeen /\ AtWork /\ AskedToLeave)'
<1> USE Constants
<1>1. TInv /\ TwoSessions /\ OthersSeen /\ AtWork /\ AskedToLeave /\ pc \in [Pids -> PCs]
  BY DEF AInv, TInv, BInv, TypeOK
<1>2. /\ p \in Publishers /\ pc[p] = "none" /\ pc' = [pc EXCEPT ![p] = "boot"]
      /\ \A q \in Publishers : pc[q] \in {"none", "left"}
      /\ UNCHANGED <<setting, trk, rec, tracks, srcUsers>>
  BY DEF Arrive, userVars
<1>3. AtWork' /\ AskedToLeave'
  BY <1>1, <1>2, KeepsAsked
<1>4. TwoSessions'
  <2>1. sessions \in Nat /\ setting.sessions \in Nat /\ sessions' = sessions - 1 /\ sessions' \in Nat
    <3>1. sessions \in Nat /\ setting \in SettingType
      BY StreamBufferAssumption DEF AInv, TInv, BInv, TypeOK
    <3>2. setting.sessions \in Nat
      BY <3>1 DEF SettingType
    <3>3. sessions > 0 /\ sessions' = sessions - 1
      BY DEF Arrive
    <3> QED BY <3>1, <3>2, <3>3
  <2>2. ~Here(p) /\ retained' = retained /\ \A q \in Publishers : q # p => (Here(q)' <=> Here(q))
    BY <1>1, <1>2 DEF Arrive, userVars, Here, Alive
  <2>3. sessions' + 1 = setting.sessions => sessions = setting.sessions
    BY <2>1
  <2>4. sessions' + 2 = setting.sessions => sessions + 1 = setting.sessions
    BY <2>1
  <2>5. sessions' <= setting.sessions /\ sessions' # setting.sessions
    BY <1>1, <2>1 DEF TwoSessions
  <2>6. sessions' + 1 = setting.sessions => retained = {} /\ \A q \in Publishers : Here(q)' => q = p
    BY <1>1, <2>2, <2>3 DEF TwoSessions
  <2>7. sessions' + 2 = setting.sessions =>
          /\ \A q, r \in Publishers \ {p} : Here(q)' /\ Here(r)' => q = r
          /\ retained # {} => \A q \in Publishers : Here(q)' => q = p
    BY <1>1, <2>2, <2>4 DEF TwoSessions
  <2>8. sessions' + 2 = setting.sessions =>
          /\ \A q, r, u \in Publishers : Here(q)' /\ Here(r)' /\ Here(u)' => q = r \/ q = u \/ r = u
          /\ retained # {} => \A q, r \in Publishers : Here(q)' /\ Here(r)' => q = r
    BY <2>7
  <2>9. setting' = setting
    BY <1>2
  <2> QED BY <2>2, <2>5, <2>6, <2>8, <2>9 DEF TwoSessions
<1>5. OthersSeen'
  <2>1. CASE setting.controlled
    BY <1>2, <2>1 DEF OthersSeen
  <2>2. CASE ~setting.controlled
    <3>1. sessions \in Nat /\ setting.sessions \in Nat /\ sessions' = sessions - 1 /\ retained' = retained
      BY OrderIn DEF AInv, TInv, BInv, TypeOK, SettingType, Arrive, userVars
    <3>2. ASSUME NEW q \in Publishers, rec[q] # {}, q \notin srcUsers
          PROVE  retained' = {} /\ sessions' + 2 >= setting.sessions
      <4>1. sessions' + 2 >= setting.sessions
        <5>1. pc[p] = "none" /\ pc'[p] = "boot" /\ p \in Publishers
          BY <1>1, <1>2
        <5>2. ~(sessions' + 2 < setting.sessions)
          BY <2>2, <3>2, <5>1 DEF Orderly
        <5> QED BY <3>1, <5>2
      <4>2. Here(q)
        BY <3>2 DEF Here
      <4>3. sessions = setting.sessions \/ sessions + 1 = setting.sessions
        BY <1>1, <3>1, <4>1 DEF TwoSessions
      <4>4. retained = {}
        BY <1>1, <4>2, <4>3 DEF TwoSessions
      <4> QED BY <3>1, <4>1, <4>4
    <3>3. \A q \in Publishers : q # p => pc'[q] \in {"none", "left"}
      BY <1>1, <1>2
    <3> QED BY <1>2, <3>2, <3>3 DEF OthersSeen
  <2> QED BY <2>1, <2>2
<1> QED BY <1>3, <1>4, <1>5

\* A source claims a track that stays, and that no other source is at
LEMMA ClaimAsked ==
    ASSUME AInv, NEW p \in Pids, Claim(p) PROVE (TwoSessions /\ OthersSeen /\ AtWork /\ AskedToLeave)'
<1> USE Constants
<1>1. /\ TInv /\ TwoSessions /\ OthersSeen /\ AtWork /\ AskedToLeave /\ BInv
      /\ pc \in [Pids -> PCs] /\ trk \in [Sources -> {0} \union Track] /\ ListOK(tracks)
  BY ListOfInv DEF AInv, TInv, BInv, TypeOK
<1>2. /\ p \in Sources /\ pc[p] = "boot" /\ pc' = [pc EXCEPT ![p] = "claimed"]
      /\ UNCHANGED <<setting, rec, phase, at, procVars, userVars, stateVars, sessions, faults>>
  BY <1>1, ClaimEffect
<1>3. PICK t \in Track : TakesOver(p, t)
  BY <1>1, ClaimEffect
<1>4. /\ trk' = [trk EXCEPT ![p] = t] /\ tracks'[t].kind = Kind(p) /\ tracks'[t].claim = p /\ ~tracks'[t].old
      /\ \A q \in Sources : Alive(q) => tracks[t].claim # q
  BY <1>3 DEF TakesOver
<1>5. ASSUME NEW u \in Track, u # t PROVE tracks'[u].kind = tracks[u].kind /\ tracks'[u].old = tracks[u].old
  <2>1. tracks[u] \in TrackRecord
    BY <1>1 DEF ListOK
  <2> QED BY <1>3, <1>5, <2>1 DEF TakesOver, TrackRecord
<1>6. ASSUME NEW q \in Sources, q # p, pc[q] \in {"claimed", "on"} PROVE trk'[q] = trk[q] /\ trk[q] # t /\ trk[q] \in Track
  <2>1. Alive(q) /\ trk[q] \in Track /\ tracks[trk[q]].claim = q
    BY <1>1, <1>6 DEF Alive, BInv, Owned, TInv, OwnClaims
  <2> QED BY <1>1, <1>4, <1>6, <2>1
<1>7. ASSUME NEW q \in Sources, q # p, pc'[q] \in {"claimed", "on"}
      PROVE  pc'[q] = pc[q] /\ trk'[q] = trk[q] /\ tracks'[trk[q]].kind = tracks[trk[q]].kind /\ tracks'[trk[q]].old = tracks[trk[q]].old
  BY <1>1, <1>2, <1>5, <1>6, <1>7
<1>8. rec[p] = {} /\ trk'[p] = t /\ pc'[p] = "claimed" /\ Valid(t)'
  BY <1>1, <1>2, <1>4 DEF TInv, OwnClaims, Kind, Valid
<1>9. AtWork' /\ AskedToLeave'
  <2> SUFFICES ASSUME setting.resume \/ setting.controlled
               PROVE  /\ \A q \in Sources : pc'[q] = "claimed" => Valid(trk[q])' /\ ~tracks'[trk'[q]].old
                      /\ \A q \in Sources : (pc'[q] = "on" /\ Valid(trk[q])' /\ tracks'[trk'[q]].old) =>
                             \A u \in Sources \ {q} : rec'[u] # {} => trk'[u] # trk'[q]
                      /\ \A q \in Sources : (pc'[q] = "on" /\ ~Valid(trk[q])') => "asked" \in rec'[q]
    BY <1>2 DEF AtWork, AskedToLeave, Valid
  <2>1. ASSUME NEW q \in Sources, q # p, pc'[q] \in {"claimed", "on"}
        PROVE  pc[q] = pc'[q] /\ trk'[q] = trk[q] /\ tracks'[trk'[q]].old = tracks[trk[q]].old /\ (Valid(trk[q])' <=> Valid(trk[q]))
    BY <1>7, <2>1 DEF Valid
  <2>2. \A q \in Sources : pc'[q] = "claimed" => Valid(trk[q])' /\ ~tracks'[trk'[q]].old
    BY <1>1, <1>4, <1>8, <2>1 DEF AtWork, Valid
  <2>3. ASSUME NEW q \in Sources, pc'[q] = "on", Valid(trk[q])', tracks'[trk'[q]].old, NEW u \in Sources \ {q}, rec'[u] # {}
        PROVE  trk'[u] # trk'[q]
    <3>1. q # p /\ u # p /\ rec[u] # {} /\ trk'[u] = trk[u]
      BY <1>1, <1>2, <1>4, <1>8, <2>3
    <3> QED BY <1>1, <2>1, <2>3, <3>1 DEF AtWork
  <2>4. ASSUME NEW q \in Sources, pc'[q] = "on", ~Valid(trk[q])' PROVE "asked" \in rec'[q]
    BY <1>1, <1>2, <1>8, <2>1, <2>4 DEF AskedToLeave
  <2> QED BY <2>2, <2>3, <2>4
<1>10. TwoSessions' /\ OthersSeen'
  <2>1. UNCHANGED <<srcUsers, retained, sessions>>
    BY <1>2 DEF userVars
  <2>2. \A q \in Publishers : Here(q)' => Here(q)
    BY <1>1, <1>2 DEF Here, Alive
  <2> QED BY <1>1, <1>2, <2>1, <2>2, KeepsSeen
<1> QED BY <1>9, <1>10

\* Who registers has a track still
LEMMA RegisterAsked ==
    ASSUME AInv, NEW p \in Pids, Register(p) PROVE (TwoSessions /\ OthersSeen /\ AtWork /\ AskedToLeave)'
<1> USE Constants
<1>1. /\ TInv /\ TwoSessions /\ OthersSeen /\ AtWork /\ AskedToLeave /\ BInv
      /\ pc \in [Pids -> PCs] /\ rec \in [Pids -> SUBSET Flags] /\ trk \in [Sources -> {0} \union Track]
  BY DEF AInv, TInv, BInv, TypeOK
<1>2. /\ p \in Sources /\ pc[p] = "claimed" /\ pc' = [pc EXCEPT ![p] = "on"] /\ rec' = [rec EXCEPT ![p] = {"active"}]
      /\ UNCHANGED <<setting, trk, tracks, srcUsers, retained, sessions>>
  BY DEF Register, userVars
<1>3. \A q \in Sources \ {p} : pc[q] = "on" => trk[q] # trk[p]
  BY <1>1, <1>2 DEF TInv, OwnClaims
<1>4. AtWork' /\ AskedToLeave'
  <2> SUFFICES ASSUME setting.resume \/ setting.controlled
               PROVE  /\ \A q \in Sources : pc'[q] = "claimed" => Valid(trk[q]) /\ ~tracks[trk[q]].old
                      /\ \A q \in Sources : (pc'[q] = "on" /\ Valid(trk[q]) /\ tracks[trk[q]].old) =>
                             \A u \in Sources \ {q} : rec'[u] # {} => trk[u] # trk[q]
                      /\ \A q \in Sources : (pc'[q] = "on" /\ ~Valid(trk[q])) => "asked" \in rec'[q]
    BY <1>2 DEF AtWork, AskedToLeave, Valid
  <2>1. Valid(trk[p]) /\ ~tracks[trk[p]].old
    BY <1>1, <1>2 DEF AtWork
  <2>2. \A q \in Sources \ {p} : pc'[q] = pc[q] /\ rec'[q] = rec[q]
    BY <1>1, <1>2
  <2>3. pc'[p] = "on"
    BY <1>1, <1>2
  <2>4. ASSUME NEW q \in Sources, pc'[q] = "on", Valid(trk[q]), tracks[trk[q]].old, NEW u \in Sources \ {q}, rec'[u] # {}
        PROVE  trk[u] # trk[q]
    <3>1. q # p /\ pc[q] = "on"
      BY <2>1, <2>2, <2>4
    <3> QED BY <1>1, <1>3, <2>2, <2>4, <3>1 DEF AtWork
  <2> QED BY <1>1, <2>1, <2>2, <2>3, <2>4 DEF AtWork, AskedToLeave
<1>5. TwoSessions' /\ OthersSeen'
  <2>1. \A q \in Publishers : Here(q)' => Here(q)
    BY <1>1, <1>2 DEF Here, Alive
  <2> QED BY <1>1, <1>2, <2>1, KeepsSeen
<1> QED BY <1>4, <1>5

\* A source that lets go of its track changes nothing for the others
LEMMA AbandonAsked ==
    ASSUME AInv, NEW p \in Pids, Abandon(p) PROVE (TwoSessions /\ OthersSeen /\ AtWork /\ AskedToLeave)'
<1> USE Constants
<1>1. /\ TInv /\ TwoSessions /\ OthersSeen /\ AtWork /\ AskedToLeave /\ BInv
      /\ pc \in [Pids -> PCs] /\ ListOK(tracks)
  BY ListOfInv DEF AInv, TInv, BInv, TypeOK
<1>2. /\ p \in Sources /\ pc[p] = "on" /\ pc' = [pc EXCEPT ![p] = "left"] /\ tracks' = LetGo(p)
      /\ UNCHANGED <<setting, trk, rec, srcUsers, retained, sessions>>
  BY DEF Abandon, LetGo, userVars
<1>3. trk[p] \in Track
  BY <1>1, <1>2 DEF BInv, Owned
<1>4. \A t \in Track : tracks'[t].kind = tracks[t].kind /\ tracks'[t].old = tracks[t].old
  BY <1>1, <1>2, <1>3, FreedThinned
<1>5. ASSUME NEW q \in Sources, pc'[q] \in {"claimed", "on"} PROVE pc'[q] = pc[q] /\ trk[q] \in Track
  BY <1>1, <1>2, <1>5 DEF BInv, Owned
<1>6. AtWork' /\ AskedToLeave'
  BY <1>1, <1>2, <1>4, <1>5, KeepsAsked
<1>7. TwoSessions' /\ OthersSeen'
  <2>1. \A q \in Publishers : Here(q)' => Here(q)
    BY <1>1, <1>2 DEF Here, Alive
  <2> QED BY <1>1, <1>2, <2>1, KeepsSeen
<1> QED BY <1>6, <1>7

\* A check of the process leaves the tracks of sources alone
LEMMA LeadInAsked ==
    ASSUME AInv, userLeadIn PROVE (TwoSessions /\ OthersSeen /\ AtWork /\ AskedToLeave)'
<1> USE Constants
<1>1. TInv /\ TwoSessions /\ OthersSeen /\ AtWork /\ AskedToLeave /\ BInv
  BY DEF AInv, TInv
<1>2. UNCHANGED <<setting, trk, rec, srcUsers, retained, sessions>>
  BY DEF userLeadIn
<1>3. /\ Reservations
      /\ \A q \in Pids : pc'[q] # pc[q] => q \in Processes /\ (pc'[q] = "none" \/ (pc'[q] = "boot" /\ Unused(q)))
  BY <1>1, LeadInIs
<1>4. ASSUME NEW q \in Sources, pc'[q] \in {"claimed", "on"}
      PROVE  pc'[q] = pc[q] /\ tracks'[trk[q]].kind = tracks[trk[q]].kind /\ tracks'[trk[q]].old = tracks[trk[q]].old
  <2>1. pc'[q] = pc[q]
    BY <1>3, <1>4
  <2>2. trk[q] \in Track /\ trk[q] # 0 /\ tracks[trk[q]].kind \in {Kind(q), "gone"}
    BY <1>1, <1>4, <2>1 DEF BInv, Owned, TInv, TrackKinds
  <2>3. tracks'[trk[q]] = tracks[trk[q]]
    BY <1>3, <2>2 DEF Reservations, Kind
  <2> QED BY <2>1, <2>3
<1>5. AtWork' /\ AskedToLeave'
  BY <1>1, <1>2, <1>4, KeepsAsked
<1>6. \A q \in Publishers : pc'[q] = pc[q]
  BY <1>3, StreamBufferAssumption
<1>7. TwoSessions' /\ OthersSeen'
  <2>1. \A q \in Publishers : Here(q)' => Here(q)
    BY <1>2, <1>6 DEF Here, Alive
  <2> QED BY <1>1, <1>2, <1>6, <2>1, KeepsSeen
<1> QED BY <1>5, <1>7

\* The tracks a new publisher drops are not those of a source at work: that one would have
\* arrived after it, before it was seen
LEMMA ActiveAsked ==
    ASSUME AInv, ~setting.hasty, userOnActive PROVE (TwoSessions /\ OthersSeen /\ AtWork /\ AskedToLeave)'
<1> USE Constants
<1> DEFINE s == setting.order[Standing]
<1>1. TInv /\ TwoSessions /\ OthersSeen /\ AtWork /\ AskedToLeave /\ BInv
  BY DEF AInv, TInv
<1>2. UNCHANGED <<setting, pc, trk, sessions>>
  BY DEF userOnActive
<1>3. Marked(rec') /\ srcUsers \subseteq srcUsers'
  BY <1>1, ActiveEffect
<1>4. /\ Thinned(tracks, tracks') /\ retained' \subseteq retained
      /\ \A t \in Track : \/ tracks'[t] = tracks[t]
                          \/ /\ s \in Publishers \ srcUsers /\ rec[s] # {}
                             /\ t \in retained /\ t # trk[s] /\ tracks'[t].kind = "gone"
  BY <1>1, ActiveIs
<1> HIDE DEF s
<1>5. ASSUME NEW q \in Sources, pc[q] \in {"claimed", "on"}
      PROVE  tracks'[trk[q]].kind = tracks[trk[q]].kind /\ tracks'[trk[q]].old = tracks[trk[q]].old
  <2>1. trk[q] \in Track /\ trk[q] # 0 /\ tracks[trk[q]].kind \in {Kind(q), "gone"}
    BY <1>1, <1>5 DEF BInv, Owned, TInv, TrackKinds
  <2>2. CASE tracks'[trk[q]] = tracks[trk[q]]
    BY <2>2
  <2>3. CASE /\ s \in Publishers \ srcUsers /\ rec[s] # {}
             /\ trk[q] \in retained /\ trk[q] # trk[s] /\ tracks'[trk[q]].kind = "gone"
    <3>1. tracks[trk[q]].kind \in {"source", "gone"} /\ ~setting.controlled
      BY <1>1, <2>3 DEF TInv, TrackKinds
    <3>2. CASE tracks[trk[q]].kind = "gone"
      BY <1>4, <2>1, <2>3, <3>2 DEF Thinned
    <3>3. CASE tracks[trk[q]].kind = "source"
      <4>1. q \in Publishers
        BY <2>1, <3>3 DEF Kind, Sources
      <4>2. q # s
        BY <2>3
      <4> QED BY <1>1, <1>5, <2>3, <3>1, <4>1, <4>2 DEF OthersSeen
    <3> QED BY <3>1, <3>2, <3>3
  <2> QED BY <1>4, <2>1, <2>2, <2>3
<1>6. /\ \A q \in Pids : (rec'[q] # {} => rec[q] # {}) /\ rec[q] \subseteq rec'[q]
  BY <1>3 DEF Marked
<1>7. AtWork' /\ AskedToLeave'
  BY <1>1, <1>2, <1>5, <1>6, KeepsAsked
<1>8. TwoSessions' /\ OthersSeen'
  <2>1. \A q \in Publishers : Here(q)' => Here(q)
    BY <1>2, <1>6 DEF Here, Alive
  <2> QED BY <1>1, <1>2, <1>3, <1>4, <1>6, <2>1, KeepsSeen
<1> QED BY <1>7, <1>8

\* Who left takes no track along, when somebody may come back for it
LEMMA GoneAsked ==
    ASSUME AInv, ~setting.hasty, Apart, userOnDisconnect PROVE (TwoSessions /\ OthersSeen /\ AtWork /\ AskedToLeave)'
<1> USE Constants
<1> DEFINE s == setting.order[at]
<1>1. TInv /\ TwoSessions /\ OthersSeen /\ AtWork /\ AskedToLeave /\ BInv
  BY DEF AInv, TInv
<1>2. /\ UNCHANGED <<setting, pc>> /\ \A u \in Sources : trk'[u] = IF u = s THEN 0 ELSE trk[u]
  BY DEF userOnDisconnect
<1>3. /\ ~Alive(s) /\ s \in Pids /\ rec'[s] = {} /\ \A q \in Pids : q # s => (rec[q] = {} <=> rec'[q] = {})
      /\ srcUsers' \subseteq srcUsers \ {s}
  BY <1>1, GoneEffect
<1>4. setting.resume \/ setting.controlled =>
         /\ \A t \in Track : tracks'[t].kind = tracks[t].kind /\ tracks'[t].old = tracks[t].old
         /\ \A q \in Pids \ {s} : rec'[q] = rec[q]
  BY <1>1, GoneIs
<1>5. \A q \in srcUsers : q # s => q \in srcUsers'
  BY DEF userOnDisconnect, ProcessGone, PublisherGone, ViewerGone
<1> HIDE DEF s
<1>6. AtWork' /\ AskedToLeave'
  <2>1. CASE ~(setting.resume \/ setting.controlled)
    BY <1>2, <2>1 DEF AtWork, AskedToLeave
  <2>2. CASE setting.resume \/ setting.controlled
    <3>1. ASSUME NEW q \in Sources, pc'[q] \in {"claimed", "on"} PROVE q # s /\ pc[q] = pc'[q] /\ trk[q] \in Track
      BY <1>1, <1>2, <1>3, <3>1 DEF Alive, BInv, Owned
    <3>2. \A u \in Sources : rec'[u] # {} => rec[u] # {} /\ trk'[u] = trk[u]
      BY <1>2, <1>3
    <3>3. ASSUME NEW q \in Sources, pc'[q] \in {"claimed", "on"}
          PROVE  /\ pc'[q] = pc[q] /\ trk'[q] = trk[q]
                 /\ tracks'[trk[q]].kind = tracks[trk[q]].kind /\ tracks'[trk[q]].old = tracks[trk[q]].old
                 /\ rec'[q] = rec[q]
      BY <1>2, <1>4, <2>2, <3>1, <3>3
    <3> QED BY <1>1, <1>2, <3>2, <3>3, KeepsAsked
  <2> QED BY <2>1, <2>2
<1>7. sessions \in Nat /\ setting.sessions \in Nat /\ sessions' = sessions
  BY <1>1, OrderIn DEF BInv, TypeOK, SettingType, userOnDisconnect
<1>8. Here(s) /\ \A q \in Publishers : Here(q)' => Here(q) /\ q # s
  <2>1. rec[s] # {}
    BY <1>1 DEF BInv, Left, userOnDisconnect, s
  <2> QED BY <1>2, <1>3, <2>1 DEF Here, Alive
<1>9. retained' # {} => retained # {} \/ (s \in Publishers /\ ~setting.controlled)
  <2>1. \A t \in retained' : t \in retained \/ (s \in Publishers /\ ~setting.controlled /\ t = trk[s])
    BY <1>1, GoneIs DEF s
  <2> QED BY <2>1
<1>10. TwoSessions'
  <2>1. sessions = setting.sessions => retained' = {} /\ \A p \in Publishers : ~Here(p)'
    BY <1>1, <1>8, <1>9 DEF TwoSessions
  <2>2. sessions + 1 = setting.sessions =>
          /\ \A p, q \in Publishers : Here(p)' /\ Here(q)' => p = q
          /\ retained' # {} => \A p \in Publishers : ~Here(p)'
    BY <1>1, <1>8, <1>9 DEF TwoSessions
  <2>3. sessions + 2 = setting.sessions =>
          /\ \A p, q, r \in Publishers : Here(p)' /\ Here(q)' /\ Here(r)' => p = q \/ p = r \/ q = r
          /\ retained' # {} => \A p, q \in Publishers : Here(p)' /\ Here(q)' => p = q
    BY <1>1, <1>8, <1>9 DEF TwoSessions
  <2>4. sessions <= setting.sessions /\ setting' = setting
    BY <1>1, <1>2 DEF TwoSessions
  <2> QED BY <1>7, <2>1, <2>2, <2>3, <2>4 DEF TwoSessions
<1>11. OthersSeen'
  <2>1. CASE setting.controlled
    BY <1>2, <2>1 DEF OthersSeen
  <2>2. CASE ~setting.controlled
    <3> SUFFICES ASSUME NEW p \in Publishers, NEW q \in Publishers, p # q, pc'[p] \in {"boot", "claimed", "on"}
                 PROVE  /\ pc'[q] \in {"none", "left"}
                        /\ rec'[q] # {} => q \in srcUsers' \/ (retained' = {} /\ sessions' + 2 >= setting'.sessions)
      BY DEF OthersSeen
    <3>1. /\ pc[q] \in {"none", "left"}
          /\ rec[q] # {} => q \in srcUsers \/ (retained = {} /\ sessions + 2 >= setting.sessions)
      BY <1>1, <1>2, <2>2 DEF OthersSeen
    <3>2. ASSUME rec'[q] # {}, q \notin srcUsers'
          PROVE  retained' = {} /\ sessions + 2 >= setting.sessions
      <4>1. q # s /\ rec[q] # {} /\ q \notin srcUsers
        BY <1>3, <1>5, <3>2
      <4>2. retained = {} /\ sessions + 2 >= setting.sessions
        BY <3>1, <4>1
      <4>3. Here(p) /\ Here(q) /\ p # s
        BY <1>2, <1>3, <4>1 DEF Here, Alive
      <4>4. sessions = setting.sessions \/ sessions + 1 = setting.sessions \/ sessions + 2 = setting.sessions
        BY <1>1, <1>7, <4>2 DEF TwoSessions
      <4>5. s \notin Publishers
        BY <1>1, <1>8, <4>1, <4>3, <4>4 DEF TwoSessions
      <4> QED BY <1>9, <4>2, <4>5
    <3> QED BY <1>2, <1>7, <3>1, <3>2
  <2> QED BY <2>1, <2>2
<1> QED BY <1>6, <1>10, <1>11

\* Nothing changes for sources
LEMMA LeadOutAsked ==
    ASSUME AInv, UNCHANGED <<setting, pc, trk, rec, tracks, srcUsers, retained, sessions>> PROVE (TwoSessions /\ OthersSeen /\ AtWork /\ AskedToLeave)'
BY DEF AInv, TwoSessions, Here, Alive, OthersSeen, AtWork, AskedToLeave, Valid

\* The only source with a record of a track is the one removeTrack finds
LEMMA FirstUserIs ==
    ASSUME TypeOK, NEW p \in Sources, p \in Present, rec[p] # {}, NEW t, trk[p] = t,
           \A u \in Sources \ {p} : rec[u] # {} => trk[u] # t
    PROVE  FirstUser(t) = p
<1> DEFINE users == {i \in DOMAIN setting.order :
                        LET u == setting.order[i] IN u \in Sources /\ rec[u] # {} /\ trk[u] = t}
<1>1. \E i \in DOMAIN setting.order : setting.order[i] = p
  BY DEF Present, Range
<1>2. users # {} /\ users \in SUBSET Nat
  BY <1>1, OrderIn
<1>3. Min(users) \in users
  <2> HIDE DEF users
  <2> QED BY <1>2, MinIn
<1>4. FirstUser(t) = setting.order[Min(users)]
  BY <1>2 DEF FirstUser
<1> QED BY <1>3, <1>4

\* Whose track is removed is asked to leave: it is the one source registered for it
LEMMA UnusedAsked ==
    ASSUME AInv, removeUnused PROVE (TwoSessions /\ OthersSeen /\ AtWork /\ AskedToLeave)'
<1> USE Constants
<1>1. TInv /\ TwoSessions /\ OthersSeen /\ AtWork /\ AskedToLeave /\ BInv /\ TypeOK
  BY DEF AInv, TInv, BInv
<1>2. UNCHANGED <<setting, pc, trk, srcUsers, sessions>> /\ retained' \subseteq retained
  BY DEF removeUnused
<1>3. Marked(rec')
  BY <1>1, UnusedEffect
<1>4. \A q \in Pids : (rec'[q] # {} => rec[q] # {}) /\ rec[q] \subseteq rec'[q]
  BY <1>3 DEF Marked
<1>5. \A t \in Track :
           /\ tracks'[t].kind \in {tracks[t].kind, "gone"} /\ tracks'[t].old = tracks[t].old
           /\ \/ tracks'[t].kind = tracks[t].kind
              \/ /\ t \in Replaced \/ tracks[t].old
                 /\ \A p \in Pids : FirstUser(t) = p => "asked" \in rec'[p]
  BY <1>1, UnusedIs
<1>6. ASSUME NEW p \in Sources, pc[p] \in {"claimed", "on"}
      PROVE  trk[p] \in Track /\ trk[p] \notin Replaced /\ p \in Present
  <2>1. trk[p] \in Track /\ tracks[trk[p]].claim = p /\ p \in Present
    BY <1>1, <1>6 DEF BInv, Owned, TInv, OwnClaims
  <2> QED BY <2>1 DEF Replaced, Claimed
<1>7. AtWork' /\ AskedToLeave'
  <2> SUFFICES ASSUME setting.resume \/ setting.controlled
               PROVE  /\ \A q \in Sources : pc[q] = "claimed" => Valid(trk[q])' /\ ~tracks'[trk[q]].old
                      /\ \A q \in Sources : (pc[q] = "on" /\ Valid(trk[q])' /\ tracks'[trk[q]].old) =>
                             \A u \in Sources \ {q} : rec'[u] # {} => trk[u] # trk[q]
                      /\ \A q \in Sources : (pc[q] = "on" /\ ~Valid(trk[q])') => "asked" \in rec'[q]
    BY <1>2 DEF AtWork, AskedToLeave, Valid
  <2>1. ASSUME NEW q \in Sources, pc[q] = "claimed" PROVE Valid(trk[q])' /\ ~tracks'[trk[q]].old
    <3>1. Valid(trk[q]) /\ ~tracks[trk[q]].old
      BY <1>1, <2>1 DEF AtWork
    <3> QED BY <1>2, <1>5, <1>6, <2>1, <3>1 DEF Valid
  <2>2. ASSUME NEW q \in Sources, pc[q] = "on", Valid(trk[q])', tracks'[trk[q]].old, NEW u \in Sources \ {q}, rec'[u] # {}
        PROVE  trk[u] # trk[q]
    <3>1. Valid(trk[q]) /\ tracks[trk[q]].old
      BY <1>2, <1>5, <1>6, <2>2 DEF Valid
    <3> QED BY <1>1, <1>4, <2>2, <3>1 DEF AtWork
  <2>3. ASSUME NEW q \in Sources, pc[q] = "on", ~Valid(trk[q])' PROVE "asked" \in rec'[q]
    <3>1. CASE ~Valid(trk[q])
      BY <1>1, <1>4, <2>3, <3>1 DEF AskedToLeave
    <3>2. CASE Valid(trk[q])
      <4>1. tracks'[trk[q]].kind # tracks[trk[q]].kind
        BY <1>2, <2>3, <3>2 DEF Valid
      <4>2. tracks[trk[q]].old /\ \A p \in Pids : FirstUser(trk[q]) = p => "asked" \in rec'[p]
        BY <1>5, <1>6, <2>3, <4>1
      <4>3. \A u \in Sources \ {q} : rec[u] # {} => trk[u] # trk[q]
        BY <1>1, <2>3, <3>2, <4>2 DEF AtWork
      <4>4. rec[q] # {} /\ q \in Present
        BY <1>1, <1>6, <2>3 DEF BInv, Left
      <4>5. FirstUser(trk[q]) = q
        BY <1>1, <4>3, <4>4, FirstUserIs
      <4> QED BY <4>2, <4>5
    <3> QED BY <3>1, <3>2
  <2> QED BY <2>1, <2>2, <2>3
<1>8. TwoSessions' /\ OthersSeen'
  <2>1. \A q \in Publishers : Here(q)' => Here(q)
    BY <1>2, <1>4 DEF Here, Alive
  <2> QED BY <1>1, <1>2, <1>4, <2>1, KeepsSeen
<1> QED BY <1>7, <1>8

\* A track idles out when whoever is registered for it is its source
LEMMA IdlesAsked ==
    ASSUME AInv, NEW t \in Track, IdlesOut(t) \/ DeadlinePasses(t) PROVE (TwoSessions /\ OthersSeen /\ AtWork /\ AskedToLeave)'
<1> USE Constants
<1>1. TInv /\ TwoSessions /\ OthersSeen /\ AtWork /\ AskedToLeave /\ BInv
  BY DEF AInv, TInv
<1>2. UNCHANGED <<setting, pc, trk, rec, srcUsers, retained, sessions>>
  BY DEF IdlesOut, DeadlinePasses, actorVars, userVars
<1>3. \A u \in Track : /\ tracks'[u].kind = tracks[u].kind
                       /\ tracks'[u].old = tracks[u].old \/ (u = t /\ IdlesOut(t) /\ Valid(u))
  BY <1>1, IdlesIs
<1>4. ASSUME NEW p \in Sources, pc[p] \in {"claimed", "on"}
      PROVE  trk[p] \in Track /\ tracks[trk[p]].claim = p /\ (Valid(trk[p])' <=> Valid(trk[p]))
  BY <1>1, <1>2, <1>3, <1>4 DEF BInv, Owned, TInv, OwnClaims, Valid
<1>5. AtWork' /\ AskedToLeave'
  <2> SUFFICES ASSUME setting.resume \/ setting.controlled
               PROVE  /\ \A q \in Sources : pc[q] = "claimed" => Valid(trk[q])' /\ ~tracks'[trk[q]].old
                      /\ \A q \in Sources : (pc[q] = "on" /\ Valid(trk[q])' /\ tracks'[trk[q]].old) =>
                             \A u \in Sources \ {q} : rec[u] # {} => trk[u] # trk[q]
                      /\ \A q \in Sources : (pc[q] = "on" /\ ~Valid(trk[q])') => "asked" \in rec[q]
    BY <1>2 DEF AtWork, AskedToLeave, Valid
  <2>1. ASSUME NEW q \in Sources, pc[q] = "claimed" PROVE Valid(trk[q])' /\ ~tracks'[trk[q]].old
    <3>1. Valid(trk[q]) /\ ~tracks[trk[q]].old
      BY <1>1, <2>1 DEF AtWork
    <3>2. ~IdlesOut(t)
      BY <2>1 DEF IdlesOut, Settled
    <3> QED BY <1>3, <1>4, <2>1, <3>1, <3>2
  <2>2. ASSUME NEW q \in Sources, pc[q] = "on", Valid(trk[q])', tracks'[trk[q]].old, NEW u \in Sources \ {q}, rec[u] # {}
        PROVE  trk[u] # trk[q]
    <3>1. CASE tracks'[trk[q]].old = tracks[trk[q]].old
      BY <1>1, <1>4, <2>2, <3>1 DEF AtWork
    <3>2. CASE IdlesOut(t)
      <4>1. Alive(u) /\ pc[u] \notin {"claimed", "left"}
        BY <2>2, <3>2 DEF IdlesOut, Settled
      <4>2. pc[u] = "on"
        BY <1>1, <2>2, <4>1 DEF Alive, TInv, OwnClaims
      <4>3. tracks[trk[u]].claim = u /\ tracks[trk[q]].claim = q
        BY <1>4, <2>2, <4>2
      <4> QED BY <2>2, <4>3
    <3> QED BY <1>3, <1>4, <2>2, <3>1, <3>2
  <2>3. \A q \in Sources : (pc[q] = "on" /\ ~Valid(trk[q])') => "asked" \in rec[q]
    BY <1>1, <1>4 DEF AskedToLeave
  <2> QED BY <2>1, <2>2, <2>3
<1>6. TwoSessions' /\ OthersSeen'
  <2>1. \A q \in Publishers : Here(q)' => Here(q)
    BY <1>2 DEF Here, Alive
  <2> QED BY <1>1, <1>2, <2>1, KeepsSeen
<1> QED BY <1>5, <1>6

\* Every step keeps AInv, when publishers arrive in order
LEMMA NextAInv == ASSUME AInv, ~setting.hasty, Apart, [Next]_vars, [Orderly]_vars PROVE AInv'
<1>1. TInv'
  BY NextTInv DEF AInv
<1> SUFFICES (TwoSessions /\ OthersSeen /\ AtWork /\ AskedToLeave)'
  BY <1>1 DEF AInv
<1>2. CASE Tick
  <2>1. CASE userLeadOut
    BY <2>1, LeadOutAsked DEF userLeadOut, actorVars, userVars
  <2>2. CASE FindsClaim
    BY <2>2, LeadOutAsked DEF FindsClaim, actorVars, userVars
  <2> QED BY <1>2, <2>1, <2>2, LeadInAsked, ActiveAsked, GoneAsked, UnusedAsked DEF Tick
<1>3. ASSUME NEW p \in Pids, Actor(p) PROVE (TwoSessions /\ OthersSeen /\ AtWork /\ AskedToLeave)'
  <2>1. CASE Arrive(p)
    <3>1. vars' # vars
      BY <2>1 DEF Arrive, vars, AInv, TInv, BInv, TypeOK, actorVars
    <3> QED BY <2>1, <3>1, ArriveAsked
  <2> QED BY <1>3, <2>1, ActorAsked, ClaimAsked, RegisterAsked, AbandonAsked DEF Actor
<1>4. CASE Watch
  BY <1>4, ActorAsked, Constants
<1>5. ASSUME NEW t \in Track, IdlesOut(t) \/ DeadlinePasses(t) PROVE (TwoSessions /\ OthersSeen /\ AtWork /\ AskedToLeave)'
  BY <1>5, IdlesAsked
<1>6. CASE RestartDue
  BY <1>6, LeadOutAsked DEF RestartDue, actorVars, userVars
<1>7. CASE UNCHANGED vars
  BY <1>7, LeadOutAsked DEF vars, actorVars, userVars
<1> QED BY <1>2, <1>3, <1>4, <1>5, <1>6, <1>7 DEF Next

\* A stream starts with nobody at work
LEMMA InitAInv == Init => AInv
<1> SUFFICES ASSUME Init PROVE AInv
  OBVIOUS
<1>1. TwoSessions /\ OthersSeen /\ AtWork /\ AskedToLeave
  <2>1. sessions = setting.sessions /\ setting.sessions \in Nat
    BY StreamBufferAssumption DEF Init, SettingType
  <2>2. retained = {} /\ \A p \in Publishers : ~Here(p)
    BY Constants DEF Init, Here, Alive
  <2>3. TwoSessions
    BY <2>1, <2>2 DEF TwoSessions
  <2> QED BY <2>3, Constants DEF Init, OthersSeen, AtWork, AskedToLeave
<1> QED BY <1>1, InitTInv DEF AInv

\* A source whose track the buffer removed was asked to leave, in a stream that can be resumed
\* or is controlled, however many publishers come one after the other: when a tick sees the
\* record of each process before it ends, no process breaks a claim the buffer is about to break
\* and, in a stream that is not controlled, from the third publisher on the records of the
\* publishers are seen before the next one comes.
THEOREM BufferAskedToLeave == Calm => (Spec /\ [][Orderly]_vars => []AskedToLeave)
<1> SUFFICES ASSUME Calm PROVE Spec /\ [][Orderly]_vars => []AskedToLeave
  OBVIOUS
<1>1. AInv /\ Breaking => ~setting.hasty /\ Apart
  BY DEF Calm, Apart, AInv, TInv, BInv, TypeOK
<1>2. Init => AInv
  BY InitAInv
<1>3. AInv /\ Breaking /\ [Next]_vars /\ [Orderly]_vars => AInv'
  BY <1>1, NextAInv
<1>4. AInv => AskedToLeave
  BY DEF AInv
<1> QED BY <1>2, <1>3, <1>4, BufferBreaking, PTL DEF Spec


-----------------------------------------------------------------------------
\* The outputs of the processes, one after the other

\* Max is the output that none is newer than
Newest(t) == t \in Outputs /\ \A u \in Outputs : u <= t

LEMMA NewestIs == ASSUME NEW t \in Outputs PROVE t = Max(Outputs) <=> Newest(t)
<1> USE Constants
<1>1. Outputs \subseteq 1 .. MaxTracks /\ Outputs # {}
  BY DEF Outputs
<1>2. PICK m \in Outputs : \A u \in Outputs : m >= u
  BY <1>1, Greatest
<1>3. m \in Outputs /\ \A u \in Outputs : u <= m
  BY <1>1, <1>2
<1>4. \E x \in Outputs : \A y \in Outputs : x >= y
  BY <1>2
<1>5. Max(Outputs) \in Outputs /\ \A y \in Outputs : Max(Outputs) >= y
  BY <1>4 DEF Max
<1>6. t \in 1 .. MaxTracks /\ Max(Outputs) \in 1 .. MaxTracks /\ Max(Outputs) >= t
  BY <1>1, <1>5
<1>7. ASSUME Newest(t) PROVE t = Max(Outputs)
  <2>1. Max(Outputs) <= t
    BY <1>5, <1>7 DEF Newest
  <2> QED BY <1>6, <2>1
<1>8. ASSUME t = Max(Outputs) PROVE Newest(t)
  <2>1. ASSUME NEW u \in Outputs PROVE u <= t
    <3>1. u \in 1 .. MaxTracks /\ t >= u
      BY <1>1, <1>5, <1>8
    <3> QED BY <1>6, <3>1
  <2> QED BY <2>1 DEF Newest
<1> QED BY <1>7, <1>8

\* ReaderWaits, without Max
Waits == \A t \in Outputs :
    (Returns /\ Newest(t) /\ tracks[t].claim = Nobody /\ tracks[t].hold # "past") => tracks[t].until

LEMMA WaitsIs == Waits <=> ReaderWaits
BY NewestIs DEF Waits, ReaderWaits, Claimed

\* A step in which nobody claims a track keeps who claims which output, as long as no output
\* goes under a process at work that leaves another
LEMMA KeepsNewest ==
    ASSUME TInv, NewestClaimed,
           \A t \in Track : \/ tracks'[t].kind = tracks[t].kind
                            \/ /\ tracks[t].kind = "none" /\ tracks'[t].kind = "reserved"
                               /\ \A u \in Track : tracks[u].kind = "none" => t <= u
                            \/ tracks[t].kind # "none" /\ tracks'[t].kind = "gone",
           \A t \in Track : tracks'[t].claim \in {tracks[t].claim, Nobody},
           \A q \in Processes : pc'[q] \in {"claimed", "on"} => pc[q] \in {"claimed", "on"} /\ trk'[q] = trk[q],
           \A q \in Processes : (pc'[q] \in {"claimed", "on"} /\ trk[q] \in Outputs) => trk[q] \in Outputs' \/ Outputs' = {}
    PROVE  NewestClaimed'
<1> USE Constants
<1>1. Outputs' \subseteq Outputs
  BY DEF Outputs
<1>2. ASSUME NEW t \in Track, NEW u \in Track, u < t, tracks'[u].kind = "none" PROVE tracks'[t].kind = "none"
  <2>1. tracks[u].kind = "none" /\ tracks[t].kind = "none"
    BY <1>2 DEF NewestClaimed
  <2>2. ~(t <= u)
    BY <1>2
  <2> QED BY <2>1, <2>2
<1>3. \A t, u \in Outputs' : u < t => tracks'[u].claim = Nobody
  BY <1>1 DEF NewestClaimed, Claimed, Outputs
<1>4. ASSUME NEW q \in Processes, pc'[q] \in {"claimed", "on"}, tracks'[trk'[q]].kind \notin {"source", "output"}
      PROVE  Outputs' = {}
  <2>1. pc[q] \in {"claimed", "on"} /\ trk'[q] = trk[q] /\ trk[q] \in Track
    BY <1>4 DEF TInv, BInv, Owned
  <2>2. CASE trk[q] \in Outputs
    BY <1>4, <2>1, <2>2 DEF Outputs
  <2>3. CASE trk[q] \notin Outputs
    <3>1. tracks[trk[q]].kind = "gone"
      BY <2>1, <2>3 DEF TInv, TrackKinds, Kind, Outputs
    <3> QED BY <1>1, <2>1, <3>1 DEF NewestClaimed, Valid
  <2> QED BY <2>2, <2>3
<1> QED BY <1>2, <1>3, <1>4 DEF NewestClaimed, Claimed, Valid

\* A process at work claims the newest output, or there is none
LEMMA AtNewest ==
    ASSUME TInv, NewestClaimed, NEW q \in Processes, pc[q] \in {"claimed", "on"}, NEW t, Newest(t)
    PROVE  t = trk[q] /\ tracks[t].claim = q
<1> USE Constants
<1>1. t \in Outputs /\ t \in Track /\ \A u \in Outputs : u <= t
  BY DEF Newest, Outputs
<1>2. trk[q] \in Track /\ tracks[trk[q]].claim = q /\ tracks[trk[q]].kind \in {"output", "gone"}
  BY DEF TInv, BInv, Owned, OwnClaims, TrackKinds, Kind
<1>3. trk[q] \in Outputs
  BY <1>1, <1>2 DEF NewestClaimed, Valid, Outputs
<1>4. ~(trk[q] < t)
  BY <1>1, <1>2, <1>3 DEF NewestClaimed, Claimed
<1>5. trk[q] <= t
  BY <1>1, <1>3
<1>6. t = trk[q]
  BY <1>1, <1>2, <1>4, <1>5
<1> QED BY <1>2, <1>6

\* A claim keeps it, too: a process finds the newest output, or makes one
LEMMA ClaimNewest == ASSUME TInv, NewestClaimed, NEW p \in Pids, Claim(p) PROVE NewestClaimed'
<1> USE Constants
<1>1. /\ p \in Sources /\ pc[p] = "boot" /\ pc' = [pc EXCEPT ![p] = "claimed"] /\ ListOK(tracks)
      /\ pc \in [Pids -> PCs] /\ trk \in [Sources -> {0} \union Track]
  BY ClaimEffect, ListOfInv DEF TInv, BInv, TypeOK
<1>2. PICK t \in Track : TakesOver(p, t) /\ (p \in Processes => NewestBecomes(t))
  BY ClaimEffect
<1>3. /\ trk' = [trk EXCEPT ![p] = t] /\ tracks'[t].kind = Kind(p) /\ tracks'[t].claim = p
      /\ tracks[t].kind \in {"none", "reserved", Kind(p)}
      /\ \A q \in Sources : Alive(q) => tracks[t].claim # q
      /\ tracks[t].kind = "none" => \A u \in Track : tracks[u].kind = "none" => t <= u
  BY <1>2 DEF TakesOver
<1>4. ASSUME NEW u \in Track, u # t
      PROVE  tracks'[u].kind = tracks[u].kind /\ tracks'[u].claim \in {tracks[u].claim, Nobody}
  <2>1. tracks[u] \in TrackRecord /\ tracks'[u] \in {tracks[u], [tracks[u] EXCEPT !.claim = Nobody]}
    BY <1>1, <1>2, <1>4 DEF TakesOver, ListOK
  <2> QED BY <2>1 DEF TrackRecord
<1>5. Kind(p) \in {"source", "output"} /\ (p \in Processes <=> Kind(p) = "output")
  BY DEF Kind
<1>6. Outputs' = IF p \in Processes THEN Outputs \union {t} ELSE Outputs
  BY <1>3, <1>4, <1>5 DEF Outputs
<1>7. ASSUME NEW x \in Track, NEW u \in Track, u < x, tracks'[u].kind = "none" PROVE tracks'[x].kind = "none"
  <2>1. u # t /\ tracks[u].kind = "none"
    BY <1>3, <1>4, <1>5, <1>7
  <2>2. tracks[x].kind = "none"
    BY <1>7, <2>1 DEF NewestClaimed
  <2>3. x # t
    <3>1. x = t => t <= u
      BY <1>3, <2>1, <2>2
    <3> QED BY <1>7, <3>1
  <2> QED BY <1>4, <2>2, <2>3
<1>8. ASSUME p \in Processes, NEW u \in Outputs, u # t PROVE u < t /\ tracks'[u].claim = Nobody
  <2>1. u \in Track /\ tracks[u].kind = "output" /\ Outputs # {}
    BY <1>8 DEF Outputs
  <2>2. CASE t = Max(Outputs)
    <3>1. Newest(t)
      BY <2>1, <2>2, MaxIn, NewestIs DEF Outputs
    <3>2. u < t
      BY <1>8, <2>1, <3>1 DEF Newest
    <3>3. tracks[u].claim = Nobody
      BY <1>8, <3>1, <3>2 DEF NewestClaimed, Newest, Claimed
    <3> QED BY <1>4, <1>8, <2>1, <3>2, <3>3
  <2>3. CASE tracks[t].kind = "none" /\ Max(Outputs) \in Track /\ tracks'[Max(Outputs)].claim = Nobody
    <3>1. ~(t < u)
      BY <2>1, <2>3 DEF NewestClaimed
    <3>2. u < t
      BY <1>8, <2>1, <3>1
    <3>3. CASE u = Max(Outputs)
      BY <2>3, <3>2, <3>3
    <3>4. CASE u # Max(Outputs)
      <4>1. Max(Outputs) \in Outputs /\ ~Newest(u)
        BY <2>1, <3>4, MaxIn, NewestIs DEF Outputs
      <4>2. PICK x \in Outputs : ~(x <= u)
        BY <1>8, <4>1 DEF Newest
      <4>3. u < x
        BY <2>1, <4>2 DEF Outputs
      <4>4. tracks[u].claim = Nobody
        BY <1>8, <4>3 DEF NewestClaimed, Claimed
      <4> QED BY <1>4, <1>8, <2>1, <3>2, <4>4
    <3> QED BY <3>3, <3>4
  <2> QED BY <1>2, <1>8, <2>1, <2>2, <2>3 DEF NewestBecomes
<1>9. ASSUME NEW x \in Outputs', NEW u \in Outputs', u < x PROVE tracks'[u].claim = Nobody
  <2>1. CASE p \in Processes
    <3>1. u # t
      <4>1. ASSUME u = t PROVE FALSE
        <5>1. x \in Outputs /\ x # t /\ x \in Track
          BY <1>6, <1>9, <2>1, <4>1 DEF Outputs
        <5>2. x < t
          BY <1>8, <2>1, <5>1
        <5> QED BY <1>9, <4>1, <5>1, <5>2
      <4> QED BY <4>1
    <3> QED BY <1>6, <1>8, <2>1, <3>1
  <2>2. CASE p \notin Processes
    <3>1. u \in Outputs /\ x \in Outputs /\ u \in Track /\ u # t
      BY <1>3, <1>5, <1>6, <1>9, <2>2 DEF Outputs
    <3>2. tracks[u].claim = Nobody
      BY <1>9, <3>1 DEF NewestClaimed, Claimed
    <3> QED BY <1>4, <3>1, <3>2
  <2> QED BY <2>1, <2>2
<1>10. ASSUME NEW q \in Processes, pc'[q] \in {"claimed", "on"}, tracks'[trk'[q]].kind \notin {"source", "output"}
       PROVE  Outputs' = {}
  <2>1. q # p
    BY <1>1, <1>3, <1>5, <1>10
  <2>2. pc[q] \in {"claimed", "on"} /\ trk'[q] = trk[q] /\ trk[q] \in Track
    BY <1>1, <1>3, <1>10, <2>1 DEF TInv, BInv, Owned
  <2>3. p \notin Processes
    BY <1>1, <2>1, <2>2 DEF TInv, BInv, KnownProcess
  <2>4. tracks[trk[q]].kind \in {"output", "gone"}
    BY <2>2 DEF TInv, TrackKinds, Kind
  <2>5. trk[q] # t
    BY <1>3, <1>5, <2>3, <2>4
  <2>6. ~Valid(trk[q])
    BY <1>4, <1>10, <2>2, <2>5 DEF Valid
  <2> QED BY <1>6, <2>2, <2>3, <2>6 DEF NewestClaimed
<1> QED BY <1>7, <1>9, <1>10 DEF NewestClaimed, Claimed, Valid

\* Who comes, registers, leaves and dies changes no track
LEMMA ActorNewest ==
    ASSUME TInv, NewestClaimed, NEW p \in Pids,
           Arrive(p) \/ Register(p) \/ Disconnect(p) \/ Exit(p) \/ Die(p) \/ Watch \/ userLeadOut \/ FindsClaim \/ RestartDue \/ UNCHANGED vars
    PROVE  NewestClaimed'
<1> USE Constants
<1>1. tracks' = tracks /\ Outputs' = Outputs /\ pc \in [Pids -> PCs]
  BY DEF Arrive, Register, Disconnect, Exit, Die, Watch, userLeadOut, FindsClaim, RestartDue, vars, TInv, BInv, TypeOK, Outputs
<1>2. \A q \in Processes : pc'[q] \in {"claimed", "on"} => pc[q] \in {"claimed", "on"}
  <2>1. Arrive(p) \/ Register(p) \/ Disconnect(p) \/ Watch =>
          \A q \in Processes : pc'[q] \in {"claimed", "on"} => pc[q] \in {"claimed", "on"}
    BY <1>1, StreamBufferAssumption DEF Arrive, Register, Disconnect, Watch, Sources
  <2>2. Exit(p) \/ Die(p) => \A q \in Processes : pc'[q] \in {"claimed", "on"} => pc[q] \in {"claimed", "on"}
    BY <1>1 DEF Exit, Die, Exits
  <2>3. userLeadOut \/ FindsClaim \/ RestartDue \/ UNCHANGED vars => pc' = pc
    BY DEF userLeadOut, FindsClaim, RestartDue, vars, actorVars
  <2> QED BY <2>1, <2>2, <2>3
<1>3. \A q \in Processes : pc'[q] \in {"claimed", "on"} => trk'[q] = trk[q]
  <2>1. CASE Die(p)
    BY <1>1, <2>1 DEF Die
  <2>2. CASE ~Die(p)
    BY <2>2 DEF Arrive, Register, Disconnect, Exit, Watch, userLeadOut, FindsClaim, RestartDue, vars, actorVars
  <2> QED BY <2>1, <2>2
<1> QED BY <1>1, <1>2, <1>3, KeepsNewest

\* Who lets go of a track leaves it where it is
LEMMA AbandonNewest == ASSUME TInv, NewestClaimed, NEW p \in Pids, Abandon(p) PROVE NewestClaimed'
<1> USE Constants
<1>1. /\ p \in Sources /\ pc[p] = "on" /\ pc' = [pc EXCEPT ![p] = "left"] /\ tracks' = LetGo(p) /\ trk' = trk
      /\ ListOK(tracks) /\ pc \in [Pids -> PCs] /\ trk[p] \in Track
  BY ListOfInv DEF Abandon, LetGo, TInv, BInv, TypeOK, Owned
<1>2. \A t \in Track : tracks'[t].kind = tracks[t].kind /\ tracks'[t].claim \in {tracks[t].claim, Nobody}
  BY <1>1, FreedThinned DEF Thinned
<1>3. Outputs' = Outputs
  BY <1>2 DEF Outputs
<1>4. \A q \in Processes : pc'[q] \in {"claimed", "on"} => pc[q] \in {"claimed", "on"} /\ trk'[q] = trk[q]
  BY <1>1
<1> QED BY <1>2, <1>3, <1>4, KeepsNewest

\* checkProcesses reserves the next track, and starts a process that claims nothing yet
LEMMA LeadInNewest == ASSUME TInv, NewestClaimed, userLeadIn PROVE NewestClaimed'
<1> USE Constants
<1>1. Reservations /\ \A q \in Pids : pc'[q] # pc[q] => pc'[q] \in {"none", "boot"}
  BY LeadInIs DEF TInv
<1>2. trk' = trk /\ \A t \in Track : tracks'[t].claim = tracks[t].claim
  BY LeadInTracks DEF TInv, userLeadIn
<1>3. \A t \in Track : \/ tracks'[t].kind = tracks[t].kind
                       \/ /\ tracks[t].kind = "none" /\ tracks'[t].kind = "reserved"
                          /\ \A u \in Track : tracks[u].kind = "none" => t <= u
                       \/ tracks[t].kind # "none" /\ tracks'[t].kind = "gone"
  BY <1>1 DEF Reservations
<1>4. \A t \in Outputs : t \in Outputs'
  BY <1>1 DEF Outputs, Reservations
<1>5. \A q \in Processes : pc'[q] \in {"claimed", "on"} => pc[q] \in {"claimed", "on"} /\ trk'[q] = trk[q]
  BY <1>1, <1>2
<1> QED BY <1>2, <1>3, <1>4, <1>5, KeepsNewest

\* The walk removes source tracks only
LEMMA WalkNewest == ASSUME TInv, ~setting.hasty, Apart, NewestClaimed, userOnActive \/ userOnDisconnect PROVE NewestClaimed'
<1> USE Constants
<1>1. /\ \A t \in Track : tracks'[t].kind = tracks[t].kind \/ (tracks[t].kind \in {"source", "gone"} /\ tracks'[t].kind = "gone")
      /\ \A t \in Track : tracks'[t].claim \in {tracks[t].claim, Nobody}
  <2>1. CASE userOnActive
    <3>1. /\ Thinned(tracks, tracks')
          /\ \A t \in Track : tracks'[t] = tracks[t] \/ (t \in retained /\ tracks'[t].kind = "gone")
      BY <2>1, ActiveIs
    <3>2. \A t \in retained : tracks[t].kind \in {"source", "gone"}
      BY DEF TInv, TrackKinds
    <3> QED BY <3>1, <3>2 DEF Thinned
  <2>2. CASE userOnDisconnect
    <3>1. /\ Thinned(tracks, tracks')
          /\ \A t \in Track : tracks[t].kind # tracks'[t].kind => tracks[t].kind = "source"
      BY <2>2, GoneIs
    <3> QED BY <3>1 DEF Thinned
  <2> QED BY <2>1, <2>2
<1>2. \A t \in Outputs : t \in Outputs'
  BY <1>1 DEF Outputs
<1>3. pc' = pc /\ \A q \in Sources : Alive(q) => trk'[q] = trk[q]
  <2>1. CASE userOnActive
    BY <2>1 DEF userOnActive
  <2>2. CASE userOnDisconnect
    BY <2>2, GoneEffect DEF TInv, userOnDisconnect
  <2> QED BY <2>1, <2>2
<1>4. \A q \in Processes : pc'[q] \in {"claimed", "on"} => pc[q] \in {"claimed", "on"} /\ trk'[q] = trk[q]
  BY <1>3 DEF Alive
<1> QED BY <1>1, <1>2, <1>4, KeepsNewest

\* Time passes over a track
LEMMA IdlesNewest == ASSUME TInv, NewestClaimed, NEW t \in Track, IdlesOut(t) \/ DeadlinePasses(t) PROVE NewestClaimed'
<1>1. \A u \in Track : tracks'[u].kind = tracks[u].kind /\ tracks'[u].claim = tracks[u].claim
  BY IdlesIs DEF TInv
<1>2. Outputs' = Outputs /\ pc' = pc /\ trk' = trk
  BY <1>1 DEF Outputs, IdlesOut, DeadlinePasses, actorVars
<1> QED BY <1>1, <1>2, KeepsNewest

\* When the output of a process at work goes, it was the newest, and those before go with it
LEMMA UnusedNewest == ASSUME TInv, NewestClaimed, removeUnused PROVE NewestClaimed'
<1> USE Constants
<1>1. ASSUME NEW t \in Track
      PROVE  /\ tracks'[t].kind \in {tracks[t].kind, "gone"} /\ (t \in Replaced => tracks'[t].kind # "output")
             /\ tracks'[t].claim = tracks[t].claim /\ (tracks'[t].kind # tracks[t].kind => tracks[t].kind # "none")
  <2>1. tracks'[t].kind \in {tracks[t].kind, "gone"} /\ (t \in Replaced => tracks'[t].kind # "output")
        /\ tracks'[t].claim = tracks[t].claim
    BY UnusedIs, UnusedEffect DEF TInv, Replaced
  <2>2. tracks[t].kind = "none" => tracks'[t].kind = "none"
    <3>1. SUFFICES ASSUME tracks[t].kind = "none" PROVE tracks'[t].kind = "none"
      OBVIOUS
    <3>2. t \notin Replaced /\ ~tracks[t].old
      BY <3>1 DEF Replaced, Outputs, TInv, TrackKinds
    <3> QED BY <3>1, <3>2, UnusedIs DEF TInv
  <2> QED BY <2>1, <2>2
<1>2. pc' = pc /\ trk' = trk
  BY DEF removeUnused
<1>3. ASSUME NEW q \in Processes, pc[q] \in {"claimed", "on"}, trk[q] \in Outputs, trk[q] \notin Outputs' PROVE Outputs' = {}
  <2> DEFINE m == Max(Outputs)
  <2>1. m \in Outputs
    BY <1>3, MaxIn DEF Outputs
  <2>2. m = trk[q] /\ tracks[m].claim = q
    BY <1>3, <2>1, NewestIs, AtNewest
  <2>3. \A t \in Outputs : t # m => ~Claimed(t)
    <3>1. \A t \in Outputs : t # m => t < m
      BY <2>1, NewestIs DEF Newest, Outputs
    <3> QED BY <2>1, <3>1 DEF NewestClaimed
  <2>4. \A t \in Outputs : t # m => t \in Replaced
    BY <2>2, <2>3 DEF Replaced, Claimed
  <2>5. ASSUME NEW t \in Outputs' PROVE FALSE
    <3>1. t \in Track /\ tracks'[t].kind = "output"
      BY <2>5 DEF Outputs
    <3>2. t \in Outputs
      BY <1>1, <3>1 DEF Outputs
    <3> QED BY <1>1, <1>3, <2>2, <2>4, <2>5, <3>1, <3>2
  <2> QED BY <2>5
<1> QED BY <1>1, <1>2, <1>3, KeepsNewest

\* Every step keeps NewestClaimed
LEMMA NextNewest == ASSUME TInv, ~setting.hasty, Apart, NewestClaimed, [Next]_vars PROVE NewestClaimed'
<1>1. CASE Tick
  BY <1>1, LeadInNewest, WalkNewest, ActorNewest, UnusedNewest, Constants DEF Tick
<1>2. ASSUME NEW p \in Pids, Actor(p) PROVE NewestClaimed'
  BY <1>2, ActorNewest, ClaimNewest, AbandonNewest DEF Actor
<1>3. ASSUME NEW t \in Track, IdlesOut(t) \/ DeadlinePasses(t) PROVE NewestClaimed'
  BY <1>3, IdlesNewest
<1>4. CASE Watch \/ RestartDue \/ UNCHANGED vars
  BY <1>4, ActorNewest, Constants
<1> QED BY <1>1, <1>2, <1>3, <1>4 DEF Next

\* checkProcesses starts nothing that failed or was stopped
LEMMA LeadInPromise ==
    ASSUME TInv, userLeadIn, proc # Nobody => ~failed /\ ~stopped
    PROVE  proc' # Nobody => ~failed' /\ ~stopped'
<1>1. CASE UNCHANGED procVars
  BY <1>1 DEF procVars
<1>2. CASE Collect
  BY <1>2 DEF Collect, HasExited
<1>3. CASE Start
  BY <1>3 DEF Start
<1> QED BY <1>1, <1>2, <1>3 DEF userLeadIn

\* What the readers see of an output stays, or its deadline passes
KeepsUntil == \A t \in Outputs :
    \/ tracks'[t].until = tracks[t].until /\ tracks'[t].hold = tracks[t].hold
    \/ tracks'[t].hold = "past"

\* Between two ticks, what was promised is kept when nobody who was seen comes to be at work
LEMMA IdlePromised ==
    ASSUME TInv, Promised, UNCHANGED <<proc, failed, stopped, procUsers, phase>>, KeepsUntil,
           \A q \in Processes \intersect procUsers : pc'[q] = "on" => pc[q] = "on" /\ trk'[q] = trk[q],
           \A t \in Track : tracks[t].kind = "gone" => tracks'[t].kind \notin {"source", "output"}
    PROVE  Promised'
<1> USE Constants
<1>1. ASSUME NEW q \in Processes \intersect procUsers, phase = "idle", pc'[q] = "on", tracks'[trk'[q]].kind \in {"source", "output"}
      PROVE  tracks'[trk'[q]].until \/ tracks'[trk'[q]].hold = "past"
  <2>1. pc[q] = "on" /\ trk'[q] = trk[q] /\ trk[q] \in Track
    BY <1>1 DEF TInv, BInv, Owned
  <2>2. tracks[trk[q]].kind = "output"
    BY <1>1, <2>1 DEF TInv, TrackKinds, Kind
  <2>3. trk[q] \in Outputs
    BY <2>1, <2>2 DEF Outputs
  <2>4. tracks[trk[q]].until \/ tracks[trk[q]].hold = "past"
    BY <1>1, <2>1, <2>2 DEF Promised, Valid
  <2> QED BY <2>1, <2>3, <2>4 DEF KeepsUntil
<1> QED BY <1>1 DEF Promised, Valid

\* Nor does a reader wait in vain, when no process goes from its output
LEMMA IdleWaits ==
    ASSUME TInv, Waits, UNCHANGED <<setting, proc, hasPush, phase>>, KeepsUntil, Outputs' = Outputs,
           \A t \in Outputs : tracks'[t].claim = Nobody => tracks[t].claim = Nobody,
           proc # Nobody => (pc'[proc] = "boot" => pc[proc] = "boot"),
           proc # Nobody => (pc'[proc] \in {"left", "over", "exited"} =>
               \/ pc[proc] \in {"boot", "left", "over", "exited"}
               \/ \A t : Newest(t) => tracks[t].claim # Nobody)
    PROVE  Waits'
<1> SUFFICES ASSUME NEW t \in Outputs, Returns', Newest(t), tracks'[t].claim = Nobody, tracks'[t].hold # "past"
             PROVE  tracks'[t].until
  BY DEF Waits, Newest
<1>1. tracks[t].claim = Nobody
  OBVIOUS
<1>2. Returns
  BY <1>1 DEF Returns
<1>3. tracks'[t].until = tracks[t].until /\ tracks'[t].hold = tracks[t].hold
  BY DEF KeepsUntil
<1> QED BY <1>1, <1>2, <1>3 DEF Waits

\* During a tick nothing is promised but that what failed is not started
LEMMA TickPromised ==
    ASSUME TInv, Promised, userLeadIn \/ userOnActive \/ FindsClaim \/ userOnDisconnect \/ userLeadOut
    PROVE  Promised' /\ Waits'
<1>1. phase' # "idle"
  BY DEF userLeadIn, userOnActive, FindsClaim, userOnDisconnect, userLeadOut
<1>2. proc' # Nobody => ~failed' /\ ~stopped'
  <2>1. CASE userLeadIn
    BY <2>1, LeadInPromise DEF Promised
  <2>2. CASE userOnActive
    <3>1. proc' = proc /\ failed' = failed /\ (stopped' = stopped \/ ~stopped')
      BY <2>2 DEF userOnActive, PublisherActive, TInv, BInv, TypeOK
    <3> QED BY <3>1 DEF Promised
  <2>3. CASE FindsClaim \/ userOnDisconnect \/ userLeadOut
    BY <2>3 DEF FindsClaim, userOnDisconnect, userLeadOut, procVars, Promised
  <2> QED BY <2>1, <2>2, <2>3
<1> QED BY <1>1, <1>2 DEF Promised, Waits, Returns

\* removeUnused sets the deadline of an output that lost its producer, and shows one to the
\* readers of an output whose producer runs
LEMMA UnusedPromised == ASSUME TInv, Promised, removeUnused PROVE Promised' /\ Waits'
<1> USE Constants
<1>1. /\ UNCHANGED <<setting, pc, trk, proc, boots, failed, stopped, procUsers, everHadPush, hasPush>>
      /\ pc \in [Pids -> PCs] /\ proc \in Processes \union {Nobody}
  BY DEF removeUnused, procVars, TInv, BInv, TypeOK
<1>2. ASSUME NEW t \in Outputs'
      PROVE  /\ t \in Outputs /\ t \in Track /\ tracks'[t].claim = tracks[t].claim
             /\ tracks'[t].hold = IF ~ComesBack \/ (tracks[t].claim # Nobody /\ Running(tracks[t].claim)) THEN "no"
                                  ELSE IF tracks[t].hold = "no" THEN "set" ELSE tracks[t].hold
             /\ tracks'[t].until = (ComesBack /\ ((tracks[t].claim # Nobody /\ Running(tracks[t].claim)) \/ tracks'[t].hold = "set"))
             /\ tracks[t].hold \in {"no", "set", "past"}
  <2>1. t \in Track /\ tracks'[t].kind = "output"
    BY <1>2 DEF Outputs
  <2>2. tracks[t] \in TrackRecord
    BY <2>1, TracksTyped DEF TInv, BInv
  <2>3. tracks'[t] = Held(tracks[t], t) /\ tracks[t].kind = "output"
    BY <2>1, UnusedIs DEF TInv
  <2>4. tracks'[t].claim = tracks[t].claim
    BY <2>1, UnusedEffect DEF TInv
  <2> QED BY <2>1, <2>2, <2>3, <2>4, HeldIs DEF Outputs, TrackRecord
<1>3. ASSUME NEW q \in Processes, pc[q] = "on", tracks'[trk[q]].kind \in {"source", "output"}
      PROVE  tracks'[trk[q]].until
  <2>1. trk[q] \in Track /\ tracks[trk[q]].claim = q /\ tracks[trk[q]].kind \in {"output", "gone"}
    BY <1>3 DEF TInv, BInv, Owned, OwnClaims, TrackKinds, Kind
  <2>2. trk[q] \in Outputs'
    <3>1. tracks'[trk[q]].kind \in {tracks[trk[q]].kind, "gone"}
      BY <2>1, UnusedIs DEF TInv
    <3> QED BY <1>3, <2>1, <3>1 DEF Outputs
  <2>3. q = proc /\ Alive(q)
    BY <1>3 DEF TInv, BInv, KnownProcess, Alive
  <2>4. ComesBack
    BY <1>3, <2>3 DEF ComesBack, Retired, Running, Promised
  <2> QED BY <1>2, <2>1, <2>2, <2>3, <2>4 DEF Running
<1>4. Promised'
  BY <1>1, <1>3 DEF Promised, Valid
<1>5. ASSUME NEW t \in Outputs', Returns', tracks'[t].claim = Nobody, tracks'[t].hold # "past" PROVE tracks'[t].until
  <2>1. /\ proc # Nobody
        /\ \/ pc[proc] = "boot"
           \/ pc[proc] \in {"left", "over", "exited"} /\ setting.restart # "disabled" /\ hasPush
    BY <1>1, <1>5 DEF Returns
  <2>2. ComesBack
    BY <2>1 DEF ComesBack, Retired, Running, Promised, Alive
  <2> QED BY <1>2, <1>5, <2>2
<1> QED BY <1>4, <1>5 DEF Waits

\* Between two ticks: who comes, registers, leaves and dies
LEMMA ActorPromised ==
    ASSUME TInv, NewestClaimed, Promised, Waits, NEW p \in Pids,
           Arrive(p) \/ Register(p) \/ Disconnect(p) \/ Exit(p) \/ Die(p) \/ Watch \/ RestartDue \/ UNCHANGED vars
    PROVE  Promised' /\ Waits'
<1> USE Constants
<1>1. /\ UNCHANGED <<setting, tracks, proc, failed, stopped, procUsers, hasPush, phase>> /\ Outputs' = Outputs
      /\ pc \in [Pids -> PCs]
  BY DEF Arrive, Register, Disconnect, Exit, Die, Watch, RestartDue, vars, procVars, userVars, Outputs, TInv, BInv, TypeOK
<1>2. ASSUME NEW q \in Processes \intersect procUsers, pc'[q] = "on" PROVE pc[q] = "on" /\ trk'[q] = trk[q]
  <2>1. rec[q] # {}
    BY DEF TInv, BInv, Kinds
  <2>2. pc[q] # "claimed"
    BY <2>1 DEF TInv, OwnClaims
  <2>3. CASE Arrive(p) \/ Register(p) \/ Disconnect(p) \/ Watch
    BY <1>1, <1>2, <2>2, <2>3, StreamBufferAssumption DEF Arrive, Register, Disconnect, Watch, Sources
  <2>4. CASE Exit(p)
    BY <1>1, <1>2, <2>4 DEF Exit, Exits
  <2>5. CASE Die(p)
    BY <1>1, <1>2, <2>5 DEF Die
  <2>6. CASE RestartDue \/ UNCHANGED vars
    BY <1>2, <2>6 DEF RestartDue, vars, actorVars
  <2> QED BY <2>3, <2>4, <2>5, <2>6
<1>3. KeepsUntil
  BY <1>1 DEF KeepsUntil
<1>4. Promised'
  BY <1>1, <1>2, <1>3, IdlePromised
<1>5. proc # Nobody => proc \in Processes /\ \A q \in Processes : pc[q] # "none" => q = proc
  BY DEF TInv, BInv, KnownProcess, TypeOK
<1>6. proc # Nobody => /\ (pc'[proc] = "boot" => pc[proc] = "boot")
                       /\ (pc'[proc] \in {"left", "over", "exited"} =>
                             pc[proc] \in {"boot", "claimed", "on", "left", "over", "exited"})
  <2>1. CASE Arrive(p) \/ Register(p) \/ Disconnect(p) \/ Watch
    BY <1>1, <1>5, <2>1, StreamBufferAssumption DEF Arrive, Register, Disconnect, Watch, Sources
  <2>2. CASE Exit(p)
    BY <1>1, <1>5, <2>2 DEF Exit, Exits
  <2>3. CASE Die(p)
    BY <1>1, <1>5, <2>3 DEF Die, Alive
  <2>4. CASE RestartDue \/ UNCHANGED vars
    BY <2>4 DEF RestartDue, vars, actorVars
  <2> QED BY <2>1, <2>2, <2>3, <2>4
<1>7. ASSUME proc # Nobody, pc[proc] \in {"claimed", "on"}, NEW t, Newest(t) PROVE tracks[t].claim # Nobody
  BY <1>5, <1>7, AtNewest
<1>8. Waits'
  BY <1>1, <1>3, <1>6, <1>7, IdleWaits
<1> QED BY <1>4, <1>8

\* A claim is the claimant's own affair: a process that claims is at work then, and what a
\* publisher claims is no output
LEMMA ClaimPromised ==
    ASSUME TInv, NewestClaimed, Promised, Waits, NEW p \in Pids, Claim(p)
    PROVE  Promised' /\ Waits'
<1> USE Constants
<1>1. /\ p \in Sources /\ pc[p] = "boot" /\ pc' = [pc EXCEPT ![p] = "claimed"] /\ ListOK(tracks)
      /\ UNCHANGED <<setting, phase, procVars, userVars>>
      /\ pc \in [Pids -> PCs] /\ trk \in [Sources -> {0} \union Track]
  BY ClaimEffect, ListOfInv DEF TInv, BInv, TypeOK
<1>2. PICK t \in Track : TakesOver(p, t)
  BY ClaimEffect
<1>3. /\ trk' = [trk EXCEPT ![p] = t] /\ tracks'[t].kind = Kind(p)
      /\ tracks[t].kind \in {"none", "reserved", Kind(p)}
  BY <1>2 DEF TakesOver
<1>4. ASSUME NEW u \in Track, u # t
      PROVE  /\ tracks'[u].kind = tracks[u].kind
             /\ tracks'[u].until = tracks[u].until /\ tracks'[u].hold = tracks[u].hold
             /\ p \notin Processes => tracks'[u] = tracks[u]
  <2>1. tracks[u] \in TrackRecord
    BY <1>1, <1>4 DEF ListOK
  <2>2. CASE tracks'[u] = tracks[u]
    BY <2>2
  <2>3. CASE p \in Processes /\ tracks'[u] = [tracks[u] EXCEPT !.claim = Nobody]
    BY <2>1, <2>3 DEF TrackRecord
  <2> QED BY <1>2, <1>4, <2>2, <2>3 DEF TakesOver
<1>5. CASE p \in Processes
  <2>1. p = proc
    BY <1>1, <1>5 DEF TInv, BInv, KnownProcess
  <2>2. \A q \in Processes : pc'[q] # "on"
    BY <1>1, <1>5 DEF TInv, BInv, KnownProcess
  <2>3. ~Returns'
    BY <1>1, <2>1 DEF Returns, procVars
  <2> QED BY <1>1, <2>2, <2>3 DEF Promised, Waits, procVars, userVars
<1>6. CASE p \notin Processes
  <2>1. tracks[t].kind # "output" /\ tracks'[t].kind = "source"
    BY <1>3, <1>6 DEF Kind
  <2>2. Outputs' = Outputs /\ \A u \in Outputs : tracks'[u] = tracks[u]
    BY <1>4, <1>6, <2>1 DEF Outputs
  <2>3. KeepsUntil
    BY <2>2 DEF KeepsUntil
  <2>4. \A q \in Processes : pc'[q] = pc[q] /\ trk'[q] = trk[q]
    BY <1>1, <1>3, <1>6
  <2>5. Promised'
    <3>1. \A u \in Track : tracks[u].kind = "gone" => tracks'[u].kind \notin {"source", "output"}
      BY <1>3, <1>4, <1>6 DEF Kind
    <3> QED BY <1>1, <2>3, <2>4, <3>1, IdlePromised DEF procVars, userVars
  <2>6. proc # Nobody => pc'[proc] = pc[proc]
    BY <2>4 DEF TInv, BInv, TypeOK
  <2>7. Waits'
    BY <1>1, <2>2, <2>3, <2>6, IdleWaits DEF procVars, userVars
  <2> QED BY <2>5, <2>7
<1> QED BY <1>5, <1>6

\* A process that was seen lets go of an output whose readers know until when to wait
LEMMA AbandonPromised ==
    ASSUME TInv, ~setting.hasty, NewestClaimed, Promised, Waits, NEW p \in Pids, Abandon(p)
    PROVE  Promised' /\ Waits'
<1> USE Constants
<1>1. /\ p \in Sources /\ pc[p] = "on" /\ pc' = [pc EXCEPT ![p] = "left"] /\ tracks' = LetGo(p) /\ trk' = trk
      /\ UNCHANGED <<setting, phase, procVars, userVars>>
      /\ ListOK(tracks) /\ pc \in [Pids -> PCs] /\ trk[p] \in Track
  BY ListOfInv DEF Abandon, LetGo, TInv, BInv, TypeOK, Owned
<1>2. ASSUME NEW t \in Track
      PROVE  /\ tracks'[t].kind = tracks[t].kind
             /\ tracks'[t].until = tracks[t].until /\ tracks'[t].hold = tracks[t].hold
             /\ tracks'[t].claim = tracks[t].claim \/ (t = trk[p] /\ tracks[t].claim = p)
  BY <1>1, <1>2, FreedKeeps
<1>3. Outputs' = Outputs /\ KeepsUntil
  BY <1>2 DEF Outputs, KeepsUntil
<1>4. Promised'
  <2>1. \A q \in Processes : pc'[q] = "on" => pc[q] = "on"
    BY <1>1
  <2> QED BY <1>1, <1>2, <1>3, <2>1, IdlePromised DEF procVars, userVars
<1>5. CASE p \in Processes
  <2>1. p = proc /\ p \in procUsers
    <3>1. rec[p] # {}
      BY <1>1 DEF TInv, BInv, Left
    <3> QED BY <1>1, <1>5, <3>1 DEF Abandon, WasSeen, TInv, BInv, KnownProcess
  <2>2. ASSUME NEW t \in Outputs', Returns', Newest(t)', tracks'[t].claim = Nobody, tracks'[t].hold # "past"
        PROVE  tracks'[t].until
    <3>1. Newest(t) /\ t \in Track
      BY <1>3, <2>2 DEF Newest, Outputs
    <3>2. t = trk[p]
      BY <1>1, <1>5, <3>1, AtNewest
    <3>3. phase = "idle" /\ Valid(trk[p])
      BY <1>1, <1>3, <2>2, <3>2 DEF Returns, Valid, Outputs
    <3>4. tracks[t].until \/ tracks[t].hold = "past"
      BY <1>1, <1>5, <2>1, <3>2, <3>3 DEF Promised
    <3> QED BY <1>2, <2>2, <3>1, <3>4
  <2> QED BY <1>4, <2>2 DEF Waits
<1>6. CASE p \notin Processes
  <2>1. \A t \in Outputs : tracks'[t].claim = Nobody => tracks[t].claim = Nobody
    <3>1. \A t \in Outputs : tracks[t].claim # p
      BY <1>1, <1>6 DEF TInv, TrackKinds, Valid, Claimed, Outputs, Kind
    <3> QED BY <1>2, <3>1 DEF Outputs
  <2>2. proc # Nobody => pc'[proc] = pc[proc]
    BY <1>1, <1>6 DEF TInv, BInv, TypeOK
  <2> QED BY <1>1, <1>3, <1>4, <2>1, <2>2, IdleWaits DEF procVars, userVars
<1> QED BY <1>5, <1>6

\* Time passes over a track
LEMMA IdlesPromised ==
    ASSUME TInv, Promised, Waits, NEW t \in Track, IdlesOut(t) \/ DeadlinePasses(t)
    PROVE  Promised' /\ Waits'
<1>1. \A u \in Track : /\ tracks'[u].kind = tracks[u].kind /\ tracks'[u].claim = tracks[u].claim
                       /\ \/ tracks'[u].hold = tracks[u].hold /\ tracks'[u].until = tracks[u].until
                          \/ tracks'[u].hold = "past"
  BY IdlesIs DEF TInv
<1>2. UNCHANGED <<setting, pc, trk, phase, procVars, userVars>>
  BY DEF IdlesOut, DeadlinePasses, actorVars
<1>3. Outputs' = Outputs /\ KeepsUntil
  BY <1>1 DEF Outputs, KeepsUntil
<1>4. Promised'
  BY <1>1, <1>2, <1>3, IdlePromised DEF procVars, userVars
<1>5. \A u \in Outputs : tracks'[u].claim = Nobody => tracks[u].claim = Nobody
  BY <1>1 DEF Outputs
<1>6. Waits'
  BY <1>2, <1>3, <1>5, IdleWaits DEF procVars, userVars
<1> QED BY <1>4, <1>6

\* WInv is inductive
LEMMA NextWInv == ASSUME WInv, ~setting.hasty, Apart, [Next]_vars PROVE WInv'
<1>1. TInv /\ NewestClaimed /\ Promised /\ Waits
  BY WaitsIs DEF WInv
<1>2. TInv' /\ NewestClaimed'
  BY <1>1, NextTInv, NextNewest
<1>3. Promised' /\ Waits'
  <2>1. CASE Tick
    BY <1>1, <2>1, TickPromised, UnusedPromised DEF Tick
  <2>2. ASSUME NEW p \in Pids, Actor(p) PROVE Promised' /\ Waits'
    BY <1>1, <2>2, ActorPromised, ClaimPromised, AbandonPromised DEF Actor
  <2>3. ASSUME NEW t \in Track, IdlesOut(t) \/ DeadlinePasses(t) PROVE Promised' /\ Waits'
    BY <1>1, <2>3, IdlesPromised
  <2>4. CASE Watch \/ RestartDue \/ UNCHANGED vars
    BY <1>1, <2>4, ActorPromised, Constants
  <2> QED BY <2>1, <2>2, <2>3, <2>4 DEF Next
<1>4. ReaderWaits'
  BY <1>3, WaitsIs, PTL
<1> QED BY <1>2, <1>3, <1>4 DEF WInv

\* A stream starts without outputs
LEMMA InitWInv == Init => WInv
<1> SUFFICES ASSUME Init PROVE WInv
  OBVIOUS
<1>1. Outputs = {} /\ proc = Nobody /\ \A q \in Processes : pc[q] = "none"
  BY Constants DEF Init, Outputs, NoTrack
<1>2. \A t \in Track : tracks[t].kind = "none"
  BY DEF Init, NoTrack
<1> QED BY <1>1, <1>2, InitTInv DEF WInv, NewestClaimed, Promised, ReaderWaits

\* A reader of an output without its producer sees until when to wait for it, when the process
\* returns and its time has not passed, in every stream whose processes a tick sees before they
\* end, and break no claim that the buffer is about to break.
THEOREM BufferReaderWaits == Calm => (Spec => []ReaderWaits)
<1> SUFFICES ASSUME Calm PROVE Spec => []ReaderWaits
  OBVIOUS
<1>1. WInv /\ Breaking => ~setting.hasty /\ Apart
  BY DEF Calm, Apart, WInv, TInv, BInv, TypeOK
<1>2. Init => WInv
  BY InitWInv
<1>3. WInv /\ Breaking /\ [Next]_vars => WInv'
  BY <1>1, NextWInv
<1>4. WInv => ReaderWaits
  BY DEF WInv
<1> QED BY <1>2, <1>3, <1>4, BufferBreaking, PTL DEF Spec
=============================================================================
