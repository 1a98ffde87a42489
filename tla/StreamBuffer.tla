---------------------------- MODULE StreamBuffer ---------------------------
(***************************************************************************)
(* The buffer of a live stream.  Four times a second it makes a tick:      *)
(* look after its process (checkProcesses), walk over the records of the   *)
(* Users page (COMM_LOOP), tell the readers how the stream stands          *)
(* (userLeadOut), remove what is not used any more (removeUnused).         *)
(* Between any two steps of it publishers, the process it started and a    *)
(* viewer come, claim tracks, register, let go, leave and die.             *)
(*                                                                         *)
(* Comms has the details of a record, TrackClaim those of a claim: both    *)
(* are one step here, and so is the handling of one record but for the     *)
(* claim it breaks.  Tracks are numbered as they are added and all have    *)
(* the same type.  A stream has one configured process, with one output;   *)
(* its configuration stays, and what it selects too: the supervisor never  *)
(* stops a process that runs.                                              *)
(***************************************************************************)
EXTENDS Naturals, Sequences, FiniteSets, FiniteSetsExt, Functions

CONSTANTS
    Settings,    \* the streams and the circumstances looked at, see SettingType
    Publishers,
    Processes,   \* what the buffer starts, one after the other; reused when nothing names them
    Viewer,
    Nobody,
    MaxTracks,   \* bound: tracks ever added
    MaxFaults    \* bound: deaths, times a track idles out, times a deadline passes

Sources == Publishers \union Processes
Pids == Sources \union {Viewer}
Track == 1 .. MaxTracks

SettingType ==
    [controlled : BOOLEAN,  \* processControlledRealtime
     resume : BOOLEAN,      \* resumeMode
     restart : {"fixed", "delayed", "disabled"},
     changes : BOOLEAN,     \* tracks may be described differently than before
     hasty : BOOLEAN,       \* processes may end before a tick saw the record they made
     together : BOOLEAN,    \* they may break a claim the buffer found dead and is about to break
     sessions : Nat,        \* bound: publishers that come
     order : Seq(Pids)]     \* who has which record of the Users page

ASSUME StreamBufferAssumption ==
    /\ Settings \subseteq SettingType
    /\ IsFiniteSet(Pids) /\ Nobody \notin Pids /\ Viewer \notin Sources
    /\ Publishers \intersect Processes = {}
    /\ MaxTracks \in Nat /\ MaxFaults \in Nat

VARIABLES
    setting,
    pc,          \* process -> what it does next; the three ways to have exited
    trk,         \* source -> the track it claimed last
    rec,         \* process -> the status of its record, {} when it has none
    tracks,      \* the track list, with what belongs to a track
    phase,       \* where the buffer is in its tick
    at,          \* the record the walk is at
    proc,        \* runningProcs: the process, or Nobody
    boots,       \* procBoots is not zero
    next,        \* procNextBoot: no start is due, one lies ahead, one is due
    failed, stopped,     \* procHardFailed, procStopped
    procUsers, srcUsers, \* whose records were seen as a process's, as a publisher's
    consumers,   \* drainConsumerUsers, as far as the walk has come
    hasPush, everHadPush,
    ended,       \* publisherSessionEnded
    retained,    \* retainedSourceTracks
    eof, fin,    \* the flags PROCESS_SOURCE_EOF and PROCESS_PRODUCERS_FINISHED
    state,       \* stream state: UP for WAIT and READY, SHUTDOWN
    active,      \* config->is_active
    sessions, faults

actorVars == <<pc, trk, rec>>
procVars == <<proc, boots, next, failed, stopped>>
userVars == <<procUsers, srcUsers, consumers, hasPush, everHadPush, ended, retained>>
stateVars == <<eof, fin, state, active>>
vars == <<setting, actorVars, tracks, phase, at, procVars, userVars, stateVars, sessions, faults>>

Exits == {"exited", "failed", "stopped"}   \* code 2 is failed, a clean exit the controller asked for is stopped
Alive(p) == p # Nobody /\ pc[p] \in {"boot", "claimed", "on", "left"}
\* Util::Procs::isActive: one that has let go of everything and not exited yet still runs
Running(p) == Alive(p) \/ (p # Nobody /\ pc[p] = "over")
Valid(t) == tracks[t].kind \in {"source", "output"}
Claimed(t) == tracks[t].claim # Nobody
\* The claim of a removed track means nothing
Named(p) == \E t \in Track : Valid(t) /\ tracks[t].claim = p
Present == Range(setting.order)
Outputs == {t \in Track : tracks[t].kind = "output"}
SourceTracks == {t \in Track : tracks[t].kind = "source"}

-----------------------------------------------------------------------------
\* What others do

\* Meta::addTrackRecord: the next number, claimed by whoever adds it to the list K
Added(p, kind, K) == LET t == Min({u \in Track : K[u].kind = "none"})
    IN /\ \E u \in Track : K[u].kind = "none"
       /\ tracks' = [K EXCEPT ![t].kind = kind, ![t].claim = p]
       /\ trk' = [trk EXCEPT ![p] = t]

\* claimTrack and markUpdated of a track that is there
Resumed(p, t, kind) ==
    /\ tracks' = [tracks EXCEPT ![t].kind = kind, ![t].claim = p, ![t].old = FALSE]
    /\ trk' = [trk EXCEPT ![p] = t]

\* A stream has one publisher at a time: the one before has let go or is dead
Arrive(p) ==
    /\ p \in Publishers \intersect Present /\ pc[p] = "none" /\ rec[p] = {} /\ active /\ state = "UP"
    /\ \A q \in Publishers : pc[q] \in {"none", "left"}
    /\ ~Named(p)
    /\ sessions > 0 /\ sessions' = sessions - 1
    /\ pc' = [pc EXCEPT ![p] = "boot"]
    /\ UNCHANGED <<setting, trk, rec, tracks, phase, at, procVars, userVars, stateVars, faults>>

\* addOrResumeTrack of a publisher: a track that matches and is free, else, after five
\* seconds in which the buffer would have freed one it can free, a new one
PublisherClaims(p) ==
    LET free == {t \in SourceTracks : ~Claimed(t)}
        coming == {t \in SourceTracks : Claimed(t) /\ (rec[tracks[t].claim] # {} \/ Alive(tracks[t].claim))}
    IN \/ free # {} /\ Resumed(p, Min(free), "source")
       \/ (setting.changes \/ free \union coming = {}) /\ Added(p, "source", tracks)

\* addOrResumeKeyedTrack of a process: the newest track with its key, after the claim of a
\* dead one on it was broken; a new one when it describes it differently or when the newest
\* stays claimed; the reserved one when there is none yet.  Its look at the owner, breakClaim
\* and claimTrack are one step: of one process at a time nobody else claims that key in
\* between, and a claim that the buffer breaks there would be broken anyway.
ProcessClaims(q) ==
    LET newest == Max(Outputs)
        busy == Claimed(newest) /\ Alive(tracks[newest].claim)
        reserved == {t \in Track : tracks[t].kind = "reserved"}
    IN /\ (Outputs # {} /\ Claimed(newest) /\ ~busy /\ phase = "break") => setting.together
       /\ \/ Outputs # {} /\ ~busy /\ Resumed(q, newest, "output")
          \/ /\ Outputs # {} /\ (busy \/ setting.changes)
             /\ Added(q, "output", IF busy THEN tracks ELSE [tracks EXCEPT ![newest].claim = Nobody])
          \/ Outputs = {} /\ reserved # {} /\ Resumed(q, Min(reserved), "output")
          \/ Outputs = {} /\ reserved = {} /\ Added(q, "output", tracks)

Claim(p) ==
    /\ p \in Sources /\ pc[p] = "boot" /\ active
    /\ IF p \in Processes THEN ProcessClaims(p) ELSE PublisherClaims(p)
    /\ pc' = [pc EXCEPT ![p] = "claimed"]
    /\ UNCHANGED <<setting, rec, phase, at, procVars, userVars, stateVars, sessions, faults>>

\* userSelect[idx].reload(.., COMM_STATUS_SOURCE), by publishers and processes alike
Register(p) ==
    /\ p \in Sources /\ pc[p] = "claimed" /\ rec[p] = {} /\ active
    /\ pc' = [pc EXCEPT ![p] = "on"]
    /\ rec' = [rec EXCEPT ![p] = {"active"}]
    /\ UNCHANGED <<setting, trk, tracks, phase, at, procVars, userVars, stateVars, sessions, faults>>

\* A tick saw the record of the process, which takes a quarter of a second at most
WasSeen(q) == rec[q] = {} \/ q \in procUsers \/ setting.hasty

\* meta.abandonTrack gives up a claim that is one's own
LetGo(p) == [tracks EXCEPT ![trk[p]].claim = IF @ = p THEN Nobody ELSE @]
Abandon(p) ==
    /\ p \in Sources /\ pc[p] = "on" /\ (p \in Processes => WasSeen(p))
    /\ tracks' = LetGo(p)
    /\ pc' = [pc EXCEPT ![p] = "left"]
    /\ UNCHANGED <<setting, trk, rec, phase, at, procVars, userVars, stateVars, sessions, faults>>

\* The record's destructor; a source that was asked to leave drops its track at once
Disconnect(p) ==
    /\ pc[p] = "left" \/ (pc[p] = "on" /\ (p = Viewer \/ "asked" \in rec[p]))
    /\ p \in Processes => WasSeen(p)
    /\ rec' = [rec EXCEPT ![p] = @ \union {"disc"}]
    /\ pc' = [pc EXCEPT ![p] = IF p \in Processes THEN "over" ELSE "none"]
    /\ UNCHANGED <<setting, trk, tracks, phase, at, procVars, userVars, stateVars, sessions, faults>>

\* A process exits by itself, having let go of its record or never had one
Exit(q) ==
    /\ q \in Processes /\ pc[q] \in {"boot", "over"}
    /\ \E how \in Exits : pc' = [pc EXCEPT ![q] = how]
    /\ UNCHANGED <<setting, trk, rec, tracks, phase, at, procVars, userVars, stateVars, sessions, faults>>

\* It dies, and leaves claim and record behind
Die(p) ==
    /\ Alive(p) /\ faults > 0 /\ faults' = faults - 1
    /\ p \in Processes => WasSeen(p)
    /\ pc' = [pc EXCEPT ![p] = IF p \in Processes THEN "exited" ELSE "none"]
    /\ trk' = [u \in Sources |-> IF u = p /\ rec[u] = {} THEN 0 ELSE trk[u]]
    /\ UNCHANGED <<setting, rec, tracks, phase, at, procVars, userVars, stateVars, sessions>>

Watch ==
    /\ Viewer \in Present /\ pc[Viewer] = "none" /\ rec[Viewer] = {} /\ active
    /\ pc' = [pc EXCEPT ![Viewer] = "on"]
    /\ rec' = [rec EXCEPT ![Viewer] = {"active"}]
    /\ UNCHANGED <<setting, trk, tracks, phase, at, procVars, userVars, stateVars, sessions, faults>>

\* The process has read its input to the end (processingInputTrackEnded), or its input is gone
InputEnded ==
    IF setting.controlled THEN eof /\ \A t \in SourceTracks : ~Claimed(t) ELSE SourceTracks = {}

-----------------------------------------------------------------------------
\* checkProcesses

\* Meta::reserveOutputTrack
Reserved ==
    IF /\ setting.controlled
       /\ \A t \in Track : tracks[t].kind \notin {"output", "reserved"}
       /\ \E t \in Track : tracks[t].kind = "none"
    THEN [tracks EXCEPT ![Min({u \in Track : tracks[u].kind = "none"})].kind = "reserved"]
    ELSE tracks

\* releaseRetiredReservations
Released == [t \in Track |-> IF tracks[t].kind = "reserved" THEN [tracks[t] EXCEPT !.kind = "gone"] ELSE tracks[t]]

\* processSupervisorMayStart and processSourceEnded
MayStart ==
    /\ active /\ state # "SHUTDOWN"
    /\ ~(IF setting.controlled THEN eof ELSE everHadPush /\ ~hasPush)

\* A process id that nothing names any more
Unused(q) == /\ q \in Present /\ pc[q] = "none" /\ rec[q] = {} /\ ~Named(q)

\* What follows when no instance runs; deadline is procNextBoot as it is then
\* none has the processes without the one that was collected
MaybeStart(deadline, none) ==
    IF deadline # "wait" /\ MayStart /\ ~(setting.restart = "disabled" /\ boots) /\ \E q \in Processes : Unused(q)
    THEN /\ \E q \in {r \in Processes : Unused(r)} : proc' = q /\ pc' = [none EXCEPT ![q] = "boot"]
         /\ boots' = TRUE /\ next' = "no"
         /\ tracks' = Reserved
    ELSE /\ proc' = Nobody /\ next' = deadline
         /\ tracks' = IF setting.restart = "disabled" /\ boots THEN Released ELSE tracks
         /\ pc' = none /\ UNCHANGED boots

\* The restart delay counts from the check that finds the process gone
Deadline == IF setting.restart = "delayed" /\ boots /\ next = "no" THEN "wait" ELSE next

HasExited == proc # Nobody /\ pc[proc] \in Exits

\* The result of a process is collected before it is started again
Collect ==
    /\ HasExited
    /\ IF pc[proc] \in {"failed", "stopped"}
       THEN /\ proc' = Nobody
            /\ failed' = (failed \/ pc[proc] = "failed") /\ stopped' = (stopped \/ pc[proc] = "stopped")
            /\ tracks' = Released
            /\ pc' = [pc EXCEPT ![proc] = "none"]
            /\ UNCHANGED <<boots, next>>
       ELSE MaybeStart(Deadline, [pc EXCEPT ![proc] = "none"]) /\ UNCHANGED <<failed, stopped>>

\* A first start waits until what the process selects is there
Start ==
    /\ proc = Nobody /\ ~failed /\ ~stopped /\ SourceTracks # {}
    /\ MaybeStart(Deadline, pc)
    /\ UNCHANGED <<failed, stopped>>

-----------------------------------------------------------------------------
\* A tick

\* processSupervisorCheckDue: at once after an exit and when a restart is due, else now
\* and then.  Without valid tracks checkProcesses does nothing.
userLeadIn ==
    /\ phase = "idle" /\ active
    /\ \/ (\E t \in Track : Valid(t)) /\ (Collect \/ Start)
       \/ /\ (\A t \in Track : ~Valid(t)) \/ ~(HasExited \/ next = "due")
          /\ UNCHANGED <<pc, tracks, procVars>>
       \/ /\ next = "due" /\ (failed \/ stopped \/ SourceTracks = {}) /\ ~HasExited
          /\ UNCHANGED <<pc, tracks, procVars>>
    /\ phase' = "walk" /\ at' = 1
    /\ hasPush' = FALSE
    /\ UNCHANGED <<setting, trk, rec, procUsers, srcUsers, consumers, everHadPush, ended, retained, stateVars, sessions, faults>>

\* removeTrack asks the first source with a record of that track to leave
FirstUser(t) == LET users == {i \in DOMAIN setting.order :
                        LET p == setting.order[i] IN p \in Sources /\ rec[p] # {} /\ trk[p] = t}
                IN IF users = {} THEN Nobody ELSE setting.order[Min(users)]
\* Mutant: nobody is asked
WithAskedNobody(R, T) == R
WithAsked(R, T) == [p \in Pids |-> IF \E t \in T : FirstUser(t) = p THEN R[p] \union {"asked"} ELSE R[p]]
\* Mutant: the hold of a removed track stays
WithRemovedHeld(K, T) == [t \in Track |-> IF t \in T THEN [K[t] EXCEPT !.kind = "gone"] ELSE K[t]]
WithRemoved(K, T) == [t \in Track |-> IF t \in T THEN [K[t] EXCEPT !.kind = "gone", !.hold = "no"] ELSE K[t]]

\* COMM_LOOP: the dead are marked, and handled a tick later, like those that leave
Seen(p) == IF Alive(p) \/ "disc" \in rec[p] THEN rec ELSE [rec EXCEPT ![p] = @ \union {"disc"}]

\* Mutant: only the process that runs
IsProcessNow(p) == p = proc
IsProcess(p) == p = proc \/ p \in procUsers

\* hasProcessDrainConsumers
HasDrainConsumers == procUsers # {} \/ Running(proc) \/ consumers

\* userOnActive of a publisher's record.  A new session drops the tracks it did not resume.
PublisherActive(p, R) ==
    LET new == p \notin srcUsers
        drop == IF new THEN {t \in retained : Valid(t) /\ t # trk[p]} ELSE {}
    IN /\ srcUsers' = srcUsers \union {p}
       /\ ended' = (ended /\ ~new)
       /\ stopped' = (stopped /\ ~(new /\ ended))
       /\ retained' = IF new THEN {} ELSE retained
       /\ tracks' = WithRemoved(tracks, drop)
       /\ rec' = WithAsked(R, drop)
       /\ everHadPush' = (everHadPush \/ Valid(trk[p]))
       /\ hasPush' = (hasPush \/ (Valid(trk[p]) /\ "disc" \notin R[p]))
       /\ UNCHANGED <<procUsers, consumers>>

\* The walk of COMM_LOOP is at the first record in use from where it was
Standing == Min({i \in DOMAIN setting.order : i >= at /\ rec[setting.order[i]] # {}})
AtRecord == phase = "walk" /\ \E i \in DOMAIN setting.order : i >= at /\ rec[setting.order[i]] # {}

\* userOnActive: what a record was first seen as it stays
userOnActive ==
    /\ AtRecord
    /\ LET p == setting.order[Standing]
       IN /\ \/ /\ p = Viewer
                /\ consumers' = TRUE /\ rec' = Seen(p)
                /\ UNCHANGED <<tracks, stopped, procUsers, srcUsers, hasPush, everHadPush, ended, retained>>
             \/ /\ p \in Sources /\ IsProcess(p)
                /\ procUsers' = procUsers \union {p} /\ rec' = Seen(p)
                /\ UNCHANGED <<tracks, stopped, srcUsers, consumers, hasPush, everHadPush, ended, retained>>
             \/ /\ p \in Sources /\ ~IsProcess(p)
                /\ PublisherActive(p, Seen(p))
          /\ IF "disc" \in rec[p] THEN phase' = "disconnect" /\ at' = Standing
                                  ELSE phase' = "walk" /\ at' = Standing + 1
    /\ UNCHANGED <<setting, pc, trk, proc, boots, next, failed, stateVars, sessions, faults>>

\* The track of a source that left stays for the one that comes next: of a process always, of
\* a publisher when the stream can be resumed, or something still reads it
Keeps(p) == \/ p \in procUsers
            \/ p \in srcUsers /\ (setting.resume \/ setting.controlled \/ HasDrainConsumers)

\* isClaimed and isClaimedBy say that the claim is still the one of who left.  breakClaim is
\* another step: in between a process may break the same claim and make its own.
FindsClaim ==
    /\ phase = "disconnect"
    /\ LET p == setting.order[at] IN Keeps(p) /\ tracks[trk[p]].claim = p
    /\ phase' = "break"
    /\ UNCHANGED <<setting, actorVars, tracks, at, procVars, userVars, stateVars, sessions, faults>>

\* breakClaim writes 0 whoever the owner is by now; not called when the claim was another's
\* Mutants: whoever claims the track loses it; nobody does
FreedAnyway(p) == [tracks EXCEPT ![trk[p]].claim = Nobody]
FreedNot(p) == tracks
Freed(p) == IF phase = "break" THEN [tracks EXCEPT ![trk[p]].claim = Nobody] ELSE tracks

ProcessGone(p) ==
    /\ p \in procUsers
    /\ procUsers' = procUsers \ {p}
    /\ tracks' = Freed(p)
    /\ rec' = [rec EXCEPT ![p] = {}]
    /\ UNCHANGED <<srcUsers, ended, retained>>

PublisherGone(p) ==
    /\ p \in srcUsers \ procUsers
    /\ srcUsers' = srcUsers \ {p}
    /\ ended' = (ended \/ (~setting.controlled /\ srcUsers' = {}))
    /\ IF phase = "break" \/ Keeps(p)
       THEN /\ retained' = IF setting.controlled THEN retained ELSE retained \union {trk[p]}
            /\ tracks' = Freed(p)
            /\ rec' = [rec EXCEPT ![p] = {}]
       ELSE /\ retained' = retained \ {trk[p]}
            /\ tracks' = WithRemoved(tracks, {trk[p]} \intersect {t \in Track : Valid(t)})
            /\ rec' = [WithAsked(rec, {trk[p]}) EXCEPT ![p] = {}]
    /\ UNCHANGED procUsers

ViewerGone(p) == p = Viewer /\ rec' = [rec EXCEPT ![p] = {}] /\ UNCHANGED <<tracks, procUsers, srcUsers, ended, retained>>

userOnDisconnect ==
    /\ phase \in {"disconnect", "break"}
    /\ LET p == setting.order[at]
       IN /\ phase = "disconnect" => ~(Keeps(p) /\ tracks[trk[p]].claim = p)
          /\ ProcessGone(p) \/ PublisherGone(p) \/ ViewerGone(p)
          /\ trk' = [u \in Sources |-> IF u = p THEN 0 ELSE trk[u]]
    /\ phase' = "walk" /\ at' = at + 1
    /\ UNCHANGED <<setting, pc, procVars, consumers, hasPush, everHadPush, stateVars, sessions, faults>>

\* processingSourceEofAction
EofAction ==
    IF hasPush \/ ~everHadPush \/ (setting.resume /\ ~setting.controlled) THEN "none"
    ELSE IF HasDrainConsumers THEN "wait"
    ELSE IF setting.controlled THEN "drain" ELSE "stop"

\* hasActiveProcessProducers: one that was started counts until it was collected
\* Mutant: only processes with a record count
ProducersLeftSeen == procUsers # {}
ProducersLeft == procUsers # {} \/ proc # Nobody

\* Its writes to the state page are one step: readers that look in between are not modelled
userLeadOut ==
    /\ phase = "walk" /\ ~AtRecord
    /\ eof' = (setting.controlled /\ everHadPush /\ ~hasPush)
    /\ fin' = (setting.controlled /\ everHadPush /\ ~hasPush /\ ~ProducersLeft)
    /\ state' = CASE EofAction \in {"drain", "stop"} -> "SHUTDOWN"
                  [] EofAction = "wait" -> "UP"
                  [] OTHER -> IF setting.controlled THEN state ELSE "UP"
    /\ active' = (EofAction # "stop")
    /\ phase' = "tidy" /\ at' = 0
    /\ UNCHANGED <<setting, actorVars, tracks, procVars, userVars, sessions, faults>>

-----------------------------------------------------------------------------
\* removeUnused

\* processingProcessRetired: it exited for good
Retired == failed \/ stopped \/ (setting.restart = "disabled" /\ boots /\ ~Running(proc))

\* Whether the process comes back for its output: the source goes on, or it was started before it ended
ComesBack == ~Retired /\ (Running(proc) \/ (setting.restart # "disabled" /\ ~(everHadPush /\ ~hasPush)))

\* retireReplacedOutputs: an older output that was let go, once a newer one is claimed
Replaced == {t \in Outputs : /\ t # Max(Outputs) /\ ~Claimed(t) /\ Claimed(Max(Outputs))}

\* updateResumeHolds: the deadline of a track that lost its producer is set once; readers
\* see a deadline while the producer runs, too
\* Mutant: a deadline is published once the producer is lost
HeldOnceLost(K, t) ==
    LET up == K.claim # Nobody /\ Running(K.claim)
        hold == IF ~ComesBack \/ up THEN "no" ELSE IF K.hold = "no" THEN "set" ELSE K.hold
    IN IF K.kind = "output" THEN [K EXCEPT !.hold = hold, !.until = hold = "set"] ELSE K
Held(K, t) ==
    LET up == K.claim # Nobody /\ Running(K.claim)
        hold == IF ~ComesBack \/ up THEN "no" ELSE IF K.hold = "no" THEN "set" ELSE K.hold
    IN CASE K.kind = "output" -> [K EXCEPT !.hold = hold, !.until = ComesBack /\ (up \/ hold = "set")]
         [] K.kind = "source" -> [K EXCEPT !.until = setting.resume /\ ~setting.controlled /\ (up \/ ~K.old)]
         [] OTHER -> K

\* The tracks that idled out, but those kept for the process.  That a track idles out sooner
\* because its timestamps are far from the others' is left out.
Idle(K) ==
    IF setting.controlled /\ HasDrainConsumers THEN {}
    ELSE {t \in Track : K[t].kind \in {"source", "output"} /\ K[t].old /\ K[t].hold # "set"}

removeUnused ==
    /\ phase = "tidy"
    /\ LET kept == [t \in Track |-> Held(WithRemoved(tracks, Replaced)[t], t)]
           gone == Replaced \union Idle(kept)
       IN /\ tracks' = WithRemoved(kept, gone)
          /\ rec' = WithAsked(rec, gone)
          /\ retained' = retained \ gone
    /\ phase' = "idle"
    /\ consumers' = FALSE
    /\ UNCHANGED <<setting, pc, trk, at, procVars, procUsers, srcUsers, hasPush, everHadPush, ended, stateVars, sessions, faults>>

-----------------------------------------------------------------------------
\* Time

\* Seconds pass, in which whoever was in between two of its calls is done and the buffer has
\* handled who left or died
Settled ==
    /\ phase = "idle"
    /\ \A p \in Sources : /\ pc[p] \notin {"claimed", "left", "over"}
                          /\ rec[p] # {} => Alive(p) /\ p \in procUsers \union srcUsers

\* A track is not written for the whole idle timeout
IdlesOut(t) ==
    /\ Settled /\ Valid(t) /\ ~tracks[t].old /\ faults > 0 /\ faults' = faults - 1
    /\ tracks' = [tracks EXCEPT ![t].old = TRUE]
    /\ UNCHANGED <<setting, actorVars, phase, at, procVars, userVars, stateVars, sessions>>

\* A resume deadline passes: in the buffer, and for the readers
DeadlinePasses(t) ==
    /\ tracks[t].hold = "set" /\ faults > 0 /\ faults' = faults - 1
    /\ tracks' = [tracks EXCEPT ![t].hold = "past", ![t].until = FALSE]
    /\ UNCHANGED <<setting, actorVars, phase, at, procVars, userVars, stateVars, sessions>>

RestartDue ==
    /\ next = "wait" /\ next' = "due"
    /\ UNCHANGED <<setting, actorVars, tracks, phase, at, proc, boots, failed, stopped, userVars, stateVars, sessions, faults>>

-----------------------------------------------------------------------------

NoTrack == [kind |-> "none", claim |-> Nobody, hold |-> "no", until |-> FALSE, old |-> FALSE]

Init ==
    /\ setting \in Settings
    /\ pc = [p \in Pids |-> "none"] /\ trk = [p \in Sources |-> 0] /\ rec = [p \in Pids |-> {}]
    /\ tracks = [t \in Track |-> NoTrack]
    /\ phase = "idle" /\ at = 0
    /\ proc = Nobody /\ boots = FALSE /\ next = "no" /\ failed = FALSE /\ stopped = FALSE
    /\ procUsers = {} /\ srcUsers = {} /\ consumers = FALSE /\ hasPush = FALSE /\ everHadPush = FALSE
    /\ ended = FALSE /\ retained = {}
    /\ eof = FALSE /\ fin = FALSE /\ state = "UP" /\ active = TRUE
    /\ sessions = setting.sessions /\ faults = MaxFaults

Tick == userLeadIn \/ userOnActive \/ FindsClaim \/ userOnDisconnect \/ userLeadOut \/ removeUnused
Actor(p) == Arrive(p) \/ Claim(p) \/ Register(p) \/ Abandon(p) \/ Disconnect(p) \/ Exit(p) \/ Die(p)

Next == \/ Tick
        \/ \E p \in Pids : Actor(p)
        \/ Watch
        \/ \E t \in Track : IdlesOut(t) \/ DeadlinePasses(t)
        \/ RestartDue

Spec == Init /\ [][Next]_vars

\* The buffer ticks, and the processes go on: one that claimed its output registers it, one
\* that has read its input to the end lets go and exits.
GoesOn(q) == Register(q) \/ Disconnect(q) \/ (InputEnded /\ (Abandon(q) \/ Exit(q)))
Fairness == WF_vars(Tick) /\ WF_vars(\E q \in Processes : GoesOn(q))
FairSpec == Spec /\ Fairness

-----------------------------------------------------------------------------

PCs == {"none", "boot", "claimed", "on", "left", "over"} \union Exits
Flags == {"active", "asked", "disc"}
TrackRecord == [kind : {"none", "reserved", "source", "output", "gone"}, claim : Sources \union {Nobody},
                hold : {"no", "set", "past"}, until : BOOLEAN, old : BOOLEAN]

\* Every variable keeps its type; only the output of a process is held for its return.
TypeOK ==
    /\ setting \in Settings
    /\ pc \in [Pids -> PCs]
    /\ trk \in [Sources -> {0} \union Track]
    /\ rec \in [Pids -> SUBSET Flags]
    /\ tracks \in [Track -> TrackRecord]
    /\ phase \in {"idle", "walk", "disconnect", "break", "tidy"} /\ at \in 0 .. Len(setting.order) + 1
    /\ proc \in Processes \union {Nobody} /\ next \in {"no", "wait", "due"}
    /\ {boots, failed, stopped, consumers, hasPush, everHadPush, ended, eof, fin, active} \subseteq BOOLEAN
    /\ procUsers \subseteq Sources /\ srcUsers \subseteq Sources
    /\ \A t \in Track : tracks[t].hold # "no" => tracks[t].kind = "output"
    /\ retained \subseteq Track /\ state \in {"UP", "SHUTDOWN"}
    /\ sessions \in Nat /\ faults \in 0 .. MaxFaults

\* Where no process breaks the claim of a dead one just between the two steps of the buffer
\* that look at that claim and break it, a live source keeps its claim: userOnDisconnect,
\* which handles a record up to a tick late, asks whose claim it is, for by then the next one
\* may have resumed the track.  Where both may break it (setting.together) the buffer can take
\* the new claim, as in TrackClaim with two that break; see the README.
KeepsClaim == [][~setting.together =>
    \A p \in Sources : (pc[p] \in {"claimed", "on"} /\ pc'[p] = pc[p] /\ tracks[trk[p]].claim = p)
                             => tracks'[trk[p]].claim = p]_vars

\* userOnActive never takes the record of a process for a publisher's, also not once the
\* process died and the next one runs: else a stream whose source ended looks fed.  This
\* takes processes whose records are seen before they end, and that the supervisor does not
\* stop: it forgets those at once.
ProcessesAreKnown == ~setting.hasty => srcUsers \intersect Processes = {}

\* A source whose track the buffer removed under it (it idled out, was replaced, or was not
\* resumed) was asked to leave by removeTrack, so that it comes back with a new track.  Plain
\* streams, and more than two publishers in a row, are left out: there removeTrack may ask
\* the record of an earlier one; see the README.
AskedToLeave == (setting.resume \/ setting.controlled) =>
    \A p \in Sources : (pc[p] = "on" /\ ~Valid(trk[p])) => "asked" \in rec[p]

\* Once userLeadOut tells the readers that the producers are finished, no process is there
\* that could continue an output: readers then drop the outputs nobody claims.
ProducersFinished == fin => \A q \in Processes : ~Alive(q)

\* Between two ticks: the process was started and has not claimed its output yet, or it let
\* go of it and will be started again.
Returns == /\ phase = "idle" /\ proc # Nobody
           /\ \/ pc[proc] = "boot"
              \/ pc[proc] \in {"left", "over", "exited"} /\ setting.restart # "disabled" /\ hasPush

\* A reader that sees an output without its producer also sees until when to wait for it, as
\* updateResumeHolds promises, when the process returns and its time has not passed.  A
\* process that ends before a tick saw its record (setting.hasty) may get no deadline.
ReaderWaits == \A t \in Outputs :
    (Returns /\ t = Max(Outputs) /\ ~Claimed(t) /\ tracks[t].hold # "past") => tracks[t].until

\* A process-controlled stream whose source ended, and that nobody watches, drains: no record
\* and no process keeps userLeadOut from signalling SHUTDOWN for ever.
Drains == (<>[](/\ setting.controlled /\ everHadPush
               /\ \A p \in Publishers \union {Viewer} : ~Alive(p))) => <>(state = "SHUTDOWN")

\* Once the source ended nobody claims an output again that has no producer: Output::prepareNext
\* then drops such a track, since "its producer is gone and none will start again".
EofEndsTracks == [][\A t \in Outputs : (setting.controlled /\ eof /\ eof' /\ ~Claimed(t)) => tracks'[t].claim = Nobody]_vars

-----------------------------------------------------------------------------
\* The inductive invariant behind TypeOK, KeepsClaim, ProcessesAreKnown and ProducersFinished

\* Who claimed or registered a track has one, and a track that was not added is nobody's
Owned ==
    /\ \A p \in Sources : (pc[p] \in {"claimed", "on"} \/ rec[p] # {}) => trk[p] \in Track
    /\ \A t \in Track : tracks[t].kind \in {"none", "reserved"} => tracks[t].claim = Nobody

\* Whose record says so has left, and the buffer only lets go of those
Left ==
    /\ \A p \in Pids : "disc" \in rec[p] => ~Alive(p)
    /\ \A p \in Pids : pc[p] \in {"on", "left"} => rec[p] # {}
    /\ phase \in {"disconnect", "break"} => at \in DOMAIN setting.order /\ "disc" \in rec[setting.order[at]]

\* A record stays what it was first seen as, as long as it is there
Kinds ==
    /\ \A p \in procUsers \union srcUsers : rec[p] # {}
    /\ srcUsers \intersect (procUsers \union {proc}) = {}

\* One process is there, its record was seen before it let go of it
KnownProcess ==
    /\ \A q \in Processes : pc[q] # "none" => q = proc
    /\ ~setting.hasty => \A q \in Processes : rec[q] # {} => q \in procUsers \/ (q = proc /\ pc[q] = "on")
    /\ ~setting.hasty => srcUsers \intersect Processes = {}

\* When the producers are finished nothing starts them again
NoneStarts == fin => eof /\ setting.controlled /\ proc = Nobody

BInv == TypeOK /\ Owned /\ Left /\ Kinds /\ KnownProcess /\ NoneStarts

\* The claim the buffer is about to break is still the one it looked at
Breaking == (phase = "break" /\ ~setting.together) =>
    LET p == setting.order[at] IN p \in Sources /\ tracks[trk[p]].claim = p

-----------------------------------------------------------------------------
\* The inductive invariant behind AskedToLeave and ReaderWaits, when a tick sees the record of
\* every process

\* A source at work has its track for itself, and no track is named by one that has not claimed it
OwnClaims ==
    /\ \A p \in Sources : pc[p] \in {"claimed", "on"} => tracks[trk[p]].claim = p
    /\ \A p \in Sources : pc[p] = "boot" => ~Named(p)
    /\ \A p \in Sources : pc[p] \in {"boot", "claimed"} => rec[p] = {}
    /\ \A p \in Sources : pc[p] # "none" => p \in Present

\* Publishers have source tracks, processes outputs
Kind(p) == IF p \in Processes THEN "output" ELSE "source"
TrackKinds ==
    /\ \A p \in Sources : trk[p] # 0 => tracks[trk[p]].kind \in {Kind(p), "gone"}
    /\ \A t \in Track : (Valid(t) /\ Claimed(t)) => tracks[t].kind = Kind(tracks[t].claim)
    /\ \A t \in Track : tracks[t].kind \in {"none", "reserved"} => ~tracks[t].old
    /\ \A t \in retained : tracks[t].kind \in {"source", "gone"}
    /\ setting.controlled => retained = {}

TInv == BInv /\ OwnClaims /\ TrackKinds

\* A publisher that has a record or is there
Here(p) == rec[p] # {} \/ Alive(p)

\* Of the first two publishers one is gone when a track is retained
TwoSessions ==
    /\ sessions <= setting.sessions
    /\ sessions = setting.sessions => retained = {} /\ \A p \in Publishers : ~Here(p)
    /\ sessions + 1 = setting.sessions =>
          /\ \A p, q \in Publishers : Here(p) /\ Here(q) => p = q
          /\ retained # {} => \A p \in Publishers : ~Here(p)
    /\ sessions + 2 = setting.sessions =>
          /\ \A p, q, r \in Publishers : Here(p) /\ Here(q) /\ Here(r) => p = q \/ p = r \/ q = r
          /\ retained # {} => \A p, q \in Publishers : Here(p) /\ Here(q) => p = q

\* Beside the one publisher at work nobody has a record that no tick has seen, but for the
\* first when no track is retained
OthersSeen == setting.controlled \/
    \A p, q \in Publishers : (p # q /\ pc[p] \in {"boot", "claimed", "on"}) =>
        /\ pc[q] \in {"none", "left"}
        /\ rec[q] # {} => q \in srcUsers \/ (retained = {} /\ sessions + 2 >= setting.sessions)

\* A track idles out only when its source is the one that is registered for it
AtWork == (setting.resume \/ setting.controlled) =>
    /\ \A p \in Sources : pc[p] = "claimed" => Valid(trk[p]) /\ ~tracks[trk[p]].old
    /\ \A p \in Sources : (pc[p] = "on" /\ Valid(trk[p]) /\ tracks[trk[p]].old) =>
           \A u \in Sources \ {p} : rec[u] # {} => trk[u] # trk[p]

AInv == TInv /\ TwoSessions /\ OthersSeen /\ AtWork /\ AskedToLeave

\* Tracks are numbered as they are added, and only the newest output is claimed; none is left
\* when the buffer removed it under the process
NewestClaimed ==
    /\ \A t, u \in Track : (u < t /\ tracks[u].kind = "none") => tracks[t].kind = "none"
    /\ \A t, u \in Outputs : u < t => ~Claimed(u)
    /\ \A q \in Processes : (pc[q] \in {"claimed", "on"} /\ ~Valid(trk[q])) => Outputs = {}

\* A process runs only as long as it is not retired; once seen, its output has a deadline for
\* the readers already
Promised ==
    /\ proc # Nobody => ~failed /\ ~stopped
    /\ \A q \in Processes \intersect procUsers :
          (phase = "idle" /\ pc[q] = "on" /\ Valid(trk[q])) =>
              tracks[trk[q]].until \/ tracks[trk[q]].hold = "past"

WInv == TInv /\ NewestClaimed /\ Promised /\ ReaderWaits
=============================================================================
