---------------------------- MODULE TrackClaim -----------------------------
(***************************************************************************)
(* Who may write a track of a live stream.  The track list of a stream is  *)
(* a shared page; the pid field of a track's record is the claim on it.    *)
(* Claims are made under the track list lock (Meta::claimTrack).  Claims   *)
(* are released, by their owner (Meta::abandonTrack) or for an owner that  *)
(* died (Meta::breakClaim), without any lock (Meta::setSharedInt).  And a  *)
(* process that adds a track to a full list replaces the page by a larger  *)
(* copy (Meta::resizeTrackList) while others write to the one they have.   *)
(*                                                                         *)
(* One track is modelled.  Pages are numbered as they are created.  Shared *)
(* memory is sequentially consistent: setSharedInt and resizeTrackList put *)
(* full fences where it matters.                                           *)
(***************************************************************************)
EXTENDS Naturals, FiniteSets

CONSTANTS
    Procs,     \* the processes attached to the stream
    Breakers,  \* those that may find an owner dead and break its claim
    MaxPages,  \* bound: pages created, the first one included
    Nobody     \* no process

ASSUME ClaimAssumption ==
    /\ IsFiniteSet(Procs)
    /\ Nobody \notin Procs
    /\ Breakers \subseteq Procs
    /\ MaxPages \in Nat \ {0}

VARIABLES
    pages,    \* page -> [ready, reload, pid]
    made,     \* the number of pages created
    name,     \* the page the stream's page name leads to, NoPage when none
    lock,     \* who holds the track list lock
    pc,       \* process -> where it is
    page,     \* process -> the page it has mapped
    orig,     \* process -> resizeTrackList's copy
    target,   \* process -> whose claim it releases
    before,   \* process -> setSharedInt's before
    givenUp,  \* process -> replacementGivenUp
    claimed,  \* the processes that claimed the track and did not let go of it
    dead      \* the processes that died

pageVars == <<pages, made, name>>
procVars == <<pc, page, orig, target, before, givenUp>>
vars == <<pageVars, lock, procVars, claimed, dead>>

Pages  == 1 .. MaxPages
NoPage == 0
LockPCs    == {"locked", "copy", "unlink", "create", "ready"}
ReleasePCs == {"read", "write", "flag", "switch", "compare"}
PCs        == {"idle"} \union LockPCs \union ReleasePCs

NewPage(pid) == [ready |-> FALSE, reload |-> FALSE, pid |-> pid]

Init ==
    /\ pages = [g \in Pages |-> [NewPage(Nobody) EXCEPT !.ready = (g = 1)]]
    /\ made = 1 /\ name = 1
    /\ lock = Nobody
    /\ pc = [p \in Procs |-> "idle"]
    /\ page = [p \in Procs |-> 1]
    /\ orig = [p \in Procs |-> Nobody]
    /\ target = [p \in Procs |-> Nobody]
    /\ before = [p \in Procs |-> Nobody]
    /\ givenUp = [p \in Procs |-> FALSE]
    /\ claimed = {} /\ dead = {}

Goto(p, l) == pc' = [pc EXCEPT ![p] = l]
At(p, l)   == p \notin dead /\ pc[p] = l

\* The pid field as p sees it
Pid(p) == pages[page[p]].pid
SetPid(p, pid) == pages' = [pages EXCEPT ![page[p]].pid = pid]

----------------------------------------------------------------------------
(* switchToReplacedStreamPage and reloadReplacedPagesIfNeeded               *)

\* A complete replacement of the page p has
Replaced(p) == /\ pages[page[p]].reload
               /\ name # NoPage
               /\ pages[name].ready /\ ~pages[name].reload

SwitchTo(p, g) ==
    /\ page' = [page EXCEPT ![p] = g]
    /\ givenUp' = [givenUp EXCEPT ![p] = FALSE]

\* reloadReplacedPagesIfNeeded, called between operations: it opens whatever
\* the name leads to and waits until that is ready
Reload(p) ==
    /\ At(p, "idle")
    /\ pages[page[p]].reload
    /\ name # NoPage /\ pages[name].ready
    /\ SwitchTo(p, name)
    /\ UNCHANGED <<pageVars, lock, pc, orig, target, before, claimed, dead>>

----------------------------------------------------------------------------
(* The track list lock                                                      *)

\* Mutant: a claimant does not switch to the newest list page
TakeLockOnly(p) ==
    /\ At(p, "idle")
    /\ lock = Nobody
    /\ lock' = p
    /\ Goto(p, "locked")
    /\ UNCHANGED <<pageVars, page, givenUp, orig, target, before, claimed, dead>>

\* TrackListLock: take the lock, then use the newest list page
TakeLock(p) ==
    /\ At(p, "idle")
    /\ lock = Nobody
    /\ lock' = p
    /\ IF Replaced(p) THEN SwitchTo(p, name) ELSE UNCHANGED <<page, givenUp>>
    /\ Goto(p, "locked")
    /\ UNCHANGED <<pageVars, orig, target, before, claimed, dead>>

\* claimTrack on a track nobody claims
Claim(p) ==
    /\ At(p, "locked")
    /\ Pid(p) = Nobody
    /\ SetPid(p, p)
    /\ claimed' = claimed \union {p}
    /\ lock' = Nobody
    /\ Goto(p, "idle")
    /\ UNCHANGED <<made, name, page, orig, target, before, givenUp, dead>>

\* claimTrack on a claimed track, or an operation that appends to a list that is not full
Unlock(p) ==
    /\ At(p, "locked")
    /\ lock' = Nobody
    /\ Goto(p, "idle")
    /\ UNCHANGED <<pageVars, page, orig, target, before, givenUp, claimed, dead>>

----------------------------------------------------------------------------
(* resizeTrackList, by a process that holds the lock and adds a track       *)

\* Mutant: the list is grown after the lock is released
GrowFlagUnlocked(p) ==
    /\ At(p, "locked")
    /\ made < MaxPages
    /\ pages' = [pages EXCEPT ![page[p]].reload = TRUE]
    /\ lock' = Nobody
    /\ Goto(p, "copy")
    /\ UNCHANGED <<made, name, page, orig, target, before, givenUp, claimed, dead>>

\* stream.setReload(), then the fence
GrowFlag(p) ==
    /\ At(p, "locked")
    /\ made < MaxPages
    /\ pages' = [pages EXCEPT ![page[p]].reload = TRUE]
    /\ Goto(p, "copy")
    /\ UNCHANGED <<made, name, lock, page, orig, target, before, givenUp, claimed, dead>>

\* memcpy(orig, ...)
GrowCopy(p) ==
    /\ At(p, "copy")
    /\ orig' = [orig EXCEPT ![p] = Pid(p)]
    /\ Goto(p, "unlink")
    /\ UNCHANGED <<pageVars, lock, page, target, before, givenUp, claimed, dead>>

\* streamPage.init closes the old page as its master: the name is gone
GrowUnlink(p) ==
    /\ At(p, "unlink")
    /\ name' = NoPage
    /\ Goto(p, "create")
    /\ UNCHANGED <<pages, made, lock, page, orig, target, before, givenUp, claimed, dead>>

\* ... and creates the larger page; streamInit, flowFrom
GrowCreate(p) ==
    /\ At(p, "create")
    /\ made' = made + 1
    /\ pages' = [pages EXCEPT ![made'] = NewPage(orig[p])]
    /\ name' = made'
    /\ SwitchTo(p, made')
    /\ Goto(p, "ready")
    /\ UNCHANGED <<lock, orig, target, before, claimed, dead>>

\* stream.setReady(); the new track is added and the lock released
GrowReady(p) ==
    /\ At(p, "ready")
    /\ pages' = [pages EXCEPT ![page[p]].ready = TRUE]
    /\ lock' = Nobody
    /\ Goto(p, "idle")
    /\ UNCHANGED <<made, name, page, orig, target, before, givenUp, claimed, dead>>

----------------------------------------------------------------------------
(* Letting go of a claim                                                    *)

\* abandonTrack: only a claim that, on the page p has, is p's own
Abandon(p) ==
    /\ At(p, "idle")
    /\ p \in claimed
    /\ Pid(p) = p
    /\ claimed' = claimed \ {p}
    /\ target' = [target EXCEPT ![p] = p]
    /\ Goto(p, "read")
    /\ UNCHANGED <<pageVars, lock, page, orig, before, givenUp, dead>>

\* userOnDisconnect, or addOrResumeKeyedTrack: the owner is gone, break its claim.  The
\* claim is looked at here and cleared in the steps that follow
Break(p) ==
    /\ At(p, "idle")
    /\ p \in Breakers
    /\ Pid(p) \in dead
    /\ target' = [target EXCEPT ![p] = Pid(p)]
    /\ Goto(p, "read")
    /\ UNCHANGED <<pageVars, lock, page, orig, before, givenUp, claimed, dead>>

\* setSharedInt(pid, 0): before = getInt
ReadBefore(p) ==
    /\ At(p, "read")
    /\ before' = [before EXCEPT ![p] = Pid(p)]
    /\ Goto(p, "write")
    /\ UNCHANGED <<pageVars, lock, page, orig, target, givenUp, claimed, dead>>

\* setInt, then the fence; here and after every switch
Write(p) ==
    /\ At(p, "write")
    /\ SetPid(p, Nobody)
    /\ Goto(p, "flag")
    /\ UNCHANGED <<made, name, lock, page, orig, target, before, givenUp, claimed, dead>>

\* setSharedInt returns
Released(p) ==
    /\ claimed' = claimed \ ({target[p]} \intersect dead)
    /\ Goto(p, "idle")

\* The page is not flagged for reload, or its replacement was given up
FlagClear(p) ==
    /\ At(p, "flag")
    /\ ~pages[page[p]].reload \/ givenUp[p]
    /\ Released(p)
    /\ UNCHANGED <<pageVars, lock, page, orig, target, before, givenUp, dead>>

\* The page is flagged for reload: switchForWrite
FlagSet(p) ==
    /\ At(p, "flag")
    /\ pages[page[p]].reload /\ ~givenUp[p]
    /\ Goto(p, "switch")
    /\ UNCHANGED <<pageVars, lock, page, orig, target, before, givenUp, claimed, dead>>

\* ... switches once the replacement is complete
Switch(p) ==
    /\ At(p, "switch")
    /\ Replaced(p)
    /\ SwitchTo(p, name)
    /\ Goto(p, "compare")
    /\ UNCHANGED <<pageVars, lock, orig, target, before, claimed, dead>>

\* Mutant: the wait goes on although the replacement was given up
SwitchTimeoutWait(p) ==
    /\ At(p, "switch")
    /\ ~Replaced(p)
    /\ lock \in dead
    /\ givenUp' = [givenUp EXCEPT ![p] = TRUE]
    /\ UNCHANGED <<pageVars, lock, pc, page, orig, target, before, claimed, dead>>

\* ... gives up after a second: that is long enough for a process that grows the
\* list to finish, unless it died
SwitchTimeout(p) ==
    /\ At(p, "switch")
    /\ ~Replaced(p)
    /\ lock \in dead
    /\ givenUp' = [givenUp EXCEPT ![p] = TRUE]
    /\ Released(p)
    /\ UNCHANGED <<pageVars, lock, page, orig, target, before, dead>>

\* Mutant: the write is repeated whatever the replacement holds
CompareOtherRepeat(p) ==
    /\ At(p, "compare")
    /\ Pid(p) # before[p]
    /\ Goto(p, "write")
    /\ UNCHANGED <<pageVars, lock, page, orig, target, before, givenUp, claimed, dead>>

\* The replacement has another value than before: it holds this write or a newer one
CompareOther(p) ==
    /\ At(p, "compare")
    /\ Pid(p) # before[p]
    /\ Released(p)
    /\ UNCHANGED <<pageVars, lock, page, orig, target, before, givenUp, dead>>

\* Mutant: the write is not repeated
CompareSameDone(p) ==
    /\ At(p, "compare")
    /\ Pid(p) = before[p]
    /\ Released(p)
    /\ UNCHANGED <<pageVars, lock, page, orig, target, before, givenUp, dead>>

\* The copy missed the write: repeat it
CompareSame(p) ==
    /\ At(p, "compare")
    /\ Pid(p) = before[p]
    /\ Goto(p, "write")
    /\ UNCHANGED <<pageVars, lock, page, orig, target, before, givenUp, claimed, dead>>

----------------------------------------------------------------------------

\* A process dies; a lock it holds stays locked, its claim stays on the page
Die(p) ==
    /\ p \notin dead
    /\ dead' = dead \union {p}
    /\ UNCHANGED <<pageVars, lock, procVars, claimed>>

Locked(p) == \/ Claim(p) \/ Unlock(p) \/ GrowFlag(p) \/ GrowCopy(p)
             \/ GrowUnlink(p) \/ GrowCreate(p) \/ GrowReady(p)

Releasing(p) == \/ ReadBefore(p) \/ Write(p) \/ FlagClear(p) \/ FlagSet(p) \/ Switch(p)
                \/ SwitchTimeout(p) \/ CompareOther(p) \/ CompareSame(p)

Next == \E p \in Procs : \/ Reload(p) \/ TakeLock(p) \/ Locked(p)
                         \/ Abandon(p) \/ Break(p) \/ Releasing(p) \/ Die(p)

Spec == Init /\ [][Next]_vars

\* Operations that were started go on
FairSpec == /\ Spec
            /\ \A p \in Procs : WF_vars(Locked(p)) /\ WF_vars(Releasing(p))

----------------------------------------------------------------------------
(* Properties                                                               *)

\* Every variable has its type, and the lock is held by whoever is inside.
TypeOK ==
    /\ pages \in [Pages -> [ready : BOOLEAN, reload : BOOLEAN, pid : Procs \union {Nobody}]]
    /\ made \in Pages /\ name \in 0 .. made
    /\ lock \in Procs \union {Nobody}
    /\ pc \in [Procs -> PCs]
    /\ \A p \in Procs : pc[p] \in LockPCs => lock = p
    /\ page \in [Procs -> 1 .. made]
    /\ orig \in [Procs -> Procs \union {Nobody}]
    /\ target \in [Procs -> Procs \union {Nobody}]
    /\ before \in [Procs -> Procs \union {Nobody}]
    /\ givenUp \in [Procs -> BOOLEAN]
    /\ claimed \subseteq Procs /\ dead \subseteq Procs

\* A claim "holds, and nobody else gets the track": no two live processes claim
\* it at the same time.
ClaimExclusive == \A p, q \in claimed \ dead : p = q

\* Nobody grows the list or is about to release, or gave up its replacement
Quiet == /\ lock = Nobody
         /\ \A p \in Procs \ dead : pc[p] = "idle" /\ ~givenUp[p]

\* "No write is lost": a claim that was released, or broken because its owner
\* died, while the list grew is not on the list's newest page afterwards, unless
\* the process that died had not finished its release.
ReleaseKept ==
    Quiet => \/ pages[name].pid \in claimed \union {Nobody}
             \/ \E p \in dead : pages[name].pid = p /\ pc[p] # "idle"

\* A claim of a live process stays on the newest page until it lets go of it.
ClaimKept == Quiet => \A p \in claimed \ dead : pages[name].pid = p

\* A release never hangs: it ends although the process that was growing the
\* list died, unless its own process dies.
ReleaseEnds == \A p \in Procs : pc[p] \in ReleasePCs ~> (pc[p] = "idle" \/ p \in dead)

\* The claim that counts: the one on the newest list page, or on the copy that is
\* to replace it, from when it is made
Word == IF lock # Nobody /\ pc[lock] \in {"unlink", "create"} THEN orig[lock] ELSE pages[made].pid
Users == claimed \ dead

TheClaim == INSTANCE Lease WITH word <- Word, users <- Users

\* "a claim made before seeing the grown list holds, and nobody else gets the track":
\* the pages with their copies, switches and repeated writes are one word, which is
\* taken by one process at a time and cleared only after that process left.
ImplementsLease == TheClaim!Spec

----------------------------------------------------------------------------
(* The inductive invariant behind ClaimExclusive and ClaimKept, for one      *)
(* process that breaks claims                                                *)

\* Every list page but the newest is flagged; the newest is usable unless its
\* replacement is being made by the process that holds the lock
ListPages ==
    /\ \A g \in Pages : g < made => pages[g].reload
    /\ (lock = Nobody \/ pc[lock] = "locked") =>
          name = made /\ pages[made].ready /\ ~pages[made].reload
    /\ \A p \in Procs :
          /\ pc[p] \in LockPCs => page[p] = made
          /\ pc[p] \in {"copy", "unlink", "create"} => made < MaxPages /\ pages[made].reload
          /\ pc[p] = "ready" => name = made /\ ~pages[made].reload

\* A release clears one claim only: that of a process that let go or died
Releases ==
    \A p \in Procs \ dead : pc[p] \in ReleasePCs =>
        /\ \/ target[p] = p /\ p \notin claimed
           \/ p \in Breakers /\ target[p] \in dead
        /\ pc[p] \in {"read", "write"} => Pid(p) = target[p]
        /\ pc[p] # "read" => before[p] = target[p]

\* The claim of a live process is on the newest page and on its copy
Held ==
    \A q \in claimed \ dead :
        /\ pages[made].pid = q
        /\ \A p \in Procs : pc[p] \in {"unlink", "create"} => orig[p] = q

CInv == TypeOK /\ ListPages /\ Releases /\ Held

----------------------------------------------------------------------------
(* The inductive invariant behind ReleaseKept, under the same condition.    *)
(* Once the process that was growing the list is dead the lock is never     *)
(* free again, and nothing is promised.                                     *)

\* p's claim is on the newest page, or will be on the one that replaces it
Noted(q) == \/ pages[made].pid = q
            \/ \E p \in Procs : pc[p] \in {"unlink", "create"} /\ orig[p] = q

\* A replacement is given up only when it never comes
GivenUp == /\ name \in {made, NoPage}
           /\ \A p \in Procs : givenUp[p] => lock \in dead

\* What a release wrote, or found written, it has not to write again
Written ==
    \A p \in Procs \ dead :
        /\ pc[p] = "flag" => Pid(p) # target[p]
        /\ pc[p] = "compare" /\ Pid(p) # target[p] => ~Noted(target[p])

\* Only a process that is letting go of the track is noted without a claim
LettingGo == \A q \in Procs \ claimed : Noted(q) => pc[q] \in ReleasePCs /\ target[q] = q

RInv == CInv /\ GivenUp /\ Written /\ (lock \in dead \/ LettingGo)
=============================================================================
