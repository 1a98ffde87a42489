# MistServer: models of the stream core

MistServer is a media server made of many processes: a controller, one input
(with the stream's buffer) per stream, one output per viewer or push, one session
process per viewer session, and helper processes that transcode or analyse. They
share no threads and hardly any sockets. What they share is **named shared
memory** (pages) and **named semaphores**, written by several processes with plain
loads and stores, and every one of them may die at any instruction. The models in
this directory are about that: who may use a record of a page, who serves a session or a
stream, who may write a track, when the data of a stream may be deleted, and who still
knows a process when the one that started it is gone.

Contents: [parts](#the-parts-of-the-system), [modules](#the-modules),
[runs](#the-runs), [proofs](#the-proofs), [findings](#disagreements-found),
[limits](#what-is-not-modelled), [plan](#the-plan). `PROJECT.json` names the source
lines of every definition (`map`), the hazards, and one mutant per checked property.

To repeat the checks: `tlc -config X.cfg M` for the pairs in the table of runs, and
`tlapm M.tla` for `Extrema` and the seven modules whose names end in `Proofs`.

## The parts of the system

Paths are relative to the repository. *State* is what others can see.

| part | state | operations | shares it with |
|---|---|---|---|
| **Communication pages** `lib/comms.*` | a page of records with a status byte and a pid; the record count `endPos`; an exit flag; a semaphore | `Comms::reload` (claim), `unload`/`~Comms` (give back), `COMM_LOOP` (the master's walk), `setRecordCount`, `finishAll`, disconnect requests | every process: Users page of a stream, Connections page of a session, Sessions page of the controller |
| **Viewer sessions** `src/session.cpp`, `Connections::reload` | a semaphore and a page by the session's id; the session's record on the Sessions page | boot, registration, USER_NEW, loop, rejection, teardown, USER_END | connections that boot and join it, the controller that cleans up |
| **Stream start** `lib/stream.*`, **inputs** `input/input.*`, **always-on streams** `controller_streams.*`, `controller_always_on_policy.h` | the stream's state page, its input's pid page, the `SEM_INPUT` semaphore | `startInput` with `streamAlive` and `getStreamStatus`; `Input::boot` (angel), the child's life; `checkStream` (start, adopt, skip, reclaim) | outputs, controller |
| **Stream metadata** `lib/dtsc.*` (`DTSC::Meta`) | the track list page; per track a page with rings of parts, keys, fragments and pages; claims (`pid`) and validity of tracks | `addTrack`/resume, `claimTrack`, `abandonTrack`, `breakClaim`, `resizeTrackList`, `resizeTrack`, `update`, `removeFirstKey`, `validateTrack` | inputs, processes, outputs |
| **Live track data** `src/io.*` (`InOutBase`) | data pages by track and first key | `bufferLivePacket`, `bufferStart`, `bufferNext`, `bufferRemove`, `bufferFinalize` | producers, the buffer, readers |
| **Stream buffer** `input_buffer.*`, **process supervision** `process_supervisor.h`, `processing_lifecycle.h` | the Users page; the processes it runs; `resumeUntil` of tracks, the end-of-source flags, the stream's state | a tick: `checkProcesses`, `userOnActive`/`userOnDisconnect`, `userLeadOut`, `removeUnused`; `removeKey`, `removeTrack` | producers, viewers, processes |
| **Controller: connectors** `controller_connectors.*`, `connector_handover.h` | the connectors page; one process per configured protocol | `CheckProtocols`: stop, wait, kill, start, save; taking over after a rolling restart; shutdown | connectors, the next controller |
| **Outputs and readers** `output/output.*` | own packet buffer; a record per page | `loadPageForKey`, `pageNumForKey`, `prepareNext`, `seek`, `stats`, pushes | metadata, data pages, sessions |
| **Controller: statistics** `controller_statistics.*` | Sessions page, totals per stream and protocol | `statOnActive`, `statOnDisconnect`, API reports | sessions |
| **Memory-mapped records** `lib/util.*` (`RelAccX`) | header (`hdrPresent`, `hdrEndPos`, `hdrDeleted`, ready/exit/reload) and fields | `addRecords`, `deleteRecords`, `setReload`, `setReady` | everything above |
| **Shared memory** `lib/shared_memory.*` | names of pages and semaphores | `open`, `unlink`, `tryWait`, `post`, page `init`/`close` | everything above |
| Process graph `process_graph.h`, buffer holds `buffer_hold.h`, controller configuration, pushes, API | which process feeds which; how far recordings are; configuration pages, active pushes | ordering and replacing processes; holding keys; reload, push reaping | all processes |
| Triggers, child processes, sockets, containers, codecs, devices, utilities | none that is shared | parsing, formatting, I/O | - |

### What is hard, and what makes each part correct

* **Communication pages.** A free record is found before the semaphore is taken;
  the status byte is read, changed and written without it by three parties; the pid of a
  record is looked at after its status; processes die with the semaphore, or in the middle
  of a claim. Correct means: a record belongs to one client at a time and goes to the next
  one through the master's `onDisconnect`; the dead are noticed; a stopping master signals
  nobody it must not.
* **Sessions.** Names are unlinked while others hold the objects behind them, so two
  processes may lock two semaphores of the same name. One second stands for "crashed",
  fifteen for "nobody is there". Correct means: one process serves, its names lead to
  it, who is connected is accounted for, nothing is left behind.
* **Stream start.** Two starters race, the lock of a dead angel is taken away by name while
  its child still serves, a state page outlives its input. Correct means: one input
  serves, an input that ended leaves nothing that looks like one, and an always-on stream
  comes back.
* **Claims on tracks.** Claims are made under a lock, released and broken without one, on
  a page that a third process may be replacing by a larger copy. Correct means: at most
  one live owner, no lost claim, no lost release, no release that hangs.
* **Track data.** Producer, buffer and readers use the same rings with no lock at all;
  records of different rings refer to each other by counting. Correct means: a key in the
  metadata can be found, on a page that exists and holds it; the page being written on is
  not deleted; no page is forgotten; a reader is never led to a wrong page.
* **Buffer and processes.** The buffer learns of everything a quarter of a second late: who left,
  whose track that was, which process died. Meanwhile the next one is at work.
  Correct means: nobody at work loses the track, whoever does is told; readers know whom to
  wait for, and until when; a stream whose source ended drains.
* **Connectors.** A replacement must wait for a port, the old owner may ignore its signal,
  and the list of those being stopped does not survive a rolling restart. Correct means:
  one listener at an address, no connector that nobody will ever stop, and what is configured
  listens at last.

## The modules

| module | models | its state | relation |
|---|---|---|---|
| `Registry` | what a communications page promises | records taken, who holds which | abstract specification |
| `Comms` | `lib/comms.*`, `removeTrack`'s request, the poll of outputs | status bytes, pids, `endPos`, exit flag, semaphore; locals of clients and master | implements `Registry` |
| `SessionBoot` | `session.cpp`, `Connections::reload`, `statOnDisconnect` | two names, numbered semaphores and pages, processes, connections, the controller | claiming a record is one step; `Comms` has its details |
| `StreamStart` | `startInput`, `Input::boot`, `checkStream` | `SEM_INPUT`'s name and semaphores, state and pid page, angels, children, starters, the controller | what runs before a `StreamBuffer` |
| `Lease` | what the claim on a track promises | the word, who relies on it | abstract specification |
| `TrackClaim` | `claimTrack`, `abandonTrack`, `breakClaim`, `setSharedInt`, `switchForWrite`, `resizeTrackList` | list pages by number, the name, the lock, per process its page and locals | implements `Lease` |
| `KeyWindow` | what a track promises its readers | keys announced, keys that can be read, the reader's | abstract specification |
| `LiveTrack` | `bufferLivePacket`, `bufferStart/Next/Remove`, `Meta::update`, `removeFirstKey`, `removeUnused`, `pageNumForKey` | rings of pages, keys and parts, data pages, locals of producer, buffer and reader | implements `KeyWindow`; claims (`TrackClaim`) guarantee its single producer |
| `StreamBuffer` | the buffer's tick with `process_supervisor.h` and `processing_lifecycle.h`; publishers, processes and a viewer as the buffer sees them | tracks with claim, hold and deadline; records; the process and its restart; end of the source; the walk | composes what `Comms` (records), `TrackClaim` (claims) and `LiveTrack` (data) have in detail, one step each |
| `Connectors` | `CheckProtocols`, the connectors page, restart and shutdown of the controller | configuration, the pass, current and stopping connectors, page, processes | - |
| `Extrema`, `*Proofs` | lemmas, theorems | | extend the module they are named after |
| `MC*` | instances for TLC | | extend the module they are named after |

**Steps.** An action is one access to shared memory by one process, or a run of accesses
that nobody can observe in between (everything under the same lock that is only read
under that lock, or a write to a page nobody else has). Where the code reads a byte and
writes it back there are two actions (`LeaveRead`/`LeaveWrite`, `RequestRead`/`RequestWrite`,
`FinishRead`/`FinishWrite`), and the value read is a variable (`crd`, `mrd`).
Program counters (`cpc`, `mpc`, `ppc`, `apc`, `spc`, `kpc`, `wpc`, `bpc`, `rpc`) are named for what
comes next. Dying is an action that may happen at every program counter (in `SessionBoot`, at those
the setting names); what a dead process locked stays locked.

**Comms.** `Open .. Grow` are `Comms::reload` of a client, `EnterUser` is what
`Users::reload` adds, `LeaveRead/LeaveWrite` are `unload`; `LoopStart .. setRecordCount`
are one `COMM_LOOP`, `finishAll .. FinishRound` are `finishAll` up to the removal of the
page. `Spawn` reuses a pid once no record carries it. The status byte is a set of flags.

**SessionBoot.** Objects behind names are numbered; a number may be used again only when
nobody has the object. `Settled` is the one assumption about time: when the 15 seconds of
`STATS_DELAY` without connections have passed, boots, unlinks, USER_END and controller
clean-ups that had begun before are over, and no client is still waiting at a free
semaphore. `TimesOut` says when a wait of one second can fail: the semaphore is held, and by
nobody who is sure to be quicker. What may go wrong is a constant of the behaviour, `setting`:
`upset` (stops, rejections, a USER_NEW of more than a second), `crashAt` (where
processes may die), and how many connections and processes there are.

**StreamStart.** An input is an angel and its child. `SEM_INPUT` is a name; `semName` says which of the
numbered semaphores it leads to, because `checkStream` unlinks it (`ReleaseAbandonedLock`) while angels and starters
hold what it led to. `streamAlive` takes the semaphore (`ProbeTakes`) and posts it again (`ProbePosts`), two steps
between which everybody else finds it taken. The state page is found by name too: `mapped` are the inputs
that still write to the page of that name. Time is `Age` (fifteen seconds pass for `since`, the
controller's `alwaysOnUnadopted` entry), possible only when everything that takes less is
done (`Settled`; boots and waits are bounded, serving is not) and the checks that come in
between would leave the entry alone (`EntryStays`).

**TrackClaim.** One track. List pages are numbered as they are created; the *name* leads to
one or to none. `GrowFlag .. GrowReady` are `resizeTrackList`; `ReadBefore .. CompareSame`
are `setSharedInt` with its loop. Memory is sequentially consistent: the code has full
fences after the two writes that matter. The one-second limit of `switchForWrite` passes
only when the process that was growing the list died.

**LiveTrack.** Key, part and page numbers are unbounded counters, rings are windows on
them; numbers wrap at `Wrap`, which stands for 2^32 and matters because `keycount` may be
decremented below zero and `firstkey + keycount - 1` is computed without a sign. `Start ..
AddToKey` follow a packet in the order of the writes: page record, data page, `keycount`,
data, `avail`, part, key, the key's part count. The buffer removes parts, then the key,
then the page's data, then its record. When the buffer may remove a key is left open (any
key but the last one, although the code keeps more), which adds behaviours and removes none.
For the refinement, `stored` are the keys that `pageNumForKey` leads to data for; `Put` is the
window's `Store`, `AddKey` its `Announce`, `RemoveKey` its `Retire`, and
`UnlinkPage` its `Drop`.

**StreamBuffer.** A tick is `userLeadIn` (look after the process: collect, release, start), one
`userOnActive` or `userOnDisconnect` per record in the order of the page, `userLeadOut`, and
`removeUnused`; everybody else moves between any two of these. Whether a record belongs to a
process or a publisher is decided once, when it is first seen (`procUsers`, `srcUsers`). Tracks have
a claim, the buffer's hold with its deadline (`hold`), and what readers see of it (`until`).
A restart is due after a delay (`next`), its policy and the mode of the stream are part of
`setting`. When a source left, the buffer looks whether the claim is still that source's (`FindsClaim`) and breaks it in
a step of its own (`Freed`), between which anybody may move. Three assumptions on time: a process lives longer than it takes a tick to see its record
(`WasSeen`; `hasty` drops it); tracks idle out only when all that takes
less than their timeout is done (`Settled`); and no process breaks the claim of a dead one between those two steps
of the buffer, a few instructions apart (`together` drops it). `Alive` is a process that still works, `Running` one that has not exited (`isActive`).

**Connectors.** A pass of `CheckProtocols` goes configuration by configuration, in the order of the
strings; `AfterErase` is the loop's `it = begin()` and `it++` after an erase. A stopping connector
is *young* until its grace period is over, then `Handover` kills it. `Reload` and `Load` are the two
ends of a rolling restart: which connectors the old controller leaves, and which of those on the
page the next one finds alive. `Crash` is a kill of the controller, unless `AnyCrash` only
when the page says what runs.

## The runs

All properties are checked with the mutants in `PROJECT.json`: each is violated once the
definition named there is changed as a plausible slip would change it.

| run | module, cfg | checks | distinct states |
|---|---|---|---|
| `comms_safety` | `MCComms`, `MCComms.cfg` | `TypeOK`, `RecordKept`, `NoKillSafe`, `ImplementsRegistry` | 534,105 |
| `comms_liveness` | `MCComms`, `MCCommsLive.cfg` | `DeadReclaimed`, `FinishEmpties` | 8,354 |
| `session_safe` | `MCSessionBoot`, `MCSessionBoot.cfg` | `TypeOK`, `OneServes`, `Joinable`, `Accounted`, `CleanedUp` | 338,404 (up to symmetry) |
| `stream_start` | `MCStreamStart`, `MCStreamStart.cfg` | `TypeOK`, `OneInput`, `NothingLeft`, `AlwaysOnReclaimed` | 162,455 |
| `stream_stuck` | `MCStreamStart`, `MCStreamStuck.cfg` | `AlwaysOnReturns`: **violated** | |
| `track_claim` | `MCTrackClaim`, `MCTrackClaim.cfg` | `TypeOK`, `ClaimExclusive`, `ReleaseKept`, `ClaimKept`, `ReleaseEnds`, `ImplementsLease` | 326,506 |
| `track_break` | `MCTrackClaim`, `MCTrackClaimBreak.cfg` | `ClaimExclusive`: **violated** | |
| `live_track` | `MCLiveTrack`, `MCLiveTrack.cfg` | `TypeOK`, `KeyReachable`, `LivePageKept`, `PartsAligned`, `NoPageLeft`, `ReaderRight`, `ImplementsWindow` | 1,207,022 |
| `stream_buffer` | `MCStreamBuffer`, `MCStreamBuffer.cfg` | `TypeOK`, `ProcessesAreKnown`, `AskedToLeave`, `ProducersFinished`, `ReaderWaits`, `KeepsClaim`, `Drains` | 327,738 |
| `stream_buffer_eof` | `MCStreamBuffer`, `MCStreamBufferEof.cfg` | `EofEndsTracks`: **violated** | |
| `connectors` | `MCConnectors`, `MCConnectors.cfg` | `TypeOK`, `OneListener`, `Known`, `NoneLeft`, `Served` | 175,140 |
| `connectors_skip` | `MCConnectors`, `MCConnectorsSkip.cfg` | `OneListener`: **violated** | |

### What they show

* `comms_safety`: two clients, one with NOKILL, race for two records while the master
  loops, asks and finishes. A running client keeps its record (`RecordKept`), no NOKILL
  process is signalled (`NoKillSafe`), and seen from outside the page is a `Registry`: a
  record goes from free to one client, from it to nobody, and only then through the master
  back to free.
* `comms_liveness`: the record of a dead process is freed, unless the process took the
  semaphore with it, the record is hidden above `endPos`, or the master is stopping.
  A client that claims a record on a page already flagged exit does not stay.
* `session_safe`: three kinds of behaviours. While nothing upsets the session, one process serves
  (`OneServes`) and both names lead to it (`Joinable`). With stops, rejections and slow
  triggers, whoever is on a page that is not flagged exit is accounted for (`Accounted`). Where processes
  die once they serve or end, still one serves, and no page stays for good (`CleanedUp`).
* `stream_start`: two viewers, or the controller, start a stream whose inputs end, crash and
  are killed. In these settings, and with two faults at most, never do two inputs serve (`OneInput`; a viewer beside the
  controller breaks it, see below). If nobody was killed, nothing is left that looks like a
  served stream (`NothingLeft`). The controller starts the stream again and again,
  whatever the dead left taken (`AlwaysOnReclaimed`), but for a state page, see `stream_stuck`.
* `track_claim`: with one process that breaks the claims of the dead, no two live
  processes claim the track; at rest, the newest list page says what was claimed and
  released; seen from outside the pages are a `Lease`; and a release ends although the list's
  replacement never comes.
* `live_track`: until a page fails to open or a producer dies within a packet, every key in the
  metadata is found on a page that has it, at every instant; the producer's page is not
  deleted; every data page has a record that leads to its deletion; a reader that opens a
  page finds its key there; and seen by its readers the track is a `KeyWindow`: data is stored before its
  key is announced and deleted only after the key was retired. Whatever fails, the windows stay in order, and (but for a
  death within a packet) parts are matched to the right keys.
* `stream_buffer`: seven streams, one of them with `together`. A source at work keeps its claim although the record of the one before
  is handled late (`KeepsClaim`, stated for streams without `together`; the others hold with it); a process is never taken for a publisher (`ProcessesAreKnown`);
  a source whose track went is asked to come back (`AskedToLeave`); readers are told that the
  producers are finished only when they are (`ProducersFinished`), and until when
  to wait for one that returns (`ReaderWaits`); when the source ended and nobody
  watches, the stream ends (`Drains`).
* `connectors`: with one connector changed at a time, none is started while another has its address
  (`OneListener`); each is known to a controller or named by the page (`Known`); none outlives a
  shutdown (`NoneLeft`); what is configured listens at last, though its predecessor ignored its
  signal and the controller was killed (`Served`).

### Bounds and why they suffice

* **Comms**: 2 clients, 2 records, `Rounds` 3 for 8, `KillAfter` 1 for 4. A race
  needs two claimants and the master; a third client only repeats what one of them can do
  after it died and was spawned anew. Two records are the fewest that have a record above
  `maxRec` to trim. `comms_liveness` has one record, so that clients also meet a full page.
  The proofs remove these bounds.
* **SessionBoot**: `Crowd` has 3 processes and 2 connections at a time, the others 2 and 1;
  those that ended come back as the next ones, so behaviours are as long as one likes. Three
  processes are one that ends, one that serves, one that boots. Four numbers for the objects
  of a kind are never used up: with six or seven the runs have the same states.
  `CHECK_DEADLOCK FALSE` because all connections may be waiting on a dead semaphore.
  The proofs remove the bounds on connections and processes.
* **StreamStart**: 2 inputs, each reused when gone; two starters race for them, so a third input
  would only find the lock taken as the second does. 4 semaphores are never used up. 2 faults: one that leaves
  the lock taken and one while the controller takes it away. `CHECK_DEADLOCK FALSE` since without
  another wish to watch a viewer's stream may stay as it is.
* **TrackClaim**: 3 processes (an owner, one who breaks or grows, one who claims next),
  one replacement of the list. With two replacements (`MaxPages = 3`, 5.2 million states)
  all invariants were also found to hold. Deadlock is not checked because all
  processes may die.
* **LiveTrack**: 4 keys, 2 page slots, 4 pages: the ring of pages wraps twice and a key
  lies before, on and behind a page border; a non-key packet is only added below part
  `MaxParts`. One fault per behaviour, so that its effect is not mixed with another's. Runs with 4 keys, 3
  parts (2.4 million states), 3 slots (1.6 million) and 5 keys without faults (0.6 million) gave
  the same verdicts. Deadlock is not checked because the bounds stop the producer.
* **StreamBuffer**: the seven streams of `Streams`: process-controlled ones with restarts, with a
  changed description, and without restarts; resumable ones with a process and with two publishers; a
  plain one. Two processes are needed for one that died and one that was started after it, two publishers for one
  that comes back; 3 tracks for a source, its output, and a replacement; one death, idle
  timeout or passed deadline. The order of the records matters (the walk meets them one
  after the other) and is part of each stream. Deadlock is not checked because a stream that shut down is over.
* **Connectors**: 3 configurations (two of one listener, one without an address), 3 processes, so one
  that will not end, its replacement and another; 3 changes or restarts and 2 faults. `MaxRemoved` 1 is what
  the finding `connectors_skip` makes necessary. The run checks deadlock.

### Fairness

* `comms_liveness`: a running client goes on inside the scope of its semGuard, its reload
  and its unload, and polls its record (`Output::stats`, once a second); the master runs
  `COMM_LOOP` once a second (strong fairness of `LoopStart`, since other work of the master
  comes in between) and goes on with a loop it started. Nobody has to claim,
  die, leave on its own or be spawned. Strong fairness of `setRecordCount` stands for the
  semaphore, which wakes those that wait.
* `stream_start`: every wait of an angel, child or starter is bounded, and the controller calls
  `checkStream` every few seconds (weak fairness). Time passes (strong fairness of `Age`, which is possible
  only between two checks). Nothing makes a viewer come, an input end or a process die.
* `track_claim`: an operation that was started goes on (`Locked`, `Releasing`).
* `stream_buffer`: the buffer ticks every 250 ms (weak fairness of `Tick`); a
  process that is there registers what it claimed, and lets go of it and exits when its input
  has ended (`GoesOn`), as `processing_lifecycle.h` has it do. No restart, death or viewer is needed.
* `connectors`: a pass comes every three seconds, an exiting controller exits and the angel starts the
  next one, time passes for each process, and a connector that was started binds or fails to. Nothing makes
  a connector end when it is told to.
* `comms_safety`, `session_safe` and `live_track` assume no fairness.

## The proofs

For every value of the constants, under the named assumptions (`CommsAssumption`,
`SessionAssumption`, `StartAssumption`, `ClaimAssumption`, `LiveTrackAssumption`, `StreamBufferAssumption`,
`ConnectorsAssumption`), which only say that bounds are numbers, that subsets are
subsets, that processes are finitely many where they are counted or searched, that the
names for nobody are none of them, and that a configuration binds an address once.

**CommsProofs.** `CommsInvariant`: `IInv` is inductive. `RecordKept` alone is not, since a
record is claimed in three writes and judged by values read earlier. `IInv` adds
* `Bounds`: indices in use are on the page,
* `Claims`: whoever is between the claim and the end of its semGuard holds the semaphore, and
  the record it writes was free,
* `Owners`: a record in use names a client,
* `MasterSees`: the record at which the master stands is in use, and when the status
  it *read* had DISCONNECT, no running client owns the record *now*,
* `NoKillKept`: NOKILL survives each of the read-modify-writes.

From it follow `CommsTypeOK`, `CommsRecordKept`, `CommsNoKillSafe`, and
`CommsImplementsRegistry`: `Mark` is the registry's `Take`, `LeaveWrite` and `Crash` of a
registered client are its `Leave`, `LoopReap` is its `Free`, everything else stutters.

**SessionBootProofs.** Three invariants, each with more hypotheses than the one before.
* `TInv`, without any: who holds a semaphore is the only one and it is at zero (`Locks`), so
  it is never posted above one, although processes that gave up post as well (`SessionTypeOK`).
* `AInv`: while nobody dies, every page that somebody is on, or could find, and that is not
  flagged exit is served (`PagesServed`). It does not speak of names and
  semaphores, which is why stops, rejections and slow triggers do not matter (`SessionAccounted`).
* `CInv`, for settings where nothing upsets the session (`AllCalm`): whoever holds a lock
  holds the one of the *name*, and a semaphore that lost its name was taken for good
  (`NamedLock`), which is what makes two locks of one name harmless; one process owns
  the session from the check of its page to the last unlink (`OneOwner`); it ends when all
  records of earlier ones were handled (`EndsAlone`), so that the controller never comes
  late (`Records`). From it: `SessionOneServes`, `SessionJoinable`, `SessionCleanedUp`.
  The hypothesis cannot be dropped, see below what was seen without.

**StreamStartProofs.** `SInv` (a probed semaphore is taken, by that starter alone; who is past the
open has a lock) gives `StartTypeOK` for all starters. `VInv` gives `StartOneInput` when only viewers
start the stream: the owner of the stream holds the semaphore of the name (`Owner`), through its death too, for
then the semaphore stays taken; and the angels that opened one which has lost its name since
never get it (`Nameless`). The one step that does not keep `VInv` is the controller's
`releaseAbandonedLock`, which takes the name of a lock away.

`StartNothingLeft` is about inputs that end by themselves, for viewers in any number or the
controller alone (`AloneOrNot`, the settings of the run). `NInv` is `VInv` and, as long as nothing
failed: a child has its angel, and who took a semaphore to look at it is about to post it (`Paired`); without an owner there are no pages,
and the lock is free or being looked at (`Cleared`); at each step of an angel, which pages it has made or removed
(`Stages`); the controller knows the input there is, at each step of a start (`Knows`). Hence a check that gets past
"the input I know runs" finds no input at all, never finds the lock taken, and `releaseAbandonedLock` has nothing to take away. This also gives
`StartOneInputNoFaults`: `OneInput` until something fails, for the controller too. With faults and the
controller `OneInput` is no theorem: TLC finds none with two faults and a violation with three, see below.

**TrackClaimProofs.** Under one more hypothesis, `OneBreaker`: at most one process breaks the
claims of the dead. It cannot be dropped, `track_break` is the counterexample. `ClaimInvariant`:
`CInv`, written at the end of `TrackClaim`, is inductive. The claim is a field that is cleared
without a lock, so what must be known is *whose* claim each of several concurrent releases
is about to clear, and on which of the list's pages:
* `ListPages`: every page but the newest is flagged for reload, and the newest is complete and
  carries the name unless the lock's holder is replacing it, so whoever takes the lock uses it,
* `Releases`: a release has as its target a process that let go of the track or, for the one breaker,
  a dead one; until it has written, the page it writes to still names that target. Two
  releases hence never have the same target, which is where `OneBreaker` is used,
* `Held`: the claim of a live process is on the newest page and in the copy that is to replace it.

From it follow `ClaimIsExclusive` and `ClaimIsKept`. `ClaimTypeOK` needs no hypothesis: it is inductive with
what the list's growth has checked before it numbers a page (`TInv`, in `TrackClaimProofs`).

`ClaimReleaseKept` needs the converse of `Held`: not that who claims the track is noted, but that nobody else is.
`RInv` adds to `CInv`: who is noted, on the newest page or in the copy that will replace it, without a claim is letting go, and
of that claim (`LettingGo`); a release that found its target gone from its page will not find it noted
anywhere, so it need not write again (`Written`); and a replacement is given up only when it never comes
(`GivenUp`). When the process that replaces the list dies with the lock, the lock is never free again and
nothing is claimed, in the property or here. `OneBreaker` is necessary here as well: with two breakers, one that dies between
its write and the repetition of it leaves the claim of a dead process in the copy, and the
other had found it gone (21 steps).

`ClaimImplementsLease`: the word of `Lease` is the claim on the newest page, or on the copy that is to replace
it from when that is made (`Word`), and its users are the live processes that claimed the track. `Claim` is `Take`,
`Abandon` and `Die` are `Leave`, and a `Write` that hits the word is `Clear`, which `CInv` allows because what is written
over is the claim of the release's target; the copy, the new page and the switches stutter. Writes to an old page do not
count, which is why they must be repeated.

**LiveTrackProofs.** `LiveTrackInvariant`: `LInv` is inductive. `PartsAligned` says
that two counters agree with the first and the last key. For a removal to keep that, the
first part of the *second* key must be where the first key ends, so `LInv` has `Chain`: keys
follow each other without a gap. Its second conjunct (each key begins after every earlier
one ends) follows from the first by induction; having it in the invariant makes the
induction one over steps. `KeyThere` says where a key must exist (once there was one, the
buffer leaves one), and `Counted` says what each counter is, with the part that is being added and
the key that is being removed; after a death within a packet only "no fewer" remains,
which is still enough for the windows to stay in order. From it follow `LiveTrackTypeOK` and
`LiveTrackPartsAligned`.

What readers see depends on the pages. `LiveTrackPages`: `WInv`, which is `LInv` and, while nothing
failed (`torn = {}`), `PInv`, is inductive. The properties look a key up among the records; `PInv` says
where that search must end, at each step of producer, buffer and reader:
* `Pages`: records follow each other without a gap, and all but the last hold keys and data. As for
  `Chain`, a second conjunct (an earlier page ends before a later one begins) spares an induction,
* `LastPage`: the last record is the producer's and ends with the last key, or with the one that is being
  added; whether it has keys and data yet follows from where the producer is (`Fresh`). This is why a page
  with no key yet is never taken for spent,
* `FirstPage`: the first record holds the first key, or the key that was removed just now, until the page is
  kept or gone,
* `Files` and `Stored`: the data pages are those of the records, except the one whose record is being added
  or removed, and each holds the keys of its record,
* `Removed` and `Reading`: the reader may look at a slot whose record was deleted and whose number was given
  to another page; what it combines leads to the page it meant, or to one that is gone for good (`Known`).

From it follow `LiveTrackKeyReachable`, `LiveTrackLivePageKept`, `LiveTrackNoPageLeft`, `LiveTrackReaderRight`, and
`LiveTrackImplementsWindow`, for rings of any size and any number of keys, parts and pages. That a search which picks the least record of a set finds one
(`Extrema!Least`, `Greatest`) comes from the well-foundedness of `<` on the naturals.

**StreamBufferProofs.** `BInv` is inductive. The properties relate what the buffer remembers to what
others have done since, so `BInv` says how old a memory can be: whose record is marked as left has
left, and only such a record is let go of (`Left`); a record is what it was first seen as, for as long as it is there, and
the process is never among the publishers (`Kinds`); every process that is there is
the one the buffer runs, and its record is known, or it still is that one (`KnownProcess`);
once the producers were called finished there is no process and none will be started (`NoneStarts`).
From it `BufferTypeOK`, `BufferProcessesAreKnown`, `BufferProducersFinished`, and with `Owned` (who works on a track
has one) and `Breaking` (the claim the buffer is about to break is still the one it looked at, unless the stream is
`together`) the action property `BufferKeepsClaim`, for streams with any number of publishers, processes and tracks, in any
order of the records.

Two properties relate tracks to the sources that work on them. They need that a tick sees the record of each process
before the process ends, and their invariants that nobody loses a claim (`Calm`: no setting is `hasty` or `together`); TLC violates both where
a setting is `hasty`, and finds both to hold where it is only `together`. `TInv` adds to `BInv` that
a source at work has its track for itself (`OwnClaims`), and that publishers have source tracks and processes
outputs, whoever the track is left to (`TrackKinds`).
* `BufferAskedToLeave`: `AInv`. `removeTrack` asks the first source record of the track to leave, so a
  record of an earlier session that still names the track must not be taken for the source at
  work: `AtWork` says that a track idles out only when no other record names it, `OthersSeen` that beside the
  publisher at work all records were seen by a tick. For the first two publishers of a stream `TwoSessions`
  has that from the ticks themselves, for a retained track comes only from a tick. From the third on it is a
  hypothesis, `Orderly`: a publisher comes after a tick has seen the records of those before it. It cannot be dropped, see below.
* `BufferReaderWaits`: `WInv`. Outputs come one after the other, and only the newest is claimed (`NewestClaimed`);
  the output of a process that was seen and is on has a deadline or was waited for long enough already, and whoever
  is not retired may return (`Promised`). So the deadline is there before its process can die, which is what the property asks of a death
  between two ticks.

**ConnectorsProofs.** `ConnectorsTypeOK` without hypotheses. If the controller is not killed while the page is
behind (`~AnyCrash`), `KInv` is inductive: `Managed` says who lists a connector
that runs, in a pass, while the controller exits, and between two controllers; from it
`ConnectorsKnown` and `ConnectorsNoneLeft`. If besides one running connector at most is taken out of the
configuration at a time (`MaxRemoved <= 1`), `OInv` is inductive: what is still to be stopped is still to be visited in this
pass (`Visits`), the page differs from the list only in a pass that did something (`Saved`), and, with
the page of a restart in mind, there is one connector to stop at most (`OneToStop`); from it
`ConnectorsOneListener`. Both hypotheses are necessary: `connectors_skip` is the counterexample without the second, `AnyCrash = TRUE` shows
one without the first.

**Model-checked only.** Everything temporal that needs fairness (`DeadReclaimed`, `FinishEmpties`, `ReleaseEnds`,
`AlwaysOnReclaimed`, `Served`, `Drains`): liveness under fairness and ENABLED are beyond the prover. All invariants of the
runs are proved, some under a hypothesis on the settings, as said above. Where the run's settings go beyond it they are
model-checked: `OneInput` when the controller starts the stream and inputs fail; `CleanedUp` of
`SessionBoot` where processes die or are upset.

## Disagreements found

1. `track_break`: two processes that break the claim of the same dead owner; the
   slower one destroys the claim made in between (`dtsc.cpp:2417`, `input_buffer.cpp:1013`). `StreamBuffer` meets the
   same with the buffer as the slower one, see `together` below.
2. `stream_stuck`: "the stream is reclaimed instead of skipped for good"
   (`controller_always_on_policy.h:28`). `checkStream` returns for a state that says the input boots or
   serves before it asks that policy (`controller_streams.cpp:134-150`), so a state page that
   outlives a killed input keeps an always-on stream off until an output starts it.
3. `connectors_skip`: after an erase, `it = begin()` and the loop's `it++` skip the first connector that is
   left (`controller_connectors.cpp:200`). Of two that changed, the second is not stopped in this pass,
   and its replacement is started at once, on a port that is taken: "Two configurations with the
   same key cannot run at the same time" (`connector_handover.h:13`).
4. `stream_buffer_eof`: after the end of the source a reader drops a track nobody claims, for "its
   producer is gone and none will start again" (`output.cpp:3071`). A process that was
   started before the end comes back and claims it, as the buffer expects (`input_buffer.cpp:489`).

Seen with other constants, and not kept as runs:

* `COMM_LOOP` trims the record count to the highest record it *saw* (`lib/comms.h:26`). A record
  claimed below the old count, behind the loop, is cut off: neither `COMM_LOOP` nor
  `finishAll` sees its owner until a later claim grows the count.
* **SessionBoot.** A session that dies in USER_NEW (`crashAt` with `"trigger"`) holds the lock, so the controller
  gives up after a second and unlinks only the semaphore. The page stays, and every later
  connection of that session finds it, boots nothing and fails (`CleanedUp`). The controller's `unlink()` closes a
  semaphore it holds without a post: a connection that had opened it, and then finds the
  page of the next session, waits in `semGuard` for ever (`comms.cpp:332`). Without its condition,
  `OneServes` fails with three processes: a rejected session, which sleeps a second time *after* its names were unlinked
  (`session.cpp:485`), ends so late that the controller unlinks, by name, the semaphore of the session after it;
  stops do the same with two. `Joinable` fails with a slow USER_NEW (the controller takes the
  session for crashed and unlinks its semaphore, `controller_statistics.cpp:1137`), and with
  deaths, three processes and two connections. A connection that holds the free semaphore of the previous
  session gets onto the next one's page before USER_NEW has decided. `Accounted` fails as
  soon as a serving process dies: nothing in the code claims otherwise.
* **StreamBuffer.** With three publisher sessions in a stream that is resumed `AskedToLeave` fails: a publisher
  leaves before a tick has seen its record; the next one claims a track that was retained and has no record
  yet; the tick takes the old record for a new session, and `userOnActive` (`input_buffer.cpp:971-990`) removes the
  retained tracks without a look at who claims them. The publisher has no record then that could be asked to leave. A process that ends before a tick has seen its record (`hasty`)
  breaks `AskedToLeave` (19 steps) and `ReaderWaits` (11 steps).
* **StreamBuffer.** With `Settings <- Together`, and without its condition, `KeepsClaim` fails after 19 states: a process dies with its
  claim and is started again; the buffer handles the old record and finds the claim to be the dead one's (`input_buffer.cpp:1013`); the
  new process finds the same, breaks the claim and makes its own (`dtsc.cpp:2417-2431`); the buffer's `breakClaim` then clears that one
  (`input_buffer.cpp:1015`). All the other properties of the run hold with these settings.
* **StreamStart.** With the controller alone and three faults `OneInput` fails: a child whose angel was killed is past its
  OFF when the controller reclaims the lock and starts an input; the old child then unlinks, by name, the state page of the new one.
  When the new angel is killed as well, the state looks OFF, and the controller reclaims the lock of a child that serves.
  `OneInput` fails with `Settings = {{v1, Ctrl}}`, without any fault, in 44 steps: the early
  returns of `checkStream` leave the time since which a stream looked unadopted, so two skips hours apart count as
  fifteen seconds, and the controller unlinks the lock of a live input. `streamAlive` takes
  the lock to look at it (`stream.cpp:497-510`): an input that tries at that instant gives up, so `startInput` can fail though no
  other input is there (8 steps).
* **LiveTrack.** A page that failed to open leaves its record (`io.cpp:471`). The next one has the same first key; from
  then on the first of the two is used for lookups and the second for counting, and a page
  is deleted while the metadata has its last key. The removal may also run out of records
  and end the buffer ("Depleting recordCount!", `Deplete`). A producer that died between `Count` and
  `AddKey` leaves a page that counts a key the metadata does not have. The producer that resumes begins
  its page at that key, `bufferStart` takes it for buffered, and every keyframe fails in the same way.
* **StreamBuffer.** With `Settings <- Again` `AskedToLeave` fails: in a plain stream the publisher leaves, the next
  one resumes its track before the buffer has handled the old record, `userOnDisconnect` removes
  the track under it, and `removeTrack` asks the first record of that track to leave, which
  may be the old one, though a comment says "pid matches" (`input_buffer.cpp:418`); `hasPush` goes false and the buffer
  stops under a live publisher. With `Settings <- Hasty` a process that registers and ends within one tick
  is taken for a publisher (`ProcessesAreKnown` and `ReaderWaits` fail). During the walk `hasProcessDrainConsumers`
  counts only the viewers whose records come earlier on the page. Three polls compare the whole
  status with `COMM_STATUS_REQDISCONNECT` (`process_livepeer.cpp:522`, `input_sdp.cpp:218` and `327`), which is
  never equal when other flags are set.
* **Connectors.** With `AnyCrash = TRUE` a controller killed between the start of a connector and the write
  of the page, or while one is stopping, leaves a connector nobody knows: `Known`, `NoneLeft` and `OneListener` fail.

## What is not modelled

* `Comms`: the contents of records; growth of `RCount` (a page has a fixed size); signals
  and their handlers beyond "was sent a soft kill". `finishAll` reads status and pid and signals in one step
  (`comms.cpp:112-120`): a pid that changes or is reused in between is not covered.
* `SessionBoot`: the per-second accounting, tokens, texts and parameters of triggers; connections that stop
  updating for ten seconds without leaving (`session.cpp:55`). A session's record and its name are one step (`Register`), since
  the name is looked up only under the lock which that session holds; a rejection flags the page and posts the lock in one step.
* `StreamStart`: sources and their configuration, the lock of pull inputs, the STREAM_SOURCE trigger and the OFFLINE
  state, the WAIT state of buffers; the returns of `startInput` for a caller that is told to stop, a refusing STREAM_LOAD trigger, an unknown source
  or a failed fork (`stream.cpp:675`, `711-713`, `735`, `805`), which start nothing; `releaseAbandonedLock` is one step (`controller_streams.cpp:29-37`); debug builds, where a crashed child ends its angel.
* `TrackClaim`: a `breakClaim` that gives up because the stream page is closed or the list cannot be switched; other fields of the list (`valid`), adding and resuming tracks by name. The `valid` field goes
  through `setSharedInt` as well and, unlike a pid, may return to the value it had before a write,
  which that function takes for a missed write. A process that dies with the track list lock
  keeps it for the stream's life (`dtsc.cpp:2567`).
* `LiveTrack`: `resizeTrack`, fragments, sizes (`bufferNext` drops a packet that does not fit
  while `update` registers it, `io.cpp:303`), VoD pages, the branch of
  `bufferRemove` that narrows a page (`io.cpp:203-216`; the sweep only passes it pages without valid keys) and what happens between its writes; `Expired` reads the
  fields of the first page in one step (`dtsc.cpp:3541-3545`), the counter of present records (`hdrPresent`, updated by two
  processes without a lock), tracks of several producers (excluded by `TrackClaim`).
* `StreamBuffer`: several processes, outputs and source tracks; changes of the process configuration, and replacing
  a process; the stop of a running process that is no longer to run, because the configuration or a missing selected track says so, and the reset of
  what is known of it (`input_buffer.cpp:1432-1497`): `ProcessesAreKnown` and its theorem are about processes that are not stopped so, for a stopped one
  is forgotten before its record is; a process's look at the owner, `breakClaim` and `claimTrack` (`dtsc.cpp:2415-2431`) are one step, what two that
  interleave there do is in `TrackClaim`; the writes of `userLeadOut` to the state page (`1226-1281`) are one step; a track is erased when it idled
  out, not sooner for timestamps that are apart (`578-580`); the STREAM_PROCESS trigger; raw HLS; the inactivity timeout; READY against WAIT; buffer holds and
  consumer lag.
* `Connectors`: the texts in the protocol list, protocols that are never run, `reloadProtocol`, a pid that is reused by
  an unrelated process, a crash during a shutdown.
* Pushes, the process graph and the configuration pages of the controller are parts with control of their own
  that no module has yet.
* The components listed as not modelled in `PROJECT.json`, each with the reason. Parsers,
  protocols, containers, devices and vendored libraries are most of the repository's
  lines and have no shared control; they stay out, which is why the modelled share of all lines is small.

## The plan

Done: the modules above, and their proofs.

What is left, in this order:

1. **Buffer holds** of recordings (`buffer_hold.h`): a hold that goes stale must let go.
2. **Pushes**: reaping and restarting of pushes by the controller.
3. **Track list, second part**: `addOrResumeKeyedTrack`, `validateTrack`/`removeTrack`, the `valid`
   field and its repetition hazard, in a module that composes with `TrackClaim`'s pages.
4. **RelAccX**: header counters with two writers.
5. **Process graph**: the pure algorithm against a definition on small graphs.
6. **StreamBuffer** with two outputs and a replaced process.

Abstract specification to state: a `Service` (one server per name) for `SessionBoot` and `StreamStart`.

Theorems to prove: that it is implemented, under the hypotheses of `SessionOneServes` and `StartOneInput`; a weaker
condition than `Orderly`, one that a publisher without retained tracks meets by itself.
