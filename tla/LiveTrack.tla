----------------------------- MODULE LiveTrack -----------------------------
(***************************************************************************)
(* One track of a live stream in shared memory.  Its packets lie in data   *)
(* pages; its metadata page holds three rings of records: pages, keys and  *)
(* parts (one part per packet).  A producer appends: InOutBase::           *)
(* bufferLivePacket opens data pages and writes packets, Meta::update adds *)
(* parts and keys.  The stream's buffer removes from the other end, key by *)
(* key (Meta::removeFirstKey) and page by page (InputBuffer::removeUnused, *)
(* InOutBase::bufferRemove).  Nothing locks the two out of each other.     *)
(* Readers find the page of a key with Output::pageNumForKey, one field at *)
(* a time, and open it.                                                    *)
(*                                                                         *)
(* Abstracted: times and sizes (a page may be flipped at any keyframe, a   *)
(* key removed whenever another one remains), fragments, resizeTrack (no   *)
(* page is added to a full ring) and the counter of present records.       *)
(***************************************************************************)
EXTENDS Naturals, FiniteSets

CONSTANTS
    MaxKeys,    \* bound: keys added
    MaxParts,   \* bound: a packet that is no keyframe is only added below this part
    PageSlots,  \* records in the ring of pages
    MaxPages,   \* bound: page records added
    MayFail,    \* a data page may fail to open
    MayDie      \* the producer may die

ASSUME LiveTrackAssumption ==
    /\ MaxKeys \in Nat \ {0} /\ MaxParts \in Nat \ {0}
    /\ PageSlots \in Nat \ {0, 1} /\ MaxPages \in Nat \ {0}
    /\ MayFail \in BOOLEAN /\ MayDie \in BOOLEAN

VARIABLES
    recs,     \* slot -> a record of the ring of pages: firstkey, keycount, avail
    pgDel,    \* page records below this one are deleted
    pgEnd,    \* page records from this one on do not exist yet
    keys,     \* key -> its first part and its number of parts
    kDel,     \* keys below this one are deleted
    kEnd,     \* keys from this one on do not exist yet
    pDel,     \* parts below this one are deleted
    pEnd,     \* parts from this one on do not exist yet
    files,    \* the data pages that exist, by number
    data,     \* data page -> the keys whose first packet lies in it
    wpc,      \* producer: where it is
    live,     \* producer: its livePage, NoPage when none is open
    num,      \* producer: curPageNum
    cur,      \* producer: curPage, the record of the page
    isKey,    \* producer: it writes a keyframe
    bpc,      \* buffer: where it is
    snap,     \* buffer: firstKey in removeUnused
    sweep,    \* buffer: the page record it looks at
    rpc,      \* reader: where it is
    rkey,     \* reader: the key it wants
    ri,       \* reader: the page record it looks at
    rpage,    \* reader: pageNum, the page it found
    torn      \* history: "start", a page failed to open; "die", a producer
              \* died in the middle of a packet

metaVars     == <<recs, pgDel, pgEnd, keys, kDel, kEnd, pDel, pEnd>>
producerVars == <<wpc, live, num, cur, isKey>>
bufferVars   == <<bpc, snap, sweep>>
readerVars   == <<rpc, rkey, ri, rpage>>
vars == <<metaVars, files, data, producerVars, bufferVars, readerVars, torn>>

\* Key numbers and counts wrap: 2^32 in the code
Wrap   == MaxKeys + MaxPages + 1
NoPage == Wrap
WPCs   == {"idle", "start", "count", "put", "part", "key", "parts", "dead"}
BPCs   == {"idle", "trim", "key", "page", "record", "sweep", "gone"}
RPCs   == {"idle", "first", "count", "avail", "open", "read"}

Slot(i)   == i % PageSlots
Rec(i)    == recs[Slot(i)]
Window    == {i \in 0 .. MaxPages : pgDel <= i /\ i < pgEnd}

Init ==
    /\ recs = [s \in 0 .. PageSlots - 1 |-> [firstkey |-> 0, keycount |-> 0, avail |-> 0]]
    /\ pgDel = 0 /\ pgEnd = 0
    /\ keys = [k \in 0 .. MaxKeys |-> [first |-> 0, parts |-> 0]]
    /\ kDel = 0 /\ kEnd = 0 /\ pDel = 0 /\ pEnd = 0
    /\ files = {} /\ data = [g \in 0 .. NoPage |-> {}]
    /\ wpc = "idle" /\ live = NoPage /\ num = 0 /\ cur = 0 /\ isKey = FALSE
    /\ bpc = "idle" /\ snap = 0 /\ sweep = 0
    /\ rpc = "idle" /\ rkey = 0 /\ ri = 0 /\ rpage = 0
    /\ torn = {}

----------------------------------------------------------------------------
(* Lookups in the ring of pages                                             *)

\* The first record in the window with firstkey g; record 0 when there is none
RecordOf(g) ==
    LET found == {i \in Window : Rec(i).firstkey = g}
    IN  IF found = {} THEN 0 ELSE CHOOSE i \in found : \A j \in found : i <= j

\* bufferedOnPage: the first record whose keys include k decides
bufferedOnPage(k) ==
    LET found == {i \in Window : /\ Rec(i).firstkey <= k
                                 /\ k < Rec(i).firstkey + Rec(i).keycount}
        i     == CHOOSE i \in found : \A j \in found : i <= j
    IN  IF found = {} \/ Rec(i).avail = 0 THEN NoPage ELSE Rec(i).firstkey

\* One record of pageNumForKey: k is past its last key.  The last key is
\* computed in 64 bits without a sign: the empty page 0 ends at the largest key.
Past(k, firstkey, keycount) ==
    /\ firstkey + keycount > 0
    /\ k > firstkey + keycount - 1

\* Output::pageNumForKey, read at one instant
pageNumForKey(k) ==
    LET found == {i \in Window : /\ Rec(i).firstkey <= k
                                 /\ ~Past(k, Rec(i).firstkey, Rec(i).keycount)}
        i     == CHOOSE i \in found : \A j \in found : i <= j
    IN  IF found = {} \/ Rec(i).avail = 0 THEN NoPage ELSE Rec(i).firstkey

----------------------------------------------------------------------------
(* The producer: bufferLivePacket                                           *)

\* Mutant: a record is added to a full ring
AddPageFull(g) ==
    /\ pgEnd < MaxPages
    /\ recs' = [recs EXCEPT ![Slot(pgEnd)] = [firstkey |-> g, keycount |-> 0, avail |-> 0]]
    /\ pgEnd' = pgEnd + 1
    /\ num' = g /\ cur' = pgEnd
    /\ wpc' = "start"

\* A record for data page g, appended to the ring
AddPage(g) ==
    /\ pgEnd - pgDel < PageSlots /\ pgEnd < MaxPages
    /\ recs' = [recs EXCEPT ![Slot(pgEnd)] = [firstkey |-> g, keycount |-> 0, avail |-> 0]]
    /\ pgEnd' = pgEnd + 1
    /\ num' = g /\ cur' = pgEnd
    /\ wpc' = "start"

\* A keyframe while no page is open: the new page starts at the key after the last one
KeyframeOpen ==
    /\ wpc = "idle" /\ live = NoPage
    /\ kEnd < MaxKeys
    /\ AddPage(kEnd)
    /\ isKey' = TRUE
    /\ UNCHANGED <<pgDel, keys, kDel, kEnd, pDel, pEnd, files, data, live, bufferVars, readerVars, torn>>

\* A keyframe for which the page is flipped
KeyframeFlip ==
    /\ wpc = "idle" /\ live # NoPage
    /\ kEnd < MaxKeys
    /\ LET c == RecordOf(live) IN AddPage((Rec(c).firstkey + Rec(c).keycount) % Wrap)
    /\ isKey' = TRUE /\ live' = NoPage
    /\ UNCHANGED <<pgDel, keys, kDel, kEnd, pDel, pEnd, files, data, bufferVars, readerVars, torn>>

\* A keyframe that goes on the open page
KeyframeStay ==
    /\ wpc = "idle" /\ live # NoPage
    /\ kEnd < MaxKeys
    /\ cur' = RecordOf(live)
    /\ isKey' = TRUE /\ wpc' = "count"
    /\ UNCHANGED <<metaVars, files, data, live, num, bufferVars, readerVars, torn>>

\* Another packet, on the open page
Packet ==
    /\ wpc = "idle" /\ live # NoPage
    /\ pEnd < MaxParts
    /\ isKey' = FALSE /\ wpc' = "put"
    /\ UNCHANGED <<metaVars, files, data, live, num, cur, bufferVars, readerVars, torn>>

\* bufferStart: the data page is created
Start ==
    /\ wpc = "start"
    /\ bufferedOnPage(num) = NoPage
    /\ recs' = [recs EXCEPT ![Slot(RecordOf(num))].avail = 0]
    /\ files' = files \union {num} /\ live' = num
    /\ wpc' = "count"
    /\ UNCHANGED <<pgDel, pgEnd, keys, kDel, kEnd, pDel, pEnd, data, num, cur, isKey, bufferVars, readerVars, torn>>

\* bufferStart fails: the page could not be opened, or its first key is
\* buffered already; the packet is dropped
StartFails ==
    /\ wpc = "start"
    /\ (MayFail /\ torn = {}) \/ bufferedOnPage(num) # NoPage
    /\ wpc' = "idle"
    /\ torn' = torn \union {"start"}
    /\ UNCHANGED <<metaVars, files, data, live, num, cur, isKey, bufferVars, readerVars>>

\* keycount, before the packet is on the page
Count ==
    /\ wpc = "count"
    /\ recs' = [recs EXCEPT ![Slot(cur)].keycount = (@ + 1) % Wrap]
    /\ wpc' = "put"
    /\ UNCHANGED <<pgDel, pgEnd, keys, kDel, kEnd, pDel, pEnd, files, data, live, num, cur, isKey, bufferVars, readerVars, torn>>

\* bufferNext: the packet, then avail
Put ==
    /\ wpc = "put"
    /\ live \in files
    /\ recs' = [recs EXCEPT ![Slot(RecordOf(live))].avail = 1]
    /\ data' = [data EXCEPT ![live] = IF isKey THEN @ \union {kEnd} ELSE @]
    /\ wpc' = "part"
    /\ UNCHANGED <<pgDel, pgEnd, keys, kDel, kEnd, pDel, pEnd, files, live, num, cur, isKey, bufferVars, readerVars, torn>>

\* The open page was deleted: the producer stops
PutLost ==
    /\ wpc = "put"
    /\ live \notin files
    /\ wpc' = "dead"
    /\ UNCHANGED <<metaVars, files, data, live, num, cur, isKey, bufferVars, readerVars, torn>>

(* Meta::update *)

\* The packet's part
AddPart ==
    /\ wpc = "part"
    /\ pEnd' = pEnd + 1
    /\ wpc' = IF isKey THEN "key" ELSE "parts"
    /\ UNCHANGED <<recs, pgDel, pgEnd, keys, kDel, kEnd, pDel, files, data, live, num, cur, isKey, bufferVars, readerVars, torn>>

\* The keyframe's key
AddKey ==
    /\ wpc = "key"
    /\ keys' = [keys EXCEPT ![kEnd] =
                   [first |-> IF kEnd = 0 THEN 0 ELSE keys[kEnd - 1].first + keys[kEnd - 1].parts,
                    parts |-> 0]]
    /\ kEnd' = kEnd + 1
    /\ wpc' = "parts"
    /\ UNCHANGED <<recs, pgDel, pgEnd, kDel, pDel, pEnd, files, data, live, num, cur, isKey, bufferVars, readerVars, torn>>

\* The last key has one more part
AddToKey ==
    /\ wpc = "parts"
    /\ keys' = [keys EXCEPT ![kEnd - 1].parts = @ + 1]
    /\ wpc' = "idle"
    /\ UNCHANGED <<recs, pgDel, pgEnd, kDel, kEnd, pDel, pEnd, files, data, live, num, cur, isKey, bufferVars, readerVars, torn>>

Die ==
    /\ MayDie /\ torn = {} /\ wpc # "dead"
    /\ wpc' = "dead"
    /\ torn' = IF wpc = "idle" THEN torn ELSE torn \union {"die"}
    /\ UNCHANGED <<metaVars, files, data, live, num, cur, isKey, bufferVars, readerVars>>

\* Another producer resumes the track
Resume ==
    /\ wpc = "dead"
    /\ wpc' = "idle" /\ live' = NoPage
    /\ UNCHANGED <<metaVars, files, data, num, cur, isKey, bufferVars, readerVars, torn>>

Producer == \/ KeyframeOpen \/ KeyframeFlip \/ KeyframeStay \/ Packet \/ Start \/ StartFails
            \/ Count \/ Put \/ PutLost \/ AddPart \/ AddKey \/ AddToKey \/ Die \/ Resume

----------------------------------------------------------------------------
(* The stream's buffer: removeUnused, for this track                        *)

BeginTrim ==
    /\ bpc = "idle"
    /\ snap' = kDel /\ bpc' = "trim"
    /\ UNCHANGED <<metaVars, files, data, producerVars, sweep, readerVars, torn>>

(* removeKey and removeFirstKey, one deletion at a time *)

\* Mutant: the last key may be removed while parts are added to it
RemovePartsLast ==
    /\ bpc = "trim"
    /\ kEnd - kDel > 0
    /\ pDel' = pDel + keys[kDel].parts
    /\ bpc' = "key"
    /\ UNCHANGED <<recs, pgDel, pgEnd, keys, kDel, kEnd, pEnd, files, data, producerVars, snap, sweep, readerVars, torn>>

RemoveParts ==
    /\ bpc = "trim"
    /\ kEnd - kDel > 1
    /\ pDel' = pDel + keys[kDel].parts
    /\ bpc' = "key"
    /\ UNCHANGED <<recs, pgDel, pgEnd, keys, kDel, kEnd, pEnd, files, data, producerVars, snap, sweep, readerVars, torn>>

RemoveKey ==
    /\ bpc = "key"
    /\ kDel' = kDel + 1
    /\ bpc' = "page"
    /\ UNCHANGED <<recs, pgDel, pgEnd, keys, kEnd, pDel, pEnd, files, data, producerVars, snap, sweep, readerVars, torn>>

\* The first page has no more keys: its data is deleted, then its record
\* Mutant: the first page is expired when its last key is the first one left
ExpiredEarly(first) == (first.firstkey + first.keycount) % Wrap <= kDel + 1

Expired(first) == (first.firstkey + first.keycount) % Wrap <= kDel

\* Mutant: the data of the page is not deleted
UnlinkPageForgotten ==
    /\ bpc = "page"
    /\ Expired(Rec(pgDel))
    /\ bpc' = "record"
    /\ UNCHANGED <<metaVars, files, data, producerVars, snap, sweep, readerVars, torn>>

UnlinkPage ==
    /\ bpc = "page"
    /\ Expired(Rec(pgDel))
    /\ files' = IF Rec(pgDel).avail > 0 THEN files \ {Rec(pgDel).firstkey} ELSE files
    /\ bpc' = "record"
    /\ UNCHANGED <<metaVars, data, producerVars, snap, sweep, readerVars, torn>>

RemoveRecord ==
    /\ bpc = "record"
    /\ pgDel < pgEnd
    /\ pgDel' = pgDel + 1
    /\ bpc' = "trim"
    /\ UNCHANGED <<recs, pgEnd, keys, kDel, kEnd, pDel, pEnd, files, data, producerVars, snap, sweep, readerVars, torn>>

\* deleteRecords without a record: the buffer exits
Deplete ==
    /\ bpc = "record"
    /\ pgDel = pgEnd
    /\ bpc' = "gone"
    /\ UNCHANGED <<metaVars, files, data, producerVars, snap, sweep, readerVars, torn>>

\* A record is narrowed whether or not its page holds data
KeepPageNarrows ==
    /\ bpc = "page"
    /\ ~Expired(Rec(pgDel))
    /\ recs' = [recs EXCEPT ![Slot(pgDel)].firstkey = kDel, ![Slot(pgDel)].keycount = (@ + Wrap - 1) % Wrap]
    /\ bpc' = "trim"
    /\ UNCHANGED <<pgDel, pgEnd, keys, kDel, kEnd, pDel, pEnd, files, data, producerVars, snap, sweep, readerVars, torn>>

\* The first page has more keys; when it holds no data its record is narrowed
KeepPage ==
    /\ bpc = "page"
    /\ ~Expired(Rec(pgDel))
    /\ recs' = IF Rec(pgDel).avail > 0 THEN recs
               ELSE [recs EXCEPT ![Slot(pgDel)] = [firstkey |-> kDel, keycount |-> (@.keycount + Wrap - 1) % Wrap, avail |-> 0]]
    /\ bpc' = "trim"
    /\ UNCHANGED <<pgDel, pgEnd, keys, kDel, kEnd, pDel, pEnd, files, data, producerVars, snap, sweep, readerVars, torn>>

(* The pages without keys *)

BeginSweep ==
    /\ bpc = "trim"
    /\ sweep' = pgDel /\ bpc' = "sweep"
    /\ UNCHANGED <<metaVars, files, data, producerVars, snap, readerVars, torn>>

\* Mutant: a page without keys is not needed
NeededWithKeys(i) == Rec(i).firstkey + Rec(i).keycount > snap

\* The record may still hold a key, or get its first one
Needed(i) == Rec(i).firstkey >= snap \/ Rec(i).firstkey + Rec(i).keycount > snap

EndSweep ==
    /\ bpc = "sweep"
    /\ sweep < pgEnd => Needed(sweep)
    /\ bpc' = "idle"
    /\ UNCHANGED <<metaVars, files, data, producerVars, snap, sweep, readerVars, torn>>

\* bufferRemove: the page is deleted, and the leading records that will
\* never hold a key again, in one step.  A page some of whose keys are left is
\* Needed, so the code never gets to narrow one
SweepPage ==
    /\ bpc = "sweep"
    /\ sweep < pgEnd /\ ~Needed(sweep)
    /\ LET swept   == [recs EXCEPT ![Slot(sweep)] = [@ EXCEPT !.avail = 0, !.keycount = 0]]
           Spent(i) == LET r == swept[Slot(i)] IN r.keycount = 0 /\ r.avail = 0 /\ r.firstkey < kDel
       IN  /\ recs' = swept
           /\ \E d \in pgDel .. pgEnd :
                 /\ \A i \in pgDel .. d - 1 : Spent(i)
                 /\ d < pgEnd => ~Spent(d)
                 /\ pgDel' = d
    /\ files' = files \ {Rec(sweep).firstkey}
    /\ sweep' = sweep + 1
    /\ UNCHANGED <<pgEnd, keys, kDel, kEnd, pDel, pEnd, data, producerVars, bpc, snap, readerVars, torn>>

Buffer == \/ BeginTrim \/ RemoveParts \/ RemoveKey \/ UnlinkPage \/ RemoveRecord \/ Deplete \/ KeepPage
          \/ BeginSweep \/ EndSweep \/ SweepPage

----------------------------------------------------------------------------
(* A reader: loadPageForKey                                                 *)

Look ==
    /\ rpc = "idle"
    /\ \E k \in kDel .. kEnd - 1 : rkey' = k
    /\ ri' = pgDel /\ rpc' = "first"
    /\ UNCHANGED <<metaVars, files, data, producerVars, bufferVars, rpage, torn>>

ReadFirst ==
    /\ rpc = "first"
    /\ ri < pgEnd
    /\ IF Rec(ri).firstkey > rkey
       THEN ri' = ri + 1 /\ UNCHANGED <<rpc, rpage>>
       ELSE rpage' = Rec(ri).firstkey /\ rpc' = "count" /\ UNCHANGED ri
    /\ UNCHANGED <<metaVars, files, data, producerVars, bufferVars, rkey, torn>>

NotFound ==
    /\ rpc = "first" /\ ri >= pgEnd
    /\ rpc' = "idle"
    /\ UNCHANGED <<metaVars, files, data, producerVars, bufferVars, rkey, ri, rpage, torn>>

ReadCount ==
    /\ rpc = "count"
    /\ IF Past(rkey, rpage, Rec(ri).keycount)
       THEN ri' = ri + 1 /\ rpc' = "first"
       ELSE rpc' = "avail" /\ UNCHANGED ri
    /\ UNCHANGED <<metaVars, files, data, producerVars, bufferVars, rkey, rpage, torn>>

ReadAvail ==
    /\ rpc = "avail"
    /\ rpc' = IF Rec(ri).avail = 0 THEN "idle" ELSE "open"
    /\ UNCHANGED <<metaVars, files, data, producerVars, bufferVars, rkey, ri, rpage, torn>>

\* The page is mapped, if it still exists
OpenPage ==
    /\ rpc = "open"
    /\ rpc' = IF rpage \in files THEN "read" ELSE "idle"
    /\ UNCHANGED <<metaVars, files, data, producerVars, bufferVars, rkey, ri, rpage, torn>>

EndRead ==
    /\ rpc = "read"
    /\ rpc' = "idle"
    /\ UNCHANGED <<metaVars, files, data, producerVars, bufferVars, rkey, ri, rpage, torn>>

Reader == Look \/ ReadFirst \/ NotFound \/ ReadCount \/ ReadAvail \/ OpenPage \/ EndRead

Next == Producer \/ Buffer \/ Reader

Spec == Init /\ [][Next]_vars

----------------------------------------------------------------------------
(* Properties                                                               *)

Keys   == kDel .. kEnd - 1
Record == [firstkey : 0 .. Wrap - 1, keycount : 0 .. Wrap - 1, avail : {0, 1}]

\* The windows of the rings are in order and no wider than the rings, whatever
\* the producer, the buffer and their failures do.
TypeOK ==
    /\ recs \in [0 .. PageSlots - 1 -> Record]
    /\ pgDel \in 0 .. pgEnd /\ pgEnd \in 0 .. MaxPages /\ pgEnd - pgDel <= PageSlots
    /\ kDel \in 0 .. kEnd /\ kEnd \in 0 .. MaxKeys
    /\ pDel \in 0 .. pEnd
    /\ files \subseteq 0 .. Wrap - 1
    /\ wpc \in WPCs /\ live \in (0 .. Wrap - 1) \union {NoPage}
    /\ bpc \in BPCs /\ rpc \in RPCs
    /\ torn \subseteq {"start", "die"}

\* While no page failed to open and no producer died within a packet, every
\* key in the metadata is found by pageNumForKey, on a page that exists and
\* holds its packets, at every instant of an append and of a removal.
KeyReachable ==
    torn = {} =>
        \A k \in Keys : LET g == pageNumForKey(k) IN g \in files /\ k \in data[g]

\* The first part counted for the first key is the first one that was not
\* deleted, and the last key ends where the parts do, but for the packet being
\* added and the key being removed: parts are matched to keys by counting.
PartsAligned ==
    ("die" \notin torn /\ kDel < kEnd) =>
        /\ pDel = keys[kDel].first + (IF bpc = "key" THEN keys[kDel].parts ELSE 0)
        /\ pEnd = keys[kEnd - 1].first + keys[kEnd - 1].parts
                  + (IF wpc \in {"key", "parts"} THEN 1 ELSE 0)

\* The page a producer writes on is not deleted under it, which would make it
\* stop its source: not by removeFirstKey, nor by removeUnused while the page
\* is empty and its first packet is on its way.
LivePageKept == (torn = {} /\ wpc # "dead") => live \in files \union {NoPage}

\* Every data page that exists is named by a record, so that it is deleted
\* when its keys are: otherwise its memory is never given back.
NoPageLeft ==
    torn = {} => files \subseteq {Rec(i).firstkey : i \in Window}

\* A reader that opens the page it was told holds its key finds the key
\* there, though the ring may have moved under its search.
ReaderRight ==
    (torn = {} /\ rpc = "read") => rkey \in data[rpage]

----------------------------------------------------------------------------
(* The track as its readers see it.                                         *)

stored == {k \in 0 .. kEnd : LET g == pageNumForKey(k) IN g \in files /\ k \in data[g]}

Track == INSTANCE KeyWindow WITH Nothing <- NoPage, first <- kDel, end <- kEnd,
                              reading <- IF rpc = "read" THEN rkey ELSE NoPage

\* The track implements a window of keys that can be read: Put stores what
\* AddKey announces, and RemoveKey retires what the buffer deletes later, in
\* any interleaving, until a page fails to open or a producer dies within a
\* packet.
ImplementsWindow ==
    Track!Init /\ [][torn' = {} => Track!Next]_<<kDel, kEnd, stored, rpc, rkey>>

----------------------------------------------------------------------------
(* The inductive invariant behind TypeOK and PartsAligned                   *)

\* The types of what TypeOK does not mention
Typed ==
    /\ keys \in [0 .. MaxKeys -> [first : Nat, parts : Nat]]
    /\ pEnd \in Nat /\ num \in 0 .. Wrap - 1 /\ isKey \in BOOLEAN
    /\ cur \in Nat /\ sweep \in Nat

\* Where a key is sure to exist, and where there is room for another one
KeyThere ==
    /\ kEnd > 0 => kDel < kEnd
    /\ bpc = "key" => kDel + 1 < kEnd
    /\ wpc = "start" => live = NoPage
    /\ wpc \in {"start", "count", "key"} => isKey
    /\ live # NoPage /\ wpc = "idle" => kEnd > 0
    /\ ~isKey /\ wpc \in {"put", "part"} => kEnd > 0
    /\ wpc = "parts" => kEnd > 0
    /\ isKey /\ wpc \in {"start", "count", "put", "part", "key"} => kEnd < MaxKeys

\* The part after the last one of key k
Upto(k) == keys[k].first + keys[k].parts

\* Keys follow each other without a gap; the second conjunct spares an induction
Chain ==
    /\ \A k \in 0 .. MaxKeys : k + 1 < kEnd => keys[k + 1].first = Upto(k)
    /\ \A i, k \in 0 .. MaxKeys : i < k /\ k < kEnd => Upto(i) <= keys[k].first

FirstPart == IF kEnd = 0 THEN 0
             ELSE IF bpc = "key" THEN Upto(kDel) ELSE keys[kDel].first
LastPart  == (IF kEnd = 0 THEN 0 ELSE Upto(kEnd - 1)) + (IF wpc \in {"key", "parts"} THEN 1 ELSE 0)

\* A producer that died within a packet may leave parts that no key counts
Counted ==
    /\ pDel = FirstPart
    /\ pEnd >= LastPart
    /\ "die" \notin torn => pEnd = LastPart

LInv == TypeOK /\ Typed /\ KeyThere /\ Chain /\ Counted

----------------------------------------------------------------------------
(* The inductive invariant behind KeyReachable, LivePageKept, NoPageLeft,   *)
(* ReaderRight and ImplementsWindow, while nothing failed                   *)

From(i) == Rec(i).firstkey
Until(i) == Rec(i).firstkey + Rec(i).keycount
Last == pgEnd - 1

\* Pages follow each other without a gap; the second conjunct spares an induction
Pages ==
    /\ \A i \in Window : i + 1 < pgEnd => Until(i) = From(i + 1) /\ Rec(i).keycount > 0 /\ Rec(i).avail = 1
    /\ \A i, j \in Window : i < j => Until(i) <= From(j)

\* No key is on the last page yet, or none that a reader finds
Fresh == \/ wpc = "start"
         \/ wpc = "count" /\ Rec(Last).keycount = 0
         \/ wpc = "put" /\ isKey /\ Rec(Last).keycount = 1

\* The last page is the producer's
LastPage ==
    IF pgEnd = 0
    THEN kEnd = 0 /\ wpc \in {"idle", "dead"} /\ live = NoPage
    ELSE /\ pgDel < pgEnd
         /\ Until(Last) = IF isKey /\ wpc \in {"put", "part", "key"} THEN kEnd + 1 ELSE kEnd
         /\ Rec(Last).keycount = 0 => wpc \in {"start", "count"}
         /\ Rec(Last).avail = IF Fresh THEN 0 ELSE 1
         /\ wpc = "start" => num = From(Last) /\ Rec(Last).keycount = 0
         /\ wpc \in {"start", "count"} => cur = Last
         /\ wpc \in {"count", "put", "part", "key", "parts"} => live # NoPage
         /\ live # NoPage => live = From(Last)

\* The first page has the first key, or the one that was removed just now
FirstPage ==
    /\ bpc # "gone"
    /\ bpc \in {"trim", "key", "page", "record", "sweep"} => snap \in 0 .. kDel
    /\ bpc = "sweep" => sweep = pgDel
    /\ bpc \in {"page", "record"} => kDel > 0
    /\ kEnd = 0 => pgDel = 0 /\ pgEnd <= 1 /\ kDel = 0
    /\ kEnd > 0 => IF bpc = "record" THEN Until(pgDel) = kDel
                   ELSE LET k == IF bpc = "page" THEN kDel - 1 ELSE kDel
                        IN  From(pgDel) <= k /\ k < Until(pgDel)

\* The page of a record exists but while the record is added or removed
Stands(i) == ~(bpc = "record" /\ i = pgDel) /\ ~(wpc = "start" /\ i = Last)
Files == files = {From(i) : i \in {j \in Window : Stands(j)}}

\* The keys a page was to hold are on it
Stored ==
    /\ data \in [0 .. NoPage -> SUBSET Nat]
    /\ \A i \in Window : \A k \in From(i) .. Until(i) - 1 :
          (k < kEnd \/ wpc \in {"part", "key"}) => k \in data[From(i)]

\* What leads to page g is in slot i, or the page is gone for good
Known(g, i) == \/ \E j \in Window : Slot(j) = Slot(i) /\ From(j) = g
               \/ g \notin files /\ g < kEnd

\* A reader may meet the slot of a record that was removed
Removed == \A i \in 0 .. pgEnd - 1 : Known(From(i), i)

Reading ==
    /\ rpc # "idle" => rkey \in Nat /\ rkey < kEnd /\ ri \in Nat
    /\ rpc \in {"count", "avail", "open", "read"} => rpage \in 0 .. NoPage
    /\ rpc \in {"count", "avail", "open"} => rpage <= rkey
    /\ rpc \in {"count", "avail"} => ri < pgEnd /\ Known(rpage, ri)
    /\ rpc = "avail" => \A j \in Window : (Slot(j) = Slot(ri) /\ From(j) = rpage) => rkey < Until(j)
    /\ rpc = "open" /\ rpage \in files => \A j \in Window : From(j) = rpage => rkey < Until(j)
    /\ rpc = "read" => rkey \in data[rpage]

\* The data of key k can be fetched from the page of record i
Here(i, k) == /\ From(i) <= k /\ k < Until(i)
              /\ Rec(i).avail = 1 /\ From(i) \in files /\ k \in data[From(i)]
Kept == {k \in 0 .. kEnd : \E i \in Window : Here(i, k)}

PInv == Pages /\ LastPage /\ FirstPage /\ Files /\ Stored /\ Removed /\ Reading
WInv == LInv /\ (torn = {} => PInv)
=============================================================================
