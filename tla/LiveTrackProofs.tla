-------------------------- MODULE LiveTrackProofs --------------------------
(***************************************************************************)
(* For rings of any size, and whatever fails: the windows of the rings     *)
(* stay in order (TypeOK), and the parts are counted for the right keys    *)
(* (PartsAligned) unless a producer died within a packet.  Until something *)
(* fails (torn = {}), the pages lie as PInv says in any interleaving of    *)
(* producer, buffer and reader; from it follow KeyReachable, LivePageKept, *)
(* NoPageLeft and ReaderRight, and that the track implements KeyWindow.    *)
(***************************************************************************)
EXTENDS LiveTrack, Extrema, TLAPS

\* The lookup of a page's record finds a slot of the ring
LEMMA RecordOfIn == ASSUME TypeOK, NEW g
                    PROVE  RecordOf(g) \in Nat /\ Slot(RecordOf(g)) \in 0 .. PageSlots - 1
<1> USE LiveTrackAssumption
<1> DEFINE found == {i \in Window : Rec(i).firstkey = g}
<1>1. found \in SUBSET Nat
  BY DEF Window
<1>2. RecordOf(g) \in Nat
  <2>1. CASE found = {}
    BY <2>1 DEF RecordOf
  <2>2. CASE found # {}
    <3> HIDE DEF found
    <3>1. \E i \in found : \A j \in found : i <= j
      BY <1>1, <2>2, Least
    <3>2. (CHOOSE i \in found : \A j \in found : i <= j) \in found
      BY <3>1
    <3> QED BY <3>2, <2>2, <1>1 DEF RecordOf, found
  <2> QED BY <2>1, <2>2
<1> QED BY <1>2 DEF Slot

\* A key number modulo Wrap
LEMMA WrapIn == ASSUME NEW n \in Nat PROVE n % Wrap \in 0 .. Wrap - 1
BY LiveTrackAssumption DEF Wrap

\* A number selects a slot of the ring
LEMMA SlotIn == ASSUME NEW n \in Nat PROVE Slot(n) \in 0 .. PageSlots - 1
BY LiveTrackAssumption DEF Slot

\* A ring of records with one record changed
LEMMA RecsIn ==
    ASSUME TypeOK, NEW s \in 0 .. PageSlots - 1, NEW r \in Record
    PROVE  [recs EXCEPT ![s] = r] \in [0 .. PageSlots - 1 -> Record]
BY DEF TypeOK

\* Fields of a record of the ring changed
LEMMA RecordIn ==
    ASSUME TypeOK, NEW s \in 0 .. PageSlots - 1,
           NEW n \in 0 .. Wrap - 1, NEW b \in {0, 1}
    PROVE  /\ recs[s] \in Record
           /\ [recs[s] EXCEPT !.avail = b] \in Record
           /\ [recs[s] EXCEPT !.keycount = n] \in Record
           /\ [recs[s] EXCEPT !.avail = b, !.keycount = n] \in Record
<1>1. recs[s] \in Record
  BY DEF TypeOK
<1> QED BY <1>1 DEF Record

\* An empty track satisfies the invariant
LEMMA InitLInv == Init => LInv
<1> USE LiveTrackAssumption
<1> SUFFICES ASSUME Init PROVE LInv OBVIOUS
<1>1. TypeOK
  BY DEF Init, TypeOK, Record, Wrap, NoPage, WPCs, BPCs, RPCs
<1>2. Typed
  <2>1. isKey \in BOOLEAN
    BY DEF Init
  <2>2. keys \in [0 .. MaxKeys -> [first : Nat, parts : Nat]]
    BY DEF Init
  <2>3. pEnd \in Nat /\ num \in 0 .. Wrap - 1 /\ cur \in Nat /\ sweep \in Nat
    BY DEF Init, Wrap
  <2> QED BY <2>1, <2>2, <2>3 DEF Typed
<1>3. KeyThere /\ Chain /\ Counted
  BY DEF Init, KeyThere, Chain, Counted, FirstPart, LastPart
<1> QED BY <1>1, <1>2, <1>3 DEF LInv

\* What a step leaves alone when it only moves pages, the reader or the sweep
LEMMA PagesLInv ==
    ASSUME LInv, TypeOK',
           UNCHANGED <<keys, kDel, kEnd, pDel, pEnd, wpc, live, num, cur, isKey, torn>>,
           sweep' \in Nat, bpc # "key", bpc' # "key"
    PROVE  LInv'
BY DEF LInv, Typed, KeyThere, Chain, Counted, FirstPart, LastPart, Upto

\* A step of the reader preserves the invariant
LEMMA ReaderLInv == ASSUME LInv, Reader PROVE LInv'
<1>1. /\ UNCHANGED <<metaVars, files, producerVars, bufferVars, torn>>
      /\ rpc' \in RPCs
  BY DEF Reader, Look, ReadFirst, NotFound, ReadCount, ReadAvail, OpenPage, EndRead,
         RPCs, LInv, TypeOK
<1> QED BY <1>1 DEF metaVars, producerVars, bufferVars, LInv, TypeOK, Typed, KeyThere,
                    Chain, Counted, FirstPart, LastPart, Upto

\* A new record is well typed and fits in the ring
LEMMA AddPageIn ==
    ASSUME TypeOK, NEW g \in 0 .. Wrap - 1, AddPage(g)
    PROVE  /\ recs' \in [0 .. PageSlots - 1 -> Record]
           /\ pgEnd' = pgEnd + 1 /\ pgEnd' \in 0 .. MaxPages
           /\ pgEnd' - pgDel <= PageSlots /\ pgDel \in 0 .. pgEnd'
           /\ num' = g /\ wpc' = "start" /\ cur' \in Nat
<1>1. pgEnd \in 0 .. MaxPages /\ pgDel \in 0 .. pgEnd /\ MaxPages \in Nat /\ PageSlots \in Nat
  BY LiveTrackAssumption DEF TypeOK
<1>2. [firstkey |-> g, keycount |-> 0, avail |-> 0] \in Record
  BY LiveTrackAssumption DEF Record, Wrap
<1>3. Slot(pgEnd) \in 0 .. PageSlots - 1
  BY <1>1, SlotIn
<1>4. recs' \in [0 .. PageSlots - 1 -> Record]
  BY <1>2, <1>3 DEF AddPage, TypeOK
<1> QED BY <1>1, <1>4 DEF AddPage

\* A step of the producer preserves the invariant
LEMMA ProducerLInv == ASSUME LInv, Producer PROVE LInv'
<1> USE LiveTrackAssumption
<1>0. TypeOK /\ Typed /\ KeyThere /\ Chain /\ Counted
  BY DEF LInv
<1>1. CASE KeyframeOpen
  <2>1. kEnd \in 0 .. Wrap - 1
    BY <1>0, <1>1 DEF KeyframeOpen, TypeOK, Wrap
  <2>2. TypeOK' /\ Typed'
    BY <1>0, <1>1, <2>1, AddPageIn DEF KeyframeOpen, TypeOK, Typed, WPCs, bufferVars, readerVars
  <2>3. KeyThere' /\ Chain' /\ Counted'
    BY <1>0, <1>1, <2>1, AddPageIn
    DEF KeyframeOpen, KeyThere, Chain, Counted, FirstPart, LastPart, Upto, bufferVars
  <2> QED BY <2>2, <2>3 DEF LInv
<1>2. CASE KeyframeFlip
  <2> DEFINE r == Rec(RecordOf(live))
             g == (r.firstkey + r.keycount) % Wrap
  <2>1. r \in Record
    BY <1>0, RecordOfIn DEF Rec, TypeOK
  <2>2. g \in 0 .. Wrap - 1
    <3>1. r.firstkey + r.keycount \in Nat
      BY <2>1 DEF Record, Wrap
    <3> QED BY <3>1, WrapIn
  <2> HIDE DEF g
  <2>3. AddPage(g) /\ live' = NoPage /\ isKey' = TRUE /\ wpc = "idle" /\ live # NoPage /\ kEnd < MaxKeys
        /\ UNCHANGED <<pgDel, keys, kDel, kEnd, pDel, pEnd, files, data, bufferVars, readerVars, torn>>
    BY <1>2 DEF KeyframeFlip, g
  <2>4. TypeOK' /\ Typed'
    BY <1>0, <2>2, <2>3, AddPageIn DEF TypeOK, Typed, WPCs, bufferVars, readerVars
  <2>5. KeyThere' /\ Chain' /\ Counted'
    BY <1>0, <2>2, <2>3, AddPageIn
    DEF KeyThere, Chain, Counted, FirstPart, LastPart, Upto, bufferVars
  <2> QED BY <2>4, <2>5 DEF LInv
<1>3. CASE KeyframeStay
  <2>1. TypeOK' /\ Typed'
    BY <1>0, <1>3, RecordOfIn DEF KeyframeStay, TypeOK, Typed, WPCs, metaVars, bufferVars, readerVars
  <2>2. KeyThere' /\ Chain' /\ Counted'
    BY <1>0, <1>3 DEF KeyframeStay, KeyThere, Chain, Counted, FirstPart, LastPart, Upto,
                      metaVars, bufferVars
  <2> QED BY <2>1, <2>2 DEF LInv
<1>4. CASE Packet
  <2>1. TypeOK' /\ Typed'
    BY <1>0, <1>4 DEF Packet, TypeOK, Typed, WPCs, metaVars, bufferVars, readerVars
  <2>2. KeyThere' /\ Chain' /\ Counted'
    BY <1>0, <1>4 DEF Packet, KeyThere, Chain, Counted, FirstPart, LastPart, Upto,
                      metaVars, bufferVars
  <2> QED BY <2>1, <2>2 DEF LInv
<1>5. CASE Start
  <2>0. recs' \in [0 .. PageSlots - 1 -> Record]
    <3>1. Slot(RecordOf(num)) \in 0 .. PageSlots - 1 /\ 0 \in 0 .. Wrap - 1
      BY <1>0, RecordOfIn DEF Wrap
    <3>2. [recs[Slot(RecordOf(num))] EXCEPT !.avail = 0] \in Record
      BY <1>0, <3>1, RecordIn
    <3> QED BY <1>0, <1>5, <3>1, <3>2, RecsIn DEF Start
  <2>1. TypeOK' /\ Typed'
    BY <1>0, <1>5, <2>0 DEF Start, TypeOK, Typed, WPCs, bufferVars, readerVars
  <2>2. KeyThere' /\ Chain' /\ Counted'
    BY <1>0, <1>5 DEF Start, KeyThere, Chain, Counted, FirstPart, LastPart, Upto, bufferVars
  <2> QED BY <2>1, <2>2 DEF LInv
<1>6. CASE StartFails
  <2>1. TypeOK' /\ Typed'
    BY <1>0, <1>6 DEF StartFails, TypeOK, Typed, WPCs, metaVars, bufferVars, readerVars
  <2>2. KeyThere' /\ Chain' /\ Counted'
    BY <1>0, <1>6 DEF StartFails, KeyThere, Chain, Counted, FirstPart, LastPart, Upto,
                      metaVars, bufferVars
  <2> QED BY <2>1, <2>2 DEF LInv
<1>7. CASE Count
  <2>1. recs' \in [0 .. PageSlots - 1 -> Record]
    <3>1. \A n \in 0 .. Wrap - 1 : (n + 1) % Wrap \in 0 .. Wrap - 1
      BY WrapIn DEF Wrap
    <3>2. Slot(cur) \in 0 .. PageSlots - 1 /\ (recs[Slot(cur)].keycount + 1) % Wrap \in 0 .. Wrap - 1
      BY <1>0, <3>1, SlotIn, RecordIn DEF TypeOK, Record, Typed
    <3>3. [recs[Slot(cur)] EXCEPT !.keycount = (@ + 1) % Wrap] \in Record
      BY <1>0, <3>2, RecordIn
    <3> QED BY <1>0, <1>7, <3>2, <3>3, RecsIn DEF Count
  <2>2. TypeOK' /\ Typed'
    BY <1>0, <1>7, <2>1 DEF Count, TypeOK, Typed, WPCs, bufferVars, readerVars
  <2>3. KeyThere' /\ Chain' /\ Counted'
    BY <1>0, <1>7 DEF Count, KeyThere, Chain, Counted, FirstPart, LastPart, Upto, bufferVars
  <2> QED BY <2>2, <2>3 DEF LInv
<1>8. CASE Put
  <2>0. recs' \in [0 .. PageSlots - 1 -> Record]
    <3>1. Slot(RecordOf(live)) \in 0 .. PageSlots - 1 /\ 0 \in 0 .. Wrap - 1
      BY <1>0, RecordOfIn DEF Wrap
    <3>2. [recs[Slot(RecordOf(live))] EXCEPT !.avail = 1] \in Record
      BY <1>0, <3>1, RecordIn
    <3> QED BY <1>0, <1>8, <3>1, <3>2, RecsIn DEF Put
  <2>1. TypeOK' /\ Typed'
    BY <1>0, <1>8, <2>0 DEF Put, TypeOK, Typed, WPCs, bufferVars, readerVars
  <2>2. KeyThere' /\ Chain' /\ Counted'
    BY <1>0, <1>8 DEF Put, KeyThere, Chain, Counted, FirstPart, LastPart, Upto, bufferVars
  <2> QED BY <2>1, <2>2 DEF LInv
<1>9. CASE PutLost
  <2>1. TypeOK' /\ Typed'
    BY <1>0, <1>9 DEF PutLost, TypeOK, Typed, WPCs, metaVars, bufferVars, readerVars
  <2>2. KeyThere' /\ Chain' /\ Counted'
    BY <1>0, <1>9 DEF PutLost, KeyThere, Chain, Counted, FirstPart, LastPart, Upto,
                      metaVars, bufferVars
  <2> QED BY <2>1, <2>2 DEF LInv
<1>10. CASE AddPart
  <2>1. pEnd \in Nat /\ pDel \in 0 .. pEnd /\ pEnd' = pEnd + 1
    BY <1>0, <1>10 DEF AddPart, TypeOK, Typed
  <2>2. wpc' = "key" \/ wpc' = "parts"
    BY <1>10 DEF AddPart
  <2>3. TypeOK'
    BY <1>0, <1>10, <2>1, <2>2 DEF AddPart, TypeOK, WPCs, bufferVars, readerVars
  <2>4. Typed'
    BY <1>0, <1>10, <2>1 DEF AddPart, Typed, bufferVars
  <2>5. KeyThere'
    BY <1>0, <1>10, <2>2 DEF AddPart, KeyThere, bufferVars
  <2>6. Chain'
    BY <1>0, <1>10 DEF AddPart, Chain, Upto
  <2>7. LastPart' = LastPart + 1 /\ FirstPart' = FirstPart
    <3>1. kEnd # 0 => Upto(kEnd - 1) \in Nat
      BY <1>0 DEF TypeOK, Typed, Upto
    <3> QED BY <1>10, <2>2, <3>1 DEF AddPart, LastPart, FirstPart, Upto, bufferVars
  <2>8. Counted'
    <3>1. LastPart \in Nat
      <4>1. kEnd # 0 => Upto(kEnd - 1) \in Nat
        BY <1>0 DEF TypeOK, Typed, Upto
      <4> QED BY <4>1 DEF LastPart
    <3> QED BY <1>0, <1>10, <2>1, <2>7, <3>1 DEF AddPart, Counted
  <2> QED BY <2>3, <2>4, <2>5, <2>6, <2>8 DEF LInv
<1>11. CASE AddKey
  <2> DEFINE f == IF kEnd = 0 THEN 0 ELSE Upto(kEnd - 1)
  <2>1. kEnd \in 0 .. MaxKeys - 1 /\ kDel \in 0 .. kEnd /\ kEnd' = kEnd + 1 /\ wpc' = "parts"
    BY <1>0, <1>11 DEF AddKey, TypeOK, KeyThere
  <2>2. \A k \in 0 .. MaxKeys : keys[k].first \in Nat /\ keys[k].parts \in Nat /\ Upto(k) \in Nat
    BY <1>0 DEF Typed, Upto
  <2>3. f \in Nat /\ (kEnd = 0 => f = 0) /\ (kEnd > 0 => f = Upto(kEnd - 1))
    BY <2>1, <2>2
  <2>4. keys' = [keys EXCEPT ![kEnd] = [first |-> f, parts |-> 0]]
    BY <1>11 DEF AddKey, Upto
  <2> HIDE DEF f
  <2>5. keys' \in [0 .. MaxKeys -> [first : Nat, parts : Nat]]
    BY <1>0, <2>1, <2>3, <2>4 DEF Typed
  <2>6. /\ keys'[kEnd].first = f /\ keys'[kEnd].parts = 0
        /\ \A k \in 0 .. MaxKeys : k # kEnd => keys'[k] = keys[k]
    BY <1>0, <2>1, <2>4 DEF Typed
  <2>7. TypeOK'
    BY <1>0, <1>11, <2>1 DEF AddKey, TypeOK, WPCs, bufferVars, readerVars
  <2>8. Typed'
    BY <1>0, <1>11, <2>5 DEF AddKey, Typed, bufferVars
  <2>9. KeyThere'
    BY <1>0, <1>11, <2>1 DEF AddKey, KeyThere, bufferVars
  <2>10. /\ keys'[kEnd].first + keys'[kEnd].parts = f
         /\ \A k \in 0 .. MaxKeys : k < kEnd => Upto(k)' = Upto(k) /\ keys'[k].first = keys[k].first
    <3>1. keys'[kEnd].first + keys'[kEnd].parts = f
      BY <2>3, <2>6
    <3> QED BY <1>11, <2>1, <2>6, <3>1 DEF AddKey, Upto
  <2>11. Chain'
    <3>1. ASSUME NEW k \in 0 .. MaxKeys, k + 1 < kEnd + 1 PROVE keys'[k + 1].first = Upto(k)'
      <4>1. CASE k + 1 = kEnd
        BY <2>1, <2>3, <2>6, <2>10, <4>1
      <4>2. CASE k + 1 < kEnd
        <5>1. keys'[k + 1].first = keys[k + 1].first /\ Upto(k)' = Upto(k)
          BY <2>1, <2>10, <4>2
        <5> QED BY <1>0, <4>2, <5>1 DEF Chain
      <4> QED BY <2>1, <3>1, <4>1, <4>2
    <3>2. ASSUME NEW i \in 0 .. MaxKeys, NEW k \in 0 .. MaxKeys, i < k, k < kEnd + 1
          PROVE  Upto(i)' <= keys'[k].first
      <4>1. CASE k < kEnd
        BY <1>0, <2>1, <2>10, <3>2, <4>1 DEF Chain
      <4>2. CASE k = kEnd
        <5>1. Upto(i)' = Upto(i) /\ keys'[k].first = Upto(kEnd - 1)
          BY <2>1, <2>3, <2>6, <2>10, <3>2, <4>2
        <5>2. i < kEnd - 1 => Upto(i) <= keys[kEnd - 1].first
          BY <1>0, <2>1 DEF Chain
        <5>3. keys[kEnd - 1].first <= Upto(kEnd - 1) /\ Upto(i) \in Nat
          BY <2>1, <2>2, <3>2, <4>2 DEF Upto
        <5> QED BY <2>1, <2>2, <3>2, <4>2, <5>1, <5>2, <5>3
      <4> QED BY <2>1, <3>2, <4>1, <4>2
    <3>3. kEnd' = kEnd + 1
      BY <2>1
    <3> QED BY <3>1, <3>2, <3>3 DEF Chain
  <2>12. Counted'
    <3>1. LastPart' = f + 1 /\ LastPart = f + 1
      <4>1. kEnd' # 0 /\ kEnd' - 1 = kEnd
        BY <2>1
      <4>2. Upto(kEnd - 1)' = f
        BY <2>10, <4>1 DEF Upto
      <4>3. LastPart' = f + 1
        BY <2>1, <4>1, <4>2 DEF LastPart
      <4>4. LastPart = f + 1
        BY <1>11, <2>1, <2>3 DEF AddKey, LastPart
      <4> QED BY <4>3, <4>4
    <3>2. FirstPart' = FirstPart
      BY <1>0, <1>11, <2>1, <2>3, <2>6, <2>10 DEF AddKey, KeyThere, FirstPart, bufferVars
    <3> QED BY <1>0, <1>11, <3>1, <3>2 DEF AddKey, Counted
  <2> QED BY <2>7, <2>8, <2>9, <2>11, <2>12 DEF LInv
<1>12. CASE AddToKey
  <2>1. kEnd \in 1 .. MaxKeys /\ kDel \in 0 .. kEnd - 1 /\ kEnd' = kEnd /\ kDel' = kDel /\ kEnd - 1 \in 0 .. MaxKeys
    BY <1>0, <1>12 DEF AddToKey, TypeOK, KeyThere
  <2>2. \A k \in 0 .. MaxKeys : keys[k].first \in Nat /\ keys[k].parts \in Nat /\ Upto(k) \in Nat
    BY <1>0 DEF Typed, Upto
  <2>3. keys' = [keys EXCEPT ![kEnd - 1] = [keys[kEnd - 1] EXCEPT !.parts = keys[kEnd - 1].parts + 1]]
    BY <1>12 DEF AddToKey
  <2>4. /\ keys[kEnd - 1] \in [first : Nat, parts : Nat]
        /\ [keys[kEnd - 1] EXCEPT !.parts = keys[kEnd - 1].parts + 1] \in [first : Nat, parts : Nat]
    <3>1. keys[kEnd - 1] \in [first : Nat, parts : Nat]
      BY <1>0, <2>1 DEF Typed
    <3> QED BY <3>1
  <2>5. keys' \in [0 .. MaxKeys -> [first : Nat, parts : Nat]]
    BY <1>0, <2>1, <2>3, <2>4 DEF Typed
  <2>6. /\ keys'[kEnd - 1].first = keys[kEnd - 1].first
        /\ keys'[kEnd - 1].parts = keys[kEnd - 1].parts + 1
        /\ \A k \in 0 .. MaxKeys : k # kEnd - 1 => keys'[k] = keys[k]
    BY <1>0, <2>1, <2>3, <2>4 DEF Typed
  <2>7. TypeOK'
    BY <1>0, <1>12 DEF AddToKey, TypeOK, WPCs, bufferVars, readerVars
  <2>8. Typed'
    BY <1>0, <1>12, <2>5 DEF AddToKey, Typed, bufferVars
  <2>9. KeyThere'
    BY <1>0, <1>12, <2>1 DEF AddToKey, KeyThere, bufferVars
  <2>10. /\ Upto(kEnd - 1)' = Upto(kEnd - 1) + 1
         /\ \A k \in 0 .. MaxKeys : keys'[k].first = keys[k].first
         /\ \A k \in 0 .. MaxKeys : k # kEnd - 1 => Upto(k)' = Upto(k)
    <3>1. keys'[kEnd - 1].first + keys'[kEnd - 1].parts = keys[kEnd - 1].first + keys[kEnd - 1].parts + 1
      BY <2>1, <2>2, <2>6
    <3> QED BY <2>1, <2>6, <3>1 DEF Upto
  <2>11. Chain'
    BY <1>0, <2>1, <2>10 DEF Chain
  <2>12. Counted'
    <3>1. LastPart' = LastPart
      BY <1>12, <2>1, <2>2, <2>10 DEF AddToKey, LastPart
    <3>2. FirstPart' = FirstPart
      <4>1. bpc = "key" => kDel # kEnd - 1
        BY <1>0, <2>1 DEF KeyThere
      <4>2. bpc' = bpc /\ kDel \in 0 .. MaxKeys
        BY <1>12, <2>1 DEF AddToKey, bufferVars
      <4> QED BY <2>1, <2>10, <4>1, <4>2 DEF FirstPart
    <3> QED BY <1>0, <1>12, <3>1, <3>2 DEF AddToKey, Counted
  <2> QED BY <2>7, <2>8, <2>9, <2>11, <2>12 DEF LInv
<1>13. CASE Die
  <2>1. TypeOK' /\ Typed'
    BY <1>0, <1>13 DEF Die, TypeOK, Typed, WPCs, metaVars, bufferVars, readerVars
  <2>2. KeyThere' /\ Chain' /\ Counted'
    BY <1>0, <1>13 DEF Die, TypeOK, Typed, KeyThere, Chain, Counted, FirstPart, LastPart, Upto,
                       metaVars, bufferVars
  <2> QED BY <2>1, <2>2 DEF LInv
<1>14. CASE Resume
  <2>1. TypeOK' /\ Typed'
    BY <1>0, <1>14 DEF Resume, TypeOK, Typed, WPCs, metaVars, bufferVars, readerVars
  <2>2. KeyThere' /\ Chain' /\ Counted'
    BY <1>0, <1>14 DEF Resume, KeyThere, Chain, Counted, FirstPart, LastPart, Upto,
                       metaVars, bufferVars
  <2> QED BY <2>1, <2>2 DEF LInv
<1> QED BY <1>1, <1>2, <1>3, <1>4, <1>5, <1>6, <1>7, <1>8, <1>9, <1>10, <1>11, <1>12, <1>13, <1>14
        DEF Producer

\* A step of the buffer preserves the invariant
LEMMA BufferLInv == ASSUME LInv, Buffer PROVE LInv'
<1> USE LiveTrackAssumption
<1>0. TypeOK /\ Typed /\ KeyThere /\ Chain /\ Counted
  BY DEF LInv
<1>1. CASE BeginTrim
  <2>1. TypeOK'
    BY <1>0, <1>1 DEF BeginTrim, TypeOK, BPCs, metaVars, producerVars, readerVars
  <2>2. sweep' \in Nat
    BY <1>0, <1>1 DEF BeginTrim, TypeOK, Typed
  <2> QED BY <1>1, <2>1, <2>2, PagesLInv DEF BeginTrim, metaVars, producerVars
<1>2. CASE RemoveParts
  <2>1. /\ kDel \in 0 .. MaxKeys /\ kEnd \in 0 .. MaxKeys /\ kDel + 1 < kEnd
        /\ keys[kDel].first \in Nat /\ keys[kDel].parts \in Nat
    BY <1>0, <1>2 DEF RemoveParts, TypeOK, Typed
  <2>2. pDel = keys[kDel].first /\ pDel' = Upto(kDel)
    BY <1>0, <1>2, <2>1 DEF RemoveParts, Counted, FirstPart, Upto
  <2>3. Upto(kDel) \in Nat /\ Upto(kDel) <= pEnd
    <3>1. Upto(kDel) <= keys[kEnd - 1].first
      BY <1>0, <2>1 DEF Chain
    <3>2. keys[kEnd - 1].first \in Nat /\ keys[kEnd - 1].parts \in Nat
      BY <1>0, <2>1 DEF Typed
    <3> QED BY <1>0, <2>1, <3>1, <3>2 DEF Counted, LastPart, Upto, Typed
  <2>4. TypeOK' /\ Typed'
    <3>1. pDel' \in 0 .. pEnd /\ pEnd' = pEnd
      BY <1>0, <1>2, <2>2, <2>3 DEF RemoveParts, Typed
    <3>2. TypeOK'
      BY <1>0, <1>2, <3>1 DEF RemoveParts, TypeOK, BPCs, producerVars, readerVars
    <3> QED BY <1>0, <1>2, <3>2 DEF RemoveParts, Typed, producerVars
  <2>5. KeyThere' /\ Chain'
    BY <1>0, <1>2, <2>1 DEF RemoveParts, KeyThere, Chain, Upto, producerVars
  <2>6. Counted'
    BY <1>0, <1>2, <2>1, <2>2 DEF RemoveParts, Counted, FirstPart, LastPart, Upto, producerVars
  <2> QED BY <2>4, <2>5, <2>6 DEF LInv
<1>3. CASE RemoveKey
  <2>1. kDel \in 0 .. MaxKeys /\ kEnd \in 0 .. MaxKeys /\ kDel + 1 < kEnd
    BY <1>0, <1>3 DEF RemoveKey, TypeOK, KeyThere
  <2>2. keys[kDel + 1].first = Upto(kDel)
    BY <1>0, <2>1 DEF Chain
  <2>3. TypeOK' /\ Typed'
    BY <1>0, <1>3, <2>1 DEF RemoveKey, TypeOK, Typed, BPCs, producerVars, readerVars
  <2>4. KeyThere' /\ Chain'
    BY <1>0, <1>3, <2>1 DEF RemoveKey, KeyThere, Chain, Upto, producerVars
  <2>5. Counted'
    BY <1>0, <1>3, <2>1, <2>2 DEF RemoveKey, Counted, FirstPart, LastPart, Upto, producerVars
  <2> QED BY <2>3, <2>4, <2>5 DEF LInv
<1>4. CASE UnlinkPage
  <2>1. TypeOK'
    BY <1>0, <1>4 DEF UnlinkPage, TypeOK, BPCs, metaVars, producerVars, readerVars
  <2>2. sweep' \in Nat
    BY <1>0, <1>4 DEF UnlinkPage, TypeOK, Typed
  <2> QED BY <1>4, <2>1, <2>2, PagesLInv DEF UnlinkPage, metaVars, producerVars
<1>5. CASE RemoveRecord
  <2>1. TypeOK'
    BY <1>0, <1>5 DEF RemoveRecord, TypeOK, BPCs, producerVars, readerVars
  <2>2. sweep' \in Nat
    BY <1>0, <1>5 DEF RemoveRecord, TypeOK, Typed
  <2> QED BY <1>5, <2>1, <2>2, PagesLInv DEF RemoveRecord, producerVars
<1>6. CASE Deplete
  <2>1. TypeOK'
    BY <1>0, <1>6 DEF Deplete, TypeOK, BPCs, metaVars, producerVars, readerVars
  <2>2. sweep' \in Nat
    BY <1>0, <1>6 DEF Deplete, TypeOK, Typed
  <2> QED BY <1>6, <2>1, <2>2, PagesLInv DEF Deplete, metaVars, producerVars
<1>7. CASE KeepPage
  <2>1. recs' \in [0 .. PageSlots - 1 -> Record]
    <3>1. \A n \in 0 .. Wrap - 1 : (n + Wrap - 1) % Wrap \in 0 .. Wrap - 1
      BY WrapIn DEF Wrap
    <3>2. kDel \in 0 .. Wrap - 1
      BY <1>0 DEF TypeOK, Wrap
    <3>3. Slot(pgDel) \in 0 .. PageSlots - 1
      BY <1>0, SlotIn DEF TypeOK
    <3>4. (recs[Slot(pgDel)].keycount + Wrap - 1) % Wrap \in 0 .. Wrap - 1
      BY <1>0, <3>1, <3>3 DEF TypeOK, Record
    <3> DEFINE n == (recs[Slot(pgDel)].keycount + Wrap - 1) % Wrap
               r == [firstkey |-> kDel, keycount |-> n, avail |-> 0]
    <3>5. recs' = recs \/ recs' = [recs EXCEPT ![Slot(pgDel)] = r]
      BY <1>7 DEF KeepPage, Rec
    <3>6. r \in Record
      <4> HIDE DEF n
      <4> QED BY <3>2, <3>4 DEF Record, n
    <3> HIDE DEF r
    <3> QED BY <1>0, <3>3, <3>5, <3>6, RecsIn DEF TypeOK
  <2>2. TypeOK'
    BY <1>0, <1>7, <2>1 DEF KeepPage, TypeOK, BPCs, producerVars, readerVars
  <2>3. sweep' \in Nat
    BY <1>0, <1>7 DEF KeepPage, TypeOK, Typed
  <2> QED BY <1>7, <2>2, <2>3, PagesLInv DEF KeepPage, producerVars
<1>8. CASE BeginSweep
  <2>1. TypeOK'
    BY <1>0, <1>8 DEF BeginSweep, TypeOK, BPCs, metaVars, producerVars, readerVars
  <2>2. sweep' \in Nat
    BY <1>0, <1>8 DEF BeginSweep, TypeOK, Typed
  <2> QED BY <1>8, <2>1, <2>2, PagesLInv DEF BeginSweep, metaVars, producerVars
<1>9. CASE EndSweep
  <2>1. TypeOK'
    BY <1>0, <1>9 DEF EndSweep, TypeOK, BPCs, metaVars, producerVars, readerVars
  <2>2. sweep' \in Nat
    BY <1>0, <1>9 DEF EndSweep, TypeOK, Typed
  <2> QED BY <1>9, <2>1, <2>2, PagesLInv DEF EndSweep, metaVars, producerVars
<1>10. CASE SweepPage
  <2>1. /\ recs' = [recs EXCEPT ![Slot(sweep)] = [@ EXCEPT !.avail = 0, !.keycount = 0]]
        /\ pgDel' \in pgDel .. pgEnd /\ pgEnd' = pgEnd
        /\ files' \subseteq files
    BY <1>10 DEF SweepPage
  <2>2. recs' \in [0 .. PageSlots - 1 -> Record]
    <3>1. Slot(sweep) \in 0 .. PageSlots - 1 /\ 0 \in 0 .. Wrap - 1
      <4>1. sweep \in Nat
        BY <1>0 DEF Typed
      <4> QED BY <4>1, SlotIn DEF Wrap
    <3>2. [recs[Slot(sweep)] EXCEPT !.avail = 0, !.keycount = 0] \in Record
      BY <1>0, <3>1, RecordIn
    <3> QED BY <1>0, <2>1, <3>1, <3>2, RecsIn
  <2>3. TypeOK'
    BY <1>0, <1>10, <2>1, <2>2 DEF SweepPage, TypeOK, producerVars, readerVars
  <2>4. sweep' \in Nat
    <3>1. sweep' = sweep + 1
      BY <1>10 DEF SweepPage
    <3> QED BY <1>0, <3>1 DEF Typed
  <2> QED BY <1>10, <2>3, <2>4, PagesLInv DEF SweepPage, producerVars
<1> QED BY <1>1, <1>2, <1>3, <1>4, <1>5, <1>6, <1>7, <1>8, <1>9, <1>10 DEF Buffer

\* The inductive invariant holds in every state
THEOREM LiveTrackInvariant == Spec => []LInv
<1>1. ASSUME LInv, [Next]_vars PROVE LInv'
  <2>1. CASE UNCHANGED vars
    BY <1>1, <2>1 DEF vars, metaVars, producerVars, bufferVars, readerVars, LInv, TypeOK, Typed,
       KeyThere, Chain, Counted, FirstPart, LastPart, Upto
  <2> QED BY <1>1, <2>1, ProducerLInv, BufferLInv, ReaderLInv DEF Next
<1> QED BY InitLInv, <1>1, PTL DEF Spec

\* The windows of the rings are in order and no wider than the rings
THEOREM LiveTrackTypeOK == Spec => []TypeOK
BY LiveTrackInvariant, PTL DEF LInv

\* Parts are counted for the right keys unless a producer died within a packet
THEOREM LiveTrackPartsAligned == Spec => []PartsAligned
<1>1. LInv => PartsAligned
  <2> SUFFICES ASSUME LInv, "die" \notin torn, kDel < kEnd
               PROVE  /\ pDel = keys[kDel].first + (IF bpc = "key" THEN keys[kDel].parts ELSE 0)
                      /\ pEnd = keys[kEnd - 1].first + keys[kEnd - 1].parts
                                + (IF wpc \in {"key", "parts"} THEN 1 ELSE 0)
    BY DEF PartsAligned
  <2>1. kDel \in 0 .. MaxKeys /\ kEnd \in 1 .. MaxKeys
    BY LiveTrackAssumption DEF LInv, TypeOK
  <2>2. keys[kDel].first \in Nat
    BY <2>1 DEF LInv, Typed
  <2> QED BY <2>1, <2>2 DEF LInv, Counted, FirstPart, LastPart, Upto
<1> QED BY LiveTrackInvariant, <1>1, PTL

-----------------------------------------------------------------------------
(* The pages, in a state                                                     *)

\* Records that are less than the ring apart have different slots
LEMMA SlotsDiffer ==
    ASSUME NEW i \in Nat, NEW j \in Nat, i < j, j - i < PageSlots
    PROVE  Slot(i) # Slot(j)
<1> DEFINE P == PageSlots
<1>1. P \in Nat \ {0}
  BY LiveTrackAssumption
<1> HIDE DEF P
<1>2. ASSUME NEW d \in Nat \ {0} PROVE P * d >= P
  BY <1>1
<1>3. i = P * (i \div P) + (i % P) /\ j = P * (j \div P) + (j % P)
  BY <1>1, SMT
<1>4. j - i < P
  BY DEF P
<1>5. ASSUME i % P = j % P PROVE FALSE
  <2> DEFINE a == i \div P
             b == j \div P
             r == i % P
  <2>1. a \in Int /\ b \in Int /\ r \in Int /\ i = P * a + r /\ j = P * b + r
    BY <1>1, <1>3, <1>5, SMT
  <2> HIDE DEF a, b, r
  <2>2. j - i = P * (b - a)
    BY <1>1, <2>1, SMT
  <2>3. CASE b - a \in Nat \ {0}
    <3>1. P * (b - a) >= P
      BY <1>2, <2>3
    <3> QED BY <1>1, <1>4, <2>2, <3>1, SMT
  <2>4. CASE b - a \notin Nat \ {0}
    <3>1. b - a <= 0
      BY <2>1, <2>4, SMT
    <3>2. P * (b - a) <= 0
      BY <1>1, <2>1, <3>1, SMT
    <3> QED BY <2>2, <3>2, SMT
  <2> QED BY <2>3, <2>4
<1> QED BY <1>5 DEF Slot, P

\* What TypeOK says of a record
LEMMA RecIn ==
    ASSUME TypeOK, NEW i \in Nat
    PROVE  /\ Rec(i) \in Record
           /\ From(i) \in 0 .. NoPage /\ Rec(i).keycount \in Nat /\ Rec(i).avail \in {0, 1}
           /\ Until(i) = From(i) + Rec(i).keycount /\ Until(i) \in Nat
<1>1. Rec(i) \in Record
  BY SlotIn DEF TypeOK, Rec
<1> QED BY <1>1, LiveTrackAssumption DEF From, Until, Record, NoPage, Wrap

\* The counters of the track
LEMMA Counters ==
    ASSUME TypeOK
    PROVE  /\ pgDel \in Nat /\ pgEnd \in Nat /\ pgDel <= pgEnd /\ pgEnd - pgDel <= PageSlots /\ PageSlots \in Nat
           /\ kDel \in Nat /\ kEnd \in Nat /\ kDel <= kEnd /\ kEnd <= MaxKeys /\ MaxKeys \in Nat
           /\ MaxPages \in Nat /\ pgEnd <= MaxPages /\ NoPage = Wrap /\ Wrap \in Nat /\ MaxKeys + 1 < Wrap
           /\ \A i : i \in Window <=> i \in Nat /\ pgDel <= i /\ i < pgEnd
BY LiveTrackAssumption DEF TypeOK, Window, NoPage, Wrap

\* The numbers of a state, for steps that only need those
LEMMA Numbers ==
    ASSUME LInv, PInv
    PROVE  /\ TypeOK /\ Pages /\ LastPage /\ FirstPage /\ Files /\ Stored /\ Removed /\ Reading
           /\ pgDel \in Nat /\ pgEnd \in Nat /\ pgDel <= pgEnd /\ pgEnd - pgDel <= PageSlots /\ PageSlots \in Nat
           /\ kDel \in Nat /\ kEnd \in Nat /\ kDel <= kEnd /\ Last = pgEnd - 1
           /\ \A i : i \in Window <=> i \in Nat /\ pgDel <= i /\ i < pgEnd
           /\ \A i \in Nat : /\ From(i) \in Nat /\ From(i) \in 0 .. NoPage /\ Rec(i).keycount \in Nat /\ Rec(i).avail \in {0, 1}
                             /\ Until(i) = From(i) + Rec(i).keycount /\ Until(i) \in Nat
<1>1. TypeOK /\ Pages /\ LastPage /\ FirstPage /\ Files /\ Stored /\ Removed /\ Reading
  BY DEF LInv, PInv
<1>2. /\ pgDel \in Nat /\ pgEnd \in Nat /\ pgDel <= pgEnd /\ pgEnd - pgDel <= PageSlots /\ PageSlots \in Nat
      /\ kDel \in Nat /\ kEnd \in Nat /\ kDel <= kEnd /\ \A i : i \in Window <=> i \in Nat /\ pgDel <= i /\ i < pgEnd
  BY <1>1, Counters
<1>3. \A i \in Nat : /\ From(i) \in Nat /\ From(i) \in 0 .. NoPage /\ Rec(i).keycount \in Nat /\ Rec(i).avail \in {0, 1}
                     /\ Until(i) = From(i) + Rec(i).keycount /\ Until(i) \in Nat
  BY <1>1, RecIn
<1> QED BY <1>1, <1>2, <1>3 DEF Last

\* How the pages of the window lie
LEMMA Geometry ==
    ASSUME LInv, PInv
    PROVE  /\ pgEnd > 0 => Last \in Window /\ From(Last) <= kEnd
                           /\ Until(Last) \in {kEnd, kEnd + 1}
           /\ \A i \in Window : i # Last => /\ Until(i) <= From(Last) /\ From(i) < Until(i) /\ Until(i) <= kEnd
                                            /\ Rec(i).keycount > 0 /\ Rec(i).avail = 1
           /\ \A i, j \in Window : i < j => From(i) < From(j) /\ Slot(i) # Slot(j)
<1>0. /\ Pages /\ LastPage
      /\ pgDel \in Nat /\ pgEnd \in Nat /\ kEnd \in Nat /\ pgEnd - pgDel <= PageSlots /\ PageSlots \in Nat /\ Last = pgEnd - 1
      /\ \A i : i \in Window <=> i \in Nat /\ pgDel <= i /\ i < pgEnd
      /\ \A i \in Nat : From(i) \in Nat /\ Rec(i).keycount \in Nat /\ Until(i) = From(i) + Rec(i).keycount
  BY Numbers
<1>1. ASSUME pgEnd > 0
      PROVE  Last \in Window /\ From(Last) <= kEnd /\ Until(Last) \in {kEnd, kEnd + 1}
  <2>1. Last \in Window /\ Last \in Nat
    BY <1>0, <1>1 DEF LastPage, Last
  <2>2. Until(Last) \in {kEnd, kEnd + 1} /\ (Rec(Last).keycount = 0 => Until(Last) = kEnd)
    BY <1>0, <1>1 DEF LastPage
  <2>3. From(Last) \in Nat /\ Rec(Last).keycount \in Nat /\ Until(Last) = From(Last) + Rec(Last).keycount
    BY <1>0, <2>1
  <2>4. From(Last) <= kEnd
    <3>1. kEnd \in Nat
      BY <1>0
    <3>2. CASE Rec(Last).keycount = 0
      BY <3>1, <3>2, <2>2, <2>3
    <3>3. CASE Rec(Last).keycount # 0
      BY <3>1, <3>3, <2>2, <2>3
    <3> QED BY <3>2, <3>3
  <2> QED BY <2>1, <2>2, <2>4
<1>2. ASSUME NEW i \in Window, i # Last
      PROVE  /\ Until(i) <= From(Last) /\ From(i) < Until(i) /\ Until(i) <= kEnd
             /\ Rec(i).keycount > 0 /\ Rec(i).avail = 1
  <2>1. i \in Nat /\ i < pgEnd /\ i # pgEnd - 1 /\ pgEnd \in Nat
    BY <1>0, <1>2
  <2>2. Until(i) <= From(Last) /\ Rec(i).keycount > 0 /\ Rec(i).avail = 1 /\ From(Last) <= kEnd
    BY <1>0, <1>1, <2>1 DEF Pages
  <2>3. Last \in Nat
    BY <1>0, <2>1
  <2> QED BY <1>0, <2>1, <2>2, <2>3
<1>3. ASSUME NEW i \in Window, NEW j \in Window, i < j
      PROVE  From(i) < From(j) /\ Slot(i) # Slot(j)
  <2>1. i \in Nat /\ j \in Nat /\ i < Last /\ j - i < PageSlots
    BY <1>0, <1>3 DEF Last
  <2>2. From(i) < Until(i) /\ Until(i) <= From(j)
    BY <1>0, <1>2, <1>3, <2>1 DEF Pages
  <2>3. From(i) < From(j)
    BY <1>0, <2>1, <2>2
  <2>4. Slot(i) # Slot(j)
    BY <1>3, <2>1, SlotsDiffer
  <2> QED BY <2>3, <2>4
<1> QED BY <1>1, <1>2, <1>3

\* The record of a page is found by its number
LEMMA RecordFound ==
    ASSUME LInv, PInv, NEW i \in Window
    PROVE  RecordOf(From(i)) = i
<1>0. Window \subseteq Nat /\ \A j \in Nat : From(j) \in Nat
  BY Numbers
<1> DEFINE found == {j \in Window : Rec(j).firstkey = From(i)}
<1>1. \A j \in found : j = i
  BY <1>0, Geometry DEF From
<1>2. i \in found
  BY DEF From
<1>3. found = {i}
  BY <1>1, <1>2
<1>4. (CHOOSE j \in {i} : \A k \in {i} : j <= k) = i
  BY <1>0
<1> QED BY <1>3, <1>4 DEF RecordOf

\* Every key that was added and not removed lies on one page
LEMMA PageOfKey ==
    ASSUME LInv, PInv, NEW k \in Keys
    PROVE  \E i \in Window : From(i) <= k /\ k < Until(i) /\ Stands(i)
<1>0. /\ Pages /\ LastPage /\ FirstPage
      /\ pgDel \in Nat /\ pgEnd \in Nat /\ kEnd \in Nat /\ kDel \in Nat /\ Last = pgEnd - 1
      /\ \A i : i \in Window <=> i \in Nat /\ pgDel <= i /\ i < pgEnd
      /\ \A i \in Nat : From(i) \in Nat /\ Rec(i).keycount \in Nat /\ Until(i) = From(i) + Rec(i).keycount
      /\ k \in Nat /\ kDel <= k /\ k < kEnd
  BY Numbers DEF Keys
<1>1. pgEnd > 0 /\ pgDel \in Window /\ Last \in Window /\ Last \in Nat /\ pgDel \in Nat
  <2>1. pgEnd # 0
    <3>1. kEnd # 0
      BY <1>0
    <3> QED BY <1>0, <3>1 DEF LastPage
  <2>2. pgDel < pgEnd
    BY <1>0, <2>1 DEF LastPage
  <2>3. pgEnd - 1 \in Nat /\ pgDel <= pgEnd - 1 /\ pgEnd - 1 < pgEnd
    BY <1>0, <2>1, <2>2
  <2> QED BY <1>0, <2>1, <2>2, <2>3
<1>2. From(pgDel) <= k
  BY <1>0, <1>1 DEF FirstPage
<1> DEFINE before == {n \in 1 .. pgEnd : n - 1 \in Window /\ From(n - 1) <= k}
<1>3. before \in SUBSET (1 .. pgEnd) /\ pgDel + 1 \in before
  BY <1>0, <1>1, <1>2
<1>4. PICK n \in before : \A m \in before : n >= m
  BY <1>0, <1>3, Greatest
<1> DEFINE i == n - 1
<1>5. i \in Window /\ i \in Nat /\ From(i) <= k /\ n = i + 1
  BY <1>0, <1>4
<1> HIDE DEF i
<1>6. k < Until(i)
  <2>1. CASE i = Last
    BY <1>0, <1>1, <2>1, Geometry
  <2>2. CASE i # Last
    <3>1. i + 1 \in Window /\ i + 1 < pgEnd
      BY <1>0, <1>5, <2>2 DEF Last
    <3>2. ~(From(i + 1) <= k)
      <4>1. i + 2 > n /\ i + 2 \in 1 .. pgEnd /\ (i + 2) - 1 = i + 1
        BY <1>0, <1>5, <3>1
      <4> QED BY <1>4, <1>5, <4>1, <3>1
    <3>3. Until(i) = From(i + 1)
      BY <1>0, <1>5, <3>1 DEF Pages
    <3> QED BY <1>0, <1>5, <3>1, <3>2, <3>3
  <2> QED BY <2>1, <2>2
<1>7. Stands(i)
  <2>1. ASSUME bpc = "record", i = pgDel PROVE FALSE
    BY <1>0, <1>6, <2>1 DEF FirstPage
  <2>2. ASSUME wpc = "start", i = Last PROVE FALSE
    <3>1. Rec(i).keycount = 0
      BY <1>0, <1>1, <2>2 DEF LastPage
    <3> QED BY <1>0, <1>5, <1>6, <3>1
  <2> QED BY <2>1, <2>2 DEF Stands
<1> QED BY <1>5, <1>6, <1>7

\* The last page holds the last key; it is never the one that is removed
LEMMA Held ==
    ASSUME LInv, PInv
    PROVE  /\ kEnd > 0 => pgEnd > 0 /\ pgDel \in Window /\ kDel < kEnd
           /\ bpc \in {"page", "record"} => kEnd > 0
           /\ bpc = "record" => pgDel # Last /\ Until(pgDel) = kDel
           /\ bpc = "page" => Rec(pgDel).avail = 1
           /\ bpc = "sweep" => Needed(sweep)
<1>0. /\ LastPage /\ FirstPage /\ pgDel \in Nat /\ pgEnd \in Nat /\ pgDel <= pgEnd
      /\ \A i : i \in Window <=> i \in Nat /\ pgDel <= i /\ i < pgEnd
      /\ kDel \in Nat /\ kEnd \in Nat /\ kDel <= kEnd
  BY Numbers
<1>1. ASSUME kEnd > 0 PROVE pgEnd > 0 /\ pgDel \in Window /\ kDel < kEnd
  <2>1. pgEnd # 0 /\ pgDel < pgEnd
    BY <1>0, <1>1 DEF LastPage
  <2>2. kDel < kEnd
    BY <1>1 DEF LInv, KeyThere
  <2> QED BY <1>0, <2>1, <2>2
<1>2. ASSUME bpc \in {"page", "record"} PROVE kEnd > 0
  BY <1>0, <1>2 DEF FirstPage
<1>3. ASSUME bpc = "record" PROVE pgDel # Last /\ Until(pgDel) = kDel
  <2>1. kEnd > 0 /\ kDel < kEnd /\ pgEnd > 0
    BY <1>1, <1>2, <1>3
  <2>2. Until(pgDel) = kDel
    BY <1>0, <1>3, <2>1 DEF FirstPage
  <2>3. Until(Last) \in {kEnd, kEnd + 1}
    BY <2>1, Geometry
  <2>4. pgDel # Last
    <3>1. SUFFICES ASSUME pgDel = Last PROVE FALSE
      OBVIOUS
    <3>2. kDel \in {kEnd, kEnd + 1}
      BY <3>1, <2>2, <2>3
    <3> QED BY <1>0, <2>1, <3>2
  <2> QED BY <2>2, <2>4
<1>4. ASSUME bpc = "page" PROVE Rec(pgDel).avail = 1
  <2>1. kEnd > 0 /\ kDel < kEnd /\ pgEnd > 0 /\ pgDel \in Window
    BY <1>1, <1>2, <1>4
  <2>2. From(pgDel) <= kDel - 1 /\ kDel - 1 < Until(pgDel)
    BY <1>0, <1>4, <2>1 DEF FirstPage
  <2>3. /\ From(pgDel) \in Nat /\ Rec(pgDel).keycount \in Nat
        /\ Until(pgDel) = From(pgDel) + Rec(pgDel).keycount
    BY <1>0, Numbers
  <2>4. CASE pgDel = Last
    <3>1. Rec(Last).keycount # 0
      BY <1>0, <2>2, <2>3, <2>4
    <3>2. ASSUME wpc = "put", isKey, Rec(Last).keycount = 1 PROVE FALSE
      <4>1. Until(Last) = kEnd + 1
        BY <1>0, <2>1, <3>2 DEF LastPage
      <4>2. From(Last) = kEnd
        BY <1>0, <2>3, <2>4, <3>2, <4>1
      <4> QED BY <1>0, <2>1, <2>2, <2>4, <4>2
    <3>3. ~Fresh
      BY <1>0, <2>1, <3>1, <3>2 DEF Fresh, LastPage
    <3>4. Rec(Last).avail = 0 \/ Rec(Last).avail = 1
      BY <1>0, <2>1, <2>4, <3>3 DEF LastPage
    <3> QED BY <1>0, <2>1, <2>4, <3>3 DEF LastPage
  <2>5. CASE pgDel # Last
    BY <2>1, <2>5, Geometry
  <2> QED BY <2>4, <2>5
<1>5. ASSUME bpc = "sweep" PROVE Needed(sweep)
  <2>1. sweep = pgDel /\ snap \in Nat /\ snap <= kDel
    BY <1>0, <1>5 DEF FirstPage
  <2>2. From(pgDel) \in Nat /\ Until(pgDel) \in Nat
    BY <1>0, Numbers
  <2>3. CASE kEnd > 0
    <3>1. kDel < Until(pgDel)
      BY <1>0, <1>5, <2>3 DEF FirstPage
    <3> QED BY <1>0, <2>1, <2>2, <3>1 DEF Needed, Until
  <2>4. CASE kEnd = 0
    <3>1. snap = 0
      BY <1>0, <2>1, <2>4
    <3> QED BY <2>1, <2>2, <3>1 DEF Needed, From
  <2> QED BY <1>0, <2>3, <2>4
<1> QED BY <1>1, <1>2, <1>3, <1>4, <1>5

-----------------------------------------------------------------------------
(* Steps that leave the ring of pages alone, and the reader                  *)

\* Steps that leave the ring of pages alone
LEMMA SameRing ==
    ASSUME UNCHANGED <<recs, pgDel, pgEnd>>
    PROVE  /\ Window' = Window /\ Last' = Last
           /\ \A i : Rec(i)' = Rec(i) /\ From(i)' = From(i) /\ Until(i)' = Until(i)
           /\ Pages => Pages'
BY DEF Pages, Window, Last, Rec, From, Until

\* The last page, when ring and producer stay
LEMMA SameLastPage ==
    ASSUME UNCHANGED <<recs, pgDel, pgEnd, kEnd, wpc, live, num, cur, isKey>>, LastPage
    PROVE  LastPage'
BY DEF LastPage, Last, Rec, From, Until, Fresh

\* The first page, when ring and buffer stay
LEMMA SameFirstPage ==
    ASSUME UNCHANGED <<recs, pgDel, pgEnd, kDel, kEnd, bufferVars>>, FirstPage
    PROVE  FirstPage'
BY DEF FirstPage, Rec, From, Until, bufferVars

\* The data pages, when ring and pages stay
LEMMA SameFiles ==
    ASSUME UNCHANGED <<recs, pgDel, pgEnd, files>>, Files,
           (wpc = "start") = (wpc' = "start"), (bpc = "record") = (bpc' = "record")
    PROVE  Files'
<1>1. Window' = Window /\ Last' = Last /\ \A i : From(i)' = From(i)
  BY SameRing
<1>2. \A i : Stands(i)' = Stands(i)
  BY <1>1 DEF Stands
<1> QED BY <1>1, <1>2 DEF Files

\* The keys on their pages, when ring and data stay
LEMMA SameStored ==
    ASSUME UNCHANGED <<recs, pgDel, pgEnd, kEnd, data>>, Stored,
           wpc' \in {"part", "key"} => wpc \in {"part", "key"}
    PROVE  Stored'
<1>1. Window' = Window /\ \A i : From(i)' = From(i) /\ Until(i)' = Until(i)
  BY SameRing
<1> QED BY <1>1 DEF Stored

\* What a reader may have found, when ring and pages stay
LEMMA SameKnown ==
    ASSUME UNCHANGED <<recs, pgDel, pgEnd, kEnd, files>>
    PROVE  /\ \A g, i : Known(g, i)' = Known(g, i)
           /\ Removed => Removed'
<1>1. Window' = Window /\ \A i : From(i)' = From(i)
  BY SameRing
<1>2. \A g, i : Known(g, i)' = Known(g, i)
  BY <1>1 DEF Known
<1> QED BY <1>1, <1>2 DEF Removed

\* The reader, when all it reads stays
LEMMA SameReading ==
    ASSUME UNCHANGED <<recs, pgDel, pgEnd, kEnd, files, data, readerVars>>, Reading
    PROVE  Reading'
<1>1. Window' = Window /\ \A i : From(i)' = From(i) /\ Until(i)' = Until(i)
  BY SameRing
<1>2. Known(rpage, ri)' = Known(rpage, ri)
  BY <1>1 DEF Known, readerVars
<1> QED BY <1>1, <1>2 DEF Reading, readerVars

\* The steps of the reader
LEMMA ReaderPInv == ASSUME LInv, PInv, Reader PROVE PInv'
<1>0. /\ Pages /\ LastPage /\ FirstPage /\ Files /\ Stored /\ Removed /\ Reading
      /\ pgDel \in Nat /\ pgEnd \in Nat /\ kDel \in Nat /\ kEnd \in Nat
      /\ \A i : i \in Window <=> i \in Nat /\ pgDel <= i /\ i < pgEnd
      /\ \A i \in Nat : From(i) \in Nat /\ From(i) \in 0 .. NoPage /\ Rec(i).keycount \in Nat /\ Until(i) = From(i) + Rec(i).keycount
  BY Numbers
<1>1. UNCHANGED <<metaVars, files, data, producerVars, bufferVars, torn>>
  BY DEF Reader, Look, ReadFirst, NotFound, ReadCount, ReadAvail, OpenPage, EndRead
<1>2. UNCHANGED <<recs, pgDel, pgEnd, kDel, kEnd, files, data, wpc, live, num, cur, isKey, bpc>>
  BY <1>1 DEF metaVars, producerVars, bufferVars
<1>3. Pages' /\ LastPage' /\ FirstPage' /\ Files' /\ Stored' /\ Removed'
  BY <1>0, <1>1, <1>2, SameRing, SameLastPage, SameFirstPage, SameFiles, SameStored, SameKnown
<1>4. /\ Window' = Window /\ \A i : From(i)' = From(i) /\ Until(i)' = Until(i)
      /\ \A i : Rec(i)' = Rec(i)
      /\ \A g, i : Known(g, i)' = Known(g, i)
  BY <1>2, SameRing, SameKnown
<1>5. Reading'
  <2>1. CASE Look
    BY <1>0, <1>2, <2>1 DEF Look, Reading
  <2>2. CASE ReadFirst
    <3>1. rpc = "first" /\ ri \in Nat /\ ri < pgEnd /\ rkey \in Nat /\ rkey < kEnd /\ rkey' = rkey
      BY <1>0, <2>2 DEF ReadFirst, Reading
    <3>2. CASE From(ri) > rkey
      <4>1. ri' = ri + 1 /\ rpc' = "first"
        BY <2>2, <3>2 DEF ReadFirst, From
      <4> QED BY <1>2, <3>1, <4>1 DEF Reading
    <3>3. CASE ~(From(ri) > rkey)
      <4>1. ri' = ri /\ rpc' = "count" /\ rpage' = From(ri)
        BY <2>2, <3>1, <3>3 DEF ReadFirst, From
      <4>2. From(ri) \in Nat /\ From(ri) \in 0 .. NoPage /\ From(ri) <= rkey
        BY <1>0, <3>1, <3>3
      <4>3. Known(From(ri), ri)
        BY <1>0, <3>1 DEF Removed
      <4>4. Known(rpage, ri)'
        BY <1>4, <4>1, <4>3
      <4> QED BY <1>2, <3>1, <4>1, <4>2, <4>4 DEF Reading
    <3> QED BY <3>2, <3>3
  <2>3. CASE NotFound
    BY <2>3 DEF NotFound, Reading
  <2>4. CASE ReadCount
    <3>1. /\ rpc = "count" /\ ri \in Nat /\ ri < pgEnd /\ rkey \in Nat /\ rkey < kEnd /\ rkey' = rkey
          /\ rpage \in 0 .. NoPage /\ rpage' = rpage /\ rpage <= rkey /\ Known(rpage, ri)
      BY <1>0, <2>4 DEF ReadCount, Reading
    <3>2. CASE Past(rkey, rpage, Rec(ri).keycount)
      <4>1. ri' = ri + 1 /\ rpc' = "first"
        BY <2>4, <3>2 DEF ReadCount
      <4> QED BY <1>2, <3>1, <4>1 DEF Reading
    <3>3. CASE ~Past(rkey, rpage, Rec(ri).keycount)
      <4>1. ri' = ri /\ rpc' = "avail"
        BY <2>4, <3>3 DEF ReadCount
      <4>2. ASSUME NEW j \in Window, Slot(j) = Slot(ri), From(j) = rpage PROVE rkey < Until(j)
        <5>1. /\ j \in Nat /\ From(j) \in Nat /\ Rec(j).keycount \in Nat
              /\ Until(j) = From(j) + Rec(j).keycount
          BY <1>0
        <5>2. Rec(ri).keycount = Rec(j).keycount
          BY <4>2 DEF Rec
        <5>3. ~(Until(j) > 0 /\ rkey > Until(j) - 1)
          BY <3>3, <4>2, <5>1, <5>2 DEF Past
        <5>4. CASE Until(j) = 0
          <6>1. pgEnd > 0
            BY <1>0, <5>1
          <6>2. j = Last
            BY <1>0, <5>1, <5>4, Geometry
          <6>3. Until(Last) \in {kEnd, kEnd + 1}
            BY <6>1, Geometry
          <6> QED BY <1>0, <3>1, <5>4, <6>2, <6>3
        <5> QED BY <3>1, <5>1, <5>3, <5>4
      <4>3. Known(rpage, ri)'
        BY <1>4, <3>1, <4>1
      <4>4. \A j \in Window' : (Slot(j)' = Slot(ri)' /\ From(j)' = rpage') => rkey' < Until(j)'
        BY <1>4, <3>1, <4>1, <4>2 DEF Slot
      <4> QED BY <1>2, <3>1, <4>1, <4>3, <4>4 DEF Reading
    <3> QED BY <3>2, <3>3
  <2>5. CASE ReadAvail
    <3>1. /\ rpc = "avail" /\ ri \in Nat /\ ri < pgEnd /\ rkey \in Nat /\ rkey < kEnd /\ rkey' = rkey /\ ri' = ri
          /\ rpage \in 0 .. NoPage /\ rpage' = rpage /\ rpage <= rkey /\ Known(rpage, ri) /\ rpc' \in {"idle", "open"}
          /\ \A j \in Window : (Slot(j) = Slot(ri) /\ From(j) = rpage) => rkey < Until(j)
      BY <1>0, <2>5 DEF ReadAvail, Reading
    <3>2. ASSUME rpage \in files, NEW i \in Window, From(i) = rpage PROVE rkey < Until(i)
      <4>1. PICK j \in Window : Slot(j) = Slot(ri) /\ From(j) = rpage
        BY <3>1, <3>2 DEF Known
      <4>2. i = j
        BY <3>2, <4>1, RecordFound
      <4> QED BY <3>1, <4>1, <4>2
    <3> QED BY <1>0, <1>2, <1>4, <3>1, <3>2 DEF Reading
  <2>6. CASE OpenPage
    <3>1. /\ rpc = "open" /\ ri \in Nat /\ rkey \in Nat /\ rkey < kEnd /\ rkey' = rkey /\ ri' = ri
          /\ rpage \in 0 .. NoPage /\ rpage' = rpage /\ rpage <= rkey
          /\ rpc' = IF rpage \in files THEN "read" ELSE "idle"
      BY <1>0, <2>6 DEF OpenPage, Reading
    <3>2. ASSUME rpage \in files PROVE rkey \in data[rpage]
      <4>1. PICK j \in Window : From(j) = rpage
        BY <1>0, <3>2 DEF Files
      <4>2. rkey < Until(j) /\ Until(j) \in Nat
        BY <1>0, <3>1, <3>2, <4>1 DEF Reading
      <4>3. rkey \in From(j) .. Until(j) - 1
        BY <3>1, <4>1, <4>2
      <4> QED BY <1>0, <3>1, <4>1, <4>3 DEF Stored
    <3> QED BY <1>2, <3>1, <3>2 DEF Reading
  <2>7. CASE EndRead
    BY <1>0, <1>2, <2>7 DEF EndRead, Reading
  <2> QED BY <2>1, <2>2, <2>3, <2>4, <2>5, <2>6, <2>7 DEF Reader
<1> QED BY <1>3, <1>5 DEF PInv

-----------------------------------------------------------------------------
(* The buffer                                                                *)

\* The last key of the first page is counted without wrapping
LEMMA FirstUnwrapped ==
    ASSUME LInv, PInv, pgDel \in Window
    PROVE  Expired(Rec(pgDel)) = (Until(pgDel) <= kDel)
<1>0. /\ pgEnd \in Nat /\ pgDel \in Nat /\ kEnd \in Nat
      /\ \A i : i \in Window <=> i \in Nat /\ pgDel <= i /\ i < pgEnd
      /\ \A i \in Nat : Until(i) \in Nat
  BY Numbers
<1>1. pgEnd > 0 /\ Until(pgDel) \in Nat
  BY <1>0
<1>2. Until(pgDel) <= kEnd + 1
  <2>1. CASE pgDel = Last
    BY <1>0, <1>1, <2>1, Geometry
  <2>2. CASE pgDel # Last
    BY <1>0, <1>1, <2>2, Geometry
  <2> QED BY <2>1, <2>2
<1>3. kEnd <= MaxKeys /\ MaxKeys + 1 < Wrap /\ Wrap \in Nat /\ MaxKeys \in Nat
  BY Counters DEF LInv
<1>4. Until(pgDel) \in 0 .. Wrap - 1
  BY <1>0, <1>1, <1>2, <1>3
<1> DEFINE n == Until(pgDel) % Wrap
<1>5. n = Until(pgDel)
  BY <1>1, <1>3, <1>4
<1>6. Expired(Rec(pgDel)) = (n <= kDel)
  BY DEF Expired, Until
<1> HIDE DEF n
<1> QED BY <1>5, <1>6

\* The record of the first page is removed, and its page was deleted before
LEMMA RemoveRing ==
    ASSUME LInv, PInv, RemoveRecord
    PROVE  /\ Last' = Last /\ \A i : Rec(i)' = Rec(i) /\ From(i)' = From(i) /\ Until(i)' = Until(i)
           /\ \A i : i \in Window' <=> i \in Window /\ i # pgDel
           /\ From(pgDel) \notin files /\ From(pgDel) < kEnd
<1>0. /\ Files /\ pgDel \in Nat /\ pgEnd \in Nat /\ kDel \in Nat /\ kEnd \in Nat
      /\ \A i \in Nat : /\ From(i) \in Nat /\ Rec(i).keycount \in Nat
                        /\ Until(i) = From(i) + Rec(i).keycount /\ Until(i) \in Nat
  BY Numbers
<1>1. UNCHANGED <<recs, pgEnd>> /\ bpc = "record" /\ pgDel' = pgDel + 1
  BY DEF RemoveRecord
<1>2. kEnd > 0 /\ pgEnd > 0 /\ pgDel \in Window /\ kDel < kEnd /\ pgDel # Last /\ Until(pgDel) = kDel
  BY <1>1, Held
<1>3. Last' = Last /\ \A i : Rec(i)' = Rec(i) /\ From(i)' = From(i) /\ Until(i)' = Until(i)
  BY <1>1 DEF Last, Rec, From, Until
<1>4. \A i : i \in Window' <=> i \in Window /\ i # pgDel
  <2>1. \A i : i \in Window' <=> i \in 0 .. MaxPages /\ pgDel + 1 <= i /\ i < pgEnd
    BY <1>1 DEF Window
  <2>2. \A i : i \in Window <=> i \in 0 .. MaxPages /\ pgDel <= i /\ i < pgEnd
    BY DEF Window
  <2>3. ASSUME NEW i \in 0 .. MaxPages PROVE pgDel + 1 <= i <=> (pgDel <= i /\ i # pgDel)
    <3>1. i \in Int /\ pgDel \in Int
      BY <1>0
    <3> QED BY <3>1
  <2> QED BY <2>1, <2>2, <2>3
<1>5. From(pgDel) \notin files /\ From(pgDel) < kEnd
  <2>1. \A i \in Window : i # pgDel => From(i) # From(pgDel)
    BY <1>0, <1>2, Geometry
  <2>2. ~Stands(pgDel)
    BY <1>1 DEF Stands
  <2>3. From(pgDel) \notin files
    BY <1>0, <2>1, <2>2 DEF Files
  <2> QED BY <1>0, <1>2, <2>3
<1> QED BY <1>3, <1>4, <1>5

\* A key is removed from the front of the first page, and with its last key the page
LEMMA BufferPInv == ASSUME LInv, PInv, Buffer PROVE PInv'
<1>0. /\ Pages /\ LastPage /\ FirstPage /\ Files /\ Stored /\ Removed /\ Reading
      /\ pgDel \in Nat /\ pgEnd \in Nat /\ pgDel <= pgEnd /\ kDel \in Nat /\ kEnd \in Nat /\ kDel <= kEnd /\ Last = pgEnd - 1
      /\ \A i : i \in Window <=> i \in Nat /\ pgDel <= i /\ i < pgEnd
      /\ \A i \in Nat : /\ From(i) \in Nat /\ Rec(i).keycount \in Nat
                        /\ Until(i) = From(i) + Rec(i).keycount /\ Until(i) \in Nat
  BY Numbers
\* Steps that change neither a record, nor a page, nor a key
<1>1. ASSUME UNCHANGED <<recs, pgDel, pgEnd, kEnd, files, data, producerVars, readerVars>>,
             FirstPage', (bpc = "record") = (bpc' = "record")
      PROVE  PInv'
  <2>1. UNCHANGED <<wpc, live, num, cur, isKey>>
    BY <1>1 DEF producerVars
  <2>2. Pages' /\ LastPage' /\ Files' /\ Stored' /\ Removed' /\ Reading'
    BY <1>0, <1>1, <2>1, SameRing, SameLastPage, SameFiles, SameStored, SameKnown, SameReading
  <2> QED BY <1>1, <2>2 DEF PInv
<1>2. CASE BeginTrim
  <2>1. UNCHANGED <<recs, pgDel, pgEnd, kDel, kEnd, files, data, producerVars, readerVars>>
        /\ bpc = "idle" /\ bpc' = "trim" /\ snap' = kDel
    BY <1>2 DEF BeginTrim, metaVars
  <2>2. FirstPage'
    BY <1>0, <2>1 DEF FirstPage, From, Until, Rec
  <2> QED BY <1>1, <2>1, <2>2
<1>3. CASE RemoveParts
  <2>1. UNCHANGED <<recs, pgDel, pgEnd, kDel, kEnd, files, data, producerVars, readerVars, snap>>
        /\ bpc = "trim" /\ bpc' = "key"
    BY <1>3 DEF RemoveParts
  <2>2. FirstPage'
    BY <1>0, <2>1 DEF FirstPage, From, Until, Rec
  <2> QED BY <1>1, <2>1, <2>2
<1>4. CASE RemoveKey
  <2>1. UNCHANGED <<recs, pgDel, pgEnd, kEnd, files, data, producerVars, readerVars, snap>>
        /\ bpc = "key" /\ bpc' = "page" /\ kDel' = kDel + 1
    BY <1>4 DEF RemoveKey
  <2>2. kDel + 1 < kEnd
    BY <2>1 DEF LInv, KeyThere
  <2>3. snap \in 0 .. kDel /\ From(pgDel) <= kDel /\ kDel < Until(pgDel)
    BY <1>0, <2>1, <2>2 DEF FirstPage
  <2>4. From(pgDel)' = From(pgDel) /\ Until(pgDel)' = Until(pgDel)
    BY <2>1 DEF From, Until, Rec
  <2>5. FirstPage'
    BY <1>0, <2>1, <2>2, <2>3, <2>4 DEF FirstPage
  <2> QED BY <1>1, <2>1, <2>5
<1>5. CASE UnlinkPage
  <2>1. /\ UNCHANGED <<recs, pgDel, pgEnd, kDel, kEnd, data, producerVars, readerVars, snap>>
        /\ bpc = "page" /\ bpc' = "record" /\ Expired(Rec(pgDel))
        /\ files' = IF Rec(pgDel).avail > 0 THEN files \ {From(pgDel)} ELSE files
    BY <1>5 DEF UnlinkPage, metaVars, From
  <2>2. kEnd > 0 /\ pgEnd > 0 /\ pgDel \in Window /\ kDel < kEnd /\ Rec(pgDel).avail = 1
    BY <2>1, Held
  <2>3. files' = files \ {From(pgDel)}
    BY <2>1, <2>2
  <2>4. Until(pgDel) = kDel
    <3>1. From(pgDel) <= kDel - 1 /\ kDel - 1 < Until(pgDel)
      BY <1>0, <2>1, <2>2 DEF FirstPage
    <3>2. Until(pgDel) <= kDel
      BY <2>1, <2>2, FirstUnwrapped
    <3>3. Until(pgDel) \in Nat /\ kDel \in Nat
      BY <1>0
    <3> QED BY <3>1, <3>2, <3>3
  <2>5. FirstPage'
    <3>1. From(pgDel)' = From(pgDel) /\ Until(pgDel)' = Until(pgDel)
      BY <2>1 DEF From, Until, Rec
    <3>2. snap \in 0 .. kDel /\ kDel > 0
      BY <1>0, <2>1 DEF FirstPage
    <3> QED BY <1>0, <2>1, <2>2, <2>4, <3>1, <3>2 DEF FirstPage
  <2>6. Window' = Window /\ \A i : From(i)' = From(i) /\ Until(i)' = Until(i)
    BY <2>1, SameRing
  <2>7. Pages' /\ LastPage' /\ Stored'
    BY <1>0, <2>1, SameRing, SameLastPage, SameStored DEF producerVars
  <2>8. Files'
    <3>1. \A i : Stands(i)' = (Stands(i) /\ i # pgDel)
      BY <2>1 DEF Stands, Last, producerVars
    <3>2. \A i \in Window : i # pgDel => From(i) # From(pgDel)
      BY <1>0, <2>2, Geometry
    <3>3. files = {From(i) : i \in {j \in Window : Stands(j)}}
      BY <1>0 DEF Files
    <3>4. files' = {From(i) : i \in {j \in Window : Stands(j) /\ j # pgDel}}
      BY <2>3, <3>2, <3>3
    <3> QED BY <2>6, <3>1, <3>4 DEF Files
  <2>9. \A g, i : Known(g, i) => Known(g, i)'
    BY <2>1, <2>3, <2>6 DEF Known
  <2>10. Removed'
    BY <1>0, <2>1, <2>6, <2>9 DEF Removed
  <2>11. Reading'
    BY <1>0, <2>1, <2>3, <2>6, <2>9 DEF Reading, readerVars
  <2> QED BY <2>5, <2>7, <2>8, <2>10, <2>11 DEF PInv
<1>6. CASE RemoveRecord
  <2>1. /\ UNCHANGED <<recs, pgEnd, kDel, kEnd, files, data, wpc, live, num, cur, isKey, readerVars, snap>>
        /\ bpc = "record" /\ bpc' = "trim" /\ pgDel' = pgDel + 1
    BY <1>6 DEF RemoveRecord, producerVars
  <2>2. kEnd > 0 /\ pgEnd > 0 /\ pgDel \in Window /\ kDel < kEnd /\ pgDel # Last /\ Until(pgDel) = kDel
    BY <2>1, Held
  <2>3. Last' = Last /\ \A i : Rec(i)' = Rec(i) /\ From(i)' = From(i) /\ Until(i)' = Until(i)
    BY <1>6, RemoveRing
  <2>4. \A i : i \in Window' <=> i \in Window /\ i # pgDel
    BY <1>6, RemoveRing
  <2>5. pgDel + 1 \in Window /\ From(pgDel + 1) = kDel /\ pgDel + 1 < pgEnd
    <3>1. pgDel + 1 < pgEnd
      BY <1>0, <2>2
    <3>2. From(pgDel + 1) = Until(pgDel)
      BY <1>0, <2>2, <3>1 DEF Pages
    <3>3. pgDel + 1 \in Nat /\ pgDel <= pgDel + 1
      BY <1>0
    <3>4. pgDel + 1 \in Window
      BY <1>0, <3>1, <3>3
    <3> QED BY <2>2, <3>1, <3>2, <3>4
  <2>6. kDel < Until(pgDel + 1)
    <3>1. CASE pgDel + 1 = Last
      BY <1>0, <2>2, <2>5, <3>1, Geometry
    <3>2. CASE pgDel + 1 # Last
      <4>1. From(pgDel + 1) < Until(pgDel + 1)
        BY <2>5, <3>2, Geometry
      <4> QED BY <2>5, <4>1
    <3> QED BY <3>1, <3>2
  <2>7. Pages'
    BY <1>0, <2>1, <2>3, <2>4 DEF Pages
  <2>8. LastPage'
    <3>1. Fresh' = Fresh
      BY <2>1, <2>3 DEF Fresh, Rec, Last
    <3>2. Until(Last)' = Until(Last) /\ Rec(Last)' = Rec(Last) /\ From(Last)' = From(Last)
      BY <2>1 DEF Last, Rec, From, Until
    <3>3. pgDel' < pgEnd' /\ pgEnd' > 0
      BY <2>1, <2>2, <2>5
    <3> QED BY <1>0, <2>1, <2>2, <2>3, <3>1, <3>2, <3>3 DEF LastPage
  <2>9. FirstPage'
    <3>1. From(pgDel)' = From(pgDel + 1) /\ Until(pgDel)' = Until(pgDel + 1)
      BY <2>1 DEF From, Until, Rec
    <3>2. snap \in 0 .. kDel
      BY <1>0, <2>1 DEF FirstPage
    <3> QED BY <1>0, <2>1, <2>2, <2>5, <2>6, <3>1, <3>2 DEF FirstPage
  <2>10. Files'
    <3>1. \A i : Stands(i) = (Stands(i)' /\ i # pgDel)
      BY <2>1, <2>3 DEF Stands
    <3>2. {j \in Window : Stands(j)} = {j \in Window' : Stands(j)'}
      BY <2>4, <3>1
    <3> QED BY <1>0, <2>1, <2>3, <3>2 DEF Files
  <2>11. Stored'
    BY <1>0, <2>1, <2>3, <2>4 DEF Stored
  <2>12. From(pgDel) \notin files /\ From(pgDel) < kEnd
    BY <1>6, RemoveRing
  <2>13. \A g, i : Known(g, i) => Known(g, i)'
    BY <2>1, <2>3, <2>4, <2>12 DEF Known
  <2>14. Removed'
    BY <1>0, <2>1, <2>3, <2>13 DEF Removed
  <2>15. Reading'
    BY <1>0, <2>1, <2>3, <2>4, <2>13 DEF Reading, readerVars
  <2> QED BY <2>7, <2>8, <2>9, <2>10, <2>11, <2>14, <2>15 DEF PInv
<1>7. CASE Deplete
  <2>1. bpc = "record" /\ pgDel = pgEnd
    BY <1>7 DEF Deplete
  <2>2. pgDel \in Window
    BY <2>1, Held
  <2> QED BY <1>0, <2>1, <2>2
<1>8. CASE KeepPage
  <2>1. bpc = "page" /\ bpc' = "trim" /\ ~Expired(Rec(pgDel))
        /\ UNCHANGED <<pgDel, pgEnd, kDel, kEnd, files, data, producerVars, readerVars, snap>>
    BY <1>8 DEF KeepPage
  <2>2. kEnd > 0 /\ pgDel \in Window /\ Rec(pgDel).avail = 1
    BY <2>1, Held
  <2>3. recs' = recs
    BY <1>8, <2>2 DEF KeepPage
  <2>4. kDel < Until(pgDel)
    <3>1. ~(Until(pgDel) <= kDel)
      BY <2>1, <2>2, FirstUnwrapped
    <3> QED BY <1>0, <3>1
  <2>5. FirstPage'
    <3>1. From(pgDel)' = From(pgDel) /\ Until(pgDel)' = Until(pgDel)
      BY <2>1, <2>3 DEF From, Until, Rec
    <3>2. snap \in 0 .. kDel /\ kDel > 0 /\ From(pgDel) <= kDel - 1
      BY <1>0, <2>1, <2>2 DEF FirstPage
    <3>3. From(pgDel) <= kDel
      BY <1>0, <3>2
    <3> QED BY <1>0, <2>1, <2>2, <2>4, <3>1, <3>2, <3>3 DEF FirstPage
  <2> QED BY <1>1, <2>1, <2>3, <2>5
<1>9. CASE BeginSweep
  <2>1. UNCHANGED <<recs, pgDel, pgEnd, kDel, kEnd, files, data, producerVars, readerVars, snap>>
        /\ bpc = "trim" /\ bpc' = "sweep" /\ sweep' = pgDel
    BY <1>9 DEF BeginSweep, metaVars
  <2>2. FirstPage'
    BY <1>0, <2>1 DEF FirstPage, From, Until, Rec
  <2> QED BY <1>1, <2>1, <2>2
<1>10. CASE EndSweep
  <2>1. UNCHANGED <<recs, pgDel, pgEnd, kDel, kEnd, files, data, producerVars, readerVars, snap>>
        /\ bpc = "sweep" /\ bpc' = "idle"
    BY <1>10 DEF EndSweep, metaVars
  <2>2. FirstPage'
    BY <1>0, <2>1 DEF FirstPage, From, Until, Rec
  <2> QED BY <1>1, <2>1, <2>2
<1>11. CASE SweepPage
  BY <1>11, Held DEF SweepPage
<1> QED BY <1>2, <1>3, <1>4, <1>5, <1>6, <1>7, <1>8, <1>9, <1>10, <1>11 DEF Buffer

-----------------------------------------------------------------------------
(* The producer                                                              *)

\* The page the producer writes on is the last one, and it exists
LEMMA LivePage ==
    ASSUME LInv, PInv
    PROVE  /\ live # NoPage => /\ pgEnd > 0 /\ Last \in Window /\ live = From(Last)
                               /\ RecordOf(live) = Last /\ live \in files
           /\ wpc \in {"start", "count"} => /\ pgEnd > 0 /\ Last \in Window /\ cur = Last /\ isKey
                                            /\ Until(Last) = kEnd /\ kEnd < MaxKeys
           /\ wpc = "start" => num = From(Last) /\ RecordOf(num) = Last /\ From(Last) = kEnd
                               /\ Rec(Last).keycount = 0 /\ Rec(Last).avail = 0
<1>0. /\ LastPage /\ Files /\ pgEnd \in Nat
      /\ \A i \in Nat : From(i) \in Nat /\ Rec(i).keycount \in Nat /\ Until(i) = From(i) + Rec(i).keycount
      /\ \A i \in Window : i \in Nat
  BY Numbers
<1>1. KeyThere
  BY DEF LInv
<1>2. ASSUME live # NoPage
      PROVE  pgEnd > 0 /\ Last \in Window /\ live = From(Last) /\ RecordOf(live) = Last /\ live \in files
  <2>1. pgEnd > 0 /\ live = From(Last)
    BY <1>0, <1>2 DEF LastPage
  <2>2. Last \in Window
    BY <2>1, Geometry
  <2>3. RecordOf(From(Last)) = Last
    BY <2>2, RecordFound
  <2>4. Stands(Last)
    BY <1>1, <1>2, Held DEF Stands, KeyThere
  <2>5. live \in files
    BY <1>0, <2>1, <2>2, <2>4 DEF Files
  <2> QED BY <2>1, <2>2, <2>3, <2>5
<1>3. ASSUME wpc \in {"start", "count"}
      PROVE  pgEnd > 0 /\ Last \in Window /\ cur = Last /\ isKey /\ Until(Last) = kEnd /\ kEnd < MaxKeys
  <2>1. pgEnd > 0 /\ cur = Last /\ Until(Last) = kEnd
    BY <1>0, <1>3 DEF LastPage
  <2> QED BY <1>1, <1>3, <2>1, Geometry DEF KeyThere
<1>4. ASSUME wpc = "start"
      PROVE  num = From(Last) /\ RecordOf(num) = Last /\ From(Last) = kEnd
             /\ Rec(Last).keycount = 0 /\ Rec(Last).avail = 0
  <2>1. pgEnd > 0 /\ Last \in Window /\ Last \in Nat /\ Until(Last) = kEnd
    BY <1>0, <1>3, <1>4
  <2>2. num = From(Last) /\ Rec(Last).keycount = 0 /\ Rec(Last).avail = 0
    BY <1>0, <1>4, <2>1 DEF LastPage, Fresh
  <2>3. From(Last) = kEnd
    BY <1>0, <2>1, <2>2
  <2>4. RecordOf(From(Last)) = Last
    BY <2>1, RecordFound
  <2> QED BY <2>2, <2>3, <2>4
<1> QED BY <1>2, <1>3, <1>4

\* A page is added to the ring
LEMMA AddPageRing ==
    ASSUME LInv, PInv, AddPage(kEnd), pgDel' = pgDel
    PROVE  /\ Last' = pgEnd /\ pgEnd' = pgEnd + 1 /\ pgEnd \in Nat
           /\ \A i : i \in Window' <=> i \in Window \/ i = pgEnd
           /\ \A i \in Nat : Slot(i) = Slot(pgEnd) =>
                 /\ Rec(i)' = [firstkey |-> kEnd, keycount |-> 0, avail |-> 0]
                 /\ From(i)' = kEnd /\ Until(i)' = kEnd
           /\ \A i \in Nat : Slot(i) # Slot(pgEnd) => Rec(i)' = Rec(i) /\ From(i)' = From(i)
           /\ \A i \in Window : /\ Slot(i) # Slot(pgEnd) /\ i # pgEnd /\ i # Last'
                                /\ Rec(i)' = Rec(i) /\ From(i)' = From(i) /\ Until(i)' = Until(i)
<1> DEFINE new == [firstkey |-> kEnd, keycount |-> 0, avail |-> 0]
<1>0. /\ pgDel \in Nat /\ pgEnd \in Nat /\ pgDel <= pgEnd /\ kEnd \in Nat /\ PageSlots \in Nat
      /\ \A i : i \in Window <=> i \in Nat /\ pgDel <= i /\ i < pgEnd
  BY Numbers
<1>1. recs \in [0 .. PageSlots - 1 -> Record]
  BY DEF LInv, TypeOK
<1>2. recs' = [recs EXCEPT ![Slot(pgEnd)] = new] /\ pgEnd' = pgEnd + 1 /\ pgEnd - pgDel < PageSlots
      /\ pgEnd < MaxPages
  BY DEF AddPage
<1>3. Slot(pgEnd) \in 0 .. PageSlots - 1
  BY <1>0, SlotIn
<1>4. recs'[Slot(pgEnd)] = new
  BY <1>1, <1>2, <1>3
<1>5. ASSUME NEW i \in Nat, Slot(i) # Slot(pgEnd) PROVE recs'[Slot(i)] = recs[Slot(i)]
  <2>1. Slot(i) \in 0 .. PageSlots - 1
    BY SlotIn
  <2> QED BY <1>1, <1>2, <1>5, <2>1
<1>6. ASSUME NEW i \in Window PROVE Slot(i) # Slot(pgEnd) /\ i # pgEnd /\ i \in Nat
  <2>1. i \in Nat /\ i < pgEnd /\ pgEnd - i < PageSlots
    BY <1>0, <1>2
  <2> QED BY <1>0, <2>1, SlotsDiffer
<1>7. Last' = pgEnd
  BY <1>0, <1>2 DEF Last
<1>8. \A i : i \in Window' <=> i \in Window \/ i = pgEnd
  <2>1. \A i : i \in Window' <=> i \in 0 .. MaxPages /\ pgDel <= i /\ i < pgEnd + 1
    BY <1>2 DEF Window
  <2>2. \A i : i \in Window <=> i \in 0 .. MaxPages /\ pgDel <= i /\ i < pgEnd
    BY DEF Window
  <2>3. pgEnd \in 0 .. MaxPages
    BY <1>0, <1>2, LiveTrackAssumption
  <2>4. ASSUME NEW i \in 0 .. MaxPages PROVE i < pgEnd + 1 <=> (i < pgEnd \/ i = pgEnd)
    BY <1>0
  <2> QED BY <1>0, <2>1, <2>2, <2>3, <2>4
<1>9. ASSUME NEW i \in Nat, Slot(i) = Slot(pgEnd)
      PROVE  Rec(i)' = new /\ From(i)' = kEnd /\ Until(i)' = kEnd
  <2>1. recs'[Slot(i)] = new
    BY <1>4, <1>9
  <2> QED BY <1>0, <2>1 DEF Rec, From, Until
<1>10. ASSUME NEW i \in Nat, Slot(i) # Slot(pgEnd)
       PROVE  Rec(i)' = Rec(i) /\ From(i)' = From(i) /\ Until(i)' = Until(i)
  BY <1>5, <1>10 DEF Rec, From, Until
<1> QED BY <1>0, <1>2, <1>6, <1>7, <1>8, <1>9, <1>10

\* A page is added for the key to come
LEMMA AddPagePInv ==
    ASSUME LInv, PInv, AddPage(kEnd), wpc = "idle", live' = NoPage, isKey', kEnd < MaxKeys,
           UNCHANGED <<pgDel, kDel, kEnd, files, data, bufferVars, readerVars>>
    PROVE  PInv'
<1>0. /\ Pages /\ LastPage /\ FirstPage /\ Files /\ Stored /\ Removed /\ Reading
      /\ pgDel \in Nat /\ pgEnd \in Nat /\ pgDel <= pgEnd /\ kDel \in Nat /\ kEnd \in Nat /\ kDel <= kEnd
      /\ \A i : i \in Window <=> i \in Nat /\ pgDel <= i /\ i < pgEnd
      /\ \A i \in Nat : /\ From(i) \in Nat /\ Rec(i).keycount \in Nat
                        /\ Until(i) = From(i) + Rec(i).keycount /\ Until(i) \in Nat
  BY Numbers
<1>1. /\ Last' = pgEnd /\ pgEnd' = pgEnd + 1
      /\ \A i : i \in Window' <=> i \in Window \/ i = pgEnd
      /\ \A i \in Nat : Slot(i) = Slot(pgEnd) =>
            /\ Rec(i)' = [firstkey |-> kEnd, keycount |-> 0, avail |-> 0]
            /\ From(i)' = kEnd /\ Until(i)' = kEnd
      /\ \A i \in Nat : Slot(i) # Slot(pgEnd) => Rec(i)' = Rec(i) /\ From(i)' = From(i)
      /\ \A i \in Window : /\ Slot(i) # Slot(pgEnd) /\ i # pgEnd /\ i # Last'
                           /\ Rec(i)' = Rec(i) /\ From(i)' = From(i) /\ Until(i)' = Until(i)
  BY AddPageRing
<1>2. num' = kEnd /\ cur' = pgEnd /\ wpc' = "start"
  BY DEF AddPage
\* The page that was the last one is complete
<1>3. ASSUME pgEnd > 0
      PROVE  Last \in Window /\ Until(Last) = kEnd /\ Rec(Last).keycount > 0 /\ Rec(Last).avail = 1 /\ kEnd > 0
  <2>1. Last \in Window /\ Last \in Nat
    BY <1>0, <1>3, Geometry
  <2>2. Until(Last) = kEnd /\ Rec(Last).keycount # 0 /\ Rec(Last).avail = 1
    BY <1>0, <1>3 DEF LastPage, Fresh
  <2>3. Rec(Last).keycount \in Nat /\ From(Last) \in Nat /\ Until(Last) = From(Last) + Rec(Last).keycount
    BY <1>0, <2>1
  <2>4. kEnd \in Nat
    BY <1>0
  <2> QED BY <2>1, <2>2, <2>3, <2>4
<1>4. \A i \in Window : Until(i) <= kEnd /\ From(i) < Until(i) /\ Rec(i).keycount > 0 /\ Rec(i).avail = 1
  <2> SUFFICES ASSUME NEW i \in Window
               PROVE  Until(i) <= kEnd /\ From(i) < Until(i) /\ Rec(i).keycount > 0 /\ Rec(i).avail = 1
    OBVIOUS
  <2>1. i \in Nat /\ pgEnd > 0
    BY <1>0
  <2>2. CASE i = Last
    <3>1. Until(i) = kEnd /\ Rec(i).keycount > 0 /\ Rec(i).avail = 1
      BY <1>3, <2>1, <2>2
    <3>2. Rec(i).keycount \in Nat /\ From(i) \in Nat /\ Until(i) = From(i) + Rec(i).keycount
      BY <1>0, <2>1
    <3> QED BY <1>0, <3>1, <3>2
  <2>3. CASE i # Last
    <3>1. Until(i) <= kEnd /\ From(i) < Until(i) /\ Rec(i).keycount > 0 /\ Rec(i).avail = 1
      BY <2>3, Geometry
    <3> QED BY <3>1
  <2> QED BY <2>2, <2>3
<1>5. Pages'
  <2>1. ASSUME NEW i \in Window', i + 1 < pgEnd'
        PROVE  (Until(i) = From(i + 1))' /\ Rec(i).keycount' > 0 /\ Rec(i).avail' = 1
    <3>1. i \in Window /\ i \in Nat /\ pgEnd > 0
      BY <1>0, <1>1, <2>1
    <3>2. Rec(i)' = Rec(i) /\ Until(i)' = Until(i) /\ Rec(i).keycount > 0 /\ Rec(i).avail = 1
      BY <1>1, <1>4, <3>1
    <3>3. CASE i = Last
      <4>1. i + 1 = pgEnd
        BY <1>0, <3>1, <3>3 DEF Last
      <4>2. From(i + 1)' = kEnd
        BY <1>0, <1>1, <4>1
      <4>3. Until(i) = kEnd
        BY <1>3, <3>1, <3>3
      <4> QED BY <3>2, <4>2, <4>3
    <3>4. CASE i # Last
      <4>1. i + 1 \in Window /\ i + 1 < pgEnd
        <5>1. i \in Nat /\ pgEnd \in Nat /\ pgDel \in Nat /\ i < pgEnd /\ pgDel <= i
          BY <1>0, <3>1
        <5>2. i # pgEnd - 1
          BY <3>4 DEF Last
        <5>3. i + 1 \in Nat /\ i + 1 < pgEnd /\ pgDel <= i + 1
          BY <5>1, <5>2
        <5> QED BY <1>0, <5>3
      <4>2. Until(i) = From(i + 1)
        <5>1. Pages
          BY <1>0
        <5> QED BY <3>1, <4>1, <5>1 DEF Pages
      <4>3. From(i + 1)' = From(i + 1)
        BY <1>1, <4>1
      <4> QED BY <3>2, <4>2, <4>3
    <3> QED BY <3>3, <3>4
  <2>2. ASSUME NEW i \in Window', NEW j \in Window', i < j PROVE Until(i)' <= From(j)'
    <3>1. i \in Window /\ i # pgEnd
      <4>1. j \in Nat /\ j <= pgEnd
        BY <1>0, <1>1
      <4>2. i # pgEnd
        BY <1>0, <2>2, <4>1
      <4> QED BY <1>1, <4>2
    <3>2. CASE j = pgEnd
      BY <1>0, <1>1, <1>4, <3>1, <3>2
    <3>3. CASE j \in Window
      <4>1. Until(i) <= From(j)
        BY <1>0, <2>2, <3>1, <3>3 DEF Pages
      <4> QED BY <1>1, <3>1, <3>3, <4>1
    <3> QED BY <1>1, <3>2, <3>3
  <2> QED BY <2>1, <2>2 DEF Pages
<1>6. LastPage'
  <2>1. pgEnd' # 0 /\ pgDel' < pgEnd'
    BY <1>0, <1>1
  <2>2. \A i \in Nat : i = Last' => /\ Until(i)' = kEnd /\ From(i)' = kEnd /\ Rec(i)'.keycount = 0
                                    /\ Rec(i)'.avail = 0
    BY <1>1
  <2>3. Until(Last)' = kEnd /\ From(Last)' = kEnd /\ Rec(Last)'.keycount = 0 /\ Rec(Last)'.avail = 0
    BY <1>0, <1>1, <2>2
  <2> QED BY <1>1, <1>2, <2>1, <2>3 DEF LastPage, Fresh
<1>7. FirstPage'
  <2>1. CASE kEnd = 0
    <3>1. pgEnd = 0 /\ pgDel = 0 /\ kDel = 0
      BY <1>0, <1>3, <2>1 DEF FirstPage
    <3> QED BY <1>0, <1>1, <2>1, <3>1 DEF FirstPage, bufferVars
  <2>2. CASE kEnd > 0
    <3>1. pgDel \in Window
      BY <2>2, Held
    <3>2. \A i \in Window : i = pgDel => From(i)' = From(i) /\ Until(i)' = Until(i)
      BY <1>1
    <3>3. From(pgDel)' = From(pgDel) /\ Until(pgDel)' = Until(pgDel)
      BY <3>1, <3>2
    <3> QED BY <1>0, <2>2, <3>3 DEF FirstPage, bufferVars
  <2> QED BY <1>0, <2>1, <2>2
<1>8. Files'
  <2>1. ASSUME NEW i \in Window PROVE Stands(i)' <=> Stands(i)
    <3>1. i # Last' /\ wpc' = "start" /\ wpc = "idle" /\ bpc' = bpc /\ pgDel' = pgDel
      BY <1>1, <1>2 DEF bufferVars
    <3> QED BY <3>1 DEF Stands
  <2>2. \A i : i = pgEnd => ~Stands(i)'
    <3>1. Last' = pgEnd /\ wpc' = "start"
      BY <1>1, <1>2
    <3> QED BY <3>1 DEF Stands
  <2>3. {j \in Window' : Stands(j)'} = {j \in Window : Stands(j)}
    BY <1>1, <2>1, <2>2
  <2>4. {From(i)' : i \in {j \in Window' : Stands(j)'}} = {From(i) : i \in {j \in Window : Stands(j)}}
    BY <1>1, <2>3
  <2> QED BY <1>0, <2>4 DEF Files
<1>9. Stored'
  <2> SUFFICES ASSUME NEW i \in Window', NEW k \in (From(i) .. Until(i) - 1)', k < kEnd PROVE k \in data[From(i)']
    <3>1. data' = data /\ kEnd' = kEnd /\ data \in [0 .. NoPage -> SUBSET Nat]
      BY <1>0 DEF Stored
    <3> QED BY <1>2, <3>1 DEF Stored
  <2>1. CASE i \in Window
    BY <1>0, <1>1, <2>1 DEF Stored
  <2>2. CASE i = pgEnd
    <3>1. From(i)' = kEnd /\ Until(i)' = kEnd /\ kEnd \in Nat
      BY <1>0, <1>1, <2>2
    <3> QED BY <3>1
  <2> QED BY <1>1, <2>1, <2>2
<1>10. \A g, i : Known(g, i) => Known(g, i)'
  BY <1>1 DEF Known, Slot
<1>11. Removed'
  <2> SUFFICES ASSUME NEW i \in 0 .. pgEnd PROVE Known(From(i), i)'
    BY <1>0, <1>1 DEF Removed
  <2>1. i \in Nat
    BY <1>0
  <2>2. CASE Slot(i) = Slot(pgEnd)
    <3>1. \E j \in Window' : Slot(j) = Slot(i) /\ From(j)' = From(i)'
      BY <1>0, <1>1, <2>1, <2>2
    <3> QED BY <3>1 DEF Known, Slot
  <2>3. CASE Slot(i) # Slot(pgEnd)
    <3>1. i \in 0 .. pgEnd - 1
      <4>1. i # pgEnd
        BY <2>3
      <4>2. pgEnd \in Nat
        BY <1>0
      <4> QED BY <4>1, <4>2
    <3>2. Known(From(i), i) /\ From(i)' = From(i)
      BY <1>0, <1>1, <2>1, <2>3, <3>1 DEF Removed
    <3> QED BY <1>10, <3>2
  <2> QED BY <2>2, <2>3
<1>12. Reading'
  <2>1. UNCHANGED <<rpc, rkey, ri, rpage, kEnd, files, data>>
    BY DEF readerVars
  <2>2. ASSUME rpc = "avail"
        PROVE  \A j \in Window' : (Slot(j) = Slot(ri) /\ From(j)' = rpage) => rkey < Until(j)'
    <3> SUFFICES ASSUME NEW j \in Window', Slot(j) = Slot(ri), From(j)' = rpage PROVE rkey < Until(j)'
      OBVIOUS
    <3>1. rpage <= rkey /\ rkey < kEnd /\ rpage \in Nat /\ rkey \in Nat
      BY <1>0, <2>2 DEF Reading
    <3>2. CASE j = pgEnd
      BY <1>0, <1>1, <3>1, <3>2
    <3>3. CASE j \in Window
      BY <1>0, <1>1, <2>2, <3>3 DEF Reading
    <3> QED BY <1>1, <3>2, <3>3
  <2>3. ASSUME rpc = "open", rpage \in files
        PROVE  \A j \in Window' : From(j)' = rpage => rkey < Until(j)'
    <3> SUFFICES ASSUME NEW j \in Window', From(j)' = rpage PROVE rkey < Until(j)'
      OBVIOUS
    <3>1. rpage <= rkey /\ rkey < kEnd /\ rpage \in Nat /\ rkey \in Nat
      BY <1>0, <2>3 DEF Reading
    <3>2. CASE j = pgEnd
      BY <1>0, <1>1, <3>1, <3>2
    <3>3. CASE j \in Window
      BY <1>0, <1>1, <2>3, <3>3 DEF Reading
    <3> QED BY <1>1, <3>2, <3>3
  <2>4. rpc \in {"count", "avail"} => ri < pgEnd'
    BY <1>0, <1>1 DEF Reading
  <2> QED BY <1>0, <1>10, <2>1, <2>2, <2>3, <2>4 DEF Reading, Slot
<1> QED BY <1>5, <1>6, <1>7, <1>8, <1>9, <1>11, <1>12 DEF PInv

\* Only the record of the last page changes, and not its first key
LEMMA LastRecord ==
    ASSUME LInv, PInv, pgEnd > 0, NEW r \in Record, r.firstkey = From(Last),
           recs' = [recs EXCEPT ![Slot(Last)] = r], UNCHANGED <<pgDel, pgEnd>>
    PROVE  /\ Window' = Window /\ Last' = Last
           /\ \A i \in Nat : From(i)' = From(i)
           /\ \A i \in Window : i # Last => Rec(i)' = Rec(i) /\ Until(i)' = Until(i)
           /\ \A i \in Nat : i = Last => Rec(i)' = r /\ Until(i)' = r.firstkey + r.keycount
           /\ Rec(Last)' = r /\ Until(Last)' = r.firstkey + r.keycount /\ From(Last)' = From(Last)
<1>0. /\ \A i : i \in Window <=> i \in Nat /\ pgDel <= i /\ i < pgEnd
      /\ pgEnd \in Nat /\ pgDel \in Nat
  BY Numbers
<1>1. Last \in Window /\ Last \in Nat
  BY <1>0, Geometry
<1>2. recs \in [0 .. PageSlots - 1 -> Record] /\ Slot(Last) \in 0 .. PageSlots - 1
  BY <1>1, SlotIn DEF LInv, TypeOK
<1>3. Window' = Window /\ Last' = Last
  BY DEF Window, Last
<1>4. ASSUME NEW i \in Nat, Slot(i) = Slot(Last)
      PROVE  Rec(i)' = r /\ From(i)' = From(i) /\ Until(i)' = r.firstkey + r.keycount
  <2>1. recs'[Slot(i)] = r /\ recs[Slot(i)] = recs[Slot(Last)]
    BY <1>2, <1>4
  <2> QED BY <2>1 DEF Rec, From, Until
<1>5. ASSUME NEW i \in Nat, Slot(i) # Slot(Last)
      PROVE  Rec(i)' = Rec(i) /\ From(i)' = From(i) /\ Until(i)' = Until(i)
  <2>1. recs'[Slot(i)] = recs[Slot(i)]
    BY <1>2, <1>5, SlotIn
  <2> QED BY <2>1 DEF Rec, From, Until
<1>6. ASSUME NEW i \in Window, i # Last PROVE Slot(i) # Slot(Last) /\ i \in Nat
  <2>1. i \in Nat /\ i < pgEnd /\ i # pgEnd - 1 /\ Last = pgEnd - 1
    BY <1>0, <1>6 DEF Last
  <2>2. i < Last
    BY <1>0, <2>1
  <2> QED BY <1>1, <2>1, <2>2, Geometry
<1>7. Rec(Last)' = r /\ Until(Last)' = r.firstkey + r.keycount /\ From(Last)' = From(Last)
  <2>1. recs'[Slot(Last)] = r
    BY <1>2
  <2> QED BY <1>3, <2>1 DEF Rec, From, Until
<1> QED BY <1>1, <1>3, <1>4, <1>5, <1>6, <1>7

\* The key to come is counted on the last page, or the page gets its first packet
LEMMA LastRecordPInv ==
    ASSUME LInv, PInv, pgEnd > 0, NEW r \in Record, r.firstkey = From(Last),
           Until(Last) <= r.firstkey + r.keycount,
           recs' = [recs EXCEPT ![Slot(Last)] = r],
           UNCHANGED <<pgDel, pgEnd, kDel, kEnd, files, bufferVars, readerVars>>,
           wpc # "start", wpc' # "start",
           LastPage', Stored',
           \A g \in 0 .. NoPage : \A k : k \in data[g] => k \in data'[g]
    PROVE  PInv'
<1>0. /\ Pages /\ LastPage /\ FirstPage /\ Files /\ Stored /\ Removed /\ Reading
      /\ pgDel \in Nat /\ pgEnd \in Nat /\ kEnd \in Nat
      /\ \A i : i \in Window <=> i \in Nat /\ pgDel <= i /\ i < pgEnd
      /\ \A i \in Nat : Until(i) \in Nat
  BY Numbers
<1>1. /\ Window' = Window /\ Last' = Last
      /\ \A i \in Nat : From(i)' = From(i)
      /\ \A i \in Window : i # Last => Rec(i)' = Rec(i) /\ Until(i)' = Until(i)
      /\ \A i \in Nat : i = Last => Until(i)' = r.firstkey + r.keycount
  BY LastRecord
<1>2. \A i \in Window : Until(i)' \in Nat /\ Until(i) <= Until(i)'
  <2> SUFFICES ASSUME NEW i \in Window PROVE Until(i)' \in Nat /\ Until(i) <= Until(i)'
    OBVIOUS
  <2>1. i \in Nat /\ Until(i) \in Nat
    BY <1>0
  <2>2. CASE i = Last
    <3>1. Until(i)' = r.firstkey + r.keycount /\ Until(i) <= Until(i)'
      BY <1>1, <2>1, <2>2
    <3>2. r.firstkey \in Nat /\ r.keycount \in Nat
      BY DEF Record
    <3> QED BY <3>1, <3>2
  <2>3. CASE i # Last
    BY <1>1, <2>1, <2>3
  <2> QED BY <2>2, <2>3
<1>3. Pages'
  <2>1. ASSUME NEW i \in Window, i + 1 < pgEnd PROVE i # Last /\ i \in Nat /\ i + 1 \in Nat
    <3>1. i \in Nat /\ pgEnd \in Nat
      BY <1>0
    <3> QED BY <2>1, <3>1 DEF Last
  <2>2. ASSUME NEW i \in Window, NEW j \in Window, i < j PROVE i # Last /\ i \in Nat /\ j \in Nat
    <3>1. i \in Nat /\ j \in Nat /\ j < pgEnd /\ pgEnd \in Nat
      BY <1>0
    <3> QED BY <2>2, <3>1 DEF Last
  <2>3. \A i \in Window : i + 1 < pgEnd =>
           Until(i)' = From(i + 1)' /\ Rec(i)'.keycount > 0 /\ Rec(i)'.avail = 1
    BY <1>0, <1>1, <2>1 DEF Pages
  <2>4. \A i, j \in Window : i < j => Until(i)' <= From(j)'
    BY <1>0, <1>1, <2>2 DEF Pages
  <2> QED BY <1>1, <2>3, <2>4 DEF Pages
<1>4. FirstPage'
  <2>1. CASE kEnd = 0
    BY <1>0, <2>1 DEF FirstPage, bufferVars
  <2>2. CASE kEnd > 0
    <3>1. pgDel \in Window /\ pgDel \in Nat /\ (bpc = "record" => pgDel # Last)
      BY <1>0, <2>2, Held
    <3>2. \A i \in Window : i = pgDel => From(i)' = From(i) /\ Until(i) <= Until(i)' /\ Until(i)' \in Nat
                                         /\ (i # Last => Until(i)' = Until(i))
      BY <1>0, <1>1, <1>2
    <3>3. /\ From(pgDel)' = From(pgDel) /\ Until(pgDel) <= Until(pgDel)' /\ Until(pgDel)' \in Nat
          /\ (pgDel # Last => Until(pgDel)' = Until(pgDel))
      BY <3>1, <3>2
    <3>4. \A k \in Int : k < Until(pgDel) => k < Until(pgDel)'
      <4>1. Until(pgDel) \in Nat
        BY <1>0, <3>1
      <4> QED BY <3>3, <4>1
    <3>5. kDel \in Nat
      BY Numbers
    <3> QED BY <1>0, <2>2, <3>1, <3>3, <3>4, <3>5 DEF FirstPage, bufferVars
  <2> QED BY <1>0, <2>1, <2>2
<1>5. Files'
  <2>1. \A i : Stands(i)' <=> Stands(i)
    BY <1>1 DEF Stands, bufferVars
  <2>2. {From(i)' : i \in {j \in Window' : Stands(j)'}} = {From(i) : i \in {j \in Window : Stands(j)}}
    BY <1>0, <1>1, <2>1
  <2> QED BY <1>0, <2>2 DEF Files
<1>6. \A g, i : Known(g, i) => Known(g, i)'
  BY <1>0, <1>1 DEF Known, Slot
<1>7. Removed'
  <2>1. \A i \in 0 .. pgEnd - 1 : i \in Nat
    BY <1>0
  <2> QED BY <1>0, <1>1, <1>6, <2>1 DEF Removed
<1>8. Reading'
  <2>1. UNCHANGED <<rpc, rkey, ri, rpage, kEnd, files, pgEnd>>
    BY DEF readerVars
  <2>2. ASSUME rpc = "avail"
        PROVE  \A j \in Window' : (Slot(j) = Slot(ri) /\ From(j)' = rpage) => rkey < Until(j)'
    <3> SUFFICES ASSUME NEW j \in Window, Slot(j) = Slot(ri), From(j) = rpage PROVE rkey < Until(j)'
      BY <1>0, <1>1
    <3>1. rkey < Until(j) /\ rkey \in Nat
      BY <1>0, <2>2 DEF Reading
    <3>2. Until(j) \in Nat /\ Until(j)' \in Nat /\ Until(j) <= Until(j)'
      BY <1>0, <1>2
    <3> QED BY <3>1, <3>2
  <2>3. ASSUME rpc = "open", rpage \in files
        PROVE  \A j \in Window' : From(j)' = rpage => rkey < Until(j)'
    <3> SUFFICES ASSUME NEW j \in Window, From(j) = rpage PROVE rkey < Until(j)'
      BY <1>0, <1>1
    <3>1. rkey < Until(j) /\ rkey \in Nat
      BY <1>0, <2>3 DEF Reading
    <3>2. Until(j) \in Nat /\ Until(j)' \in Nat /\ Until(j) <= Until(j)'
      BY <1>0, <1>2
    <3> QED BY <3>1, <3>2
  <2> QED BY <1>0, <1>6, <2>1, <2>2, <2>3 DEF Reading, Slot
<1> QED BY <1>3, <1>4, <1>5, <1>7, <1>8 DEF PInv

\* Steps of the producer that change neither the ring, nor a page, nor a key
LEMMA QuietPInv ==
    ASSUME PInv, UNCHANGED <<recs, pgDel, pgEnd, kDel, kEnd, files, data, bufferVars, readerVars>>,
           LastPage', (wpc = "start") = (wpc' = "start"),
           wpc' \in {"part", "key"} => wpc \in {"part", "key"}
    PROVE  PInv'
<1>1. bpc' = bpc
  BY DEF bufferVars
<1> QED BY <1>1, SameRing, SameFirstPage, SameFiles, SameStored, SameKnown, SameReading DEF PInv

\* The last page of a state whose ring stays
LEMMA LastStays ==
    ASSUME UNCHANGED <<recs, pgDel, pgEnd>>
    PROVE  Last' = Last /\ Rec(Last)' = Rec(Last) /\ From(Last)' = From(Last) /\ Until(Last)' = Until(Last)
BY DEF Last, Rec, From, Until

\* A keyframe for which a page is added: it starts at the key to come
LEMMA NewPage ==
    ASSUME LInv, PInv, KeyframeOpen \/ KeyframeFlip
    PROVE  /\ wpc = "idle" /\ live' = NoPage /\ isKey' /\ kEnd < MaxKeys /\ AddPage(kEnd)
           /\ UNCHANGED <<pgDel, kDel, kEnd, files, data, bufferVars, readerVars>>
<1>0. /\ LastPage /\ KeyThere /\ TypeOK /\ kEnd \in Nat
      /\ \A i \in Nat : /\ From(i) \in Nat /\ From(i) \in 0 .. NoPage /\ Rec(i).keycount \in Nat
                        /\ Until(i) = From(i) + Rec(i).keycount
      /\ \A i \in Window : i \in Nat
  BY Numbers DEF LInv
<1>1. CASE KeyframeOpen
  BY <1>1 DEF KeyframeOpen
<1>2. CASE KeyframeFlip
  <2> DEFINE c == RecordOf(live)
             g == Rec(c).firstkey + Rec(c).keycount
  <2>1. /\ wpc = "idle" /\ live # NoPage /\ live' = NoPage /\ isKey' /\ kEnd < MaxKeys /\ AddPage(g % Wrap)
        /\ UNCHANGED <<pgDel, kDel, kEnd, files, data, bufferVars, readerVars>>
    BY <1>2 DEF KeyframeFlip
  <2>2. c = Last /\ pgEnd > 0
    BY <2>1, LivePage
  <2>3. g = kEnd
    BY <1>0, <2>1, <2>2 DEF LastPage, Until
  <2>4. kEnd % Wrap = kEnd
    <3>1. kEnd \in 0 .. Wrap - 1 /\ Wrap \in Nat
      BY <1>0, <2>1, LiveTrackAssumption DEF Wrap
    <3> HIDE DEF Wrap
    <3> QED BY <3>1
  <2>5. AddPage(kEnd)
    BY <2>1, <2>3, <2>4
  <2> QED BY <2>1, <2>5
<1> QED BY <1>1, <1>2

\* Count: one more key on the last page
LEMMA CountRecord ==
    ASSUME LInv, PInv, Count
    PROVE  /\ pgEnd > 0 /\ Last \in Window /\ Last \in Nat /\ cur = Last /\ isKey /\ Until(Last) = kEnd /\ kEnd < MaxKeys
           /\ \E r \in Record : /\ recs' = [recs EXCEPT ![Slot(Last)] = r] /\ r.firstkey = From(Last)
                               /\ r.keycount = Rec(Last).keycount + 1 /\ r.avail = Rec(Last).avail
<1>0. /\ LastPage /\ KeyThere /\ TypeOK /\ kEnd \in Nat
      /\ \A i \in Nat : /\ From(i) \in Nat /\ From(i) \in 0 .. NoPage /\ Rec(i).keycount \in Nat
                        /\ Until(i) = From(i) + Rec(i).keycount
      /\ \A i \in Window : i \in Nat
  BY Numbers DEF LInv
<1> DEFINE n == (Rec(Last).keycount + 1) % Wrap
           r == [Rec(Last) EXCEPT !.keycount = n]
<1>1. /\ wpc = "count" /\ wpc' = "put" /\ recs' = [recs EXCEPT ![Slot(cur)].keycount = (@ + 1) % Wrap]
      /\ UNCHANGED <<pgDel, pgEnd, kDel, kEnd, files, data, live, num, cur, isKey, bufferVars, readerVars>>
  BY DEF Count
<1>2. pgEnd > 0 /\ Last \in Window /\ Last \in Nat /\ cur = Last /\ isKey /\ Until(Last) = kEnd /\ kEnd < MaxKeys
  BY <1>0, <1>1, LivePage
<1>3. /\ Rec(Last).keycount \in Nat /\ From(Last) \in Nat /\ Until(Last) = From(Last) + Rec(Last).keycount
      /\ From(Last) = Rec(Last).firstkey
  BY <1>0, <1>2 DEF From
<1>4. n = Rec(Last).keycount + 1
  <2>1. Rec(Last).keycount + 1 \in 0 .. Wrap - 1 /\ Wrap \in Nat
    BY <1>0, <1>2, <1>3, LiveTrackAssumption DEF Wrap
  <2> HIDE DEF Wrap
  <2> QED BY <2>1
<1>5. Rec(Last) \in Record /\ Slot(Last) \in 0 .. PageSlots - 1
  BY <1>0, <1>2, SlotIn, RecIn
<1>6. recs' = [recs EXCEPT ![Slot(Last)] = r]
  BY <1>0, <1>1, <1>2, <1>5 DEF TypeOK, Rec
<1>7. n \in 0 .. Wrap - 1
  BY <1>3, WrapIn
<1> HIDE DEF n
<1>8. r \in Record /\ r.firstkey = From(Last) /\ r.keycount = n /\ r.avail = Rec(Last).avail
  BY <1>3, <1>5, <1>7 DEF Record
<1> HIDE DEF r
<1> QED BY <1>2, <1>4, <1>6, <1>8

\* Put: the last page has data, and the key of a keyframe
LEMMA PutRecord ==
    ASSUME LInv, PInv, Put
    PROVE  /\ pgEnd > 0 /\ Last \in Window /\ Last \in Nat /\ live # NoPage /\ live = From(Last)
           /\ Until(Last) = IF isKey THEN kEnd + 1 ELSE kEnd
           /\ \E r \in Record : /\ recs' = [recs EXCEPT ![Slot(Last)] = r] /\ r.firstkey = From(Last)
                               /\ r.keycount = Rec(Last).keycount /\ r.avail = 1
           /\ data' \in [0 .. NoPage -> SUBSET Nat]
           /\ \A g \in 0 .. NoPage : \A k : k \in data[g] => k \in data'[g]
           /\ \A g \in 0 .. NoPage : \A k : k \in data'[g] => k \in data[g] \/ k = kEnd
           /\ live \in 0 .. NoPage /\ (isKey => kEnd \in data'[live])
<1>0. /\ LastPage /\ KeyThere /\ TypeOK /\ kEnd \in Nat
      /\ \A i \in Nat : /\ From(i) \in Nat /\ From(i) \in 0 .. NoPage /\ Rec(i).keycount \in Nat
                        /\ Until(i) = From(i) + Rec(i).keycount
      /\ \A i \in Window : i \in Nat
  BY Numbers DEF LInv
<1> DEFINE r == [Rec(Last) EXCEPT !.avail = 1]
<1>1. /\ wpc = "put" /\ wpc' = "part" /\ recs' = [recs EXCEPT ![Slot(RecordOf(live))].avail = 1]
      /\ data' = [data EXCEPT ![live] = IF isKey THEN @ \union {kEnd} ELSE @]
      /\ UNCHANGED <<pgDel, pgEnd, kDel, kEnd, files, live, num, cur, isKey, bufferVars, readerVars>>
  BY DEF Put
<1>2. live # NoPage
  <2>1. pgEnd # 0
    BY <1>0, <1>1 DEF LastPage
  <2> QED BY <1>0, <1>1, <2>1 DEF LastPage
<1>3. pgEnd > 0 /\ Last \in Window /\ Last \in Nat /\ live = From(Last) /\ RecordOf(live) = Last
  BY <1>0, <1>2, LivePage
<1>4. /\ Rec(Last).keycount \in Nat /\ From(Last) \in Nat /\ Until(Last) = From(Last) + Rec(Last).keycount
      /\ From(Last) = Rec(Last).firstkey
  BY <1>0, <1>3 DEF From
<1>5. Rec(Last) \in Record /\ Slot(Last) \in 0 .. PageSlots - 1
  BY <1>0, <1>3, SlotIn, RecIn
<1>6. recs' = [recs EXCEPT ![Slot(Last)] = r]
  BY <1>0, <1>1, <1>3, <1>5 DEF TypeOK, Rec
<1>8. r \in Record /\ r.firstkey = From(Last) /\ r.keycount = Rec(Last).keycount /\ r.avail = 1
  BY <1>4, <1>5 DEF Record
<1> HIDE DEF r
<1>9. Until(Last) = IF isKey THEN kEnd + 1 ELSE kEnd
  BY <1>0, <1>1, <1>3 DEF LastPage
<1>10. /\ \A g \in 0 .. NoPage : \A k : k \in data[g] => k \in data'[g]
       /\ \A g \in 0 .. NoPage : \A k : k \in data'[g] => k \in data[g] \/ k = kEnd
       /\ live \in 0 .. NoPage /\ (isKey => kEnd \in data'[live])
       /\ data' \in [0 .. NoPage -> SUBSET Nat]
  <2>1. data \in [0 .. NoPage -> SUBSET Nat]
    BY Numbers DEF Stored
  <2>2. live \in 0 .. NoPage
    BY <1>3, Numbers
  <2> QED BY <1>0, <1>1, <2>1, <2>2
<1> QED BY <1>2, <1>3, <1>6, <1>8, <1>9, <1>10

\* bufferStart leaves the record of the new page as it is
LEMMA StartRing ==
    ASSUME LInv, PInv, Start
    PROVE  /\ recs' = recs /\ files' = files \union {From(Last)}
           /\ Last \in Window /\ From(Last) = kEnd /\ Rec(Last).avail = 0
<1>1. /\ wpc = "start" /\ files' = files \union {num}
      /\ recs' = [recs EXCEPT ![Slot(RecordOf(num))].avail = 0]
  BY DEF Start
<1>2. /\ Last \in Window /\ num = From(Last) /\ RecordOf(num) = Last /\ From(Last) = kEnd /\ Rec(Last).avail = 0
  BY <1>1, LivePage
<1>3. Last \in Nat /\ TypeOK
  BY <1>2, Numbers
<1>4. recs' = recs
  BY <1>1, <1>2, <1>3, SlotIn DEF TypeOK, Record, Rec
<1> QED BY <1>1, <1>2, <1>4

\* A step of the producer
LEMMA ProducerPInv == ASSUME LInv, PInv, Producer, torn' = {} PROVE PInv'
<1>0. /\ Pages /\ LastPage /\ FirstPage /\ Files /\ Stored /\ Removed /\ Reading
      /\ pgDel \in Nat /\ pgEnd \in Nat /\ pgDel <= pgEnd /\ kDel \in Nat /\ kEnd \in Nat /\ kDel <= kEnd
      /\ \A i : i \in Window <=> i \in Nat /\ pgDel <= i /\ i < pgEnd
      /\ \A i \in Nat : /\ From(i) \in Nat /\ Rec(i).keycount \in Nat
                        /\ Until(i) = From(i) + Rec(i).keycount /\ Until(i) \in Nat
      /\ LInv /\ PInv /\ KeyThere /\ TypeOK
  BY Numbers DEF LInv
<1>1. CASE KeyframeOpen
  BY <1>1, NewPage, AddPagePInv
<1>2. CASE KeyframeFlip
  BY <1>2, NewPage, AddPagePInv
<1>3. CASE KeyframeStay
  <2>1. /\ wpc = "idle" /\ live # NoPage /\ wpc' = "count" /\ isKey' /\ cur' = RecordOf(live)
        /\ UNCHANGED <<recs, pgDel, pgEnd, kDel, kEnd, files, data, live, num, bufferVars, readerVars>>
    BY <1>3 DEF KeyframeStay, metaVars
  <2>2. LastPage'
    <3>1. pgEnd > 0 /\ cur' = Last /\ live = From(Last)
      BY <2>1, LivePage
    <3>2. Rec(Last).keycount # 0
      BY <1>0, <2>1, <3>1 DEF LastPage
    <3> QED BY <1>0, <2>1, <3>1, <3>2, LastStays DEF LastPage, Fresh
  <2> QED BY <1>0, <2>1, <2>2, QuietPInv
<1>4. CASE Packet
  <2>1. /\ wpc = "idle" /\ live # NoPage /\ wpc' = "put" /\ isKey' = FALSE
        /\ UNCHANGED <<recs, pgDel, pgEnd, kDel, kEnd, files, data, live, num, cur, bufferVars, readerVars>>
    BY <1>4 DEF Packet, metaVars
  <2>2. LastPage'
    BY <1>0, <2>1, LastStays DEF LastPage, Fresh
  <2> QED BY <1>0, <2>1, <2>2, QuietPInv
<1>5. CASE Start
  <2>1. /\ wpc = "start" /\ wpc' = "count" /\ live' = num /\ files' = files \union {num}
        /\ recs' = [recs EXCEPT ![Slot(RecordOf(num))].avail = 0]
        /\ UNCHANGED <<pgDel, pgEnd, kDel, kEnd, data, num, cur, isKey, bufferVars, readerVars>>
    BY <1>5 DEF Start
  <2>2. /\ pgEnd > 0 /\ Last \in Window /\ cur = Last /\ isKey /\ Until(Last) = kEnd
        /\ num = From(Last) /\ RecordOf(num) = Last /\ From(Last) = kEnd
        /\ Rec(Last).keycount = 0 /\ Rec(Last).avail = 0
    BY <2>1, LivePage
  <2>3. recs' = recs
    BY <1>5, StartRing
  <2>4. \A i : From(i)' = From(i) /\ Until(i)' = Until(i)
    BY <2>1, <2>3, SameRing
  <2>5. Window' = Window /\ Last' = Last
    BY <2>1, <2>3, SameRing
  <2>6. LastPage'
    <3>1. num # NoPage
      BY <1>0, <2>2, Counters
    <3> QED BY <1>0, <2>1, <2>2, <2>3, <3>1, LastStays DEF LastPage, Fresh
  <2>7. Pages' /\ FirstPage' /\ Stored'
    BY <1>0, <2>1, <2>3, SameRing, SameFirstPage, SameStored
  <2>8. Files'
    <3>1. bpc = "record" => pgDel # Last
      BY Held
    <3>2. \A i : Stands(i)' <=> (Stands(i) \/ i = Last)
      BY <2>1, <2>5, <3>1 DEF Stands, bufferVars
    <3>3. files' = {From(i) : i \in {j \in Window : Stands(j) \/ j = Last}}
      BY <1>0, <2>1, <2>2 DEF Files
    <3> QED BY <2>4, <2>5, <3>2, <3>3 DEF Files
  <2>9. \A h, i : Known(h, i) => Known(h, i)'
    BY <1>0, <2>1, <2>2, <2>4, <2>5 DEF Known
  <2>10. Removed'
    BY <1>0, <2>1, <2>4, <2>9 DEF Removed
  <2>11. Reading'
    <3>1. UNCHANGED <<rpc, rkey, ri, rpage, kEnd, data, pgEnd>>
      BY <2>1 DEF readerVars
    <3>2. rpc = "open" => (rpage \in files' => rpage \in files)
      BY <1>0, <2>1, <2>2 DEF Reading
    <3> QED BY <1>0, <2>4, <2>5, <2>9, <3>1, <3>2 DEF Reading
  <2> QED BY <2>6, <2>7, <2>8, <2>10, <2>11 DEF PInv
<1>6. CASE StartFails
  BY <1>6 DEF StartFails
<1>7. CASE Count
  <2>1. /\ wpc = "count" /\ wpc' = "put"
        /\ UNCHANGED <<pgDel, pgEnd, kDel, kEnd, files, data, live, num, cur, isKey, bufferVars, readerVars>>
    BY <1>7 DEF Count
  <2>2. pgEnd > 0 /\ Last \in Window /\ Last \in Nat /\ cur = Last /\ isKey /\ Until(Last) = kEnd /\ kEnd < MaxKeys
    BY <1>7, CountRecord
  <2> DEFINE n == Rec(Last).keycount + 1
  <2>6. PICK r \in Record : /\ recs' = [recs EXCEPT ![Slot(Last)] = r] /\ r.firstkey = From(Last)
                            /\ r.keycount = n /\ r.avail = Rec(Last).avail
    BY <1>7, CountRecord
  <2>3. /\ Rec(Last).keycount \in Nat /\ From(Last) \in Nat /\ Until(Last) = From(Last) + Rec(Last).keycount
        /\ n = Rec(Last).keycount + 1
    BY <1>0, <2>2
  <2> HIDE DEF n
  <2>9. /\ Window' = Window /\ Last' = Last /\ \A i \in Nat : From(i)' = From(i)
        /\ \A i \in Window : i # Last => Until(i)' = Until(i)
        /\ \A i \in Nat : i = Last => Until(i)' = From(Last) + n
        /\ Rec(Last)' = r /\ Until(Last)' = From(Last) + n /\ From(Last)' = From(Last)
    BY <1>0, <2>1, <2>2, <2>6, LastRecord
  <2>10. Until(Last)' = kEnd + 1
    BY <1>0, <2>2, <2>3, <2>9
  <2>11. LastPage'
    <3>1. n # 0 /\ (n = 1 <=> Rec(Last).keycount = 0)
      BY <2>3
    <3>2. Fresh' <=> Fresh
      BY <2>1, <2>2, <2>6, <2>9, <3>1 DEF Fresh
    <3> QED BY <1>0, <2>1, <2>2, <2>6, <2>9, <2>10, <3>1, <3>2 DEF LastPage
  <2>12. Stored'
    <3> SUFFICES ASSUME NEW i \in Window, NEW k \in (From(i) .. Until(i) - 1)', k < kEnd PROVE k \in data[From(i)]
      BY <1>0, <2>1, <2>9 DEF Stored
    <3>1. CASE i = Last
      <4>1. k \in From(i) .. Until(i) - 1
        BY <1>0, <2>2, <2>3, <2>9, <3>1
      <4> QED BY <1>0, <4>1 DEF Stored
    <3>2. CASE i # Last
      BY <1>0, <2>9, <3>2 DEF Stored
    <3> QED BY <3>1, <3>2
  <2>13. Until(Last) <= r.firstkey + r.keycount
    BY <1>0, <2>2, <2>3, <2>6
  <2>14. \A g \in 0 .. NoPage : \A k : k \in data[g] => k \in data'[g]
    BY <2>1
  <2> QED BY <1>0, <2>1, <2>2, <2>6, <2>11, <2>12, <2>13, <2>14, LastRecordPInv
<1>8. CASE Put
  <2>1. /\ wpc = "put" /\ wpc' = "part"
        /\ UNCHANGED <<pgDel, pgEnd, kDel, kEnd, files, live, num, cur, isKey, bufferVars, readerVars>>
    BY <1>8 DEF Put
  <2>2. /\ pgEnd > 0 /\ Last \in Window /\ Last \in Nat /\ live # NoPage /\ live = From(Last)
        /\ Until(Last) = IF isKey THEN kEnd + 1 ELSE kEnd
    BY <1>8, PutRecord
  <2>6. PICK r \in Record : /\ recs' = [recs EXCEPT ![Slot(Last)] = r] /\ r.firstkey = From(Last)
                            /\ r.keycount = Rec(Last).keycount /\ r.avail = 1
    BY <1>8, PutRecord
  <2>12. /\ \A g \in 0 .. NoPage : \A k : k \in data[g] => k \in data'[g]
         /\ live \in 0 .. NoPage /\ (isKey => kEnd \in data'[live])
         /\ data' \in [0 .. NoPage -> SUBSET Nat]
    BY <1>8, PutRecord
  <2>4. /\ Rec(Last).keycount \in Nat /\ From(Last) \in Nat /\ Until(Last) = From(Last) + Rec(Last).keycount
    BY <1>0, <2>2
  <2>9. /\ Window' = Window /\ Last' = Last /\ \A i \in Nat : From(i)' = From(i)
        /\ \A i \in Window : i # Last => Until(i)' = Until(i)
        /\ \A i \in Nat : i = Last => Until(i)' = Until(Last)
        /\ Rec(Last)' = r /\ Until(Last)' = Until(Last) /\ From(Last)' = From(Last)
    BY <1>0, <2>1, <2>2, <2>4, <2>6, LastRecord
  <2>10. Rec(Last).keycount # 0 /\ Until(Last) = IF isKey THEN kEnd + 1 ELSE kEnd
    BY <1>0, <2>1, <2>2 DEF LastPage
  <2>11. LastPage'
    <3>1. ~Fresh'
      BY <2>1 DEF Fresh
    <3> QED BY <1>0, <2>1, <2>2, <2>6, <2>9, <2>10, <3>1 DEF LastPage
  <2>13. Stored'
    <3> SUFFICES ASSUME NEW i \in Window, NEW k \in (From(i) .. Until(i) - 1)' PROVE k \in data'[From(i)]
      BY <1>0, <2>9, <2>12 DEF Stored
    <3>1. k \in From(i) .. Until(i) - 1 /\ i \in Nat
      BY <1>0, <2>2, <2>9
    <3>2. CASE k < kEnd
      <4>1. k \in data[From(i)] /\ From(i) \in 0 .. NoPage
        BY <1>0, <3>1, <3>2, Numbers DEF Stored
      <4> QED BY <2>12, <4>1
    <3>3. CASE ~(k < kEnd)
      <4>1. i = Last
        <5>1. Until(i) \in Nat /\ kEnd \in Nat
          BY <1>0, <3>1
        <5>2. ~(Until(i) <= kEnd)
          BY <3>1, <3>3, <5>1
        <5> QED BY <5>2, Geometry
      <4>2. k < Until(Last) /\ k \in Nat
        BY <1>0, <2>4, <3>1, <4>1
      <4>3. k = kEnd /\ isKey
        BY <1>0, <2>10, <3>3, <4>2
      <4> QED BY <2>2, <2>12, <4>1, <4>3
    <3> QED BY <3>2, <3>3
  <2>14. Until(Last) <= r.firstkey + r.keycount
    BY <1>0, <2>4, <2>6
  <2> QED BY <1>0, <2>1, <2>2, <2>6, <2>11, <2>12, <2>13, <2>14, LastRecordPInv
<1>9. CASE PutLost
  <2>1. wpc = "put" /\ live \notin files
    BY <1>9 DEF PutLost
  <2>2. live # NoPage
    <3>1. pgEnd # 0
      BY <1>0, <2>1 DEF LastPage
    <3> QED BY <1>0, <2>1, <3>1 DEF LastPage
  <2> QED BY <2>1, <2>2, LivePage
<1>10. CASE AddPart
  <2>1. /\ wpc = "part" /\ wpc' = IF isKey THEN "key" ELSE "parts"
        /\ UNCHANGED <<recs, pgDel, pgEnd, kDel, kEnd, files, data, live, num, cur, isKey, bufferVars, readerVars>>
    BY <1>10 DEF AddPart
  <2>2. LastPage'
    BY <1>0, <2>1, LastStays DEF LastPage, Fresh
  <2> QED BY <1>0, <2>1, <2>2, QuietPInv
<1>11. CASE AddKey
  <2>1. /\ wpc = "key" /\ wpc' = "parts" /\ kEnd' = kEnd + 1
        /\ UNCHANGED <<recs, pgDel, pgEnd, kDel, files, data, live, num, cur, isKey, bufferVars, readerVars>>
    BY <1>11 DEF AddKey
  <2>2. isKey /\ pgEnd > 0 /\ Last \in Window /\ Until(Last) = kEnd + 1 /\ From(Last) <= kEnd
    <3>1. isKey /\ pgEnd # 0
      BY <1>0, <2>1 DEF LastPage, KeyThere
    <3> QED BY <1>0, <2>1, <3>1, Geometry DEF LastPage
  <2>3. /\ Window' = Window /\ Last' = Last /\ Pages'
        /\ \A i : From(i)' = From(i) /\ Until(i)' = Until(i)
    BY <1>0, <2>1, SameRing
  <2>4. LastPage'
    BY <1>0, <2>1, <2>2, LastStays DEF LastPage, Fresh
  <2>5. Files'
    BY <1>0, <2>1, SameFiles DEF bufferVars
  <2>6. FirstPage'
    <3>1. From(pgDel)' = From(pgDel) /\ Until(pgDel)' = Until(pgDel)
      BY <2>1 DEF From, Until, Rec
    <3>2. CASE kEnd = 0
      <4>1. pgDel = 0 /\ pgEnd = 1 /\ kDel = 0 /\ bpc \notin {"page", "record"}
        BY <1>0, <2>2, <3>2 DEF FirstPage
      <4>2. pgDel = Last
        BY <4>1 DEF Last
      <4>3. From(pgDel) = 0 /\ Until(pgDel) = 1
        BY <1>0, <2>2, <3>2, <4>2
      <4> QED BY <1>0, <2>1, <3>1, <3>2, <4>1, <4>3 DEF FirstPage, bufferVars
    <3>3. CASE kEnd > 0
      BY <1>0, <2>1, <3>1, <3>3 DEF FirstPage, bufferVars
    <3> QED BY <1>0, <3>2, <3>3
  <2>7. Stored'
    BY <1>0, <2>1, <2>3 DEF Stored
  <2>8. \A g, i : Known(g, i) /\ g \in Nat => Known(g, i)'
    BY <1>0, <2>1, <2>3 DEF Known
  <2>9. Removed'
    <3>1. \A i \in 0 .. pgEnd - 1 : From(i) \in Nat
      BY <1>0
    <3> QED BY <1>0, <2>1, <2>3, <2>8, <3>1 DEF Removed
  <2>10. Reading'
    <3>1. UNCHANGED <<rpc, rkey, ri, rpage, files, data, pgEnd>>
      BY <2>1 DEF readerVars
    <3> QED BY <1>0, <2>1, <2>3, <2>8, <3>1 DEF Reading
  <2> QED BY <2>3, <2>4, <2>5, <2>6, <2>7, <2>9, <2>10 DEF PInv
<1>12. CASE AddToKey
  <2>1. /\ wpc = "parts" /\ wpc' = "idle"
        /\ UNCHANGED <<recs, pgDel, pgEnd, kDel, kEnd, files, data, live, num, cur, isKey, bufferVars, readerVars>>
    BY <1>12 DEF AddToKey
  <2>2. LastPage'
    BY <1>0, <2>1, LastStays DEF LastPage, Fresh
  <2> QED BY <1>0, <2>1, <2>2, QuietPInv
<1>13. CASE Die
  <2>1. /\ wpc = "idle" /\ wpc' = "dead"
        /\ UNCHANGED <<recs, pgDel, pgEnd, kDel, kEnd, files, data, live, num, cur, isKey, bufferVars, readerVars>>
    BY <1>13 DEF Die, metaVars
  <2>2. LastPage'
    BY <1>0, <2>1, LastStays DEF LastPage, Fresh
  <2> QED BY <1>0, <2>1, <2>2, QuietPInv
<1>14. CASE Resume
  <2>1. /\ wpc = "dead" /\ wpc' = "idle" /\ live' = NoPage
        /\ UNCHANGED <<recs, pgDel, pgEnd, kDel, kEnd, files, data, num, cur, isKey, bufferVars, readerVars>>
    BY <1>14 DEF Resume, metaVars
  <2>2. LastPage'
    BY <1>0, <2>1, LastStays DEF LastPage, Fresh
  <2> QED BY <1>0, <2>1, <2>2, QuietPInv
<1> QED BY <1>1, <1>2, <1>3, <1>4, <1>5, <1>6, <1>7, <1>8, <1>9, <1>10, <1>11, <1>12, <1>13, <1>14
        DEF Producer

-----------------------------------------------------------------------------
(* The invariant of the pages, and what follows                              *)

\* At the start there is no page
LEMMA InitPInv == Init => PInv
<1> SUFFICES ASSUME Init PROVE PInv
  OBVIOUS
<1>1. /\ pgDel = 0 /\ pgEnd = 0 /\ kDel = 0 /\ kEnd = 0 /\ files = {} /\ live = NoPage /\ bpc = "idle"
      /\ rpc = "idle" /\ wpc = "idle" /\ data = [g \in 0 .. NoPage |-> {}]
  BY DEF Init
<1>2. Window = {}
  BY <1>1 DEF Window
<1>3. Pages /\ Files /\ Stored
  BY <1>1, <1>2 DEF Pages, Files, Stored
<1>4. LastPage /\ FirstPage /\ Reading
  BY <1>1 DEF LastPage, FirstPage, Reading
<1>5. Removed
  BY <1>1 DEF Removed
<1> QED BY <1>3, <1>4, <1>5 DEF PInv

\* Failures are not forgotten
LEMMA TornStays == ASSUME [Next]_vars, torn' = {} PROVE torn = {}
<1>1. CASE UNCHANGED vars
  BY <1>1 DEF vars
<1>2. CASE Producer
  BY <1>2 DEF Producer, KeyframeOpen, KeyframeFlip, KeyframeStay, Packet, Start, StartFails, Count, Put, PutLost,
              AddPart, AddKey, AddToKey, Die, Resume
<1>3. CASE Buffer
  BY <1>3 DEF Buffer, BeginTrim, RemoveParts, RemoveKey, UnlinkPage, RemoveRecord, Deplete, KeepPage,
              BeginSweep, EndSweep, SweepPage
<1>4. CASE Reader
  BY <1>4 DEF Reader, Look, ReadFirst, NotFound, ReadCount, ReadAvail, OpenPage, EndRead
<1> QED BY <1>1, <1>2, <1>3, <1>4 DEF Next

\* Until something fails the pages lie as PInv says, in every state
THEOREM LiveTrackPages == Spec => []WInv
<1>1. Init => WInv
  BY InitLInv, InitPInv DEF WInv
<1>2. ASSUME WInv, [Next]_vars PROVE WInv'
  <2>1. LInv'
    <3>1. CASE UNCHANGED vars
      BY <1>2, <3>1 DEF WInv, vars, metaVars, producerVars, bufferVars, readerVars, LInv, TypeOK, Typed,
         KeyThere, Chain, Counted, FirstPart, LastPart, Upto
    <3> QED BY <1>2, <3>1, ProducerLInv, BufferLInv, ReaderLInv DEF Next, WInv
  <2>2. ASSUME torn' = {} PROVE PInv'
    <3>1. LInv /\ PInv
      BY <1>2, <2>2, TornStays DEF WInv
    <3>2. CASE UNCHANGED vars
      <4>1. UNCHANGED <<recs, pgDel, pgEnd, kDel, kEnd, files, data, bufferVars, readerVars, wpc, live, num, cur, isKey>>
        BY <3>2 DEF vars, metaVars, producerVars
      <4>2. LastPage'
        BY <3>1, <4>1, SameLastPage DEF PInv
      <4> QED BY <3>1, <4>1, <4>2, QuietPInv
    <3> QED BY <1>2, <2>2, <3>1, <3>2, ProducerPInv, BufferPInv, ReaderPInv DEF Next
  <2> QED BY <2>1, <2>2 DEF WInv
<1> QED BY <1>1, <1>2, PTL DEF Spec

\* The page with the number of a key
LEMMA PageFound ==
    ASSUME LInv, PInv, NEW k \in Nat, NEW i \in Window, From(i) <= k, k < Until(i)
    PROVE  pageNumForKey(k) = IF Rec(i).avail = 0 THEN NoPage ELSE From(i)
<1>0. /\ Pages
      /\ pgEnd \in Nat /\ Last = pgEnd - 1
      /\ \A j : j \in Window <=> j \in Nat /\ pgDel <= j /\ j < pgEnd
      /\ \A j \in Nat : /\ From(j) \in Nat /\ Rec(j).keycount \in Nat
                        /\ Until(j) = From(j) + Rec(j).keycount /\ Until(j) \in Nat
  BY Numbers
<1> DEFINE Holds(j) == Rec(j).firstkey <= k /\ ~Past(k, Rec(j).firstkey, Rec(j).keycount)
           found == {j \in Window : Holds(j)}
<1>1. ASSUME NEW j \in Window PROVE Holds(j) <=> j = i
  <2>1. i \in Nat /\ j \in Nat /\ Until(i) \in Nat /\ Until(j) \in Nat /\ From(i) \in Nat /\ From(j) \in Nat
    BY <1>0
  <2>2. Holds(j) <=> (From(j) <= k /\ ~(Until(j) > 0 /\ k > Until(j) - 1))
    <3>1. Rec(j).firstkey = From(j) /\ Rec(j).keycount \in Nat /\ Until(j) = From(j) + Rec(j).keycount
      BY <1>0, <2>1 DEF From
    <3> QED BY <2>1, <3>1 DEF Past
  <2>3. CASE j = i
    BY <2>1, <2>2, <2>3
  <2>4. CASE j < i
    <3>1. Until(j) <= From(i)
      BY <1>0, <2>4 DEF Pages
    <3>2. j # Last
      <4>1. i < pgEnd /\ pgEnd \in Nat
        BY <1>0
      <4> QED BY <2>1, <2>4, <4>1 DEF Last
    <3>3. From(j) < Until(j)
      BY <3>2, Geometry
    <3> QED BY <2>1, <2>2, <2>4, <3>1, <3>3
  <2>5. CASE i < j
    <3>1. Until(i) <= From(j)
      BY <1>0, <2>5 DEF Pages
    <3> QED BY <2>1, <2>2, <2>5, <3>1
  <2> QED BY <2>1, <2>3, <2>4, <2>5
<1>2. found = {i}
  BY <1>1
<1>3. (CHOOSE a \in {i} : \A b \in {i} : a <= b) = i
  BY <1>0
<1>4. pageNumForKey(k) = IF found = {} \/ Rec(CHOOSE a \in found : \A b \in found : a <= b).avail = 0
                         THEN NoPage ELSE Rec(CHOOSE a \in found : \A b \in found : a <= b).firstkey
  BY DEF pageNumForKey
<1> HIDE DEF found
<1>5. pageNumForKey(k) = IF {i} = {} \/ Rec(i).avail = 0 THEN NoPage ELSE Rec(i).firstkey
  BY <1>2, <1>3, <1>4
<1> QED BY <1>5 DEF From

\* A page with a key that was added has data
LEMMA HasData ==
    ASSUME LInv, PInv, NEW i \in Window, NEW k \in Nat, From(i) <= k, k < Until(i), k < kEnd
    PROVE  Rec(i).avail = 1
<1>0. /\ LastPage /\ pgEnd \in Nat /\ kEnd \in Nat
      /\ \A j : j \in Window <=> j \in Nat /\ pgDel <= j /\ j < pgEnd
      /\ \A j \in Nat : /\ From(j) \in Nat /\ Rec(j).keycount \in Nat
                        /\ Until(j) = From(j) + Rec(j).keycount
  BY Numbers
<1>1. i \in Nat /\ pgEnd > 0
  BY <1>0
<1>2. CASE i = Last
  <2>1. From(i) < kEnd /\ Rec(i).keycount # 0 /\ Until(i) = From(i) + Rec(i).keycount /\ From(i) \in Nat
    BY <1>0, <1>1
  <2>2. ASSUME wpc = "put", isKey, Rec(i).keycount = 1 PROVE FALSE
    <3>1. Until(i) = kEnd + 1
      BY <1>0, <1>1, <1>2, <2>2 DEF LastPage
    <3> QED BY <1>0, <2>1, <2>2, <3>1
  <2>3. ~Fresh
    BY <1>0, <1>1, <1>2, <2>1, <2>2 DEF Fresh, LastPage
  <2> QED BY <1>0, <1>1, <1>2, <2>3 DEF LastPage
<1>3. CASE i # Last
  BY <1>3, Geometry
<1> QED BY <1>2, <1>3

\* Every key in the metadata is found on a page that holds it, while nothing failed
THEOREM LiveTrackKeyReachable == Spec => []KeyReachable
<1>1. WInv => KeyReachable
  <2> SUFFICES ASSUME WInv, torn = {}, NEW k \in Keys
               PROVE  pageNumForKey(k) \in files /\ k \in data[pageNumForKey(k)]
    BY DEF KeyReachable
  <2>1. LInv /\ PInv
    BY DEF WInv
  <2>2. k \in Nat /\ k < kEnd
    BY <2>1, Numbers DEF Keys
  <2>3. PICK i \in Window : From(i) <= k /\ k < Until(i) /\ Stands(i)
    BY <2>1, PageOfKey
  <2>4. pageNumForKey(k) = From(i)
    BY <2>1, <2>2, <2>3, PageFound, HasData
  <2>5. From(i) \in files
    BY <2>1, <2>3 DEF PInv, Files
  <2>6. k \in From(i) .. Until(i) - 1
    <3>1. From(i) \in Nat /\ Until(i) \in Nat
      BY <2>1, Numbers
    <3> QED BY <2>2, <2>3, <3>1
  <2>7. k \in data[From(i)]
    BY <2>1, <2>2, <2>6 DEF PInv, Stored
  <2> QED BY <2>4, <2>5, <2>7
<1> QED BY LiveTrackPages, <1>1, PTL

\* The page a producer writes on is not deleted under it, while nothing failed
THEOREM LiveTrackLivePageKept == Spec => []LivePageKept
<1>1. WInv => LivePageKept
  BY LivePage DEF WInv, LivePageKept
<1> QED BY LiveTrackPages, <1>1, PTL

\* Every data page is named by a record, while nothing failed
THEOREM LiveTrackNoPageLeft == Spec => []NoPageLeft
<1>1. WInv => NoPageLeft
  BY DEF WInv, PInv, Files, NoPageLeft, From
<1> QED BY LiveTrackPages, <1>1, PTL

\* A reader finds its key on the page it opened, while nothing failed
THEOREM LiveTrackReaderRight == Spec => []ReaderRight
<1>1. WInv => ReaderRight
  BY DEF WInv, PInv, Reading, ReaderRight
<1> QED BY LiveTrackPages, <1>1, PTL

-----------------------------------------------------------------------------
(* The window of keys                                                        *)

\* The keys whose data can be fetched are those on the pages of the ring
LEMMA StoredKept == LInv /\ PInv => stored = Kept
<1> SUFFICES ASSUME LInv, PInv PROVE stored = Kept
  OBVIOUS
<1>0. /\ LastPage /\ TypeOK
      /\ pgEnd \in Nat /\ kEnd \in Nat /\ pgDel \in Nat
      /\ \A j : j \in Window <=> j \in Nat /\ pgDel <= j /\ j < pgEnd
      /\ \A j \in Nat : /\ From(j) \in Nat /\ Rec(j).keycount \in Nat /\ Rec(j).avail \in {0, 1}
                        /\ Until(j) = From(j) + Rec(j).keycount /\ Until(j) \in Nat
  BY Numbers
<1>1. NoPage \notin files
  <2>1. files \subseteq 0 .. Wrap - 1
    BY <1>0 DEF TypeOK
  <2>2. Wrap \in Nat /\ NoPage = Wrap
    BY <1>0, Counters
  <2> QED BY <2>1, <2>2
<1>2. ASSUME NEW k \in 0 .. kEnd
      PROVE  (LET g == pageNumForKey(k) IN g \in files /\ k \in data[g]) <=> \E i \in Window : Here(i, k)
  <2>0. k \in Nat
    BY <1>0
  <2>1. ASSUME NEW i \in Window, Here(i, k)
        PROVE  pageNumForKey(k) \in files /\ k \in data[pageNumForKey(k)]
    <3>1. pageNumForKey(k) = From(i)
      BY <2>0, <2>1, PageFound DEF Here
    <3> QED BY <2>1, <3>1 DEF Here
  <2>2. ASSUME pageNumForKey(k) \in files, k \in data[pageNumForKey(k)]
        PROVE  \E i \in Window : Here(i, k)
    <3> DEFINE found == {j \in Window : Rec(j).firstkey <= k /\ ~Past(k, Rec(j).firstkey, Rec(j).keycount)}
               c == CHOOSE a \in found : \A b \in found : a <= b
    <3>1. pageNumForKey(k) = IF found = {} \/ Rec(c).avail = 0 THEN NoPage ELSE Rec(c).firstkey
      BY DEF pageNumForKey
    <3>2. found # {}
      BY <1>1, <2>2, <3>1
    <3>3. PICK i \in Window : Rec(i).firstkey <= k /\ ~Past(k, Rec(i).firstkey, Rec(i).keycount)
      BY <3>2
    <3> HIDE DEF found
    <3>4. /\ i \in Nat /\ Rec(i).keycount \in Nat /\ Until(i) = From(i) + Rec(i).keycount /\ From(i) \in Nat
          /\ Rec(i).firstkey = From(i) /\ pgEnd > 0 /\ Rec(i).avail \in {0, 1}
      BY <1>0 DEF From
    <3>5. From(i) <= k /\ (k < Until(i) \/ (From(i) = 0 /\ Rec(i).keycount = 0 /\ Until(i) = 0))
      BY <2>0, <3>3, <3>4 DEF Past
    <3>6. CASE k < Until(i)
      <4>1. pageNumForKey(k) = IF Rec(i).avail = 0 THEN NoPage ELSE From(i)
        BY <2>0, <3>5, <3>6, PageFound
      <4>2. Rec(i).avail = 1
        BY <1>1, <2>2, <3>4, <4>1
      <4> QED BY <2>2, <3>5, <3>6, <4>1, <4>2 DEF Here
    <3>7. CASE From(i) = 0 /\ Rec(i).keycount = 0 /\ Until(i) = 0
      <4>1. i = Last
        BY <3>7, <3>4, Geometry
      <4>2. Rec(Last).avail = 0
        <5>1. wpc \in {"start", "count"} /\ Rec(Last).keycount = 0
          BY <1>0, <3>4, <3>7, <4>1 DEF LastPage
        <5> QED BY <1>0, <3>4, <5>1 DEF LastPage, Fresh
      <4>3. kEnd = 0
        BY <1>0, <3>4, <3>7, <4>1, Geometry
      <4>4. pgDel = 0 /\ pgEnd = 1
        BY <1>0, <3>4, <4>3 DEF PInv, FirstPage
      <4>5. \A j \in found : j = i
        <5>1. \A j \in Window : j = 0
          BY <1>0, <4>4
        <5> QED BY <5>1 DEF found
      <4>6. c = i
        <5>1. c \in found
          <6>1. \E a \in found : \A b \in found : a <= b
            BY <3>2, <3>4, <4>5
          <6> QED BY <6>1
        <5> QED BY <4>5, <5>1
      <4> HIDE DEF c
      <4> QED BY <1>1, <2>2, <3>1, <4>1, <4>2, <4>6
    <3> QED BY <3>5, <3>6, <3>7
  <2> QED BY <2>1, <2>2
<1> QED BY <1>2 DEF stored, Kept

\* What can be fetched, when ring, pages and data stay
LEMMA SameStoredKeys ==
    ASSUME UNCHANGED <<recs, pgDel, pgEnd, kEnd, files, data>> PROVE stored' = stored
BY DEF stored, pageNumForKey, Window, Rec

\* Steps in which the window and what can be fetched stay as they are
LEMMA Stutters ==
    ASSUME UNCHANGED <<kDel, kEnd>>, stored' \in SUBSET stored, stored \ stored' \subseteq 0 .. kDel - 1,
           (IF rpc = "read" THEN rkey ELSE NoPage)' = IF rpc = "read" THEN rkey ELSE NoPage
    PROVE  Track!Next
BY DEF Track!Next, Track!Drop

\* A step of the reader is a step of the window
LEMMA ReaderMaps == ASSUME LInv, PInv, Reader PROVE Track!Next
<1>0. /\ Files /\ Stored /\ Reading /\ pgDel \in Nat /\ pgEnd \in Nat /\ kEnd \in Nat
      /\ \A i : i \in Window <=> i \in Nat /\ pgDel <= i /\ i < pgEnd
      /\ \A i \in Nat : From(i) \in Nat /\ Until(i) \in Nat
  BY Numbers
<1>1. UNCHANGED <<recs, pgDel, pgEnd, kDel, kEnd, files, data>>
  BY DEF metaVars, Reader, Look, ReadFirst, NotFound, ReadCount, ReadAvail, OpenPage, EndRead
<1>2. stored' = stored
  BY <1>1, SameStoredKeys
<1>3. CASE Look \/ ReadFirst \/ NotFound \/ ReadCount \/ ReadAvail
  <2>1. rpc # "read" /\ rpc' # "read"
    BY <1>3 DEF Look, ReadFirst, NotFound, ReadCount, ReadAvail
  <2> QED BY <1>1, <1>2, <2>1, Stutters
<1>4. CASE OpenPage /\ rpage \notin files
  <2>1. rpc # "read" /\ rpc' # "read"
    BY <1>4 DEF OpenPage
  <2> QED BY <1>1, <1>2, <2>1, Stutters
<1>5. CASE OpenPage /\ rpage \in files
  <2>1. rpc = "open" /\ rpc' = "read" /\ rkey' = rkey
    BY <1>5 DEF OpenPage
  <2>2. rkey \in Nat /\ rkey < kEnd /\ rpage \in 0 .. NoPage /\ rpage <= rkey
    BY <1>0, <2>1 DEF Reading
  <2>3. PICK i \in Window : From(i) = rpage
    BY <1>0, <1>5 DEF Files
  <2>4. rkey < Until(i)
    BY <1>0, <1>5, <2>1, <2>3 DEF Reading
  <2>5. Rec(i).avail = 1
    BY <2>2, <2>3, <2>4, HasData
  <2>6. rkey \in From(i) .. Until(i) - 1
    BY <1>0, <2>2, <2>3, <2>4
  <2>7. rkey \in data[From(i)]
    BY <1>0, <2>2, <2>6 DEF Stored
  <2>8. Here(i, rkey)
    BY <1>5, <2>2, <2>3, <2>4, <2>5, <2>7 DEF Here
  <2>9. rkey \in 0 .. kEnd
    BY <1>0, <2>2
  <2>10. rkey \in stored
    BY <2>8, <2>9, StoredKept DEF Kept
  <2> QED BY <1>1, <1>2, <2>1, <2>10 DEF Track!Next, Track!Fetch
<1>6. CASE EndRead
  <2>1. rpc = "read" /\ rpc' = "idle"
    BY <1>6 DEF EndRead
  <2>2. rkey # NoPage
    BY <1>0, <2>1, Counters DEF LInv, Reading
  <2> QED BY <1>1, <1>2, <2>1, <2>2 DEF Track!Next, Track!Done
<1> QED BY <1>3, <1>4, <1>5, <1>6 DEF Reader

\* A step of the buffer is a step of the window
LEMMA BufferMaps == ASSUME LInv, PInv, LInv', PInv', Buffer PROVE Track!Next
<1>0. /\ Files /\ pgDel \in Nat /\ pgEnd \in Nat /\ kEnd \in Nat /\ kDel \in Nat
      /\ \A i : i \in Window <=> i \in Nat /\ pgDel <= i /\ i < pgEnd
      /\ \A i \in Nat : From(i) \in Nat /\ Until(i) \in Nat
  BY Numbers
<1>1. (IF rpc = "read" THEN rkey ELSE NoPage)' = IF rpc = "read" THEN rkey ELSE NoPage
  BY DEF readerVars, Buffer, BeginTrim, RemoveParts, RemoveKey, UnlinkPage, RemoveRecord, Deplete, KeepPage,
         BeginSweep, EndSweep, SweepPage, NoPage, Wrap
<1>2. stored = Kept /\ stored' = Kept'
  <2>1. (LInv /\ PInv => stored = Kept)'
    BY StoredKept, PTL
  <2> QED BY <2>1, StoredKept
<1>3. ASSUME UNCHANGED <<recs, pgDel, pgEnd, kDel, kEnd, files, data>> PROVE Track!Next
  BY <1>1, <1>3, SameStoredKeys, Stutters
<1>4. CASE BeginTrim \/ RemoveParts \/ Deplete \/ BeginSweep \/ EndSweep
  BY <1>3, <1>4 DEF BeginTrim, RemoveParts, Deplete, BeginSweep, EndSweep, metaVars
<1>5. CASE RemoveKey
  <2>1. UNCHANGED <<recs, pgDel, pgEnd, kEnd, files, data>> /\ bpc = "key" /\ kDel' = kDel + 1
    BY <1>5 DEF RemoveKey
  <2>2. kDel + 1 < kEnd
    BY <2>1 DEF LInv, KeyThere
  <2>3. stored' = stored
    BY <2>1, SameStoredKeys
  <2> QED BY <1>1, <2>1, <2>2, <2>3 DEF Track!Next, Track!Retire
<1>6. CASE UnlinkPage
  <2>1. /\ UNCHANGED <<recs, pgDel, pgEnd, kDel, kEnd, data>> /\ bpc = "page" /\ bpc' = "record"
        /\ files' = IF Rec(pgDel).avail > 0 THEN files \ {From(pgDel)} ELSE files
    BY <1>6 DEF UnlinkPage, metaVars, From
  <2>2. kEnd > 0 /\ pgDel \in Window
    BY <2>1, Held
  <2>3. Until(pgDel) = kDel
    <3>1. Until(pgDel)' = kDel'
      BY <2>1, <2>2 DEF PInv, FirstPage
    <3>2. Until(pgDel)' = Until(pgDel)
      BY <2>1 DEF Until, Rec
    <3> QED BY <2>1, <3>1, <3>2
  <2>4. Window' = Window /\ \A i : Rec(i)' = Rec(i) /\ From(i)' = From(i) /\ Until(i)' = Until(i)
    BY <2>1, SameRing
  <2>5. files' \subseteq files /\ files \ files' \subseteq {From(pgDel)}
    BY <2>1
  <2>6. \A i, k : Here(i, k)' => Here(i, k)
    BY <2>1, <2>4, <2>5 DEF Here
  <2>7. stored' \in SUBSET stored
    BY <1>2, <2>1, <2>4, <2>6 DEF Kept
  <2>8. ASSUME NEW k \in stored \ stored' PROVE k \in 0 .. kDel - 1
    <3>1. PICK i \in Window : Here(i, k) /\ ~Here(i, k)'
      BY <1>2, <2>1, <2>4 DEF Kept
    <3>2. From(i) = From(pgDel)
      BY <2>1, <2>4, <2>5, <3>1 DEF Here
    <3>3. i = pgDel
      BY <2>2, <3>2, RecordFound
    <3>4. k < Until(pgDel) /\ k \in Nat
      BY <1>0, <1>2, <3>1, <3>3 DEF Here, Kept
    <3> QED BY <1>0, <2>3, <3>4
  <2> QED BY <1>1, <2>1, <2>7, <2>8, Stutters
<1>7. CASE RemoveRecord
  <2>1. UNCHANGED <<kDel, kEnd, files, data>>
    BY <1>7 DEF RemoveRecord
  <2>2. /\ \A i : Rec(i)' = Rec(i) /\ From(i)' = From(i) /\ Until(i)' = Until(i)
        /\ \A i : i \in Window' <=> i \in Window /\ i # pgDel
        /\ From(pgDel) \notin files
    BY <1>7, RemoveRing
  <2>3. \A i, k : Here(i, k)' <=> Here(i, k)
    BY <2>1, <2>2 DEF Here
  <2>4. \A i, k : Here(i, k) => i # pgDel
    BY <2>2 DEF Here
  <2>5. Kept' = Kept
    BY <2>1, <2>2, <2>3, <2>4 DEF Kept
  <2> QED BY <1>1, <1>2, <2>1, <2>5, Stutters
<1>8. CASE KeepPage
  <2>1. UNCHANGED <<pgDel, pgEnd, kDel, kEnd, files, data>> /\ bpc = "page"
    BY <1>8 DEF KeepPage
  <2>2. recs' = recs
    BY <1>8, <2>1, Held DEF KeepPage
  <2> QED BY <1>3, <2>1, <2>2
<1>9. CASE SweepPage
  BY <1>9, Held DEF SweepPage
<1> QED BY <1>4, <1>5, <1>6, <1>7, <1>8, <1>9 DEF Buffer

\* Steps in which a key's data may come to be found
LEMMA Stores ==
    ASSUME UNCHANGED <<kDel, kEnd>>, stored' \in {stored, stored \union {kEnd}}, UNCHANGED <<rpc, rkey>>
    PROVE  Track!Next
BY DEF Track!Next, Track!Drop, Track!Store, NoPage, Wrap

\* A step of the producer is a step of the window
LEMMA ProducerMaps == ASSUME LInv, PInv, LInv', PInv', Producer, torn' = {} PROVE Track!Next
<1>0. /\ Pages /\ LastPage /\ Stored /\ Reading /\ TypeOK /\ pgDel \in Nat /\ pgEnd \in Nat /\ kEnd \in Nat
      /\ \A i : i \in Window <=> i \in Nat /\ pgDel <= i /\ i < pgEnd
      /\ \A i \in Nat : /\ From(i) \in Nat /\ From(i) \in 0 .. NoPage
                        /\ Until(i) = From(i) + Rec(i).keycount /\ Until(i) \in Nat
  BY Numbers
<1>1. UNCHANGED <<rpc, rkey>>
  BY DEF readerVars, Producer, KeyframeOpen, KeyframeFlip, KeyframeStay, Packet, Start, StartFails, Count, Put, PutLost,
         AddPart, AddKey, AddToKey, Die, Resume
<1>2. stored = Kept /\ stored' = Kept'
  <2>1. (LInv /\ PInv => stored = Kept)'
    BY StoredKept, PTL
  <2> QED BY <2>1, StoredKept
<1>3. ASSUME UNCHANGED <<recs, pgDel, pgEnd, kDel, kEnd, files, data>> PROVE Track!Next
  BY <1>1, <1>3, SameStoredKeys, Stores
<1>4. CASE KeyframeStay \/ Packet \/ AddPart \/ AddToKey \/ Die \/ Resume \/ PutLost
  BY <1>3, <1>4 DEF KeyframeStay, Packet, AddPart, AddToKey, Die, Resume, PutLost, metaVars
<1>5. CASE StartFails
  BY <1>5 DEF StartFails
\* What is found of the keys that were added does not change
<1>6. ASSUME UNCHANGED <<kDel, kEnd>>, Kept \subseteq Kept', Kept' \subseteq Kept \union {kEnd} PROVE Track!Next
  BY <1>1, <1>2, <1>6, Stores
<1>7. CASE KeyframeOpen \/ KeyframeFlip
  <2>1. AddPage(kEnd) /\ UNCHANGED <<pgDel, kDel, kEnd, files, data>>
    BY <1>7, NewPage
  <2>2. /\ \A i : i \in Window' <=> i \in Window \/ i = pgEnd
        /\ \A i \in Nat : i = pgEnd => Rec(i)'.avail = 0
        /\ \A i \in Window : Rec(i)' = Rec(i) /\ From(i)' = From(i) /\ Until(i)' = Until(i)
    <3>1. \A i \in Nat : Slot(i) = Slot(pgEnd) => Rec(i)' = [firstkey |-> kEnd, keycount |-> 0, avail |-> 0]
      BY <2>1, AddPageRing
    <3> QED BY <2>1, <3>1, AddPageRing
  <2>3. \A i \in Window, k \in Nat : Here(i, k)' <=> Here(i, k)
    BY <2>1, <2>2 DEF Here
  <2>5. \A i \in Window', k \in Nat : Here(i, k)' => i \in Window
    BY <1>0, <2>2 DEF Here
  <2>6. Kept' = Kept
    BY <1>0, <2>1, <2>2, <2>3, <2>5 DEF Kept
  <2> QED BY <1>6, <2>1, <2>6
<1>8. CASE Start
  <2>1. /\ recs' = recs /\ files' = files \union {From(Last)} /\ Last \in Window /\ Rec(Last).avail = 0
        /\ UNCHANGED <<pgDel, pgEnd, kDel, kEnd, data>>
    BY <1>8, StartRing DEF Start
  <2>2. Window' = Window /\ \A i : Rec(i)' = Rec(i) /\ From(i)' = From(i) /\ Until(i)' = Until(i)
    BY <2>1, SameRing
  <2>3. ASSUME NEW i \in Window, NEW k \in Nat PROVE Here(i, k)' <=> Here(i, k)
    <3>1. CASE From(i) = From(Last)
      <4>1. i = Last
        BY <2>1, <3>1, RecordFound
      <4> QED BY <2>1, <2>2, <4>1 DEF Here
    <3>2. CASE From(i) # From(Last)
      BY <2>1, <2>2, <3>2 DEF Here
    <3> QED BY <3>1, <3>2
  <2>4. Kept' = Kept
    BY <1>0, <2>1, <2>2, <2>3 DEF Kept
  <2> QED BY <1>6, <2>1, <2>4
\* The last page has one more key, or data
<1>9. ASSUME pgEnd > 0, NEW r \in Record, r.firstkey = From(Last), Until(Last) <= r.firstkey + r.keycount,
             recs' = [recs EXCEPT ![Slot(Last)] = r], Rec(Last).avail = 1 => r.avail = 1,
             UNCHANGED <<pgDel, pgEnd, kDel, kEnd, files>>,
             \A g \in 0 .. NoPage : \A k : k \in data[g] => k \in data'[g]
      PROVE  Track!Next
  <2>1. /\ Window' = Window /\ Last' = Last
        /\ \A i \in Nat : From(i)' = From(i)
        /\ \A i \in Window : i # Last => Rec(i)' = Rec(i) /\ Until(i)' = Until(i)
        /\ \A i \in Nat : i = Last => Rec(i)' = r /\ Until(i)' = r.firstkey + r.keycount
    BY <1>9, LastRecord
  <2>2. r.firstkey + r.keycount \in Nat /\ Last \in Window /\ Until(Last) \in {kEnd, kEnd + 1}
    <3>1. r.firstkey \in Nat /\ r.keycount \in Nat
      BY DEF Record
    <3> QED BY <1>9, <3>1, Geometry
  <2>3. ASSUME NEW i \in Window, NEW k \in 0 .. kEnd, Here(i, k) PROVE Here(i, k)'
    <3>1. i \in Nat /\ k \in Nat /\ Until(i) \in Nat /\ From(i)' = From(i) /\ k \in data'[From(i)]
      BY <1>0, <1>9, <2>1, <2>3 DEF Here
    <3>2. CASE i = Last
      <4>1. k < Until(i)' /\ Rec(i)'.avail = 1
        BY <1>0, <1>9, <2>1, <2>2, <2>3, <3>1, <3>2 DEF Here
      <4> QED BY <1>9, <2>3, <3>1, <4>1 DEF Here
    <3>3. CASE i # Last
      BY <1>9, <2>1, <2>3, <3>1, <3>3 DEF Here
    <3> QED BY <3>2, <3>3
  <2>4. ASSUME NEW i \in Window, NEW k \in 0 .. kEnd, Here(i, k)', k # kEnd PROVE Here(i, k)
    <3>1. i \in Nat /\ k \in Nat /\ k < kEnd /\ Until(i) \in Nat /\ From(i) \in Nat
          /\ From(i) <= k /\ From(i) \in files
      BY <1>0, <1>9, <2>1, <2>4 DEF Here
    <3>2. k < Until(i)
      <4>1. CASE i = Last
        BY <1>0, <2>2, <3>1, <4>1
      <4>2. CASE i # Last
        BY <2>1, <2>4, <4>2 DEF Here
      <4> QED BY <4>1, <4>2
    <3>3. Rec(i).avail = 1
      BY <3>1, <3>2, HasData
    <3>4. k \in From(i) .. Until(i) - 1
      BY <3>1, <3>2
    <3>5. k \in data[From(i)]
      BY <1>0, <3>1, <3>4 DEF Stored
    <3> QED BY <3>1, <3>2, <3>3, <3>5 DEF Here
  <2>5. Kept \subseteq Kept' /\ Kept' \subseteq Kept \union {kEnd}
    BY <1>9, <2>1, <2>3, <2>4 DEF Kept
  <2> QED BY <1>6, <1>9, <2>5
<1>10. CASE Count
  <2>1. UNCHANGED <<pgDel, pgEnd, kDel, kEnd, files, data>>
    BY <1>10 DEF Count
  <2>2. pgEnd > 0 /\ Last \in Window /\ Last \in Nat
    BY <1>10, CountRecord
  <2>3. PICK r \in Record : /\ recs' = [recs EXCEPT ![Slot(Last)] = r] /\ r.firstkey = From(Last)
                            /\ r.keycount = Rec(Last).keycount + 1 /\ r.avail = Rec(Last).avail
    BY <1>10, CountRecord
  <2>4. Until(Last) <= r.firstkey + r.keycount
    <3>1. From(Last) \in Nat /\ Rec(Last).keycount \in Nat /\ Until(Last) = From(Last) + Rec(Last).keycount
      BY <2>2, Numbers
    <3> QED BY <2>3, <3>1
  <2> QED BY <1>9, <2>1, <2>2, <2>3, <2>4
<1>11. CASE Put
  <2>1. UNCHANGED <<pgDel, pgEnd, kDel, kEnd, files>>
    BY <1>11 DEF Put
  <2>2. pgEnd > 0 /\ Last \in Window /\ Last \in Nat /\ \A g \in 0 .. NoPage : \A k : k \in data[g] => k \in data'[g]
    BY <1>11, PutRecord
  <2>3. PICK r \in Record : /\ recs' = [recs EXCEPT ![Slot(Last)] = r] /\ r.firstkey = From(Last)
                            /\ r.keycount = Rec(Last).keycount /\ r.avail = 1
    BY <1>11, PutRecord
  <2>4. Until(Last) <= r.firstkey + r.keycount
    <3>1. From(Last) \in Nat /\ Rec(Last).keycount \in Nat /\ Until(Last) = From(Last) + Rec(Last).keycount
      BY <2>2, Numbers
    <3> QED BY <2>3, <3>1
  <2> QED BY <1>9, <2>1, <2>2, <2>3, <2>4
<1>12. CASE AddKey
  <2>1. /\ wpc = "key" /\ kEnd' = kEnd + 1 /\ UNCHANGED <<recs, pgDel, pgEnd, kDel, files, data>>
    BY <1>12 DEF AddKey
  <2>2. pgEnd > 0 /\ isKey /\ live # NoPage
    <3>1. pgEnd # 0
      BY <1>0, <2>1 DEF LastPage
    <3> QED BY <1>0, <2>1, <3>1 DEF LastPage, LInv, KeyThere
  <2>3. /\ Last \in Window /\ Last \in Nat /\ From(Last) <= kEnd /\ Until(Last) = kEnd + 1
        /\ Rec(Last).avail = 1 /\ From(Last) \in files
    <3>1. Last \in Window /\ From(Last) <= kEnd
      BY <2>2, Geometry
    <3>2. Until(Last) = kEnd + 1 /\ Rec(Last).avail = 1
      BY <1>0, <2>1, <2>2 DEF LastPage, Fresh
    <3>3. From(Last) \in files
      BY <2>2, LivePage
    <3> QED BY <1>0, <3>1, <3>2, <3>3
  <2>4. kEnd \in stored
    <3>1. From(Last) \in Nat
      BY <1>0, <2>3
    <3>2. kEnd \in From(Last) .. Until(Last) - 1
      BY <1>0, <2>3, <3>1
    <3>3. kEnd \in data[From(Last)]
      BY <1>0, <2>1, <2>3, <3>2 DEF Stored
    <3>4. Here(Last, kEnd)
      BY <1>0, <2>3, <3>3 DEF Here
    <3>5. kEnd \in 0 .. kEnd
      BY <1>0
    <3> QED BY <1>2, <2>3, <3>4, <3>5 DEF Kept
  <2>5. Window' = Window /\ \A i : Rec(i)' = Rec(i) /\ From(i)' = From(i) /\ Until(i)' = Until(i)
    BY <2>1, SameRing
  <2>6. \A i, k : Here(i, k)' <=> Here(i, k)
    BY <2>1, <2>5 DEF Here
  <2>7. ASSUME NEW i \in Window, NEW k \in 0 .. kEnd', Here(i, k) PROVE k \in 0 .. kEnd
    <3>1. i \in Nat /\ Until(i) \in Nat /\ k < Until(i) /\ k \in Nat
      BY <1>0, <2>1, <2>7 DEF Here
    <3>2. Until(i) <= kEnd + 1
      <4>1. CASE i = Last
        BY <1>0, <2>3, <4>1
      <4>2. CASE i # Last
        <5>1. Until(i) <= kEnd
          BY <4>2, Geometry
        <5> QED BY <1>0, <3>1, <5>1
      <4> QED BY <4>1, <4>2
    <3> QED BY <1>0, <3>1, <3>2
  <2>8. \A k \in 0 .. kEnd : k \in 0 .. kEnd'
    BY <1>0, <2>1
  <2>9. Kept' = Kept
    BY <2>5, <2>6, <2>7, <2>8 DEF Kept
  <2> QED BY <1>1, <1>2, <2>1, <2>4, <2>9 DEF Track!Next, Track!Announce, NoPage, Wrap
<1> QED BY <1>4, <1>5, <1>7, <1>8, <1>10, <1>11, <1>12 DEF Producer

\* The track is a window of keys to its readers, until something fails
THEOREM LiveTrackImplementsWindow == Spec => ImplementsWindow
<1>1. Init => Track!Init
  <2> SUFFICES ASSUME Init PROVE Track!Init
    OBVIOUS
  <2>1. kDel = 0 /\ kEnd = 0 /\ files = {} /\ rpc = "idle"
    BY DEF Init
  <2>2. stored = {}
    BY <2>1 DEF stored
  <2> QED BY <2>1, <2>2 DEF Track!Init
<1>2. ASSUME WInv, WInv', [Next]_vars PROVE [torn' = {} => Track!Next]_<<kDel, kEnd, stored, rpc, rkey>>
  <2>1. CASE UNCHANGED vars
    <3>1. UNCHANGED <<recs, pgDel, pgEnd, kDel, kEnd, files, data, rpc, rkey>>
      BY <2>1 DEF vars, metaVars, readerVars
    <3> QED BY <3>1, SameStoredKeys
  <2>2. CASE Next /\ torn' = {}
    <3>1. LInv /\ PInv /\ LInv' /\ PInv'
      BY <1>2, <2>2, TornStays DEF WInv
    <3> QED BY <2>2, <3>1, ReaderMaps, BufferMaps, ProducerMaps DEF Next
  <2> QED BY <1>2, <2>1, <2>2
<1> QED BY <1>1, <1>2, LiveTrackPages, PTL DEF Spec, ImplementsWindow
=============================================================================
