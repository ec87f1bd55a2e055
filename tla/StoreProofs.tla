----------------------------- MODULE StoreProofs -----------------------------
(***************************************************************************)
(* DmsFile implements RecordStore, for every page, segment and disk size,  *)
(* all documents and all identifiers, when writes fail on a full disk only *)
(* and segment offsets fit an int (Gentle):                                *)
(*   - for any threads, in a run where one thread extends the file at a    *)
(*     time and the process does not die while one does;                   *)
(*   - for two threads and documents that fit a fresh page (Paired), where *)
(*     the first condition is OneExtends of DmsFileProofs;                 *)
(*   - for two such threads that only insert, and kills that spare an      *)
(*     extension (Inserters), where no condition on the run is left;       *)
(*   - for one thread and kills that spare an extension (Benign), where    *)
(*     both conditions hold by themselves.                                 *)
(* With IInv of DmsFileProofs, the inductive invariant is Shape (where the *)
(* pages are) and Told (what the callers know); for inserting threads also *)
(* ExtInv and Entries (what the free-space map offers).                    *)
(***************************************************************************)
EXTENDS DmsFileProofs

\* What a slot of a page holds for a caller.
Kept(pg, j) == IF Holds(pg, j) THEN DocIn(pg, j) ELSE "removed"

LEMMA HoldsLive ==
  ASSUME NEW pg \in Pages, NEW j \in Slots(pg)
  PROVE  Holds(pg, j) <=> j \in Live(pg)
  BY DEF Holds, Live, Slots, Pages

\* A page that keeps the record of a slot in use keeps what the slot holds.
LEMMA SameKept ==
  ASSUME NEW pg \in Pages, PageOK(pg), NEW new \in Pages, PageOK(new),
         NEW j \in Slots(pg), j \in Slots(new), new.slots[j] = pg.slots[j],
         \A h \in pg.heap : h.off = pg.slots[j] => h \in new.heap
  PROVE  Kept(new, j) = Kept(pg, j)
<1>1. j \in Live(new) <=> j \in Live(pg)
  BY DEF Live
<1>2. CASE j \notin Live(pg)
  BY <1>1, <1>2, HoldsLive DEF Kept
<1>3. CASE j \in Live(pg)
  <2>1. PICK h \in pg.heap : /\ h.off = pg.slots[j] /\ DocIn(pg, j) = h.doc
    BY <1>3, RecordOf
  <2>2. PICK k \in new.heap : /\ RecordsAt(new, new.slots[j]) = {k} /\ DocIn(new, j) = k.doc
    BY <1>1, <1>3, RecordOf
  <2>3. h = k
    BY <2>1, <2>2 DEF RecordsAt
  <2>4. QED BY <1>1, <1>3, <2>1, <2>2, <2>3, HoldsLive DEF Kept
<1>4. QED BY <1>2, <1>3

\* insert adds one slot to its page and keeps what the others hold.
LEMMA StoreRecordKeeps ==
  ASSUME NEW pg \in Pages, PageOK(pg), NEW d \in Docs, Fits(pg, d)
  PROVE  /\ pg.numSlots \in SlotIds /\ pg.numSlots \notin Slots(pg)
         /\ Slots(StoreRecord(pg, d)) = Slots(pg) \cup {pg.numSlots}
         /\ Kept(StoreRecord(pg, d), pg.numSlots) = d
         /\ \A j \in Slots(pg) : Kept(StoreRecord(pg, d), j) = Kept(pg, j)
<1> DEFINE size == DocSize[d] + RecordHead
           off  == pg.freeOffset - size
           pos  == SlotPos(pg.numSlots)
           rec  == [off |-> off, size |-> size, doc |-> d, dropped |-> FALSE]
           new  == StoreRecord(pg, d)
           rest == Intact(Intact(pg.heap, pos, pos + SlotSize), off, off + size)
<1>1. DocSize[d] \in Nat \ {0} /\ Need(d) = DocSize[d] + 3
  BY NeedType
<1>2. pg # ZeroPage
  BY <1>1 DEF Fits, ZeroPage
<1>3. HeaderOK(pg) /\ HeapOK(pg) /\ SlotsOK(pg)
  BY <1>2 DEF PageOK
<1>4. /\ pg.numSlots \in Nat /\ pg.slotOffset \in Nat
      /\ pg.freeSpace \in Nat /\ pg.freeOffset \in Nat
      /\ pg.slots \in [SlotIds -> Offsets \cup {SlotEmpty}]
      /\ pg.heap \subseteq Records
  BY DEF Pages
<1>5. /\ pg.slotOffset = 7 + pg.numSlots /\ pos = 7 + pg.numSlots
      /\ pg.freeOffset <= PageSize /\ PageSize \in Nat
      /\ size = DocSize[d] + 2
      /\ pg.freeOffset - pg.slotOffset >= DocSize[d] + 3
  BY <1>1, <1>3, <1>4, PageAssumption
     DEF HeaderOK, HeaderSize, SlotPos, SlotSize, RecordHead, Fits, Gap
<1>6. pg.numSlots \in SlotIds /\ off \in Nat /\ off + size = pg.freeOffset
  <2>1. size \in Nat \ {0} /\ off + size = pg.freeOffset /\ off \in Int
    BY <1>1, <1>4, <1>5
  <2>2. pg.slotOffset + 1 <= off /\ off <= pg.freeOffset
    BY <1>1, <1>4, <1>5
  <2> HIDE DEF off, size
  <2>3. off \in Nat /\ pg.numSlots \in 0 .. (PageSize - 7)
    BY <1>4, <1>5, <2>1, <2>2
  <2>4. QED BY <2>1, <2>3 DEF SlotIds, HeaderSize
<1>7. /\ new.numSlots = pg.numSlots + 1
      /\ new.slots = [pg.slots EXCEPT ![pg.numSlots] = off]
      /\ new.heap = rest \cup {rec}
  BY <1>1, <1>4, <1>5
     DEF StoreRecord, HeaderUpdated, RecordStored, SlotStored, SlotSize, RecordHead, Pages
<1>8. new \in Pages /\ PageOK(new)
  BY StoreRecordOK
<1> HIDE DEF new
<1>9. Slots(new) = Slots(pg) \cup {pg.numSlots} /\ pg.numSlots \notin Slots(pg)
  BY <1>4, <1>7 DEF Slots
<1>10. Kept(new, pg.numSlots) = d
  <2>1. new.slots[pg.numSlots] = off /\ pg.numSlots \in Live(new)
    BY <1>4, <1>6, <1>7, <1>9 DEF Live, SlotEmpty
  <2>2. PICK h \in new.heap : /\ RecordsAt(new, new.slots[pg.numSlots]) = {h}
                              /\ DocIn(new, pg.numSlots) = h.doc
    BY <1>8, <2>1, RecordOf
  <2>3. rec \in RecordsAt(new, new.slots[pg.numSlots])
    BY <1>7, <2>1 DEF RecordsAt
  <2>4. h = rec
    BY <2>2, <2>3
  <2>5. QED BY <1>8, <1>9, <2>1, <2>2, <2>4, HoldsLive DEF Kept
<1>11. ASSUME NEW j \in Slots(pg) PROVE Kept(new, j) = Kept(pg, j)
  <2>1. j \in SlotIds /\ j # pg.numSlots
    BY <1>4, <1>5, <1>6 DEF Slots, SlotIds, HeaderSize
  <2>2. new.slots[j] = pg.slots[j] /\ j \in Slots(new)
    BY <1>4, <1>7, <1>9, <2>1
  <2>3. CASE j \notin Live(pg)
    <3>1. j \notin Live(new)
      BY <2>2, <2>3 DEF Live
    <3>2. QED BY <1>8, <2>2, <2>3, <3>1, HoldsLive DEF Kept
  <2>4. CASE j \in Live(pg)
    <3>1. pg.freeOffset <= pg.slots[j]
      BY <1>3, <2>4 DEF SlotsOK
    <3>2. ASSUME NEW h \in pg.heap, h.off = pg.slots[j] PROVE h \in new.heap
      <4>1. h.off \in Nat /\ h.off >= pg.freeOffset
        BY <1>4, <3>1, <3>2 DEF Records, Offsets
      <4>2. h.off >= off + size /\ h.off >= pos + SlotSize
        BY <1>1, <1>4, <1>5, <1>6, <4>1 DEF SlotSize
      <4>3. QED BY <1>7, <4>2 DEF Intact
    <3>3. QED BY <1>8, <2>2, <3>2, SameKept
  <2>5. QED BY <2>3, <2>4
<1>12. QED BY <1>6, <1>9, <1>10, <1>11 DEF new

\* remove empties one slot of its page and keeps what the others hold.
LEMMA DropRecordKeeps ==
  ASSUME NEW pg \in Pages, PageOK(pg), NEW j \in Live(pg)
  PROVE  /\ Slots(DropRecord(pg, j)) = Slots(pg)
         /\ Kept(DropRecord(pg, j), j) = "removed"
         /\ \A k \in Slots(pg) : k # j => Kept(DropRecord(pg, j), k) = Kept(pg, k)
<1> DEFINE new == DropRecord(pg, j)
<1>1. new \in Pages /\ PageOK(new)
  BY DropRecordOK
<1>2. j \in Slots(pg) /\ pg # ZeroPage
  BY DEF Live, Slots, ZeroPage
<1>3. RawSlot(pg, j) = pg.slots[j] /\ Intact(pg.heap, SlotPos(j), SlotPos(j) + SlotSize) = pg.heap
  BY <1>2, RawSlotIn
<1>4. PICK victim \in pg.heap : RecordsAt(pg, pg.slots[j]) = {victim} /\ victim.off = pg.slots[j]
  BY RecordOf
<1>5. Intact(pg.heap \ {victim}, SlotPos(j), SlotPos(j) + SlotSize) = pg.heap \ {victim}
  BY <1>3 DEF Intact
<1>6. /\ new.numSlots = pg.numSlots /\ new.slots = [pg.slots EXCEPT ![j] = SlotEmpty]
      /\ pg.heap \ {victim} \subseteq new.heap
  BY <1>3, <1>4, <1>5 DEF DropRecord, Pages
<1> HIDE DEF new
<1>7. Slots(new) = Slots(pg)
  BY <1>6 DEF Slots
<1>8. pg.slots \in [SlotIds -> Offsets \cup {SlotEmpty}] /\ Slots(pg) \subseteq SlotIds
  <2>1. HeaderOK(pg)
    BY <1>2 DEF PageOK
  <2>2. QED BY <2>1, PageAssumption DEF HeaderOK, Pages, Slots, SlotIds, HeaderSize
<1>9. Kept(new, j) = "removed"
  BY <1>2, <1>6, <1>8 DEF Kept, Holds
<1>10. ASSUME NEW k \in Slots(pg), k # j PROVE Kept(new, k) = Kept(pg, k)
  <2>1. new.slots[k] = pg.slots[k]
    BY <1>2, <1>6, <1>8, <1>10
  <2>2. CASE k \notin Live(pg)
    <3>1. k \notin Live(new)
      BY <1>7, <2>1, <2>2 DEF Live
    <3>2. QED BY <1>1, <1>7, <2>2, <3>1, HoldsLive DEF Kept
  <2>3. CASE k \in Live(pg)
    <3>1. pg.slots[k] # pg.slots[j]
      BY <1>2, <1>10, <2>3 DEF PageOK, SlotsOK
    <3>2. \A h \in pg.heap : h.off = pg.slots[k] => h \in new.heap
      BY <1>4, <1>6, <3>1
    <3>3. QED BY <1>1, <1>7, <2>1, <3>2, SameKept
  <2>4. QED BY <2>2, <2>3
<1>11. QED BY <1>7, <1>9, <1>10 DEF new

--------------------------------------------------------------------------------
\* Arithmetic of whole segments.
LEMMA NoRest ==
  ASSUME NEW a \in Nat, NEW b \in Nat, NEW d \in Nat \ {0}, NEW r \in Nat,
         r < d, a * d + r = b * d
  PROVE  r = 0 /\ a = b
<1>1. a * d \in Nat /\ b * d \in Nat /\ (a + 1) * d = a * d + d /\ (b + 1) * d = b * d + d
  OBVIOUS
<1>2. ~(b >= a + 1)
  <2>1. SUFFICES ASSUME a + 1 <= b PROVE FALSE
    OBVIOUS
  <2>2. d * (a + 1) <= d * b
    BY <2>1, TimesMono
  <2>3. a * d + d <= b * d
    BY <1>1, <2>2
  <2>4. QED BY <1>1, <2>3
<1>3. ~(a >= b + 1)
  <2>1. SUFFICES ASSUME b + 1 <= a PROVE FALSE
    OBVIOUS
  <2>2. d * (b + 1) <= d * a
    BY <2>1, TimesMono
  <2>3. b * d + d <= a * d
    BY <1>1, <2>2
  <2>4. QED BY <1>1, <2>3
<1>4. a = b
  BY <1>2, <1>3
<1>5. QED BY <1>1, <1>4

LEMMA CountMono ==
  ASSUME NEW a \in Nat, NEW b \in Nat, NEW d \in Nat \ {0}, a * d <= b * d
  PROVE  a <= b
<1>1. SUFFICES ASSUME b + 1 <= a PROVE FALSE
  OBVIOUS
<1>2. d * (b + 1) <= d * a
  BY <1>1, TimesMono
<1>3. a * d \in Nat /\ b * d \in Nat /\ b * d + d <= a * d
  BY <1>2
<1>4. QED BY <1>3

LEMMA DivMod ==
  ASSUME NEW p \in Nat, NEW d \in Nat \ {0}
  PROVE  /\ p \div d \in Nat /\ p % d \in 0 .. (d - 1)
         /\ p = (p \div d) * d + (p % d)
  OBVIOUS

LEMMA MulDiv ==
  ASSUME NEW k \in Nat, NEW d \in Nat \ {0}
  PROVE  (k * d) \div d = k /\ (k * d) % d = 0
<1> DEFINE p == k * d
           q == p \div d
           r == p % d
<1>1. p \in Nat
  OBVIOUS
<1>2. q \in Nat /\ r \in 0 .. (d - 1) /\ p = q * d + r
  <2> HIDE DEF p
  <2>1. QED BY <1>1, DivMod
<1>3. r = 0 /\ q = k
  <2>1. q * d + r = k * d
    BY <1>2
  <2> HIDE DEF q, r, p
  <2>2. QED BY <1>2, <2>1, NoRest
<1>4. QED BY <1>3

--------------------------------------------------------------------------------
\* The records of a file whose header counts n pages.
RidsOf(f, n) == UNION {{p} \X Slots(f[p + 1]) : p \in 0 .. (n - 1)}
RecsOf(f, n) == [r \in RidsOf(f, n) |-> Kept(f[r[1] + 1], r[2])]

LEMMA StoredIs ==
  /\ StoredRids = RidsOf(file, hdrSize) /\ StoredRecords = RecsOf(file, hdrSize)
  /\ StoredRids' = RidsOf(file', hdrSize') /\ StoredRecords' = RecsOf(file', hdrSize')
  BY DEF StoredRids, StoredRecords, RidsOf, RecsOf, Kept

LEMMA RidsOfIs ==
  ASSUME NEW f, NEW n
  PROVE  \A r : r \in RidsOf(f, n) <=>
           \E p \in 0 .. (n - 1) : \E j \in Slots(f[p + 1]) : r = <<p, j>>
  BY DEF RidsOf

\* Records depend on the counted pages only.
LEMMA RecsSame ==
  ASSUME NEW f, NEW g, NEW n \in Nat, \A p \in 0 .. (n - 1) : g[p + 1] = f[p + 1]
  PROVE  RecsOf(g, n) = RecsOf(f, n)
<1>1. RidsOf(g, n) = RidsOf(f, n)
  BY DEF RidsOf
<1>2. \A r \in RidsOf(f, n) : g[r[1] + 1] = f[r[1] + 1]
  BY RidsOfIs
<1>3. QED BY <1>1, <1>2 DEF RecsOf

\* Pages without slots add no records when they are counted.
LEMMA RecsGrow ==
  ASSUME NEW f, NEW n \in Nat, NEW m \in Nat, n <= m,
         \A p \in n .. (m - 1) : f[p + 1].numSlots = 0
  PROVE  RecsOf(f, m) = RecsOf(f, n)
<1>1. \A p \in 0 .. (m - 1) : p \in 0 .. (n - 1) \/ Slots(f[p + 1]) = {}
  BY DEF Slots
<1>2. RidsOf(f, m) = RidsOf(f, n)
  BY <1>1, RidsOfIs
<1>3. QED BY <1>2 DEF RecsOf

\* Of the n counted pages, file g differs from f in slot j of page q, which may
\* be a new slot.
OneSlot(f, g, n, q, j) ==
  /\ \A p \in 0 .. (n - 1) : p # q => g[p + 1] = f[p + 1]
  /\ Slots(g[q + 1]) = Slots(f[q + 1]) \cup {j}
  /\ \A k \in Slots(f[q + 1]) : k # j => Kept(g[q + 1], k) = Kept(f[q + 1], k)

\* Of the records in those pages, only the one in that slot differs.
OneRecord(f, g, n, q, j) ==
  /\ RidsOf(g, n) = RidsOf(f, n) \cup {<<q, j>>}
  /\ RecsOf(g, n)[<<q, j>>] = Kept(g[q + 1], j)
  /\ \A r \in RidsOf(f, n) : r # <<q, j>> => RecsOf(g, n)[r] = RecsOf(f, n)[r]

\* A page changed in one slot changes one record.
LEMMA RecsChange ==
  ASSUME NEW f, NEW g, NEW n \in Nat, NEW q \in 0 .. (n - 1), NEW j, OneSlot(f, g, n, q, j)
  PROVE  OneRecord(f, g, n, q, j)
<1>1. RidsOf(g, n) = RidsOf(f, n) \cup {<<q, j>>}
  BY RidsOfIs DEF OneSlot
<1>2. ASSUME NEW r \in RidsOf(f, n), r # <<q, j>>
      PROVE  Kept(g[r[1] + 1], r[2]) = Kept(f[r[1] + 1], r[2])
  <2>1. PICK p \in 0 .. (n - 1) : \E k \in Slots(f[p + 1]) : r = <<p, k>>
    BY RidsOfIs
  <2>2. CASE p # q
    BY <2>1, <2>2 DEF OneSlot
  <2>3. CASE p = q
    BY <1>2, <2>1, <2>3 DEF OneSlot
  <2>4. QED BY <2>2, <2>3
<1>3. QED BY <1>1, <1>2 DEF RecsOf, OneRecord

--------------------------------------------------------------------------------
\* What the promise of RecordStore asks of the callers and the environment, for
\* any number of threads: removes of records only, writes that fail on a full
\* disk only, a disk whose offsets fit an int.
Gentle ==
  /\ Calls \subseteq {"insert", "find", "remove"}
  /\ Env \subseteq {"kill", "kill_extending", "restart"}
  /\ DiskPages <= IntSegments * PagesPerSegment
  /\ "removed" \notin Docs

\* The process does not end while a segment is in the file and not counted yet.
SparesExtension == Growing => state' = "up"

\* The header counts whole segments, all of them in the file.
Counted ==
  /\ \E k \in Nat : hdrSize = k * PagesPerSegment
  /\ hdrSize <= Len(file) /\ Len(file) <= DiskPages

\* Pages that are not counted hold no slot yet.
Fresh == \A i \in DOMAIN file : i > hdrSize => file[i].numSlots = 0

\* The file has no uncounted page, or a failed extension has filled the disk, and
\* then no other one will succeed.
Settled == Len(file) = hdrSize \/ Len(file) = DiskPages

\* The file exceeds the header by what the thread has written of a segment.
Growth(t) ==
  /\ pc[t] = "extend" =>
       /\ ext[t].done <= PagesPerSegment
       /\ \/ Len(file) = DiskPages /\ (ext[t].failed \/ ext[t].done = 0)
          \/ /\ ext[t].offset = hdrSize /\ ~ext[t].failed
             /\ Len(file) = hdrSize + ext[t].done
  /\ pc[t] = "publish" => ext[t].offset = hdrSize /\ Len(file) = hdrSize + PagesPerSegment

Grown == \A t \in Threads : Growth(t)

\* While nobody extends the file it is settled; a thread that reads its size to
\* extend it finds it settled.
Steady     == ~Growing => Settled
SizeIsSure == \A t \in Threads : pc[t] = "getsize" => Settled

\* No thread is inside a call, or has a reply, while the process is not up.
Quiet ==
  /\ ret = [t \in Threads |-> ret[t]]
  /\ state # "up" => \A t \in Threads : pc[t] = "idle" /\ ret[t] = NoReply

Shape == Counted /\ Fresh /\ Grown /\ PlacementOK /\ Quiet

RInv == IInv /\ Shape

\* What a thread was told of is a document, and it is stored.
Told == AckDurable /\ \A t \in Threads : Acked(t) => ret[t].doc \in Docs

\* The steps of a store that removes nothing.
Adds ==
  \/ UNCHANGED Store!vars
  \/ Store!Stop
  \/ \E t \in Threads : \/ Store!Call(t) \/ Store!Refuse(t)
                        \/ \E r \in AskedRids : Store!Find(t, r)
                        \/ \E d \in Docs : Store!Insert(t, d)

LEMMA AddsIsNext == Adds => [Store!Next]_(Store!vars)
  BY DEF Adds, Store!Next

LEMMA Sizes ==
  ASSUME RInv
  PROVE  /\ PagesPerSegment \in Nat \ {0} /\ DiskPages \in Nat
         /\ hdrSize \in Nat /\ Len(file) \in Nat /\ DOMAIN file = 1 .. Len(file)
         /\ hdrSize <= Len(file) /\ Len(file) <= DiskPages
         /\ \A p \in 0 .. (hdrSize - 1) : p + 1 \in DOMAIN file
  BY FileAssumption DEF RInv, IInv, TypeOK, Shape, Counted

\* Page p of segments that follow each other is the p-th page.
LEMMA PageAfter ==
  ASSUME NEW starts \in Seq(Nat), NEW p \in Nat, p < Len(starts) * PagesPerSegment,
         \A i \in DOMAIN starts : starts[i] = (i - 1) * PagesPerSegment
  PROVE  starts[(p \div PagesPerSegment) + 1] + (p % PagesPerSegment) + 1 = p + 1
<1> DEFINE q == p \div PagesPerSegment
           r == p % PagesPerSegment
<1>1. PagesPerSegment \in Nat \ {0} /\ Len(starts) \in Nat
  BY FileAssumption
<1>2. q \in Nat /\ q < Len(starts) /\ r \in Nat /\ p = q * PagesPerSegment + r
  <2>1. q \in Nat /\ q < Len(starts)
    BY <1>1, DivLess
  <2>2. r \in Nat /\ p = q * PagesPerSegment + r
    BY <1>1, DivMod
  <2>3. QED BY <2>1, <2>2
<1> HIDE DEF q, r
<1>3. PICK i \in DOMAIN starts : i = q + 1
  BY <1>1, <1>2
<1>4. i - 1 = q
  BY <1>2, <1>3
<1>5. starts[q + 1] = q * PagesPerSegment /\ q * PagesPerSegment \in Nat
  BY <1>1, <1>2, <1>3, <1>4
<1>6. starts[q + 1] + r + 1 = p + 1
  BY <1>2, <1>5
<1>7. QED BY <1>6 DEF q, r

\* While the process is up, page p is the p-th page after the header.
LEMMA WhereIs ==
  ASSUME RInv, state = "up"
  PROVE  /\ NumPages = hdrSize
         /\ \A p \in Nat : p < NumPages => p \in 0 .. (hdrSize - 1) /\ Where(p) = p + 1
<1>1. NumPages = hdrSize
  BY DEF NumPages, RInv, Shape, PlacementOK
<1>2. SUFFICES ASSUME NEW p \in Nat, p < NumPages
               PROVE  p \in 0 .. (hdrSize - 1) /\ Where(p) = p + 1
  BY <1>1
<1>3. body \in Seq(Nat) /\ hdrSize \in Nat
  BY Sizes DEF RInv, IInv, TypeOK
<1>4. \A i \in DOMAIN body : body[i] = (i - 1) * PagesPerSegment
  BY DEF RInv, Shape, PlacementOK
<1>5. Where(p) = p + 1
  BY <1>2, <1>3, <1>4, PageAfter DEF Where, NumPages
<1>6. QED BY <1>1, <1>2, <1>3, <1>5

--------------------------------------------------------------------------------
\* What the steps of one thread keep of Shape, and of the stored records.
LEMMA CountedSame ==
  ASSUME RInv, \A p \in 0 .. (hdrSize - 1) : file'[p + 1] = file[p + 1], hdrSize' = hdrSize
  PROVE  StoredRecords' = StoredRecords
  BY Sizes, StoredIs, RecsSame

LEMMA Stutters ==
  ASSUME StoredRecords' = StoredRecords, ret' = ret
  PROVE  Adds
  BY DEF Adds, Store!vars

LEMMA RetIs ==
  ASSUME RInv, NEW t \in Threads, NEW reply, ret' = [ret EXCEPT ![t] = reply]
  PROVE  ret' = [u \in Threads |-> ret'[u]]
  BY DEF RInv, Shape, Quiet

\* A step of one thread leaves the others where they are.
Others(t) == \A u \in Threads \ {t} : pc'[u] = pc[u] /\ ext'[u] = ext[u]

LEMMA GrownSame ==
  ASSUME RInv, ExtendExclusive, NEW t \in Threads, Others(t), Growth(t)',
         (hdrSize' = hdrSize /\ Len(file') = Len(file)) \/ InExtend(t)
  PROVE  Grown'
<1>1. SUFFICES ASSUME NEW u \in Threads, u # t PROVE Growth(u)'
  BY DEF Grown
<1>2. CASE hdrSize' = hdrSize /\ Len(file') = Len(file)
  BY <1>1, <1>2 DEF Others, Growth, RInv, Shape, Grown
<1>3. CASE InExtend(t)
  <2>1. ~InExtend(u)
    BY <1>1, <1>3 DEF ExtendExclusive
  <2>2. QED BY <1>1, <2>1 DEF Others, Growth, InExtend
<1>4. QED BY <1>2, <1>3

LEMMA ThreadShape ==
  ASSUME RInv, ExtendExclusive, NEW t \in Threads, state = "up",
         UNCHANGED <<durable, process>>, ret' = [u \in Threads |-> ret'[u]], Others(t),
         Growth(t)'
  PROVE  Shape' /\ StoredRecords' = StoredRecords
<1>1. Counted' /\ Fresh' /\ PlacementOK'
  BY DEF RInv, Shape, Counted, Fresh, PlacementOK, durable, process
<1>2. Grown'
  <2>1. hdrSize' = hdrSize /\ Len(file') = Len(file)
    BY DEF durable
  <2>2. QED BY <2>1, GrownSame
<1>3. Quiet'
  BY DEF Quiet, process
<1>4. Shape'
  BY <1>1, <1>2, <1>3 DEF Shape
<1>5. StoredRecords' = StoredRecords
  BY CountedSame DEF durable
<1>6. QED BY <1>4, <1>5

\* A call that returns.
LEMMA Returned ==
  ASSUME RInv, NEW t \in Threads, NEW reply, Return(t, reply)
  PROVE  /\ ret' = [ret EXCEPT ![t] = reply] /\ pc'[t] = "idle"
         /\ Others(t) /\ Growth(t)'
  BY DEF Return, RInv, IInv, TypeOK, Others, Growth

\* It leaves the file alone.
LEMMA ReturnShape ==
  ASSUME RInv, ExtendExclusive, NEW t \in Threads, state = "up",
         NEW reply, Return(t, reply), UNCHANGED <<durable, process>>
  PROVE  Shape' /\ StoredRecords' = StoredRecords /\ Store!Answer(t, reply)
<1>1. ret' = [ret EXCEPT ![t] = reply] /\ Others(t) /\ Growth(t)'
  BY Returned
<1>2. QED BY <1>1, RetIs, ThreadShape DEF Store!Answer

\* It has changed one counted page.
LEMMA PageShape ==
  ASSUME RInv, ExtendExclusive, NEW t \in Threads, state = "up",
         NEW reply, Return(t, reply), NEW i \in DOMAIN file, i <= hdrSize, NEW pg,
         file' = [file EXCEPT ![i] = pg], UNCHANGED <<hdrSize, state, body>>
  PROVE  Shape' /\ Store!Answer(t, reply)
<1>1. /\ ret' = [ret EXCEPT ![t] = reply] /\ pc'[t] = "idle"
      /\ Others(t) /\ Growth(t)'
  BY Returned
<1>2. DOMAIN file' = DOMAIN file /\ Len(file') = Len(file) /\ DOMAIN file = 1 .. Len(file)
      /\ Len(file) \in Nat
  BY DEF RInv, IInv, TypeOK
<1>3. Counted' /\ PlacementOK'
  BY <1>2 DEF RInv, Shape, Counted, PlacementOK
<1>4. Fresh'
  BY <1>2, Sizes DEF RInv, Shape, Fresh
<1>5. Grown'
  BY <1>1, <1>2, GrownSame
<1>6. Quiet'
  BY <1>1, RetIs DEF Quiet
<1>7. QED BY <1>1, <1>3, <1>4, <1>5, <1>6 DEF Shape, Store!Answer

\* A thread inside insert runs in a process that is up.
LEMMA BusyIsUp ==
  ASSUME RInv, NEW t \in Threads, pc[t] # "idle"
  PROVE  state = "up"
  BY DEF RInv, IInv, TypeOK, Shape, Quiet

--------------------------------------------------------------------------------
\* The process.
LEMMA GoneStore ==
  ASSUME RInv, ProcessGone, UNCHANGED durable
  PROVE  Shape' /\ Adds
<1>1. Counted' /\ Fresh' /\ PlacementOK'
  BY DEF RInv, Shape, Counted, Fresh, PlacementOK, durable, ProcessGone
<1>2. Grown'
  BY DEF Grown, Growth, ProcessGone
<1>3. Quiet'
  BY DEF Quiet, ProcessGone
<1>4. StoredRecords' = StoredRecords
  BY CountedSame DEF durable
<1>5. Store!Stop
  BY <1>4 DEF Store!Stop, ProcessGone, NoReply
<1>6. QED BY <1>1, <1>2, <1>3, <1>5 DEF Shape, Adds

LEMMA StopStore ==
  ASSUME RInv, Kill \/ Crash PROVE Shape' /\ Adds
  BY GoneStore DEF Kill, Crash

LEMMA InitNewStore ==
  ASSUME RInv, InitNew PROVE Shape' /\ Adds
<1>1. UNCHANGED <<file, hdrSize, state, body, pc, ext, ret>>
  BY DEF InitNew, process, threads
<1>2. Shape'
  BY <1>1 DEF RInv, Shape, Counted, Fresh, Grown, Growth, PlacementOK, Quiet
<1>3. QED BY <1>1, <1>2, CountedSame, Stutters

\* A restart maps the segments where the file has them.
LEMMA LoadDataStore ==
  ASSUME Gentle, RInv, ExtendExclusive, LoadData PROVE Shape' /\ Adds
<1>2. state # "up" /\ UNCHANGED <<file, hdrSize, pc, ext, ret>> /\ state' = "up"
  BY DEF LoadData, CanStart, durable, threads
<1>3. PICK wraps \in BOOLEAN :
        body' = [i \in 1 .. LoadedSegments |-> LoadStart(i - 1, wraps)]
  BY DEF LoadData
<1>4. PICK k \in Nat : hdrSize = k * PagesPerSegment
  BY DEF RInv, Shape, Counted
<1>5. /\ PagesPerSegment \in Nat \ {0} /\ IntSegments \in Nat \ {0}
      /\ Len(file) \in Nat /\ k * PagesPerSegment <= Len(file)
      /\ k * PagesPerSegment <= IntSegments * PagesPerSegment
  <2>1. PagesPerSegment \in Nat \ {0} /\ IntSegments \in Nat \ {0}
    BY FileAssumption
  <2>2. k * PagesPerSegment \in Nat /\ IntSegments * PagesPerSegment \in Nat
    BY <2>1
  <2>3. hdrSize <= Len(file) /\ Len(file) <= DiskPages /\ Len(file) \in Nat /\ DiskPages \in Nat
    BY Sizes
  <2>4. DiskPages <= IntSegments * PagesPerSegment
    BY DEF Gentle
  <2>5. QED BY <1>4, <2>1, <2>2, <2>3, <2>4
<1>6. hdrSize % PagesPerSegment = 0 /\ hdrSize \div PagesPerSegment = k
  BY <1>4, <1>5, MulDiv
<1>7. k <= IntSegments
  BY <1>5, CountMono
<1>8. Len(file) \div PagesPerSegment \in Nat /\ k <= Len(file) \div PagesPerSegment
  <2> DEFINE q == Len(file) \div PagesPerSegment
             r == Len(file) % PagesPerSegment
  <2>1. q \in Nat /\ r \in 0 .. (PagesPerSegment - 1) /\ Len(file) = q * PagesPerSegment + r
    BY <1>5, DivMod
  <2> HIDE DEF q, r
  <2>2. (q + 1) * PagesPerSegment = q * PagesPerSegment + PagesPerSegment
        /\ q * PagesPerSegment \in Nat /\ k * PagesPerSegment \in Nat
    BY <1>5, <2>1
  <2>3. ~(q + 1 <= k)
    <3>1. SUFFICES ASSUME q + 1 <= k PROVE FALSE
      OBVIOUS
    <3>2. PagesPerSegment * (q + 1) <= PagesPerSegment * k
      BY <1>5, <2>1, <3>1, TimesMono
    <3>3. q * PagesPerSegment + PagesPerSegment <= k * PagesPerSegment
      BY <1>5, <2>1, <2>2, <3>2
    <3>4. QED BY <1>5, <2>1, <2>2, <3>3
  <2>4. q \in Nat /\ k <= q
    BY <2>1, <2>3
  <2>5. QED BY <2>4 DEF q
<1>9. LoadedSegments = k
  BY <1>6 DEF LoadedSegments
<1>10. MappedSegments(wraps) \in Nat /\ k <= MappedSegments(wraps)
  BY <1>5, <1>7, <1>8 DEF MappedSegments
<1>11. body' = [i \in 1 .. k |-> (i - 1) * PagesPerSegment]
  <2>1. ASSUME NEW i \in 1 .. k PROVE LoadStart(i - 1, wraps) = PagesPerSegment * (i - 1)
    BY <1>10, <2>1 DEF LoadStart
  <2>2. \A i \in 1 .. k : PagesPerSegment * (i - 1) = (i - 1) * PagesPerSegment
    BY <1>5
  <2>3. QED BY <1>3, <1>9, <2>1, <2>2
<1>12. PlacementOK'
  <2>1. Len(body') = k /\ DOMAIN body' = 1 .. k
    BY <1>11
  <2>2. QED BY <1>2, <1>4, <1>11, <2>1 DEF PlacementOK
<1>13. Counted' /\ Fresh' /\ Quiet' /\ Grown'
  BY <1>2 DEF RInv, Shape, Counted, Fresh, Quiet, Grown, Growth
<1>14. QED BY <1>2, <1>12, <1>13, CountedSame, Stutters DEF Shape

--------------------------------------------------------------------------------
\* insert.
LEMMA CallInsertStore ==
  ASSUME Gentle, RInv, ExtendExclusive, NEW t \in Threads, NEW d \in Docs, CallInsert(t, d)
  PROVE  Shape' /\ Adds
<1>1. state = "up"
  BY DEF CallInsert, CanCall
<1>2. CASE DocSize[d] > PageSize
  <2>1. Return(t, Failed) /\ UNCHANGED <<durable, process>>
    BY <1>2 DEF CallInsert
  <2>2. Shape' /\ Store!Refuse(t)
    BY <1>1, <2>1, ReturnShape DEF Store!Refuse, Failed
  <2>3. QED BY <2>2 DEF Adds
<1>3. CASE ~(DocSize[d] > PageSize)
  <2>1. /\ pc' = [pc EXCEPT ![t] = "try"] /\ ret' = [ret EXCEPT ![t] = NoReply]
        /\ UNCHANGED <<durable, process>>
    BY <1>3 DEF CallInsert, Goto
  <2>2. Growth(t)' /\ Others(t)
    BY <1>1, <1>3, <2>1 DEF CallInsert, Growth, Others, RInv, IInv, TypeOK
  <2>3. Shape' /\ StoredRecords' = StoredRecords
    BY <1>1, <2>1, <2>2, RetIs, ThreadShape
  <2>4. Store!Call(t)
    BY <2>1, <2>3 DEF Store!Call, Store!Answer, NoReply
  <2>5. QED BY <2>3, <2>4 DEF Adds
<1>4. QED BY <1>2, <1>3

\* Steps that wait, and the one that reads the size of the file.
LEMMA WaitStepsStore ==
  ASSUME Gentle, RInv, ExtendExclusive, SizeIsSure, NEW t \in Threads,
         \/ InsertNoPage(t) \/ TryExtend(t) \/ ExtendBusy(t) \/ ExtendWait(t)
         \/ Unlock1(t) \/ Unlock2(t) \/ GetSize(t)
  PROVE  Shape' /\ Adds
<1>1. /\ pc[t] \notin {"idle", "extend", "publish"}
      /\ UNCHANGED <<durable, process, ret>>
      /\ \/ \E label \in Labels \ {"extend", "publish"} : pc' = [pc EXCEPT ![t] = label]
         \/ GetSize(t)
  BY DEF InsertNoPage, Trying, TryExtend, ExtendBusy, ExtendWait, Unlock1, Unlock2, GetSize,
         Goto, Labels
<1>2. state = "up"
  BY <1>1, BusyIsUp
<1>3. Growth(t)' /\ Others(t)
  <2>1. CASE \E label \in Labels \ {"extend", "publish"} : pc' = [pc EXCEPT ![t] = label]
    <3>1. pc'[t] \notin {"extend", "publish"} /\ \A u \in Threads \ {t} : pc'[u] = pc[u]
      BY <2>1 DEF RInv, IInv, TypeOK
    <3>2. ext' = ext \/ GetSize(t)
      BY DEF InsertNoPage, TryExtend, ExtendBusy, ExtendWait, Unlock1, Unlock2
    <3>3. \A u \in Threads \ {t} : ext'[u] = ext[u]
      BY <3>2 DEF GetSize, RInv, IInv, TypeOK
    <3>4. QED BY <3>1, <3>3 DEF Growth, Others
  <2>2. CASE GetSize(t)
    <3>1. /\ pc'[t] = "extend" /\ ext'[t] = [offset |-> Len(file), done |-> 0, failed |-> FALSE]
          /\ Others(t) /\ pc[t] = "getsize"
      BY <2>2 DEF GetSize, Goto, NoExt, Others, RInv, IInv, TypeOK
    <3>2. Settled
      BY <3>1 DEF SizeIsSure
    <3>3. QED BY <1>1, <3>1, <3>2, Sizes DEF Growth, Settled, durable
  <2>3. QED BY <1>1, <2>1, <2>2
<1>4. ret' = [u \in Threads |-> ret'[u]]
  BY <1>1 DEF RInv, Shape, Quiet
<1>5. QED BY <1>1, <1>2, <1>3, <1>4, ThreadShape, Stutters DEF Adds

LEMMA InsertStoreStore ==
  ASSUME Gentle, RInv, ExtendExclusive, NEW t \in Threads, NEW p \in Nat, Trying(t), InsertStore(t, p)
  PROVE  Shape' /\ Adds
<1> DEFINE d   == arg[t]
           old == file[p + 1]
           j   == old.numSlots
<1>1. d \in Docs /\ state = "up"
  BY DEF RInv, IInv, Placed, Trying
<1>2. p \in 0 .. (hdrSize - 1) /\ Where(p) = p + 1
  BY <1>1, WhereIs DEF InsertStore
<1>3. p + 1 \in DOMAIN file /\ old \in Pages /\ PageOK(old)
  BY <1>2, Sizes DEF RInv, IInv, TypeOK, LayoutOK
<1>4. Recovered(old, d) = old /\ Fits(old, d)
  BY <1>1, <1>2, <1>3, RecoveredSame DEF InsertStore
<1>5. /\ file' = [file EXCEPT ![p + 1] = StoreRecord(old, d)]
      /\ Return(t, Store!Inserted(<<p, j>>, d))
      /\ UNCHANGED <<hdrSize, state, body>>
  BY <1>2, <1>4 DEF InsertStore
<1> DEFINE new == StoreRecord(old, d)
<1>6. /\ j \in SlotIds /\ j \notin Slots(old) /\ Slots(new) = Slots(old) \cup {j}
      /\ Kept(new, j) = d /\ \A k \in Slots(old) : Kept(new, k) = Kept(old, k)
  BY <1>1, <1>3, <1>4, StoreRecordKeeps
<1> HIDE DEF new, d
<1>7. Shape' /\ Store!Answer(t, Store!Inserted(<<p, j>>, d))
  <2> HIDE DEF old, j
  <2>1. p + 1 <= hdrSize
    BY <1>2, Sizes
  <2>2. QED BY <1>1, <1>3, <1>5, <2>1, PageShape DEF new
<1>8. file'[p + 1] = new /\ \A q \in 0 .. (hdrSize - 1) : q # p => file'[q + 1] = file[q + 1]
  BY <1>3, <1>5, Sizes DEF new
<1>9. /\ StoredRids' = StoredRids \cup {<<p, j>>} /\ StoredRecords'[<<p, j>>] = d
      /\ \A r \in StoredRids : r # <<p, j>> => StoredRecords'[r] = StoredRecords[r]
  <2>1. /\ RidsOf(file', hdrSize) = RidsOf(file, hdrSize) \cup {<<p, j>>}
        /\ RecsOf(file', hdrSize)[<<p, j>>] = Kept(file'[p + 1], j)
        /\ \A r \in RidsOf(file, hdrSize) : r # <<p, j>> =>
             RecsOf(file', hdrSize)[r] = RecsOf(file, hdrSize)[r]
    <3>1. OneSlot(file, file', hdrSize, p, j)
      BY <1>6, <1>8 DEF OneSlot
    <3>2. hdrSize \in Nat
      BY Sizes
    <3>3. p \in 0 .. (hdrSize - 1)
      BY <1>2
    <3> HIDE DEF old, j
    <3>4. OneRecord(file, file', hdrSize, p, j)
      BY <3>1, <3>2, <3>3, RecsChange
    <3>5. QED BY <3>4 DEF OneRecord
  <2>2. hdrSize' = hdrSize
    BY <1>5
  <2>3. QED BY <1>6, <1>8, <2>1, <2>2, StoredIs
<1>10. <<p, j>> \notin StoredRids
  BY <1>6, StoredIs, RidsOfIs
<1>11. <<p, j>> \in Rids
  BY <1>2, <1>6, Sizes DEF Rids
<1>12. StoredRecords' = [r \in DOMAIN StoredRecords \cup {<<p, j>>} |->
                          IF r = <<p, j>> THEN d ELSE StoredRecords[r]]
  <2>1. DOMAIN StoredRecords = StoredRids
    BY DEF StoredRecords
  <2>2. StoredRecords' = [r \in StoredRids' |-> StoredRecords'[r]]
    BY DEF StoredRecords
  <2>3. QED BY <1>9, <2>1, <2>2
<1>13. Store!Insert(t, d)
  <2>1. DOMAIN StoredRecords = StoredRids
    BY DEF StoredRecords
  <2>2. QED BY <1>7, <1>10, <1>11, <1>12, <2>1 DEF Store!Insert
<1>14. QED BY <1>1, <1>7, <1>13 DEF Adds

\* An insert that is refused leaves the page it found as it was.
LEMMA RefusedSame ==
  ASSUME RInv, NEW t \in Threads, NEW p \in Nat, Trying(t), InsertRefused(t, p)
  PROVE  Return(t, Failed) /\ UNCHANGED <<durable, process>>
<1>1. arg[t] \in Docs
  BY DEF RInv, IInv, Placed, Trying
<1>2. CASE p < NumPages
  <2> DEFINE old == file[Where(p)]
  <2>1. Where(p) \in DOMAIN file /\ old \in Pages /\ PageOK(old)
    BY <1>2, WhereInside DEF RInv
  <2>2. /\ ~(MustRecover(old, arg[t]) /\ RecoverCrashes(old))
        /\ file' = [file EXCEPT ![Where(p)] = Recovered(old, arg[t])]
    BY <1>2, NumPagesNat DEF InsertRefused, RInv
  <2>3. Recovered(old, arg[t]) = old
    BY <1>1, <2>1, <2>2, RecoveredSame
  <2>4. file' = file
    BY <2>1, <2>2, <2>3 DEF RInv, IInv, TypeOK
  <2>5. QED BY <2>4 DEF InsertRefused, durable, process
<1>3. CASE ~(p < NumPages)
  BY <1>3, NumPagesNat DEF InsertRefused, RInv, durable, process
<1>4. QED BY <1>2, <1>3

LEMMA InsertRefusedStore ==
  ASSUME Gentle, RInv, ExtendExclusive, NEW t \in Threads, NEW p \in Nat, Trying(t), InsertRefused(t, p)
  PROVE  Shape' /\ Adds
<1>1. Return(t, Failed) /\ UNCHANGED <<durable, process>> /\ state = "up"
  BY RefusedSame DEF Trying
<1>2. Shape' /\ Store!Refuse(t)
  BY <1>1, ReturnShape DEF Store!Refuse, Failed
<1>3. QED BY <1>2 DEF Adds

LEMMA InsertInPageStore ==
  ASSUME Gentle, RInv, ExtendExclusive, NEW t \in Threads, InsertInPage(t)
  PROVE  Shape' /\ Adds
<1>1. PICK e \in FirstFit(arg[t]) :
        InsertStore(t, e.page) \/ InsertRefused(t, e.page) \/ InsertCrash(t, e.page)
  BY DEF InsertInPage
<1>2. e.page \in Nat /\ Trying(t)
  BY FirstFitPage DEF InsertInPage, Trying, RInv
<1>3. InsertCrash(t, e.page) => Crash
  BY DEF InsertCrash
<1>4. QED BY <1>1, <1>2, <1>3, InsertStoreStore, InsertRefusedStore, StopStore

--------------------------------------------------------------------------------
\* _extendSegment: pages that the header does not count yet, without slots.
LEMMA WritePageStore ==
  ASSUME Gentle, RInv, ExtendExclusive, NEW t \in Threads, WritePage(t)
  PROVE  Shape' /\ Adds
<1>1. /\ pc[t] = "extend" /\ ext[t].done < PagesPerSegment /\ Len(file) < DiskPages
      /\ file' = Append(file, ZeroPage) /\ UNCHANGED <<hdrSize, state, body, pc, ret>>
      /\ ext' = [ext EXCEPT ![t] = [offset |-> @.offset, done |-> @.done + 1, failed |-> FALSE]]
  BY DEF WritePage, Extending, process
<1>2. /\ PagesPerSegment \in Nat /\ DiskPages \in Nat /\ hdrSize \in Nat /\ Len(file) \in Nat
      /\ hdrSize <= Len(file) /\ ext[t].done \in Nat /\ ext[t].failed \in BOOLEAN
  BY Sizes DEF RInv, IInv, TypeOK
<1>3. /\ Len(file') = Len(file) + 1 /\ DOMAIN file' = 1 .. (Len(file) + 1)
      /\ DOMAIN file = 1 .. Len(file)
      /\ \A i \in 1 .. Len(file) : file'[i] = file[i]
      /\ file'[Len(file) + 1] = ZeroPage
  <2>1. file \in Seq(Pages) /\ ZeroPage \in Pages
    BY ZeroPageOK DEF RInv, IInv, TypeOK
  <2>2. QED BY <1>1, <2>1, AppendProperties
<1>4. /\ ext'[t].offset = ext[t].offset /\ ext'[t].done = ext[t].done + 1
      /\ ext'[t].failed = FALSE
  BY <1>1 DEF RInv, IInv, TypeOK
<1>5. /\ ext[t].offset = hdrSize /\ ~ext[t].failed /\ Len(file) = hdrSize + ext[t].done
  BY <1>1, <1>2 DEF RInv, Shape, Grown, Growth
<1>6. Grown'
  <2>1. Growth(t)'
    <3>1. /\ ext'[t].done \in Nat /\ ext'[t].done <= PagesPerSegment
          /\ Len(file') = hdrSize + ext'[t].done
      BY <1>1, <1>2, <1>3, <1>4, <1>5
    <3>2. pc'[t] = "extend" /\ ext'[t].offset = hdrSize' /\ hdrSize' = hdrSize
      BY <1>1, <1>4, <1>5
    <3>3. QED BY <1>4, <3>1, <3>2 DEF Growth
  <2>2. Others(t) /\ InExtend(t)
    BY <1>1 DEF Others, InExtend, RInv, IInv, TypeOK
  <2>3. QED BY <2>1, <2>2, GrownSame
<1>7. Counted'
  <2>1. Len(file') <= DiskPages /\ hdrSize <= Len(file')
    BY <1>1, <1>2, <1>3
  <2>2. QED BY <1>1, <2>1 DEF RInv, Shape, Counted
<1>8. Fresh'
  <2>1. SUFFICES ASSUME NEW i \in DOMAIN file', i > hdrSize PROVE file'[i].numSlots = 0
    BY <1>1 DEF Fresh
  <2>2. CASE i \in 1 .. Len(file)
    BY <1>3, <2>1, <2>2 DEF RInv, Shape, Fresh
  <2>3. CASE i = Len(file) + 1
    BY <1>3, <2>3 DEF ZeroPage
  <2>4. QED BY <1>2, <1>3, <2>2, <2>3
<1>9. PlacementOK' /\ Quiet'
  BY <1>1 DEF RInv, Shape, PlacementOK, Quiet
<1>10. \A p \in 0 .. (hdrSize - 1) : file'[p + 1] = file[p + 1]
  BY <1>2, <1>3
<1>11. QED BY <1>1, <1>6, <1>7, <1>8, <1>9, <1>10, CountedSame, Stutters DEF Shape

\* A write fails on a full disk only.
LEMMA WriteFailsStore ==
  ASSUME Gentle, RInv, ExtendExclusive, NEW t \in Threads, WriteFails(t)
  PROVE  Shape' /\ Adds
<1>1. /\ pc[t] = "extend" /\ ext[t].done < PagesPerSegment /\ Len(file) >= DiskPages
      /\ pc' = pc /\ ret' = ret /\ UNCHANGED <<durable, process>>
      /\ ext' = [ext EXCEPT ![t] = [offset |-> @.offset, done |-> @.done + 1, failed |-> TRUE]]
  BY DEF WriteFails, Extending, Gentle
<1>2. /\ PagesPerSegment \in Nat \ {0} /\ DiskPages \in Nat /\ hdrSize \in Nat
      /\ Len(file) \in Nat /\ Len(file) <= DiskPages
      /\ ext[t].done \in Nat /\ ext[t].failed \in BOOLEAN
  BY Sizes DEF RInv, IInv, TypeOK
<1>3. Len(file) = DiskPages
  BY <1>1, <1>2
<1>4. /\ ext'[t].offset = ext[t].offset /\ ext'[t].done = ext[t].done + 1
      /\ ext'[t].failed = TRUE
  BY <1>1 DEF RInv, IInv, TypeOK
<1>5. Growth(t)' /\ Others(t)
  BY <1>1, <1>2, <1>3, <1>4 DEF Growth, Others, durable, RInv, IInv, TypeOK
<1>6. state = "up" /\ ret' = [u \in Threads |-> ret'[u]]
  BY <1>1, BusyIsUp DEF RInv, Shape, Quiet
<1>7. QED BY <1>1, <1>5, <1>6, ThreadShape, Stutters

LEMMA MapSegmentStore ==
  ASSUME Gentle, RInv, ExtendExclusive, NEW t \in Threads, MapSegment(t)
  PROVE  Shape' /\ Adds
<1>1. /\ pc[t] = "extend" /\ ext[t].done = PagesPerSegment /\ ~ext[t].failed
      /\ file' = [file EXCEPT ![ext[t].offset + 1] = WriteHeader(@)]
      /\ pc' = [pc EXCEPT ![t] = "publish"]
      /\ UNCHANGED <<hdrSize, state, body, ext, ret>>
  BY DEF MapSegment, Extended, Goto, process
<1>2. ext[t].offset = hdrSize /\ Len(file) = hdrSize + PagesPerSegment
  BY <1>1, Sizes DEF RInv, Shape, Grown, Growth
<1>3. /\ hdrSize \in Nat /\ PagesPerSegment \in Nat \ {0} /\ Len(file) \in Nat
      /\ DOMAIN file = 1 .. Len(file) /\ hdrSize + 1 \in DOMAIN file
      /\ file[hdrSize + 1] \in Pages
  BY <1>2, Sizes DEF RInv, IInv, TypeOK
<1>4. /\ DOMAIN file' = DOMAIN file /\ Len(file') = Len(file)
      /\ \A i \in DOMAIN file : i # hdrSize + 1 => file'[i] = file[i]
      /\ file'[hdrSize + 1].numSlots = 0
  <2>1. file' = [file EXCEPT ![hdrSize + 1] = WriteHeader(file[hdrSize + 1])]
    BY <1>1, <1>2
  <2>2. WriteHeader(file[hdrSize + 1]).numSlots = 0
    BY <1>3 DEF WriteHeader, Pages
  <2>3. file \in Seq(Pages)
    BY DEF RInv, IInv, TypeOK
  <2>4. QED BY <1>3, <2>1, <2>2, <2>3
<1>5. Grown'
  <2>1. pc'[t] = "publish" /\ Others(t) /\ InExtend(t)
    BY <1>1 DEF Others, InExtend, RInv, IInv, TypeOK
  <2>2. Growth(t)'
    BY <1>1, <1>2, <1>4, <2>1 DEF Growth
  <2>3. QED BY <2>1, <2>2, GrownSame
<1>6. Counted'
  BY <1>1, <1>4 DEF RInv, Shape, Counted
<1>7. Fresh'
  BY <1>1, <1>4 DEF RInv, Shape, Fresh
<1>8. PlacementOK' /\ Quiet'
  <2>1. PlacementOK'
    BY <1>1 DEF RInv, Shape, PlacementOK
  <2>2. state = "up"
    BY <1>1, BusyIsUp
  <2>3. QED BY <1>1, <2>1, <2>2 DEF RInv, Shape, Quiet
<1>9. \A p \in 0 .. (hdrSize - 1) : file'[p + 1] = file[p + 1]
  <2>1. \A p \in 0 .. (hdrSize - 1) : p + 1 \in DOMAIN file /\ p + 1 # hdrSize + 1
    BY <1>3, Sizes
  <2>2. QED BY <1>4, <2>1
<1>10. QED BY <1>1, <1>5, <1>6, <1>7, <1>8, <1>9, CountedSame, Stutters DEF Shape

LEMMA ExtendFailsStore ==
  ASSUME Gentle, RInv, ExtendExclusive, NEW t \in Threads, ExtendFails(t)
  PROVE  Shape' /\ Adds
<1>1. /\ pc[t] = "extend" /\ ext[t].done = PagesPerSegment
      /\ ext[t].failed \/ ~InFile(t)
      /\ Return(t, Failed) /\ UNCHANGED <<durable, process>>
  BY DEF ExtendFails, Extended, Gentle
<1>2. ext[t].failed
  <2>1. SUFFICES ASSUME ~ext[t].failed PROVE InFile(t)
    BY <1>1
  <2>2. ext[t].offset = hdrSize /\ Len(file) = hdrSize + PagesPerSegment
    BY <1>1, <2>1, Sizes DEF RInv, Shape, Grown, Growth
  <2>3. QED BY <2>2, Sizes DEF InFile
<1>3. state = "up"
  BY <1>1, BusyIsUp
<1>4. Shape' /\ Store!Refuse(t)
  BY <1>1, <1>3, ReturnShape DEF Store!Refuse, Failed
<1>5. QED BY <1>4 DEF Adds

\* The pages that the header counts now have no slots: no record appears.
LEMMA PublishStore ==
  ASSUME Gentle, RInv, ExtendExclusive, NEW t \in Threads, Publish(t)
  PROVE  Shape' /\ Adds
<1>1. /\ pc[t] = "publish" /\ body' = Append(body, ext[t].offset)
      /\ hdrSize' = hdrSize + PagesPerSegment /\ pc' = [pc EXCEPT ![t] = "unlock1"]
      /\ UNCHANGED <<file, state, ret>>
  BY DEF Publish, Goto
<1>2. ext[t].offset = hdrSize /\ Len(file) = hdrSize + PagesPerSegment
  BY <1>1 DEF RInv, Shape, Grown, Growth
<1>3. /\ hdrSize \in Nat /\ PagesPerSegment \in Nat \ {0} /\ DOMAIN file = 1 .. Len(file)
      /\ body \in Seq(Nat) /\ Len(body) \in Nat /\ Len(file) <= DiskPages
      /\ hdrSize' \in Nat /\ hdrSize <= hdrSize'
  BY <1>1, Sizes DEF RInv, IInv, TypeOK
<1>4. state = "up"
  BY <1>1, BusyIsUp
<1>5. PICK k \in Nat : hdrSize = k * PagesPerSegment
  BY DEF RInv, Shape, Counted
<1>6. hdrSize' = (k + 1) * PagesPerSegment /\ k + 1 \in Nat
  BY <1>1, <1>3, <1>5
<1>7. Counted'
  <2>1. \E m \in Nat : hdrSize' = m * PagesPerSegment
    BY <1>6, Zenon
  <2>2. hdrSize' <= Len(file') /\ Len(file') <= DiskPages
    BY <1>1, <1>2, <1>3
  <2>3. QED BY <2>1, <2>2 DEF Counted
<1>8. Fresh'
  BY <1>1, <1>2, <1>3 DEF Fresh
<1>9. Grown' /\ Quiet'
  <2>1. pc'[t] = "unlock1" /\ Others(t) /\ InExtend(t)
    BY <1>1 DEF Publish, Others, InExtend, RInv, IInv, TypeOK
  <2>2. Growth(t)'
    BY <1>1, <1>2, <2>1 DEF Growth
  <2>3. QED BY <1>1, <1>4, <2>1, <2>2, GrownSame DEF RInv, Shape, Quiet
<1>10. PlacementOK'
  <2>1. Len(body) * PagesPerSegment = hdrSize
    BY <1>4 DEF RInv, Shape, PlacementOK
  <2>2. /\ Len(body') = Len(body) + 1 /\ DOMAIN body' = 1 .. (Len(body) + 1)
        /\ \A i \in 1 .. Len(body) : body'[i] = body[i]
        /\ body'[Len(body) + 1] = hdrSize
    BY <1>1, <1>2, <1>3, AppendProperties
  <2>3. Len(body') * PagesPerSegment = hdrSize'
    <3>1. (Len(body) + 1) * PagesPerSegment = Len(body) * PagesPerSegment + PagesPerSegment
      BY <1>3
    <3>2. QED BY <1>1, <2>1, <2>2, <3>1
  <2>4. ASSUME NEW i \in 1 .. (Len(body) + 1) PROVE body'[i] = (i - 1) * PagesPerSegment
    <3>1. CASE i \in 1 .. Len(body)
      <4>1. \A m \in DOMAIN body : body[m] = (m - 1) * PagesPerSegment
        BY <1>4 DEF RInv, Shape, PlacementOK
      <4>2. i \in DOMAIN body /\ body'[i] = body[i]
        BY <1>3, <2>2, <3>1
      <4>3. QED BY <4>1, <4>2
    <3>2. CASE i = Len(body) + 1
      <4>1. i - 1 = Len(body)
        BY <1>3, <3>2
      <4>2. QED BY <2>1, <2>2, <3>2, <4>1
    <3>3. QED BY <1>3, <3>1, <3>2
  <2>5. QED BY <2>2, <2>3, <2>4 DEF PlacementOK
<1>11. StoredRecords' = StoredRecords
  <2>1. \A p \in hdrSize .. (hdrSize' - 1) : file[p + 1].numSlots = 0
    <3>1. \A p \in hdrSize .. (hdrSize' - 1) : p + 1 \in DOMAIN file /\ p + 1 > hdrSize
      BY <1>1, <1>2, <1>3
    <3>2. QED BY <3>1 DEF RInv, Shape, Fresh
  <2>2. RecsOf(file, hdrSize') = RecsOf(file, hdrSize)
    BY <1>3, <2>1, RecsGrow
  <2>3. QED BY <1>1, <2>2, StoredIs
<1>12. QED BY <1>1, <1>7, <1>8, <1>9, <1>10, <1>11, Stutters DEF Shape

--------------------------------------------------------------------------------
\* find and remove.
LEMMA Asked ==
  ASSUME NEW r \in AskedRids
  PROVE  r[1] \in Nat /\ r[2] \in Nat /\ r = <<r[1], r[2]>>
  BY FileAssumption, PageAssumption DEF SlotIds, HeaderSize

\* What is stored under an identifier.
LEMMA StoredAt ==
  ASSUME RInv, NEW p, NEW j
  PROVE  /\ DOMAIN StoredRecords = StoredRids
         /\ <<p, j>> \in StoredRids <=> p \in 0 .. (hdrSize - 1) /\ j \in Slots(file[p + 1])
         /\ <<p, j>> \in StoredRids => StoredRecords[<<p, j>>] = Kept(file[p + 1], j)
<1>1. DOMAIN StoredRecords = StoredRids
  BY DEF StoredRecords
<1>2. <<p, j>> \in StoredRids <=> p \in 0 .. (hdrSize - 1) /\ j \in Slots(file[p + 1])
  BY StoredIs, RidsOfIs
<1>3. <<p, j>> \in StoredRids => StoredRecords[<<p, j>>] = Kept(file[p + 1], j)
  BY StoredIs DEF RecsOf
<1>4. QED BY <1>1, <1>2, <1>3

LEMMA FindStore ==
  ASSUME Gentle, RInv, ExtendExclusive, NEW t \in Threads, NEW r \in AskedRids, Find(t, r)
  PROVE  Shape' /\ Adds
<1> DEFINE p  == r[1]
           j  == r[2]
           pg == file[p + 1]
<1>1. PICK reply \in FindReplies(r) : Return(t, reply)
  BY DEF Find
<1>2. state = "up" /\ UNCHANGED <<durable, process>>
  BY DEF Find, CanCall
<1>3. Shape' /\ StoredRecords' = StoredRecords /\ Store!Answer(t, reply)
  BY <1>1, <1>2, ReturnShape
<1>4. p \in Nat /\ j \in Nat /\ r = <<p, j>>
  BY Asked
<1>5. NumPages = hdrSize /\ hdrSize \in Nat
  BY <1>2, Sizes, WhereIs
<1>6. /\ DOMAIN StoredRecords = StoredRids
      /\ r \in StoredRids <=> p \in 0 .. (hdrSize - 1) /\ j \in Slots(pg)
      /\ r \in StoredRids => StoredRecords[r] = Kept(pg, j)
  BY <1>4, StoredAt
<1>7. \/ reply \in {Store!NotFound(r), Store!Thrown(r)} /\ r \notin StoredRids
      \/ \E d \in Docs : reply = Store!Found(r, d) /\ (r \in StoredRids => StoredRecords[r] = d)
  <2>1. CASE ~(p < NumPages)
    <3>1. reply \in {Store!NotFound(r), Store!Thrown(r)}
      BY <1>1, <1>4, <1>5, <2>1 DEF FindReplies, NullPage, WildPage
    <3>2. QED BY <1>5, <1>6, <2>1, <3>1
  <2>2. CASE p < NumPages
    <3>1. p \in 0 .. (hdrSize - 1) /\ PageOf(r) = pg /\ InPage(r)
      BY <1>2, <1>4, <2>2, WhereIs DEF PageOf, InPage
    <3>2. pg \in Pages /\ PageOK(pg)
      BY <3>1, Sizes DEF RInv, IInv, TypeOK, LayoutOK
    <3>3. reply \in SlotReplies(r)
      BY <1>1, <1>4, <1>5, <2>2 DEF FindReplies, NullPage, WildPage
    <3>4. CASE j \in Slots(pg)
      <4>1. SlotInRange(pg, j) /\ RawSlot(pg, j) = pg.slots[j]
        BY <3>2, <3>4, RawSlotIn DEF SlotInRange, Slots, Pages
      <4>2. ~FollowsEmpty(r)
        BY <3>1, <3>3, <4>1 DEF SlotReplies
      <4>3. j \in Live(pg)
        BY <3>1, <3>4, <4>1, <4>2 DEF FollowsEmpty, Live
      <4>4. PICK h \in pg.heap : /\ ~h.dropped /\ RecordsAt(pg, pg.slots[j]) = {h}
                                 /\ DocIn(pg, j) = h.doc /\ h.doc \in Docs
        BY <3>2, <4>3, RecordOf
      <4>5. reply = Store!Found(r, h.doc)
        BY <3>1, <3>3, <4>1, <4>2, <4>4 DEF SlotReplies
      <4>6. Kept(pg, j) = h.doc
        BY <3>2, <3>4, <4>3, <4>4, HoldsLive DEF Kept
      <4>7. QED BY <1>6, <4>4, <4>5, <4>6
    <3>5. CASE j \notin Slots(pg)
      <4>1. \/ reply \in {Store!NotFound(r), Store!Thrown(r)}
            \/ \E h \in pg.heap : reply = Store!Found(r, h.doc)
        BY <3>1, <3>3 DEF SlotReplies, RecordsAt
      <4>2. \A h \in pg.heap : h.doc \in Docs
        BY <3>2 DEF Pages, Records
      <4>3. QED BY <1>6, <3>5, <4>1, <4>2
    <3>6. QED BY <3>4, <3>5
  <2>3. QED BY <2>1, <2>2
<1> HIDE DEF p, j, pg
<1>8. Store!Find(t, r)
  BY <1>3, <1>6, <1>7 DEF Store!Find
<1>9. QED BY <1>3, <1>8 DEF Adds

LEMMA RemoveRefusedStore ==
  ASSUME Gentle, RInv, ExtendExclusive, NEW t \in Threads, NEW r \in AskedRids, RemoveRefused(t, r)
  PROVE  Shape' /\ Adds
<1>1. /\ state = "up"
      /\ Return(t, Failed) /\ UNCHANGED <<durable, process>>
  BY DEF RemoveRefused, CanRemove, CanCall
<1>2. Shape' /\ Store!Refuse(t)
  BY <1>1, ReturnShape DEF Store!Refuse, Failed
<1>3. QED BY <1>2 DEF Adds

LEMMA RemoveRecordStore ==
  ASSUME Gentle, RInv, ExtendExclusive, NEW t \in Threads, NEW r \in AskedRids, RemoveRecord(t, r)
  PROVE  Shape' /\ Store!Remove(t)
<1>1. PICK p \in Nat, j \in Nat : r = <<p, j>>
  BY Asked
<1> DEFINE old == file[p + 1]
           new == DropRecord(old, j)
<1>2. state = "up" /\ p < NumPages
  BY <1>1 DEF RemoveRecord, CanRemove, CanCall, InPage
<1>3. p \in 0 .. (hdrSize - 1) /\ Where(p) = p + 1
  BY <1>1, <1>2, WhereIs
<1>4. p + 1 \in DOMAIN file /\ old \in Pages /\ PageOK(old)
  BY <1>3, Sizes DEF RInv, IInv, TypeOK, LayoutOK
<1>5. /\ SlotInRange(old, j) /\ RawSlot(old, j) # SlotEmpty /\ j # old.numSlots
      /\ file' = [file EXCEPT ![p + 1] = new]
      /\ UNCHANGED <<hdrSize, state, body>>
  <2>1. /\ CanRemove(t, r) /\ SlotInRange(old, j) /\ RawSlot(old, j) # SlotEmpty
        /\ file' = [file EXCEPT ![p + 1] = new]
        /\ UNCHANGED <<hdrSize, state, body>> /\ InPage(r)
    BY <1>1, <1>3 DEF RemoveRecord, PageOf
  <2>2. ~PastLast(r)
    BY <2>1 DEF CanRemove, CanCall, Gentle
  <2>3. j # old.numSlots
    BY <1>1, <1>3, <2>1, <2>2 DEF PastLast, PageOf
  <2>4. QED BY <2>1, <2>3
<1>6. PICK reply \in {Store!Done, Failed} : Return(t, reply)
  BY DEF RemoveRecord
<1>7. j \in Slots(old)
  <2>1. j <= old.numSlots /\ old.numSlots \in Nat
    BY <1>4, <1>5 DEF SlotInRange, Pages
  <2>2. j # old.numSlots
    BY <1>5
  <2> HIDE DEF old
  <2>3. QED BY <1>1, <2>1, <2>2 DEF Slots
<1>8. j \in Live(old)
  BY <1>4, <1>5, <1>7, RawSlotIn DEF Live
<1>9. /\ Slots(new) = Slots(old) /\ Kept(new, j) = "removed"
      /\ \A k \in Slots(old) : k # j => Kept(new, k) = Kept(old, k)
  BY <1>4, <1>8, DropRecordKeeps
<1>10. Kept(old, j) # "removed"
  <2>1. DocIn(old, j) \in Docs
    BY <1>4, <1>8, RecordOf
  <2>2. QED BY <1>4, <1>7, <1>8, <2>1, HoldsLive DEF Kept, Gentle
<1> HIDE DEF new
<1>11. Shape' /\ Store!Answer(t, reply)
  <2> HIDE DEF old
  <2>1. p + 1 <= hdrSize
    BY <1>3, Sizes
  <2>2. QED BY <1>2, <1>4, <1>5, <1>6, <2>1, PageShape
<1>12. /\ StoredRids' = StoredRids /\ StoredRecords'[r] = "removed"
       /\ \A x \in StoredRids : x # r => StoredRecords'[x] = StoredRecords[x]
  <2>1. /\ RidsOf(file', hdrSize) = RidsOf(file, hdrSize) \cup {<<p, j>>}
        /\ RecsOf(file', hdrSize)[<<p, j>>] = Kept(file'[p + 1], j)
        /\ \A x \in RidsOf(file, hdrSize) : x # <<p, j>> =>
             RecsOf(file', hdrSize)[x] = RecsOf(file, hdrSize)[x]
    <3>1. OneSlot(file, file', hdrSize, p, j)
      <4>1. file'[p + 1] = new /\ \A q \in 0 .. (hdrSize - 1) : q # p => file'[q + 1] = file[q + 1]
        BY <1>3, <1>4, <1>5, Sizes
      <4>2. QED BY <1>7, <1>9, <4>1 DEF OneSlot
    <3>2. hdrSize \in Nat
      BY Sizes
    <3>3. p \in 0 .. (hdrSize - 1)
      BY <1>3
    <3> HIDE DEF old
    <3>4. OneRecord(file, file', hdrSize, p, j)
      BY <3>1, <3>2, <3>3, RecsChange
    <3>5. QED BY <3>4 DEF OneRecord
  <2>2. file'[p + 1] = new /\ hdrSize' = hdrSize
    BY <1>4, <1>5
  <2>3. r \in StoredRids
    BY <1>1, <1>3, <1>7, StoredAt
  <2> HIDE DEF old
  <2>4. QED BY <1>1, <1>9, <2>1, <2>2, <2>3, StoredIs
<1>13. r \in StoredRids /\ StoredRecords[r] # Store!Removed /\ DOMAIN StoredRecords = StoredRids
  BY <1>1, <1>3, <1>7, <1>10, StoredAt DEF Store!Removed
<1>14. StoredRecords' = [StoredRecords EXCEPT ![r] = Store!Removed]
  <2>1. /\ StoredRecords' = [x \in StoredRids' |-> StoredRecords'[x]]
        /\ StoredRecords = [x \in StoredRids |-> StoredRecords[x]]
    BY DEF StoredRecords
  <2> HIDE DEF old
  <2>2. QED BY <1>12, <1>13, <2>1 DEF Store!Removed
<1> HIDE DEF old
<1>15. Store!Remove(t)
  <2>1. reply \in {Store!Done, Store!Refused}
    BY <1>6 DEF Failed
  <2>2. QED BY <1>11, <1>13, <1>14, <2>1 DEF Store!Remove
<1>16. QED BY <1>11, <1>15

--------------------------------------------------------------------------------
\* Every step keeps the shape of the file, and is a step of the store or none.
LEMMA StepStore ==
  ASSUME Gentle, RInv, ExtendExclusive, SizeIsSure,
         NEW t \in Threads, InsertStep(t) \/ CallStep(t)
  PROVE  Shape' /\ (Adds \/ ("remove" \in Calls /\ Store!Remove(t)))
<1>1. CASE InsertStep(t)
  BY <1>1, WaitStepsStore, InsertInPageStore, WritePageStore, WriteFailsStore,
     MapSegmentStore, ExtendFailsStore, PublishStore DEF InsertStep
<1>2. CASE CallStep(t)
  <2>1. ASSUME NEW r \in AskedRids, FindCrash(t, r) \/ RemoveCrash(t, r)
        PROVE  Shape' /\ Adds
    BY <2>1, StopStore DEF FindCrash, RemoveCrash
  <2>2. ASSUME NEW r \in AskedRids, RemoveRecord(t, r)
        PROVE  Shape' /\ "remove" \in Calls /\ Store!Remove(t)
    <3>1. "remove" \in Calls
      BY <2>2 DEF RemoveRecord, CanRemove, CanCall, Gentle
    <3>2. QED BY <2>2, <3>1, RemoveRecordStore
  <2>3. QED
    BY <1>2, <2>1, <2>2, CallInsertStore, FindStore, RemoveRefusedStore DEF CallStep
<1>3. QED BY <1>1, <1>2

LEMMA InitStore == ASSUME Init PROVE RInv /\ Steady /\ Told /\ Store!Init
<1>1. IInv
  BY InitIInv
<1>2. hdrSize = 0 /\ file = << >> /\ Len(file) = 0 /\ DOMAIN file = {}
  BY DEF Init
<1>3. Counted
  <2>1. 0 = 0 * PagesPerSegment /\ DiskPages >= 0
    BY FileAssumption
  <2>2. \E k \in Nat : hdrSize = k * PagesPerSegment
    BY <1>2, <2>1
  <2>3. QED BY <1>2, <2>1, <2>2 DEF Counted
<1>4. Fresh /\ Grown /\ PlacementOK /\ Quiet
  BY <1>2 DEF Init, Fresh, Grown, Growth, PlacementOK, Quiet
<1>5. Told
  BY DEF Init, Told, AckDurable, Acked, NoReply, Store!NoReply
<1>6. StoredRids = {}
  BY <1>2 DEF StoredRids
<1>7. StoredRecords = << >>
  BY <1>6 DEF StoredRecords
<1>8. Store!Init
  BY <1>7 DEF Store!Init, Init, NoReply
<1>9. QED BY <1>1, <1>2, <1>3, <1>4, <1>5, <1>8 DEF RInv, Shape, Steady, Settled

\* A step of the store that removes something is taken by a thread that may.
Removes == "remove" \in Calls /\ \E t \in Threads : Store!Remove(t)

LEMMA NextStore ==
  ASSUME Gentle, RInv, ExtendExclusive, SizeIsSure, [Next]_vars
  PROVE  RInv' /\ (Adds \/ Removes)
<1>1. IInv'
  <2>1. "remove_past" \notin Calls /\ IInv
    BY DEF Gentle, RInv
  <2>2. QED BY <2>1, NextOK
<1>2. Shape' /\ (Adds \/ Removes)
  <2>1. CASE Next
    BY <2>1, InitNewStore, LoadDataStore, StopStore, StepStore DEF Next, Removes
  <2>2. CASE UNCHANGED vars
    <3>1. UNCHANGED <<file, hdrSize, state, body, pc, ext, ret>>
      BY <2>2 DEF vars, durable, process, threads
    <3>2. Shape'
      BY <3>1 DEF RInv, Shape, Counted, Fresh, Grown, Growth, PlacementOK, Quiet
    <3>3. QED BY <3>1, <3>2, CountedSame, Stutters
  <2>3. QED BY <2>1, <2>2
<1>3. QED BY <1>1, <1>2 DEF RInv

--------------------------------------------------------------------------------
(***************************************************************************)
(* The file is settled whenever nobody extends it.                         *)
(***************************************************************************)
Extends(t) == pc[t] \in {"extend", "publish"}

\* What a thread inside _extendSegment does next.
LEMMA ExtendingStep ==
  ASSUME NEW t \in Threads, Extends(t), InsertStep(t) \/ CallStep(t)
  PROVE  WritePage(t) \/ WriteFails(t) \/ MapSegment(t) \/ ExtendFails(t) \/ Publish(t)
<1>1. ~CallStep(t)
  BY DEF CallStep, CallInsert, Find, FindCrash, RemoveRefused, RemoveRecord, RemoveCrash,
         CanRemove, CanCall, Extends
<1>2. ~InsertNoPage(t) /\ ~InsertInPage(t)
  BY DEF InsertNoPage, InsertInPage, Trying, Extends
<1>3. ~TryExtend(t) /\ ~ExtendBusy(t) /\ ~ExtendWait(t) /\ ~GetSize(t) /\ ~Unlock1(t)
      /\ ~Unlock2(t)
  BY DEF TryExtend, ExtendBusy, ExtendWait, GetSize, Unlock1, Unlock2, Extends
<1>4. QED BY <1>1, <1>2, <1>3 DEF InsertStep

\* What the others do leaves the number of pages as it is.
LEMMA OtherStep ==
  ASSUME RInv, NEW t \in Threads, ~Extends(t), InsertStep(t) \/ CallStep(t)
  PROVE  /\ hdrSize' = hdrSize /\ Len(file') = Len(file)
         /\ Others(t) \/ ProcessGone
<1>1. ASSUME NEW reply, Return(t, reply) PROVE Others(t)
  BY <1>1, Returned
<1>2. ASSUME NEW label, Goto(t, label), ext' = ext \/ GetSize(t) PROVE Others(t)
  BY <1>2 DEF Goto, GetSize, Others, RInv, IInv, TypeOK
<1>3. ASSUME NEW i, NEW pg, file' = [file EXCEPT ![i] = pg] PROVE Len(file') = Len(file)
  BY <1>3, PageLen DEF RInv
<1>4. CASE \/ InsertNoPage(t) \/ TryExtend(t) \/ ExtendBusy(t) \/ ExtendWait(t)
           \/ GetSize(t) \/ Unlock1(t) \/ Unlock2(t)
  <2>1. UNCHANGED durable /\ (ext' = ext \/ GetSize(t)) /\ \E label : Goto(t, label)
    BY <1>4 DEF InsertNoPage, TryExtend, ExtendBusy, ExtendWait, GetSize, Unlock1, Unlock2
  <2>2. QED BY <1>2, <2>1 DEF durable
<1>5. CASE InsertInPage(t)
  <2>1. PICK e \in FirstFit(arg[t]) :
          InsertStore(t, e.page) \/ InsertRefused(t, e.page) \/ InsertCrash(t, e.page)
    BY <1>5 DEF InsertInPage
  <2>2. CASE InsertStore(t, e.page)
    BY <1>1, <1>3, <2>2 DEF InsertStore
  <2>3. CASE InsertRefused(t, e.page)
    <3>1. file' = file \/ \E i, pg : file' = [file EXCEPT ![i] = pg]
      BY <2>3 DEF InsertRefused
    <3>2. QED BY <1>1, <1>3, <2>3, <3>1 DEF InsertRefused
  <2>4. CASE InsertCrash(t, e.page)
    BY <2>4 DEF InsertCrash, Crash, durable
  <2>5. QED BY <2>1, <2>2, <2>3, <2>4
<1>6. CASE \/ WritePage(t) \/ WriteFails(t) \/ MapSegment(t) \/ ExtendFails(t) \/ Publish(t)
  BY <1>6 DEF WritePage, WriteFails, MapSegment, ExtendFails, Publish, Extending, Extended, Extends
<1>7. CASE CallStep(t)
  <2>1. ASSUME NEW d \in Docs, CallInsert(t, d) PROVE UNCHANGED durable /\ Others(t)
    BY <1>1, <1>2, <2>1 DEF CallInsert
  <2>2. ASSUME NEW r \in AskedRids, Find(t, r) \/ RemoveRefused(t, r)
        PROVE  UNCHANGED durable /\ Others(t)
    BY <1>1, <2>2 DEF Find, RemoveRefused
  <2>3. ASSUME NEW r \in AskedRids, FindCrash(t, r) \/ RemoveCrash(t, r)
        PROVE  UNCHANGED durable /\ ProcessGone
    BY <2>3 DEF FindCrash, RemoveCrash, Crash
  <2>4. ASSUME NEW r \in AskedRids, RemoveRecord(t, r)
        PROVE  /\ hdrSize' = hdrSize /\ Len(file') = Len(file) /\ Others(t)
    BY <1>1, <1>3, <2>4 DEF RemoveRecord
  <2>5. QED BY <1>7, <2>1, <2>2, <2>3, <2>4 DEF CallStep, durable
<1>8. QED BY <1>4, <1>5, <1>6, <1>7 DEF InsertStep

\* The extension that a full disk broke off leaves the disk full, the one that
\* succeeds has counted its pages.
LEMMA ExtensionEnds ==
  ASSUME Gentle, RInv, ExtendExclusive, NEW t \in Threads, Extends(t),
         InsertStep(t) \/ CallStep(t)
  PROVE  Growing' \/ Settled'
<1>1. CASE WritePage(t) \/ WriteFails(t) \/ MapSegment(t)
  <2>1. Extends(t)'
    BY <1>1 DEF WritePage, WriteFails, MapSegment, Goto, Extends, RInv, IInv, TypeOK
  <2>2. QED BY <2>1 DEF Growing, Extends
<1>2. CASE ExtendFails(t)
  <2>1. /\ pc[t] = "extend" /\ ext[t].done = PagesPerSegment
        /\ ext[t].failed \/ ~InFile(t)
    BY <1>2 DEF ExtendFails, Extended, Gentle
  <2>2. CASE Len(file) = DiskPages
    BY <1>2, <2>2 DEF ExtendFails, Settled, durable
  <2>3. CASE Len(file) # DiskPages
    <3>1. ~ext[t].failed /\ ext[t].offset = hdrSize /\ Len(file) = hdrSize + PagesPerSegment
      BY <2>1, <2>3 DEF RInv, Shape, Grown, Growth
    <3>2. InFile(t)
      BY <3>1, Sizes DEF InFile
    <3>3. QED BY <2>1, <3>1, <3>2
  <2>4. QED BY <2>2, <2>3
<1>3. CASE Publish(t)
  BY <1>3 DEF Publish, Settled, RInv, Shape, Grown, Growth
<1>4. QED BY <1>1, <1>2, <1>3, ExtendingStep

\* Between extensions nothing changes, if the process has not died in one.
LEMMA NextSteady ==
  ASSUME Gentle, RInv, Steady, ExtendExclusive, [SparesExtension]_vars, [Next]_vars
  PROVE  Steady'
<1>1. SUFFICES ASSUME ~Growing' PROVE Settled'
  BY DEF Steady
<1>2. CASE UNCHANGED <<file, hdrSize, pc>>
  BY <1>1, <1>2 DEF Steady, Settled, Growing
<1>3. CASE Kill
  <2>1. ~Growing
    BY <1>3 DEF SparesExtension, Kill, ProcessGone, vars, process
  <2>2. QED BY <1>3, <2>1 DEF Kill, Steady, Settled, durable
<1>4. ASSUME NEW t \in Threads, InsertStep(t) \/ CallStep(t), vars' # vars PROVE Settled'
  <2>1. CASE Extends(t)
    BY <1>1, <1>4, <2>1, ExtensionEnds
  <2>2. CASE ~Extends(t)
    <3>1. hdrSize' = hdrSize /\ Len(file') = Len(file) /\ (Others(t) \/ ProcessGone)
      BY <1>4, <2>2, OtherStep
    <3>2. ~Growing
      <4>1. CASE Others(t)
        BY <1>1, <2>2, <4>1 DEF Growing, Extends, Others
      <4>2. CASE ProcessGone
        BY <1>4, <4>2 DEF SparesExtension, ProcessGone
      <4>3. QED BY <3>1, <4>1, <4>2
    <3>3. QED BY <3>1, <3>2 DEF Steady, Settled
  <2>3. QED BY <2>1, <2>2
<1>5. InitNew \/ LoadData \/ UNCHANGED vars => UNCHANGED <<file, hdrSize, pc>>
  BY DEF InitNew, LoadData, vars, durable, threads
<1>6. QED BY <1>2, <1>3, <1>4, <1>5 DEF Next

LEMMA SteadyIsSure == ASSUME Steady, ExtendExclusive PROVE SizeIsSure
<1>1. SUFFICES ASSUME NEW t \in Threads, pc[t] = "getsize" PROVE ~Growing
  BY DEF Steady, SizeIsSure
<1>2. QED BY <1>1 DEF Growing, ExtendExclusive, InExtend

--------------------------------------------------------------------------------
\* A thread that is told of a removed record has forgotten what it was told when
\* it was inserted, if there is no other thread, or nobody removes.
Trusted == (\E t : Threads = {t}) \/ "remove" \notin Calls

\* A store that adds records keeps those there are.
LEMMA AddsKeeps ==
  ASSUME Adds, NEW r \in StoredRids
  PROVE  r \in StoredRids' /\ StoredRecords'[r] = StoredRecords[r]
<1>1. DOMAIN StoredRecords = StoredRids /\ DOMAIN StoredRecords' = StoredRids'
  BY DEF StoredRecords
<1>2. CASE StoredRecords' = StoredRecords
  BY <1>1, <1>2
<1>3. ASSUME NEW t \in Threads, NEW d \in Docs, Store!Insert(t, d)
      PROVE  r \in StoredRids' /\ StoredRecords'[r] = StoredRecords[r]
  <2>1. PICK n \in Rids : /\ n \notin StoredRids
                          /\ StoredRecords' = [x \in StoredRids \cup {n} |->
                                                 IF x = n THEN d ELSE StoredRecords[x]]
    BY <1>1, <1>3 DEF Store!Insert
  <2>2. QED BY <1>1, <2>1
<1>4. QED
  BY <1>2, <1>3 DEF Adds, Store!vars, Store!Stop, Store!Call, Store!Refuse, Store!Find

\* The reply of a call: an acknowledgement is that of the insert.
LEMMA NewAck ==
  ASSUME RInv, NEW t \in Threads, Acked(t)',
         \/ Store!Call(t) \/ Store!Refuse(t) \/ Store!Remove(t)
         \/ \E r \in AskedRids : Store!Find(t, r)
         \/ \E d \in Docs : Store!Insert(t, d)
  PROVE  /\ ret'[t].rid \in StoredRids' /\ ret'[t].doc \in Docs
         /\ StoredRecords'[ret'[t].rid] = ret'[t].doc
<1>1. \A reply : Store!Answer(t, reply) => ret'[t] = reply
  BY DEF Store!Answer, RInv, Shape, Quiet
<1>2. ret'[t].status = "inserted"
  BY DEF Acked
<1>3. CASE Store!Call(t) \/ Store!Refuse(t) \/ Store!Remove(t)
  <2>1. ret'[t] \in {Store!NoReply, Store!Refused, Store!Done}
    BY <1>1, <1>3 DEF Store!Call, Store!Refuse, Store!Remove
  <2>2. QED BY <1>2, <2>1 DEF Store!NoReply, Store!Refused, Store!Done
<1>4. ASSUME NEW r \in AskedRids, Store!Find(t, r) PROVE FALSE
  <2>1. \/ \E d \in Docs : ret'[t] = Store!Found(r, d)
        \/ ret'[t] = Store!NotFound(r) \/ ret'[t] = Store!Thrown(r)
    BY <1>1, <1>4 DEF Store!Find
  <2>2. ASSUME NEW d \in Docs, ret'[t] = Store!Found(r, d) PROVE FALSE
    <3>1. ret'[t].status = "found"
      BY <2>2 DEF Store!Found
    <3>2. QED BY <1>2, <3>1
  <2>3. CASE ret'[t] = Store!NotFound(r)
    <3>1. ret'[t].status = "not_found"
      BY <2>3 DEF Store!NotFound
    <3>2. QED BY <1>2, <3>1
  <2>4. CASE ret'[t] = Store!Thrown(r)
    <3>1. ret'[t].status = "exception"
      BY <2>4 DEF Store!Thrown
    <3>2. QED BY <1>2, <3>1
  <2>5. QED BY <2>1, <2>2, <2>3, <2>4
<1>5. ASSUME NEW d \in Docs, Store!Insert(t, d)
      PROVE  /\ ret'[t].rid \in StoredRids' /\ ret'[t].doc \in Docs
             /\ StoredRecords'[ret'[t].rid] = ret'[t].doc
  <2>1. PICK r \in Rids :
          /\ Store!Answer(t, Store!Inserted(r, d))
          /\ StoredRecords' = [x \in DOMAIN StoredRecords \cup {r} |->
                                 IF x = r THEN d ELSE StoredRecords[x]]
    BY <1>5 DEF Store!Insert
  <2>2. ret'[t].rid = r /\ ret'[t].doc = d
    BY <1>1, <2>1 DEF Store!Inserted
  <2>3. DOMAIN StoredRecords' = StoredRids'
    BY DEF StoredRecords
  <2>4. QED BY <2>1, <2>2, <2>3
<1>6. QED BY <1>3, <1>4, <1>5

LEMMA AckKept ==
  ASSUME Trusted, RInv, Told, Adds \/ Removes
  PROVE  Told'
<1>1. SUFFICES ASSUME NEW u \in Threads, Acked(u)'
               PROVE  /\ ret'[u].rid \in StoredRids' /\ ret'[u].doc \in Docs
                      /\ StoredRecords'[ret'[u].rid] = ret'[u].doc
  BY DEF Told, AckDurable
<1>2. CASE ret'[u] = ret[u] /\ Adds
  <2>1. Acked(u)
    BY <1>1, <1>2 DEF Acked
  <2>2. /\ ret[u].rid \in StoredRids /\ ret[u].doc \in Docs
        /\ StoredRecords[ret[u].rid] = ret[u].doc
    BY <2>1 DEF Told, AckDurable
  <2>3. QED BY <1>2, <2>2, AddsKeeps
<1>3. CASE Store!Stop
  <2>1. ret'[u].status = "none"
    BY <1>3 DEF Store!Stop, Store!NoReply
  <2>2. QED BY <1>1, <2>1 DEF Acked
<1>4. ASSUME NEW t \in Threads,
             \/ Store!Call(t) \/ Store!Refuse(t)
             \/ \E r \in AskedRids : Store!Find(t, r)
             \/ \E d \in Docs : Store!Insert(t, d)
      PROVE  /\ ret'[u].rid \in StoredRids' /\ ret'[u].doc \in Docs
             /\ StoredRecords'[ret'[u].rid] = ret'[u].doc
  <2>1. CASE t = u
    BY <1>1, <1>4, <2>1, NewAck
  <2>2. CASE t # u
    <3>1. \E reply : Store!Answer(t, reply)
      BY <1>4 DEF Store!Call, Store!Refuse, Store!Find, Store!Insert
    <3>2. ret'[u] = ret[u]
      BY <2>2, <3>1 DEF Store!Answer, RInv, Shape, Quiet
    <3>3. Adds
      BY <1>4 DEF Adds
    <3>4. QED BY <1>2, <3>2, <3>3
  <2>3. QED BY <2>1, <2>2
<1>5. CASE Removes
  <2>1. Store!Remove(u)
    BY <1>5 DEF Removes, Trusted
  <2>2. QED BY <1>1, <2>1, NewAck
<1>6. CASE UNCHANGED Store!vars
  BY <1>2, <1>6 DEF Adds, Store!vars
<1>7. QED BY <1>3, <1>4, <1>5, <1>6 DEF Adds

\* What was acknowledged is read through the mapped segments.
LEMMA AckRead ==
  ASSUME Gentle, RInv, Told
  PROVE  AckReadable
<1>1. SUFFICES ASSUME NEW t \in Threads, Acked(t)
               PROVE  LET r == ret[t].rid
                      IN  /\ InPage(r) /\ Holds(PageOf(r), r[2])
                          /\ DocIn(PageOf(r), r[2]) = ret[t].doc
  BY DEF AckReadable
<1>2. state = "up"
  BY <1>1 DEF RInv, Shape, Quiet, Acked, NoReply, Store!NoReply
<1> DEFINE r == ret[t].rid
<1>3. r \in StoredRids /\ StoredRecords[r] = ret[t].doc /\ ret[t].doc \in Docs
  BY <1>1 DEF RInv, Told, AckDurable
<1>4. PICK p \in 0 .. (hdrSize - 1) : \E j \in Slots(file[p + 1]) : r = <<p, j>>
  BY <1>3, StoredIs, RidsOfIs
<1>5. PICK j \in Slots(file[p + 1]) : r = <<p, j>>
  BY <1>4
<1>6. Kept(file[p + 1], j) = ret[t].doc
  BY <1>3, <1>5, StoredAt
<1>7. Holds(file[p + 1], j) /\ DocIn(file[p + 1], j) = ret[t].doc
  BY <1>3, <1>6 DEF Kept, Gentle
<1>8. InPage(r) /\ PageOf(r) = file[p + 1]
  BY <1>3, <1>2, <1>5, Sizes, WhereIs DEF InPage, PageOf
<1>9. QED BY <1>5, <1>7, <1>8

\* The conditions of one thread: kills spare an extension.
Benign ==
  /\ Gentle /\ \E t : Threads = {t}
  /\ Env \subseteq {"kill", "restart"}

\* Two threads, and documents that an empty page has room for.
Paired == Gentle /\ TwoFit

LEMMA OneIsTrusted == ASSUME Benign PROVE Gentle /\ Trusted
  BY DEF Benign, Trusted

\* One thread excludes nobody but itself, and while it extends the file it makes
\* no call in which the process would die.
LEMMA OneThread ==
  ASSUME Benign, RInv, [Next]_vars
  PROVE  ExtendExclusive /\ [SparesExtension]_vars
<1>1. ExtendExclusive
  BY DEF Benign, ExtendExclusive
<1>2. ASSUME Next, Growing PROVE state' = "up"
  <2>1. PICK t \in Threads : Extends(t)
    BY <1>2 DEF Growing, Extends
  <2>2. Threads = {t} /\ state = "up"
    BY <2>1, BusyIsUp DEF Benign, Extends
  <2>3. ~Kill /\ ~InitNew /\ ~LoadData
    BY <1>2, <2>2 DEF Kill, InitNew, LoadData, CanStart, Benign
  <2>4. WritePage(t) \/ WriteFails(t) \/ MapSegment(t) \/ ExtendFails(t) \/ Publish(t)
    BY <1>2, <2>1, <2>2, <2>3, ExtendingStep DEF Next
  <2>5. QED
    BY <2>2, <2>4 DEF WritePage, WriteFails, MapSegment, ExtendFails, Publish, process
<1>3. QED BY <1>1, <1>2 DEF SparesExtension

LEMMA RemovesIsNext == Removes => Store!Next
  BY DEF Removes, Store!Next

\* All that a step keeps.
LEMMA GentleNext ==
  ASSUME Gentle, RInv, Steady, ExtendExclusive, [SparesExtension]_vars, [Next]_vars
  PROVE  /\ RInv' /\ Steady' /\ [Store!Next]_(Store!vars)
         /\ Trusted /\ Told => Told'
<1>1. RInv' /\ (Adds \/ Removes)
  BY SteadyIsSure, NextStore
<1>2. QED BY <1>1, NextSteady, AckKept, AddsIsNext, RemovesIsNext

\* DmsFile is a record store as long as one thread extends the file at a time and
\* the process does not die while one does: every step of the threads in insert,
\* find and remove, of a kill and of a restart is one of the store, or changes
\* nothing that it shows (dmsFile::insert, find, remove, initialize, _loadData).
THEOREM ThreadsImplementStore ==
  ASSUME Gentle
  PROVE  Spec /\ []ExtendExclusive /\ [][SparesExtension]_vars => ImplementsStore
<1>1. Init => RInv /\ Steady /\ Store!Init
  BY InitStore
<1>2. RInv /\ Steady /\ ExtendExclusive /\ [SparesExtension]_vars /\ [Next]_vars
        => RInv' /\ Steady' /\ [Store!Next]_(Store!vars)
  BY GentleNext
<1>3. QED BY <1>1, <1>2, PTL DEF Spec, ImplementsStore, Store!Spec

\* Under the same conditions a segment is mapped where a restart maps it, and
\* counted when it is mapped (dmsFile::_extendSegment, _loadData).
THEOREM ThreadsPlaceRight ==
  ASSUME Gentle
  PROVE  Spec /\ []ExtendExclusive /\ [][SparesExtension]_vars => []PlacementOK
<1>1. Init => RInv /\ Steady
  BY InitStore
<1>2. RInv /\ Steady /\ ExtendExclusive /\ [SparesExtension]_vars /\ [Next]_vars
        => RInv' /\ Steady'
  BY GentleNext
<1>3. RInv => PlacementOK
  BY DEF RInv, Shape
<1>4. QED BY <1>1, <1>2, <1>3, PTL DEF Spec

\* Under the same conditions, when no thread removes what another one was told of,
\* a record whose insert was acknowledged is where a restart will look for it and
\* is read by its rid through the mapped segments (dmsFile::insert, find, _loadData).
THEOREM ThreadsKeepAcked ==
  ASSUME Gentle, Trusted
  PROVE  Spec /\ []ExtendExclusive /\ [][SparesExtension]_vars
           => [](AckDurable /\ AckReadable)
<1>1. Init => RInv /\ Steady /\ Told
  BY InitStore
<1>2. RInv /\ Steady /\ Told /\ ExtendExclusive /\ [SparesExtension]_vars /\ [Next]_vars
        => RInv' /\ Steady' /\ Told'
  BY GentleNext
<1>3. RInv /\ Told => AckDurable /\ AckReadable
  BY AckRead DEF Told
<1>4. QED BY <1>1, <1>2, <1>3, PTL DEF Spec

--------------------------------------------------------------------------------
\* Two threads.  With OneExtends, what is left to ask of a run is that the process
\* does not die while a segment is in the file and not counted yet.
THEOREM TwoImplementStore ==
  ASSUME Paired
  PROVE  Spec /\ [][SparesExtension]_vars => ImplementsStore /\ []PlacementOK
<1>1. Spec => []ExtendExclusive
  BY OneExtends DEF Paired
<1>2. Spec /\ []ExtendExclusive /\ [][SparesExtension]_vars => ImplementsStore
  BY ThreadsImplementStore DEF Paired
<1>3. Spec /\ []ExtendExclusive /\ [][SparesExtension]_vars => []PlacementOK
  BY ThreadsPlaceRight DEF Paired
<1>4. QED BY <1>1, <1>2, <1>3

\* Two inserting and finding threads: what either was told of is durable and read
\* (dmsFile::insert, find, _loadData).
THEOREM TwoKeepAcked ==
  ASSUME Paired, Trusted
  PROVE  Spec /\ [][SparesExtension]_vars => [](AckDurable /\ AckReadable)
<1>1. Spec => []ExtendExclusive
  BY OneExtends DEF Paired
<1>2. Spec /\ []ExtendExclusive /\ [][SparesExtension]_vars
        => [](AckDurable /\ AckReadable)
  BY ThreadsKeepAcked DEF Paired
<1>3. QED BY <1>1, <1>2

--------------------------------------------------------------------------------
(***************************************************************************)
(* Two inserting threads.  No condition on the run is left: a thread can   *)
(* take the process down while the other one extends the file, but only    *)
(* when the last segment of the file is empty; every restart then offers   *)
(* its first page, and nobody extends the file again.                      *)
(***************************************************************************)
Inserters == Paired /\ Calls \subseteq {"insert"} /\ Env \subseteq {"kill", "restart"}

\* The entries of the map are those of the first segment.
Low == \A e \in freeMap : e.page < PagesPerSegment

\* The first page of the last of several segments has never been written to.
LastEmpty ==
  /\ hdrSize > PagesPerSegment
  /\ file[hdrSize - PagesPerSegment + 1].freeSpace = FullSpace

\* Nobody extends the file, nor will.
Barren == LastEmpty /\ (state = "up" => Offered /\ Low /\ \A t \in Threads : ~Heading(t))

Sound == ~Growing => Settled \/ Barren

\* Without an empty page the map has entries of the first segment alone.
Lows == ~Offered => Low

Somewhere == freeMap # {} => NumPages > 0

\* No slot is EMPTY: _recoverSpace does not crash.
NoHoles == \A i \in DOMAIN file : ~RecoverCrashes(file[i])

\* A segment that is about to be counted starts with an empty page.
Written == \A t \in Threads : pc[t] = "publish" => file[hdrSize + 1].freeSpace = FullSpace

\* The first of the entries with the key of an empty page.
FirstOffer == \E e \in freeMap : e.key = FullSpace /\ e.nth = 0

\* An entry that is found has a page, or the last segment is empty.
PageFound ==
  \/ \A e \in freeMap : e.page < NumPages \/ (e.key = FullSpace /\ e.nth > 0)
  \/ LastEmpty /\ \A e \in freeMap : e.page < PagesPerSegment \/ e.page >= NumPages

\* A thread that heads for _extendSegment when an empty page is offered saw the
\* other one offer it.
SecondFinds == (Offered /\ \E t \in Threads : Heading(t)) => FirstOffer /\ PageFound

Entries == Lows /\ Somewhere /\ NoHoles /\ Written /\ SecondFinds

TInv == RInv /\ ExtInv /\ Entries

\* Segments are whole.
LEMMA WholeSegments ==
  ASSUME RInv
  PROVE  /\ hdrSize > 0 => hdrSize >= PagesPerSegment
         /\ hdrSize > PagesPerSegment => hdrSize - PagesPerSegment >= PagesPerSegment
<1>1. PICK k \in Nat : hdrSize = k * PagesPerSegment
  BY DEF RInv, Shape, Counted
<1>2. PagesPerSegment \in Nat \ {0} /\ hdrSize \in Nat
  BY Sizes
<1>3. 0 * PagesPerSegment = 0 /\ 1 * PagesPerSegment = PagesPerSegment
      /\ PagesPerSegment * 2 = PagesPerSegment + PagesPerSegment
      /\ PagesPerSegment * 1 = PagesPerSegment /\ PagesPerSegment * k = k * PagesPerSegment
  BY <1>1, <1>2
<1>4. ASSUME hdrSize > 0 PROVE hdrSize >= PagesPerSegment
  <2>1. k >= 1
    BY <1>1, <1>3, <1>4
  <2>2. PagesPerSegment * 1 <= PagesPerSegment * k
    BY <1>2, <2>1, TimesMono
  <2>3. QED BY <1>1, <1>2, <1>3, <2>2
<1>5. ASSUME hdrSize > PagesPerSegment PROVE hdrSize - PagesPerSegment >= PagesPerSegment
  <2>1. k # 0 /\ k # 1
    BY <1>1, <1>2, <1>3, <1>5
  <2>2. PagesPerSegment * 2 <= PagesPerSegment * k
    <3>1. 2 <= k
      BY <2>1
    <3>2. QED BY <1>2, <3>1, TimesMono
  <2>3. QED BY <1>1, <1>2, <1>3, <2>2
<1>6. QED BY <1>4, <1>5

\* The last segment stays empty while other pages of the file are written.
LEMMA LastKept ==
  ASSUME RInv, LastEmpty, hdrSize' = hdrSize,
         \A i \in DOMAIN file : i # hdrSize - PagesPerSegment + 1 \/ file'[i] = file[i]
  PROVE  LastEmpty'
<1>1. hdrSize - PagesPerSegment + 1 \in DOMAIN file
  BY Sizes DEF LastEmpty
<1>2. QED BY <1>1 DEF LastEmpty

\* A thread goes from one label to another, or returns.
LEMMA MoveEntries ==
  ASSUME TInv, NEW t \in Threads, UNCHANGED <<durable, process>>, Others(t),
         Heading(t)' => Heading(t) \/ ~Offered,
         pc'[t] = "publish" => pc[t] = "publish"
  PROVE  Entries' /\ (Barren => Barren')
<1>1. /\ UNCHANGED <<file, hdrSize, state, body, freeMap>>
      /\ \A u \in Threads \ {t} : pc'[u] = pc[u]
  BY DEF durable, process, Others
<1>2. /\ Offered' = Offered /\ Low' = Low /\ LastEmpty' = LastEmpty
      /\ FirstOffer' = FirstOffer /\ PageFound' = PageFound /\ NumPages' = NumPages
  BY <1>1 DEF Offered, Low, LastEmpty, FirstOffer, PageFound, NumPages
<1>3. Offered /\ (\E u \in Threads : Heading(u)') => \E u \in Threads : Heading(u)
  BY <1>1 DEF Heading
<1>4. Lows' /\ Somewhere' /\ NoHoles'
  BY <1>1, <1>2 DEF TInv, Entries, Lows, Somewhere, NoHoles
<1>5. Written'
  BY <1>1 DEF TInv, Entries, Written
<1>6. SecondFinds'
  BY <1>2, <1>3 DEF TInv, Entries, SecondFinds
<1>7. Barren => Barren'
  BY <1>1, <1>2, <1>3 DEF Barren
<1>8. QED BY <1>4, <1>5, <1>6, <1>7 DEF Entries

\* The process goes.
LEMMA GoneEntries ==
  ASSUME TInv, ProcessGone, UNCHANGED durable
  PROVE  Entries' /\ (LastEmpty => Barren') /\ (Settled => Settled')
<1>1. /\ freeMap' = {} /\ state' = "gone" /\ UNCHANGED <<file, hdrSize>>
      /\ \A t \in Threads : pc'[t] = "idle"
  BY DEF ProcessGone, durable
<1>2. Lows' /\ Somewhere' /\ NoHoles' /\ Written'
  BY <1>1 DEF TInv, Entries, Lows, Low, Somewhere, NoHoles, Written
<1>3. SecondFinds'
  BY <1>1 DEF SecondFinds, Offered
<1>4. LastEmpty => Barren'
  BY <1>1 DEF Barren, LastEmpty
<1>5. QED BY <1>1, <1>2, <1>3, <1>4 DEF Entries, Settled

\* The page is filed again by the thread that stored a document in it.
LEMMA RefileEntries ==
  ASSUME TwoFit, RInv, ExtInv, NEW p \in Nat, p < NumPages, NEW old, NEW new,
         freeMap' = Refile(freeMap, p, old, new)
  PROVE  /\ \A e \in freeMap' : e \in freeMap \/ e.page = p
         /\ (Offered => Offered') /\ (FirstOffer => FirstOffer')
         /\ Offered' /\ ~Offered => FirstOffer'
<1> DEFINE kept == IF \E e \in WithKey(freeMap, old) : e.page = p
                     THEN freeMap \ WithKey(freeMap, p) ELSE freeMap
           new1 == [key |-> new, page |-> p, nth |-> Cardinality(WithKey(kept, new))]
<1>1. freeMap' = kept \cup {new1}
  BY DEF Refile, MapAdd
<1>2. p # FullSpace
  <2>1. NumPages <= Len(file) /\ Len(file) <= DiskPages
    BY DEF ExtInv, Room
  <2>2. NumPages \in Nat /\ Len(file) \in Nat /\ FullSpace \in Nat /\ DiskPages \in Nat
    BY NumPagesNat, PageAssumption, FileAssumption
       DEF RInv, IInv, TypeOK, FullSpace, HeaderSize
  <2>3. QED BY <2>1, <2>2 DEF TwoFit
<1>3. kept \subseteq freeMap /\ \A e \in freeMap : e.key = FullSpace => e \in kept
  BY <1>2 DEF WithKey
<1>4. new1.page = p /\ new1.key = new /\ new1.nth = Cardinality(WithKey(kept, new))
  OBVIOUS
<1> HIDE DEF new1, kept
<1>5. \A e \in freeMap' : e \in freeMap \/ e.page = p
  BY <1>1, <1>3, <1>4
<1>6. (Offered => Offered') /\ (FirstOffer => FirstOffer')
  BY <1>1, <1>3 DEF Offered, FirstOffer
<1>7. ASSUME Offered', ~Offered PROVE FirstOffer'
  <2>1. new = FullSpace
    BY <1>1, <1>3, <1>4, <1>7 DEF Offered
  <2>2. WithKey(kept, new) = {}
    BY <1>3, <1>7, <2>1 DEF Offered, WithKey
  <2>3. new1.nth = 0
    BY <1>4, <2>2, FS_EmptySet
  <2>4. QED BY <1>1, <1>4, <2>1, <2>3 DEF FirstOffer
<1>8. QED BY <1>5, <1>6, <1>7

\* insert leaves no EMPTY slot.
LEMMA StoreNoHoles ==
  ASSUME NEW pg \in Pages, PageOK(pg), NEW d \in Docs, Fits(pg, d), ~RecoverCrashes(pg)
  PROVE  ~RecoverCrashes(StoreRecord(pg, d))
<1> DEFINE new == StoreRecord(pg, d)
<1>1. DocSize[d] \in Nat \ {0} /\ Need(d) = DocSize[d] + 3
  BY NeedType
<1>2. pg # ZeroPage
  BY <1>1 DEF Fits, ZeroPage
<1>3. /\ pg.numSlots \in Nat /\ pg.slotOffset \in Nat /\ pg.freeOffset \in Nat
      /\ pg.slots \in [SlotIds -> Offsets \cup {SlotEmpty}]
  BY DEF Pages
<1>4. /\ new.numSlots = pg.numSlots + 1
      /\ new.slots = [pg.slots EXCEPT ![pg.numSlots] = pg.freeOffset - DocSize[d] - 2]
  BY <1>1, <1>3
     DEF StoreRecord, HeaderUpdated, RecordStored, SlotStored, SlotSize, RecordHead, Pages
<1>5. pg.freeOffset - DocSize[d] - 2 >= 0
  BY <1>1, <1>3 DEF Fits, Gap
<1> HIDE DEF new
<1>6. SUFFICES ASSUME NEW j \in SlotIds, j < new.numSlots, new.slots[j] = SlotEmpty PROVE FALSE
  BY DEF RecoverCrashes, new
<1>7. j \in Nat /\ SlotEmpty < 0
  BY DEF SlotIds, SlotEmpty
<1>8. CASE j = pg.numSlots
  <2>1. new.slots[j] = pg.freeOffset - DocSize[d] - 2
    BY <1>3, <1>4, <1>6, <1>8
  <2>2. QED BY <1>1, <1>3, <1>5, <1>6, <2>1 DEF SlotEmpty
<1>9. CASE j # pg.numSlots
  <2>1. new.slots[j] = pg.slots[j] /\ j < pg.numSlots
    BY <1>3, <1>4, <1>6, <1>7, <1>9
  <2>2. QED BY <1>6, <2>1 DEF RecoverCrashes
<1>10. QED BY <1>8, <1>9

\* An entry that _findPage finds comes before those of an empty page.
LEMMA FoundEarly ==
  ASSUME TwoFit, TInv, FirstOffer,
         NEW t \in Threads, Trying(t), NEW e \in FirstFit(arg[t])
  PROVE  ~(e.key = FullSpace /\ e.nth > 0)
<1>1. arg[t] \in Docs /\ DocSize[arg[t]] < FullSpace
  BY DEF Trying, TInv, RInv, IInv, Placed, TwoFit
<1>2. PICK z \in freeMap : z.key = FullSpace /\ z.nth = 0
  BY DEF FirstOffer
<1>3. z \in Candidates(arg[t])
  BY <1>1, <1>2, NeedType, PageAssumption DEF Candidates, FullSpace, HeaderSize
<1>4. e \in freeMap /\ (e.key < z.key \/ (e.key = z.key /\ e.nth <= z.nth))
  BY <1>3 DEF FirstFit, Candidates
<1>5. e.key \in Nat /\ e.nth \in Nat /\ FullSpace \in Nat
  BY <1>4, PageAssumption DEF TInv, RInv, IInv, TypeOK, ExtInv, Filed, FullSpace, HeaderSize
<1>6. QED BY <1>2, <1>4, <1>5

\* What is known of the entry that _findPage finds.
LEMMA FoundPage ==
  ASSUME TInv, NEW t \in Threads, Trying(t), NEW e \in FirstFit(arg[t])
  PROVE  /\ e \in freeMap /\ e.page \in Nat /\ state = "up" /\ arg[t] \in Docs
         /\ NumPages = hdrSize /\ hdrSize \in Nat /\ PagesPerSegment \in Nat \ {0}
         /\ hdrSize >= PagesPerSegment
<1>1. e \in freeMap /\ e.page \in Nat /\ state = "up" /\ arg[t] \in Docs
  BY FirstFitPage DEF FirstFit, Candidates, Trying, TInv, RInv, IInv, Placed
<1>2. NumPages = hdrSize /\ hdrSize \in Nat /\ PagesPerSegment \in Nat \ {0}
  BY <1>1, WhereIs, Sizes DEF TInv
<1>3. NumPages > 0
  BY <1>1 DEF TInv, Entries, Somewhere
<1>4. hdrSize >= PagesPerSegment
  BY <1>2, <1>3, WholeSegments DEF TInv
<1>5. QED BY <1>1, <1>2, <1>4

\* An insert that takes the process down while the other thread extends the file
\* leaves an empty last segment.
LEMMA CrashEntries ==
  ASSUME TwoFit, TInv, NEW t \in Threads, Trying(t), NEW e \in FirstFit(arg[t]),
         InsertCrash(t, e.page), Growing
  PROVE  LastEmpty
<1>1. /\ e \in freeMap /\ e.page \in Nat /\ NumPages = hdrSize /\ hdrSize \in Nat
      /\ PagesPerSegment \in Nat /\ hdrSize >= PagesPerSegment
  BY FoundPage
<1>2. e.page = NumPages
  <2>1. CASE e.page >= NumPages
    BY <2>1 DEF InsertCrash, WildPage
  <2>2. CASE ~(e.page >= NumPages)
    <3>1. Where(e.page) \in DOMAIN file
      BY <1>1, <2>2, WhereInside DEF TInv, RInv
    <3>2. ~RecoverCrashes(file[Where(e.page)])
      BY <3>1 DEF TInv, Entries, NoHoles
    <3>3. QED BY <2>2, <3>2 DEF InsertCrash
  <2>3. QED BY <2>1, <2>2
<1>3. \E u \in Threads : Heading(u)
  BY DEF Growing, Heading, Heads
<1>4. CASE ~Offered
  BY <1>1, <1>2, <1>4 DEF TInv, Entries, Lows, Low
<1>5. CASE Offered
  <2>1. FirstOffer /\ PageFound
    BY <1>3, <1>5 DEF TInv, Entries, SecondFinds
  <2>2. ~(e.key = FullSpace /\ e.nth > 0)
    BY <2>1, FoundEarly
  <2>3. QED BY <1>1, <1>2, <2>1, <2>2 DEF PageFound
<1>6. QED BY <1>4, <1>5

\* A document is stored in a page of the first segment when that matters.
LEMMA StoreEntries ==
  ASSUME TwoFit, TInv, NEW t \in Threads, Trying(t), NEW e \in FirstFit(arg[t]),
         InsertStore(t, e.page)
  PROVE  Entries' /\ (Barren => Barren')
<1> DEFINE p   == e.page
           d   == arg[t]
           old == file[p + 1]
           new == StoreRecord(old, d)
<1>1. /\ e \in freeMap /\ p \in Nat /\ state = "up" /\ d \in Docs
      /\ NumPages = hdrSize /\ hdrSize \in Nat /\ PagesPerSegment \in Nat \ {0}
      /\ hdrSize >= PagesPerSegment
  BY FoundPage
<1>2. p < NumPages /\ p \in 0 .. (hdrSize - 1) /\ Where(p) = p + 1
  BY <1>1, WhereIs DEF InsertStore, TInv
<1>3. p + 1 \in DOMAIN file /\ old \in Pages /\ PageOK(old) /\ ~RecoverCrashes(old)
  BY <1>2, Sizes DEF TInv, Entries, NoHoles, RInv, IInv, TypeOK, LayoutOK
<1>4. Recovered(old, d) = old /\ Fits(old, d)
  BY <1>1, <1>2, <1>3, RecoveredSame DEF InsertStore
<1>5. /\ file' = [file EXCEPT ![p + 1] = new]
      /\ freeMap' = Refile(freeMap, p, old.freeSpace, old.freeSpace - Need(d))
      /\ \E reply : Return(t, reply)
      /\ UNCHANGED <<hdrSize, state, body>>
  BY <1>2, <1>4 DEF InsertStore
<1>6. ~RecoverCrashes(new)
  BY <1>1, <1>3, <1>4, StoreNoHoles
<1> HIDE DEF new, d, old
<1>7. /\ pc'[t] = "idle" /\ \A u \in Threads \ {t} : pc'[u] = pc[u]
      /\ NumPages' = NumPages
  BY <1>5 DEF Return, NumPages, TInv, RInv, IInv, TypeOK
<1>8. /\ \A f \in freeMap' : f \in freeMap \/ f.page = p
      /\ (Offered => Offered') /\ (FirstOffer => FirstOffer')
      /\ Offered' /\ ~Offered => FirstOffer'
  <2> HIDE DEF p
  <2>1. QED BY <1>1, <1>2, <1>5, RefileEntries DEF TInv
<1>9. /\ DOMAIN file' = DOMAIN file /\ file'[p + 1] = new
      /\ \A i \in DOMAIN file : i # p + 1 => file'[i] = file[i]
  BY <1>3, <1>5
<1>10. p < PagesPerSegment /\ LastEmpty => LastEmpty'
  <2>1. SUFFICES ASSUME p < PagesPerSegment, LastEmpty PROVE LastEmpty'
    OBVIOUS
  <2>2. hdrSize - PagesPerSegment >= PagesPerSegment
    BY <2>1, WholeSegments DEF LastEmpty, TInv
  <2>3. p + 1 # hdrSize - PagesPerSegment + 1
    BY <1>1, <2>1, <2>2
  <2>4. QED BY <1>5, <1>9, <2>1, <2>3, LastKept DEF TInv
<1>11. NoHoles'
  BY <1>6, <1>9 DEF TInv, Entries, NoHoles
<1>12. Written'
  <2>1. SUFFICES ASSUME NEW u \in Threads, pc'[u] = "publish"
                 PROVE  file'[hdrSize + 1].freeSpace = FullSpace
    BY <1>5 DEF Written
  <2>2. pc[u] = "publish"
    BY <1>7, <2>1
  <2>3. hdrSize + 1 \in DOMAIN file /\ p + 1 # hdrSize + 1
    <3>1. Len(file) = hdrSize + PagesPerSegment /\ DOMAIN file = 1 .. Len(file)
      BY <2>2, Sizes DEF TInv, RInv, Shape, Grown, Growth
    <3>2. QED BY <1>1, <1>2, <3>1
  <2>4. QED BY <1>9, <2>2, <2>3 DEF TInv, Entries, Written
<1>13. Low => p < PagesPerSegment /\ Low'
  BY <1>1, <1>8 DEF Low
<1>14. Lows' /\ Somewhere'
  BY <1>1, <1>2, <1>7, <1>8, <1>13 DEF TInv, Entries, Lows, Somewhere
<1>15. SecondFinds'
  <2>1. SUFFICES ASSUME Offered', NEW u \in Threads, Heading(u)'
                 PROVE  FirstOffer' /\ PageFound'
    BY DEF SecondFinds
  <2>2. Heading(u)
    BY <1>7, <2>1 DEF Heading, Heads
  <2>3. CASE ~Offered
    <3>1. FirstOffer' /\ Low'
      BY <1>8, <1>13, <2>1, <2>3 DEF TInv, Entries, Lows
    <3>2. \A f \in freeMap' : f.page \in Nat
      BY <1>1, <1>8 DEF TInv, RInv, IInv, TypeOK
    <3>3. QED BY <1>1, <1>7, <3>1, <3>2 DEF PageFound, Low
  <2>4. CASE Offered
    <3>1. FirstOffer' /\ PageFound
      BY <1>8, <2>2, <2>4 DEF TInv, Entries, SecondFinds
    <3>2. CASE \A f \in freeMap : f.page < NumPages \/ (f.key = FullSpace /\ f.nth > 0)
      BY <1>2, <1>7, <1>8, <3>1, <3>2 DEF PageFound
    <3>3. CASE LastEmpty /\ \A f \in freeMap : f.page < PagesPerSegment \/ f.page >= NumPages
      <4>1. p < PagesPerSegment
        BY <1>1, <1>2, <3>3
      <4>2. QED BY <1>7, <1>8, <1>10, <3>1, <3>3, <4>1 DEF PageFound
    <3>4. QED BY <3>1, <3>2, <3>3 DEF PageFound
  <2>5. QED BY <2>3, <2>4
<1>16. Barren => Barren'
  <2>1. SUFFICES ASSUME Barren PROVE Barren'
    OBVIOUS
  <2>2. LastEmpty /\ Offered /\ Low /\ \A u \in Threads : ~Heading(u)
    BY <1>1, <2>1 DEF Barren
  <2>3. \A u \in Threads : ~Heading(u)'
    BY <1>7, <2>2 DEF Heading, Heads
  <2>4. QED BY <1>8, <1>10, <1>13, <2>2, <2>3 DEF Barren
<1>17. QED BY <1>11, <1>12, <1>14, <1>15, <1>16 DEF Entries

\* The steps that neither store nor file anything.
LEMMA WaitEntries ==
  ASSUME TwoFit, TInv, NEW t \in Threads,
         \/ InsertNoPage(t) \/ TryExtend(t) \/ ExtendBusy(t) \/ ExtendWait(t)
         \/ GetSize(t) \/ Unlock1(t) \/ Unlock2(t)
         \/ \E d \in Docs : CallInsert(t, d)
         \/ WriteFails(t) \/ ExtendFails(t)
         \/ \E p \in Nat : Trying(t) /\ InsertRefused(t, p)
  PROVE  Entries' /\ (Barren => Barren')
<1>1. ASSUME \E reply : Return(t, reply), UNCHANGED <<durable, process>>
      PROVE  Entries' /\ (Barren => Barren')
  <2>1. pc'[t] = "idle" /\ Others(t)
    BY <1>1, Returned DEF TInv
  <2>2. QED BY <1>1, <2>1, MoveEntries DEF Heading, Heads
<1>2. ASSUME NEW label, Goto(t, label), ext' = ext \/ GetSize(t), label # "publish",
             label \in Heads => Heading(t) \/ ~Offered, UNCHANGED <<durable, process>>
      PROVE  Entries' /\ (Barren => Barren')
  <2>1. pc'[t] = label /\ Others(t)
    BY <1>2 DEF Goto, GetSize, Others, TInv, RInv, IInv, TypeOK
  <2>2. QED BY <1>2, <2>1, MoveEntries DEF Heading
<1>3. CASE InsertNoPage(t)
  <2>1. ~Offered
    BY <1>3, NoPageLacks DEF TInv, RInv
  <2>2. QED BY <1>2, <1>3, <2>1 DEF InsertNoPage
<1>4. CASE TryExtend(t)
  BY <1>2, <1>4 DEF TryExtend, Heading, Heads
<1>5. CASE GetSize(t)
  BY <1>2, <1>5 DEF GetSize, Heading, Heads
<1>6. CASE ExtendBusy(t) \/ ExtendWait(t) \/ Unlock1(t) \/ Unlock2(t)
  <2>1. /\ \E label \in {"extwait", "unlock2", "try"} : Goto(t, label)
        /\ ext' = ext /\ UNCHANGED <<durable, process>>
    BY <1>6 DEF ExtendBusy, ExtendWait, Unlock1, Unlock2
  <2>2. QED BY <1>2, <2>1 DEF Heads
<1>7. ASSUME NEW d \in Docs, CallInsert(t, d) PROVE Entries' /\ (Barren => Barren')
  <2>1. CASE DocSize[d] > PageSize
    BY <1>1, <1>7, <2>1 DEF CallInsert
  <2>2. CASE ~(DocSize[d] > PageSize)
    BY <1>2, <1>7, <2>2 DEF CallInsert, Heads
  <2>3. QED BY <2>1, <2>2
<1>8. CASE WriteFails(t)
  <2>1. pc' = pc /\ Others(t) /\ UNCHANGED <<durable, process>>
    BY <1>8 DEF WriteFails, Others, TInv, RInv, IInv, TypeOK
  <2>2. QED BY <2>1, MoveEntries DEF Heading
<1>9. CASE ExtendFails(t)
  <2>1. Return(t, Failed) /\ UNCHANGED <<durable, process>>
    BY <1>9 DEF ExtendFails
  <2>2. QED BY <1>1, <2>1
<1>10. ASSUME NEW p \in Nat, Trying(t), InsertRefused(t, p)
       PROVE  Entries' /\ (Barren => Barren')
  <2>1. Return(t, Failed) /\ UNCHANGED <<durable, process>>
    BY <1>10, RefusedSame DEF TInv
  <2>2. QED BY <1>1, <2>1
<1>11. QED BY <1>3, <1>4, <1>5, <1>6, <1>7, <1>8, <1>9, <1>10

\* Pages that are not counted yet are written.
LEMMA GrowEntries ==
  ASSUME TInv, NEW t \in Threads, InExtend(t),
         UNCHANGED <<hdrSize, process>>, \A u \in Threads \ {t} : pc'[u] = pc[u],
         Heading(t)', DOMAIN file \subseteq DOMAIN file',
         \A i \in DOMAIN file : i <= hdrSize => file'[i] = file[i],
         \A i \in DOMAIN file' : file'[i] = file[i] \/ ~RecoverCrashes(file'[i]),
         DOMAIN file' \ DOMAIN file \subseteq {i \in DOMAIN file' : ~RecoverCrashes(file'[i])},
         pc'[t] = "publish" => file'[hdrSize + 1].freeSpace = FullSpace
  PROVE  Entries' /\ (Barren => Barren')
<1>1. UNCHANGED <<state, body, freeMap>> /\ PagesPerSegment \in Nat \ {0} /\ hdrSize \in Nat
  BY Sizes DEF process, TInv
<1>2. /\ Offered' = Offered /\ Low' = Low /\ FirstOffer' = FirstOffer /\ NumPages' = NumPages
  BY <1>1 DEF Offered, Low, FirstOffer, NumPages
<1>3. LastEmpty => LastEmpty'
  <2>1. LastEmpty => /\ hdrSize - PagesPerSegment + 1 \in DOMAIN file
                     /\ hdrSize - PagesPerSegment + 1 <= hdrSize
    BY <1>1, Sizes DEF LastEmpty, TInv
  <2>2. QED BY <2>1 DEF LastEmpty
<1>4. PageFound => PageFound'
  BY <1>1, <1>2, <1>3 DEF PageFound
<1>5. Heading(t) /\ state = "up"
  BY BusyIsUp DEF InExtend, Heading, Heads, TInv
<1>6. Lows' /\ Somewhere'
  BY <1>1, <1>2 DEF TInv, Entries, Lows, Somewhere
<1>7. NoHoles'
  BY DEF TInv, Entries, NoHoles
<1>8. Written'
  <2>1. \A u \in Threads \ {t} : ~InExtend(u)
    BY ExclusiveBy DEF TInv, ExtendExclusive
  <2>2. QED BY <2>1 DEF Written, InExtend
<1>9. SecondFinds'
  BY <1>2, <1>4, <1>5 DEF TInv, Entries, SecondFinds
<1>10. ~Barren
  BY <1>5 DEF Barren
<1>11. QED BY <1>6, <1>7, <1>8, <1>9, <1>10 DEF Entries

LEMMA WritePageEntries ==
  ASSUME TInv, NEW t \in Threads, WritePage(t)
  PROVE  Entries' /\ (Barren => Barren')
<1>1. /\ pc[t] = "extend" /\ pc' = pc /\ file' = Append(file, ZeroPage)
      /\ UNCHANGED <<hdrSize, process>>
  BY DEF WritePage, Extending
<1>2. /\ DOMAIN file' = 1 .. (Len(file) + 1) /\ DOMAIN file = 1 .. Len(file)
      /\ \A i \in 1 .. Len(file) : file'[i] = file[i]
      /\ file'[Len(file) + 1] = ZeroPage /\ Len(file) \in Nat
  <2>1. file \in Seq(Pages) /\ ZeroPage \in Pages
    BY ZeroPageOK DEF TInv, RInv, IInv, TypeOK
  <2>2. QED BY <1>1, <2>1, AppendProperties
<1>3. ~RecoverCrashes(ZeroPage)
  BY DEF RecoverCrashes, ZeroPage, SlotIds
<1>4. DOMAIN file' \ DOMAIN file = {Len(file) + 1}
  BY <1>2
<1>5. InExtend(t) /\ Heading(t)'
  BY <1>1 DEF InExtend, Heading, Heads
<1>6. \A i \in DOMAIN file' : file'[i] = file[i] \/ ~RecoverCrashes(file'[i])
  BY <1>2, <1>3
<1>7. QED BY <1>1, <1>2, <1>3, <1>4, <1>5, <1>6, GrowEntries

LEMMA MapSegmentEntries ==
  ASSUME TInv, NEW t \in Threads, MapSegment(t)
  PROVE  Entries' /\ (Barren => Barren')
<1>1. /\ pc[t] = "extend" /\ ext[t].done = PagesPerSegment /\ ~ext[t].failed
      /\ file' = [file EXCEPT ![ext[t].offset + 1] = WriteHeader(@)]
      /\ pc' = [pc EXCEPT ![t] = "publish"]
      /\ UNCHANGED <<hdrSize, process>>
  BY DEF MapSegment, Extended, Goto
<1>2. /\ ext[t].offset = hdrSize /\ hdrSize \in Nat /\ hdrSize + 1 \in DOMAIN file
      /\ file[hdrSize + 1] \in Pages
  <2>1. ext[t].offset = hdrSize /\ Len(file) = hdrSize + PagesPerSegment
    BY <1>1, Sizes DEF TInv, RInv, Shape, Grown, Growth
  <2>2. QED BY <2>1, Sizes DEF TInv, RInv, IInv, TypeOK
<1>3. /\ DOMAIN file' = DOMAIN file
      /\ \A i \in DOMAIN file : i # hdrSize + 1 => file'[i] = file[i]
      /\ file'[hdrSize + 1] = WriteHeader(file[hdrSize + 1])
  BY <1>1, <1>2
<1>4. /\ WriteHeader(file[hdrSize + 1]).numSlots = 0
      /\ WriteHeader(file[hdrSize + 1]).freeSpace = FullSpace
  BY <1>2 DEF WriteHeader, Pages
<1>5. ~RecoverCrashes(file'[hdrSize + 1])
  BY <1>3, <1>4 DEF RecoverCrashes, SlotIds
<1>6. /\ pc'[t] = "publish" /\ \A u \in Threads \ {t} : pc'[u] = pc[u]
      /\ InExtend(t) /\ Heading(t)'
  BY <1>1 DEF InExtend, Heading, Heads, TInv, RInv, IInv, TypeOK
<1>7. /\ \A i \in DOMAIN file' : file'[i] = file[i] \/ ~RecoverCrashes(file'[i])
      /\ \A i \in DOMAIN file : i <= hdrSize => file'[i] = file[i]
  <2>1. \A i \in DOMAIN file : i <= hdrSize => i # hdrSize + 1
    BY <1>2
  <2>2. QED BY <1>3, <1>5, <2>1
<1>8. QED BY <1>1, <1>3, <1>4, <1>6, <1>7, GrowEntries

\* The segment is counted.  If the other thread is about to extend the file too, it
\* saw no empty page, and the new pages get the first entries with their key.
LEMMA PublishEntries ==
  ASSUME Gentle, TwoFit, TInv, NEW t \in Threads, Publish(t)
  PROVE  Entries' /\ (Barren => Barren')
<1> DEFINE base == Cardinality(freeMap)
           nth0 == Cardinality(WithKey(freeMap, FullSpace))
           entry(i) == [key |-> FullSpace, page |-> base + i, nth |-> nth0 + i]
<1>1. /\ pc[t] = "publish" /\ hdrSize' = hdrSize + PagesPerSegment
      /\ freeMap' = freeMap \cup {entry(i) : i \in 0 .. (PagesPerSegment - 1)}
      /\ pc' = [pc EXCEPT ![t] = "unlock1"] /\ UNCHANGED <<file, state>>
  BY DEF Publish, Goto
<1>2. ExtendExclusive /\ Heading(t) /\ state = "up"
  BY <1>1, ExclusiveBy, BusyIsUp DEF Heading, Heads, TInv
<1>3. /\ PagesPerSegment \in Nat \ {0} /\ hdrSize \in Nat /\ base \in Nat
      /\ \A e \in freeMap : e.page \in Nat
  BY Sizes, FS_CardinalityType DEF TInv, RInv, IInv, TypeOK, Placed
<1>4. NumPages = hdrSize /\ NumPages' = hdrSize'
  <2>1. Shape'
    BY <1>2, PublishStore DEF TInv
  <2>2. QED BY <1>1, <1>2, <2>1 DEF NumPages, TInv, RInv, Shape, PlacementOK
<1>5. /\ pc'[t] = "unlock1" /\ \A u \in Threads \ {t} : pc'[u] = pc[u]
      /\ \A u \in Threads \ {t} : ~InExtend(u)
  BY <1>1, <1>2 DEF ExtendExclusive, InExtend, TInv, RInv, IInv, TypeOK
<1>6. /\ entry(0) \in freeMap' /\ entry(0).key = FullSpace /\ entry(0).nth = nth0 + 0
      /\ \A e \in freeMap' \ freeMap :
           \E i \in 0 .. (PagesPerSegment - 1) :
              e.key = FullSpace /\ e.page = base + i /\ e.nth = nth0 + i
  <2>1. 0 \in 0 .. (PagesPerSegment - 1)
    BY <1>3
  <2>2. QED BY <1>1, <2>1
<1> HIDE DEF entry
<1>7. Lows' /\ Somewhere' /\ NoHoles' /\ Written'
  <2>1. Offered'
    BY <1>6 DEF Offered
  <2>2. NumPages' > 0
    BY <1>1, <1>3, <1>4
  <2>3. Written'
    BY <1>5 DEF Written, InExtend
  <2>4. QED BY <1>1, <2>1, <2>2, <2>3 DEF Lows, Somewhere, NoHoles, TInv, Entries
<1>8. SecondFinds'
  <2>1. SUFFICES ASSUME NEW u \in Threads, Heading(u)' PROVE FirstOffer' /\ PageFound'
    BY DEF SecondFinds
  <2>2. u # t /\ Heading(u)
    BY <1>5, <2>1 DEF Heading, Heads
  <2>3. ~Offered
    BY <1>2, <2>2 DEF TInv, ExtInv, OneHeads
  <2>4. nth0 = 0
    <3>1. WithKey(freeMap, FullSpace) = {}
      BY <2>3 DEF WithKey, Offered
    <3>2. QED BY <3>1, FS_EmptySet
  <2> HIDE DEF nth0, base
  <2>5. FirstOffer'
    BY <1>6, <2>4 DEF FirstOffer
  <2>6. \A e \in freeMap : e.page \in Nat /\ e.page < PagesPerSegment
    BY <1>3, <2>3 DEF TInv, Entries, Lows, Low
  <2>7. \A e \in freeMap' \ freeMap :
          /\ e.page \in Nat /\ e.page >= base
          /\ e.page = base \/ (e.key = FullSpace /\ e.nth > 0)
    BY <1>3, <1>6, <2>4
  <2>8. CASE base < NumPages'
    <3>1. \A e \in freeMap' : e.page < NumPages' \/ (e.key = FullSpace /\ e.nth > 0)
      BY <1>1, <1>3, <1>4, <2>6, <2>7, <2>8
    <3>2. QED BY <2>5, <3>1 DEF PageFound
  <2>9. CASE ~(base < NumPages')
    <3>1. freeMap # {}
      <4>1. base # 0
        BY <1>1, <1>3, <1>4, <2>9
      <4>2. QED BY <4>1, FS_EmptySet DEF base
    <3>2. hdrSize > 0
      BY <1>4, <3>1 DEF TInv, Entries, Somewhere
    <3>3. file[hdrSize + 1].freeSpace = FullSpace
      BY <1>1 DEF TInv, Entries, Written
    <3>4. hdrSize' > PagesPerSegment /\ hdrSize' - PagesPerSegment + 1 = hdrSize + 1
      BY <1>1, <1>3, <3>2
    <3>5. LastEmpty'
      BY <1>1, <3>3, <3>4 DEF LastEmpty
    <3>6. \A e \in freeMap' : e.page < PagesPerSegment \/ e.page >= NumPages'
      BY <1>1, <1>3, <1>4, <2>6, <2>7, <2>9
    <3>7. QED BY <2>5, <3>5, <3>6 DEF PageFound
  <2>10. QED BY <2>8, <2>9
<1>9. ~Barren
  BY <1>2 DEF Barren
<1>10. QED BY <1>7, <1>8, <1>9 DEF Entries

\* A restart files every page under its number in its segment, and so offers the
\* first page of the first segment when that of the last one is empty.
LEMMA LoadDataEntries ==
  ASSUME Gentle, TInv, LoadData
  PROVE  Entries' /\ (LastEmpty => Barren')
<1>1. PICK starts : body' = starts /\ freeMap' = LoadedMap(starts)
  BY DEF LoadData
<1>2. /\ state # "up" /\ state' = "up" /\ UNCHANGED <<file, hdrSize, pc>>
      /\ \A t \in Threads : pc'[t] = "idle"
  BY DEF LoadData, CanStart, durable, threads, TInv, ExtInv, Ended
<1>3. /\ Len(starts) * PagesPerSegment = hdrSize /\ starts \in Seq(Nat)
      /\ \A i \in DOMAIN starts : starts[i] = (i - 1) * PagesPerSegment
  <2>1. Shape'
    BY ExclusiveBy, LoadDataStore DEF TInv
  <2>2. IInv'
    BY LoadDataOK DEF TInv, RInv
  <2>3. QED BY <1>1, <1>2, <2>1, <2>2 DEF Shape, PlacementOK, IInv, TypeOK
<1>4. PagesPerSegment \in Nat \ {0} /\ hdrSize \in Nat
  BY Sizes DEF TInv
<1> DEFINE key(q) == file[starts[(q \div PagesPerSegment) + 1] + (q % PagesPerSegment) + 1].freeSpace
           nth(q) == Cardinality({r \in 0 .. (q - 1) : key(r) = key(q)})
           entry(q) == [key |-> key(q), page |-> q % PagesPerSegment, nth |-> nth(q)]
<1>5. freeMap' = {entry(q) : q \in 0 .. (hdrSize - 1)}
  BY <1>1, <1>3 DEF LoadedMap
<1>6. \A q \in 0 .. (hdrSize - 1) :
        entry(q).key = key(q) /\ entry(q).page = q % PagesPerSegment
  OBVIOUS
<1>7. \A q \in 0 .. (hdrSize - 1) : key(q) = file[q + 1].freeSpace
  <2>1. SUFFICES ASSUME NEW q \in 0 .. (hdrSize - 1)
                 PROVE  starts[(q \div PagesPerSegment) + 1] + (q % PagesPerSegment) + 1 = q + 1
    OBVIOUS
  <2>2. q \in Nat /\ q < Len(starts) * PagesPerSegment
    BY <1>3, <1>4
  <2>3. QED BY <1>3, <2>2, PageAfter
<1> HIDE DEF key, nth, entry
<1>8. Low'
  <2>1. \A q \in 0 .. (hdrSize - 1) : q % PagesPerSegment < PagesPerSegment
    BY <1>4
  <2>2. QED BY <1>5, <1>6, <2>1 DEF Low
<1>9. Somewhere'
  <2>1. freeMap' # {} => hdrSize > 0
    BY <1>4, <1>5
  <2>2. NumPages' = hdrSize
    BY <1>1, <1>3 DEF NumPages
  <2>3. QED BY <2>1, <2>2 DEF Somewhere
<1>10. Lows' /\ NoHoles' /\ Written' /\ SecondFinds'
  BY <1>2, <1>8 DEF Lows, NoHoles, Written, SecondFinds, Heading, Heads, TInv, Entries
<1>11. LastEmpty => Barren'
  <2>1. SUFFICES ASSUME LastEmpty PROVE Barren'
    OBVIOUS
  <2>2. hdrSize - PagesPerSegment \in 0 .. (hdrSize - 1)
    BY <1>4, <2>1 DEF LastEmpty
  <2>3. entry(hdrSize - PagesPerSegment).key = FullSpace
    BY <1>6, <1>7, <2>1, <2>2 DEF LastEmpty
  <2>4. Offered'
    BY <1>5, <2>2, <2>3 DEF Offered
  <2>5. \A t \in Threads : ~Heading(t)'
    BY <1>2 DEF Heading, Heads
  <2>6. QED BY <1>2, <1>8, <2>1, <2>4, <2>5 DEF Barren, LastEmpty
<1>12. QED BY <1>9, <1>10, <1>11 DEF Entries

\* What two inserting threads do.
LEMMA InserterSteps ==
  ASSUME Inserters, NEW t \in Threads, InsertStep(t) \/ CallStep(t)
  PROVE  InsertStep(t) \/ \E d \in Docs : CallInsert(t, d)
<1>1. ASSUME NEW r \in AskedRids
      PROVE  /\ ~Find(t, r) /\ ~FindCrash(t, r)
             /\ ~RemoveRefused(t, r) /\ ~RemoveRecord(t, r) /\ ~RemoveCrash(t, r)
  <2>1. ~CanRemove(t, r) /\ ~CanCall(t, "find")
    BY DEF Inserters, CanRemove, CanCall
  <2>2. QED BY <2>1 DEF Find, FindCrash, RemoveRefused, RemoveRecord, RemoveCrash
<1>2. QED BY <1>1 DEF CallStep

\* Every step keeps what is known of the entries, and a file that nobody extends
\* any more stays so.
LEMMA NextEntries ==
  ASSUME Inserters, TInv, [Next]_vars
  PROVE  Entries' /\ (Barren => Barren')
<1>1. Gentle /\ TwoFit
  BY DEF Inserters, Paired
<1>2. CASE InitNew \/ UNCHANGED vars
  <2>1. UNCHANGED <<file, hdrSize, state, body, freeMap, pc>>
    BY <1>2 DEF InitNew, vars, durable, process, threads
  <2>2. UNCHANGED <<Lows, Somewhere, NoHoles, Written, SecondFinds, Barren>>
    BY <2>1 DEF Lows, Low, Somewhere, NumPages, NoHoles, Written, SecondFinds, FirstOffer, PageFound,
                LastEmpty, Offered, Heading, Barren
  <2>3. QED BY <2>2 DEF TInv, Entries
<1>3. CASE LoadData
  BY <1>1, <1>3, LoadDataEntries DEF Barren
<1>4. CASE Kill
  BY <1>4, GoneEntries DEF Kill, Barren
<1>5. ASSUME NEW t \in Threads, InsertInPage(t) PROVE Entries' /\ (Barren => Barren')
  <2>1. Trying(t)
    BY <1>5 DEF InsertInPage
  <2>2. PICK e \in FirstFit(arg[t]) :
          InsertStore(t, e.page) \/ InsertRefused(t, e.page) \/ InsertCrash(t, e.page)
    BY <1>5 DEF InsertInPage
  <2>3. e.page \in Nat
    BY <2>1, FoundPage
  <2>4. CASE InsertStore(t, e.page)
    BY <1>1, <2>1, <2>4, StoreEntries
  <2>5. CASE InsertRefused(t, e.page)
    BY <1>1, <2>1, <2>3, <2>5, WaitEntries
  <2>6. CASE InsertCrash(t, e.page)
    BY <2>6, GoneEntries DEF InsertCrash, Crash, Barren
  <2>7. QED BY <2>2, <2>4, <2>5, <2>6
<1>6. ASSUME NEW t \in Threads, InsertStep(t) \/ CallStep(t)
      PROVE  Entries' /\ (Barren => Barren')
  <2>1. InsertStep(t) \/ \E d \in Docs : CallInsert(t, d)
    BY <1>6, InserterSteps
  <2>2. QED
    BY <1>1, <1>5, <2>1, WaitEntries, WritePageEntries, MapSegmentEntries, PublishEntries
       DEF InsertStep
<1>7. QED BY <1>2, <1>3, <1>4, <1>6 DEF Next

\* A thread that ends the process while the other one extends the file.
LEMMA GoneGrowing ==
  ASSUME Inserters, TInv, NEW t \in Threads, InsertStep(t) \/ CallStep(t), ProcessGone, Growing
  PROVE  Barren'
<1>1. PICK u \in Threads : pc[u] # "idle"
  BY DEF Growing
<1>2. state = "up" /\ state' # state
  BY <1>1, BusyIsUp DEF TInv, ProcessGone
<1>3. InsertInPage(t)
  <2>1. InsertStep(t) \/ \E d \in Docs : CallInsert(t, d)
    BY InserterSteps
  <2>2. QED
    BY <1>2, <2>1 DEF InsertStep, CallInsert, InsertNoPage, TryExtend, ExtendBusy, ExtendWait,
       GetSize, WritePage, WriteFails, MapSegment, ExtendFails, Publish, Unlock1, Unlock2, process
<1>4. PICK e \in FirstFit(arg[t]) :
        InsertStore(t, e.page) \/ InsertRefused(t, e.page) \/ InsertCrash(t, e.page)
  BY <1>3 DEF InsertInPage
<1>5. InsertCrash(t, e.page) /\ Trying(t)
  BY <1>2, <1>3, <1>4 DEF InsertInPage, InsertStore, InsertRefused, process
<1>6. LastEmpty
  BY <1>5, CrashEntries DEF Inserters, Paired
<1>7. QED BY <1>5, <1>6, GoneEntries DEF InsertCrash, Crash

LEMMA NextSound ==
  ASSUME Inserters, TInv, Sound, [Next]_vars
  PROVE  Sound'
<1>1. Gentle /\ ExtendExclusive /\ (Barren => Barren')
  BY ExclusiveBy, NextEntries DEF TInv, Inserters, Paired
<1>2. SUFFICES ASSUME ~Growing' PROVE Settled' \/ Barren'
  BY DEF Sound
<1>3. ASSUME ~Growing, hdrSize' = hdrSize, Len(file') = Len(file) PROVE Settled' \/ Barren'
  BY <1>1, <1>3 DEF Sound, Settled
<1>4. ASSUME NEW t \in Threads, InsertStep(t) \/ CallStep(t) PROVE Settled' \/ Barren'
  <2>1. CASE Extends(t)
    BY <1>1, <1>2, <1>4, <2>1, ExtensionEnds DEF TInv
  <2>2. CASE ~Extends(t)
    <3>1. hdrSize' = hdrSize /\ Len(file') = Len(file) /\ (Others(t) \/ ProcessGone)
      BY <1>4, <2>2, OtherStep DEF TInv
    <3>2. CASE Others(t)
      <4>1. ~Growing
        BY <1>2, <2>2, <3>2 DEF Growing, Extends, Others
      <4>2. QED BY <1>3, <3>1, <4>1
    <3>3. CASE ProcessGone /\ Growing
      BY <1>4, <3>3, GoneGrowing
    <3>4. QED BY <1>3, <3>1, <3>2, <3>3
  <2>3. QED BY <2>1, <2>2
<1>5. CASE Kill
  <2>1. ~Growing /\ UNCHANGED durable
    BY <1>5 DEF Kill, Inserters
  <2>2. QED BY <1>3, <2>1 DEF durable
<1>6. CASE InitNew \/ LoadData \/ UNCHANGED vars
  <2>1. UNCHANGED <<file, hdrSize, pc>>
    BY <1>6 DEF InitNew, LoadData, vars, durable, threads
  <2>2. QED BY <1>2, <1>3, <2>1 DEF Growing
<1>7. QED BY <1>4, <1>5, <1>6 DEF Next

LEMMA SoundIsSure == ASSUME TInv, Sound PROVE SizeIsSure
<1>1. SUFFICES ASSUME NEW t \in Threads, pc[t] = "getsize" PROVE Settled
  BY DEF SizeIsSure
<1>2. ~Growing
  BY <1>1, ExclusiveBy DEF Growing, ExtendExclusive, InExtend, TInv
<1>3. ~Barren
  BY <1>1, BusyIsUp DEF Barren, Heading, Heads, TInv
<1>4. QED BY <1>2, <1>3 DEF Sound

LEMMA NextTwo ==
  ASSUME Inserters
  PROVE  /\ TInv /\ Sound /\ [Next]_vars => TInv' /\ Sound' /\ [Store!Next]_(Store!vars)
         /\ TInv /\ Sound /\ Told /\ [Next]_vars => Told'
<1>1. Gentle /\ TwoFit /\ Trusted
  BY DEF Inserters, Paired, Trusted
<1>2. SUFFICES ASSUME TInv, Sound, [Next]_vars
               PROVE  /\ TInv' /\ Sound' /\ [Store!Next]_(Store!vars)
                      /\ Told => Told'
  OBVIOUS
<1>3. RInv' /\ (Adds \/ Removes)
  BY <1>1, <1>2, ExclusiveBy, SoundIsSure, NextStore DEF TInv
<1>4. ExtInv'
  BY <1>1, <1>2, NextExt DEF TInv, RInv
<1>5. Entries' /\ Sound'
  BY <1>2, NextEntries, NextSound
<1>6. Told => Told'
  BY <1>1, <1>2, <1>3, AckKept DEF TInv
<1>7. QED BY <1>3, <1>4, <1>5, <1>6, AddsIsNext, RemovesIsNext DEF TInv

LEMMA InitTwo == ASSUME Init PROVE TInv /\ Sound /\ Told /\ Store!Init
<1>1. RInv /\ Steady /\ Told /\ Store!Init
  BY InitStore
<1>2. ExtInv
  BY InitExt
<1>3. Entries /\ Sound
  BY <1>1 DEF Init, Entries, Lows, Low, Somewhere, NoHoles, Written, SecondFinds, Offered,
              Steady, Sound
<1>4. QED BY <1>1, <1>2, <1>3 DEF TInv

\* Two inserting threads are a record store, and place every segment where a restart
\* maps it, whatever the double unlock of _extendMutex, full disks and the crashes
\* it leads to do (dmsFile::insert, _extendSegment, _loadData).
THEOREM InsertersImplementStore ==
  ASSUME Inserters
  PROVE  Spec => ImplementsStore /\ []PlacementOK
<1>1. Init => TInv /\ Sound /\ Store!Init
  BY InitTwo
<1>2. TInv /\ Sound /\ [Next]_vars => TInv' /\ Sound' /\ [Store!Next]_(Store!vars)
  BY NextTwo
<1>3. TInv => PlacementOK
  BY DEF TInv, RInv, Shape
<1>4. QED BY <1>1, <1>2, <1>3, PTL DEF Spec, ImplementsStore, Store!Spec

\* What either of two inserting threads was told of is where a restart will look for
\* it, and is read by its rid (dmsFile::insert, find, _loadData).
THEOREM InsertersKeepAcked ==
  ASSUME Inserters
  PROVE  Spec => [](AckDurable /\ AckReadable)
<1>1. Init => TInv /\ Sound /\ Told
  BY InitTwo
<1>2. TInv /\ Sound /\ Told /\ [Next]_vars => TInv' /\ Sound' /\ Told'
  BY NextTwo
<1>3. TInv /\ Told => AckDurable /\ AckReadable
  <2>1. Gentle
    BY DEF Inserters, Paired
  <2>2. QED BY <2>1, AckRead DEF Told, TInv
<1>4. QED BY <1>1, <1>2, <1>3, PTL DEF Spec

--------------------------------------------------------------------------------
\* One thread.
LEMMA OneThreadNext ==
  ASSUME Benign
  PROVE  /\ RInv /\ Steady /\ [Next]_vars
              => RInv' /\ Steady' /\ [Store!Next]_(Store!vars)
         /\ RInv /\ Steady /\ Told /\ [Next]_vars => Told'
<1>1. Gentle /\ Trusted
  BY OneIsTrusted
<1>2. QED BY <1>1, OneThread, GentleNext

\* Every step of one thread, a kill and a restart is a step of the record store, or
\* changes nothing that it shows (dmsFile::insert, find, remove, initialize).
THEOREM ImplementsRecordStore ==
  ASSUME Benign
  PROVE  Spec => ImplementsStore
<1>1. Init => RInv /\ Steady /\ Store!Init
  BY InitStore
<1>2. RInv /\ Steady /\ [Next]_vars => RInv' /\ Steady' /\ [Store!Next]_(Store!vars)
  BY OneThreadNext
<1>3. QED BY <1>1, <1>2, PTL DEF Spec, ImplementsStore, Store!Spec

\* A record whose insert was acknowledged is where a restart will look for it
\* (dmsFile::insert, _loadData).
THEOREM AckedIsDurable ==
  ASSUME Benign
  PROVE  Spec => []AckDurable
<1>1. Init => RInv /\ Steady /\ Told
  BY InitStore
<1>2. RInv /\ Steady /\ Told /\ [Next]_vars => RInv' /\ Steady' /\ Told'
  BY OneThreadNext
<1>3. Told => AckDurable
  BY DEF Told
<1>4. QED BY <1>1, <1>2, <1>3, PTL DEF Spec

\* A segment is mapped where a restart maps it, and counted when it is mapped,
\* also after an extension failed (dmsFile::_extendSegment, _loadData).
THEOREM PlacedRight ==
  ASSUME Benign
  PROVE  Spec => []PlacementOK
<1>1. Init => RInv /\ Steady
  BY InitStore
<1>2. RInv /\ Steady /\ [Next]_vars => RInv' /\ Steady'
  BY OneThreadNext
<1>3. RInv => PlacementOK
  BY DEF RInv, Shape
<1>4. QED BY <1>1, <1>2, <1>3, PTL DEF Spec

\* A record whose insert was acknowledged is read by its rid through the mapped
\* segments (dmsFile::insert, find, pageToOffset).
THEOREM AckedIsReadable ==
  ASSUME Benign
  PROVE  Spec => []AckReadable
<1>1. Init => RInv /\ Steady /\ Told
  BY InitStore
<1>2. RInv /\ Steady /\ Told /\ [Next]_vars => RInv' /\ Steady' /\ Told'
  BY OneThreadNext
<1>3. RInv /\ Told => AckReadable
  BY AckRead, OneIsTrusted
<1>4. QED BY <1>1, <1>2, <1>3, PTL DEF Spec
================================================================================
