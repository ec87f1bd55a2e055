------------------------------- MODULE DmsPage -------------------------------
(***************************************************************************)
(* The layout of one page of a data file (dmsPageHeader, the slot array    *)
(* that grows up from it, the records that grow down from the page's end)  *)
(* and what dms/dmsFile.cpp reads and stores in it.  Sizes are in 4-byte   *)
(* words, the size of a slot: 7 words of page header, 2 of record header,  *)
(* 1 per slot, in a page of PageSize words (1048576 in the code).          *)
(***************************************************************************)
EXTENDS Integers, FiniteSetsExt

CONSTANTS PageSize,  \* DMS_PAGESIZE
          EyeWord,   \* the eye catcher "PAGH" read as an unsigned word
          Docs,      \* the documents
          DocSize    \* BSONObj::objsize() of each document, in words

HeaderSize == 7      \* sizeof(dmsPageHeader)
RecordHead == 2      \* sizeof(dmsRecord)
SlotSize   == 1      \* sizeof(SLOTID) = sizeof(SLOTOFF)

ASSUME PageAssumption ==
  /\ PageSize \in Nat /\ PageSize > HeaderSize
  /\ EyeWord \in Nat
  /\ DocSize \in [Docs -> Nat \ {0}]

SlotEmpty == -1                          \* DMS_SLOT_EMPTY, 0xFFFFFFFF
SlotIds   == 0 .. (PageSize - HeaderSize)
Offsets   == 0 .. PageSize

FullSpace == PageSize - HeaderSize       \* freeSpace of an initialised page
Need(d)   == DocSize[d] + RecordHead + SlotSize

Records == [off : Offsets, size : Nat \ {0}, doc : Docs, dropped : BOOLEAN]

Pages == [numSlots : Nat, slotOffset : Nat, freeSpace : Nat, freeOffset : Nat,
          slots : [SlotIds -> Offsets \cup {SlotEmpty}],
          heap : SUBSET Records]

\* A page of a grown file that nobody has written a header to.
ZeroPage == [numSlots |-> 0, slotOffset |-> 0, freeSpace |-> 0, freeOffset |-> 0,
             slots |-> [j \in SlotIds |-> 0], heap |-> {}]

\* What _extendSegment's memcpy of a page header leaves: the 7 header words
\* change and nothing else does.
WriteHeader(pg) ==
  [pg EXCEPT !.numSlots = 0, !.slotOffset = HeaderSize,
             !.freeSpace = FullSpace, !.freeOffset = PageSize]

End(h) == h.off + h.size

\* Records that a store to words lo .. hi-1 leaves intact.
Intact(heap, lo, hi) == {h \in heap : End(h) <= lo \/ h.off >= hi}

SlotPos(j) == HeaderSize + j * SlotSize

Gap(pg) == pg.freeOffset - pg.slotOffset

(***************************************************************************)
(* Reading                                                                 *)
(***************************************************************************)
\* _searchSlot accepts slot ids up to and including numSlots.
SlotInRange(pg, j) == j <= pg.numSlots

\* The word it then reads: the slot, or the size word of the record that starts
\* just past the last slot when the page is exactly full.
RawSlot(pg, j) ==
  LET there == {h \in pg.heap : h.off = SlotPos(j)}
  IN  IF there = {} THEN pg.slots[j] ELSE (CHOOSE h \in there : TRUE).size

RecordsAt(pg, off) == {h \in pg.heap : h.off = off}

Holds(pg, j) == j < pg.numSlots /\ pg.slots[j] # SlotEmpty

\* The document stored in slot j of the page.
DocIn(pg, j) == (CHOOSE h \in RecordsAt(pg, pg.slots[j]) : TRUE).doc

(***************************************************************************)
(* insert                                                                  *)
(***************************************************************************)
\* _recoverSpace is called when the free space is split and the gap is short.
MustRecover(pg, d) == pg.freeSpace > Gap(pg) /\ pg.slotOffset + Need(d) > pg.freeOffset

\* Mutant: _recoverSpace skips EMPTY slots, and still moves nothing.
RecoverSkips(pg) == FALSE

\* Its test is inverted: an EMPTY slot is followed as an offset, 4 GB past the
\* page, and the process dies; with none it moves nothing and resets freeOffset.
RecoverCrashes(pg) == \E j \in SlotIds : j < pg.numSlots /\ pg.slots[j] = SlotEmpty

Recovered(pg, d) == IF MustRecover(pg, d) THEN [pg EXCEPT !.freeOffset = PageSize] ELSE pg

\* Mutant: the record header and the slot are not counted.
FitsBodyOnly(pg, d) == pg.freeSpace >= DocSize[d] /\ Gap(pg) >= DocSize[d]

Fits(pg, d) == pg.freeSpace >= Need(d) /\ Gap(pg) >= Need(d)

\* The stores of insert, in the order of the code.
SlotStored(pg, d) ==
  LET off == pg.freeOffset - DocSize[d] - RecordHead
  IN  [pg EXCEPT !.slots[pg.numSlots] = off,
                 !.heap = Intact(@, SlotPos(pg.numSlots), SlotPos(pg.numSlots) + SlotSize)]

RecordStored(pg, d) ==
  LET size == DocSize[d] + RecordHead
      off  == pg.freeOffset - size
      new  == [off |-> off, size |-> size, doc |-> d, dropped |-> FALSE]
  IN  [pg EXCEPT !.heap = Intact(@, off, off + size) \cup {new}]

\* Mutants: numSlots is not counted up; the slot is not taken from the free space.
HeaderSameSlot(pg, d) ==
  [pg EXCEPT !.slotOffset = @ + SlotSize,
             !.freeOffset = @ - DocSize[d] - RecordHead,
             !.freeSpace  = @ - Need(d)]

HeaderFreeSlot(pg, d) ==
  [pg EXCEPT !.numSlots   = @ + 1,
             !.slotOffset = @ + SlotSize,
             !.freeOffset = @ - DocSize[d] - RecordHead,
             !.freeSpace  = @ - DocSize[d] - RecordHead]

HeaderUpdated(pg, d) ==
  [pg EXCEPT !.numSlots   = @ + 1,
             !.slotOffset = @ + SlotSize,
             !.freeOffset = @ - DocSize[d] - RecordHead,
             !.freeSpace  = @ - Need(d)]

StoreRecord(pg, d) == HeaderUpdated(RecordStored(SlotStored(pg, d), d), d)

(***************************************************************************)
(* remove                                                                  *)
(***************************************************************************)
\* The word an offset that names no record makes pass for a record's size: at
\* offset 0 it is the page header's eye catcher, which stands for any word.
StrayWord(pg) == IF pg.slotOffset = 0 THEN 0 ELSE EyeWord

\* The slot is emptied and the record flagged; its size goes back to the free
\* space, the slot does not.
DropRecord(pg, j) ==
  LET dead == RecordsAt(pg, RawSlot(pg, j))
      back == IF dead = {} THEN StrayWord(pg) ELSE (CHOOSE h \in dead : TRUE).size
      kept == Intact(pg.heap \ dead, SlotPos(j), SlotPos(j) + SlotSize)
  IN  [pg EXCEPT !.slots[j]  = SlotEmpty,
                 !.heap      = kept \cup {[h EXCEPT !.dropped = TRUE] : h \in dead},
                 !.freeSpace = @ + back]

(***************************************************************************)
(* What holds of a page                                                    *)
(***************************************************************************)
Slots(pg) == 0 .. (pg.numSlots - 1)

Live(pg) == {j \in Slots(pg) : pg.slots[j] # SlotEmpty}

\* The header agrees with the slots and leaves a gap between slots and records.
HeaderOK(pg) ==
  /\ pg.slotOffset = HeaderSize + pg.numSlots
  /\ pg.slotOffset <= pg.freeOffset
  /\ pg.freeOffset <= PageSize

\* Records lie in the page above the slots, apart from each other.
HeapOK(pg) ==
  /\ \A h \in pg.heap : pg.slotOffset <= h.off /\ End(h) <= PageSize
  /\ \A h, k \in pg.heap : h = k \/ End(h) <= k.off \/ End(k) <= h.off

\* A slot in use names a record that is not dropped, outside the gap that the
\* next insert takes its space from, and no other slot names it.
SlotsOK(pg) ==
  /\ \A j \in Live(pg) : /\ pg.freeOffset <= pg.slots[j]
                         /\ \E h \in pg.heap : h.off = pg.slots[j] /\ ~h.dropped
  /\ \A j, k \in Live(pg) : pg.slots[j] = pg.slots[k] => j = k

\* Free space is the gap until a record is removed, and never less: this is
\* why _recoverSpace is not called on a page without an EMPTY slot.
GapOK(pg) ==
  /\ Gap(pg) <= pg.freeSpace
  /\ Live(pg) = Slots(pg) => pg.freeSpace = Gap(pg)

PageOK(pg) ==
  pg = ZeroPage \/ (HeaderOK(pg) /\ HeapOK(pg) /\ SlotsOK(pg) /\ GapOK(pg))

\* Free space, slots and live records make up the page.
LiveRecords(pg) == {h \in pg.heap : \E j \in Live(pg) : h.off = pg.slots[j]}

SumOfSizes(S) == FoldSet(LAMBDA h, n : h.size + n, 0, S)

Accounted(pg) ==
  pg = ZeroPage \/ pg.freeSpace + pg.slotOffset + SumOfSizes(LiveRecords(pg)) = PageSize
================================================================================
