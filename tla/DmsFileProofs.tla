---------------------------- MODULE DmsFileProofs ----------------------------
(***************************************************************************)
(* TypeOK and LayoutOK are invariants of DmsFile for any number of threads, *)
(* any page, segment and disk size, any documents and any environment:     *)
(* whatever kills, failed writes and concurrent extensions do to the       *)
(* placement of segments, no page is ever laid out wrongly.  The calls are *)
(* those a caller can make with identifiers it was given: "remove_past" is *)
(* left out.                                                               *)
(***************************************************************************)
EXTENDS DmsFile, FiniteSetTheorems, SequenceTheorems, TLAPS

-----------------------------------------------------------------------------
(***************************************************************************)
(* What the operations of DmsPage do to the layout of a page, for every    *)
(* page size, every set of documents and every document size.              *)
(***************************************************************************)
\* The space a document takes is more than its slot.
LEMMA NeedType ==
  ASSUME NEW d \in Docs
  PROVE  /\ DocSize[d] \in Nat \ {0}
         /\ Need(d) = DocSize[d] + 3
  BY PageAssumption DEF Need, RecordHead, SlotSize

\* A page nobody has written to is laid out.
LEMMA ZeroPageOK == ZeroPage \in Pages /\ PageOK(ZeroPage)
  BY PageAssumption DEF ZeroPage, Pages, PageOK, SlotIds, Offsets, HeaderSize

\* Writing a page header over any page that is laid out leaves it laid out.
LEMMA WriteHeaderOK ==
  ASSUME NEW pg \in Pages, PageOK(pg)
  PROVE  WriteHeader(pg) \in Pages /\ PageOK(WriteHeader(pg))
<1> DEFINE new == WriteHeader(pg)
<1>1. /\ new.numSlots = 0 /\ new.slotOffset = HeaderSize
      /\ new.freeSpace = FullSpace /\ new.freeOffset = PageSize
      /\ new.heap = pg.heap /\ new.slots = pg.slots
  BY DEF WriteHeader, Pages
<1>2. new \in Pages
  <2>1. HeaderSize \in Nat /\ FullSpace \in Nat /\ PageSize \in Nat
    BY PageAssumption DEF HeaderSize, FullSpace
  <2>2. QED BY <2>1 DEF WriteHeader, Pages
<1>3. Slots(new) = {} /\ Live(new) = {}
  BY <1>1 DEF Slots, Live
<1>4. HeapOK(new)
  <2>1. CASE pg = ZeroPage
    BY <2>1, <1>1 DEF ZeroPage, HeapOK
  <2>2. CASE pg # ZeroPage
    BY <2>2, <1>1 DEF PageOK, HeapOK, HeaderOK, HeaderSize, Pages, Records, Offsets, End
  <2>3. QED BY <2>1, <2>2
<1>5. HeaderOK(new) /\ SlotsOK(new) /\ GapOK(new)
  BY <1>1, <1>3, PageAssumption DEF HeaderOK, SlotsOK, GapOK, Gap, HeaderSize, FullSpace
<1>6. QED BY <1>2, <1>4, <1>5 DEF PageOK

\* A page that is laid out and has no EMPTY slot is never sent to _recoverSpace,
\* so what insert works on is the page itself.
LEMMA RecoveredSame ==
  ASSUME NEW pg \in Pages, PageOK(pg), NEW d \in Docs,
         ~(MustRecover(pg, d) /\ RecoverCrashes(pg))
  PROVE  Recovered(pg, d) = pg
<1>1. SUFFICES ASSUME MustRecover(pg, d) PROVE FALSE
  BY DEF Recovered
<1>2. ~RecoverCrashes(pg)
  BY <1>1
<1>3. CASE pg = ZeroPage
  BY <1>1, <1>3 DEF MustRecover, ZeroPage, Gap
<1>4. CASE pg # ZeroPage
  <2>1. HeaderOK(pg) /\ GapOK(pg)
    BY <1>4 DEF PageOK
  <2>2. Slots(pg) \subseteq SlotIds
    BY <2>1, PageAssumption DEF HeaderOK, Slots, SlotIds, HeaderSize, Pages
  <2>3. Live(pg) = Slots(pg)
    BY <1>2, <2>2 DEF RecoverCrashes, Live, Slots, Pages
  <2>4. QED
    BY <1>1, <2>1, <2>3 DEF GapOK, MustRecover, Pages, Gap
<1>5. QED BY <1>3, <1>4

\* Storing a document that fits keeps the page laid out: the new record and the
\* new slot come out of the gap, where no record in use lies.
LEMMA StoreRecordOK ==
  ASSUME NEW pg \in Pages, PageOK(pg), NEW d \in Docs, Fits(pg, d)
  PROVE  StoreRecord(pg, d) \in Pages /\ PageOK(StoreRecord(pg, d))
<1> DEFINE size == DocSize[d] + RecordHead
           off  == pg.freeOffset - size
           pos  == SlotPos(pg.numSlots)
           rec  == [off |-> off, size |-> size, doc |-> d, dropped |-> FALSE]
           new  == StoreRecord(pg, d)
           rest == Intact(Intact(pg.heap, pos, pos + SlotSize), off, off + size)
<1>1. DocSize[d] \in Nat \ {0} /\ Need(d) = DocSize[d] + 3
  BY NeedType
<1>2. pg # ZeroPage
  BY <1>1 DEF Fits, ZeroPage
<1>3. HeaderOK(pg) /\ HeapOK(pg) /\ SlotsOK(pg) /\ GapOK(pg)
  BY <1>2 DEF PageOK
<1>4. /\ pg.numSlots \in Nat /\ pg.slotOffset \in Nat
      /\ pg.freeSpace \in Nat /\ pg.freeOffset \in Nat
      /\ pg.slots \in [SlotIds -> Offsets \cup {SlotEmpty}]
      /\ pg.heap \subseteq Records
  BY DEF Pages
<1>5. /\ pg.slotOffset = 7 + pg.numSlots /\ pos = 7 + pg.numSlots
      /\ size = DocSize[d] + 2 /\ size \in Nat \ {0}
      /\ pg.slotOffset + 1 <= off /\ off + size = pg.freeOffset
      /\ off \in Offsets /\ pg.numSlots \in SlotIds
      /\ pg.freeOffset <= PageSize
      /\ pg.freeSpace >= DocSize[d] + 3
  <2>1. pg.slotOffset = 7 + pg.numSlots /\ pg.freeOffset <= PageSize
    BY <1>3 DEF HeaderOK, HeaderSize
  <2>2. pos = 7 + pg.numSlots
    BY <1>4 DEF SlotPos, HeaderSize, SlotSize
  <2>3. size = DocSize[d] + 2 /\ size \in Nat \ {0}
    BY <1>1 DEF RecordHead
  <2>4. /\ pg.freeSpace >= DocSize[d] + 3
        /\ pg.freeOffset - pg.slotOffset >= DocSize[d] + 3
    BY <1>1 DEF Fits, Gap
  <2>5. pg.slotOffset + 1 <= off /\ off + size = pg.freeOffset
    BY <2>3, <2>4, <1>1, <1>4
  <2>6. off \in Int
    BY <2>3, <1>4
  <2>7. off \in 0 .. PageSize /\ pg.numSlots \in 0 .. (PageSize - 7)
    <3> HIDE DEF off, size
    <3>1. off <= pg.freeOffset
      BY <2>3, <2>5, <2>6, <1>4
    <3>2. PageSize \in Nat
      BY PageAssumption
    <3>3. QED BY <2>1, <2>5, <2>6, <3>1, <3>2, <1>4
  <2>8. off \in Offsets /\ pg.numSlots \in SlotIds
    BY <2>7 DEF Offsets, SlotIds, HeaderSize
  <2>9. QED BY <2>1, <2>2, <2>3, <2>4, <2>5, <2>8
<1>6. /\ new.numSlots = pg.numSlots + 1
      /\ new.slotOffset = pg.slotOffset + 1
      /\ new.freeOffset = off
      /\ new.freeSpace = pg.freeSpace - (DocSize[d] + 3)
      /\ new.slots = [pg.slots EXCEPT ![pg.numSlots] = off]
      /\ new.heap = rest \cup {rec}
  BY <1>1, <1>4, <1>5
     DEF StoreRecord, HeaderUpdated, RecordStored, SlotStored, SlotSize, RecordHead, Pages
<1>7. rest \subseteq pg.heap /\ rec \in Records
  BY <1>5 DEF Intact, Records
<1>8. new \in Pages
  <2>1. SlotStored(pg, d) \in Pages
    <3>1. [pg.slots EXCEPT ![pg.numSlots] = off] \in [SlotIds -> Offsets \cup {SlotEmpty}]
      BY <1>4, <1>5
    <3>2. Intact(pg.heap, pos, pos + SlotSize) \subseteq Records
      BY <1>4 DEF Intact
    <3>3. off = pg.freeOffset - DocSize[d] - RecordHead
      BY <1>1, <1>4 DEF RecordHead
    <3>4. QED BY <3>1, <3>2, <3>3 DEF SlotStored, Pages
  <2>2. SlotStored(pg, d).freeOffset = pg.freeOffset
    BY DEF SlotStored, Pages
  <2>3. RecordStored(SlotStored(pg, d), d) \in Pages
    BY <2>1, <2>2, <1>7 DEF RecordStored, Pages, Intact
  <2>4. /\ new.numSlots \in Nat /\ new.slotOffset \in Nat
        /\ new.freeOffset \in Nat /\ new.freeSpace \in Nat
    BY <1>1, <1>4, <1>5, <1>6 DEF Offsets
  <2>5. QED BY <2>3, <2>4 DEF StoreRecord, HeaderUpdated, Pages
<1>9. HeaderOK(new)
  BY <1>4, <1>5, <1>6, PageAssumption DEF HeaderOK, HeaderSize, Offsets
<1>10. HeapOK(new)
  <2>1. ASSUME NEW h \in new.heap
        PROVE  new.slotOffset <= h.off /\ End(h) <= PageSize
    <3>1. CASE h = rec
      BY <3>1, <1>4, <1>5, <1>6, PageAssumption DEF End, Offsets
    <3>2. CASE h \in rest
      <4>1. h \in pg.heap /\ h \in Records
        BY <3>2, <1>7, <1>4
      <4>2. pg.slotOffset <= h.off /\ End(h) <= PageSize
        BY <4>1, <1>3 DEF HeapOK
      <4>3. End(h) <= pos \/ h.off >= pos + 1
        BY <3>2 DEF Intact, SlotSize
      <4>4. h.off \in Nat /\ h.size \in Nat \ {0}
        BY <4>1 DEF Records, Offsets
      <4>5. h.off # pg.slotOffset
        BY <4>1, <4>3, <4>4, <1>3, <1>5 DEF End
      <4>6. QED
        BY <4>2, <4>4, <4>5, <1>4, <1>6
    <3>3. QED BY <3>1, <3>2, <1>6
  <2>2. ASSUME NEW h \in new.heap, NEW k \in new.heap
        PROVE  h = k \/ End(h) <= k.off \/ End(k) <= h.off
    <3>1. CASE h \in rest /\ k \in rest
      BY <3>1, <1>3, <1>7 DEF HeapOK
    <3>2. CASE h = rec /\ k \in rest
      BY <3>2, <1>5 DEF Intact, End
    <3>3. CASE k = rec /\ h \in rest
      BY <3>3, <1>5 DEF Intact, End
    <3>4. QED BY <3>1, <3>2, <3>3, <1>6
  <2>3. QED BY <2>1, <2>2 DEF HeapOK
<1>11. /\ Slots(new) = Slots(pg) \cup {pg.numSlots}
       /\ Live(new) = Live(pg) \cup {pg.numSlots}
       /\ \A j \in Live(pg) : j # pg.numSlots /\ j \in SlotIds /\ new.slots[j] = pg.slots[j]
       /\ new.slots[pg.numSlots] = off
  <2>1. Slots(new) = Slots(pg) \cup {pg.numSlots}
    BY <1>4, <1>6 DEF Slots
  <2>2. new.slots[pg.numSlots] = off /\ off # SlotEmpty
    BY <1>4, <1>5, <1>6 DEF Offsets, SlotEmpty
  <2>3. ASSUME NEW j \in Slots(pg)
        PROVE  j # pg.numSlots /\ j \in SlotIds /\ new.slots[j] = pg.slots[j]
    <3>1. j \in Nat /\ j < pg.numSlots
      BY <1>4 DEF Slots
    <3>2. j \in SlotIds
      BY <3>1, <1>4, <1>5, PageAssumption DEF SlotIds, HeaderSize
    <3>3. QED BY <3>1, <3>2, <1>4, <1>5, <1>6
  <2>4. QED BY <2>1, <2>2, <2>3 DEF Live
<1>12. SlotsOK(new)
  <2>1. ASSUME NEW j \in Live(pg)
        PROVE  /\ pg.freeOffset <= pg.slots[j] /\ pg.slots[j] \in Nat
               /\ \E h \in new.heap : h.off = pg.slots[j] /\ ~h.dropped
    <3>1. PICK h \in pg.heap : h.off = pg.slots[j] /\ ~h.dropped
      BY <1>3 DEF SlotsOK
    <3>2. pg.freeOffset <= pg.slots[j]
      BY <1>3 DEF SlotsOK
    <3>3. h \in rest
      BY <3>1, <3>2, <1>4, <1>5 DEF Intact, Records, Offsets, End, SlotSize
    <3>4. QED BY <3>1, <3>2, <3>3, <1>4, <1>6 DEF Records, Offsets
  <2>2. \A j \in Live(new) : /\ off <= new.slots[j]
                            /\ \E h \in new.heap : h.off = new.slots[j] /\ ~h.dropped
    <3>1. rec \in new.heap /\ rec.off = off /\ ~rec.dropped
      BY <1>6
    <3>2. ASSUME NEW j \in Live(pg)
          PROVE  off <= pg.slots[j]
      BY <2>1, <3>2, <1>4, <1>5
    <3>3. off <= off
      BY <1>4, <1>5
    <3>4. QED BY <2>1, <3>1, <3>2, <3>3, <1>11
  <2>3. ASSUME NEW j \in Live(new), NEW k \in Live(new), new.slots[j] = new.slots[k]
        PROVE  j = k
    <3>1. \A i \in Live(pg) : pg.slots[i] # off
      BY <2>1, <1>1, <1>4, <1>5
    <3>2. QED BY <2>3, <3>1, <1>3, <1>11 DEF SlotsOK
  <2>4. QED BY <2>2, <2>3, <1>6 DEF SlotsOK
<1>13. GapOK(new)
  BY <1>1, <1>3, <1>4, <1>5, <1>6, <1>11 DEF GapOK, Gap, Live, Slots
<1>14. QED BY <1>8, <1>9, <1>10, <1>12, <1>13 DEF PageOK

\* The word read for a slot in range is the slot: no record covers it.
LEMMA RawSlotIn ==
  ASSUME NEW pg \in Pages, PageOK(pg), NEW j \in Slots(pg)
  PROVE  /\ RawSlot(pg, j) = pg.slots[j]
         /\ Intact(pg.heap, SlotPos(j), SlotPos(j) + SlotSize) = pg.heap
<1>1. pg # ZeroPage
  BY DEF Slots, ZeroPage
<1>2. HeaderOK(pg) /\ HeapOK(pg)
  BY <1>1 DEF PageOK
<1>3. SlotPos(j) \in Nat /\ SlotPos(j) + SlotSize <= pg.slotOffset
  BY <1>2 DEF HeaderOK, Slots, SlotPos, SlotSize, HeaderSize, Pages
<1>4. \A h \in pg.heap : h.off \in Nat /\ SlotPos(j) + SlotSize <= h.off
  BY <1>2, <1>3 DEF HeapOK, Pages, Records, Offsets, SlotSize
<1>5. {h \in pg.heap : h.off = SlotPos(j)} = {}
  BY <1>3, <1>4 DEF SlotSize
<1>6. QED BY <1>4, <1>5 DEF RawSlot, Intact

\* Removing the record of a slot in use keeps the page laid out: the slot is
\* EMPTY, the other slots keep their records.
LEMMA DropRecordOK ==
  ASSUME NEW pg \in Pages, PageOK(pg), NEW j \in Live(pg)
  PROVE  DropRecord(pg, j) \in Pages /\ PageOK(DropRecord(pg, j))
<1> DEFINE dead == RecordsAt(pg, pg.slots[j])
           back == (CHOOSE h \in dead : TRUE).size
           gone == {[h EXCEPT !.dropped = TRUE] : h \in dead}
           new  == DropRecord(pg, j)
<1>1. /\ pg.numSlots \in Nat /\ pg.slotOffset \in Nat
      /\ pg.freeSpace \in Nat /\ pg.freeOffset \in Nat
      /\ pg.slots \in [SlotIds -> Offsets \cup {SlotEmpty}]
      /\ pg.heap \subseteq Records
  BY DEF Pages
<1>2. j \in Slots(pg) /\ pg # ZeroPage
  BY DEF Live, Slots, ZeroPage
<1>3. HeaderOK(pg) /\ HeapOK(pg) /\ SlotsOK(pg) /\ GapOK(pg)
  BY <1>2 DEF PageOK
<1>4. j \in SlotIds
  BY <1>1, <1>2, <1>3, PageAssumption DEF SlotIds, Slots, HeaderOK, HeaderSize
<1>5. PICK victim \in pg.heap : victim.off = pg.slots[j]
  BY <1>3 DEF SlotsOK
<1>6. dead = {victim}
  BY <1>1, <1>3, <1>5 DEF RecordsAt, HeapOK, End, Records, Offsets
<1>7. back = victim.size /\ back \in Nat
  BY <1>1, <1>6 DEF Records
<1>8. /\ new.numSlots = pg.numSlots /\ new.slotOffset = pg.slotOffset
      /\ new.freeOffset = pg.freeOffset
      /\ new.freeSpace = pg.freeSpace + back
      /\ new.slots = [pg.slots EXCEPT ![j] = SlotEmpty]
      /\ new.heap = (pg.heap \ dead) \cup gone
  <2>1. RawSlot(pg, j) = pg.slots[j] /\ Intact(pg.heap, SlotPos(j), SlotPos(j) + SlotSize) = pg.heap
    BY <1>2, RawSlotIn
  <2>2. Intact(pg.heap \ dead, SlotPos(j), SlotPos(j) + SlotSize) = pg.heap \ dead
    BY <2>1 DEF Intact
  <2>3. dead # {}
    BY <1>6
  <2>4. new = [pg EXCEPT !.slots[j] = SlotEmpty,
                         !.heap = (pg.heap \ dead) \cup gone,
                         !.freeSpace = pg.freeSpace + back]
    BY <2>1, <2>2, <2>3 DEF DropRecord
  <2> HIDE DEF new, dead, gone, back
  <2>5. QED BY <2>4 DEF Pages
<1>9. /\ gone = {[victim EXCEPT !.dropped = TRUE]} /\ gone \subseteq Records
      /\ \A h \in gone : h.off = victim.off /\ h.size = victim.size
  <2>1. gone = {[victim EXCEPT !.dropped = TRUE]}
    BY <1>6
  <2>2. victim \in Records
    BY <1>1, <1>5
  <2>3. /\ [victim EXCEPT !.dropped = TRUE] \in Records
        /\ [victim EXCEPT !.dropped = TRUE].off = victim.off
        /\ [victim EXCEPT !.dropped = TRUE].size = victim.size
    BY <2>2 DEF Records
  <2>4. QED BY <2>1, <2>3
<1>10. new \in Pages
  <2>1. new.slots \in [SlotIds -> Offsets \cup {SlotEmpty}] /\ new.heap \subseteq Records
    BY <1>1, <1>4, <1>8, <1>9
  <2>2. new.freeSpace \in Nat
    BY <1>1, <1>7, <1>8
  <2>3. QED BY <1>1, <1>8, <2>1, <2>2 DEF DropRecord, Pages
<1>11. HeaderOK(new)
  BY <1>3, <1>8 DEF HeaderOK
<1>12. HeapOK(new)
  <2>1. \A h \in new.heap : \E k \in pg.heap :
           /\ h.off = k.off /\ h.size = k.size
           /\ (h \in gone /\ k = victim) \/ (h = k /\ h # victim)
    BY <1>5, <1>6, <1>8, <1>9
  <2>2. QED BY <2>1, <1>3, <1>8, <1>9 DEF HeapOK, End
<1>13. /\ Slots(new) = Slots(pg)
       /\ Live(new) = Live(pg) \ {j}
       /\ \A k \in Live(new) : new.slots[k] = pg.slots[k]
  BY <1>1, <1>4, <1>8 DEF Slots, Live
<1>14. SlotsOK(new)
  <2>1. ASSUME NEW k \in Live(new)
        PROVE  \E h \in new.heap : h.off = new.slots[k] /\ ~h.dropped
    <3>1. k \in Live(pg) /\ k # j /\ new.slots[k] = pg.slots[k]
      BY <1>13
    <3>2. PICK h \in pg.heap : h.off = pg.slots[k] /\ ~h.dropped
      BY <3>1, <1>3 DEF SlotsOK
    <3>3. h # victim
      BY <3>1, <3>2, <1>3, <1>5 DEF SlotsOK
    <3>4. QED BY <3>1, <3>2, <3>3, <1>6, <1>8
  <2>2. QED BY <2>1, <1>3, <1>8, <1>13 DEF SlotsOK
<1>15. GapOK(new)
  BY <1>1, <1>2, <1>3, <1>7, <1>8, <1>13 DEF GapOK, Gap
<1>16. QED BY <1>10, <1>11, <1>12, <1>14, <1>15 DEF PageOK

(***************************************************************************)
(* The sizes of the records of a page: what SumOfSizes gives for every     *)
(* finite set, by induction over its subsets.                              *)
(***************************************************************************)

\* The equation of the recursive function that SumOfSizes is read from: the
\* record it takes out of a set, and the sum over the set that is left.
Taken(s)   == CHOOSE h \in s : TRUE
Rest(s)    == s \ {Taken(s)}
Sums(g, S) == g = [s \in SUBSET S |-> IF s = {} THEN 0 ELSE Taken(s).size + g[Rest(s)]]
SumOn(S)   == CHOOSE g : Sums(g, S)

\* Two functions that agree on the subsets of T.
Agree(g, h, T) == \A s \in SUBSET T : g[s] = h[s]

\* SumOfSizes reads the sum of a set off the function of its subsets.
LEMMA SumUnfold == ASSUME NEW S PROVE SumOfSizes(S) = SumOn(S)[S]
  BY DEF SumOfSizes, FoldSet, MapThenFoldSet, SumOn, Sums, Taken, Rest

\* The record taken out of a set is one of its members.
LEMMA TakenIn ==
  ASSUME NEW s, s # {}
  PROVE  Taken(s) \in s /\ Rest(s) \subseteq s /\ Rest(s) # s
  BY DEF Taken, Rest

\* A set of subsets of a finite set has a member with no smaller member: what
\* the inductions below rest on.
LEMMA SmallestSet ==
  ASSUME NEW S, IsFiniteSet(S), NEW bad, bad \subseteq SUBSET S, bad # {}
  PROVE  \E s \in bad : \A u \in bad : u \subseteq s => u = s
<1>1. FiniteSubsetsOf(S) = SUBSET S
  BY FS_FiniteSubsetsOfFinite
<1>2. IsWellFoundedOn(StrictSubsetOrdering(S), SUBSET S)
  BY <1>1, FS_StrictSubsetOrderingWellFounded
<1>3. PICK s \in bad : \A u \in bad : <<u, s>> \notin StrictSubsetOrdering(S)
  BY <1>2, WFMin
<1>4. \A u \in bad : u \subseteq s => u = s
  BY <1>3 DEF StrictSubsetOrdering
<1>5. QED BY <1>4

\* The equation has one solution.
LEMMA SumUnique ==
  ASSUME NEW S, NEW T, T \subseteq S, IsFiniteSet(T), NEW g, Sums(g, S), NEW h, Sums(h, T)
  PROVE  Agree(g, h, T)
<1> DEFINE bad == {s \in SUBSET T : g[s] # h[s]}
<1>1. SUFFICES ASSUME bad # {} PROVE FALSE
  BY DEF Agree
<1>2. PICK s \in bad : \A u \in bad : u \subseteq s => u = s
  <2>1. bad \subseteq SUBSET T
    OBVIOUS
  <2> HIDE DEF bad
  <2>2. QED BY <1>1, <2>1, SmallestSet
<1>3. s \in SUBSET T /\ s \in SUBSET S
  BY <1>2
<1>4. g[s] = IF s = {} THEN 0 ELSE Taken(s).size + g[Rest(s)]
  BY <1>3 DEF Sums
<1>5. h[s] = IF s = {} THEN 0 ELSE Taken(s).size + h[Rest(s)]
  BY <1>3 DEF Sums
<1>6. CASE s = {}
  BY <1>2, <1>4, <1>5, <1>6
<1>7. CASE s # {}
  <2>1. Rest(s) \subseteq s /\ Rest(s) # s
    BY <1>7, TakenIn
  <2>2. g[Rest(s)] = h[Rest(s)]
    BY <1>2, <1>3, <2>1
  <2>3. QED BY <1>2, <1>4, <1>5, <1>7, <2>2
<1>8. QED BY <1>6, <1>7

\* It has a solution: the sum over a set is put together from the solutions for
\* the smaller sets, which agree.
LEMMA SumExists ==
  ASSUME NEW S, IsFiniteSet(S)
  PROVE  Sums(SumOn(S), S)
<1> DEFINE bad == {s \in SUBSET S : ~\E g : Sums(g, s)}
<1>1. SUFFICES ASSUME bad # {} PROVE FALSE
  <2>1. SUFFICES ASSUME bad = {} PROVE Sums(SumOn(S), S)
    OBVIOUS
  <2>2. \E g : Sums(g, S)
    BY <2>1
  <2>3. QED BY <2>2 DEF SumOn
<1>2. PICK T \in bad : \A u \in bad : u \subseteq T => u = T
  <2>1. bad \subseteq SUBSET S
    OBVIOUS
  <2> HIDE DEF bad
  <2>2. QED BY <1>1, <2>1, SmallestSet
<1>3. T \in SUBSET S /\ ~\E g : Sums(g, T)
  BY <1>2
<1>4. ASSUME NEW u \in SUBSET T, u # T
      PROVE  Sums(SumOn(u), u) /\ IsFiniteSet(u)
  <2>1. u \in SUBSET S /\ u \notin bad
    BY <1>2, <1>3, <1>4
  <2>2. \E g : Sums(g, u)
    BY <2>1
  <2>3. QED BY <2>1, <2>2, FS_Subset DEF SumOn
<1> DEFINE sum(u) == IF u = {} THEN 0 ELSE Taken(u).size + SumOn(Rest(u))[Rest(u)]
           g == [u \in SUBSET T |-> sum(u)]
<1>5. ASSUME NEW u \in SUBSET T, u # T
      PROVE  SumOn(u)[u] = sum(u)
  <2>1. Sums(SumOn(u), u)
    BY <1>4, <1>5
  <2>2. SumOn(u)[u] = IF u = {} THEN 0 ELSE Taken(u).size + SumOn(u)[Rest(u)]
    <3> DEFINE f == SumOn(u)
    <3>1. f = [s \in SUBSET u |-> IF s = {} THEN 0 ELSE Taken(s).size + f[Rest(s)]]
      BY <2>1 DEF Sums
    <3> HIDE DEF f
    <3>2. u \in SUBSET u
      OBVIOUS
    <3>3. f[u] = IF u = {} THEN 0 ELSE Taken(u).size + f[Rest(u)]
      BY <3>1, <3>2
    <3>4. QED BY <3>3 DEF f
  <2>3. CASE u # {}
    <3>1. Rest(u) \in SUBSET u /\ Rest(u) \in SUBSET T /\ Rest(u) # T
      BY <1>5, <2>3, TakenIn
    <3>2. Sums(SumOn(Rest(u)), Rest(u)) /\ IsFiniteSet(Rest(u))
      BY <1>4, <3>1
    <3>3. Agree(SumOn(u), SumOn(Rest(u)), Rest(u))
      BY <2>1, <3>1, <3>2, SumUnique
    <3>4. SumOn(u)[Rest(u)] = SumOn(Rest(u))[Rest(u)]
      BY <3>3 DEF Agree
    <3>5. QED BY <2>2, <2>3, <3>4
  <2>4. QED BY <2>2, <2>3
<1>6. ASSUME NEW u \in SUBSET T
      PROVE  g[u] = IF u = {} THEN 0 ELSE Taken(u).size + g[Rest(u)]
  <2>1. CASE u # {}
    <3>1. Rest(u) \in SUBSET T /\ Rest(u) # T
      BY <2>1, TakenIn
    <3>2. g[Rest(u)] = SumOn(Rest(u))[Rest(u)]
      BY <1>5, <3>1
    <3>3. QED BY <2>1, <3>2
  <2>2. QED BY <2>1
<1>7. Sums(g, T)
  <2>1. g = [u \in SUBSET T |-> g[u]]
    OBVIOUS
  <2> HIDE DEF g
  <2>2. QED BY <1>6, <2>1 DEF Sums
<1>8. QED BY <1>3, <1>7

\* The records of an empty set take no words.
LEMMA SumEmpty == SumOfSizes({}) = 0
<1>1. Sums(SumOn({}), {})
  BY SumExists, FS_EmptySet
<1>2. SumOn({})[{}] = 0
  <2> DEFINE f == SumOn({})
  <2>1. f = [s \in SUBSET {} |-> IF s = {} THEN 0 ELSE Taken(s).size + f[Rest(s)]]
    BY <1>1 DEF Sums
  <2> HIDE DEF f
  <2>2. f[{}] = 0
    BY <2>1
  <2>3. QED BY <2>2 DEF f
<1>3. QED BY <1>2, SumUnfold

\* The sum over a set is that of the record taken out and of the others.
LEMMA SumTaken ==
  ASSUME NEW S, IsFiniteSet(S), S # {}
  PROVE  SumOfSizes(S) = Taken(S).size + SumOfSizes(Rest(S))
<1> DEFINE f == SumOn(S)
<1>1. Rest(S) \in SUBSET S /\ IsFiniteSet(Rest(S))
  BY TakenIn, FS_Subset
<1>2. Sums(f, S) /\ Sums(SumOn(Rest(S)), Rest(S))
  BY <1>1, SumExists
<1>3. f = [s \in SUBSET S |-> IF s = {} THEN 0 ELSE Taken(s).size + f[Rest(s)]]
  BY <1>2 DEF Sums
<1>4. f[Rest(S)] = SumOn(Rest(S))[Rest(S)]
  <2>1. Agree(f, SumOn(Rest(S)), Rest(S))
    BY <1>1, <1>2, SumUnique
  <2>2. QED BY <2>1 DEF Agree
<1>5. f[Rest(S)] = SumOfSizes(Rest(S))
  BY <1>4, SumUnfold
<1>6. f[S] = SumOfSizes(S)
  BY SumUnfold
<1> HIDE DEF f
<1>7. QED BY <1>3, <1>5, <1>6

\* Every record of a set has a size.
Sized(S) == \A h \in S : h.size \in Nat

\* The sum over a finite set of records is a natural number.
LEMMA SumNat ==
  ASSUME NEW S, IsFiniteSet(S), Sized(S)
  PROVE  SumOfSizes(S) \in Nat
<1> DEFINE bad == {s \in SUBSET S : SumOfSizes(s) \notin Nat}
<1>1. SUFFICES ASSUME bad # {} PROVE FALSE
  OBVIOUS
<1>2. PICK s \in bad : \A u \in bad : u \subseteq s => u = s
  <2>1. bad \subseteq SUBSET S
    OBVIOUS
  <2> HIDE DEF bad
  <2>2. QED BY <1>1, <2>1, SmallestSet
<1>3. s \in SUBSET S /\ IsFiniteSet(s) /\ s # {}
  <2>1. s \in SUBSET S /\ SumOfSizes(s) \notin Nat
    BY <1>2
  <2>2. IsFiniteSet(s)
    BY <2>1, FS_Subset
  <2>3. s # {}
    BY <2>1, SumEmpty
  <2>4. QED BY <2>1, <2>2, <2>3
<1>4. Taken(s) \in s /\ Rest(s) \subseteq s /\ Rest(s) # s
  BY <1>3, TakenIn
<1>5. SumOfSizes(Rest(s)) \in Nat
  BY <1>2, <1>3, <1>4
<1>6. SumOfSizes(s) = Taken(s).size + SumOfSizes(Rest(s))
  BY <1>3, SumTaken
<1>7. Taken(s).size \in Nat
  BY <1>3, <1>4 DEF Sized
<1>8. QED BY <1>2, <1>5, <1>6, <1>7

\* Any member of a set can be taken out of its sum, not only the one that is
\* taken first.
LEMMA SumRemove ==
  ASSUME NEW S, IsFiniteSet(S), Sized(S), NEW h \in S
  PROVE  SumOfSizes(S) = h.size + SumOfSizes(S \ {h})
<1> DEFINE bad == {s \in SUBSET S : \E k \in s : SumOfSizes(s) # k.size + SumOfSizes(s \ {k})}
<1>1. SUFFICES ASSUME bad # {} PROVE FALSE
  <2>1. SUFFICES ASSUME bad = {} PROVE SumOfSizes(S) = h.size + SumOfSizes(S \ {h})
    OBVIOUS
  <2>2. S \notin bad
    BY <2>1
  <2>3. QED BY <2>2
<1>2. PICK s \in bad : \A u \in bad : u \subseteq s => u = s
  <2>1. bad \subseteq SUBSET S
    OBVIOUS
  <2> HIDE DEF bad
  <2>2. QED BY <1>1, <2>1, SmallestSet
<1>3. s \in SUBSET S
  BY <1>2
<1>4. PICK k \in s : SumOfSizes(s) # k.size + SumOfSizes(s \ {k})
  BY <1>2
<1> DEFINE c == Taken(s)
<1>5. c \in s /\ Rest(s) = s \ {c}
  BY <1>4 DEF Taken, Rest
<1>6. IsFiniteSet(s) /\ IsFiniteSet(s \ {k}) /\ IsFiniteSet(s \ {c}) /\ IsFiniteSet((s \ {c}) \ {k})
  BY <1>3, FS_Subset
<1>7. SumOfSizes(s) = c.size + SumOfSizes(s \ {c})
  BY <1>4, <1>5, <1>6, SumTaken
<1>8. c # k
  BY <1>4, <1>7
<1>9. SumOfSizes(s \ {c}) = k.size + SumOfSizes((s \ {c}) \ {k})
  <2>1. s \ {c} \notin bad /\ s \ {c} \in SUBSET S /\ k \in s \ {c}
    BY <1>2, <1>3, <1>4, <1>5, <1>8
  <2>2. QED BY <2>1
<1>10. SumOfSizes(s \ {k}) = c.size + SumOfSizes((s \ {k}) \ {c})
  <2>1. s \ {k} \notin bad /\ s \ {k} \in SUBSET S /\ c \in s \ {k}
    BY <1>2, <1>3, <1>4, <1>5, <1>8
  <2>2. QED BY <2>1
<1>11. (s \ {c}) \ {k} = (s \ {k}) \ {c}
  OBVIOUS
<1>12. SumOfSizes((s \ {c}) \ {k}) \in Nat /\ c.size \in Nat /\ k.size \in Nat
  <2>1. Sized((s \ {c}) \ {k})
    BY <1>3 DEF Sized
  <2>2. QED BY <1>3, <1>4, <1>5, <1>6, <2>1, SumNat DEF Sized
<1> DEFINE both == SumOfSizes((s \ {c}) \ {k})
<1>13. /\ SumOfSizes(s) = c.size + (k.size + both)
       /\ SumOfSizes(s \ {k}) = c.size + both
  BY <1>7, <1>9, <1>10, <1>11
<1>14. both \in Nat
  BY <1>12
<1> HIDE DEF c, both
<1>15. QED BY <1>4, <1>12, <1>13, <1>14

\* A record added to a set adds its size to the sum.
LEMMA SumAdd ==
  ASSUME NEW S, IsFiniteSet(S), Sized(S), NEW h, h.size \in Nat, h \notin S
  PROVE  SumOfSizes(S \cup {h}) = h.size + SumOfSizes(S)
<1>1. IsFiniteSet(S \cup {h}) /\ Sized(S \cup {h})
  BY FS_AddElement DEF Sized
<1>2. (S \cup {h}) \ {h} = S
  OBVIOUS
<1>3. QED BY <1>1, <1>2, SumRemove

(***************************************************************************)
(* The space of a page is accounted for.                                   *)
(***************************************************************************)

\* A slot in use names the one record at its offset.
LEMMA RecordOf ==
  ASSUME NEW pg \in Pages, PageOK(pg), NEW j \in Live(pg)
  PROVE  \E h \in pg.heap : /\ h.off = pg.slots[j] /\ ~h.dropped
                            /\ RecordsAt(pg, pg.slots[j]) = {h}
                            /\ DocIn(pg, j) = h.doc /\ h.doc \in Docs
<1>1. pg # ZeroPage
  BY DEF Live, Slots, ZeroPage
<1>2. HeapOK(pg) /\ SlotsOK(pg)
  BY <1>1 DEF PageOK
<1>3. PICK h \in pg.heap : h.off = pg.slots[j] /\ ~h.dropped
  BY <1>2 DEF SlotsOK
<1>4. pg.heap \subseteq Records
  BY DEF Pages
<1>5. RecordsAt(pg, pg.slots[j]) = {h}
  BY <1>2, <1>3, <1>4 DEF RecordsAt, HeapOK, End, Records, Offsets
<1>6. DocIn(pg, j) = h.doc
  BY <1>5 DEF DocIn
<1>7. QED BY <1>3, <1>4, <1>5, <1>6 DEF Records

\* The records of a page start at offsets of their own, so there are finitely
\* many of them.
LEMMA HeapFinite ==
  ASSUME NEW pg \in Pages, PageOK(pg)
  PROVE  /\ IsFiniteSet(pg.heap) /\ IsFiniteSet(LiveRecords(pg))
         /\ Sized(LiveRecords(pg)) /\ LiveRecords(pg) \subseteq Records
<1>1. pg.heap \subseteq Records
  BY DEF Pages
<1>2. IsFiniteSet(pg.heap)
  <2>1. CASE pg = ZeroPage
    BY <2>1, FS_EmptySet DEF ZeroPage
  <2>2. CASE pg # ZeroPage
    <3> DEFINE off == [h \in pg.heap |-> h.off]
    <3>1. \A h, k \in pg.heap : h.off = k.off => h = k
      BY <1>1, <2>2 DEF PageOK, HeapOK, End, Records, Offsets
    <3>2. off \in [pg.heap -> Offsets]
      BY <1>1 DEF Records
    <3>3. off \in Injection(pg.heap, Offsets)
      BY <3>1, <3>2 DEF Injection, IsInjective
    <3>4. IsFiniteSet(Offsets)
      BY PageAssumption, FS_Interval DEF Offsets
    <3>5. QED BY <3>3, <3>4, FS_Injection
  <2>3. QED BY <2>1, <2>2
<1>3. LiveRecords(pg) \subseteq pg.heap
  BY DEF LiveRecords
<1>4. QED BY <1>1, <1>2, <1>3, FS_Subset DEF Sized, Records

\* Nothing is promised about the space of a page without a header.
LEMMA ZeroAccounted == Accounted(ZeroPage)
  BY DEF Accounted

\* Writing a page header gives all the page's space back, whatever it held.
LEMMA WriteHeaderAccounted ==
  ASSUME NEW pg \in Pages
  PROVE  Accounted(WriteHeader(pg))
<1> DEFINE new == WriteHeader(pg)
<1>1. new.freeSpace = FullSpace /\ new.slotOffset = HeaderSize /\ new.numSlots = 0
  BY DEF WriteHeader, Pages
<1>2. LiveRecords(new) = {}
  BY <1>1 DEF LiveRecords, Live, Slots
<1> HIDE DEF new
<1>3. FullSpace + HeaderSize + SumOfSizes(LiveRecords(new)) = PageSize
  BY <1>2, SumEmpty, PageAssumption DEF FullSpace, HeaderSize
<1>4. QED BY <1>1, <1>3 DEF Accounted, new

\* Storing a document: the new record ends where the free offset was, the new
\* slot names it, and every record at or above that offset stays.
LEMMA StoreRecordParts ==
  ASSUME NEW pg \in Pages, PageOK(pg), NEW d \in Docs, Fits(pg, d)
  PROVE  \E rec \in Records :
           LET new == StoreRecord(pg, d)
           IN  /\ rec.size = DocSize[d] + 2 /\ rec.off < pg.freeOffset
               /\ new.freeSpace = pg.freeSpace - (DocSize[d] + 3)
               /\ new.slotOffset = pg.slotOffset + 1
               /\ Live(new) = Live(pg) \cup {pg.numSlots}
               /\ new.slots[pg.numSlots] = rec.off
               /\ \A j \in Live(pg) : new.slots[j] = pg.slots[j] /\ j # pg.numSlots
               /\ rec \in new.heap /\ new.heap \subseteq pg.heap \cup {rec}
               /\ \A h \in pg.heap : h.off >= pg.freeOffset => h \in new.heap
<1> DEFINE size == DocSize[d] + RecordHead
           off  == pg.freeOffset - size
           pos  == SlotPos(pg.numSlots)
           rec  == [off |-> off, size |-> size, doc |-> d, dropped |-> FALSE]
           new  == StoreRecord(pg, d)
           rest == Intact(Intact(pg.heap, pos, pos + SlotSize), off, off + size)
<1>1. DocSize[d] \in Nat \ {0} /\ Need(d) = DocSize[d] + 3
  BY NeedType
<1>2. HeaderOK(pg)
  BY <1>1 DEF Fits, ZeroPage, PageOK
<1>3. /\ pg.numSlots \in Nat /\ pg.slotOffset \in Nat
      /\ pg.freeSpace \in Nat /\ pg.freeOffset \in Nat
      /\ pg.slots \in [SlotIds -> Offsets \cup {SlotEmpty}]
      /\ pg.heap \subseteq Records
  BY DEF Pages
<1>4. /\ pg.slotOffset = 7 + pg.numSlots /\ pos = 7 + pg.numSlots
      /\ pg.freeOffset <= PageSize /\ PageSize \in Nat
      /\ size = DocSize[d] + 2
      /\ pg.freeOffset - pg.slotOffset >= DocSize[d] + 3
  BY <1>1, <1>2, <1>3, PageAssumption
     DEF HeaderOK, HeaderSize, SlotPos, SlotSize, RecordHead, Fits, Gap
<1>5. /\ pg.numSlots \in SlotIds /\ off \in Nat /\ off + size = pg.freeOffset
      /\ size \in Nat \ {0} /\ pos + 1 <= off /\ off < pg.freeOffset
  <2>1. size \in Nat \ {0} /\ off + size = pg.freeOffset /\ off \in Int
    BY <1>1, <1>3, <1>4
  <2>2. pos + 1 <= off
    BY <1>1, <1>3, <1>4
  <2> HIDE DEF off, size, pos
  <2>3. off \in Nat /\ off < pg.freeOffset /\ pg.numSlots \in 0 .. (PageSize - 7)
    BY <1>3, <1>4, <2>1, <2>2
  <2>4. QED BY <2>1, <2>2, <2>3 DEF SlotIds, HeaderSize
<1>6. rec \in Records
  BY <1>3, <1>4, <1>5 DEF Records, Offsets
<1>7. /\ new.numSlots = pg.numSlots + 1
      /\ new.slotOffset = pg.slotOffset + 1
      /\ new.freeSpace = pg.freeSpace - (DocSize[d] + 3)
      /\ new.slots = [pg.slots EXCEPT ![pg.numSlots] = off]
      /\ new.heap = rest \cup {rec}
  BY <1>1, <1>3, <1>4
     DEF StoreRecord, HeaderUpdated, RecordStored, SlotStored, SlotSize, RecordHead, Pages
<1>8. /\ rest \subseteq pg.heap
      /\ \A h \in pg.heap : h.off >= pg.freeOffset => h \in rest
  <2>1. rest \subseteq pg.heap
    BY DEF Intact
  <2>2. ASSUME NEW h \in pg.heap, h.off >= pg.freeOffset
        PROVE  h \in rest
    <3>1. h.off \in Nat
      BY <1>3 DEF Records, Offsets
    <3>2. h.off >= off + size /\ h.off >= pos + SlotSize
      BY <1>3, <1>4, <1>5, <2>2, <3>1 DEF SlotSize
    <3> HIDE DEF off, size, pos
    <3>3. QED BY <3>2 DEF Intact
  <2>3. QED BY <2>1, <2>2
<1> HIDE DEF new, rest
<1>9. /\ Slots(new) = Slots(pg) \cup {pg.numSlots}
      /\ \A j \in Slots(pg) : j \in SlotIds /\ j # pg.numSlots
  <2>1. Slots(new) = Slots(pg) \cup {pg.numSlots}
    BY <1>3, <1>7 DEF Slots
  <2>2. \A j \in Slots(pg) : j \in SlotIds /\ j # pg.numSlots
    BY <1>3, <1>4, <1>5 DEF Slots, SlotIds, HeaderSize
  <2>3. QED BY <2>1, <2>2
<1>10. /\ new.slots[pg.numSlots] = off
       /\ \A j \in Slots(pg) : new.slots[j] = pg.slots[j]
  BY <1>3, <1>5, <1>7, <1>9
<1>11. Live(new) = Live(pg) \cup {pg.numSlots} /\ Live(pg) \subseteq Slots(pg)
  BY <1>5, <1>9, <1>10 DEF Live, SlotEmpty
<1>12. /\ rec.size = DocSize[d] + 2 /\ rec.off = off
       /\ rec \in new.heap /\ new.heap \subseteq pg.heap \cup {rec}
       /\ \A h \in pg.heap : h.off >= pg.freeOffset => h \in new.heap
  BY <1>4, <1>7, <1>8
<1> HIDE DEF rec, off, size
<1>13. QED BY <1>5, <1>6, <1>7, <1>9, <1>10, <1>11, <1>12 DEF new

\* insert takes from the free space what its record and its slot take.
LEMMA StoreRecordAccounted ==
  ASSUME NEW pg \in Pages, PageOK(pg), Accounted(pg), NEW d \in Docs, Fits(pg, d)
  PROVE  Accounted(StoreRecord(pg, d))
<1> DEFINE new == StoreRecord(pg, d)
           live == LiveRecords(pg)
<1>1. PICK rec \in Records :
        /\ rec.size = DocSize[d] + 2 /\ rec.off < pg.freeOffset
        /\ new.freeSpace = pg.freeSpace - (DocSize[d] + 3)
        /\ new.slotOffset = pg.slotOffset + 1
        /\ Live(new) = Live(pg) \cup {pg.numSlots}
        /\ new.slots[pg.numSlots] = rec.off
        /\ \A j \in Live(pg) : new.slots[j] = pg.slots[j] /\ j # pg.numSlots
        /\ rec \in new.heap /\ new.heap \subseteq pg.heap \cup {rec}
        /\ \A h \in pg.heap : h.off >= pg.freeOffset => h \in new.heap
  BY StoreRecordParts
<1>2. DocSize[d] \in Nat \ {0} /\ pg # ZeroPage
  BY NeedType DEF Fits, ZeroPage
<1>3. SlotsOK(pg) /\ pg.freeSpace \in Nat /\ pg.slotOffset \in Nat /\ pg.freeOffset \in Nat
  BY <1>2 DEF PageOK, Pages
<1>4. /\ IsFiniteSet(live) /\ Sized(live) /\ live \subseteq Records
      /\ IsFiniteSet(pg.heap) /\ pg.heap \subseteq Records
  BY HeapFinite DEF Pages
<1>5. ASSUME NEW h \in live
      PROVE  h \in pg.heap /\ h.off >= pg.freeOffset /\ h # rec
  <2>1. PICK j \in Live(pg) : h.off = pg.slots[j]
    BY DEF LiveRecords
  <2>2. pg.freeOffset <= h.off
    BY <1>3, <2>1 DEF SlotsOK
  <2>3. h.off \in Nat /\ rec.off \in Nat
    BY <1>4 DEF Records, Offsets
  <2>4. h \in pg.heap
    BY DEF LiveRecords
  <2>5. QED BY <1>1, <1>3, <2>2, <2>3, <2>4
<1>6. ASSUME NEW h \in new.heap, NEW j \in Live(new), h.off = new.slots[j], h # rec
      PROVE  h \in live
  <2>1. PICK k \in pg.heap : k = h
    BY <1>1, <1>6
  <2>2. CASE j = pg.numSlots
    <3>1. HeapOK(new) /\ new.heap \subseteq Records
      <4>1. new \in Pages /\ PageOK(new)
        BY StoreRecordOK
      <4>2. new # ZeroPage
        BY <1>1 DEF ZeroPage
      <4> HIDE DEF new
      <4>3. QED BY <4>1, <4>2 DEF PageOK, Pages
    <3>2. h.off = rec.off
      BY <1>1, <1>6, <2>2
    <3> HIDE DEF new
    <3>3. QED BY <1>1, <1>6, <3>1, <3>2 DEF HeapOK, End, Records, Offsets
  <2>3. CASE j \in Live(pg)
    BY <1>1, <1>6, <2>1, <2>3 DEF LiveRecords
  <2>4. QED BY <1>1, <2>2, <2>3
<1>7. LiveRecords(new) = live \cup {rec}
  <2>1. rec \in LiveRecords(new)
    BY <1>1 DEF LiveRecords
  <2>2. ASSUME NEW h \in live PROVE h \in LiveRecords(new)
    <3>1. h \in new.heap
      BY <1>1, <1>5
    <3>2. PICK j \in Live(pg) : h.off = pg.slots[j]
      BY DEF LiveRecords
    <3>3. j \in Live(new) /\ h.off = new.slots[j]
      BY <1>1, <3>2
    <3>4. QED BY <3>1, <3>3 DEF LiveRecords
  <2>3. ASSUME NEW h \in LiveRecords(new) PROVE h \in live \cup {rec}
    BY <1>6 DEF LiveRecords
  <2> HIDE DEF live, new
  <2>4. QED BY <2>1, <2>2, <2>3
<1>8. SumOfSizes(live \cup {rec}) = rec.size + SumOfSizes(live) /\ SumOfSizes(live) \in Nat
  <2>1. rec.size \in Nat /\ rec \notin live
    BY <1>5 DEF Records
  <2> HIDE DEF live
  <2>2. QED BY <1>4, <2>1, SumAdd, SumNat
<1>9. pg.freeSpace + pg.slotOffset + SumOfSizes(live) = PageSize
  BY <1>2 DEF Accounted
<1> DEFINE s == SumOfSizes(live)
<1>10. /\ s \in Nat /\ pg.freeSpace + pg.slotOffset + s = PageSize
       /\ SumOfSizes(LiveRecords(new)) = rec.size + s
  BY <1>7, <1>8, <1>9
<1> HIDE DEF s, live, new
<1>11. new.freeSpace + new.slotOffset + SumOfSizes(LiveRecords(new)) = PageSize
  BY <1>1, <1>2, <1>3, <1>10
<1>12. QED BY <1>11 DEF Accounted, new

\* remove gives the record's words back to the free space, and its slot to nobody.
LEMMA DropRecordAccounted ==
  ASSUME NEW pg \in Pages, PageOK(pg), Accounted(pg), NEW j \in Live(pg)
  PROVE  Accounted(DropRecord(pg, j))
<1> DEFINE new  == DropRecord(pg, j)
           live == LiveRecords(pg)
<1>1. pg # ZeroPage /\ j \in Slots(pg)
  BY DEF Live, Slots, ZeroPage
<1>2. /\ HeaderOK(pg) /\ HeapOK(pg) /\ SlotsOK(pg)
      /\ pg.freeSpace \in Nat /\ pg.slotOffset \in Nat /\ pg.numSlots \in Nat
      /\ pg.freeOffset \in Nat
      /\ pg.slots \in [SlotIds -> Offsets \cup {SlotEmpty}] /\ pg.heap \subseteq Records
  BY <1>1 DEF PageOK, Pages
<1>3. PICK victim \in pg.heap :
        /\ victim.off = pg.slots[j] /\ RecordsAt(pg, pg.slots[j]) = {victim}
  BY RecordOf
<1> DEFINE flagged == [victim EXCEPT !.dropped = TRUE]
<1>4. /\ RawSlot(pg, j) = pg.slots[j]
      /\ Intact(pg.heap \ {victim}, SlotPos(j), SlotPos(j) + SlotSize) = pg.heap \ {victim}
  <2>1. Intact(pg.heap, SlotPos(j), SlotPos(j) + SlotSize) = pg.heap
    BY <1>1, RawSlotIn
  <2>2. QED BY <1>1, <2>1, RawSlotIn DEF Intact
<1>5. /\ new.freeSpace = pg.freeSpace + victim.size /\ new.slotOffset = pg.slotOffset
      /\ new.numSlots = pg.numSlots
      /\ new.slots = [pg.slots EXCEPT ![j] = SlotEmpty]
      /\ new.heap = (pg.heap \ {victim}) \cup {flagged}
  <2>1. new = [pg EXCEPT !.slots[j] = SlotEmpty,
                         !.heap = (pg.heap \ {victim}) \cup {flagged},
                         !.freeSpace = pg.freeSpace + victim.size]
    BY <1>3, <1>4 DEF DropRecord
  <2> HIDE DEF new, flagged
  <2>2. QED BY <2>1 DEF Pages
<1>6. flagged.off = victim.off /\ victim \in Records
  BY <1>2 DEF Records
<1> HIDE DEF new, flagged
<1>7. /\ Live(new) = Live(pg) \ {j}
      /\ \A k \in Live(new) : new.slots[k] = pg.slots[k] /\ pg.slots[k] # pg.slots[j]
  <2>1. j \in SlotIds
    BY <1>1, <1>2, PageAssumption DEF SlotIds, Slots, HeaderOK, HeaderSize
  <2>2. Slots(new) = Slots(pg)
    BY <1>5 DEF Slots
  <2>3. Live(new) = Live(pg) \ {j} /\ \A k \in Live(new) : new.slots[k] = pg.slots[k]
    BY <1>2, <1>5, <2>1, <2>2 DEF Live
  <2>4. QED BY <1>2, <2>3 DEF SlotsOK
<1>8. \A h \in pg.heap : h.off = victim.off => h = victim
  BY <1>3 DEF RecordsAt
<1>9. LiveRecords(new) = live \ {victim}
  <2>1. ASSUME NEW h \in LiveRecords(new)
        PROVE  h \in live \ {victim}
    <3>1. PICK k \in Live(new) : h.off = new.slots[k]
      BY DEF LiveRecords
    <3>2. k \in Live(pg) /\ h.off = pg.slots[k] /\ h.off # victim.off
      BY <1>3, <1>7, <3>1
    <3>3. h \in new.heap
      BY DEF LiveRecords
    <3>4. h \in pg.heap /\ h # victim
      BY <1>5, <1>6, <3>2, <3>3
    <3>5. QED BY <3>2, <3>4 DEF LiveRecords
  <2>2. ASSUME NEW h \in live, h # victim
        PROVE  h \in LiveRecords(new)
    <3>1. h \in pg.heap
      BY DEF LiveRecords
    <3>2. PICK k \in Live(pg) : h.off = pg.slots[k]
      BY DEF LiveRecords
    <3>3. k # j
      BY <1>3, <1>8, <2>2, <3>1, <3>2
    <3>4. h \in new.heap /\ k \in Live(new) /\ h.off = new.slots[k]
      BY <1>5, <1>7, <2>2, <3>1, <3>2, <3>3
    <3>5. QED BY <3>4 DEF LiveRecords
  <2> HIDE DEF live
  <2>3. QED BY <2>1, <2>2
<1>10. victim \in live
  BY <1>3 DEF LiveRecords
<1>11. IsFiniteSet(live) /\ Sized(live)
  BY HeapFinite
<1>12. SumOfSizes(live) = victim.size + SumOfSizes(live \ {victim})
  <2> HIDE DEF live
  <2>1. QED BY <1>10, <1>11, SumRemove
<1>13. SumOfSizes(live \ {victim}) \in Nat /\ victim.size \in Nat
  <2>1. IsFiniteSet(live \ {victim}) /\ Sized(live \ {victim})
    BY <1>11, FS_Subset DEF Sized
  <2>2. QED BY <1>6, <2>1, SumNat DEF Records
<1>14. pg.freeSpace + pg.slotOffset + SumOfSizes(live) = PageSize
  BY <1>1 DEF Accounted
<1> DEFINE s == SumOfSizes(live \ {victim})
<1>15. /\ s \in Nat /\ pg.freeSpace + pg.slotOffset + (victim.size + s) = PageSize
       /\ SumOfSizes(LiveRecords(new)) = s
  BY <1>9, <1>12, <1>13, <1>14
<1> HIDE DEF s, live
<1>16. new.freeSpace + new.slotOffset + SumOfSizes(LiveRecords(new)) = PageSize
  BY <1>2, <1>5, <1>13, <1>15
<1>17. QED BY <1>16 DEF Accounted, new

-----------------------------------------------------------------------------
(***************************************************************************)
(* The file                                                                *)
(***************************************************************************)
\* What TypeOK and LayoutOK need to be inductive: the mapped segments, and the
\* one about to be, lie inside the file; the header counts no segment before
\* the file has one; a thread inside insert has a document; the free-space map
\* is finite, so that the number of its entries is a page id.
Placed ==
  /\ hdrSize > 0 => PagesPerSegment <= Len(file)
  /\ \A i \in DOMAIN body : body[i] + PagesPerSegment <= Len(file)
  /\ \A t \in Threads : pc[t] = "publish" => ext[t].offset + PagesPerSegment <= Len(file)
  /\ \A t \in Threads : pc[t] # "idle" => arg[t] \in Docs
  /\ IsFiniteSet(freeMap)

IInv == TypeOK /\ LayoutOK /\ Placed

\* Arithmetic of page ids.
LEMMA DivLess ==
  ASSUME NEW p \in Nat, NEW n \in Nat, NEW d \in Nat \ {0}, p < n * d
  PROVE  p \div d \in Nat /\ p \div d < n /\ p % d \in 0 .. (d - 1)
  OBVIOUS

LEMMA DivMul ==
  ASSUME NEW p \in Nat, NEW d \in Nat \ {0}
  PROVE  p \div d \in Nat /\ (p \div d) * d <= p /\ (d <= p => p \div d >= 1)
  OBVIOUS

LEMMA TimesMono ==
  ASSUME NEW a \in Nat, NEW b \in Nat, NEW d \in Nat, a <= b
  PROVE  d * a <= d * b
  OBVIOUS

\* Page ids below n segments lead into the file when the segments do.
LEMMA InsideFile ==
  ASSUME NEW starts \in Seq(Nat), NEW len \in Nat, NEW p \in Nat,
         \A i \in DOMAIN starts : starts[i] + PagesPerSegment <= len,
         p < Len(starts) * PagesPerSegment
  PROVE  starts[(p \div PagesPerSegment) + 1] + (p % PagesPerSegment) + 1 \in 1 .. len
<1>1. PagesPerSegment \in Nat \ {0}
  BY FileAssumption
<1>2. /\ p \div PagesPerSegment \in Nat /\ p \div PagesPerSegment < Len(starts)
      /\ p % PagesPerSegment \in 0 .. (PagesPerSegment - 1)
  <2>1. Len(starts) \in Nat
    OBVIOUS
  <2>2. QED BY <1>1, <2>1, DivLess
<1>3. (p \div PagesPerSegment) + 1 \in DOMAIN starts
  BY <1>2
<1>4. /\ starts[(p \div PagesPerSegment) + 1] \in Nat
      /\ starts[(p \div PagesPerSegment) + 1] + PagesPerSegment <= len
  BY <1>3
<1> DEFINE first == starts[(p \div PagesPerSegment) + 1]
           rest  == p % PagesPerSegment
<1>5. first \in Nat /\ first + PagesPerSegment <= len /\ rest \in 0 .. (PagesPerSegment - 1)
  BY <1>2, <1>4
<1>6. first + rest + 1 \in 1 .. len
  <2> HIDE DEF first, rest
  <2>1. QED BY <1>1, <1>5
<1>7. QED BY <1>6

LEMMA NumPagesNat == IInv => NumPages \in Nat
<1>1. SUFFICES ASSUME IInv PROVE NumPages \in Nat
  OBVIOUS
<1>2. Len(body) \in Nat /\ PagesPerSegment \in Nat
  BY <1>1, FileAssumption DEF IInv, TypeOK
<1>3. QED BY <1>2 DEF NumPages

\* A page id below NumPages leads into the file.
LEMMA WhereInside ==
  ASSUME IInv, NEW p \in Nat, p < NumPages
  PROVE  Where(p) \in DOMAIN file /\ file[Where(p)] \in Pages /\ PageOK(file[Where(p)])
<1>1. Where(p) \in 1 .. Len(file)
  BY InsideFile DEF IInv, TypeOK, Placed, NumPages, Where
<1>2. QED BY <1>1 DEF IInv, TypeOK, LayoutOK

\* Segments are loaded from inside the file.
LEMMA LoadStartInside ==
  ASSUME IInv, hdrSize > 0, NEW wraps \in BOOLEAN, NEW i \in Nat
  PROVE  LoadStart(i, wraps) \in Nat /\ LoadStart(i, wraps) + PagesPerSegment <= Len(file)
<1> DEFINE mapped == MappedSegments(wraps)
           last   == IF i < mapped THEN i ELSE mapped - 1
<1>1. /\ PagesPerSegment \in Nat \ {0} /\ Len(file) \in Nat
      /\ PagesPerSegment <= Len(file) /\ IntSegments \in Nat \ {0}
  BY FileAssumption DEF IInv, TypeOK, Placed
<1>2. /\ Len(file) \div PagesPerSegment \in Nat
      /\ Len(file) \div PagesPerSegment >= 1
      /\ PagesPerSegment * (Len(file) \div PagesPerSegment) <= Len(file)
  BY <1>1, DivMul
<1>3. mapped \in Nat \ {0} /\ mapped <= Len(file) \div PagesPerSegment
  BY <1>1, <1>2 DEF MappedSegments
<1>4. last \in Nat /\ last + 1 <= Len(file) \div PagesPerSegment
  BY <1>2, <1>3
<1>5. PagesPerSegment * (last + 1) <= Len(file)
  BY <1>1, <1>2, <1>4, TimesMono
<1>6. LoadStart(i, wraps) = PagesPerSegment * last
  BY DEF LoadStart
<1>7. QED BY <1>1, <1>4, <1>5, <1>6

\* The image of a finite set is finite.
LEMMA ImageFinite ==
  ASSUME NEW S, IsFiniteSet(S), NEW f, DOMAIN f = S, f = [x \in S |-> f[x]]
  PROVE  IsFiniteSet({f[x] : x \in S})
<1> DEFINE T == {f[x] : x \in S}
<1>1. f \in Surjection(S, T)
  BY DEF Surjection
<1>2. QED BY <1>1, FS_Surjection

\* What the free-space multimap keeps of its entries' types.
MapOK(m) == IsFiniteSet(m) /\ \A e \in m : e.key \in Nat /\ e.page \in Nat

LEMMA RefileOK ==
  ASSUME NEW m, MapOK(m), NEW p \in Nat, NEW old, NEW new \in Nat
  PROVE  MapOK(Refile(m, p, old, new))
<1> DEFINE kept == IF \E e \in WithKey(m, old) : e.page = p THEN m \ WithKey(m, p) ELSE m
           new1 == [key |-> new, page |-> p, nth |-> Cardinality(WithKey(kept, new))]
<1>1. kept \in SUBSET m /\ IsFiniteSet(kept)
  BY FS_Subset DEF MapOK
<1>2. Refile(m, p, old, new) = kept \cup {new1}
  BY DEF Refile, MapAdd
<1>3. IsFiniteSet(kept \cup {new1})
  <2> HIDE DEF kept, new1
  <2>1. QED BY <1>1, FS_AddElement
<1>4. \A e \in kept \cup {new1} : e.key \in Nat /\ e.page \in Nat
  <2>1. new1.key \in Nat /\ new1.page \in Nat
    OBVIOUS
  <2>2. \A e \in kept : e.key \in Nat /\ e.page \in Nat
    BY <1>1 DEF MapOK
  <2> HIDE DEF kept, new1
  <2>3. QED BY <2>1, <2>2
<1>5. QED
  <2> HIDE DEF kept, new1
  <2>1. QED BY <1>2, <1>3, <1>4 DEF MapOK

\* Replacing one page of the file by one that is laid out.
LEMMA UpdatePageOK ==
  ASSUME IInv, NEW i \in DOMAIN file, NEW pg \in Pages, PageOK(pg),
         file' = [file EXCEPT ![i] = pg]
  PROVE  /\ file' \in Seq(Pages) /\ Len(file') = Len(file)
         /\ LayoutOK'
<1>1. file \in Seq(Pages) /\ i \in 1 .. Len(file)
  BY DEF IInv, TypeOK
<1>2. file' \in Seq(Pages) /\ Len(file') = Len(file)
  BY <1>1, ExceptSeq
<1>3. \A k \in DOMAIN file' : PageOK(file'[k])
  BY <1>1 DEF IInv, LayoutOK
<1>4. QED BY <1>2, <1>3 DEF LayoutOK

--------------------------------------------------------------------------------
LEMMA InitIInv == Init => IInv
<1> SUFFICES ASSUME Init PROVE IInv
  OBVIOUS
<1>1. TypeOK
  <2>1. file \in Seq(Pages) /\ body \in Seq(Nat)
    BY DEF Init
  <2>2. /\ pc \in [Threads -> Labels]
        /\ arg \in [Threads -> Docs \cup {NoDoc}]
        /\ ext \in [Threads -> [offset : Nat, done : Nat, failed : BOOLEAN]]
    BY DEF Init, Labels, NoExt
  <2>3. QED BY <2>1, <2>2 DEF Init, TypeOK
<1>2. LayoutOK /\ Placed
  BY FileAssumption, FS_EmptySet DEF Init, LayoutOK, Placed
<1>3. QED BY <1>1, <1>2 DEF IInv

\* Steps that leave the file, the map and the segments alone only move threads.
LEMMA ReturnOK ==
  ASSUME IInv, NEW t \in Threads, NEW reply, Return(t, reply)
  PROVE  /\ pc' \in [Threads -> Labels]
         /\ arg' \in [Threads -> Docs \cup {NoDoc}]
         /\ ext' \in [Threads -> [offset : Nat, done : Nat, failed : BOOLEAN]]
         /\ \A u \in Threads : pc'[u] = "publish" => pc[u] = "publish" /\ ext'[u] = ext[u]
         /\ \A u \in Threads : pc'[u] # "idle" => arg'[u] \in Docs
<1>1. pc' \in [Threads -> Labels] /\ arg' \in [Threads -> Docs \cup {NoDoc}]
  BY DEF Return, IInv, TypeOK, Labels
<1>2. ext' \in [Threads -> [offset : Nat, done : Nat, failed : BOOLEAN]]
  BY DEF Return, IInv, TypeOK, NoExt
<1>3. QED
  BY <1>1, <1>2 DEF Return, IInv, TypeOK, Placed

\* The process goes and the file stays.
LEMMA ProcessGoneOK ==
  ASSUME IInv, ProcessGone, UNCHANGED durable
  PROVE  IInv'
<1>1. TypeOK'
  BY DEF IInv, TypeOK, ProcessGone, durable, Labels, NoExt, Free
<1>2. LayoutOK' /\ Placed'
  BY FS_EmptySet DEF IInv, LayoutOK, Placed, ProcessGone, durable
<1>3. QED BY <1>1, <1>2 DEF IInv

\* A step that moves a thread only: what it must keep.
LEMMA ThreadStepOK ==
  ASSUME IInv, UNCHANGED <<durable, process>>,
         mutex' \in Threads \cup {Free}, extMutex' \in Threads \cup {Free},
         pc' \in [Threads -> Labels],
         arg' \in [Threads -> Docs \cup {NoDoc}],
         ext' \in [Threads -> [offset : Nat, done : Nat, failed : BOOLEAN]],
         \A t \in Threads : pc'[t] = "publish" => pc[t] = "publish" /\ ext'[t] = ext[t],
         \A t \in Threads : pc'[t] # "idle" => arg'[t] \in Docs
  PROVE  IInv'
<1>1. TypeOK'
  BY DEF IInv, TypeOK, durable, process
<1>2. LayoutOK'
  BY DEF IInv, LayoutOK, durable
<1>3. Placed'
  BY DEF IInv, Placed, durable, process
<1>4. QED BY <1>1, <1>2, <1>3 DEF IInv

--------------------------------------------------------------------------------
\* One lemma per action: the process.
LEMMA InitNewOK == ASSUME IInv, InitNew PROVE IInv'
<1>1. TypeOK'
  BY DEF IInv, TypeOK, InitNew, process, locks, threads
<1>2. LayoutOK' /\ Placed'
  BY DEF IInv, LayoutOK, Placed, InitNew, process, locks, threads
<1>3. QED BY <1>1, <1>2 DEF IInv

LEMMA LoadDataOK == ASSUME IInv, LoadData PROVE IInv'
<1>1. PagesPerSegment \in Nat \ {0} /\ hdrSize \in Nat /\ LoadedSegments \in Nat
  BY FileAssumption, DivMul DEF IInv, TypeOK, LoadedSegments
<1>2. PICK wraps \in BOOLEAN :
        /\ body' = [i \in 1 .. LoadedSegments |-> LoadStart(i - 1, wraps)]
        /\ freeMap' = LoadedMap(body')
  BY DEF LoadData
<1>3. LoadedSegments > 0 => hdrSize > 0
  BY <1>1, FileAssumption DEF LoadedSegments
<1>4. \A i \in 1 .. LoadedSegments :
        body'[i] \in Nat /\ body'[i] + PagesPerSegment <= Len(file)
  <2>1. SUFFICES ASSUME NEW i \in 1 .. LoadedSegments
                 PROVE  /\ LoadStart(i - 1, wraps) \in Nat
                        /\ LoadStart(i - 1, wraps) + PagesPerSegment <= Len(file)
    BY <1>2
  <2>2. hdrSize > 0 /\ i - 1 \in Nat
    BY <1>1, <1>3
  <2>3. QED BY <2>2, LoadStartInside
<1>5. body' \in Seq(Nat) /\ DOMAIN body' = 1 .. LoadedSegments
      /\ Len(body') = LoadedSegments
  BY <1>1, <1>2, <1>4
<1>6. MapOK(freeMap')
  <2> DEFINE last   == Len(body') * PagesPerSegment - 1
             where(q) == body'[(q \div PagesPerSegment) + 1] + (q % PagesPerSegment) + 1
             key(q) == file[where(q)].freeSpace
             nth(q) == Cardinality({r \in 0 .. (q - 1) : key(r) = key(q)})
  <2>1. freeMap' = {[key |-> key(q), page |-> q % PagesPerSegment, nth |-> nth(q)] :
                      q \in 0 .. last}
    BY <1>2 DEF LoadedMap
  <2>2. \A q \in 0 .. last : key(q) \in Nat /\ q % PagesPerSegment \in Nat
    <3>1. SUFFICES ASSUME NEW q \in 0 .. last
                   PROVE  key(q) \in Nat /\ q % PagesPerSegment \in Nat
      OBVIOUS
    <3>2. Len(body') * PagesPerSegment \in Int
      BY <1>1, <1>5
    <3>3. q \in Nat /\ q < Len(body') * PagesPerSegment /\ Len(file) \in Nat
      BY <3>1, <3>2 DEF IInv, TypeOK
    <3>4. where(q) \in 1 .. Len(file)
      BY <1>4, <1>5, <3>3, InsideFile
    <3>5. file[where(q)] \in Pages
      <4> HIDE DEF where
      <4>1. QED BY <3>4 DEF IInv, TypeOK
    <3>6. QED BY <1>1, <3>3, <3>5 DEF Pages
  <2> DEFINE entry == [q \in 0 .. last |->
                         [key |-> key(q), page |-> q % PagesPerSegment, nth |-> nth(q)]]
  <2>3. freeMap' = {entry[q] : q \in 0 .. last}
    BY <2>1
  <2>4. IsFiniteSet(0 .. last)
    <3>1. last \in Int
      BY <1>1, <1>5
    <3> HIDE DEF last
    <3>2. QED BY <3>1, FS_Interval
  <2> HIDE DEF last, key, nth
  <2>5. IsFiniteSet(freeMap')
    <3>1. DOMAIN entry = 0 .. last /\ entry = [q \in 0 .. last |-> entry[q]]
      OBVIOUS
    <3> HIDE DEF entry
    <3>2. IsFiniteSet({entry[q] : q \in 0 .. last})
      BY <2>4, <3>1, ImageFinite
    <3>3. QED BY <2>3, <3>2
  <2>6. QED BY <2>1, <2>2, <2>5 DEF MapOK
<1>7. TypeOK'
  BY <1>5, <1>6 DEF MapOK, IInv, TypeOK, LoadData, durable, locks, threads
<1>8. LayoutOK' /\ Placed'
  BY <1>4, <1>5, <1>6 DEF MapOK, IInv, LayoutOK, Placed, LoadData, durable, locks, threads
<1>9. QED BY <1>7, <1>8 DEF IInv

LEMMA KillOK == ASSUME IInv, Kill PROVE IInv'
  BY ProcessGoneOK DEF Kill

LEMMA CrashOK == ASSUME IInv, Crash PROVE IInv'
  BY ProcessGoneOK DEF Crash

--------------------------------------------------------------------------------
\* insert.
LEMMA CallInsertOK ==
  ASSUME IInv, NEW t \in Threads, NEW d \in Docs, CallInsert(t, d) PROVE IInv'
<1>1. CASE DocSize[d] > PageSize
  <2>1. Return(t, Failed) /\ UNCHANGED <<durable, process, locks>>
    BY <1>1 DEF CallInsert
  <2>2. QED BY <2>1, ReturnOK, ThreadStepOK DEF locks, IInv, TypeOK
<1>2. CASE ~(DocSize[d] > PageSize)
  <2>1. /\ pc' = [pc EXCEPT ![t] = "try"] /\ arg' = [arg EXCEPT ![t] = d]
        /\ ext' = ext /\ UNCHANGED <<durable, process, locks>>
    BY <1>2 DEF CallInsert, Goto
  <2>2. /\ pc' \in [Threads -> Labels] /\ arg' \in [Threads -> Docs \cup {NoDoc}]
        /\ ext' \in [Threads -> [offset : Nat, done : Nat, failed : BOOLEAN]]
    BY <2>1 DEF IInv, TypeOK, Labels
  <2>3. /\ \A u \in Threads : pc'[u] = "publish" => pc[u] = "publish" /\ ext'[u] = ext[u]
        /\ \A u \in Threads : pc'[u] # "idle" => arg'[u] \in Docs
    BY <2>1 DEF IInv, TypeOK, Placed
  <2>4. QED BY <2>1, <2>2, <2>3, ThreadStepOK DEF locks, IInv, TypeOK
<1>3. QED BY <1>1, <1>2

\* A thread inside insert goes from one label to another that is not "publish".
LEMMA GotoOK ==
  ASSUME IInv, NEW t \in Threads, NEW label \in Labels \ {"publish"},
         pc[t] # "idle", Goto(t, label), UNCHANGED arg,
         ext' \in [Threads -> [offset : Nat, done : Nat, failed : BOOLEAN]],
         \A u \in Threads \ {t} : ext'[u] = ext[u]
  PROVE  /\ pc' \in [Threads -> Labels]
         /\ arg' \in [Threads -> Docs \cup {NoDoc}]
         /\ \A u \in Threads : pc'[u] = "publish" => pc[u] = "publish" /\ ext'[u] = ext[u]
         /\ \A u \in Threads : pc'[u] # "idle" => arg'[u] \in Docs
<1>1. pc' \in [Threads -> Labels] /\ arg' \in [Threads -> Docs \cup {NoDoc}]
  BY DEF Goto, IInv, TypeOK
<1>2. pc'[t] = label /\ \A u \in Threads \ {t} : pc'[u] = pc[u]
  BY DEF Goto, IInv, TypeOK
<1>3. QED BY <1>1, <1>2 DEF IInv, Placed

LEMMA WaitStepsOK ==
  ASSUME IInv, NEW t \in Threads,
         \/ InsertNoPage(t) \/ TryExtend(t) \/ ExtendBusy(t) \/ ExtendWait(t)
         \/ Unlock1(t) \/ Unlock2(t) \/ GetSize(t)
  PROVE  IInv'
<1>1. \A u \in Threads : u \in Threads \cup {Free}
  OBVIOUS
<1>2. ext \in [Threads -> [offset : Nat, done : Nat, failed : BOOLEAN]]
  BY DEF IInv, TypeOK
<1>3. CASE InsertNoPage(t)
  BY <1>2, <1>3, GotoOK, ThreadStepOK
     DEF InsertNoPage, Trying, Labels, locks, IInv, TypeOK
<1>4. CASE TryExtend(t)
  BY <1>1, <1>2, <1>4, GotoOK, ThreadStepOK DEF TryExtend, Labels, IInv, TypeOK
<1>5. CASE ExtendBusy(t)
  BY <1>2, <1>5, GotoOK, ThreadStepOK DEF ExtendBusy, Labels, locks, IInv, TypeOK
<1>6. CASE ExtendWait(t)
  BY <1>1, <1>2, <1>6, GotoOK, ThreadStepOK DEF ExtendWait, Labels, IInv, TypeOK
<1>7. CASE Unlock1(t)
  BY <1>2, <1>7, GotoOK, ThreadStepOK DEF Unlock1, Labels, IInv, TypeOK
<1>8. CASE Unlock2(t)
  BY <1>2, <1>8, GotoOK, ThreadStepOK DEF Unlock2, Labels, IInv, TypeOK
<1>9. CASE GetSize(t)
  <2>1. /\ ext' \in [Threads -> [offset : Nat, done : Nat, failed : BOOLEAN]]
        /\ \A u \in Threads \ {t} : ext'[u] = ext[u]
    <3>1. Len(file) \in Nat
      BY DEF IInv, TypeOK
    <3>2. [NoExt EXCEPT !.offset = Len(file)] \in [offset : Nat, done : Nat, failed : BOOLEAN]
      BY <3>1 DEF NoExt
    <3>3. QED BY <1>2, <1>9, <3>2 DEF GetSize
  <2>2. QED BY <1>9, <2>1, GotoOK, ThreadStepOK DEF GetSize, Labels, locks, IInv, TypeOK
<1>10. QED BY <1>3, <1>4, <1>5, <1>6, <1>7, <1>8, <1>9

\* A step that replaces one page of the file and leaves the segments alone.
LEMMA PageStepOK ==
  ASSUME IInv, NEW i \in DOMAIN file, NEW pg \in Pages, PageOK(pg),
         file' = [file EXCEPT ![i] = pg],
         UNCHANGED <<created, hdrSize, state, body>>, MapOK(freeMap'),
         mutex' \in Threads \cup {Free}, extMutex' \in Threads \cup {Free},
         pc' \in [Threads -> Labels],
         arg' \in [Threads -> Docs \cup {NoDoc}],
         ext' \in [Threads -> [offset : Nat, done : Nat, failed : BOOLEAN]],
         \A t \in Threads : pc'[t] = "publish" =>
           ext'[t].offset + PagesPerSegment <= Len(file),
         \A t \in Threads : pc'[t] # "idle" => arg'[t] \in Docs
  PROVE  IInv'
<1>1. file' \in Seq(Pages) /\ Len(file') = Len(file) /\ LayoutOK'
  BY UpdatePageOK
<1>2. TypeOK'
  BY <1>1 DEF IInv, TypeOK, MapOK
<1>3. Placed'
  BY <1>1 DEF IInv, Placed, MapOK
<1>4. QED BY <1>1, <1>2, <1>3 DEF IInv

LEMMA FirstFitPage ==
  ASSUME IInv, NEW d, NEW e \in FirstFit(d)
  PROVE  e.page \in Nat
  BY DEF IInv, TypeOK, FirstFit, Candidates

LEMMA InsertStoreOK ==
  ASSUME IInv, NEW t \in Threads, NEW p \in Nat, Trying(t), InsertStore(t, p) PROVE IInv'
<1> DEFINE d   == arg[t]
           old == file[Where(p)]
           pg  == Recovered(old, d)
<1>1. d \in Docs
  BY DEF IInv, Placed, Trying
<1>2. Where(p) \in DOMAIN file /\ old \in Pages /\ PageOK(old)
  BY WhereInside DEF InsertStore
<1>3. pg = old /\ Fits(pg, d)
  BY <1>1, <1>2, RecoveredSame DEF InsertStore
<1>4. StoreRecord(pg, d) \in Pages /\ PageOK(StoreRecord(pg, d))
  BY <1>1, <1>2, <1>3, StoreRecordOK
<1>5. pg.freeSpace - Need(d) \in Nat
  BY <1>1, <1>2, <1>3, NeedType DEF Fits, Pages
<1>6. MapOK(freeMap')
  <2>1. MapOK(freeMap)
    BY DEF IInv, TypeOK, Placed, MapOK
  <2>2. freeMap' = Refile(freeMap, p, pg.freeSpace, pg.freeSpace - Need(d))
    BY DEF InsertStore
  <2>3. QED BY <1>5, <2>1, <2>2, RefileOK
<1>7. /\ file' = [file EXCEPT ![Where(p)] = StoreRecord(pg, d)]
      /\ UNCHANGED <<created, hdrSize, state, body, locks>>
      /\ \E reply : Return(t, reply)
  BY DEF InsertStore
<1> HIDE DEF d, old, pg
<1>8. QED
  BY <1>2, <1>4, <1>6, <1>7, ReturnOK, PageStepOK DEF locks, IInv, TypeOK, Placed

LEMMA InsertRefusedOK ==
  ASSUME IInv, NEW t \in Threads, NEW p \in Nat, Trying(t), InsertRefused(t, p) PROVE IInv'
<1> DEFINE d   == arg[t]
           old == file[Where(p)]
           pg  == Recovered(old, d)
<1>1. d \in Docs
  BY DEF IInv, Placed, Trying
<1>2. file' = file
  <2>1. CASE p < NumPages
    <3>1. Where(p) \in DOMAIN file /\ old \in Pages /\ PageOK(old)
      BY <2>1, WhereInside
    <3>2. /\ ~(MustRecover(old, d) /\ RecoverCrashes(old))
          /\ file' = [file EXCEPT ![Where(p)] = pg]
      BY <2>1, NumPagesNat DEF InsertRefused
    <3>3. pg = old
      BY <1>1, <3>1, <3>2, RecoveredSame
    <3>4. QED BY <3>1, <3>2, <3>3 DEF IInv, TypeOK
  <2>2. CASE ~(p < NumPages)
    BY <2>2, NumPagesNat DEF InsertRefused
  <2>3. QED BY <2>1, <2>2
<1>3. /\ UNCHANGED <<durable, process>> /\ mutex' = t /\ extMutex' = extMutex
      /\ Return(t, Failed)
  BY <1>2 DEF InsertRefused, durable, process
<1>4. QED BY <1>3, ReturnOK, ThreadStepOK DEF IInv, TypeOK

LEMMA InsertInPageOK == ASSUME IInv, NEW t \in Threads, InsertInPage(t) PROVE IInv'
<1>1. PICK e \in FirstFit(arg[t]) :
        InsertStore(t, e.page) \/ InsertRefused(t, e.page) \/ InsertCrash(t, e.page)
  BY DEF InsertInPage
<1>2. e.page \in Nat /\ Trying(t)
  BY FirstFitPage DEF InsertInPage
<1>3. InsertCrash(t, e.page) => Crash
  BY DEF InsertCrash
<1>4. QED BY <1>1, <1>2, <1>3, InsertStoreOK, InsertRefusedOK, CrashOK

--------------------------------------------------------------------------------
\* _extendSegment.
\* A thread counts a page and notes whether its write failed.
LEMMA CountPageOK ==
  ASSUME IInv, NEW t \in Threads, NEW f \in BOOLEAN,
         ext' = [ext EXCEPT ![t] = [offset |-> @.offset, done |-> @.done + 1, failed |-> f]]
  PROVE  /\ ext' \in [Threads -> [offset : Nat, done : Nat, failed : BOOLEAN]]
         /\ \A u \in Threads : ext'[u].offset = ext[u].offset
         /\ \A u \in Threads \ {t} : ext'[u] = ext[u]
<1> DEFINE new == [offset |-> ext[t].offset, done |-> ext[t].done + 1, failed |-> f]
<1>1. ext \in [Threads -> [offset : Nat, done : Nat, failed : BOOLEAN]]
  BY DEF IInv, TypeOK
<1>2. /\ new \in [offset : Nat, done : Nat, failed : BOOLEAN]
      /\ new.offset = ext[t].offset
  BY <1>1
<1>3. ext' = [ext EXCEPT ![t] = new]
  OBVIOUS
<1> HIDE DEF new
<1>4. QED BY <1>1, <1>2, <1>3

LEMMA WritePageOK == ASSUME IInv, NEW t \in Threads, WritePage(t) PROVE IInv'
<1>1. /\ file' = Append(file, ZeroPage) /\ pc' = pc /\ arg' = arg
      /\ ext' = [ext EXCEPT ![t] = [offset |-> @.offset, done |-> @.done + 1, failed |-> FALSE]]
      /\ UNCHANGED <<created, hdrSize, process, locks>>
  BY DEF WritePage
<1>2. ZeroPage \in Pages /\ PageOK(ZeroPage)
  BY ZeroPageOK
<1>3. /\ file' \in Seq(Pages) /\ Len(file') = Len(file) + 1 /\ Len(file) \in Nat
      /\ \A k \in 1 .. Len(file) : file'[k] = file[k]
      /\ file'[Len(file) + 1] = ZeroPage
  BY <1>1, <1>2, AppendProperties DEF IInv, TypeOK
<1>4. LayoutOK'
  <2>1. SUFFICES ASSUME NEW k \in 1 .. (Len(file) + 1) PROVE PageOK(file'[k])
    BY <1>3 DEF LayoutOK
  <2>2. CASE k = Len(file) + 1
    BY <1>2, <1>3, <2>2
  <2>3. CASE k # Len(file) + 1
    <3>1. k \in 1 .. Len(file) /\ DOMAIN file = 1 .. Len(file)
      BY <1>3, <2>3 DEF IInv, TypeOK
    <3>2. QED BY <1>3, <3>1 DEF IInv, LayoutOK
  <2>4. QED BY <2>2, <2>3
<1>5. /\ ext' \in [Threads -> [offset : Nat, done : Nat, failed : BOOLEAN]]
      /\ \A u \in Threads : ext'[u].offset = ext[u].offset
  BY <1>1, CountPageOK
<1>6. TypeOK'
  BY <1>1, <1>3, <1>5 DEF IInv, TypeOK, process, locks
<1>7. Placed'
  <2>1. /\ hdrSize' > 0 => PagesPerSegment <= Len(file')
        /\ \A i \in DOMAIN body' : body'[i] + PagesPerSegment <= Len(file')
    BY <1>1, <1>3, FileAssumption DEF IInv, TypeOK, Placed, process
  <2>2. \A u \in Threads : pc'[u] = "publish" =>
          ext'[u].offset + PagesPerSegment <= Len(file')
    BY <1>1, <1>3, <1>5, FileAssumption DEF IInv, TypeOK, Placed
  <2>3. QED BY <1>1, <2>1, <2>2 DEF IInv, Placed, process
<1>8. QED BY <1>4, <1>6, <1>7 DEF IInv

LEMMA WriteFailsOK == ASSUME IInv, NEW t \in Threads, WriteFails(t) PROVE IInv'
<1>1. /\ pc' = pc /\ arg' = arg /\ UNCHANGED <<durable, process, locks>>
      /\ ext' = [ext EXCEPT ![t] = [offset |-> @.offset, done |-> @.done + 1, failed |-> TRUE]]
      /\ pc[t] = "extend"
  BY DEF WriteFails, Extending
<1>2. /\ ext' \in [Threads -> [offset : Nat, done : Nat, failed : BOOLEAN]]
      /\ \A u \in Threads \ {t} : ext'[u] = ext[u]
  BY <1>1, CountPageOK
<1>3. QED BY <1>1, <1>2, ThreadStepOK DEF IInv, TypeOK, Placed, locks

LEMMA MapSegmentOK == ASSUME IInv, NEW t \in Threads, MapSegment(t) PROVE IInv'
<1> DEFINE i   == ext[t].offset + 1
           pg  == WriteHeader(file[i])
<1>1. /\ file' = [file EXCEPT ![i] = pg] /\ pc' = [pc EXCEPT ![t] = "publish"]
      /\ UNCHANGED <<created, hdrSize, process, locks, arg, ext>>
      /\ pc[t] = "extend" /\ InFile(t)
  BY DEF MapSegment, Goto, Extended
<1>2. i \in DOMAIN file /\ file[i] \in Pages /\ PageOK(file[i])
  BY <1>1, FileAssumption DEF IInv, TypeOK, LayoutOK, InFile
<1>3. pg \in Pages /\ PageOK(pg)
  BY <1>2, WriteHeaderOK
<1>4. /\ pc' \in [Threads -> Labels]
      /\ \A u \in Threads : pc'[u] = "publish" =>
           ext'[u].offset + PagesPerSegment <= Len(file)
      /\ \A u \in Threads : pc'[u] # "idle" => arg'[u] \in Docs
  BY <1>1 DEF IInv, TypeOK, Placed, InFile, Labels
<1>5. MapOK(freeMap')
  BY <1>1 DEF IInv, TypeOK, Placed, MapOK, process
<1> HIDE DEF i, pg
<1>6. QED BY <1>1, <1>2, <1>3, <1>4, <1>5, PageStepOK DEF IInv, TypeOK, process, locks

LEMMA ExtendFailsOK == ASSUME IInv, NEW t \in Threads, ExtendFails(t) PROVE IInv'
  BY ReturnOK, ThreadStepOK DEF ExtendFails, locks, IInv, TypeOK

LEMMA PublishOK == ASSUME IInv, NEW t \in Threads, Publish(t) PROVE IInv'
<1> DEFINE base     == Cardinality(freeMap)
           nth0     == Cardinality(WithKey(freeMap, FullSpace))
           new      == 0 .. (PagesPerSegment - 1)
           entry    == [i \in new |-> [key |-> FullSpace, page |-> base + i, nth |-> nth0 + i]]
           newPages == {entry[i] : i \in new}
<1>1. /\ pc[t] = "publish" /\ freeMap' = freeMap \cup newPages
      /\ body' = Append(body, ext[t].offset) /\ hdrSize' = hdrSize + PagesPerSegment
      /\ ext' = [ext EXCEPT ![t] = NoExt] /\ pc' = [pc EXCEPT ![t] = "unlock1"]
      /\ UNCHANGED <<file, created, state, locks, arg>>
  BY DEF Publish, Goto
<1>2. /\ PagesPerSegment \in Nat \ {0} /\ Len(file) \in Nat /\ hdrSize \in Nat
      /\ ext[t].offset \in Nat /\ ext[t].offset + PagesPerSegment <= Len(file)
  BY <1>1, FileAssumption DEF IInv, TypeOK, Placed
<1>3. MapOK(freeMap')
  <2>1. base \in Nat /\ FullSpace \in Nat
    BY FS_CardinalityType, PageAssumption DEF IInv, Placed, FullSpace, HeaderSize
  <2>2. IsFiniteSet(newPages)
    <3>1. IsFiniteSet(new)
      BY <1>2, FS_Interval
    <3> HIDE DEF new
    <3>2. QED BY <3>1, ImageFinite
  <2>3. IsFiniteSet(freeMap \cup newPages)
    BY <2>2, FS_Union DEF IInv, Placed
  <2>4. \A e \in newPages : e.key \in Nat /\ e.page \in Nat
    BY <2>1
  <2> HIDE DEF newPages
  <2>5. QED BY <1>1, <2>3, <2>4 DEF IInv, TypeOK, MapOK
<1>4. /\ body' \in Seq(Nat) /\ Len(body) \in Nat /\ Len(body') = Len(body) + 1
      /\ \A k \in 1 .. Len(body) : body'[k] = body[k]
      /\ body'[Len(body) + 1] = ext[t].offset
  BY <1>1, <1>2, AppendProperties DEF IInv, TypeOK
<1>5. \A k \in DOMAIN body' : body'[k] + PagesPerSegment <= Len(file)
  <2>1. SUFFICES ASSUME NEW k \in 1 .. (Len(body) + 1)
                 PROVE  body'[k] + PagesPerSegment <= Len(file)
    BY <1>4
  <2>2. CASE k = Len(body) + 1
    BY <1>2, <1>4, <2>2
  <2>3. CASE k # Len(body) + 1
    <3>1. k \in 1 .. Len(body) /\ DOMAIN body = 1 .. Len(body)
      BY <1>4, <2>3 DEF IInv, TypeOK
    <3>2. QED BY <1>4, <3>1 DEF IInv, Placed
  <2>4. QED BY <2>2, <2>3
<1>6. /\ ext' \in [Threads -> [offset : Nat, done : Nat, failed : BOOLEAN]]
      /\ \A u \in Threads : u # t => ext'[u] = ext[u]
  BY <1>1 DEF IInv, TypeOK, NoExt
<1>7. /\ pc' \in [Threads -> Labels]
      /\ \A u \in Threads : pc'[u] = "publish" => pc[u] = "publish" /\ ext'[u] = ext[u]
      /\ \A u \in Threads : pc'[u] # "idle" => arg'[u] \in Docs
  BY <1>1, <1>6 DEF IInv, TypeOK, Labels, Placed
<1> HIDE DEF newPages
<1>8. TypeOK'
  <2>1. hdrSize' \in Nat
    BY <1>1, <1>2
  <2>2. /\ file' \in Seq(Pages) /\ created' \in BOOLEAN
        /\ state' \in {"new", "up", "gone"}
        /\ mutex' \in Threads \cup {Free} /\ extMutex' \in Threads \cup {Free}
        /\ arg' \in [Threads -> Docs \cup {NoDoc}]
    BY <1>1 DEF IInv, TypeOK, Publish, locks
  <2>3. QED BY <1>3, <1>4, <1>6, <1>7, <2>1, <2>2 DEF TypeOK, MapOK
<1>9. LayoutOK' /\ Placed'
  BY <1>1, <1>2, <1>3, <1>5, <1>7 DEF IInv, LayoutOK, Placed, MapOK
<1>10. QED BY <1>8, <1>9 DEF IInv

--------------------------------------------------------------------------------
\* find and remove.
LEMMA FindOK ==
  ASSUME IInv, NEW t \in Threads, NEW r \in AskedRids, Find(t, r) PROVE IInv'
<1>1. (\E reply : Return(t, reply)) /\ UNCHANGED <<durable, process, locks>>
  BY DEF Find
<1>2. QED BY <1>1, ReturnOK, ThreadStepOK DEF locks, IInv, TypeOK

LEMMA RemoveRefusedOK ==
  ASSUME IInv, NEW t \in Threads, NEW r \in AskedRids, RemoveRefused(t, r) PROVE IInv'
  BY ReturnOK, ThreadStepOK DEF RemoveRefused, locks, IInv, TypeOK

\* The slot of a record that is removed is in use: the slot past the last one
\* takes a call that nobody makes.
LEMMA RemovedIsLive ==
  ASSUME IInv, "remove_past" \notin Calls,
         NEW t \in Threads, NEW r \in AskedRids, RemoveRecord(t, r)
  PROVE  /\ r[1] \in Nat /\ Where(r[1]) \in DOMAIN file
         /\ PageOf(r) \in Pages /\ PageOK(PageOf(r)) /\ r[2] \in Live(PageOf(r))
<1> DEFINE p   == r[1]
           j   == r[2]
           old == file[Where(p)]
<1>1. p \in Nat /\ j \in Nat
  BY FileAssumption, PageAssumption DEF SlotIds, HeaderSize
<1>2. /\ CanRemove(t, r) /\ p < NumPages /\ SlotInRange(old, j)
      /\ RawSlot(old, j) # SlotEmpty
  BY DEF RemoveRecord, InPage, PageOf
<1>3. Where(p) \in DOMAIN file /\ old \in Pages /\ PageOK(old)
  BY <1>1, <1>2, WhereInside
<1>4. j \in Slots(old)
  <2>1. ~PastLast(r)
    BY <1>2 DEF CanRemove, CanCall
  <2>2. j # old.numSlots
    BY <1>2, <2>1 DEF PastLast, InPage, PageOf
  <2>3. j <= old.numSlots /\ old.numSlots \in Nat
    BY <1>2, <1>3 DEF SlotInRange, Pages
  <2> HIDE DEF j, old
  <2>4. QED BY <1>1, <2>2, <2>3 DEF Slots
<1>5. j \in Live(old)
  BY <1>2, <1>3, <1>4, RawSlotIn DEF Live
<1>6. QED BY <1>1, <1>3, <1>5 DEF PageOf

LEMMA RemoveRecordOK ==
  ASSUME IInv, "remove_past" \notin Calls,
         NEW t \in Threads, NEW r \in AskedRids, RemoveRecord(t, r)
  PROVE  IInv'
<1> DEFINE p   == r[1]
           old == file[Where(p)]
           new == DropRecord(old, r[2])
<1>1. /\ p \in Nat /\ Where(p) \in DOMAIN file
      /\ old \in Pages /\ PageOK(old) /\ r[2] \in Live(old)
  BY RemovedIsLive DEF PageOf
<1>2. /\ file' = [file EXCEPT ![Where(p)] = new]
      /\ freeMap' = Refile(freeMap, p, old.freeSpace, new.freeSpace)
      /\ \E reply : Return(t, reply)
      /\ UNCHANGED <<created, hdrSize, state, body, locks>>
  BY DEF RemoveRecord, PageOf
<1>3. new \in Pages /\ PageOK(new)
  BY <1>1, DropRecordOK
<1>4. MapOK(freeMap')
  <2>1. MapOK(freeMap)
    BY DEF IInv, TypeOK, Placed, MapOK
  <2>2. new.freeSpace \in Nat
    BY <1>3 DEF Pages
  <2> HIDE DEF p, old, new
  <2>3. QED BY <1>1, <1>2, <2>1, <2>2, RefileOK
<1> HIDE DEF p, old, new
<1>5. QED
  BY <1>1, <1>2, <1>3, <1>4, ReturnOK, PageStepOK DEF locks, IInv, TypeOK, Placed

LEMMA CrashCallsOK ==
  ASSUME IInv, NEW t \in Threads, NEW r \in AskedRids, FindCrash(t, r) \/ RemoveCrash(t, r)
  PROVE  IInv'
  BY CrashOK DEF FindCrash, RemoveCrash

--------------------------------------------------------------------------------
\* Every step keeps the inductive invariant.
LEMMA InsertStepOK == ASSUME IInv, NEW t \in Threads, InsertStep(t) PROVE IInv'
  BY WaitStepsOK, InsertInPageOK, WritePageOK, WriteFailsOK, MapSegmentOK, ExtendFailsOK,
     PublishOK DEF InsertStep

LEMMA CallStepOK ==
  ASSUME IInv, "remove_past" \notin Calls, NEW t \in Threads, CallStep(t) PROVE IInv'
  BY CallInsertOK, FindOK, RemoveRefusedOK, RemoveRecordOK, CrashCallsOK DEF CallStep

LEMMA NextOK ==
  ASSUME "remove_past" \notin Calls PROVE IInv /\ [Next]_vars => IInv'
<1>1. SUFFICES ASSUME IInv, [Next]_vars PROVE IInv'
  OBVIOUS
<1>2. CASE Next
  BY <1>1, <1>2, InitNewOK, LoadDataOK, KillOK, InsertStepOK, CallStepOK DEF Next
<1>3. CASE UNCHANGED vars
  <2>1. TypeOK'
    BY <1>1, <1>3 DEF IInv, TypeOK, vars, durable, process, locks, threads
  <2>2. LayoutOK' /\ Placed'
    BY <1>1, <1>3 DEF IInv, LayoutOK, Placed, vars, durable, process, locks, threads
  <2>3. QED BY <2>1, <2>2 DEF IInv
<1>4. QED BY <1>1, <1>2, <1>3

\* Every variable of the data file keeps its kind, in every run of every
\* number of threads, under kills, restarts and failed writes.
THEOREM TypeCorrect ==
  ASSUME "remove_past" \notin Calls
  PROVE  Spec => []TypeOK
<1>1. IInv /\ [Next]_vars => IInv'
  BY NextOK
<1>2. IInv => TypeOK
  BY DEF IInv
<1>3. QED BY <1>1, <1>2, InitIInv, PTL DEF Spec

\* insert never writes over a stored record or over a slot in use: every page
\* stays laid out, whatever is removed, recovered, extended, remapped, killed or
\* refused by the disk (dmsFile::insert, remove, _recoverSpace, _extendSegment).
THEOREM LayoutSafe ==
  ASSUME "remove_past" \notin Calls
  PROVE  Spec => []LayoutOK
<1>1. IInv /\ [Next]_vars => IInv'
  BY NextOK
<1>2. IInv => LayoutOK
  BY DEF IInv
<1>3. QED BY <1>1, <1>2, InitIInv, PTL DEF Spec

(***************************************************************************)
(* Every page's space is accounted for.                                    *)
(***************************************************************************)

\* The file's pages are accounted for after a step that changes one of them.
LEMMA PageAccounted ==
  ASSUME IInv, SpaceAccounted, NEW i \in DOMAIN file, NEW pg, Accounted(pg),
         file' = [file EXCEPT ![i] = pg]
  PROVE  SpaceAccounted'
  BY DEF IInv, TypeOK, SpaceAccounted

\* A step that stores nothing in the file keeps the account.
LEMMA FileSame == ASSUME SpaceAccounted, UNCHANGED file PROVE SpaceAccounted'
  BY DEF SpaceAccounted

\* _extendFile appends a page without a header.
LEMMA WritePageAccounted ==
  ASSUME IInv, SpaceAccounted, NEW t \in Threads, WritePage(t) PROVE SpaceAccounted'
<1>1. file' = Append(file, ZeroPage) /\ file \in Seq(Pages)
  BY DEF WritePage, IInv, TypeOK
<1>2. /\ DOMAIN file = 1 .. Len(file) /\ DOMAIN file' = 1 .. (Len(file) + 1)
      /\ Len(file) \in Nat
      /\ \A k \in 1 .. Len(file) : file'[k] = file[k]
      /\ file'[Len(file) + 1] = ZeroPage
  BY <1>1, ZeroPageOK, AppendProperties
<1>3. SUFFICES ASSUME NEW k \in DOMAIN file' PROVE Accounted(file'[k])
  BY DEF SpaceAccounted
<1>4. CASE k = Len(file) + 1
  BY <1>2, <1>4, ZeroAccounted
<1>5. CASE k # Len(file) + 1
  <2>1. k \in DOMAIN file /\ file'[k] = file[k]
    BY <1>2, <1>5
  <2>2. QED BY <2>1 DEF SpaceAccounted
<1>6. QED BY <1>4, <1>5

\* insert stores a record in a page whose space is accounted for, or nothing at
\* all: _recoverSpace leaves such a page as it was.
LEMMA InsertAccounted ==
  ASSUME IInv, SpaceAccounted, NEW t \in Threads, InsertInPage(t) PROVE SpaceAccounted'
<1>1. PICK e \in FirstFit(arg[t]) :
        InsertStore(t, e.page) \/ InsertRefused(t, e.page) \/ InsertCrash(t, e.page)
  BY DEF InsertInPage
<1> DEFINE p   == e.page
           d   == arg[t]
           old == file[Where(p)]
           pg  == Recovered(old, d)
<1>2. p \in Nat /\ d \in Docs /\ NumPages \in Nat
  BY FirstFitPage, NumPagesNat DEF InsertInPage, Trying, IInv, Placed
<1>3. ASSUME p < NumPages, ~(MustRecover(old, d) /\ RecoverCrashes(old))
      PROVE  /\ Where(p) \in DOMAIN file /\ old \in Pages /\ PageOK(old)
             /\ Accounted(old) /\ pg = old
  <2>1. Where(p) \in DOMAIN file /\ old \in Pages /\ PageOK(old)
    BY <1>2, <1>3, WhereInside
  <2>2. QED BY <1>2, <1>3, <2>1, RecoveredSame DEF SpaceAccounted
<1>4. CASE InsertStore(t, p)
  <2>1. /\ p < NumPages /\ ~(MustRecover(old, d) /\ RecoverCrashes(old)) /\ Fits(pg, d)
        /\ file' = [file EXCEPT ![Where(p)] = StoreRecord(pg, d)]
    BY <1>4 DEF InsertStore
  <2>2. Accounted(StoreRecord(pg, d))
    BY <1>2, <1>3, <2>1, StoreRecordAccounted
  <2> HIDE DEF p, d, old, pg
  <2>3. QED BY <1>3, <2>1, <2>2, PageAccounted
<1>5. CASE InsertRefused(t, p)
  <2>1. CASE p < NumPages
    <3>1. /\ ~(MustRecover(old, d) /\ RecoverCrashes(old))
          /\ file' = [file EXCEPT ![Where(p)] = pg]
      BY <1>2, <1>5, <2>1 DEF InsertRefused
    <3> HIDE DEF p, d, old, pg
    <3>2. QED BY <1>3, <2>1, <3>1, PageAccounted
  <2>2. CASE ~(p < NumPages)
    <3>1. UNCHANGED file
      BY <1>2, <1>5, <2>2 DEF InsertRefused
    <3>2. QED BY <3>1, FileSame
  <2>3. QED BY <2>1, <2>2
<1>6. CASE InsertCrash(t, p)
  BY <1>6, FileSame DEF InsertCrash, Crash, durable
<1>7. QED BY <1>1, <1>4, <1>5, <1>6

\* _extendSegment gives the space of the page whose header it writes back.
LEMMA MapSegmentAccounted ==
  ASSUME IInv, SpaceAccounted, NEW t \in Threads, MapSegment(t) PROVE SpaceAccounted'
<1> DEFINE i  == ext[t].offset + 1
           pg == WriteHeader(file[i])
<1>1. file' = [file EXCEPT ![i] = pg] /\ InFile(t)
  BY DEF MapSegment
<1>2. i \in DOMAIN file /\ file[i] \in Pages
  BY <1>1, FileAssumption DEF IInv, TypeOK, InFile
<1>3. Accounted(pg)
  BY <1>2, WriteHeaderAccounted
<1> HIDE DEF i, pg
<1>4. QED BY <1>1, <1>2, <1>3, PageAccounted

\* The record that a remove drops was a live one.
LEMMA RemoveAccounted ==
  ASSUME IInv, SpaceAccounted, "remove_past" \notin Calls,
         NEW t \in Threads, NEW r \in AskedRids, RemoveRecord(t, r)
  PROVE  SpaceAccounted'
<1> DEFINE old == file[Where(r[1])]
           new == DropRecord(old, r[2])
<1>1. /\ Where(r[1]) \in DOMAIN file /\ old \in Pages /\ PageOK(old) /\ r[2] \in Live(old)
      /\ file' = [file EXCEPT ![Where(r[1])] = new]
  BY RemovedIsLive DEF RemoveRecord, PageOf
<1>2. Accounted(old)
  BY <1>1 DEF SpaceAccounted
<1>3. Accounted(new)
  BY <1>1, <1>2, DropRecordAccounted
<1> HIDE DEF old, new
<1>4. QED BY <1>1, <1>3, PageAccounted

\* Every step of the data file keeps its pages accounted for.
LEMMA NextAccounted ==
  ASSUME "remove_past" \notin Calls
  PROVE  IInv /\ SpaceAccounted /\ [Next]_vars => SpaceAccounted'
<1>1. SUFFICES ASSUME IInv, SpaceAccounted, [Next]_vars PROVE SpaceAccounted'
  OBVIOUS
<1>2. ASSUME NEW t \in Threads, InsertStep(t) PROVE SpaceAccounted'
  <2>1. CASE \/ InsertNoPage(t) \/ TryExtend(t) \/ ExtendBusy(t) \/ ExtendWait(t)
             \/ GetSize(t) \/ WriteFails(t) \/ ExtendFails(t)
             \/ Publish(t) \/ Unlock1(t) \/ Unlock2(t)
    <3>1. UNCHANGED file
      BY <2>1 DEF InsertNoPage, TryExtend, ExtendBusy, ExtendWait, GetSize, WriteFails,
                  ExtendFails, Publish, Unlock1, Unlock2, durable
    <3>2. QED BY <1>1, <3>1, FileSame
  <2>2. QED
    BY <1>1, <1>2, <2>1, WritePageAccounted, InsertAccounted, MapSegmentAccounted DEF InsertStep
<1>3. ASSUME NEW t \in Threads, CallStep(t) PROVE SpaceAccounted'
  <2>1. ASSUME NEW d \in Docs, CallInsert(t, d) PROVE SpaceAccounted'
    BY <1>1, <2>1, FileSame DEF CallInsert, durable
  <2>2. ASSUME NEW r \in AskedRids,
               Find(t, r) \/ FindCrash(t, r) \/ RemoveRefused(t, r) \/ RemoveCrash(t, r)
        PROVE  SpaceAccounted'
    BY <1>1, <2>2, FileSame DEF Find, FindCrash, RemoveRefused, RemoveCrash, Crash, durable
  <2>3. ASSUME NEW r \in AskedRids, RemoveRecord(t, r) PROVE SpaceAccounted'
    BY <1>1, <2>3, RemoveAccounted
  <2>4. QED BY <1>3, <2>1, <2>2, <2>3 DEF CallStep
<1>4. CASE InitNew \/ LoadData \/ Kill \/ UNCHANGED vars
  BY <1>1, <1>4, FileSame DEF InitNew, LoadData, Kill, vars, durable
<1>5. QED BY <1>1, <1>2, <1>3, <1>4 DEF Next

\* SpaceSafe: in every page the free space that the header counts
\* (dmsFile::_updateFreeSpace), the slots and the live records make up the page,
\* whatever threads insert and remove, whatever is recovered, extended or killed,
\* as long as no caller removes the slot past the last one of a page.
THEOREM SpaceSafe ==
  ASSUME "remove_past" \notin Calls
  PROVE  Spec => []SpaceAccounted
<1>1. Init => SpaceAccounted
  BY DEF Init, SpaceAccounted
<1>2. IInv /\ [Next]_vars => IInv'
  BY NextOK
<1>3. IInv /\ SpaceAccounted /\ [Next]_vars => SpaceAccounted'
  BY NextAccounted
<1>4. QED BY <1>1, <1>2, <1>3, InitIInv, PTL DEF Spec

(***************************************************************************)
(* At most one of two threads extends the file.                            *)
(***************************************************************************)
\* A set of natural numbers has a least one.
LEMMA LeastNat ==
  ASSUME NEW S \in SUBSET Nat, S # {}
  PROVE  \E n \in S : \A m \in S : n <= m
<1>1. PICK top \in S : TRUE
  OBVIOUS
<1> DEFINE low == {n \in S : n <= top}
           upTo == {0 .. n : n \in low}
<1>2. IsFiniteSet(0 .. top)
  BY <1>1, FS_Interval
<1>3. upTo \subseteq SUBSET (0 .. top) /\ upTo # {}
  <2>1. \A n \in low : 0 .. n \subseteq 0 .. top
    OBVIOUS
  <2>2. top \in low
    BY <1>1
  <2> HIDE DEF low
  <2>3. QED BY <2>1, <2>2
<1>4. PICK s \in upTo : \A u \in upTo : u \subseteq s => u = s
  <2> DEFINE all == 0 .. top
  <2>1. IsFiniteSet(all) /\ upTo \subseteq SUBSET all /\ upTo # {}
    BY <1>2, <1>3
  <2> HIDE DEF upTo, all
  <2>2. QED BY <2>1, SmallestSet
<1>5. PICK n \in low : s = 0 .. n
  BY <1>4
<1>6. ASSUME NEW m \in S, m < n PROVE FALSE
  <2>1. m \in low /\ m \in Nat /\ n \in Nat
    BY <1>1, <1>5, <1>6
  <2>2. 0 .. m \subseteq 0 .. n
    BY <1>6, <2>1
  <2>3. 0 .. m \in upTo
    BY <2>1
  <2>4. 0 .. m = 0 .. n
    BY <1>4, <1>5, <2>2, <2>3
  <2>5. n \in 0 .. n /\ n \notin 0 .. m
    BY <1>6, <2>1
  <2>6. QED BY <2>4, <2>5
<1>7. QED BY <1>5, <1>6

\* The entries with one key are numbered.
Filed == \A e \in freeMap : e.nth \in Nat

\* _findPage finds a page if there is any that fits.
LEMMA FirstFitExists ==
  ASSUME IInv, Filed, NEW d, Candidates(d) # {}
  PROVE  FirstFit(d) # {}
<1> DEFINE keys == {e.key : e \in Candidates(d)}
<1>1. \A e \in Candidates(d) : e.key \in Nat /\ e.nth \in Nat
  BY DEF IInv, TypeOK, Filed, Candidates
<1>2. PICK k \in keys : \A j \in keys : k <= j
  <2>1. keys \in SUBSET Nat /\ keys # {}
    BY <1>1
  <2> HIDE DEF keys
  <2>2. QED BY <2>1, LeastNat
<1> DEFINE nths == {e.nth : e \in {f \in Candidates(d) : f.key = k}}
<1>3. PICK n \in nths : \A j \in nths : n <= j
  <2>1. nths \in SUBSET Nat /\ nths # {}
    BY <1>1, <1>2
  <2> HIDE DEF nths
  <2>2. QED BY <2>1, LeastNat
<1>4. PICK e \in Candidates(d) : e.key = k /\ e.nth = n
  BY <1>3
<1>5. ASSUME NEW f \in Candidates(d)
      PROVE  e.key < f.key \/ (e.key = f.key /\ e.nth <= f.nth)
  <2>1. k <= f.key /\ f.key \in Nat /\ k \in Nat
    BY <1>1, <1>2, <1>4
  <2>2. f.key = k => n <= f.nth
    BY <1>3
  <2>3. QED BY <1>4, <2>1, <2>2
<1>6. QED BY <1>5 DEF FirstFit

\* Two threads at most call the file, and whatever they insert fits an empty page.
TwoFit ==
  /\ \E t, u \in Threads : Threads = {t, u}
  /\ \A d \in Docs : DocSize[d] < FullSpace
  /\ DiskPages <= FullSpace
  /\ "remove_past" \notin Calls

\* An entry of the map offers an empty page.
Offered    == \E e \in freeMap : e.key = FullSpace

\* A thread on its way to _extendSegment, or in it.
Heads      == {"nopage", "getsize", "extend", "publish"}
Heading(t) == pc[t] \in Heads

\* What makes ExtendExclusive inductive.  No thread is inside a call of a process
\* that has ended.
Ended == state # "up" => extMutex = Free /\ \A t \in Threads : pc[t] = "idle"

\* Once an empty page is offered it stays offered, for _updateFreeSpace erases the
\* entries whose key is the page id: nobody looks for a page in vain, and only one
\* of two threads can still be on its way to extend the file, as the other one has
\* filed the page.
OneHeads == Offered => \A t, u \in Threads : Heading(t) /\ Heading(u) => t = u

\* Before that _extendMutex does what it is for: nobody has unlocked it twice.
Held ==
  ~Offered => \A t \in Threads : /\ pc[t] \notin {"unlock1", "unlock2"}
                                 /\ InExtend(t) => extMutex = t
                                 /\ pc[t] = "extwait" => extMutex # Free

\* Page ids stay below the size of the disk, and so below the key of an empty page.
Room ==
  /\ Len(file) <= DiskPages
  /\ hdrSize <= Len(file) /\ NumPages <= Len(file)
  /\ \A t \in Threads :
       /\ pc[t] = "extend" => hdrSize <= ext[t].offset /\ NumPages <= ext[t].offset
       /\ pc[t] = "publish" => /\ hdrSize + PagesPerSegment <= Len(file)
                               /\ NumPages + PagesPerSegment <= Len(file)

ExtInv == Ended /\ OneHeads /\ Held /\ Room /\ Filed

\* Either way at most one thread extends.
LEMMA ExclusiveBy == ASSUME ExtInv PROVE ExtendExclusive
  BY DEF ExtInv, OneHeads, Held, ExtendExclusive, InExtend, Heading, Heads

\* A thread goes from one label to another.
LEMMA MoveExt ==
  ASSUME IInv, ExtInv, NEW t \in Threads, NEW label \in Labels, state = "up",
         pc' = [pc EXCEPT ![t] = label],
         UNCHANGED <<state, body, freeMap, hdrSize>>, Len(file') = Len(file),
         \A u \in Threads \ {t} : ext'[u] = ext[u],
         label \in Heads => Heading(t) \/ ~Offered,
         Offered \/ extMutex' = extMutex \/ (extMutex = Free /\ extMutex' = t),
         label \in {"unlock1", "unlock2"} => Offered,
         label \in {"getsize", "extend", "publish"} => Offered \/ extMutex' = t,
         label = "extwait" => Offered \/ extMutex # Free,
         label = "extend" => hdrSize <= ext'[t].offset /\ NumPages <= ext'[t].offset,
         label = "publish" => /\ hdrSize + PagesPerSegment <= Len(file)
                              /\ NumPages + PagesPerSegment <= Len(file)
  PROVE  ExtInv'
<1>1. pc'[t] = label /\ \A u \in Threads \ {t} : pc'[u] = pc[u]
  BY DEF IInv, TypeOK
<1>2. Offered' = Offered /\ NumPages' = NumPages
  BY DEF Offered, NumPages
<1>3. Ended' /\ Filed'
  BY DEF ExtInv, Ended, Filed
<1>4. OneHeads'
  BY <1>1, <1>2 DEF ExtInv, OneHeads, Heading
<1>5. Held'
  <2>1. SUFFICES ASSUME ~Offered, NEW u \in Threads
                 PROVE  /\ pc'[u] \notin {"unlock1", "unlock2"}
                        /\ pc'[u] \in {"getsize", "extend", "publish"} => extMutex' = u
                        /\ pc'[u] = "extwait" => extMutex' # Free
    BY <1>2 DEF Held, InExtend
  <2>2. CASE u = t
    BY <1>1, <2>1, <2>2, FileAssumption
  <2>3. CASE u # t
    BY <1>1, <2>1, <2>3, FileAssumption DEF ExtInv, Held, InExtend
  <2>4. QED BY <2>2, <2>3
<1>6. Room'
  BY <1>1, <1>2 DEF ExtInv, Room
<1>7. QED BY <1>3, <1>4, <1>5, <1>6 DEF ExtInv

\* A page is filed under its new free space by a thread that returns.
LEMMA RefileExt ==
  ASSUME TwoFit, IInv, ExtInv, NEW t \in Threads, state = "up", pc[t] \in {"idle", "try"},
         NEW p \in Nat, p < NumPages, NEW old, NEW new \in Nat,
         freeMap' = Refile(freeMap, p, old, new), \E reply : Return(t, reply),
         UNCHANGED <<state, body, hdrSize, extMutex>>, Len(file') = Len(file)
  PROVE  ExtInv'
<1>1. pc'[t] = "idle" /\ \A u \in Threads \ {t} : pc'[u] = pc[u] /\ ext'[u] = ext[u]
  BY DEF IInv, TypeOK, Return
<1>2. NumPages' = NumPages
  BY DEF NumPages
<1> DEFINE kept == IF \E e \in WithKey(freeMap, old) : e.page = p
                     THEN freeMap \ WithKey(freeMap, p) ELSE freeMap
           new1 == [key |-> new, page |-> p, nth |-> Cardinality(WithKey(kept, new))]
<1>3. freeMap' = kept \cup {new1}
  BY DEF Refile, MapAdd
<1>4. Offered => Offered'
  <2>1. p # FullSpace
    <3>1. NumPages <= Len(file) /\ Len(file) <= DiskPages
      BY DEF ExtInv, Room
    <3>2. NumPages \in Nat /\ Len(file) \in Nat /\ FullSpace \in Nat /\ DiskPages \in Nat
      BY NumPagesNat, PageAssumption, FileAssumption
         DEF IInv, TypeOK, FullSpace, HeaderSize
    <3>3. QED BY <3>1, <3>2 DEF TwoFit
  <2>2. QED BY <1>3, <2>1 DEF Offered, WithKey
<1>5. Ended'
  BY DEF ExtInv, Ended
<1>6. Filed'
  <2>1. IsFiniteSet(WithKey(kept, new))
    <3>1. WithKey(kept, new) \subseteq freeMap
      BY DEF WithKey
    <3>2. QED BY <3>1, FS_Subset DEF IInv, Placed
  <2>2. new1.nth \in Nat
    BY <2>1, FS_CardinalityType
  <2>3. kept \subseteq freeMap
    OBVIOUS
  <2> HIDE DEF new1, kept
  <2>4. QED BY <1>3, <2>2, <2>3 DEF ExtInv, Filed
<1>7. OneHeads'
  <2>1. PICK v \in Threads : Threads = {t, v}
    BY DEF TwoFit
  <2>2. ~Heading(t)'
    BY <1>1 DEF Heading, Heads
  <2>3. QED BY <2>1, <2>2 DEF OneHeads
<1>8. Held'
  BY <1>1, <1>4 DEF ExtInv, Held, InExtend
<1>9. Room'
  BY <1>1, <1>2 DEF ExtInv, Room
<1>10. QED BY <1>5, <1>6, <1>7, <1>8, <1>9 DEF ExtInv

--------------------------------------------------------------------------------
\* One lemma per action.  The process goes.
LEMMA GoneExt ==
  ASSUME IInv, ExtInv, ProcessGone, UNCHANGED durable
  PROVE  ExtInv'
<1>1. ~Offered' /\ NumPages' = 0
  BY FileAssumption DEF ProcessGone, Offered, NumPages
<1>2. \A t \in Threads : pc'[t] = "idle"
  BY DEF ProcessGone
<1>3. Ended' /\ OneHeads' /\ Held' /\ Filed'
  BY <1>1, <1>2 DEF Ended, OneHeads, Held, Filed, InExtend, ProcessGone
<1>4. Room'
  BY <1>1, <1>2 DEF ExtInv, Room, IInv, TypeOK, durable
<1>5. QED BY <1>3, <1>4 DEF ExtInv

\* A restart files every page anew; no thread runs yet.
LEMMA LoadDataExt == ASSUME IInv, ExtInv, LoadData PROVE ExtInv'
<1>1. PICK wraps \in BOOLEAN :
        /\ body' = [i \in 1 .. LoadedSegments |-> LoadStart(i - 1, wraps)]
        /\ freeMap' = LoadedMap(body')
  BY DEF LoadData
<1>2. /\ \A t \in Threads : pc'[t] = "idle"
      /\ extMutex' = Free /\ state' = "up" /\ UNCHANGED <<file, hdrSize>>
  BY DEF LoadData, CanStart, ExtInv, Ended, locks, threads, durable
<1>3. Ended' /\ OneHeads' /\ Held'
  BY <1>2 DEF Ended, OneHeads, Held, InExtend, Heading, Heads
<1>4. Room'
  <2>1. /\ PagesPerSegment \in Nat \ {0} /\ hdrSize \in Nat /\ LoadedSegments \in Nat
        /\ LoadedSegments * PagesPerSegment <= hdrSize
    <3>1. PagesPerSegment \in Nat \ {0} /\ hdrSize \in Nat
      BY FileAssumption DEF IInv, TypeOK
    <3>2. /\ hdrSize \div PagesPerSegment \in Nat
          /\ (hdrSize \div PagesPerSegment) * PagesPerSegment <= hdrSize
      BY <3>1, DivMul
    <3>3. CASE hdrSize % PagesPerSegment = 0
      BY <3>1, <3>2, <3>3 DEF LoadedSegments
    <3>4. CASE hdrSize % PagesPerSegment # 0
      BY <3>1, <3>4 DEF LoadedSegments
    <3>5. QED BY <3>3, <3>4
  <2>2. Len(body') = LoadedSegments
    BY <1>1, <2>1
  <2>3. NumPages' <= hdrSize /\ hdrSize <= Len(file) /\ NumPages' \in Nat /\ Len(file) \in Nat
    BY <2>1, <2>2 DEF NumPages, ExtInv, Room, IInv, TypeOK
  <2>4. NumPages' <= Len(file)
    BY <2>1, <2>3
  <2>5. QED BY <1>2, <2>4 DEF ExtInv, Room
<1>5. Filed'
  <2> DEFINE last   == Len(body') * PagesPerSegment - 1
             key(q) == file[body'[(q \div PagesPerSegment) + 1] + (q % PagesPerSegment) + 1].freeSpace
             nth(q) == Cardinality({r \in 0 .. (q - 1) : key(r) = key(q)})
  <2>1. freeMap' = {[key |-> key(q), page |-> q % PagesPerSegment, nth |-> nth(q)] :
                      q \in 0 .. last}
    BY <1>1 DEF LoadedMap
  <2>2. SUFFICES ASSUME NEW q \in 0 .. last PROVE nth(q) \in Nat
    <3> HIDE DEF key, nth, last
    <3>1. QED BY <2>1 DEF Filed
  <2> HIDE DEF key
  <2>3. IsFiniteSet(0 .. (q - 1))
    BY FS_Interval
  <2>4. QED BY <2>3, FS_Subset, FS_CardinalityType
<1>6. QED BY <1>3, <1>4, <1>5 DEF ExtInv

\* A step that touches none of this.
LEMMA SameExt == ASSUME ExtInv, UNCHANGED <<file, hdrSize, process, locks, threads>> PROVE ExtInv'
  BY DEF ExtInv, Ended, OneHeads, Held, Room, Filed, Offered, NumPages, Heading, InExtend,
         process, locks, threads

\* A call returns.
LEMMA ReturnExt ==
  ASSUME IInv, ExtInv, NEW t \in Threads, state = "up", NEW reply, Return(t, reply),
         UNCHANGED <<process, hdrSize, extMutex>>, Len(file') = Len(file)
  PROVE  ExtInv'
<1>1. /\ pc' = [pc EXCEPT ![t] = "idle"] /\ "idle" \in Labels
      /\ \A u \in Threads \ {t} : ext'[u] = ext[u]
  BY DEF Return, Labels, IInv, TypeOK
<1>2. QED BY <1>1, MoveExt DEF process, Heads

\* insert is called.
LEMMA CallInsertExt ==
  ASSUME IInv, ExtInv, NEW t \in Threads, NEW d \in Docs, CallInsert(t, d) PROVE ExtInv'
<1>1. CASE DocSize[d] > PageSize
  BY <1>1, ReturnExt DEF CallInsert, CanCall, durable, locks
<1>2. CASE ~(DocSize[d] > PageSize)
  <2>1. "try" \in Labels
    BY DEF Labels
  <2>2. QED BY <1>2, <2>1, MoveExt DEF CallInsert, CanCall, Goto, durable, process, locks, Heads
<1>3. QED BY <1>1, <1>2

\* A page is offered that any document fits, so no thread looks for one in vain.
LEMMA NoPageLacks ==
  ASSUME TwoFit, IInv, ExtInv, NEW t \in Threads, InsertNoPage(t) PROVE ~Offered
<1>1. arg[t] \in Docs /\ DocSize[arg[t]] < FullSpace
  BY DEF InsertNoPage, Trying, IInv, Placed, TwoFit
<1>2. Offered => Candidates(arg[t]) # {}
  BY <1>1, NeedType, PageAssumption DEF Offered, Candidates, FullSpace, HeaderSize
<1>3. QED BY <1>2, FirstFitExists DEF InsertNoPage, ExtInv

LEMMA NoPageExt ==
  ASSUME TwoFit, IInv, ExtInv, NEW t \in Threads, InsertNoPage(t) PROVE ExtInv'
<1>1. ~Offered
  BY NoPageLacks
<1>2. "nopage" \in Labels
  BY DEF Labels
<1>3. QED
  BY <1>1, <1>2, MoveExt DEF InsertNoPage, Trying, Goto, durable, process, locks, Heads

\* A thread inside insert runs in a process that is up.
LEMMA UpIn == ASSUME ExtInv, NEW t \in Threads, pc[t] # "idle" PROVE state = "up"
  BY DEF ExtInv, Ended

\* The steps that take _extendMutex, wait for it and unlock it.
LEMMA WaitStepsExt ==
  ASSUME IInv, ExtInv, NEW t \in Threads,
         \/ TryExtend(t) \/ ExtendBusy(t) \/ ExtendWait(t)
         \/ Unlock1(t) \/ Unlock2(t) \/ GetSize(t)
  PROVE  ExtInv'
<1>1. {"getsize", "extwait", "unlock2", "try", "extend"} \subseteq Labels
  BY DEF Labels
<1>2. state = "up"
  BY UpIn DEF TryExtend, ExtendBusy, ExtendWait, Unlock1, Unlock2, GetSize
<1>3. CASE TryExtend(t)
  BY <1>1, <1>2, <1>3, MoveExt DEF TryExtend, Goto, durable, process, Heading, Heads
<1>4. CASE ExtendBusy(t)
  BY <1>1, <1>2, <1>4, MoveExt DEF ExtendBusy, Goto, durable, process, locks, Heads
<1>5. CASE ExtendWait(t)
  <2>1. Offered
    BY <1>5 DEF ExtendWait, ExtInv, Held
  <2>2. QED BY <1>1, <1>2, <1>5, <2>1, MoveExt DEF ExtendWait, Goto, durable, process, Heads
<1>6. CASE Unlock1(t) \/ Unlock2(t)
  <2>1. Offered
    BY <1>6 DEF Unlock1, Unlock2, ExtInv, Held
  <2>2. CASE Unlock1(t)
    BY <1>1, <1>2, <2>1, <2>2, MoveExt DEF Unlock1, Goto, durable, process, Heads
  <2>3. CASE Unlock2(t)
    BY <1>1, <1>2, <2>1, <2>3, MoveExt DEF Unlock2, Goto, durable, process, Heads
  <2>4. QED BY <1>6, <2>2, <2>3
<1>7. CASE GetSize(t)
  <2>1. ext'[t].offset = Len(file) /\ \A u \in Threads \ {t} : ext'[u] = ext[u]
    BY <1>7 DEF GetSize, IInv, TypeOK, NoExt
  <2>2. hdrSize <= Len(file) /\ NumPages <= Len(file)
    BY DEF ExtInv, Room
  <2>3. Offered \/ extMutex' = t
    BY <1>7 DEF GetSize, ExtInv, Held, InExtend, locks
  <2>4. Heading(t)
    BY <1>7 DEF GetSize, Heading, Heads
  <2>5. QED
    BY <1>1, <1>2, <1>7, <2>1, <2>2, <2>3, <2>4, MoveExt
       DEF GetSize, Goto, durable, process, locks
<1>8. QED BY <1>3, <1>4, <1>5, <1>6, <1>7

\* A page of the file is replaced by another.
LEMMA PageLen ==
  ASSUME IInv, NEW i, NEW pg, file' = [file EXCEPT ![i] = pg] PROVE Len(file') = Len(file)
  BY DEF IInv, TypeOK

\* insert files the page it found again, or is refused, or crashes.
LEMMA InsertExt ==
  ASSUME TwoFit, IInv, ExtInv, NEW t \in Threads, InsertInPage(t) PROVE ExtInv'
<1>1. PICK e \in FirstFit(arg[t]) :
        InsertStore(t, e.page) \/ InsertRefused(t, e.page) \/ InsertCrash(t, e.page)
  BY DEF InsertInPage
<1> DEFINE p   == e.page
           d   == arg[t]
           old == file[Where(p)]
           pg  == Recovered(old, d)
<1>2. p \in Nat /\ d \in Docs /\ state = "up" /\ pc[t] \in {"idle", "try"}
  BY FirstFitPage DEF InsertInPage, Trying, IInv, Placed
<1>3. CASE InsertStore(t, p)
  <2>1. /\ p < NumPages /\ Fits(pg, d) /\ ~(MustRecover(old, d) /\ RecoverCrashes(old))
        /\ file' = [file EXCEPT ![Where(p)] = StoreRecord(pg, d)]
        /\ freeMap' = Refile(freeMap, p, pg.freeSpace, pg.freeSpace - Need(d))
        /\ \E reply : Return(t, reply)
        /\ UNCHANGED <<state, body, hdrSize, extMutex>>
    BY <1>3 DEF InsertStore, locks
  <2>2. pg.freeSpace - Need(d) \in Nat
    <3>1. old \in Pages /\ PageOK(old)
      BY <1>2, <2>1, WhereInside
    <3>2. pg = old
      BY <1>2, <2>1, <3>1, RecoveredSame
    <3>3. QED BY <1>2, <2>1, <3>1, <3>2, NeedType DEF Fits, Pages
  <2> HIDE DEF p, d, old, pg
  <2>3. Len(file') = Len(file)
    BY <2>1, PageLen
  <2>4. QED BY <1>2, <2>1, <2>2, <2>3, RefileExt
<1>4. CASE InsertRefused(t, p)
  <2>1. Return(t, Failed) /\ UNCHANGED <<process, hdrSize, extMutex>>
    BY <1>4 DEF InsertRefused
  <2>2. file' = file \/ file' = [file EXCEPT ![Where(p)] = pg]
    BY <1>4 DEF InsertRefused
  <2> HIDE DEF p, d, old, pg
  <2>3. Len(file') = Len(file)
    BY <2>2, PageLen
  <2>4. QED BY <1>2, <2>1, <2>3, ReturnExt
<1>5. CASE InsertCrash(t, p)
  BY <1>5, GoneExt DEF InsertCrash, Crash
<1>6. QED BY <1>1, <1>3, <1>4, <1>5

\* _extendFile appends a page.
LEMMA WritePageExt == ASSUME IInv, ExtInv, NEW t \in Threads, WritePage(t) PROVE ExtInv'
<1>1. /\ pc[t] = "extend" /\ Len(file) < DiskPages /\ file' = Append(file, ZeroPage)
      /\ UNCHANGED <<hdrSize, process, locks, pc>>
      /\ ext' = [ext EXCEPT ![t] = [offset |-> @.offset, done |-> @.done + 1, failed |-> FALSE]]
  BY DEF WritePage, Extending
<1>2. Len(file) \in Nat /\ Len(file') = Len(file) + 1 /\ Len(file') <= DiskPages
  <2>1. file \in Seq(Pages) /\ DiskPages \in Nat /\ ZeroPage \in Pages
    BY FileAssumption, ZeroPageOK DEF IInv, TypeOK
  <2>2. Len(file') = Len(file) + 1
    BY <1>1, <2>1, AppendProperties
  <2>3. QED BY <1>1, <2>1, <2>2
<1>3. \A u \in Threads : ext'[u].offset = ext[u].offset
  BY <1>1 DEF IInv, TypeOK
<1>4. NumPages' = NumPages /\ NumPages \in Nat /\ hdrSize \in Nat /\ Offered' = Offered
      /\ PagesPerSegment \in Nat
  BY <1>1, NumPagesNat, FileAssumption DEF NumPages, Offered, process, IInv, TypeOK
<1>5. Ended' /\ OneHeads' /\ Held' /\ Filed'
  BY <1>1, <1>4
     DEF ExtInv, Ended, OneHeads, Held, Filed, Heading, InExtend, process, locks
<1>6. Room'
  <2>1. hdrSize <= Len(file') /\ NumPages <= Len(file')
    BY <1>2, <1>4 DEF ExtInv, Room
  <2>2. ASSUME NEW u \in Threads, pc[u] = "publish"
        PROVE  /\ hdrSize + PagesPerSegment <= Len(file')
               /\ NumPages + PagesPerSegment <= Len(file')
    BY <1>2, <1>4, <2>2 DEF ExtInv, Room
  <2>3. QED BY <1>1, <1>2, <1>3, <1>4, <2>1, <2>2 DEF ExtInv, Room
<1>7. QED BY <1>5, <1>6 DEF ExtInv

\* A write fails, the segment is mapped, or the extension is given up.
LEMMA ExtendStepsExt ==
  ASSUME IInv, ExtInv, NEW t \in Threads, WriteFails(t) \/ MapSegment(t) \/ ExtendFails(t)
  PROVE  ExtInv'
<1>1. pc[t] = "extend" /\ state = "up" /\ {"extend", "publish"} \subseteq Labels
  BY UpIn DEF WriteFails, MapSegment, ExtendFails, Extending, Extended, Labels
<1>2. Heading(t) /\ (Offered \/ extMutex = t)
  BY <1>1 DEF Heading, Heads, ExtInv, Held, InExtend
<1>3. hdrSize <= ext[t].offset /\ NumPages <= ext[t].offset
  BY <1>1 DEF ExtInv, Room
<1>4. CASE WriteFails(t)
  <2>1. pc' = [pc EXCEPT ![t] = "extend"] /\ UNCHANGED <<durable, process, locks>>
    BY <1>1, <1>4 DEF WriteFails, IInv, TypeOK
  <2>2. ext'[t].offset = ext[t].offset /\ \A u \in Threads \ {t} : ext'[u] = ext[u]
    BY <1>4 DEF WriteFails, IInv, TypeOK
  <2>3. QED
    BY <1>1, <1>2, <1>3, <2>1, <2>2, MoveExt DEF durable, process, locks
<1>5. CASE MapSegment(t)
  <2>1. /\ InFile(t) /\ Goto(t, "publish")
        /\ UNCHANGED <<hdrSize, process, locks, ext>>
    BY <1>5 DEF MapSegment
  <2>2. /\ hdrSize + PagesPerSegment <= Len(file)
        /\ NumPages + PagesPerSegment <= Len(file)
    <3>1. /\ hdrSize \in Nat /\ NumPages \in Nat /\ ext[t].offset \in Nat
          /\ PagesPerSegment \in Nat /\ Len(file) \in Nat
      BY NumPagesNat, FileAssumption DEF IInv, TypeOK
    <3>2. QED BY <1>3, <2>1, <3>1 DEF InFile
  <2>3. Len(file') = Len(file)
    BY <1>5, PageLen DEF MapSegment
  <2>4. QED
    BY <1>1, <1>2, <2>1, <2>2, <2>3, MoveExt DEF Goto, process, locks
<1>6. CASE ExtendFails(t)
  BY <1>1, <1>6, ReturnExt DEF ExtendFails, durable, locks
<1>7. QED BY <1>4, <1>5, <1>6

\* The new pages are filed, and offered from then on.
LEMMA PublishExt == ASSUME TwoFit, IInv, ExtInv, NEW t \in Threads, Publish(t) PROVE ExtInv'
<1>1. /\ pc[t] = "publish" /\ body' = Append(body, ext[t].offset)
      /\ freeMap' = freeMap \cup
           {[key |-> FullSpace, page |-> Cardinality(freeMap) + i,
             nth |-> Cardinality(WithKey(freeMap, FullSpace)) + i] :
              i \in 0 .. (PagesPerSegment - 1)}
      /\ hdrSize' = hdrSize + PagesPerSegment /\ pc' = [pc EXCEPT ![t] = "unlock1"]
      /\ ext' = [ext EXCEPT ![t] = NoExt] /\ UNCHANGED <<file, state, locks>>
  BY DEF Publish, Goto
<1>2. /\ pc'[t] = "unlock1" /\ state = "up" /\ PagesPerSegment \in Nat \ {0}
      /\ \A u \in Threads \ {t} : pc'[u] = pc[u] /\ ext'[u] = ext[u]
  BY <1>1, UpIn, FileAssumption DEF IInv, TypeOK
<1>3. \A u \in Threads \ {t} : ~InExtend(u)
  BY <1>1, ExclusiveBy DEF ExtendExclusive, InExtend
<1>4. Offered'
  <2> DEFINE entry(i) == [key |-> FullSpace, page |-> Cardinality(freeMap) + i,
                          nth |-> Cardinality(WithKey(freeMap, FullSpace)) + i]
  <2>1. 0 \in 0 .. (PagesPerSegment - 1)
    BY <1>2
  <2>2. entry(0) \in freeMap' /\ entry(0).key = FullSpace
    BY <1>1, <2>1
  <2> HIDE DEF entry
  <2>3. QED BY <2>2 DEF Offered
<1>5. Filed'
  <2>1. Cardinality(WithKey(freeMap, FullSpace)) \in Nat
    <3>1. WithKey(freeMap, FullSpace) \subseteq freeMap
      BY DEF WithKey
    <3>2. QED BY <3>1, FS_Subset, FS_CardinalityType DEF IInv, Placed
  <2>2. QED BY <1>1, <2>1 DEF ExtInv, Filed
<1>6. Ended' /\ Held'
  BY <1>1, <1>2, <1>4 DEF Ended, Held
<1>7. OneHeads'
  <2>1. PICK v \in Threads : Threads = {t, v}
    BY DEF TwoFit
  <2>2. ~Heading(t)'
    BY <1>2 DEF Heading, Heads
  <2>3. QED BY <2>1, <2>2 DEF OneHeads
<1>8. Room'
  <2>1. /\ hdrSize' <= Len(file) /\ NumPages' <= Len(file)
    <3>1. body \in Seq(Nat) /\ ext[t].offset \in Nat
      BY DEF IInv, TypeOK
    <3>2. Len(body') = Len(body) + 1 /\ Len(body) \in Nat
      BY <1>1, <3>1, AppendProperties
    <3>3. NumPages' = NumPages + PagesPerSegment
      BY <1>2, <3>2 DEF NumPages
    <3>4. QED BY <1>1, <3>3 DEF ExtInv, Room
  <2>2. QED BY <1>1, <1>2, <1>3, <2>1 DEF ExtInv, Room, InExtend
<1>9. QED BY <1>5, <1>6, <1>7, <1>8 DEF ExtInv

\* Every step keeps the invariant.
LEMMA NextExt == TwoFit /\ IInv /\ ExtInv /\ [Next]_vars => ExtInv'
<1>1. SUFFICES ASSUME TwoFit, IInv, ExtInv, [Next]_vars PROVE ExtInv'
  OBVIOUS
<1>2. ASSUME NEW t \in Threads, InsertStep(t) PROVE ExtInv'
  BY <1>1, <1>2, NoPageExt, InsertExt, WaitStepsExt, WritePageExt, ExtendStepsExt, PublishExt
     DEF InsertStep
<1>3. ASSUME NEW t \in Threads, CallStep(t) PROVE ExtInv'
  <2>1. ASSUME NEW d \in Docs, CallInsert(t, d) PROVE ExtInv'
    BY <1>1, <2>1, CallInsertExt
  <2>2. ASSUME NEW r \in AskedRids, Find(t, r) \/ RemoveRefused(t, r) PROVE ExtInv'
    <3>1. /\ state = "up" /\ \E reply : Return(t, reply)
          /\ UNCHANGED <<durable, process, locks>>
      BY <2>2 DEF Find, RemoveRefused, CanCall, CanRemove
    <3>2. QED BY <1>1, <3>1, ReturnExt DEF durable, locks
  <2>3. ASSUME NEW r \in AskedRids, FindCrash(t, r) \/ RemoveCrash(t, r) PROVE ExtInv'
    BY <1>1, <2>3, GoneExt DEF FindCrash, RemoveCrash, Crash
  <2>4. ASSUME NEW r \in AskedRids, RemoveRecord(t, r) PROVE ExtInv'
    <3> DEFINE old == PageOf(r)
               new == DropRecord(old, r[2])
    <3>1. /\ state = "up" /\ pc[t] \in {"idle", "try"} /\ r[1] < NumPages
          /\ file' = [file EXCEPT ![Where(r[1])] = new]
          /\ freeMap' = Refile(freeMap, r[1], old.freeSpace, new.freeSpace)
          /\ \E reply : Return(t, reply)
          /\ UNCHANGED <<state, body, hdrSize, extMutex>>
      BY <2>4 DEF RemoveRecord, CanRemove, CanCall, InPage, locks
    <3>2. r[1] \in Nat /\ new.freeSpace \in Nat
      BY <1>1, <2>4, RemovedIsLive, DropRecordOK DEF TwoFit, Pages
    <3> HIDE DEF old, new
    <3>3. Len(file') = Len(file)
      BY <1>1, <3>1, PageLen
    <3>4. QED BY <1>1, <3>1, <3>2, <3>3, RefileExt
  <2>5. QED BY <1>3, <2>1, <2>2, <2>3, <2>4 DEF CallStep
<1>4. CASE LoadData \/ Kill
  BY <1>1, <1>4, LoadDataExt, GoneExt DEF Kill
<1>5. CASE InitNew \/ UNCHANGED vars
  BY <1>1, <1>5, SameExt DEF InitNew, vars, durable
<1>6. QED BY <1>1, <1>2, <1>3, <1>4, <1>5 DEF Next

LEMMA InitExt == ASSUME Init PROVE ExtInv
<1>1. ~Offered /\ NumPages = 0 /\ Len(file) = 0 /\ \A t \in Threads : pc[t] = "idle"
  BY FileAssumption DEF Init, Offered, NumPages
<1>2. Ended /\ OneHeads /\ Held /\ Filed
  BY <1>1 DEF Init, Ended, OneHeads, Held, Filed, InExtend
<1>3. Room
  BY <1>1, FileAssumption DEF Init, Room
<1>4. QED BY <1>2, <1>3 DEF ExtInv

\* OneExtends: of two threads that insert documents an empty page has room for, at
\* most one is inside _extendSegment, although insert unlocks _extendMutex twice,
\* whatever is killed, crashes or fails.  Neither condition can be dropped: for
\* three threads, or a document as large as an empty page, it is false.
THEOREM OneExtends ==
  ASSUME TwoFit
  PROVE  Spec => []ExtendExclusive
<1>1. Init => ExtInv
  BY InitExt
<1>2. IInv /\ [Next]_vars => IInv'
  BY NextOK DEF TwoFit
<1>3. IInv /\ ExtInv /\ [Next]_vars => ExtInv'
  BY NextExt
<1>4. ExtInv => ExtendExclusive
  BY ExclusiveBy
<1>5. QED BY <1>1, <1>2, <1>3, <1>4, InitIInv, PTL DEF Spec
================================================================================
