------------------------------- MODULE DmsFile -------------------------------
(***************************************************************************)
(* dmsFile: one data file shared by the threads of the server.  The file   *)
(* is a header chunk, whose _size counts pages, and pages in segments of   *)
(* PagesPerSegment; a running process has every segment mapped (body), a   *)
(* multimap from free space to page id (freeMap) and two mutexes.          *)
(*                                                                         *)
(* A critical section of _mutex is one action: what it stores in mapped    *)
(* pages is read under the same mutex only.  Extending the file, which is  *)
(* done outside _mutex, is one action per step another thread can see.     *)
(* The file grows in whole pages here, in 64 KB chunks in the code.        *)
(***************************************************************************)
EXTENDS DmsPage, Sequences, FiniteSets

CONSTANTS Threads,          \* the threads that call the data file
          PagesPerSegment,  \* DMS_PAGES_PER_SEGMENT
          DiskPages,        \* pages the disk has room for: then writes fail
          IntSegments,      \* segments whose offset fits an int: 16 in the code
          Calls,            \* the operations the threads call
          Env,              \* what the environment does to the process
          AskedRids         \* the record identifiers the callers ask for

Free == "free"       \* nobody holds the mutex

ASSUME FileAssumption ==
  /\ PagesPerSegment \in Nat \ {0}
  /\ DiskPages \in Nat
  /\ IntSegments \in Nat \ {0}
  /\ DiskPages \div PagesPerSegment <= 2 * IntSegments  \* then offsets wrap around
  /\ Calls \subseteq {"insert", "find", "remove", "remove_past"}
  /\ Env \subseteq {"kill", "kill_extending", "restart", "write_error", "map_error"}
  /\ AskedRids \subseteq (0 .. DiskPages + 1) \X SlotIds
  /\ Free \notin Threads

VARIABLES file,      \* the pages of the data file, after the header chunk
          created,   \* the header chunk exists
          hdrSize,   \* _header->_size, in pages
          state,     \* the process: not started yet, "up", or "gone"
          body,      \* _body: the page of the file each mapped segment starts at
          freeMap,   \* _freeSpaceMap: entries key |-> page, nth among equal keys
          mutex,     \* who holds _mutex
          extMutex,  \* who holds _extendMutex
          pc,        \* where each thread is in insert
          arg,       \* the document it is inserting
          ext,       \* the locals of _extendSegment: offset, pages written, rc
          ret        \* what its last call returned

durable  == <<file, created, hdrSize>>
process  == <<state, body, freeMap>>
locks    == <<mutex, extMutex>>
threads  == <<pc, arg, ext, ret>>
vars     == <<durable, process, locks, threads>>

NoDoc == "nodoc"
NoExt == [offset |-> 0, done |-> 0, failed |-> FALSE]

\* Page ids up to the second one that no page can have.
Rids == (0 .. DiskPages + 1) \X SlotIds

\* What the file holds for a caller: page p of the data file is the p-th page
\* after the header chunk, which is where a restart looks for it.
StoredRids == UNION {{p} \X Slots(file[p + 1]) : p \in 0 .. (hdrSize - 1)}

StoredRecords ==
  [r \in StoredRids |-> LET pg == file[r[1] + 1]
                        IN  IF Holds(pg, r[2]) THEN DocIn(pg, r[2]) ELSE "removed"]

\* The abstract store, and the replies of the operations.
Store == INSTANCE RecordStore WITH recs <- StoredRecords

NoReply == Store!NoReply
Failed  == Store!Refused

Init ==
  /\ file = << >> /\ created = FALSE /\ hdrSize = 0
  /\ state = "new" /\ body = << >> /\ freeMap = {}
  /\ mutex = Free /\ extMutex = Free
  /\ pc = [t \in Threads |-> "idle"]
  /\ arg = [t \in Threads |-> NoDoc]
  /\ ext = [t \in Threads |-> NoExt]
  /\ ret = [t \in Threads |-> NoReply]

(***************************************************************************)
(* The free-space multimap.  Equal keys keep the order of insertion.       *)
(***************************************************************************)
WithKey(m, k) == {e \in m : e.key = k}

MapAdd(m, k, p) ==
  m \cup {[key |-> k, page |-> p, nth |-> Cardinality(WithKey(m, k))]}

\* _findPage: the first entry whose key exceeds the size of the document, if any.
Candidates(d) == {e \in freeMap : e.key > DocSize[d]}

FirstFit(d) ==
  {e \in Candidates(d) : \A f \in Candidates(d) :
      e.key < f.key \/ (e.key = f.key /\ e.nth <= f.nth)}

\* _updateFreeSpace files a page under its new free space.  If the old entry
\* is there it erases by key, and the key it passes is the page id.
Refile(m, p, old, new) ==
  LET filed == \E e \in WithKey(m, old) : e.page = p
      kept  == IF filed THEN m \ WithKey(m, p) ELSE m
  IN  MapAdd(kept, new, p)

(***************************************************************************)
(* Page ids.  pageToOffset refuses an id above the number of pages and     *)
(* indexes _body past its end for the number itself.                       *)
(***************************************************************************)
NumPages == Len(body) * PagesPerSegment

NullPage(p) == p > NumPages
WildPage(p) == p = NumPages
Where(p)    == body[(p \div PagesPerSegment) + 1] + (p % PagesPerSegment) + 1

(***************************************************************************)
(* The process: initialize, kill, crash                                    *)
(***************************************************************************)
CanStart == state = "new" \/ (state = "gone" /\ "restart" \in Env)

\* initialize on an empty file: _initNew appends the header chunk.  When the
\* write fails initialize tries again, for ever.
InitNew ==
  /\ CanStart /\ ~created
  /\ created' = TRUE
  /\ UNCHANGED <<file, hdrSize, process, locks, threads>>

\* A header that is no multiple of a segment loads nothing, and the process
\* serves all the same.
LoadedSegments ==
  IF hdrSize % PagesPerSegment = 0 THEN hdrSize \div PagesPerSegment ELSE 0

\* The offset of a segment is computed in an int: from segment IntSegments on it
\* overflows, and a build either wraps it, so that map refuses the offset, or
\* widens it.  (From 2 * IntSegments on it would be the offset of an early segment
\* again: FileAssumption.)  map also refuses a segment that ends past the end of
\* the file.
MappedSegments(wraps) ==
  LET inFile == Len(file) \div PagesPerSegment
  IN  IF wraps /\ IntSegments < inFile THEN IntSegments ELSE inFile

\* A segment that map refuses takes the address of the one before it.
LoadStart(i, wraps) ==
  PagesPerSegment * (IF i < MappedSegments(wraps) THEN i ELSE MappedSegments(wraps) - 1)

\* Every page is filed under its free space with its number in the segment.
LoadedMap(starts) ==
  LET last   == Len(starts) * PagesPerSegment - 1
      key(q) == file[starts[(q \div PagesPerSegment) + 1] + (q % PagesPerSegment) + 1].freeSpace
  IN  {[key |-> key(q), page |-> q % PagesPerSegment,
        nth |-> Cardinality({r \in 0 .. (q - 1) : key(r) = key(q)})] : q \in 0 .. last}

\* initialize on a file that exists: _loadData.
LoadData ==
  /\ CanStart /\ created
  /\ \E wraps \in BOOLEAN :
       /\ body' = [i \in 1 .. LoadedSegments |-> LoadStart(i - 1, wraps)]
       /\ freeMap' = LoadedMap(body')
  /\ state' = "up"
  /\ UNCHANGED <<durable, locks, threads>>

\* The process ends: the mapped file keeps every store, the rest is gone.
ProcessGone ==
  /\ state' = "gone"
  /\ body' = << >> /\ freeMap' = {}
  /\ mutex' = Free /\ extMutex' = Free
  /\ pc' = [t \in Threads |-> "idle"]
  /\ arg' = [t \in Threads |-> NoDoc]
  /\ ext' = [t \in Threads |-> NoExt]
  /\ ret' = [t \in Threads |-> NoReply]

\* A segment exists in the file and is not counted in the header.
Growing == \E t \in Threads : pc[t] \in {"extend", "publish"}

Kill ==
  /\ state = "up"
  /\ \/ "kill" \in Env /\ ~Growing
     \/ "kill_extending" \in Env /\ Growing
  /\ ProcessGone
  /\ UNCHANGED durable

(***************************************************************************)
(* Helpers of the operations                                               *)
(***************************************************************************)
Return(t, reply) ==
  /\ pc' = [pc EXCEPT ![t] = "idle"]
  /\ arg' = [arg EXCEPT ![t] = NoDoc]
  /\ ext' = [ext EXCEPT ![t] = NoExt]
  /\ ret' = [ret EXCEPT ![t] = reply]

Goto(t, label) == pc' = [pc EXCEPT ![t] = label]

CanCall(t, call) == state = "up" /\ pc[t] = "idle" /\ call \in Calls

\* A crash in the middle of an operation: whatever it stored so far is kept.
Crash == ProcessGone /\ UNCHANGED durable

(***************************************************************************)
(* insert                                                                  *)
(***************************************************************************)
\* The call; a document above DMS_PAGESIZE is refused before any lock.
CallInsert(t, d) ==
  /\ CanCall(t, "insert")
  /\ IF DocSize[d] > PageSize
       THEN Return(t, Failed)
       ELSE /\ Goto(t, "try")
            /\ arg' = [arg EXCEPT ![t] = d]
            /\ ret' = [ret EXCEPT ![t] = NoReply]
            /\ UNCHANGED ext
  /\ UNCHANGED <<durable, process, locks>>

\* retry: _mutex is taken and a page looked for.
Trying(t) == state = "up" /\ pc[t] = "try" /\ mutex = Free

\* Mutant: _mutex is not released before the file is extended.
InsertNoPageLocked(t) ==
  /\ Trying(t)
  /\ FirstFit(arg[t]) = {}
  /\ mutex' = t
  /\ Goto(t, "nopage")
  /\ UNCHANGED <<durable, process, extMutex, arg, ext, ret>>

\* No page has room: _mutex is released, the file is to be extended.
InsertNoPage(t) ==
  /\ Trying(t)
  /\ FirstFit(arg[t]) = {}
  /\ Goto(t, "nopage")
  /\ UNCHANGED <<durable, process, locks, arg, ext, ret>>

\* The document is stored in page p, the page found, which is filed again.
InsertStore(t, p) ==
  LET d   == arg[t]
      old == file[Where(p)]
      pg  == Recovered(old, d)
  IN  /\ p < NumPages
      /\ ~(MustRecover(old, d) /\ RecoverCrashes(old))
      /\ Fits(pg, d)
      /\ file' = [file EXCEPT ![Where(p)] = StoreRecord(pg, d)]
      /\ freeMap' = Refile(freeMap, p, pg.freeSpace, pg.freeSpace - Need(d))
      /\ Return(t, Store!Inserted(<<p, pg.numSlots>>, d))
      /\ UNCHANGED <<created, hdrSize, state, body, locks>>

\* The page found does not exist or is too small: EDB_SYS is returned and
\* _mutex stays locked.  (Past the end of _body a null pointer may be read.)
InsertRefused(t, p) ==
  LET d   == arg[t]
      old == file[Where(p)]
      pg  == Recovered(old, d)
  IN  /\ IF p >= NumPages
           THEN UNCHANGED file
           ELSE /\ ~(MustRecover(old, d) /\ RecoverCrashes(old))
                /\ ~Fits(pg, d)
                /\ file' = [file EXCEPT ![Where(p)] = pg]
      /\ mutex' = t
      /\ Return(t, Failed)
      /\ UNCHANGED <<created, hdrSize, process, extMutex>>

\* _recoverSpace follows an EMPTY slot, or the page is read past _body's end.
InsertCrash(t, p) ==
  /\ IF p >= NumPages
       THEN WildPage(p)
       ELSE LET old == file[Where(p)]
            IN  MustRecover(old, arg[t]) /\ RecoverCrashes(old)
  /\ Crash

InsertInPage(t) ==
  /\ Trying(t)
  /\ \E e \in FirstFit(arg[t]) :
       InsertStore(t, e.page) \/ InsertRefused(t, e.page) \/ InsertCrash(t, e.page)

\* Mutant: the result of try_lock is ignored.
TryExtendUnlocked(t) ==
  /\ pc[t] = "nopage"
  /\ extMutex' = t
  /\ Goto(t, "getsize")
  /\ UNCHANGED <<durable, process, mutex, arg, ext, ret>>

\* One thread takes _extendMutex at once and extends.
TryExtend(t) ==
  /\ pc[t] = "nopage"
  /\ extMutex = Free
  /\ extMutex' = t
  /\ Goto(t, "getsize")
  /\ UNCHANGED <<durable, process, mutex, arg, ext, ret>>

\* The others wait for it, then look again.
ExtendBusy(t) ==
  /\ pc[t] = "nopage"
  /\ extMutex # Free
  /\ Goto(t, "extwait")
  /\ UNCHANGED <<durable, process, locks, arg, ext, ret>>

ExtendWait(t) ==
  /\ pc[t] = "extwait"
  /\ extMutex = Free
  /\ extMutex' = t
  /\ Goto(t, "unlock2")
  /\ UNCHANGED <<durable, process, mutex, arg, ext, ret>>

(***************************************************************************)
(* _extendSegment                                                          *)
(***************************************************************************)
\* Mutant: the new segment is placed over the last counted one.
GetSizeStale(t) ==
  /\ pc[t] = "getsize"
  /\ ext' = [ext EXCEPT ![t] = [NoExt EXCEPT !.offset =
                                   IF hdrSize = 0 THEN 0 ELSE hdrSize - PagesPerSegment]]
  /\ Goto(t, "extend")
  /\ UNCHANGED <<durable, process, locks, arg, ret>>

GetSize(t) ==
  /\ pc[t] = "getsize"
  /\ ext' = [ext EXCEPT ![t] = [NoExt EXCEPT !.offset = Len(file)]]
  /\ Goto(t, "extend")
  /\ UNCHANGED <<durable, process, locks, arg, ret>>

\* _extendFile appends at the end of the file; it goes on after a write that
\* failed, and the last write's code is the one it returns.
Extending(t) == pc[t] = "extend" /\ ext[t].done < PagesPerSegment

WritePage(t) ==
  /\ Extending(t)
  /\ Len(file) < DiskPages
  /\ file' = Append(file, ZeroPage)
  /\ ext' = [ext EXCEPT ![t] = [offset |-> @.offset, done |-> @.done + 1, failed |-> FALSE]]
  /\ UNCHANGED <<created, hdrSize, process, locks, pc, arg, ret>>

WriteFails(t) ==
  /\ Extending(t)
  /\ Len(file) >= DiskPages \/ "write_error" \in Env
  /\ ext' = [ext EXCEPT ![t] = [offset |-> @.offset, done |-> @.done + 1, failed |-> TRUE]]
  /\ UNCHANGED <<durable, process, locks, pc, arg, ret>>

Extended(t) == pc[t] = "extend" /\ ext[t].done = PagesPerSegment

InFile(t) == ext[t].offset + PagesPerSegment <= Len(file)

\* The segment is mapped and the header of its first page written.  (The loop
\* over the pages steps by DMS_PAGESIZE, so it ends after the first.)
MapSegment(t) ==
  /\ Extended(t)
  /\ ~ext[t].failed /\ InFile(t)
  /\ file' = [file EXCEPT ![ext[t].offset + 1] = WriteHeader(@)]
  /\ Goto(t, "publish")
  /\ UNCHANGED <<created, hdrSize, process, locks, arg, ext, ret>>

\* _extendSegment failed: insert returns EDB_SYS and _extendMutex stays locked.
ExtendFails(t) ==
  /\ Extended(t)
  /\ ext[t].failed \/ ~InFile(t) \/ "map_error" \in Env
  /\ Return(t, Failed)
  /\ UNCHANGED <<durable, process, locks>>

\* Mutant: the new segment is not counted in the file header.
PublishUncounted(t) ==
  LET base == Cardinality(freeMap)
      nth0 == Cardinality(WithKey(freeMap, FullSpace))
  IN  /\ pc[t] = "publish"
      /\ mutex = Free
      /\ freeMap' = freeMap \cup
           {[key |-> FullSpace, page |-> base + i, nth |-> nth0 + i] :
              i \in 0 .. (PagesPerSegment - 1)}
      /\ body' = Append(body, ext[t].offset)
      /\ ext' = [ext EXCEPT ![t] = NoExt]
      /\ Goto(t, "unlock1")
      /\ UNCHANGED <<durable, state, locks, arg, ret>>

\* The new pages are filed, all as free, under the ids that follow the number
\* of entries in the free-space map; the segment is counted.
Publish(t) ==
  LET base == Cardinality(freeMap)
      nth0 == Cardinality(WithKey(freeMap, FullSpace))
  IN  /\ pc[t] = "publish"
      /\ mutex = Free
      /\ freeMap' = freeMap \cup
           {[key |-> FullSpace, page |-> base + i, nth |-> nth0 + i] :
              i \in 0 .. (PagesPerSegment - 1)}
      /\ body' = Append(body, ext[t].offset)
      /\ hdrSize' = hdrSize + PagesPerSegment
      /\ ext' = [ext EXCEPT ![t] = NoExt]
      /\ Goto(t, "unlock1")
      /\ UNCHANGED <<file, created, state, locks, arg, ret>>

\* _extendMutex is unlocked once in the branch that extended and once more
\* after it, whoever holds it by then.
Unlock1(t) ==
  /\ pc[t] = "unlock1"
  /\ extMutex' = Free
  /\ Goto(t, "unlock2")
  /\ UNCHANGED <<durable, process, mutex, arg, ext, ret>>

Unlock2(t) ==
  /\ pc[t] = "unlock2"
  /\ extMutex' = Free
  /\ Goto(t, "try")
  /\ UNCHANGED <<durable, process, mutex, arg, ext, ret>>

(***************************************************************************)
(* find and remove                                                         *)
(***************************************************************************)
InPage(r) == r[1] < NumPages
PageOf(r) == file[Where(r[1])]

\* Following a slot that is EMPTY leads out of the page, where nothing is mapped.
FollowsEmpty(r) ==
  InPage(r) /\ SlotInRange(PageOf(r), r[2]) /\ RawSlot(PageOf(r), r[2]) = SlotEmpty

\* A record that is there answers its document, or an error if it is flagged
\* as dropped; an offset that names no record makes an invalid BSONObj.
SlotReplies(r) ==
  LET pg   == PageOf(r)
      here == RecordsAt(pg, RawSlot(pg, r[2]))
  IN  IF ~SlotInRange(pg, r[2]) THEN {Store!NotFound(r)}
      ELSE IF FollowsEmpty(r) THEN {}
      ELSE IF here = {} THEN {Store!Thrown(r)}
      ELSE {IF h.dropped THEN Store!NotFound(r) ELSE Store!Found(r, h.doc) :
              h \in here}

\* The id one past the last page reads _body past its end: any error, or the
\* null pointer of an empty vector.
FindReplies(r) ==
  IF NullPage(r[1]) THEN {Store!NotFound(r)}
  ELSE IF WildPage(r[1]) THEN (IF body = << >> THEN {} ELSE {Store!NotFound(r), Store!Thrown(r)})
  ELSE SlotReplies(r)

Find(t, r) ==
  /\ CanCall(t, "find") /\ mutex = Free
  /\ \E reply \in FindReplies(r) : Return(t, reply)
  /\ UNCHANGED <<durable, process, locks>>

FindCrash(t, r) ==
  /\ CanCall(t, "find") /\ mutex = Free
  /\ WildPage(r[1]) \/ FollowsEmpty(r)
  /\ Crash

\* The slot one past the last of a page, which _searchSlot lets pass: a call of
\* its own, "remove_past", because no caller gets such an identifier from insert.
PastLast(r) == InPage(r) /\ r[2] = PageOf(r).numSlots

CanRemove(t, r) ==
  /\ CanCall(t, IF PastLast(r) THEN "remove_past" ELSE "remove")
  /\ mutex = Free

RemoveRefused(t, r) ==
  /\ CanRemove(t, r)
  /\ InPage(r) => \/ ~SlotInRange(PageOf(r), r[2])
                  \/ RawSlot(PageOf(r), r[2]) = SlotEmpty
  /\ ~(WildPage(r[1]) /\ body = << >>)
  /\ Return(t, Failed)
  /\ UNCHANGED <<durable, process, locks>>

\* The page is filed again under its new free space.  There is no return
\* statement: the caller gets whatever the register holds.
RemoveRecord(t, r) ==
  LET old == PageOf(r)
      new == DropRecord(old, r[2])
  IN  /\ CanRemove(t, r)
      /\ InPage(r) /\ SlotInRange(old, r[2])
      /\ RawSlot(old, r[2]) # SlotEmpty
      /\ file' = [file EXCEPT ![Where(r[1])] = new]
      /\ freeMap' = Refile(freeMap, r[1], old.freeSpace, new.freeSpace)
      /\ \E reply \in {Store!Done, Failed} : Return(t, reply)
      /\ UNCHANGED <<created, hdrSize, state, body, locks>>

RemoveCrash(t, r) == CanRemove(t, r) /\ WildPage(r[1]) /\ Crash

(***************************************************************************)
(* The specification                                                       *)
(***************************************************************************)
InsertStep(t) ==
  \/ InsertNoPage(t) \/ InsertInPage(t)
  \/ TryExtend(t) \/ ExtendBusy(t) \/ ExtendWait(t)
  \/ GetSize(t) \/ WritePage(t) \/ WriteFails(t) \/ MapSegment(t) \/ ExtendFails(t)
  \/ Publish(t) \/ Unlock1(t) \/ Unlock2(t)

CallStep(t) ==
  \/ \E d \in Docs : CallInsert(t, d)
  \/ \E r \in AskedRids : \/ Find(t, r) \/ FindCrash(t, r)
                          \/ RemoveRefused(t, r) \/ RemoveRecord(t, r) \/ RemoveCrash(t, r)

Next ==
  \/ InitNew \/ LoadData \/ Kill
  \/ \E t \in Threads : InsertStep(t) \/ CallStep(t)

Spec == Init /\ [][Next]_vars

\* A thread in the middle of insert goes on; nobody is made to call.
FairSpec == Spec /\ \A t \in Threads : WF_vars(InsertStep(t))

(***************************************************************************)
(* Properties                                                              *)
(***************************************************************************)
Labels == {"idle", "try", "nopage", "extwait", "getsize", "extend", "publish",
           "unlock1", "unlock2"}

\* Every variable holds a value of its kind.
TypeOK ==
  /\ file \in Seq(Pages) /\ created \in BOOLEAN /\ hdrSize \in Nat
  /\ state \in {"new", "up", "gone"} /\ body \in Seq(Nat)
  /\ \A e \in freeMap : e.key \in Nat /\ e.page \in Nat
  /\ mutex \in Threads \cup {Free} /\ extMutex \in Threads \cup {Free}
  /\ pc \in [Threads -> Labels]
  /\ arg \in [Threads -> Docs \cup {NoDoc}]
  /\ ext \in [Threads -> [offset : Nat, done : Nat, failed : BOOLEAN]]

\* The records of every page of the file lie apart, below the page's end and
\* above its slots, and every slot in use names one of them: insert never
\* writes over a record or a slot, whatever was removed, recovered, extended or
\* remapped before (dmsFile::insert, _recoverSpace, _extendSegment).
LayoutOK == \A i \in DOMAIN file : PageOK(file[i])

\* A page's free space is what its slots and its live records leave, across
\* inserts, removes and restarts (dmsFile::_updateFreeSpace).
SpaceAccounted == \A i \in DOMAIN file : Accounted(file[i])

\* The data file keeps what RecordStore promises: a find of a rid that insert
\* returned answers the inserted document, before and after a restart, until
\* it is removed (dmsFile::insert, find, remove, _loadData).
ImplementsStore == Store!Spec

\* Acknowledged: what a thread was told about its last insert.
Acked(t) == ret[t].status = "inserted"

\* A record whose insert was acknowledged can be read by its rid through the
\* mapped segments, whatever other threads do and whatever writes failed before
\* (pageToOffset must lead find to the page that insert wrote).
AckReadable ==
  \A t \in Threads : Acked(t) =>
    LET r == ret[t].rid
    IN  InPage(r) /\ Holds(PageOf(r), r[2]) /\ DocIn(PageOf(r), r[2]) = ret[t].doc

\* A record whose insert was acknowledged is where _loadData will look for it:
\* "map every record into memory".
AckDurable ==
  \A t \in Threads : Acked(t) =>
    /\ ret[t].rid \in StoredRids
    /\ StoredRecords[ret[t].rid] = ret[t].doc

\* Every mapped segment starts where a restart will look for it, and every
\* counted segment is mapped: "put every segments into memory" (_loadData,
\* _extendSegment).
PlacementOK ==
  state = "up" =>
    /\ Len(body) * PagesPerSegment = hdrSize
    /\ \A i \in DOMAIN body : body[i] = (i - 1) * PagesPerSegment

\* At most one thread is inside _extendSegment, although _extendMutex is
\* unlocked twice: "maybe someone is extending sgemenmt, do it again".  It
\* holds for two threads whose documents fit an empty page, and not beyond.
InExtend(t) == pc[t] \in {"getsize", "extend", "publish"}

ExtendExclusive == \A t, u \in Threads : InExtend(t) /\ InExtend(u) => t = u

\* A lock is lost: a thread has returned from insert (and may be in the next one)
\* and still holds _mutex, or _extendMutex.
LockLost ==
  \E t \in Threads :
     \/ mutex = t /\ pc[t] \in {"idle", "try"}
     \/ extMutex = t /\ pc[t] \in {"idle", "try", "nopage", "extwait"}

\* An insert comes back, in spite of the waits for _extendMutex and the double
\* unlock, unless a lock is lost.
InsertEnds == \A t \in Threads : pc[t] # "idle" ~> (pc[t] = "idle" \/ LockLost)

\* A find of a removed record is answered with an error: "this record is
\* already deleted".
FindRemovedReported ==
  [][\A t \in Threads, r \in AskedRids :
       FindCrash(t, r) => ~(InPage(r) /\ r[2] \in Slots(PageOf(r)))]_vars

\* Only a record above 4 MB or a full disk makes an insert fail: "record cannot
\* bigger than 4MB".
OnlyOversizeRefused ==
  [][\A t \in Threads : pc[t] = "try" /\ ret'[t] = Failed
        => DocSize[arg[t]] > PageSize \/ Len(file) >= DiskPages]_vars
================================================================================
