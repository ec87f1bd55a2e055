# Verification of myandb

myandb is a small document database in C++: a server stores BSON documents in one memory-mapped
data file, a command-line client inserts, queries and deletes them over TCP. This directory holds
TLA+ models of the server, the client, the logger and the BSON library they use, the TLC
configurations that check them on small instances, and proofs, checked by TLAPS, of the theorems
that hold for every instance. Sources are quoted as paths below `src/src/`.

## 1. The system

    client --TCP--> pmdTcpListener --put--> BlockingQueue --take--> PooledThread
    (fromjson)      (a pool task)                                   runs pmdAgent
                                                                        |  insert, find
                                                                        v
           Logger <--lines-- all threads     osMmapFile <--map, append-- dmsFile

| component | code | state | operations |
|---|---|---|---|
| Data file | `dms/dmsFile.cpp`, `include/dmsFile.h` | file header (`_size`, pages), mapped segments (`_body`), multimap free space -> page (`_freeSpaceMap`), `_mutex`, `_extendMutex` | `initialize` (`_initNew`, `_loadData`), `insert` (`_findPage`, `_extendSegment`, `_recoverSpace`, `_updateFreeSpace`), `find`, `remove` |
| Page layout | same files | page header, slot array growing up, records growing down, the gap between them | stores of `insert`, `remove`; reads of `find`, `_searchSlot` |
| Mapped file | `os/osMmapFile.cpp`, `os/osPrimitiveFileOp.cpp` | descriptor, list of mapped ranges | `open`, `map`, `write` (append), `getSize`, `close` |
| Blocking queue | `include/blockingQueue.h` | items, limit (50), one mutex, one condition variable | `put`, `take`, `offer`, `poll` |
| Thread pool | `utils/threadPool.cpp` | vector of `PooledThread`, each with a thread, a target, an idle flag | `start`, `stopAll`, `joinAll`, `release`, a worker's `run` |
| Listener, agent, main | `pmd/*.cpp` | a socket per agent | accept loop; request loop: header, body, dispatch on the op code, reply |
| Messages | `msg/msg.cpp` | none | build and extract headers, requests, replies |
| Sockets | `os/osSocket.cpp` | descriptor, `_init`, 10 ms timeout | `send`, `recv`, `accept`, `close` |
| Client | `client/*.cpp` | socket, sequence number, two fixed buffers | connect, insert, query, delete: request, then reply; quit, shutdown |
| Logger | `utils/logger.cpp` | queue of messages, a polling thread, `_isStoped` | `log`, `release` |
| BSON: JSON | `bson/src/util/json.cpp`, the builders | a stack of builders over one growing buffer | `fromjson`, `jsonString` |
| BSON: documents | `bson/src/bsonobj.cpp`, headers | none: documents are values | comparison, sorting, lookups, dotted and nested names |

How they interact. `main` starts the data file, then the pool, then puts the listener into the
pool's queue as an ordinary task and joins the pool's threads. The listener puts each accepted
client into the same queue. A pool thread takes a client and serves it until it disconnects,
calling `insert` and `find` of the one shared data file. A shutdown request makes the agent, which
is itself running in a pool thread, call `stopAll`. The client and the agent exchange a header and
a body as two separate reads of one stream. The client makes its documents with `fromjson`, both
sides print what they got. Everyone logs; the destructor of the static logger releases it when the
program exits, after that of the pool.

What is hard in it, and what makes each component correct:

* **Data file.** `insert` looks for a page under `_mutex`, releases it to extend the file under
  `_extendMutex`, and tries again; between the two, other threads fill the pages it found wanting,
  extend the file, or are killed. The file grows and is written to before the header counts the
  growth. After a removal a page's free space is split between the gap and holes, and the multimap
  is updated under the wrong key and reloaded with the wrong page ids, so `insert` often is sent
  to a page whose free space is not what the map says. Correct means: records never overlap each
  other or the slots; a find answers the document that was inserted, also after a restart; free
  space is neither lost nor invented; one extension at a time; every insert comes back.
* **Blocking queue.** One condition variable serves both kinds of sleepers and `notify_one` does
  not choose. Correct means: bounded, first-in first-out, and no wakeup is lost.
* **Thread pool.** Threads are deleted while they may run, `release` waits for a notification that
  may already have come, `joinAll` walks a vector another thread clears. Correct means: a task is
  run once, all tasks put before `stopAll` are run, no thread uses a deleted object.
* **Session (agent, client, messages, sockets).** An agent that has closed its descriptor goes on
  asking that number whether it is connected, and the number may be another client's by then; a
  request may fail between its header and its body; some requests get no reply, and some
  descriptors no `close`. Correct means: a header is read as a header and a body as a body, an
  answer is read as the answer to its request, a request is carried out at most once, an agent
  comes to its end and its descriptor is closed.
* **Logger.** The thread looks at the queue without the mutex, every log call takes the wish to
  stop back, and `release` waits for one notification without a predicate. Correct means: every
  line is written once, in order, and the logger is not deleted before the last user is gone.
* **BSON.** Nested builders write into one buffer, from which an exception of the parser unwinds
  them; documents are compared and sorted by code with a case for each type. Correct means: what
  is printed is read again, nothing is written outside the buffer or after it was freed,
  comparison is an order, and the lookups agree with each other.

The pool as shipped has two threads and never grows (`getThread` has no caller), and the listener
keeps one of them. So one client is served at a time, although the README of the repository (line
10) speaks of concurrent requests. The interleavings of the data file below need a pool of three
or more threads. The data file has two mutexes because it is meant to be shared; its models take
the number of threads as a parameter, and the run `one` is the shipped configuration.

## 2. The modules

| module | models |
|---|---|
| `RecordStore` | the abstract store: what a data file promises its callers |
| `DmsPage` | the layout of one page and each store and read the code does in it; no state |
| `DmsFile`, `MCDmsFile` | the data file: `initialize`, `insert`, `find`, `remove`, both mutexes, kills, restarts, failing writes and maps; sizes and identifiers of the small instances |
| `DmsFileProofs`, `StoreProofs` | theorems about the two, and that `DmsFile` implements `RecordStore` |
| `BlockingQueue`, `MCBlockingQueue`, `BlockingQueueProofs` | the queue, its instance, its theorems |
| `ThreadPool`, `MCThreadPool` | the pool on top of the queue, with the two programs that use it: the test, and the server's `main`, listener and agents; its instance |
| `Logger` | the logger, as actions that a program calls |
| `PoolTest`, `MCPoolTest` | the pool and the logger together: the test, whose jobs log, to the end of its process; its instance |
| `PoolProofs` | theorems about `ThreadPool` and about `PoolTest`, which implements it |
| `Service` | the abstract session: a request is carried out at most once, and answered after it was |
| `Session`, `MCSession`, `SessionProofs` | clients, connections, listener, agents, the table of descriptors; the instance, the theorems |
| `Bson` | documents: elements and their sizes, comparison, lookups, keys, bounds; no state |
| `Json`, `JsonProofs` | `fromjson`: grammar, builders, buffer, unwinding; its theorems |
| `JsonText` | `jsonString`, and what printing and reading promise each other |
| `BsonOrder` | a caller that holds three documents, and what comparison promises it |
| `BsonFields`, `MCBson` | lookups that expand arrays, nested and dotted documents, and what they promise the same caller; the instance of `JsonText` and `BsonFields` |
| `NatRecursion`, `BsonProofs` | recursion on the natural numbers; theorems about `BsonOrder` |

`DmsFile` uses `DmsPage` and instantiates `RecordStore`; `ThreadPool` instantiates
`BlockingQueue`, whose actions are the calls of `put` and `take` inside its own; `PoolTest`
extends `ThreadPool` and instantiates `Logger` in the same way; `Session` instantiates `Service`;
`Json` and `BsonOrder` extend `Bson`, `JsonText` extends `Json`, and `BsonFields` extends
`BsonOrder`.

### DmsPage

Sizes are in words of 4 bytes, the size of a slot: a page has a header of 7 words, a record a
header of 2. A page value has the four header fields the code uses, the slot array, and `heap`,
the records whose bytes are intact, live or dropped. A store to words `lo..hi-1` removes from
`heap` every record it touches (`Intact`), so an overlap is visible: the slot then names a record
that is not there. `StoreRecord` composes the stores of `insert` in their order; `DropRecord` is
what `remove` does; `RawSlot` is the word `_searchSlot` reads, which is a record's size word when
the slot asked for is one past the last of a full page. `Recovered` is `_recoverSpace` as written:
its test for EMPTY slots is inverted, so that it follows exactly the slots it should skip, and a
page with an EMPTY slot crashes the process (`RecoverCrashes`: the offset 0xFFFFFFFF leads 4 GB
past the page).

### DmsFile

| variable | code |
|---|---|
| `file` | the pages of the data file after the header chunk, counted or not |
| `created`, `hdrSize` | the header chunk exists; `_header->_size` |
| `body` | `_body`: the page of the file each mapped segment starts at |
| `freeMap` | `_freeSpaceMap`; `nth` keeps the order of equal keys |
| `mutex`, `extMutex` | who left `_mutex`, who holds `_extendMutex` |
| `pc`, `arg`, `ext` | where each thread is in `insert`, its document, the locals of `_extendSegment` |
| `ret` | what its last call returned |
| `state` | the process: not started, up, gone |

A critical section of `_mutex` is one action: `InsertInPage` is all of `insert` from the page
found to the return (lines 307 to 359), `Find` and `RemoveRecord` are whole calls. `mutex` is
therefore `Free` unless a return left it locked (lines 311 and 334), which the model keeps: a
thread that returned and still owns it. The extension is not under `_mutex`, and every step of it
that another thread can see is an action: `TryExtend`/`ExtendBusy`, `ExtendWait`, `GetSize`, one
`WritePage` or `WriteFails` per page, `MapSegment`, `Publish`, and the two unlocks `Unlock1` and
`Unlock2`.

The data abstractions, all in one place:

* The file grows one page per write; the code writes 64 KB chunks. A partly written page is
  therefore not in the model. A segment has `PagesPerSegment` pages (32 in the code).
* A word that is read where no record starts is not tracked. At offset 0 of a page it is the eye
  catcher, `EyeWord`, which stands for any number.
* Undefined behaviour is a choice: reading `_body` one past its end answers any error or, when the
  vector is empty, crashes; the `int` offset of a late segment wraps (and `map` refuses it) or is
  widened (`\E wraps`), for up to twice as many segments as an `int` has offsets for: from the
  33rd segment, 4 GB, on a wrapped offset would be that of an early segment again, and
  `FileAssumption` leaves such files out; `remove` has no return value, so its caller gets success
  or failure.
* `remove` of the slot one past the last, which `_searchSlot` lets pass, is a call of its own
  (`remove_past`): no identifier that `insert` returns leads to it.
* `initialize` retries for ever when the header chunk cannot be written; the model starts with the
  write that succeeds. A data file that cannot be opened, and an `mmap` that fails while segments
  are loaded, are left out, and so is closing the file: the process ends by being killed or by
  crashing.

### RecordStore

Records and replies, no pages, map or locks. `DmsFile` instantiates it with `recs <-
StoredRecords`: what a restart would find in the file, by slot. Under this mapping an insert that
is acknowledged is `Insert`, every step of an extension is a stutter, and a kill or a crash is
`Stop`, which loses the replies and no record.

### BlockingQueue

One action per critical section. `waiting` is the wait set of the condition variable; `NotifyOne`
removes any one of it; a thread out of it tests its condition again. `offer` and `poll` on a full
or empty queue change nothing and are not actions. `setQueueCount` is never called.

### ThreadPool

| variable | code |
|---|---|
| `queue`, `op`, `item`, `waiting` | `_queue`, and the calls of `put` and `take` under way: the variables of `BlockingQueue` |
| `program`, `state` | which `main` runs; whether the process is up, exited or crashed |
| `pc` | where each thread is: `take`, `run`, `ran`, `end`, `ended` in `PooledThread::run`; `put`, `release`, `wait`, `delete` in the three loops of `stopAll`; `start`, `join`, `joining`, `free` in `main` |
| `at` | the iterator of the loop a thread is in |
| `target` | `_pTarget` of each thread, `Null` for the end flag |
| `deleted`, `cleared` | the `PooledThread` objects deleted by `stopAll`; whether `_threads` was cleared |
| `called`, `done` | tasks `start` was called with; tasks run and deleted: history |
| `early` | threads that had not ended when `release` came back from waiting for them: history |

An agent that is told to shut down calls `stopAll` inside its own task, so the labels of `stopAll`
are used by pool threads as well as by `main`. `release` waits with a `timed_wait` that looks at
no condition: it may come back at any time, because the thread ended, because five seconds are
over, or spuriously, and nobody looks at its answer. `ReleaseReturns` is that return, always
possible. Undefined behaviour is a choice here too. A thread whose `PooledThread` was deleted
either goes on as if the memory were there or crashes (`UsesDeleted`). `clear` moves the end of
`_threads` below an iterator of `joinAll` that is past the first element; the iterator then goes
on through storage that still holds the pointers (`JoinCalls`), or the process crashes
(`JoinsDeleted`). The test deletes its jobs although the pool has deleted each of them: the
process exits or is aborted (`MainReturns`).

The pool has the threads of its constructor and no more: `getThread`, `addCapacity`, `housekeep`,
`activate`, `available` and `used` have no caller and are left out, and with them the idle flags,
which nothing else reads. Two callers of `stopAll` at once are not possible in the server: the
listener keeps one of the two threads. What an agent does on its socket is one step here,
`TaskReturns` or `Shutdown`; `Session` has the steps.

### Logger and PoolTest

| variable | code |
|---|---|
| `lines`, `stopped` | `_queue`, `_isStoped` |
| `writer`, `hand` | where the log thread is, and the line it took: `look` and `stop?` are its two unlocked looks, `write` the critical section, `notify` and `ended` its way out |
| `logging` | the line a caller is about to push: between the reset of `_isStoped` and the lock |
| `exit` | how far `release` is: `no`, `stop` (flag set), `wait`, `notified` or `woken` |
| `logged`, `written` | lines pushed, lines written: history |

`LooksEmpty` and `AsksStop` are two steps because nothing holds `_fastMutex` between them: a line
that is pushed in between stays in the queue if the thread stops. The build has no optimisation
(`-O0`), so each test of the polling loop reads memory again. A wait without a predicate may be
left by a spurious wakeup (`SpuriouslyWoken`).

`test/test.cpp:41` calls `start` with two arguments, which `ThreadPool` declares with one: the
test as it stands does not compile against this pool. It is modelled as the call `start(*iter)`.

In `PoolTest` a job logs (`JobLogs`, `JobLogged`) and returns; when `main` is done the static
objects are destroyed, the pool before the logger, so `Exits` comes after the pool's steps and
`ProcessEnds` after `release`. The server does not come that far while its listener runs: its
lines are left out. A client whose first error constructs the logger without `init` has no log
thread, and waits in `release` for ever at exit: one state, which needs no run.

### Session and Service

| variable | code |
|---|---|
| `client` | each client: where it is in a command, its connection, `sequence`, the request |
| `toServer`, `toClient` | what was sent on each connection and not read yet |
| `clientEnd`, `serverEnd` | each end: open, closed (`fin`), or reset (`rst`) |
| `backlog`, `table` | connections that wait to be accepted; the descriptors of the server |
| `queue`, `agent` | descriptors of the agents that wait for the pool's thread; the agent that runs: where it is, its descriptor, `_init`, the request |
| `server`, `stopped`, `held` | the process; whether `stopAll` was called; whether `insert` left `_mutex` locked |
| `silent`, `done`, `answered` | connections with a request that went without a reply; requests carried out and answered: history |

Actions are the steps that the other side can see. Client: `Connect`, `SendOrder`, `SendBody`,
`RecvReplyHeader`, `RecvReplyBody`, `CloseSocket`, `ReplyLost`, and its ends `Interrupt` (the
kernel closes the connection) and `Vanishes` (nobody does; keep-alive resets it). Listener:
`Accept`. Agent: `Take`, `IsConnected`, `RecvHeader`, `RecvBody`, `BodyLost`, one for each branch
of the dispatch and its outcomes (`InsertOk`, `InsertRefused`, `QueryOk`, `QueryThrows`,
`DeleteOk`, `Disconnect`, `Shutdown`, `StopAll`), `SendReplyHeader`, `SendReplyBody`. The process:
`Down`, `Restart`.

What the code does here and a reader may not expect, all of it in the model:

* `delete` answers "ok" and removes nothing; `query` asks for record (0, 1) whatever the query.
  The QUERY branch uses a variable that nothing declares (`pmd/pmdAgent.cpp:151`); it is taken to
  be a local one.
* An insert that is refused and a find that throws send no reply. The exception also ends the
  agent without a `close`, since its socket's destructor closes nothing, as does a reset
  connection: the descriptor stays open until the process ends.
* After the end of the stream the agent closes its descriptor and asks `isConnected` of the same
  number. If the listener was given that number meanwhile, the agent serves the new client, before
  the agent that was queued for it gets the thread, and does not close the descriptor, as its
  socket thinks it did (`_init`). When that client closes too, the agent reads the end of the
  stream for ever, and nobody else is served: the exception `Stolen` of `AgentLetsGo`.
* A header that is followed by no body is handled all the same, with a body of zero bytes: an
  insert of it is refused, a query throws.
* A client that gets no reply hands a buffer of zeros to `handleReply`, which throws; nothing
  catches that and the client ends (`ReplyLost`).
* `quit` without a connection does not quit (`client/mydb.cpp:32`).

Abstractions: a message arrives as a whole header and a whole body or not at all, and fits the
4096 bytes of the client's buffers and the agent's. (A command line is meant to have 511
characters, and what such a text makes takes about half of the buffers. The refusal of a longer
reply, `client/command.cpp:145`, is therefore left out.) What the data file answers is chosen
freely among the outcomes of `DmsFile`; the pool is its one thread that the listener leaves. The
waits of `select` are left out: after its timeout every caller asks again.

`Service` is what remains of all that for a client: a sequence of requests carried out, and a set
of requests answered. `ImplementsService` maps every step of `Session` to one of its two actions
or to a stutter.

### Bson, BsonOrder, BsonFields, Json and JsonText

A document is a sequence of elements, an element its type, its name as the sequence of its parts
(`"a.b"` is `<<"a", "b">>`) and what its value is made of; numbers are halves, so that 3 is the
double 1.5. `Documents` are those with the strings of the instance that are nested `Deepest` deep
at most (`DocsOf`), and `ValueOK` says what the value of each type is made of. `Bson` defines
sizes, `woCompare` and what it calls, `woSortOrder`, the lookups, `extractFields` and its
relatives, `appendMinForType` and `appendMaxForType`. What recurs into nested documents in the
code is a function of the depth (`SizeAt`, `CompareAt`, `DottedAt`), with one operator for the
level itself that is given what holds one level down (`WoCompareIn` and the like): the depth of
the C++ call stack is the bound `Deepest`, and any number will do. `BsonOrder` holds three
documents of a caller and states what comparison promises. `BsonFields` adds `getFieldsDotted`,
the conversions between nested and dotted documents with the contexts of `EmbeddedBuilder`, and
the steps of the caller that make one document from another.

In `Json` a text is a sequence of tokens, and each step is one application of a rule of the
grammar with its semantic action: which token goes on is `expect`, the `ObjectBuilder` is
`builders` and `scratch`, and the buffer is the bytes the builders wrote (`buf`, `size`), with
`Grow` as in `BufBuilder`. A reader goes over these bytes (`ReadObj`), so what `fromjson` returns
depends on the offsets and sizes the builders stored. `JsonText` adds the printer, and the
relation between a text and the document it says (`SaysObject`), which is written from the text
forwards and knows neither the alternatives of the grammar nor the builders. A refused text goes
through `Throw`, `UnwindDone` (`~ObjectBuilder`), `DestroyBuilder` (the vector of builders, the
first one freeing the buffer) and `Unwound`.

Facts of the code that the model keeps and the properties state as exceptions:

* An unquoted name is not looked up among the reserved ones. `{"$ref": .., "$id": ..}` of two
  strings prints like a reference. `TenGen` output drops the options of a regular expression other
  than g, i and m, and a long or an integral double is read back as an int.
* Doubles are printed with 16 digits, so one that needs 17 is read as its neighbour
  (0.30000000000000004 as 0.3), and a large integral one is printed with an exponent. `Sixteen`
  says which doubles of an instance these are and what is read back (`Reread`).
* The subtype of binary data is a `char` that is printed as an `int`: one of 128 or more comes out
  as `ffffff80`, which `fromjson` refuses.
* Of `Undefined` nothing is printed, not even its name, so two commas meet; code is printed
  without quotes, a timestamp as an object of two numbers; `fromjson` knows no text for these nor
  for `MinKey` and `MaxKey`. A number that is not finite makes `jsonString` throw. `Ordinary` and
  `Prints` name the documents that are printed and survive.
* `fromjson` also reads what is never printed: `new Date(..)`, integral doubles with a point,
  fields in a mixture of formats.
* `BSONObj::init` throws for an object of more than 16 MB and 16 KB (`MaxObject`), also in the
  `done` of a nested builder and in `obj()` (`TooLarge`). While a nested one is unwound,
  `~ObjectBuilder` calls `done` a second time, the same exception leaves a destructor, and the
  program terminates. The same happens when the buffer cannot grow any further. A builder whose
  first `done` failed to append its last byte has stored no size: what `init` then reads is
  whatever is there (`UnwoundTo`).
* Numbers that are not finite all compare equal, a long that a double rounds is equal to doubles
  and not to their other neighbours. Of a code with a scope the scope is compared by `strcmp`,
  which sees the bytes of its size, the low one first, up to the first zero byte (`ScopeKey`;
  `Radix` is 256 in the code). So a scope of 256 bytes is less than an empty one.
* `appendMaxForType` does not bound code with a scope from `"ZZZ"` on, nor `appendMinForType`
  empty general binary data, nor empty code with a scope whose size has a low byte below 5.
* `woSortOrder` refuses an empty key pattern (`uassert` 10060): `OrderAssumption` leaves it out.

## 3. What the runs check

| run | instance | checks |
|---|---|---|
| `one` | 1 thread, five sizes of documents, all calls, kill and restart | `TypeOK`, `LayoutOK`, `SpaceAccounted`, `ImplementsStore` |
| `two` | 2 threads inserting, kill and restart, fairness | `ExtendExclusive`, `AckDurable`, `PlacementOK`, `InsertEnds` |
| `faults` | 2 threads inserting, failing writes and maps, kills inside an extension, `IntSegments` = 1 | `AckReadable` |
| `queue` | 4 threads, 3 places, 2 items | `TypeOK`, `WakeupNotLost`, `AllAsleepForAReason` |
| `pool` | 2 pool threads, queue of 2; the test with 3 jobs that log and the end of its process, the server with 3 clients of which one shuts it down; fairness | `TypeOK`, `TaskInOnePlace`, `FlagsAfterJobs`, `StoppedClean`, `LinesInOrder`, `ReleasedLast`, `StopEnds`, `ExitEnds` |
| `session` | 2 clients with 3 and 1 requests, 2 connections, 2 descriptors, every command, ends of clients, kills and restarts of the server; fairness | `TypeOK`, `InStep`, `ReplyIsForRequest`, `ForgottenForAReason`, `ImplementsService`, `ServedIsAnswered`, `AgentLetsGo` |
| `bson` | 3383 texts, printed ones and the same with one token changed; every three of 39 documents | `DocTypeOK`, `PrintedIsRead`, `AcceptedSpellsIt`, `InsideBuffer`, `ObjectsNested`, `NothingWrittenAfterFree`, `ParseEnds`; `WellOrdered`, `EqualIsAlike`, `SortIsKeyOrder`, `BoundsEnclose`, `DottedIsNested`, `FieldsDottedFindIt` |
| `shutdown` | 2 pool threads, the server | `DeletedAfterEnd`: violated |
| `removed` | 1 thread, insert, find, remove | `FindRemovedReported`: violated |
| `refused` | 1 thread, inserts of one small document | `OnlyOversizeRefused`: violated |
| `three` | 3 threads inserting | `ExtendExclusive`: violated |
| `torn` | 1 thread, a kill inside an extension, restart | `AckDurable`: violated |

What they show:

* `one`: no sequence of inserts, finds, removes, kills between calls and restarts overlaps two
  records, and what the callers see is the abstract store. This holds in spite of a free-space map
  that is wrong after the first removal and after every restart of a file with more than one
  segment: `insert` tests the page itself, so a wrong map costs refused inserts and crashes, not
  records.
* `two`: with two threads, whose documents fit an empty page, the double unlock of `_extendMutex`
  is harmless: it can free the mutex while the other thread extends, but the thread that did it
  has just got a new segment, and does not extend again before it has filled its first page, after
  which `_mutex` is lost (`refused`) and everything stops. That is luck, not locking: with a third
  thread (`three`), or a document that finds no page at all (`h`), two threads extend at once.
  Segments are where a restart looks for them. `InsertEnds` holds except when a lock was lost
  (`LockLost`): a thread that returned with a mutex held makes the others wait for ever, which is
  the subject of `refused`.
* `faults`: a segment may be short, off its boundary, uncounted or mapped twice, and still an
  acknowledged record can be read by the process that wrote it. (After a restart it may not:
  `torn`.) That no page is laid out wrongly in such an environment either is not checked here: it
  is `LayoutSafe` of section 4, which leaves the environment open.
* `queue`: four threads never all sleep while an item or a place is there.
* `pool`: each task that is started is in one place until it was run, through the queue, a
  shutdown and the deletion of the pool's threads. In the test the end flags come after the jobs.
  `release` may miss the notification it waits for, and come back without one: a thread is deleted
  while it runs only if the wait for it came back early, and a job is not run when `stopAll` is
  over only if such a thread has it, or no thread was waited for to its end (`StoppedClean`,
  `LeftTo`). Without early returns, which are five seconds or a spurious wakeup, nothing is left.
  `StopEnds` has one exception, `NobodyTakes`: the queue is full of clients, and both threads, the
  listener and the agent that stops the pool, sleep in `put`. In the code this takes 50 waiting
  clients. The lines of the jobs are written once and in order in spite of the unlocked looks, and
  when the logger's `release` is notified no job is left that could use the logger but those that
  `stopAll` left behind (`ReleasedLast`): what makes this true is not the logger, whose flag every
  line takes back, but that the test waits for its threads before `main` returns. `ExitEnds` says
  that the process ends if `release` waits while the log thread still runs, unless a job that
  `stopAll` left behind takes the wish to stop back; if the thread's only notification came
  before, it waits for ever.
* `session`: agents that serve connections of other agents, requests that break off between header
  and body, and restarts confuse no client: headers and bodies stay in step, and an answer is the
  one to the request that waits for it, although nobody compares the sequence numbers.
  `ForgottenForAReason` accounts for every descriptor that no agent will close: a reset client or
  a request that went without a reply. A number that is used again is not among the reasons,
  because the agent of the new connection is still queued. `ServedIsAnswered` and `AgentLetsGo`
  say the same of waiting: a client that is served comes to an end unless its request went without
  a reply or the file's mutex is lost; an agent whose client is gone ends, unless the descriptor
  is not its own.
* `bson`: every text that is printed of an ordinary document is read as an equal one, up to its
  doubles' digits, or is larger than an object may be, or ends the program because the buffer
  cannot grow; every text that is accepted says, from its first token to its last, the document
  that it yields, whatever alternatives of the grammar captured before they failed. A text that is
  refused is refused with an exception unless the buffer could not grow or a nested object was too
  large (`ParseEnds`). Unwinding writes nothing after the buffer was freed, nor over the object of
  another builder, because `~ObjectBuilder` closes the inner builders from the last down before
  the vector destroys them from the first on. The comparison is a total order where longs are
  exact, sorting by a pattern is comparing the keys it extracts, and lookups by dotted names agree
  with the conversions.
* `shutdown`: the agent that was told to shut down deletes the `PooledThread` of the listener,
  which never ends, and its own, and goes on inside it. The listener keeps accepting; the server
  does not end.
* `removed`: find of a removed record follows the EMPTY slot out of the mapping; the message for
  this case in the code is unreachable.
* `refused`: `_updateFreeSpace` erases by key and passes the page id, so a page stays filed under
  every free space it ever had; when it is full, `_findPage` finds it under an old one, `insert`
  refuses the record, and `_mutex` stays locked. So a process stores about one page (4 MB) of
  records beyond what was there when it started. The same return is taken by a document that
  exceeds a page's free space by no more than its record header and slot, because `_findPage`
  compares with the document's size alone. The pages of a new segment after the first, which never
  get a header although they are filed as free, are masked by the stale entries.
* `three`: after it extended the file, thread A unlocks `_extendMutex`, B takes it and starts to
  extend, A unlocks it again, C takes it and extends too. A third thread is needed, which is why
  `two` does not see it.
* `torn`: the appended segment is not counted when the process is killed; later segments are
  mapped one segment off after the next restart.

The bounds and why they are enough. A page has 24 words: two documents of 8 words (5, header,
slot) leave a gap of one word; `m` fills a page exactly, so the slot past the last is a record's
size word; `o` fits an empty page without its header and slot; `h` passes the size test of
`insert` and fits no page. These are all the cases of the comparisons in the code.
`PagesPerSegment` = 2 distinguishes the first page of a segment, the only one that gets a header,
from the others. `DiskPages` is two segments (two and a half in `torn`, three in `three`): one
segment for the page ids of the first, one for the ids and offsets that differ after a restart,
and then a disk that is full. `IntSegments` = 16 is never reached in the runs but `faults`, where
it is 1: the second segment is the one that overflows. `AskedRids` holds used and unused slots of
both segments, the slot past the last, the page id past the last and one further. Documents of the
same size are symmetric. Symmetry is used in `one` and `queue`, which check no liveness.

In the pool runs two threads are what the constructor makes; three jobs or clients against a limit
of two let a `put` sleep in `start`, in `stopAll` and in both at once. Every wait of `release` may
come back early, in any combination.

In `session` two connections on two descriptors let a number be used again, by the other client,
while its first agent still asks for it; an agent that waits in the pool's queue while another
runs needs two as well. Three requests of one client on `MaxSequence` = 2 wrap the sequence number
(99999999 in the code); the other's single request is enough to be answered wrongly. In `bson` the
texts come from documents with one element of each type, nested up to four deep (`Deepest` = 4);
`InitSize` = 16, `Slack` = 8 and `BufferMaxSize` = 200 (512 bytes, 16 KB and 64 MB) make the
buffer grow by doubling and by more than doubling, and refuse to; `MaxObject` = 60 is less than a
third of that, as 16 MB are of 64, so that a nested object can be too large in a buffer that has
room, or on the way out of one that has not. `Radix` = 16 makes scopes whose size has a low byte
below 5. `Exact` = 16 is where longs are rounded, `Huge` = 40 the largest double, `IntMax` = 8 the
largest int, in halves. Besides printed texts there are texts with a format for each field,
special values one after another, `new Date`, and objects that begin like a reference. The
documents that are compared have every type, and pairs that differ in each thing the comparison of
the type looks at.

Fairness. `FairSpec` of `DmsFile` is weak fairness of `InsertStep(t)`: a thread inside `insert` is
scheduled. Waiting steps are enabled only when the mutex is free, and nobody is obliged to call,
to kill or to restart. Weak fairness, not strong, is what the mutexes justify; `InsertEnds` holds
with it because a thread leaves the wait in a bounded number of steps of the others, the disk
being finite. `FairSpec` of `ThreadPool` schedules every thread outside its task and lets jobs
end; clients need not come, stay or leave. `timed_wait` returns after its five seconds at the
latest, so its return is part of the fair steps of `stopAll`. `TestSpec` of `PoolTest` adds the
log thread, which polls, and the end of `main`; no spurious wakeup need come. `FairSpec` of
`Session` schedules the listener, the agent and a client inside a command, each by weak fairness:
every one of their steps stays enabled until it is taken or the other side makes it unneeded.
Nobody need enter a command, go, or start the server again. The parser is one thread that runs on.

Deadlock is not checked in the runs of `DmsFile`: a process that is gone and not restarted, or one
whose `_mutex` is lost, stops; nor in those of the pool, where the process exits, crashes or waits
for clients; nor in `session`, where all clients may be gone; nor in `bson`, where a text has been
read. In `queue` it is checked.

## 4. What is proved

All theorems hold for every value of the constants that satisfies the modules' assumptions.

* `LayoutSafe` and `TypeCorrect` (`DmsFileProofs`): `[]LayoutOK` and `[]TypeOK` for any number of
  threads, page and segment sizes, documents, disk and environment, kills inside extensions,
  failing writes and overflowing offsets included. One assumption: `"remove_past"` is not among
  the calls. No caller of the code has such an identifier (`insert` never returns it and the agent
  never calls `remove`); with it `LayoutOK` is false, as `remove` would empty the first word of a
  record.
* The inductive invariant is `TypeOK /\ LayoutOK /\ Placed`. `LayoutOK` alone is not inductive:
  that `insert` stores into a page and not past the file needs `Placed`, which says that every
  mapped segment and every extension under way lies inside the file, that the free map is finite,
  and that a thread inside `insert` has a document no larger than a page. There is one lemma per
  action, on top of the lemmas about pages that open the module.
* `RecoveredSame`, `StoreRecordOK`, `DropRecordOK` (`DmsFileProofs`): the stores of insert and
  remove keep a page laid out. The argument for `_recoverSpace` is the part `GapOK` of the page
  invariant: free space equals the gap while no slot is EMPTY. So `_recoverSpace` is called only
  on pages with an EMPTY slot, where it crashes, and never reaches its reset of `freeOffset` over
  live records.
* `SpaceSafe` (`DmsFileProofs`): `[]SpaceAccounted` under the same assumption. The free space of a
  page is the page less its header, its slots and the sizes of its records in use, so a step of
  insert or remove adds one term to a sum over a set, or takes one away. The rules of such sums
  (`SumUnique`, `SumExists`, `SumRemove`, `SumAdd`) are proved from the fact that a set of subsets
  of a finite set has a smallest member, which the library states without an operator as a
  parameter: of the sets for which a rule fails, the smallest is refuted.
* `OneExtends` (`DmsFileProofs`): `[]ExtendExclusive` for two threads when every document fits an
  empty page and there are fewer pages than an empty one has room (`TwoFit`; `DMS_MAX_PAGES` is
  262144, and a page has 4 MB), whatever the environment does. The mutex alone does not give it:
  `insert` unlocks it twice, so a thread can free it while the other one is inside. The inductive
  invariant (`ExtInv`) says why this does no harm. Until a page is offered as empty nobody has
  unlocked twice, and the mutex does what it is for (`Held`). Once one is offered it stays
  offered, for `_updateFreeSpace` erases by the wrong key, so no thread looks for a page in vain
  again, and of two threads at most one can still be on its way to extend (`OneHeads`): the other
  one has filed the page. `Room` keeps page ids below the key of an empty page, which is what
  makes the wrong key harmless here. Neither condition can be dropped: `three` refutes it for
  three threads, and with a document as large as an empty page TLC refutes it for two.
* `StoreProofs`: the refinement `ImplementsStore` and the invariants `PlacementOK`, `AckDurable`
  and `AckReadable`, under `Gentle`: a write fails only because the disk is full, no `mmap` fails,
  and the offsets of the disk fit an `int`. All sizes, documents and identifiers are arbitrary, as
  are the number of kills and restarts. Without any of these it is false (add them to
  `MCDmsFile_one.cfg`: TLC refutes `ImplementsStore`).
  - `ThreadsImplementStore`, `ThreadsPlaceRight`, `ThreadsKeepAcked`: any number of threads, in
    every run in which one thread extends at a time and the process does not die while one does
    (`SparesExtension`). Without the first condition two segments are mapped over each other
    (`three`), without the second `torn` refutes it. `ThreadsKeepAcked` asks besides that there is
    one thread or nobody removes (`Trusted`): otherwise one thread removes what another was told
    of, as it may.
  - `TwoImplementStore`, `TwoKeepAcked`: for two threads the first condition is `OneExtends`.
  - `InsertersImplementStore`, `InsertersKeepAcked`: for two threads that only insert, whose kills
    spare an extension (`Inserters`, the conditions of `two`), the second condition goes too. An
    insert of one thread can take the process down while the other one extends: it finds a page id
    no segment has, because `_extendSegment` numbers pages by the entries of the free-space map,
    and reads past `_body`. `TInv` says why nothing is lost. A thread that heads for
    `_extendSegment` while an empty page is offered saw the other one offer it (`SecondFinds`), so
    an id without a page is found only when the last of several segments is empty (`PageFound`,
    `LastEmpty`). After the crash uncounted pages are left behind the counted ones, so the next
    extension would place a segment wrongly; but every restart offers the first page of the first
    segment as empty, by that last one, and nobody extends the file again (`Barren`).
  - `ImplementsRecordStore`, `AckedIsDurable`, `AckedIsReadable`, `PlacedRight`: for one thread
    that is killed outside an extension (`Benign`, the shipped configuration) both hold. The
    inductive invariant adds two parts to that of `DmsFileProofs`. `Shape` relates the file to
    what is counted and mapped: the header counts whole segments, uncounted pages have no slots, a
    segment is appended right behind the counted ones, or else the disk is full and then no later
    extension succeeds either (`Settled`, `Growth`), which is why an extension that a full disk
    broke off does no harm. `Told` is `AckDurable` together with the fact that the callers were
    told of documents. On top of the lemmas that a page keeps what its other slots hold
    (`StoreRecordKeeps`, `DropRecordKeeps`) each action is shown to be one action of the store or
    a stutter; `AckKept` then argues about the store alone.
* `QueueTypeCorrect`: the queue is bounded, for any threads and limit. `NoLostWakeup` and
  `NoDeadlock`: with at most `Cap + 1` threads (`Few`) no wakeup is lost and the threads never all
  sleep on conditions that hold. The key is `NotMixed`: a put sleeps only while the queue and the
  awake puts reach `Cap`, a take only while the awake takes reach the number of items; both kinds
  cannot sleep together with so few threads, so a notification always reaches a thread that can
  use it. In the code `Cap` is 50 and the pool has 2 threads.

* `NoTaskLost`, `FlagsComeLast`, `StopsClean` and `PoolTypes` (`PoolProofs`): `[]TaskInOnePlace`,
  `[]FlagsAfterJobs`, `[]StoppedClean` and `[]TypeOK` for any threads, jobs, clients and limit of
  the queue, whenever the waits of `release` come back. `NoTaskLost` covers the server too, shut
  down from inside an agent. The inductive invariant has four parts besides the types. `Held`:
  nothing is overwritten, since a call that is no `put` holds no item and a thread that waits has
  no target. `NotYetCalled`: what `main` has still to start was not started. `Single`: a task that
  was started and is not done has exactly one place; each action is shown to move one task from
  one place to the next or none. `FlagsLast`: in the test only `main` puts, and behind an end flag
  there are only flags, so a thread that takes one leaves none but flags. `StopsInOrder` adds what
  `release` has passed: a thread `main` went past has ended or is recorded in `early` (`Left`),
  and a thread that has ended has no job; so a job that is neither done nor with an early thread
  is in the queue, where only flags are left once any thread has ended.

* `TestImplementsPool` (`PoolProofs`) carries the four over to the test with its logger, the
  specification of the run `pool`. `LinesStayInOrder`: `[]LinesInOrder`, from the fact that the
  thread's hand is empty but while it writes. `NobodyIsLeft`: `[]ReleasedLast`; a job that has
  returned has logged its line, `main` comes to the release of the logger after `stopAll` only,
  where `StoppedClean` says which jobs are left, and the log thread notifies `main` with its last
  step. Both hold for any threads and jobs.

* `KeepsInStep`, `AnswersTheRequest`, `TypeCorrect` and `Implements` (`SessionProofs`):
  `[]InStep`, `[]ReplyIsForRequest`, `[]TypeOK` and the refinement of `Service`, for any clients,
  connections, descriptors and requests, with clients that go and servers that are killed between
  any two messages. None of the three invariants is inductive. The inductive one (`IInv`, theorem
  `Invariant`) says: a client is synchronous, so a connection carries at most one request, and
  where the client is says where the request can be (`Phases`): after its header was sent the
  header is still on its way or an agent has it; after its body, header and body are on their way,
  or only the body and an agent waits for it, or an agent carries it out, or its answer is on its
  way back; and with the prompt there is nothing. "An agent" is whichever serves the connection by
  now (`Owners`: no two descriptors are one connection), so that the reuse of a number does no
  harm. What a client leaves behind when it goes is at most a header and a body to which nothing
  is added, since no end is opened again (`Streams`). `Ids` and `Answers` say that a request is
  carried out before its answer is sent and that its number was not used before: with them
  `CarryOut` finds the request not done and `Answer` finds it done. The lemmas go by who moves: a
  client goes, an agent drops its request, a request is carried out, and then each send and each
  receive with the one phase it starts from.

* `ForgottenHasReason` (`SessionProofs`): `[]ForgottenForAReason`, from `IInv` and two facts more:
  an agent that serves a number it has closed finds the agent of that connection in the queue
  (`Borrowed`), and one that stops the pool has closed its descriptor (`ClosedBeforeStop`).

* `ComparisonIsOrder`, `EqualDocumentsAlike`, `SortingByKeys` and `TypeBoundsEnclose`
  (`BsonProofs`): `WellOrdered`, `EqualIsAlike`, `SortIsKeyOrder` and `BoundsEnclose` follow from
  `DocTypeOK`, so they hold of all documents, of any length, depth, names and strings, with
  `Exact` and `Huge` anywhere; the run compares 39 of them. The prover has no induction over data,
  but it has the well-foundedness of the natural numbers, and documents are built by depth:
  `NatRecursion` proves that a function defined by recursion on a number satisfies its equation
  (`Unfold`) and that what passes from each number to the next holds of all, with sets in the
  place of predicates. From there on the argument is that of a lexicographic order, three times. A
  comparison is an order when it is turned round with its arguments (`Turned`) and when its
  results follow one another (`Follow`: if x is at most y and y at most z, x is at most z, and
  equal to it only if all three are equal). Each case of `compareElementValues` has both
  (`ValuesTurned`, `ValuesFollow`); kind, then name, then value has them when they do
  (`ElementsTurned`, `ElementsFollow`); and so do sequences of elements, at whose first difference
  the comparison ends (`LexTurned`, `LexFollows`, `Column`), the shorter one coming first.
  `NestedTurned` and `NestedFollow` carry that from each depth to the next. Following fails for
  longs that a double rounds, and `Follow` is claimed of exact numbers only (`AllExact`); turning
  round never fails. `EqualDocumentsAlike` goes the same way (`NestedAlike`). `SortingByKeys`
  shows that a lookup by a dotted name finds an element of a document or the EOO (`DottedHeld`),
  so a key is a document again with a field for each of the pattern's, and that `woCompare` of two
  keys and `woSortOrder` look at the same pairs in the same direction. `TypeBoundsEnclose` goes
  through the types; the least double is below every number because the longs that a double rounds
  stay finite.

* `StaysInside`, `StaysNested` and `NoWriteAfterFree` (`JsonProofs`): `[]InsideBuffer`,
  `[]ObjectsNested` and `NothingWrittenAfterFree`, for any texts, any strings and lengths of
  strings, and any initial size, slack and limit of the buffer that hold an empty object
  (`JsonAssumption`; 512, 16 KB and 64 MB in the code). The inductive invariant is `Inv`, proved
  with one lemma per action. `InsideBuffer` needs that what an element is written with, piece by
  piece, adds up to what `BSONElement::size` takes it for (`WholeMoves`, from `GrowMoves` for one
  call of `grow`), hence that every string and name the builders hold came from the text or is the
  name of an index there is a token for (`ScratchOK`, `StackOK`, `CommaKeeps`), captured ones
  included, whatever alternatives of the grammar tried and failed before (`CapturedOK`).
  `ObjectsNested` needs that a builder is made only if the room for its size was appended.
  `NothingWrittenAfterFree` needs `FreedOK`: when the first builder is destroyed, `Undone` is
  empty, so the ones behind it are all done, and once the buffer is freed no step but their
  destruction is left. None of it depends on where in the text, or in an append, the exception was
  thrown. Past the limit the buffer may hold fewer bytes than `grow` counted; `InsideBuffer` says
  only of a text still parsed, or returned, that all its bytes are inside.

Only model-checked: `InsertEnds` of the data file; the liveness of the pool, the logger and the
session, and `ParseEnds`; and, of the BSON library, `PrintedIsRead`, `AcceptedSpellsIt`,
`DocTypeOK`, `DottedIsNested` and `FieldsDottedFindIt`. Liveness and `ENABLED` are out of the
prover's reach, and so are the modules with recursive operators: `JsonText`, whose printer recurs
over elements, and `BsonFields`. What is printed is read again by induction over documents and
over texts at once, which the prover does not have. `AllAsleepForAReason` also holds for twice as
many threads as places, and fails with one more; between `Cap + 1` and `2 * Cap` threads this is
known from model checking alone.

## 5. Not modelled

* A kill between the stores of one insert. Nothing in the code orders these stores or repairs a
  page when it is loaded, so there is no promise to check: a torn insert leaves free space above
  the gap with no EMPTY slot, the one state in which `_recoverSpace` resets `freeOffset` over live
  records. A kill between critical sections is modelled.
* `remove` of the slot one past the last (`remove_past` is in the model and in no run): no caller
  has such an identifier.
* `addCapacity`, `housekeep`, `getThread`, `activate`, `available`, `used` of the pool,
  `setQueueCount` of the queue: no caller.
* Closing and unmapping the data file, and a data file that cannot be opened: the process ends.
* The timeouts of `select`, after which every caller asks again; an `accept` that fails; socket
  options; address resolution.
* Byte order and offsets of messages, which both sides compute with the same functions.
* Reading and splitting a command line, `help`, and the commands `test` and `snapshot`, which are
  not implemented.
* The text of log lines and of `toString`; the characters inside strings and numbers of a JSON
  text, hence escapes (the namespace of a reference is printed without any); pretty printing; the
  macros, `ordering.h`, hashing, md5 and base64 of the BSON library.

What is left: the session composed with the pool, so that `joinAll` and `stopAll` meet agents
whose sockets fail.
