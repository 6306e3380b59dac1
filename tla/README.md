# BadgerDB coursework: specifications, model checks and proofs

The repository holds the assignments of a course on database systems. Two of
them are C++ systems of some size: the buffer manager of the second assignment
(`p2`) and the B+ tree of the third (`p3`), both over a small storage layer.
The other programs are a word locator (`p1`) and a loader of auction data
(`p5`); `p4` and `p6` are notebooks.

This directory models all four programs: TLA+ modules, TLC configurations, and
proofs for TLAPS about all parts of `p2` and `p3`.

## 1. Inventory

No part of the repository has threads. What makes it hard is the order of calls,
calls that fail halfway, state shared through pins, copies and iterators, and
limits: frames, free space, page numbers, machine words.

### p2: buffer manager over paged files

| part | state | operations | used by |
|---|---|---|---|
| `BufMgr` (`buffer.cpp`) | frames with descriptors, hash table, clock hand | `readPage`, `unPinPage`, `allocPage`, `flushFile`, `disposePage`; inside, `allocBuf` | clients, who hold `Page*` into frames until they unpin |
| `BufHashTbl` | chains of (file, page, frame) | `insert`, `lookup`, `remove` | `BufMgr`, which reacts to its exceptions |
| `File` (`file.cpp`), pages | on disk: header, pages, a used list and a free list | `allocatePage`, `readPage`, `writePage`, `deletePage` | `BufMgr`, clients |
| `File`, objects | in memory: streams and open counts shared by all `File` objects of a name | `create`, `open`, `remove`, copy, assignment, destruction | clients, hash buckets, frame descriptors |
| `FileIterator` | a page number in the used list | `++`, `*` | `File` itself, clients |
| `Page` (`page.cpp`) | page header; one data area with slots at one end and records at the other | `insertRecord`, `getRecord`, `updateRecord`, `deleteRecord` | clients, through the pointer or a copy |
| `PageIterator` | a record id | `++`, `*` | clients |

What makes each part correct:

- `BufMgr`: descriptors and hash table agree; a pinned page is in the pool and
  does not move; nothing a client wrote is lost or undone by eviction and
  flushing; a call ends, and gives up only when no frame can be had; a failed
  call leaves a usable pool.
- `File`: every page is in exactly one of the two lists, no page is handed out
  while in use, the lists have an end, an old copy of a page cannot damage them;
  a file is closed with the last object that has it open, and not before.
- `Page`: records keep their numbers and contents through all moves; slots and
  records never overlap; free space is exact; an iterator tells each record.

### p3: B+ tree index

| part | state | operations |
|---|---|---|
| `BufMgr` | as in p2, with `File*` as key and another clock | as in p2, and a destructor that flushes |
| `PageFile`, `BlobFile` | page lists as in p2; for blobs only a page count; streams and counts as in p2 | as in p2; `BlobFile` deletes no page and checks no page number |
| `FileScan` | an iterator over pages, one over records, a pinned page | `scanNext`, `getRecord`, `markDirty` |
| `BTreeIndex` | header page, root page number, the range and position of a scan, a pinned leaf | constructor (open or build), `insertEntry`, `startScan`, `scanNext`, `endScan`, destructor |

Correct means: keys in order and within the bounds of their parents, all leaves
at one depth and chained, every inserted entry found by a scan whose range
contains its key, and no pin left behind after any call, failing ones included.
Two parts meet over pins: `FileScan` and `BTreeIndex` keep one from call to call,
and `flushFile` in their destructors throws if one too many is left, which ends
the program.

### p1, p5, and the rest

`p1` reads commands, and keeps a binary search tree of words, each with a
growing vector of its positions. Correct means that a word is found whatever the
order and the case in which words were met, and that a refused command loses
nothing. `p5` turns files of auctions into five tables whose rows refer to each
other by position: correct means that each user has one row and that the
references lead where they should.

`p4` and `p6` are notebooks of SQL exercises, and `p5` also has SQL scripts: no
state of a program, nothing to model.

## 2. The modules

| module | what it is |
|---|---|
| `PagedStore` | abstract: contents of pages and pins, no frames and no disk |
| `BufMgr` | `p2/src/buffer.cpp`; implements `PagedStore` |
| `BufMgrProofs` | theorems about `BufMgr` |
| `BufHashTbl` | `p3/src/bufHashTbl.cpp`: operators on the chains |
| `ClockBufMgr` | `p3/src/buffer.cpp` over `BufHashTbl`; implements `PagedStore` too |
| `ClockBufMgrProofs` | theorems about `ClockBufMgr` and the chains |
| `PagedFile` | abstract: a set of numbered pages with contents |
| `PageFile` | the pages of `p2/src/file.cpp` on disk; implements `PagedFile` |
| `PageFileProofs` | theorems about `PageFile` |
| `FileHandles` | the objects of `p2/src/file.cpp`: streams and open counts |
| `FileHandlesProofs` | theorems about `FileHandles` |
| `BlobStore` | abstract: what `file.h` of `p3` promises of files that only grow |
| `BlobFile` | `File` and `BlobFile` of `p3/src/file.cpp`; implements `BlobStore` but for two kinds of step |
| `BlobFileProofs` | theorems about `BlobFile` |
| `RecordPage` | abstract: numbered records, and an iterator over them |
| `Page` | `p2/src/page.cpp`; implements `RecordPage` but for one kind of call |
| `PageProofs` | theorems about `Page` |
| `FileScan` | `p3/src/filescan.cpp` with its iterators, beside an owner of the file |
| `FileScanProofs` | theorems about `FileScan` |
| `BTree` | insertion in `p3/src/btree.cpp` |
| `BTreeIndex` | the whole object: `BTree` with scans, closing and reopening |
| `BTreeIndexProofs` | theorems about both |
| `WordIndex` | abstract: the words of one text |
| `WordLocator` | `p1/wl.cpp` and `wl.h`; implements `WordIndex` |
| `AuctionLoader` | `p5/parser.py` |
| `MC...` | the module named after `MC`, for TLC (`MCBTree`: of `BTreeIndex`) |

The definitions named `..._<Word>` that a comment calls a slip are variants of
the definition that follows them, with a mistake one could make there. Nothing
uses them; each shows that some property notices the mistake.

### BufMgr

State: `bufDescTable`, `hashTable`, `clockHand`, `bufPool` are the members of the
class (the hash table as a map, `NoFrame` for no entry); `disk` is what the
files hold; `call` is the call in progress, `thrown` how the last one ended.
`pins` and `unsaved` belong to the clients: the pins they hold, and the pages
they have changed without having given their pin back.

`readPage` on a miss and `allocPage` are a run of steps: `ReadMiss` or
`AllocPage` enters `allocBuf`; each turn of its loop is one action, one per
branch (`TakeInvalid`, `ClearRefbit`, `EvictClean`, `EvictUnhashed`,
`EvictDirty`, `SkipPinned`) or the exception at its end (`Exceeded`); then
`ReadFill`, `ReadFillFails` or `AllocFill` fills the frame. All other calls are
one action per outcome. Calls do not interleave with each other (the code is
single-threaded), but the pins, pointers and modifications of any number of
clients interleave at the granularity of calls.

Two details of the code matter and are kept:

- `EvictClean` removes the hash entry and leaves the descriptor valid. If
  `file.readPage` then throws, the frame remains in that state, and each later
  sweep that reaches it ends in `HashNotFoundException`, with frames free to take
  (`EvictUnhashed`).
- `EvictDirty` calls `flushFile` on the `File` object inside the victim's own
  descriptor. Clearing the victim resets this object, so only frames up to the
  hand are flushed. (The check for `BadBufferException` compares addresses; it
  could only be true of the victim, which is valid. It is left out.)

Assumptions about clients: the last pin on a modified page is given back with
`dirty`; after `disposePage` of a page all pins on it are void (the code does
not look at the pin count, and its own test disposes of a pinned page); files
are used through the manager only, so that nobody deletes a page behind the
pool's back (`ClockBufMgr` and `FileScan` have that case). Assumption about `File`: it keeps the promise
of `PagedFile`, and deleting a page in use succeeds. `BufStats` and printing are
left out. A page number of zero, which `File::readPage` does not refuse, is not
passed (see `BlobFile` for what it does).

### ClockBufMgr, BufHashTbl

The manager of `p3` keeps the promise of `BufMgr` in another way: frames belong
to `File` objects and not to names, the hand advances before it looks, a victim
is written alone and its frame cleared before anything is read into it,
`flushFile` drops clean pages as well, and the destructor writes what is dirty.

The state is that of `BufMgr`, with the chains `ht` in place of the map, and
`alive`. `allocBuf` is again one action per branch of its loop
(`BreakAtInvalid`, `ClearRefbit`, `SkipPinned`, `BreakAtVictim`), then `Exceeded`,
`TakeFrame` or `TakeFrameFails`. `flushFile` is a run of steps too, one per frame
(`FlushOther`, `FlushPinned`, `FlushFrame`, `FlushFails`, `FlushUnhashed`,
`FlushDone`): it may throw at a pinned page when earlier frames are written and
gone. `Destroy` and `Construct` end one manager and begin another over the same
files.

The pool tells pages by their `File` object, and another object of the same file
may delete a page that is pooled (`DeleteElsewhere`; a `FileScan` opens its file a
second time). Its frame, if dirty, can no longer be written: `allocBuf` removes
the entry of its victim first (`buffer.cpp:78`), then `writePage` throws
`InvalidPageException` (`file.cpp:245-248`), and the frame stays valid without an
entry (`TakeFrameFails`). A later sweep or flush that comes to it throws
`HashNotFoundException`; when the number is in use again and read, the frame and
the new one compete for the entry. In the destructor such a write ends the
program (`DestroyFails`). `strayed` is the history of the pages this happened to:
what the other properties promise, they promise of the others.

`disposePage` of this assignment calls `lookup`, which throws for a page that is
not pooled: such a page is not deleted at all (`DisposeRefused`; the comment at
`buffer.h:255-263` says otherwise).

`BufHashTbl` has the chains in order of insertion and the hash as an address
plus a page number, both cut to a word. `Content` of the refinement reads the
descriptors and not the chains, so that a victim whose bucket is already gone
still counts until it is written.

### PageFile

State: `header` and `page` are the bytes on disk, `copy` is one `Page` object a
client has obtained and may change and write back at any later time. `state` is
`"hung"` once an operation walks a circular list. `emptied` is a history
variable: at some time a page was reused while the used list was empty.

One action per path through `allocatePage` (reuse at the head, reuse further
down, grow), `deletePage`, `readPage`, `writePage`. The loops over the used list
are the operators `Visited`, `StopsAt`, `WalkStop`: a walk stops at the page it
looks for, at the end of the list, throws at a page not in use, or never ends.
All walks happen before the first write, so an operation that throws changes
nothing. The two or three writes of an operation are one step: crashes are not
modelled.

### FileHandles

A `File` of `p2` is copied into each hash bucket and frame descriptor, so that
the open count of a name is the work of many objects. State: `objs` (an object's
name, stream, valid bit), the static maps `open_counts_` and `open_streams_`, and
in `disk` whether a file exists and whether it has pages. One action per
constructor, assignment, destructor and static function and per outcome; `Clear`
is what `BufDesc::clear` does to the object of a frame.

A default `File` has the empty name and is never counted when it is made, but is
uncounted when it is closed: the count of the empty name drifts below zero with
each frame of a pool. This is what lets `Clear` work: assigning a default `File`
looks for its name among the counts, and throws `FileNotFoundException` when it
is not there. `ClearNeverThrows` says that it always is, unless somebody copied
a default `File` (`emptyShared`).

`create` over a file that is open asks for nothing and writes the header of an
empty file over the old one (`file.h:80` says it throws); `Create` does that.

### BlobFile

The objects as in `FileHandles` (there is no default `File` in `p3`, and `close`
does not go below zero), with what they do to the pages of a file. `disk` holds
header and pages of each name; pages may lie behind the header's number, left by
an earlier file or written there. `failed` are the streams with the failbit.

`BlobFile::readPage` checks no page number, although `file.h:457` says it throws
`InvalidPageException`. A read behind the end sets the stream's failbit, nothing
clears it, and from then on reads, writes and header updates through any object
of the file do nothing, in silence; `readHeader` then returns what its local
variable held (any `FileHeader`). Page 0 is such a page: its position is
computed without a sign. `BTreeIndex` runs into it when a search goes past the
last key (`btree.cpp:265`).

`BlobStore` is what `file.h` promises: a read gives what was written last, through
whichever object, pages only grow in number, and what cannot be done is refused
with the exception the header names. `BlobSpec` says that every step keeps this
promise but two kinds, which the code allows and the header forbids:

- `CreatedOver`: a file that is open is created once more (`file.h:389-390` says
  `FileExistsException`), and loses its pages.
- `Forfeited`: an object whose file was asked for a page it has not
  (`file.h:457`), until the file is closed; `forfeited` is the history of these
  names. Even then no page's content changes. `HandlesExact` says that a stream
  fails in no other way.

### Page

State: `data` is the data area. One unit of it is the size of a slot (six bytes
in the code), and records are sequences of such units; a unit is a slot, a byte
of a record, or `Zero`, which is also how an unused slot reads. `header` is the
page header. `issued` is the highest slot number in any record id given out.

`Closed` is the removal of a record, in the order of the code: `Erased` zeroes its
bytes, `Adjusted` changes the slots of the records below, `Moved` moves those bytes
up, and each reads the slot anew from what the one before has left. The bytes of a
record can be read as a slot: `slotOf` says as which, any function in the theorems.
It happens in two ways.

- `InsertSlotInUse`: a new slot lies over bytes of an old record and looks used.
  `insertRecord` throws, with the slot already counted as one more free slot that
  none is; an `insertRecord` that finds no other free slot then fails its
  assertion (`InsertAborts`, `page.cpp:163`).
- `validateRecordId` (`page.cpp:189`) does not compare the slot number with
  `num_slots`, so that the `RecordId` of a deleted record, whose slot has left the
  array (`Stale`), is read from the bytes that lie there now. `page.h:308-315`
  promises `InvalidRecordException`. What happens depends on the bytes:
  `deleteRecord` zeroes and moves the bytes of other records and changes header and
  counts; `updateRecord` does the same and then throws `InvalidSlotException`
  (`UpdateStale`). Letters make an offset behind the end of the page, which
  `std::string` refuses with nothing changed (`OutOfRange`); what reaches over the
  end from inside (`Overruns`) is not followed.

After such a call `damage` counts, and `CallsAfter` bounds how many calls on the
harmed page are followed, all with the same actions, as long as the header
describes a page (`Running`).

A client also keeps a `PageIterator` while it changes the page: `current` is the
slot it stands at, `Begin` and `Advance` are `begin()` and `operator++` over
`getNextUsedSlot`. The iterator has no copy of anything: `RecordPage` says that
an advance goes to the next record that there is now.

### FileScan

`FileScan` opens the relation's file again, as another `File` object, and the
pool of `p3` tells pages by their object: the scan has its own copies of pages.
State: `file` (the used slots of each page on disk), `pool` (frames and the copies
of the scan in them) and `ht` (the frame that the hash table has for a page), the
members of the object, and `pc`, the place inside `scanNext`: a call may read
several pages and fail at each.

Beside it an owner adds, deletes and rewrites pages through another object
between the calls of the scan, and other clients take frames (`Evict`). Page
numbers are read from the disk at each use, and throw when the page is gone;
records are read from the copy. Eviction is that of `ClockBufMgr`: a dirty copy
of a page that the owner has deleted loses its entry and keeps its frame
(`TakeFails`). Such an orphan has consequences of its own, all in the model:

- the call that took it fails, and so does each later one whose clock stops at it,
  with `HashNotFoundException`;
- once its number is in use again, it is written over the new page when the
  hash table has an entry for that page: the entry that is removed is then the
  live copy's. The client marked that number dirty, so `WritesOnlyMarked` is kept.
- if the copy that lost its entry is the page at hand, the scan cannot give it back
  (`TurnFails`);
- the destructor flushes frame by frame (`Flush`) and must not throw: at a frame
  that cannot be written or has no entry the program ends (`"terminated"`).

The file is taken at its promise: the used list is in ascending order, which is
`UsedListExact` of `PageFile`.

### BTree

State: `nodes` is what the pages of the index file hold, seen through the pool;
`rootPageNo` is in the meta page, `rootPageNum` and `initRootPageNum` are members
of the index object; `pins` are the pin counts of its pages, and `unmarked` the
pages that were changed and not yet given back as dirty. `call` is the
`insertEntry` in progress: `path` holds the pages from the root to the current
one, `pivot` and `split` what the split below and the split in progress hand up.
`inserted` is a history of the insertions that returned.

`insertEntry` and its recursion are a run of steps, because each page it reads or
allocates may find the pool full: `InsertEntry` and `Descend` on the way down;
`LeafAdd` or `LeafSplit`; `NoSplitBelow`, `AddPivot` or `NonLeafSplit` on the way
up; `NewRoot` and `NewMeta` when the root was split; `Finish` gives back the
pages. Arrays are sequences; their unused slots are never read, except the key
that `NonLeafSplit` hands up, which is modelled as the slot it is read from. The
call runs alone, so the frames that others have pinned do not change during it.

The buffer manager is taken at its promise: a page is had if it is pinned or some
frame is not, and is not changed by others. `ChangesMarkedDirty` and `NoPinLeft`
are what `BTree` owes it for that.

The index file begins with two pages, the meta page and the first leaf; building
the index from a relation is a sequence of insertions. An insertion that takes a
leaf for an inner node, or the reverse, ends the model (`Misread`), and so does a
full inner node whose last pointer is overwritten, or overwrites the next frame
(`Overrun`): the size formula at `btree.h:78` forgets `numEntries`, so that an
inner node is one word longer than the page it is laid over.

### BTreeIndex

Adds to `BTree` the scan with its members: `scan` has `executing`, the first-call
flag, `nextEntry`, the page, and `holds`, whether the pin behind the pointer is
there. A call of the scan is one step, because nothing else uses the pool while
it runs; `others` are the frames that others have pinned meanwhile. `trail` and
`returned` are histories of what was returned since `startScan`.

- `Search` goes down and along the leaves. The node is cast to a leaf for the
  comparison (`WordsAsLeaf`), whose keys begin one word earlier, so that each
  child is chosen by the key before it and the last child never is. `ScanExact`
  holds all the same while all leaves hang below the root in order, because the
  walk along the leaves makes up for it.
- Every exception of `readPage` on the chain becomes `NoSuchKeyFound`. The end of
  the chain reads page 0; after that the file is lost (`BlobFile`), and the model
  ends in `"undefined"`.
- `scanNext` marks its position by `nextEntry`: 0 for a page to turn, -1 for the
  end. `NextAfterLast`, `ScanNext` and `NextUnheld` are its cases; the last one is a
  call without the pin, after a `startScan` that found nothing or a failed turn,
  where the frame may hold another page by now (`n` and `high` are what it reads).
- `Close` is the destructor and `Reopen` the constructor for an existing file,
  which leaves `initRootPageNum` as it finds it.

A constructor that fails midway is not a state of an object, and is left out: it
leaks its `BlobFile`, and leaves a half-built index file behind, which the next
constructor takes for a whole one.

### WordLocator

A command is one step. The tree is a map from ways (sequences of `"left"` and
`"right"`) to nodes; `Way` is the descent that `insert` and `lookup` share. A word
keeps its case in the node and is compared without it. `Lines` is `fgets` with
its buffer, which cuts a long line, perhaps within a word; `Tokens` is `strtok_r`;
`ToInt` is the assignment of `strtol`'s result to an `int`. `push` keeps the
capacity of the vector beside its numbers.

`WordIndex` is what is promised: the position of the n-th occurrence in the text
loaded last. Nothing is promised for texts with long lines, and for numbers
that an `int` cannot hold or that do not count from one: number 0 reads in front
of the array (`Garbage`). At the end of its input the program asks again forever
(`EndOfInput`).

### AuctionLoader

One action per item (`processItem`), with all its effects on the five tables in
the order of the code: the seller first, then the bidders, then the auction and
its bids. `Fail` is a broken item or file, after which nothing is written. Rows
are found by position, as in the load files. The equal categories of an item are
blanked by a loop that changes the list it runs over (`Blanked`).

A bidder who was not met before gets a row with the seller's user name
(`parser.py:185`); no property speaks of names, since nothing in the repository
says what they should be. `hexCode`, the code by which a row is found, is kept in
memory only and not written to a file.

## 3. The runs

| run | instance | checks |
|---|---|---|
| `buf_mgr` | 1 file, 3 pages, 2 frames, 2 pins per page | `TypeOK`, `HashDescAgree`, `PinAccounting`, `CleanMatchesDisk`, `StoreSpec`, `PinnedPagesStay`, `ExceededOnlyWhenStuck`, `CallReturns`, `WedgedOnlyByFailedRead` |
| `clock_pool` | 1 `File` object, 3 pages, one of them held by up to 2 clients, and deleted through another object, 2 frames, 3 chains, words of 4 values | `HashDescAgree`, `PinAccounting`, `StoreSpec`, `ExceededOnlyWhenAllPinned`, `StumblesOnlyOverStrays`, `FlushEmpties` |
| `file_lists` | up to 5 pages | `FreeListExact`, `UsedListExact`, `FileSpec` |
| `file_handles` | 2 files, 4 objects of clients, 2 descriptors, counts of the empty name from -4 to 4 | `HandlesExact`, `ClearNeverThrows` |
| `blob_files` | 2 files of up to 2 pages, 3 objects | `HandlesExact`, `BlobSpec` |
| `file_scan` | 3 pages with 2 slots or none in use, 2 frames | `ScanPins`, `EachRecordOnce`, `WritesOnlyMarked`, `ScanNextReturns` |
| `page_records` | 7 units, records of 1, 2 and 3 units, 1 call on a harmed page | `ItemsContiguous`, `SlotsExact`, `RecordsSpec` |
| `btree_index` | pages of 8 words, 3 frames, 7 entries with 3 keys, 1 failing insertion; scans over up to 5 entries, 6 ranges | `AllStored`, `Ordered`, `LinkedUntil`, `ChangesMarkedDirty`, `ScanExact`, `ScanPins`, `DestructorReturns` |
| `word_locator` | lines of 3 characters, 3-bit integers, texts of up to 4 words | `SearchTree`, `IndexSpec` |
| `auction_tables` | 2 items, 3 users, 2 categories, up to 3 bids or categories each | `UsersOnce`, `RowsRetell` |

Each is the whole state space of its instance. Type invariants are part of the
first invariant of each module (`HashDescAgree`, `HandlesExact`, ...).

What they show, beyond that the code does what it should:

- `buf_mgr` and `clock_pool` check one abstract specification against two
  managers. In `p2` a failed read of a missing page leaves a valid frame without a
  hash entry under the hand (`buffer.cpp:104-107,166`), and the next call that
  needs a frame ends in `HashNotFoundException`, although frames are free;
  `allocBuf` is said to throw `BufferExceededException` only (`buffer.h:186-187`).
  `WedgedOnlyByFailedRead` says that no other call leaves the pool so. In `p3` the
  frame is cleared before it is filled, and a failed read does no harm; there a
  page deleted through another `File` object does, and nothing else
  (`StumblesOnlyOverStrays`). In `p2` a
  dirty page beside a pinned page of its file cannot be evicted, since `flushFile`
  refuses the file as a whole (`buffer.cpp:119`; the test at `main.cpp:457-458`
  expects a frame); so `ExceededOnlyWhenStuck` speaks of stuck frames, and
  `ExceededOnlyWhenAllPinned` of `p3` of pinned ones.
- `file_lists`: a page reused while the used list is empty keeps the free list's
  pointer as its next page (`file.cpp:99`; `page.h:57-60` says: the next *used*
  page), and later walks run into deleted pages. `UsedListExact` holds until
  then; `FreeListExact` and `FileSpec` also after it: no page in use is handed
  out again and no content is lost.
- `page_records`: a moved record leaves bytes behind, the slot array grows over
  them, and `insertRecord` throws `SlotInUseException` on a page with room
  (`page.cpp:158`, `page.h:288`). A stale `RecordId` may change other records
  instead of being refused (`page.h:308-315`). All else keeps each record's number
  and content; `SlotsExact` and `ItemsContiguous` hold until the first of these
  misreadings. An
  empty record makes a later deletion move the wrong bytes (`page.cpp:81`,
  `page.h:165`), so the run has none, and neither have the theorems.
- `btree_index`: an insertion finds a full pool before it has changed anything,
  although it goes on reading and allocating pages after its first change; its
  failures leave pins, and nothing else. As long as the leaves are in order, a
  scan gives every matching entry once; after any of its outcomes the object
  holds the pin it believes to hold and no other. Equal keys break the order of
  the tree: the second split of a leaf full of one key puts its pivot behind the
  equal key of the parent, and a larger key inserted later goes to a leaf in the
  middle of the chain. `LinkedUntil`
  names this case. (683 times key 2, 342 times key 1 and one key 3 are enough in
  the real program: a scan for key 2 then finds 341 of them.)
- `file_scan`: whatever the owner does meanwhile, the scan writes back only what
  its client marked dirty; but it returns each record once only if none of its
  calls failed.
- `blob_files`: the two exemptions of `BlobSpec` are where the code does not do
  what `file.h:389-390` and `file.h:457` say; all other steps keep the promise.

### Why the bounds suffice

Two frames are the least with which the hand can be on one frame while another
matters (pinned, dirty, behind the hand or before it), and three pages over two
frames force every kind of eviction; two pins are needed for shared pages. One
file is enough for every branch but the ones that pass over frames of other
files, and for those the proofs hold with any number of files. In `clock_pool`
the address and the word are such that the sum wraps, and three pages in three
chains put two in one, one of which two clients may hold. With five pages a page
can be reused in the middle of a used list with neighbours on both sides while
others are free. Four
objects of clients are an object for each file, one assigned across them and a
default one; three are enough in `blob_files`, which has no default objects, and
its two pages are one that a header counts and one that it does not. Seven units
hold three records with their slots, and let the slot array grow to where
records were. Of its two bytes, one reads as a slot inside the page, over records,
and one as an offset behind its end, the two ways in which a stale id goes on; one
call after the harm is enough for the assertion to fail. Two frames hold an old copy
of a page beside a new one of the same number, or beside the page at hand. Three pages give a scan a first, a middle and a last one. Pages of
8 words give leaves of two entries and inner nodes of three keys by the formulas
of `btree.h`, with the same odd words left over as the real page of 2048: six
insertions fill and split an inner root, and the seventh goes to a tree that was
split. Three keys for seven entries give every order, and leaves full of equal
keys. Three frames are what an insertion needs; any number of them may be taken
by others. Five entries make four leaves, for a scan to turn from the first to
the second and the third, and for the first tree out of order; the ranges have each operator and bounds that lie on,
between and outside the keys. Three characters cut every word of two letters that
is not at the start of a line, and four words make a tree of every shape up to a
depth of four and a vector that grows twice. Two items with three users are
enough for every user to be met first as a seller or as a bidder, and again as
the other.

Symmetry is used in `file_handles`, `blob_files` and the auction runs, among
objects, files and users that nothing orders; never where liveness is checked.

### Fairness

Two properties are about liveness. `CallReturns` of `BufMgr` is checked under
`WF_vars(AllocBufStep \/ FillStep)`, `ScanNextReturns` of `FileScan` under
`WF_vars(ReadPage \/ TurnPage \/ TurnFails)`. A call that has begun is a running
function in a single thread; it takes its next step. Clients owe nothing: no
fairness is assumed on calls.

Modules whose system can stop have a stuttering last action (`KeepWalking`,
`Stopped`, `Terminated`, `Ended`), so that deadlock stays checked
everywhere else.

### Runs that end in a violation

Each states what a text in the repository says, and TLC refutes it.

| run | the text | what happens |
|---|---|---|
| `auction_seller` | `design.tex:31`: users are related to auctions as sellers | The loop over the bidders leaves the last of them in `hexID`, and the auction gets his number for its `sellerID` (`parser.py:208`). |
| `btree_rootsplit` | `btree.cpp:414-415`: a split may go "all the way upto the root causing the root to get split" | The split of an inner node is told the page number of its child as its own (`btree.cpp:687`), so it never recognises the root. No new root is made; the leaves of the upper half are reached through their neighbours only, and later insertions put large keys to the left of them. |

## 4. Proofs

Eight modules hold theorems. What they assume of the constants is what the
modules they are about say in `ASSUME`: there is at least one frame, and a file
may grow to at least one page; `NoFile`, `NoFrame`, `Absent`, `NoCopy` and the
like are none of the files, frames, contents and records they stand beside; what
a new page holds (nothing, for a scan) is a content; the objects that refer to
files are finitely many, and `p2`'s frame descriptors are none of its clients'.
Bytes of records, zeros and slots are told apart in the model of a page, where the
program could take one for another; as which slot a byte is read is left open. The theorems about pages have the antecedent
`NoEmptyRecord`, that no record is empty, because without it they are false.
Keys are integers; a leaf has an even number of slots and an inner node at least
two keys, and a leaf fits its page with the count it forgets, as with `btree.h`'s
sizes for a page of 8192 bytes.

### BufMgr

`BufMgrProofs` proves for every set of files, number of frames, pages, pins
and contents:

| theorem | says |
|---|---|
| `Inductive` | `Spec => []IInv` |
| `TypeCorrect` | `Spec => []TypeOK` |
| `HashAndDescriptorsAgree` | `Spec => []HashDescAgree` |
| `PinsExact` | `Spec => []PinAccounting` |
| `NoLossOnEviction` | `Spec => []CleanMatchesDisk` |
| `ImplementsPagedStore` | `Spec => StoreSpec` |
| `PointersStayGood` | `Spec => PinnedPagesStay` |
| `OnlyAFailedReadWedges` | `Spec => WedgedOnlyByFailedRead` |
| `GivesUpOnlyWhenStuck` | `Spec => ExceededOnlyWhenStuck` |

The four invariants are proved together, as `IInv`, because none
is inductive alone: that an eviction loses nothing (`CleanMatchesDisk`) needs
the hash table to name the right frame (`HashDescAgree`), and that it breaks no
pin needs the pin count to be exact (`PinAccounting`). `IInv` adds `CallInv`, the
invariant of the call in progress: between `allocBuf` and the step that fills
the frame, the frame under the hand holds no page that the hash table knows;
and the page that is being read has no entry. Without it `Install` could
overwrite a page in use, or give a page two frames. There is one lemma per
action; `WriteBackEffect` says once what a flush does to a page, for
`flushFile` and for the eviction of a dirty page.

For `ImplementsPagedStore`, `Content` (pool before disk) is the refinement
mapping. All steps inside `allocBuf`, all failing calls and `flushFile` leave it
alone (`AllocBufContent`, `WriteBackContent`), and the others map to one step
each (`ReadFillStep`, `AllocFillStep`, `DisposePageStep`, `ModifyStep`,
`PinStep`). `PointersStayGood` follows from the same invariant: the entry of a
pinned page is changed by `DisposePage` only, which voids its pins.

`OnlyAFailedReadWedges`: as long as the pool is not wedged and no frame is being
filled, every valid frame has its entry (`AllHashed`). A step that leaves each its
entry wedges nothing (`NotWedged`): the sweep takes an entry and goes on to fill
the frame, a flush and `disposePage` clear the frames whose entries they take.
Only `ReadFillFails` ends a call with the frame as `EvictClean` left it. A sweep
asks for no entry but that of the frame under the hand.

`GivesUpOnlyWhenStuck` needs to know what the sweep has seen. `Ago(f)` is how
many turns of the hand ago frame `f` was last visited; `SweepInv` says that a
frame visited once since the call began has its reference bit cleared, and that
one visited twice is stuck, pinned or dirty beside a pinned page of its file.
Pins and pages do not change while the call sweeps, so when the loop ends after
two turns of the whole clock, every frame is stuck.

### ClockBufMgr

`ClockBufMgrProofs` proves for every set of files, number of frames, pages, pins,
contents, addresses of `File` objects and word size, and so for any collisions:

| theorem | says |
|---|---|
| `Inductive` | `Spec => []IInv` |
| `ChainsAndDescriptorsAgree` | `Spec => []HashDescAgree` |
| `PinsExact` | `Spec => []PinAccounting` |
| `NoLossOnEviction` | `Spec => []CleanMatchesDisk` |
| `StumblesOverNothingElse` | `Spec => StumblesOnlyOverStrays` |
| `FlushedFileIsOut` | `Spec => FlushEmpties` |
| `GivesUpOnlyWhenAllPinned` | `Spec => ExceededOnlyWhenAllPinned` |
| `ImplementsPagedStore` | `Spec => StoreSpec` |

The chains come first: `InsertEffect` and `RemoveEffect` say that an insertion
or a removal changes the lookup of its own page and of no other, wherever in a
chain the entry is, and that no chain gets a page twice.

`IInv` is stated by frame and by page. `FrameOK` says that a frame is clear or valid,
and that a valid one whose page did not stray is `Sound`: it has its entry, its pins,
and its page on disk if it is clean. `PageOK` says what an entry owes. The one
exception is the victim that `allocBuf` has taken the entry of and not cleared yet
(`Taken`): its page has no entry, no pin and no unannounced change, which is what
allows its frame to be written and cleared. `CallInv` ties the call in progress to
the pool: the page to be read has no entry, the frame to be filled is clear, and no
frame behind the one `flushFile` is at names its file. An action touches one frame
and one page; `OnlyHere` says that then only these two need to be looked at again,
if no other frame with a sound page holds the page.

`StumblesOverNothingElse`: because each victim is cleared before anything is read
into its frame, the invariant holds after every exception, and an entry that is
asked for inside a call is there if the page did not stray. A write fails only for
a page that strayed (`UnwritableStrayed`), and only then is an entry lost.
`GivesUpOnlyWhenAllPinned` counts turns of the hand as `GivesUpOnlyWhenStuck`
does. In the refinement, the content of a page is that of the one frame whose
descriptor names it (`HoldersAreValid`), or the disk's: `ClearedContent` shows
that a victim, a flushed frame and a frame at destruction may be dropped once
written if dirty.

### FileScan

`FileScanProofs` proves for any number of pages and slots, any contents and
every change by the owner of the file:

| theorem | says |
|---|---|
| `PinsOfTheScan` | `Spec => []ScanPins` |
| `NothingElseWritten` | `Spec => WritesOnlyMarked` |
| `EachRecordTold` | `Spec => []EachRecordOnce` |

The first two rest on the state between the calls: the scan holds one pin, on its
page at hand, or none, and a frame is dirty only if its client marked the page.
The entry of the page at hand leads to its frame or is lost (`TableInv`): the pool
never finds another copy of it while the scan points into this one.
For `EachRecordTold` the invariant says where a scan none of whose calls failed
stands: before a page, at a record of the page at hand, at the beginning, or at
the end; and that it has told what comes before this place and nothing that
comes after. A step moves the place to the next page or record in use, the least
one above the last; that there is a least one follows from the well-foundedness of
the numbers (`LeastExists`).

### PageFile

`PageFileProofs` proves for a file of any size and any contents:

| theorem | says |
|---|---|
| `Inductive` | `Spec => []IInv` |
| `FreeList` | `Spec => []FreeListExact` |
| `UsedList` | `Spec => []UsedListExact` |
| `ImplementsPagedFile` | `Spec => FileSpec` |

The properties speak of walks: of what the recursive function `Visited` comes to.
A walk is no use in an induction over steps, because an operation relinks a page
somewhere in its middle; `IInv` says the same page by page. `Ranked`: each
deleted page has a rank, the head of the free list the number of deleted pages,
and its `next` the rank below, or none from rank one. `Sorted`: the `next` of a
used page is the least used page above it. Each operation changes these at one
page or two (`RankedWithout`, `RankedWith`, `SortedInsert`, `SortedRelinked`...),
and `RankedChain` and `SortedChain` lead back from them to the walk.

`Visited` and these two lemmas need induction over the numbers. `Least`, that a
set of numbers has a least element, comes from the order of finite sets by
inclusion, and `Upwards` states induction from it for sets instead of operators.

`FreeList` holds even where the used list is damaged, because no operation
follows a used page into the free list and writes there: an allocation that
walks stops at a page in use (`PrecedingStop`, `EndBeforeEnd`), and a deletion
relinks a page in use. For the same reason `ImplementsPagedFile` needs no
condition: `ContentInUse` and `CopyHeld` change with `allocatePage`, `deletePage`,
`readPage` and `writePage` as `PagedFile` says, and in no call that throws.

### Page

`PageProofs` proves for a data area of any size, any records but the empty one, and
whatever their bytes are when they are read as a slot:

| theorem | says |
|---|---|
| `Inductive` | `Spec => []IInv` |
| `NoSpaceLost` | `Spec => []ItemsContiguous` |
| `SlotsCounted` | `Spec => []SlotsExact` |
| `RecordsKeptOtherwise` | `Spec => RecordsSpec` |

`IInv` says what the bytes of a page are (`PageOf`): the items of the used slots
cover the units from the upper bound to the end of the page, no two of them
overlap, an unused slot is zero, and above the slot array there is nothing but
bytes of records and zeros. It also says (`SoundPage`) that the header's counts are
exact, that the last slot of the array is used, and that what a used slot describes
is a record. The properties alone would not do: the array grows into the free space
and an insertion takes what it finds there for a slot, so the free space has to be
known too, and a slot that is not zero has to be the slot of a record.

The main step is that `deleteRecord` moves the right bytes. How many it moves is
the sum of the lengths of the records below, a recursive function over sets of
slots. `LengthsIs` gives its recursion, by induction over the number of slots,
`LengthsCount` says that the sum is the number of units that the items cover,
and `BelowIs` that the items below a record cover all units from the upper bound
to it. Therefore what is moved ends where the deleted record began (`MoveIs`),
and every record that is left reads as it did (`ClosedIs`, `ClosedPage`).
`Shorter` and `Longer` are the slot array, `StoredPage` an insertion.

All this is said of a page with `damage = 0`, and a call on such a page keeps it so
or does harm in one of the two ways above. When a new slot is found in use, all
records are still there (`InUseStep`), because no unit above the array is a slot, so
that none is counted as a further item. `RecordsKeptOtherwise` has the calls with a
stale id as its only exemption; it includes that no call on a sound page reaches
outside the data area (`StaysInside`, `InsideIs`) and that no assertion fails.

An empty record has the offset of the record that was stored before it. The
comparison of offsets in `deleteRecord` (`page.cpp:81`) is strict and does not see
the empty one as below: its slot is not adjusted. With the empty record added to
`page_records`, TLC shows that `RecordsSpec` is violated after five calls.

### FileHandles, BlobFile

`FileHandlesProofs` and `BlobFileProofs` prove, for any number of `File` objects
and names:

| theorem | says |
|---|---|
| `FileHandlesProofs!Inductive` | `Spec => [](IInv /\ DescriptorsLive)` |
| `FileHandlesProofs!CountsAndStreamsExact` | `Spec => []HandlesExact` |
| `FileHandlesProofs!ClearWorks` | `Spec => ClearNeverThrows` |
| `BlobFileProofs!Inductive` | `Spec => []IInv` |
| `BlobFileProofs!CountsAndStreamsExact` | `Spec => []HandlesExact` |
| `BlobFileProofs!PromisesKeptOtherwise` | `Spec => BlobSpec` |

`operator=` closes one file and opens another inside one step, so the invariant
of the tables, `Tables`, is stated of any three tables and proved through the
ones in between: one lemma for what `close` does, one for what `openIfNeeded`
does, and the actions compose them. The count is that of a set of openers, which
an object enters or leaves (`OpenersChanged`). In `p2`, `EmptyInv` is what
`ClearWorks` rests on: the entry of the empty name is made by the first default
`File` that is closed, and only goes down.

In `p3`, `DiskInv` adds that every page below the header's number was written,
so that the pages `BlobStore` shows are the pages of the file; `FailedForfeited`
that a stream that has failed is one in use of a forfeited name, so that in
`PromisesKeptOtherwise` a file that is not forfeited is read and written for sure.

### BTreeIndex

`BTreeIndexProofs` proves for any keys, any sizes of node and pool, and any
interleaving of insertions, scans, failed calls, destructions and reopenings:

| theorem | says |
|---|---|
| `Inductive` | `SpecIndex => []IInv` |
| `ChangesStayPinned` | `SpecIndex => []ChangesMarkedDirty` |
| `PinsOfTheIndex` | `SpecIndex => []ScanPins` |
| `DestructorNeverThrows` | `SpecIndex => []DestructorReturns` |
| `InnerRootStays` | `SpecIndex => [][InnerRootKept]_<<vars, scanVars>>` |
| `InductiveContent` | `SpecIndex => []AllInv` |
| `EveryEntryStored` | `SpecIndex => []AllStored` |
| `InductiveOrder` | `SpecIndex => [](AllInv /\ OrderInv)` |
| `KeysInOrder` | `SpecIndex => []Ordered` |
| `LeavesLinked` | `SpecIndex => []LinkedUntil` |
| `InductiveTrail` | `SpecIndex => [](AllInv /\ OrderInv /\ TrailInv)` |
| `ScanTellsAll` | `SpecIndex => []ScanExact` |

What a step pins is what it finds in the nodes, so `IInv` has to say what a tree
can look like: `TreeOf`, that there are leaves, whose sibling is a leaf, and inner
nodes, all of whose children are leaves. There is no third level, because
`NonLeafSplit` takes the new root for needed only when the child that was split
is the root, and it never is; `InnerRootStays` says so for every set of
parameters, where the run `btree_rootsplit` shows one case. So the path of an
insertion is the root alone or the root and a leaf (`AtRoot`, `BelowRoot`), and
`PinsInv` counts each pin: one for each page of `Held(call)`, which are the path
and the page of the pivot that `Reread` pins once more, and one for the leaf that
the scan holds. After a failed insertion pins are left behind, and the equation
becomes an inequality; what changed is still pinned.

A pool that is full is found before anything has changed: `FreeFrame` is part of
the invariant while a split is in progress (`RereadInv`, `NewRootInv`,
`NewMetaInv`), because the page that the split has just unpinned leaves a frame
for the pages that the rest of it reads.

The scan looks along `ChainFrom`, a recursive function; `ChainIs` shows by
induction (`Upwards`) that it stays on leaves, `SearchIs` that what `Search` comes
to is an entry of one of them, or the end.

What the index holds is a second invariant, `ContentInv`, on top of `IInv`:

- `ChainInv`: there is an order of all leaves, from the first one, in which each
  has the next as its sibling. A split puts the new leaf behind the old one
  (`BehindInOrder`).
- `NoneTwice`: no entry is on two leaves, or twice on one. `RidsInv`: the record
  ids of the insertions are their numbers, so that the entry to be put on a leaf
  is on none yet (`EntryIsNew`).
- `StoredInv`: the entries on the leaves are those inserted, and the one whose
  insertion is on its way back up (`Pending`). No step behind the split of a leaf
  fails while `Pending` has an entry: that is what `FreeFrame` is kept for.
- Both halves of a split need an even `leafOccupancy`: the cut is computed from
  `leafOccupancy + 1`, and of an odd number the entry in the middle would be lost.
  The formulas of `btree.h` give an even one.

`AllStored` speaks of the sequence `Stored`. `FlattenHolds` says of the sequences
put one behind another what they hold, and that a relation of all elements of
each, and of all elements of two of them, is one of the whole: with the relation
of being different, no entry is in `Stored` twice, and its length is the number
of insertions. `ChainIsOrder` leads from the recursive walk to the order.

The order of the keys is a third invariant, `OrderInv`. Each leaf is sorted
(`LeavesSorted`), always. Of the tree above the leaves it says one of three things:

- `InPlace`: the leaves below the root are all the leaves, in the order of the
  chain (`LinkedUp`), the keys of the root do not fall (`Rising`), and each lies
  between the leaves on its two sides (`Separates`). While an insertion climbs from
  a leaf it has split to the root, the pivot is in no node yet (`Waiting`); then
  this is true of the root with the pivot put in somewhere.
- `Parted`: an inner node was split and the new one hangs nowhere. Some leaf is
  not below the root, and nothing ever brings it back.
- `Twisted`: two leaves stand below the root in the other order than in the chain,
  and two keys of the root are equal. `PutBehind` shows that this is the only other
  way out: a pivot that is put elsewhere than behind the leaf it was cut from is
  equal to a key of the root.

`WayInv` adds that the leaf an insertion has reached is the one at the `Position`
of its key. As there is one way along all the leaves (`UpIsOrder`), neither
`Parted` nor `Twisted` is possible while the tree is `Linked`, so that `Ordered`
follows from `InPlace` (`ArrangedIsOrdered`, with `FlattenHolds` for the relation of
not falling). An index whose status is `undefined` changes no more and keeps what
it had.

What a scan returns is the last invariant, `TrailInv`. While the tree is `Linked`,
the leaves `o`, the sequence `Stored`, and the places `b` in it at which each leaf
begins are `Laid` out together (`LaidOut`; `StartsExist` divides `Stored`). The
cursor of a scan then stands for a number `c` (`OnAt`): what was returned is what
the first `c` entries have of the range, and no entry after them is below it.
`nextEntry` says where `c` is, in one of three ways: it is a position on the leaf of
the scan; it is 0 and the page is to be turned, so that `c` is where the next leaf
begins; or it is -1, and `c` is the end. Only the flag `first` tells a 0 of the first
kind from one of the second, as in the code.

- `FirstIs`: with the keys of the inner node read one word early, the leaf that
  `Search` goes to is never behind the first entry of the range: all leaves before it
  are too low. `LowBefore` and `StopsAre` carry that over the leaves it walks past, and
  `SearchFinds` gives the place the scan begins at. A leaf too early does no harm,
  because the keys are in order along the chain; that is what `Linked` is needed for.
- `MatchingIs` gives the recursion of `MatchingIn`, by induction over the sequence
  (`FiltersExist`, `Upwards`); `MatchingSame` that entries out of the range add
  nothing; `MatchingPrefix` that what is found so far begins what is found in all.
- `NextEntryIs` is the step to the next entry or leaf, `ScanNextTrail` the whole of
  `scanNext`: it reports the end at an entry that is too high, after which all are
  (`RangeIn`). `OverTrail` is why a call after that does not go on: when the page is
  kept, the mark is 0 and the first entry of that page is too high, and so is the
  one of the next.
- `FrameForNext`: between calls the scan pins nothing but its own page (`ScanPins`),
  so when it gives that back there is a frame for the next, and a full pool does
  not end a scan early. So too a `startScan` that has got its first page gets the rest.
  `BoundsAssumption` has at least two frames, as the constructor of an index needs.

Only model-checked: `CallReturns` and `ScanNextReturns` (liveness is out of reach
of the prover), and everything about `WordLocator` and `AuctionLoader`: the
search tree of `WordLocator` is walked by recursion over its nodes, and what
`AuctionLoader` writes is a fold over the elements of a file.

## 5. Not modelled

- Crashes between the two or three writes of one operation of `File`. Nothing in
  the code recovers from one, and no text says what should hold.
- `FileIterator` of `p2` kept by a client: `FileScan` models the same iterator in
  `p3`. `PageFile` and `Page` of `p3`: their algorithms are those of `p2`.
- The chains of `p2`'s hash table: those of `p3` are the same but for how a file
  becomes a number. What `p2`'s `readPage(0)` does to the stream: `BlobFile` shows
  it for `p3`, where somebody calls it.
- What a misread node or an overwritten entry count does to the tree, and what an
  index does once its file is lost. Constructors that throw.
- Prices, times and other copied columns of `p5`; `BufStats`, printing, texts of
  exceptions; the test drivers; `p4`, `p6` and the SQL scripts of `p5`.

## 6. Plan

1. Proofs: `UsersOnce` of `AuctionLoader`, and `SearchTree` of `WordLocator`.
2. `BufMgr` composed with `PageFile` in place of its abstract disk: what
   `disposePage` loses when `deletePage` throws, and what reaches the disk.
3. `BTreeIndex` over `ClockBufMgr` and `BlobFile`: which frames a lost file leaves
   dirty.
