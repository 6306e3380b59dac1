------------------------------ MODULE BlobFile ------------------------------
(***************************************************************************)
(* The files of the third assignment (src/p3/src/file.cpp): File objects   *)
(* that share streams and open counts, and the pages of a BlobFile, which  *)
(* index files are made of.                                                *)
(*                                                                         *)
(* All objects of a file use one fstream.  A BlobFile checks no page       *)
(* number; a read behind the end of the file sets the stream's failbit,    *)
(* which nothing in the code clears.  From then on seeks, reads and writes *)
(* of all these objects do nothing, in silence: readHeader returns what    *)
(* its local variable happens to hold, readPage a blank page.              *)
(***************************************************************************)
EXTENDS Integers, Sequences, FiniteSets, FiniteSetsExt

CONSTANTS
    Clients,        \* BlobFile variables
    Names,          \* file names
    Data,           \* what a page may contain
    Blank,          \* a page as Page::initialize leaves it
    NoFile,         \* on disk: there is no such file
    Gone,           \* an object that does not exist
    Nothing,        \* no page was returned
    MaxPage         \* bound: pages of a file

ASSUME MaxPageAssumption == MaxPage \in Nat
ASSUME BlankAssumption == Blank \in Data
ASSUME ClientsAssumption == IsFiniteSet(Clients)

VARIABLES
    objs,           \* object -> its name and stream, or Gone
    open_counts_,   \* name -> how many objects have it open; 0: no entry
    open_streams_,  \* name -> their stream; 0: no entry
    failed,         \* the streams with the failbit
    forfeited,      \* history: the names of open files of which a page was
                    \* asked for that they do not have
    disk,           \* name -> header and pages of the file, or NoFile
    got,            \* the page returned by the last call
    thrown          \* the exception it ended with, if any

tables == <<objs, open_counts_, open_streams_>>
vars == <<tables, failed, forfeited, disk, got, thrown>>

Streams == 1 .. Cardinality(Clients)

(* Page 0 would lie before page 1, but its position is computed without a  *)
(* sign and is far behind the end of any file.                             *)
PageIds == 0 .. MaxPage + 1

(* The members of FileHeader that a BlobFile uses. *)
FileHeader == [num_pages : PageIds, first_used_page : PageIds]

NewHeader == [num_pages |-> 1, first_used_page |-> 0]

ASSUME GoneAssumption == Gone \notin [name : Names, stream : Streams]
ASSUME NoFileAssumption ==
    /\ NoFile \notin [header : FileHeader, pages : Seq(Data)]
    /\ NoFile \notin Seq(Data)

Init ==
    /\ objs = [o \in Clients |-> Gone]
    /\ open_counts_ = [n \in Names |-> 0]
    /\ open_streams_ = [n \in Names |-> 0]
    /\ failed = {}
    /\ forfeited = {}
    /\ disk = [n \in Names |-> NoFile]
    /\ got = Nothing
    /\ thrown = "none"

Live == {o \in Clients : objs[o] # Gone}

exists(n) == disk[n] # NoFile
isOpen(n) == exists(n) /\ open_counts_[n] # 0

Throw(exception) ==
    /\ thrown' = exception
    /\ got' = Nothing
    /\ UNCHANGED <<tables, failed, forfeited, disk>>

Return(result) == got' = result /\ thrown' = "none"

-----------------------------------------------------------------------------
(* The tables after close(): the entries go with the last object, and its  *)
(* stream with them.                                                       *)
CountLeft(n) == IF open_counts_[n] > 0 THEN open_counts_[n] - 1 ELSE 0

CountsClosed(n) == [open_counts_ EXCEPT ![n] = CountLeft(n)]

StreamsClosed(n) ==
    [open_streams_ EXCEPT ![n] = IF CountLeft(n) = 0 THEN 0 ELSE @]

StreamOf(o) == objs[o].stream

FailedClosed(o) ==
    IF CountLeft(objs[o].name) = 0 THEN failed \ {StreamOf(o)} ELSE failed

ForfeitedClosed(n) == IF CountLeft(n) = 0 THEN forfeited \ {n} ELSE forfeited

(* openIfNeeded, with the tables as they are when it is called: the object *)
(* joins those that have the name open, or opens the file anew.            *)
Join(o, n, counts, streams) ==
    /\ counts[n] # 0
    /\ objs' = [objs EXCEPT ![o] = [name |-> n, stream |-> streams[n]]]
    /\ open_counts_' = [counts EXCEPT ![n] = @ + 1]
    /\ open_streams_' = streams

NewStream(streams) == Min(Streams \ {streams[m] : m \in Names})

OpenAnew(o, n, counts, streams) ==
    /\ counts[n] = 0
    /\ objs' = [objs EXCEPT ![o] = [name |-> n, stream |-> NewStream(streams)]]
    /\ open_counts_' = [counts EXCEPT ![n] = 1]
    /\ open_streams_' = [streams EXCEPT ![n] = NewStream(streams)]

-----------------------------------------------------------------------------
(* BlobFile::open *)
Open(o, n) ==
    /\ objs[o] = Gone
    /\ \/ Join(o, n, open_counts_, open_streams_)
       \/ exists(n) /\ OpenAnew(o, n, open_counts_, open_streams_)
    /\ Return(Nothing)
    /\ UNCHANGED <<failed, forfeited, disk>>

OpenRefused(n) ==
    /\ open_counts_[n] = 0 /\ ~exists(n)
    /\ Throw("FileNotFound")

(* BlobFile::create.  Existence is asked for only if no object has the     *)
(* file open; otherwise the header of a new file is written over the old   *)
(* one, and the old pages stay where they are.                             *)
Create(o, n) ==
    /\ objs[o] = Gone
    /\ \/ /\ Join(o, n, open_counts_, open_streams_)
          /\ disk' = IF open_streams_[n] \in failed THEN disk
                     ELSE [disk EXCEPT ![n].header = NewHeader]
       \/ /\ ~exists(n)
          /\ OpenAnew(o, n, open_counts_, open_streams_)
          /\ disk' = [disk EXCEPT ![n] = [header |-> NewHeader, pages |-> <<>>]]
    /\ Return(Nothing)
    /\ UNCHANGED <<failed, forfeited>>

CreateRefused(n) ==
    /\ open_counts_[n] = 0 /\ exists(n)
    /\ Throw("FileExists")

(* The copy constructor opens the file by its name. *)
Copy(o, src) ==
    /\ objs[o] = Gone
    /\ Join(o, objs[src].name, open_counts_, open_streams_)
    /\ Return(Nothing)
    /\ UNCHANGED <<failed, forfeited, disk>>

(* operator=, also of an object to itself: close, then open what the right *)
(* side names.                                                             *)
(* Slip: an object that is assigned the file it has already is left as it  *)
(* is, but counted.                                                        *)
Assign_SameFile(o, src) ==
    LET own == objs[o].name
        n == objs[src].name
        counts == IF own = n THEN open_counts_ ELSE CountsClosed(own)
        streams == IF own = n THEN open_streams_ ELSE StreamsClosed(own) IN
    /\ Join(o, n, counts, streams)
    /\ failed' = IF own = n THEN failed ELSE FailedClosed(o)
    /\ forfeited' = IF own = n THEN forfeited ELSE ForfeitedClosed(own)
    /\ Return(Nothing)
    /\ UNCHANGED disk

Assign(o, src) ==
    LET own == objs[o].name
        n == objs[src].name
        counts == CountsClosed(own)
        streams == StreamsClosed(own) IN
    /\ \/ Join(o, n, counts, streams)
       \/ exists(n) /\ OpenAnew(o, n, counts, streams)
    /\ failed' = FailedClosed(o)
    /\ forfeited' = ForfeitedClosed(own)
    /\ Return(Nothing)
    /\ UNCHANGED disk

(* The destructor. *)
Destroy(o) ==
    LET own == objs[o].name IN
    /\ objs' = [objs EXCEPT ![o] = Gone]
    /\ open_counts_' = CountsClosed(own)
    /\ open_streams_' = StreamsClosed(own)
    /\ failed' = FailedClosed(o)
    /\ forfeited' = ForfeitedClosed(own)
    /\ Return(Nothing)
    /\ UNCHANGED disk

(* File::remove *)
Remove(n) ==
    /\ exists(n) /\ ~isOpen(n)
    /\ disk' = [disk EXCEPT ![n] = NoFile]
    /\ Return(Nothing)
    /\ UNCHANGED <<tables, failed, forfeited>>

RemoveRefused(n) ==
    \/ ~exists(n) /\ Throw("FileNotFound")
    \/ isOpen(n) /\ Throw("FileOpen")

-----------------------------------------------------------------------------
Failed(o) == StreamOf(o) \in failed

FileOf(o) == disk[objs[o].name]

(* Nothing is read into the local variable from a stream that has failed.  *)
readHeader(o) == IF Failed(o) THEN FileHeader ELSE {FileOf(o).header}

(* A page at its position in the file, which may be behind the end: what   *)
(* lies between is zero, and that is a blank page.                         *)
Put(pages, p, d) ==
    [i \in 1 .. Max({Len(pages), p}) |->
        IF i = p THEN d ELSE IF i <= Len(pages) THEN pages[i] ELSE Blank]

Page(o, p, d) == [name |-> objs[o].name, page |-> p, content |-> d]

(* BlobFile::allocatePage.  Slip: the page is not written, only counted.   *)
AllocatePage_Unwritten(o) ==
    LET h == FileOf(o).header IN
    /\ ~Failed(o) /\ h.num_pages <= MaxPage
    /\ disk' = [disk EXCEPT ![objs[o].name].header =
                  [num_pages |-> h.num_pages + 1,
                   first_used_page |-> IF h.first_used_page = 0
                                       THEN h.num_pages ELSE h.first_used_page]]
    /\ Return(Page(o, h.num_pages, Blank))
    /\ UNCHANGED <<tables, failed, forfeited>>

AllocatePage(o) ==
    \E n \in {h.num_pages : h \in readHeader(o)} :
        /\ n <= MaxPage
        /\ disk' =
             IF Failed(o) THEN disk
             ELSE [disk EXCEPT ![objs[o].name] =
                     [header |-> [num_pages |-> n + 1,
                                  first_used_page |->
                                    IF @.header.first_used_page = 0
                                    THEN n ELSE @.header.first_used_page],
                      pages |-> Put(@.pages, n, Blank)]]
        /\ Return(Page(o, n, Blank))
        /\ UNCHANGED <<tables, failed, forfeited>>

(* The page numbers that have been allocated, by the header in the file.   *)
Allocated(o) == 1 .. FileOf(o).header.num_pages - 1

(* BlobFile::readPage: a read that comes to the end of the file leaves the *)
(* page blank, and the stream failed.                                      *)
ReadPage(o, p) ==
    LET there == ~Failed(o) /\ p \in DOMAIN FileOf(o).pages IN
    /\ Return(Page(o, p, IF there THEN FileOf(o).pages[p] ELSE Blank))
    /\ failed' = IF there THEN failed ELSE failed \cup {StreamOf(o)}
    /\ forfeited' = IF p \in Allocated(o) THEN forfeited
                     ELSE forfeited \cup {objs[o].name}
    /\ UNCHANGED <<tables, disk>>

(* BlobFile::writePage.  Nobody writes page 0. *)
WritePage(o, p, d) ==
    /\ p \in 1 .. MaxPage
    /\ disk' = IF Failed(o) THEN disk
               ELSE [disk EXCEPT ![objs[o].name].pages = Put(@, p, d)]
    /\ Return(Nothing)
    /\ UNCHANGED <<tables, failed, forfeited>>

(* BlobFile::deletePage *)
DeletePage(o) == Throw("InvalidPage")

(* File::getFirstPageNo, whose caller reads that page next. *)
GetFirstPage(o) ==
    \E p \in {h.first_used_page : h \in readHeader(o)} : ReadPage(o, p)

-----------------------------------------------------------------------------
(* What the class File gives to every kind of file. *)
FileStep ==
    \/ \E n \in Names :
         OpenRefused(n) \/ CreateRefused(n) \/ Remove(n) \/ RemoveRefused(n)
    \/ \E o \in Live : Destroy(o) \/ GetFirstPage(o)

(* BlobFile's own constructors and its pages. *)
Next ==
    \/ FileStep
    \/ \E o \in Clients, n \in Names : Open(o, n) \/ Create(o, n)
    \/ \E src \in Live :
         \/ \E o \in Clients : Copy(o, src)
         \/ \E o \in Live : Assign(o, src)
    \/ \E o \in Live :
         \/ AllocatePage(o) \/ DeletePage(o)
         \/ \E p \in PageIds :
              ReadPage(o, p) \/ \E d \in Data : WritePage(o, p, d)

Spec == Init /\ [][Next]_vars

-----------------------------------------------------------------------------
(* The types. *)
TypeOK ==
    /\ objs \in [Clients -> [name : Names, stream : Streams] \cup {Gone}]
    /\ open_counts_ \in [Names -> 0 .. Cardinality(Clients)]
    /\ open_streams_ \in [Names -> {0} \cup Streams]
    /\ failed \subseteq Streams
    /\ forfeited \subseteq Names
    /\ \A n \in Names :
         disk[n] # NoFile => /\ disk[n].header \in FileHeader
                             /\ Len(disk[n].pages) <= MaxPage
    /\ thrown \in {"none", "FileNotFound", "FileExists", "FileOpen", "InvalidPage"}

Openers(n) == {o \in Live : objs[o].name = n}

(* openIfNeeded and close() keep one stream and one count per file through *)
(* every copy, assignment and self-assignment: the count is the number of  *)
(* objects that have the file open, they share the stream in the table, no *)
(* other file does, and the file they have open is there, so that          *)
(* operator= never finds it missing.  A stream has failed only if a page   *)
(* that the file does not have was asked of one of these objects.          *)
HandlesExact ==
    /\ TypeOK
    /\ \A n \in Names :
         /\ open_counts_[n] = Cardinality(Openers(n))
         /\ open_streams_[n] # 0 <=> Openers(n) # {}
         /\ \A o \in Openers(n) : StreamOf(o) = open_streams_[n] /\ exists(n)
         /\ \A m \in Names \ {n} :
              open_streams_[n] = open_streams_[m] => open_streams_[n] = 0
    /\ failed \subseteq {open_streams_[n] : n \in forfeited}

(* The contents that count: the pages up to the header's number.  Bytes    *)
(* behind them, written there or left by an earlier file of the name, are  *)
(* not among them; a page that was counted but not written yet is blank.   *)
Contents(n) ==
    IF disk[n] = NoFile THEN NoFile
    ELSE [p \in 1 .. disk[n].header.num_pages - 1 |->
            IF p \in DOMAIN disk[n].pages THEN disk[n].pages[p] ELSE Blank]

FileContents == [n \in Names |-> Contents(n)]
OpenerCounts == [n \in Names |-> Cardinality(Openers(n))]

Blobs == INSTANCE BlobStore WITH
    files <- FileContents, openers <- OpenerCounts, answer <- thrown

(* Not what file.h says (389-390): creation over a file that is open.  The *)
(* file loses its pages, or nothing if its stream has failed.              *)
CreatedOver ==
    \E n \in Names :
        /\ OpenerCounts[n] > 0
        /\ \E o \in Clients : Create(o, n)
        /\ OpenerCounts' = [OpenerCounts EXCEPT ![n] = @ + 1]
        /\ FileContents' \in {FileContents, [FileContents EXCEPT ![n] = <<>>]}

(* Not what file.h says (457): from a file's page that it does not have    *)
(* something is read, and until the file is closed something can be read   *)
(* from its other pages, a page allocated that is not, a write be lost.    *)
Forfeited ==
    \E o \in Live :
        /\ objs[o].name \in forfeited'
        /\ \/ AllocatePage(o)
           \/ \E p \in PageIds :
                ReadPage(o, p) \/ \E d \in Data : WritePage(o, p, d)
        /\ UNCHANGED <<FileContents, OpenerCounts>>

(* BlobFiles keep the promise of file.h, the refusals included, but for    *)
(* two kinds of step.  With any other, pages only grow in number, a page   *)
(* read is the page last written through any object, a new page is blank   *)
(* whatever lay there before, no write is lost, nobody who has another     *)
(* file open notices, and the first to open a file again after the last    *)
(* has closed it finds it as it was.                                       *)
BlobSpec ==
    Blobs!Init /\ [][Blobs!Next \/ CreatedOver \/ Forfeited]_(Blobs!storeVars)
=============================================================================
