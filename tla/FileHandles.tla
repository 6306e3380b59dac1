---------------------------- MODULE FileHandles ----------------------------
(***************************************************************************)
(* The File objects of the second assignment (src/p2/src/file.cpp) and the *)
(* tables they share.  A File is copied and assigned freely: by clients,   *)
(* by the buckets of the hash table, and by the frame descriptors of the   *)
(* buffer manager, which hold a default File while the frame is cleared.   *)
(* All objects of one file use one stream, and open_counts_ says when the  *)
(* last of them is gone.                                                   *)
(*                                                                         *)
(* A default File has the empty name.  It was never counted, but its       *)
(* destructor and its operator= call close() as well, which takes one from *)
(* the count of the empty name, so that count drifts below zero.           *)
(***************************************************************************)
EXTENDS Integers, FiniteSets

CONSTANTS
    Clients,        \* File variables of clients, and files in hash buckets
    Descriptors,    \* the File members of the frame descriptors
    Names,          \* file names
    Streams,        \* fstream objects
    NoName,         \* the empty name of a default File
    NoEntry,        \* in a table: the name has no entry
    Null,           \* the shared_ptr that holds nothing
    Gone,           \* an object that does not exist
    MaxDrift        \* bound: how far the count of the empty name strays from 0

Objects == Clients \cup Descriptors

ASSUME MaxDriftAssumption == MaxDrift \in Nat /\ Cardinality(Descriptors) <= MaxDrift
ASSUME NamesAssumption == NoName \notin Names
ASSUME StreamsAssumption ==
    Null \notin Streams /\ Cardinality(Objects) < Cardinality(Streams)
ASSUME ObjectsAssumption == IsFiniteSet(Objects) /\ Clients \cap Descriptors = {}
ASSUME NoEntryAssumption == NoEntry \notin Int

VARIABLES
    objs,           \* object -> its name, stream and valid bit, or Gone
    open_counts_,   \* name -> how many objects have it open
    open_streams_,  \* name -> their stream, or Null
    disk,           \* name -> what the file holds
    emptyShared,    \* a default File was copied, or assigned to another
    thrown          \* the exception the last call ended with, if any

vars == <<objs, open_counts_, open_streams_, disk, emptyShared, thrown>>

Handle == [name : Names \cup {NoName}, stream : Streams \cup {Null},
           valid : BOOLEAN]

ASSUME GoneAssumption == Gone \notin Handle

DefaultFile == [name |-> NoName, stream |-> Null, valid |-> FALSE]

Live == {o \in Objects : objs[o] # Gone}

(* The buffer manager has been constructed: each descriptor cleared its    *)
(* File, which cost the empty name one count.                              *)
Init ==
    /\ objs = [o \in Objects |-> IF o \in Descriptors THEN DefaultFile ELSE Gone]
    /\ open_counts_ = [n \in Names \cup {NoName} |->
                         IF n = NoName /\ Descriptors # {}
                         THEN -Cardinality(Descriptors) ELSE NoEntry]
    /\ open_streams_ = [n \in Names \cup {NoName} |-> Null]
    /\ disk \in [Names -> {"absent", "header", "pages"}]
    /\ emptyShared = FALSE
    /\ thrown = "none"

exists(n) == n # NoName /\ disk[n] # "absent"

Count(n) == IF open_counts_[n] = NoEntry THEN 0 ELSE open_counts_[n]

-----------------------------------------------------------------------------
(* The tables after close(). *)

(* Slip: a count that is not positive is not decremented (as in p3). *)
CountLeft_Guarded(n) ==
    IF Count(n) <= 1 THEN NoEntry ELSE Count(n) - 1

CountLeft(n) == IF Count(n) = 1 THEN NoEntry ELSE Count(n) - 1

CountsClosed(n) == [open_counts_ EXCEPT ![n] = CountLeft(n)]

StreamsClosed(n) ==
    [open_streams_ EXCEPT ![n] = IF CountLeft(n) = NoEntry THEN Null ELSE @]

MayClose(n) == n = NoName => Count(n) > -MaxDrift

(* openIfNeeded, with the tables as they are when it is called: the object *)
(* joins those that have the name open, or opens the file anew.            *)

Join(o, n, valid, counts, streams) ==
    /\ counts[n] # NoEntry
    /\ objs' = [objs EXCEPT ![o] = [name |-> n, stream |-> streams[n],
                                    valid |-> valid]]
    /\ open_counts_' = [counts EXCEPT ![n] = @ + 1]
    /\ open_streams_' = streams
    /\ thrown' = "none"

(* A stream that no other object holds; it does not matter which. *)
NewStream(o) ==
    CHOOSE new \in Streams : \A x \in Live \ {o} : objs[x].stream # new

OpenAnew(o, n, counts, streams) ==
    /\ counts[n] = NoEntry
    /\ objs' = [objs EXCEPT ![o] = [name |-> n, stream |-> NewStream(o),
                                    valid |-> TRUE]]
    /\ open_counts_' = [counts EXCEPT ![n] = 1]
    /\ open_streams_' = [streams EXCEPT ![n] = NewStream(o)]
    /\ thrown' = "none"

Throw(exception) ==
    /\ thrown' = exception
    /\ UNCHANGED <<objs, open_counts_, open_streams_, disk, emptyShared>>

-----------------------------------------------------------------------------
(* File::open *)
Open(o, n) ==
    /\ objs[o] = Gone
    /\ \/ Join(o, n, TRUE, open_counts_, open_streams_)
       \/ exists(n) /\ OpenAnew(o, n, open_counts_, open_streams_)
    /\ UNCHANGED <<disk, emptyShared>>

OpenRefused(n) ==
    /\ open_counts_[n] = NoEntry /\ ~exists(n)
    /\ Throw("FileNotFound")

(* File::create.  Existence is asked for only if no object has the file    *)
(* open; otherwise the header of a new file is written over the old one.   *)
Create(o, n) ==
    /\ objs[o] = Gone
    /\ \/ Join(o, n, TRUE, open_counts_, open_streams_)
       \/ ~exists(n) /\ OpenAnew(o, n, open_counts_, open_streams_)
    /\ disk' = [disk EXCEPT ![n] = "header"]
    /\ UNCHANGED emptyShared

CreateRefused(n) ==
    /\ open_counts_[n] = NoEntry /\ exists(n)
    /\ Throw("FileExists")

(* File::File() *)
Default(o) ==
    /\ objs[o] = Gone
    /\ objs' = [objs EXCEPT ![o] = DefaultFile]
    /\ thrown' = "none"
    /\ UNCHANGED <<open_counts_, open_streams_, disk, emptyShared>>

(* The copy constructor counts without a look at the table. *)
Copy(o, src) ==
    LET n == objs[src].name IN
    /\ objs[o] = Gone
    /\ n = NoName => Count(n) < MaxDrift
    /\ objs' = [objs EXCEPT ![o] = [objs[src] EXCEPT !.stream = open_streams_[n]]]
    /\ open_counts_' = [open_counts_ EXCEPT ![n] = Count(n) + 1]
    /\ emptyShared' = (emptyShared \/ n = NoName)
    /\ thrown' = "none"
    /\ UNCHANGED <<open_streams_, disk>>

(* operator=, also of an object to itself: close, then open what the right *)
(* side names.                                                             *)
(* Slip: nothing is closed. *)
Assign_NotClosed(o, src) ==
    LET n == objs[src].name IN
    /\ n = NoName => Count(n) < MaxDrift
    /\ \/ Join(o, n, objs[src].valid, open_counts_, open_streams_)
       \/ exists(n) /\ OpenAnew(o, n, open_counts_, open_streams_)
    /\ emptyShared' = (emptyShared \/ n = NoName)
    /\ UNCHANGED disk

Assign(o, src) ==
    LET own == objs[o].name
        n == objs[src].name
        counts == CountsClosed(own)
        streams == StreamsClosed(own) IN
    /\ MayClose(own) /\ (n = NoName => Count(n) < MaxDrift)
    /\ \/ Join(o, n, objs[src].valid, counts, streams)
       \/ exists(n) /\ OpenAnew(o, n, counts, streams)
       \/ /\ counts[n] = NoEntry /\ ~exists(n)
          /\ objs' = [objs EXCEPT ![o] = [name |-> n, stream |-> Null,
                                          valid |-> FALSE]]
          /\ open_counts_' = counts
          /\ open_streams_' = streams
          /\ thrown' = "FileNotFound"
    /\ emptyShared' = (emptyShared \/ n = NoName)
    /\ UNCHANGED disk

(* The destructor. *)
Destroy(o) ==
    LET own == objs[o].name IN
    /\ MayClose(own)
    /\ objs' = [objs EXCEPT ![o] = Gone]
    /\ open_counts_' = CountsClosed(own)
    /\ open_streams_' = StreamsClosed(own)
    /\ thrown' = "none"
    /\ UNCHANGED <<disk, emptyShared>>

(* BufDesc::clear assigns a temporary default File, whose destructor takes *)
(* back what the assignment counted.  The assignment throws if the empty   *)
(* name has no entry; the temporary is destroyed in either case.           *)
ClearThrows(fr) == CountsClosed(objs[fr].name)[NoName] = NoEntry

Clear(fr) ==
    LET own == objs[fr].name
        counts == CountsClosed(own) IN
    /\ MayClose(own) /\ MayClose(NoName)
    /\ objs' = [objs EXCEPT ![fr] = DefaultFile]
    /\ open_counts_' =
         [counts EXCEPT ![NoName] = IF ClearThrows(fr) THEN -1
                                    ELSE IF @ = 0 THEN NoEntry ELSE @]
    /\ open_streams_' = StreamsClosed(own)
    /\ thrown' = IF ClearThrows(fr) THEN "FileNotFound" ELSE "none"
    /\ UNCHANGED <<disk, emptyShared>>

(* File::remove *)
Remove(n) ==
    /\ exists(n) /\ open_counts_[n] = NoEntry
    /\ disk' = [disk EXCEPT ![n] = "absent"]
    /\ thrown' = "none"
    /\ UNCHANGED <<objs, open_counts_, open_streams_, emptyShared>>

RemoveRefused(n) ==
    \/ ~exists(n) /\ Throw("FileNotFound")
    \/ exists(n) /\ open_counts_[n] # NoEntry /\ Throw("FileOpen")

(* allocatePage, as far as it matters here, through the object's stream. *)
AllocatePage(o) ==
    /\ objs[o].stream # Null
    /\ disk' = [disk EXCEPT ![objs[o].name] = "pages"]
    /\ thrown' = "none"
    /\ UNCHANGED <<objs, open_counts_, open_streams_, emptyShared>>

-----------------------------------------------------------------------------
Next ==
    \/ \E n \in Names :
         \/ OpenRefused(n) \/ CreateRefused(n) \/ Remove(n) \/ RemoveRefused(n)
         \/ \E o \in Clients : Open(o, n) \/ Create(o, n)
    \/ \E o \in Clients : Default(o)
    \/ \E o \in Live \cap Clients : Destroy(o) \/ AllocatePage(o)
    \/ \E src \in Live \cap Clients :
         \/ \E o \in Clients : Copy(o, src)
         \/ \E o \in Live : Assign(o, src)
    \/ \E fr \in Descriptors : Clear(fr)

Spec == Init /\ [][Next]_vars

-----------------------------------------------------------------------------
(* The types. *)
TypeOK ==
    /\ objs \in [Objects -> Handle \cup {Gone}]
    /\ \A n \in Names : open_counts_[n] \in {NoEntry} \cup 0 .. Cardinality(Objects)
    /\ open_counts_[NoName] \in {NoEntry} \cup -MaxDrift .. MaxDrift
    /\ open_streams_ \in [Names \cup {NoName} -> Streams \cup {Null}]
    /\ disk \in [Names -> {"absent", "header", "pages"}]
    /\ emptyShared \in BOOLEAN
    /\ thrown \in {"none", "FileNotFound", "FileExists", "FileOpen"}

Openers(n) == {o \in Live : objs[o].name = n}

(* The count of a file is the number of objects that have it open, through *)
(* every copy, assignment, self-assignment, clearing and failed call: the  *)
(* file is closed with the last of them and not before.  A file that       *)
(* nobody has open is not in the table, which isOpen looks at.             *)
(* The objects of a file share the stream in the table, no two files share *)
(* one, and the file they have open exists: nobody removes it under them.  *)
HandlesExact ==
    /\ TypeOK
    /\ \A n \in Names :
         open_counts_[n] = IF Openers(n) = {} THEN NoEntry
                           ELSE Cardinality(Openers(n))
    /\ \A o \in Live :
         LET n == objs[o].name IN
         /\ objs[o].valid <=> n # NoName
         /\ n # NoName => /\ objs[o].stream = open_streams_[n]
                          /\ objs[o].stream # Null
                          /\ exists(n)
    /\ \A m, n \in Names :
         open_streams_[m] = open_streams_[n] => m = n \/ open_streams_[n] = Null

(* Clearing a frame works only because the empty name has an entry, which  *)
(* nothing but earlier closings of default Files put there.  It never      *)
(* throws, unless somebody copied a default File.                          *)
ClearNeverThrows ==
    [][\A fr \in Descriptors : Clear(fr) /\ ClearThrows(fr) => emptyShared]_vars
=============================================================================
