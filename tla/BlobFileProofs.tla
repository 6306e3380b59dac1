--------------------------- MODULE BlobFileProofs ---------------------------
(***************************************************************************)
(* Proofs about BlobFile for any number of objects, names and pages and    *)
(* any contents: the shared counts and streams are exact, and the files    *)
(* implement BlobStore.                                                    *)
(***************************************************************************)
EXTENDS BlobFile, FiniteSetTheorems, TLAPS

USE MaxPageAssumption, BlankAssumption, ClientsAssumption, GoneAssumption,
    NoFileAssumption

Handle == [name : Names, stream : Streams]

OpenersIn(f, n) == {c \in Clients : f[c] # Gone /\ f[c].name = n}

(* What HandlesExact says of objects, counts and streams, of any three     *)
(* tables: operator= is proved through the tables between its close() and  *)
(* its openIfNeeded().                                                     *)
Tables(f, counts, streams) ==
    /\ f \in [Clients -> Handle \cup {Gone}]
    /\ counts \in [Names -> Nat]
    /\ streams \in [Names -> {0} \cup Streams]
    /\ \A n \in Names : counts[n] = Cardinality(OpenersIn(f, n))
    /\ \A n \in Names : streams[n] = 0 <=> OpenersIn(f, n) = {}
    /\ \A c \in Clients : f[c] # Gone => f[c].stream = streams[f[c].name]
    /\ \A m, n \in Names : streams[m] = streams[n] => m = n \/ streams[n] = 0

(* A file that an object has open is there, and a stream that has failed   *)
(* is that of a file with which that could happen.                         *)
FilesThere == \A c \in Clients : objs[c] # Gone => disk[objs[c].name] # NoFile

FailedForfeited ==
    /\ forfeited \subseteq Names
    /\ failed \subseteq {open_streams_[n] : n \in forfeited} \ {0}

File == [header : FileHeader, pages : Seq(Data)]

(* All pages up to the header's number have been written.                  *)
PagesWritten(file) ==
    /\ Len(file.pages) <= MaxPage
    /\ file.header.num_pages \in 1 .. Len(file.pages) + 1

DiskInv ==
    /\ disk \in [Names -> File \cup {NoFile}]
    /\ \A n \in Names : disk[n] # NoFile => PagesWritten(disk[n])

Exceptions == {"none", "FileNotFound", "FileExists", "FileOpen", "InvalidPage"}

IInv ==
    /\ Tables(objs, open_counts_, open_streams_)
    /\ FilesThere
    /\ FailedForfeited
    /\ DiskInv
    /\ thrown \in Exceptions

-----------------------------------------------------------------------------
(* Openers and their number.                                               *)

LEMMA StreamsType == Cardinality(Clients) \in Nat /\ Streams \subseteq Nat \ {0}
  BY FS_CardinalityType DEF Streams

LEMMA OpenersCount ==
    ASSUME NEW f, NEW n
    PROVE  /\ IsFiniteSet(OpenersIn(f, n))
           /\ Cardinality(OpenersIn(f, n)) \in 0 .. Cardinality(Clients)
           /\ Cardinality(OpenersIn(f, n)) = 0 <=> OpenersIn(f, n) = {}
<1>1. OpenersIn(f, n) \in SUBSET Clients
  BY DEF OpenersIn
<1>2. /\ IsFiniteSet(OpenersIn(f, n))
      /\ Cardinality(OpenersIn(f, n)) <= Cardinality(Clients)
  BY <1>1, FS_Subset
<1>. QED
  BY <1>2, FS_CardinalityType, FS_EmptySet

LEMMA OpenersChanged ==
    ASSUME NEW f, NEW g, NEW o \in Clients,
           \A c \in Clients \ {o} : g[c] = f[c], NEW n
    PROVE  OpenersIn(g, n) = IF g[o] # Gone /\ g[o].name = n
                             THEN OpenersIn(f, n) \cup {o}
                             ELSE OpenersIn(f, n) \ {o}
  BY DEF OpenersIn

(* While an object is out there is a stream that no file uses: each stream *)
(* in use is that of another object.                                       *)
LEMMA SpareStream ==
    ASSUME NEW f, NEW o \in Clients, NEW T \in SUBSET Streams,
           \A s \in T : \E c \in Clients \ {o} : f[c].stream = s
    PROVE  Streams \ T # {}
<1> DEFINE holder == [s \in T |-> CHOOSE c \in Clients \ {o} : f[c].stream = s]
<1>1. \A s \in T : holder[s] \in Clients \ {o} /\ f[holder[s]].stream = s
  OBVIOUS
<1>2. holder \in Injection(T, Clients \ {o})
  <2>1. holder \in [T -> Clients \ {o}]
    BY <1>1
  <2>. HIDE DEF holder
  <2>2. \A s, t \in T : holder[s] = holder[t] => s = t
    BY <1>1
  <2>. QED
    BY <2>1, <2>2 DEF Injection, IsInjective
<1>3. /\ IsFiniteSet(Clients \ {o})
      /\ Cardinality(Clients \ {o}) = Cardinality(Clients) - 1
  BY FS_RemoveElement
<1>4. IsFiniteSet(T) /\ Cardinality(T) <= Cardinality(Clients) - 1
  <2>. HIDE DEF holder
  <2>. QED
    BY <1>2, <1>3, FS_Injection
<1>5. Cardinality(Streams) = Cardinality(Clients)
  BY StreamsType, FS_Interval DEF Streams
<1>6. T # Streams
  BY <1>4, <1>5, StreamsType
<1>. QED
  BY <1>6

LEMMA LeastStream ==
    ASSUME NEW S \in SUBSET Streams, S # {}
    PROVE  Min(S) \in S
<1> DEFINE R == {pair \in Nat \X Nat : pair[1] < pair[2]}
<1>1. IsWellFoundedOn(R, Nat)
  BY NatLessThanWellFounded DEF OpToRel
<1>2. S \subseteq Nat
  BY StreamsType
<1>3. PICK m \in S : \A k \in S : ~ (<<k, m>> \in R)
  <2>. HIDE DEF R
  <2>. QED
    BY <1>1, <1>2, WFMin
<1>4. ASSUME NEW k \in S PROVE m <= k
  <2>1. <<k, m>> \notin R
    BY <1>3
  <2>2. ~ (k < m)
    BY <2>1, <1>2
  <2>. QED
    BY <2>2, <1>2
<1>. QED
  BY <1>4 DEF Min

LEMMA NewStreamIs ==
    ASSUME NEW f, NEW counts, NEW streams, Tables(f, counts, streams),
           NEW o \in Clients, f[o] = Gone
    PROVE  /\ NewStream(streams) \in Streams
           /\ \A n \in Names : streams[n] # NewStream(streams)
<1> DEFINE T == {streams[m] : m \in Names} \ {0}
<1>1. T \in SUBSET Streams
  BY DEF Tables
<1>2. ASSUME NEW s \in T PROVE \E c \in Clients \ {o} : f[c].stream = s
  <2>1. PICK n \in Names : s = streams[n] /\ streams[n] # 0
    OBVIOUS
  <2>2. PICK c \in Clients : f[c] # Gone /\ f[c].name = n
    BY <2>1 DEF Tables, OpenersIn
  <2>3. c # o /\ f[c].stream = s
    BY <2>1, <2>2 DEF Tables
  <2>. QED
    BY <2>3
<1>3. Streams \ T # {}
  <2>. HIDE DEF T
  <2>. QED
    BY <1>1, <1>2, SpareStream
<1>4. Streams \ T = Streams \ {streams[m] : m \in Names}
  BY StreamsType
<1>5. NewStream(streams) \in Streams \ {streams[m] : m \in Names}
  BY <1>3, <1>4, LeastStream DEF NewStream
<1>. QED
  BY <1>5

-----------------------------------------------------------------------------
(* The three ways the tables change.                                       *)

LEMMA JoinTables ==
    ASSUME NEW f, NEW counts, NEW streams, Tables(f, counts, streams),
           NEW o \in Clients, f[o] = Gone, NEW n \in Names, counts[n] # 0
    PROVE  Tables([f EXCEPT ![o] = [name |-> n, stream |-> streams[n]]],
                  [counts EXCEPT ![n] = @ + 1], streams)
<1> DEFINE h == [name |-> n, stream |-> streams[n]]
           g == [f EXCEPT ![o] = h]
<1>1. streams[n] \in Streams
  BY OpenersCount DEF Tables
<1>2. h \in Handle /\ h # Gone /\ h.name = n /\ h.stream = streams[n]
  BY <1>1 DEF Handle
<1>. HIDE DEF h
<1>3. g \in [Clients -> Handle \cup {Gone}]
  BY <1>2 DEF Tables
<1>4. \A m \in Names : OpenersIn(g, m) = IF m = n THEN OpenersIn(f, m) \cup {o}
                                                 ELSE OpenersIn(f, m)
  <2>1. \A m \in Names : o \notin OpenersIn(f, m)
    BY DEF OpenersIn
  <2>2. g[o] = h /\ \A c \in Clients \ {o} : g[c] = f[c]
    BY DEF Tables
  <2>. HIDE DEF g
  <2>3. \A m \in Names : OpenersIn(g, m) =
          IF g[o] # Gone /\ g[o].name = m THEN OpenersIn(f, m) \cup {o}
                                         ELSE OpenersIn(f, m) \ {o}
    BY <2>2, OpenersChanged
  <2>4. \A m \in Names : o \notin OpenersIn(f, m) =>
          OpenersIn(f, m) \ {o} = OpenersIn(f, m)
    OBVIOUS
  <2>. QED
    BY <1>1, <1>2, <2>1, <2>2, <2>3, <2>4
<1>5. \A m \in Names :
        [counts EXCEPT ![n] = @ + 1][m] = Cardinality(OpenersIn(g, m))
  <2>1. o \notin OpenersIn(f, n)
    BY DEF OpenersIn
  <2>2. Cardinality(OpenersIn(f, n) \cup {o}) = Cardinality(OpenersIn(f, n)) + 1
    BY <2>1, OpenersCount, FS_AddElement
  <2>. QED
    BY <1>4, <2>2 DEF Tables
<1>6. \A m \in Names : streams[m] = 0 <=> OpenersIn(g, m) = {}
  BY <1>1, <1>4, StreamsType DEF Tables
<1>7. \A c \in Clients : g[c] # Gone => g[c].stream = streams[g[c].name]
  BY <1>2 DEF Tables
<1>. QED
  <2>. HIDE DEF g
  <2>1. [counts EXCEPT ![n] = @ + 1] \in [Names -> Nat]
    BY DEF Tables
  <2>2. Tables(g, [counts EXCEPT ![n] = @ + 1], streams)
    BY <1>3, <1>5, <1>6, <1>7, <2>1 DEF Tables
  <2>. QED
    BY <2>2 DEF g, h

LEMMA OpenTables ==
    ASSUME NEW f, NEW counts, NEW streams, Tables(f, counts, streams),
           NEW o \in Clients, f[o] = Gone, NEW n \in Names, counts[n] = 0,
           NEW s \in Streams, \A m \in Names : streams[m] # s
    PROVE  Tables([f EXCEPT ![o] = [name |-> n, stream |-> s]],
                  [counts EXCEPT ![n] = 1], [streams EXCEPT ![n] = s])
<1> DEFINE h == [name |-> n, stream |-> s]
           g == [f EXCEPT ![o] = h]
           t == [streams EXCEPT ![n] = s]
<1>1. s # 0 /\ OpenersIn(f, n) = {} /\ streams[n] = 0
  BY StreamsType, OpenersCount DEF Tables
<1>2. h \in Handle /\ h # Gone /\ h.name = n /\ h.stream = s
  BY DEF Handle
<1>. HIDE DEF h
<1>3. g \in [Clients -> Handle \cup {Gone}]
  BY <1>2 DEF Tables
<1>4. \A m \in Names : OpenersIn(g, m) = IF m = n THEN {o} ELSE OpenersIn(f, m)
  <2>1. \A m \in Names : o \notin OpenersIn(f, m)
    BY DEF OpenersIn
  <2>2. g[o] = h /\ \A c \in Clients \ {o} : g[c] = f[c]
    BY DEF Tables
  <2>. HIDE DEF g
  <2>3. \A m \in Names : OpenersIn(g, m) =
          IF g[o] # Gone /\ g[o].name = m THEN OpenersIn(f, m) \cup {o}
                                         ELSE OpenersIn(f, m) \ {o}
    BY <2>2, OpenersChanged
  <2>4. \A m \in Names : OpenersIn(f, m) \ {o} = OpenersIn(f, m)
    BY <2>1
  <2>. QED
    BY <1>1, <1>2, <2>2, <2>3, <2>4
<1>5. \A m \in Names :
        [counts EXCEPT ![n] = 1][m] = Cardinality(OpenersIn(g, m))
  BY <1>4, FS_Singleton DEF Tables
<1>6. t \in [Names -> {0} \cup Streams]
  BY DEF Tables
<1>7. \A m \in Names : t[m] = 0 <=> OpenersIn(g, m) = {}
  BY <1>1, <1>4 DEF Tables
<1>8. \A c \in Clients : g[c] # Gone => g[c].stream = t[g[c].name]
  <2>. SUFFICES ASSUME NEW c \in Clients, g[c] # Gone
                PROVE  g[c].stream = t[g[c].name]
    OBVIOUS
  <2>1. CASE c = o
    BY <1>2, <2>1 DEF Tables
  <2>2. CASE c # o
    <3>1. g[c] = f[c] /\ f[c].name \in Names /\ c \in OpenersIn(f, f[c].name)
      BY <2>2 DEF Tables, OpenersIn, Handle
    <3>2. f[c].name # n
      BY <1>1, <3>1
    <3>. QED
      BY <3>1, <3>2 DEF Tables
  <2>. QED
    BY <2>1, <2>2
<1>9. \A k, m \in Names : t[k] = t[m] => k = m \/ t[m] = 0
  BY DEF Tables
<1>. QED
  <2>. HIDE DEF g, t
  <2>1. [counts EXCEPT ![n] = 1] \in [Names -> Nat]
    BY DEF Tables
  <2>2. Tables(g, [counts EXCEPT ![n] = 1], t)
    BY <1>3, <1>5, <1>6, <1>7, <1>8, <1>9, <2>1 DEF Tables
  <2>. QED
    BY <2>2 DEF g, h, t

LEMMA CloseTables ==
    ASSUME Tables(objs, open_counts_, open_streams_), NEW o \in Live,
           NEW n, n = objs[o].name
    PROVE  /\ Tables([objs EXCEPT ![o] = Gone], CountsClosed(n), StreamsClosed(n))
           /\ n \in Names /\ open_counts_[n] > 0
           /\ CountsClosed(n)[n] = open_counts_[n] - 1
<1> DEFINE g == [objs EXCEPT ![o] = Gone]
           c == CountsClosed(n)
           t == StreamsClosed(n)
<1>1. o \in Clients /\ objs[o] \in Handle /\ n \in Names /\ o \in OpenersIn(objs, n)
  BY DEF Tables, Live, Handle, OpenersIn
<1>2. g \in [Clients -> Handle \cup {Gone}]
  BY DEF Tables
<1>3. \A m \in Names : OpenersIn(g, m) = IF m = n THEN OpenersIn(objs, m) \ {o}
                                                 ELSE OpenersIn(objs, m)
  <2>1. \A m \in Names \ {n} : o \notin OpenersIn(objs, m)
    BY DEF OpenersIn
  <2>2. /\ o \in Clients /\ g[o] = Gone
        /\ \A d \in Clients \ {o} : g[d] = objs[d]
    BY <1>1 DEF Tables
  <2>. HIDE DEF g
  <2>3. \A m \in Names : OpenersIn(g, m) =
          IF g[o] # Gone /\ g[o].name = m THEN OpenersIn(objs, m) \cup {o}
                                         ELSE OpenersIn(objs, m) \ {o}
    BY <2>2 DEF OpenersIn
  <2>4. \A m \in Names : o \notin OpenersIn(objs, m) =>
          OpenersIn(objs, m) \ {o} = OpenersIn(objs, m)
    OBVIOUS
  <2>. QED
    BY <1>1, <2>1, <2>2, <2>3, <2>4
<1>4. open_counts_[n] \in Nat \ {0}
  BY <1>1, OpenersCount DEF Tables
<1>5. c = [open_counts_ EXCEPT ![n] = open_counts_[n] - 1]
  <2>1. CountLeft(n) = open_counts_[n] - 1
    BY <1>4 DEF CountLeft
  <2>. QED
    BY <2>1 DEF CountsClosed
<1>6. c \in [Names -> Nat] /\ c[n] = open_counts_[n] - 1
  BY <1>1, <1>4, <1>5 DEF Tables
<1>7. \A m \in Names : c[m] = Cardinality(OpenersIn(g, m))
  <2>1. Cardinality(OpenersIn(objs, n) \ {o}) = Cardinality(OpenersIn(objs, n)) - 1
    BY <1>1, OpenersCount, FS_RemoveElement
  <2>. HIDE DEF c, g
  <2>. QED
    BY <1>1, <1>3, <1>4, <1>5, <2>1 DEF Tables
<1>8. t = [open_streams_ EXCEPT ![n] = IF c[n] = 0 THEN 0 ELSE open_streams_[n]]
  <2>1. CountLeft(n) = c[n]
    BY <1>4, <1>6 DEF CountLeft
  <2>. HIDE DEF c
  <2>. QED
    BY <2>1 DEF StreamsClosed
<1>. HIDE DEF c, t
<1>9. t \in [Names -> {0} \cup Streams]
  BY <1>8 DEF Tables
<1>10. \A m \in Names : t[m] = 0 <=> OpenersIn(g, m) = {}
  <2>. SUFFICES ASSUME NEW m \in Names
                PROVE  t[m] = 0 <=> OpenersIn(g, m) = {}
    OBVIOUS
  <2>1. CASE m = n
    <3>1. c[n] = 0 <=> OpenersIn(g, n) = {}
      BY <1>1, <1>7, OpenersCount
    <3>2. open_streams_[n] # 0
      BY <1>1 DEF Tables
    <3>. QED
      BY <2>1, <1>8, <3>1, <3>2, <1>1 DEF Tables
  <2>2. CASE m # n
    BY <2>2, <1>8, <1>3 DEF Tables
  <2>. QED
    BY <2>1, <2>2
<1>11. \A d \in Clients : g[d] # Gone => g[d].stream = t[g[d].name]
  <2>. SUFFICES ASSUME NEW d \in Clients, g[d] # Gone
                PROVE  g[d].stream = t[g[d].name]
    OBVIOUS
  <2>1. d # o /\ g[d] = objs[d] /\ objs[d].name \in Names /\ d \in OpenersIn(g, objs[d].name)
    BY <1>1 DEF Tables, OpenersIn, Handle
  <2>2. t[objs[d].name] # 0
    BY <2>1, <1>10
  <2>3. t[objs[d].name] = open_streams_[objs[d].name]
    BY <2>1, <2>2, <1>8 DEF Tables
  <2>. QED
    BY <2>1, <2>3 DEF Tables
<1>12. \A k, m \in Names : t[k] = t[m] => k = m \/ t[m] = 0
  BY <1>8, <1>9 DEF Tables
<1>13. Tables(g, c, t)
  <2>. HIDE DEF g
  <2>. QED
    BY <1>2, <1>6, <1>7, <1>9, <1>10, <1>11, <1>12 DEF Tables
<1>. QED
  BY <1>13, <1>1, <1>4, <1>6 DEF c, t

(* What openIfNeeded does to the tables f, counts and streams: o has n     *)
(* open, and streams F that were those of names G still are.               *)
Taken(o, n, f, counts, streams, F, G) ==
    /\ Tables(objs', open_counts_', open_streams_')
    /\ objs'[o] # Gone /\ objs'[o].name = n
    /\ \A c \in Clients \ {o} : objs'[c] = f[c]
    /\ open_counts_' = [counts EXCEPT ![n] = @ + 1]
    /\ F \subseteq {open_streams_'[m] : m \in G} \ {0}

LEMMA TakeTables ==
    ASSUME NEW f, NEW counts, NEW streams, Tables(f, counts, streams),
           NEW o \in Clients, f[o] = Gone,
           objs \in [Clients -> Handle \cup {Gone}], f = [objs EXCEPT ![o] = Gone],
           NEW n \in Names,
           Join(o, n, counts, streams) \/ OpenAnew(o, n, counts, streams),
           NEW F, NEW G \in SUBSET Names, F \subseteq {streams[m] : m \in G} \ {0}
    PROVE  Taken(o, n, f, counts, streams, F, G)
<1>h. \A h : [objs EXCEPT ![o] = h] = [f EXCEPT ![o] = h]
  OBVIOUS
<1>1. CASE Join(o, n, counts, streams)
  <2> DEFINE h == [name |-> n, stream |-> streams[n]]
  <2>1. /\ objs' = [f EXCEPT ![o] = h]
        /\ open_counts_' = [counts EXCEPT ![n] = @ + 1]
        /\ open_streams_' = streams
        /\ counts[n] # 0
    BY <1>1, <1>h DEF Join
  <2>2. Tables(objs', open_counts_', open_streams_')
    BY <2>1, JoinTables
  <2>3. streams[n] \in Streams
    BY <2>1, OpenersCount DEF Tables
  <2>4. h # Gone /\ h.name = n
    BY <2>3
  <2>. HIDE DEF h
  <2>5. objs'[o] = h /\ \A c \in Clients \ {o} : objs'[c] = f[c]
    BY <2>1 DEF Tables
  <2>. QED
    BY <2>1, <2>2, <2>4, <2>5 DEF Taken
<1>2. CASE OpenAnew(o, n, counts, streams)
  <2> DEFINE s == NewStream(streams)
             h == [name |-> n, stream |-> s]
  <2>1. /\ objs' = [f EXCEPT ![o] = h]
        /\ open_counts_' = [counts EXCEPT ![n] = 1]
        /\ open_streams_' = [streams EXCEPT ![n] = s]
        /\ counts[n] = 0
    BY <1>2, <1>h DEF OpenAnew
  <2>2. s \in Streams /\ \A m \in Names : streams[m] # s
    BY NewStreamIs
  <2>. HIDE DEF s
  <2>3. Tables(objs', open_counts_', open_streams_')
    BY <2>1, <2>2, OpenTables
  <2>4. h # Gone /\ h.name = n
    BY <2>2
  <2>. HIDE DEF h
  <2>5. objs'[o] = h /\ \A c \in Clients \ {o} : objs'[c] = f[c]
    BY <2>1 DEF Tables
  <2>6. open_counts_' = [counts EXCEPT ![n] = @ + 1]
    BY <2>1
  <2>7. streams[n] = 0
    BY <2>1, OpenersCount DEF Tables
  <2>9. \A m \in Names : open_streams_'[m] = IF m = n THEN s ELSE streams[m]
    BY <2>1 DEF Tables
  <2>10. F \subseteq {open_streams_'[m] : m \in G} \ {0}
    BY <2>7, <2>9
  <2>. QED
    BY <2>3, <2>4, <2>5, <2>6, <2>10 DEF Taken
<1>. QED
  BY <1>1, <1>2

(* The streams that have failed after close().                             *)
LEMMA CloseFailed ==
    ASSUME IInv, NEW o \in Live, NEW n, n = objs[o].name
    PROVE  /\ ForfeitedClosed(n) \subseteq Names
           /\ FailedClosed(o) \subseteq
                 {StreamsClosed(n)[m] : m \in ForfeitedClosed(n)} \ {0}
<1>1. /\ o \in Clients /\ objs[o] # Gone /\ n \in Names
      /\ StreamOf(o) = open_streams_[n] /\ o \in OpenersIn(objs, n)
  BY DEF IInv, Tables, Live, Handle, OpenersIn, StreamOf
<1>2. open_counts_[n] \in Nat \ {0} /\ open_streams_[n] # 0
  BY <1>1, OpenersCount DEF IInv, Tables
<1>3. FailedClosed(o) = IF open_counts_[n] = 1 THEN failed \ {open_streams_[n]}
                                              ELSE failed
  BY <1>1, <1>2 DEF FailedClosed, CountLeft
<1>4. \A m \in Names : StreamsClosed(n)[m] =
         IF m = n /\ open_counts_[n] = 1 THEN 0 ELSE open_streams_[m]
  BY <1>1, <1>2 DEF StreamsClosed, CountLeft, IInv, Tables
<1>5. /\ forfeited \subseteq Names
      /\ failed \subseteq {open_streams_[m] : m \in forfeited} \ {0}
  BY DEF IInv, FailedForfeited
<1>6. ForfeitedClosed(n) = IF open_counts_[n] = 1 THEN forfeited \ {n} ELSE forfeited
  BY <1>1, <1>2 DEF ForfeitedClosed, CountLeft
<1>. QED
  BY <1>3, <1>4, <1>5, <1>6

-----------------------------------------------------------------------------
(* The invariant, action by action.  TakeFacts and its likes also say what *)
(* the refinement below needs of the step.                                 *)

(* A call that changes no table.                                           *)
LEMMA SameTables ==
    ASSUME IInv, UNCHANGED tables, FailedForfeited', DiskInv',
           \A n \in Names : open_counts_[n] # 0 /\ disk[n] # NoFile => disk'[n] # NoFile,
           thrown' \in Exceptions
    PROVE  IInv'
<1>1. objs' = objs /\ open_counts_' = open_counts_ /\ open_streams_' = open_streams_
  BY DEF tables
<1>2. ASSUME NEW c \in Clients, objs[c] # Gone
      PROVE  objs[c].name \in Names /\ open_counts_[objs[c].name] # 0
  <2>1. objs[c].name \in Names /\ c \in OpenersIn(objs, objs[c].name)
    BY <1>2 DEF IInv, Tables, OpenersIn, Handle
  <2>. QED
    BY <2>1, OpenersCount DEF IInv, Tables
<1>3. FilesThere'
  BY <1>1, <1>2 DEF IInv, FilesThere
<1>4. Tables(objs, open_counts_, open_streams_)'
  BY <1>1 DEF IInv, Tables, OpenersIn
<1>. QED
  BY <1>3, <1>4 DEF IInv

LEMMA SameFiles ==
    ASSUME IInv, UNCHANGED <<tables, failed, forfeited, disk>>, thrown' \in Exceptions
    PROVE  IInv'
<1>1. FailedForfeited' /\ DiskInv'
  BY DEF IInv, FailedForfeited, DiskInv, tables
<1>. QED
  BY <1>1, SameTables

LEMMA ThrowInv ==
    ASSUME IInv, NEW e \in Exceptions, Throw(e)
    PROVE  IInv'
  BY SameFiles DEF Throw

(* An object joins or opens a file that is there: Open, Create and Copy.   *)
LEMMA TakeFacts ==
    ASSUME IInv, NEW o \in Clients, objs[o] = Gone, NEW n \in Names,
           \/ Join(o, n, open_counts_, open_streams_)
           \/ OpenAnew(o, n, open_counts_, open_streams_),
           UNCHANGED <<failed, forfeited>>
    PROVE  /\ Tables(objs', open_counts_', open_streams_')
           /\ FailedForfeited'
           /\ \A c \in Clients : objs'[c] # Gone =>
            (c = o /\ objs'[c].name = n) \/ objs'[c] = objs[c]
           /\ open_counts_' = [open_counts_ EXCEPT ![n] = @ + 1]
<1>1. /\ forfeited \in SUBSET Names
      /\ failed \subseteq {open_streams_[m] : m \in forfeited} \ {0}
  BY DEF IInv, FailedForfeited
<1>2. /\ Tables(objs', open_counts_', open_streams_')
      /\ objs'[o] # Gone /\ objs'[o].name = n
      /\ \A c \in Clients \ {o} : objs'[c] = objs[c]
      /\ open_counts_' = [open_counts_ EXCEPT ![n] = @ + 1]
      /\ failed \subseteq {open_streams_'[m] : m \in forfeited} \ {0}
  <2>1. objs \in [Clients -> Handle \cup {Gone}] /\ objs = [objs EXCEPT ![o] = Gone]
    BY DEF IInv, Tables
  <2>2. Tables(objs, open_counts_, open_streams_)
    BY DEF IInv
  <2>. PICK F : F = failed
    OBVIOUS
  <2>. PICK G : G = forfeited
    OBVIOUS
  <2>3. G \in SUBSET Names /\ F \subseteq {open_streams_[m] : m \in G} \ {0}
    BY <1>1
  <2>4. Taken(o, n, objs, open_counts_, open_streams_, F, G)
    BY <2>1, <2>2, <2>3, TakeTables
  <2>. QED
    BY <2>4 DEF Taken
<1>. QED
  BY <1>1, <1>2 DEF FailedForfeited

(* A file that is there, or was joined.                                    *)
LEMMA JoinedExists ==
    ASSUME IInv, NEW n \in Names, open_counts_[n] # 0
    PROVE  disk[n] # NoFile
<1>1. OpenersIn(objs, n) # {}
  BY OpenersCount DEF IInv, Tables
<1>2. PICK c \in Clients : objs[c] # Gone /\ objs[c].name = n
  BY <1>1 DEF OpenersIn
<1>. QED
  BY <1>2 DEF IInv, FilesThere

LEMMA TakeInv ==
    ASSUME IInv, NEW o \in Clients, objs[o] = Gone, NEW n \in Names,
           \/ Join(o, n, open_counts_, open_streams_)
           \/ OpenAnew(o, n, open_counts_, open_streams_),
           UNCHANGED <<failed, forfeited>>, DiskInv', disk'[n] # NoFile,
           \A m \in Names : disk[m] # NoFile => disk'[m] # NoFile,
           thrown' = "none"
    PROVE  IInv'
<1>1. /\ Tables(objs', open_counts_', open_streams_')
      /\ FailedForfeited'
      /\ \A c \in Clients : objs'[c] # Gone =>
            (c = o /\ objs'[c].name = n) \/ objs'[c] = objs[c]
  BY TakeFacts
<1>2. \A c \in Clients : objs[c] # Gone => objs[c].name \in Names
  BY DEF IInv, Tables, Handle
<1>3. FilesThere'
  BY <1>1, <1>2 DEF FilesThere, IInv
<1>. QED
  BY <1>1, <1>3 DEF IInv, Tables, OpenersIn, Exceptions

LEMMA OpenInv ==
    ASSUME IInv, NEW o \in Clients, NEW n \in Names, Open(o, n)
    PROVE  IInv'
<1>1. exists(n)
  BY JoinedExists DEF Open, Join, exists
<1>2. DiskInv'
  BY DEF Open, IInv, DiskInv
<1>. QED
  BY <1>1, <1>2, TakeInv DEF Open, Return, exists

LEMMA NewHeaderType == NewHeader \in FileHeader /\ NewHeader.num_pages = 1
  BY DEF NewHeader, FileHeader, PageIds

LEMMA CreateInv ==
    ASSUME IInv, NEW o \in Clients, NEW n \in Names, Create(o, n)
    PROVE  IInv'
<1> DEFINE new == [header |-> NewHeader, pages |-> <<>>]
           over == [disk[n] EXCEPT !.header = NewHeader]
<1>1. new \in File /\ PagesWritten(new)
  BY NewHeaderType DEF File, PagesWritten
<1>2. ASSUME disk[n] # NoFile PROVE over \in File /\ PagesWritten(over)
  <2>1. disk[n] \in File /\ PagesWritten(disk[n])
    BY <1>2 DEF IInv, DiskInv
  <2>2. over \in File /\ over.pages = disk[n].pages /\ over.header = NewHeader
    BY <2>1, NewHeaderType DEF File
  <2>. QED
    BY <2>1, <2>2, NewHeaderType DEF PagesWritten, File
<1>3. /\ disk'[n] # NoFile
      /\ \/ disk' = disk
         \/ disk' = [disk EXCEPT ![n] = new]
         \/ disk[n] # NoFile /\ disk' = [disk EXCEPT ![n] = over]
  <2>1. CASE Join(o, n, open_counts_, open_streams_)
    BY <2>1, JoinedExists, <1>2 DEF Create, Join, exists, IInv, DiskInv, File
  <2>2. CASE ~Join(o, n, open_counts_, open_streams_)
    BY <2>2, <1>1 DEF Create, exists, IInv, DiskInv, File
  <2>. QED
    BY <2>1, <2>2 DEF Create
<1>. HIDE DEF new, over
<1>4. DiskInv' /\ \A m \in Names : disk[m] # NoFile => disk'[m] # NoFile
  BY <1>1, <1>2, <1>3 DEF IInv, DiskInv, File
<1>. QED
  BY <1>3, <1>4, TakeInv DEF Create, Return

LEMMA CopyInv ==
    ASSUME IInv, NEW o \in Clients, NEW src \in Live, Copy(o, src)
    PROVE  IInv'
<1>1. objs[src].name \in Names
  BY DEF IInv, Tables, Live, Handle
<1>2. disk[objs[src].name] # NoFile
  BY <1>1 DEF IInv, FilesThere, Live
<1>3. DiskInv'
  BY DEF Copy, IInv, DiskInv
<1>. QED
  BY <1>1, <1>2, <1>3, TakeInv DEF Copy, Return

LEMMA LiveIs ==
    ASSUME IInv, NEW o \in Live
    PROVE  /\ o \in Clients /\ objs[o] # Gone /\ objs[o].name \in Names
           /\ open_counts_[objs[o].name] \in Nat \ {0}
           /\ disk[objs[o].name] # NoFile
           /\ StreamOf(o) = open_streams_[objs[o].name]
           /\ StreamOf(o) \in Streams
<1>1. /\ o \in Clients /\ objs[o] # Gone /\ objs[o].name \in Names
      /\ objs[o] \in Handle
  BY DEF IInv, Tables, Live, Handle
<1>2. o \in OpenersIn(objs, objs[o].name)
  BY <1>1 DEF OpenersIn
<1>. QED
  BY <1>1, <1>2, OpenersCount DEF IInv, Tables, FilesThere, StreamOf, Handle

(* operator=: close(), then openIfNeeded() on what close() left.           *)
LEMMA AssignFacts ==
    ASSUME IInv, NEW o \in Live, NEW src \in Live, NEW own, NEW n,
           own = objs[o].name, n = objs[src].name,
           LET counts == CountsClosed(own) streams == StreamsClosed(own)
           IN  Join(o, n, counts, streams) \/ OpenAnew(o, n, counts, streams),
           failed' = FailedClosed(o), forfeited' = ForfeitedClosed(own)
    PROVE  /\ Tables(objs', open_counts_', open_streams_')
           /\ FailedForfeited'
           /\ \A c \in Clients : objs'[c] # Gone =>
            (c = o /\ objs'[c].name = n) \/ objs'[c] = objs[c]
           /\ \A k \in Names : open_counts_'[k] = open_counts_[k]
                    + (IF k = n THEN 1 ELSE 0) - (IF k = own THEN 1 ELSE 0)
<1> DEFINE f == [objs EXCEPT ![o] = Gone]
           counts == CountsClosed(own)
           streams == StreamsClosed(own)
<1>1. /\ Tables(f, counts, streams)
      /\ own \in Names /\ counts[own] = open_counts_[own] - 1
  BY CloseTables DEF IInv
<1>2. o \in Clients /\ src \in Clients /\ n \in Names
  BY LiveIs
<1>3. /\ forfeited' \in SUBSET Names
      /\ failed' \subseteq {streams[m] : m \in forfeited'} \ {0}
  BY CloseFailed
<1>4. /\ f[o] = Gone /\ \A c \in Clients \ {o} : f[c] = objs[c]
      /\ objs \in [Clients -> Handle \cup {Gone}]
  BY <1>2 DEF IInv, Tables
<1>5. \A k \in Names : open_counts_[k] \in Nat /\ counts[k] =
                        open_counts_[k] - (IF k = own THEN 1 ELSE 0)
  BY <1>1 DEF CountsClosed, IInv, Tables
<1>6. /\ Join(o, n, counts, streams) \/ OpenAnew(o, n, counts, streams)
      /\ f = [objs EXCEPT ![o] = Gone]
  OBVIOUS
<1>. HIDE DEF f, counts, streams
<1>. PICK F : F = failed'
  OBVIOUS
<1>. PICK G : G = forfeited'
  OBVIOUS
<1>7. Taken(o, n, f, counts, streams, F, G)
  <2>1. G \in SUBSET Names /\ F \subseteq {streams[m] : m \in G} \ {0}
    BY <1>3
  <2>. QED
    BY <1>1, <1>2, <1>4, <1>6, <2>1, TakeTables
<1>8. \A k \in Names : open_counts_'[k] = counts[k] + (IF k = n THEN 1 ELSE 0)
  BY <1>1, <1>5, <1>7 DEF Tables, Taken
<1>. QED
  BY <1>3, <1>4, <1>5, <1>7, <1>8 DEF FailedForfeited, Taken

LEMMA AssignInv ==
    ASSUME IInv, NEW o \in Live, NEW src \in Live, Assign(o, src)
    PROVE  IInv'
<1> DEFINE n == objs[src].name
           own == objs[o].name
<1>1. n \in Names /\ disk[n] # NoFile
  BY LiveIs
<1>2. /\ \/ Join(o, n, CountsClosed(own), StreamsClosed(own))
         \/ OpenAnew(o, n, CountsClosed(own), StreamsClosed(own))
      /\ failed' = FailedClosed(o) /\ forfeited' = ForfeitedClosed(own)
      /\ disk' = disk /\ thrown' = "none"
  BY DEF Assign, Return
<1>3. /\ Tables(objs', open_counts_', open_streams_')
      /\ FailedForfeited'
      /\ \A c \in Clients : objs'[c] # Gone =>
            (c = o /\ objs'[c].name = n) \/ objs'[c] = objs[c]
  BY <1>2, AssignFacts
<1>4. FilesThere'
  BY <1>1, <1>2, <1>3 DEF FilesThere, IInv
<1>5. DiskInv'
  BY <1>2 DEF DiskInv, IInv
<1>. QED
  BY <1>2, <1>3, <1>4, <1>5 DEF IInv, Tables, OpenersIn, Exceptions

LEMMA DestroyInv ==
    ASSUME IInv, NEW o \in Live, Destroy(o)
    PROVE  IInv'
<1> DEFINE own == objs[o].name
<1>1. /\ objs' = [objs EXCEPT ![o] = Gone]
      /\ open_counts_' = CountsClosed(own)
      /\ open_streams_' = StreamsClosed(own)
      /\ failed' = FailedClosed(o) /\ forfeited' = ForfeitedClosed(own)
      /\ disk' = disk /\ thrown' = "none"
  BY DEF Destroy, Return
<1>2. Tables(objs', open_counts_', open_streams_')
  BY <1>1, CloseTables DEF IInv
<1>3. FailedForfeited'
  BY <1>1, CloseFailed DEF FailedForfeited
<1>4. FilesThere'
  BY <1>1 DEF IInv, FilesThere, Tables
<1>5. DiskInv'
  BY <1>1 DEF DiskInv, IInv
<1>. QED
  BY <1>1, <1>2, <1>3, <1>4, <1>5 DEF IInv, Tables, OpenersIn, Exceptions

LEMMA RemoveInv ==
    ASSUME IInv, NEW n \in Names, Remove(n)
    PROVE  IInv'
<1>1. FailedForfeited' /\ DiskInv' /\ UNCHANGED tables /\ thrown' \in Exceptions
  BY DEF Remove, Return, IInv, FailedForfeited, DiskInv, tables, Exceptions, File
<1>2. \A m \in Names : open_counts_[m] # 0 /\ disk[m] # NoFile => disk'[m] # NoFile
  BY DEF Remove, isOpen, exists, IInv, DiskInv
<1>. QED
  BY <1>1, <1>2, SameTables

-----------------------------------------------------------------------------
(* The pages of a file.                                                    *)

LEMMA MaxIs ==
    ASSUME NEW a \in Nat, NEW b \in Nat
    PROVE  Max({a, b}) = IF a < b THEN b ELSE a
<1>1. \A x \in {a, b} : (\A y \in {a, b} : x >= y) <=> x = IF a < b THEN b ELSE a
  OBVIOUS
<1>. QED
  BY <1>1 DEF Max

LEMMA PutIs ==
    ASSUME NEW pages \in Seq(Data), NEW p \in Nat, NEW d \in Data
    PROVE  /\ Put(pages, p, d) \in Seq(Data)
           /\ Len(Put(pages, p, d)) = IF Len(pages) < p THEN p ELSE Len(pages)
           /\ \A i \in 1 .. Len(Put(pages, p, d)) : Put(pages, p, d)[i] =
                IF i = p THEN d ELSE IF i <= Len(pages) THEN pages[i] ELSE Blank
<1> DEFINE m == IF Len(pages) < p THEN p ELSE Len(pages)
           q == [i \in 1 .. m |->
                  IF i = p THEN d ELSE IF i <= Len(pages) THEN pages[i] ELSE Blank]
<1>1. Put(pages, p, d) = q
  BY MaxIs DEF Put
<1>2. m \in Nat
  OBVIOUS
<1>. HIDE DEF m
<1>3. q \in [1 .. m -> Data]
  OBVIOUS
<1>4. q \in Seq(Data) /\ Len(q) = m
  BY <1>2, <1>3
<1>. QED
  BY <1>1, <1>4 DEF m

LEMMA FileIs ==
    ASSUME IInv, NEW o \in Live
    PROVE  FileOf(o) = disk[objs[o].name] /\ FileOf(o) \in File /\ PagesWritten(FileOf(o))
  BY LiveIs DEF FileOf, IInv, DiskInv

(* An action that changes the file of an object, if anything.              *)
LEMMA FileChanged ==
    ASSUME IInv, NEW o \in Live, NEW g \in File, PagesWritten(g),
           \/ disk' = disk
           \/ disk' = [disk EXCEPT ![objs[o].name] = g],
           UNCHANGED <<tables, failed, forfeited>>, thrown' = "none"
    PROVE  IInv'
<1>1. FailedForfeited'
  BY DEF IInv, FailedForfeited, tables
<1>2. DiskInv' /\ \A m \in Names : disk[m] # NoFile => disk'[m] # NoFile
  BY DEF IInv, DiskInv, File
<1>. QED
  BY <1>1, <1>2, SameTables DEF Exceptions

(* A page allocated by an object whose stream has not failed.              *)
Grown(file, n) ==
    [header |-> [num_pages |-> n + 1,
                 first_used_page |-> IF file.header.first_used_page = 0
                                     THEN n ELSE file.header.first_used_page],
     pages |-> Put(file.pages, n, Blank)]

LEMMA GrownIs ==
    ASSUME NEW file \in File, PagesWritten(file), NEW n, n = file.header.num_pages,
           n <= MaxPage
    PROVE  Grown(file, n) \in File /\ PagesWritten(Grown(file, n))
<1>1. /\ file.pages \in Seq(Data) /\ file.header.first_used_page \in PageIds
      /\ Len(file.pages) <= MaxPage /\ n \in 1 .. Len(file.pages) + 1
  BY DEF File, FileHeader, PagesWritten
<1>2. /\ Put(file.pages, n, Blank) \in Seq(Data)
      /\ Len(Put(file.pages, n, Blank)) \in n .. MaxPage
  <2>1. n \in Nat /\ file.pages \in Seq(Data)
    BY <1>1
  <2>2. /\ Put(file.pages, n, Blank) \in Seq(Data)
        /\ Len(Put(file.pages, n, Blank)) =
             IF Len(file.pages) < n THEN n ELSE Len(file.pages)
    <3>1. \A q \in Seq(Data), k \in Nat :
             /\ Put(q, k, Blank) \in Seq(Data)
             /\ Len(Put(q, k, Blank)) = IF Len(q) < k THEN k ELSE Len(q)
      BY PutIs
    <3>. QED
      BY <2>1, <3>1
  <2>. QED
    BY <1>1, <2>2
<1>3. n \in PageIds /\ n + 1 \in PageIds
  BY <1>1 DEF PageIds
<1>. QED
  BY <1>1, <1>2, <1>3 DEF Grown, File, FileHeader, PagesWritten

LEMMA AllocatePageInv ==
    ASSUME IInv, NEW o \in Live, AllocatePage(o)
    PROVE  IInv'
<1>1. PICK n \in {h.num_pages : h \in readHeader(o)} :
        /\ n <= MaxPage
        /\ disk' = IF Failed(o) THEN disk
                   ELSE [disk EXCEPT ![objs[o].name] = Grown(@, n)]
        /\ thrown' = "none" /\ UNCHANGED <<tables, failed, forfeited>>
  BY DEF AllocatePage, Return, Grown
<1>2. CASE Failed(o)
  BY <1>1, <1>2, SameFiles DEF Exceptions
<1>3. CASE ~Failed(o)
  <2>1. n = FileOf(o).header.num_pages
    BY <1>3 DEF readHeader
  <2>2. disk' = [disk EXCEPT ![objs[o].name] = Grown(FileOf(o), n)]
    BY <1>1, <1>3 DEF FileOf
  <2>3. Grown(FileOf(o), n) \in File /\ PagesWritten(Grown(FileOf(o), n))
    BY <1>1, <2>1, FileIs, GrownIs
  <2>. QED
    BY <1>1, <2>2, <2>3, FileChanged
<1>. QED
  BY <1>2, <1>3

LEMMA WritePageInv ==
    ASSUME IInv, NEW o \in Live, NEW p \in PageIds, NEW d \in Data, WritePage(o, p, d)
    PROVE  IInv'
<1> DEFINE g == [FileOf(o) EXCEPT !.pages = Put(@, p, d)]
<1>1. /\ FileOf(o).pages \in Seq(Data) /\ p \in 1 .. MaxPage
      /\ FileOf(o) \in File /\ PagesWritten(FileOf(o))
  BY FileIs DEF WritePage, File
<1>2. /\ Put(FileOf(o).pages, p, d) \in Seq(Data)
      /\ Len(Put(FileOf(o).pages, p, d)) \in Len(FileOf(o).pages) .. MaxPage
  <2>1. p \in Nat /\ Len(FileOf(o).pages) \in 0 .. MaxPage
    BY <1>1 DEF PagesWritten
  <2>2. /\ Put(FileOf(o).pages, p, d) \in Seq(Data)
        /\ Len(Put(FileOf(o).pages, p, d)) =
             IF Len(FileOf(o).pages) < p THEN p ELSE Len(FileOf(o).pages)
    BY <1>1, <2>1, PutIs
  <2>. QED
    BY <1>1, <2>1, <2>2
<1>3. g \in File /\ g.header = FileOf(o).header /\ g.pages = Put(FileOf(o).pages, p, d)
  BY <1>1, <1>2 DEF File
<1>4. \/ disk' = disk
      \/ disk' = [disk EXCEPT ![objs[o].name] = g]
  BY DEF WritePage, FileOf
<1>. HIDE DEF g
<1>5. PagesWritten(g)
  BY <1>1, <1>2, <1>3 DEF PagesWritten
<1>. QED
  BY <1>3, <1>4, <1>5, FileChanged DEF WritePage, Return

LEMMA ReadPageInv ==
    ASSUME IInv, NEW o \in Live, NEW p, ReadPage(o, p)
    PROVE  IInv'
<1>1. /\ failed' = failed \/ failed' = failed \cup {StreamOf(o)}
      /\ forfeited' = forfeited \/ forfeited' = forfeited \cup {objs[o].name}
      /\ failed' = failed \/ p \notin Allocated(o) \/ StreamOf(o) \in failed
      /\ p \notin Allocated(o) => objs[o].name \in forfeited'
      /\ thrown' = "none" /\ disk' = disk /\ UNCHANGED tables
  <2>1. PagesWritten(FileOf(o)) /\ FileOf(o) \in File
    BY FileIs
  <2>2. p \in Allocated(o) => p \in DOMAIN FileOf(o).pages
    BY <2>1 DEF Allocated, PagesWritten, File
  <2>. QED
    BY <2>2 DEF ReadPage, Return, Failed
<1>2. /\ StreamOf(o) = open_streams_[objs[o].name] /\ StreamOf(o) # 0
      /\ objs[o].name \in Names
  BY LiveIs, StreamsType
<1>3. FailedForfeited'
  BY <1>1, <1>2 DEF IInv, FailedForfeited, tables
<1>4. DiskInv'
  BY <1>1 DEF IInv, DiskInv
<1>. QED
  BY <1>1, <1>3, <1>4, SameTables DEF Exceptions

-----------------------------------------------------------------------------
LEMMA NextInv == IInv /\ [Next]_vars => IInv'
<1>. SUFFICES ASSUME IInv, [Next]_vars PROVE IInv'
  OBVIOUS
<1>1. ASSUME NEW n \in Names, OpenRefused(n) \/ CreateRefused(n) \/ RemoveRefused(n)
      PROVE  IInv'
  BY <1>1, ThrowInv DEF OpenRefused, CreateRefused, RemoveRefused, Exceptions
<1>2. ASSUME NEW o \in Live, DeletePage(o) PROVE IInv'
  BY <1>2, ThrowInv DEF DeletePage, Exceptions
<1>3. ASSUME NEW o \in Live, GetFirstPage(o) PROVE IInv'
  BY <1>3, ReadPageInv DEF GetFirstPage
<1>4. CASE UNCHANGED vars
  BY <1>4, SameFiles DEF vars, IInv
<1>. QED
  BY <1>1, <1>2, <1>3, <1>4, RemoveInv, OpenInv, CreateInv, CopyInv, AssignInv,
     DestroyInv, AllocatePageInv, ReadPageInv, WritePageInv DEF Next, FileStep

LEMMA InitInv == Init => IInv
<1>. SUFFICES ASSUME Init PROVE IInv
  OBVIOUS
<1>1. \A n \in Names : OpenersIn(objs, n) = {}
  BY DEF Init, OpenersIn
<1>2. Tables(objs, open_counts_, open_streams_)
  BY <1>1, FS_EmptySet DEF Init, Tables
<1>. QED
  BY <1>2 DEF Init, IInv, FilesThere, FailedForfeited, DiskInv, Exceptions

(* The invariant that the theorems below come from.                        *)
THEOREM Inductive == Spec => []IInv
  BY InitInv, NextInv, PTL DEF Spec

(* Whatever is opened, copied, assigned, also to itself, and closed, in    *)
(* any order: openIfNeeded and close keep one stream and one exact count   *)
(* for each file, and no stream fails but by a read of a page that the     *)
(* file does not have.                                                     *)
THEOREM CountsAndStreamsExact == Spec => []HandlesExact
<1>1. IInv => HandlesExact
  <2>. SUFFICES ASSUME IInv PROVE HandlesExact
    OBVIOUS
  <2>1. \A n \in Names : Openers(n) = OpenersIn(objs, n)
    BY DEF Openers, OpenersIn, Live
  <2>2. /\ forfeited \subseteq Names
        /\ failed \subseteq {open_streams_[n] : n \in forfeited} \ {0}
    BY DEF IInv, FailedForfeited
  <2>3. TypeOK
    <3>1. objs \in [Clients -> [name : Names, stream : Streams] \cup {Gone}]
      BY DEF IInv, Tables, Handle
    <3>2. open_counts_ \in [Names -> 0 .. Cardinality(Clients)]
      BY OpenersCount DEF IInv, Tables
    <3>3. open_streams_ \in [Names -> {0} \cup Streams] /\ failed \subseteq Streams
      BY <2>2 DEF IInv, Tables
    <3>4. \A n \in Names : disk[n] # NoFile =>
            disk[n].header \in FileHeader /\ Len(disk[n].pages) <= MaxPage
      BY DEF IInv, DiskInv, File, PagesWritten
    <3>. QED
      BY <2>2, <3>1, <3>2, <3>3, <3>4 DEF TypeOK, IInv, Exceptions
  <2>4. \A n \in Names :
         /\ open_counts_[n] = Cardinality(Openers(n))
         /\ open_streams_[n] # 0 <=> Openers(n) # {}
         /\ \A o \in Openers(n) : StreamOf(o) = open_streams_[n] /\ exists(n)
    BY <2>1 DEF IInv, Tables, OpenersIn, FilesThere, exists, StreamOf
  <2>5. \A n \in Names : \A m \in Names \ {n} :
           open_streams_[n] = open_streams_[m] => open_streams_[n] = 0
    BY DEF IInv, Tables
  <2>. QED
    BY <2>2, <2>3, <2>4, <2>5 DEF HandlesExact
<1>. QED
  BY <1>1, Inductive, PTL

-----------------------------------------------------------------------------
(* The promise of BlobStore.  What a file contains is its pages up to the  *)
(* header's number, and the openers are the counts.                        *)

Counted(file) ==
    [p \in 1 .. file.header.num_pages - 1 |->
       IF p \in DOMAIN file.pages THEN file.pages[p] ELSE Blank]

LEMMA CountedIs ==
    ASSUME NEW file \in File, PagesWritten(file)
    PROVE  /\ Counted(file) \in Seq(Data)
           /\ Counted(file) \in [1 .. file.header.num_pages - 1 -> Data]
           /\ Len(Counted(file)) = file.header.num_pages - 1
           /\ Len(Counted(file)) <= Len(file.pages)
           /\ \A p \in 1 .. file.header.num_pages - 1 :
                p \in 1 .. Len(file.pages) /\ Counted(file)[p] = file.pages[p]
<1>1. /\ file.pages \in Seq(Data) /\ file.header.num_pages \in 1 .. Len(file.pages) + 1
  BY DEF File, PagesWritten
<1>2. \A p \in 1 .. file.header.num_pages - 1 :
        p \in 1 .. Len(file.pages) /\ Counted(file)[p] = file.pages[p]
  BY <1>1 DEF Counted
<1>3. file.header.num_pages - 1 \in Nat
  BY <1>1
<1>4. Counted(file) \in [1 .. file.header.num_pages - 1 -> Data]
  BY <1>1 DEF Counted
<1>5. /\ Counted(file) \in Seq(Data)
      /\ Len(Counted(file)) = file.header.num_pages - 1
  BY <1>3, <1>4
<1>. QED
  BY <1>1, <1>2, <1>4, <1>5

LEMMA FilesAre ==
    /\ FileContents =
         [n \in Names |-> IF disk[n] = NoFile THEN NoFile ELSE Counted(disk[n])]
    /\ FileContents' =
         [n \in Names |-> IF disk'[n] = NoFile THEN NoFile ELSE Counted(disk'[n])]
  BY DEF FileContents, Contents, Counted

LEMMA ThereIs ==
    ASSUME IInv, NEW n \in Names
    PROVE  /\ FileContents[n] = NoFile <=> disk[n] = NoFile
           /\ disk[n] # NoFile => FileContents[n] = Counted(disk[n])
  BY FilesAre, CountedIs DEF IInv, DiskInv

LEMMA CountsAre ==
    /\ IInv => OpenerCounts = open_counts_
    /\ IInv' => OpenerCounts' = open_counts_'
<1>1. /\ \A n \in Names : Openers(n) = OpenersIn(objs, n)
      /\ \A n \in Names : Openers(n)' = OpenersIn(objs', n)
  BY DEF Openers, OpenersIn, Live
<1>. QED
  BY <1>1 DEF OpenerCounts, IInv, Tables

LEMMA SameMap ==
    /\ UNCHANGED disk => UNCHANGED FileContents
    /\ UNCHANGED objs => UNCHANGED OpenerCounts
  BY DEF FileContents, Contents, OpenerCounts, Openers, Live

LEMMA RefusedStep ==
    ASSUME NEW n \in Names, NEW e, Throw(e),
           \/ FileContents[n] # NoFile /\ e = "FileExists"
           \/ FileContents[n] = NoFile /\ e = "FileNotFound"
           \/ OpenerCounts[n] > 0 /\ e \in {"FileOpen", "InvalidPage"}
    PROVE  Blobs!Next
<1>1. Blobs!Refuse(e)
  BY SameMap DEF Throw, tables, Blobs!Refuse
<1>2. Blobs!Refused(n)
  BY <1>1 DEF Blobs!Refused
<1>. QED
  BY <1>2 DEF Blobs!Next

(* What TakeFacts says, in the words of BlobStore.                         *)
LEMMA TakeMap ==
    ASSUME IInv, IInv', NEW o \in Clients, objs[o] = Gone, NEW n \in Names,
           \/ Join(o, n, open_counts_, open_streams_)
           \/ OpenAnew(o, n, open_counts_, open_streams_),
           UNCHANGED <<failed, forfeited>>
    PROVE  OpenerCounts' = [OpenerCounts EXCEPT ![n] = @ + 1]
  BY TakeFacts, CountsAre

LEMMA OpenStep ==
    ASSUME IInv, IInv', NEW o \in Clients, NEW n \in Names, Open(o, n)
    PROVE  Blobs!Next
<1>1. FileContents[n] # NoFile
  BY ThereIs, JoinedExists DEF Open, Join, exists
<1>2. Blobs!Open(n)
  BY <1>1, TakeMap, SameMap DEF Open, Return, Blobs!Open, Blobs!Return
<1>. QED
  BY <1>2 DEF Blobs!Next

LEMMA CopyStep ==
    ASSUME IInv, IInv', NEW o \in Clients, NEW src \in Live, Copy(o, src)
    PROVE  Blobs!Next
<1>1. objs[src].name \in Names /\ FileContents[objs[src].name] # NoFile
  BY LiveIs, ThereIs
<1>2. Blobs!Open(objs[src].name)
  BY <1>1, TakeMap, SameMap DEF Copy, Return, Blobs!Open, Blobs!Return
<1>. QED
  BY <1>1, <1>2 DEF Blobs!Next

LEMMA CreateStep ==
    ASSUME IInv, IInv', NEW o \in Clients, NEW n \in Names, Create(o, n)
    PROVE  Blobs!Next \/ CreatedOver
<1>1. /\ OpenerCounts' = [OpenerCounts EXCEPT ![n] = @ + 1]
      /\ got' = Nothing /\ thrown' = "none"
  BY TakeMap DEF Create, Return
<1>2. NewHeader \in FileHeader /\ \A file : file.header = NewHeader => Counted(file) = <<>>
  BY NewHeaderType DEF Counted
<1>3. CASE Join(o, n, open_counts_, open_streams_)
  <2>1. OpenerCounts[n] > 0 /\ disk[n] # NoFile
    BY <1>3, CountsAre, JoinedExists DEF Join, IInv, Tables
  <2>2. FileContents' \in {FileContents, [FileContents EXCEPT ![n] = <<>>]}
    <3>1. CASE disk' = disk
      BY <3>1, SameMap
    <3>2. CASE disk' = [disk EXCEPT ![n].header = NewHeader]
      <4>1. [disk[n] EXCEPT !.header = NewHeader] \in File
        BY <1>2, <2>1 DEF File, IInv, DiskInv
      <4>2. /\ disk'[n] = [disk[n] EXCEPT !.header = NewHeader]
            /\ disk'[n].header = NewHeader /\ disk'[n] # NoFile
            /\ \A m \in Names \ {n} : disk'[m] = disk[m]
        BY <2>1, <3>2, <4>1 DEF IInv, DiskInv, File
      <4>. QED
        BY <1>2, <4>2, FilesAre
    <3>. QED
      <4>1. exists(n)
        BY <2>1 DEF exists
      <4>2. disk' = disk \/ disk' = [disk EXCEPT ![n].header = NewHeader]
        BY <4>1 DEF Create
      <4>. QED
        BY <3>1, <3>2, <4>2
  <2>. QED
    BY <1>1, <2>1, <2>2 DEF CreatedOver
<1>4. CASE ~Join(o, n, open_counts_, open_streams_)
  <2>1. ~exists(n) /\ disk' = [disk EXCEPT ![n] = [header |-> NewHeader, pages |-> <<>>]]
    BY <1>4 DEF Create
  <2>2. [header |-> NewHeader, pages |-> <<>>] \in File
    BY <1>2 DEF File
  <2>3. /\ disk'[n].header = NewHeader /\ disk'[n] # NoFile
        /\ \A m \in Names \ {n} : disk'[m] = disk[m]
    BY <2>1, <2>2 DEF IInv, DiskInv, File
  <2>4. FileContents' = [FileContents EXCEPT ![n] = <<>>] /\ FileContents[n] = NoFile
    BY <1>2, <2>1, <2>3, FilesAre, ThereIs DEF exists
  <2>5. Blobs!Create(n)
    BY <1>1, <2>4 DEF Blobs!Create, Blobs!Return
  <2>. QED
    BY <2>5 DEF Blobs!Next
<1>. QED
  BY <1>3, <1>4

LEMMA AssignStep ==
    ASSUME IInv, IInv', NEW o \in Live, NEW src \in Live, Assign(o, src)
    PROVE  Blobs!Next
<1> DEFINE n == objs[src].name
           own == objs[o].name
<1>1. /\ n \in Names /\ own \in Names
      /\ open_counts_[own] > 0 /\ open_counts_[n] > 0
  BY LiveIs
<1>2. /\ \/ Join(o, n, CountsClosed(own), StreamsClosed(own))
         \/ OpenAnew(o, n, CountsClosed(own), StreamsClosed(own))
      /\ failed' = FailedClosed(o) /\ forfeited' = ForfeitedClosed(own)
      /\ disk' = disk /\ got' = Nothing /\ thrown' = "none"
  BY DEF Assign, Return
<1>3. \A k \in Names : open_counts_'[k] = open_counts_[k]
                + (IF k = n THEN 1 ELSE 0) - (IF k = own THEN 1 ELSE 0)
  BY <1>2, AssignFacts
<1>. HIDE DEF n, own
<1>4. OpenerCounts' = [k \in Names |-> OpenerCounts[k]
                + (IF k = n THEN 1 ELSE 0) - (IF k = own THEN 1 ELSE 0)]
  <2>1. open_counts_' \in [Names -> Nat]
    BY DEF IInv, Tables
  <2>. QED
    BY <1>3, <2>1, CountsAre
<1>6. UNCHANGED FileContents
  BY <1>2, SameMap
<1>7. Blobs!Reassign(own, n)
  BY <1>1, <1>2, <1>4, <1>6, CountsAre DEF Blobs!Reassign, Blobs!Return
<1>. QED
  BY <1>1, <1>7 DEF Blobs!Next

LEMMA DestroyStep ==
    ASSUME IInv, IInv', NEW o \in Live, Destroy(o)
    PROVE  Blobs!Next
<1> DEFINE own == objs[o].name
<1>1. own \in Names /\ open_counts_[own] \in Nat \ {0}
  BY LiveIs
<1>2. /\ open_counts_' = CountsClosed(own)
      /\ open_streams_' = StreamsClosed(own)
      /\ failed' = FailedClosed(o) /\ forfeited' = ForfeitedClosed(own)
      /\ disk' = disk /\ got' = Nothing /\ thrown' = "none"
  BY DEF Destroy, Return
<1>. HIDE DEF own
<1>4. OpenerCounts' = [OpenerCounts EXCEPT ![own] = @ - 1]
  BY <1>1, <1>2, CountsAre DEF CountsClosed, CountLeft
<1>6. UNCHANGED FileContents
  BY <1>2, SameMap
<1>7. Blobs!Close(own)
  BY <1>1, <1>2, <1>4, <1>6, CountsAre DEF Blobs!Close, Blobs!Return
<1>. QED
  BY <1>1, <1>7 DEF Blobs!Next

LEMMA RemoveStep ==
    ASSUME IInv, IInv', NEW n \in Names, Remove(n)
    PROVE  Blobs!Next
<1>1. FileContents[n] # NoFile /\ OpenerCounts[n] = 0
  BY ThereIs, CountsAre DEF Remove, isOpen, exists
<1>2. FileContents' = [FileContents EXCEPT ![n] = NoFile]
  BY FilesAre DEF Remove, IInv, DiskInv
<1>3. Blobs!Remove(n)
  BY <1>1, <1>2, SameMap DEF Remove, Return, tables, Blobs!Remove, Blobs!Return
<1>. QED
  BY <1>3 DEF Blobs!Next

(* An object's file in BlobStore.                                          *)
LEMMA LiveMap ==
    ASSUME IInv, NEW o \in Live
    PROVE  /\ OpenerCounts[objs[o].name] > 0
           /\ FileContents[objs[o].name] = Counted(FileOf(o))
  BY LiveIs, CountsAre, ThereIs DEF FileOf

(* Only where a page that is not there was asked for has a stream failed.  *)
LEMMA FailedIs ==
    ASSUME IInv, NEW o \in Live, Failed(o)
    PROVE  objs[o].name \in forfeited
<1>1. /\ objs[o].name \in Names /\ open_streams_[objs[o].name] \in failed
      /\ open_streams_[objs[o].name] # 0
  BY LiveIs, StreamsType DEF Failed
<1>2. PICK n \in forfeited : open_streams_[n] = open_streams_[objs[o].name]
  BY <1>1 DEF IInv, FailedForfeited
<1>3. n \in Names
  BY DEF IInv, FailedForfeited
<1>. QED
  BY <1>1, <1>2, <1>3 DEF IInv, Tables

LEMMA AllocatePageStep ==
    ASSUME IInv, IInv', NEW o \in Live, AllocatePage(o)
    PROVE  Blobs!Next \/ Forfeited
<1> DEFINE own == objs[o].name
<1>1. PICK n \in {h.num_pages : h \in readHeader(o)} :
        /\ n <= MaxPage
        /\ disk' = IF Failed(o) THEN disk
                   ELSE [disk EXCEPT ![own] = Grown(@, n)]
        /\ got' = [name |-> own, page |-> n, content |-> Blank] /\ thrown' = "none"
        /\ UNCHANGED <<tables, failed, forfeited>>
  BY DEF AllocatePage, Return, Grown, Page
<1>2. own \in Names /\ disk[own] # NoFile
  BY LiveIs
<1>3. /\ FileOf(o) = disk[own] /\ FileOf(o) \in File /\ PagesWritten(FileOf(o))
  BY FileIs
<1>4. OpenerCounts[own] > 0 /\ FileContents[own] = Counted(FileOf(o))
  BY LiveMap
<1>5. UNCHANGED OpenerCounts
  BY <1>1, SameMap DEF tables
<1>. HIDE DEF own
<1>6. CASE Failed(o)
  <2>1. UNCHANGED FileContents
    BY <1>1, <1>6, SameMap
  <2>2. own \in forfeited'
    BY <1>1, <1>6, FailedIs DEF own
  <2>. QED
    BY <1>5, <2>1, <2>2 DEF Forfeited, own
<1>7. CASE ~Failed(o)
  <2> DEFINE g == Grown(FileOf(o), n)
  <2>1. n = FileOf(o).header.num_pages
    BY <1>1, <1>7 DEF readHeader
  <2>2. disk' = [disk EXCEPT ![own] = g]
    BY <1>1, <1>3, <1>7
  <2>3. g \in File /\ PagesWritten(g)
    BY <1>1, <1>3, <2>1, GrownIs
  <2>4. g.header.num_pages = n + 1 /\ g.pages = Put(FileOf(o).pages, n, Blank)
    BY DEF Grown
  <2>5. /\ FileOf(o).pages \in Seq(Data) /\ n \in 1 .. Len(FileOf(o).pages) + 1
    BY <1>3, <2>1 DEF File, PagesWritten
  <2>6. \A i \in 1 .. Len(g.pages) : g.pages[i] = IF i = n THEN Blank
            ELSE IF i <= Len(FileOf(o).pages) THEN FileOf(o).pages[i] ELSE Blank
    <3>1. \A q \in Seq(Data), k \in Nat : \A i \in 1 .. Len(Put(q, k, Blank)) :
            Put(q, k, Blank)[i] =
              IF i = k THEN Blank ELSE IF i <= Len(q) THEN q[i] ELSE Blank
      BY PutIs
    <3>. QED
      BY <2>4, <2>5, <3>1
  <2>7. /\ Counted(g) \in Seq(Data) /\ Len(Counted(g)) = n
        /\ \A p \in 1 .. n : p \in 1 .. Len(g.pages) /\ Counted(g)[p] = g.pages[p]
    <3>. HIDE DEF g
    <3>1. g.header.num_pages - 1 = n
      BY <2>4, <2>5
    <3>2. /\ Counted(g) \in Seq(Data) /\ Len(Counted(g)) = g.header.num_pages - 1
          /\ \A p \in 1 .. g.header.num_pages - 1 :
               p \in 1 .. Len(g.pages) /\ Counted(g)[p] = g.pages[p]
      BY <2>3, CountedIs
    <3>. QED
      BY <3>1, <3>2
  <2>8. /\ Counted(FileOf(o)) \in Seq(Data) /\ Len(Counted(FileOf(o))) = n - 1
        /\ \A p \in 1 .. n - 1 : p \in 1 .. Len(FileOf(o).pages)
               /\ Counted(FileOf(o))[p] = FileOf(o).pages[p]
    BY <1>3, <2>1, CountedIs
  <2>9. Counted(g) = Append(Counted(FileOf(o)), Blank)
    <3>. HIDE DEF g
    <3>1. /\ Append(Counted(FileOf(o)), Blank) \in Seq(Data)
          /\ Len(Append(Counted(FileOf(o)), Blank)) = n
          /\ \A p \in 1 .. n : Append(Counted(FileOf(o)), Blank)[p] =
               IF p = n THEN Blank ELSE Counted(FileOf(o))[p]
      BY <2>5, <2>8
    <3>2. \A p \in 1 .. n : Counted(g)[p] = Append(Counted(FileOf(o)), Blank)[p]
      BY <2>5, <2>6, <2>7, <2>8, <3>1
    <3>. QED
      BY <2>7, <3>1, <3>2
  <2>10. FileContents' = [FileContents EXCEPT ![own] = Append(@, Blank)]
    <3>. HIDE DEF g
    <3>. QED
      BY <1>2, <1>3, <1>4, <2>2, <2>3, <2>9, FilesAre DEF File, IInv, DiskInv
  <2>11. Blobs!Allocate(own)
    BY <1>1, <1>4, <1>5, <1>7, <2>5, <2>8, <2>10 DEF Blobs!Allocate, Blobs!Return
  <2>. QED
    BY <1>2, <2>11 DEF Blobs!Next
<1>. QED
  BY <1>6, <1>7

LEMMA WritePageStep ==
    ASSUME IInv, IInv', NEW o \in Live, NEW p \in PageIds, NEW d \in Data,
           WritePage(o, p, d)
    PROVE  Blobs!Next \/ Forfeited
<1> DEFINE own == objs[o].name
           g == [FileOf(o) EXCEPT !.pages = Put(@, p, d)]
<1>1. /\ disk' = IF Failed(o) THEN disk ELSE [disk EXCEPT ![own] = g]
      /\ got' = Nothing /\ thrown' = "none" /\ UNCHANGED <<tables, failed, forfeited>>
  BY DEF WritePage, Return, FileOf
<1>2. own \in Names /\ disk[own] # NoFile
  BY LiveIs
<1>3. /\ FileOf(o) = disk[own] /\ FileOf(o) \in File /\ PagesWritten(FileOf(o))
      /\ FileOf(o).pages \in Seq(Data) /\ p \in 1 .. MaxPage
      /\ FileOf(o).header.num_pages \in 1 .. Len(FileOf(o).pages) + 1
      /\ Len(FileOf(o).pages) <= MaxPage
  BY FileIs DEF File, PagesWritten, WritePage
<1>4. OpenerCounts[own] > 0 /\ FileContents[own] = Counted(FileOf(o))
  BY LiveMap
<1>5. UNCHANGED OpenerCounts
  BY <1>1, SameMap DEF tables
<1>6. /\ Put(FileOf(o).pages, p, d) \in Seq(Data)
      /\ Len(Put(FileOf(o).pages, p, d)) =
           IF Len(FileOf(o).pages) < p THEN p ELSE Len(FileOf(o).pages)
      /\ \A i \in 1 .. Len(Put(FileOf(o).pages, p, d)) :
           Put(FileOf(o).pages, p, d)[i] =
             IF i = p THEN d ELSE IF i <= Len(FileOf(o).pages)
                                  THEN FileOf(o).pages[i] ELSE Blank
  <2>1. p \in Nat /\ FileOf(o).pages \in Seq(Data)
    BY <1>3
  <2>2. \A q \in Seq(Data), k \in Nat :
          /\ Put(q, k, d) \in Seq(Data)
          /\ Len(Put(q, k, d)) = IF Len(q) < k THEN k ELSE Len(q)
    BY PutIs
  <2>3. \A q \in Seq(Data), k \in Nat :
          \A i \in 1 .. Len(Put(q, k, d)) : Put(q, k, d)[i] =
               IF i = k THEN d ELSE IF i <= Len(q) THEN q[i] ELSE Blank
    BY PutIs
  <2>. QED
    BY <2>1, <2>2, <2>3
<1>7. /\ g \in File /\ g.pages = Put(FileOf(o).pages, p, d)
      /\ g.header = FileOf(o).header /\ PagesWritten(g)
  BY <1>3, <1>6 DEF File, PagesWritten
<1>. HIDE DEF own, g
<1>8. /\ Counted(FileOf(o)) \in [1 .. FileOf(o).header.num_pages - 1 -> Data]
      /\ Len(Counted(FileOf(o))) = FileOf(o).header.num_pages - 1
      /\ \A i \in 1 .. FileOf(o).header.num_pages - 1 :
           i \in 1 .. Len(FileOf(o).pages) /\ Counted(FileOf(o))[i] = FileOf(o).pages[i]
  BY <1>3, CountedIs
<1>9. /\ Counted(g) \in [1 .. FileOf(o).header.num_pages - 1 -> Data]
      /\ \A i \in 1 .. FileOf(o).header.num_pages - 1 :
           i \in 1 .. Len(g.pages) /\ Counted(g)[i] = g.pages[i]
  BY <1>7, CountedIs
<1>put. ASSUME NEW i \in 1 .. FileOf(o).header.num_pages - 1
       PROVE  g.pages[i] = IF i = p THEN d ELSE FileOf(o).pages[i]
  <2>1. i \in 1 .. Len(FileOf(o).pages) /\ i \in 1 .. Len(g.pages)
    BY <1>8, <1>9
  <2>2. i <= Len(FileOf(o).pages)
    BY <2>1
  <2>3. i \in 1 .. Len(Put(FileOf(o).pages, p, d))
    BY <1>7, <2>1
  <2>. QED
    BY <1>6, <1>7, <2>2, <2>3
<1>10. CASE ~Failed(o) /\ p < FileOf(o).header.num_pages
  <2>1. Counted(g) = [Counted(FileOf(o)) EXCEPT ![p] = d]
    <3>1. \A i \in 1 .. FileOf(o).header.num_pages - 1 :
            Counted(g)[i] = IF i = p THEN d ELSE Counted(FileOf(o))[i]
      BY <1>8, <1>9, <1>put
    <3>. QED
      BY <1>3, <1>8, <1>9, <1>10, <3>1
  <2>2. FileContents' = [FileContents EXCEPT ![own] = Counted(g)]
    BY <1>1, <1>2, <1>7, <1>10, FilesAre DEF File, IInv, DiskInv
  <2>3. FileContents' = [FileContents EXCEPT ![own][p] = d]
    BY <1>4, <2>1, <2>2
  <2>4. p \in 1 .. Len(FileContents[own])
    BY <1>3, <1>4, <1>8, <1>10
  <2>5. Blobs!Write(own, p, d)
    BY <1>1, <1>4, <1>5, <1>10, <2>3, <2>4 DEF Blobs!Write, Blobs!Has, Blobs!Return
  <2>. QED
    BY <1>2, <2>5 DEF Blobs!Next
<1>11. CASE Failed(o) \/ ~ (p < FileOf(o).header.num_pages)
  <2>1. CASE Failed(o)
    <3>1. own \in forfeited'
      BY <1>1, <2>1, FailedIs DEF own
    <3>2. UNCHANGED FileContents
      BY <1>1, <2>1, SameMap
    <3>. QED
      BY <1>5, <3>1, <3>2 DEF Forfeited, own
  <2>2. CASE ~Failed(o) /\ ~ (p < FileOf(o).header.num_pages)
    <3>1. ASSUME NEW i \in 1 .. FileOf(o).header.num_pages - 1
          PROVE  Counted(g)[i] = Counted(FileOf(o))[i]
      <4>1. i # p /\ i \in 1 .. Len(FileOf(o).pages)
        BY <1>3, <2>2
      <4>. QED
        BY <1>8, <1>9, <1>put, <4>1
    <3>2. Counted(g) = Counted(FileOf(o))
      BY <1>8, <1>9, <3>1
    <3>3. FileContents' = FileContents
      BY <1>1, <1>2, <1>3, <1>7, <2>2, <3>2, FilesAre DEF File, IInv, DiskInv
    <3>4. p \notin 1 .. Len(FileContents[own])
      BY <1>3, <1>4, <1>8, <2>2
    <3>5. Blobs!Write(own, p, d)
      BY <1>1, <1>4, <1>5, <3>3, <3>4 DEF Blobs!Write, Blobs!Has, Blobs!Return
    <3>. QED
      BY <1>2, <3>5 DEF Blobs!Next
  <2>. QED
    BY <1>11, <2>1, <2>2
<1>. QED
  BY <1>10, <1>11

LEMMA ReadPageStep ==
    ASSUME IInv, IInv', NEW o \in Live, NEW p \in PageIds, ReadPage(o, p)
    PROVE  Blobs!Next \/ Forfeited
<1> DEFINE own == objs[o].name
           there == ~Failed(o) /\ p \in DOMAIN FileOf(o).pages
           d == IF there THEN FileOf(o).pages[p] ELSE Blank
<1>1. /\ got' = [name |-> own, page |-> p, content |-> d] /\ thrown' = "none"
      /\ forfeited' = IF p \in Allocated(o) THEN forfeited ELSE forfeited \cup {own}
      /\ UNCHANGED <<tables, disk>>
  BY DEF ReadPage, Return, Page
<1>2. own \in Names
  BY LiveIs
<1>3. /\ FileOf(o) \in File /\ PagesWritten(FileOf(o)) /\ FileOf(o).pages \in Seq(Data)
      /\ FileOf(o).header.num_pages \in 1 .. Len(FileOf(o).pages) + 1
  BY FileIs DEF File, PagesWritten
<1>4. OpenerCounts[own] > 0 /\ FileContents[own] = Counted(FileOf(o))
  BY LiveMap
<1>5. UNCHANGED <<FileContents, OpenerCounts>>
  BY <1>1, SameMap DEF tables
<1>6. CASE own \in forfeited'
  BY <1>5, <1>6 DEF Forfeited, own
<1>7. CASE own \notin forfeited'
  <2>1. p \in 1 .. FileOf(o).header.num_pages - 1 /\ own \notin forfeited
    BY <1>1, <1>7 DEF Allocated
  <2>2. /\ Len(Counted(FileOf(o))) = FileOf(o).header.num_pages - 1
        /\ p \in 1 .. Len(FileOf(o).pages)
        /\ Counted(FileOf(o))[p] = FileOf(o).pages[p]
    BY <1>3, <2>1, CountedIs
  <2>3. ~Failed(o)
    BY <2>1, FailedIs
  <2>4. p \in 1 .. Len(FileContents[own]) /\ FileContents[own][p] = d
    BY <1>3, <1>4, <2>1, <2>2, <2>3
  <2>. HIDE DEF d
  <2>5. Blobs!Read(own, p)
    BY <1>1, <1>4, <1>5, <2>4 DEF Blobs!Read, Blobs!Has, Blobs!Return
  <2>. QED
    BY <1>2, <2>5 DEF Blobs!Next
<1>. QED
  BY <1>6, <1>7

LEMMA GetFirstPageStep ==
    ASSUME IInv, IInv', NEW o \in Live, GetFirstPage(o)
    PROVE  Blobs!Next \/ Forfeited
<1>1. PICK h \in readHeader(o) : ReadPage(o, h.first_used_page)
  BY DEF GetFirstPage
<1>2. h \in FileHeader
  BY <1>1, FileIs DEF readHeader, File
<1>3. h.first_used_page \in PageIds
  BY <1>2 DEF FileHeader
<1>. QED
  BY <1>1, <1>3, ReadPageStep

Kept == Blobs!Next \/ CreatedOver \/ Forfeited

LEMMA NextStep == IInv /\ IInv' /\ [Next]_vars => [Kept]_(Blobs!storeVars)
<1>. SUFFICES ASSUME IInv, IInv', [Next]_vars PROVE [Kept]_(Blobs!storeVars)
  OBVIOUS
<1>1. ASSUME NEW n \in Names, OpenRefused(n) \/ CreateRefused(n) \/ RemoveRefused(n)
      PROVE  Kept
  <2>1. FileContents[n] = NoFile <=> ~exists(n)
    BY ThereIs DEF exists
  <2>2. isOpen(n) => OpenerCounts[n] > 0
    BY CountsAre DEF isOpen, IInv, Tables
  <2>3. CASE OpenRefused(n)
    BY <2>1, <2>3, RefusedStep DEF OpenRefused, Kept
  <2>4. CASE CreateRefused(n)
    BY <2>1, <2>4, RefusedStep DEF CreateRefused, Kept
  <2>5. CASE RemoveRefused(n)
    BY <2>1, <2>2, <2>5, RefusedStep DEF RemoveRefused, Kept
  <2>. QED
    BY <1>1, <2>3, <2>4, <2>5
<1>2. ASSUME NEW o \in Live, DeletePage(o) PROVE Kept
  BY <1>2, LiveIs, LiveMap, RefusedStep DEF DeletePage, Kept
<1>3. CASE UNCHANGED vars
  BY <1>3, SameMap DEF vars, tables, Blobs!storeVars
<1>4. ASSUME NEW o \in Live,
             \/ Destroy(o) \/ GetFirstPage(o) \/ AllocatePage(o)
             \/ \E src \in Live : Assign(o, src)
             \/ \E p \in PageIds :
                  ReadPage(o, p) \/ \E d \in Data : WritePage(o, p, d)
      PROVE  Kept
  BY <1>4, AssignStep, DestroyStep, AllocatePageStep, ReadPageStep, WritePageStep,
     GetFirstPageStep DEF Kept
<1>5. ASSUME NEW o \in Clients, NEW n \in Names, Open(o, n) \/ Create(o, n)
      PROVE  Kept
  BY <1>5, OpenStep, CreateStep DEF Kept
<1>6. ASSUME NEW o \in Clients, NEW src \in Live, Copy(o, src) PROVE Kept
  BY <1>6, CopyStep DEF Kept
<1>7. ASSUME NEW n \in Names, Remove(n) PROVE Kept
  BY <1>7, RemoveStep DEF Kept
<1>. QED
  BY <1>1, <1>2, <1>3, <1>4, <1>5, <1>6, <1>7 DEF Next, FileStep

LEMMA StoreInit == Init => Blobs!Init
<1>. SUFFICES ASSUME Init PROVE Blobs!Init
  OBVIOUS
<1>1. FileContents = [n \in Names |-> NoFile]
  BY FilesAre DEF Init
<1>2. OpenerCounts = [n \in Names |-> 0]
  BY InitInv, CountsAre DEF Init
<1>. QED
  BY <1>1, <1>2 DEF Init, Blobs!Init

(* BlobFiles keep what file.h promises whoever has them open, with any     *)
(* other step than a creation over an open file and what follows from a    *)
(* read of a page that the file does not have.                             *)
THEOREM PromisesKeptOtherwise == Spec => BlobSpec
<1>1. IInv /\ IInv' /\ [Next]_vars =>
        [Blobs!Next \/ CreatedOver \/ Forfeited]_(Blobs!storeVars)
  BY NextStep DEF Kept
<1>. QED
  BY <1>1, StoreInit, Inductive, PTL DEF Spec, BlobSpec
=============================================================================
