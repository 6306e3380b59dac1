------------------------- MODULE FileHandlesProofs -------------------------
(***************************************************************************)
(* Proofs about FileHandles for any number of objects, names and streams:  *)
(* the shared counts and streams are exact, and clearing a frame works     *)
(* because the count of the empty name stays below zero.                   *)
(***************************************************************************)
EXTENDS FileHandles, FiniteSetTheorems, TLAPS

USE MaxDriftAssumption, NamesAssumption, StreamsAssumption, ObjectsAssumption,
    NoEntryAssumption, GoneAssumption

AllNames == Names \cup {NoName}

OpenersIn(f, n) == {o \in Objects : f[o] # Gone /\ f[o].name = n}

(* What HandlesExact says of objects, counts and streams, of any three     *)
(* tables, those between the two halves of operator= among them; and the   *)
(* empty name, which nobody opens, has no stream.                          *)
Tables(f, counts, streams) ==
    /\ f \in [Objects -> Handle \cup {Gone}]
    /\ counts \in [AllNames -> Int \cup {NoEntry}]
    /\ streams \in [AllNames -> Streams \cup {Null}]
    /\ streams[NoName] = Null
    /\ \A n \in Names : counts[n] = IF OpenersIn(f, n) = {} THEN NoEntry
                                    ELSE Cardinality(OpenersIn(f, n))
    /\ \A n \in Names : streams[n] = Null <=> OpenersIn(f, n) = {}
    /\ \A o \in Objects : f[o] # Gone =>
         f[o].stream = streams[f[o].name] /\ (f[o].valid <=> f[o].name # NoName)
    /\ \A m, n \in Names : streams[m] = streams[n] => m = n \/ streams[n] = Null

(* A file that an object has open is there.                                *)
FilesThere ==
    \A o \in Objects : objs[o] # Gone /\ objs[o].name # NoName =>
        disk[objs[o].name] # "absent"

DriftInv == open_counts_[NoName] \in {NoEntry} \cup -MaxDrift .. MaxDrift

(* As long as no default File was copied or assigned, its name has an      *)
(* entry, made by the frames' descriptors, and closing only lowers it.     *)
EmptyInv ==
    ~emptyShared /\ Descriptors # {} =>
        open_counts_[NoName] # NoEntry /\ open_counts_[NoName] < 0

Disks == [Names -> {"absent", "header", "pages"}]

Exceptions == {"none", "FileNotFound", "FileExists", "FileOpen"}

IInv ==
    /\ Tables(objs, open_counts_, open_streams_)
    /\ FilesThere
    /\ DriftInv
    /\ EmptyInv
    /\ disk \in Disks
    /\ emptyShared \in BOOLEAN
    /\ thrown \in Exceptions

-----------------------------------------------------------------------------
(* Openers and their number.                                               *)

LEMMA OpenersCount ==
    ASSUME NEW f, NEW n
    PROVE  /\ IsFiniteSet(OpenersIn(f, n))
           /\ Cardinality(OpenersIn(f, n)) \in 0 .. Cardinality(Objects)
           /\ Cardinality(OpenersIn(f, n)) = 0 <=> OpenersIn(f, n) = {}
<1>1. OpenersIn(f, n) \in SUBSET Objects
  BY DEF OpenersIn
<1>2. /\ IsFiniteSet(OpenersIn(f, n))
      /\ Cardinality(OpenersIn(f, n)) <= Cardinality(Objects)
  BY <1>1, FS_Subset
<1>. QED
  BY <1>2, FS_CardinalityType, FS_EmptySet

(* One object changes hands.                                               *)
LEMMA OpenersChanged ==
    ASSUME NEW f, NEW g, NEW o \in Objects,
           \A x \in Objects \ {o} : g[x] = f[x], NEW n
    PROVE  OpenersIn(g, n) = IF g[o] # Gone /\ g[o].name = n
                             THEN OpenersIn(f, n) \cup {o}
                             ELSE OpenersIn(f, n) \ {o}
  BY DEF OpenersIn

(* There is always a stream for one object more.                           *)
LEMMA NewStreamIs ==
    ASSUME NEW o \in Objects
    PROVE  /\ NewStream(o) \in Streams
           /\ \A x \in Objects \ {o} : objs[x] # Gone => objs[x].stream # NewStream(o)
<1> DEFINE T == {s \in Streams : \E x \in Live \ {o} : objs[x].stream = s}
           holder == [s \in T |-> CHOOSE x \in Live \ {o} : objs[x].stream = s]
<1>1. \A s \in T : holder[s] \in Objects /\ objs[holder[s]].stream = s
  BY DEF Live
<1>2. holder \in Injection(T, Objects)
  <2>1. holder \in [T -> Objects]
    BY <1>1
  <2>. HIDE DEF holder
  <2>2. \A s, t \in T : holder[s] = holder[t] => s = t
    BY <1>1
  <2>. QED
    BY <2>1, <2>2 DEF Injection, IsInjective
<1>3. IsFiniteSet(T) /\ Cardinality(T) <= Cardinality(Objects)
  <2>. HIDE DEF holder
  <2>. QED
    BY <1>2, FS_Injection
<1>4. Cardinality(T) \in Nat /\ Cardinality(Objects) \in Nat
  BY <1>3, FS_CardinalityType
<1>5. T # Streams
  BY <1>3, <1>4
<1>6. \E new \in Streams : \A x \in Live \ {o} : objs[x].stream # new
  BY <1>5
<1>7. /\ NewStream(o) \in Streams
      /\ \A x \in Live \ {o} : objs[x].stream # NewStream(o)
  BY <1>6 DEF NewStream
<1>. QED
  BY <1>7 DEF Live

-----------------------------------------------------------------------------
(* The ways the tables change.                                             *)

(* An object joins those of a file, or of the empty name, whose count can  *)
(* be anything.                                                            *)
LEMMA JoinTables ==
    ASSUME NEW f, NEW counts, NEW streams, Tables(f, counts, streams),
           NEW o \in Objects, f[o] = Gone, NEW n \in AllNames, NEW k \in Int,
           n # NoName => counts[n] # NoEntry /\ k = counts[n] + 1,
           NEW v \in BOOLEAN, v <=> n # NoName
    PROVE  Tables([f EXCEPT ![o] = [name |-> n, stream |-> streams[n], valid |-> v]],
                  [counts EXCEPT ![n] = k], streams)
<1> DEFINE h == [name |-> n, stream |-> streams[n], valid |-> v]
           g == [f EXCEPT ![o] = h]
           c == [counts EXCEPT ![n] = k]
<1>1. streams[n] \in Streams \cup {Null}
  BY DEF Tables
<1>2. h \in Handle /\ h # Gone /\ h.name = n /\ h.stream = streams[n] /\ h.valid = v
  <2>1. h \in Handle
    BY <1>1 DEF Handle, AllNames
  <2>. QED
    BY <2>1
<1>. HIDE DEF h
<1>3. g \in [Objects -> Handle \cup {Gone}]
  BY <1>2 DEF Tables
<1>4. \A m \in AllNames : OpenersIn(g, m) = IF m = n THEN OpenersIn(f, m) \cup {o}
                                                    ELSE OpenersIn(f, m)
  <2>1. g[o] = h /\ \A x \in Objects \ {o} : g[x] = f[x]
    BY DEF Tables
  <2>. HIDE DEF g
  <2>2. \A m \in AllNames : OpenersIn(g, m) =
          IF g[o] # Gone /\ g[o].name = m THEN OpenersIn(f, m) \cup {o}
                                         ELSE OpenersIn(f, m) \ {o}
    BY <2>1 DEF OpenersIn
  <2>3. \A m \in AllNames : OpenersIn(f, m) \ {o} = OpenersIn(f, m)
    BY DEF OpenersIn
  <2>. QED
    BY <1>2, <2>1, <2>2, <2>3
<1>5. c \in [AllNames -> Int \cup {NoEntry}]
  BY DEF Tables
<1>6. \A m \in Names : c[m] = IF OpenersIn(g, m) = {} THEN NoEntry
                              ELSE Cardinality(OpenersIn(g, m))
  <2>. SUFFICES ASSUME NEW m \in Names
                PROVE  c[m] = IF OpenersIn(g, m) = {} THEN NoEntry
                              ELSE Cardinality(OpenersIn(g, m))
    OBVIOUS
  <2>1. CASE m = n
    <3>1. o \notin OpenersIn(f, n)
      BY DEF OpenersIn
    <3>2. Cardinality(OpenersIn(f, n) \cup {o}) = Cardinality(OpenersIn(f, n)) + 1
      BY <3>1, OpenersCount, FS_AddElement
    <3>3. counts[n] = Cardinality(OpenersIn(f, n)) /\ k = counts[n] + 1 /\ c[n] = k
      BY <2>1 DEF Tables
    <3>. QED
      BY <1>4, <2>1, <3>2, <3>3 DEF AllNames
  <2>2. CASE m # n
    BY <1>4, <2>2 DEF Tables, AllNames
  <2>. QED
    BY <2>1, <2>2
<1>7. \A m \in Names : streams[m] = Null <=> OpenersIn(g, m) = {}
  <2>1. n \in Names => OpenersIn(f, n) # {}
    BY DEF Tables
  <2>. HIDE DEF g
  <2>. QED
    BY <1>4, <2>1 DEF Tables, AllNames
<1>8. \A x \in Objects : g[x] # Gone =>
        g[x].stream = streams[g[x].name] /\ (g[x].valid <=> g[x].name # NoName)
  BY <1>2 DEF Tables
<1>. QED
  <2>. HIDE DEF g, c
  <2>1. Tables(g, c, streams)
    BY <1>3, <1>5, <1>6, <1>7, <1>8 DEF Tables
  <2>. QED
    BY <2>1 DEF g, h, c

LEMMA OpenTables ==
    ASSUME NEW f, NEW counts, NEW streams, Tables(f, counts, streams),
           NEW o \in Objects, f[o] = Gone, NEW n \in Names, counts[n] = NoEntry,
           NEW s \in Streams,
           \A x \in Objects : f[x] # Gone => f[x].stream # s
    PROVE  Tables([f EXCEPT ![o] = [name |-> n, stream |-> s, valid |-> TRUE]],
                  [counts EXCEPT ![n] = 1], [streams EXCEPT ![n] = s])
<1> DEFINE h == [name |-> n, stream |-> s, valid |-> TRUE]
           g == [f EXCEPT ![o] = h]
           c == [counts EXCEPT ![n] = 1]
           t == [streams EXCEPT ![n] = s]
<1>1. s # Null /\ OpenersIn(f, n) = {} /\ streams[n] = Null
  <2>1. Cardinality(OpenersIn(f, n)) # NoEntry
    BY OpenersCount
  <2>. QED
    BY <2>1 DEF Tables
<1>2. h \in Handle /\ h # Gone /\ h.name = n /\ h.stream = s /\ h.valid = TRUE
  <2>1. h \in Handle
    BY DEF Handle
  <2>. QED
    BY <2>1
<1>3. \A m \in Names : streams[m] # s
  <2>. SUFFICES ASSUME NEW m \in Names, streams[m] = s PROVE FALSE
    OBVIOUS
  <2>1. PICK x \in Objects : f[x] # Gone /\ f[x].name = m
    BY <1>1 DEF Tables, OpenersIn
  <2>. QED
    BY <2>1 DEF Tables
<1>. HIDE DEF h
<1>4. g \in [Objects -> Handle \cup {Gone}]
  BY <1>2 DEF Tables
<1>5. \A m \in Names : OpenersIn(g, m) = IF m = n THEN {o} ELSE OpenersIn(f, m)
  <2>1. g[o] = h /\ \A x \in Objects \ {o} : g[x] = f[x]
    BY DEF Tables
  <2>. HIDE DEF g
  <2>2. \A m \in Names : OpenersIn(g, m) =
          IF g[o] # Gone /\ g[o].name = m THEN OpenersIn(f, m) \cup {o}
                                         ELSE OpenersIn(f, m) \ {o}
    BY <2>1 DEF OpenersIn
  <2>3. \A m \in Names : OpenersIn(f, m) \ {o} = OpenersIn(f, m)
    BY DEF OpenersIn
  <2>. QED
    BY <1>1, <1>2, <2>1, <2>2, <2>3
<1>6. /\ c \in [AllNames -> Int \cup {NoEntry}]
      /\ t \in [AllNames -> Streams \cup {Null}] /\ t[NoName] = Null
  <2>1. n # NoName /\ NoName \in AllNames
    BY DEF AllNames
  <2>2. c \in [AllNames -> Int \cup {NoEntry}]
    <3>1. counts \in [AllNames -> Int \cup {NoEntry}]
      BY DEF Tables
    <3>2. 1 \in Int \cup {NoEntry}
      OBVIOUS
    <3>. QED
      BY <3>1, <3>2
  <2>3. t \in [AllNames -> Streams \cup {Null}]
    BY DEF Tables
  <2>. QED
    BY <2>1, <2>2, <2>3 DEF Tables
<1>7. \A m \in Names : c[m] = IF OpenersIn(g, m) = {} THEN NoEntry
                              ELSE Cardinality(OpenersIn(g, m))
  <2>1. \A m \in Names : c[m] = IF m = n THEN 1 ELSE counts[m]
    BY DEF Tables, AllNames
  <2>2. Cardinality({o}) = 1 /\ {o} # {}
    BY FS_Singleton
  <2>. HIDE DEF c, g
  <2>. QED
    BY <1>5, <2>1, <2>2 DEF Tables
<1>8. \A m \in Names : t[m] = IF m = n THEN s ELSE streams[m]
  BY DEF Tables, AllNames
<1>9. \A x \in Objects : g[x] # Gone =>
        g[x].stream = t[g[x].name] /\ (g[x].valid <=> g[x].name # NoName)
  <2>. SUFFICES ASSUME NEW x \in Objects, g[x] # Gone
                PROVE  g[x].stream = t[g[x].name] /\ (g[x].valid <=> g[x].name # NoName)
    OBVIOUS
  <2>1. CASE x = o
    BY <1>2, <1>8, <2>1 DEF Tables
  <2>2. CASE x # o
    <3>1. g[x] = f[x]
      BY <2>2 DEF Tables
    <3>2. x \notin OpenersIn(f, n) /\ f[x] \in Handle
      BY <1>1, <3>1 DEF Tables
    <3>3. f[x].name # n /\ f[x].name \in AllNames
      BY <3>1, <3>2 DEF OpenersIn, Handle, AllNames
    <3>4. t[f[x].name] = streams[f[x].name]
      BY <3>3 DEF Tables
    <3>. QED
      BY <3>1, <3>4 DEF Tables
  <2>. QED
    BY <2>1, <2>2
<1>. HIDE DEF t, c, g
<1>10. \A m \in Names : t[m] = Null <=> OpenersIn(g, m) = {}
  BY <1>1, <1>5, <1>8 DEF Tables
<1>11. \A l, m \in Names : t[l] = t[m] => l = m \/ t[m] = Null
  BY <1>3, <1>8 DEF Tables
<1>12. Tables(g, c, t)
  BY <1>4, <1>6, <1>7, <1>9, <1>10, <1>11 DEF Tables
<1>. QED
  BY <1>12 DEF g, h, c, t

(* A default File comes to be, and the empty name is counted anyhow.       *)
LEMMA DefaultTables ==
    ASSUME NEW f, NEW counts, NEW streams, Tables(f, counts, streams),
           NEW o \in Objects, f[o] = Gone,
           NEW c \in [AllNames -> Int \cup {NoEntry}],
           \A n \in Names : c[n] = counts[n]
    PROVE  Tables([f EXCEPT ![o] = DefaultFile], c, streams)
<1> DEFINE g == [f EXCEPT ![o] = DefaultFile]
<1>1. /\ DefaultFile \in Handle /\ DefaultFile # Gone /\ DefaultFile.name = NoName
      /\ DefaultFile.stream = Null /\ DefaultFile.valid = FALSE
  <2>1. DefaultFile \in Handle
    BY DEF Handle, DefaultFile
  <2>. QED
    BY <2>1 DEF DefaultFile
<1>2. /\ g \in [Objects -> Handle \cup {Gone}] /\ g[o] = DefaultFile
      /\ \A x \in Objects \ {o} : g[x] = f[x]
  BY <1>1 DEF Tables
<1>. HIDE DEF g
<1>3. \A m \in Names : OpenersIn(g, m) = OpenersIn(f, m)
  BY <1>1, <1>2 DEF OpenersIn
<1>4. \A x \in Objects : g[x] # Gone =>
        g[x].stream = streams[g[x].name] /\ (g[x].valid <=> g[x].name # NoName)
  BY <1>1, <1>2 DEF Tables
<1>5. Tables(g, c, streams)
  BY <1>2, <1>3, <1>4 DEF Tables
<1>. QED
  BY <1>5 DEF g

(* close().                                                                *)
LEMMA CloseTables ==
    ASSUME Tables(objs, open_counts_, open_streams_), NEW o \in Live,
           NEW n, n = objs[o].name
    PROVE  /\ Tables([objs EXCEPT ![o] = Gone], CountsClosed(n), StreamsClosed(n))
           /\ o \in Objects /\ n \in AllNames
           /\ \A m \in AllNames \ {n} : CountsClosed(n)[m] = open_counts_[m]
           /\ CountsClosed(n)[n] = CountLeft(n)
           /\ \A x \in Objects \ {o} : [objs EXCEPT ![o] = Gone][x] = objs[x]
<1> DEFINE g == [objs EXCEPT ![o] = Gone]
           c == CountsClosed(n)
           t == StreamsClosed(n)
<1>1. o \in Objects /\ objs[o] \in Handle /\ n \in AllNames
  BY DEF Tables, Live, Handle, AllNames
<1>2. /\ g \in [Objects -> Handle \cup {Gone}] /\ g[o] = Gone
      /\ \A x \in Objects \ {o} : g[x] = objs[x]
  BY <1>1 DEF Tables
<1>. HIDE DEF g
<1>3. \A m \in Names : OpenersIn(g, m) = IF m = n THEN OpenersIn(objs, m) \ {o}
                                                 ELSE OpenersIn(objs, m)
  BY <1>1, <1>2 DEF OpenersIn
<1>4. CountLeft(n) \in Int \cup {NoEntry}
  BY <1>1 DEF CountLeft, Count, Tables
<1>5. /\ c \in [AllNames -> Int \cup {NoEntry}]
      /\ \A m \in AllNames : c[m] = IF m = n THEN CountLeft(n) ELSE open_counts_[m]
  BY <1>1, <1>4 DEF CountsClosed, Tables
<1>6. /\ t \in [AllNames -> Streams \cup {Null}] /\ t[NoName] = Null
      /\ \A m \in AllNames : t[m] = IF m = n /\ CountLeft(n) = NoEntry THEN Null
                                   ELSE open_streams_[m]
  BY <1>1 DEF StreamsClosed, Tables
<1>. HIDE DEF c, t
<1>7. n \in Names => /\ open_streams_[n] # Null
                     /\ OpenersIn(g, n) = {} <=> CountLeft(n) = NoEntry
                     /\ OpenersIn(g, n) # {} => CountLeft(n) = Cardinality(OpenersIn(g, n))
  <2>. SUFFICES ASSUME n \in Names
                PROVE  /\ open_streams_[n] # Null
                       /\ OpenersIn(g, n) = {} <=> CountLeft(n) = NoEntry
                       /\ OpenersIn(g, n) # {} =>
                            CountLeft(n) = Cardinality(OpenersIn(g, n))
    OBVIOUS
  <2>1. o \in OpenersIn(objs, n)
    BY <1>1 DEF OpenersIn, Live
  <2>2. open_streams_[n] # Null /\ open_counts_[n] = Cardinality(OpenersIn(objs, n))
    BY <2>1 DEF Tables
  <2>3. Cardinality(OpenersIn(objs, n) \ {o}) = Cardinality(OpenersIn(objs, n)) - 1
    BY <2>1, OpenersCount, FS_RemoveElement
  <2>4. Cardinality(OpenersIn(objs, n)) \in Nat \ {0}
    BY <2>1, OpenersCount
  <2>5. OpenersIn(g, n) = OpenersIn(objs, n) \ {o}
    BY <1>3
  <2>6. CountLeft(n) = IF Cardinality(OpenersIn(g, n)) = 0 THEN NoEntry
                       ELSE Cardinality(OpenersIn(g, n))
    BY <2>2, <2>3, <2>4, <2>5 DEF CountLeft, Count
  <2>. QED
    BY <2>2, <2>6, OpenersCount
<1>8. \A m \in Names : c[m] = IF OpenersIn(g, m) = {} THEN NoEntry
                              ELSE Cardinality(OpenersIn(g, m))
  BY <1>3, <1>5, <1>7 DEF Tables, AllNames
<1>9. \A m \in Names : t[m] = Null <=> OpenersIn(g, m) = {}
  BY <1>3, <1>6, <1>7 DEF Tables, AllNames
<1>10. \A x \in Objects : g[x] # Gone =>
        g[x].stream = t[g[x].name] /\ (g[x].valid <=> g[x].name # NoName)
  <2>. SUFFICES ASSUME NEW x \in Objects, g[x] # Gone
                PROVE  g[x].stream = t[g[x].name] /\ (g[x].valid <=> g[x].name # NoName)
    OBVIOUS
  <2>1. g[x] = objs[x] /\ x # o /\ objs[x] \in Handle /\ objs[x].name \in AllNames
    BY <1>2 DEF Tables, Handle, AllNames
  <2>2. t[objs[x].name] = open_streams_[objs[x].name]
    <3>1. CASE objs[x].name = NoName
      BY <1>6, <3>1 DEF Tables
    <3>2. CASE objs[x].name \in Names
      <4>1. x \in OpenersIn(g, objs[x].name)
        BY <2>1 DEF OpenersIn
      <4>. QED
        BY <1>6, <1>9, <2>1, <3>2, <4>1
    <3>. QED
      BY <2>1, <3>1, <3>2 DEF AllNames
  <2>. QED
    BY <2>1, <2>2 DEF Tables
<1>11. \A l, m \in Names : t[l] = t[m] => l = m \/ t[m] = Null
  BY <1>6 DEF Tables, AllNames
<1>12. Tables(g, c, t)
  BY <1>2, <1>5, <1>6, <1>8, <1>9, <1>10, <1>11 DEF Tables
<1>. QED
  BY <1>1, <1>2, <1>5, <1>12 DEF g, c, t

-----------------------------------------------------------------------------
(* openIfNeeded, on the tables f, counts and streams that it finds.        *)

(* The empty name is joined, or not found; it never changes its stream.    *)
Taken(o, f, counts, n) ==
    /\ Tables(objs', open_counts_', open_streams_')
    /\ objs'[o] # Gone /\ objs'[o].name = n
    /\ \A x \in Objects \ {o} : objs'[x] = f[x]
    /\ open_counts_'[NoName] = IF n = NoName THEN counts[NoName] + 1
                                             ELSE counts[NoName]
    /\ thrown' = "none"

(* f is objs, or objs without o.                                           *)
Between(f, o) == f[o] = Gone /\ \A x \in Objects \ {o} : f[x] = objs[x]

LEMMA ExceptTwice ==
    ASSUME NEW f, NEW o \in Objects, Between(f, o), NEW h,
           objs \in [Objects -> Handle \cup {Gone}],
           f \in [Objects -> Handle \cup {Gone}]
    PROVE  [objs EXCEPT ![o] = h] = [f EXCEPT ![o] = h]
  BY DEF Between

LEMMA JoinTaken ==
    ASSUME NEW f, NEW counts, NEW streams, Tables(f, counts, streams),
           Tables(objs, open_counts_, open_streams_),
           NEW o \in Objects, Between(f, o), NEW n \in AllNames,
           NEW v \in BOOLEAN, v <=> n # NoName,
           Join(o, n, v, counts, streams)
    PROVE  Taken(o, f, counts, n)
<1> DEFINE h == [name |-> n, stream |-> streams[n], valid |-> v]
<1>1. /\ counts[n] \in Int /\ counts[n] # NoEntry
      /\ objs' = [objs EXCEPT ![o] = h]
      /\ open_counts_' = [counts EXCEPT ![n] = counts[n] + 1]
      /\ open_streams_' = streams /\ thrown' = "none"
  BY DEF Join, Tables
<1>2. objs' = [f EXCEPT ![o] = h] /\ f[o] = Gone
  <2>. HIDE DEF h
  <2>1. /\ objs \in [Objects -> Handle \cup {Gone}]
        /\ f \in [Objects -> Handle \cup {Gone}]
    BY DEF Tables
  <2>. QED
    BY <1>1, <2>1, ExceptTwice DEF Between
<1>3. Tables(objs', open_counts_', open_streams_')
  <2>. PICK k \in Int : k = counts[n] + 1
    BY <1>1
  <2>1. Tables([f EXCEPT ![o] = h], [counts EXCEPT ![n] = k], streams)
    BY <1>1, <1>2, JoinTables
  <2>. QED
    BY <1>1, <1>2, <2>1
<1>4. h # Gone /\ h.name = n
  <2>1. h \in Handle
    BY DEF Tables, Handle, AllNames
  <2>. QED
    BY <2>1
<1>. HIDE DEF h
<1>5. objs'[o] = h /\ \A x \in Objects \ {o} : objs'[x] = f[x]
  BY <1>2 DEF Tables
<1>6. open_counts_'[NoName] = IF n = NoName THEN counts[NoName] + 1
                                            ELSE counts[NoName]
  BY <1>1 DEF Tables, AllNames
<1>. QED
  BY <1>1, <1>3, <1>4, <1>5, <1>6 DEF Taken

LEMMA OpenTaken ==
    ASSUME NEW f, NEW counts, NEW streams, Tables(f, counts, streams),
           Tables(objs, open_counts_, open_streams_),
           NEW o \in Objects, Between(f, o), NEW n \in Names,
           OpenAnew(o, n, counts, streams)
    PROVE  Taken(o, f, counts, n)
<1> DEFINE s == NewStream(o)
           h == [name |-> n, stream |-> s, valid |-> TRUE]
<1>1. /\ counts[n] = NoEntry
      /\ objs' = [objs EXCEPT ![o] = h]
      /\ open_counts_' = [counts EXCEPT ![n] = 1]
      /\ open_streams_' = [streams EXCEPT ![n] = s] /\ thrown' = "none"
  BY DEF OpenAnew
<1>2. s \in Streams /\ \A x \in Objects : f[x] # Gone => f[x].stream # s
  BY NewStreamIs DEF Between
<1>. HIDE DEF s
<1>3. h # Gone /\ h.name = n
  <2>1. h \in Handle
    BY <1>2 DEF Handle
  <2>. QED
    BY <2>1
<1>4. objs' = [f EXCEPT ![o] = h] /\ f[o] = Gone
  <2>. HIDE DEF h
  <2>1. /\ objs \in [Objects -> Handle \cup {Gone}]
        /\ f \in [Objects -> Handle \cup {Gone}]
    BY DEF Tables
  <2>. QED
    BY <1>1, <2>1, ExceptTwice DEF Between
<1>5. Tables(objs', open_counts_', open_streams_')
  <2>1. Tables([f EXCEPT ![o] = h], [counts EXCEPT ![n] = 1],
               [streams EXCEPT ![n] = s])
    BY <1>1, <1>2, <1>4, OpenTables
  <2>. QED
    BY <1>1, <1>4, <2>1
<1>. HIDE DEF h
<1>6. objs'[o] = h /\ \A x \in Objects \ {o} : objs'[x] = f[x]
  BY <1>4 DEF Tables
<1>7. open_counts_'[NoName] = counts[NoName] /\ n # NoName
  BY <1>1 DEF Tables, AllNames
<1>. QED
  BY <1>1, <1>3, <1>5, <1>6, <1>7 DEF Taken

-----------------------------------------------------------------------------
(* The invariant, action by action.                                        *)

LEMMA LiveIs ==
    ASSUME IInv, NEW o \in Live
    PROVE  /\ o \in Objects /\ objs[o] # Gone /\ objs[o] \in Handle
           /\ objs[o].name \in AllNames
           /\ objs[o].valid \in BOOLEAN
           /\ objs[o].valid <=> objs[o].name # NoName
           /\ objs[o].stream = open_streams_[objs[o].name]
           /\ objs[o].name # NoName =>
                /\ open_counts_[objs[o].name] \in Nat \ {0}
                /\ exists(objs[o].name)
<1>1. /\ o \in Objects /\ objs[o] # Gone /\ objs[o] \in Handle
      /\ objs[o].name \in AllNames /\ objs[o].valid \in BOOLEAN
  BY DEF IInv, Tables, Live, Handle, AllNames
<1>2. o \in OpenersIn(objs, objs[o].name)
  BY <1>1 DEF OpenersIn
<1>3. /\ objs[o].valid <=> objs[o].name # NoName
      /\ objs[o].stream = open_streams_[objs[o].name]
  BY <1>1 DEF IInv, Tables
<1>4. objs[o].name # NoName =>
                /\ open_counts_[objs[o].name] \in Nat \ {0}
                /\ exists(objs[o].name)
  BY <1>1, <1>2, OpenersCount DEF IInv, Tables, AllNames, FilesThere, exists
<1>. QED
  BY <1>1, <1>3, <1>4

(* A file that an object has open exists, whoever asks.                    *)
LEMMA OpenExists ==
    ASSUME IInv, NEW n \in Names, open_counts_[n] # NoEntry
    PROVE  disk[n] # "absent"
<1>1. OpenersIn(objs, n) # {}
  BY DEF IInv, Tables
<1>2. PICK x \in Objects : objs[x] # Gone /\ objs[x].name = n
  BY <1>1 DEF OpenersIn
<1>. QED
  BY <1>2 DEF IInv, FilesThere

(* A call that leaves the objects and tables alone.                        *)
LEMMA SameTables ==
    ASSUME IInv, UNCHANGED <<objs, open_counts_, open_streams_, emptyShared>>,
           disk' \in Disks, thrown' \in Exceptions,
           \A n \in Names : open_counts_[n] # NoEntry => disk'[n] # "absent"
    PROVE  IInv'
<1>1. \A x \in Objects : objs[x] # Gone /\ objs[x].name # NoName =>
        objs[x].name \in Names /\ open_counts_[objs[x].name] # NoEntry
  <2>. SUFFICES ASSUME NEW x \in Objects, objs[x] # Gone, objs[x].name # NoName
                PROVE  objs[x].name \in Names /\ open_counts_[objs[x].name] # NoEntry
    OBVIOUS
  <2>1. x \in Live
    BY DEF Live
  <2>2. objs[x].name \in Names /\ open_counts_[objs[x].name] \in Nat \ {0}
    BY <2>1, LiveIs DEF AllNames
  <2>. QED
    BY <2>2
<1>2. FilesThere'
  BY <1>1 DEF FilesThere
<1>3. Tables(objs, open_counts_, open_streams_)'
  BY DEF IInv, Tables, OpenersIn
<1>. QED
  BY <1>2, <1>3 DEF IInv, DriftInv, EmptyInv

LEMMA ThrowInv ==
    ASSUME IInv, NEW e \in Exceptions, Throw(e)
    PROVE  IInv'
  BY SameTables, OpenExists DEF Throw, IInv

(* Open and Create.                                                        *)
LEMMA TakenInv ==
    ASSUME IInv, NEW o \in Objects, objs[o] = Gone, NEW n \in Names,
           Taken(o, objs, open_counts_, n), UNCHANGED emptyShared,
           disk' \in Disks, disk'[n] # "absent",
           \A m \in Names : disk[m] # "absent" => disk'[m] # "absent"
    PROVE  IInv'
<1>1. FilesThere'
  <2>1. \A x \in Objects : objs[x] # Gone => objs[x].name \in AllNames
    BY DEF IInv, Tables, Handle, AllNames
  <2>. QED
    BY <2>1 DEF FilesThere, Taken, IInv, AllNames
<1>2. open_counts_'[NoName] = open_counts_[NoName]
  BY DEF Taken
<1>. QED
  BY <1>1, <1>2 DEF IInv, Taken, DriftInv, EmptyInv, Exceptions

LEMMA TakeNow ==
    ASSUME IInv, NEW o \in Objects, objs[o] = Gone, NEW n \in Names,
           \/ Join(o, n, TRUE, open_counts_, open_streams_)
           \/ OpenAnew(o, n, open_counts_, open_streams_)
    PROVE  Taken(o, objs, open_counts_, n)
<1>1. /\ Between(objs, o) /\ Tables(objs, open_counts_, open_streams_)
      /\ n \in AllNames /\ n # NoName
  BY DEF Between, IInv, AllNames
<1>. QED
  BY <1>1, JoinTaken, OpenTaken

LEMMA OpenInv ==
    ASSUME IInv, NEW o \in Objects, NEW n \in Names, Open(o, n)
    PROVE  IInv'
<1>1. Taken(o, objs, open_counts_, n)
  BY TakeNow DEF Open
<1>2. disk[n] # "absent"
  BY OpenExists DEF Open, Join, exists
<1>. QED
  BY <1>1, <1>2, TakenInv DEF Open, IInv

LEMMA CreateInv ==
    ASSUME IInv, NEW o \in Objects, NEW n \in Names, Create(o, n)
    PROVE  IInv'
<1>1. Taken(o, objs, open_counts_, n)
  BY TakeNow DEF Create
<1>2. /\ disk' \in Disks /\ disk'[n] # "absent"
      /\ \A m \in Names : disk[m] # "absent" => disk'[m] # "absent"
  BY DEF Create, IInv, Disks
<1>. QED
  BY <1>1, <1>2, TakenInv DEF Create

LEMMA DefaultInv ==
    ASSUME IInv, NEW o \in Objects, Default(o)
    PROVE  IInv'
<1>1. /\ Tables(objs, open_counts_, open_streams_)
      /\ open_counts_ \in [AllNames -> Int \cup {NoEntry}]
      /\ objs[o] = Gone /\ objs' = [objs EXCEPT ![o] = DefaultFile]
      /\ open_counts_' = open_counts_ /\ open_streams_' = open_streams_
  BY DEF IInv, Tables, Default
<1>2. Tables(objs', open_counts_', open_streams_')
  BY <1>1, DefaultTables
<1>3. FilesThere'
  BY DEF Default, IInv, Tables, FilesThere, DefaultFile
<1>. QED
  BY <1>2, <1>3 DEF IInv, Default, DriftInv, EmptyInv, Exceptions, Tables, OpenersIn

LEMMA CopyInv ==
    ASSUME IInv, NEW o \in Objects, NEW src \in Live, Copy(o, src)
    PROVE  IInv'
<1> DEFINE n == objs[src].name
           v == objs[src].valid
           k == Count(n) + 1
           h == [name |-> n, stream |-> open_streams_[n], valid |-> v]
<1>1. /\ src \in Objects /\ objs[src] \in Handle /\ n \in AllNames
      /\ v \in BOOLEAN /\ (v <=> n # NoName)
      /\ n # NoName => open_counts_[n] \in Nat \ {0} /\ disk[n] # "absent"
  BY LiveIs DEF exists
<1>2. /\ Count(n) \in Int
      /\ n # NoName => open_counts_[n] # NoEntry /\ Count(n) = open_counts_[n]
  BY <1>1 DEF Count, IInv, Tables
<1>3. /\ objs[o] = Gone
      /\ objs' = [objs EXCEPT ![o] = [objs[src] EXCEPT !.stream = open_streams_[n]]]
      /\ open_counts_' = [open_counts_ EXCEPT ![n] = k]
      /\ n = NoName => Count(n) < MaxDrift
      /\ emptyShared' = (emptyShared \/ n = NoName)
      /\ thrown' = "none" /\ open_streams_' = open_streams_ /\ disk' = disk
  BY DEF Copy
<1>4. [objs[src] EXCEPT !.stream = open_streams_[n]] = h
  BY <1>1 DEF Handle
<1>5. k \in Int /\ (n # NoName => k = open_counts_[n] + 1)
  BY <1>2
<1>. HIDE DEF k, n, v
<1>6. Tables(objs', open_counts_', open_streams_')
  <2>. PICK m \in AllNames, j \in Int : m = n /\ j = k
    BY <1>1, <1>5
  <2>1. Tables(objs, open_counts_, open_streams_) /\ objs[o] = Gone
    BY <1>3 DEF IInv
  <2>2. m # NoName => open_counts_[m] # NoEntry /\ j = open_counts_[m] + 1
    BY <1>2, <1>5
  <2>3. CASE m # NoName
    <3>1. v = TRUE
      BY <1>1, <2>3
    <3>2. Tables([objs EXCEPT ![o] = [name |-> m, stream |-> open_streams_[m],
                                      valid |-> TRUE]],
                 [open_counts_ EXCEPT ![m] = j], open_streams_)
      BY <2>1, <2>2, <2>3, JoinTables
    <3>. QED
      BY <1>3, <1>4, <3>1, <3>2
  <2>4. CASE m = NoName
    <3>1. v = FALSE
      <4>1. n = NoName
        BY <2>4
      <4>. QED
        BY <1>1, <4>1
    <3>2. Tables([objs EXCEPT ![o] = [name |-> m, stream |-> open_streams_[m],
                                      valid |-> FALSE]],
                 [open_counts_ EXCEPT ![m] = j], open_streams_)
      BY <2>1, <2>2, <2>4, JoinTables
    <3>. QED
      BY <1>3, <1>4, <3>1, <3>2
  <2>. QED
    BY <2>3, <2>4
<1>7. h.name = n
  OBVIOUS
<1>. HIDE DEF h
<1>9. FilesThere'
  BY <1>1, <1>3, <1>4, <1>7 DEF FilesThere, IInv, Tables
<1>10. DriftInv' /\ EmptyInv'
  <2>1. CASE n = NoName
    <3>1. open_counts_'[NoName] = k /\ emptyShared'
      BY <1>1, <1>3, <2>1 DEF IInv, Tables
    <3>2. k = Count(NoName) + 1 /\ Count(NoName) < MaxDrift
      BY <1>3, <2>1 DEF k
    <3>3. Count(NoName) \in -MaxDrift .. MaxDrift
      BY DEF Count, IInv, DriftInv
    <3>. QED
      BY <3>1, <3>2, <3>3 DEF DriftInv, EmptyInv
  <2>2. CASE n # NoName
    <3>1. open_counts_'[NoName] = open_counts_[NoName] /\ emptyShared' = emptyShared
      BY <1>1, <1>3, <2>2 DEF IInv, Tables, AllNames
    <3>. QED
      BY <3>1 DEF IInv, DriftInv, EmptyInv
  <2>. QED
    BY <2>1, <2>2
<1>11. emptyShared' \in BOOLEAN
  BY <1>3 DEF IInv
<1>. QED
  BY <1>3, <1>6, <1>9, <1>10, <1>11 DEF IInv, Exceptions, Tables, OpenersIn

(* close() lowers the count of the empty name, and of nothing else but the *)
(* file that the object has open.                                          *)
LEMMA CloseDrift ==
    ASSUME IInv, NEW o \in Live, NEW n, n = objs[o].name, MayClose(n)
    PROVE  /\ CountsClosed(n)[NoName] \in {NoEntry} \cup -MaxDrift .. MaxDrift
           /\ ~emptyShared /\ Descriptors # {} =>
                /\ CountsClosed(n)[NoName] # NoEntry
                /\ CountsClosed(n)[NoName] < 0
<1>1. /\ n \in AllNames /\ CountsClosed(n)[n] = CountLeft(n)
      /\ \A m \in AllNames \ {n} : CountsClosed(n)[m] = open_counts_[m]
  <2>1. Tables(objs, open_counts_, open_streams_)
    BY DEF IInv
  <2>. QED
    BY ONLY <2>1, o \in Live, n = objs[o].name, CloseTables
<1>2. CASE n # NoName
  <2>1. CountsClosed(n)[NoName] = open_counts_[NoName]
    BY <1>1, <1>2 DEF AllNames
  <2>. QED
    BY <2>1 DEF IInv, DriftInv, EmptyInv
<1>3. CASE n = NoName
  <2>1. /\ Count(NoName) \in -MaxDrift .. MaxDrift /\ Count(NoName) > -MaxDrift
        /\ ~emptyShared /\ Descriptors # {} => Count(NoName) < 0
    BY <1>3 DEF Count, MayClose, IInv, DriftInv, EmptyInv
  <2>2. CountsClosed(n)[NoName] = IF Count(NoName) = 1 THEN NoEntry
                                  ELSE Count(NoName) - 1
    BY <1>1, <1>3 DEF CountLeft
  <2>. QED
    BY <2>1, <2>2
<1>. QED
  BY <1>2, <1>3

LEMMA CloseBetween ==
    ASSUME IInv, NEW o \in Live
    PROVE  Between([objs EXCEPT ![o] = Gone], o)
  BY DEF Between, Live, IInv, Tables

NotFound(o, n, counts, streams) ==
    /\ counts[n] = NoEntry /\ ~exists(n)
    /\ objs' = [objs EXCEPT ![o] = [name |-> n, stream |-> Null, valid |-> FALSE]]
    /\ open_counts_' = counts /\ open_streams_' = streams
    /\ thrown' = "FileNotFound"

(* operator= of an object to another: the file that is left may be gone,   *)
(* the file assigned is found, and only the empty name can be missing.     *)
LEMMA AssignInv ==
    ASSUME IInv, NEW o \in Live, NEW src \in Live, Assign(o, src)
    PROVE  IInv'
<1> DEFINE own == objs[o].name
           n == objs[src].name
           v == objs[src].valid
           f == [objs EXCEPT ![o] = Gone]
           counts == CountsClosed(own)
           streams == StreamsClosed(own)
           lost == [name |-> n, stream |-> Null, valid |-> FALSE]
<1>1. /\ o \in Objects /\ n \in AllNames /\ v \in BOOLEAN /\ (v <=> n # NoName)
      /\ n # NoName => exists(n)
  BY LiveIs
<1>2. /\ Tables(f, counts, streams) /\ own \in AllNames
      /\ Tables(objs, open_counts_, open_streams_)
      /\ \A x \in Objects \ {o} : f[x] = objs[x]
  BY CloseTables DEF IInv
<1>3. Between(f, o)
  BY CloseBetween
<1>4. /\ MayClose(own) /\ (n = NoName => Count(n) < MaxDrift)
      /\ \/ Join(o, n, v, counts, streams)
         \/ exists(n) /\ OpenAnew(o, n, counts, streams)
         \/ NotFound(o, n, counts, streams)
      /\ emptyShared' = (emptyShared \/ n = NoName)
      /\ disk' = disk
  BY DEF Assign, NotFound
<1>5. /\ counts[NoName] \in {NoEntry} \cup -MaxDrift .. MaxDrift
      /\ ~emptyShared /\ Descriptors # {} =>
           counts[NoName] # NoEntry /\ counts[NoName] < 0
  BY <1>4, CloseDrift
<1>6. n = NoName /\ counts[NoName] # NoEntry => counts[NoName] < MaxDrift
  <2>. SUFFICES ASSUME n = NoName, counts[NoName] # NoEntry
                PROVE  counts[NoName] < MaxDrift
    OBVIOUS
  <2>1. CASE own = NoName
    <3>1. counts[NoName] = CountLeft(NoName)
      BY <2>1, CloseTables DEF IInv
    <3>2. Count(NoName) \in -MaxDrift .. MaxDrift
      BY DEF Count, IInv, DriftInv
    <3>. QED
      BY <1>4, <3>1, <3>2 DEF CountLeft
  <2>2. CASE own # NoName
    <3>1. counts[NoName] = open_counts_[NoName]
      BY <2>2, CloseTables DEF IInv, AllNames
    <3>2. Count(NoName) = counts[NoName]
      BY <3>1 DEF Count
    <3>. QED
      BY <1>4, <3>2
  <2>. QED
    BY <2>1, <2>2
<1>. HIDE DEF counts, streams, f, own
<1>7. CASE \/ Join(o, n, v, counts, streams)
           \/ exists(n) /\ OpenAnew(o, n, counts, streams)
  <2>1. Taken(o, f, counts, n)
    <3>1. CASE Join(o, n, v, counts, streams)
      <4>1. CASE n # NoName
        <5>1. v = TRUE
          BY <1>1, <4>1
        <5>2. Join(o, n, TRUE, counts, streams)
          BY <3>1, <5>1
        <5>. QED
          BY <1>1, <1>2, <1>3, <4>1, <5>2, JoinTaken
      <4>2. CASE n = NoName
        <5>1. v \in BOOLEAN /\ ~v
          BY <1>1, <4>2
        <5>2. v = FALSE
          BY <5>1
        <5>3. Join(o, n, FALSE, counts, streams)
          BY <3>1, <5>2
        <5>. QED
          BY <1>1, <1>2, <1>3, <4>2, <5>3, JoinTaken
      <4>. QED
        BY <4>1, <4>2
    <3>2. CASE exists(n) /\ OpenAnew(o, n, counts, streams)
      <4>1. n \in Names
        BY <1>1, <3>2 DEF exists, AllNames
      <4>. QED
        BY <1>1, <1>2, <1>3, <3>2, <4>1, OpenTaken
    <3>. QED
      BY <1>7, <3>1, <3>2
  <2>2. n = NoName => counts[NoName] # NoEntry
    BY <1>7 DEF Join, exists
  <2>. HIDE DEF n, v
  <2>3. FilesThere'
    BY <1>1, <1>2, <1>4, <2>1 DEF FilesThere, Taken, IInv, exists
  <2>4. DriftInv' /\ EmptyInv'
    <3>1. counts[NoName] \in {NoEntry} \cup Int /\ NoEntry \notin Int
      BY <1>5
    <3>2. CASE n = NoName
      <4>1. open_counts_'[NoName] = counts[NoName] + 1 /\ emptyShared'
        BY <1>4, <2>1, <3>2 DEF Taken
      <4>2. counts[NoName] \in -MaxDrift .. MaxDrift - 1
        BY <1>5, <1>6, <2>2, <3>2
      <4>. QED
        BY <4>1, <4>2 DEF DriftInv, EmptyInv
    <3>3. CASE n # NoName
      <4>1. open_counts_'[NoName] = counts[NoName] /\ (emptyShared' <=> emptyShared)
        BY <1>4, <2>1, <3>3 DEF Taken
      <4>. QED
        BY <1>5, <4>1 DEF DriftInv, EmptyInv
    <3>. QED
      BY <3>2, <3>3
  <2>. QED
    BY <1>4, <2>1, <2>3, <2>4 DEF IInv, Taken, Exceptions
<1>8. CASE NotFound(o, n, counts, streams)
  <2>0. /\ counts[n] = NoEntry /\ ~exists(n)
        /\ objs' = [objs EXCEPT ![o] = lost]
        /\ open_counts_' = counts /\ open_streams_' = streams
        /\ thrown' = "FileNotFound"
    BY <1>8 DEF NotFound
  <2>1. n = NoName /\ lost = DefaultFile
    BY <1>1, <2>0 DEF DefaultFile
  <2>2. objs' = [f EXCEPT ![o] = DefaultFile] /\ f[o] = Gone
    <3>1. /\ objs \in [Objects -> Handle \cup {Gone}]
          /\ f \in [Objects -> Handle \cup {Gone}]
      BY <1>2 DEF Tables
    <3>. QED
      BY <1>1, <1>3, <2>0, <2>1, <3>1, ExceptTwice DEF Between
  <2>3. counts \in [AllNames -> Int \cup {NoEntry}]
    BY <1>2 DEF Tables
  <2>4. Tables([f EXCEPT ![o] = DefaultFile], counts, streams)
    BY <1>1, <1>2, <2>2, <2>3, DefaultTables
  <2>5. Tables(objs', open_counts_', open_streams_')
    BY <2>0, <2>2, <2>4
  <2>6. FilesThere'
    <3>1. \A x \in Objects : x # o => objs'[x] = objs[x]
      BY <1>2, <2>2, <2>3 DEF Tables
    <3>2. objs'[o] = DefaultFile
      BY <1>1, <1>2, <2>2 DEF Tables
    <3>. QED
      BY <1>4, <3>1, <3>2 DEF FilesThere, IInv, DefaultFile
  <2>7. DriftInv' /\ EmptyInv'
    BY <1>4, <1>5, <2>0, <2>1 DEF DriftInv, EmptyInv
  <2>. QED
    BY <1>4, <2>0, <2>1, <2>5, <2>6, <2>7 DEF IInv, Exceptions
<1>. QED
  BY <1>4, <1>7, <1>8

LEMMA DestroyInv ==
    ASSUME IInv, NEW o \in Live, Destroy(o)
    PROVE  IInv'
<1> DEFINE own == objs[o].name
<1>1. /\ MayClose(own)
      /\ objs' = [objs EXCEPT ![o] = Gone]
      /\ open_counts_' = CountsClosed(own)
      /\ open_streams_' = StreamsClosed(own)
      /\ thrown' = "none" /\ disk' = disk /\ emptyShared' = emptyShared
  BY DEF Destroy
<1>2. Tables(objs', open_counts_', open_streams_')
  BY <1>1, CloseTables DEF IInv
<1>3. FilesThere'
  BY <1>1 DEF IInv, FilesThere, Tables
<1>4. DriftInv' /\ EmptyInv'
  BY <1>1, CloseDrift DEF DriftInv, EmptyInv
<1>. QED
  BY <1>1, <1>2, <1>3, <1>4 DEF IInv, Exceptions

(* The descriptor's File is closed and becomes a default File; what the    *)
(* temporary leaves of the count of the empty name is below zero if it was.*)
LEMMA ClearInv ==
    ASSUME IInv, NEW fr \in Live, Clear(fr)
    PROVE  IInv' /\ (Descriptors # {} /\ ClearThrows(fr) => emptyShared)
<1> DEFINE own == objs[fr].name
           f == [objs EXCEPT ![fr] = Gone]
           counts == CountsClosed(own)
           streams == StreamsClosed(own)
           left == IF ClearThrows(fr) THEN -1
                   ELSE IF counts[NoName] = 0 THEN NoEntry ELSE counts[NoName]
           c == [counts EXCEPT ![NoName] = left]
<1>1. /\ MayClose(own) /\ MayClose(NoName)
      /\ objs' = [objs EXCEPT ![fr] = DefaultFile]
      /\ open_counts_' = c /\ open_streams_' = streams
      /\ thrown' \in Exceptions /\ disk' = disk /\ emptyShared' = emptyShared
  BY DEF Clear, Exceptions
<1>2. /\ Tables(f, counts, streams) /\ fr \in Objects
      /\ \A x \in Objects \ {fr} : f[x] = objs[x]
  BY CloseTables DEF IInv
<1>3. /\ counts[NoName] \in {NoEntry} \cup -MaxDrift .. MaxDrift
      /\ ~emptyShared /\ Descriptors # {} =>
           counts[NoName] # NoEntry /\ counts[NoName] < 0
  BY <1>1, CloseDrift
<1>4. ClearThrows(fr) <=> counts[NoName] = NoEntry
  BY DEF ClearThrows
<1>5. ClearThrows(fr) => MaxDrift >= 1
  <2>1. Count(NoName) > -MaxDrift /\ Count(NoName) \in -MaxDrift .. MaxDrift
    BY <1>1 DEF MayClose, Count, IInv, DriftInv
  <2>2. CASE own = NoName
    <3>1. counts[NoName] = CountLeft(NoName)
      BY <2>2, CloseTables DEF IInv
    <3>. QED
      BY <1>4, <2>1, <3>1 DEF CountLeft
  <2>3. CASE own # NoName
    <3>1. counts[NoName] = open_counts_[NoName]
      BY <2>3, CloseTables DEF IInv, AllNames
    <3>. QED
      BY <1>4, <2>1, <3>1 DEF Count
  <2>. QED
    BY <2>2, <2>3
<1>6. Between(f, fr) /\ objs' = [f EXCEPT ![fr] = DefaultFile]
  <2>1. /\ objs \in [Objects -> Handle \cup {Gone}]
        /\ f \in [Objects -> Handle \cup {Gone}]
    BY <1>2 DEF Tables, IInv
  <2>. HIDE DEF f
  <2>2. Between(f, fr)
    BY CloseBetween DEF f
  <2>. QED
    BY <1>1, <1>2, <2>1, <2>2, ExceptTwice
<1>. HIDE DEF counts, streams, f
<1>7. /\ left \in {NoEntry} \cup -MaxDrift .. MaxDrift
      /\ ~emptyShared /\ Descriptors # {} => left # NoEntry /\ left < 0
  BY <1>3, <1>4, <1>5
<1>8. /\ c \in [AllNames -> Int \cup {NoEntry}] /\ c[NoName] = left
      /\ \A n \in Names : c[n] = counts[n]
  <2>1. counts \in [AllNames -> Int \cup {NoEntry}] /\ left \in Int \cup {NoEntry}
    BY <1>2, <1>7 DEF Tables
  <2>. HIDE DEF left
  <2>. QED
    BY <2>1 DEF AllNames
<1>. HIDE DEF left, c
<1>9. Tables([f EXCEPT ![fr] = DefaultFile], c, streams)
  BY <1>2, <1>6, <1>8, DefaultTables DEF Between
<1>10. Tables(objs', open_counts_', open_streams_')
  BY <1>1, <1>6, <1>9
<1>11. FilesThere'
  <2>1. objs'[fr] = DefaultFile /\ \A x \in Objects : x # fr => objs'[x] = objs[x]
    BY <1>1, <1>2 DEF IInv, Tables
  <2>. QED
    BY <1>1, <2>1 DEF FilesThere, IInv, DefaultFile
<1>12. DriftInv' /\ EmptyInv'
  BY <1>1, <1>7, <1>8 DEF DriftInv, EmptyInv
<1>. QED
  BY <1>1, <1>3, <1>4, <1>10, <1>11, <1>12 DEF IInv

LEMMA RemoveInv ==
    ASSUME IInv, NEW n \in Names, Remove(n)
    PROVE  IInv'
<1>1. /\ disk' \in Disks /\ thrown' \in Exceptions
      /\ UNCHANGED <<objs, open_counts_, open_streams_, emptyShared>>
  BY DEF Remove, IInv, Disks, Exceptions
<1>2. \A m \in Names : open_counts_[m] # NoEntry => disk'[m] # "absent"
  BY OpenExists DEF Remove, IInv, Disks
<1>. QED
  BY <1>1, <1>2, SameTables

LEMMA AllocatePageInv ==
    ASSUME IInv, NEW o \in Live, AllocatePage(o)
    PROVE  IInv'
<1>1. objs[o].name \in Names
  <2>1. objs[o].stream # Null
    BY DEF AllocatePage
  <2>2. objs[o].name # NoName
    BY <2>1, LiveIs DEF IInv, Tables
  <2>. QED
    BY <2>2, LiveIs DEF AllNames
<1>2. /\ disk' \in Disks /\ thrown' \in Exceptions
      /\ UNCHANGED <<objs, open_counts_, open_streams_, emptyShared>>
      /\ \A m \in Names : disk[m] # "absent" => disk'[m] # "absent"
  BY <1>1 DEF AllocatePage, IInv, Disks, Exceptions
<1>. QED
  BY <1>2, SameTables, OpenExists

-----------------------------------------------------------------------------
(* A descriptor's File is always there: a frame is cleared, assigned, and  *)
(* never destroyed.                                                        *)
DescriptorsLive == \A fr \in Descriptors : objs[fr] # Gone

LEMMA DescriptorsStay ==
    ASSUME IInv, DescriptorsLive, [Next]_vars
    PROVE  DescriptorsLive'
<1> USE DEF DescriptorsLive
<1>1. /\ objs \in [Objects -> Handle \cup {Gone}] /\ Descriptors \subseteq Objects
      /\ \A c \in Clients : c \notin Descriptors
  BY DEF IInv, Tables, Objects
<1>2. ASSUME NEW o \in Objects, NEW h, h # Gone, objs' = [objs EXCEPT ![o] = h]
      PROVE  DescriptorsLive'
  BY <1>1, <1>2
<1>3. ASSUME NEW o \in Clients, NEW h, objs' = [objs EXCEPT ![o] = h]
      PROVE  DescriptorsLive'
  BY <1>1, <1>3
<1>4. ASSUME NEW n \in Names,
             OpenRefused(n) \/ CreateRefused(n) \/ Remove(n) \/ RemoveRefused(n)
      PROVE  DescriptorsLive'
  BY <1>4 DEF OpenRefused, CreateRefused, Remove, RemoveRefused, Throw
<1>5. ASSUME NEW n \in Names, NEW o \in Clients, Open(o, n) \/ Create(o, n)
      PROVE  DescriptorsLive'
  BY <1>3, <1>5 DEF Open, Create, Join, OpenAnew
<1>6. ASSUME NEW o \in Clients,
             \/ Default(o) \/ Destroy(o) \/ AllocatePage(o)
             \/ \E src \in Live : Copy(o, src)
      PROVE  DescriptorsLive'
  <2>1. CASE Default(o) \/ Destroy(o) \/ \E src \in Live : Copy(o, src)
    BY <1>3, <2>1 DEF Default, Destroy, Copy
  <2>2. CASE AllocatePage(o)
    BY <2>2 DEF AllocatePage
  <2>. QED
    BY <1>6, <2>1, <2>2
<1>7. ASSUME NEW o \in Live, NEW src \in Live, Assign(o, src) PROVE DescriptorsLive'
  <2>1. /\ o \in Objects /\ objs[src].name \in AllNames
        /\ objs[src].valid \in BOOLEAN
    BY LiveIs
  <2>2. /\ CountsClosed(objs[o].name) \in [AllNames -> Int \cup {NoEntry}]
        /\ StreamsClosed(objs[o].name) \in [AllNames -> Streams \cup {Null}]
    BY CloseTables DEF IInv, Tables
  <2>3. \A s \in Streams \cup {Null}, b \in BOOLEAN, n \in AllNames :
          [name |-> n, stream |-> s, valid |-> b] # Gone
    BY DEF Handle, AllNames
  <2>4. NewStream(o) \in Streams
    BY <2>1, NewStreamIs
  <2>5. \E h : h # Gone /\ objs' = [objs EXCEPT ![o] = h]
    <3> DEFINE n == objs[src].name
               s == StreamsClosed(objs[o].name)[n]
    <3>1. \/ objs' = [objs EXCEPT ![o] = [name |-> n, stream |-> s,
                                          valid |-> objs[src].valid]]
          \/ objs' = [objs EXCEPT ![o] = [name |-> n, stream |-> NewStream(o),
                                          valid |-> TRUE]]
          \/ objs' = [objs EXCEPT ![o] = [name |-> n, stream |-> Null,
                                          valid |-> FALSE]]
      BY <1>7 DEF Assign, Join, OpenAnew
    <3>2. s \in Streams \cup {Null}
      BY <2>1, <2>2
    <3>. QED
      BY <2>1, <2>3, <2>4, <3>1, <3>2
  <2>. QED
    BY <1>2, <2>1, <2>5
<1>8. ASSUME NEW fr \in Descriptors, Clear(fr) PROVE DescriptorsLive'
  <2>1. DefaultFile # Gone
    <3>1. DefaultFile \in Handle
      BY DEF DefaultFile, Handle
    <3>. QED
      BY <3>1
  <2>. QED
    BY <1>1, <1>2, <1>8, <2>1 DEF Clear
<1>9. CASE UNCHANGED vars
  BY <1>9 DEF vars
<1>. QED
  BY <1>4, <1>5, <1>6, <1>7, <1>8, <1>9 DEF Next, Live

LEMMA InitInv ==
    ASSUME Init
    PROVE  IInv /\ DescriptorsLive
<1>1. /\ DefaultFile \in Handle /\ DefaultFile # Gone /\ DefaultFile.name = NoName
      /\ DefaultFile.stream = Null /\ DefaultFile.valid = FALSE
  <2>1. DefaultFile \in Handle
    BY DEF Handle, DefaultFile
  <2>. QED
    BY <2>1 DEF DefaultFile
<1>2. /\ objs \in [Objects -> Handle \cup {Gone}]
      /\ \A o \in Objects : objs[o] = IF o \in Descriptors THEN DefaultFile ELSE Gone
  BY <1>1 DEF Init
<1>3. /\ IsFiniteSet(Descriptors) /\ Cardinality(Descriptors) \in Nat
      /\ Descriptors # {} => Cardinality(Descriptors) > 0
  <2>1. IsFiniteSet(Descriptors)
    BY FS_Subset DEF Objects
  <2>. QED
    BY <2>1, FS_EmptySet, FS_CardinalityType
<1>4. open_counts_ \in [AllNames -> Int \cup {NoEntry}]
  BY <1>3 DEF Init, AllNames
<1>5. /\ \A n \in Names : open_counts_[n] = NoEntry
      /\ open_counts_[NoName] = IF Descriptors # {} THEN -Cardinality(Descriptors)
                                ELSE NoEntry
  BY DEF Init, AllNames
<1>6. /\ open_streams_ \in [AllNames -> Streams \cup {Null}]
      /\ \A n \in AllNames : open_streams_[n] = Null
  BY DEF Init, AllNames
<1>7. \A n \in Names : OpenersIn(objs, n) = {}
  BY <1>1, <1>2 DEF OpenersIn
<1>8. Tables(objs, open_counts_, open_streams_)
  BY <1>1, <1>2, <1>4, <1>5, <1>6, <1>7 DEF Tables, AllNames
<1>9. FilesThere /\ DescriptorsLive
  BY <1>1, <1>2 DEF FilesThere, DescriptorsLive, Objects
<1>10. DriftInv /\ EmptyInv
  BY <1>3, <1>5 DEF DriftInv, EmptyInv
<1>. QED
  BY <1>8, <1>9, <1>10 DEF Init, IInv, Disks, Exceptions

LEMMA NextInv ==
    ASSUME IInv, DescriptorsLive, [Next]_vars
    PROVE  IInv'
<1>1. ASSUME NEW n \in Names, OpenRefused(n) \/ CreateRefused(n) \/ RemoveRefused(n)
      PROVE  IInv'
  <2>1. \E e \in Exceptions : Throw(e)
    BY <1>1 DEF OpenRefused, CreateRefused, RemoveRefused, Exceptions
  <2>. QED
    BY <2>1, ThrowInv
<1>2. ASSUME NEW n \in Names, Remove(n) PROVE IInv'
  BY <1>2, RemoveInv
<1>3. ASSUME NEW n \in Names, NEW o \in Clients, Open(o, n) \/ Create(o, n)
      PROVE  IInv'
  BY <1>3, OpenInv, CreateInv DEF Objects
<1>4. ASSUME NEW o \in Clients, Default(o) PROVE IInv'
  BY <1>4, DefaultInv DEF Objects
<1>5. ASSUME NEW o \in Live, Destroy(o) \/ AllocatePage(o) PROVE IInv'
  BY <1>5, DestroyInv, AllocatePageInv
<1>6. ASSUME NEW src \in Live, NEW o \in Clients, Copy(o, src) PROVE IInv'
  BY <1>6, CopyInv DEF Objects
<1>7. ASSUME NEW src \in Live, NEW o \in Live, Assign(o, src) PROVE IInv'
  BY <1>7, AssignInv
<1>8. ASSUME NEW fr \in Descriptors, Clear(fr) PROVE IInv'
  BY <1>8, ClearInv DEF DescriptorsLive, Live, Objects
<1>9. CASE UNCHANGED vars
  BY <1>9, SameTables, OpenExists DEF vars, IInv
<1>. QED
  BY <1>1, <1>2, <1>3, <1>4, <1>5, <1>6, <1>7, <1>8, <1>9 DEF Next

-----------------------------------------------------------------------------
(* The inductive invariant: the tables shared by all File objects say of   *)
(* every file how many objects have it open and through which stream,      *)
(* nobody has a removed file open, and the empty name keeps an entry below *)
(* zero as long as no default File was copied or assigned (file.cpp, the   *)
(* constructors, operator=, the destructor, close and openIfNeeded).       *)
THEOREM Inductive == Spec => [](IInv /\ DescriptorsLive)
<1>1. Init => IInv /\ DescriptorsLive
  BY InitInv
<1>2. IInv /\ DescriptorsLive /\ [Next]_vars => (IInv /\ DescriptorsLive)'
  BY NextInv, DescriptorsStay
<1>. QED
  BY <1>1, <1>2, PTL DEF Spec

LEMMA IInvExact ==
    ASSUME IInv
    PROVE  HandlesExact
<1>1. \A n \in Names : Openers(n) = OpenersIn(objs, n)
  BY DEF Openers, OpenersIn, Live
<1>2. TypeOK
  <2>1. \A n \in Names : open_counts_[n] \in {NoEntry} \cup 0 .. Cardinality(Objects)
    BY OpenersCount DEF IInv, Tables
  <2>. QED
    BY <2>1 DEF TypeOK, IInv, Tables, AllNames, DriftInv, Disks, Exceptions
<1>3. \A n \in Names : open_counts_[n] = IF Openers(n) = {} THEN NoEntry
                                         ELSE Cardinality(Openers(n))
  BY <1>1 DEF IInv, Tables
<1>4. ASSUME NEW o \in Live
      PROVE  LET n == objs[o].name IN
             /\ objs[o].valid <=> n # NoName
             /\ n # NoName => /\ objs[o].stream = open_streams_[n]
                              /\ objs[o].stream # Null
                              /\ exists(n)
  <2>1. objs[o].name # NoName => open_streams_[objs[o].name] # Null
    <3>1. o \in OpenersIn(objs, objs[o].name)
      BY DEF OpenersIn, Live
    <3>. QED
      BY <3>1, LiveIs DEF IInv, Tables, AllNames
  <2>. QED
    BY <2>1, LiveIs
<1>5. \A m, n \in Names :
         open_streams_[m] = open_streams_[n] => m = n \/ open_streams_[n] = Null
  BY DEF IInv, Tables
<1>. QED
  BY <1>2, <1>3, <1>4, <1>5 DEF HandlesExact

(* Counts and streams are exact through every copy, assignment (to itself  *)
(* too), clearing, destruction and failed call: a file is closed with the  *)
(* last object that has it open, no two files share a stream, and no file  *)
(* is removed under an object that has it open.                            *)
THEOREM CountsAndStreamsExact == Spec => []HandlesExact
<1>1. IInv /\ DescriptorsLive => HandlesExact
  BY IInvExact
<1>. QED
  BY <1>1, Inductive, PTL

(* BufDesc::clear throws FileNotFound in no run in which nobody copies or  *)
(* assigns from a default File: the closings of default Files before it    *)
(* have left the empty name an entry that openIfNeeded finds.              *)
THEOREM ClearWorks == Spec => ClearNeverThrows
<1>1. IInv /\ DescriptorsLive =>
        \A fr \in Descriptors : Clear(fr) /\ ClearThrows(fr) => emptyShared
  <2>. SUFFICES ASSUME IInv, DescriptorsLive, NEW fr \in Descriptors,
                       Clear(fr), ClearThrows(fr)
                PROVE  emptyShared
    OBVIOUS
  <2>1. fr \in Live
    BY DEF DescriptorsLive, Live, Objects
  <2>. QED
    BY <2>1, ClearInv
<1>. QED
  BY <1>1, Inductive, PTL DEF ClearNeverThrows
=============================================================================
