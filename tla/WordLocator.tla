---------------------------- MODULE WordLocator ----------------------------
(***************************************************************************)
(* The word locator of src/p1 (wl.cpp, wl.h): a loop of commands over a    *)
(* binary search tree.  A node holds a word and a vector with the          *)
(* positions of its occurrences in the text that was loaded last.          *)
(*                                                                         *)
(* A command is one step: nothing runs beside it.  A node is named by the  *)
(* way to it from the root, a sequence of "left" and "right".              *)
(***************************************************************************)
EXTENDS Integers, FiniteSets, SequencesExt

CONSTANTS
    Letters,        \* characters that words are made of
    Code,           \* letter -> its place in the alphabet, case ignored
    Texts,          \* contents of the files, sequences of characters
    Queries,        \* the words that locate is given, sequences of characters
    Numbers,        \* the numbers that locate is given
    LineMax,        \* characters that fgets reads at a time (99 in the code)
    IntSize         \* numbers that an int can hold (2^32)

NewLine == "newline"

ASSUME CharAssumption == NewLine \notin Letters /\ Code \in [Letters -> Nat]
ASSUME SizeAssumption ==
    /\ LineMax \in Nat \ {0} /\ IntSize \in Nat \ {0} /\ IntSize % 2 = 0
    /\ Numbers \subseteq Int

VARIABLES
    root,           \* way -> node of the tree
    answer,         \* what the last command printed
    running,        \* "yes", "spinning" at the end of the input, or "no"
    loaded, asked   \* history: the text loaded last, the last question

vars == <<root, answer, running, loaded, asked>>

(* Answers that are no position in a text. *)
Nothing == 0
NoMatch == -1
Error == -2

NoTree == [way \in {} |-> 0]

Init ==
    /\ root = NoTree /\ answer = Nothing /\ running = "yes"
    /\ loaded = <<>> /\ asked = <<>>

-----------------------------------------------------------------------------
(* strcasecmp. *)
Fold(w) == [i \in DOMAIN w |-> IF w[i] \in Letters THEN Code[w[i]] ELSE -1]

Less(v, w) ==
    \/ IsStrictPrefix(Fold(v), Fold(w))
    \/ \E k \in DOMAIN v \cap DOMAIN w :
          /\ Fold(v)[k] < Fold(w)[k]
          /\ SubSeq(Fold(v), 1, k - 1) = SubSeq(Fold(w), 1, k - 1)

(* vectorObj: the array is allocated for two numbers, then doubled. *)
NoNumbers == [capacity |-> 0, numbers |-> <<>>]

push(v, index) ==
    [capacity |-> IF Len(v.numbers) + 1 <= v.capacity THEN v.capacity
                  ELSE IF v.capacity = 0 THEN 2 ELSE 2 * v.capacity,
     numbers |-> Append(v.numbers, index)]

(* Where insert and lookup come to: the node of the word, or the place     *)
(* where it would be.                                                      *)
(* Slip: words are compared to the left and put to the right. *)
Way_Mirrored(tree, word) ==
    LET way[n \in 0 .. Cardinality(DOMAIN tree)] ==
          IF n = 0 THEN <<>> ELSE
          LET w == way[n - 1] IN
          IF w \notin DOMAIN tree THEN w
          ELSE IF Less(word, tree[w].word) THEN Append(w, "right")
          ELSE IF Less(tree[w].word, word) THEN Append(w, "left")
          ELSE w
    IN  way[Cardinality(DOMAIN tree)]

Way(tree, word) ==
    LET way[n \in 0 .. Cardinality(DOMAIN tree)] ==
          IF n = 0 THEN <<>> ELSE
          LET w == way[n - 1] IN
          IF w \notin DOMAIN tree THEN w
          ELSE IF Less(word, tree[w].word) THEN Append(w, "left")
          ELSE IF Less(tree[w].word, word) THEN Append(w, "right")
          ELSE w
    IN  way[Cardinality(DOMAIN tree)]

(* Slip: a word that is there already gets no number.                      *)
insert_NewOnly(tree, word, index) ==
    LET w == Way(tree, word) IN
    IF w \in DOMAIN tree THEN tree
    ELSE [v \in DOMAIN tree \cup {w} |->
            IF v = w THEN [word |-> word, index |-> push(NoNumbers, index)]
            ELSE tree[v]]

insert(tree, word, index) ==
    LET w == Way(tree, word) IN
    IF w \in DOMAIN tree
    THEN [tree EXCEPT ![w].index = push(@, index)]
    ELSE [v \in DOMAIN tree \cup {w} |->
            IF v = w THEN [word |-> word, index |-> push(NoNumbers, index)]
            ELSE tree[v]]

-----------------------------------------------------------------------------
(* strtok_r with every other character as a delimiter. *)
Tokens(line) ==
    SelectSeq(
        FoldLeft(LAMBDA ws, c :
                   IF c \in Letters THEN Front(ws) \o <<Append(Last(ws), c)>>
                                    ELSE Append(ws, <<>>),
                 << <<>> >>, line),
        LAMBDA w : w # <<>>)

(* fgets: up to the end of a line, or as much as the buffer takes. *)
Lines(text) ==
    FoldLeft(LAMBDA ls, c :
               LET line == Append(Last(ls), c) IN
               IF c = NewLine \/ Len(line) = LineMax
               THEN Front(ls) \o <<line, <<>>>>
               ELSE Front(ls) \o <<line>>,
             << <<>> >>, text)

LoadedWords(text) ==
    LET lines == Lines(text)
    IN  FlattenSeq([i \in DOMAIN lines |-> Tokens(lines[i])])

Load(text) ==
    /\ running = "yes"
    /\ LET ws == LoadedWords(text) IN
       root' = FoldLeft(LAMBDA tree, i : insert(tree, ws[i], i),
                        NoTree, [i \in DOMAIN ws |-> i])
    /\ answer' = Nothing
    /\ loaded' = text /\ asked' = <<>>
    /\ UNCHANGED running

(* A long that strtol has read, assigned to an int. *)
ToInt(n) == ((n + IntSize \div 2) % IntSize) - IntSize \div 2

validCheck(w) == \A i \in DOMAIN w : w[i] \in Letters

(* The number in front of the array is whatever the memory holds there;    *)
(* one that is not printed otherwise stands for it.                        *)
Garbage == -3

Locate(w, n) ==
    LET placement == ToInt(n)
        way == Way(root, w)
    IN  /\ running = "yes" /\ placement >= 0 /\ validCheck(w)
        /\ answer' = IF way \notin DOMAIN root THEN NoMatch
                     ELSE LET numbers == root[way].index.numbers IN
                     IF Len(numbers) < placement THEN NoMatch
                     ELSE IF placement = 0 THEN Garbage
                     ELSE numbers[placement]
        /\ asked' = <<w, n>>
        /\ UNCHANGED <<root, running, loaded>>

LocateRefused(w, n) ==
    /\ running = "yes" /\ (ToInt(n) < 0 \/ ~validCheck(w))
    /\ answer' = Error /\ asked' = <<>>
    /\ UNCHANGED <<root, running, loaded>>

New ==
    /\ running = "yes"
    /\ root' = NoTree /\ answer' = Nothing /\ loaded' = <<>> /\ asked' = <<>>
    /\ UNCHANGED running

End ==
    /\ running = "yes"
    /\ root' = NoTree /\ answer' = Nothing /\ loaded' = <<>> /\ asked' = <<>>
    /\ running' = "no"

(* Another command, another number of words, a number that does not parse, *)
(* a file that cannot be opened: what was loaded stays.                    *)
Refused ==
    /\ running = "yes"
    /\ answer' = Error /\ asked' = <<>>
    /\ UNCHANGED <<root, running, loaded>>

(* fgets finds the end of the input, and the loop asks again.              *)
EndOfInput ==
    /\ running = "yes"
    /\ running' = "spinning"
    /\ UNCHANGED <<root, answer, loaded, asked>>

Stopped == running # "yes" /\ UNCHANGED vars

Next ==
    \/ \E text \in Texts : Load(text)
    \/ \E w \in Queries, n \in Numbers : Locate(w, n) \/ LocateRefused(w, n)
    \/ New \/ End \/ Refused \/ EndOfInput \/ Stopped

Spec == Init /\ [][Next]_vars

-----------------------------------------------------------------------------
(* The types; a node's parent is a node, and its vector has room for the   *)
(* numbers in it.                                                          *)
TypeOK ==
    /\ running \in {"yes", "spinning", "no"}
    /\ answer \in {Error, NoMatch, Garbage} \cup Nat
    /\ \A way \in DOMAIN root :
         /\ root[way].word # <<>> /\ ToSet(root[way].word) \subseteq Letters
         /\ Len(root[way].index.numbers) \in 1 .. root[way].index.capacity
         /\ way # <<>> => Front(way) \in DOMAIN root

(* The tree is a search tree for the order of strcasecmp: what hangs to    *)
(* the left of a node is less, to the right greater.  No push writes       *)
(* behind a vector (TypeOK).                                               *)
SearchTree ==
    /\ TypeOK
    /\ \A v, w \in DOMAIN root :
         /\ IsPrefix(Append(v, "left"), w) => Less(root[w].word, root[v].word)
         /\ IsPrefix(Append(v, "right"), w) => Less(root[v].word, root[w].word)

(* What WordIndex is told about texts and numbers.                         *)
FoldedWords(text) ==
    LET ws == Tokens(text) IN [i \in DOMAIN ws |-> Fold(ws[i])]

LinesFit(text) ==
    \A i \in 1 .. Len(text) - LineMax :
        \E j \in i .. i + LineMax - 1 : text[j] = NewLine

CountsFromOne(n) == n \in 1 .. IntSize \div 2 - 1

Index == INSTANCE WordIndex
    WITH text <- loaded, WordsOf <- FoldedWords, Fits <- LinesFit,
         Exact <- CountsFromOne

(* The program keeps WordIndex's promise: locate tells the n-th occurrence *)
(* of a word in the text that was loaded last, whatever its case and the   *)
(* order in which words were met; a refused command loses nothing.         *)
IndexSpec == Index!Spec
=============================================================================
