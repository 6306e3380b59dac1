----------------------------- MODULE WordIndex -----------------------------
(***************************************************************************)
(* What the word locator of the first assignment promises: it holds the    *)
(* words of one text, and tells where the n-th occurrence of a word is.    *)
(***************************************************************************)
EXTENDS Integers, FiniteSets, Sequences

CONSTANTS
    Texts,          \* what may be loaded
    Queries,        \* what may be looked for, as words
    Numbers,        \* the occurrences that may be asked for
    WordsOf(_),     \* the words of a text, case ignored
    Fits(_),        \* its lines fit into the program's line buffer
    Fold(_),        \* a word, case ignored
    Exact(_)        \* a number that an int can hold and that counts from one

VARIABLES
    text,           \* the text that is held
    asked,          \* the word and number of the last command, if it had them
    answer          \* what it printed

(* Answers that are no position in a text. *)
Nothing == 0
NoMatch == -1
Error == -2

NoText == <<>>

NoQuestion == <<>>

Init == text = NoText /\ asked = NoQuestion /\ answer = Nothing

Load(t) == text' = t /\ asked' = NoQuestion /\ answer' = Nothing

Occurrences(w) == {i \in DOMAIN WordsOf(text) : WordsOf(text)[i] = Fold(w)}

(* Nothing is promised of a text with a line that is too long: it is cut,  *)
(* perhaps within a word. *)
Locate(w, n) ==
    /\ Fits(text) /\ Exact(n) =>
         IF Cardinality(Occurrences(w)) < n THEN answer' = NoMatch
         ELSE /\ answer' \in Occurrences(w)
              /\ Cardinality({i \in Occurrences(w) : i <= answer'}) = n
    /\ asked' = <<w, n>>
    /\ UNCHANGED text

Clear == text' = NoText /\ asked' = NoQuestion /\ answer' = Nothing

Refuse == asked' = NoQuestion /\ answer' = Error /\ UNCHANGED text

Next ==
    \/ \E t \in Texts : Load(t)
    \/ \E w \in Queries, n \in Numbers : Locate(w, n)
    \/ Clear \/ Refuse

Spec == Init /\ [][Next]_<<text, asked, answer>>
=============================================================================
