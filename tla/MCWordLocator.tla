--------------------------- MODULE MCWordLocator ---------------------------
(***************************************************************************)
(* WordLocator for TLC: texts of up to four words, one in two cases and    *)
(* one that begins another, each on its own line or with a dash between.   *)
(* Lines with a dash may be longer than the buffer.                        *)
(***************************************************************************)
EXTENDS WordLocator

MCLetters == {"a", "A", "b"}
MCCode == [c \in MCLetters |-> IF c = "b" THEN 2 ELSE 1]

SomeWords == {<<"a">>, <<"A">>, <<"b">>, <<"a", "b">>}

Joined(ws, c) == FlattenSeq([i \in DOMAIN ws |-> Append(ws[i], c)])

MCTexts ==
    {Joined(ws, NewLine) : ws \in BoundedSeq(SomeWords, 3)}
        \cup {Joined(ws, "-") : ws \in BoundedSeq(SomeWords, 2)}
        \cup {Joined(<<w>> \o <<<<"b">>, <<"a">>, <<"A">>>>, NewLine)
                : w \in SomeWords}

MCQueries == {<<"a">>, <<"B">>, <<"b">>, <<"A", "b">>, <<"b", "-">>}

MCNumbers == {-1, 0, 1, 2, 3, 9}
=============================================================================
