\* Lines with a dash that are longer than the buffer of three characters;
\* an int of three bits, so that 9 is taken for 1.
SPECIFICATION Spec
CONSTANTS
    Letters <- MCLetters
    Code <- MCCode
    Texts <- MCTexts
    Queries <- MCQueries
    Numbers <- MCNumbers
    LineMax = 3
    IntSize = 8
INVARIANT
    SearchTree
PROPERTY
    IndexSpec
