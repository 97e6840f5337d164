\* Small ints: a K of 2, and ints of 4 bits, so that -g 4 gives a negative size,
\* -g 0 gives 0, and -g 9 wraps round to the size of -g 1.
SPECIFICATION SplitSpec
CONSTANTS
    IntRange = 16
    Kilo = 2
    Options = {0, 1, 2, 4, 9}
    Lengths = {0, 7}
    MaxElems = 5
    Elem <- AllSegments
    Stored <- OneSegment
    Unset = Unset
\* A call with a wrong index ends the process.
CHECK_DEADLOCK FALSE
INVARIANTS
    VectorTypeOK
PROPERTIES
    ActsAsList
    CutsWholeFile
