-------------------------------- MODULE SplitFile --------------------------------
(***************************************************************************)
(* split_file() of project/p2p.c: the file is cut into segments, which are *)
(* pushed to a vector.  seg_size is an int that is multiplied by 1024.     *)
(* When the file is cut the vector is at the disposal of the caller.       *)
(***************************************************************************)
EXTENDS Vector

CONSTANTS
    IntRange,   \* how many values an int has: 2^32
    Kilo,       \* 1024
    Options,    \* the values of option -g
    Lengths,    \* the lengths of the file
    Stored      \* the elements the caller stores afterwards

VARIABLES
    option,     \* the argument seg_size
    length,     \* the length of the file
    left,       \* how much of it is not read yet
    count,      \* segments so far, and the result
    cutting     \* split_file() has not returned

splitVars == <<option, length, left, count, cutting>>

Segment(n, bytes) == [n_th |-> n, file_size |-> bytes]

ASSUME SplitAssumption ==
    /\ IntRange \in Nat \ {0}
    /\ Kilo \in Nat
    /\ Options \subseteq Int
    /\ Lengths \subseteq Nat
    /\ Stored \subseteq Elem
    /\ \A n \in 0 .. MaxElems - 1, bytes \in 1 .. IntRange \div 2 : Segment(n, bytes) \in Elem

(* What an int is left with of n, by two's complement.                     *)
AsInt(n) ==
    LET low == n % IntRange
    IN  IF 2 * low < IntRange THEN low ELSE low - IntRange

SegSize == AsInt(option * Kilo)

SplitInit ==
    /\ VInit
    /\ option \in Options
    /\ length \in Lengths
    /\ left = length
    /\ count = 0
    /\ cutting = TRUE

(* Mutant of Cut: fread() into a buffer of one byte less.                  *)
Cut_Short(bytes) ==
    /\ Push(Segment(count, bytes))
    /\ left' = left - (IF bytes > 1 THEN bytes - 1 ELSE bytes)
    /\ count' = count + 1
    /\ UNCHANGED <<option, length, cutting>>

Cut(bytes) ==
    /\ Push(Segment(count, bytes))
    /\ left' = left - bytes
    /\ count' = count + 1
    /\ UNCHANGED <<option, length, cutting>>

(* fread() fills the buffer, or reads what is left.                        *)
SplitRead ==
    /\ cutting
    /\ SegSize > 0
    /\ left > 0
    /\ Cut(IF left < SegSize THEN left ELSE SegSize)

(* fread() returns 0: at the end of the file, or because it was asked for  *)
(* 0 bytes, or for so many (a negative size as size_t) that malloc() and   *)
(* the read fail.                                                          *)
SplitEnd ==
    /\ cutting
    /\ left = 0 \/ SegSize <= 0
    /\ cutting' = FALSE
    /\ UNCHANGED <<vectorVars, option, length, left, count>>

CallerStep ==
    /\ ~cutting
    /\ Reading \/ \E x \in Stored : Writing(x)
    /\ UNCHANGED splitVars

SplitNext == SplitRead \/ SplitEnd \/ CallerStep

SplitSpec == SplitInit /\ [][SplitNext]_<<vectorVars, splitVars>>

-----------------------------------------------------------------------------
(* The segments a file of the given length must be cut into.               *)
Segments(bytes, seg) ==
    [k \in 1 .. (bytes + seg - 1) \div seg |->
       Segment(k - 1, IF k * seg <= bytes THEN seg ELSE bytes - (k - 1) * seg)]

(* When split_file() returns, the vector holds the whole file in segments  *)
(* of the size that is left of -g after the multiplication, numbered by    *)
(* their place, or nothing at all when that size is not positive: -g 0, or *)
(* a -g whose product overflows (p2p.c:80).                                *)
CutsWholeFile ==
    [][cutting /\ ~cutting' =>
         /\ AsList = IF SegSize > 0 THEN Segments(length, SegSize) ELSE <<>>
         /\ count = size]_<<vectorVars, splitVars>>

=============================================================================
