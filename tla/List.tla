---------------------------------- MODULE List ----------------------------------
(***************************************************************************)
(* What a vector promises its callers: a list they insert into, remove     *)
(* from, read and write by index from 0, and the end of the process when   *)
(* the index is not one of the list's.                                     *)
(***************************************************************************)
EXTENDS Integers, Sequences

CONSTANTS
    Elem,       \* what callers put into the list
    Nothing     \* no call has returned an element yet

VARIABLES
    list,       \* the elements, the first with index 0
    returned,   \* what the last call that returns an element returned
    failed      \* an index was wrong, and the process has ended

listVars == <<list, returned, failed>>

LInit ==
    /\ list = <<>>
    /\ returned = Nothing
    /\ failed = FALSE

LInsert(i, x) ==
    /\ list' = [k \in 1 .. Len(list) + 1 |->
                  IF k <= i THEN list[k] ELSE IF k = i + 1 THEN x ELSE list[k - 1]]
    /\ UNCHANGED <<returned, failed>>

LRemove(i) ==
    /\ returned' = list[i + 1]
    /\ list' = [k \in 1 .. Len(list) - 1 |-> IF k <= i THEN list[k] ELSE list[k + 1]]
    /\ UNCHANGED failed

LSet(i, x) ==
    /\ list' = [list EXCEPT ![i + 1] = x]
    /\ UNCHANGED <<returned, failed>>

LGet(i) ==
    /\ returned' = list[i + 1]
    /\ UNCHANGED <<list, failed>>

LFail ==
    /\ failed' = TRUE
    /\ UNCHANGED <<list, returned>>

LNext ==
    /\ ~failed
    /\ \/ \E i \in 0 .. Len(list), x \in Elem : LInsert(i, x)
       \/ \E i \in 0 .. Len(list) - 1 : LRemove(i) \/ LGet(i)
       \/ \E i \in 0 .. Len(list) - 1, x \in Elem : LSet(i, x)
       \/ LFail

LSpec == LInit /\ [][LNext]_listVars

=============================================================================
