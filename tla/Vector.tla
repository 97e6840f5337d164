--------------------------------- MODULE Vector ---------------------------------
(***************************************************************************)
(* vector.c (the same file in project/ and in hw4/): an array of pointers  *)
(* that doubles when it is full.  An assertion that fails ends the         *)
(* process.                                                                *)
(***************************************************************************)
EXTENDS Integers

CONSTANTS
    Elem,       \* the values callers store
    Unset,      \* what malloc() and realloc() leave in a slot
    MaxElems    \* bound on the number of elements

ASSUME VectorAssumption == Unset \notin Elem /\ MaxElems \in Nat

VARIABLES
    capacity,   \* slots allocated
    size,       \* slots in use
    elems,      \* the slots
    result,     \* what the last vector_get, vector_remove or vector_pop returned
    aborted     \* an assertion has failed

vectorVars == <<capacity, size, elems, result, aborted>>

(* vector_create()                                                         *)
VInit ==
    /\ capacity = 1
    /\ size = 0
    /\ elems = [k \in 0 .. 0 |-> Unset]
    /\ result = Unset
    /\ aborted = FALSE

(* i < (size_t) v->size: a negative i becomes a huge number.               *)
InBounds(i, n) == i >= 0 /\ i < n

(* Mutant of Capacity: the size is compared before it is raised.           *)
Capacity_Late(n) == IF n - 1 > capacity THEN capacity * 2 ELSE capacity

(* extend_if_necessary(), for n elements.                                  *)
Capacity(n) == IF n > capacity THEN capacity * 2 ELSE capacity

(* realloc(): the old slots, then unset ones.                              *)
Slot(k) == IF k < capacity THEN elems[k] ELSE Unset

(* Mutant of Insert: the last element is not moved.                        *)
Insert_MovesOneLess(i, x) ==
    /\ ~aborted
    /\ size < MaxElems
    /\ InBounds(i, size + 1)
    /\ size' = size + 1
    /\ capacity' = Capacity(size + 1)
    /\ elems' = [k \in 0 .. Capacity(size + 1) - 1 |->
                   IF k = i THEN x
                   ELSE IF i < k /\ k < size THEN Slot(k - 1) ELSE Slot(k)]
    /\ UNCHANGED <<result, aborted>>

(* vector_insert(): the size is raised, the array extended, elements i to  *)
(* size - 1 moved up by memmove(), x stored.                               *)
Insert(i, x) ==
    /\ ~aborted
    /\ size < MaxElems
    /\ InBounds(i, size + 1)
    /\ size' = size + 1
    /\ capacity' = Capacity(size + 1)
    /\ elems' = [k \in 0 .. Capacity(size + 1) - 1 |->
                   IF k = i THEN x
                   ELSE IF i < k /\ k <= size THEN Slot(k - 1) ELSE Slot(k)]
    /\ UNCHANGED <<result, aborted>>

Push(x) == Insert(size, x)

(* vector_remove(): elements i + 1 to size - 1 are moved down.             *)
Remove(i) ==
    /\ ~aborted
    /\ InBounds(i, size)
    /\ result' = elems[i]
    /\ elems' = [k \in 0 .. capacity - 1 |->
                   IF i <= k /\ k < size - 1 THEN elems[k + 1] ELSE elems[k]]
    /\ size' = size - 1
    /\ UNCHANGED <<capacity, aborted>>

Pop == Remove(size - 1)

SetElem(i, x) ==
    /\ ~aborted
    /\ InBounds(i, size)
    /\ elems' = [elems EXCEPT ![i] = x]
    /\ UNCHANGED <<capacity, size, result, aborted>>

GetElem(i) ==
    /\ ~aborted
    /\ InBounds(i, size)
    /\ result' = elems[i]
    /\ UNCHANGED <<capacity, size, elems, aborted>>

(* The assertion of get_element() fails: get, set or remove outside the    *)
(* elements (vector_pop of an empty vector asks for index -1), or insert   *)
(* beyond the end.                                                         *)
BadCall(i) ==
    /\ ~aborted
    /\ ~InBounds(i, size)
    /\ aborted' = TRUE
    /\ UNCHANGED <<capacity, size, elems, result>>

Indices == -1 .. MaxElems

(* The calls that store nothing.                                           *)
Reading == Pop \/ \E i \in Indices : Remove(i) \/ GetElem(i) \/ BadCall(i)

Writing(x) == Push(x) \/ \E i \in Indices : Insert(i, x) \/ SetElem(i, x)

VNext == Reading \/ \E x \in Elem : Writing(x)

VSpec == VInit /\ [][VNext]_vectorVars

-----------------------------------------------------------------------------
(* Type invariant: the array is as large as capacity says, and every index *)
(* memmove() and the store of vector_insert() touch is within it.          *)
VectorTypeOK ==
    /\ capacity \in Nat \ {0}
    /\ size \in 0 .. capacity
    /\ elems \in [0 .. capacity - 1 -> Elem \cup {Unset}]
    /\ result \in Elem \cup {Unset}
    /\ aborted \in BOOLEAN

(* No slot in use is one that malloc() or realloc() left unset, however    *)
(* inserts, removals and growth alternate (vector.c:56-79, 97-104).        *)
AllStored == \A k \in 0 .. size - 1 : elems[k] \in Elem

(* A vector acts as the list of the elements in use.                       *)
AsList == [k \in 1 .. size |-> elems[k - 1]]

L == INSTANCE List WITH
        Nothing <- Unset, list <- AsList, returned <- result, failed <- aborted

ActsAsList == L!LSpec

=============================================================================
