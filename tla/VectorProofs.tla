------------------------------ MODULE VectorProofs ------------------------------
(***************************************************************************)
(* The vector fits its array and acts as a list, for every kind of element *)
(* and every number of them; and the vector split_file() fills is one.     *)
(***************************************************************************)
EXTENDS SplitFile, Sequences, TLAPS

VectorInv == VectorTypeOK /\ AllStored

(* The array is extended by enough for one more element.                   *)
LEMMA CapacityFits ==
    ASSUME VectorTypeOK
    PROVE  /\ Capacity(size + 1) \in Nat \ {0}
           /\ size + 1 <= Capacity(size + 1)
           /\ capacity <= Capacity(size + 1)
  BY DEF VectorTypeOK, Capacity

LEMMA VectorInitial == VInit => VectorInv
  <1> SUFFICES ASSUME VInit PROVE VectorInv
    OBVIOUS
  <1>1. elems \in [0 .. capacity - 1 -> Elem \cup {Unset}]
    <2>1. capacity - 1 = 0
      BY DEF VInit
    <2> QED BY <2>1 DEF VInit
  <1>2. VectorTypeOK
    <2>1. capacity \in Nat \ {0} /\ size \in 0 .. capacity
      BY DEF VInit
    <2>2. result \in Elem \cup {Unset} /\ aborted \in BOOLEAN
      BY Zenon DEF VInit
    <2> QED BY <1>1, <2>1, <2>2 DEF VectorTypeOK
  <1>3. AllStored
    BY DEF VInit, AllStored
  <1> QED BY <1>2, <1>3 DEF VectorInv

LEMMA InsertInv ==
    ASSUME VectorInv, NEW x \in Elem, NEW i, i \in Int, Insert(i, x)
    PROVE  VectorInv'
  <1>1. /\ Capacity(size + 1) \in Nat \ {0}
        /\ size + 1 <= Capacity(size + 1)
        /\ capacity <= Capacity(size + 1)
    BY CapacityFits DEF VectorInv
  <1>2. VectorTypeOK'
    BY <1>1 DEF VectorInv, VectorTypeOK, Insert, Slot, InBounds
  <1>3. AllStored'
    BY <1>1 DEF VectorInv, VectorTypeOK, AllStored, Insert, Slot, InBounds
  <1> QED BY <1>2, <1>3 DEF VectorInv

LEMMA RemoveInv ==
    ASSUME VectorInv, NEW i, i \in Int, Remove(i)
    PROVE  VectorInv'
  BY DEF VectorInv, VectorTypeOK, AllStored, Remove, InBounds

LEMMA SetInv ==
    ASSUME VectorInv, NEW x \in Elem, NEW i, i \in Int, SetElem(i, x)
    PROVE  VectorInv'
  BY DEF VectorInv, VectorTypeOK, AllStored, SetElem, InBounds

LEMMA GetInv ==
    ASSUME VectorInv, NEW i, i \in Int, GetElem(i)
    PROVE  VectorInv'
  BY DEF VectorInv, VectorTypeOK, AllStored, GetElem, InBounds

LEMMA BadCallInv ==
    ASSUME VectorInv, NEW i, BadCall(i)
    PROVE  VectorInv'
  BY DEF VectorInv, VectorTypeOK, AllStored, BadCall

(* Every call is one of the five operations at some index.                 *)
LEMMA Calls ==
    ASSUME VectorTypeOK, VNext
    PROVE  \/ \E i \in Int, x \in Elem : Insert(i, x) \/ SetElem(i, x)
           \/ \E i \in Int : Remove(i) \/ GetElem(i) \/ BadCall(i)
  <1>1. Indices \subseteq Int
    BY VectorAssumption DEF Indices
  <1>2. size \in Int /\ size - 1 \in Int
    BY DEF VectorTypeOK
  <1>3. CASE Reading
    BY <1>1, <1>2, <1>3 DEF Reading, Pop
  <1>4. CASE \E x \in Elem : Writing(x)
    BY <1>1, <1>2, <1>4 DEF Writing, Push
  <1> QED BY <1>3, <1>4 DEF VNext

LEMMA VectorStep == VectorInv /\ [VNext]_vectorVars => VectorInv'
  <1> SUFFICES ASSUME VectorInv, [VNext]_vectorVars PROVE VectorInv'
    OBVIOUS
  <1>1. CASE VNext
    BY <1>1, Calls, InsertInv, SetInv, RemoveInv, GetInv, BadCallInv DEF VectorInv
  <1>2. CASE UNCHANGED vectorVars
    BY <1>2 DEF vectorVars, VectorInv, VectorTypeOK, AllStored
  <1> QED BY <1>1, <1>2

(* The array is never smaller than the number of elements, for any calls.  *)
THEOREM VectorTypeCorrect == VSpec => []VectorTypeOK
  <1>1. VectorInv => VectorTypeOK
    BY DEF VectorInv
  <1> QED BY <1>1, VectorInitial, VectorStep, PTL DEF VSpec

(* No element is one nobody stored.                                        *)
THEOREM NothingUnsetReturned == VSpec => []AllStored
  <1>1. VectorInv => AllStored
    BY DEF VectorInv
  <1> QED BY <1>1, VectorInitial, VectorStep, PTL DEF VSpec

-----------------------------------------------------------------------------
(* The list of the elements, before and after a step.                      *)
LEMMA AsListIs ==
    ASSUME VectorInv
    PROVE  /\ AsList \in Seq(Elem)
           /\ Len(AsList) = size
           /\ \A k \in 1 .. size : AsList[k] = elems[k - 1]
  BY DEF VectorInv, VectorTypeOK, AllStored, AsList

LEMMA ListInitial == VInit => L!LInit
  BY DEF VInit, L!LInit, AsList

LEMMA InsertActs ==
    ASSUME VectorInv, NEW x \in Elem, NEW i, i \in Int, Insert(i, x)
    PROVE  L!LNext
  <1>1. Len(AsList) = size /\ \A k \in 1 .. size : AsList[k] = elems[k - 1]
    BY AsListIs
  <1>2. /\ i \in 0 .. size /\ size \in Nat /\ capacity \in Nat /\ size <= capacity
        /\ size + 1 <= Capacity(size + 1)
    BY CapacityFits DEF VectorInv, VectorTypeOK, Insert, InBounds
  <1>3. AsList' = [k \in 1 .. size + 1 |-> elems'[k - 1]]
    BY DEF AsList, Insert
  <1>4. ASSUME NEW k \in 1 .. size + 1
        PROVE  elems'[k - 1] = IF k <= i THEN AsList[k]
                               ELSE IF k = i + 1 THEN x ELSE AsList[k - 1]
    <2>1. k - 1 \in 0 .. Capacity(size + 1) - 1
      BY <1>2, CapacityFits DEF VectorInv
    <2>2. elems'[k - 1] = IF k - 1 = i THEN x
                          ELSE IF i < k - 1 /\ k - 1 <= size THEN Slot(k - 2) ELSE Slot(k - 1)
      BY <2>1 DEF Insert
    <2> QED BY <2>2, <1>1, <1>2 DEF Slot
  <1>5. AsList' = [k \in 1 .. size + 1 |-> IF k <= i THEN AsList[k]
                               ELSE IF k = i + 1 THEN x ELSE AsList[k - 1]]
    BY <1>3, <1>4
  <1>6. L!LInsert(i, x)
    BY <1>1, <1>5 DEF L!LInsert, Insert
  <1> QED BY <1>1, <1>2, <1>6 DEF L!LNext, Insert

LEMMA RemoveActs ==
    ASSUME VectorInv, NEW i, i \in Int, Remove(i)
    PROVE  L!LNext
  <1>1. Len(AsList) = size /\ \A k \in 1 .. size : AsList[k] = elems[k - 1]
    BY AsListIs
  <1>2. i \in 0 .. size - 1 /\ size \in Nat /\ capacity \in Nat /\ size <= capacity
    BY DEF VectorInv, VectorTypeOK, Remove, InBounds
  <1>3. AsList' = [k \in 1 .. size - 1 |-> elems'[k - 1]]
    BY DEF AsList, Remove
  <1>4. ASSUME NEW k \in 1 .. size - 1
        PROVE  elems'[k - 1] = IF k <= i THEN AsList[k] ELSE AsList[k + 1]
    BY <1>1, <1>2 DEF Remove
  <1>5. AsList' = [k \in 1 .. size - 1 |-> IF k <= i THEN AsList[k] ELSE AsList[k + 1]]
    BY <1>3, <1>4
  <1>6. L!LRemove(i)
    BY <1>1, <1>2, <1>5 DEF L!LRemove, Remove
  <1> QED BY <1>1, <1>2, <1>6 DEF L!LNext, Remove

LEMMA SetActs ==
    ASSUME VectorInv, NEW x \in Elem, NEW i, i \in Int, SetElem(i, x)
    PROVE  L!LNext
  <1>1. AsList \in Seq(Elem) /\ Len(AsList) = size
    BY AsListIs
  <1>2. i \in 0 .. size - 1 /\ size \in Nat /\ capacity \in Nat /\ size <= capacity
    BY DEF VectorInv, VectorTypeOK, SetElem, InBounds
  <1>3. AsList' = [k \in 1 .. size |-> elems'[k - 1]]
    BY DEF AsList, SetElem
  <1>4. ASSUME NEW k \in 1 .. size
        PROVE  elems'[k - 1] = IF k = i + 1 THEN x ELSE elems[k - 1]
    BY <1>2 DEF SetElem, VectorInv, VectorTypeOK
  <1>5. AsList' = [AsList EXCEPT ![i + 1] = x]
    BY <1>2, <1>3, <1>4 DEF AsList
  <1>6. L!LSet(i, x)
    BY <1>5 DEF L!LSet, SetElem
  <1> QED BY <1>1, <1>2, <1>6 DEF L!LNext, SetElem

LEMMA GetActs ==
    ASSUME VectorInv, NEW i, i \in Int, GetElem(i)
    PROVE  L!LNext
  <1>1. Len(AsList) = size /\ \A k \in 1 .. size : AsList[k] = elems[k - 1]
    BY AsListIs
  <1>2. i \in 0 .. size - 1 /\ size \in Nat
    BY DEF VectorInv, VectorTypeOK, GetElem, InBounds
  <1>3. L!LGet(i)
    BY <1>1, <1>2 DEF L!LGet, GetElem, AsList
  <1> QED BY <1>1, <1>2, <1>3 DEF L!LNext, GetElem

LEMMA BadCallActs ==
    ASSUME NEW i, BadCall(i)
    PROVE  L!LNext
  BY DEF BadCall, L!LNext, L!LFail, AsList

LEMMA ListStep == VectorInv /\ [VNext]_vectorVars => [L!LNext]_(L!listVars)
  <1> SUFFICES ASSUME VectorInv, [VNext]_vectorVars PROVE [L!LNext]_(L!listVars)
    OBVIOUS
  <1>1. CASE VNext
    BY <1>1, Calls, InsertActs, SetActs, RemoveActs, GetActs, BadCallActs DEF VectorInv
  <1>2. CASE UNCHANGED vectorVars
    BY <1>2 DEF vectorVars, L!listVars, AsList
  <1> QED BY <1>1, <1>2

(* A vector implements the list of the elements in use.                    *)
THEOREM VectorIsList == VSpec => ActsAsList
  BY ListInitial, VectorInitial, VectorStep, ListStep, PTL
     DEF VSpec, ActsAsList, L!LSpec

-----------------------------------------------------------------------------
(* While split_file() runs nobody else uses the vector.                    *)
SplitInv ==
    /\ option \in Int
    /\ left \in Nat
    /\ cutting => count = size

LEMMA SplitInitial == SplitInit => VInit /\ SplitInv
  BY SplitAssumption DEF SplitInit, VInit, SplitInv

(* Every step of split_file() pushes one element or leaves the vector.     *)
LEMMA SplitStep ==
    VectorInv /\ SplitInv /\ [SplitNext]_<<vectorVars, splitVars>>
        => [VNext]_vectorVars /\ SplitInv'
  <1> SUFFICES ASSUME VectorInv, SplitInv, [SplitNext]_<<vectorVars, splitVars>>
               PROVE  [VNext]_vectorVars /\ SplitInv'
    OBVIOUS
  <1>1. CASE SplitRead
    <2> DEFINE bytes == IF left < SegSize THEN left ELSE SegSize
    <2>1. SegSize \in Int /\ 2 * SegSize < IntRange
      BY SplitAssumption DEF SplitInv, SegSize, AsInt
    <2>2. bytes \in 1 .. IntRange \div 2 /\ left - bytes \in Nat
      BY <1>1, <2>1, SplitAssumption DEF SplitRead, SplitInv
    <2>3. Cut(bytes)
      BY <1>1 DEF SplitRead
    <2>4. Push(Segment(count, bytes)) /\ size \in 0 .. MaxElems - 1 /\ count = size
      BY <1>1, <2>3, VectorAssumption
         DEF SplitRead, Cut, Push, Insert, SplitInv, VectorInv, VectorTypeOK
    <2>5. Segment(count, bytes) \in Elem
      BY <2>2, <2>4, SplitAssumption
    <2>6. VNext
      BY <2>4, <2>5 DEF VNext, Writing
    <2>7. SplitInv'
      BY <2>2, <2>3, <2>4 DEF SplitInv, Cut, Push, Insert
    <2> QED BY <2>6, <2>7
  <1>2. CASE SplitEnd
    BY <1>2 DEF SplitEnd, SplitInv
  <1>3. CASE CallerStep
    BY <1>3, SplitAssumption DEF CallerStep, SplitInv, splitVars, VNext
  <1>4. CASE UNCHANGED <<vectorVars, splitVars>>
    BY <1>4 DEF vectorVars, splitVars, SplitInv
  <1> QED BY <1>1, <1>2, <1>3, <1>4 DEF SplitNext

(* The vector that split_file() fills and its caller uses acts as a list.  *)
THEOREM SplitFillsList == SplitSpec => ActsAsList
  <1>1. SplitSpec => VSpec
    BY SplitInitial, SplitStep, VectorInitial, VectorStep, PTL DEF SplitSpec, VSpec
  <1> QED BY <1>1, VectorIsList, PTL

-----------------------------------------------------------------------------
(* How far the file is cut: all segments but the last are of the size      *)
(* asked for, and the last is what was left.                               *)
Cuts(g, n) == (n + g - 1) \div g

LEMMA HowMany ==
    ASSUME NEW g \in Nat \ {0}, NEW n \in Nat, NEW k \in Nat, k * g >= n, n > (k - 1) * g
    PROVE  Cuts(g, n) = k
  <1> DEFINE q == (n + g - 1) \div g
             r == (n + g - 1) % g
  <1>1. n + g - 1 \in Nat
    OBVIOUS
  <1>2. q \in Int /\ r \in 0 .. g - 1 /\ n + g - 1 = g * q + r
    BY <1>1
  <1> HIDE DEF q, r
  <1>3. q < k + 1
    <2> SUFFICES ASSUME q >= k + 1 PROVE FALSE
      BY <1>2
    <2>1. g * q >= g * (k + 1)
      BY <1>2
    <2>2. g * (k + 1) = k * g + g
      OBVIOUS
    <2> QED BY <1>2, <2>1, <2>2
  <1>4. q > k - 1
    <2> SUFFICES ASSUME q <= k - 1 PROVE FALSE
      BY <1>2
    <2>1. g * q <= g * (k - 1)
      BY <1>2
    <2>2. g * (k - 1) = (k - 1) * g
      OBVIOUS
    <2> QED BY <1>2, <2>1, <2>2
  <1> QED BY <1>2, <1>3, <1>4 DEF Cuts, q

(* Segment k of a file of n bytes.                                         *)
Part(g, n, k) == Segment(k - 1, IF k * g <= n THEN g ELSE n - (k - 1) * g)

CutInv ==
    /\ length \in Nat
    /\ cutting /\ SegSize <= 0 => size = 0
    /\ cutting /\ SegSize > 0 =>
        /\ \A k \in 1 .. size : elems[k - 1] = Part(SegSize, length, k)
        /\ left > 0 => left = length - size * SegSize
        /\ left = 0 => size * SegSize >= length /\ length > (size - 1) * SegSize

LEMMA SegSizeType == SplitInv => SegSize \in Int
  BY SplitAssumption DEF SplitInv, SegSize, AsInt

LEMMA CutInitial == SplitInit => CutInv
  <1> SUFFICES ASSUME SplitInit PROVE CutInv
    OBVIOUS
  <1>1. length \in Nat /\ left = length /\ size = 0 /\ SegSize \in Int
    BY SplitInitial, SegSizeType, SplitAssumption DEF SplitInit, VInit
  <1>2. 0 * SegSize = 0 /\ (0 - 1) * SegSize = 0 - SegSize
    BY <1>1
  <1> QED BY <1>1, <1>2 DEF CutInv

LEMMA CutStep ==
    ASSUME VectorInv, SplitInv, CutInv, [SplitNext]_<<vectorVars, splitVars>>
    PROVE  CutInv'
  <1>1. CASE SplitRead
    <2> DEFINE g == SegSize
               bytes == IF left < g THEN left ELSE g
    <2>1. /\ cutting /\ g > 0 /\ left > 0 /\ Push(Segment(count, bytes)) /\ left' = left - bytes
          /\ UNCHANGED <<option, length, cutting>>
      BY <1>1 DEF SplitRead, Cut
    <2>2. g \in Nat \ {0} /\ left \in Nat \ {0} /\ length \in Nat /\ size \in Nat /\ count = size
      BY <2>1, SegSizeType DEF SplitInv, CutInv, VectorInv, VectorTypeOK
    <2>3. left = length - size * g /\ \A k \in 1 .. size : elems[k - 1] = Part(g, length, k)
      BY <2>1 DEF CutInv
    <2>4. SegSize' = g
      BY <2>1 DEF SegSize
    <2>5. /\ size' = size + 1 /\ elems'[size] = Segment(size, bytes)
          /\ \A k \in 1 .. size : elems'[k - 1] = elems[k - 1]
      <3>1. /\ Capacity(size + 1) \in Nat \ {0}
            /\ size + 1 <= Capacity(size + 1) /\ size <= capacity /\ capacity \in Nat
        BY CapacityFits DEF VectorInv, VectorTypeOK
      <3>2. /\ size' = size + 1
            /\ elems' = [k \in 0 .. Capacity(size + 1) - 1 |->
                           IF k = size THEN Segment(size, bytes)
                           ELSE IF size < k /\ k <= size THEN Slot(k - 1) ELSE Slot(k)]
        BY <2>1, <2>2 DEF Push, Insert
      <3>3. size \in 0 .. Capacity(size + 1) - 1
        BY <2>2, <3>1
      <3>4. \A k \in 1 .. size : /\ k - 1 \in 0 .. Capacity(size + 1) - 1 /\ k - 1 # size
                                 /\ ~(size < k - 1) /\ k - 1 < capacity
        BY <2>2, <3>1
      <3>5. \A k \in 1 .. size : elems'[k - 1] = Slot(k - 1) /\ Slot(k - 1) = elems[k - 1]
        BY <3>2, <3>4 DEF Slot
      <3> QED BY <3>2, <3>3, <3>5
    <2> HIDE DEF g
    <2>6. /\ Segment(size, bytes) = Part(g, length, size + 1)
          /\ left - bytes > 0 => left - bytes = length - (size + 1) * g
          /\ left - bytes = 0 => (size + 1) * g >= length /\ length > ((size + 1) - 1) * g
      <3> DEFINE p == size * g
      <3>1. (size + 1) * g = p + g /\ p \in Nat /\ ((size + 1) - 1) * g = p
        <4>1. (size + 1) * g = size * g + g /\ size * g \in Nat /\ (size + 1) - 1 = size
          BY <2>2
        <4> QED BY <4>1
      <3>2. left = length - p
        BY <2>3
      <3> HIDE DEF p
      <3>3. CASE left < g
        BY <2>2, <3>1, <3>2, <3>3 DEF Part
      <3>4. CASE ~(left < g)
        BY <2>2, <3>1, <3>2, <3>4 DEF Part
      <3> QED BY <3>3, <3>4
    <2> HIDE DEF bytes
    <2>7. ASSUME NEW k \in 1 .. size + 1 PROVE elems'[k - 1] = Part(g, length, k)
      <3>1. CASE k \in 1 .. size
        BY <2>3, <2>5, <3>1
      <3>2. CASE k = size + 1
        <4>1. k - 1 = size
          BY <2>2, <3>2
        <4> QED BY <2>5, <2>6, <3>2, <4>1
      <3> QED BY <2>2, <3>1, <3>2
    <2>8. length' = length /\ cutting' = cutting /\ left' = left - bytes /\ size' = size + 1 /\ ~(SegSize' <= 0)
      BY <2>1, <2>2, <2>4, <2>5
    <2> QED BY <2>2, <2>4, <2>6, <2>7, <2>8 DEF CutInv
  <1>2. CASE SplitEnd
    BY <1>2 DEF SplitEnd, CutInv
  <1>3. CASE CallerStep
    BY <1>3 DEF CallerStep, splitVars, CutInv
  <1>4. CASE UNCHANGED <<vectorVars, splitVars>>
    BY <1>4 DEF vectorVars, splitVars, CutInv, SegSize
  <1> QED BY <1>1, <1>2, <1>3, <1>4 DEF SplitNext

(* What is in the vector when split_file() returns.                        *)
LEMMA WholeAtEnd ==
    ASSUME VectorInv, SplitInv, CutInv, SplitEnd
    PROVE  /\ AsList = IF SegSize > 0 THEN Segments(length, SegSize) ELSE <<>>
           /\ count = size
  <1>1. cutting /\ (left = 0 \/ SegSize <= 0) /\ SegSize \in Int /\ length \in Nat /\ size \in Nat /\ count = size
    BY SegSizeType DEF SplitEnd, SplitInv, CutInv, VectorInv, VectorTypeOK
  <1>2. CASE SegSize > 0
    <2> DEFINE g == SegSize
    <2>1. g \in Nat \ {0} /\ left = 0
      BY <1>1, <1>2
    <2>2. /\ size * g >= length /\ length > (size - 1) * g
          /\ \A k \in 1 .. size : elems[k - 1] = Part(g, length, k)
      BY <1>1, <1>2, <2>1 DEF CutInv
    <2> HIDE DEF g
    <2>3. Cuts(g, length) = size
      BY <1>1, <2>1, <2>2, HowMany
    <2>4. Segments(length, g) = [k \in 1 .. size |-> Part(g, length, k)]
      BY <2>3 DEF Segments, Cuts, Part
    <2>5. AsList = Segments(length, g)
      BY <2>2, <2>4 DEF AsList
    <2> QED BY <1>1, <1>2, <2>5 DEF g
  <1>3. CASE ~(SegSize > 0)
    <2>1. size = 0
      BY <1>1, <1>3 DEF CutInv
    <2>2. 1 .. size = {}
      BY <2>1
    <2>3. AsList = <<>>
      BY <2>2 DEF AsList
    <2> QED BY <1>1, <1>3, <2>3
  <1> QED BY <1>2, <1>3

(* split_file() cuts the whole file, in order, into segments of the size   *)
(* that is left of -g, for any length, any -g and any width of an int.     *)
THEOREM WholeFileIsCut == SplitSpec => CutsWholeFile
  <1> DEFINE Inv == VectorInv /\ SplitInv /\ CutInv
  <1>1. SplitInit => Inv
    BY SplitInitial, VectorInitial, CutInitial
  <1>2. Inv /\ [SplitNext]_<<vectorVars, splitVars>> => Inv'
    BY SplitStep, VectorStep, CutStep
  <1>3. ASSUME Inv, SplitNext, cutting, ~cutting'
        PROVE  /\ AsList = IF SegSize > 0 THEN Segments(length, SegSize) ELSE <<>>
               /\ count = size
    <2>1. SplitEnd
      BY <1>3 DEF SplitNext, SplitRead, Cut, CallerStep
    <2> QED BY <1>3, <2>1, WholeAtEnd
  <1>4. Inv /\ [SplitNext]_<<vectorVars, splitVars>>
        => [cutting /\ ~cutting' =>
              /\ AsList = IF SegSize > 0 THEN Segments(length, SegSize) ELSE <<>>
              /\ count = size]_<<vectorVars, splitVars>>
    BY <1>3
  <1> QED BY <1>1, <1>2, <1>4, PTL DEF SplitSpec, CutsWholeFile

=============================================================================
