-------------------------- MODULE SearchServerProofs --------------------------
(***************************************************************************)
(* The search engine of hw4, for any text, any keys and any clients.       *)
(*                                                                         *)
(* The tree first: after p lines it holds exactly what the insertions of   *)
(* those lines ask for (Tree), by induction over the words of a line and,  *)
(* for insert(), over the letters of a word; and collect() lists what      *)
(* starts with a prefix, by induction over the height below a node.  Then  *)
(* the server: the search words on the two sides of a connection agree     *)
(* once what is on its way is read (FlowInv), and a thread that answers    *)
(* holds what the tree lists for its word (ThreadInv).                     *)
(***************************************************************************)
EXTENDS SearchServer, FiniteSetTheorems, SequenceTheorems, TLAPS

-----------------------------------------------------------------------------
(* Induction over the natural numbers, without an operator as parameter.   *)

LEMMA LeastNumber ==
    ASSUME NEW T \in SUBSET Nat, T # {}
    PROVE  \E m \in T : \A n \in T : m <= n
  <1> DEFINE R == OpToRel(<, Nat)
  <1>1. IsWellFoundedOn(R, Nat)
    BY NatLessThanWellFounded
  <1> HIDE DEF R
  <1>2. PICK m \in T : \A n \in T : ~(<<n, m>> \in R)
    BY <1>1, WFMin
  <1>3. ASSUME NEW n \in T PROVE m <= n
    <2>1. n \in Nat /\ m \in Nat /\ ~(<<n, m>> \in R)
      BY <1>2
    <2>2. ~(n < m)
      BY <2>1 DEF R, OpToRel
    <2> QED BY <2>1, <2>2
  <1> QED BY <1>3

(* The set of the numbers a fact holds of.                                 *)
LEMMA AllNumbers ==
    ASSUME NEW H \in SUBSET Nat, 0 \in H, \A n \in Nat : n \in H => n + 1 \in H
    PROVE  \A n \in Nat : n \in H
  <1> SUFFICES ASSUME NEW n \in Nat, n \notin H PROVE FALSE
    OBVIOUS
  <1> DEFINE T == Nat \ H
  <1>1. T \in SUBSET Nat /\ T # {}
    OBVIOUS
  <1>2. PICK m \in T : \A k \in T : m <= k
    BY <1>1, LeastNumber
  <1>3. m \in Nat /\ m # 0 /\ m - 1 \in Nat /\ m - 1 \notin T
    BY <1>2
  <1> QED BY <1>2, <1>3

LEMMA Listed ==
    ASSUME NEW S, NEW len \in Nat, NEW f \in [1 .. len -> S]
    PROVE  f \in Seq(S) /\ Len(f) = len
  <1>1. f \in Seq(S)
    BY SeqDef
  <1>2. DOMAIN f = 1 .. Len(f) /\ Len(f) \in Nat
    BY <1>1, LenProperties
  <1>3. 1 .. Len(f) = 1 .. len
    BY <1>2
  <1> QED BY <1>1, <1>2, <1>3

-----------------------------------------------------------------------------
(* strtok(): the words of a sentence.                                      *)

USE TrieAssumption

Letter == 0 .. Alpha - 1
Sentence == Seq(Letter)

LEMMA StartsFinite ==
    ASSUME NEW s \in Sentence
    PROVE  IsFiniteSet(WordStarts(s)) /\ WordStarts(s) \in SUBSET (1 .. Len(s))
  <1>1. WordStarts(s) \in SUBSET (1 .. Len(s)) /\ Len(s) \in Nat
    BY DEF WordStarts, Sentence
  <1>2. IsFiniteSet(1 .. Len(s))
    BY <1>1, FS_Interval
  <1> QED BY <1>1, <1>2, FS_Subset

(* Every number of a word is that of one start.                            *)
LEMMA StartOfWord ==
    ASSUME NEW s \in Sentence, NEW k \in 1 .. Cardinality(WordStarts(s))
    PROVE  \E i \in WordStarts(s) : Cardinality(StartsBefore(s, i)) = k - 1
  <1> DEFINE S == WordStarts(s)
             n == Cardinality(S)
             T == 0 .. n - 1
             rank == [i \in S |-> Cardinality(StartsBefore(s, i))]
  <1>1. IsFiniteSet(S) /\ S \in SUBSET Nat /\ n \in Nat
    BY StartsFinite, FS_CardinalityType DEF Sentence
  <1>2. IsFiniteSet(T) /\ Cardinality(T) = n
    <2> DEFINE last == n - 1
    <2>1. 0 \in Int /\ last \in Int /\ n \in Nat
      BY <1>1
    <2>2. (IF 0 > last THEN 0 ELSE last - 0 + 1) = n
      BY <2>1
    <2> HIDE DEF n, last
    <2>3. IsFiniteSet(0 .. last) /\ Cardinality(0 .. last) = n
      BY <2>1, <2>2, FS_Interval, Zenon
    <2> QED BY <2>3 DEF last
  <1>3. ASSUME NEW i \in S
        PROVE  /\ StartsBefore(s, i) \in SUBSET S /\ i \notin StartsBefore(s, i)
               /\ IsFiniteSet(StartsBefore(s, i)) /\ rank[i] \in T
    <2>1. StartsBefore(s, i) \in SUBSET S /\ i \notin StartsBefore(s, i)
      BY <1>1 DEF StartsBefore
    <2>2. /\ IsFiniteSet(StartsBefore(s, i)) /\ Cardinality(StartsBefore(s, i)) <= n
          /\ Cardinality(StartsBefore(s, i)) # n /\ Cardinality(StartsBefore(s, i)) \in Nat
      BY <1>1, <2>1, FS_Subset, FS_CardinalityType
    <2> QED BY <1>1, <2>1, <2>2
  <1>4. ASSUME NEW i \in S, NEW j \in S, i < j PROVE rank[i] # rank[j]
    <2>1. StartsBefore(s, i) \in SUBSET StartsBefore(s, j) /\ i \in StartsBefore(s, j)
      BY <1>1, <1>4 DEF StartsBefore
    <2>2. i \notin StartsBefore(s, i) /\ IsFiniteSet(StartsBefore(s, j))
      BY <1>3
    <2>3. Cardinality(StartsBefore(s, i)) # Cardinality(StartsBefore(s, j))
      BY <2>1, <2>2, FS_Subset
    <2> QED BY <2>3
  <1>5. rank \in Injection(S, T)
    <2>1. rank \in [S -> T]
      BY <1>3
    <2>2. \A i, j \in S : rank[i] = rank[j] => i = j
      <3>1. \A i, j \in S : i < j \/ j < i \/ i = j
        BY <1>1
      <3> HIDE DEF rank
      <3> QED BY <3>1, <1>4
    <2> HIDE DEF rank, S, T
    <2> QED BY <2>1, <2>2 DEF Injection, IsInjective
  <1>6. rank \in Surjection(S, T)
    BY <1>1, <1>2, <1>5, FS_Injection
  <1>7. k - 1 \in T
    BY <1>1
  <1>8. PICK i \in S : rank[i] = k - 1
    BY <1>6, <1>7 DEF Surjection
  <1> QED BY <1>8

LEMMA WordEnds ==
    ASSUME NEW s \in Sentence, NEW i \in WordStarts(s)
    PROVE  WordAt(s, i) \in Sentence /\ Len(WordAt(s, i)) <= Len(s) - i + 1
  <1>1. i \in 1 .. Len(s) /\ s[i] # Space /\ Len(s) \in Nat
    BY DEF WordStarts, Sentence
  <1> DEFINE T == {j \in i .. Len(s) : j = Len(s) \/ s[j + 1] = Space}
  <1>2. T \in SUBSET Nat /\ T # {}
    BY <1>1
  <1>3. PICK j \in T : \A m \in T : j <= m
    BY <1>2, LeastNumber
  <1>4. ASSUME NEW k \in i .. j PROVE s[k] # Space
    <2>1. CASE k = i
      BY <1>1, <2>1
    <2>2. CASE k # i
      <3>1. k - 1 \in i .. Len(s) /\ ~(j <= k - 1) /\ (k - 1) + 1 = k
        BY <1>1, <2>2
      <3>2. k - 1 \notin T
        BY <1>3, <3>1
      <3> QED BY <3>1, <3>2
    <2> QED BY <2>1, <2>2
  <1> DEFINE end == CHOOSE e \in i .. Len(s) : /\ \A k \in i .. e : s[k] # Space
                                               /\ e = Len(s) \/ s[e + 1] = Space
  <1>5. end \in i .. Len(s)
    BY <1>3, <1>4
  <1>6. WordAt(s, i) = SubSeq(s, i, end)
    BY DEF WordAt
  <1> HIDE DEF end
  <1> QED BY <1>1, <1>5, <1>6 DEF Sentence

LEMMA WordsType ==
    ASSUME NEW s \in Sentence
    PROVE  Words(s) \in Seq(Sentence)
  <1> DEFINE n == Cardinality(WordStarts(s))
  <1>1. n \in Nat
    BY StartsFinite, FS_CardinalityType
  <1>2. ASSUME NEW k \in 1 .. n PROVE Words(s)[k] \in Sentence
    <2> DEFINE i == CHOOSE i \in WordStarts(s) : Cardinality(StartsBefore(s, i)) = k - 1
    <2>1. i \in WordStarts(s)
      BY StartOfWord
    <2>2. Words(s)[k] = WordAt(s, i)
      BY DEF Words
    <2> HIDE DEF i
    <2> QED BY <2>1, <2>2, WordEnds
  <1>3. Words(s) = [k \in 1 .. n |-> Words(s)[k]]
    BY DEF Words
  <1> HIDE DEF n
  <1> QED BY <1>1, <1>2, <1>3, SeqDef

-----------------------------------------------------------------------------
(* Prefixes of sentences.                                                  *)

LEMMA PrefixMeans ==
    ASSUME NEW n \in Sentence, NEW s \in Sentence
    PROVE  IsPrefix(n, s) <=> Len(n) <= Len(s) /\ \A i \in 1 .. Len(n) : n[i] = s[i]
  <1>1. Len(n) \in Nat /\ Len(s) \in Nat /\ SubSeq(n, 1, Len(n)) = n
    BY SubSeqFull DEF Sentence
  <1>2. ASSUME Len(n) <= Len(s)
        PROVE  n = SubSeq(s, 1, Len(n)) <=> \A i \in 1 .. Len(n) : n[i] = s[i]
    <2> DEFINE t == SubSeq(s, 1, Len(n))
    <2>1. \A i \in 1 .. Len(n) : s[i] \in Letter
      BY <1>1, <1>2 DEF Sentence
    <2>2. t \in Seq(Letter) /\ Len(t) = Len(n) /\ \A i \in 1 .. Len(n) : t[i] = s[i]
      BY <1>1, <2>1
    <2> HIDE DEF t
    <2>3. (\A i \in 1 .. Len(n) : n[i] = s[i]) => n = t
      <3> SUFFICES ASSUME \A i \in 1 .. Len(n) : n[i] = s[i] PROVE n = t
        OBVIOUS
      <3>1. n \in Seq(Letter) /\ \A i \in 1 .. Len(n) : n[i] = t[i]
        BY <2>2 DEF Sentence
      <3> QED BY <2>2, <3>1, SeqEqual
    <2> QED BY <2>2, <2>3 DEF t
  <1> QED BY <1>1, <1>2 DEF IsPrefix

LEMMA PrefixesAre ==
    ASSUME NEW s \in Sentence
    PROVE  /\ Prefixes(s) = {n \in Sentence : IsPrefix(n, s)}
           /\ s \in Prefixes(s) /\ <<>> \in Prefixes(s)
           /\ \A n \in Prefixes(s) : Prefixes(n) \subseteq Prefixes(s)
  <1>1. Len(s) \in Nat /\ s \in Seq(Letter) /\ <<>> \in Sentence /\ Len(<<>>) = 0
    BY DEF Sentence
  <1>2. ASSUME NEW l \in 0 .. Len(s)
        PROVE  /\ SubSeq(s, 1, l) \in Sentence /\ Len(SubSeq(s, 1, l)) = l
               /\ \A i \in 1 .. l : SubSeq(s, 1, l)[i] = s[i]
    <2>1. \A i \in 1 .. l : s[i] \in Letter
      BY <1>1, <1>2
    <2> QED BY <1>1, <1>2, <2>1 DEF Sentence
  <1>3. ASSUME NEW l \in 0 .. Len(s) PROVE IsPrefix(SubSeq(s, 1, l), s)
    <2> DEFINE t == SubSeq(s, 1, l)
    <2>1. t \in Sentence /\ Len(t) = l /\ \A i \in 1 .. l : t[i] = s[i]
      BY <1>2
    <2> HIDE DEF t
    <2>2. Len(t) <= Len(s) /\ \A i \in 1 .. Len(t) : t[i] = s[i]
      BY <1>1, <1>3, <2>1
    <2> QED BY <2>1, <2>2, PrefixMeans DEF t
  <1>4. ASSUME NEW n \in Sentence, IsPrefix(n, s) PROVE n \in Prefixes(s)
    <2>1. Len(n) \in 0 .. Len(s) /\ \A i \in 1 .. Len(n) : n[i] = s[i]
      BY <1>1, <1>4, PrefixMeans DEF Sentence
    <2> DEFINE t == SubSeq(s, 1, Len(n))
    <2>2. t \in Prefixes(s)
      BY <2>1 DEF Prefixes
    <2>3. t \in Seq(Letter) /\ Len(t) = Len(n) /\ \A i \in 1 .. Len(n) : n[i] = t[i]
      BY <1>2, <2>1 DEF Sentence
    <2>4. n \in Seq(Letter)
      BY DEF Sentence
    <2> HIDE DEF t
    <2>5. n = t
      BY <2>3, <2>4, SeqEqual
    <2> QED BY <2>2, <2>5
  <1>5. Prefixes(s) = {n \in Sentence : IsPrefix(n, s)}
    <2>1. \A n \in Prefixes(s) : n \in Sentence /\ IsPrefix(n, s)
      BY <1>2, <1>3 DEF Prefixes
    <2> QED BY <1>4, <2>1
  <1>6. IsPrefix(s, s) /\ IsPrefix(<<>>, s)
    BY <1>1, PrefixMeans
  <1>7. ASSUME NEW n \in Prefixes(s), NEW m \in Prefixes(n) PROVE m \in Prefixes(s)
    <2>1. n \in Sentence /\ IsPrefix(n, s)
      BY <1>5, <1>7
    <2>2. PICK l \in 0 .. Len(n) : m = SubSeq(n, 1, l)
      BY <1>7 DEF Prefixes
    <2>3. Len(n) \in Nat /\ \A i \in 1 .. l : n[i] \in Letter
      BY <2>1, <2>2 DEF Sentence
    <2>4. m \in Sentence /\ Len(m) = l /\ \A i \in 1 .. l : m[i] = n[i]
      BY <2>2, <2>3 DEF Sentence
    <2>5. Len(n) <= Len(s) /\ \A i \in 1 .. Len(n) : n[i] = s[i]
      BY <2>1, PrefixMeans
    <2>6. Len(m) <= Len(s) /\ \A i \in 1 .. Len(m) : m[i] = s[i]
      BY <1>1, <2>2, <2>3, <2>4, <2>5
    <2> QED BY <1>4, <2>4, <2>6, PrefixMeans
  <1> QED BY <1>1, <1>5, <1>6, <1>7

(* What starts with n is n, or starts with exactly one child of n.         *)
LEMMA ChildPrefix ==
    ASSUME NEW n \in Sentence, NEW s \in Sentence
    PROVE  /\ \A i \in Letter : Append(n, i) \in Sentence /\ Len(Append(n, i)) = Len(n) + 1
           /\ IsPrefix(n, s) <=> n = s \/ \E i \in Letter : IsPrefix(Append(n, i), s)
           /\ \A i \in Letter : ~IsPrefix(Append(n, i), n)
           /\ \A i, j \in Letter : IsPrefix(Append(n, i), s) /\ IsPrefix(Append(n, j), s) => i = j
  <1>1. Len(n) \in Nat /\ Len(s) \in Nat /\ n \in Seq(Letter) /\ s \in Seq(Letter)
    BY DEF Sentence
  <1>2. ASSUME NEW i \in Letter
        PROVE  /\ Append(n, i) \in Seq(Letter) /\ Len(Append(n, i)) = Len(n) + 1
               /\ \A j \in 1 .. Len(n) : Append(n, i)[j] = n[j]
               /\ Append(n, i)[Len(n) + 1] = i
    BY <1>1, <1>2
  <1>3. \A i \in Letter : Append(n, i) \in Sentence
    BY <1>2 DEF Sentence
  <1>4. ASSUME NEW i \in Letter
        PROVE  IsPrefix(Append(n, i), s) <=> /\ Len(n) + 1 <= Len(s) /\ s[Len(n) + 1] = i
                                             /\ \A j \in 1 .. Len(n) : n[j] = s[j]
    <2> DEFINE c == Append(n, i)
    <2>1. /\ c \in Sentence /\ Len(c) = Len(n) + 1 /\ c[Len(n) + 1] = i
          /\ \A j \in 1 .. Len(n) : c[j] = n[j]
      BY <1>2, <1>3
    <2> HIDE DEF c
    <2>2. IsPrefix(c, s) <=> Len(n) + 1 <= Len(s) /\ \A j \in 1 .. Len(n) + 1 : c[j] = s[j]
      BY <2>1, PrefixMeans
    <2>3. (\A j \in 1 .. Len(n) + 1 : c[j] = s[j]) <=> /\ s[Len(n) + 1] = i
                                                      /\ \A j \in 1 .. Len(n) : n[j] = s[j]
      <3>1. \A j \in 1 .. Len(n) + 1 : j \in 1 .. Len(n) \/ j = Len(n) + 1
        BY <1>1
      <3>2. \A j \in 1 .. Len(n) : j \in 1 .. Len(n) + 1
        BY <1>1
      <3>3. Len(n) + 1 \in 1 .. Len(n) + 1
        BY <1>1
      <3> QED BY <2>1, <3>1, <3>2, <3>3
    <2> QED BY <2>2, <2>3 DEF c
  <1>5. ASSUME NEW i \in Letter PROVE ~IsPrefix(Append(n, i), n)
    <2>1. Append(n, i) \in Sentence /\ ~(Len(Append(n, i)) <= Len(n))
      BY <1>1, <1>2, <1>3
    <2> QED BY <2>1, PrefixMeans
  <1>6. IsPrefix(n, s) <=> Len(n) <= Len(s) /\ \A i \in 1 .. Len(n) : n[i] = s[i]
    BY PrefixMeans
  <1>7. ASSUME IsPrefix(n, s), Len(n) = Len(s) PROVE n = s
    BY <1>1, <1>6, <1>7, SeqEqual
  <1>8. ASSUME IsPrefix(n, s), Len(n) # Len(s) PROVE \E i \in Letter : IsPrefix(Append(n, i), s)
    <2>1. Len(n) + 1 \in 1 .. Len(s) /\ Len(n) + 1 <= Len(s)
      BY <1>1, <1>6, <1>8
    <2>2. s[Len(n) + 1] \in Letter
      BY <1>1, <2>1
    <2> QED BY <1>4, <1>6, <1>8, <2>1, <2>2
  <1>9. ASSUME NEW i \in Letter, IsPrefix(Append(n, i), s) PROVE IsPrefix(n, s)
    BY <1>1, <1>4, <1>6, <1>9
  <1>10. n = s => IsPrefix(n, s)
    BY <1>1, <1>6
  <1> QED BY <1>2, <1>3, <1>4, <1>5, <1>7, <1>8, <1>9, <1>10

-----------------------------------------------------------------------------
(* A list matches a set of insertions when its entries are those of the    *)
(* insertions, one each.                                                   *)
Line == [word : Sentence, freq : Nat]
Data == [word : Sentence, freq : Nat, at : Sentence]

Pairing(tx, list, H, b) ==
    /\ b \in [1 .. Len(list) -> H]
    /\ \A j, k \in 1 .. Len(list) : b[j] = b[k] => j = k
    /\ \A h \in H : \E k \in 1 .. Len(list) : b[k] = h
    /\ \A k \in 1 .. Len(list) : SameLine(list[k], tx[b[k][1]])

Matches(tx, list, H) == \E b \in [1 .. Len(list) -> H] : Pairing(tx, list, H, b)

LEMMA MatchesNothing ==
    ASSUME NEW tx
    PROVE  Matches(tx, <<>>, {})
  <1>1. 1 .. Len(<<>>) = {}
    OBVIOUS
  <1>2. [k \in {} |-> k] \in [{} -> {}]
    OBVIOUS
  <1>3. Pairing(tx, <<>>, {}, [k \in {} |-> k])
    BY <1>1, <1>2 DEF Pairing
  <1> QED BY <1>1, <1>2, <1>3 DEF Matches

LEMMA MatchesAdded ==
    ASSUME NEW tx, NEW list \in Seq(Data), NEW H, Matches(tx, list, H),
           NEW h, h \notin H, NEW d \in Data, SameLine(d, tx[h[1]])
    PROVE  Matches(tx, Append(list, d), H \cup {h})
  <1> DEFINE n == Len(list)
             new == Append(list, d)
  <1>1. n \in Nat /\ Len(new) = n + 1 /\ new[n + 1] = d /\ \A k \in 1 .. n : new[k] = list[k]
    OBVIOUS
  <1>2. PICK b \in [1 .. n -> H] : Pairing(tx, list, H, b)
    BY DEF Matches
  <1> DEFINE c == [k \in 1 .. n + 1 |-> IF k <= n THEN b[k] ELSE h]
  <1> HIDE DEF n, new
  <1>3. \A k \in 1 .. n + 1 : (k \in 1 .. n /\ k <= n) \/ (k = n + 1 /\ ~(k <= n) /\ k \notin 1 .. n)
    BY <1>1
  <1>4. n + 1 \in 1 .. n + 1 /\ \A k \in 1 .. n : k \in 1 .. n + 1
    BY <1>1
  <1>5. c[n + 1] = h /\ \A k \in 1 .. n : c[k] = b[k] /\ c[k] \in H
    <2>1. ~(n + 1 <= n) /\ \A k \in 1 .. n : k <= n
      BY <1>1
    <2>2. c[n + 1] = h
      BY <1>4, <2>1
    <2>3. \A k \in 1 .. n : c[k] = b[k] /\ b[k] \in H
      BY <1>2, <1>4, <2>1
    <2> QED BY <2>2, <2>3
  <1>6. c \in [1 .. n + 1 -> H \cup {h}]
    BY <1>2, <1>3
  <1> HIDE DEF c
  <1>7. /\ \A j, k \in 1 .. n : b[j] = b[k] => j = k
        /\ \A g \in H : \E k \in 1 .. n : b[k] = g
        /\ \A k \in 1 .. n : SameLine(list[k], tx[b[k][1]])
    BY <1>2 DEF Pairing, n
  <1>8. \A j, k \in 1 .. n + 1 : c[j] = c[k] => j = k
    BY <1>3, <1>5, <1>7
  <1>9. \A g \in H \cup {h} : \E k \in 1 .. n + 1 : c[k] = g
    BY <1>4, <1>5, <1>7
  <1>10. \A k \in 1 .. n + 1 : SameLine(new[k], tx[c[k][1]])
    BY <1>1, <1>3, <1>5, <1>7
  <1>11. Pairing(tx, new, H \cup {h}, c)
    BY <1>1, <1>6, <1>8, <1>9, <1>10 DEF Pairing
  <1> QED BY <1>1, <1>6, <1>11 DEF Matches, new

LEMMA MatchesJoined ==
    ASSUME NEW tx, NEW s \in Seq(Data), NEW t \in Seq(Data), NEW G, NEW H,
           Matches(tx, s, G), Matches(tx, t, H), G \cap H = {}
    PROVE  Matches(tx, s \o t, G \cup H)
  <1> DEFINE m == Len(s)
             n == Len(t)
             st == s \o t
  <1>1. /\ m \in Nat /\ n \in Nat /\ Len(st) = m + n
        /\ \A k \in 1 .. m : st[k] = s[k]
        /\ \A k \in 1 .. n : st[m + k] = t[k]
    OBVIOUS
  <1>2. PICK b \in [1 .. m -> G] : Pairing(tx, s, G, b)
    BY DEF Matches
  <1>3. PICK c \in [1 .. n -> H] : Pairing(tx, t, H, c)
    BY DEF Matches
  <1>4. /\ \A j, k \in 1 .. m : b[j] = b[k] => j = k
        /\ \A g \in G : \E k \in 1 .. m : b[k] = g
        /\ \A k \in 1 .. m : SameLine(s[k], tx[b[k][1]])
    BY <1>2 DEF Pairing
  <1>5. /\ \A j, k \in 1 .. n : c[j] = c[k] => j = k
        /\ \A h \in H : \E k \in 1 .. n : c[k] = h
        /\ \A k \in 1 .. n : SameLine(t[k], tx[c[k][1]])
    BY <1>3 DEF Pairing
  <1> DEFINE e == [k \in 1 .. m + n |-> IF k <= m THEN b[k] ELSE c[k - m]]
  <1> HIDE DEF m, n, st
  <1>6. \A k \in 1 .. m + n : \/ k \in 1 .. m /\ k <= m
                              \/ ~(k <= m) /\ k - m \in 1 .. n /\ m + (k - m) = k
    BY <1>1
  <1>7. /\ \A k \in 1 .. m : k \in 1 .. m + n /\ k <= m
        /\ \A k \in 1 .. n : m + k \in 1 .. m + n /\ ~(m + k <= m) /\ (m + k) - m = k
    BY <1>1
  <1>8. /\ \A k \in 1 .. m : e[k] = b[k] /\ e[k] \in G
        /\ \A k \in 1 .. n : e[m + k] = c[k] /\ e[m + k] \in H
    BY <1>2, <1>3, <1>7
  <1>9. e \in [1 .. m + n -> G \cup H]
    BY <1>2, <1>3, <1>6
  <1> HIDE DEF e
  <1>10. ASSUME NEW j \in 1 .. m + n, NEW k \in 1 .. m + n, e[j] = e[k]
         PROVE  j = k
    <2>1. CASE j \in 1 .. m /\ k \in 1 .. m
      BY <1>4, <1>8, <1>10, <2>1
    <2>2. CASE j - m \in 1 .. n /\ k - m \in 1 .. n /\ m + (j - m) = j /\ m + (k - m) = k
      <3>1. c[j - m] = c[k - m]
        BY <1>8, <1>10, <2>2
      <3>2. j - m = k - m
        BY <1>5, <2>2, <3>1
      <3> QED BY <2>2, <3>2
    <2>3. CASE j \in 1 .. m /\ k - m \in 1 .. n /\ m + (k - m) = k
      <3>1. e[j] \in G /\ e[k] \in H
        BY <1>8, <2>3
      <3> QED BY <1>10, <3>1
    <2>4. CASE k \in 1 .. m /\ j - m \in 1 .. n /\ m + (j - m) = j
      <3>1. e[k] \in G /\ e[j] \in H
        BY <1>8, <2>4
      <3> QED BY <1>10, <3>1
    <2> QED BY <1>6, <2>1, <2>2, <2>3, <2>4
  <1>11. \A g \in G \cup H : \E k \in 1 .. m + n : e[k] = g
    BY <1>4, <1>5, <1>7, <1>8
  <1>12. \A k \in 1 .. m + n : SameLine(st[k], tx[e[k][1]])
    <2>1. \A k \in 1 .. m : SameLine(st[k], tx[e[k][1]])
      BY <1>1, <1>4, <1>8
    <2>2. \A k \in 1 .. n : SameLine(st[m + k], tx[e[m + k][1]])
      BY <1>1, <1>5, <1>8
    <2> QED BY <1>6, <2>1, <2>2
  <1>13. Pairing(tx, st, G \cup H, e)
    BY <1>1, <1>9, <1>10, <1>11, <1>12 DEF Pairing
  <1> QED BY <1>1, <1>9, <1>13 DEF Matches, st

LEMMA MatchesEmpty ==
    ASSUME NEW tx, NEW list \in Seq(Data), NEW H, Matches(tx, list, H)
    PROVE  list = <<>> <=> H = {}
  <1>1. PICK b \in [1 .. Len(list) -> H] : Pairing(tx, list, H, b)
    BY DEF Matches
  <1>2. list = <<>> => 1 .. Len(list) = {}
    OBVIOUS
  <1>3. list # <<>> => 1 \in 1 .. Len(list)
    OBVIOUS
  <1> QED BY <1>1, <1>2, <1>3 DEF Pairing

-----------------------------------------------------------------------------
(* The insertions of the first p lines, and the tree they lead to.         *)
At(tx, h) == IF h[2] = 1 THEN tx[h[1]].word ELSE Words(tx[h[1]].word)[h[2]]

Insertions(tx, p) == {h \in (1 .. p) \X Nat : h[2] \in {1} \cup DOMAIN Words(tx[h[1]].word)}

LEMMA AtType ==
    ASSUME NEW tx \in Seq(Line), NEW h \in Insertions(tx, Len(tx))
    PROVE  /\ tx[h[1]] \in Line /\ tx[h[1]].word \in Sentence /\ tx[h[1]].freq \in Nat
           /\ At(tx, h) \in Sentence
  <1>1. h[1] \in 1 .. Len(tx) /\ h[2] \in {1} \cup DOMAIN Words(tx[h[1]].word)
    BY DEF Insertions
  <1>2. tx[h[1]] \in Line
    BY <1>1
  <1>3. tx[h[1]].word \in Sentence /\ tx[h[1]].freq \in Nat
    BY <1>2 DEF Line
  <1>4. Words(tx[h[1]].word) \in Seq(Sentence)
    BY <1>3, WordsType
  <1>5. \A k \in DOMAIN Words(tx[h[1]].word) : Words(tx[h[1]].word)[k] \in Sentence
    BY <1>4
  <1> QED BY <1>1, <1>2, <1>3, <1>5 DEF At

(* The tree has the nodes on the paths of the insertions in H, and each    *)
(* node the lines that were inserted there.                                *)
Tree(tx, t, H) ==
    /\ t = [n \in DOMAIN t |-> t[n]]
    /\ DOMAIN t = {<<>>} \cup UNION {Prefixes(At(tx, h)) : h \in H}
    /\ \E depth \in Nat : \A n \in DOMAIN t : Len(n) <= depth
    /\ \A n \in DOMAIN t :
        /\ t[n] \in [end_of_word : BOOLEAN, word_list : Seq(Data)]
        /\ t[n].end_of_word <=> t[n].word_list # <<>>
        /\ Matches(tx, t[n].word_list, {h \in H : At(tx, h) = n})

(* What insert() does to the list of the node it ends at, and what it      *)
(* inserts.                                                                *)
LEMMA InsertTree ==
    ASSUME NEW tx \in Seq(Line), NEW t, NEW H \in SUBSET Insertions(tx, Len(tx)), Tree(tx, t, H),
           NEW h \in Insertions(tx, Len(tx)), h \notin H, NEW G,
           G = IF At(tx, h) = tx[h[1]].word /\ (\E g \in H : At(tx, g) = At(tx, h))
                 THEN H ELSE H \cup {h}
    PROVE  Tree(tx, Insert(t, At(tx, h), tx[h[1]]), G)
  <1> DEFINE word == At(tx, h)
             line == tx[h[1]]
             data == [word |-> line.word, freq |-> line.freq, at |-> word]
             old == IF word \in DOMAIN t THEN t[word].word_list ELSE <<>>
             list == IF word = line.word /\ old # <<>> THEN old ELSE Append(old, data)
             new == Insert(t, word, line)
             There(F, n) == {g \in F : At(tx, g) = n}
             Node == [end_of_word : BOOLEAN, word_list : Seq(Data)]
  <1>1. word \in Sentence /\ line.word \in Sentence /\ line.freq \in Nat
    BY AtType
  <1>2. data \in Data /\ SameLine(data, line)
    BY <1>1 DEF Data, SameLine
  <1>3. \A g \in H : At(tx, g) \in DOMAIN t /\ At(tx, g) \in Sentence
    <2> SUFFICES ASSUME NEW g \in H PROVE At(tx, g) \in DOMAIN t /\ At(tx, g) \in Sentence
      OBVIOUS
    <2>1. At(tx, g) \in Sentence
      BY AtType
    <2>2. At(tx, g) \in Prefixes(At(tx, g))
      BY <2>1, PrefixesAre
    <2> QED BY <2>1, <2>2 DEF Tree
  <1>4. old \in Seq(Data) /\ Matches(tx, old, There(H, word))
    <2>1. CASE word \in DOMAIN t
      BY <2>1 DEF Tree
    <2>2. CASE word \notin DOMAIN t
      <3>1. There(H, word) = {}
        BY <1>3, <2>2
      <3>2. old = <<>>
        BY <2>2
      <3>3. Matches(tx, old, There(H, word))
        BY <3>1, <3>2, MatchesNothing, Zenon
      <3>4. <<>> \in Seq(Data)
        OBVIOUS
      <3> QED BY <3>2, <3>3, <3>4, Zenon
    <2> QED BY <2>1, <2>2
  <1> HIDE DEF old, data
  <1>5. old # <<>> <=> \E g \in H : At(tx, g) = word
    <2>1. old = <<>> <=> There(H, word) = {}
      BY <1>4, MatchesEmpty
    <2> QED BY <2>1
  <1>6. list \in Seq(Data) /\ list # <<>> /\ Matches(tx, list, There(G, word))
    <2>1. CASE word = line.word /\ old # <<>>
      <3>1. G = H /\ list = old
        BY <1>5, <2>1
      <3> QED BY <1>4, <2>1, <3>1
    <2>2. CASE ~(word = line.word /\ old # <<>>)
      <3>1. G = H \cup {h} /\ list = Append(old, data)
        BY <1>5, <2>2
      <3>2. There(G, word) = There(H, word) \cup {h} /\ h \notin There(H, word)
        BY <3>1
      <3>3. Matches(tx, Append(old, data), There(H, word) \cup {h})
        BY <1>2, <1>4, <3>2, MatchesAdded
      <3>4. Append(old, data) \in Seq(Data) /\ Append(old, data) # <<>>
        BY <1>2, <1>4
      <3> QED BY <3>1, <3>2, <3>3, <3>4
    <2> QED BY <2>1, <2>2
  <1>7. \A n \in DOMAIN t : n # word => There(G, n) = There(H, n)
    OBVIOUS
  <1>8. \A n : n \notin DOMAIN t /\ n # word => There(G, n) = {}
    BY <1>3
  <1>9. new = [n \in DOMAIN t \cup Prefixes(word) |->
                 IF n = word
                   THEN [end_of_word |-> TRUE, word_list |-> list]
                   ELSE IF n \in DOMAIN t THEN t[n] ELSE MakeNode]
    BY DEF Insert, data, old
  <1> HIDE DEF list, new
  <1>10. ASSUME NEW n \in DOMAIN new
         PROVE  /\ new[n] \in Node
                /\ new[n].end_of_word <=> new[n].word_list # <<>>
                /\ Matches(tx, new[n].word_list, There(G, n))
    <2>1. CASE n = word
      <3>1. new[n] = [end_of_word |-> TRUE, word_list |-> list]
        BY <1>9, <1>10, <2>1
      <3> QED BY <1>6, <2>1, <3>1
    <2>2. CASE n # word /\ n \in DOMAIN t
      <3>1. new[n] = t[n]
        BY <1>9, <2>2
      <3> QED BY <1>7, <2>2, <3>1 DEF Tree
    <2>3. CASE n # word /\ n \notin DOMAIN t
      <3>1. new[n] = MakeNode
        BY <1>9, <1>10, <2>3
      <3>2. MakeNode \in Node /\ ~MakeNode.end_of_word /\ MakeNode.word_list = <<>>
        BY DEF MakeNode
      <3>3. Matches(tx, new[n].word_list, There(G, n))
        <4>1. new[n].word_list = <<>> /\ There(G, n) = {}
          BY <1>8, <2>3, <3>1, <3>2
        <4> QED BY <4>1, MatchesNothing, Zenon
      <3> QED BY <3>1, <3>2, <3>3
    <2> QED BY <2>1, <2>2, <2>3
  <1>11. DOMAIN new = {<<>>} \cup UNION {Prefixes(At(tx, g)) : g \in G}
    <2>1. DOMAIN new = DOMAIN t \cup Prefixes(word)
      BY <1>9
    <2>2. DOMAIN t = {<<>>} \cup UNION {Prefixes(At(tx, g)) : g \in H}
      BY DEF Tree
    <2>3. CASE G = H
      <3>1. PICK g \in H : At(tx, g) = word
        BY <2>3
      <3> QED BY <2>1, <2>2, <2>3, <3>1
    <2>4. CASE G = H \cup {h}
      BY <2>1, <2>2, <2>4
    <2> QED BY <2>3, <2>4
  <1>12. \E depth \in Nat : \A n \in DOMAIN new : Len(n) <= depth
    <2>1. PICK d \in Nat : \A n \in DOMAIN t : Len(n) <= d
      BY DEF Tree
    <2>2. Len(word) \in Nat /\ \A n \in Prefixes(word) : n \in Sentence /\ Len(n) <= Len(word)
      BY <1>1, PrefixesAre, PrefixMeans DEF Sentence
    <2>3. \A n \in DOMAIN t : n \in Sentence
      <3>1. \A g \in H : \A n \in Prefixes(At(tx, g)) : n \in Sentence
        BY <1>3, PrefixesAre
      <3>2. <<>> \in Sentence
        BY DEF Sentence
      <3> QED BY <3>1, <3>2 DEF Tree
    <2>4. \A n \in DOMAIN t \cup Prefixes(word) : Len(n) \in Nat /\ (Len(n) <= d \/ Len(n) <= Len(word))
      BY <2>1, <2>2, <2>3 DEF Sentence
    <2>5. d + Len(word) \in Nat /\ \A n \in DOMAIN t \cup Prefixes(word) : Len(n) <= d + Len(word)
      BY <2>1, <2>2, <2>4
    <2> QED BY <1>9, <2>5
  <1>13. new = [n \in DOMAIN new |-> new[n]]
    BY <1>9
  <1>14. Tree(tx, new, G)
    BY <1>10, <1>11, <1>12, <1>13 DEF Tree
  <1> QED BY <1>14 DEF new

(* A later word of a sentence is never the sentence itself.                *)
LEMMA LaterWord ==
    ASSUME NEW s \in Sentence, NEW k \in DOMAIN Words(s) \ {1}
    PROVE  Words(s)[k] # s
  <1> DEFINE n == Cardinality(WordStarts(s))
             i == CHOOSE i \in WordStarts(s) : Cardinality(StartsBefore(s, i)) = k - 1
  <1>1. n \in Nat /\ Len(s) \in Nat
    BY StartsFinite, FS_CardinalityType DEF Sentence
  <1>2. k \in 1 .. n
    BY DEF Words
  <1>3. i \in WordStarts(s) /\ Cardinality(StartsBefore(s, i)) = k - 1
    BY <1>2, StartOfWord
  <1>4. Words(s)[k] = WordAt(s, i)
    BY <1>2 DEF Words
  <1> HIDE DEF i, n
  <1>5. StartsBefore(s, i) # {}
    <2>1. k - 1 # 0
      BY <1>2
    <2> QED BY <1>3, <2>1, FS_EmptySet
  <1>6. PICK j \in WordStarts(s) : j < i
    BY <1>5 DEF StartsBefore
  <1>7. i \in 1 .. Len(s) /\ j \in 1 .. Len(s) /\ i > 1
    BY <1>3, <1>6, StartsFinite
  <1>8. Len(WordAt(s, i)) <= Len(s) - i + 1
    BY <1>3, WordEnds
  <1>9. WordAt(s, i) \in Seq(Letter)
    BY <1>3, WordEnds DEF Sentence
  <1>10. Len(WordAt(s, i)) \in Nat
    BY <1>9
  <1> QED BY <1>1, <1>4, <1>7, <1>8, <1>10

Again(tx, i) ==
    \E j \in 1 .. i - 1 :
        \/ tx[j].word = tx[i].word
        \/ \E k \in DOMAIN Words(tx[j].word) \ {1} : Words(tx[j].word)[k] = tx[i].word

(* What the first p lines insert: a sentence that is there already adds    *)
(* nothing.                                                                *)
Events(tx, p) == {h \in Insertions(tx, p) : h[2] = 1 => ~Again(tx, h[1])}

LEMMA WordNumbers ==
    ASSUME NEW s \in Sentence
    PROVE  DOMAIN Words(s) = 1 .. Len(Words(s)) /\ Len(Words(s)) \in Nat
  BY WordsType

LEMMA AgainMeans ==
    ASSUME NEW tx \in Seq(Line), NEW i \in 1 .. Len(tx)
    PROVE  Again(tx, i) <=> \E g \in Events(tx, i - 1) : At(tx, g) = tx[i].word
  <1>1. i \in Nat /\ \A j \in 1 .. Len(tx) : tx[j] \in Line
    OBVIOUS
  <1>2. \A j \in 1 .. Len(tx) : tx[j].word \in Sentence
    BY <1>1 DEF Line
  <1>3. ASSUME NEW g \in Events(tx, i - 1), At(tx, g) = tx[i].word PROVE Again(tx, i)
    <2>1. g[1] \in 1 .. i - 1 /\ g[2] \in {1} \cup DOMAIN Words(tx[g[1]].word)
      BY DEF Events, Insertions
    <2> QED BY <1>3, <2>1 DEF Again, At
  <1>4. ASSUME NEW m \in 1 .. i, NEW j \in 1 .. m - 1, NEW k \in DOMAIN Words(tx[j].word) \ {1},
               Words(tx[j].word)[k] = tx[i].word
        PROVE  \E g \in Events(tx, i - 1) : At(tx, g) = tx[i].word
    <2>1. j \in 1 .. i - 1 /\ j \in 1 .. Len(tx)
      BY <1>1
    <2>2. k \in Nat
      BY <1>2, <2>1, WordNumbers
    <2> DEFINE g == <<j, k>>
    <2>3. g \in Insertions(tx, i - 1) /\ g[2] # 1
      BY <2>1, <2>2 DEF Insertions
    <2>4. At(tx, g) = tx[i].word
      BY <1>4 DEF At
    <2> QED BY <2>3, <2>4 DEF Events
  <1>5. ASSUME Again(tx, i) PROVE \E g \in Events(tx, i - 1) : At(tx, g) = tx[i].word
    <2> DEFINE T == {j \in 1 .. i - 1 : tx[j].word = tx[i].word}
    <2>1. CASE T = {}
      <3>1. PICK j \in 1 .. i - 1 : \E k \in DOMAIN Words(tx[j].word) \ {1} :
                                      Words(tx[j].word)[k] = tx[i].word
        BY <1>5, <2>1 DEF Again
      <3>2. i \in 1 .. i
        BY <1>1
      <3> QED BY <1>4, <3>1, <3>2
    <2>2. CASE T # {}
      <3>1. T \in SUBSET Nat
        OBVIOUS
      <3>2. PICK j \in T : \A m \in T : j <= m
        BY <2>2, <3>1, LeastNumber
      <3>3. j \in 1 .. i - 1 /\ tx[j].word = tx[i].word /\ j \in 1 .. i /\ j \in 1 .. Len(tx)
        BY <1>1
      <3>4. CASE ~Again(tx, j)
        <4> DEFINE g == <<j, 1>>
        <4>1. g \in Insertions(tx, i - 1) /\ g[1] = j /\ g[2] = 1
          BY <3>3 DEF Insertions
        <4>2. At(tx, g) = tx[i].word
          BY <3>3 DEF At
        <4> QED BY <3>4, <4>1, <4>2 DEF Events
      <3>5. CASE Again(tx, j)
        <4>1. PICK m \in 1 .. j - 1 : \/ tx[m].word = tx[j].word
                                      \/ \E k \in DOMAIN Words(tx[m].word) \ {1} :
                                           Words(tx[m].word)[k] = tx[j].word
          BY <3>5 DEF Again
        <4>2. m \in 1 .. i - 1 /\ ~(j <= m)
          BY <1>1, <3>3
        <4>3. m \notin T
          BY <3>2, <4>2
        <4>4. \E k \in DOMAIN Words(tx[m].word) \ {1} : Words(tx[m].word)[k] = tx[i].word
          BY <3>3, <4>1, <4>2, <4>3
        <4> QED BY <1>4, <3>3, <4>4
      <3> QED BY <3>4, <3>5
    <2> QED BY <2>1, <2>2
  <1> QED BY <1>3, <1>5

(* The trees after the words of a line, one after the other: the function  *)
(* of WithLine is defined.                                                 *)
LEMMA WithLineSteps ==
    ASSUME NEW t, NEW line, NEW n \in Nat, n = Len(Words(line.word))
    PROVE  \E f : /\ f = [k \in 0 .. n |->
                            IF k <= 1 THEN Insert(t, line.word, line)
                                      ELSE Insert(f[k - 1], Words(line.word)[k], line)]
                  /\ WithLine(t, line) = f[n]
  <1> DEFINE words == Words(line.word)
             Body(g, k) == IF k <= 1 THEN Insert(t, line.word, line)
                                     ELSE Insert(g[k - 1], words[k], line)
             Steps(m, g) == g = [k \in 0 .. m |-> Body(g, k)]
             T == {m \in Nat : \E g : Steps(m, g)}
  <1>1. 0 \in T
    <2> DEFINE g == [k \in 0 .. 0 |-> Insert(t, line.word, line)]
    <2>1. \A k \in 0 .. 0 : k <= 1
      OBVIOUS
    <2>2. Steps(0, g)
      BY <2>1
    <2> QED BY <2>2
  <1>2. ASSUME NEW m \in Nat, m \in T PROVE m + 1 \in T
    <2>1. PICK g : Steps(m, g)
      BY <1>2
    <2> DEFINE h == [k \in 0 .. m + 1 |-> IF k <= m THEN g[k] ELSE Body(g, m + 1)]
    <2>2. \A k \in 0 .. m + 1 : (k \in 0 .. m /\ k <= m) \/ (k = m + 1 /\ ~(k <= m))
      OBVIOUS
    <2>3. \A k \in 0 .. m + 1 : ~(k <= 1) => k - 1 \in 0 .. m /\ k - 1 <= m /\ k - 1 \in 0 .. m + 1
      OBVIOUS
    <2>4. \A k \in 0 .. m + 1 : ~(k <= 1) => h[k - 1] = g[k - 1]
      BY <2>3
    <2>5. \A k \in 0 .. m + 1 : Body(h, k) = Body(g, k)
      BY <2>4
    <2>6. \A k \in 0 .. m : g[k] = Body(g, k)
      BY <2>1
    <2> DEFINE e == [k \in 0 .. m + 1 |-> Body(h, k)]
    <2> HIDE DEF Body
    <2>7. \A k \in 0 .. m + 1 : (IF k <= m THEN g[k] ELSE Body(g, m + 1)) = Body(h, k)
      BY <2>2, <2>5, <2>6
    <2>8. h = e
      BY <2>7
    <2>9. Steps(m + 1, h)
      BY <2>8
    <2> HIDE DEF Steps, h
    <2> QED BY <2>9
  <1> HIDE DEF T
  <1>3. n \in T
    BY <1>1, <1>2, AllNumbers DEF T
  <1> DEFINE f == CHOOSE g : Steps(n, g)
  <1>4. Steps(n, f)
    BY <1>3 DEF T
  <1>5. WithLine(t, line) = f[n]
    BY DEF WithLine
  <1> QED BY <1>4, <1>5

(* set_data() reads a line: the tree of the lines before it becomes that   *)
(* of the lines up to it.                                                  *)
LEMMA WithLineTree ==
    ASSUME NEW tx \in Seq(Line), NEW i \in 1 .. Len(tx), NEW t, Tree(tx, t, Events(tx, i - 1))
    PROVE  Tree(tx, WithLine(t, tx[i]), Events(tx, i))
  <1> DEFINE line == tx[i]
             words == Words(line.word)
             n == Len(words)
             Upto(k) == {h \in Events(tx, i) : h[1] # i \/ h[2] <= k}
             First == Insert(t, line.word, line)
  <1>1. i \in Nat /\ line \in Line
    OBVIOUS
  <1>2. line.word \in Sentence
    BY <1>1 DEF Line
  <1>3. DOMAIN words = 1 .. n /\ n \in Nat
    BY <1>2, WordNumbers
  <1>4. /\ Events(tx, i) \in SUBSET Insertions(tx, Len(tx))
        /\ Events(tx, i - 1) = {h \in Events(tx, i) : h[1] # i}
        /\ \A h \in Events(tx, i) : h[2] \in Nat
    <2>1. \A h \in Events(tx, i) : h[1] \in 1 .. Len(tx) /\ h[2] \in Nat
      BY DEF Events, Insertions
    <2>2. \A h : h \in (1 .. i - 1) \X Nat <=> h \in (1 .. i) \X Nat /\ h[1] # i
      <3>1. \A j : j \in 1 .. i - 1 <=> j \in 1 .. i /\ j # i
        BY <1>1
      <3> QED BY <3>1
    <2>3. \A h \in (1 .. i) \X Nat : h \in (1 .. Len(tx)) \X Nat
      BY <1>1
    <2> QED BY <2>1, <2>2, <2>3 DEF Events, Insertions
  <1>5. ASSUME NEW k \in {1} \cup 1 .. n
        PROVE  /\ <<i, k>> \in Insertions(tx, i) /\ <<i, k>> \in Insertions(tx, Len(tx))
               /\ k # 1 => <<i, k>> \in Events(tx, i)
    <2>1. k \in Nat /\ i \in 1 .. i
      BY <1>1, <1>3
    <2>2. <<i, k>> \in Insertions(tx, i) /\ <<i, k>> \in Insertions(tx, Len(tx))
      BY <1>3, <2>1 DEF Insertions
    <2> QED BY <2>2 DEF Events
  <1>6. Tree(tx, First, Upto(1))
    <2> DEFINE h == <<i, 1>>
    <2>1. h \in Insertions(tx, i) /\ h \in Insertions(tx, Len(tx)) /\ h \notin Events(tx, i - 1)
      BY <1>4, <1>5
    <2>2. At(tx, h) = line.word /\ tx[h[1]] = line
      BY DEF At
    <2>3. Upto(1) = IF Again(tx, i) THEN Events(tx, i - 1) ELSE Events(tx, i - 1) \cup {h}
      <3>1. \A g \in Events(tx, i) : g[1] = i /\ g[2] <= 1 => g = h
        <4> SUFFICES ASSUME NEW g \in Events(tx, i), g[1] = i, g[2] <= 1 PROVE g = h
          OBVIOUS
        <4>1. g \in (1 .. i) \X Nat /\ g[2] \in {1} \cup 1 .. n
          BY <1>3 DEF Events, Insertions
        <4> QED BY <4>1
      <3>2. h \in Events(tx, i) <=> ~Again(tx, i)
        BY <2>1 DEF Events
      <3>3. h[1] = i /\ h[2] <= 1
        OBVIOUS
      <3> HIDE DEF h
      <3> QED BY <1>4, <3>1, <3>2, <3>3
    <2>4. Again(tx, i) <=> \E g \in Events(tx, i - 1) : At(tx, g) = line.word
      BY AgainMeans
    <2>5. Upto(1) = IF At(tx, h) = tx[h[1]].word /\ (\E g \in Events(tx, i - 1) : At(tx, g) = At(tx, h))
                      THEN Events(tx, i - 1) ELSE Events(tx, i - 1) \cup {h}
      BY <2>2, <2>3, <2>4
    <2>6. Events(tx, i - 1) \in SUBSET Insertions(tx, Len(tx))
      BY <1>4
    <2> HIDE DEF h, Upto
    <2>7. Tree(tx, Insert(t, At(tx, h), tx[h[1]]), Upto(1))
      BY <2>1, <2>5, <2>6, InsertTree
    <2> QED BY <2>2, <2>7
  <1>7. PICK f : /\ f = [k \in 0 .. n |-> IF k <= 1 THEN First ELSE Insert(f[k - 1], words[k], line)]
                 /\ WithLine(t, line) = f[n]
    <2>1. n \in Nat /\ n = Len(Words(line.word))
      BY <1>3
    <2> HIDE DEF n, line
    <2> QED BY <2>1, WithLineSteps, SMTT(30)
  <1>8. /\ \A k \in 0 .. n : k <= 1 => f[k] = First
        /\ \A k \in 0 .. n : ~(k <= 1) => f[k] = Insert(f[k - 1], words[k], line)
    BY <1>7
  <1> DEFINE K == {m \in Nat : m + 1 <= n => Tree(tx, f[m + 1], Upto(m + 1))}
  <1>9. 0 \in K
    <2>1. 0 + 1 = 1
      OBVIOUS
    <2>2. 1 <= n => f[1] = First
      BY <1>3, <1>8
    <2> HIDE DEF Upto, First
    <2> QED BY <1>6, <2>1, <2>2
  <1>10. ASSUME NEW m \in Nat, m \in K PROVE m + 1 \in K
    <2> SUFFICES ASSUME (m + 1) + 1 <= n PROVE Tree(tx, f[(m + 1) + 1], Upto((m + 1) + 1))
      OBVIOUS
    <2> DEFINE k == (m + 1) + 1
               h == <<i, k>>
    <2>1. k \in 0 .. n /\ k \in 1 .. n /\ ~(k <= 1) /\ k - 1 = m + 1 /\ m + 1 <= n
      BY <1>3
    <2>2. Tree(tx, f[k - 1], Upto(k - 1))
      BY <1>10, <2>1
    <2>3. f[k] = Insert(f[k - 1], words[k], line)
      BY <1>8, <2>1
    <2> HIDE DEF k
    <2>4. h \in Insertions(tx, Len(tx)) /\ h \in Events(tx, i)
      BY <1>5, <2>1
    <2>5. At(tx, h) = words[k] /\ tx[h[1]] = line
      BY <2>1 DEF At
    <2>6. words[k] # line.word
      BY <1>2, <1>3, <2>1, LaterWord
    <2>7. h \notin Upto(k - 1) /\ Upto(k) = Upto(k - 1) \cup {h}
      <3>1. \A g \in Events(tx, i) : g[2] \in Nat /\ (g[1] = i /\ g[2] = k => g = h)
        BY DEF Events, Insertions
      <3>2. \A j \in Nat : j <= k <=> j <= k - 1 \/ j = k
        BY <2>1
      <3>3. h[1] = i /\ h[2] = k /\ ~(k <= k - 1) /\ k <= k
        BY <2>1
      <3> HIDE DEF h
      <3> QED BY <2>4, <3>1, <3>2, <3>3
    <2>8. Upto(k - 1) \in SUBSET Insertions(tx, Len(tx))
      BY <1>4
    <2>9. Upto(k) = IF At(tx, h) = tx[h[1]].word /\ (\E g \in Upto(k - 1) : At(tx, g) = At(tx, h))
                      THEN Upto(k - 1) ELSE Upto(k - 1) \cup {h}
      BY <2>5, <2>6, <2>7
    <2> HIDE DEF h, Upto
    <2>10. Tree(tx, Insert(f[k - 1], At(tx, h), tx[h[1]]), Upto(k))
      BY <2>2, <2>4, <2>7, <2>8, <2>9, InsertTree
    <2> QED BY <2>3, <2>5, <2>10 DEF k
  <1> HIDE DEF K
  <1>11. \A m \in Nat : m \in K
    BY <1>9, <1>10, AllNumbers DEF K
  <1>12. CASE n <= 1
    <2>1. f[n] = First
      BY <1>3, <1>8, <1>12
    <2>2. Upto(1) = Events(tx, i)
      <3>1. \A h \in Events(tx, i) : h[1] = i => h[2] <= 1
        <4> SUFFICES ASSUME NEW h \in Events(tx, i), h[1] = i PROVE h[2] <= 1
          OBVIOUS
        <4>1. h[2] \in {1} \cup 1 .. n
          BY <1>3 DEF Events, Insertions
        <4> QED BY <1>3, <1>12, <4>1
      <3> QED BY <3>1
    <2> QED BY <1>6, <1>7, <2>1, <2>2
  <1>13. CASE ~(n <= 1)
    <2>1. n - 1 \in Nat /\ (n - 1) + 1 = n /\ n <= n
      BY <1>3, <1>13
    <2> HIDE DEF n
    <2>2. Tree(tx, f[n], Upto(n))
      BY <1>11, <2>1 DEF K
    <2>3. Upto(n) = Events(tx, i)
      <3>1. \A h \in Events(tx, i) : h[1] = i => h[2] <= n
        <4> SUFFICES ASSUME NEW h \in Events(tx, i), h[1] = i PROVE h[2] <= n
          OBVIOUS
        <4>1. h[2] \in {1} \cup 1 .. n
          BY <1>3 DEF Events, Insertions
        <4> QED BY <1>3, <1>13, <4>1
      <3> QED BY <3>1
    <2> QED BY <1>7, <2>2, <2>3
  <1> QED BY <1>12, <1>13

-----------------------------------------------------------------------------
(* collect(): what it lists below a node is what was inserted there.       *)

LEMMA FlattenSteps ==
    ASSUME NEW s, NEW n \in Nat \ {0}, Len(s) = n
    PROVE  \E f : /\ f = [k \in 1 .. n |-> IF k = 1 THEN s[k] ELSE f[k - 1] \o s[k]]
                  /\ FlattenSeq(s) = f[n]
  <1> DEFINE Body(g, k) == IF k = 1 THEN s[k] ELSE g[k - 1] \o s[k]
             Steps(m, g) == g = [k \in 1 .. m |-> Body(g, k)]
             T == {m \in Nat : \E g : Steps(m, g)}
  <1>1. 0 \in T
    <2> DEFINE g == [k \in 1 .. 0 |-> s[k]]
    <2>1. \A k \in 1 .. 0 : FALSE
      OBVIOUS
    <2>2. Steps(0, g)
      BY <2>1
    <2> HIDE DEF Steps, g
    <2> QED BY <2>2
  <1>2. ASSUME NEW m \in Nat, m \in T PROVE m + 1 \in T
    <2>1. PICK g : Steps(m, g)
      BY <1>2
    <2> DEFINE h == [k \in 1 .. m + 1 |-> IF k <= m THEN g[k] ELSE Body(g, m + 1)]
    <2>2. \A k \in 1 .. m + 1 : (k \in 1 .. m /\ k <= m) \/ (k = m + 1 /\ ~(k <= m))
      OBVIOUS
    <2>3. \A k \in 1 .. m + 1 : k # 1 => k - 1 \in 1 .. m /\ k - 1 <= m /\ k - 1 \in 1 .. m + 1
      OBVIOUS
    <2>4. \A k \in 1 .. m + 1 : k # 1 => h[k - 1] = g[k - 1]
      BY <2>3
    <2>5. \A k \in 1 .. m + 1 : Body(h, k) = Body(g, k)
      BY <2>4
    <2>6. \A k \in 1 .. m : g[k] = Body(g, k)
      BY <2>1
    <2> DEFINE e == [k \in 1 .. m + 1 |-> Body(h, k)]
    <2> HIDE DEF Body
    <2>7. \A k \in 1 .. m + 1 : (IF k <= m THEN g[k] ELSE Body(g, m + 1)) = Body(h, k)
      BY <2>2, <2>5, <2>6
    <2>8. h = e
      BY <2>7
    <2>9. Steps(m + 1, h)
      BY <2>8
    <2> HIDE DEF Steps, h
    <2> QED BY <2>9
  <1> HIDE DEF T
  <1>3. n \in T
    BY <1>1, <1>2, AllNumbers DEF T
  <1> DEFINE f == CHOOSE g : Steps(n, g)
  <1>4. Steps(n, f)
    BY <1>3 DEF T
  <1>5. FlattenSeq(s) = f[n]
    BY DEF FlattenSeq
  <1> QED BY <1>4, <1>5

LEMMA FlattenMatches ==
    ASSUME NEW tx, NEW n \in Nat \ {0}, NEW s \in Seq(Seq(Data)), Len(s) = n, NEW G,
           \A k \in 1 .. n : Matches(tx, s[k], G[k]),
           \A j, k \in 1 .. n : j # k => G[j] \cap G[k] = {},
           NEW H, \A h : h \in H <=> \E k \in 1 .. n : h \in G[k]
    PROVE  FlattenSeq(s) \in Seq(Data) /\ Matches(tx, FlattenSeq(s), H)
  <1>1. PICK f : /\ f = [k \in 1 .. n |-> IF k = 1 THEN s[k] ELSE f[k - 1] \o s[k]]
                 /\ FlattenSeq(s) = f[n]
    BY FlattenSteps
  <1> DEFINE U(m) == UNION {G[k] : k \in 1 .. m}
             P(m) == f[m] \in Seq(Data) /\ Matches(tx, f[m], U(m))
             K == {m \in Nat : m + 1 <= n => P(m + 1)}
  <1>2. \A k \in 1 .. n : s[k] \in Seq(Data)
    OBVIOUS
  <1>3. 0 \in K
    <2>1. 1 \in 1 .. n /\ f[1] = s[1]
      BY <1>1
    <2>2. U(1) = G[1]
      OBVIOUS
    <2>3. f[1] \in Seq(Data) /\ Matches(tx, f[1], U(1))
      <3>1. s[1] \in Seq(Data) /\ Matches(tx, s[1], G[1])
        BY <1>2, <2>1
      <3> HIDE DEF U
      <3> QED BY <2>1, <2>2, <3>1
    <2> HIDE DEF P
    <2>4. P(1)
      BY <2>3 DEF P
    <2>5. 0 + 1 = 1
      OBVIOUS
    <2> QED BY <2>4, <2>5
  <1>4. ASSUME NEW m \in Nat, m \in K PROVE m + 1 \in K
    <2> SUFFICES ASSUME (m + 1) + 1 <= n PROVE P((m + 1) + 1)
      OBVIOUS
    <2> DEFINE k == (m + 1) + 1
    <2>1. k \in 1 .. n /\ k # 1 /\ k - 1 = m + 1 /\ m + 1 <= n /\ k - 1 \in Nat
      OBVIOUS
    <2>2. P(k - 1)
      BY <1>4, <2>1
    <2> HIDE DEF k
    <2>3. f[k] = f[k - 1] \o s[k]
      BY <1>1, <2>1
    <2>4. \A j \in 1 .. k : (j \in 1 .. k - 1 /\ j \in 1 .. n /\ j # k) \/ j = k
      BY <2>1
    <2>5. \A j \in 1 .. k - 1 : j \in 1 .. k /\ j \in 1 .. n /\ j # k
      BY <2>1
    <2>6. U(k) = U(k - 1) \cup G[k]
      <3>1. k \in 1 .. k
        BY <2>1
      <3> QED BY <2>4, <2>5, <3>1
    <2>7. U(k - 1) \cap G[k] = {}
      BY <2>1, <2>5
    <2> HIDE DEF U
    <2>8. f[k - 1] \in Seq(Data) /\ s[k] \in Seq(Data) /\ Matches(tx, f[k - 1], U(k - 1)) /\ Matches(tx, s[k], G[k])
      BY <1>2, <2>1, <2>2
    <2>9. Matches(tx, f[k - 1] \o s[k], U(k - 1) \cup G[k])
      BY <2>7, <2>8, MatchesJoined
    <2>10. f[k - 1] \o s[k] \in Seq(Data)
      BY <2>8
    <2>11. P(k)
      BY <2>3, <2>6, <2>9, <2>10
    <2> HIDE DEF P
    <2> QED BY <2>11 DEF k
  <1> HIDE DEF K, P, U
  <1>5. \A m \in Nat : m \in K
    BY <1>3, <1>4, AllNumbers DEF K
  <1>6. n - 1 \in Nat /\ (n - 1) + 1 = n /\ n <= n
    OBVIOUS
  <1>7. P(n)
    BY <1>5, <1>6 DEF K
  <1>8. U(n) = H
    BY DEF U
  <1> QED BY <1>1, <1>7, <1>8 DEF P

LEMMA CollectSteps ==
    ASSUME NEW t, DOMAIN t \subseteq Sentence, NEW depth \in Nat, \A n \in DOMAIN t : Len(n) <= depth
    PROVE  \E f : /\ f = [n \in DOMAIN t |->
                            (IF t[n].end_of_word THEN t[n].word_list ELSE <<>>)
                              \o FlattenSeq([i \in 1 .. Alpha |->
                                    IF Append(n, i - 1) \in DOMAIN t THEN f[Append(n, i - 1)] ELSE <<>>])]
                  /\ \A n : Collect(t, n) = f[n]
  <1> DEFINE Kids(g, n) == [i \in 1 .. Alpha |->
                              IF Append(n, i - 1) \in DOMAIN t THEN g[Append(n, i - 1)] ELSE <<>>]
             Own(n) == IF t[n].end_of_word THEN t[n].word_list ELSE <<>>
             Body(g, n) == Own(n) \o FlattenSeq(Kids(g, n))
             Below(m) == {n \in DOMAIN t : Len(n) + m > depth}
             Steps(S, g) == g = [n \in S |-> Body(g, n)]
             T == {m \in Nat : \E g : Steps(Below(m), g)}
  <1>1. \A n \in DOMAIN t : Len(n) \in Nat
    BY DEF Sentence
  <1>2. 0 \in T
    <2> DEFINE g == [n \in {} |-> <<>>]
    <2>1. Below(0) = {}
      BY <1>1
    <2>2. Steps({}, g)
      OBVIOUS
    <2> HIDE DEF Steps, Below, g
    <2>3. Steps(Below(0), g)
      BY <2>1, <2>2
    <2> QED BY <2>3
  <1>3. ASSUME NEW m \in Nat, m \in T PROVE m + 1 \in T
    <2>1. PICK g : Steps(Below(m), g)
      BY <1>3
    <2> DEFINE h == [n \in Below(m + 1) |-> Body(g, n)]
    <2>2. ASSUME NEW n \in Below(m + 1), NEW i \in 1 .. Alpha, Append(n, i - 1) \in DOMAIN t
          PROVE  h[Append(n, i - 1)] = g[Append(n, i - 1)]
      <3> DEFINE c == Append(n, i - 1)
      <3>1. Len(c) = Len(n) + 1
        <4>1. i - 1 \in Letter
          BY DEF Letter
        <4> QED BY <4>1, ChildPrefix
      <3>2. c \in Below(m) /\ c \in Below(m + 1)
        BY <1>1, <2>2, <3>1
      <3>3. g[c] = Body(g, c)
        BY <2>1, <3>2
      <3> HIDE DEF Body, c, Below
      <3>4. h[c] = Body(g, c)
        BY <3>2
      <3> QED BY <3>3, <3>4 DEF c
    <2>3. ASSUME NEW n \in Below(m + 1) PROVE Kids(h, n) = Kids(g, n)
      <3> HIDE DEF h, Below
      <3> QED BY <2>2, <2>3
    <2>4. \A n \in Below(m + 1) : Body(g, n) = Body(h, n)
      <3> HIDE DEF Kids, h, Own
      <3> QED BY <2>3
    <2> DEFINE e == [n \in Below(m + 1) |-> Body(h, n)]
    <2>5. h = e
      <3> HIDE DEF Body
      <3> QED BY <2>4
    <2>6. Steps(Below(m + 1), h)
      BY <2>5
    <2> HIDE DEF Steps, h, Below
    <2> QED BY <2>6
  <1> HIDE DEF T
  <1>4. depth + 1 \in T
    <2>1. \A m \in Nat : m \in T
      BY <1>2, <1>3, AllNumbers DEF T
    <2> QED BY <2>1
  <1>5. Below(depth + 1) = DOMAIN t
    <2>1. \A n \in DOMAIN t : Len(n) + (depth + 1) > depth
      BY <1>1
    <2> QED BY <2>1
  <1> DEFINE f == CHOOSE g : Steps(DOMAIN t, g)
  <1>6. Steps(DOMAIN t, f)
    <2>1. \E g : Steps(DOMAIN t, g)
      <3> HIDE DEF Steps, Below
      <3> QED BY <1>4, <1>5 DEF T
    <2> HIDE DEF Steps
    <2> QED BY <2>1
  <1>7. \A n : Collect(t, n) = f[n]
    BY DEF Collect
  <1> QED BY <1>6, <1>7

(* A node lists the insertions that have it as prefix.                     *)
LEMMA CollectTree ==
    ASSUME NEW tx \in Seq(Line), NEW t, NEW H \in SUBSET Insertions(tx, Len(tx)), Tree(tx, t, H)
    PROVE  \A n \in DOMAIN t :
             /\ Collect(t, n) \in Seq(Data)
             /\ Matches(tx, Collect(t, n), {h \in H : IsPrefix(n, At(tx, h))})
  <1> DEFINE There(n) == {h \in H : At(tx, h) = n}
             From(n) == {h \in H : IsPrefix(n, At(tx, h))}
             Own(n) == IF t[n].end_of_word THEN t[n].word_list ELSE <<>>
  <1>1. \A h \in H : At(tx, h) \in Sentence /\ Prefixes(At(tx, h)) \subseteq DOMAIN t
    BY AtType DEF Tree
  <1>2. DOMAIN t \subseteq Sentence
    <2>1. \A h \in H : Prefixes(At(tx, h)) \subseteq Sentence
      BY <1>1, PrefixesAre
    <2>2. <<>> \in Sentence
      BY DEF Sentence
    <2> QED BY <2>1, <2>2 DEF Tree
  <1>3. PICK depth \in Nat : \A n \in DOMAIN t : Len(n) <= depth
    BY DEF Tree
  <1> DEFINE Kids(f, n) == [i \in 1 .. Alpha |->
                              IF Append(n, i - 1) \in DOMAIN t THEN f[Append(n, i - 1)] ELSE <<>>]
  <1>4. PICK f : /\ f = [n \in DOMAIN t |-> Own(n) \o FlattenSeq(Kids(f, n))]
                 /\ \A n : Collect(t, n) = f[n]
    BY <1>2, <1>3, CollectSteps
  <1> DEFINE P(n) == f[n] \in Seq(Data) /\ Matches(tx, f[n], From(n))
             Below(m) == {n \in DOMAIN t : Len(n) + m > depth}
             K == {m \in Nat : \A n \in Below(m) : P(n)}
  <1>5. \A n \in DOMAIN t : Len(n) \in Nat
    BY <1>2 DEF Sentence
  <1>6. 0 \in K
    <2>1. Below(0) = {}
      BY <1>3, <1>5
    <2> HIDE DEF Below, P
    <2> QED BY <2>1
  <1>7. ASSUME NEW m \in Nat, m \in K, NEW n \in Below(m + 1) PROVE P(n)
    <2> DEFINE s == Kids(f, n)
               G == [i \in 1 .. Alpha |-> From(Append(n, i - 1))]
    <2>1. n \in DOMAIN t /\ n \in Sentence /\ Len(n) \in Nat /\ Len(n) + (m + 1) > depth
      BY <1>2, <1>5
    <2>2. Own(n) \in Seq(Data) /\ Matches(tx, Own(n), There(n))
      <3>1. Own(n) = t[n].word_list
        BY <2>1 DEF Tree
      <3>2. t[n].word_list \in Seq(Data) /\ Matches(tx, t[n].word_list, There(n))
        BY <2>1 DEF Tree
      <3> QED BY <3>1, <3>2
    <2>3. \A i \in 1 .. Alpha : i - 1 \in Letter
      BY DEF Letter
    <2>4. ASSUME NEW i \in 1 .. Alpha PROVE s[i] \in Seq(Data) /\ Matches(tx, s[i], G[i])
      <3> DEFINE c == Append(n, i - 1)
      <3>1. c \in Sentence /\ Len(c) = Len(n) + 1
        BY <2>1, <2>3, ChildPrefix
      <3>2. G[i] = From(c)
        OBVIOUS
      <3>3. CASE c \in DOMAIN t
        <4>1. s[i] = f[c]
          BY <3>3
        <4>2. c \in Below(m)
          BY <2>1, <3>1, <3>3
        <4>3. P(c)
          BY <1>7, <4>2
        <4> HIDE DEF c, G, s, From
        <4> QED BY <3>2, <4>1, <4>3
      <3>4. CASE c \notin DOMAIN t
        <4>1. s[i] = <<>>
          BY <3>4
        <4>2. From(c) = {}
          <5> SUFFICES ASSUME NEW h \in H, IsPrefix(c, At(tx, h)) PROVE FALSE
            OBVIOUS
          <5>1. At(tx, h) \in Sentence
            BY <1>1
          <5>2. c \in Prefixes(At(tx, h))
            BY <3>1, <5>1, PrefixesAre
          <5> QED BY <1>1, <3>4, <5>2
        <4>3. <<>> \in Seq(Data)
          OBVIOUS
        <4> HIDE DEF c, G, s, From
        <4> QED BY <3>2, <4>1, <4>2, <4>3, MatchesNothing, Zenon
      <3> QED BY <3>3, <3>4
    <2>5. ASSUME NEW j \in 1 .. Alpha, NEW k \in 1 .. Alpha, j # k PROVE G[j] \cap G[k] = {}
      <3> SUFFICES ASSUME NEW h \in H, IsPrefix(Append(n, j - 1), At(tx, h)), IsPrefix(Append(n, k - 1), At(tx, h))
                   PROVE  FALSE
        OBVIOUS
      <3>1. j - 1 = k - 1
        BY <1>1, <2>1, <2>3, ChildPrefix
      <3> QED BY <2>5, <3>1
    <2>6. s \in Seq(Seq(Data)) /\ Len(s) = Alpha
      <3>1. s = [i \in 1 .. Alpha |-> s[i]]
        OBVIOUS
      <3>2. \A i \in 1 .. Alpha : s[i] \in Seq(Data)
        BY <2>4
      <3> HIDE DEF s
      <3>3. s \in [1 .. Alpha -> Seq(Data)]
        BY <3>1, <3>2
      <3>4. Alpha \in Nat
        OBVIOUS
      <3>5. s \in Seq(Seq(Data))
        BY <3>3, <3>4, SeqDef
      <3> QED BY <3>3, <3>4, <3>5
    <2> DEFINE Union == UNION {G[k] : k \in 1 .. Alpha}
    <2>7. FlattenSeq(s) \in Seq(Data) /\ Matches(tx, FlattenSeq(s), Union)
      <3>1. Alpha \in Nat \ {0}
        OBVIOUS
      <3>2. \A k \in 1 .. Alpha : Matches(tx, s[k], G[k])
        BY <2>4
      <3>3. \A j, k \in 1 .. Alpha : j # k => G[j] \cap G[k] = {}
        BY <2>5
      <3> HIDE DEF s, G
      <3>4. \A h : h \in Union <=> \E k \in 1 .. Alpha : h \in G[k]
        OBVIOUS
      <3> HIDE DEF Union
      <3> QED BY <2>6, <3>1, <3>2, <3>3, <3>4, FlattenMatches, Zenon
    <2>8. Union = {h \in H : \E i \in Letter : IsPrefix(Append(n, i), At(tx, h))}
      <3>1. \A i \in Letter : i + 1 \in 1 .. Alpha /\ (i + 1) - 1 = i
        BY DEF Letter
      <3>2. \A h \in Union : \E i \in Letter : IsPrefix(Append(n, i), At(tx, h))
        BY <2>3
      <3>3. \A h \in Union : h \in H
        OBVIOUS
      <3>4. ASSUME NEW h \in H, NEW i \in Letter, IsPrefix(Append(n, i), At(tx, h)) PROVE h \in Union
        <4>1. h \in G[i + 1]
          BY <3>1, <3>4
        <4> QED BY <3>1, <4>1
      <3> HIDE DEF Union
      <3> QED BY <3>2, <3>3, <3>4
    <2> HIDE DEF Union, s, G
    <2>9. /\ There(n) \cap Union = {}
          /\ There(n) \cup Union = From(n)
      <3>1. \A h \in H : IsPrefix(n, At(tx, h)) <=> \/ n = At(tx, h)
                                                    \/ \E i \in Letter : IsPrefix(Append(n, i), At(tx, h))
        BY <1>1, <2>1, ChildPrefix
      <3>2. \A i \in Letter : ~IsPrefix(Append(n, i), n)
        BY <2>1, ChildPrefix
      <3> QED BY <2>8, <3>1, <3>2
    <2>10. f[n] = Own(n) \o FlattenSeq(s)
      BY <1>4, <2>1 DEF s
    <2> HIDE DEF Own, There, From
    <2>11. Matches(tx, Own(n) \o FlattenSeq(s), From(n))
      <3>1. Matches(tx, Own(n) \o FlattenSeq(s), There(n) \cup Union)
        BY <2>2, <2>7, <2>9, MatchesJoined
      <3> QED BY <2>9, <3>1
    <2>12. Own(n) \o FlattenSeq(s) \in Seq(Data)
      BY <2>2, <2>7
    <2> QED BY <2>10, <2>11, <2>12
  <1>8. \A m \in Nat : m \in K
    <2>1. \A m \in Nat : m \in K => m + 1 \in K
      <3> HIDE DEF P, Below
      <3> QED BY <1>7
    <2> HIDE DEF K
    <2> QED BY <1>6, <2>1, AllNumbers DEF K
  <1>9. \A n \in DOMAIN t : n \in Below(depth + 1)
    BY <1>5
  <1>10. \A n \in DOMAIN t : P(n)
    <2>1. depth + 1 \in K
      <3> HIDE DEF K
      <3> QED BY <1>8
    <2> HIDE DEF P, Below
    <2> QED BY <1>9, <2>1
  <1> QED BY <1>4, <1>10

-----------------------------------------------------------------------------
(* set_data() and what a search lists.                                     *)

(* The tree is that of the lines read so far.                              *)
TrieInv ==
    /\ text \in Texts
    /\ pos \in 0 .. Len(text)
    /\ Tree(text, trie, Events(text, pos))

LEMMA TextType == \A tx \in Texts : tx \in Seq(Line)
  BY DEF TrieAssumption, Line, Sentence, Letter

LEMMA EventsInText ==
    ASSUME NEW tx \in Seq(Line), NEW p \in 0 .. Len(tx)
    PROVE  Events(tx, p) \in SUBSET Insertions(tx, Len(tx)) /\ Events(tx, p) \in SUBSET Insertions(tx, p)
  <1>1. \A i \in 1 .. p : i \in 1 .. Len(tx)
    OBVIOUS
  <1> QED BY <1>1 DEF Events, Insertions

LEMMA TrieInitial == TrieInit => TrieInv
  <1> SUFFICES ASSUME TrieInit PROVE TrieInv
    OBVIOUS
  <1>1. text \in Seq(Line) /\ text \in Texts /\ pos = 0 /\ trie = [n \in {<<>>} |-> MakeNode]
    BY TextType DEF TrieInit
  <1>2. DOMAIN trie = {<<>>} /\ trie[<<>>] = MakeNode /\ trie = [n \in DOMAIN trie |-> trie[n]]
    BY <1>1
  <1>3. Events(text, pos) = {}
    <2>1. 1 .. pos = {}
      BY <1>1
    <2> QED BY <2>1 DEF Events, Insertions
  <1>4. MakeNode \in [end_of_word : BOOLEAN, word_list : Seq(Data)] /\ ~MakeNode.end_of_word /\ MakeNode.word_list = <<>>
    BY DEF MakeNode
  <1>5. Matches(text, trie[<<>>].word_list, {h \in Events(text, pos) : At(text, h) = <<>>})
    <2>1. {h \in Events(text, pos) : At(text, h) = <<>>} = {} /\ trie[<<>>].word_list = <<>>
      BY <1>2, <1>3, <1>4
    <2> QED BY <2>1, MatchesNothing, Zenon
  <1>6. \E depth \in Nat : \A n \in DOMAIN trie : Len(n) <= depth
    <2>1. 0 \in Nat /\ Len(<<>>) <= 0
      OBVIOUS
    <2> QED BY <1>2, <2>1
  <1>7. DOMAIN trie = {<<>>} \cup UNION {Prefixes(At(text, h)) : h \in Events(text, pos)}
    BY <1>2, <1>3
  <1>8. Tree(text, trie, Events(text, pos))
    BY <1>2, <1>4, <1>5, <1>6, <1>7 DEF Tree
  <1>9. pos \in 0 .. Len(text)
    BY <1>1
  <1> QED BY <1>1, <1>8, <1>9 DEF TrieInv

LEMMA TrieStep == TrieInv /\ (LoadLine \/ UNCHANGED trieVars) => TrieInv'
  <1>1. ASSUME TrieInv, LoadLine PROVE TrieInv'
    <2> DEFINE i == pos + 1
    <2>1. /\ text \in Seq(Line) /\ text' = text /\ pos' = i /\ trie' = WithLine(trie, text[i])
          /\ pos \in 0 .. Len(text) /\ pos < Len(text)
      BY <1>1, TextType DEF TrieInv, LoadLine
    <2>2. i \in 1 .. Len(text) /\ i - 1 = pos /\ i \in 0 .. Len(text)
      BY <2>1
    <2> HIDE DEF i
    <2>3. Tree(text, trie, Events(text, i - 1))
      BY <1>1, <2>2 DEF TrieInv
    <2>4. Tree(text, WithLine(trie, text[i]), Events(text, i))
      BY <2>1, <2>2, <2>3, WithLineTree
    <2>5. text \in Texts
      BY <1>1 DEF TrieInv
    <2> QED BY <2>1, <2>2, <2>4, <2>5 DEF TrieInv
  <1>2. ASSUME TrieInv, UNCHANGED trieVars PROVE TrieInv'
    BY <1>2 DEF TrieInv, trieVars
  <1> QED BY <1>1, <1>2

(* The tree of the lines loaded: Insert, and set_data() with it, for any   *)
(* file.                                                                   *)
THEOREM TreeIsLoaded == TrieSpec => []TrieInv
  <1>1. LoadDone => UNCHANGED trieVars
    BY DEF LoadDone
  <1>2. TrieInv /\ [LoadLine \/ LoadDone]_trieVars => TrieInv'
    BY <1>1, TrieStep
  <1> QED BY <1>2, TrieInitial, PTL DEF TrieSpec

LEMMA TrieTypes == TrieInv => TrieTypeOK
  <1> SUFFICES ASSUME TrieInv PROVE TrieTypeOK
    OBVIOUS
  <1>1. text \in Seq(Line) /\ pos \in 0 .. Len(text)
    BY TextType DEF TrieInv
  <1> DEFINE H == Events(text, pos)
  <1>2. Tree(text, trie, H)
    BY DEF TrieInv
  <1>3. \A h \in H : At(text, h) \in Sentence
    BY <1>1, AtType, EventsInText
  <1>4. ASSUME NEW n \in DOMAIN trie
        PROVE  n \in Sentence /\ Prefixes(n) \subseteq DOMAIN trie
    <2>1. CASE n = <<>>
      <3>1. n \in Sentence
        BY <2>1 DEF Sentence
      <3>2. Prefixes(n) = {<<>>}
        <4>1. \A m \in Sentence : IsPrefix(m, <<>>) => m = <<>>
          <5> SUFFICES ASSUME NEW m \in Sentence, IsPrefix(m, <<>>) PROVE m = <<>>
            OBVIOUS
          <5>1. Len(m) <= Len(<<>>) /\ m \in Seq(Letter)
            BY <2>1, <3>1, PrefixMeans DEF Sentence
          <5> QED BY <5>1
        <4> QED BY <2>1, <3>1, <4>1, PrefixesAre
      <3>3. <<>> \in DOMAIN trie
        BY <1>2 DEF Tree
      <3> QED BY <3>1, <3>2, <3>3
    <2>2. CASE n # <<>>
      <3>1. PICK h \in H : n \in Prefixes(At(text, h))
        BY <1>2, <2>2 DEF Tree
      <3>2. Prefixes(n) \subseteq Prefixes(At(text, h)) /\ n \in Sentence
        BY <1>3, <3>1, PrefixesAre
      <3>3. Prefixes(At(text, h)) \subseteq DOMAIN trie
        BY <1>2, <3>1 DEF Tree
      <3> QED BY <3>2, <3>3
    <2> QED BY <2>1, <2>2
  <1>5. ASSUME NEW n \in DOMAIN trie
        PROVE  trie[n].end_of_word = (trie[n].word_list # <<>>) /\ trie[n].word_list \in Seq(Data)
    <2>1. /\ trie[n] \in [end_of_word : BOOLEAN, word_list : Seq(Data)]
          /\ trie[n].end_of_word <=> trie[n].word_list # <<>>
      BY <1>2 DEF Tree
    <2>2. trie[n].end_of_word \in BOOLEAN /\ trie[n].word_list \in Seq(Data)
      BY <2>1
    <2> QED BY <2>1, <2>2
  <1>6. Data = [word : Seq(0 .. Alpha - 1), freq : Nat, at : Seq(0 .. Alpha - 1)]
    BY DEF Data, Sentence, Letter
  <1>7. \A n \in DOMAIN trie : n \in Seq(0 .. Alpha - 1) /\ Search(trie, n)
    BY <1>4 DEF Sentence, Letter, Search
  <1> QED BY <1>1, <1>5, <1>6, <1>7 DEF TrieTypeOK

(* The insertions of the first p lines that answer prefix.                 *)
Starting(tx, p, prefix) == {h \in Events(tx, p) : IsPrefix(prefix, At(tx, h))}

LEMMA HitsMean == TrieInv => \A prefix : Hits(prefix) = Starting(text, pos, prefix)
  <1> SUFFICES ASSUME TrieInv, NEW n PROVE Hits(n) = Starting(text, pos, n)
    OBVIOUS
  <1>1. text \in Seq(Line) /\ pos \in 0 .. Len(text)
    BY TextType DEF TrieInv
  <1>2. \A i \in 1 .. pos : text[i].word \in Sentence
    <2>1. \A i \in 1 .. pos : i \in 1 .. Len(text)
      BY <1>1
    <2>2. \A i \in 1 .. Len(text) : text[i] \in Line
      BY <1>1
    <2> QED BY <2>1, <2>2 DEF Line
  <1>3. \A i \in 1 .. pos : \A k \in {1} \cup DOMAIN Words(text[i].word) : k \in Nat
    BY <1>2, WordNumbers
  <1>4. UNION {{i} \X ({1} \cup DOMAIN Words(text[i].word)) : i \in 1 .. pos} = Insertions(text, pos)
    <2> DEFINE U == UNION {{i} \X ({1} \cup DOMAIN Words(text[i].word)) : i \in 1 .. pos}
    <2>1. ASSUME NEW h \in U PROVE h \in Insertions(text, pos)
      <3>1. PICK i \in 1 .. pos : h \in {i} \X ({1} \cup DOMAIN Words(text[i].word))
        OBVIOUS
      <3>2. h \in (1 .. pos) \X Nat /\ h[1] = i /\ h[2] \in {1} \cup DOMAIN Words(text[i].word)
        BY <1>3, <3>1
      <3> QED BY <3>2 DEF Insertions
    <2>2. ASSUME NEW h \in Insertions(text, pos) PROVE h \in U
      <3>1. h[1] \in 1 .. pos /\ h \in {h[1]} \X ({1} \cup DOMAIN Words(text[h[1]].word))
        BY DEF Insertions
      <3> QED BY <3>1
    <2> HIDE DEF U
    <2>3. U = Insertions(text, pos)
      BY <2>1, <2>2
    <2> QED BY <2>3 DEF U
  <1>5. \A i : Repeated(i) <=> Again(text, i)
    BY DEF Repeated, Again
  <1> QED BY <1>4, <1>5 DEF Hits, Starting, Events, At

(* The node of a string lists what Hits says of it, one for one.           *)
LEMMA HitsAreListed ==
    TrieInv => \A n \in DOMAIN trie :
                 /\ n \in Sentence
                 /\ Collect(trie, n) \in Seq(Data)
                 /\ Matches(text, Collect(trie, n), Starting(text, pos, n))
  <1> SUFFICES ASSUME TrieInv, NEW n \in DOMAIN trie
               PROVE  /\ n \in Sentence
                      /\ Collect(trie, n) \in Seq(Data)
                      /\ Matches(text, Collect(trie, n), Starting(text, pos, n))
    OBVIOUS
  <1>1. text \in Seq(Line) /\ pos \in 0 .. Len(text) /\ Tree(text, trie, Events(text, pos))
    BY TextType DEF TrieInv
  <1>2. n \in Sentence
    BY TrieTypes DEF TrieTypeOK, Sentence, Letter
  <1>3. Events(text, pos) \in SUBSET Insertions(text, Len(text))
    BY <1>1, EventsInText
  <1> QED BY <1>1, <1>2, <1>3, CollectTree DEF Starting

LEMMA FoundLemma == TrieInv => \A n \in DOMAIN trie \ {<<>>} : Collect(trie, n) # <<>>
  <1> SUFFICES ASSUME TrieInv, NEW n \in DOMAIN trie, n # <<>> PROVE Collect(trie, n) # <<>>
    OBVIOUS
  <1>1. text \in Seq(Line) /\ pos \in 0 .. Len(text) /\ Tree(text, trie, Events(text, pos))
    BY TextType DEF TrieInv
  <1>2. PICK h \in Events(text, pos) : n \in Prefixes(At(text, h))
    BY <1>1 DEF Tree
  <1>3. At(text, h) \in Sentence
    BY <1>1, AtType, EventsInText
  <1>4. h \in Starting(text, pos, n)
    BY <1>2, <1>3, PrefixesAre DEF Starting
  <1> QED BY <1>4, HitsAreListed, MatchesEmpty

(* What search() finds has something to list, for any file: the assertion  *)
(* of vector_get(results, 0) in handle_client() does not fail.             *)
THEOREM FoundListed == TrieSpec => []FoundIsListed
  <1>1. TrieInv => FoundIsListed
    BY FoundLemma DEF FoundIsListed
  <1> QED BY <1>1, TreeIsLoaded, PTL

LEMMA EventOfSentence ==
    ASSUME NEW tx \in Seq(Line), NEW p \in 0 .. Len(tx), NEW i \in 1 .. p
    PROVE  \E h \in Events(tx, p) : At(tx, h) = tx[i].word
  <1>1. i \in 1 .. Len(tx) /\ i - 1 \in 0 .. Len(tx) /\ \A j \in 1 .. i - 1 : j \in 1 .. p
    OBVIOUS
  <1>2. CASE Again(tx, i)
    <2>1. PICK g \in Events(tx, i - 1) : At(tx, g) = tx[i].word
      BY <1>1, <1>2, AgainMeans
    <2>2. g \in Events(tx, p)
      BY <1>1 DEF Events, Insertions
    <2> QED BY <2>1, <2>2
  <1>3. CASE ~Again(tx, i)
    <2> DEFINE h == <<i, 1>>
    <2>1. h \in Events(tx, p) /\ At(tx, h) = tx[i].word
      BY <1>3 DEF Events, Insertions, At
    <2> QED BY <2>1
  <1> QED BY <1>2, <1>3

(* Counting what is listed: in all, and of one line.                       *)
LEMMA MatchesCount ==
    ASSUME NEW tx \in Seq(Line), NEW list \in Seq(Data), NEW H \in SUBSET Insertions(tx, Len(tx)),
           Matches(tx, list, H)
    PROVE  /\ Len(list) = Cardinality(H)
           /\ \A k \in DOMAIN list : \E h \in H : SameLine(list[k], tx[h[1]])
           /\ \A i \in 1 .. Len(tx) :
                Cardinality({k \in DOMAIN list : SameLine(list[k], tx[i])})
                  = Cardinality({h \in H : tx[h[1]] = tx[i]})
  <1> DEFINE S == 1 .. Len(list)
  <1>1. PICK b \in [S -> H] : Pairing(tx, list, H, b)
    BY DEF Matches
  <1>2. /\ \A j, k \in S : b[j] = b[k] => j = k
        /\ \A h \in H : \E k \in S : b[k] = h
        /\ \A k \in S : SameLine(list[k], tx[b[k][1]])
    BY <1>1 DEF Pairing
  <1>3. IsFiniteSet(S) /\ Cardinality(S) = Len(list) /\ DOMAIN list = S /\ Len(list) \in Nat
    <2>1. Len(list) \in Nat /\ DOMAIN list = S
      OBVIOUS
    <2> DEFINE last == Len(list)
    <2>2. 1 \in Int /\ last \in Int /\ (IF 1 > last THEN 0 ELSE last - 1 + 1) = last
      BY <2>1
    <2> HIDE DEF last
    <2>3. IsFiniteSet(1 .. last) /\ Cardinality(1 .. last) = last
      BY <2>2, FS_Interval, Zenon
    <2> QED BY <2>1, <2>3 DEF last
  <1> HIDE DEF S
  <1>4. b \in Bijection(S, H)
    BY <1>1, <1>2 DEF Bijection, Injection, Surjection, IsInjective
  <1>5. Cardinality(H) = Cardinality(S)
    BY <1>3, <1>4, FS_Bijection DEF ExistsBijection
  <1>6. ASSUME NEW i \in 1 .. Len(tx)
        PROVE  Cardinality({k \in S : SameLine(list[k], tx[i])}) = Cardinality({h \in H : tx[h[1]] = tx[i]})
    <2> DEFINE P == {k \in S : SameLine(list[k], tx[i])}
               Q == {h \in H : tx[h[1]] = tx[i]}
               c == [k \in P |-> b[k]]
    <2>1. ASSUME NEW k \in S PROVE SameLine(list[k], tx[i]) <=> tx[b[k][1]] = tx[i]
      <3>1. b[k] \in Insertions(tx, Len(tx))
        BY <1>1
      <3>2. tx[b[k][1]] \in Line /\ tx[i] \in Line
        BY <3>1, AtType
      <3>3. tx[b[k][1]].word = list[k].word /\ tx[b[k][1]].freq = list[k].freq
        BY <1>2 DEF SameLine
      <3>4. \A l, m \in Line : l.word = m.word /\ l.freq = m.freq => l = m
        BY DEF Line
      <3> QED BY <3>2, <3>3, <3>4 DEF SameLine
    <2>2. \A k \in P : k \in S /\ b[k] \in Q /\ c[k] = b[k]
      BY <1>1, <2>1
    <2>3. c \in [P -> Q]
      BY <2>2
    <2>4. \A h \in Q : \E k \in P : c[k] = h
      BY <1>2, <2>1
    <2>5. \A j, k \in P : c[j] = c[k] => j = k
      BY <1>2, <2>2
    <2>6. IsFiniteSet(P)
      BY <1>3, FS_Subset
    <2> HIDE DEF P, Q, c
    <2>7. c \in Bijection(P, Q)
      BY <2>3, <2>4, <2>5 DEF Bijection, Injection, Surjection, IsInjective
    <2>8. Cardinality(Q) = Cardinality(P)
      BY <2>6, <2>7, FS_Bijection DEF ExistsBijection
    <2> QED BY <2>8 DEF P, Q
  <1> QED BY <1>1, <1>2, <1>3, <1>5, <1>6

(* The whole tree is listed for the empty word: the first line is in it.   *)
LEMMA RootLists ==
    ASSUME TrieInv, Loaded, <<>> \in DOMAIN trie, Collect(trie, <<>>) = <<>>
    PROVE  text = <<>>
  <1> SUFFICES ASSUME text # <<>> PROVE FALSE
    OBVIOUS
  <1>1. text \in Seq(Line) /\ pos = Len(text)
    BY TextType DEF TrieInv, Loaded
  <1>2. pos \in Nat /\ 1 \in 1 .. pos
    BY <1>1
  <1> DEFINE h == <<1, 1>>
  <1>3. h \in Events(text, pos)
    <2>1. h \in Insertions(text, pos)
      BY <1>2 DEF Insertions
    <2>2. ~Again(text, 1)
      BY AgainMeans DEF Again
    <2> QED BY <2>1, <2>2 DEF Events
  <1>4. h \in Starting(text, pos, <<>>)
    BY <1>1, <1>2, <1>3, AtType, EventsInText DEF Starting, IsPrefix
  <1>5. Matches(text, <<>>, Starting(text, pos, <<>>))
    BY HitsAreListed
  <1>6. <<>> \in Seq(Data)
    OBVIOUS
  <1> QED BY <1>4, <1>5, <1>6, MatchesEmpty

LEMMA HitsLemma == TrieInv => CollectsHits
  <1> SUFFICES ASSUME TrieInv PROVE CollectsHits
    OBVIOUS
  <1>1. text \in Seq(Line) /\ pos \in 0 .. Len(text) /\ Tree(text, trie, Events(text, pos))
    BY TextType DEF TrieInv
  <1>2. /\ Events(text, pos) \in SUBSET Insertions(text, Len(text))
        /\ \A h \in Events(text, pos) : h[1] \in 1 .. pos
        /\ \A i \in 1 .. pos : i \in 1 .. Len(text)
    BY <1>1, EventsInText DEF Insertions
  <1>3. ASSUME NEW n \in DOMAIN trie, NEW list, list = Collect(trie, n)
        PROVE  /\ Len(list) = Cardinality(Hits(n))
               /\ \A k \in DOMAIN list : \E i \in 1 .. pos : SameLine(list[k], text[i])
               /\ \A i \in 1 .. pos :
                    Cardinality({k \in DOMAIN list : SameLine(list[k], text[i])})
                      = Cardinality({h \in Hits(n) : text[h[1]] = text[i]})
    <2>1. /\ list \in Seq(Data) /\ Matches(text, list, Hits(n))
          /\ Hits(n) \in SUBSET Insertions(text, Len(text)) /\ \A h \in Hits(n) : h[1] \in 1 .. pos
      <3>1. Hits(n) = Starting(text, pos, n)
        BY HitsMean
      <3>2. list \in Seq(Data) /\ Matches(text, list, Starting(text, pos, n))
        BY <1>3, HitsAreListed
      <3> QED BY <1>2, <3>1, <3>2 DEF Starting
    <2> DEFINE H == Hits(n)
    <2> HIDE DEF H
    <2>2. text \in Seq(Line) /\ list \in Seq(Data) /\ H \in SUBSET Insertions(text, Len(text)) /\ Matches(text, list, H)
      BY <1>1, <2>1 DEF H
    <2>3. /\ Len(list) = Cardinality(H)
          /\ \A k \in DOMAIN list : \E h \in H : SameLine(list[k], text[h[1]])
          /\ \A i \in 1 .. Len(text) :
               Cardinality({k \in DOMAIN list : SameLine(list[k], text[i])})
                 = Cardinality({h \in H : text[h[1]] = text[i]})
      BY <2>2, MatchesCount
    <2>4. \A k \in DOMAIN list : \E i \in 1 .. pos : SameLine(list[k], text[i])
      BY <2>1, <2>3 DEF H
    <2> QED BY <1>2, <2>3, <2>4 DEF H
  <1>4. \A h \in Events(text, pos) : Search(trie, At(text, h))
    BY <1>1 DEF Tree, Search
  <1>5. ASSUME NEW i \in 1 .. pos
        PROVE  /\ Search(trie, text[i].word)
               /\ \A k \in DOMAIN Words(text[i].word) \ {1} : Search(trie, Words(text[i].word)[k])
    <2>1. Search(trie, text[i].word)
      BY <1>1, <1>4, EventOfSentence
    <2>2. ASSUME NEW k \in DOMAIN Words(text[i].word) \ {1} PROVE Search(trie, Words(text[i].word)[k])
      <3> DEFINE h == <<i, k>>
      <3>1. text[i].word \in Sentence
        <4>1. text[i] \in Line
          BY <1>1, <1>2
        <4> QED BY <4>1 DEF Line
      <3>2. k \in Nat
        BY <3>1, WordNumbers
      <3>3. h \in Events(text, pos) /\ At(text, h) = Words(text[i].word)[k]
        BY <3>2 DEF Events, Insertions, At
      <3> QED BY <1>4, <3>3
    <2> QED BY <2>1, <2>2
  <1> QED BY <1>3, <1>5 DEF CollectsHits

(* search() and collect() find and list the lines they should, as often as *)
(* they should, for any file.                                              *)
THEOREM SearchListsHits == TrieSpec => []CollectsHits
  BY TreeIsLoaded, HitsLemma, PTL

-----------------------------------------------------------------------------
(* The clients and their threads.                                          *)
USE SearchAssumption

(* An answer to w, once p lines are loaded.                                *)
Good(tx, p, w, r) ==
    /\ Len(r) = FewerOf(Limit, Cardinality(Starting(tx, p, w)))
    /\ \A k \in DOMAIN r : r[k] = Garbage \/ \E h \in Starting(tx, p, w) : r[k] = tx[h[1]].word

(* What the search word of a thread is made of.                            *)
Word == Seq(Letter \cup {Other})

(* Keys on their way of which only the last is not the one that starts a   *)
(* new word.                                                               *)
Resets(s) == \A k \in 1 .. Len(s) : s[k] = Reset
Asked(s, key) == s # <<>> /\ s[Len(s)] = key /\ \A k \in 1 .. Len(s) - 1 : s[k] = Reset

(* The key a client waits for an answer to: it is on its way, behind those *)
(* that start a new word; or the thread has taken it, and is searching; or *)
(* has answered; or the key was the backslash, which nobody answers.       *)
Waiting(c) == hPc[c] \in {"none", "read"}

Sent(c) ==
    /\ Waiting(c) /\ down[c] = <<>>
    /\ \E key \in Bytes :
        /\ Asked(up[c], key)
        /\ Len(up[c]) = 1 => cWord[c] = Added(hWord[c], key)
        /\ Len(up[c]) # 1 => cWord[c] = Added(<<>>, key)

Working(c) ==
    /\ hPc[c] \in {"search", "answer"}
    /\ up[c] = <<>> /\ down[c] = <<>> /\ hWord[c] = cWord[c]

Replied(c) ==
    /\ hPc[c] = "read"
    /\ up[c] = <<>> /\ hWord[c] = cWord[c]
    /\ \E r \in Results : down[c] = <<r>> /\ (~Wild(cWord[c]) => Good(text, pos, cWord[c], r))

Stuck(c) == hPc[c] = "read" /\ up[c] = <<>> /\ down[c] = <<>>

(* How the two search words agree while both sides are there: the thread   *)
(* has the word of the client, or will when it has read what is on its     *)
(* way.                                                                    *)
FlowInv(c) == Open(c) =>
    /\ cPc[c] = "start" => /\ hPc[c] = "none" /\ up[c] = <<>> /\ down[c] = <<>>
                           /\ cWord[c] = <<>> /\ hWord[c] = <<>>
    /\ cPc[c] = "type" =>
        /\ Waiting(c) /\ down[c] = <<>> /\ Resets(up[c])
        /\ up[c] = <<>> => hWord[c] = cWord[c]
        /\ up[c] # <<>> => cWord[c] = <<>>
        /\ cWord[c] # <<>> => hPc[c] = "read"
        /\ cWord[c] # <<>> /\ ~Wild(cWord[c]) => Good(text, pos, cWord[c], shown[c])
    /\ cPc[c] = "reply" => Sent(c) \/ Working(c) \/ Replied(c) \/ Stuck(c)
    /\ cPc[c] = "menu" => Waiting(c) /\ down[c] = <<>> /\ Resets(up[c]) /\ cWord[c] = <<>>
    /\ cPc[c] = "closed" => Waiting(c) /\ Asked(up[c], Quit)
    /\ cPc[c] # "killed"

(* What a thread has found is what the tree lists for its word.            *)
ThreadInv(c) ==
    /\ hPc[c] # "none" => Loaded
    /\ hPc[c] = "answer" =>
        \E n \in DOMAIN trie : found[c] = Collect(trie, n) /\ (~Wild(hWord[c]) => n = hWord[c])

TypesOK ==
    /\ cPc \in [Clients -> {"start", "type", "reply", "menu", "closed", "gone", "killed"}]
    /\ cWord \in [Clients -> Seq(Bytes)]
    /\ shown \in [Clients -> Results]
    /\ up \in [Clients -> Seq(Bytes)]
    /\ down \in [Clients -> Seq(Results)]
    /\ hPc \in [Clients -> {"none", "read", "search", "answer", "closed"}]
    /\ hWord \in [Clients -> Word]
    /\ found \in [Clients -> Seq(Data)]
    /\ scrambled \in SUBSET Data
    /\ alive \in BOOLEAN

IInv ==
    /\ TrieInv
    /\ TypesOK
    /\ SurvivesQuit
    /\ \A c \in Clients : FlowInv(c) /\ ThreadInv(c)

-----------------------------------------------------------------------------
(* The answers.                                                            *)

LEMMA NodeOfWord ==
    ASSUME TrieInv, NEW w \in Sentence
    PROVE  /\ Search(trie, w) <=> w \in DOMAIN trie
           /\ ~Search(trie, w) => Starting(text, pos, w) = {}
  <1>1. TrieTypeOK /\ text \in Seq(Line) /\ pos \in 0 .. Len(text) /\ Tree(text, trie, Events(text, pos))
    BY TrieTypes, TextType DEF TrieInv
  <1>2. w \in DOMAIN trie => Search(trie, w)
    BY <1>1 DEF TrieTypeOK
  <1>3. Search(trie, w) => w \in DOMAIN trie
    BY PrefixesAre DEF Search
  <1>4. ASSUME NEW h \in Starting(text, pos, w) PROVE Search(trie, w)
    <2>1. h \in Events(text, pos) /\ IsPrefix(w, At(text, h))
      BY <1>4 DEF Starting
    <2>2. At(text, h) \in Sentence /\ Prefixes(At(text, h)) \subseteq DOMAIN trie
      BY <1>1, <2>1, AtType, EventsInText DEF Tree
    <2>3. w \in Prefixes(At(text, h))
      BY <2>1, <2>2, PrefixesAre
    <2> QED BY <1>2, <2>2, <2>3
  <1> QED BY <1>2, <1>3, <1>4

LEMMA GoodMiss ==
    ASSUME TrieInv, NEW w \in Sentence, ~Search(trie, w)
    PROVE  <<>> \in Results /\ Good(text, pos, w, <<>>)
  <1>1. Starting(text, pos, w) = {} /\ Cardinality({}) = 0
    BY NodeOfWord, FS_EmptySet
  <1>2. Cardinality(Starting(text, pos, w)) = 0
    BY <1>1
  <1>3. Limit \in Nat /\ Len(<<>>) = 0 /\ \A k \in DOMAIN <<>> : FALSE
    BY DEF SearchAssumption
  <1>4. FewerOf(Limit, 0) = 0
    BY <1>3 DEF FewerOf
  <1>5. <<>> \in Results
    BY <1>3 DEF Results
  <1> QED BY <1>2, <1>3, <1>4, <1>5 DEF Good

(* What HAnswer sends.                                                     *)
LEMMA GoodFound ==
    ASSUME TrieInv, NEW w \in Sentence, Search(trie, w), NEW list, list = Collect(trie, w), NEW torn, NEW r,
           r = [k \in 1 .. FewerOf(Limit, Len(list)) |-> IF list[k] \in torn THEN Garbage ELSE list[k].word]
    PROVE  r \in Results /\ Good(text, pos, w, r)
  <1> DEFINE H == Starting(text, pos, w)
             n == FewerOf(Limit, Len(list))
  <1>1. text \in Seq(Line) /\ pos \in 0 .. Len(text) /\ w \in DOMAIN trie
    BY TextType, NodeOfWord DEF TrieInv
  <1>2. list \in Seq(Data) /\ Matches(text, list, H) /\ H \in SUBSET Insertions(text, Len(text))
    BY <1>1, HitsAreListed, EventsInText DEF Starting
  <1> HIDE DEF H
  <1>3. Len(list) = Cardinality(H) /\ \A k \in DOMAIN list : \E h \in H : SameLine(list[k], text[h[1]])
    BY <1>1, <1>2, MatchesCount
  <1>4. n \in Nat /\ n <= Limit /\ n <= Len(list) /\ DOMAIN list = 1 .. Len(list) /\ Len(list) \in Nat
    BY <1>2 DEF FewerOf, SearchAssumption
  <1>5. \A k \in 1 .. n : k \in DOMAIN list /\ list[k] \in Data
    BY <1>2, <1>4
  <1>6. \A k \in 1 .. n : r[k] = Garbage \/ (r[k] = list[k].word /\ r[k] \in Sentence)
    BY <1>5 DEF Data
  <1>7. DOMAIN r = 1 .. n
    OBVIOUS
  <1>8. r \in Seq(Sentence \cup {Garbage}) /\ Len(r) = n
    <2> DEFINE E == Sentence \cup {Garbage}
    <2>1. \A k \in 1 .. n : r[k] \in E
      BY <1>6
    <2>2. r = [k \in 1 .. n |-> r[k]] /\ n \in Nat
      BY <1>4
    <2> HIDE DEF n, E
    <2>3. r \in [1 .. n -> E] /\ n \in Nat
      BY <2>1, <2>2
    <2>4. r \in Seq(E) /\ Len(r) = n
      <3>1. \A S : \A m \in Nat : \A f \in [1 .. m -> S] : f \in Seq(S) /\ Len(f) = m
        BY Listed
      <3>2. \A m \in Nat : \A f \in [1 .. m -> E] : f \in Seq(E) /\ Len(f) = m
        BY <3>1
      <3>3. \A f \in [1 .. n -> E] : f \in Seq(E) /\ Len(f) = n
        BY <2>3, <3>2
      <3> QED BY <2>3, <3>3
    <2> QED BY <2>4 DEF E
  <1>9. r \in Results
    BY <1>4, <1>8 DEF Results, Sentence, Letter
  <1>10. \A k \in DOMAIN r : r[k] = Garbage \/ \E h \in H : r[k] = text[h[1]].word
    BY <1>3, <1>5, <1>6, <1>7 DEF SameLine
  <1> QED BY <1>3, <1>8, <1>9, <1>10 DEF Good, H

-----------------------------------------------------------------------------
(* Keys on their way.                                                      *)

LEMMA Appended ==
    ASSUME NEW S, NEW s \in Seq(S), NEW e \in S
    PROVE  Append(s, e) \in Seq(S) /\ Append(s, e) # <<>>
  OBVIOUS

(* The two search words get the same character.                            *)
LEMMA KeyAdded ==
    ASSUME NEW S, NEW s \in Seq(S), NEW key, key \in S \/ key = Nul
    PROVE  Added(s, key) \in Seq(S)
  <1>1. CASE key = Nul
    BY <1>1 DEF Added
  <1>2. CASE key # Nul
    BY <1>2, Appended DEF Added
  <1> QED BY <1>1, <1>2

(* A word without a wild byte is one of the tree's, or might be.           *)
LEMMA TameWord ==
    ASSUME NEW w \in Word
    PROVE  ~Wild(w) <=> w \in Sentence
  <1>1. w \in [1 .. Len(w) -> Letter \cup {Other}] /\ Len(w) \in Nat /\ DOMAIN w = 1 .. Len(w)
    BY DEF Word
  <1>2. ASSUME ~Wild(w) PROVE w \in Sentence
    <2>1. \A k \in 1 .. Len(w) : w[k] \in Letter
      BY <1>1, <1>2 DEF Wild
    <2>2. w \in [1 .. Len(w) -> Letter]
      BY <1>1, <2>1
    <2> QED BY <1>1, <2>2, Listed DEF Sentence
  <1>3. ASSUME w \in Sentence PROVE ~Wild(w)
    <2>1. \A k \in DOMAIN w : w[k] \in Letter
      BY <1>3 DEF Sentence
    <2>2. Other \notin Letter
      BY DEF Other, Letter
    <2> QED BY <2>1, <2>2 DEF Wild
  <1> QED BY <1>2, <1>3

(* A search that ends at a node of the tree goes astray or finds its word. *)
LEMMA ReachedNode ==
    ASSUME TrieInv, NEW w \in Word, NEW n \in Reached(w)
    PROVE  n \in DOMAIN trie /\ (~Wild(w) => n = w)
  BY DEF Reached, Astray, Wild

LEMMA KeysAppended ==
    ASSUME NEW S, NEW s \in Seq(S), Resets(s), NEW key \in S
    PROVE  /\ Append(s, key) \in Seq(S) /\ Asked(Append(s, key), key)
           /\ key = Reset => Resets(Append(s, key))
           /\ Len(Append(s, key)) = 1 <=> s = <<>>
  <1> DEFINE t == Append(s, key)
  <1>1. /\ t \in Seq(S) /\ Len(s) \in Nat /\ Len(t) = Len(s) + 1 /\ t[Len(s) + 1] = key /\ t # <<>>
        /\ \A k \in 1 .. Len(s) : t[k] = s[k]
        /\ s = <<>> <=> Len(s) = 0
    OBVIOUS
  <1> HIDE DEF t
  <1>2. \A k \in 1 .. Len(t) : k \in 1 .. Len(s) \/ k = Len(s) + 1
    BY <1>1
  <1>3. \A k \in 1 .. Len(t) - 1 : k \in 1 .. Len(s)
    BY <1>1
  <1>4. Asked(t, key)
    BY <1>1, <1>3 DEF Asked, Resets
  <1>5. key = Reset => Resets(t)
    BY <1>1, <1>2 DEF Resets
  <1>6. Len(t) = 1 <=> s = <<>>
    BY <1>1
  <1> QED BY <1>1, <1>4, <1>5, <1>6 DEF t

LEMMA ResetsRead ==
    ASSUME NEW S, NEW s \in Seq(S), s # <<>>, Resets(s)
    PROVE  Head(s) = Reset /\ Tail(s) \in Seq(S) /\ Resets(Tail(s))
  <1>1. /\ Tail(s) \in Seq(S) /\ Head(s) = s[1] /\ 1 \in 1 .. Len(s)
        /\ \A k \in 1 .. Len(Tail(s)) : k + 1 \in 1 .. Len(s) /\ Tail(s)[k] = s[k + 1]
    OBVIOUS
  <1> QED BY <1>1 DEF Resets

LEMMA AskedRead ==
    ASSUME NEW S, NEW s \in Seq(S), s # <<>>, NEW key, Asked(s, key)
    PROVE  /\ Tail(s) \in Seq(S)
           /\ Len(s) = 1 => Head(s) = key /\ Tail(s) = <<>>
           /\ Len(s) # 1 => Head(s) = Reset /\ Asked(Tail(s), key)
  <1> DEFINE t == Tail(s)
             n == Len(s)
  <1>1. /\ t \in Seq(S) /\ n \in Nat \ {0} /\ Len(t) = n - 1 /\ Head(s) = s[1]
        /\ \A k \in 1 .. n - 1 : t[k] = s[k + 1]
        /\ t = <<>> <=> Len(t) = 0
    <2>1. t \in Seq(S) /\ Len(t) = Len(s) - 1 /\ \A k \in 1 .. Len(t) : t[k] = s[k + 1]
      BY HeadTailProperties
    <2>2. Len(s) \in Nat \ {0} /\ Head(s) = s[1]
      OBVIOUS
    <2> HIDE DEF t
    <2>3. t = <<>> <=> Len(t) = 0
      BY <2>1
    <2> QED BY <2>1, <2>2, <2>3
  <1>2. s[n] = key /\ \A k \in 1 .. n - 1 : s[k] = Reset
    BY DEF Asked
  <1> HIDE DEF t, n
  <1>3. n = 1 => Head(s) = key /\ t = <<>>
    BY <1>1, <1>2
  <1>4. ASSUME n # 1 PROVE Head(s) = Reset /\ Asked(t, key)
    <2>1. 1 \in 1 .. n - 1 /\ n - 1 \in 1 .. n - 1 /\ (n - 1) + 1 = n /\ Len(t) = n - 1 /\ t # <<>>
      BY <1>1, <1>4
    <2>2. t[Len(t)] = key
      BY <1>1, <1>2, <2>1
    <2>3. \A k \in 1 .. Len(t) - 1 : k \in 1 .. n - 1 /\ k + 1 \in 1 .. n - 1
      BY <1>1
    <2> QED BY <1>1, <1>2, <2>1, <2>2, <2>3 DEF Asked
  <1> QED BY <1>1, <1>3, <1>4 DEF t, n

-----------------------------------------------------------------------------
(* The inductive invariant at the start, and the other connections while   *)
(* one takes a step.                                                       *)

LEMMA ServerInitial == Init => IInv
  <1> SUFFICES ASSUME Init PROVE IInv
    OBVIOUS
  <1>1. TrieInv /\ alive = TRUE /\ scrambled = {}
    BY TrieInitial DEF Init
  <1>2. \A S : <<>> \in Seq(S)
    OBVIOUS
  <1>3. <<>> \in Results /\ <<>> \in Word
    BY <1>2 DEF Results, Word, SearchAssumption
  <1>4. TypesOK
    BY <1>1, <1>2, <1>3 DEF Init, TypesOK
  <1>5. ASSUME NEW c \in Clients PROVE FlowInv(c) /\ ThreadInv(c)
    BY <1>5 DEF Init, FlowInv, ThreadInv
  <1> QED BY <1>1, <1>4, <1>5 DEF IInv, SurvivesQuit

(* What is the same for connection d.                                      *)
Same(d) ==
    /\ cPc'[d] = cPc[d] /\ cWord'[d] = cWord[d] /\ shown'[d] = shown[d]
    /\ up'[d] = up[d] /\ down'[d] = down[d]
    /\ hPc'[d] = hPc[d] /\ hWord'[d] = hWord[d] /\ found'[d] = found[d]

LEMMA OthersKeep ==
    ASSUME NEW d \in Clients, Same(d), UNCHANGED trieVars, alive' => alive, FlowInv(d), ThreadInv(d)
    PROVE  FlowInv(d)' /\ ThreadInv(d)'
  <1>1. /\ text' = text /\ pos' = pos /\ trie' = trie
        /\ cPc'[d] = cPc[d] /\ cWord'[d] = cWord[d] /\ shown'[d] = shown[d]
        /\ up'[d] = up[d] /\ down'[d] = down[d]
        /\ hPc'[d] = hPc[d] /\ hWord'[d] = hWord[d] /\ found'[d] = found[d]
    BY DEF Same, trieVars
  <1>2. ThreadInv(d)'
    BY <1>1 DEF ThreadInv, Loaded
  <1>3. Open(d)' => Open(d)
    BY <1>1 DEF Open
  <1>4. FlowInv(d)'
    BY <1>1, <1>3 DEF FlowInv, Waiting, Sent, Working, Replied, Stuck
  <1> QED BY <1>2, <1>4

-----------------------------------------------------------------------------
(* Each step and its own connection.                                       *)

(* What of the invariant a step of c reads, in one place.                  *)
LEMMA Read ==
    ASSUME IInv, NEW c \in Clients
    PROVE  /\ FlowInv(c) /\ ThreadInv(c) /\ SurvivesQuit /\ TrieInv
           /\ cPc \in [Clients -> {"start", "type", "reply", "menu", "closed", "gone", "killed"}]
           /\ hPc \in [Clients -> {"none", "read", "search", "answer", "closed"}]
           /\ cWord \in [Clients -> Seq(Bytes)] /\ cWord[c] \in Seq(Bytes)
           /\ shown \in [Clients -> Results] /\ shown[c] \in Results
           /\ up \in [Clients -> Seq(Bytes)] /\ up[c] \in Seq(Bytes)
           /\ down \in [Clients -> Seq(Results)] /\ down[c] \in Seq(Results)
           /\ hWord \in [Clients -> Word] /\ hWord[c] \in Word
           /\ found \in [Clients -> Seq(Data)] /\ found[c] \in Seq(Data)
           /\ scrambled \in SUBSET Data /\ alive \in BOOLEAN
  BY DEF IInv, TypesOK

(* A step of c that leaves the tree alone: what is to be shown of it.      *)
Kept(c) ==
    /\ UNCHANGED trieVars
    /\ \A d \in Clients \ {c} : Same(d)
    /\ alive' => alive
    /\ TypesOK' /\ SurvivesQuit' /\ FlowInv(c)' /\ ThreadInv(c)'

LEMMA KeptEnough ==
    ASSUME IInv, NEW c \in Clients, Kept(c)
    PROVE  IInv'
  <1>1. TrieInv'
    BY TrieStep DEF IInv, Kept
  <1>2. ASSUME NEW d \in Clients PROVE FlowInv(d)' /\ ThreadInv(d)'
    <2>1. CASE d = c
      BY <2>1 DEF Kept
    <2>2. CASE d # c
      BY <2>2, OthersKeep DEF IInv, Kept
    <2> QED BY <2>1, <2>2
  <1> QED BY <1>1, <1>2 DEF IInv, Kept

LEMMA ConnectKept ==
    ASSUME IInv, NEW c \in Clients, CConnect(c)
    PROVE  Kept(c)
  <1>1. /\ cPc[c] = "start" /\ cPc' = [cPc EXCEPT ![c] = "type"]
        /\ UNCHANGED <<trieVars, cWord, shown, up, down, hPc, hWord, found, scrambled, alive>>
    BY DEF CConnect, handlerVars, serverVars
  <1>2. TypesOK'
    BY <1>1 DEF IInv, TypesOK
  <1>3. cPc'[c] = "type" /\ (Open(c)' <=> Open(c))
    BY <1>1, Read DEF Open
  <1>4. FlowInv(c)'
    BY <1>1, <1>3, Read DEF FlowInv, Waiting, Resets
  <1>5. ThreadInv(c)'
    BY <1>1, Read DEF ThreadInv, Loaded, trieVars
  <1>6. SurvivesQuit'
    BY <1>1, Read DEF SurvivesQuit, trieVars
  <1>7. \A d \in Clients \ {c} : Same(d)
    BY <1>1, Read DEF Same
  <1> QED BY <1>1, <1>2, <1>4, <1>5, <1>6, <1>7 DEF Kept

(* The next key waits for the thread to have read those that start a new   *)
(* word: it is the first letter of the word then.                          *)
LEMMA TypeKept ==
    ASSUME IInv, NEW c \in Clients, CType(c)
    PROVE  Kept(c)
  <1>1. PICK key \in Bytes : cWord' = [cWord EXCEPT ![c] = Added(@, key)] /\ Send(c, key)
    BY DEF CType, SearchAssumption
  <1>2. /\ cPc[c] = "type" /\ cPc' = [cPc EXCEPT ![c] = "reply"]
        /\ UNCHANGED <<trieVars, shown, down, hPc, hWord, found, scrambled, alive>>
    BY DEF CType, handlerVars, serverVars
  <1>3. /\ cPc'[c] = "reply" /\ cWord'[c] = Added(cWord[c], key) /\ Open(c)' = Open(c)
        /\ Added(cWord[c], key) \in Seq(Bytes)
    <2>1. cWord[c] \in Seq(Bytes)
      BY Read
    <2>2. Added(cWord[c], key) \in Seq(Bytes)
      BY <2>1, KeyAdded
    <2>3. cPc'[c] = "reply" /\ cWord'[c] = Added(cWord[c], key)
      BY <1>1, <1>2, Read
    <2>4. Open(c)' = Open(c)
      BY <1>2 DEF Open
    <2> QED BY <2>2, <2>3, <2>4
  <1>4. /\ up' \in [Clients -> Seq(Bytes)]
        /\ \A d \in Clients \ {c} : up'[d] = up[d]
        /\ Open(c) => up'[c] = Append(up[c], key)
    <2>1. up \in [Clients -> Seq(Bytes)] /\ up[c] \in Seq(Bytes)
      BY Read
    <2>2. Append(up[c], key) \in Seq(Bytes)
      BY <2>1, Appended
    <2>3. up' = IF Open(c) THEN [up EXCEPT ![c] = Append(up[c], key)] ELSE up
      BY <1>1 DEF Send
    <2> QED BY <2>1, <2>2, <2>3
  <1>5. TypesOK'
    BY <1>1, <1>2, <1>3, <1>4, Read DEF TypesOK
  <1>6. FlowInv(c)'
    <2> SUFFICES ASSUME Open(c) PROVE Sent(c)'
      BY <1>3 DEF FlowInv
    <2>1. /\ Waiting(c) /\ down[c] = <<>> /\ Resets(up[c])
          /\ up[c] = <<>> => hWord[c] = cWord[c]
          /\ up[c] # <<>> => cWord[c] = <<>>
      BY <1>2, Read DEF FlowInv
    <2>2. Asked(Append(up[c], key), key) /\ (Len(Append(up[c], key)) = 1 <=> up[c] = <<>>)
      BY <2>1, Read, KeysAppended
    <2>3. Len(up'[c]) = 1 => cWord'[c] = Added(hWord'[c], key)
      BY <1>2, <1>3, <1>4, <2>1, <2>2
    <2>4. Len(up'[c]) # 1 => cWord'[c] = Added(<<>>, key)
      BY <1>3, <1>4, <2>1, <2>2
    <2>5. Asked(up'[c], key)
      BY <1>4, <2>2
    <2>6. hPc'[c] \in {"none", "read"} /\ down'[c] = <<>>
      BY <1>2, <2>1 DEF Waiting
    <2> QED BY <2>3, <2>4, <2>5, <2>6 DEF Sent, Waiting
  <1>7. ThreadInv(c)'
    BY <1>2, Read DEF ThreadInv, Loaded, trieVars
  <1>8. SurvivesQuit'
    BY <1>2, Read DEF SurvivesQuit, trieVars
  <1>9. \A d \in Clients \ {c} : Same(d)
    BY <1>1, <1>2, <1>4, Read DEF Same
  <1> QED BY <1>2, <1>5, <1>6, <1>7, <1>8, <1>9 DEF Kept

LEMMA ReplyKept ==
    ASSUME IInv, NEW c \in Clients, CReply(c)
    PROVE  Kept(c)
  <1>1. /\ cPc[c] = "reply" /\ down[c] # <<>> /\ cPc' = [cPc EXCEPT ![c] = "type"]
        /\ shown' = [shown EXCEPT ![c] = Head(down[c])] /\ down' = [down EXCEPT ![c] = Tail(@)]
        /\ UNCHANGED <<trieVars, cWord, up, hPc, hWord, found, scrambled, alive>>
    BY DEF CReply, handlerVars, serverVars
  <1>2. Head(down[c]) \in Results /\ Tail(down[c]) \in Seq(Results)
    BY <1>1, Read
  <1>3. TypesOK'
    BY <1>1, <1>2, Read DEF TypesOK
  <1>4. cPc'[c] = "type" /\ shown'[c] = Head(down[c]) /\ down'[c] = Tail(down[c]) /\ Open(c)' = Open(c)
    BY <1>1, Read DEF Open
  <1>5. FlowInv(c)'
    <2> SUFFICES ASSUME Open(c) PROVE FlowInv(c)'
      BY <1>4 DEF FlowInv
    <2>1. Replied(c)
      BY <1>1, Read DEF FlowInv, Sent, Working, Stuck
    <2>2. PICK r \in Results : down[c] = <<r>> /\ (~Wild(cWord[c]) => Good(text, pos, cWord[c], r))
      BY <2>1 DEF Replied
    <2>3. Head(down[c]) = r /\ Tail(down[c]) = <<>>
      BY <2>2
    <2>4. up[c] = <<>> /\ hPc[c] = "read" /\ hWord[c] = cWord[c] /\ Resets(<<>>)
      BY <2>1 DEF Replied, Resets
    <2> QED BY <1>1, <1>4, <2>2, <2>3, <2>4 DEF FlowInv, Waiting, trieVars
  <1>6. ThreadInv(c)'
    BY <1>1, Read DEF ThreadInv, Loaded, trieVars
  <1>7. SurvivesQuit'
    BY <1>1, Read DEF SurvivesQuit, trieVars
  <1>8. \A d \in Clients \ {c} : Same(d)
    BY <1>1, Read DEF Same
  <1> QED BY <1>1, <1>3, <1>5, <1>6, <1>7, <1>8 DEF Kept

LEMMA ReadEndKept ==
    ASSUME IInv, NEW c \in Clients, CReadEnd(c)
    PROVE  Kept(c)
  <1>1. /\ cPc[c] = "reply" /\ ~Open(c) /\ cPc' = [cPc EXCEPT ![c] = "type"]
        /\ shown' = [shown EXCEPT ![c] = <<>>]
        /\ UNCHANGED <<trieVars, cWord, up, down, hPc, hWord, found, scrambled, alive>>
    BY DEF CReadEnd, handlerVars, serverVars
  <1>2. <<>> \in Results
    BY DEF Results, SearchAssumption
  <1>3. TypesOK'
    BY <1>1, <1>2, Read DEF TypesOK
  <1>4. FlowInv(c)'
    BY <1>1 DEF FlowInv, Open
  <1>5. ThreadInv(c)'
    BY <1>1, Read DEF ThreadInv, Loaded, trieVars
  <1>6. SurvivesQuit'
    BY <1>1, Read DEF SurvivesQuit, trieVars
  <1>7. \A d \in Clients \ {c} : Same(d)
    BY <1>1, Read DEF Same
  <1> QED BY <1>1, <1>3, <1>4, <1>5, <1>6, <1>7 DEF Kept

LEMMA EnterKept ==
    ASSUME IInv, NEW c \in Clients, CEnter(c)
    PROVE  Kept(c)
  <1>1. /\ cPc[c] = "type" /\ cPc' = [cPc EXCEPT ![c] = "menu"] /\ cWord' = [cWord EXCEPT ![c] = <<>>]
        /\ UNCHANGED <<trieVars, shown, up, down, hPc, hWord, found, scrambled, alive>>
    BY DEF CEnter, handlerVars, serverVars
  <1>2. TypesOK'
    BY <1>1, Read DEF TypesOK
  <1>3. cPc'[c] = "menu" /\ cWord'[c] = <<>> /\ (Open(c)' <=> Open(c))
    BY <1>1, Read DEF Open
  <1>4. FlowInv(c)'
    BY <1>1, <1>3, Read DEF FlowInv, Waiting
  <1>5. ThreadInv(c)'
    BY <1>1, Read DEF ThreadInv, Loaded, trieVars
  <1>6. SurvivesQuit'
    BY <1>1, Read DEF SurvivesQuit, trieVars
  <1>7. \A d \in Clients \ {c} : Same(d)
    BY <1>1, Read DEF Same
  <1> QED BY <1>1, <1>2, <1>4, <1>5, <1>6, <1>7 DEF Kept

LEMMA QuitKept ==
    ASSUME IInv, NEW c \in Clients, CQuit(c)
    PROVE  Kept(c)
  <1>1. /\ cPc[c] = "menu" /\ cPc' = [cPc EXCEPT ![c] = "closed"] /\ Send(c, Quit)
        /\ UNCHANGED <<trieVars, cWord, shown, down, hPc, hWord, found, scrambled, alive>>
    BY DEF CQuit, handlerVars, serverVars
  <1>2. /\ up' \in [Clients -> Seq(Bytes)]
        /\ \A d \in Clients \ {c} : up'[d] = up[d]
        /\ Open(c) => up'[c] = Append(up[c], Quit)
    <2>1. Quit \in Bytes /\ Reset \in Bytes
      BY DEF Bytes
    <2>2. Append(up[c], Quit) \in Seq(Bytes) /\ Append(up[c], Reset) \in Seq(Bytes)
      BY <2>1, Read, Appended
    <2> QED BY <1>1, <2>2, Read DEF Send
  <1>3. TypesOK'
    BY <1>1, <1>2, Read DEF TypesOK
  <1>4. cPc'[c] = "closed" /\ (Open(c)' <=> Open(c))
    BY <1>1, Read DEF Open
  <1>5. FlowInv(c)'
    <2> SUFFICES ASSUME Open(c) PROVE Waiting(c)' /\ Asked(up'[c], Quit)
      BY <1>4 DEF FlowInv
    <2>1. Waiting(c) /\ Resets(up[c])
      BY <1>1, Read DEF FlowInv
    <2>2. Asked(Append(up[c], Quit), Quit)
      BY <2>1, Read, KeysAppended DEF Bytes
    <2> QED BY <1>1, <1>2, <2>1, <2>2 DEF Waiting
  <1>6. ThreadInv(c)'
    BY <1>1, Read DEF ThreadInv, Loaded, trieVars
  <1>7. SurvivesQuit'
    BY <1>1, Read DEF SurvivesQuit, trieVars
  <1>8. \A d \in Clients \ {c} : Same(d)
    BY <1>1, <1>2, Read DEF Same
  <1> QED BY <1>1, <1>3, <1>5, <1>6, <1>7, <1>8 DEF Kept

LEMMA AgainKept ==
    ASSUME IInv, NEW c \in Clients, CAgain(c)
    PROVE  Kept(c)
  <1>1. /\ cPc[c] = "menu" /\ cPc' = [cPc EXCEPT ![c] = "type"] /\ Send(c, Reset)
        /\ UNCHANGED <<trieVars, cWord, shown, down, hPc, hWord, found, scrambled, alive>>
    BY DEF CAgain, handlerVars, serverVars
  <1>2. /\ up' \in [Clients -> Seq(Bytes)]
        /\ \A d \in Clients \ {c} : up'[d] = up[d]
        /\ Open(c) => up'[c] = Append(up[c], Reset)
    <2>1. Quit \in Bytes /\ Reset \in Bytes
      BY DEF Bytes
    <2>2. Append(up[c], Quit) \in Seq(Bytes) /\ Append(up[c], Reset) \in Seq(Bytes)
      BY <2>1, Read, Appended
    <2> QED BY <1>1, <2>2, Read DEF Send
  <1>3. TypesOK'
    BY <1>1, <1>2, Read DEF TypesOK
  <1>4. cPc'[c] = "type" /\ (Open(c)' <=> Open(c))
    BY <1>1, Read DEF Open
  <1>5. FlowInv(c)'
    <2> SUFFICES ASSUME Open(c) PROVE FlowInv(c)'
      BY <1>4 DEF FlowInv
    <2>1. Waiting(c) /\ down[c] = <<>> /\ Resets(up[c]) /\ cWord[c] = <<>>
      BY <1>1, Read DEF FlowInv
    <2>2. Resets(Append(up[c], Reset)) /\ Asked(Append(up[c], Reset), Reset)
      BY <2>1, Read, KeysAppended DEF Bytes
    <2>3. Append(up[c], Reset) # <<>>
      BY <2>2 DEF Asked
    <2> QED BY <1>1, <1>2, <1>4, <2>1, <2>2, <2>3 DEF Waiting, FlowInv
  <1>6. ThreadInv(c)'
    BY <1>1, Read DEF ThreadInv, Loaded, trieVars
  <1>7. SurvivesQuit'
    BY <1>1, Read DEF SurvivesQuit, trieVars
  <1>8. \A d \in Clients \ {c} : Same(d)
    BY <1>1, <1>2, Read DEF Same
  <1> QED BY <1>1, <1>3, <1>5, <1>6, <1>7, <1>8 DEF Kept

LEMMA EndKept ==
    ASSUME IInv, NEW c \in Clients, CBrokenPipe(c) \/ CVanish(c) \/ CColorFault(c)
    PROVE  Kept(c)
  <1>1. PICK end \in {"killed", "gone"} :
            /\ cPc' = [cPc EXCEPT ![c] = end]
            /\ end = "killed" => ~Open(c)
            /\ cPc[c] \in {"type", "reply", "menu"}
    BY DEF CBrokenPipe, CVanish, CColorFault
  <1>2. UNCHANGED <<trieVars, cWord, shown, up, down, hPc, hWord, found, scrambled, alive>>
    BY DEF CBrokenPipe, CVanish, CColorFault, handlerVars, serverVars
  <1>3. TypesOK'
    BY <1>1, <1>2, Read DEF TypesOK
  <1>4. cPc'[c] = end /\ (Open(c)' <=> Open(c))
    BY <1>1, <1>2, Read DEF Open
  <1>5. FlowInv(c)'
    BY <1>1, <1>4 DEF FlowInv
  <1>6. ThreadInv(c)'
    BY <1>2, Read DEF ThreadInv, Loaded, trieVars
  <1>7. SurvivesQuit'
    BY <1>1, <1>2, Read DEF SurvivesQuit, trieVars
  <1>8. \A d \in Clients \ {c} : Same(d)
    BY <1>1, <1>2, Read DEF Same
  <1> QED BY <1>2, <1>3, <1>5, <1>6, <1>7, <1>8 DEF Kept

LEMMA AcceptKept ==
    ASSUME IInv, NEW c \in Clients, SAccept(c)
    PROVE  Kept(c)
  <1>1. /\ Loaded /\ hPc[c] = "none" /\ cPc[c] # "start" /\ hPc' = [hPc EXCEPT ![c] = "read"] /\ alive
        /\ UNCHANGED <<trieVars, cPc, cWord, shown, up, down, hWord, found, scrambled, alive>>
    BY DEF SAccept, clientVars, serverVars
  <1>2. TypesOK'
    BY <1>1, Read DEF TypesOK
  <1>3. hPc'[c] = "read" /\ Open(c)
    BY <1>1, Read DEF Open
  <1>4. FlowInv(c)'
    <2>1. Waiting(c)'
      BY <1>3 DEF Waiting
    <2>2. Sent(c) => Sent(c)'
      BY <1>1, <2>1 DEF Sent
    <2>3. ~Working(c) /\ ~Replied(c) /\ ~Stuck(c)
      BY <1>1 DEF Working, Replied, Stuck
    <2> QED BY <1>1, <1>3, <2>1, <2>2, <2>3, Read DEF FlowInv, trieVars
  <1>5. ThreadInv(c)'
    BY <1>1, <1>3 DEF ThreadInv, Loaded, trieVars
  <1>6. SurvivesQuit'
    BY <1>1, Read DEF SurvivesQuit, trieVars
  <1>7. \A d \in Clients \ {c} : Same(d)
    BY <1>1, Read DEF Same
  <1> QED BY <1>1, <1>2, <1>4, <1>5, <1>6, <1>7 DEF Kept

(* What the thread may do with a character, whichever it is.               *)
LEMMA KeyTaken ==
    ASSUME IInv, NEW c \in Clients, NEW key \in Bytes, TakeKey(c, key), hPc[c] = "read"
    PROVE  /\ hPc' \in [Clients -> {"none", "read", "search", "answer", "closed"}]
           /\ hWord' \in [Clients -> Word]
           /\ \A d \in Clients \ {c} : hPc'[d] = hPc[d] /\ hWord'[d] = hWord[d]
           /\ \/ key = Quit /\ hPc'[c] = "closed"
              \/ key = Reset /\ hPc'[c] = "read" /\ hWord'[c] = <<>>
              \/ /\ key \notin {Quit, Reset} /\ hPc'[c] = "search"
                 /\ hWord'[c] = Added(hWord[c], key)
  <1>1. CASE key = Quit /\ hPc' = [hPc EXCEPT ![c] = "closed"] /\ UNCHANGED hWord
    BY <1>1, Read
  <1>2. CASE key = Reset /\ hWord' = [hWord EXCEPT ![c] = <<>>] /\ UNCHANGED hPc
    <2>1. <<>> \in Word
      BY DEF Word
    <2> QED BY <1>2, <2>1, Read
  <1>3. CASE /\ key \notin {Quit, Reset}
             /\ hWord' = [hWord EXCEPT ![c] = Added(@, key)]
             /\ hPc' = [hPc EXCEPT ![c] = "search"]
    <2>1. hWord[c] \in Seq(Letter \cup {Other}) /\ (key \in Letter \cup {Other} \/ key = Nul)
      BY <1>3, Read DEF Word, Letter, Bytes
    <2>2. Added(hWord[c], key) \in Word
      BY <2>1, KeyAdded DEF Word
    <2> QED BY <1>3, <2>2, Read
  <1> QED BY <1>1, <1>2, <1>3 DEF TakeKey

LEMMA ReadKept ==
    ASSUME IInv, NEW c \in Clients, HRead(c)
    PROVE  Kept(c)
  <1> DEFINE key == Head(up[c])
  <1>1. /\ alive /\ hPc[c] = "read" /\ up[c] # <<>> /\ TakeKey(c, key) /\ up' = [up EXCEPT ![c] = Tail(@)]
        /\ UNCHANGED <<trieVars, cPc, cWord, shown, down, found, scrambled, alive>>
    BY DEF HRead, clientVars, serverVars
  <1>2. Tail(up[c]) \in Seq(Bytes) /\ key \in Bytes
    BY <1>1, Read
  <1>3. /\ hPc' \in [Clients -> {"none", "read", "search", "answer", "closed"}]
        /\ hWord' \in [Clients -> Word]
        /\ \A d \in Clients \ {c} : hPc'[d] = hPc[d] /\ hWord'[d] = hWord[d]
        /\ \/ key = Quit /\ hPc'[c] = "closed"
           \/ key = Reset /\ hPc'[c] = "read" /\ hWord'[c] = <<>>
           \/ /\ key \notin {Quit, Reset} /\ hPc'[c] = "search"
              /\ hWord'[c] = Added(hWord[c], key)
    BY <1>1, <1>2, KeyTaken
  <1>4. up'[c] = Tail(up[c]) /\ up' \in [Clients -> Seq(Bytes)]
    BY <1>1, <1>2, Read
  <1> HIDE DEF key
  <1>5. TypesOK'
    BY <1>1, <1>3, <1>4, Read DEF TypesOK
  <1>6. Open(c)
    BY <1>1 DEF Open
  <1>7. FlowInv(c)'
    <2> SUFFICES ASSUME hPc'[c] # "closed" PROVE FlowInv(c)'
      BY DEF FlowInv, Open
    <2>1. CASE cPc[c] \in {"type", "menu"}
      <3>1. Resets(up[c]) /\ down[c] = <<>> /\ cWord[c] = <<>>
        BY <1>1, <1>6, <2>1, Read DEF FlowInv
      <3>2. key = Reset /\ Resets(Tail(up[c]))
        BY <1>1, <3>1, Read, ResetsRead DEF key
      <3>3. hPc'[c] = "read" /\ hWord'[c] = <<>>
        BY <1>3, <3>2 DEF Quit, Reset
      <3> QED BY <1>1, <1>4, <2>1, <3>1, <3>2, <3>3 DEF FlowInv, Waiting
    <2>2. CASE cPc[c] = "closed"
      <3>1. Asked(up[c], Quit)
        BY <1>6, <2>2, Read DEF FlowInv
      <3>2. /\ Len(up[c]) = 1 => key = Quit
            /\ Len(up[c]) # 1 => key = Reset /\ Asked(Tail(up[c]), Quit)
        BY <1>1, <3>1, Read, AskedRead DEF key
      <3>3. key = Reset /\ hPc'[c] = "read" /\ Asked(Tail(up[c]), Quit)
        BY <1>3, <3>2 DEF Quit, Reset
      <3> QED BY <1>1, <1>4, <2>2, <3>3 DEF FlowInv, Waiting
    <2>3. CASE cPc[c] = "reply"
      <3>1. Sent(c)
        BY <1>1, <1>6, <2>3, Read DEF FlowInv, Working, Replied, Stuck
      <3>2. PICK last \in Bytes : /\ Asked(up[c], last)
                                  /\ Len(up[c]) = 1 => cWord[c] = Added(hWord[c], last)
                                  /\ Len(up[c]) # 1 => cWord[c] = Added(<<>>, last)
        BY <3>1 DEF Sent
      <3>3. /\ Len(up[c]) = 1 => key = last /\ Tail(up[c]) = <<>>
            /\ Len(up[c]) # 1 => key = Reset /\ Asked(Tail(up[c]), last)
        BY <1>1, <3>2, Read, AskedRead DEF key
      <3>4. down'[c] = <<>> /\ cWord'[c] = cWord[c] /\ cPc'[c] = "reply"
        BY <1>1, <2>3, <3>1 DEF Sent
      <3>5. CASE Len(up[c]) # 1
        <4>1. hPc'[c] = "read" /\ hWord'[c] = <<>> /\ Asked(up'[c], last)
          BY <1>3, <1>4, <3>3, <3>5 DEF Quit, Reset
        <4>2. cWord'[c] = Added(<<>>, last) /\ cWord'[c] = Added(hWord'[c], last)
          BY <3>2, <3>4, <3>5, <4>1
        <4>3. Sent(c)'
          BY <3>2, <3>4, <4>1, <4>2 DEF Sent, Waiting
        <4> QED BY <3>4, <4>3 DEF FlowInv
      <3>6. CASE Len(up[c]) = 1 /\ key = Reset
        <4>1. hPc'[c] = "read" /\ up'[c] = <<>>
          BY <1>3, <1>4, <3>3, <3>6 DEF Quit, Reset
        <4>2. Stuck(c)'
          BY <3>4, <4>1 DEF Stuck
        <4> QED BY <3>4, <4>2 DEF FlowInv
      <3>7. CASE Len(up[c]) = 1 /\ key # Reset
        <4>1. hPc'[c] = "search" /\ hWord'[c] = Added(hWord[c], key) /\ up'[c] = <<>>
          BY <1>3, <1>4, <3>3, <3>7 DEF Quit, Reset
        <4>2. hWord'[c] = cWord'[c]
          BY <3>2, <3>3, <3>4, <3>7, <4>1
        <4>3. Working(c)'
          BY <3>4, <4>1, <4>2 DEF Working
        <4> QED BY <3>4, <4>3 DEF FlowInv
      <3> QED BY <3>5, <3>6, <3>7
    <2>4. CASE cPc[c] \in {"start", "killed"}
      BY <1>1, <1>6, <2>4, Read DEF FlowInv
    <2>5. CASE cPc[c] = "gone"
      BY <1>1, <2>5 DEF FlowInv
    <2> QED BY <2>1, <2>2, <2>3, <2>4, <2>5, Read
  <1>8. ThreadInv(c)'
    BY <1>1, <1>3, Read DEF ThreadInv, Loaded, trieVars
  <1>9. SurvivesQuit'
    BY <1>1, Read DEF SurvivesQuit, trieVars
  <1>10. \A d \in Clients \ {c} : Same(d)
    BY <1>1, <1>3, Read DEF Same
  <1> QED BY <1>1, <1>5, <1>7, <1>8, <1>9, <1>10 DEF Kept

(* A thread whose client is gone goes on with any character.               *)
LEMMA ReadNothingKept ==
    ASSUME IInv, NEW c \in Clients, HReadEnd(c)
    PROVE  Kept(c)
  <1>1. PICK key \in Bytes : TakeKey(c, key)
    BY DEF HReadEnd, SearchAssumption, Bytes
  <1>2. /\ alive /\ hPc[c] = "read" /\ up[c] = <<>> /\ Ended(c)
        /\ UNCHANGED <<trieVars, cPc, cWord, shown, up, down, found, scrambled, alive>>
    BY DEF HReadEnd, clientVars, serverVars
  <1>3. /\ hPc' \in [Clients -> {"none", "read", "search", "answer", "closed"}]
        /\ hWord' \in [Clients -> Word]
        /\ \A d \in Clients \ {c} : hPc'[d] = hPc[d] /\ hWord'[d] = hWord[d]
        /\ hPc'[c] # "none" /\ hPc'[c] # "answer"
    BY <1>1, <1>2, KeyTaken
  <1>4. TypesOK'
    BY <1>2, <1>3, Read DEF TypesOK
  <1>5. cPc[c] = "gone"
    <2>1. Open(c)
      BY <1>2 DEF Open
    <2> QED BY <1>2, <2>1, Read DEF FlowInv, Ended, Asked
  <1>6. FlowInv(c)'
    BY <1>2, <1>5 DEF FlowInv
  <1>7. ThreadInv(c)'
    BY <1>2, <1>3, Read DEF ThreadInv, Loaded, trieVars
  <1>8. SurvivesQuit'
    BY <1>2, Read DEF SurvivesQuit, trieVars
  <1>9. \A d \in Clients \ {c} : Same(d)
    BY <1>2, <1>3, Read DEF Same
  <1> QED BY <1>2, <1>4, <1>6, <1>7, <1>8, <1>9 DEF Kept

(* A search is on behalf of a client that waits for it, or was killed.     *)
LEMMA Searching ==
    ASSUME IInv, NEW c \in Clients, alive, hPc[c] \in {"search", "answer"}
    PROVE  /\ Open(c) /\ Loaded
           /\ cPc[c] = "gone" \/ (cPc[c] = "reply" /\ Working(c))
  <1>1. Open(c)
    BY DEF Open
  <1>2. ~Waiting(c) /\ hPc[c] \notin {"none", "read"}
    BY DEF Waiting
  <1> QED BY <1>1, <1>2, Read DEF FlowInv, ThreadInv, Sent, Replied, Stuck

(* search() has found nothing: an empty answer.                            *)
LEMMA MissKept ==
    ASSUME IInv, NEW c \in Clients, HMiss(c)
    PROVE  Kept(c)
  <1>1. /\ alive /\ hPc[c] = "search" /\ ~Search(trie, hWord[c]) /\ Answer(c, <<>>)
        /\ hPc' = [hPc EXCEPT ![c] = "read"]
        /\ UNCHANGED <<trieVars, cPc, cWord, shown, up, hWord, found, scrambled, alive>>
    BY DEF HMiss, clientVars, serverVars
  <1>2. <<>> \in Results /\ (~Wild(hWord[c]) => Good(text, pos, hWord[c], <<>>))
    <2>1. <<>> \in Results
      BY DEF Results, SearchAssumption
    <2> QED BY <1>1, <2>1, Read, TameWord, GoodMiss
  <1>3. Append(down[c], <<>>) \in Seq(Results)
    BY <1>2, Read, Appended
  <1>4. /\ down' \in [Clients -> Seq(Results)]
        /\ ~Ended(c) => down'[c] = Append(down[c], <<>>)
        /\ \A d \in Clients \ {c} : down'[d] = down[d]
    BY <1>1, <1>3, Read DEF Answer
  <1>5. TypesOK'
    BY <1>1, <1>4, Read DEF TypesOK
  <1>6. hPc'[c] = "read"
    BY <1>1, Read
  <1>7. FlowInv(c)'
    <2>1. CASE cPc[c] = "gone"
      BY <1>1, <2>1 DEF FlowInv
    <2>2. CASE cPc[c] = "reply" /\ Working(c)
      <3>1. up[c] = <<>> /\ down[c] = <<>> /\ hWord[c] = cWord[c]
        BY <2>2 DEF Working
      <3>2. down'[c] = <<<<>>>>
        BY <1>4, <2>2, <3>1 DEF Ended
      <3>3. cWord'[c] = hWord[c] /\ (~Wild(cWord[c]) => Good(text', pos', cWord'[c], <<>>))
        BY <1>1, <1>2, <3>1 DEF trieVars
      <3>4. Replied(c)'
        BY <1>1, <1>2, <1>6, <3>1, <3>2, <3>3 DEF Replied, Results
      <3> QED BY <1>1, <2>2, <3>4 DEF FlowInv
    <2> QED BY <1>1, <2>1, <2>2, Searching
  <1>8. ThreadInv(c)'
    BY <1>1, <1>6, Read DEF ThreadInv, Loaded, trieVars
  <1>9. SurvivesQuit'
    BY <1>1, Read DEF SurvivesQuit, trieVars
  <1>10. \A d \in Clients \ {c} : Same(d)
    BY <1>1, <1>4, Read DEF Same
  <1> QED BY <1>1, <1>5, <1>7, <1>8, <1>9, <1>10 DEF Kept

(* search() has found the word, or gone astray: if there is no result, the *)
(* word is a wild one or, in an empty file, empty.                         *)
LEMMA FindKept ==
    ASSUME IInv, NEW c \in Clients, HFind(c)
    PROVE  Kept(c)
  <1>0. PICK n \in Reached(hWord[c]) :
          LET results == Collect(trie, n)
          IN  /\ found' = [found EXCEPT ![c] = results]
              /\ alive' = (results # <<>>)
              /\ scrambled' \in IF Len(results) > 1 THEN {scrambled, scrambled \cup {results[1]}} ELSE {scrambled}
    BY DEF HFind
  <1> DEFINE results == Collect(trie, n)
  <1>1. /\ alive /\ hPc[c] = "search"
        /\ found' = [found EXCEPT ![c] = results] /\ alive' = (results # <<>>)
        /\ scrambled' \in IF Len(results) > 1 THEN {scrambled, scrambled \cup {results[1]}} ELSE {scrambled}
        /\ hPc' = [hPc EXCEPT ![c] = "answer"]
        /\ UNCHANGED <<trieVars, cPc, cWord, shown, up, down, hWord>>
    BY <1>0 DEF HFind, clientVars
  <1>2. n \in DOMAIN trie /\ (~Wild(hWord[c]) => n = hWord[c])
    BY Read, ReachedNode
  <1>3. results \in Seq(Data)
    BY <1>2, Read, HitsAreListed
  <1>4. results = <<>> => Wild(hWord[c]) \/ (hWord[c] = <<>> /\ text = <<>>)
    <2>1. n # <<>> => results # <<>>
      BY <1>2, Read, FoundLemma
    <2>2. Loaded
      BY <1>1, Searching
    <2>3. results = <<>> /\ n = <<>> => text = <<>>
      BY <1>2, <2>2, Read, RootLists
    <2> QED BY <1>2, <2>1, <2>3
  <1> HIDE DEF results
  <1>5. scrambled' \in SUBSET Data
    <2>1. Len(results) > 1 => results[1] \in Data
      BY <1>3
    <2>2. CASE Len(results) > 1
      BY <1>1, <2>1, <2>2, Read
    <2>3. CASE ~(Len(results) > 1)
      BY <1>1, <2>3, Read
    <2> QED BY <2>2, <2>3
  <1>6. TypesOK'
    BY <1>1, <1>3, <1>5, Read DEF TypesOK
  <1>7. hPc'[c] = "answer" /\ found'[c] = results
    BY <1>1, Read
  <1>8. FlowInv(c)'
    <2>1. CASE cPc[c] = "gone"
      BY <1>1, <2>1 DEF FlowInv
    <2>2. CASE cPc[c] = "reply" /\ Working(c)
      <3>1. Working(c)'
        BY <1>1, <1>7, <2>2 DEF Working
      <3> QED BY <1>1, <2>2, <3>1 DEF FlowInv
    <2> QED BY <1>1, <2>1, <2>2, Searching
  <1>9. ThreadInv(c)'
    <2>1. Loaded'
      BY <1>1, Searching DEF Loaded, trieVars
    <2> QED BY <1>1, <1>2, <1>7, <2>1 DEF ThreadInv, trieVars, results
  <1>10. SurvivesQuit'
    BY <1>1, <1>4, Read DEF SurvivesQuit, trieVars
  <1>11. \A d \in Clients \ {c} : Same(d)
    BY <1>1, Read DEF Same
  <1> QED BY <1>1, <1>6, <1>8, <1>9, <1>10, <1>11 DEF Kept

(* The search followed a wild pointer.                                     *)
LEMMA FaultKept ==
    ASSUME IInv, NEW c \in Clients, HFault(c)
    PROVE  Kept(c)
  <1>1. /\ alive /\ alive' = FALSE /\ Wild(hWord[c])
        /\ UNCHANGED <<trieVars, cPc, cWord, shown, up, down, hPc, hWord, found, scrambled>>
    BY DEF HFault, Astray, Wild, clientVars, handlerVars
  <1>2. TypesOK'
    BY <1>1, Read DEF TypesOK
  <1>3. FlowInv(c)'
    BY <1>1 DEF FlowInv, Open
  <1>4. ThreadInv(c)'
    BY <1>1, Read DEF ThreadInv, Loaded, trieVars
  <1>5. SurvivesQuit'
    BY <1>1 DEF SurvivesQuit
  <1>6. \A d \in Clients \ {c} : Same(d)
    BY <1>1, Read DEF Same
  <1> QED BY <1>1, <1>2, <1>3, <1>4, <1>5, <1>6 DEF Kept

LEMMA AnswerKept ==
    ASSUME IInv, NEW c \in Clients, HAnswer(c)
    PROVE  Kept(c)
  <1> DEFINE r == [k \in 1 .. FewerOf(Limit, Len(found[c])) |->
                     IF found[c][k] \in scrambled THEN Garbage ELSE found[c][k].word]
  <1>1. /\ alive /\ hPc[c] = "answer" /\ Answer(c, r)
        /\ found' = [found EXCEPT ![c] = <<>>] /\ hPc' = [hPc EXCEPT ![c] = "read"]
        /\ UNCHANGED <<trieVars, cPc, cWord, shown, up, hWord, scrambled, alive>>
    BY DEF HAnswer, clientVars, serverVars
  <1>2. r \in Results /\ (~Wild(hWord[c]) => Good(text, pos, hWord[c], r))
    <2>1. PICK n \in DOMAIN trie : found[c] = Collect(trie, n) /\ (~Wild(hWord[c]) => n = hWord[c])
      BY <1>1, Read DEF ThreadInv
    <2>2. TrieInv /\ n \in Sentence /\ Search(trie, n)
      BY <2>1, Read, TrieTypes DEF TrieTypeOK, Sentence, Letter
    <2>3. r \in Results /\ Good(text, pos, n, r)
      BY <2>1, <2>2, GoodFound
    <2> QED BY <2>1, <2>3
  <1> HIDE DEF r
  <1>3. Append(down[c], r) \in Seq(Results)
    BY <1>2, Read, Appended
  <1>4. /\ down' \in [Clients -> Seq(Results)]
        /\ ~Ended(c) => down'[c] = Append(down[c], r)
        /\ \A d \in Clients \ {c} : down'[d] = down[d]
    BY <1>1, <1>3, Read DEF Answer
  <1>5. TypesOK'
    <2>1. <<>> \in Seq(Data)
      OBVIOUS
    <2> QED BY <1>1, <1>4, <2>1, Read DEF TypesOK
  <1>6. hPc'[c] = "read"
    BY <1>1, Read
  <1>7. FlowInv(c)'
    <2>1. CASE cPc[c] = "gone"
      BY <1>1, <2>1 DEF FlowInv
    <2>2. CASE cPc[c] = "reply" /\ Working(c)
      <3>1. up[c] = <<>> /\ down[c] = <<>> /\ hWord[c] = cWord[c]
        BY <2>2 DEF Working
      <3>2. down'[c] = <<r>>
        BY <1>4, <2>2, <3>1 DEF Ended
      <3>3. cWord'[c] = hWord[c] /\ (~Wild(cWord[c]) => Good(text', pos', cWord'[c], r))
        BY <1>1, <1>2, <3>1 DEF trieVars
      <3>4. Replied(c)'
        BY <1>1, <1>2, <1>6, <3>1, <3>2, <3>3 DEF Replied, Results
      <3> QED BY <1>1, <2>2, <3>4 DEF FlowInv
    <2> QED BY <1>1, <2>1, <2>2, Searching
  <1>8. ThreadInv(c)'
    BY <1>1, <1>6, Read DEF ThreadInv, Loaded, trieVars
  <1>9. SurvivesQuit'
    BY <1>1, Read DEF SurvivesQuit, trieVars
  <1>10. \A d \in Clients \ {c} : Same(d)
    BY <1>1, <1>4, Read DEF Same
  <1> QED BY <1>1, <1>5, <1>7, <1>8, <1>9, <1>10 DEF Kept

(* SIGPIPE: the client was killed.                                         *)
LEMMA PipeKept ==
    ASSUME IInv, NEW c \in Clients, HBrokenPipe(c)
    PROVE  Kept(c)
  <1>1. /\ alive /\ hPc[c] \in {"search", "answer"} /\ Ended(c) /\ alive' = FALSE
        /\ UNCHANGED <<trieVars, cPc, cWord, shown, up, down, hPc, hWord, found, scrambled>>
    BY DEF HBrokenPipe, clientVars, handlerVars
  <1>2. TypesOK'
    BY <1>1, Read DEF TypesOK
  <1>3. FlowInv(c)'
    BY <1>1 DEF FlowInv, Open
  <1>4. ThreadInv(c)'
    BY <1>1, Read DEF ThreadInv, Loaded, trieVars
  <1>5. cPc[c] = "gone"
    BY <1>1, Searching DEF Ended
  <1>6. SurvivesQuit'
    BY <1>1, <1>5 DEF SurvivesQuit
  <1>7. \A d \in Clients \ {c} : Same(d)
    BY <1>1, Read DEF Same
  <1> QED BY <1>1, <1>2, <1>3, <1>4, <1>6, <1>7 DEF Kept

(* The tree is loaded before any thread runs.                              *)
LEMMA LoadKept ==
    ASSUME IInv, SLoad
    PROVE  IInv'
  <1>1. /\ LoadLine /\ ~Loaded
        /\ UNCHANGED <<cPc, cWord, shown, up, down, hPc, hWord, found, scrambled, alive>>
    <2>1. pos < Len(text) /\ pos \in 0 .. Len(text)
      BY DEF SLoad, LoadLine, IInv, TrieInv
    <2>2. Len(text) \in Nat
      BY TextType DEF IInv, TrieInv
    <2> QED BY <2>1, <2>2 DEF SLoad, Loaded, clientVars, handlerVars, serverVars
  <1>2. TrieInv'
    BY <1>1, TrieStep DEF IInv
  <1>3. TypesOK'
    BY <1>1 DEF IInv, TypesOK
  <1>4. SurvivesQuit'
    BY <1>1 DEF IInv, SurvivesQuit, LoadLine
  <1>5. ASSUME NEW c \in Clients PROVE FlowInv(c)' /\ ThreadInv(c)'
    <2>1. FlowInv(c) /\ ThreadInv(c) /\ hPc[c] = "none"
      BY <1>1, <1>5 DEF IInv, ThreadInv
    <2>2. hPc'[c] = "none"
      BY <1>1, <2>1
    <2>3. ThreadInv(c)'
      BY <2>2 DEF ThreadInv
    <2>4. Open(c)' = Open(c) /\ Waiting(c)' /\ Sent(c)' = Sent(c)
      BY <1>1, <2>1 DEF Open, Waiting, Sent
    <2>5. ~Working(c) /\ ~Replied(c) /\ ~Stuck(c)
      BY <2>1 DEF Working, Replied, Stuck
    <2>6. FlowInv(c)'
      BY <1>1, <2>1, <2>2, <2>4, <2>5 DEF FlowInv
    <2> QED BY <2>3, <2>6
  <1> QED BY <1>2, <1>3, <1>4, <1>5 DEF IInv

LEMMA NothingKept ==
    ASSUME IInv, UNCHANGED vars
    PROVE  IInv'
  <1>1. UNCHANGED <<trieVars, cPc, cWord, shown, up, down, hPc, hWord, found, scrambled, alive>>
    BY DEF vars, clientVars, handlerVars, serverVars
  <1>2. TrieInv'
    BY <1>1, TrieStep DEF IInv
  <1>3. TypesOK'
    BY <1>1 DEF IInv, TypesOK
  <1>4. SurvivesQuit'
    BY <1>1 DEF IInv, SurvivesQuit, trieVars
  <1>5. ASSUME NEW c \in Clients PROVE FlowInv(c)' /\ ThreadInv(c)'
    <2>1. Same(c) /\ (alive' => alive)
      BY <1>1 DEF Same
    <2> QED BY <1>1, <1>5, <2>1, OthersKeep DEF IInv
  <1> QED BY <1>2, <1>3, <1>4, <1>5 DEF IInv

LEMMA ServerStep == IInv /\ [Next]_vars => IInv'
  <1> SUFFICES ASSUME IInv, [Next]_vars PROVE IInv'
    OBVIOUS
  <1>1. CASE SLoad
    BY <1>1, LoadKept
  <1>2. ASSUME NEW c \in Clients, ClientStep(c) PROVE IInv'
    <2>1. Kept(c)
      BY <1>2, ConnectKept, TypeKept, ReplyKept, ReadEndKept, EnterKept, QuitKept, AgainKept, EndKept
         DEF ClientStep
    <2> QED BY <2>1, KeptEnough
  <1>3. ASSUME NEW c \in Clients, ThreadStep(c) PROVE IInv'
    <2>1. Kept(c)
      BY <1>3, ReadKept, ReadNothingKept, MissKept, FindKept, FaultKept, AnswerKept, PipeKept DEF ThreadStep
    <2> QED BY <2>1, KeptEnough
  <1>4. ASSUME NEW c \in Clients, SAccept(c) PROVE IInv'
    BY <1>4, AcceptKept, KeptEnough
  <1>5. CASE UNCHANGED vars
    BY <1>5, NothingKept
  <1> QED BY <1>1, <1>2, <1>3, <1>4, <1>5 DEF Next

(* The words on both sides of every connection, and the tree, however the  *)
(* clients, the threads and main() take turns: handle_client and the loop  *)
(* of search_client.c.                                                     *)
THEOREM SearchInvariant == Spec => []IInv
  BY ServerInitial, ServerStep, PTL DEF Spec

(* What clients, connections and threads hold.                             *)
THEOREM SearchTypeCorrect == Spec => []SearchTypeOK
  <1>1. IInv => SearchTypeOK
    <2> SUFFICES ASSUME IInv PROVE SearchTypeOK
      OBVIOUS
    <2>1. TrieTypeOK /\ TypesOK
      BY TrieTypes DEF IInv
    <2>2. Sentence = Seq(0 .. Alpha - 1) /\ Word = Seq((0 .. Alpha - 1) \cup {Other})
      BY DEF Sentence, Word, Letter
    <2>3. \A d \in Data : d.word \in Seq(0 .. Alpha - 1)
      BY <2>2 DEF Data
    <2>4. ASSUME NEW c \in Clients, NEW k \in DOMAIN found[c] PROVE found[c][k] \in Data
      <3>1. found[c] \in Seq(Data)
        BY <2>1, <2>4 DEF TypesOK
      <3> QED BY <2>4, <3>1
    <2>5. \A d \in scrambled : d \in Data
      BY <2>1 DEF TypesOK
    <2> QED BY <2>1, <2>2, <2>3, <2>4, <2>5 DEF SearchTypeOK, TypesOK
  <1> QED BY <1>1, SearchInvariant, PTL

(* What a client shows while its user types is the answer to the word it   *)
(* shows: write() and read() of search_client.c and handle_client.         *)
THEOREM ShownAnswersWord == Spec => []AnswersWord
  <1>1. IInv => AnswersWord
    <2> SUFFICES ASSUME IInv, NEW c \in Clients,
                        cPc[c] = "type" /\ cWord[c] # <<>> /\ ~Wild(cWord[c]) /\ Open(c)
                 PROVE  /\ Len(shown[c]) = FewerOf(Limit, Cardinality(Hits(cWord[c])))
                        /\ \A k \in DOMAIN shown[c] :
                             \/ shown[c][k] = Garbage
                             \/ \E h \in Hits(cWord[c]) : shown[c][k] = text[h[1]].word
      BY DEF AnswersWord
    <2>1. Good(text, pos, cWord[c], shown[c])
      BY Read DEF FlowInv
    <2>2. Hits(cWord[c]) = Starting(text, pos, cWord[c])
      BY HitsMean DEF IInv
    <2> QED BY <2>1, <2>2 DEF Good
  <1> QED BY <1>1, SearchInvariant, PTL

(* What can take the server down: the SIGPIPE of a write() to a client that *)
(* was killed, an index out of bounds in search(), and, of an empty file,  *)
(* the assertion of vector_get(): handle_client.                           *)
THEOREM SearchSurvivesQuit == Spec => []SurvivesQuit
  <1>1. IInv => SurvivesQuit
    BY DEF IInv
  <1> QED BY <1>1, SearchInvariant, PTL

=============================================================================
