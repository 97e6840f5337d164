--------------------------------- MODULE Trie ---------------------------------
(***************************************************************************)
(* The search tree of hw4/trie.c, and set_data(), which builds it from the *)
(* lines of text.txt when the search server starts.                        *)
(*                                                                         *)
(* A character is the index of the child it selects: upper and lower case  *)
(* of a letter are the same one, the space is the last one.  A node is the *)
(* path from the root to it, the tree a function from its nodes to what    *)
(* their struct holds.                                                     *)
(***************************************************************************)
EXTENDS Integers, Sequences, FiniteSets, SequencesExt

CONSTANTS
    Alpha,      \* ALPHA: the number of children of a node
    Texts       \* what text.txt may contain: sequences of lines

ASSUME TrieAssumption ==
    /\ Alpha \in Nat \ {0}
    /\ \A text \in Texts : text \in Seq([word : Seq(0 .. Alpha - 1), freq : Nat])

VARIABLES
    text,       \* the contents of the file
    pos,        \* how many lines set_data() has read
    trie        \* the tree

trieVars == <<text, pos, trie>>

Space == Alpha - 1

(* strtok(sentence, " "): the words of a sentence, in order.               *)
WordStarts(s) == {i \in DOMAIN s : s[i] # Space /\ (i = 1 \/ s[i - 1] = Space)}

WordAt(s, i) ==
    SubSeq(s, i, CHOOSE j \in i .. Len(s) :
                    /\ \A k \in i .. j : s[k] # Space
                    /\ j = Len(s) \/ s[j + 1] = Space)

StartsBefore(s, i) == {j \in WordStarts(s) : j < i}

Words(s) ==
    [k \in 1 .. Cardinality(WordStarts(s)) |->
        WordAt(s, CHOOSE i \in WordStarts(s) : Cardinality(StartsBefore(s, i)) = k - 1)]

MakeNode == [end_of_word |-> FALSE, word_list |-> <<>>]

(* insert(): make the missing nodes of the path, mark its last node, and   *)
(* add a new struct data to its list; a whole sentence is not added to a   *)
(* list that has something already.  ("at" tells the structs of one line   *)
(* apart.)                                                                 *)
Insert(t, word, line) ==
    LET data == [word |-> line.word, freq |-> line.freq, at |-> word]
        old == IF word \in DOMAIN t THEN t[word].word_list ELSE <<>>
        list == IF word = line.word /\ old # <<>> THEN old ELSE Append(old, data)
    IN  [n \in DOMAIN t \cup Prefixes(word) |->
            IF n = word
              THEN [end_of_word |-> TRUE, word_list |-> list]
              ELSE IF n \in DOMAIN t THEN t[n] ELSE MakeNode]

(* search() finds a node, that of the path prefix.                         *)
Search(t, prefix) == Prefixes(prefix) \subseteq DOMAIN t

(* Mutant of Collect: the list of the node itself is left out.             *)
Collect_BelowOnly(t, node) ==
    LET collect[n \in DOMAIN t] ==
          (IF t[n].end_of_word /\ n # node THEN t[n].word_list ELSE <<>>)
            \o FlattenSeq([i \in 1 .. Alpha |->
                  IF Append(n, i - 1) \in DOMAIN t THEN collect[Append(n, i - 1)] ELSE <<>>])
    IN  collect[node]

(* collect(): the list of the node, then those of its children.            *)
Collect(t, node) ==
    LET collect[n \in DOMAIN t] ==
          (IF t[n].end_of_word THEN t[n].word_list ELSE <<>>)
            \o FlattenSeq([i \in 1 .. Alpha |->
                  IF Append(n, i - 1) \in DOMAIN t THEN collect[Append(n, i - 1)] ELSE <<>>])
    IN  collect[node]

TrieInit ==
    /\ text \in Texts
    /\ pos = 0
    /\ trie = [n \in {<<>>} |-> MakeNode]

(* Mutant of WithLine: the first word is not skipped.                      *)
WithLine_AllWords(t, line) ==
    LET words == Words(line.word)
        inserted[k \in 0 .. Len(words)] ==
            IF k = 0 THEN Insert(t, line.word, line) ELSE Insert(inserted[k - 1], words[k], line)
    IN  inserted[Len(words)]

(* The tree after one line of set_data(): the sentence is inserted, and    *)
(* every word but the first on its own.                                    *)
WithLine(t, line) ==
    LET words == Words(line.word)
        inserted[k \in 0 .. Len(words)] ==
            IF k <= 1 THEN Insert(t, line.word, line) ELSE Insert(inserted[k - 1], words[k], line)
    IN  inserted[Len(words)]

LoadLine ==
    /\ pos < Len(text)
    /\ trie' = WithLine(trie, text[pos + 1])
    /\ pos' = pos + 1
    /\ UNCHANGED text

Loaded == pos = Len(text)

LoadDone == Loaded /\ UNCHANGED trieVars

TrieSpec == TrieInit /\ [][LoadLine \/ LoadDone]_trieVars

-----------------------------------------------------------------------------
(* Type invariant of the tree: it is a tree, and the lists of the nodes    *)
(* that are marked, and no others, hold lines.                             *)
TrieTypeOK ==
    /\ pos \in 0 .. Len(text)
    /\ \A n \in DOMAIN trie :
        /\ n \in Seq(0 .. Alpha - 1)
        /\ Search(trie, n)
        /\ trie[n].end_of_word = (trie[n].word_list # <<>>)
        /\ trie[n].word_list \in
             Seq([word : Seq(0 .. Alpha - 1), freq : Nat, at : Seq(0 .. Alpha - 1)])

(* The server sorts from vector_get(results, 0), which asserts that there  *)
(* is a result (vector.c:93): whatever search() finds, collect() lists     *)
(* something for it.                                                       *)
FoundIsListed ==
    Loaded => \A n \in DOMAIN trie \ {<<>>} : Collect(trie, n) # <<>>

(* The insertions that should answer prefix: <<i, 1>> is sentence i, unless *)
(* an earlier line, or one of its words, is the same; <<i, k>> its word k. *)
Repeated(i) ==
    \E j \in 1 .. i - 1 :
        \/ text[j].word = text[i].word
        \/ \E k \in DOMAIN Words(text[j].word) \ {1} : Words(text[j].word)[k] = text[i].word

Hits(prefix) ==
    {h \in UNION {{i} \X ({1} \cup DOMAIN Words(text[i].word)) : i \in 1 .. pos} :
        LET i == h[1]
            k == h[2]
        IN  IF k = 1 THEN IsPrefix(prefix, text[i].word) /\ ~Repeated(i)
                     ELSE IsPrefix(prefix, Words(text[i].word)[k])}

SameLine(data, line) == data.word = line.word /\ data.freq = line.freq

(* search() and collect() together give, for every string, the lines that  *)
(* start with it or have a later word that does, as often as they do, and  *)
(* no other line ("collect all words", trie.c:85).                         *)
CollectsHits ==
    /\ \A n \in DOMAIN trie \ {<<>>} :
         LET found == Collect(trie, n)
         IN  /\ Len(found) = Cardinality(Hits(n))
             /\ \A k \in DOMAIN found : \E i \in 1 .. pos : SameLine(found[k], text[i])
             /\ \A i \in 1 .. pos :
                  Cardinality({k \in DOMAIN found : SameLine(found[k], text[i])})
                    = Cardinality({h \in Hits(n) : text[h[1]] = text[i]})
    /\ \A i \in 1 .. pos :
         /\ Search(trie, text[i].word)
         /\ \A k \in DOMAIN Words(text[i].word) \ {1} : Search(trie, Words(text[i].word)[k])

=============================================================================
