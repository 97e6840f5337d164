-------------------------------- MODULE MCTrie --------------------------------
(* Model checking of the search tree on every short file.                  *)
EXTENDS Trie

(* Sentences over the letters 0 and 1; 2 is the space.                     *)
Sentences == {<<2>>, <<0>>, <<0, 1>>, <<1, 0>>, <<0, 2, 1, 0>>, <<1, 2, 0>>, <<0, 2, 0, 2, 0>>}
Lines == {[word |-> s, freq |-> Len(s)] : s \in Sentences} \cup {[word |-> <<0>>, freq |-> 7]}

ShortTexts == BoundedSeq(Lines, 3)

=============================================================================
