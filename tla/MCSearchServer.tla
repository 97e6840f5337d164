---------------------------- MODULE MCSearchServer ----------------------------
(* Model checking of the search server and its clients.                    *)
EXTENDS SearchServer

CONSTANTS c1, c2

(* "0 1", "1", "0" and "0 0" of rising frequency; 2 is the space.          *)
FourLines == {<<[word |-> <<0, 2, 1>>, freq |-> 1],
                [word |-> <<1>>, freq |-> 2],
                [word |-> <<0>>, freq |-> 3],
                [word |-> <<0, 2, 0>>, freq |-> 4]>>}

(* An empty file, and one of which the letter 0 finds two structs.         *)
FewLines == {<<>>, <<[word |-> <<0, 2, 0>>, freq |-> 1]>>}

(* A letter and the keys that are commands to the server; and those that   *)
(* are no letters.                                                         *)
TypedKeys == [c \in Clients |-> IF c = c1 THEN {0, Quit, Reset} ELSE {Nul, Other}]

=============================================================================
