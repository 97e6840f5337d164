--------------------------- MODULE FileDistribution ---------------------------
(***************************************************************************)
(* What the file sharing of project/p2p.c promises, without connections or *)
(* threads: the file is cut into pieces, the seed hands every piece to one *)
(* peer only, peers copy pieces from each other, and a peer finishes only  *)
(* with every piece, each intact.                                          *)
(***************************************************************************)
CONSTANTS Peers, Pieces

VARIABLES
    have,       \* have[p]: the pieces peer p holds intact
    finished    \* the peers that have written the file

distVars == <<have, finished>>

Init ==
    /\ have = [p \in Peers |-> {}]
    /\ finished = {}

Seed(p, s) ==
    /\ \A q \in Peers : s \notin have[q]
    /\ have' = [have EXCEPT ![p] = @ \cup {s}]
    /\ UNCHANGED finished

Relay(p, q, s) ==
    /\ s \in have[p] \ have[q]
    /\ have' = [have EXCEPT ![q] = @ \cup {s}]
    /\ UNCHANGED finished

Finish(p) ==
    /\ p \notin finished
    /\ have[p] = Pieces
    /\ finished' = finished \cup {p}
    /\ UNCHANGED have

Next ==
    \/ \E p \in Peers, s \in Pieces : Seed(p, s)
    \/ \E p, q \in Peers, s \in Pieces : Relay(p, q, s)
    \/ \E p \in Peers : Finish(p)

Spec == Init /\ [][Next]_distVars

=============================================================================
