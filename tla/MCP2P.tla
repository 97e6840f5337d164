--------------------------------- MODULE MCP2P ---------------------------------
(* Model checking of the sending peer together with the receiving peers.   *)
EXTENDS P2P, TLC

CONSTANT busy   \* the address another program listens on

(* Receiving peers are interchangeable until accept() numbers them.        *)
Symmetry == Permutations(Peers)

(* Every receiver has an address of its own.                               *)
OwnPorts == {[p \in Peers |-> p]}

(* Or one of them was given the port of another program.                   *)
OwnOrTaken == OwnPorts \cup {[p \in Peers |-> IF p = q THEN busy ELSE p] : q \in Peers}

(* Or all of them the same port on one host.                               *)
AnyPorts == OwnOrTaken \cup {[p \in Peers |-> q] : q \in Peers}

================================================================================
