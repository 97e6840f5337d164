------------------------------ MODULE MCP2PSender ------------------------------
(* Model checking of the sending peer against any behaviour of the receivers. *)
EXTENDS P2PSender, TLC

(* Receiving peers are interchangeable until accept() numbers them.        *)
Symmetry == Permutations(Peers)

================================================================================
