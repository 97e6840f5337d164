----------------------------- MODULE MCStopAndWait -----------------------------
(* Model checking of the UDP file transfer of hw2.                         *)
EXTENDS StopAndWait, TLC

CONSTANTS c1, c2, c3

(* Clients with files of different lengths, one of them empty.             *)
ThreeFiles == (c1 :> 3) @@ (c2 :> 2) @@ (c3 :> 0)
OneFile == c1 :> 6

================================================================================
