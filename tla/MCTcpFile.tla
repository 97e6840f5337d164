------------------------------- MODULE MCTcpFile -------------------------------
(* Instances of TcpFile for TLC: an empty file, a short one and one that is *)
(* removed; listings made before the short one grew or was cut, and one     *)
(* where "empty" is a directory, whose size is listed as huge.              *)
EXTENDS TcpFile

MCFiles == {"empty", "short", "gone"}
MCSize == [f \in MCFiles |-> CASE f = "empty" -> 0 [] f = "short" -> 2 [] f = "gone" -> 1]
MCListings ==
    {MCSize, [MCSize EXCEPT !["short"] = 1], [MCSize EXCEPT !["short"] = 9],
     [MCSize EXCEPT !["empty"] = 99]}
MCRemoved == {"gone"}

=============================================================================
