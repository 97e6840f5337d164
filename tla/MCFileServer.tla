------------------------------ MODULE MCFileServer ------------------------------
(* Instances of FileServer for TLC: files of no block and of two, in the    *)
(* server's directory and in the directory under it.                        *)
EXTENDS FileServer

CONSTANTS a, b

MCContents == {<<>>, <<a, b>>}

Holding(x, y, z) ==
    [d \in Dirs |-> [n \in Names |->
        CASE d = Root /\ n = Hello -> x
          [] d = Root /\ n # Hello -> y
          [] d = Sub /\ n = Hello -> None
          [] OTHER -> z]]

MCLayouts == {Holding(<<a, b>>, <<>>, <<a, b>>)}

=============================================================================
