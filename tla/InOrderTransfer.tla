---------------------------- MODULE InOrderTransfer ----------------------------
(***************************************************************************)
(* What the UDP file transfer of hw2 promises, without datagrams: the      *)
(* receiver takes the frames of one source, each once and in order, and    *)
(* ends only when some source has nothing more to send.                    *)
(***************************************************************************)
EXTENDS Naturals, Sequences

CONSTANTS Sources, Frames   \* Frames[c] is the number of frames of source c

VARIABLES received, closed

transferVars == <<received, closed>>

(* What has been received when n frames of source c have.                  *)
FirstFrames(c, n) == [i \in 1 .. n |-> [from |-> c, no |-> i - 1]]

Complete(c) == received = FirstFrames(c, Frames[c]) \/ Frames[c] = 0

Init == received = <<>> /\ closed = FALSE

Take(c) ==
    /\ ~closed
    /\ Len(received) < Frames[c]
    /\ received = FirstFrames(c, Len(received))
    /\ received' = FirstFrames(c, Len(received) + 1)
    /\ UNCHANGED closed

Close ==
    /\ ~closed
    /\ \E c \in Sources : Complete(c)
    /\ closed' = TRUE
    /\ UNCHANGED received

Next == Close \/ \E c \in Sources : Take(c)

Spec == Init /\ [][Next]_transferVars

=============================================================================
