------------------------------ MODULE StopAndWait ------------------------------
(***************************************************************************)
(* The UDP file transfer of hw2: client.c sends a file frame by frame and  *)
(* sends a frame again until it is acknowledged; server.c writes the       *)
(* frames it expects to a file.  The server takes a datagram from anybody, *)
(* so several clients may be running.                                      *)
(*                                                                         *)
(* The network is the set of the datagrams that may still arrive.  It may  *)
(* reorder them, deliver one more than once (a datagram may stay in the    *)
(* set when it is received), and lose those of the kinds in MayLose.       *)
(***************************************************************************)
EXTENDS Integers, Sequences

CONSTANTS
    Clients,    \* the client processes
    Frames,     \* Frames[c]: the number of BUF_SIZE frames of the file of c
    MayLose     \* the kinds of datagrams the network may lose

Kinds == {"SEQ", "FIN", "ACK", "REPLY"}

ASSUME StopAndWaitAssumption ==
    /\ Frames \in [Clients -> Nat]
    /\ MayLose \subseteq Kinds

VARIABLES
    cPc,        \* where each client is
    cFrame,     \* frame_id of each client
    sPc,        \* where the server is
    sFrame,     \* frame_id of the server
    out,        \* the frames the server wrote to its file
    net         \* the datagrams that may still arrive

vars == <<cPc, cFrame, sPc, sFrame, out, net>>

(* A datagram from client (SEQ, FIN) or to client (ACK, REPLY); no is      *)
(* sq_no in the first two and ack in the others.                           *)
Datagram(kind, client, no) == [kind |-> kind, client |-> client, no |-> no]

(* The reply to a FIN is a struct frame that was never assigned; nobody    *)
(* compares what is in it.                                                 *)
Junk == -1

(* Receiving m leaves the network with or without another copy of it.      *)
Received(m) == {net, net \ {m}}

(* Where a client goes that has n frames acknowledged.                     *)
SendOrFin(c, n) == IF n < Frames[c] THEN "send" ELSE "fin"

Init ==
    /\ cPc = [c \in Clients |-> SendOrFin(c, 0)]
    /\ cFrame = [c \in Clients |-> 0]
    /\ sPc = "recv"
    /\ sFrame = 0
    /\ out = <<>>
    /\ net = {}

-----------------------------------------------------------------------------
(* The client.                                                             *)

CSend(c) ==
    /\ cPc[c] = "send"
    /\ net' = net \cup {Datagram("SEQ", c, cFrame[c])}
    /\ cPc' = [cPc EXCEPT ![c] = "wait"]
    /\ UNCHANGED <<cFrame, sPc, sFrame, out>>

(* Mutant of CTimeout: the frame is not sent again.                        *)
CTimeout_NoRetry(c) ==
    /\ cPc[c] = "wait"
    /\ UNCHANGED vars

(* select() returns 0: back to sendto().                                   *)
CTimeout(c) ==
    /\ cPc[c] = "wait"
    /\ cPc' = [cPc EXCEPT ![c] = "send"]
    /\ UNCHANGED <<cFrame, sPc, sFrame, out, net>>

(* Mutant of CAck: any acknowledgement is taken for that of this frame.    *)
CAck_Any(c) ==
    /\ cPc[c] = "wait"
    /\ \E m \in net :
        /\ m.kind = "ACK" /\ m.client = c
        /\ net' \in Received(m)
    /\ cFrame' = [cFrame EXCEPT ![c] = @ + 1]
    /\ cPc' = [cPc EXCEPT ![c] = SendOrFin(c, cFrame[c] + 1)]
    /\ UNCHANGED <<sPc, sFrame, out>>

(* The acknowledgement of this frame: on to the next one, or to the end.   *)
CAck(c) ==
    /\ cPc[c] = "wait"
    /\ \E m \in net :
        /\ m.kind = "ACK" /\ m.client = c
        /\ m.no = cFrame[c] + 1
        /\ net' \in Received(m)
    /\ cFrame' = [cFrame EXCEPT ![c] = @ + 1]
    /\ cPc' = [cPc EXCEPT ![c] = SendOrFin(c, cFrame[c] + 1)]
    /\ UNCHANGED <<sPc, sFrame, out>>

(* Any other datagram: back to sendto().                                   *)
CReject(c) ==
    /\ cPc[c] = "wait"
    /\ \E m \in net :
        /\ m.kind \in {"ACK", "REPLY"} /\ m.client = c
        /\ m.no # cFrame[c] + 1
        /\ net' \in Received(m)
    /\ cPc' = [cPc EXCEPT ![c] = "send"]
    /\ UNCHANGED <<cFrame, sPc, sFrame, out>>

CSendFin(c) ==
    /\ cPc[c] = "fin"
    /\ net' = net \cup {Datagram("FIN", c, cFrame[c])}
    /\ cPc' = [cPc EXCEPT ![c] = "finwait"]
    /\ UNCHANGED <<cFrame, sPc, sFrame, out>>

(* "if(timeout>0)" compares the address of the function timeout(), which   *)
(* is never 0: whatever select() said, the client blocks in recvfrom() and *)
(* takes any datagram for the reply.  The FIN is not sent again.           *)
CFinished(c) ==
    /\ cPc[c] = "finwait"
    /\ \E m \in net :
        /\ m.kind \in {"ACK", "REPLY"} /\ m.client = c
        /\ net' \in Received(m)
    /\ cPc' = [cPc EXCEPT ![c] = "done"]
    /\ UNCHANGED <<cFrame, sPc, sFrame, out>>

-----------------------------------------------------------------------------
(* The server.                                                             *)

(* Mutant of SWrite: the sequence number is not compared with frame_id.    *)
SWrite_AnyNumber ==
    /\ sPc = "recv"
    /\ \E m \in net :
        /\ m.kind = "SEQ"
        /\ out' = Append(out, [from |-> m.client, no |-> m.no])
        /\ \E rest \in Received(m) : net' = rest \cup {Datagram("ACK", m.client, m.no + 1)}
    /\ sFrame' = sFrame + 1
    /\ UNCHANGED <<cPc, cFrame, sPc>>

(* The frame that is expected: write it, acknowledge it, count it.         *)
SWrite ==
    /\ sPc = "recv"
    /\ \E m \in net :
        /\ m.kind = "SEQ"
        /\ m.no = sFrame
        /\ out' = Append(out, [from |-> m.client, no |-> m.no])
        /\ \E rest \in Received(m) : net' = rest \cup {Datagram("ACK", m.client, m.no + 1)}
    /\ sFrame' = sFrame + 1
    /\ UNCHANGED <<cPc, cFrame, sPc>>

(* Mutant of SIgnore: a frame that was written before is acknowledged.     *)
SIgnore_AcksAgain ==
    /\ sPc = "recv"
    /\ \E m \in net :
        /\ m.kind = "SEQ"
        /\ m.no # sFrame
        /\ \E rest \in Received(m) : net' = rest \cup {Datagram("ACK", m.client, m.no + 1)}
    /\ UNCHANGED <<cPc, cFrame, sPc, sFrame, out>>

(* Any other frame: no acknowledgement.                                    *)
SIgnore ==
    /\ sPc = "recv"
    /\ \E m \in net :
        /\ m.kind = "SEQ"
        /\ m.no # sFrame
        /\ net' \in Received(m)
    /\ UNCHANGED <<cPc, cFrame, sPc, sFrame, out>>

(* FIN: reply, close the file, end.                                        *)
SFin ==
    /\ sPc = "recv"
    /\ \E m \in net :
        /\ m.kind = "FIN"
        /\ \E rest \in Received(m) : net' = rest \cup {Datagram("REPLY", m.client, Junk)}
    /\ sPc' = "done"
    /\ UNCHANGED <<cPc, cFrame, sFrame, out>>

-----------------------------------------------------------------------------

Lose ==
    /\ \E m \in net : m.kind \in MayLose /\ net' = net \ {m}
    /\ UNCHANGED <<cPc, cFrame, sPc, sFrame, out>>

Next ==
    \/ \E c \in Clients :
        \/ CSend(c)
        \/ CTimeout(c)
        \/ CAck(c)
        \/ CReject(c)
        \/ CSendFin(c)
        \/ CFinished(c)
    \/ SWrite
    \/ SIgnore
    \/ SFin
    \/ Lose

Spec == Init /\ [][Next]_vars

(* A client that can send does, a time-out comes when no acknowledgement   *)
(* does, and what is sent over and over is delivered at last.              *)
FairSpec ==
    /\ Spec
    /\ \A c \in Clients :
        /\ WF_vars(CSend(c) \/ CTimeout(c))
        /\ SF_vars(CAck(c))
        /\ WF_vars(CSendFin(c))
        /\ WF_vars(CFinished(c))
    /\ SF_vars(SWrite)
    /\ SF_vars(SFin)

-----------------------------------------------------------------------------
(* Type invariant of client, server and network.                           *)
TypeOK ==
    /\ cPc \in [Clients -> {"send", "wait", "fin", "finwait", "done"}]
    /\ cFrame \in [Clients -> Nat]
    /\ \A c \in Clients : cFrame[c] <= Frames[c]
    /\ sPc \in {"recv", "done"}
    /\ sFrame \in Nat
    /\ out \in Seq([from : Clients, no : Nat])
    /\ net \subseteq [kind : {"SEQ", "FIN", "ACK"}, client : Clients, no : Nat]
                       \cup [kind : {"REPLY"}, client : Clients, no : {Junk}]

(* Whatever is lost, repeated or reordered and whoever sends, the file is  *)
(* a prefix of the file of one client, and the server ends only when the   *)
(* file of the client that sent the FIN is complete.                       *)
Transfer == INSTANCE InOrderTransfer WITH
                Sources <- Clients,
                received <- out,
                closed <- (sPc = "done")

TransfersInOrder == Transfer!Spec

(* What a client counts as acknowledged is in the file of the server, and  *)
(* the server is at most one frame ahead: of all the clients one gets      *)
(* further than its first frame.                                           *)
AckedIsWritten ==
    \A c \in Clients : cFrame[c] > 0 =>
        /\ cFrame[c] <= Len(out) /\ Len(out) <= cFrame[c] + 1
        /\ \A i \in 1 .. Len(out) : out[i].from = c

(* Inductive: what the datagrams under way say agrees with the counters at *)
(* both ends, and the file has one source.                                 *)
Started == Len(out) > 0
Source == out[1].from

CountInv ==
    /\ sFrame = Len(out)
    /\ \A i \in 1 .. Len(out) : out[i] = [from |-> Source, no |-> i - 1]
    /\ Started => Len(out) <= Frames[Source] /\ Len(out) <= cFrame[Source] + 1
    /\ \A c \in Clients : cFrame[c] > 0 => Started /\ Source = c /\ cFrame[c] <= Len(out)
    /\ \A c \in Clients : IF cPc[c] \in {"send", "wait"}
                            THEN cFrame[c] < Frames[c] ELSE cFrame[c] = Frames[c]

DatagramInv ==
    \A m \in net :
        /\ m.kind = "SEQ" => m.no <= cFrame[m.client] /\ m.no < Frames[m.client]
        /\ m.kind = "ACK" => Started /\ Source = m.client /\ m.no \in 1 .. Len(out)
        /\ m.kind = "FIN" => cPc[m.client] \in {"finwait", "done"}

TransferInv == TypeOK /\ CountInv /\ DatagramInv

(* The acknowledgement client c is waiting for will not come: the server   *)
(* is beyond its frame, or has ended, and no acknowledgement is under way. *)
Starved(c) ==
    /\ cPc[c] \in {"send", "wait"}
    /\ sFrame > cFrame[c] \/ sPc = "done"
    /\ Datagram("ACK", c, cFrame[c] + 1) \notin net

(* The reply client c is waiting for will not come.                        *)
Hung(c) ==
    /\ cPc[c] = "finwait"
    /\ \A m \in net : m.client = c => m.kind = "SEQ" \/ (m.kind = "FIN" /\ sPc = "done")

(* The server acknowledges a frame once (server.c:68-88), and the client   *)
(* sends one FIN (client.c:150): a client whose acknowledgement, FIN or    *)
(* reply is lost never ends, whatever it sends again.                      *)
LossIsFinal ==
    [][\A c \in Clients : /\ Starved(c) => Starved(c)'
                          /\ Hung(c) => Hung(c)']_vars

(* Every client gets its file through and ends, unless it is one of those. *)
Completes == \A c \in Clients : <>(cPc[c] = "done" \/ Starved(c) \/ Hung(c))

=============================================================================
