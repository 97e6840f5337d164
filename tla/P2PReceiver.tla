------------------------------ MODULE P2PReceiver ------------------------------
(***************************************************************************)
(* The receiving peers of project/p2p.c: in each process the main thread   *)
(* of receiver(), one get_file_from_sender thread, one recv_file_from_recv *)
(* thread per other receiver, and the send_file_to_recv threads that push  *)
(* every segment got from the sender to every other receiver.              *)
(*                                                                         *)
(* push[p][q] is the log of the connection p opened to q.  Its             *)
(* recv_file_from_recv thread at q is named by the peer p it accepted: the *)
(* threads are interchangeable until accept() returns.  Who is reached is  *)
(* not always q: connect() gets whatever process listens on q's port.      *)
(***************************************************************************)
EXTENDS P2PSender, FiniteSets

CONSTANTS
    PortChoices,    \* the ways the receivers' addresses, ip and port, can lie
    Taken,      \* the addresses on which another program listens
    Foreign,    \* that program
    BindFails,  \* the peers whose bind() may fail for another reason: no right
    Unset,      \* a slot of fi[] nothing was stored in (malloc'd memory)
    Garbage     \* contents assembled from bytes that are not one segment's

ASSUME ReceiverAssumption ==
    /\ Foreign \notin Peers
    /\ BindFails \subseteq Peers
    /\ Unset \notin Segs
    /\ Garbage \notin Segs
    /\ Unset # Garbage

VARIABLES
    port,       \* listen_port of each peer, with its ip address; never changes
    at,         \* at[p][q]: the process that p's connect() to q's port reached
    rPc,        \* where the main thread of the receiver is
    myNo,       \* my_no
    ri,         \* recv_info[]: the receivers in the order of their numbers
    fi,         \* fi[]: what slot i of the file array holds
    gPc,        \* where the get_file_from_sender thread is
    gIdx,       \* its counter in the loop that connects to the others
    gGot,       \* its counter of segments received from the sender
    gN,         \* the n_th it read last
    gPos,       \* how many items of the sender's connection were read
    push,       \* push[p][q]: what was written to the connection from p to q
    pushPc,     \* pushPc[p][q][s]: where the thread pushing s from p to q is
    rtPc,       \* rtPc[q][p]: where the thread of q that reads from p is
    rtLeft,     \* how many segments it still expects
    rtN,        \* the n_th it read last
    rtPos       \* how many items of its connection it has read

netVars == <<port, at>>
mainVars == <<rPc, myNo, ri>>
getVars == <<gPc, gIdx, gGot, gN, gPos>>
readVars == <<rtPc, rtLeft, rtN, rtPos>>
receiverVars == <<netVars, mainVars, fi, getVars, push, pushPc, readVars>>

(* Mutants of WillGet: < for <=, or my_no for my_no + 1, in the share of   *)
(* the remainder.                                                          *)
WillGet_More(n) ==
    FileCount \div MaxPeer + (IF n <= FileCount % MaxPeer THEN 1 ELSE 0)

WillGet_Less(n) ==
    FileCount \div MaxPeer + (IF n + 1 < FileCount % MaxPeer THEN 1 ELSE 0)

(* will_get_f: the number of segments the sender will send to receiver n.  *)
WillGet(n) ==
    FileCount \div MaxPeer + (IF n + 1 <= FileCount % MaxPeer THEN 1 ELSE 0)

Others(p) == {ri[p][j] : j \in 1 .. Len(ri[p])} \ {p}

(* The threads of p exist, and its listening socket is open, while its     *)
(* main thread waits for them.                                             *)
Running(p) == rPc[p] = "join"

Ended(p) == rPc[p] \in {"saved", "exited", "killed", "crashed"}
SenderEnded == sPc \in {"done", "dead", "killed"}

(* Who listens on an address.                                              *)
Listeners(a) ==
    IF a \in Taken THEN {Foreign} ELSE {l \in Peers : Running(l) /\ port[l] = a}

(* The connections, as pairs <<p, q>>, that an accept() of l returned.     *)
AcceptedBy(l) == {c \in Peers \X Peers : at[c[1]][c[2]] = l /\ rtPc[c[2]][c[1]] # "accept"}

(* The end of p's process by a signal; the sender's connection is closed.  *)
Crash(p) == HangUp(p) /\ rPc' = [rPc EXCEPT ![p] = "crashed"]

RInit ==
    /\ port \in PortChoices
    /\ at = [p \in Peers |-> [q \in Peers |-> q]]
    /\ rPc = [p \in Peers |-> "start"]
    /\ myNo = [p \in Peers |-> NoSlot]
    /\ ri = [p \in Peers |-> <<>>]
    /\ fi = [p \in Peers |-> [s \in Segs |-> Unset]]
    /\ gPc = [p \in Peers |-> "connect"]
    /\ gIdx = [p \in Peers |-> 0]
    /\ gGot = [p \in Peers |-> 0]
    /\ gN = [p \in Peers |-> NoSlot]
    /\ gPos = [p \in Peers |-> 0]
    /\ push = [p \in Peers |-> [q \in Peers |-> <<>>]]
    /\ pushPc = [p \in Peers |-> [q \in Peers |-> [s \in Segs |-> "none"]]]
    /\ rtPc = [q \in Peers |-> [p \in Peers |-> "accept"]]
    /\ rtLeft = [q \in Peers |-> [p \in Peers |-> 0]]
    /\ rtN = [q \in Peers |-> [p \in Peers |-> NoSlot]]
    /\ rtPos = [q \in Peers |-> [p \in Peers |-> 0]]

-----------------------------------------------------------------------------
(* The main thread of receiver().                                          *)

RConnect(p) ==
    /\ rPc[p] = "start"
    /\ Dial(p)
    /\ rPc' = [rPc EXCEPT ![p] = "hello"]
    /\ UNCHANGED <<netVars, myNo, ri, fi, getVars, push, pushPc, readVars>>

(* connect() error: nobody listens, the process exits.                     *)
RConnectFails(p) ==
    /\ rPc[p] = "start"
    /\ ~Listening
    /\ rPc' = [rPc EXCEPT ![p] = "exited"]
    /\ UNCHANGED <<senderVars, netVars, myNo, ri, fi, getVars, push, pushPc, readVars>>

(* Read my_no, write listen_port.                                          *)
RHello(p) ==
    /\ rPc[p] = "hello"
    /\ SendPort(p)
    /\ myNo' = [myNo EXCEPT ![p] = down[p][1].val]
    /\ gPos' = [gPos EXCEPT ![p] = 1]
    /\ rPc' = [rPc EXCEPT ![p] = "info"]
    /\ UNCHANGED <<netVars, ri, fi, gPc, gIdx, gGot, gN, push, pushPc, readVars>>

(* The sender ended with this connection still in its backlog: the read    *)
(* fails, nobody looks, and the write of the port raises SIGPIPE.          *)
RReset(p) ==
    /\ rPc[p] = "hello"
    /\ SenderEnded
    /\ p \notin Accepted
    /\ rPc' = [rPc EXCEPT ![p] = "killed"]
    /\ UNCHANGED <<senderVars, netVars, myNo, ri, fi, getVars, push, pushPc, readVars>>

RInfo(p) ==
    /\ rPc[p] = "info"
    /\ Len(down[p]) > 1
    /\ ri' = [ri EXCEPT ![p] = down[p][2].val]
    /\ gPos' = [gPos EXCEPT ![p] = 2]
    /\ rPc' = [rPc EXCEPT ![p] = "listen"]
    /\ UNCHANGED <<senderVars, netVars, myNo, fi, gPc, gIdx, gGot, gN, push, pushPc, readVars>>

(* bind(), listen(), and the creation of the threads.                      *)
RListen(p) ==
    /\ rPc[p] = "listen"
    /\ Listeners(port[p]) = {}
    /\ rPc' = [rPc EXCEPT ![p] = "join"]
    /\ UNCHANGED <<senderVars, netVars, myNo, ri, fi, getVars, push, pushPc, readVars>>

(* bind() or listen() error: the process exits, known to the sender and    *)
(* to every other receiver.  SO_REUSEADDR leaves one reason above all:     *)
(* some process listens on that port already.                              *)
RBindFails(p) ==
    /\ rPc[p] = "listen"
    /\ Listeners(port[p]) # {} \/ p \in BindFails
    /\ HangUp(p)
    /\ rPc' = [rPc EXCEPT ![p] = "exited"]
    /\ UNCHANGED <<netVars, myNo, ri, fi, getVars, push, pushPc, readVars>>

(* save_file() writes the slots in order and frees them, and the process   *)
(* ends.                                                                   *)
SaveFile(p) ==
    /\ HangUp(p)
    /\ rPc' = [rPc EXCEPT ![p] = "saved"]

(* Mutants of RSave: the reading threads are not joined, or no thread is.  *)
RSave_NoReaderJoin(p) ==
    /\ Running(p)
    /\ gPc[p] = "done"
    /\ SaveFile(p)
    /\ UNCHANGED <<netVars, myNo, ri, fi, getVars, push, pushPc, readVars>>

RSave_NoJoin(p) ==
    /\ Running(p)
    /\ SaveFile(p)
    /\ UNCHANGED <<netVars, myNo, ri, fi, getVars, push, pushPc, readVars>>

(* The threads of p have returned: recv_count - 1 that read from a peer,   *)
(* and the one that reads from the sender.                                 *)
AllReturned(p) ==
    /\ gPc[p] = "done"
    /\ Cardinality({c \in AcceptedBy(p) : rtPc[c[2]][c[1]] = "done"}) = Len(ri[p]) - 1

(* The main thread joins all of them and saves the file.                   *)
RSave(p) ==
    /\ Running(p)
    /\ AllReturned(p)
    /\ SaveFile(p)
    /\ UNCHANGED <<netVars, myNo, ri, fi, getVars, push, pushPc, readVars>>

(* save_file() follows a pointer that no thread has stored.                *)
RSaveCrash(p) ==
    /\ Running(p)
    /\ AllReturned(p)
    /\ \E s \in Segs : fi[p][s] = Unset
    /\ Crash(p)
    /\ UNCHANGED <<netVars, myNo, ri, fi, getVars, push, pushPc, readVars>>

-----------------------------------------------------------------------------
(* get_file_from_sender.                                                   *)

(* The head of the loop over the segments to come from the sender.         *)
GetOrJoin(p, got) == IF got < WillGet(myNo[p]) THEN "n" ELSE "join"

GNextPeer(p) ==
    /\ gIdx' = [gIdx EXCEPT ![p] = @ + 1]
    /\ gPc' = [gPc EXCEPT ![p] = IF gIdx[p] + 1 < Len(ri[p])
                                   THEN "connect" ELSE GetOrJoin(p, 0)]

GSkipSelf(p) ==
    /\ Running(p)
    /\ gPc[p] = "connect"
    /\ gIdx[p] = myNo[p]
    /\ GNextPeer(p)
    /\ UNCHANGED <<senderVars, netVars, mainVars, fi, gGot, gN, gPos, push, pushPc, readVars>>

(* Mutant of GConnect: connect() is tried once and its result ignored.     *)
GConnect_Once(p) ==
    /\ Running(p)
    /\ gPc[p] = "connect"
    /\ gIdx[p] # myNo[p]
    /\ LET q == ri[p][gIdx[p] + 1]
       IN  push' = IF Running(q)
                     THEN [push EXCEPT ![p][q] = Append(@, Item("count", WillGet(myNo[p])))]
                     ELSE push
    /\ GNextPeer(p)
    /\ UNCHANGED <<senderVars, netVars, mainVars, fi, gGot, gN, gPos, pushPc, readVars>>

(* connect() is retried until some process listens on the other peer's     *)
(* port: that peer, another one, p itself, or another program.  Then the   *)
(* number of segments to come is written.                                  *)
GConnect(p) ==
    /\ Running(p)
    /\ gPc[p] = "connect"
    /\ gIdx[p] # myNo[p]
    /\ LET q == ri[p][gIdx[p] + 1]
       IN  /\ \E l \in Listeners(port[q]) : at' = [at EXCEPT ![p][q] = l]
           /\ push' = [push EXCEPT ![p][q] = Append(@, Item("count", WillGet(myNo[p])))]
    /\ GNextPeer(p)
    /\ UNCHANGED <<senderVars, port, mainVars, fi, gGot, gN, gPos, pushPc, readVars>>

(* What a read() of the contents of a segment leaves in the buffer.        *)
Contents(item) == IF item.kind = "data" THEN item.val ELSE Garbage

(* A read() that finds the item it expects, or bytes of something else.    *)
GRead(p, kind, then) ==
    /\ Running(p)
    /\ gPc[p] = kind
    /\ Len(down[p]) > gPos[p]
    /\ gPos' = [gPos EXCEPT ![p] = @ + 1]
    /\ gPc' = [gPc EXCEPT ![p] =
                 IF down[p][gPos[p] + 1].kind = kind THEN then ELSE "garbled"]

GReadN(p) ==
    /\ GRead(p, "n", "size")
    /\ gN' = [gN EXCEPT ![p] = down[p][gPos[p] + 1].val]
    /\ UNCHANGED <<senderVars, netVars, mainVars, fi, gIdx, gGot, push, pushPc, readVars>>

GReadSize(p) ==
    /\ GRead(p, "size", "data")
    /\ UNCHANGED <<senderVars, netVars, mainVars, fi, gIdx, gGot, gN, push, pushPc, readVars>>

(* Mutant of GReadData: segments are stored in the order of arrival.       *)
GReadData_ByArrival(p) ==
    /\ GRead(p, "data", GetOrJoin(p, gGot[p] + 1))
    /\ fi' = [fi EXCEPT ![p][gGot[p]] = Contents(down[p][gPos[p] + 1])]
    /\ gGot' = [gGot EXCEPT ![p] = @ + 1]
    /\ pushPc' = [pushPc EXCEPT ![p] =
                    [q \in Peers |-> IF q \in Others(p)
                                       THEN [@[q] EXCEPT ![gN[p]] = "n"]
                                       ELSE @[q]]]
    /\ UNCHANGED <<senderVars, netVars, mainVars, gIdx, gN, push, readVars>>

(* Read the contents, store them, create one thread per other receiver to  *)
(* push them, and go on with the next segment.                             *)
GReadData(p) ==
    /\ GRead(p, "data", GetOrJoin(p, gGot[p] + 1))
    /\ fi' = [fi EXCEPT ![p][gN[p]] = Contents(down[p][gPos[p] + 1])]
    /\ gGot' = [gGot EXCEPT ![p] = @ + 1]
    /\ pushPc' = [pushPc EXCEPT ![p] =
                    [q \in Peers |-> IF q \in Others(p)
                                       THEN [@[q] EXCEPT ![gN[p]] = "n"]
                                       ELSE @[q]]]
    /\ UNCHANGED <<senderVars, netVars, mainVars, gIdx, gN, push, readVars>>

(* The sender has ended and nothing is left to read: read() returns 0,     *)
(* which nobody looks at.  In the first segment n_th or file_size are then *)
(* what the stack held; later the thread spins, for the size of the        *)
(* segment before is still there.                                          *)
GReadEnd(p) ==
    /\ Running(p)
    /\ gPc[p] \in {"n", "size", "data"}
    /\ SenderEnded
    /\ Len(down[p]) = gPos[p]
    /\ gPc' = [gPc EXCEPT ![p] = IF gPos[p] \in {2, 3} THEN "lost" ELSE "spin"]
    /\ UNCHANGED <<senderVars, netVars, mainVars, fi, gIdx, gGot, gN, gPos, push, pushPc, readVars>>

(* With no size at all, nothing is filed as a segment and passed on; with  *)
(* another n_th or size the thread crashes, or spins, which is no step.    *)
GLost(p) ==
    /\ Running(p)
    /\ gPc[p] = "lost"
    /\ \E s \in Segs :
         /\ gN[p] \in {s, NoSlot}
         /\ gN' = [gN EXCEPT ![p] = s]
         /\ fi' = [fi EXCEPT ![p][s] = Garbage]
         /\ pushPc' = [pushPc EXCEPT ![p] =
                         [q \in Peers |-> IF q \in Others(p) THEN [@[q] EXCEPT ![s] = "n"]
                                                            ELSE @[q]]]
    /\ gGot' = [gGot EXCEPT ![p] = @ + 1]
    /\ gPc' = [gPc EXCEPT ![p] = IF gGot[p] + 1 < WillGet(myNo[p]) THEN "lost" ELSE "join"]
    /\ UNCHANGED <<senderVars, netVars, mainVars, gIdx, gPos, push, readVars>>

GLostCrash(p) ==
    /\ Running(p)
    /\ gPc[p] = "lost"
    /\ Crash(p)
    /\ UNCHANGED <<netVars, myNo, ri, fi, getVars, push, pushPc, readVars>>

(* Mutant of GJoin: the pushing threads are not joined.                    *)
GJoin_NoWait(p) ==
    /\ Running(p)
    /\ gPc[p] = "join"
    /\ gPc' = [gPc EXCEPT ![p] = "done"]
    /\ UNCHANGED <<senderVars, netVars, mainVars, fi, gIdx, gGot, gN, gPos, push, pushPc, readVars>>

GJoin(p) ==
    /\ Running(p)
    /\ gPc[p] = "join"
    /\ \A q \in Peers, s \in Segs : pushPc[p][q][s] \in {"none", "done"}
    /\ gPc' = [gPc EXCEPT ![p] = "done"]
    /\ UNCHANGED <<senderVars, netVars, mainVars, fi, gIdx, gGot, gN, gPos, push, pushPc, readVars>>

-----------------------------------------------------------------------------
(* send_file_to_recv: the thread of p that pushes segment s to q.  Unlike  *)
(* the sender's threads it takes no lock.                                  *)

PushWrite(p, q, s, kind, then) ==
    /\ Running(p)
    /\ pushPc[p][q][s] = kind
    /\ push' = [push EXCEPT ![p][q] = Append(@, Item(kind, s))]
    /\ pushPc' = [pushPc EXCEPT ![p][q][s] = then]
    /\ UNCHANGED <<senderVars, netVars, mainVars, fi, getVars, readVars>>

PushN(p, q, s) == PushWrite(p, q, s, "n", "size")
PushSize(p, q, s) == PushWrite(p, q, s, "size", "data")
PushData(p, q, s) == PushWrite(p, q, s, "data", "done")

(* A write() to a process that has ended or has closed the connection may  *)
(* raise SIGPIPE.                                                          *)
PushBrokenPipe(p, q, s) ==
    /\ Running(p)
    /\ pushPc[p][q][s] \in {"n", "size", "data"}
    /\ at[p][q] \in {Foreign} \cup {l \in Peers : Ended(l)}
    /\ Crash(p)
    /\ UNCHANGED <<netVars, myNo, ri, fi, getVars, push, pushPc, readVars>>

-----------------------------------------------------------------------------
(* recv_file_from_recv: the thread that reads the connection from p to q's *)
(* port.  It is a thread of q, or of whom else connect() reached.          *)

Reads(q, p) == at[p][q] \in Peers /\ Running(at[p][q])

(* The head of the loop over the segments to come from p.                  *)
ReadOrEnd(left) == IF left > 0 THEN "n" ELSE "done"

(* accept() and the read of the number of segments to come.                *)
RTAccept(q, p) ==
    /\ Reads(q, p)
    /\ rtPc[q][p] = "accept"
    /\ push[p][q] # <<>>
    /\ Cardinality(AcceptedBy(at[p][q])) < Len(ri[at[p][q]]) - 1
    /\ LET count == push[p][q][1].val
       IN  /\ rtLeft' = [rtLeft EXCEPT ![q][p] = count]
           /\ rtPc' = [rtPc EXCEPT ![q][p] = ReadOrEnd(count)]
    /\ rtPos' = [rtPos EXCEPT ![q][p] = 1]
    /\ UNCHANGED <<senderVars, netVars, mainVars, fi, getVars, push, pushPc, rtN>>

RTRead(q, p, kind, then) ==
    /\ Reads(q, p)
    /\ rtPc[q][p] = kind
    /\ Len(push[p][q]) > rtPos[q][p]
    /\ rtPos' = [rtPos EXCEPT ![q][p] = @ + 1]
    /\ rtPc' = [rtPc EXCEPT ![q][p] =
                  IF push[p][q][rtPos[q][p] + 1].kind = kind THEN then ELSE "garbled"]

RTReadN(q, p) ==
    /\ RTRead(q, p, "n", "size")
    /\ rtN' = [rtN EXCEPT ![q][p] = push[p][q][rtPos[q][p] + 1].val]
    /\ UNCHANGED <<senderVars, netVars, mainVars, fi, getVars, push, pushPc, rtLeft>>

RTReadSize(q, p) ==
    /\ RTRead(q, p, "size", "data")
    /\ UNCHANGED <<senderVars, netVars, mainVars, fi, getVars, push, pushPc, rtLeft, rtN>>

(* Read the contents and store them: those of the segment, unless the      *)
(* bytes of another one came in between.                                   *)
RTReadData(q, p) ==
    /\ RTRead(q, p, "data", ReadOrEnd(rtLeft[q][p] - 1))
    /\ fi' = [fi EXCEPT ![at[p][q]][rtN[q][p]] = Contents(push[p][q][rtPos[q][p] + 1])]
    /\ rtLeft' = [rtLeft EXCEPT ![q][p] = @ - 1]
    /\ UNCHANGED <<senderVars, netVars, mainVars, getVars, push, pushPc, rtN>>

(* The peer has ended and nothing is left to read, as in GReadEnd.         *)
RTReadEnd(q, p) ==
    /\ Reads(q, p)
    /\ rtPc[q][p] \in {"n", "size", "data"}
    /\ Ended(p)
    /\ Len(push[p][q]) = rtPos[q][p]
    /\ rtPc' = [rtPc EXCEPT ![q][p] = IF rtPos[q][p] \in {1, 2} THEN "garbled" ELSE "spin"]
    /\ UNCHANGED <<senderVars, netVars, mainVars, fi, getVars, push, pushPc, rtLeft, rtN, rtPos>>

(* A thread that has lost the framing takes payload bytes, or what the     *)
(* stack held, for an n_th and a file_size: it stores anything in any slot *)
(* and goes on to the next round of its loop, or waits, or spins, or       *)
(* crashes: the index is out of range, or the buffer it asks for too large.*)
RTGarbled(q, p) ==
    /\ Reads(q, p)
    /\ rtPc[q][p] = "garbled"
    /\ \E s \in Segs : fi' = [fi EXCEPT ![at[p][q]][s] = Garbage]
    /\ rtLeft' = [rtLeft EXCEPT ![q][p] = @ - 1]
    /\ rtPc' = [rtPc EXCEPT ![q][p] = IF rtLeft[q][p] > 1 THEN "garbled" ELSE "done"]
    /\ UNCHANGED <<senderVars, netVars, mainVars, getVars, push, pushPc, rtN, rtPos>>

RTCrash(q, p) ==
    /\ Reads(q, p)
    /\ rtPc[q][p] = "garbled"
    /\ Crash(at[p][q])
    /\ UNCHANGED <<netVars, myNo, ri, fi, getVars, push, pushPc, readVars>>

=============================================================================
