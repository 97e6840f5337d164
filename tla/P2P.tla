---------------------------------- MODULE P2P ----------------------------------
(***************************************************************************)
(* The whole of project/p2p.c at run time: one sending peer, the receiving *)
(* peers, and the connections between them.                                *)
(***************************************************************************)
EXTENDS P2PReceiver

vars == <<senderVars, receiverVars>>

Init == SInit /\ RInit

(* Nothing is left to do: the sender has ended, and so has every receiver. *)
Terminated ==
    /\ SenderEnded
    /\ \A p \in Peers : Ended(p)
    /\ UNCHANGED vars

(* The sender waits for more receivers, and nobody is left to join.        *)
ShortOfPeers ==
    /\ sPc = "accept"
    /\ dialled = Accepted
    /\ \A p \in Peers : rPc[p] \in {"info", "exited"}
    /\ UNCHANGED vars

SenderStep ==
    /\ SenderMain \/ \E s \in Segs : SenderThread(s)
    /\ UNCHANGED receiverVars

MainStep(p) ==
    \/ RConnect(p)
    \/ RConnectFails(p)
    \/ RHello(p)
    \/ RReset(p)
    \/ RInfo(p)
    \/ RListen(p)
    \/ RBindFails(p)
    \/ RSave(p)
    \/ RSaveCrash(p)

GetStep(p) ==
    \/ GSkipSelf(p)
    \/ GConnect(p)
    \/ GReadN(p)
    \/ GReadSize(p)
    \/ GReadData(p)
    \/ GReadEnd(p)
    \/ GLost(p)
    \/ GLostCrash(p)
    \/ GJoin(p)

PushStep(p, q, s) ==
    \/ PushN(p, q, s)
    \/ PushSize(p, q, s)
    \/ PushData(p, q, s)
    \/ PushBrokenPipe(p, q, s)

ReadStep(q, p) ==
    \/ RTAccept(q, p)
    \/ RTReadN(q, p)
    \/ RTReadSize(q, p)
    \/ RTReadData(q, p)
    \/ RTReadEnd(q, p)
    \/ RTGarbled(q, p)
    \/ RTCrash(q, p)

Next ==
    \/ SenderStep
    \/ \E p \in Peers : MainStep(p) \/ GetStep(p)
    \/ \E p, q \in Peers, s \in Segs : PushStep(p, q, s)
    \/ \E p, q \in Peers : ReadStep(q, p)
    \/ Terminated
    \/ ShortOfPeers

Spec == Init /\ [][Next]_vars

(* The operating system does not stop scheduling while some thread can run. *)
FairSpec == Spec /\ WF_vars(Next)

-----------------------------------------------------------------------------
(* Type invariant of the receiving peers.                                  *)
PushItem == [kind : {"count"}, val : Nat] \cup [kind : {"n", "size", "data"}, val : Segs]

ReceiverTypeOK ==
    /\ port \in PortChoices
    /\ at \in [Peers -> [Peers -> Peers \cup {Foreign}]]
    /\ rPc \in [Peers -> {"start", "hello", "info", "listen", "join",
                          "saved", "exited", "killed", "crashed"}]
    /\ myNo \in [Peers -> Slots \cup {NoSlot}]
    /\ ri \in [Peers -> Seq(Peers)]
    /\ fi \in [Peers -> [Segs -> Segs \cup {Unset, Garbage}]]
    /\ gPc \in [Peers -> {"connect", "n", "size", "data", "join", "done", "garbled",
                         "lost", "spin"}]
    /\ gIdx \in [Peers -> Nat]
    /\ gGot \in [Peers -> Nat]
    /\ gN \in [Peers -> Segs \cup {NoSlot}]
    /\ gPos \in [Peers -> Nat]
    /\ push \in [Peers -> [Peers -> Seq(PushItem)]]
    /\ pushPc \in [Peers -> [Peers -> [Segs -> {"none", "n", "size", "data", "done"}]]]
    /\ rtPc \in [Peers -> [Peers -> {"accept", "n", "size", "data", "done", "garbled", "spin"}]]
    /\ rtLeft \in [Peers -> [Peers -> Int]]
    /\ rtN \in [Peers -> [Peers -> Segs \cup {NoSlot}]]
    /\ rtPos \in [Peers -> [Peers -> Nat]]

TypeOK == SenderTypeOK /\ ReceiverTypeOK

(* With one segment per receiver no two send_file_to_recv threads share a  *)
(* connection; with more they do, and nothing serialises them.             *)
OneSegmentEach == FileCount <= MaxPeer

(* Every receiver was given a port of its own, on which nothing else       *)
(* listens: connect() to it reaches that receiver or nobody.               *)
OwnPort ==
    \A p, q \in Peers : port[p] \notin Taken /\ (port[p] = port[q] => p = q)

(* What keeps the receivers from losing a framing or missing each other.   *)
Undisturbed == OneSegmentEach /\ OwnPort

(* What is stored in slot i of fi[] is segment i, whichever thread stored  *)
(* it ("receive the file contents ... and store them", p2p.c:276-293).     *)
SlotsIntact == \A p \in Peers, s \in Segs : fi[p][s] \in {Unset, s}

(* The connection from the sender is never misread, however many segments  *)
(* the sender's threads interleave on it.                                  *)
SenderStreamParsed == \A p \in Peers : gPc[p] # "garbled"

(* send_file_to_recv reads contents that save_file() frees: no such thread *)
(* is left when the file is saved.                                         *)
NoUseAfterFree ==
    \A p, q \in Peers, s \in Segs :
        rPc[p] = "saved" => pushPc[p][q][s] \in {"none", "done"}

(* will_get_f, computed by each receiver from its number, agrees with what *)
(* the round robin of the sender sends: a receiver that saves has read its *)
(* connections to the end, and the sender has nothing more for it.         *)
NothingUnread ==
    Undisturbed => \A p \in Peers : rPc[p] = "saved" =>
        /\ gPos[p] = Len(down[p])
        /\ \A s \in Segs : Peer(s % MaxPeer) = p => Written(s) = 3
        /\ \A q \in Others(p) : rtPos[p][q] = Len(push[q][p])

(* With ports of their own, no receiver saves a file unless every receiver *)
(* the sender accepted got as far as listening for the others, be it that  *)
(* it crashed then.  With a shared port it may: it has connected to itself *)
(* or to whoever listened in the other one's place.                        *)
SaveNeedsEveryPeer ==
    (\E p \in Peers : rPc[p] = "saved") /\ OwnPort
        => \A q \in Accepted : rPc[q] \in {"join", "saved", "crashed"}

(* Undisturbed, read() never meets the end of a connection: the loops that *)
(* read the contents of a segment (p2p.c:278, 390) would spin on it for    *)
(* ever, the other reads would leave n_th and file_size as they were.      *)
NoReadAtEnd ==
    Undisturbed =>
    /\ SenderEnded => \A p \in Accepted :
         /\ rPc[p] = "info" => Len(down[p]) > 1
         /\ Running(p) /\ gPc[p] \in {"n", "size", "data"} => Len(down[p]) > gPos[p]
    /\ \A p, q \in Peers :
         rPc[p] = "saved" /\ Running(q) /\ rtPc[q][p] \in {"n", "size", "data"}
             => Len(push[p][q]) > rtPos[q][p]

(* A receiver that joined and then could not bind its port.                *)
SomeBindFailed == \E p \in Accepted : rPc[p] = "exited"

(* Undisturbed, nobody dies of somebody else: the sender gets SIGPIPE only *)
(* from a receiver that could not bind its port, never from one that has   *)
(* saved and left too early; nobody reads from a dead sender, for all      *)
(* others still wait to connect to that receiver; and no receiver that     *)
(* listens ever crashes.                                                   *)
NobodyDragged ==
    Undisturbed =>
    /\ SenderEnded /\ sPc # "done" => SomeBindFailed /\ \A p \in Peers : gPc[p] = "connect"
    /\ \A p \in Peers : rPc[p] # "crashed"

(* Once enough receivers have connected, the sender and every receiver it  *)
(* accepted finish with the whole file, and every other one ends too,      *)
(* unless one could not bind its port.                                     *)
AllServed ==
    /\ sPc = "done"
    /\ Cardinality(Accepted) = MaxPeer
    /\ \A p \in Accepted : rPc[p] = "saved"
    /\ \A p \in Peers \ Accepted : rPc[p] \in {"exited", "killed"}

Completes == (Cardinality(dialled) >= MaxPeer) ~> (AllServed \/ SomeBindFailed)

(* The protocol implements the distribution of a file in pieces, each sent *)
(* to one receiver by the sender and passed on by that one.                *)
Dist == INSTANCE FileDistribution WITH
            Pieces <- Segs,
            have <- [p \in Peers |-> {s \in Segs : fi[p][s] = s}],
            finished <- {p \in Peers : rPc[p] = "saved"}

Distributes == Dist!Spec

=============================================================================
