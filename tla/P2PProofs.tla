------------------------------- MODULE P2PProofs -------------------------------
(***************************************************************************)
(* Proofs about the sender and the receivers of project/p2p.c together.    *)
(*                                                                         *)
(* The receiving peers are an environment the sending peer was proved      *)
(* correct in: every step of the whole program is a step of SenderNext or  *)
(* leaves the variables of P2PSender alone.  What P2PSenderProofs shows of *)
(* the sender holds for the whole program.                                 *)
(***************************************************************************)
EXTENDS P2P, P2PSenderProofs

LEMMA SenderStepRefines == SenderStep => SenderNext
BY DEF SenderStep, SenderNext

LEMMA MainStepRefines ==
    ASSUME NEW p \in Peers, MainStep(p)
    PROVE  [SenderNext]_senderVars
<1>1. CASE RConnect(p)
  BY <1>1 DEF RConnect, SenderNext, PeerStep
<1>2. CASE RHello(p)
  BY <1>2 DEF RHello, SenderNext, PeerStep
<1>3. CASE RBindFails(p) \/ RSaveCrash(p)
  BY <1>3 DEF RBindFails, RSaveCrash, Crash, SenderNext, PeerStep
<1>4. CASE RSave(p)
  BY <1>4 DEF RSave, SaveFile, SenderNext, PeerStep
<1>5. CASE RConnectFails(p) \/ RReset(p) \/ RInfo(p) \/ RListen(p)
  BY <1>5 DEF RConnectFails, RReset, RInfo, RListen
<1>6. QED
  BY <1>1, <1>2, <1>3, <1>4, <1>5 DEF MainStep

(* The threads of the receivers read the connections from the sender and   *)
(* write to each other; one that crashes hangs up.                         *)
LEMMA ThreadStepRefines ==
    ASSUME NEW p \in Peers, NEW q \in Peers,
           \/ GetStep(p)
           \/ \E s \in Segs : PushStep(p, q, s)
           \/ ReadStep(q, p)
    PROVE  [SenderNext]_senderVars
<1>1. ASSUME NEW l \in Peers, HangUp(l)
      PROVE  SenderNext
  BY <1>1 DEF SenderNext, PeerStep
<1>2. CASE GetStep(p)
  <2>1. CASE GLostCrash(p)
    BY <1>1, <2>1 DEF GLostCrash, Crash
  <2>2. CASE ~GLostCrash(p)
    BY <1>2, <2>2 DEF GetStep, GSkipSelf, GConnect, GReadN, GReadSize, GReadData, GReadEnd, GLost, GJoin
  <2>3. QED
    BY <2>1, <2>2
<1>3. ASSUME NEW s \in Segs, PushStep(p, q, s)
      PROVE  [SenderNext]_senderVars
  <2>1. CASE PushBrokenPipe(p, q, s)
    BY <1>1, <2>1 DEF PushBrokenPipe, Crash
  <2>2. CASE ~PushBrokenPipe(p, q, s)
    BY <1>3, <2>2 DEF PushStep, PushN, PushSize, PushData, PushWrite
  <2>3. QED
    BY <2>1, <2>2
<1>4. CASE ReadStep(q, p)
  <2>1. CASE RTCrash(q, p)
    BY <1>1, <2>1 DEF RTCrash, Crash, Reads
  <2>2. CASE ~RTCrash(q, p)
    BY <1>4, <2>2 DEF ReadStep, RTAccept, RTReadN, RTReadSize, RTReadData, RTReadEnd, RTGarbled
  <2>3. QED
    BY <2>1, <2>2
<1>5. QED
  BY <1>2, <1>3, <1>4

LEMMA NextRefines == [Next]_vars => [SenderNext]_senderVars
<1> SUFFICES ASSUME [Next]_vars
             PROVE  [SenderNext]_senderVars
  OBVIOUS
<1>1. CASE SenderStep
  BY <1>1, SenderStepRefines
<1>2. ASSUME NEW p \in Peers, MainStep(p) \/ GetStep(p)
      PROVE  [SenderNext]_senderVars
  BY <1>2, MainStepRefines, ThreadStepRefines
<1>3. ASSUME NEW p \in Peers, NEW q \in Peers, NEW s \in Segs, PushStep(p, q, s)
      PROVE  [SenderNext]_senderVars
  BY <1>3, ThreadStepRefines
<1>4. ASSUME NEW p \in Peers, NEW q \in Peers, ReadStep(q, p)
      PROVE  [SenderNext]_senderVars
  BY <1>4, ThreadStepRefines
<1>5. CASE Terminated \/ ShortOfPeers \/ UNCHANGED vars
  BY <1>5 DEF Terminated, ShortOfPeers, vars
<1>6. QED
  BY <1>1, <1>2, <1>3, <1>4, <1>5 DEF Next

(* The whole program implements the sender in its environment.             *)
THEOREM ImplementsSender == Spec => SenderSpec
<1>1. Init => SInit
  BY DEF Init
<1>2. [Next]_vars => [SenderNext]_senderVars
  BY NextRefines
<1>3. QED
  BY <1>1, <1>2, PTL DEF Spec, SenderSpec

(* What the sender promises holds with the real receivers.                 *)
THEOREM SenderPromises == Spec => [](FramesWhole /\ StartsWhenAllJoined /\ RoundRobin)
BY ImplementsSender, FramesAlwaysWhole, StartsOnlyWhenAllJoined, RoundRobinHolds, PTL

-----------------------------------------------------------------------------
(* The connections from the sender, as the receivers see them.             *)

(* What was written to a connection stays there.                           *)
LogsGrow ==
    \A p \in Peers :
        /\ Len(down[p]) <= Len(down'[p])
        /\ \A j \in 1 .. Len(down[p]) : down'[p][j] = down[p][j]

LEMMA AppendGrows ==
    ASSUME SenderTypeOK, NEW q \in Peers, NEW it \in DownItem,
           down' = [down EXCEPT ![q] = Append(@, it)]
    PROVE  LogsGrow
<1>1. down \in [Peers -> Seq(DownItem)]
  BY DEF SenderTypeOK
<1>2. SUFFICES ASSUME NEW p \in Peers
               PROVE  /\ Len(down[p]) <= Len(down'[p])
                      /\ \A j \in 1 .. Len(down[p]) : down'[p][j] = down[p][j]
  BY DEF LogsGrow
<1>3. Len(down[p]) \in Nat
  BY <1>1
<1>4. CASE p = q
  BY <1>1, <1>3, <1>4, LogGrows
<1>5. CASE p # q
  BY <1>1, <1>3, <1>5
<1>6. QED
  BY <1>4, <1>5

LEMMA SenderLogsGrow ==
    ASSUME SenderInv, [SenderNext]_senderVars
    PROVE  LogsGrow
<1> USE SenderAssumption
<1>1. SenderTypeOK
  BY DEF SenderInv
<1>2. CASE UNCHANGED down
  BY <1>1, <1>2 DEF LogsGrow, SenderTypeOK
<1>3. ASSUME NEW p \in Peers, SAccept(p)
      PROVE  LogsGrow
  <2>1. Len(recvSock) \in Slots
    BY <1>1, <1>3 DEF SAccept, Slots, SenderTypeOK
  <2>2. QED
    BY <1>1, <1>3, <2>1, AppendGrows, ItemTypes DEF SAccept
<1>4. CASE SSendInfo
  <2>1. Peer(idx) \in Peers
    BY <1>1, <1>4, PeerAccepted DEF SSendInfo, SenderInv, MainInv, SenderTypeOK, Joining
  <2>2. QED
    BY <1>1, <1>4, <2>1, AppendGrows, ItemTypes DEF SSendInfo, SenderTypeOK
<1>5. ASSUME NEW s \in Segs, NEW k \in {"n", "size", "data"}, NEW then, TWrite(s, k, then)
      PROVE  LogsGrow
  <2>1. dest[s] \in Slots /\ Len(recvSock) = MaxPeer
    <3>1. thr[s] # "none" /\ ~Joining
      BY <1>5 DEF TWrite, ThreadsRun, Joining
    <3>2. dest[s] = s % MaxPeer /\ Len(recvSock) = MaxPeer
      BY <3>1 DEF SenderInv, MainInv
    <3>3. s \in Nat
      BY DEF Segs
    <3>4. QED
      BY <3>2, <3>3, DivMod DEF Slots
  <2>2. Peer(dest[s]) \in Peers
    BY <1>1, <2>1, PeerAccepted DEF SenderTypeOK, Slots
  <2>3. QED
    BY <1>1, <1>5, <2>2, AppendGrows, ItemTypes DEF TWrite
<1>6. CASE UNCHANGED senderVars
  BY <1>2, <1>6 DEF senderVars
<1>7. CASE SListen \/ SReadPort \/ SBrokenPipe \/ SSpawn \/ SSpawned \/ SJoin
  BY <1>2, <1>7 DEF SListen, SReadPort, SBrokenPipe, SSpawn, SSpawned, SJoin
<1>8. ASSUME NEW p \in Peers, PeerStep(p)
      PROVE  LogsGrow
  BY <1>2, <1>8 DEF PeerStep, Dial, SendPort, HangUp, sVars
<1>9. ASSUME NEW s \in Segs, SenderThread(s)
      PROVE  LogsGrow
  <2>1. CASE TLock(s) \/ TUnlock(s) \/ TBrokenPipe(s)
    BY <1>2, <2>1 DEF TLock, TUnlock, TBrokenPipe
  <2>2. CASE TWriteN(s) \/ TWriteSize(s) \/ TWriteData(s)
    BY <1>5, <2>2 DEF TWriteN, TWriteSize, TWriteData
  <2>3. QED
    BY <1>9, <2>1, <2>2 DEF SenderThread
<1>10. QED
  BY <1>3, <1>4, <1>6, <1>7, <1>8, <1>9 DEF SenderNext, SenderMain

-----------------------------------------------------------------------------
(* Types.                                                                  *)

LEMMA WillGetType == ASSUME NEW n PROVE WillGet(n) \in Nat
<1>1. FileCount \div MaxPeer \in Nat
  BY SenderAssumption, DivMod
<1>2. QED
  BY <1>1 DEF WillGet

(* The control points the loops go on to.                                  *)
LEMMA LoopHeads ==
    ASSUME NEW p, NEW got, NEW left
    PROVE  GetOrJoin(p, got) \in {"n", "join"} /\ ReadOrEnd(left) \in {"n", "done"}
BY DEF GetOrJoin, ReadOrEnd

LEMMA ReceiverInitType == RInit => ReceiverTypeOK
BY DEF RInit, ReceiverTypeOK, Slots, NoSlot

(* What a receiver finds on its connection.                                *)
LEMMA LogItems ==
    ASSUME SenderInv, NEW p \in Peers, NEW j \in 1 .. Len(down[p])
    PROVE  /\ j = 1 => down[p][j].kind = "no" /\ down[p][j].val \in Slots
           /\ j = 2 => down[p][j] = Item("info", recvSock)
           /\ j >= 3 => /\ down[p][j].kind = Frame[((j - 3) % 3) + 1]
                        /\ down[p][j].val = down[p][j - ((j - 3) % 3)].val
                        /\ down[p][j].val \in Segs
<1>1. down[p] \in Seq(DownItem) /\ Len(down[p]) \in Nat /\ Len(recvSock) \in Nat
      /\ Len(recvSock) <= MaxPeer
  BY DEF SenderInv, SenderTypeOK
<1>2. p \in Accepted
  <2>1. Len(<<>>) = 0
    OBVIOUS
  <2>2. QED
    BY <1>1, <2>1 DEF SenderInv, GreetInv
<1>3. PICK i \in 1 .. Len(recvSock) : recvSock[i] = p
  BY <1>2 DEF Accepted
<1>4. down[p][1] = Item("no", i - 1) /\ (Len(down[p]) >= 2 => down[p][2] = Item("info", recvSock))
  BY <1>3 DEF SenderInv, GreetInv
<1>5. i - 1 \in Slots
  BY <1>1, <1>3, SenderAssumption DEF Slots
<1>6. CASE j = 1 \/ j = 2
  BY <1>1, <1>4, <1>5, <1>6 DEF Item
<1>7. CASE j >= 3
  BY <1>1, <1>7, FrameAt, ItemAt DEF SenderInv
<1>8. QED
  BY <1>6, <1>7

(* A write to the connection from p to q, and nothing else of push[][].    *)
LEMMA PushType ==
    ASSUME push \in [Peers -> [Peers -> Seq(PushItem)]], NEW p \in Peers, NEW q, NEW it \in PushItem
    PROVE  /\ [push EXCEPT ![p][q] = Append(@, it)] \in [Peers -> [Peers -> Seq(PushItem)]]
<1>1. \A r \in Peers : Append(push[p][r], it) \in Seq(PushItem)
  <2>1. SUFFICES ASSUME NEW r \in Peers
                 PROVE  Append(push[p][r], it) \in Seq(PushItem)
    OBVIOUS
  <2>2. push[p][r] \in Seq(PushItem)
    OBVIOUS
  <2>3. QED
    BY <2>2
<1>2. [push[p] EXCEPT ![q] = Append(@, it)] \in [Peers -> Seq(PushItem)]
  BY <1>1
<1>3. QED
  BY <1>2

LEMMA PushItemTypes ==
    /\ \A n \in Nat : Item("count", n) \in PushItem
    /\ \A s \in Segs, k \in {"n", "size", "data"} : Item(k, s) \in PushItem
    /\ \A it \in PushItem : /\ it.val \in Int
                            /\ it.kind # "count" => it.val \in Segs
BY DEF Item, PushItem, Segs

-----------------------------------------------------------------------------
(* What holds of the receivers whatever their ports, whatever the number   *)
(* of segments, and whoever of them crashes.                               *)

(* How far a receiver has come: it has its number; it knows the others;    *)
(* its threads were created.                                               *)
Numbered(p) == rPc[p] \in {"info", "listen", "join", "saved", "crashed"}
Briefed(p) == rPc[p] \in {"listen", "join", "saved", "crashed"}
Threaded(p) == rPc[p] \in {"join", "saved", "crashed"}

(* The main thread of receiver().                                          *)
BasicStage(p) ==
    /\ Numbered(p) => down[p] # <<>> /\ myNo[p] = down[p][1].val
    /\ Briefed(p) => Len(down[p]) > 1 /\ ri[p] = down[p][2].val
    /\ rPc[p] = "info" => gPos[p] = 1
    /\ rPc[p] = "listen" => gPos[p] = 2
    /\ rPc[p] = "saved" => gPc[p] = "done"
    /\ ~Threaded(p) => /\ gPc[p] = "connect" /\ gIdx[p] = 0 /\ gGot[p] = 0
                       /\ \A q \in Peers : push[p][q] = <<>>
                       /\ \A q \in Peers, s \in Segs : pushPc[p][q][s] = "none"

(* The loop of get_file_from_sender that connects to the other receivers:  *)
(* it has a connection for each one it has passed, and if their ports are  *)
(* their own, those have come to listen.                                   *)
BasicConnect(p) ==
    /\ gIdx[p] <= MaxPeer
    /\ gPc[p] = "connect" <=> gIdx[p] < MaxPeer
    /\ \A j \in 1 .. Len(recvSock) : recvSock[j] # p =>
           /\ push[p][recvSock[j]] # <<>> <=> j <= gIdx[p]
           /\ OwnPort /\ j <= gIdx[p] => Threaded(recvSock[j])

(* Its loop that reads the segments: the position on the connection from   *)
(* the sender follows from the counter of segments and the read() to come. *)
BasicGet(p) ==
    /\ gPc[p] # "garbled"
    /\ gPc[p] = "connect" => gGot[p] = 0
    /\ gPc[p] \in {"connect", "n"} => gPos[p] = 3 * gGot[p] + 2
    /\ gPc[p] = "size" => gPos[p] = 3 * gGot[p] + 3
    /\ gPc[p] = "data" => gPos[p] = 3 * gGot[p] + 4

(* The send_file_to_recv threads: they write to open connections, and have *)
(* ended when get_file_from_sender has.                                    *)
BasicRelay(p) ==
    /\ \A q \in Peers, s \in Segs :
         /\ pushPc[p][q][s] # "none" => gPc[p] # "connect" /\ q \in Others(p)
         /\ gPc[p] = "done" => pushPc[p][q][s] \in {"none", "done"}
    /\ \A q \in Peers : \A j \in 2 .. Len(push[p][q]) : push[p][q][j].kind # "count"

BasicLocal(p) ==
    /\ BasicStage(p)
    /\ Threaded(p) => BasicConnect(p) /\ BasicGet(p)
    /\ BasicRelay(p)

BasicInv ==
    /\ ReceiverTypeOK
    /\ \A p \in Peers : BasicLocal(p)
    /\ \A p, q \in Peers : rtPc[q][p] # "accept" => rtPos[q][p] >= 1

(* What a receiver that knows the others knows: recv_sock[] of the sender, *)
(* complete, and its own place in it.                                      *)
LEMMA BasicDirectory ==
    ASSUME SenderInv, NEW p \in Peers, BasicStage(p), Briefed(p)
    PROVE  /\ p \in Accepted
           /\ Len(recvSock) = MaxPeer /\ MaxPeer \in Nat \ {0}
           /\ \A j \in 1 .. MaxPeer : recvSock[j] \in Peers
           /\ ri[p] = recvSock
           /\ myNo[p] \in 0 .. MaxPeer - 1
           /\ \A j \in 1 .. MaxPeer : recvSock[j] = p <=> j = myNo[p] + 1
           /\ Others(p) = Accepted \ {p}
<1> USE SenderAssumption
<1>1. Len(down[p]) >= 2 /\ ri[p] = down[p][2].val /\ myNo[p] = down[p][1].val
  BY DEF BasicStage, Briefed, Numbered, SenderInv, SenderTypeOK
<1>2. p \in Accepted /\ Len(recvSock) = MaxPeer
  BY <1>1, LongLog
<1>3. PICK i \in 1 .. MaxPeer : recvSock[i] = p
  BY <1>2 DEF Accepted
<1>4. down[p][1] = Item("no", i - 1) /\ down[p][2] = Item("info", recvSock)
  BY <1>1, <1>2, <1>3 DEF SenderInv, GreetInv
<1>5. ri[p] = recvSock /\ myNo[p] = i - 1
  BY <1>1, <1>4 DEF Item
<1>6. \A j \in 1 .. MaxPeer : recvSock[j] = p <=> j = myNo[p] + 1
  BY <1>2, <1>3, <1>5 DEF SenderInv, GreetInv
<1>7. \A j \in 1 .. MaxPeer : recvSock[j] \in Peers
  BY <1>2 DEF SenderInv, SenderTypeOK
<1>8. QED
  BY <1>2, <1>5, <1>6, <1>7 DEF Others, Accepted

(* recv_sock[] is final once some receiver knows it.                       *)
LEMMA BasicDirectoryStays ==
    ASSUME SenderInv, SenderInv', LogsGrow, NEW p \in Peers, BasicStage(p), Briefed(p)
    PROVE  recvSock' = recvSock
<1>1. down[p] \in Seq(DownItem) /\ down'[p] \in Seq(DownItem)
  BY DEF SenderInv, SenderTypeOK
<1>2. Len(down[p]) >= 2 /\ Len(down'[p]) >= 2 /\ down'[p][2] = down[p][2]
  BY <1>1 DEF BasicStage, Briefed, LogsGrow
<1>3. p \in Accepted
  BY <1>2, LongLog
<1>4. p \in Accepted'
  <2>1. Len(<<>>) = 0
    OBVIOUS
  <2>2. QED
    BY <1>2, <2>1 DEF SenderInv, GreetInv
<1>5. down[p][2] = Item("info", recvSock)
  BY <1>2, <1>3 DEF SenderInv, GreetInv, Accepted
<1>6. (down[p][2] = Item("info", recvSock))'
  BY <1>2, <1>4 DEF SenderInv, GreetInv, Accepted
<1>7. QED
  BY <1>2, <1>5, <1>6 DEF Item

LEMMA BasicInit == Init => BasicInv
<1>1. SUFFICES ASSUME SInit, RInit
               PROVE  BasicInv
  BY DEF Init
<1>2. ReceiverTypeOK
  BY <1>1, ReceiverInitType
<1>3. ASSUME NEW p \in Peers
      PROVE  BasicLocal(p)
  <2>1. rPc[p] = "start" /\ gPc[p] = "connect" /\ gIdx[p] = 0 /\ gGot[p] = 0
    BY <1>1 DEF RInit
  <2>2. /\ \A q \in Peers : push[p][q] = <<>>
        /\ \A q \in Peers, s \in Segs : pushPc[p][q][s] = "none"
    BY <1>1 DEF RInit
  <2>3. QED
    BY <2>1, <2>2 DEF BasicLocal, BasicStage, BasicRelay, Numbered, Briefed, Threaded
<1>4. QED
  BY <1>1, <1>2, <1>3 DEF BasicInv, RInit

-----------------------------------------------------------------------------
(* Each step keeps the types.                                              *)

(* A signal ends the process of l; nothing of the others changes.          *)
LEMMA CrashType ==
    ASSUME ReceiverTypeOK, NEW l \in Peers, Crash(l),
           UNCHANGED <<netVars, myNo, ri, fi, getVars, push, pushPc, readVars>>
    PROVE  ReceiverTypeOK'
BY DEF ReceiverTypeOK, Crash, netVars, getVars, readVars

LEMMA MainStepType ==
    ASSUME SenderInv, ReceiverTypeOK, NEW p \in Peers, BasicStage(p), MainStep(p)
    PROVE  ReceiverTypeOK'
<1>1. CASE RConnect(p) \/ RConnectFails(p) \/ RReset(p) \/ RListen(p) \/ RBindFails(p) \/ RSave(p)
  BY <1>1 DEF ReceiverTypeOK, RConnect, RConnectFails, RReset, RListen, RBindFails, RSave, SaveFile,
              netVars, getVars, readVars
<1>2. CASE RHello(p)
  <2>1. Len(down[p]) \in Nat /\ (down[p] # <<>> => Len(down[p]) >= 1)
    BY DEF SenderInv, SenderTypeOK
  <2>2. down[p][1].val \in Slots
    BY <1>2, <2>1, LogItems DEF RHello, SendPort
  <2>3. QED
    BY <1>2, <2>2 DEF ReceiverTypeOK, RHello, netVars, readVars
<1>3. CASE RInfo(p)
  <2>1. Len(down[p]) \in Nat
    BY DEF SenderInv, SenderTypeOK
  <2>2. down[p][2].val \in Seq(Peers)
    BY <1>3, <2>1, LogItems, SMTT(30) DEF RInfo, Item, SenderInv, SenderTypeOK
  <2>3. QED
    BY <1>3, <2>2 DEF ReceiverTypeOK, RInfo, netVars, readVars
<1>4. CASE RSaveCrash(p)
  BY <1>4, CrashType DEF RSaveCrash
<1>5. QED
  BY <1>1, <1>2, <1>3, <1>4 DEF MainStep

(* The item a read() of get_file_from_sender finds is the one it expects,  *)
(* and belongs to the frame of the segment that is being received.         *)
LEMMA BasicItem ==
    ASSUME SenderInv, ReceiverTypeOK, NEW p \in Peers, BasicGet(p),
           gPc[p] \in {"n", "size", "data"}, Len(down[p]) > gPos[p]
    PROVE  /\ gPos[p] \in Nat /\ gGot[p] \in Nat
           /\ gPos[p] + 1 <= Len(down[p]) /\ Len(down[p]) \in Nat
           /\ down[p][gPos[p] + 1].kind = gPc[p]
           /\ down[p][gPos[p] + 1].val = down[p][3 * gGot[p] + 3].val
           /\ down[p][gPos[p] + 1].val \in Segs
<1> DEFINE k == CASE gPc[p] = "n" -> 0 [] gPc[p] = "size" -> 1 [] gPc[p] = "data" -> 2
<1>1. gPos[p] \in Nat /\ gGot[p] \in Nat /\ Len(down[p]) \in Nat
  BY DEF ReceiverTypeOK, SenderInv, SenderTypeOK
<1>2. k \in 0 .. 2 /\ Frame[k + 1] = gPc[p]
  BY DEF Frame
<1>3. gPos[p] + 1 = 3 * gGot[p] + 3 + k
  BY <1>1, SMTT(30) DEF BasicGet
<1> DEFINE j == gPos[p] + 1
<1>4. j \in Nat /\ j <= Len(down[p]) /\ j = 3 * gGot[p] + 3 + k
  BY <1>1, <1>3
<1> HIDE DEF k, j
<1>5. k \in Nat /\ j >= 3 /\ j - 3 = 3 * gGot[p] + k /\ j - k = 3 * gGot[p] + 3
  BY <1>1, <1>2, <1>4
<1>6. (j - 3) % 3 = k
  BY <1>1, <1>2, <1>5, ModOfSum
<1>7. j \in 1 .. Len(down[p])
  BY <1>1, <1>4, <1>5
<1>8. /\ down[p][j].kind = Frame[((j - 3) % 3) + 1]
      /\ down[p][j].val = down[p][j - ((j - 3) % 3)].val
      /\ down[p][j].val \in Segs
  BY <1>5, <1>7, LogItems
<1>9. down[p][j].kind = gPc[p] /\ down[p][j].val = down[p][3 * gGot[p] + 3].val
  BY <1>2, <1>5, <1>6, <1>8
<1>10. QED
  BY <1>1, <1>4, <1>8, <1>9 DEF j

GetPcs == {"connect", "n", "size", "data", "join", "done", "garbled", "lost", "spin"}
ReadPcs == {"accept", "n", "size", "data", "done", "garbled", "spin"}

LEMMA GetStepType ==
    ASSUME SenderInv, ReceiverTypeOK, NEW p \in Peers, BasicLocal(p), GetStep(p)
    PROVE  ReceiverTypeOK'
<1>1. /\ gPc \in [Peers -> GetPcs] /\ gIdx \in [Peers -> Nat] /\ gGot \in [Peers -> Nat]
      /\ gN \in [Peers -> Segs \cup {NoSlot}] /\ gPos \in [Peers -> Nat]
      /\ fi \in [Peers -> [Segs -> Segs \cup {Unset, Garbage}]]
      /\ pushPc \in [Peers -> [Peers -> [Segs -> {"none", "n", "size", "data", "done"}]]]
  BY DEF ReceiverTypeOK, GetPcs
<1>2. ASSUME GNextPeer(p)
      PROVE  gIdx' \in [Peers -> Nat] /\ gPc' \in [Peers -> GetPcs]
  <2>1. (IF gIdx[p] + 1 < Len(ri[p]) THEN "connect" ELSE GetOrJoin(p, 0)) \in GetPcs
    BY LoopHeads DEF GetPcs
  <2>2. QED
    BY <1>1, <1>2, <2>1 DEF GNextPeer
<1>3. ASSUME NEW kind \in {"n", "size", "data"}, NEW then \in GetPcs, GRead(p, kind, then)
      PROVE  /\ gPos' \in [Peers -> Nat] /\ gPc' \in [Peers -> GetPcs]
             /\ down[p][gPos[p] + 1].val \in Segs
  <2>1. gPos' \in [Peers -> Nat] /\ gPc' \in [Peers -> GetPcs]
    BY <1>1, <1>3 DEF GRead, GetPcs
  <2>2. BasicGet(p) /\ gPc[p] \in {"n", "size", "data"} /\ Len(down[p]) > gPos[p]
    BY <1>3 DEF GRead, Running, Threaded, BasicLocal
  <2>3. QED
    BY <2>1, <2>2, BasicItem
<1>4. CASE GSkipSelf(p)
  <2>1. UNCHANGED <<netVars, mainVars, fi, gGot, gN, gPos, push, pushPc, readVars>>
    BY <1>4 DEF GSkipSelf
  <2>2. QED
    BY <1>2, <1>4, <2>1 DEF ReceiverTypeOK, GSkipSelf, netVars, mainVars, readVars, GetPcs
<1>5. CASE GConnect(p)
  <2>1. push' \in [Peers -> [Peers -> Seq(PushItem)]]
    BY <1>5, PushType, WillGetType, PushItemTypes DEF ReceiverTypeOK, GConnect
  <2>2. at' \in [Peers -> [Peers -> Peers \cup {Foreign}]]
    <3>1. PICK l \in Peers \cup {Foreign} : at' = [at EXCEPT ![p][ri[p][gIdx[p] + 1]] = l]
      BY <1>5 DEF GConnect, Listeners
    <3>2. QED
      BY <3>1 DEF ReceiverTypeOK
  <2>3. UNCHANGED <<port, mainVars, fi, gGot, gN, gPos, pushPc, readVars>> /\ GNextPeer(p)
    BY <1>5 DEF GConnect
  <2>4. QED
    BY <1>2, <2>1, <2>2, <2>3 DEF ReceiverTypeOK, mainVars, readVars, GetPcs
<1>6. CASE GReadN(p)
  <2>1. /\ gPos' \in [Peers -> Nat] /\ gPc' \in [Peers -> GetPcs]
        /\ gN' \in [Peers -> Segs \cup {NoSlot}]
    BY <1>1, <1>3, <1>6 DEF GReadN, GetPcs
  <2>2. UNCHANGED <<netVars, mainVars, fi, gIdx, gGot, push, pushPc, readVars>>
    BY <1>6 DEF GReadN
  <2>3. QED
    BY <2>1, <2>2 DEF ReceiverTypeOK, netVars, mainVars, readVars, GetPcs
<1>7. CASE GReadSize(p)
  <2>1. gPos' \in [Peers -> Nat] /\ gPc' \in [Peers -> GetPcs]
    BY <1>3, <1>7 DEF GReadSize, GetPcs
  <2>2. UNCHANGED <<netVars, mainVars, fi, gIdx, gGot, gN, push, pushPc, readVars>>
    BY <1>7 DEF GReadSize
  <2>3. QED
    BY <2>1, <2>2 DEF ReceiverTypeOK, netVars, mainVars, readVars, GetPcs
<1>8. CASE GReadData(p)
  <2>1. GRead(p, "data", GetOrJoin(p, gGot[p] + 1))
    BY <1>8 DEF GReadData
  <2>2. /\ gPos' \in [Peers -> Nat] /\ gPc' \in [Peers -> GetPcs]
        /\ down[p][gPos[p] + 1].val \in Segs
    BY <1>3, <2>1, LoopHeads DEF GetPcs
  <2>3. fi' \in [Peers -> [Segs -> Segs \cup {Unset, Garbage}]]
    <3>1. Contents(down[p][gPos[p] + 1]) \in Segs \cup {Garbage}
      BY <2>2 DEF Contents
    <3>2. QED
      BY <1>1, <1>8, <3>1 DEF GReadData
  <2>4. pushPc' \in [Peers -> [Peers -> [Segs -> {"none", "n", "size", "data", "done"}]]]
    BY <1>1, <1>8 DEF GReadData
  <2>5. gGot' \in [Peers -> Nat]
    BY <1>1, <1>8 DEF GReadData
  <2>6. UNCHANGED <<netVars, mainVars, gIdx, gN, push, readVars>>
    BY <1>8 DEF GReadData
  <2>7. QED
    BY <2>2, <2>3, <2>4, <2>5, <2>6 DEF ReceiverTypeOK, netVars, mainVars, readVars, GetPcs
<1>9. CASE GReadEnd(p)
  <2>1. gPc' \in [Peers -> GetPcs]
    BY <1>1, <1>9 DEF GReadEnd, GetPcs
  <2>2. UNCHANGED <<netVars, mainVars, fi, gIdx, gGot, gN, gPos, push, pushPc, readVars>>
    BY <1>9 DEF GReadEnd
  <2>3. QED
    BY <2>1, <2>2 DEF ReceiverTypeOK, netVars, mainVars, readVars, GetPcs
<1>10. CASE GLost(p)
  <2>1. PICK s \in Segs :
          /\ gN' = [gN EXCEPT ![p] = s]
          /\ fi' = [fi EXCEPT ![p][s] = Garbage]
          /\ pushPc' = [pushPc EXCEPT ![p] =
                          [q \in Peers |-> IF q \in Others(p) THEN [@[q] EXCEPT ![s] = "n"]
                                                             ELSE @[q]]]
    BY <1>10 DEF GLost
  <2>2. gN' \in [Peers -> Segs \cup {NoSlot}]
    BY <1>1, <2>1
  <2>3. fi' \in [Peers -> [Segs -> Segs \cup {Unset, Garbage}]]
    BY <1>1, <2>1
  <2>4. pushPc' \in [Peers -> [Peers -> [Segs -> {"none", "n", "size", "data", "done"}]]]
    BY <1>1, <2>1
  <2>5. gGot' \in [Peers -> Nat] /\ gPc' \in [Peers -> GetPcs]
    BY <1>1, <1>10 DEF GLost, GetPcs
  <2>6. UNCHANGED <<netVars, mainVars, gIdx, gPos, push, readVars>>
    BY <1>10 DEF GLost
  <2>7. QED
    BY <2>2, <2>3, <2>4, <2>5, <2>6 DEF ReceiverTypeOK, netVars, mainVars, readVars, GetPcs
<1>11. CASE GLostCrash(p)
  BY <1>11, CrashType DEF GLostCrash
<1>12. CASE GJoin(p)
  <2>1. gPc' \in [Peers -> GetPcs]
    BY <1>1, <1>12 DEF GJoin, GetPcs
  <2>2. UNCHANGED <<netVars, mainVars, fi, gIdx, gGot, gN, gPos, push, pushPc, readVars>>
    BY <1>12 DEF GJoin
  <2>3. QED
    BY <2>1, <2>2 DEF ReceiverTypeOK, netVars, mainVars, readVars, GetPcs
<1>13. QED
  BY <1>4, <1>5, <1>6, <1>7, <1>8, <1>9, <1>10, <1>11, <1>12 DEF GetStep

LEMMA PushStepType ==
    ASSUME ReceiverTypeOK, NEW p \in Peers, NEW q \in Peers, NEW s \in Segs, PushStep(p, q, s)
    PROVE  ReceiverTypeOK'
<1>1. CASE PushBrokenPipe(p, q, s)
  BY <1>1, CrashType DEF PushBrokenPipe
<1>2. ASSUME NEW kind \in {"n", "size", "data"}, NEW then \in {"size", "data", "done"},
             PushWrite(p, q, s, kind, then)
      PROVE  ReceiverTypeOK'
  <2>1. push' \in [Peers -> [Peers -> Seq(PushItem)]]
    BY <1>2, PushType, PushItemTypes DEF PushWrite, ReceiverTypeOK
  <2>2. pushPc' \in [Peers -> [Peers -> [Segs -> {"none", "n", "size", "data", "done"}]]]
    BY <1>2 DEF PushWrite, ReceiverTypeOK
  <2>3. UNCHANGED <<netVars, mainVars, fi, getVars, readVars>>
    BY <1>2 DEF PushWrite
  <2>4. QED
    BY <2>1, <2>2, <2>3 DEF ReceiverTypeOK, netVars, mainVars, getVars, readVars
<1>3. QED
  BY <1>1, <1>2 DEF PushStep, PushN, PushSize, PushData

LEMMA ReadStepType ==
    ASSUME BasicInv, NEW p \in Peers, NEW q \in Peers, ReadStep(q, p)
    PROVE  ReceiverTypeOK'
<1> DEFINE Slot == Segs \cup {Unset, Garbage}
<1>0. /\ push \in [Peers -> [Peers -> Seq(PushItem)]]
      /\ rtPc \in [Peers -> [Peers -> ReadPcs]]
      /\ rtLeft \in [Peers -> [Peers -> Int]]
      /\ rtN \in [Peers -> [Peers -> Segs \cup {NoSlot}]]
      /\ rtPos \in [Peers -> [Peers -> Nat]]
      /\ fi \in [Peers -> [Segs -> Slot]]
      /\ ReceiverTypeOK
  BY DEF BasicInv, ReceiverTypeOK, ReadPcs
<1>1. push[p][q] \in Seq(PushItem) /\ rtPos[q][p] \in Nat
  BY <1>0
<1>2. CASE RTAccept(q, p)
  <2>1. push[p][q][1].val \in Int
    BY <1>1, <1>2, PushItemTypes DEF RTAccept
  <2>2. /\ rtLeft' \in [Peers -> [Peers -> Int]]
        /\ rtPc' \in [Peers -> [Peers -> ReadPcs]]
        /\ rtPos' \in [Peers -> [Peers -> Nat]]
    BY <1>0, <1>2, <2>1, LoopHeads DEF RTAccept, ReadPcs
  <2>3. UNCHANGED <<netVars, mainVars, fi, getVars, push, pushPc, rtN>>
    BY <1>2 DEF RTAccept
  <2>4. QED
    BY <1>0, <2>2, <2>3 DEF ReceiverTypeOK, netVars, mainVars, getVars, ReadPcs
<1>3. ASSUME NEW kind \in {"n", "size", "data"}, NEW then \in ReadPcs, RTRead(q, p, kind, then)
      PROVE  /\ rtPc' \in [Peers -> [Peers -> ReadPcs]]
             /\ rtPos' \in [Peers -> [Peers -> Nat]]
             /\ push[p][q][rtPos[q][p] + 1].val \in Segs
  <2>1. rtPc' \in [Peers -> [Peers -> ReadPcs]] /\ rtPos' \in [Peers -> [Peers -> Nat]]
    <3>1. (IF push[p][q][rtPos[q][p] + 1].kind = kind THEN then ELSE "garbled") \in ReadPcs
      BY <1>3 DEF ReadPcs
    <3>2. rtPc' \in [Peers -> [Peers -> ReadPcs]]
      BY <1>0, <1>3, <3>1 DEF RTRead
    <3>3. rtPos' \in [Peers -> [Peers -> Nat]]
      BY <1>0, <1>3 DEF RTRead
    <3>4. QED
      BY <3>2, <3>3
  <2>2. rtPos[q][p] >= 1 /\ Len(push[p][q]) > rtPos[q][p]
    BY <1>3 DEF RTRead, BasicInv
  <2>3. rtPos[q][p] + 1 \in 2 .. Len(push[p][q])
    BY <1>1, <2>2
  <2>4. push[p][q][rtPos[q][p] + 1].kind # "count"
    BY <2>3 DEF BasicInv, BasicLocal, BasicRelay
  <2>5. push[p][q][rtPos[q][p] + 1] \in PushItem
    BY <1>1, <2>3
  <2>6. QED
    BY <2>1, <2>4, <2>5, PushItemTypes
<1>4. CASE RTReadN(q, p)
  <2>1. RTRead(q, p, "n", "size") /\ "size" \in ReadPcs
    BY <1>4 DEF RTReadN, ReadPcs
  <2>2. rtN' \in [Peers -> [Peers -> Segs \cup {NoSlot}]]
    BY <1>0, <1>3, <1>4, <2>1 DEF RTReadN
  <2>3. UNCHANGED <<netVars, mainVars, fi, getVars, push, pushPc, rtLeft>>
    BY <1>4 DEF RTReadN
  <2>4. QED
    BY <1>0, <1>3, <2>1, <2>2, <2>3 DEF ReceiverTypeOK, netVars, mainVars, getVars, ReadPcs
<1>5. CASE RTReadSize(q, p)
  <2>1. RTRead(q, p, "size", "data") /\ "data" \in ReadPcs
    BY <1>5 DEF RTReadSize, ReadPcs
  <2>2. UNCHANGED <<netVars, mainVars, fi, getVars, push, pushPc, rtLeft, rtN>>
    BY <1>5 DEF RTReadSize
  <2>3. QED
    BY <1>0, <1>3, <2>1, <2>2 DEF ReceiverTypeOK, netVars, mainVars, getVars, ReadPcs
<1>6. CASE RTReadData(q, p)
  <2>1. RTRead(q, p, "data", ReadOrEnd(rtLeft[q][p] - 1))
    BY <1>6 DEF RTReadData
  <2>2. /\ rtPc' \in [Peers -> [Peers -> ReadPcs]]
        /\ rtPos' \in [Peers -> [Peers -> Nat]]
        /\ push[p][q][rtPos[q][p] + 1].val \in Segs
    BY <1>3, <2>1, LoopHeads DEF ReadPcs
  <2>3. fi' \in [Peers -> [Segs -> Slot]]
    <3>1. Contents(push[p][q][rtPos[q][p] + 1]) \in Slot
      BY <2>2 DEF Contents
    <3>2. QED
      BY <1>0, <1>6, <3>1 DEF RTReadData
  <2>4. rtLeft' \in [Peers -> [Peers -> Int]]
    BY <1>0, <1>6 DEF RTReadData
  <2>5. UNCHANGED <<netVars, mainVars, getVars, push, pushPc, rtN>>
    BY <1>6 DEF RTReadData
  <2>6. QED
    BY <1>0, <2>2, <2>3, <2>4, <2>5 DEF ReceiverTypeOK, netVars, mainVars, getVars, ReadPcs
<1>7. CASE RTReadEnd(q, p)
  <2>1. rtPc' \in [Peers -> [Peers -> ReadPcs]]
    BY <1>0, <1>7 DEF RTReadEnd, ReadPcs
  <2>2. UNCHANGED <<netVars, mainVars, fi, getVars, push, pushPc, rtLeft, rtN, rtPos>>
    BY <1>7 DEF RTReadEnd
  <2>3. QED
    BY <1>0, <2>1, <2>2 DEF ReceiverTypeOK, netVars, mainVars, getVars, ReadPcs
<1>8. CASE RTGarbled(q, p)
  <2>1. fi' \in [Peers -> [Segs -> Slot]] /\ rtLeft' \in [Peers -> [Peers -> Int]]
    <3>1. PICK s \in Segs : fi' = [fi EXCEPT ![at[p][q]][s] = Garbage]
      BY <1>8 DEF RTGarbled
    <3>2. fi' \in [Peers -> [Segs -> Slot]]
      BY <1>0, <3>1
    <3>3. rtLeft' = [rtLeft EXCEPT ![q][p] = @ - 1]
      BY <1>8 DEF RTGarbled
    <3>4. QED
      BY <1>0, <3>2, <3>3
  <2>2. rtPc' \in [Peers -> [Peers -> ReadPcs]]
    BY <1>0, <1>8 DEF RTGarbled, ReadPcs
  <2>3. UNCHANGED <<netVars, mainVars, getVars, push, pushPc, rtN, rtPos>>
    BY <1>8 DEF RTGarbled
  <2>4. QED
    BY <1>0, <2>1, <2>2, <2>3 DEF ReceiverTypeOK, netVars, mainVars, getVars, ReadPcs
<1>9. CASE RTCrash(q, p)
  BY <1>0, <1>9, CrashType DEF RTCrash, Reads
<1>10. QED
  BY <1>2, <1>4, <1>5, <1>6, <1>7, <1>8, <1>9 DEF ReadStep

-----------------------------------------------------------------------------
(* Each step keeps what holds of every receiver.                           *)

View(p) == <<rPc[p], myNo[p], ri[p], gPc[p], gIdx[p], gGot[p], gPos[p], push[p], pushPc[p]>>

(* A step that is not of p leaves its part.                                *)
LEMMA BasicKept ==
    ASSUME SenderInv, SenderInv', LogsGrow, ReceiverTypeOK, port' = port,
           NEW p \in Peers, BasicLocal(p), View(p)' = View(p),
           \A q \in Peers : Threaded(q) => Threaded(q)'
    PROVE  BasicLocal(p)'
<1>1. /\ rPc'[p] = rPc[p] /\ myNo'[p] = myNo[p] /\ ri'[p] = ri[p]
      /\ gPc'[p] = gPc[p] /\ gIdx'[p] = gIdx[p] /\ gGot'[p] = gGot[p]
      /\ gPos'[p] = gPos[p] /\ push'[p] = push[p] /\ pushPc'[p] = pushPc[p]
  BY DEF View
<1>2. down[p] \in Seq(DownItem) /\ down'[p] \in Seq(DownItem)
  BY DEF SenderInv, SenderTypeOK
<1>3. /\ Len(down[p]) \in Nat /\ Len(down'[p]) \in Nat /\ Len(down[p]) <= Len(down'[p])
      /\ \A j \in 1 .. Len(down[p]) : down'[p][j] = down[p][j]
  BY <1>2 DEF LogsGrow
<1>4. BasicStage(p)'
  <2>1. down[p] # <<>> => down'[p] # <<>> /\ down'[p][1] = down[p][1]
    BY <1>2, <1>3
  <2>2. Len(down[p]) > 1 => Len(down'[p]) > 1 /\ down'[p][2] = down[p][2]
    BY <1>3
  <2>3. BasicStage(p)
    BY DEF BasicLocal
  <2>4. (Numbered(p)' <=> Numbered(p)) /\ (Briefed(p)' <=> Briefed(p)) /\ (Threaded(p)' <=> Threaded(p))
    BY <1>1 DEF Numbered, Briefed, Threaded
  <2>5. QED
    BY <1>1, <2>1, <2>2, <2>3, <2>4 DEF BasicStage
<1>5. ASSUME Threaded(p)
      PROVE  BasicConnect(p)' /\ BasicGet(p)'
  <2>1. recvSock' = recvSock
    BY <1>5, BasicDirectoryStays DEF Threaded, Briefed, BasicLocal
  <2>2. \A j \in 1 .. Len(recvSock) : recvSock[j] \in Peers
    BY DEF SenderInv, SenderTypeOK
  <2>3. BasicConnect(p) /\ BasicGet(p)
    BY <1>5 DEF BasicLocal
  <2>4. OwnPort' <=> OwnPort
    BY DEF OwnPort
  <2>5. BasicConnect(p)'
    BY <1>1, <2>1, <2>2, <2>3, <2>4 DEF BasicConnect
  <2>6. QED
    BY <1>1, <2>3, <2>5 DEF BasicGet
<1>6. BasicRelay(p)'
  <2>1. Others(p)' = Others(p)
    BY <1>1 DEF Others
  <2>2. QED
    BY <1>1, <2>1 DEF BasicRelay, BasicLocal
<1>7. QED
  BY <1>1, <1>4, <1>5, <1>6 DEF BasicLocal, Threaded

(* Once the threads of a receiver exist they have existed for good.        *)
LEMMA ThreadedStays ==
    ASSUME ReceiverTypeOK, [Next]_vars, NEW q \in Peers, Threaded(q)
    PROVE  Threaded(q)'
<1>1. rPc \in [Peers -> {"start", "hello", "info", "listen", "join", "saved", "exited", "killed",
                        "crashed"}]
  BY DEF ReceiverTypeOK
<1>2. ASSUME NEW p \in Peers, Crash(p)
      PROVE  Threaded(q)'
  BY <1>1, <1>2 DEF Crash, Threaded
<1>3. ASSUME NEW p \in Peers, MainStep(p)
      PROVE  Threaded(q)'
  BY <1>1, <1>2, <1>3 DEF MainStep, RConnect, RConnectFails, RHello, RReset, RInfo, RListen, RBindFails,
                    RSave, SaveFile, RSaveCrash, Threaded
<1>4. ASSUME NEW p \in Peers, GetStep(p)
      PROVE  Threaded(q)'
  <2>1. CASE GLostCrash(p)
    BY <1>2, <2>1 DEF GLostCrash
  <2>2. CASE ~GLostCrash(p)
    BY <1>4, <2>2 DEF GetStep, GSkipSelf, GConnect, GReadN, GReadSize, GReadData, GReadEnd, GLost, GJoin,
                      mainVars, Threaded
  <2>3. QED
    BY <2>1, <2>2
<1>5. ASSUME NEW p \in Peers, NEW r \in Peers, NEW s \in Segs, PushStep(p, r, s)
      PROVE  Threaded(q)'
  BY <1>2, <1>5 DEF PushStep, PushN, PushSize, PushData, PushWrite, PushBrokenPipe, mainVars, Threaded
<1>6. ASSUME NEW p \in Peers, NEW r \in Peers, ReadStep(r, p)
      PROVE  Threaded(q)'
  BY <1>2, <1>6 DEF ReadStep, RTAccept, RTReadN, RTReadSize, RTReadData, RTReadEnd, RTGarbled, RTCrash,
                    Reads, mainVars, Threaded
<1>7. CASE SenderStep \/ Terminated \/ ShortOfPeers \/ UNCHANGED vars
  BY <1>7 DEF SenderStep, Terminated, ShortOfPeers, vars, receiverVars, mainVars, Threaded
<1>8. QED
  BY <1>3, <1>4, <1>5, <1>6, <1>7 DEF Next

(* What a thread of p can rely on while it runs.                           *)
LEMMA BasicRunning ==
    ASSUME SenderInv, BasicInv, NEW p \in Peers, Running(p)
    PROVE  /\ rPc[p] = "join" /\ Threaded(p) /\ Briefed(p)
           /\ BasicStage(p) /\ BasicConnect(p) /\ BasicGet(p) /\ BasicRelay(p)
           /\ Len(recvSock) = MaxPeer /\ MaxPeer \in Nat \ {0}
           /\ \A j \in 1 .. MaxPeer : recvSock[j] \in Peers
           /\ ri[p] = recvSock
           /\ myNo[p] \in 0 .. MaxPeer - 1
           /\ \A j \in 1 .. MaxPeer : recvSock[j] = p <=> j = myNo[p] + 1
           /\ Others(p) = Accepted \ {p}
<1>1. rPc[p] = "join" /\ Threaded(p) /\ Briefed(p)
  BY DEF Running, Threaded, Briefed
<1>2. BasicStage(p) /\ BasicConnect(p) /\ BasicGet(p) /\ BasicRelay(p)
  BY <1>1 DEF BasicInv, BasicLocal
<1>3. QED
  BY <1>1, <1>2, BasicDirectory

(* A running receiver that crashes has had its threads.                    *)
LEMMA BasicCrash ==
    ASSUME SenderInv, BasicInv, NEW p \in Peers, Running(p), Crash(p),
           UNCHANGED <<netVars, myNo, ri, fi, getVars, push, pushPc, readVars>>
    PROVE  BasicLocal(p)' /\ \A q \in Peers \ {p} : View(q)' = View(q)
<1>1. /\ UNCHANGED <<down, recvSock, port, myNo, ri, gPc, gIdx, gGot, gPos, push, pushPc>>
      /\ \A q \in Peers \ {p} : rPc'[q] = rPc[q]
      /\ rPc'[p] = "crashed"
  BY DEF Crash, HangUp, sVars, netVars, getVars, BasicInv, ReceiverTypeOK
<1>2. /\ Threaded(p) /\ Briefed(p) /\ BasicStage(p) /\ BasicConnect(p) /\ BasicGet(p) /\ BasicRelay(p)
      /\ Len(recvSock) = MaxPeer /\ \A j \in 1 .. MaxPeer : recvSock[j] \in Peers
      /\ Numbered(p)
  BY BasicRunning DEF Briefed, Numbered
<1>3. Threaded(p)' /\ Briefed(p)' /\ Numbered(p)' /\ rPc'[p] \notin {"info", "listen", "saved"}
  BY <1>1 DEF Threaded, Briefed, Numbered
<1>4. BasicStage(p)'
  BY <1>1, <1>2, <1>3 DEF BasicStage
<1>5. BasicConnect(p)'
  <2>1. \A q \in Peers : Threaded(q) => Threaded(q)'
    BY <1>1, <1>3 DEF Threaded
  <2>2. QED
    BY <1>1, <1>2, <2>1 DEF BasicConnect, OwnPort
<1>6. BasicGet(p)' /\ BasicRelay(p)'
  BY <1>1, <1>2 DEF BasicGet, BasicRelay, Others
<1>7. QED
  BY <1>1, <1>4, <1>5, <1>6 DEF BasicLocal, View

(* The main thread.                                                        *)
LEMMA BasicMain ==
    ASSUME SenderInv, SenderInv', BasicInv, NEW p \in Peers, MainStep(p)
    PROVE  BasicLocal(p)' /\ \A q \in Peers \ {p} : View(q)' = View(q)
<1>1. /\ rPc \in [Peers -> {"start", "hello", "info", "listen", "join", "saved", "exited", "killed",
                            "crashed"}]
      /\ myNo \in [Peers -> Slots \cup {NoSlot}] /\ ri \in [Peers -> Seq(Peers)]
      /\ gPos \in [Peers -> Nat]
  BY DEF BasicInv, ReceiverTypeOK
<1>2. BasicLocal(p)
  BY DEF BasicInv
<1>3. CASE RSaveCrash(p)
  BY <1>3, BasicCrash DEF RSaveCrash
<1>4. CASE ~RSaveCrash(p)
  <2>1. /\ UNCHANGED <<down, recvSock, port>>
        /\ UNCHANGED <<gPc, gIdx, gGot, push, pushPc>>
    BY <1>4 DEF MainStep, RConnect, RConnectFails, RHello, RReset, RInfo, RListen, RBindFails, RSave,
         SaveFile, Dial, SendPort, HangUp, sVars, senderVars, netVars, getVars
  <2>2. \A q \in Peers \ {p} : View(q)' = View(q)
    <3>1. CASE RConnect(p) \/ RConnectFails(p) \/ RReset(p) \/ RListen(p) \/ RBindFails(p) \/ RSave(p)
      BY <1>1, <2>1, <3>1 DEF RConnect, RConnectFails, RReset, RListen, RBindFails, RSave, SaveFile,
                              getVars, View
    <3>2. CASE RHello(p)
      BY <1>1, <2>1, <3>2 DEF RHello, View
    <3>3. CASE RInfo(p)
      BY <1>1, <2>1, <3>3 DEF RInfo, View
    <3>4. QED
      BY <1>4, <3>1, <3>2, <3>3 DEF MainStep
  <2>3. CASE RConnect(p) \/ RConnectFails(p) \/ RReset(p)
    <3>1. rPc[p] \in {"start", "hello"} /\ rPc'[p] \in {"hello", "exited", "killed"} /\ UNCHANGED <<ri, myNo>>
      BY <1>1, <2>3 DEF RConnect, RConnectFails, RReset
    <3>2. QED
      BY <1>2, <2>1, <2>2, <3>1 DEF BasicLocal, BasicStage, BasicRelay, Numbered, Briefed, Threaded, Others
  <2>4. CASE RHello(p)
    <3>1. /\ rPc[p] = "hello" /\ rPc'[p] = "info" /\ ri' = ri
          /\ down[p] # <<>> /\ myNo'[p] = down[p][1].val /\ gPos'[p] = 1
      BY <1>1, <2>4 DEF RHello, SendPort
    <3>2. QED
      BY <1>2, <2>1, <2>2, <3>1 DEF BasicLocal, BasicStage, BasicRelay, Numbered, Briefed, Threaded, Others
  <2>5. CASE RInfo(p)
    <3>1. /\ rPc[p] = "info" /\ rPc'[p] = "listen" /\ myNo' = myNo
          /\ Len(down[p]) > 1 /\ ri'[p] = down[p][2].val /\ gPos'[p] = 2
      BY <1>1, <2>5 DEF RInfo
    <3>2. QED
      BY <1>2, <2>1, <2>2, <3>1 DEF BasicLocal, BasicStage, BasicRelay, Numbered, Briefed, Threaded
  <2>6. CASE RBindFails(p)
    <3>1. /\ rPc[p] = "listen" /\ rPc'[p] = "exited" /\ UNCHANGED <<ri, myNo>>
      BY <1>1, <2>6 DEF RBindFails
    <3>2. QED
      BY <1>2, <2>1, <2>2, <3>1 DEF BasicLocal, BasicStage, BasicRelay, Numbered, Briefed, Threaded, Others
  <2>7. CASE RListen(p)
    <3>1. /\ rPc[p] = "listen" /\ rPc'[p] = "join" /\ myNo' = myNo /\ ri' = ri /\ gPos' = gPos
      BY <1>1, <2>7 DEF RListen, getVars
    <3>2. /\ gPos[p] = 2 /\ Briefed(p) /\ BasicStage(p) /\ BasicRelay(p)
          /\ gPc[p] = "connect" /\ gIdx[p] = 0 /\ gGot[p] = 0 /\ \A q \in Peers : push[p][q] = <<>>
      BY <1>2, <3>1 DEF BasicLocal, BasicStage, Threaded, Briefed
    <3>3. /\ Len(recvSock) = MaxPeer /\ MaxPeer \in Nat \ {0}
          /\ \A j \in 1 .. MaxPeer : recvSock[j] \in Peers
      BY <3>2, BasicDirectory
    <3>4. BasicStage(p)' /\ BasicRelay(p)'
      BY <2>1, <3>1, <3>2 DEF BasicStage, BasicRelay, Numbered, Briefed, Threaded, Others
    <3>5. BasicConnect(p)'
      BY <2>1, <3>2, <3>3 DEF BasicConnect
    <3>6. BasicGet(p)'
      BY <2>1, <3>1, <3>2 DEF BasicGet
    <3>7. QED
      BY <2>2, <3>4, <3>5, <3>6 DEF BasicLocal
  <2>8. CASE RSave(p)
    <3>1. /\ Running(p) /\ rPc'[p] = "saved" /\ gPc[p] = "done"
          /\ myNo' = myNo /\ ri' = ri /\ gPos' = gPos
          /\ \A q \in Peers : Threaded(q) => Threaded(q)'
      BY <1>1, <2>8 DEF RSave, AllReturned, SaveFile, getVars, Threaded
    <3>2. /\ BasicStage(p) /\ BasicConnect(p) /\ BasicGet(p) /\ BasicRelay(p)
          /\ Len(recvSock) = MaxPeer /\ \A j \in 1 .. MaxPeer : recvSock[j] \in Peers
          /\ rPc[p] = "join"
      BY <3>1, BasicRunning
    <3>3. BasicStage(p)' /\ BasicRelay(p)'
      BY <2>1, <3>1, <3>2 DEF BasicStage, BasicRelay, Numbered, Briefed, Threaded, Others
    <3>4. BasicConnect(p)' /\ BasicGet(p)'
      BY <2>1, <3>1, <3>2 DEF BasicConnect, BasicGet, OwnPort
    <3>5. QED
      BY <2>2, <3>3, <3>4 DEF BasicLocal
  <2>9. QED
    BY <1>4, <2>3, <2>4, <2>5, <2>6, <2>7, <2>8 DEF MainStep
<1>5. QED
  BY <1>3, <1>4

(* The head of the loop that connects, after one round.                    *)
LEMMA BasicNextPeer ==
    ASSUME SenderInv, BasicInv, NEW p \in Peers, Running(p), gPc[p] = "connect", GNextPeer(p),
           UNCHANGED <<down, recvSock, port, rPc, myNo, ri, gGot, gPos, pushPc>>,
           \A q \in Peers : push'[p][q] # <<>> =>
               \/ push[p][q] # <<>>
               \/ q = recvSock[gIdx[p] + 1] /\ (OwnPort => Threaded(q)),
           recvSock[gIdx[p] + 1] # p => push'[p][recvSock[gIdx[p] + 1]] # <<>>,
           \A q \in Peers : push[p][q] # <<>> => push'[p][q] # <<>>,
           \A q \in Peers : \A j \in 2 .. Len(push'[p][q]) : push'[p][q][j].kind # "count"
    PROVE  BasicLocal(p)'
<1>1. /\ rPc[p] = "join" /\ BasicStage(p) /\ BasicConnect(p) /\ BasicGet(p) /\ BasicRelay(p)
      /\ Len(recvSock) = MaxPeer /\ MaxPeer \in Nat \ {0}
      /\ \A j \in 1 .. MaxPeer : recvSock[j] \in Peers
      /\ ri[p] = recvSock
  BY BasicRunning
<1>2. gPc \in [Peers -> GetPcs] /\ gIdx \in [Peers -> Nat]
  BY DEF BasicInv, ReceiverTypeOK, GetPcs
<1>3. gIdx[p] < MaxPeer /\ gIdx[p] \in Nat /\ gIdx'[p] = gIdx[p] + 1
  BY <1>1, <1>2 DEF BasicConnect, GNextPeer
<1>4. /\ gPc'[p] \in {"connect", "n", "join"}
      /\ gPc'[p] = "connect" <=> gIdx'[p] < MaxPeer
  BY <1>1, <1>2, <1>3, LoopHeads DEF GNextPeer
<1>5. gPos[p] = 3 * gGot[p] + 2 /\ gGot[p] = 0
  BY <1>1 DEF BasicGet
<1>6. BasicStage(p)'
  BY <1>1 DEF BasicStage, Numbered, Briefed, Threaded
<1>7. BasicConnect(p)'
  <2>1. SUFFICES ASSUME NEW j \in 1 .. MaxPeer, recvSock[j] # p
                 PROVE  /\ push'[p][recvSock[j]] # <<>> <=> j <= gIdx[p] + 1
                        /\ OwnPort /\ j <= gIdx[p] + 1 => Threaded(recvSock[j])
    BY <1>1, <1>3, <1>4 DEF BasicConnect, OwnPort, Threaded
  <2>2. /\ push[p][recvSock[j]] # <<>> <=> j <= gIdx[p]
        /\ OwnPort /\ j <= gIdx[p] => Threaded(recvSock[j])
    BY <1>1, <2>1 DEF BasicConnect
  <2>3. recvSock[j] = recvSock[gIdx[p] + 1] <=> j = gIdx[p] + 1
    BY <1>1, <1>3 DEF SenderInv, GreetInv
  <2>4. CASE j = gIdx[p] + 1
    <3>1. ~(push[p][recvSock[j]] # <<>>) /\ push'[p][recvSock[j]] # <<>>
      BY <1>3, <2>1, <2>2, <2>4
    <3>2. recvSock[j] \in Peers
      BY <1>1
    <3>3. OwnPort => Threaded(recvSock[j])
      BY <3>1, <3>2
    <3>4. QED
      BY <1>3, <2>4, <3>1, <3>3
  <2>5. CASE j # gIdx[p] + 1
    <3>1. push'[p][recvSock[j]] # <<>> <=> push[p][recvSock[j]] # <<>>
      BY <1>1, <2>3, <2>5
    <3>2. j <= gIdx[p] + 1 <=> j <= gIdx[p]
      BY <1>3, <2>5
    <3>3. QED
      BY <2>2, <3>1, <3>2
  <2>6. QED
    BY <2>4, <2>5
<1>8. BasicGet(p)'
  BY <1>4, <1>5 DEF BasicGet
<1>9. BasicRelay(p)'
  <2>1. \A q \in Peers, s \in Segs : pushPc[p][q][s] = "none"
    BY <1>1 DEF BasicRelay
  <2>2. QED
    BY <2>1 DEF BasicRelay
<1>10. QED
  BY <1>6, <1>7, <1>8, <1>9 DEF BasicLocal

(* A step that only moves get_file_from_sender past its connecting loop.   *)
LEMMA BasicGetOn ==
    ASSUME SenderInv, BasicInv, NEW p \in Peers, Running(p), gPc[p] # "connect",
           gPc'[p] # "connect", BasicGet(p)',
           UNCHANGED <<down, recvSock, port, rPc, myNo, ri, gIdx, push>>,
           \A q \in Peers, s \in Segs :
               /\ pushPc'[p][q][s] # "none" => q \in Others(p)
               /\ gPc'[p] = "done" => pushPc'[p][q][s] \in {"none", "done"}
    PROVE  BasicLocal(p)'
<1>1. /\ rPc[p] = "join" /\ BasicStage(p) /\ BasicConnect(p) /\ BasicRelay(p)
      /\ Len(recvSock) = MaxPeer /\ \A j \in 1 .. MaxPeer : recvSock[j] \in Peers
  BY BasicRunning
<1>2. BasicStage(p)'
  BY <1>1 DEF BasicStage, Numbered, Briefed, Threaded
<1>3. BasicConnect(p)'
  BY <1>1 DEF BasicConnect, OwnPort, Threaded
<1>4. BasicRelay(p)'
  BY <1>1 DEF BasicRelay, Others
<1>5. QED
  BY <1>2, <1>3, <1>4 DEF BasicLocal

(* get_file_from_sender.                                                   *)
LEMMA BasicGetStep ==
    ASSUME SenderInv, SenderInv', BasicInv, NEW p \in Peers, GetStep(p)
    PROVE  BasicLocal(p)' /\ \A q \in Peers \ {p} : View(q)' = View(q)
<1>1. /\ gPc \in [Peers -> GetPcs] /\ gIdx \in [Peers -> Nat] /\ gGot \in [Peers -> Nat]
      /\ gPos \in [Peers -> Nat] /\ push \in [Peers -> [Peers -> Seq(PushItem)]]
      /\ pushPc \in [Peers -> [Peers -> [Segs -> {"none", "n", "size", "data", "done"}]]]
  BY DEF BasicInv, ReceiverTypeOK, GetPcs
<1>2. Running(p)
  BY DEF GetStep, GSkipSelf, GConnect, GReadN, GReadSize, GReadData, GRead, GReadEnd, GLost,
         GLostCrash, GJoin
<1>3. /\ rPc[p] = "join" /\ BasicConnect(p) /\ BasicGet(p) /\ BasicRelay(p)
      /\ Len(recvSock) = MaxPeer /\ MaxPeer \in Nat \ {0}
      /\ \A j \in 1 .. MaxPeer : recvSock[j] \in Peers
      /\ ri[p] = recvSock
      /\ myNo[p] \in 0 .. MaxPeer - 1
      /\ \A j \in 1 .. MaxPeer : recvSock[j] = p <=> j = myNo[p] + 1
  BY <1>2, BasicRunning
<1>4. CASE GLostCrash(p)
  BY <1>2, <1>4, BasicCrash DEF GLostCrash
<1>5. ASSUME ~GLostCrash(p)
      PROVE  /\ UNCHANGED <<down, recvSock, port, rPc, myNo, ri>>
             /\ \A q \in Peers \ {p} : View(q)' = View(q)
  <2>1. CASE GSkipSelf(p)
    BY <1>1, <2>1 DEF GSkipSelf, GNextPeer, senderVars, netVars, mainVars, View
  <2>2. CASE GConnect(p)
    BY <1>1, <2>2 DEF GConnect, GNextPeer, senderVars, mainVars, View
  <2>3. CASE GReadN(p) \/ GReadSize(p)
    BY <1>1, <2>3 DEF GReadN, GReadSize, GRead, senderVars, netVars, mainVars, View
  <2>4. CASE GReadData(p)
    BY <1>1, <2>4 DEF GReadData, GRead, senderVars, netVars, mainVars, View
  <2>5. CASE GReadEnd(p) \/ GJoin(p)
    BY <1>1, <2>5 DEF GReadEnd, GJoin, senderVars, netVars, mainVars, View
  <2>6. CASE GLost(p)
    BY <1>1, <2>6 DEF GLost, senderVars, netVars, mainVars, View
  <2>7. QED
    BY <1>5, <2>1, <2>2, <2>3, <2>4, <2>5, <2>6 DEF GetStep
<1>6. \A q \in Peers : \A j \in 2 .. Len(push[p][q]) : push[p][q][j].kind # "count"
  BY <1>3 DEF BasicRelay
<1>7. CASE GSkipSelf(p)
  <2>1. UNCHANGED <<down, recvSock, port, rPc, myNo, ri, gGot, gPos, push, pushPc>>
    BY <1>7 DEF GSkipSelf, senderVars, netVars, mainVars
  <2>2. gPc[p] = "connect" /\ gIdx[p] = myNo[p] /\ GNextPeer(p)
    BY <1>7 DEF GSkipSelf
  <2>3. recvSock[gIdx[p] + 1] = p
    BY <1>3, <2>2
  <2>4. BasicLocal(p)'
    BY <1>2, <1>6, <2>1, <2>2, <2>3, BasicNextPeer
  <2>5. QED
    BY <1>5, <1>7, <2>4 DEF GSkipSelf, GLostCrash
<1>8. CASE GConnect(p)
  <2> DEFINE q0 == recvSock[gIdx[p] + 1]
             it == Item("count", WillGet(myNo[p]))
  <2>1. UNCHANGED <<down, recvSock, port, rPc, myNo, ri, gGot, gPos, pushPc>>
    BY <1>8 DEF GConnect, senderVars, mainVars
  <2>2. gPc[p] = "connect" /\ gIdx[p] # myNo[p] /\ GNextPeer(p)
    BY <1>8 DEF GConnect
  <2>3. gIdx[p] < MaxPeer /\ gIdx[p] \in Nat
    BY <1>1, <1>3, <2>2 DEF BasicConnect
  <2>4. q0 \in Peers
    BY <1>3, <2>3
  <2>5. push' = [push EXCEPT ![p][q0] = Append(@, it)]
    BY <1>3, <1>8 DEF GConnect
  <2>6. OwnPort => Threaded(q0)
    <3>1. PICK l : l \in Listeners(port[q0])
      BY <1>3, <1>8 DEF GConnect
    <3>2. ASSUME OwnPort
          PROVE  l = q0 /\ Running(q0)
      BY <2>4, <3>1, <3>2 DEF OwnPort, Listeners
    <3>3. QED
      BY <3>2 DEF Threaded, Running
  <2> HIDE DEF q0, it
  <2>7. push[p] \in [Peers -> Seq(PushItem)] /\ push[p][q0] \in Seq(PushItem)
    BY <1>1, <2>4
  <2>8. /\ push'[p][q0] = Append(push[p][q0], it)
        /\ \A q \in Peers \ {q0} : push'[p][q] = push[p][q]
    BY <1>1, <2>4, <2>5, <2>7
  <2>9. push'[p][q0] # <<>>
    BY <2>7, <2>8
  <2>10. ~(push[p][q0] # <<>>)
    <3>1. gIdx[p] + 1 \in 1 .. MaxPeer
      BY <1>3, <2>3
    <3>2. q0 # p
      BY <1>3, <2>2, <2>3, <3>1 DEF q0
    <3>3. QED
      BY <1>3, <2>3, <3>1, <3>2 DEF BasicConnect, q0
  <2>11. push'[p][q0] = <<it>>
    <3>1. push[p][q0] = <<>>
      BY <2>10
    <3>2. Append(<<>>, it) = <<it>>
      OBVIOUS
    <3>3. QED
      BY <2>8, <3>1, <3>2
  <2>12. \A q \in Peers : \A j \in 2 .. Len(push'[p][q]) : push'[p][q][j].kind # "count"
    <3>1. SUFFICES ASSUME NEW q \in Peers
                   PROVE  \A j \in 2 .. Len(push'[p][q]) : push'[p][q][j].kind # "count"
      OBVIOUS
    <3>2. CASE q = q0
      <4>1. Len(push'[p][q]) = 1
        BY <2>11, <3>2
      <4>2. QED
        BY <4>1
    <3>3. CASE q # q0
      BY <1>6, <2>8, <3>3
    <3>4. QED
      BY <3>2, <3>3
  <2>13. BasicLocal(p)'
    BY <1>2, <2>1, <2>2, <2>6, <2>8, <2>9, <2>12, BasicNextPeer DEF q0
  <2>14. \A q \in Peers \ {p} : View(q)' = View(q)
    BY <1>1, <1>8, <2>1 DEF GConnect, GNextPeer, View
  <2>15. QED
    BY <2>13, <2>14
<1>9. ASSUME NEW kind \in {"n", "size", "data"}, NEW then, GRead(p, kind, then)
      PROVE  /\ gPc[p] = kind /\ gPc'[p] = then
             /\ gPos[p] \in Nat /\ gGot[p] \in Nat /\ gPos'[p] = gPos[p] + 1
  <2>1. gPc[p] = kind /\ Len(down[p]) > gPos[p]
    BY <1>9 DEF GRead
  <2>2. down[p][gPos[p] + 1].kind = kind
    BY <1>3, <2>1, BasicItem DEF BasicInv
  <2>3. QED
    BY <1>1, <1>9, <2>1, <2>2 DEF GRead
<1>10. \A q \in Peers, s \in Segs : pushPc[p][q][s] # "none" => q \in Others(p)
  BY <1>3 DEF BasicRelay
<1>11. CASE GReadN(p)
  <2>1. UNCHANGED <<down, recvSock, port, rPc, myNo, ri, gIdx, gGot, push, pushPc>>
    BY <1>11 DEF GReadN, senderVars, netVars, mainVars
  <2>2. gPc[p] = "n" /\ gPc'[p] = "size" /\ gPos[p] \in Nat /\ gGot[p] \in Nat /\ gPos'[p] = gPos[p] + 1
    BY <1>9, <1>11 DEF GReadN
  <2>3. BasicGet(p)'
    BY <1>3, <2>1, <2>2 DEF BasicGet
  <2>4. BasicLocal(p)'
    BY <1>2, <1>10, <2>1, <2>2, <2>3, BasicGetOn
  <2>5. QED
    BY <1>5, <2>2, <2>4 DEF GLostCrash
<1>12. CASE GReadSize(p)
  <2>1. UNCHANGED <<down, recvSock, port, rPc, myNo, ri, gIdx, gGot, push, pushPc>>
    BY <1>12 DEF GReadSize, senderVars, netVars, mainVars
  <2>2. gPc[p] = "size" /\ gPc'[p] = "data" /\ gPos[p] \in Nat /\ gGot[p] \in Nat /\ gPos'[p] = gPos[p] + 1
    BY <1>9, <1>12 DEF GReadSize
  <2>3. BasicGet(p)'
    BY <1>3, <2>1, <2>2 DEF BasicGet
  <2>4. BasicLocal(p)'
    BY <1>2, <1>10, <2>1, <2>2, <2>3, BasicGetOn
  <2>5. QED
    BY <1>5, <2>2, <2>4 DEF GLostCrash
<1>13. CASE GReadData(p)
  <2>1. UNCHANGED <<down, recvSock, port, rPc, myNo, ri, gIdx, push>>
    BY <1>13 DEF GReadData, senderVars, netVars, mainVars
  <2>2. /\ gPc[p] = "data" /\ gPc'[p] \in {"n", "join"}
        /\ gPos[p] \in Nat /\ gGot[p] \in Nat /\ gPos'[p] = gPos[p] + 1
    BY <1>9, <1>13, LoopHeads DEF GReadData
  <2>3. gGot'[p] = gGot[p] + 1
    BY <1>1, <1>13 DEF GReadData
  <2>4. BasicGet(p)'
    <3>1. gPos[p] = 3 * gGot[p] + 4
      BY <1>3, <2>2 DEF BasicGet
    <3>2. gPos'[p] = 3 * gGot'[p] + 2
      BY <2>2, <2>3, <3>1
    <3>3. QED
      BY <2>2, <3>2 DEF BasicGet
  <2>5. \A q \in Peers, s \in Segs : pushPc'[p][q][s] # "none" => q \in Others(p)
    BY <1>1, <1>10, <1>13 DEF GReadData
  <2>6. BasicLocal(p)'
    BY <1>2, <2>1, <2>2, <2>4, <2>5, BasicGetOn
  <2>7. QED
    BY <1>5, <2>2, <2>6 DEF GLostCrash
<1>14. CASE GReadEnd(p)
  <2>1. UNCHANGED <<down, recvSock, port, rPc, myNo, ri, gIdx, gGot, push, pushPc>>
    BY <1>14 DEF GReadEnd, senderVars, netVars, mainVars
  <2>2. gPc[p] \in {"n", "size", "data"} /\ gPc'[p] \in {"lost", "spin"}
    BY <1>1, <1>14 DEF GReadEnd
  <2>3. BasicGet(p)'
    BY <2>2 DEF BasicGet
  <2>4. BasicLocal(p)'
    BY <1>2, <1>10, <2>1, <2>2, <2>3, BasicGetOn
  <2>5. QED
    BY <1>5, <2>2, <2>4 DEF GLostCrash
<1>15. CASE GLost(p)
  <2>1. UNCHANGED <<down, recvSock, port, rPc, myNo, ri, gIdx, push>>
    BY <1>15 DEF GLost, senderVars, netVars, mainVars
  <2>2. gPc[p] = "lost" /\ gPc'[p] \in {"lost", "join"}
    BY <1>1, <1>15 DEF GLost
  <2>3. BasicGet(p)'
    BY <2>2 DEF BasicGet
  <2>4. \A q \in Peers, s \in Segs : pushPc'[p][q][s] # "none" => q \in Others(p)
    BY <1>1, <1>10, <1>15 DEF GLost
  <2>5. BasicLocal(p)'
    BY <1>2, <2>1, <2>2, <2>3, <2>4, BasicGetOn
  <2>6. \A q \in Peers \ {p} : View(q)' = View(q)
    BY <1>1, <1>15, <2>1 DEF GLost, View
  <2>7. QED
    BY <2>5, <2>6
<1>16. CASE GJoin(p)
  <2>1. UNCHANGED <<down, recvSock, port, rPc, myNo, ri, gIdx, gGot, gPos, push, pushPc>>
    BY <1>16 DEF GJoin, senderVars, netVars, mainVars
  <2>2. gPc[p] = "join" /\ gPc'[p] = "done"
    BY <1>1, <1>16 DEF GJoin
  <2>3. BasicGet(p)'
    BY <2>2 DEF BasicGet
  <2>4. \A q \in Peers, s \in Segs : pushPc[p][q][s] \in {"none", "done"}
    BY <1>16 DEF GJoin
  <2>5. BasicLocal(p)'
    BY <1>2, <1>10, <2>1, <2>2, <2>3, <2>4, BasicGetOn
  <2>6. QED
    BY <1>5, <2>2, <2>5 DEF GLostCrash
<1>17. QED
  BY <1>4, <1>7, <1>8, <1>11, <1>12, <1>13, <1>14, <1>15, <1>16 DEF GetStep

(* send_file_to_recv.                                                      *)
LEMMA BasicPushStep ==
    ASSUME SenderInv, SenderInv', BasicInv, NEW p \in Peers, NEW q \in Peers, NEW s \in Segs,
           PushStep(p, q, s)
    PROVE  BasicLocal(p)' /\ \A r \in Peers \ {p} : View(r)' = View(r)
<1>1. CASE PushBrokenPipe(p, q, s)
  BY <1>1, BasicCrash DEF PushBrokenPipe
<1>2. ASSUME NEW kind \in {"n", "size", "data"}, NEW then \in {"size", "data", "done"},
             PushWrite(p, q, s, kind, then)
      PROVE  BasicLocal(p)' /\ \A r \in Peers \ {p} : View(r)' = View(r)
  <2> DEFINE it == Item(kind, s)
  <2>1. /\ push \in [Peers -> [Peers -> Seq(PushItem)]]
        /\ pushPc \in [Peers -> [Peers -> [Segs -> {"none", "n", "size", "data", "done"}]]]
        /\ gIdx \in [Peers -> Nat]
    BY DEF BasicInv, ReceiverTypeOK
  <2>2. /\ Running(p) /\ pushPc[p][q][s] = kind
        /\ push' = [push EXCEPT ![p][q] = Append(@, it)]
        /\ pushPc' = [pushPc EXCEPT ![p][q][s] = then]
        /\ UNCHANGED <<down, recvSock, port, rPc, myNo, ri, gPc, gIdx, gGot, gPos>>
    BY <1>2 DEF PushWrite, senderVars, netVars, mainVars, getVars
  <2>3. it.kind # "count"
    BY DEF Item
  <2> HIDE DEF it
  <2>4. /\ rPc[p] = "join" /\ BasicStage(p) /\ BasicConnect(p) /\ BasicGet(p) /\ BasicRelay(p)
        /\ Len(recvSock) = MaxPeer /\ MaxPeer \in Nat \ {0}
        /\ \A j \in 1 .. MaxPeer : recvSock[j] \in Peers
        /\ Others(p) = Accepted \ {p}
    BY <2>2, BasicRunning
  <2>5. gPc[p] # "connect" /\ q \in Others(p)
    BY <2>2, <2>4 DEF BasicRelay
  <2>6. PICK i \in 1 .. MaxPeer : recvSock[i] = q /\ q # p
    BY <2>4, <2>5 DEF Accepted
  <2>7. push[p][q] # <<>>
    <3>1. gIdx[p] \in Nat /\ gIdx[p] >= MaxPeer
      BY <2>1, <2>4, <2>5 DEF BasicConnect
    <3>2. QED
      BY <2>4, <2>6, <3>1 DEF BasicConnect
  <2>8. push[p][q] \in Seq(PushItem)
    BY <2>1
  <2>9. /\ push'[p][q] = Append(push[p][q], it)
        /\ \A r \in Peers \ {q} : push'[p][r] = push[p][r]
        /\ \A r \in Peers \ {p} : push'[r] = push[r]
    BY <2>1, <2>2
  <2>10. push'[p][q] # <<>>
    BY <2>8, <2>9
  <2>11. \A r \in Peers : \A j \in 2 .. Len(push'[p][r]) : push'[p][r][j].kind # "count"
    <3>1. SUFFICES ASSUME NEW r \in Peers, NEW j \in 2 .. Len(push'[p][r])
                   PROVE  push'[p][r][j].kind # "count"
      OBVIOUS
    <3>2. CASE r # q
      BY <2>4, <2>9, <3>2 DEF BasicRelay
    <3>3. CASE r = q
      <4>1. Len(push[p][q]) \in Nat /\ j \in 2 .. Len(push[p][q]) + 1
        BY <2>8, <2>9, <3>3
      <4>2. CASE j = Len(push[p][q]) + 1
        BY <2>3, <2>8, <2>9, <3>3, <4>1, <4>2
      <4>3. CASE j # Len(push[p][q]) + 1
        <5>1. j \in 2 .. Len(push[p][q]) /\ push'[p][r][j] = push[p][q][j]
          BY <2>8, <2>9, <3>3, <4>1, <4>3
        <5>2. QED
          BY <2>4, <5>1 DEF BasicRelay
      <4>4. QED
        BY <4>2, <4>3
    <3>4. QED
      BY <3>2, <3>3
  <2>12. BasicStage(p)'
    BY <2>2, <2>4 DEF BasicStage, Numbered, Briefed, Threaded
  <2>13. BasicConnect(p)'
    <3>1. \A r \in Peers : push'[p][r] # <<>> <=> push[p][r] # <<>>
      BY <2>7, <2>9, <2>10
    <3>2. QED
      BY <2>2, <2>4, <3>1 DEF BasicConnect, OwnPort, Threaded
  <2>14. BasicGet(p)'
    BY <2>2, <2>4 DEF BasicGet
  <2>15. BasicRelay(p)'
    <3>1. gPc[p] # "done"
      BY <2>2, <2>4 DEF BasicRelay
    <3>2. \A r \in Peers, t \in Segs : pushPc'[p][r][t] # "none" => pushPc[p][r][t] # "none"
      BY <2>1, <2>2
    <3>3. Others(p)' = Others(p)
      BY <2>2 DEF Others
    <3>4. QED
      BY <2>2, <2>4, <2>11, <3>1, <3>2, <3>3 DEF BasicRelay
  <2>16. \A r \in Peers \ {p} : View(r)' = View(r)
    BY <2>1, <2>2, <2>9 DEF View
  <2>17. QED
    BY <2>12, <2>13, <2>14, <2>15, <2>16 DEF BasicLocal
<1>3. QED
  BY <1>1, <1>2 DEF PushStep, PushN, PushSize, PushData

(* recv_file_from_recv: only a crash is seen.                              *)
LEMMA BasicReadStep ==
    ASSUME SenderInv, SenderInv', BasicInv, NEW p \in Peers, NEW q \in Peers, ReadStep(q, p)
    PROVE  /\ \A r \in Peers : View(r)' = View(r) \/ BasicLocal(r)'
           /\ \A a, b \in Peers : rtPc'[b][a] # "accept" => rtPos'[b][a] >= 1
           /\ UNCHANGED port
<1>1. /\ rtPc \in [Peers -> [Peers -> ReadPcs]]
      /\ rtPos \in [Peers -> [Peers -> Nat]]
      /\ \A a, b \in Peers : rtPc[b][a] # "accept" => rtPos[b][a] >= 1
  BY DEF BasicInv, ReceiverTypeOK, ReadPcs
<1>2. CASE RTCrash(q, p)
  <2>1. \A r \in Peers : View(r)' = View(r) \/ BasicLocal(r)'
    BY <1>2, BasicCrash DEF RTCrash, Reads
  <2>2. QED
    BY <1>1, <1>2, <2>1 DEF RTCrash, netVars, readVars
<1>3. CASE ~RTCrash(q, p)
  <2>1. /\ UNCHANGED <<port, rPc, myNo, ri, gPc, gIdx, gGot, gPos, push, pushPc>>
        /\ \/ UNCHANGED rtPos /\ rtPc[q][p] # "accept"
           \/ rtPos' = [rtPos EXCEPT ![q][p] = 1]
           \/ rtPos' = [rtPos EXCEPT ![q][p] = @ + 1]
        /\ \E pc : rtPc' = [rtPc EXCEPT ![q][p] = pc]
    <3>1. CASE RTAccept(q, p)
      BY <3>1 DEF RTAccept, netVars, mainVars, getVars
    <3>2. CASE RTReadN(q, p) \/ RTReadSize(q, p) \/ RTReadData(q, p)
      <4>1. PICK kind, then : RTRead(q, p, kind, then)
        BY <3>2 DEF RTReadN, RTReadSize, RTReadData
      <4>2. QED
        BY <3>2, <4>1 DEF RTReadN, RTReadSize, RTReadData, RTRead, netVars, mainVars, getVars
    <3>3. CASE RTReadEnd(q, p) \/ RTGarbled(q, p)
      BY <3>3 DEF RTReadEnd, RTGarbled, netVars, mainVars, getVars
    <3>4. QED
      BY <1>3, <3>1, <3>2, <3>3 DEF ReadStep
  <2>2. \A a, b \in Peers : rtPc'[b][a] # "accept" => rtPos'[b][a] >= 1
    <3>1. SUFFICES ASSUME NEW a \in Peers, NEW b \in Peers, rtPc'[b][a] # "accept"
                   PROVE  rtPos'[b][a] >= 1
      OBVIOUS
    <3>2. CASE a = p /\ b = q
      <4>1. rtPos[q][p] \in Nat
        BY <1>1
      <4>2. CASE UNCHANGED rtPos /\ rtPc[q][p] # "accept"
        BY <1>1, <3>2, <4>2
      <4>3. CASE rtPos' = [rtPos EXCEPT ![q][p] = 1]
        BY <1>1, <3>2, <4>3
      <4>4. CASE rtPos' = [rtPos EXCEPT ![q][p] = @ + 1]
        BY <1>1, <3>2, <4>1, <4>4
      <4>5. QED
        BY <2>1, <4>2, <4>3, <4>4
    <3>3. CASE ~(a = p /\ b = q)
      <4>1. rtPc'[b][a] = rtPc[b][a] /\ rtPos'[b][a] = rtPos[b][a]
        BY <1>1, <2>1, <3>3
      <4>2. QED
        BY <1>1, <3>1, <4>1
    <3>4. QED
      BY <3>2, <3>3
  <2>3. \A r \in Peers : View(r)' = View(r)
    BY <2>1 DEF View
  <2>4. QED
    BY <2>1, <2>2, <2>3
<1>4. QED
  BY <1>2, <1>3

-----------------------------------------------------------------------------
LEMMA BasicNext ==
    ASSUME SenderInv, SenderInv', BasicInv, [Next]_vars
    PROVE  BasicInv' /\ port' = port
<1>1. LogsGrow
  BY SenderLogsGrow, NextRefines
<1>2. \A q \in Peers : Threaded(q) => Threaded(q)'
  BY ThreadedStays DEF BasicInv
<1>3. ASSUME port' = port, NEW p \in Peers, View(p)' = View(p)
      PROVE  BasicLocal(p)'
  BY <1>1, <1>2, <1>3, BasicKept DEF BasicInv
<1>4. ASSUME port' = port, ReceiverTypeOK', UNCHANGED readVars,
             NEW p \in Peers, BasicLocal(p)', \A q \in Peers \ {p} : View(q)' = View(q)
      PROVE  BasicInv' /\ port' = port
  <2>1. \A q \in Peers : BasicLocal(q)'
    BY <1>3, <1>4
  <2>2. QED
    BY <1>4, <2>1 DEF BasicInv, readVars
<1>5. ASSUME NEW p \in Peers, MainStep(p)
      PROVE  BasicInv' /\ port' = port
  <2>1. port' = port /\ UNCHANGED readVars
    BY <1>5 DEF MainStep, RConnect, RConnectFails, RHello, RReset, RInfo, RListen, RBindFails, RSave,
                RSaveCrash, netVars
  <2>2. BasicStage(p) /\ ReceiverTypeOK
    BY DEF BasicInv, BasicLocal
  <2>3. ReceiverTypeOK'
    BY <1>5, <2>2, MainStepType
  <2>4. QED
    BY <1>4, <1>5, <2>1, <2>3, BasicMain
<1>6. ASSUME NEW p \in Peers, GetStep(p)
      PROVE  BasicInv' /\ port' = port
  <2>1. port' = port /\ UNCHANGED readVars
    BY <1>6 DEF GetStep, GSkipSelf, GConnect, GReadN, GReadSize, GReadData, GReadEnd, GLost, GLostCrash,
                GJoin, netVars
  <2>2. ReceiverTypeOK'
    BY <1>6, GetStepType DEF BasicInv
  <2>3. QED
    BY <1>4, <1>6, <2>1, <2>2, BasicGetStep
<1>7. ASSUME NEW p \in Peers, NEW q \in Peers, NEW s \in Segs, PushStep(p, q, s)
      PROVE  BasicInv' /\ port' = port
  <2>1. port' = port /\ UNCHANGED readVars
    BY <1>7 DEF PushStep, PushN, PushSize, PushData, PushWrite, PushBrokenPipe, netVars
  <2>2. ReceiverTypeOK'
    BY <1>7, PushStepType DEF BasicInv
  <2>3. QED
    BY <1>4, <1>7, <2>1, <2>2, BasicPushStep
<1>8. ASSUME NEW p \in Peers, NEW q \in Peers, ReadStep(q, p)
      PROVE  BasicInv' /\ port' = port
  <2>1. /\ \A r \in Peers : View(r)' = View(r) \/ BasicLocal(r)'
        /\ \A a, b \in Peers : rtPc'[b][a] # "accept" => rtPos'[b][a] >= 1
        /\ port' = port
    BY <1>8, BasicReadStep
  <2>2. \A r \in Peers : BasicLocal(r)'
    BY <1>3, <2>1
  <2>3. ReceiverTypeOK'
    BY <1>8, ReadStepType
  <2>4. QED
    BY <2>1, <2>2, <2>3 DEF BasicInv
<1>9. CASE SenderStep \/ Terminated \/ ShortOfPeers \/ UNCHANGED vars
  <2>1. UNCHANGED receiverVars
    BY <1>9 DEF SenderStep, Terminated, ShortOfPeers, vars
  <2>2. /\ port' = port /\ ReceiverTypeOK' /\ UNCHANGED readVars
        /\ \A p \in Peers : View(p)' = View(p)
    BY <2>1 DEF BasicInv, ReceiverTypeOK, receiverVars, netVars, mainVars, getVars, readVars, View
  <2>3. \A p \in Peers : BasicLocal(p)'
    BY <1>3, <2>2
  <2>4. QED
    BY <2>2, <2>3 DEF BasicInv, readVars
<1>10. QED
  BY <1>5, <1>6, <1>7, <1>8, <1>9 DEF Next

(* The inductive invariant of the whole program.                           *)
THEOREM WholeInvariant == Spec => [](SenderInv /\ BasicInv)
<1>1. Init => BasicInv
  BY BasicInit
<1>2. SenderInv /\ SenderInv' /\ BasicInv /\ [Next]_vars => BasicInv'
  BY BasicNext
<1>3. Spec => []SenderInv
  BY ImplementsSender, SenderInvariant, PTL
<1>4. QED
  BY <1>1, <1>2, <1>3, PTL DEF Spec

(* The sender and the receivers keep their types, whatever ports the       *)
(* receivers were given, and whoever of them crashes.                      *)
THEOREM TypesHold == Spec => []TypeOK
<1>1. SenderInv /\ BasicInv => TypeOK
  BY DEF SenderInv, BasicInv, TypeOK
<1>2. QED
  BY <1>1, WholeInvariant, PTL

(* However many segments the send threads interleave on a connection, and  *)
(* however many receivers die, get_file_from_sender finds n_th, file_size  *)
(* and contents where it reads them.                                       *)
THEOREM SenderStreamIsParsed == Spec => []SenderStreamParsed
<1>1. BasicInv => SenderStreamParsed
  BY DEF BasicInv, BasicLocal, BasicStage, BasicGet, SenderStreamParsed
<1>2. QED
  BY <1>1, WholeInvariant, PTL

(* No send_file_to_recv thread is left when save_file() frees the segments *)
(* (p2p.c:425, 550, 558).                                                  *)
THEOREM NoThreadOutlivesSave == Spec => []NoUseAfterFree
<1>1. BasicInv => NoUseAfterFree
  BY DEF BasicInv, BasicLocal, BasicStage, BasicRelay, NoUseAfterFree
<1>2. QED
  BY <1>1, WholeInvariant, PTL

(* With ports of their own no receiver saves a file unless every receiver  *)
(* the sender accepted got as far as listening: the connecting loop of     *)
(* get_file_from_sender has a connection to each of them.                  *)
THEOREM SavingNeedsEveryPeer == Spec => []SaveNeedsEveryPeer
<1>1. ASSUME SenderInv, BasicInv, NEW p \in Peers, rPc[p] = "saved", OwnPort, NEW q \in Accepted
      PROVE  rPc[q] \in {"join", "saved", "crashed"}
  <2>1. Threaded(p) /\ Briefed(p) /\ BasicStage(p) /\ BasicConnect(p)
    BY <1>1 DEF BasicInv, BasicLocal, Threaded, Briefed
  <2>2. Len(recvSock) = MaxPeer /\ MaxPeer \in Nat \ {0}
    BY <1>1, <2>1, BasicDirectory
  <2>3. CASE q = p
    BY <1>1, <2>3
  <2>4. CASE q # p
    <3>1. PICK j \in 1 .. MaxPeer : recvSock[j] = q
      BY <2>2 DEF Accepted
    <3>2. gPc[p] = "done" /\ gIdx[p] \in Nat
      BY <1>1, <2>1 DEF BasicStage, BasicInv, ReceiverTypeOK
    <3>3. gIdx[p] >= MaxPeer
      BY <2>1, <2>2, <3>2 DEF BasicConnect
    <3>4. Threaded(q)
      BY <1>1, <2>1, <2>2, <2>4, <3>1, <3>2, <3>3 DEF BasicConnect
    <3>5. QED
      BY <3>4 DEF Threaded
  <2>5. QED
    BY <2>3, <2>4
<1>2. SenderInv /\ BasicInv => SaveNeedsEveryPeer
  BY <1>1 DEF SaveNeedsEveryPeer
<1>3. QED
  BY <1>2, WholeInvariant, PTL

=============================================================================
