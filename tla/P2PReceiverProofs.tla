--------------------------- MODULE P2PReceiverProofs ---------------------------
(***************************************************************************)
(* Proofs about the receiving peers of project/p2p.c when nothing disturbs *)
(* them: every receiver has a port of its own, and there are no more       *)
(* segments than receivers.                                                *)
(*                                                                         *)
(* Then many steps of Next are never taken: nobody is reached in another   *)
(* one's place, no framing is lost, no read() meets the end of a           *)
(* connection, and no receiver crashes.  OrderlyNext is what remains.  The *)
(* inductive invariant says of each receiver what its own threads have     *)
(* done and how that relates to its connections; it is preserved by the    *)
(* steps of OrderlyNext, and where it holds every step of Next is one.     *)
(***************************************************************************)
EXTENDS P2PProofs, FiniteSetTheorems

-----------------------------------------------------------------------------
(* The steps that are left.                                                *)

(* connect() reaches the receiver it is meant for.                         *)
OwnConnect(p) == GConnect(p) /\ Running(ri[p][gIdx[p] + 1]) /\ at' = at

(* The threads that were joined are those that read from the others.       *)
OrderlySave(p) == RSave(p) /\ \A q \in Others(p) : rtPc[p][q] = "done"

OrderlySender == SenderStep /\ sPc' # "dead"

OrderlyMain(p) ==
    \/ RConnect(p)
    \/ RConnectFails(p)
    \/ RHello(p)
    \/ RReset(p)
    \/ RInfo(p)
    \/ RListen(p)
    \/ RBindFails(p)
    \/ OrderlySave(p)

OrderlyGet(p) ==
    \/ GSkipSelf(p)
    \/ OwnConnect(p)
    \/ GReadN(p)
    \/ GReadSize(p)
    \/ GReadData(p)
    \/ GJoin(p)

OrderlyPush(p, q, s) == PushN(p, q, s) \/ PushSize(p, q, s) \/ PushData(p, q, s)

OrderlyRead(q, p) ==
    /\ at[p][q] = q
    /\ RTAccept(q, p) \/ RTReadN(q, p) \/ RTReadSize(q, p) \/ RTReadData(q, p)

OrderlyNext ==
    \/ OrderlySender
    \/ \E p \in Peers : OrderlyMain(p) \/ OrderlyGet(p)
    \/ \E p, q \in Peers, s \in Segs : OrderlyPush(p, q, s)
    \/ \E p, q \in Peers : OrderlyRead(q, p)
    \/ Terminated
    \/ ShortOfPeers

LEMMA OrderlyRefines == [OrderlyNext]_vars => [Next]_vars /\ [SenderNext]_senderVars
<1>1. \A p \in Peers : OrderlyMain(p) => MainStep(p)
  BY DEF OrderlyMain, MainStep, OrderlySave
<1>2. \A p \in Peers : OrderlyGet(p) => GetStep(p)
  BY DEF OrderlyGet, GetStep, OwnConnect
<1>3. \A p, q \in Peers, s \in Segs : OrderlyPush(p, q, s) => PushStep(p, q, s)
  BY DEF OrderlyPush, PushStep
<1>4. \A p, q \in Peers : OrderlyRead(q, p) => ReadStep(q, p)
  BY DEF OrderlyRead, ReadStep
<1>5. [OrderlyNext]_vars => [Next]_vars
  BY <1>1, <1>2, <1>3, <1>4 DEF OrderlyNext, Next, OrderlySender
<1>6. QED
  BY <1>5, NextRefines

-----------------------------------------------------------------------------
(* The inductive invariant.                                                *)

(* What the main thread of receiver() has got to: it knows its number, it  *)
(* knows recv_info[], or its threads were created.                         *)
Greeted(p) == rPc[p] \in {"info", "listen", "join", "saved"}
Informed(p) == rPc[p] \in {"listen", "join", "saved"}
Joined(p) == rPc[p] \in {"join", "saved"}

(* The threads of p have done nothing yet.                                 *)
Idle(p) ==
    /\ gPc[p] = "connect" /\ gIdx[p] = 0 /\ gGot[p] = 0
    /\ \A s \in Segs : fi[p][s] = Unset
    /\ \A q \in Peers : /\ push[p][q] = <<>>
                        /\ \A s \in Segs : pushPc[p][q][s] = "none"
                        /\ rtPc[p][q] = "accept"

(* The main thread of receiver().                                          *)
StageInv(p) ==
    /\ Greeted(p) => down[p] # <<>> /\ myNo[p] = down[p][1].val
    /\ Informed(p) => Len(down[p]) > 1 /\ ri[p] = down[p][2].val
    /\ rPc[p] = "info" => gPos[p] = 1
    /\ rPc[p] = "listen" => gPos[p] = 2
    /\ p \in gone => rPc[p] \in {"saved", "exited"} /\ Len(down[p]) > 1
    /\ rPc[p] # "crashed"
    /\ ~Joined(p) => Idle(p)

(* The loop of get_file_from_sender that connects to the other receivers:  *)
(* those it has passed run their threads, or have ended with the file.     *)
ConnectInv(p) ==
    /\ gIdx[p] <= MaxPeer
    /\ gPc[p] = "connect" <=> gIdx[p] < MaxPeer
    /\ \A q \in Peers : push[p][q] # <<>> => q # p
    /\ \A j \in 1 .. Len(recvSock) : recvSock[j] # p =>
           /\ push[p][recvSock[j]] # <<>> <=> j <= gIdx[p]
           /\ j <= gIdx[p] => Joined(recvSock[j])

(* Its loop that reads the segments from the sender: the position on the   *)
(* connection follows from the counter of segments and the read() to come. *)
GetInv(p) ==
    /\ gPc[p] \notin {"garbled", "lost", "spin"}
    /\ gPc[p] = "connect" => gGot[p] = 0
    /\ gPc[p] \in {"connect", "n", "join", "done"} => gPos[p] = 3 * gGot[p] + 2
    /\ gPc[p] = "size" => gPos[p] = 3 * gGot[p] + 3
    /\ gPc[p] = "data" => gPos[p] = 3 * gGot[p] + 4
    /\ gPos[p] <= Len(down[p])
    /\ gPc[p] \in {"size", "data"} => gN[p] = down[p][3 * gGot[p] + 3].val
    /\ gPc[p] \in {"n", "size", "data"} => gGot[p] < WillGet(myNo[p])
    /\ gPc[p] \in {"join", "done"} => gGot[p] = WillGet(myNo[p])

(* The segments p has got from the sender.                                 *)
Got(p) == {down[p][3 * j + 3].val : j \in 0 .. gGot[p] - 1}

(* One send_file_to_recv thread for every such segment and other receiver; *)
(* all of them have ended when get_file_from_sender has.                   *)
RelayInv(p) ==
    /\ \A q \in Peers, s \in Segs :
         /\ pushPc[p][q][s] # "none" <=> s \in Got(p) /\ q \in Others(p)
         /\ gPc[p] = "done" => pushPc[p][q][s] \in {"none", "done"}
    /\ \A q \in Peers : push[p][q] # <<>> =>
         /\ push[p][q][1] = Item("count", WillGet(myNo[p]))
         /\ \A j \in 2 .. Len(push[p][q]) : push[p][q][j].kind # "count"

(* A saved file needed all the threads.                                    *)
SaveInv(p) ==
    /\ \A q \in Peers : rtPc[p][q] # "accept" => rtPos[p][q] >= 1
    /\ rPc[p] = "saved" => gPc[p] = "done" /\ \A q \in Others(p) : rtPc[p][q] = "done"

ReceiverInv ==
    /\ ReceiverTypeOK
    /\ \A p \in Peers :
         /\ StageInv(p)
         /\ Joined(p) => ConnectInv(p) /\ GetInv(p) /\ RelayInv(p) /\ SaveInv(p)

-----------------------------------------------------------------------------

(* What a receiver that knows the others knows: recv_sock[] of the sender, *)
(* complete and for good, and its own place in it.                         *)
LEMMA Directory ==
    ASSUME SenderInv, NEW p \in Peers, StageInv(p), Informed(p)
    PROVE  /\ p \in Accepted
           /\ Len(recvSock) = MaxPeer
           /\ ri[p] = recvSock
           /\ myNo[p] \in 0 .. MaxPeer - 1
           /\ \A j \in 1 .. MaxPeer : recvSock[j] = p <=> j = myNo[p] + 1
           /\ Others(p) = Accepted \ {p}
<1> USE SenderAssumption
<1>1. Len(down[p]) >= 2 /\ ri[p] = down[p][2].val /\ myNo[p] = down[p][1].val
  BY DEF StageInv, Informed, Greeted, SenderInv, SenderTypeOK
<1>2. p \in Accepted /\ Len(recvSock) = MaxPeer
  BY <1>1, LongLog
<1>3. PICK i \in 1 .. MaxPeer : recvSock[i] = p
  BY <1>2 DEF Accepted
<1>4. down[p][1] = Item("no", i - 1) /\ down[p][2] = Item("info", recvSock)
  BY <1>1, <1>2, <1>3 DEF SenderInv, GreetInv
<1>5. ri[p] = recvSock /\ myNo[p] = i - 1
  BY <1>1, <1>4 DEF Item
<1>6. \A j \in 1 .. MaxPeer : recvSock[j] = p <=> j = myNo[p] + 1
  BY <1>2, <1>3, <1>5 DEF SenderInv, GreetInv
<1>7. QED
  BY <1>2, <1>5, <1>6 DEF Others, Accepted

-----------------------------------------------------------------------------
(* Steps that are not of one receiver leave its part of the invariant.     *)

LocalInv(p) ==
    /\ StageInv(p)
    /\ Joined(p) => ConnectInv(p) /\ GetInv(p) /\ RelayInv(p) /\ SaveInv(p)

Own(p) == <<rPc[p], myNo[p], ri[p], fi[p], gPc[p], gIdx[p], gGot[p], gN[p], gPos[p],
            push[p], pushPc[p], rtPc[p], rtPos[p]>>

(* Segments got stay got, and no others come, while the counter stays.     *)
LEMMA GotStays ==
    ASSUME ReceiverTypeOK, SenderTypeOK, LogsGrow, NEW p \in Peers, GetInv(p),
           gGot'[p] = gGot[p]
    PROVE  /\ Got(p)' = Got(p)
           /\ \A j \in 0 .. gGot[p] - 1 : 3 * j + 3 \in 1 .. Len(down[p])
<1>1. gGot[p] \in Nat /\ Len(down[p]) \in Nat
  BY DEF ReceiverTypeOK, SenderTypeOK
<1>2. 3 * gGot[p] + 2 <= Len(down[p]) \/ gPc[p] = "garbled"
  BY <1>1 DEF GetInv, ReceiverTypeOK
<1>3. \A j \in 0 .. gGot[p] - 1 : 3 * j + 3 \in 1 .. Len(down[p])
  BY <1>1, <1>2 DEF GetInv
<1>4. \A j \in 0 .. gGot[p] - 1 : down'[p][3 * j + 3] = down[p][3 * j + 3]
  BY <1>3 DEF LogsGrow
<1>5. QED
  BY <1>1, <1>3, <1>4 DEF Got

(* recv_sock[] is final once some receiver knows it.                       *)
LEMMA DirectoryStays ==
    ASSUME SenderInv, SenderInv', LogsGrow, NEW p \in Peers, StageInv(p), Informed(p)
    PROVE  recvSock' = recvSock /\ Len(recvSock) = MaxPeer
<1>1. down[p] \in Seq(DownItem) /\ down'[p] \in Seq(DownItem)
  BY DEF SenderInv, SenderTypeOK
<1>2. Len(down[p]) >= 2 /\ Len(down'[p]) >= 2 /\ down'[p][2] = down[p][2]
  BY <1>1 DEF StageInv, Informed, LogsGrow
<1>3. p \in Accepted /\ Len(recvSock) = MaxPeer
  BY <1>2, LongLog
<1>4. p \in Accepted'
  <2>1. Len(<<>>) = 0
    OBVIOUS
  <2>2. QED
    BY <1>2, <2>1 DEF SenderInv, GreetInv
<1>5. down[p][2] = Item("info", recvSock)
  BY <1>2, <1>3 DEF SenderInv, GreetInv, Accepted
<1>6. (down[p][2] = Item("info", recvSock))'
  BY <1>2, <1>4 DEF SenderInv, GreetInv, Accepted
<1>7. QED
  BY <1>2, <1>3, <1>5, <1>6 DEF Item

LEMMA OthersKeep ==
    ASSUME SenderInv, SenderInv', LogsGrow, ReceiverTypeOK,
           NEW p \in Peers, LocalInv(p), Own(p)' = Own(p), p \in gone' => p \in gone,
           \A q \in Peers : Joined(q) => Joined(q)'
    PROVE  LocalInv(p)'
<1> USE DEF LocalInv
<1>1. /\ rPc'[p] = rPc[p] /\ myNo'[p] = myNo[p] /\ ri'[p] = ri[p] /\ fi'[p] = fi[p]
      /\ gPc'[p] = gPc[p] /\ gIdx'[p] = gIdx[p] /\ gGot'[p] = gGot[p]
      /\ gN'[p] = gN[p] /\ gPos'[p] = gPos[p]
      /\ push'[p] = push[p] /\ pushPc'[p] = pushPc[p] /\ rtPc'[p] = rtPc[p]
      /\ rtPos'[p] = rtPos[p]
  BY DEF Own
<1>2. down[p] \in Seq(DownItem) /\ down'[p] \in Seq(DownItem)
  BY DEF SenderInv, SenderTypeOK
<1>3. /\ Len(down[p]) \in Nat /\ Len(down'[p]) \in Nat /\ Len(down[p]) <= Len(down'[p])
      /\ \A j \in 1 .. Len(down[p]) : down'[p][j] = down[p][j]
  BY <1>2 DEF LogsGrow
<1>4. StageInv(p)'
  <2>1. Idle(p) => Idle(p)'
    BY <1>1 DEF Idle
  <2>2. down[p] # <<>> => down'[p] # <<>> /\ down'[p][1] = down[p][1]
    BY <1>2, <1>3
  <2>3. Len(down[p]) > 1 => Len(down'[p]) > 1 /\ down'[p][2] = down[p][2]
    BY <1>3
  <2>4. QED
    BY <1>1, <2>1, <2>2, <2>3 DEF StageInv, Greeted, Informed, Joined
<1>5. ASSUME Joined(p)
      PROVE  ConnectInv(p)' /\ GetInv(p)' /\ RelayInv(p)' /\ SaveInv(p)'
  <2>1. recvSock' = recvSock
    BY <1>5, DirectoryStays DEF Joined, Informed
  <2>2. ConnectInv(p)'
    <3>1. \A j \in 1 .. Len(recvSock) : recvSock[j] \in Peers
      BY DEF SenderInv, SenderTypeOK
    <3>2. ConnectInv(p)
      BY <1>5
    <3>3. QED
      BY <1>1, <2>1, <3>1, <3>2 DEF ConnectInv
  <2>3. GetInv(p)'
    <3>1. gPc[p] \in {"size", "data"} => 3 * gGot[p] + 3 \in 1 .. Len(down[p])
      BY <1>3, <1>5 DEF GetInv, ReceiverTypeOK
    <3>2. gPc[p] \in {"size", "data"} => down'[p][3 * gGot[p] + 3] = down[p][3 * gGot[p] + 3]
      BY <1>3, <3>1
    <3>3. gPos[p] \in Nat
      BY DEF ReceiverTypeOK
    <3>4. QED
      BY <1>1, <1>3, <1>5, <3>2, <3>3 DEF GetInv, WillGet
  <2>4. RelayInv(p)'
    <3>1. Got(p)' = Got(p) /\ Others(p)' = Others(p)
      BY <1>1, <1>5, GotStays DEF Others, SenderInv
    <3>2. QED
      BY <1>1, <1>5, <3>1 DEF RelayInv, WillGet
  <2>5. SaveInv(p)'
    BY <1>1, <1>5 DEF SaveInv, Others
  <2>6. QED
    BY <2>2, <2>3, <2>4, <2>5
<1>6. QED
  BY <1>1, <1>4, <1>5 DEF Joined

(* The threads of one receiver do not touch the state of another.          *)
LEMMA OthersStay ==
    ASSUME ReceiverTypeOK, NEW x \in Peers, NEW p \in Peers \ {x},
           \/ OrderlyMain(x)
           \/ OrderlyGet(x)
           \/ \E q \in Peers, s \in Segs : OrderlyPush(x, q, s)
           \/ \E q \in Peers : OrderlyRead(x, q)
    PROVE  Own(p)' = Own(p) /\ (p \in gone' => p \in gone)
<1> USE DEF ReceiverTypeOK, Own
<1>1. CASE OrderlyMain(x)
  <2>1. CASE RConnect(x) \/ RConnectFails(x) \/ RHello(x) \/ RReset(x)
    BY <2>1 DEF RConnect, RConnectFails, RHello, RReset, getVars, readVars, Dial, SendPort,
                senderVars
  <2>2. CASE RInfo(x) \/ RListen(x) \/ RBindFails(x) \/ OrderlySave(x)
    BY <2>2 DEF RInfo, RListen, RBindFails, OrderlySave, RSave, SaveFile, HangUp, getVars, readVars,
                senderVars
  <2>3. QED
    BY <1>1, <2>1, <2>2 DEF OrderlyMain
<1>2. CASE OrderlyGet(x)
  <2>1. CASE GSkipSelf(x) \/ OwnConnect(x) \/ GJoin(x)
    BY <2>1, SMTT(30) DEF GSkipSelf, OwnConnect, GConnect, GNextPeer, GJoin, mainVars, readVars, senderVars
  <2>2. CASE GReadN(x) \/ GReadSize(x) \/ GReadData(x)
    BY <2>2, SMTT(30) DEF GReadN, GReadSize, GReadData, GRead, mainVars, readVars, senderVars
  <2>3. QED
    BY <1>2, <2>1, <2>2 DEF OrderlyGet
<1>3. ASSUME NEW q \in Peers, NEW s \in Segs, OrderlyPush(x, q, s)
      PROVE  Own(p)' = Own(p) /\ (p \in gone' => p \in gone)
  BY <1>3 DEF OrderlyPush, PushN, PushSize, PushData, PushWrite, mainVars, getVars, readVars,
              senderVars
<1>4. ASSUME NEW q \in Peers, OrderlyRead(x, q)
      PROVE  Own(p)' = Own(p) /\ (p \in gone' => p \in gone)
  <2>1. CASE RTAccept(x, q)
    BY <2>1 DEF RTAccept, mainVars, getVars, senderVars
  <2>2. CASE RTReadN(x, q) \/ RTReadSize(x, q)
    BY <2>2 DEF RTReadN, RTReadSize, RTRead, mainVars, getVars, senderVars
  <2>3. CASE RTReadData(x, q)
    <3>1. /\ UNCHANGED <<gone, rPc, myNo, ri, gPc, gIdx, gGot, gN, gPos, push, pushPc>>
          /\ \E v, s : fi' = [fi EXCEPT ![x][s] = v]
          /\ \E pc : rtPc' = [rtPc EXCEPT ![x][q] = pc]
          /\ rtPos' = [rtPos EXCEPT ![x][q] = @ + 1]
      BY <1>4, <2>3 DEF OrderlyRead, RTReadData, RTRead, mainVars, getVars, senderVars
    <3>2. fi'[p] = fi[p] /\ rtPc'[p] = rtPc[p] /\ rtPos'[p] = rtPos[p]
      BY <3>1
    <3>3. QED
      BY <3>1, <3>2
  <2>4. QED
    BY <1>4, <2>1, <2>2, <2>3 DEF OrderlyRead
<1>5. QED
  BY <1>1, <1>2, <1>3, <1>4

-----------------------------------------------------------------------------
(* The inductive invariant holds initially, and each step of a receiver    *)
(* preserves its part of it.                                               *)

LEMMA ReceiverInitInv == Init => ReceiverInv
<1>1. SUFFICES ASSUME SInit, RInit
               PROVE  ReceiverInv
  BY DEF Init
<1>2. ReceiverTypeOK
  BY <1>1, ReceiverInitType
<1>3. ASSUME NEW p \in Peers
      PROVE  StageInv(p) /\ ~Joined(p)
  <2>1. rPc[p] = "start" /\ p \notin gone
    BY <1>1 DEF SInit, RInit
  <2>2. Idle(p)
    BY <1>1 DEF RInit, Idle
  <2>3. QED
    BY <2>1, <2>2 DEF StageInv, Greeted, Informed, Joined
<1>4. QED
  BY <1>2, <1>3 DEF ReceiverInv

(* Once the threads of a receiver exist it counts as joined for good.      *)
LEMMA JoinedStays ==
    ASSUME ReceiverTypeOK, [OrderlyNext]_vars, NEW q \in Peers, Joined(q)
    PROVE  Joined(q)'
<1>1. rPc \in [Peers -> {"start", "hello", "info", "listen", "join", "saved", "exited", "killed", "crashed"}]
  BY DEF ReceiverTypeOK
<1>2. ASSUME NEW p \in Peers, OrderlyMain(p)
      PROVE  Joined(q)'
  BY <1>1, <1>2 DEF OrderlyMain, RConnect, RConnectFails, RHello, RReset, RInfo, RListen, RBindFails,
                    OrderlySave, RSave, SaveFile, Joined
<1>3. ASSUME NEW p \in Peers, OrderlyGet(p)
      PROVE  rPc' = rPc
  BY <1>3 DEF OrderlyGet, GSkipSelf, OwnConnect, GConnect, GReadN, GReadSize, GReadData, GJoin, mainVars
<1>4. ASSUME NEW p \in Peers, NEW r \in Peers, NEW s \in Segs, OrderlyPush(p, r, s)
      PROVE  rPc' = rPc
  BY <1>4 DEF OrderlyPush, PushN, PushSize, PushData, PushWrite, mainVars
<1>5. ASSUME NEW p \in Peers, NEW r \in Peers, OrderlyRead(r, p)
      PROVE  rPc' = rPc
  BY <1>5 DEF OrderlyRead, RTAccept, Reads, RTReadN, RTReadSize, RTReadData, mainVars
<1>6. CASE OrderlySender \/ Terminated \/ ShortOfPeers \/ UNCHANGED vars
  BY <1>6 DEF OrderlySender, SenderStep, Terminated, ShortOfPeers, vars, receiverVars, mainVars, Joined
<1>7. QED
  BY <1>2, <1>3, <1>4, <1>5, <1>6 DEF OrderlyNext, Joined

(* The main thread.                                                        *)
LEMMA MainStepInv ==
    ASSUME SenderInv, SenderInv', ReceiverInv, NEW p \in Peers, OrderlyMain(p)
    PROVE  LocalInv(p)'
<1>1. /\ rPc \in [Peers -> {"start", "hello", "info", "listen", "join", "saved", "exited", "killed", "crashed"}]
      /\ myNo \in [Peers -> Slots \cup {NoSlot}] /\ ri \in [Peers -> Seq(Peers)]
      /\ gPos \in [Peers -> Nat]
  BY DEF ReceiverInv, ReceiverTypeOK
<1>2. StageInv(p)
  BY DEF ReceiverInv
<1>3. /\ UNCHANGED <<down, recvSock>>
      /\ UNCHANGED <<fi, gPc, gIdx, gGot, gN, push, pushPc, rtPc, rtLeft, rtN, rtPos>>
  BY DEF OrderlyMain, RConnect, RConnectFails, RHello, RReset, RInfo, RListen, RBindFails, OrderlySave, RSave,
         SaveFile, Dial, SendPort, HangUp, sVars, senderVars, getVars, readVars
<1>4. Idle(p)' <=> Idle(p)
  BY <1>3 DEF Idle
<1>5. CASE RConnect(p) \/ RConnectFails(p) \/ RReset(p)
  <2>1. rPc[p] \in {"start", "hello"} /\ rPc'[p] \in {"hello", "exited", "killed"} /\ gone' = gone
    BY <1>1, <1>5 DEF RConnect, RConnectFails, RReset, Dial, senderVars
  <2>2. QED
    BY <1>2, <1>4, <2>1 DEF LocalInv, StageInv, Greeted, Informed, Joined
<1>6. CASE RHello(p)
  <2>1. /\ rPc[p] = "hello" /\ rPc'[p] = "info" /\ gone' = gone
        /\ down[p] # <<>> /\ myNo'[p] = down[p][1].val /\ gPos'[p] = 1
    BY <1>1, <1>6 DEF RHello, SendPort
  <2>2. QED
    BY <1>2, <1>3, <1>4, <2>1 DEF LocalInv, StageInv, Greeted, Informed, Joined
<1>7. CASE RInfo(p)
  <2>1. /\ rPc[p] = "info" /\ rPc'[p] = "listen" /\ gone' = gone /\ myNo' = myNo
        /\ Len(down[p]) > 1 /\ ri'[p] = down[p][2].val /\ gPos'[p] = 2
    BY <1>1, <1>7 DEF RInfo, senderVars
  <2>2. QED
    BY <1>2, <1>3, <1>4, <2>1 DEF LocalInv, StageInv, Greeted, Informed, Joined
<1>8. CASE RBindFails(p)
  <2>1. /\ rPc[p] = "listen" /\ rPc'[p] = "exited" /\ Len(down[p]) > 1
    BY <1>1, <1>2, <1>8 DEF RBindFails, StageInv, Informed
  <2>2. QED
    BY <1>2, <1>3, <1>4, <2>1 DEF LocalInv, StageInv, Greeted, Informed, Joined
<1>9. CASE RListen(p)
  <2>1. /\ rPc[p] = "listen" /\ rPc'[p] = "join"
        /\ gone' = gone /\ myNo' = myNo /\ ri' = ri /\ gPos' = gPos
    BY <1>1, <1>9 DEF RListen, getVars, senderVars
  <2>2. Idle(p) /\ gPos[p] = 2 /\ Len(down[p]) > 1 /\ Informed(p)
    BY <1>2, <2>1 DEF StageInv, Joined, Informed
  <2>3. StageInv(p)'
    BY <1>2, <1>3, <2>1, <2>2 DEF StageInv, Greeted, Informed, Joined
  <2>4. MaxPeer \in Nat \ {0} /\ Len(recvSock) = MaxPeer /\ \A j \in 1 .. Len(recvSock) : recvSock[j] \in Peers
    BY <1>2, <2>2, Directory, SenderAssumption DEF SenderInv, SenderTypeOK
  <2>5. ConnectInv(p)'
    BY <1>3, <1>4, <2>2, <2>4 DEF ConnectInv, Idle
  <2>6. GetInv(p)'
    <3>1. Len(down[p]) \in Nat
      BY DEF SenderInv, SenderTypeOK
    <3>2. QED
      BY <1>3, <2>1, <2>2, <3>1 DEF GetInv, Idle
  <2>7. RelayInv(p)'
    <3>1. Got(p)' = {}
      BY <1>3, <2>2 DEF Idle, Got
    <3>2. QED
      BY <1>3, <2>2, <3>1 DEF RelayInv, Idle
  <2>8. SaveInv(p)'
    BY <1>3, <2>1, <2>2 DEF SaveInv, Idle
  <2>9. QED
    BY <2>3, <2>5, <2>6, <2>7, <2>8 DEF LocalInv
<1>10. CASE OrderlySave(p)
  <2>1. /\ rPc[p] = "join" /\ rPc'[p] = "saved" /\ Len(down[p]) > 1
        /\ myNo' = myNo /\ ri' = ri /\ gPos' = gPos
        /\ gPc[p] = "done" /\ \A q \in Others(p) : rtPc[p][q] = "done"
        /\ \A q \in Peers : Joined(q) => Joined(q)'
    BY <1>1, <1>2, <1>10 DEF OrderlySave, RSave, AllReturned, SaveFile, Running, getVars, Joined,
                              StageInv, Informed
  <2>2. StageInv(p)'
    BY <1>2, <1>3, <2>1 DEF StageInv, Greeted, Informed, Joined
  <2>3. ConnectInv(p) /\ GetInv(p) /\ RelayInv(p) /\ SaveInv(p)
    BY <2>1 DEF ReceiverInv, Joined
  <2>4. \A j \in 1 .. Len(recvSock) : recvSock[j] \in Peers
    BY DEF SenderInv, SenderTypeOK
  <2>5. ConnectInv(p)'
    BY <1>3, <2>1, <2>3, <2>4 DEF ConnectInv
  <2>6. GetInv(p)'
    BY <1>3, <2>1, <2>3 DEF GetInv, WillGet
  <2>7. RelayInv(p)' /\ SaveInv(p)'
    <3>1. Got(p)' = Got(p) /\ Others(p)' = Others(p) /\ WillGet(myNo[p])' = WillGet(myNo[p])
      BY <1>3, <2>1 DEF Got, Others, WillGet
    <3>2. RelayInv(p)'
      BY <1>3, <2>3, <3>1 DEF RelayInv
    <3>3. SaveInv(p)'
      BY <1>3, <2>1, <2>3, <3>1 DEF SaveInv
    <3>4. QED
      BY <3>2, <3>3
  <2>8. QED
    BY <2>2, <2>5, <2>6, <2>7 DEF LocalInv
<1>11. QED
  BY <1>5, <1>6, <1>7, <1>8, <1>9, <1>10 DEF OrderlyMain

(* What a thread of p can rely on while it runs.                           *)
LEMMA RunningFacts ==
    ASSUME SenderInv, ReceiverInv, NEW p \in Peers, Running(p)
    PROVE  /\ Joined(p) /\ Informed(p) /\ rPc[p] = "join"
           /\ StageInv(p) /\ ConnectInv(p) /\ GetInv(p) /\ RelayInv(p) /\ SaveInv(p)
           /\ ri[p] = recvSock /\ Len(recvSock) = MaxPeer /\ MaxPeer \in Nat \ {0}
           /\ \A j \in 1 .. MaxPeer : recvSock[j] \in Peers
           /\ myNo[p] \in 0 .. MaxPeer - 1
           /\ \A j \in 1 .. MaxPeer : recvSock[j] = p <=> j = myNo[p] + 1
           /\ Others(p) = Accepted \ {p}
<1>1. Joined(p) /\ Informed(p) /\ rPc[p] = "join"
  BY DEF Running, Joined, Informed
<1>2. StageInv(p) /\ ConnectInv(p) /\ GetInv(p) /\ RelayInv(p) /\ SaveInv(p)
  BY <1>1 DEF ReceiverInv
<1>3. \A j \in 1 .. Len(recvSock) : recvSock[j] \in Peers
  BY DEF SenderInv, SenderTypeOK
<1>4. QED
  BY <1>1, <1>2, <1>3, Directory, SenderAssumption

(* The threads of p do not disturb what its main thread has done.          *)
LEMMA ThreadKeepsStage ==
    ASSUME NEW p \in Peers, Joined(p), StageInv(p),
           UNCHANGED <<rPc, myNo, ri, down, gone>>
    PROVE  StageInv(p)' /\ Joined(p)'
BY DEF StageInv, Joined, Greeted, Informed

(* get_file_from_sender passes one entry of recv_info[], its own or that   *)
(* of another receiver.                                                    *)
LEMMA NextPeerInv ==
    ASSUME SenderInv, ReceiverInv, ReceiverTypeOK', NEW p \in Peers,
           GSkipSelf(p) \/ OwnConnect(p)
    PROVE  LocalInv(p)'
<1>1. Running(p) /\ gPc[p] = "connect" /\ GNextPeer(p)
      /\ UNCHANGED <<down, recvSock, gone, rPc, myNo, ri, fi, gGot, gN, gPos, pushPc>>
      /\ UNCHANGED <<rtPc, rtLeft, rtN, rtPos>>
  BY DEF GSkipSelf, OwnConnect, GConnect, senderVars, mainVars, readVars
<1>2. /\ Joined(p) /\ Informed(p) /\ StageInv(p)
      /\ ConnectInv(p) /\ GetInv(p) /\ RelayInv(p) /\ SaveInv(p)
      /\ ri[p] = recvSock /\ Len(recvSock) = MaxPeer /\ MaxPeer \in Nat \ {0}
      /\ \A j \in 1 .. MaxPeer : recvSock[j] \in Peers
      /\ myNo[p] \in 0 .. MaxPeer - 1
      /\ \A j \in 1 .. MaxPeer : recvSock[j] = p <=> j = myNo[p] + 1
  BY <1>1, RunningFacts
<1>3. gIdx \in [Peers -> Nat] /\ gGot[p] \in Nat /\ gPos[p] \in Nat
      /\ gPc \in [Peers -> {"connect", "n", "size", "data", "join", "done", "garbled", "lost", "spin"}]
      /\ push \in [Peers -> [Peers -> Seq(PushItem)]]
  BY DEF ReceiverInv, ReceiverTypeOK
<1>4. /\ gIdx[p] \in Nat /\ gIdx[p] < MaxPeer /\ gIdx'[p] = gIdx[p] + 1
      /\ gPc'[p] = IF gIdx'[p] < MaxPeer THEN "connect" ELSE GetOrJoin(p, 0)
  BY <1>1, <1>2, <1>3 DEF GNextPeer, ConnectInv
<1>5. /\ gPc'[p] \in {"connect", "n", "join"}
      /\ gPc'[p] = "connect" <=> gIdx'[p] < MaxPeer
      /\ gPc'[p] = "n" => 0 < WillGet(myNo[p])
      /\ gPc'[p] = "join" => ~(0 < WillGet(myNo[p]))
  BY <1>4 DEF GetOrJoin
<1>6. StageInv(p)' /\ Joined(p)'
  BY <1>1, <1>2, ThreadKeepsStage
<1>7. GetInv(p)'
  <2>1. gGot[p] = 0 /\ gPos[p] = 3 * gGot[p] + 2 /\ gPos[p] <= Len(down[p])
    BY <1>1, <1>2 DEF GetInv
  <2>2. WillGet(myNo[p]) \in Nat /\ WillGet(myNo[p])' = WillGet(myNo[p])
    BY <1>1, WillGetType DEF WillGet
  <2>3. QED
    BY <1>1, <1>5, <2>1, <2>2 DEF GetInv
(* The connection to the next receiver, unless that one is p itself.       *)
<1>8. DEFINE q == recvSock[gIdx[p] + 1]
<1>9. /\ q \in Peers
      /\ \A r \in Peers : r # p \/ ~(q # p) => push'[r] = push[r]
      /\ \A r \in Peers \ {q} : push'[p][r] = push[p][r]
      /\ q # p => Joined(q) /\ push[p][q] = <<>>
                  /\ push'[p][q] = Append(<<>>, Item("count", WillGet(myNo[p])))
                  /\ push'[p][q] # <<>>
  <2>1. q \in Peers /\ (q = p <=> gIdx[p] = myNo[p])
    <3>1. gIdx[p] + 1 \in 1 .. MaxPeer /\ myNo[p] \in Int
      BY <1>2, <1>4
    <3>2. q \in Peers /\ (q = p <=> gIdx[p] + 1 = myNo[p] + 1)
      BY <1>2, <3>1
    <3>3. QED
      BY <1>4, <3>1, <3>2
  <2>2. CASE GSkipSelf(p)
    BY <2>1, <2>2 DEF GSkipSelf
  <2>3. CASE OwnConnect(p)
    <3>1. q # p /\ Running(q)
          /\ push' = [push EXCEPT ![p][q] = Append(@, Item("count", WillGet(myNo[p])))]
      BY <1>2, <2>1, <2>3 DEF OwnConnect, GConnect
    <3>2. push[p][q] = <<>>
      <4>1. gIdx[p] + 1 \in 1 .. Len(recvSock) /\ ~(gIdx[p] + 1 <= gIdx[p])
        BY <1>2, <1>4
      <4>2. QED
        BY <1>2, <3>1, <4>1 DEF ConnectInv
    <3>3. QED
      BY <1>3, <2>1, <3>1, <3>2 DEF Running, Joined
  <2>4. QED
    BY <2>2, <2>3
<1>10. ConnectInv(p)'
  <2>1. gIdx'[p] <= MaxPeer
    BY <1>2, <1>3, <1>4
  <2>2. \A r \in Peers : push'[p][r] # <<>> => r # p
    BY <1>2, <1>9 DEF ConnectInv
  <2>3. ASSUME NEW j \in 1 .. Len(recvSock), recvSock[j] # p
        PROVE  /\ push'[p][recvSock[j]] # <<>> <=> j <= gIdx'[p]
               /\ j <= gIdx'[p] => Joined(recvSock[j])'
    <3>1. recvSock[j] \in Peers /\ (Joined(recvSock[j])' <=> Joined(recvSock[j]))
      BY <1>1, <1>2 DEF Joined
    <3>2. /\ push[p][recvSock[j]] # <<>> <=> j <= gIdx[p]
          /\ j <= gIdx[p] => Joined(recvSock[j])
      BY <1>2, <2>3 DEF ConnectInv
    <3>3. CASE j = gIdx[p] + 1
      <4>1. recvSock[j] = q
        BY <3>3
      <4>2. QED
        BY <1>4, <1>9, <2>3, <3>1, <3>3, <4>1
    <3>4. CASE j # gIdx[p] + 1
      <4>1. gIdx[p] + 1 \in 1 .. Len(recvSock)
        BY <1>2, <1>4
      <4>2. recvSock[j] # q
        BY <3>4, <4>1 DEF SenderInv, GreetInv
      <4>3. push'[p][recvSock[j]] = push[p][recvSock[j]]
        BY <1>9, <3>1, <4>2
      <4>4. j <= gIdx'[p] <=> j <= gIdx[p]
        BY <1>4, <3>4
      <4>5. QED
        BY <3>1, <3>2, <4>3, <4>4
    <3>5. QED
      BY <3>3, <3>4
  <2>4. QED
    BY <1>1, <1>5, <2>1, <2>2, <2>3 DEF ConnectInv
<1>11. RelayInv(p)'
  <2>1. Got(p)' = Got(p) /\ Others(p)' = Others(p) /\ WillGet(myNo[p])' = WillGet(myNo[p])
    BY <1>1 DEF Got, Others, WillGet
  <2>2. ASSUME NEW r \in Peers, push'[p][r] # <<>>
        PROVE  /\ push'[p][r][1] = Item("count", WillGet(myNo[p]))
               /\ \A j \in 2 .. Len(push'[p][r]) : push'[p][r][j].kind # "count"
    <3>1. CASE push'[p][r] = push[p][r]
      BY <1>2, <2>2, <3>1 DEF RelayInv
    <3>2. CASE push'[p][r] = Append(<<>>, Item("count", WillGet(myNo[p])))
      <4>1. Len(push'[p][r]) = 1 /\ push'[p][r][1] = Item("count", WillGet(myNo[p]))
        BY <3>2
      <4>2. QED
        BY <4>1
    <3>3. QED
      BY <1>9, <3>1, <3>2
  <2>3. QED
    BY <1>1, <1>2, <1>5, <2>1, <2>2 DEF RelayInv
<1>12. SaveInv(p)'
  BY <1>1, <1>2 DEF SaveInv, Others, Running
<1>13. QED
  BY <1>6, <1>7, <1>10, <1>11, <1>12 DEF LocalInv

(* The item a read() of get_file_from_sender finds is the one it expects,  *)
(* and belongs to the frame of the segment that is being received.         *)
LEMMA NextItem ==
    ASSUME SenderInv, ReceiverInv, NEW p \in Peers, Running(p),
           gPc[p] \in {"n", "size", "data"}, Len(down[p]) > gPos[p]
    PROVE  /\ gPos[p] \in Nat /\ gGot[p] \in Nat
           /\ gPos[p] + 1 <= Len(down[p]) /\ Len(down[p]) \in Nat
           /\ down[p][gPos[p] + 1].kind = gPc[p]
           /\ down[p][gPos[p] + 1].val = down[p][3 * gGot[p] + 3].val
           /\ down[p][gPos[p] + 1].val \in Segs
<1> DEFINE k == CASE gPc[p] = "n" -> 0 [] gPc[p] = "size" -> 1 [] gPc[p] = "data" -> 2
<1>1. gPos[p] \in Nat /\ gGot[p] \in Nat /\ Len(down[p]) \in Nat
  BY DEF ReceiverInv, ReceiverTypeOK, SenderInv, SenderTypeOK
<1>2. k \in 0 .. 2 /\ Frame[k + 1] = gPc[p]
  BY DEF Frame
<1>3. gPos[p] + 1 = 3 * gGot[p] + 3 + k
  BY <1>1, RunningFacts, SMTT(30) DEF GetInv
<1> DEFINE j == gPos[p] + 1
<1>4. j \in Nat /\ j <= Len(down[p]) /\ j = 3 * gGot[p] + 3 + k
  BY <1>1, <1>3
<1> HIDE DEF k, j
<1>5. k \in Nat /\ j >= 3 /\ j - 3 = 3 * gGot[p] + k /\ j - k = 3 * gGot[p] + 3
  BY <1>1, <1>2, <1>4
<1>6. (j - 3) % 3 = k
  BY <1>1, <1>2, <1>5, ModOfSum
<1>7. j \in 1 .. Len(down[p])
  BY <1>1, <1>4, <1>5
<1>8. /\ down[p][j].kind = Frame[((j - 3) % 3) + 1]
      /\ down[p][j].val = down[p][j - ((j - 3) % 3)].val
      /\ down[p][j].val \in Segs
  BY <1>5, <1>7, LogItems
<1>9. down[p][j].kind = gPc[p] /\ down[p][j].val = down[p][3 * gGot[p] + 3].val
  BY <1>2, <1>5, <1>6, <1>8
<1>10. QED
  BY <1>1, <1>4, <1>8, <1>9 DEF j

(* The reads of n_th and of file_size.                                     *)
LEMMA ReadHeadInv ==
    ASSUME SenderInv, ReceiverInv, NEW p \in Peers, GReadN(p) \/ GReadSize(p)
    PROVE  LocalInv(p)'
<1>1. /\ Running(p) /\ gPc[p] \in {"n", "size"} /\ Len(down[p]) > gPos[p]
      /\ UNCHANGED <<down, recvSock, gone, rPc, myNo, ri, fi, gIdx, gGot, push, pushPc>>
      /\ UNCHANGED <<rtPc, rtLeft, rtN, rtPos>>
  BY DEF GReadN, GReadSize, GRead, senderVars, mainVars, readVars
<1>2. /\ gPos[p] \in Nat /\ gGot[p] \in Nat /\ gPos[p] + 1 <= Len(down[p])
      /\ down[p][gPos[p] + 1].kind = gPc[p]
      /\ down[p][gPos[p] + 1].val = down[p][3 * gGot[p] + 3].val
  BY <1>1, NextItem
<1>3. /\ Joined(p) /\ StageInv(p) /\ ConnectInv(p) /\ GetInv(p) /\ RelayInv(p) /\ SaveInv(p)
      /\ Len(recvSock) = MaxPeer
      /\ \A j \in 1 .. MaxPeer : recvSock[j] \in Peers
  BY <1>1, RunningFacts
<1>4. /\ gPc \in [Peers -> {"connect", "n", "size", "data", "join", "done", "garbled", "lost", "spin"}]
      /\ gPos \in [Peers -> Nat] /\ gN \in [Peers -> Segs \cup {NoSlot}]
  BY DEF ReceiverInv, ReceiverTypeOK
<1>5. /\ gPos'[p] = gPos[p] + 1
      /\ gPc'[p] = IF gPc[p] = "n" THEN "size" ELSE "data"
      /\ gN'[p] = IF gPc[p] = "n" THEN down[p][gPos[p] + 1].val ELSE gN[p]
  <2>1. CASE GReadN(p)
    BY <1>2, <1>4, <2>1 DEF GReadN, GRead
  <2>2. CASE GReadSize(p)
    BY <1>2, <1>4, <2>2 DEF GReadSize, GRead
  <2>3. QED
    BY <2>1, <2>2
<1>6. StageInv(p)' /\ Joined(p)'
  BY <1>1, <1>3, ThreadKeepsStage
<1>7. ConnectInv(p)'
  BY <1>1, <1>3, <1>5 DEF ConnectInv, Joined
<1>8. GetInv(p)'
  BY <1>1, <1>2, <1>3, <1>5 DEF GetInv, WillGet
<1>9. RelayInv(p)'
  <2>1. Got(p)' = Got(p) /\ Others(p)' = Others(p) /\ WillGet(myNo[p])' = WillGet(myNo[p])
    BY <1>1 DEF Got, Others, WillGet
  <2>2. QED
    BY <1>1, <1>3, <1>5, <2>1 DEF RelayInv
<1>10. SaveInv(p)'
  BY <1>1, <1>3 DEF SaveInv, Running
<1>11. QED
  BY <1>6, <1>7, <1>8, <1>9, <1>10 DEF LocalInv

(* Counting one more segment is getting the one whose frame is next.       *)
LEMMA GotOneMore ==
    ASSUME NEW p \in Peers, gGot[p] \in Nat, gGot'[p] = gGot[p] + 1, down' = down,
           gN[p] = down[p][3 * gGot[p] + 3].val
    PROVE  Got(p)' = Got(p) \cup {gN[p]}
<1>1. \A j : j \in 0 .. gGot'[p] - 1 <=> j \in 0 .. gGot[p] - 1 \/ j = gGot[p]
  OBVIOUS
<1>2. Got(p)' = {down[p][3 * j + 3].val : j \in 0 .. gGot'[p] - 1}
  BY DEF Got
<1>3. QED
  BY <1>1, <1>2 DEF Got

(* The read of the contents of a segment, with which it counts as got.     *)
LEMMA ReadDataInv ==
    ASSUME SenderInv, ReceiverInv, NEW p \in Peers, GReadData(p)
    PROVE  LocalInv(p)'
<1>1. /\ Running(p) /\ gPc[p] = "data" /\ Len(down[p]) > gPos[p]
      /\ UNCHANGED <<down, recvSock, gone, rPc, myNo, ri, gIdx, gN, push>>
      /\ UNCHANGED <<rtPc, rtLeft, rtN, rtPos>>
  BY DEF GReadData, GRead, senderVars, mainVars, readVars
<1>2. /\ gPos[p] \in Nat /\ gGot[p] \in Nat /\ gPos[p] + 1 <= Len(down[p])
      /\ down[p][gPos[p] + 1].kind = "data"
      /\ down[p][3 * gGot[p] + 3].val \in Segs
  BY <1>1, NextItem
<1>3. /\ Joined(p) /\ StageInv(p) /\ ConnectInv(p) /\ GetInv(p) /\ RelayInv(p) /\ SaveInv(p)
      /\ Len(recvSock) = MaxPeer
      /\ \A j \in 1 .. MaxPeer : recvSock[j] \in Peers
  BY <1>1, RunningFacts
<1>4. /\ gPc \in [Peers -> {"connect", "n", "size", "data", "join", "done", "garbled", "lost", "spin"}]
      /\ gPos \in [Peers -> Nat] /\ gGot \in [Peers -> Nat]
      /\ pushPc \in [Peers -> [Peers -> [Segs -> {"none", "n", "size", "data", "done"}]]]
  BY DEF ReceiverInv, ReceiverTypeOK
<1>5. gPos'[p] = gPos[p] + 1 /\ gGot'[p] = gGot[p] + 1 /\ gPc'[p] = GetOrJoin(p, gGot[p] + 1)
  BY <1>2, <1>4 DEF GReadData, GRead
<1>6. /\ gPc'[p] \in {"n", "join"}
      /\ gPc'[p] = "n" => gGot'[p] < WillGet(myNo[p])
      /\ gPc'[p] = "join" => ~(gGot'[p] < WillGet(myNo[p]))
  BY <1>5 DEF GetOrJoin
<1>7. StageInv(p)' /\ Joined(p)'
  BY <1>1, <1>3, ThreadKeepsStage
<1>8. ConnectInv(p)'
  BY <1>1, <1>3, <1>6 DEF ConnectInv, Joined
<1>9. /\ gPos[p] = 3 * gGot[p] + 4 /\ gN[p] = down[p][3 * gGot[p] + 3].val
      /\ gGot[p] < WillGet(myNo[p])
  BY <1>1, <1>3 DEF GetInv
<1>10. GetInv(p)'
  <2>1. WillGet(myNo[p]) \in Nat /\ WillGet(myNo[p])' = WillGet(myNo[p])
    BY <1>1, WillGetType DEF WillGet
  <2>2. gPos'[p] = 3 * gGot'[p] + 2 /\ gPos'[p] <= Len(down'[p])
    BY <1>1, <1>2, <1>5, <1>9
  <2>3. gPc'[p] = "join" => gGot'[p] = WillGet(myNo[p])
    BY <1>2, <1>5, <1>6, <1>9, <2>1
  <2>4. QED
    BY <1>1, <1>6, <2>1, <2>2, <2>3 DEF GetInv
<1>11. RelayInv(p)'
  <2>1. Got(p)' = Got(p) \cup {gN[p]}
    BY <1>1, <1>2, <1>5, <1>9, GotOneMore
  <2>2. ASSUME NEW q \in Peers, NEW s \in Segs
        PROVE  pushPc'[p][q][s] # "none" <=> s \in Got(p)' /\ q \in Others(p)
    <3>1. pushPc'[p][q][s] = IF q \in Others(p) /\ s = gN[p] THEN "n" ELSE pushPc[p][q][s]
      BY <1>4 DEF GReadData
    <3>2. pushPc[p][q][s] # "none" <=> s \in Got(p) /\ q \in Others(p)
      BY <1>3 DEF RelayInv
    <3>3. QED
      BY <2>1, <3>1, <3>2
  <2>3. Others(p)' = Others(p) /\ WillGet(myNo[p])' = WillGet(myNo[p])
    BY <1>1 DEF Others, WillGet
  <2>4. QED
    BY <1>1, <1>3, <1>6, <2>2, <2>3 DEF RelayInv
<1>12. SaveInv(p)'
  BY <1>1, <1>3 DEF SaveInv, Others, Running
<1>13. QED
  BY <1>7, <1>8, <1>10, <1>11, <1>12 DEF LocalInv

LEMMA JoinInv ==
    ASSUME SenderInv, ReceiverInv, NEW p \in Peers, GJoin(p)
    PROVE  LocalInv(p)'
<1>1. /\ Running(p) /\ gPc[p] = "join"
      /\ UNCHANGED <<down, recvSock, gone, rPc, myNo, ri, fi, gIdx, gGot, gN, gPos, push, pushPc>>
      /\ UNCHANGED <<rtPc, rtLeft, rtN, rtPos>>
      /\ \A q \in Peers, s \in Segs : pushPc[p][q][s] \in {"none", "done"}
  BY DEF GJoin, senderVars, mainVars, readVars
<1>2. gPc'[p] = "done"
  BY DEF GJoin, ReceiverInv, ReceiverTypeOK
<1>3. /\ Joined(p) /\ StageInv(p) /\ ConnectInv(p) /\ GetInv(p) /\ RelayInv(p) /\ SaveInv(p)
      /\ Len(recvSock) = MaxPeer
      /\ \A j \in 1 .. MaxPeer : recvSock[j] \in Peers
  BY <1>1, RunningFacts
<1>4. StageInv(p)' /\ Joined(p)'
  BY <1>1, <1>3, ThreadKeepsStage
<1>5. ConnectInv(p)'
  BY <1>1, <1>2, <1>3 DEF ConnectInv, Joined
<1>6. GetInv(p)'
  BY <1>1, <1>2, <1>3 DEF GetInv, WillGet
<1>7. RelayInv(p)' /\ SaveInv(p)'
  BY <1>1, <1>2, <1>3 DEF RelayInv, SaveInv, Got, Others, WillGet, Running
<1>8. QED
  BY <1>4, <1>5, <1>6, <1>7 DEF LocalInv

(* The writes of send_file_to_recv.                                        *)
LEMMA PushInv ==
    ASSUME SenderInv, ReceiverInv, NEW p \in Peers, NEW q \in Peers, NEW s \in Segs,
           OrderlyPush(p, q, s)
    PROVE  LocalInv(p)'
<1>1. PICK kind \in {"n", "size", "data"}, then \in {"size", "data", "done"} :
           PushWrite(p, q, s, kind, then)
  BY DEF OrderlyPush, PushN, PushSize, PushData
<1>2. /\ Running(p) /\ pushPc[p][q][s] = kind
      /\ UNCHANGED <<down, recvSock, gone, rPc, myNo, ri, fi, gPc, gIdx, gGot, gN, gPos>>
      /\ UNCHANGED <<rtPc, rtLeft, rtN, rtPos>>
  BY <1>1 DEF PushWrite, senderVars, mainVars, getVars, readVars
<1>3. /\ Joined(p) /\ StageInv(p) /\ ConnectInv(p) /\ GetInv(p) /\ RelayInv(p) /\ SaveInv(p)
      /\ Len(recvSock) = MaxPeer /\ MaxPeer \in Nat \ {0} /\ Others(p) = Accepted \ {p}
      /\ \A j \in 1 .. MaxPeer : recvSock[j] \in Peers
  BY <1>2, RunningFacts
<1>4. /\ push \in [Peers -> [Peers -> Seq(PushItem)]] /\ gGot[p] \in Nat /\ gIdx[p] \in Nat
      /\ pushPc \in [Peers -> [Peers -> [Segs -> {"none", "n", "size", "data", "done"}]]]
      /\ gPc[p] \in {"connect", "n", "size", "data", "join", "done", "garbled", "lost", "spin"}
  BY DEF ReceiverInv, ReceiverTypeOK
<1>5. s \in Got(p) /\ q \in Others(p) /\ gPc[p] # "done"
  BY <1>2, <1>3 DEF RelayInv
<1>6. gGot[p] # 0 /\ gPc[p] # "connect"
  <2>1. gGot[p] = 0 => Got(p) = {}
    BY DEF Got
  <2>2. QED
    BY <1>3, <1>5, <2>1 DEF GetInv
<1>7. push[p][q] # <<>>
  <2>1. PICK j \in 1 .. Len(recvSock) : q = recvSock[j] /\ q # p
    BY <1>3, <1>5 DEF Accepted
  <2>2. j <= gIdx[p]
    BY <1>3, <1>4, <1>6, <2>1, SMTT(30) DEF ConnectInv
  <2>3. QED
    BY <1>3, <2>1, <2>2 DEF ConnectInv
<1>8. /\ push'[p][q] = Append(push[p][q], Item(kind, s))
      /\ \A r \in Peers \ {q} : push'[p][r] = push[p][r]
      /\ push[p][q] \in Seq(PushItem)
  BY <1>1, <1>4 DEF PushWrite
<1>9. /\ push'[p][q] # <<>> /\ push'[p][q][1] = push[p][q][1]
      /\ \A j \in 2 .. Len(push'[p][q]) :
           push'[p][q][j] = Item(kind, s) \/ (j \in 2 .. Len(push[p][q]) /\ push'[p][q][j] = push[p][q][j])
  BY <1>7, <1>8
<1>10. StageInv(p)' /\ Joined(p)'
  BY <1>2, <1>3, ThreadKeepsStage
<1>11. ConnectInv(p)'
  <2>1. \A r \in Peers : push'[p][r] # <<>> <=> push[p][r] # <<>>
    BY <1>7, <1>8, <1>9
  <2>2. QED
    BY <1>2, <1>3, <2>1 DEF ConnectInv, Joined
<1>12. GetInv(p)'
  BY <1>2, <1>3 DEF GetInv, WillGet
<1>13. RelayInv(p)'
  <2>1. Got(p)' = Got(p) /\ Others(p)' = Others(p) /\ WillGet(myNo[p])' = WillGet(myNo[p])
    BY <1>2 DEF Got, Others, WillGet
  <2>2. \A r \in Peers, t \in Segs :
           /\ pushPc'[p][r][t] # "none" <=> pushPc[p][r][t] # "none"
    BY <1>1, <1>4 DEF PushWrite
  <2>3. ASSUME NEW r \in Peers, push'[p][r] # <<>>
        PROVE  /\ push'[p][r][1] = Item("count", WillGet(myNo[p]))
               /\ \A j \in 2 .. Len(push'[p][r]) : push'[p][r][j].kind # "count"
    <3>1. CASE r = q
      BY <1>3, <1>7, <1>9, <3>1 DEF RelayInv, Item
    <3>2. CASE r # q
      BY <1>3, <1>8, <2>3, <3>2 DEF RelayInv
    <3>3. QED
      BY <3>1, <3>2
  <2>4. QED
    BY <1>2, <1>3, <1>5, <2>1, <2>2, <2>3 DEF RelayInv
<1>14. SaveInv(p)'
  BY <1>2, <1>3 DEF SaveInv, Others, Running
<1>15. QED
  BY <1>10, <1>11, <1>12, <1>13, <1>14 DEF LocalInv

(* The reads of recv_file_from_recv.                                       *)
LEMMA ReadInv ==
    ASSUME SenderInv, ReceiverInv, NEW p \in Peers, NEW q \in Peers, OrderlyRead(p, q)
    PROVE  LocalInv(p)'
<1>1. /\ Running(p)
      /\ UNCHANGED <<down, recvSock, gone, rPc, myNo, ri, gPc, gIdx, gGot, gN, gPos, push, pushPc>>
  BY DEF OrderlyRead, RTAccept, Reads, RTReadN, RTReadSize, RTReadData, RTRead, Reads,
         senderVars, mainVars, getVars
<1>2. /\ Joined(p) /\ StageInv(p) /\ ConnectInv(p) /\ GetInv(p) /\ RelayInv(p) /\ SaveInv(p)
      /\ Len(recvSock) = MaxPeer
      /\ \A j \in 1 .. MaxPeer : recvSock[j] \in Peers
  BY <1>1, RunningFacts
<1>3. /\ rtPc \in [Peers -> [Peers -> {"accept", "n", "size", "data", "done", "garbled", "spin"}]]
      /\ rtPos \in [Peers -> [Peers -> Nat]]
  BY DEF ReceiverInv, ReceiverTypeOK
<1>4. StageInv(p)' /\ Joined(p)'
  BY <1>1, <1>2, ThreadKeepsStage
<1>5. ConnectInv(p)'
  BY <1>1, <1>2 DEF ConnectInv, Joined
<1>6. GetInv(p)'
  BY <1>1, <1>2 DEF GetInv, WillGet
<1>7. RelayInv(p)'
  <2>1. Got(p)' = Got(p) /\ Others(p)' = Others(p) /\ WillGet(myNo[p])' = WillGet(myNo[p])
    BY <1>1 DEF Got, Others, WillGet
  <2>2. QED
    BY <1>1, <1>2, <2>1 DEF RelayInv
<1>8. \A r \in Peers : rtPc'[p][r] # "accept" => rtPos'[p][r] >= 1
  <2>1. \A r \in Peers : rtPc[p][r] # "accept" => rtPos[p][r] >= 1
    BY <1>2 DEF SaveInv
  <2>2. CASE RTAccept(p, q)
    BY <1>3, <2>1, <2>2 DEF RTAccept
  <2>3. CASE RTReadN(p, q) \/ RTReadSize(p, q) \/ RTReadData(p, q)
    <3>1. rtPc[p][q] # "accept" /\ rtPos' = [rtPos EXCEPT ![p][q] = @ + 1]
      BY <2>3 DEF RTReadN, RTReadSize, RTReadData, RTRead, Reads
    <3>2. \A r \in Peers \ {q} : rtPc'[p][r] = rtPc[p][r]
      BY <1>3, <2>3 DEF RTReadN, RTReadSize, RTReadData, RTRead, Reads
    <3>3. QED
      BY <1>3, <2>1, <3>1, <3>2
  <2>4. QED
    BY <2>2, <2>3 DEF OrderlyRead
<1>9. SaveInv(p)'
  BY <1>1, <1>8 DEF SaveInv, Running
<1>10. QED
  BY <1>4, <1>5, <1>6, <1>7, <1>9 DEF LocalInv

LEMMA ReceiverNextInv ==
    ASSUME SenderInv, SenderInv', ReceiverInv, ReceiverTypeOK', [OrderlyNext]_vars
    PROVE  ReceiverInv'
<1>1. LogsGrow
  BY OrderlyRefines, SenderLogsGrow
<1>2. \A q \in Peers : Joined(q) => Joined(q)'
  BY JoinedStays DEF ReceiverInv
<1>3. ReceiverTypeOK /\ \A p \in Peers : LocalInv(p)
  BY DEF ReceiverInv, LocalInv
<1>4. ASSUME \A p \in Peers : LocalInv(p)'
      PROVE  ReceiverInv'
  BY <1>4 DEF ReceiverInv, LocalInv
(* A step of receiver x: the others keep what they have.                   *)
<1>5. ASSUME NEW x \in Peers, LocalInv(x)',
             \/ OrderlyMain(x)
             \/ OrderlyGet(x)
             \/ \E q \in Peers, s \in Segs : OrderlyPush(x, q, s)
             \/ \E q \in Peers : OrderlyRead(x, q)
      PROVE  ReceiverInv'
  <2>1. ASSUME NEW p \in Peers
        PROVE  LocalInv(p)'
    <3>1. CASE p = x
      BY <1>5, <3>1
    <3>2. CASE p # x
      <4>1. Own(p)' = Own(p) /\ (p \in gone' => p \in gone)
        BY <1>3, <1>5, <3>2, OthersStay
      <4>2. QED
        BY <1>1, <1>2, <1>3, <4>1, OthersKeep
    <3>3. QED
      BY <3>1, <3>2
  <2>2. QED
    BY <1>4, <2>1
<1>6. ASSUME NEW p \in Peers, OrderlyMain(p)
      PROVE  ReceiverInv'
  BY <1>5, <1>6, MainStepInv
<1>7. ASSUME NEW p \in Peers, OrderlyGet(p)
      PROVE  ReceiverInv'
  <2>1. LocalInv(p)'
    BY <1>7, NextPeerInv, ReadHeadInv, ReadDataInv, JoinInv DEF OrderlyGet
  <2>2. QED
    BY <1>5, <1>7, <2>1
<1>8. ASSUME NEW p \in Peers, NEW q \in Peers, NEW s \in Segs, OrderlyPush(p, q, s)
      PROVE  ReceiverInv'
  BY <1>5, <1>8, PushInv
<1>9. ASSUME NEW p \in Peers, NEW q \in Peers, OrderlyRead(q, p)
      PROVE  ReceiverInv'
  BY <1>5, <1>9, ReadInv
<1>10. CASE OrderlySender \/ Terminated \/ ShortOfPeers \/ UNCHANGED vars
  <2>1. UNCHANGED receiverVars /\ gone' = gone
    <3>1. CASE SenderMain
      BY <1>10, <3>1 DEF OrderlySender, SenderStep, Terminated, ShortOfPeers, vars, senderVars, SenderMain,
         SListen, SAccept, SReadPort, SBrokenPipe, SSendInfo, SSpawn, SSpawned, SJoin, linkVars
    <3>2. CASE \E s \in Segs : SenderThread(s)
      BY <1>10, <3>2 DEF OrderlySender, SenderStep, Terminated, ShortOfPeers, vars, senderVars, SenderThread,
         TLock, TWriteN, TWriteSize, TWriteData, TWrite, TUnlock, TBrokenPipe, linkVars
    <3>3. CASE ~OrderlySender
      BY <1>10, <3>3 DEF Terminated, ShortOfPeers, vars, senderVars
    <3>4. QED
      BY <3>1, <3>2, <3>3 DEF OrderlySender, SenderStep
  <2>2. \A p \in Peers : Own(p)' = Own(p)
    BY <2>1 DEF Own, receiverVars, mainVars, getVars, readVars
  <2>3. \A p \in Peers : LocalInv(p)'
    BY <1>1, <1>2, <1>3, <2>1, <2>2, OthersKeep
  <2>4. QED
    BY <1>4, <2>3
<1>11. QED
  BY <1>6, <1>7, <1>8, <1>9, <1>10 DEF OrderlyNext

-----------------------------------------------------------------------------
(* How many segments a receiver gets.                                      *)

(* The segments of receiver number n: those the round robin gives it.      *)
Share(n) == {s \in Segs : s % MaxPeer = n}

LEMMA Multiples ==
    ASSUME NEW m \in Nat \ {0}, NEW a \in Int, NEW b \in Int
    PROVE  /\ a < b => m * a + m <= m * b
           /\ m * a = m * b => a = b
<1>1. CASE a < b
  <2>1. PICK d \in Nat : b = a + 1 + d
    <3>1. b - a - 1 \in Nat
      BY <1>1
    <3>2. QED
      BY <3>1
  <2>2. m * b = m * a + m + m * d /\ m * d >= 0
    BY <2>1
  <2>3. QED
    BY <1>1, <2>2
<1>2. CASE a = b
  BY <1>2
<1>3. CASE b < a
  <2>1. PICK d \in Nat : a = b + 1 + d
    <3>1. a - b - 1 \in Nat
      BY <1>3
    <3>2. QED
      BY <3>1
  <2>2. m * a = m * b + m + m * d /\ m * d >= 0
    BY <2>1
  <2>3. QED
    BY <1>3, <2>2
<1>4. QED
  BY <1>1, <1>2, <1>3

(* will_get_f: the segments of receiver n are numbered n, n + recv_count,  *)
(* n + 2 * recv_count, ... below file_count, WillGet(n) of them.           *)
LEMMA WillGetBound ==
    ASSUME NEW n \in 0 .. MaxPeer - 1, NEW j \in Nat
    PROVE  MaxPeer * j + n < FileCount <=> j < WillGet(n)
<1> DEFINE Q == FileCount \div MaxPeer
           R == FileCount % MaxPeer
<1>1. MaxPeer \in Nat \ {0} /\ FileCount \in Nat
  BY SenderAssumption
<1>2. Q \in Nat /\ R \in 0 .. MaxPeer - 1 /\ FileCount = MaxPeer * Q + R
  BY <1>1, DivMod
<1>3. WillGet(n) = Q + (IF n + 1 <= R THEN 1 ELSE 0)
  BY DEF WillGet
<1> HIDE DEF Q, R
<1>4. CASE j < Q
  <2>1. MaxPeer * j + MaxPeer <= MaxPeer * Q
    BY <1>1, <1>2, <1>4, Multiples
  <2>2. MaxPeer * j + n < FileCount
    BY <1>1, <1>2, <2>1
  <2>3. QED
    BY <1>2, <1>3, <1>4, <2>2
<1>5. CASE j = Q
  BY <1>1, <1>2, <1>3, <1>5
<1>6. CASE Q < j
  <2>1. MaxPeer * Q + MaxPeer <= MaxPeer * j
    BY <1>1, <1>2, <1>6, Multiples
  <2>2. ~(MaxPeer * j + n < FileCount)
    BY <1>1, <1>2, <2>1
  <2>3. QED
    BY <1>2, <1>3, <1>6, <2>2
<1>7. QED
  BY <1>2, <1>4, <1>5, <1>6

(* will_get_f agrees with the round robin.                                 *)
LEMMA ShareSize ==
    ASSUME NEW n \in 0 .. MaxPeer - 1
    PROVE  IsFiniteSet(Share(n)) /\ Cardinality(Share(n)) = WillGet(n)
<1> DEFINE I == 0 .. WillGet(n) - 1
           f == [j \in I |-> MaxPeer * j + n]
<1>1. MaxPeer \in Nat \ {0} /\ FileCount \in Nat /\ WillGet(n) \in Nat
  BY SenderAssumption, WillGetType
<1>2. ASSUME NEW j \in I
      PROVE  f[j] \in Share(n)
  <2>1. j \in Nat /\ MaxPeer * j + n < FileCount /\ MaxPeer * j + n \in Nat
    BY <1>1, WillGetBound
  <2>2. (MaxPeer * j + n) % MaxPeer = n
    BY <1>1, <2>1, ModOfSum
  <2>3. QED
    BY <1>1, <2>1, <2>2 DEF Share, Segs
<1>3. \A i, j \in I : f[i] = f[j] => i = j
  BY <1>1, Multiples
<1>4. ASSUME NEW s \in Share(n)
      PROVE  \E j \in I : f[j] = s
  <2>1. s \in Nat /\ s < FileCount /\ s % MaxPeer = n
    BY <1>1 DEF Share, Segs
  <2>2. PICK j \in Nat : s = MaxPeer * j + n
    BY <1>1, <2>1, DivMod
  <2>3. j \in I
    BY <1>1, <2>1, <2>2, WillGetBound
  <2>4. QED
    BY <2>2, <2>3
<1>5. f \in Bijection(I, Share(n))
  <2>1. f \in [I -> Share(n)]
    BY <1>2
  <2>2. f \in Injection(I, Share(n))
    BY <1>3, <2>1 DEF Injection, IsInjective
  <2>3. f \in Surjection(I, Share(n))
    BY <1>4, <2>1 DEF Surjection
  <2>4. QED
    BY <2>2, <2>3 DEF Bijection
<1>6. IsFiniteSet(I) /\ Cardinality(I) = WillGet(n)
  <2>1. 0 \in Int /\ WillGet(n) - 1 \in Int
    BY <1>1
  <2>2. IsFiniteSet(I) /\ Cardinality(I) = IF 0 > WillGet(n) - 1 THEN 0 ELSE (WillGet(n) - 1) - 0 + 1
    BY <2>1, FS_Interval
  <2>3. QED
    BY <1>1, <2>2
<1>7. QED
  BY <1>5, <1>6, FS_Bijection DEF ExistsBijection

(* Items are equal when they are of the same kind and segment.             *)
LEMMA ItemParts == \A it \in DownItem : it = Item(it.kind, it.val)
<1>1. SUFFICES ASSUME NEW it \in DownItem
               PROVE  it = [kind |-> it.kind, val |-> it.val]
  BY DEF Item
<1>2. CASE it \in [kind : {"no"}, val : Slots]
  BY <1>2
<1>3. CASE it \in [kind : {"info"}, val : Seq(Peers)]
  BY <1>3
<1>4. CASE it \in [kind : {"n", "size", "data"}, val : Segs]
  BY <1>4
<1>5. QED
  BY <1>2, <1>3, <1>4 DEF DownItem

(* The first items of the frames on a connection: one each, and only of    *)
(* the segments that are the receiver's share.                             *)
LEMMA FrameHeads ==
    ASSUME SenderInv, NEW p \in Peers, StageInv(p), Informed(p),
           NEW i \in Nat, 3 * i + 3 <= Len(down[p])
    PROVE  /\ down[p][3 * i + 3].val \in Share(myNo[p])
           /\ \A j \in Nat : 3 * j + 3 <= Len(down[p])
                             /\ down[p][3 * j + 3].val = down[p][3 * i + 3].val => j = i
<1>1. down[p] \in Seq(DownItem) /\ Len(down[p]) \in Nat
  BY DEF SenderInv, SenderTypeOK
<1>2. Len(recvSock) = MaxPeer /\ MaxPeer \in Nat \ {0} /\ myNo[p] \in 0 .. MaxPeer - 1
      /\ \A j \in 1 .. MaxPeer : recvSock[j] = p <=> j = myNo[p] + 1
  BY Directory, SenderAssumption
<1>3. ASSUME NEW j \in Nat, 3 * j + 3 <= Len(down[p])
      PROVE  /\ 3 * j + 3 \in 3 .. Len(down[p])
             /\ down[p][3 * j + 3] = Item("n", down[p][3 * j + 3].val)
             /\ down[p][3 * j + 3].val \in Share(myNo[p])
  <2>1. 3 * j + 3 \in 3 .. Len(down[p]) /\ 3 * j + 3 - 3 = 3 * j + 0
    BY <1>1, <1>3
  <2>2. (3 * j + 3 - 3) % 3 = 0
    BY <2>1, ModOfSum
  <2>3. down[p][3 * j + 3].kind = "n"
    BY <2>1, <2>2, FrameAt DEF SenderInv, Frame
  <2>4. down[p][3 * j + 3] \in DownItem
    BY <1>1, <2>1
  <2>5. PICK s \in Segs : down[p][3 * j + 3].val = s /\ p = Peer(s % MaxPeer)
    BY <2>1, ItemAt DEF SenderInv
  <2>6. s % MaxPeer \in 0 .. MaxPeer - 1 /\ s % MaxPeer = myNo[p]
    <3>1. s \in Nat
      BY DEF Segs
    <3>2. s % MaxPeer \in 0 .. MaxPeer - 1
      BY <1>2, <3>1, DivMod
    <3>3. (s % MaxPeer) + 1 \in 1 .. MaxPeer
      BY <1>2, <3>2
    <3>4. QED
      BY <1>2, <2>5, <3>2, <3>3 DEF Peer
  <2>7. QED
    BY <2>1, <2>3, <2>4, <2>5, <2>6, ItemParts DEF Share
<1>4. ASSUME NEW j \in Nat, 3 * j + 3 <= Len(down[p]),
             down[p][3 * j + 3].val = down[p][3 * i + 3].val
      PROVE  j = i
  <2>1. down[p][3 * j + 3] = down[p][3 * i + 3]
    BY <1>3, <1>4
  <2>2. 3 * j + 3 = 3 * i + 3
    BY <1>3, <1>4, <2>1 DEF SenderInv, RoundRobin
  <2>3. QED
    BY <2>2
<1>5. QED
  BY <1>3, <1>4

(* What was got is part of the share, and as much as the counter says.     *)
LEMMA GotShare ==
    ASSUME SenderInv, ReceiverInv, NEW p \in Peers, Joined(p)
    PROVE  /\ Got(p) \subseteq Share(myNo[p])
           /\ IsFiniteSet(Got(p)) /\ Cardinality(Got(p)) = gGot[p]
           /\ IsFiniteSet(Share(myNo[p])) /\ Cardinality(Share(myNo[p])) = WillGet(myNo[p])
           /\ myNo[p] \in 0 .. MaxPeer - 1
           /\ \A j \in 0 .. gGot[p] - 1 : j \in Nat /\ 3 * j + 5 <= Len(down[p])
<1> DEFINE I == 0 .. gGot[p] - 1
           f == [j \in I |-> down[p][3 * j + 3].val]
<1>1. StageInv(p) /\ Informed(p) /\ GetInv(p)
  BY DEF ReceiverInv, Informed, Joined
<1>2. gGot[p] \in Nat /\ gPos[p] \in Nat /\ Len(down[p]) \in Nat
      /\ gPc[p] \in {"connect", "n", "size", "data", "join", "done", "garbled", "lost", "spin"}
  BY DEF ReceiverInv, ReceiverTypeOK, SenderInv, SenderTypeOK
<1>3. 3 * gGot[p] + 2 <= Len(down[p])
  BY <1>1, <1>2 DEF GetInv
<1>4. \A j \in I : j \in Nat /\ 3 * j + 5 <= Len(down[p]) /\ 3 * j + 3 <= Len(down[p])
  BY <1>2, <1>3
<1>5. \A j \in I : f[j] \in Share(myNo[p])
  BY <1>1, <1>4, FrameHeads
<1>6. \A i, j \in I : f[i] = f[j] => i = j
  BY <1>1, <1>4, FrameHeads
<1>7. f \in Bijection(I, Got(p))
  <2>1. f \in [I -> Got(p)] /\ \A s \in Got(p) : \E j \in I : f[j] = s
    BY DEF Got
  <2>2. f \in Injection(I, Got(p))
    BY <1>6, <2>1 DEF Injection, IsInjective
  <2>3. f \in Surjection(I, Got(p))
    BY <2>1 DEF Surjection
  <2>4. QED
    BY <2>2, <2>3 DEF Bijection
<1>8. IsFiniteSet(I) /\ Cardinality(I) = gGot[p]
  <2>1. 0 \in Int /\ gGot[p] - 1 \in Int
    BY <1>2
  <2>2. IsFiniteSet(I) /\ Cardinality(I) = IF 0 > gGot[p] - 1 THEN 0 ELSE (gGot[p] - 1) - 0 + 1
    BY <2>1, FS_Interval
  <2>3. QED
    BY <1>2, <2>2
<1>9. IsFiniteSet(Got(p)) /\ Cardinality(Got(p)) = gGot[p]
  BY <1>7, <1>8, FS_Bijection DEF ExistsBijection
<1>10. Got(p) \subseteq Share(myNo[p])
  BY <1>5 DEF Got
<1>11. myNo[p] \in 0 .. MaxPeer - 1
  BY <1>1, Directory
<1>12. QED
  BY <1>4, <1>9, <1>10, <1>11, ShareSize

(* When get_file_from_sender has read what will_get_f told it to expect,   *)
(* it has its whole share, the sender has written all of it, and nothing   *)
(* is left on the connection.                                              *)
LEMMA AllRead ==
    ASSUME SenderInv, ReceiverInv, NEW p \in Peers, gPc[p] \in {"join", "done"}
    PROVE  /\ Joined(p)
           /\ Got(p) = Share(myNo[p])
           /\ \A s \in Share(myNo[p]) : Written(s) = 3
           /\ gPos[p] = Len(down[p])
<1>1. Joined(p)
  BY DEF ReceiverInv, StageInv, Idle
<1>2. StageInv(p) /\ Informed(p) /\ GetInv(p)
  BY <1>1 DEF ReceiverInv, Informed, Joined
<1>3. gGot[p] \in Nat /\ gPos[p] \in Nat /\ Len(down[p]) \in Nat
  BY DEF ReceiverInv, ReceiverTypeOK, SenderInv, SenderTypeOK
<1>4. gGot[p] = WillGet(myNo[p]) /\ gPos[p] = 3 * gGot[p] + 2 /\ gPos[p] <= Len(down[p])
  BY <1>2 DEF GetInv
<1>5. Got(p) = Share(myNo[p])
  BY <1>1, <1>4, GotShare, FS_Subset
<1>6. ASSUME NEW s \in Share(myNo[p])
      PROVE  Written(s) = 3
  <2>1. PICK i \in 0 .. gGot[p] - 1 : s = down[p][3 * i + 3].val
    BY <1>5 DEF Got
  <2>2. i \in Nat /\ 3 * i + 5 <= Len(down[p])
    BY <1>1, <2>1, GotShare
  <2>3. 3 * i + 5 \in 3 .. Len(down[p]) /\ 3 * i + 5 - 3 = 3 * i + 2
    BY <1>3, <2>2
  <2>4. (3 * i + 5 - 3) % 3 = 2
    BY <2>2, <2>3, ModOfSum
  <2>5. 3 * i + 5 - 2 = 3 * i + 3
    BY <2>2
  <2>6. down[p][3 * i + 5].val = s
    BY <2>1, <2>3, <2>4, <2>5, FrameAt DEF SenderInv
  <2>7. Written(s) > 2
    BY <2>3, <2>4, <2>6, ItemAt DEF SenderInv
  <2>8. QED
    BY <2>7 DEF Written
<1>7. ~(Len(down[p]) > gPos[p])
  <2>1. SUFFICES ASSUME Len(down[p]) > gPos[p]
                 PROVE  FALSE
    OBVIOUS
  <2>2. 3 * gGot[p] + 3 <= Len(down[p])
    BY <1>3, <1>4, <2>1
  <2>3. down[p][3 * gGot[p] + 3].val \in Got(p)
    BY <1>2, <1>3, <1>5, <2>2, FrameHeads
  <2>4. PICK i \in 0 .. gGot[p] - 1 : down[p][3 * gGot[p] + 3].val = down[p][3 * i + 3].val
    BY <2>3 DEF Got
  <2>5. i \in Nat /\ 3 * i + 3 <= Len(down[p]) /\ i # gGot[p]
    BY <1>3, <2>2
  <2>6. QED
    BY <1>2, <1>3, <2>2, <2>4, <2>5, FrameHeads
<1>8. QED
  BY <1>1, <1>3, <1>4, <1>5, <1>6, <1>7

-----------------------------------------------------------------------------
(* How the sender ends.                                                    *)

(* Segment s is on the connection with p, or a part of it is.              *)
OnLog(p, s) == \E j \in 3 .. Len(down[p]) : down[p][j].val = s

(* The sender ends with all threads joined, or because a receiver could    *)
(* not bind its port; and what its threads have written was written to the *)
(* connection of the receiver whose share it is.                           *)
EndInv ==
    /\ sPc = "done" => \A s \in Segs : thr[s] = "done"
    /\ sPc = "killed" => SomeBindFailed
    /\ sPc # "dead"
    /\ \A s \in Segs : Written(s) >= 1 => OnLog(Peer(s % MaxPeer), s)

LEMMA AcceptedStays ==
    ASSUME SenderTypeOK, [SenderNext]_senderVars
    PROVE  Accepted \subseteq Accepted'
<1>1. CASE UNCHANGED recvSock
  BY <1>1 DEF Accepted
<1>2. ASSUME NEW p \in Peers, SAccept(p)
      PROVE  Accepted \subseteq Accepted'
  <2>1. recvSock \in Seq(Peers) /\ recvSock' = Append(recvSock, p)
    BY <1>2 DEF SAccept, SenderTypeOK
  <2>2. \A j \in 1 .. Len(recvSock) : j \in 1 .. Len(recvSock') /\ recvSock'[j] = recvSock[j]
    BY <2>1
  <2>3. QED
    BY <2>2 DEF Accepted
<1>3. ASSUME NEW s \in Segs, SenderThread(s)
      PROVE  UNCHANGED recvSock
  BY <1>3 DEF SenderThread, TLock, TWriteN, TWriteSize, TWriteData, TWrite, TUnlock, TBrokenPipe
<1>4. ASSUME NEW p \in Peers, PeerStep(p)
      PROVE  UNCHANGED recvSock
  BY <1>4 DEF PeerStep, Dial, SendPort, HangUp, sVars
<1>5. CASE SListen \/ SReadPort \/ SBrokenPipe \/ SSendInfo \/ SSpawn \/ SSpawned \/ SJoin \/ UNCHANGED senderVars
  BY <1>1, <1>5 DEF SListen, SReadPort, SBrokenPipe, SSendInfo, SSpawn, SSpawned, SJoin, senderVars
<1>6. QED
  BY <1>1, <1>2, <1>3, <1>4, <1>5 DEF SenderNext, SenderMain

(* A receiver that exits has ended.                                        *)
LEMMA BindFailedStays ==
    ASSUME SenderInv, ReceiverInv, [OrderlyNext]_vars, SomeBindFailed
    PROVE  SomeBindFailed'
<1>1. PICK q \in Accepted : rPc[q] = "exited"
  BY DEF SomeBindFailed
<1>2. q \in Accepted'
  BY <1>1, OrderlyRefines, AcceptedStays DEF SenderInv
<1>3. q \in Peers /\ rPc \in [Peers -> {"start", "hello", "info", "listen", "join", "saved", "exited", "killed", "crashed"}]
  BY <1>1 DEF Accepted, SenderInv, SenderTypeOK, ReceiverInv, ReceiverTypeOK
<1>4. rPc'[q] = "exited"
  <2>1. ASSUME NEW p \in Peers, OrderlyMain(p)
        PROVE  rPc'[q] = "exited"
    BY <1>1, <1>3, <2>1 DEF OrderlyMain, RConnect, RConnectFails, RHello, RReset, RInfo, RListen,
                            RBindFails, OrderlySave, RSave, SaveFile, Running
  <2>2. ASSUME NEW p \in Peers, OrderlyGet(p)
        PROVE  rPc' = rPc
    BY <2>2 DEF OrderlyGet, GSkipSelf, OwnConnect, GConnect, GReadN, GReadSize, GReadData, GJoin, mainVars
  <2>3. ASSUME NEW p \in Peers, NEW r \in Peers, NEW s \in Segs, OrderlyPush(p, r, s)
        PROVE  rPc' = rPc
    BY <2>3 DEF OrderlyPush, PushN, PushSize, PushData, PushWrite, mainVars
  <2>4. ASSUME NEW p \in Peers, NEW r \in Peers, OrderlyRead(r, p)
        PROVE  rPc' = rPc
    BY <2>4 DEF OrderlyRead, RTAccept, Reads, RTReadN, RTReadSize, RTReadData, mainVars
  <2>5. CASE OrderlySender \/ Terminated \/ ShortOfPeers \/ UNCHANGED vars
    BY <1>1, <2>5 DEF OrderlySender, SenderStep, Terminated, ShortOfPeers, vars, receiverVars, mainVars
  <2>6. QED
    BY <1>1, <2>1, <2>2, <2>3, <2>4, <2>5 DEF OrderlyNext
<1>5. QED
  BY <1>2, <1>4 DEF SomeBindFailed

(* The peer whose closed connection kills the sender had not saved: it     *)
(* would have read all that the thread is about to write.                  *)
LEMMA KilledByBind ==
    ASSUME SenderInv, ReceiverInv, NEW s \in Segs, TBrokenPipe(s)
    PROVE  SomeBindFailed
<1> DEFINE q == Peer(dest[s])
<1>1. thr[s] \in {"n", "size", "data"} /\ q \in gone /\ ThreadsRun
  BY DEF TBrokenPipe
<1>2. ~Joining /\ Len(recvSock) = MaxPeer /\ MaxPeer \in Nat \ {0} /\ s \in Nat
  BY <1>1, SenderAssumption DEF SenderInv, MainInv, ThreadsRun, Joining, Segs
<1>3. dest[s] = s % MaxPeer /\ s % MaxPeer \in 0 .. MaxPeer - 1
  BY <1>1, <1>2, DivMod DEF SenderInv, MainInv
<1>4. q \in Peers /\ q \in Accepted
  BY <1>2, <1>3, PeerAccepted DEF SenderInv, SenderTypeOK
<1>5. rPc[q] \in {"saved", "exited"} /\ StageInv(q)
  BY <1>1, <1>4 DEF ReceiverInv, StageInv
<1>6. rPc[q] # "saved"
  <2>1. SUFFICES ASSUME rPc[q] = "saved"
                 PROVE  FALSE
    OBVIOUS
  <2>2. Joined(q) /\ Informed(q) /\ gPc[q] = "done"
    BY <1>4, <2>1 DEF ReceiverInv, SaveInv, Joined, Informed
  <2>3. myNo[q] = s % MaxPeer
    <3>1. (s % MaxPeer) + 1 \in 1 .. MaxPeer /\ recvSock[(s % MaxPeer) + 1] = q
      BY <1>2, <1>3 DEF Peer
    <3>2. (s % MaxPeer) + 1 = myNo[q] + 1 /\ myNo[q] \in 0 .. MaxPeer - 1
      BY <1>4, <1>5, <2>2, <3>1, Directory
    <3>3. QED
      BY <1>2, <1>3, <3>2
  <2>4. s \in Share(myNo[q])
    BY <2>3 DEF Share
  <2>5. Written(s) = 3
    BY <1>4, <2>2, <2>4, AllRead
  <2>6. QED
    BY <1>1, <2>5 DEF Written
<1>7. QED
  BY <1>4, <1>5, <1>6 DEF SomeBindFailed

(* The threads' writes are the only steps that write parts of segments.    *)
LEMMA WrittenBy ==
    ASSUME SenderInv, [SenderNext]_senderVars, NEW s \in Segs, Written(s)' >= 1
    PROVE  \/ Written(s) >= 1 /\ recvSock' = recvSock
           \/ \E k \in {"n", "size", "data"}, then \in {"size", "data", "unlock"} :
                TWrite(s, k, then)
<1>1. thr \in [Segs -> {"none", "lock", "n", "size", "data", "unlock", "done"}]
  BY DEF SenderInv, SenderTypeOK
<1>2. CASE thr' = thr
  <2>1. Written(s)' = Written(s) /\ thr[s] # "none"
    BY <1>2 DEF Written
  <2>2. recvSock' = recvSock
    <3>1. ~Joining
      BY <2>1 DEF SenderInv, MainInv, Joining, Sending
    <3>2. ASSUME NEW r \in Segs, SenderThread(r)
          PROVE  recvSock' = recvSock
      BY <3>2 DEF SenderThread, TLock, TWriteN, TWriteSize, TWriteData, TWrite, TUnlock, TBrokenPipe
    <3>3. ASSUME NEW p \in Peers, PeerStep(p)
          PROVE  recvSock' = recvSock
      BY <3>3 DEF PeerStep, Dial, SendPort, HangUp, sVars
    <3>4. CASE SenderMain \/ UNCHANGED senderVars
      BY <3>1, <3>4 DEF SenderMain, SListen, SAccept, SReadPort, SBrokenPipe, SSendInfo, SSpawn, SSpawned, SJoin,
                        Joining, senderVars
    <3>5. QED
      BY <3>2, <3>3, <3>4 DEF SenderNext
  <2>3. QED
    BY <2>1, <2>2
<1>3. CASE SSpawn
  <2>1. recvSock' = recvSock /\ (thr'[s] = thr[s] \/ thr'[s] = "lock")
    BY <1>1, <1>3 DEF SSpawn
  <2>2. QED
    BY <2>1 DEF Written
<1>4. ASSUME NEW r \in Segs, TLock(r) \/ TUnlock(r)
      PROVE  Written(s) >= 1 /\ recvSock' = recvSock
  <2>1. recvSock' = recvSock /\ (thr'[s] = thr[s] \/ (thr[s] = "lock" /\ thr'[s] = "n")
                                  \/ (thr[s] = "unlock" /\ thr'[s] = "done"))
    BY <1>1, <1>4 DEF TLock, TUnlock
  <2>2. QED
    BY <2>1 DEF Written
<1>5. ASSUME NEW r \in Segs, NEW k \in {"n", "size", "data"}, NEW then \in {"size", "data", "unlock"},
             TWrite(r, k, then)
      PROVE  \/ Written(s) >= 1 /\ recvSock' = recvSock
             \/ r = s
  <2>1. recvSock' = recvSock /\ (r # s => thr'[s] = thr[s])
    BY <1>1, <1>5 DEF TWrite
  <2>2. QED
    BY <2>1 DEF Written
<1>6. ASSUME NEW r \in Segs, SenderThread(r), thr' # thr
      PROVE  \/ TLock(r) \/ TUnlock(r)
             \/ \E k \in {"n", "size", "data"}, then \in {"size", "data", "unlock"} :
                  TWrite(r, k, then)
  BY <1>6 DEF SenderThread, TWriteN, TWriteSize, TWriteData, TBrokenPipe
<1>7. ASSUME NEW p \in Peers, PeerStep(p)
      PROVE  thr' = thr
  BY <1>7 DEF PeerStep, Dial, SendPort, HangUp, sVars
<1>8. CASE (SenderMain /\ ~SSpawn) \/ UNCHANGED senderVars
  <2>1. thr' = thr
    BY <1>8 DEF SenderMain, SListen, SAccept, SReadPort, SBrokenPipe, SSendInfo, SSpawned, SJoin, senderVars
  <2>2. QED
    BY <1>2, <2>1
<1>9. QED
  BY <1>2, <1>3, <1>4, <1>5, <1>6, <1>7, <1>8 DEF SenderNext

LEMMA EndNextInv ==
    ASSUME SenderInv, SenderInv', ReceiverInv, EndInv, [OrderlyNext]_vars
    PROVE  EndInv'
<1>1. [SenderNext]_senderVars /\ LogsGrow
  BY OrderlyRefines, SenderLogsGrow
<1>2. thr \in [Segs -> {"none", "lock", "n", "size", "data", "unlock", "done"}]
  BY DEF SenderInv, SenderTypeOK
<1>3. ASSUME sPc' = "done"
      PROVE  \A s \in Segs : thr'[s] = "done"
  <2>1. CASE sPc = "done"
    <3>1. thr' = thr
      <4>1. ~SenderMain /\ ~\E s \in Segs : SenderThread(s)
        BY <1>3, <2>1 DEF SenderMain, SListen, SAccept, SReadPort, SBrokenPipe, SSendInfo, SSpawn, SSpawned, SJoin,
           SenderThread, TLock, TWriteN, TWriteSize, TWriteData, TWrite, TUnlock, TBrokenPipe,
           ThreadsRun
      <4>2. ASSUME NEW p \in Peers, PeerStep(p)
            PROVE  thr' = thr
        BY <4>2 DEF PeerStep, Dial, SendPort, HangUp, sVars
      <4>3. QED
        BY <1>1, <4>1, <4>2 DEF SenderNext, senderVars
    <3>2. QED
      BY <2>1, <3>1 DEF EndInv
  <2>2. CASE sPc # "done"
    <3>1. SJoin
      <4>1. ~\E s \in Segs : SenderThread(s)
        BY <1>3, <2>2 DEF SenderThread, TLock, TWriteN, TWriteSize, TWriteData, TWrite, TUnlock,
           TBrokenPipe, ThreadsRun
      <4>2. ~\E p \in Peers : PeerStep(p)
        BY <1>3, <2>2 DEF PeerStep, Dial, SendPort, HangUp, sVars
      <4>3. QED
        BY <1>1, <1>3, <2>2, <4>1, <4>2 DEF SenderNext, SenderMain, SListen, SAccept, SReadPort,
           SBrokenPipe, SSendInfo, SSpawn, SSpawned, senderVars
    <3>2. QED
      BY <3>1 DEF SJoin
  <2>3. QED
    BY <2>1, <2>2
<1>4. ASSUME sPc' = "killed"
      PROVE  SomeBindFailed'
  <2>1. CASE sPc = "killed"
    BY <2>1, BindFailedStays DEF EndInv
  <2>2. CASE sPc # "killed"
    <3>1. ~SenderMain
      BY <1>4, <2>2 DEF SenderMain, SListen, SAccept, SReadPort, SBrokenPipe, SSendInfo, SSpawn, SSpawned, SJoin
    <3>2. ~\E p \in Peers : PeerStep(p)
      BY <1>4, <2>2 DEF PeerStep, Dial, SendPort, HangUp, sVars
    <3>3. PICK s \in Segs : SenderThread(s)
      BY <1>1, <1>4, <2>2, <3>1, <3>2 DEF SenderNext, senderVars
    <3>4. TBrokenPipe(s)
      BY <1>4, <2>2, <3>3 DEF SenderThread, TLock, TWriteN, TWriteSize, TWriteData, TWrite, TUnlock
    <3>5. QED
      BY <3>4, KilledByBind, BindFailedStays
  <2>3. QED
    BY <2>1, <2>2
<1>5. ASSUME NEW s \in Segs, Written(s)' >= 1
      PROVE  OnLog(Peer(s % MaxPeer), s)'
  <2>1. s \in Nat /\ MaxPeer \in Nat \ {0}
    BY SenderAssumption DEF Segs
  <2>2. s % MaxPeer \in 0 .. MaxPeer - 1
    BY <2>1, DivMod
  <2>3. CASE Written(s) >= 1 /\ recvSock' = recvSock
    <3>1. PICK j \in 3 .. Len(down[Peer(s % MaxPeer)]) : down[Peer(s % MaxPeer)][j].val = s
      BY <2>3 DEF EndInv, OnLog
    <3>2. thr[s] # "none"
      BY <2>3 DEF Written
    <3>3. Len(recvSock) = MaxPeer
      BY <3>2 DEF SenderInv, MainInv, Joining, Sending
    <3>4. Peer(s % MaxPeer) \in Peers /\ Peer(s % MaxPeer)' = Peer(s % MaxPeer)
      BY <2>1, <2>2, <2>3, <3>3, PeerAccepted DEF SenderInv, SenderTypeOK, Peer
    <3>5. /\ Len(down[Peer(s % MaxPeer)]) \in Nat /\ Len(down'[Peer(s % MaxPeer)]) \in Nat
          /\ Len(down[Peer(s % MaxPeer)]) <= Len(down'[Peer(s % MaxPeer)])
          /\ down'[Peer(s % MaxPeer)][j] = down[Peer(s % MaxPeer)][j]
      BY <1>1, <3>1, <3>4 DEF LogsGrow, SenderInv, SenderTypeOK
    <3>6. j \in 3 .. Len(down'[Peer(s % MaxPeer)])
      BY <3>1, <3>5
    <3>7. QED
      BY <3>1, <3>4, <3>5, <3>6 DEF OnLog
  <2>4. ASSUME NEW k \in {"n", "size", "data"}, NEW then \in {"size", "data", "unlock"},
               TWrite(s, k, then)
        PROVE  OnLog(Peer(s % MaxPeer), s)'
    <3>1. thr[s] # "none" /\ ~Joining /\ Sending
      BY <2>4 DEF TWrite, ThreadsRun, Joining, Sending
    <3>2. Len(recvSock) = MaxPeer /\ dest[s] = s % MaxPeer
      BY <3>1 DEF SenderInv, MainInv
    <3> DEFINE q == Peer(s % MaxPeer)
    <3>3. q \in Peers /\ q \in Accepted /\ q' = q
      BY <2>1, <2>2, <2>4, <3>2, PeerAccepted DEF SenderInv, SenderTypeOK, Peer, TWrite
    <3>4. Len(down[q]) >= 2
      BY <3>1, <3>3 DEF SenderInv, GreetInv, Accepted
    <3>5. down' = [down EXCEPT ![q] = Append(@, Item(k, s))]
      BY <2>4, <3>2 DEF TWrite
    <3>6. /\ Len(down[q]) \in Nat /\ Len(down'[q]) = Len(down[q]) + 1
          /\ down'[q][Len(down[q]) + 1] = Item(k, s)
      BY <3>3, <3>5, LogGrows, ItemTypes DEF SenderInv, SenderTypeOK
    <3>7. Len(down[q]) + 1 \in 3 .. Len(down'[q]) /\ Item(k, s).val = s
      BY <3>4, <3>6 DEF Item
    <3>8. QED
      BY <3>3, <3>6, <3>7 DEF OnLog
  <2>5. QED
    BY <1>1, <1>5, <2>3, <2>4, WrittenBy
<1>6. sPc' # "dead"
  <2>1. CASE OrderlySender
    BY <2>1 DEF OrderlySender
  <2>2. CASE ~OrderlySender
    <3>1. sPc' = sPc
      <4>1. ASSUME NEW p \in Peers, OrderlyMain(p)
            PROVE  sPc' = sPc
        BY <4>1 DEF OrderlyMain, RConnect, RConnectFails, RHello, RReset, RInfo, RListen, RBindFails,
                    OrderlySave, RSave, SaveFile, Dial, SendPort, HangUp, sVars, senderVars
      <4>2. ASSUME NEW p \in Peers, OrderlyGet(p)
            PROVE  sPc' = sPc
        BY <4>2 DEF OrderlyGet, GSkipSelf, OwnConnect, GConnect, GReadN, GReadSize, GReadData, GJoin,
                    senderVars
      <4>3. ASSUME NEW p \in Peers, NEW r \in Peers, NEW s \in Segs, OrderlyPush(p, r, s)
            PROVE  sPc' = sPc
        BY <4>3 DEF OrderlyPush, PushN, PushSize, PushData, PushWrite, senderVars
      <4>4. ASSUME NEW p \in Peers, NEW r \in Peers, OrderlyRead(r, p)
            PROVE  sPc' = sPc
        BY <4>4 DEF OrderlyRead, RTAccept, RTReadN, RTReadSize, RTReadData, senderVars
      <4>5. CASE Terminated \/ ShortOfPeers \/ UNCHANGED vars
        BY <4>5 DEF Terminated, ShortOfPeers, vars, senderVars
      <4>6. QED
        BY <2>2, <4>1, <4>2, <4>3, <4>4, <4>5 DEF OrderlyNext
    <3>2. QED
      BY <3>1 DEF EndInv
  <2>3. QED
    BY <2>1, <2>2
<1>7. QED
  BY <1>3, <1>4, <1>5, <1>6 DEF EndInv

LEMMA EndInit == Init => EndInv
<1>1. SUFFICES ASSUME SInit
               PROVE  EndInv
  BY DEF Init
<1>2. sPc = "start" /\ \A s \in Segs : Written(s) = 0
  BY <1>1 DEF SInit, Written
<1>3. QED
  BY <1>2 DEF EndInv

(* Only a receiver that could not bind its port lets the sender die, and   *)
(* then all the others still wait to connect to that one: none is reading. *)
LEMMA DeadSenderIsUnread ==
    ASSUME SenderInv, ReceiverInv, EndInv, SenderEnded, sPc # "done", NEW p \in Peers
    PROVE  SomeBindFailed /\ gPc[p] = "connect"
<1>1. SomeBindFailed
  BY DEF EndInv, SenderEnded
<1>2. SUFFICES ASSUME gPc[p] # "connect"
               PROVE  FALSE
  BY <1>1
<1>3. PICK q \in Accepted : rPc[q] = "exited"
  BY <1>1 DEF SomeBindFailed
<1>4. Joined(p) /\ Informed(p) /\ StageInv(p) /\ ConnectInv(p)
  BY <1>2 DEF ReceiverInv, StageInv, Idle, Joined, Informed
<1>5. PICK j \in 1 .. Len(recvSock) : q = recvSock[j]
  BY DEF Accepted
<1>6. Len(recvSock) = MaxPeer /\ MaxPeer \in Nat
  BY <1>4, Directory, SenderAssumption
<1>7. gIdx[p] \in Nat /\ gIdx[p] >= MaxPeer
  BY <1>2, <1>4, <1>6 DEF ConnectInv, ReceiverInv, ReceiverTypeOK
<1>8. QED
  BY <1>3, <1>4, <1>5, <1>6, <1>7 DEF ConnectInv, Joined

-----------------------------------------------------------------------------
(* The connections between the receivers.                                  *)

(* How many items of segment s the send_file_to_recv thread has written.   *)
PushWritten(p, q, s) == CASE pushPc[p][q][s] = "size" -> 1
                          [] pushPc[p][q][s] = "data" -> 2
                          [] pushPc[p][q][s] = "done" -> 3
                          [] OTHER -> 0

(* The items written to the connection from p to q after the number of     *)
(* segments: as pairs of a segment and the position in its frame.          *)
Pushed(p, q) == {c \in Segs \X (1 .. 3) : c[2] <= PushWritten(p, q, c[1])}

PushCount(p, q) ==
    push[p][q] # <<>> => Len(push[p][q]) = 1 + Cardinality(Pushed(p, q))

(* The thread of q that reads from p has read whole frames, three items    *)
(* each, and the part of a frame that its next read() implies; whether the *)
(* items were of one segment is another matter.                            *)
ReadCount(q, p) ==
    /\ rtPos[q][p] <= Len(push[p][q])
    /\ rtPc[q][p] # "accept" => push[p][q] # <<>>
    /\ rtPc[q][p] \in {"n", "size", "data"} =>
         /\ 1 <= rtLeft[q][p] /\ rtLeft[q][p] <= WillGet(myNo[p])
         /\ rtPos[q][p] = 3 * (WillGet(myNo[p]) - rtLeft[q][p])
                          + (CASE rtPc[q][p] = "n" -> 1
                               [] rtPc[q][p] = "size" -> 2
                               [] rtPc[q][p] = "data" -> 3)

CountInv == \A p, q \in Peers : PushCount(p, q) /\ ReadCount(q, p)

LEMMA PushedFinite == \A p, q : IsFiniteSet(Pushed(p, q))
<1>1. IsFiniteSet(Segs) /\ IsFiniteSet(1 .. 3)
  <2>1. 0 \in Int /\ 1 \in Int /\ 3 \in Int /\ FileCount - 1 \in Int
    BY SenderAssumption
  <2>2. QED
    BY <2>1, FS_Interval DEF Segs
<1>2. IsFiniteSet(Segs \X (1 .. 3))
  BY <1>1, FS_Product
<1>3. \A p, q : Pushed(p, q) \in SUBSET (Segs \X (1 .. 3))
  BY DEF Pushed
<1>4. QED
  BY <1>2, <1>3, FS_Subset

(* my_no does not change once the threads run.                             *)
LEMMA NumberStays ==
    ASSUME SenderInv, SenderInv', ReceiverInv, ReceiverInv', [OrderlyNext]_vars, NEW p \in Peers, Joined(p)
    PROVE  Joined(p)' /\ myNo'[p] = myNo[p] /\ WillGet(myNo[p])' = WillGet(myNo[p])
<1>1. Joined(p)'
  BY JoinedStays DEF ReceiverInv
<1>2. StageInv(p) /\ StageInv(p)' /\ Greeted(p) /\ Greeted(p)'
  BY <1>1 DEF ReceiverInv, Joined, Greeted
<1>3. down[p] # <<>> /\ down[p] \in Seq(DownItem) /\ LogsGrow
  BY <1>2, OrderlyRefines, SenderLogsGrow DEF StageInv, SenderInv, SenderTypeOK
<1>4. down'[p][1] = down[p][1]
  BY <1>3 DEF LogsGrow
<1>5. myNo'[p] = myNo[p]
  BY <1>2, <1>4 DEF StageInv
<1>6. QED
  BY <1>1, <1>5 DEF WillGet

(* Who writes to the connections between receivers, and who reads them.    *)
LEMMA OthersWrite ==
    ASSUME NEW x \in Peers, NEW y \in Peers,
           \/ OrderlySender \/ OrderlyMain(x) \/ OrderlyRead(y, x)
           \/ Terminated \/ ShortOfPeers \/ UNCHANGED vars
    PROVE  UNCHANGED <<push, pushPc>>
<1>1. CASE OrderlyMain(x)
  BY <1>1 DEF OrderlyMain, RConnect, RConnectFails, RHello, RReset, RInfo, RListen, RBindFails, OrderlySave, RSave
<1>2. CASE OrderlyRead(y, x)
  BY <1>2 DEF OrderlyRead, RTAccept, Reads, RTReadN, RTReadSize, RTReadData
<1>3. CASE OrderlySender \/ Terminated \/ ShortOfPeers \/ UNCHANGED vars
  BY <1>3 DEF OrderlySender, SenderStep, Terminated, ShortOfPeers, vars, receiverVars
<1>4. QED
  BY <1>1, <1>2, <1>3

LEMMA OthersRead ==
    ASSUME NEW x \in Peers, NEW y \in Peers,
           \/ OrderlySender \/ OrderlyMain(x) \/ OrderlyGet(x)
           \/ \E s \in Segs : OrderlyPush(x, y, s)
           \/ Terminated \/ ShortOfPeers \/ UNCHANGED vars
    PROVE  UNCHANGED readVars
<1>1. CASE OrderlyMain(x)
  BY <1>1 DEF OrderlyMain, RConnect, RConnectFails, RHello, RReset, RInfo, RListen, RBindFails, OrderlySave, RSave
<1>2. CASE OrderlyGet(x)
  BY <1>2 DEF OrderlyGet, GSkipSelf, OwnConnect, GConnect, GReadN, GReadSize, GReadData, GJoin
<1>3. CASE \E s \in Segs : OrderlyPush(x, y, s)
  BY <1>3 DEF OrderlyPush, PushN, PushSize, PushData, PushWrite
<1>4. CASE OrderlySender \/ Terminated \/ ShortOfPeers \/ UNCHANGED vars
  BY <1>4 DEF OrderlySender, SenderStep, Terminated, ShortOfPeers, vars, receiverVars
<1>5. QED
  BY <1>1, <1>2, <1>3, <1>4

(* A thread's write() is the next item of its frame.                       *)
LEMMA FrameWrite ==
    ASSUME ReceiverTypeOK, NEW p \in Peers, NEW q \in Peers, NEW s \in Segs, OrderlyPush(p, q, s)
    PROVE  \E k \in 1 .. 3 :
             /\ PushWritten(p, q, s) = k - 1 /\ PushWritten(p, q, s)' = k
             /\ pushPc[p][q][s] # "none" /\ Running(p)
             /\ \A r \in Segs \ {s} : pushPc'[p][q][r] = pushPc[p][q][r]
             /\ push'[p][q] = Append(push[p][q], Item(Frame[k], s))
<1>1. /\ push \in [Peers -> [Peers -> Seq(PushItem)]]
      /\ pushPc \in [Peers -> [Peers -> [Segs -> {"none", "n", "size", "data", "done"}]]]
  BY DEF ReceiverTypeOK
<1>2. QED
  <2>1. CASE PushN(p, q, s)
    <3>1. PushWrite(p, q, s, "n", "size")
      BY <2>1 DEF PushN
    <3>2. pushPc[p][q][s] = "n" /\ pushPc'[p][q][s] = "size" /\ Running(p)
          /\ \A r \in Segs \ {s} : pushPc'[p][q][r] = pushPc[p][q][r]
      BY <1>1, <3>1 DEF PushWrite
    <3>3. push'[p][q] = Append(push[p][q], Item(Frame[1], s))
      BY <1>1, <3>1 DEF PushWrite, Frame
    <3>4. PushWritten(p, q, s) = 1 - 1 /\ PushWritten(p, q, s)' = 1 /\ 1 \in 1 .. 3
      BY <3>2 DEF PushWritten
    <3>5. QED
      BY <3>2, <3>3, <3>4
  <2>2. CASE PushSize(p, q, s)
    <3>1. PushWrite(p, q, s, "size", "data")
      BY <2>2 DEF PushSize
    <3>2. pushPc[p][q][s] = "size" /\ pushPc'[p][q][s] = "data" /\ Running(p)
          /\ \A r \in Segs \ {s} : pushPc'[p][q][r] = pushPc[p][q][r]
      BY <1>1, <3>1 DEF PushWrite
    <3>3. push'[p][q] = Append(push[p][q], Item(Frame[2], s))
      BY <1>1, <3>1 DEF PushWrite, Frame
    <3>4. PushWritten(p, q, s) = 2 - 1 /\ PushWritten(p, q, s)' = 2 /\ 2 \in 1 .. 3
      BY <3>2 DEF PushWritten
    <3>5. QED
      BY <3>2, <3>3, <3>4
  <2>3. CASE PushData(p, q, s)
    <3>1. PushWrite(p, q, s, "data", "done")
      BY <2>3 DEF PushData
    <3>2. pushPc[p][q][s] = "data" /\ pushPc'[p][q][s] = "done" /\ Running(p)
          /\ \A r \in Segs \ {s} : pushPc'[p][q][r] = pushPc[p][q][r]
      BY <1>1, <3>1 DEF PushWrite
    <3>3. push'[p][q] = Append(push[p][q], Item(Frame[3], s))
      BY <1>1, <3>1 DEF PushWrite, Frame
    <3>4. PushWritten(p, q, s) = 3 - 1 /\ PushWritten(p, q, s)' = 3 /\ 3 \in 1 .. 3
      BY <3>2 DEF PushWritten
    <3>5. QED
      BY <3>2, <3>3, <3>4
  <2>4. QED
    BY <2>1, <2>2, <2>3 DEF OrderlyPush

(* What any step does to the connection from p to q: nothing, or it opens  *)
(* it, or one thread that p has for q writes the next item of its frame.   *)
Untouched(p, q) ==
    /\ push'[p][q] = push[p][q]
    /\ \A s \in Segs : PushWritten(p, q, s)' = PushWritten(p, q, s)

Opened(p, q) ==
    /\ push[p][q] = <<>> /\ push'[p][q] = <<Item("count", WillGet(myNo[p]))>>
    /\ \A s \in Segs : PushWritten(p, q, s)' = 0

Continued(p, q, s, k) ==
    /\ push[p][q] # <<>> /\ push'[p][q] = Append(push[p][q], Item(Frame[k], s))
    /\ Joined(p) /\ s \in Got(p)
    /\ PushWritten(p, q, s) = k - 1 /\ PushWritten(p, q, s)' = k
    /\ \A r \in Segs \ {s} : PushWritten(p, q, r)' = PushWritten(p, q, r)

LEMMA PushOutcomes ==
    ASSUME SenderInv, ReceiverInv, [OrderlyNext]_vars, NEW p \in Peers, NEW q \in Peers
    PROVE  \/ Untouched(p, q)
           \/ Opened(p, q)
           \/ \E s \in Segs, k \in 1 .. 3 : Continued(p, q, s, k)
<1>1. /\ push \in [Peers -> [Peers -> Seq(PushItem)]]
      /\ pushPc \in [Peers -> [Peers -> [Segs -> {"none", "n", "size", "data", "done"}]]]
      /\ gPc[p] \in {"connect", "n", "size", "data", "join", "done", "garbled", "lost", "spin"}
      /\ ReceiverTypeOK
  BY DEF ReceiverInv, ReceiverTypeOK
<1>2. ASSUME push'[p][q] = push[p][q], pushPc'[p][q] = pushPc[p][q]
      PROVE  Untouched(p, q)
  BY <1>2 DEF PushWritten, Untouched
<1>3. CASE OwnConnect(p)
  <2>1. LET r == ri[p][gIdx[p] + 1]
        IN  push' = [push EXCEPT ![p][r] = Append(@, Item("count", WillGet(myNo[p])))]
    BY <1>3 DEF OwnConnect, GConnect
  <2>2. pushPc' = pushPc /\ Running(p) /\ gPc[p] = "connect" /\ gIdx[p] # myNo[p]
    BY <1>3 DEF OwnConnect, GConnect
  <2>3. /\ ConnectInv(p) /\ GetInv(p) /\ RelayInv(p)
        /\ ri[p] = recvSock /\ Len(recvSock) = MaxPeer /\ MaxPeer \in Nat \ {0}
        /\ \A j \in 1 .. MaxPeer : recvSock[j] \in Peers
        /\ myNo[p] \in 0 .. MaxPeer - 1
        /\ \A j \in 1 .. MaxPeer : recvSock[j] = p <=> j = myNo[p] + 1
    BY <2>2, RunningFacts
  <2>4. gIdx[p] \in Nat /\ gIdx[p] + 1 \in 1 .. MaxPeer /\ ~(gIdx[p] + 1 <= gIdx[p])
    <3>1. gIdx[p] \in Nat
      BY DEF ReceiverInv, ReceiverTypeOK
    <3>2. gIdx[p] < MaxPeer
      BY <2>2, <2>3 DEF ConnectInv
    <3>3. QED
      BY <2>3, <3>1, <3>2
  <2>5. CASE ri[p][gIdx[p] + 1] # q
    BY <1>1, <1>2, <2>1, <2>2, <2>5
  <2>6. CASE ri[p][gIdx[p] + 1] = q
    <3>1. q # p
      BY <2>2, <2>3, <2>4, <2>6
    <3>2. push[p][q] = <<>>
      BY <2>3, <2>4, <2>6, <3>1 DEF ConnectInv
    <3>3. push'[p][q] = Append(<<>>, Item("count", WillGet(myNo[p])))
      BY <1>1, <2>1, <2>6, <3>2
    <3>4. push'[p][q] = <<Item("count", WillGet(myNo[p]))>>
      BY <3>3
    <3>5. Got(p) = {}
      BY <2>2, <2>3 DEF GetInv, Got
    <3>6. \A s \in Segs : pushPc[p][q][s] = "none"
      BY <2>3, <3>5 DEF RelayInv
    <3>7. \A s \in Segs : PushWritten(p, q, s)' = 0
      BY <2>2, <3>6 DEF PushWritten
    <3>8. QED
      BY <3>2, <3>4, <3>7 DEF Opened
  <2>7. QED
    BY <2>5, <2>6
<1>4. CASE GReadData(p)
  <2>1. push' = push /\ Running(p) /\ gPc[p] = "data" /\ Len(down[p]) > gPos[p]
    BY <1>4 DEF GReadData, GRead
  <2>2. gN[p] = down[p][3 * gGot[p] + 3].val /\ RelayInv(p) /\ StageInv(p) /\ Informed(p) /\ GetInv(p)
    BY <2>1, RunningFacts DEF GetInv
  <2>3. gGot[p] \in Nat /\ 3 * gGot[p] + 3 <= Len(down[p])
    BY <2>1, <2>2, NextItem DEF GetInv
  <2>4. gN[p] \notin Got(p)
    <3>1. SUFFICES ASSUME NEW j \in 0 .. gGot[p] - 1, gN[p] = down[p][3 * j + 3].val
                   PROVE  FALSE
      BY DEF Got
    <3>2. j \in Nat /\ 3 * j + 3 <= Len(down[p]) /\ j # gGot[p]
      BY <2>1, <2>3, RunningFacts, GotShare, NextItem
    <3>3. QED
      BY <2>2, <2>3, <3>1, <3>2, FrameHeads
  <2>5. \A s \in Segs : \/ pushPc'[p][q][s] = pushPc[p][q][s]
                        \/ pushPc'[p][q][s] = "n" /\ s = gN[p]
    BY <1>1, <1>4 DEF GReadData
  <2>6. \A s \in Segs : s = gN[p] => pushPc[p][q][s] = "none"
    BY <2>2, <2>4 DEF RelayInv
  <2>7. \A s \in Segs : PushWritten(p, q, s)' = PushWritten(p, q, s)
    BY <2>5, <2>6 DEF PushWritten
  <2>8. QED
    BY <2>1, <2>7 DEF Untouched
<1>5. ASSUME NEW s \in Segs, OrderlyPush(p, q, s)
      PROVE  \E k \in 1 .. 3 : Continued(p, q, s, k)
  <2>1. PICK k \in 1 .. 3 :
             /\ PushWritten(p, q, s) = k - 1 /\ PushWritten(p, q, s)' = k
             /\ pushPc[p][q][s] # "none" /\ Running(p)
             /\ \A r \in Segs \ {s} : pushPc'[p][q][r] = pushPc[p][q][r]
             /\ push'[p][q] = Append(push[p][q], Item(Frame[k], s))
    BY <1>1, <1>5, FrameWrite
  <2>2. \A r \in Segs \ {s} : PushWritten(p, q, r)' = PushWritten(p, q, r)
    BY <2>1 DEF PushWritten
  <2>3. Running(p) /\ q \in Others(p) /\ s \in Got(p)
    BY <2>1, RunningFacts DEF RelayInv
  <2>4. Joined(p) /\ Others(p) = Accepted \ {p} /\ ConnectInv(p) /\ GetInv(p) /\ Len(recvSock) = MaxPeer
        /\ MaxPeer \in Nat \ {0}
    BY <2>3, RunningFacts
  <2>5. gPc[p] # "connect" /\ gIdx[p] \in Nat
    BY <2>3, <2>4 DEF Got, GetInv, ReceiverInv, ReceiverTypeOK
  <2>6. PICK j \in 1 .. Len(recvSock) : q = recvSock[j] /\ q # p
    BY <2>3, <2>4 DEF Accepted
  <2>7. j <= gIdx[p]
    BY <2>4, <2>5, <2>6 DEF ConnectInv
  <2>8. push[p][q] # <<>>
    BY <2>4, <2>6, <2>7 DEF ConnectInv
  <2>9. QED
    BY <2>1, <2>2, <2>3, <2>4, <2>8 DEF Continued
(* All other steps leave this connection alone.                            *)
<1>6. CASE OrderlyGet(p) /\ ~OwnConnect(p) /\ ~GReadData(p)
  <2>1. UNCHANGED <<push, pushPc>>
    BY <1>6 DEF OrderlyGet, GSkipSelf, GReadN, GReadSize, GJoin
  <2>2. QED
    BY <1>2, <2>1
<1>7. ASSUME NEW x \in Peers, NEW y \in Peers, x # p \/ y # q,
             \/ x # p /\ OrderlyGet(x)
             \/ \E s \in Segs : OrderlyPush(x, y, s)
      PROVE  push'[p][q] = push[p][q] /\ pushPc'[p][q] = pushPc[p][q]
  <2>1. CASE x # p /\ OrderlyGet(x)
    BY <1>1, <2>1 DEF OrderlyGet, GSkipSelf, OwnConnect, GConnect, GReadN, GReadSize, GReadData, GJoin
  <2>2. CASE \E s \in Segs : OrderlyPush(x, y, s)
    BY <1>1, <1>7, <2>2, SMTT(30) DEF OrderlyPush, PushN, PushSize, PushData, PushWrite
  <2>3. QED
    BY <1>7, <2>1, <2>2
<1>8. ASSUME UNCHANGED <<push, pushPc>>
      PROVE  Untouched(p, q)
  BY <1>2, <1>8
<1>9. CASE \E x \in Peers : OrderlyGet(x)
  BY <1>2, <1>3, <1>4, <1>6, <1>7, <1>9
<1>10. CASE \E x, y \in Peers, s \in Segs : OrderlyPush(x, y, s)
  BY <1>2, <1>5, <1>7, <1>10
<1>11. QED
  BY <1>8, <1>9, <1>10, OthersWrite DEF OrderlyNext

(* The number of items on a connection between receivers.                  *)
LEMMA PushCountInv ==
    ASSUME SenderInv, ReceiverInv, CountInv, [OrderlyNext]_vars, NEW p \in Peers, NEW q \in Peers
    PROVE  /\ PushCount(p, q)'
           /\ \E n \in Nat : Len(push'[p][q]) = Len(push[p][q]) + n
           /\ push[p][q] # <<>> => push'[p][q] # <<>>
<1>1. push \in [Peers -> [Peers -> Seq(PushItem)]]
  BY DEF ReceiverInv, ReceiverTypeOK
<1>2. PushCount(p, q) /\ push[p][q] \in Seq(PushItem) /\ Len(push[p][q]) \in Nat
  BY <1>1 DEF CountInv
<1>3. CASE Untouched(p, q)
  <2>1. Pushed(p, q)' = Pushed(p, q)
    BY <1>3 DEF Untouched, Pushed
  <2>2. PushCount(p, q)'
    BY <1>2, <1>3, <2>1 DEF PushCount, Untouched
  <2>3. 0 \in Nat /\ Len(push'[p][q]) = Len(push[p][q]) + 0
    BY <1>2, <1>3 DEF Untouched
  <2>4. QED
    BY <1>3, <2>2, <2>3 DEF Untouched
<1>4. CASE Opened(p, q)
  <2>1. Len(push'[p][q]) = 1 /\ push'[p][q] # <<>> /\ Len(push[p][q]) = 0
    BY <1>4 DEF Opened
  <2>2. Pushed(p, q)' = {}
    BY <1>4 DEF Opened, Pushed
  <2>3. 1 \in Nat /\ Len(push'[p][q]) = Len(push[p][q]) + 1
    BY <2>1
  <2>4. Cardinality(Pushed(p, q)') = 0
    BY <2>2, FS_EmptySet
  <2>5. PushCount(p, q)'
    BY <2>1, <2>4 DEF PushCount
  <2>6. QED
    BY <2>1, <2>3, <2>5
<1>5. ASSUME NEW s \in Segs, NEW k \in 1 .. 3, Continued(p, q, s, k)
      PROVE  /\ PushCount(p, q)'
             /\ \E n \in Nat : Len(push'[p][q]) = Len(push[p][q]) + n
             /\ push[p][q] # <<>> => push'[p][q] # <<>>
  <2>1. Item(Frame[k], s) \in PushItem
    BY PushItemTypes DEF Frame
  <2>2. Len(push'[p][q]) = Len(push[p][q]) + 1 /\ push'[p][q] # <<>>
    BY <1>2, <1>5, <2>1 DEF Continued
  <2>3. Pushed(p, q)' = Pushed(p, q) \cup {<<s, k>>} /\ <<s, k>> \notin Pushed(p, q)
    <3>1. \A c \in Segs \X (1 .. 3) : c = <<c[1], c[2]>> /\ c[1] \in Segs /\ c[2] \in 1 .. 3
      OBVIOUS
    <3>2. \A c \in Segs \X (1 .. 3) :
             c[2] <= PushWritten(p, q, c[1])' <=> c[2] <= PushWritten(p, q, c[1]) \/ c = <<s, k>>
      <4>1. SUFFICES ASSUME NEW r \in Segs, NEW m \in 1 .. 3
                     PROVE  m <= PushWritten(p, q, r)' <=> m <= PushWritten(p, q, r) \/ (r = s /\ m = k)
        BY <3>1
      <4>2. CASE r = s
        BY <1>5, <4>2 DEF Continued
      <4>3. CASE r # s
        BY <1>5, <4>3 DEF Continued
      <4>4. QED
        BY <4>2, <4>3
    <3>3. <<s, k>> \in Segs \X (1 .. 3) /\ ~(k <= PushWritten(p, q, s))
      BY <1>5 DEF Continued
    <3>4. QED
      BY <3>2, <3>3 DEF Pushed
  <2>4. Cardinality(Pushed(p, q)') = Cardinality(Pushed(p, q)) + 1
        /\ Cardinality(Pushed(p, q)) \in Nat
    BY <2>3, PushedFinite, FS_AddElement, FS_CardinalityType
  <2>5. PushCount(p, q)'
    BY <1>2, <1>5, <2>2, <2>4 DEF PushCount, Continued
  <2>6. QED
    BY <2>2, <2>5
<1>6. QED
  BY <1>3, <1>4, <1>5, PushOutcomes

(* Only a receiver whose threads run has written to another, and the first *)
(* thing it wrote is how many segments will come.                          *)
LEMMA FirstIsCount ==
    ASSUME ReceiverInv, NEW p \in Peers, NEW q \in Peers, push[p][q] # <<>>
    PROVE  Joined(p) /\ push[p][q][1].val = WillGet(myNo[p])
<1>1. Joined(p)
  BY DEF ReceiverInv, StageInv, Idle
<1>2. RelayInv(p)
  BY <1>1 DEF ReceiverInv
<1>3. push[p][q][1] = Item("count", WillGet(myNo[p]))
  BY <1>2 DEF RelayInv
<1>4. QED
  BY <1>1, <1>3 DEF Item

(* One read() of the thread of q that reads from p, as a step of the       *)
(* position it is at.                                                      *)
LEMMA ReadStepCount ==
    ASSUME SenderInv, ReceiverInv, NEW p \in Peers, NEW q \in Peers,
           ReadCount(q, p), OrderlyRead(q, p)
    PROVE  ReadCount(q, p)'
<1> DEFINE W == WillGet(myNo[p])
<1>1. /\ rtPc \in [Peers -> [Peers -> {"accept", "n", "size", "data", "done", "garbled", "spin"}]]
      /\ rtLeft \in [Peers -> [Peers -> Int]]
      /\ rtPos \in [Peers -> [Peers -> Nat]]
      /\ push \in [Peers -> [Peers -> Seq(PushItem)]]
  BY DEF ReceiverInv, ReceiverTypeOK
<1>2. W \in Nat /\ Len(push[p][q]) \in Nat /\ rtLeft[q][p] \in Int /\ rtPos[q][p] \in Nat
  BY <1>1, WillGetType
<1>3. push' = push /\ myNo' = myNo /\ W' = W
  BY DEF OrderlyRead, RTAccept, Reads, RTReadN, RTReadSize, RTReadData, mainVars, WillGet
<1> HIDE DEF W
<1>4. /\ rtPos[q][p] <= Len(push[p][q])
      /\ rtPc[q][p] # "accept" => push[p][q] # <<>>
      /\ rtPc[q][p] \in {"n", "size", "data"} => 1 <= rtLeft[q][p] /\ rtLeft[q][p] <= W
      /\ rtPc[q][p] = "n" => rtPos[q][p] = 3 * (W - rtLeft[q][p]) + 1
      /\ rtPc[q][p] = "size" => rtPos[q][p] = 3 * (W - rtLeft[q][p]) + 2
      /\ rtPc[q][p] = "data" => rtPos[q][p] = 3 * (W - rtLeft[q][p]) + 3
  BY DEF ReadCount, W
<1>5. SUFFICES /\ rtPos'[q][p] <= Len(push[p][q])
               /\ rtPc'[q][p] # "accept" => push[p][q] # <<>>
               /\ rtPc'[q][p] \in {"n", "size", "data"} => 1 <= rtLeft'[q][p] /\ rtLeft'[q][p] <= W
               /\ rtPc'[q][p] = "n" => rtPos'[q][p] = 3 * (W - rtLeft'[q][p]) + 1
               /\ rtPc'[q][p] = "size" => rtPos'[q][p] = 3 * (W - rtLeft'[q][p]) + 2
               /\ rtPc'[q][p] = "data" => rtPos'[q][p] = 3 * (W - rtLeft'[q][p]) + 3
  BY <1>3 DEF ReadCount, W
<1>6. CASE RTAccept(q, p)
  <2>1. push[p][q] # <<>> /\ push[p][q][1].val = W /\ Len(push[p][q]) >= 1
    BY <1>1, <1>6, FirstIsCount DEF RTAccept, Reads, W
  <2>2. rtLeft'[q][p] = W /\ rtPc'[q][p] = ReadOrEnd(W) /\ rtPos'[q][p] = 1
    BY <1>1, <1>6, <2>1 DEF RTAccept
  <2>3. (rtPc'[q][p] = "n" /\ W > 0) \/ rtPc'[q][p] = "done"
    BY <2>2 DEF ReadOrEnd
  <2>4. QED
    BY <1>2, <2>1, <2>2, <2>3
<1>7. CASE RTReadN(q, p) \/ RTReadSize(q, p)
  <2>1. rtLeft'[q][p] = rtLeft[q][p] /\ rtPos'[q][p] = rtPos[q][p] + 1
        /\ Len(push[p][q]) > rtPos[q][p]
    <3>1. rtLeft' = rtLeft /\ rtPos' = [rtPos EXCEPT ![q][p] = @ + 1] /\ Len(push[p][q]) > rtPos[q][p]
      BY <1>7 DEF RTReadN, RTReadSize, RTRead
    <3>2. QED
      BY <1>1, <3>1
  <2>2. \/ rtPc[q][p] = "n" /\ rtPc'[q][p] = "size"
        \/ rtPc[q][p] = "size" /\ rtPc'[q][p] = "data"
        \/ rtPc[q][p] \in {"n", "size"} /\ rtPc'[q][p] = "garbled"
    BY <1>1, <1>7 DEF RTReadN, RTReadSize, RTRead, Reads
  <2>3. rtPos'[q][p] <= Len(push[p][q])
    BY <1>2, <2>1
  <2>4. CASE rtPc[q][p] = "n" /\ rtPc'[q][p] = "size"
    BY <1>2, <1>4, <2>1, <2>3, <2>4
  <2>5. CASE rtPc[q][p] = "size" /\ rtPc'[q][p] = "data"
    BY <1>2, <1>4, <2>1, <2>3, <2>5
  <2>6. QED
    BY <1>4, <2>2, <2>3, <2>4, <2>5
<1>8. CASE RTReadData(q, p)
  <2>1. rtLeft'[q][p] = rtLeft[q][p] - 1 /\ rtPos'[q][p] = rtPos[q][p] + 1
        /\ Len(push[p][q]) > rtPos[q][p] /\ rtPc[q][p] = "data"
    BY <1>1, <1>8 DEF RTReadData, RTRead, Reads
  <2>2. \/ rtPc'[q][p] = "n" /\ rtLeft[q][p] - 1 > 0
        \/ rtPc'[q][p] = "done"
        \/ rtPc'[q][p] = "garbled"
    <3>1. rtPc'[q][p] \in {ReadOrEnd(rtLeft[q][p] - 1), "garbled"}
      BY <1>1, <1>8 DEF RTReadData, RTRead, Reads
    <3>2. QED
      BY <3>1 DEF ReadOrEnd
  <2>3. rtPos[q][p] = 3 * (W - rtLeft[q][p]) + 3 /\ 1 <= rtLeft[q][p] /\ rtLeft[q][p] <= W
    BY <1>4, <2>1
  <2>4. rtPos'[q][p] <= Len(push[p][q])
    BY <1>2, <2>1
  <2>5. CASE rtPc'[q][p] = "n" /\ rtLeft[q][p] - 1 > 0
    <3>1. rtPos'[q][p] = 3 * (W - (rtLeft[q][p] - 1)) + 1
      BY <1>2, <2>1, <2>3
    <3>2. QED
      BY <1>2, <1>4, <2>1, <2>3, <2>4, <2>5, <3>1
  <2>6. QED
    BY <1>4, <2>1, <2>2, <2>4, <2>5
<1>9. QED
  BY <1>6, <1>7, <1>8 DEF OrderlyRead

(* A step that is not of this thread leaves what it knows.                 *)
LEMMA ReadOutcomes ==
    ASSUME ReceiverTypeOK, [OrderlyNext]_vars, NEW p \in Peers, NEW q \in Peers
    PROVE  \/ OrderlyRead(q, p)
           \/ /\ rtPc'[q][p] = rtPc[q][p] /\ rtLeft'[q][p] = rtLeft[q][p]
              /\ rtPos'[q][p] = rtPos[q][p] /\ rtN'[q][p] = rtN[q][p]
<1> DEFINE Same == /\ rtPc'[q][p] = rtPc[q][p] /\ rtLeft'[q][p] = rtLeft[q][p]
                   /\ rtPos'[q][p] = rtPos[q][p] /\ rtN'[q][p] = rtN[q][p]
<1>1. ASSUME NEW x \in Peers, NEW y \in Peers, OrderlyRead(y, x), x # p \/ y # q
      PROVE  Same
  <2>1. /\ rtPc \in [Peers -> [Peers -> {"accept", "n", "size", "data", "done", "garbled", "spin"}]]
        /\ rtLeft \in [Peers -> [Peers -> Int]]
        /\ rtPos \in [Peers -> [Peers -> Nat]]
        /\ rtN \in [Peers -> [Peers -> Segs \cup {NoSlot}]]
    BY DEF ReceiverTypeOK
  <2>2. CASE RTAccept(y, x)
    BY <1>1, <2>1, <2>2 DEF RTAccept
  <2>3. CASE RTReadN(y, x)
    BY <1>1, <2>1, <2>3 DEF RTReadN, RTRead, Reads
  <2>4. CASE RTReadSize(y, x)
    BY <1>1, <2>1, <2>4 DEF RTReadSize, RTRead, Reads
  <2>5. CASE RTReadData(y, x)
    BY <1>1, <2>1, <2>5 DEF RTReadData, RTRead, Reads
  <2>6. QED
    BY <1>1, <2>2, <2>3, <2>4, <2>5 DEF OrderlyRead
<1>2. CASE UNCHANGED readVars
  BY <1>2 DEF readVars
<1>3. QED
  BY <1>1, <1>2, OthersRead DEF OrderlyNext

LEMMA ReadCountInv ==
    ASSUME SenderInv, SenderInv', ReceiverInv, ReceiverInv', CountInv, [OrderlyNext]_vars,
           NEW p \in Peers, NEW q \in Peers
    PROVE  ReadCount(q, p)'
<1>1. ReadCount(q, p)
  BY DEF CountInv
<1>2. CASE OrderlyRead(q, p)
  BY <1>1, <1>2, ReadStepCount
<1>3. ASSUME rtPc'[q][p] = rtPc[q][p], rtLeft'[q][p] = rtLeft[q][p], rtPos'[q][p] = rtPos[q][p]
      PROVE  ReadCount(q, p)'
  <2>1. PICK n \in Nat : Len(push'[p][q]) = Len(push[p][q]) + n
    BY PushCountInv
  <2>2. push[p][q] # <<>> => push'[p][q] # <<>>
    BY PushCountInv
  <2>3. Len(push[p][q]) \in Nat /\ rtPos[q][p] \in Nat
    BY DEF ReceiverInv, ReceiverTypeOK
  <2>4. push[p][q] # <<>> => WillGet(myNo[p])' = WillGet(myNo[p])
    BY FirstIsCount, NumberStays
  <2>5. rtPos'[q][p] <= Len(push'[p][q])
    BY <1>1, <1>3, <2>1, <2>3 DEF ReadCount
  <2>6. QED
    BY <1>1, <1>3, <2>2, <2>4, <2>5 DEF ReadCount
<1>4. QED
  BY <1>2, <1>3, ReadOutcomes DEF ReceiverInv

LEMMA CountInit == Init => CountInv
<1>1. SUFFICES ASSUME RInit, NEW p \in Peers, NEW q \in Peers
               PROVE  PushCount(p, q) /\ ReadCount(q, p)
  BY DEF Init, CountInv
<1>2. push[p][q] = <<>> /\ rtPc[q][p] = "accept" /\ rtPos[q][p] = 0
  BY <1>1 DEF RInit
<1>3. QED
  BY <1>2 DEF PushCount, ReadCount

(* The positions on the connections between receivers follow from what     *)
(* the threads at both ends have done.                                     *)
LEMMA CountNextInv ==
    ASSUME SenderInv, SenderInv', ReceiverInv, ReceiverInv', CountInv, [OrderlyNext]_vars
    PROVE  CountInv'
BY PushCountInv, ReadCountInv DEF CountInv

(* When get_file_from_sender has ended, all of the share of p is on its    *)
(* connection to each of the others.                                       *)
LEMMA AllPushed ==
    ASSUME SenderInv, ReceiverInv, CountInv, NEW p \in Peers, NEW q \in Others(p), gPc[p] = "done"
    PROVE  push[p][q] # <<>> /\ Len(push[p][q]) = 1 + 3 * WillGet(myNo[p])
<1>1. Joined(p) /\ Got(p) = Share(myNo[p])
  BY AllRead
<1>2. StageInv(p) /\ ConnectInv(p) /\ RelayInv(p) /\ Informed(p)
  BY <1>1 DEF ReceiverInv, Joined, Informed
<1>3. Others(p) = Accepted \ {p} /\ Len(recvSock) = MaxPeer /\ MaxPeer \in Nat \ {0}
  BY <1>2, Directory, SenderAssumption
<1>4. q \in Accepted /\ q # p /\ q \in Peers
  BY <1>3, LongLog DEF Accepted, SenderInv, SenderTypeOK
<1>5. push[p][q] # <<>>
  <2>1. PICK j \in 1 .. Len(recvSock) : q = recvSock[j]
    BY <1>4 DEF Accepted
  <2>2. gIdx[p] \in Nat /\ ~(gIdx[p] < MaxPeer)
    BY <1>2 DEF ConnectInv, ReceiverInv, ReceiverTypeOK
  <2>3. j <= gIdx[p]
    BY <1>3, <2>1, <2>2
  <2>4. QED
    BY <1>2, <1>4, <2>1, <2>3 DEF ConnectInv
<1>6. \A s \in Segs : PushWritten(p, q, s) = IF s \in Got(p) THEN 3 ELSE 0
  <2>1. \A s \in Segs : /\ pushPc[p][q][s] # "none" <=> s \in Got(p)
                        /\ pushPc[p][q][s] \in {"none", "done"}
    BY <1>2, <1>4 DEF RelayInv
  <2>2. QED
    BY <2>1 DEF PushWritten
<1>7. Pushed(p, q) = Got(p) \X (1 .. 3)
  <2>1. Got(p) \subseteq Segs
    BY <1>1 DEF Share
  <2>2. \A c \in Segs \X (1 .. 3) : c[2] <= PushWritten(p, q, c[1]) <=> c[1] \in Got(p)
    <3>1. \A s \in Segs, k \in 1 .. 3 : k <= PushWritten(p, q, s) <=> s \in Got(p)
      BY <1>6
    <3>2. QED
      BY <3>1
  <2>3. QED
    BY <2>1, <2>2 DEF Pushed
<1>8. Cardinality(Pushed(p, q)) = 3 * WillGet(myNo[p])
  <2>1. IsFiniteSet(Got(p)) /\ Cardinality(Got(p)) = WillGet(myNo[p])
    BY <1>1, GotShare
  <2>2. IsFiniteSet(1 .. 3) /\ Cardinality(1 .. 3) = 3
    <3>1. 1 \in Int /\ 3 \in Int
      OBVIOUS
    <3>2. IsFiniteSet(1 .. 3) /\ Cardinality(1 .. 3) = IF 1 > 3 THEN 0 ELSE 3 - 1 + 1
      BY <3>1, FS_Interval
    <3>3. QED
      BY <3>2
  <2>3. Cardinality(Got(p) \X (1 .. 3)) = WillGet(myNo[p]) * 3
    BY <2>1, <2>2, FS_Product
  <2>4. QED
    BY <1>7, <2>3, WillGetType
<1>9. QED
  BY <1>4, <1>5, <1>8 DEF CountInv, PushCount

(* When the sender is done, the rest of what get_file_from_sender expects  *)
(* is on its connection.                                                   *)
LEMMA RestIsSent ==
    ASSUME SenderInv, ReceiverInv, EndInv, NEW p \in Peers, Running(p),
           sPc = "done", gPc[p] \in {"n", "size", "data"}
    PROVE  Len(down[p]) > gPos[p]
<1>1. /\ StageInv(p) /\ GetInv(p) /\ Joined(p) /\ Informed(p)
      /\ myNo[p] \in 0 .. MaxPeer - 1 /\ MaxPeer \in Nat \ {0} /\ Len(recvSock) = MaxPeer
      /\ \A j \in 1 .. MaxPeer : recvSock[j] = p <=> j = myNo[p] + 1
  BY RunningFacts
<1>2. gGot[p] \in Nat /\ gPos[p] \in Nat /\ Len(down[p]) \in Nat
  BY DEF ReceiverInv, ReceiverTypeOK, SenderInv, SenderTypeOK
<1>3. p \in Accepted
  BY <1>1, Directory
<1>4. SUFFICES ASSUME ~(Len(down[p]) > gPos[p])
               PROVE  FALSE
  OBVIOUS
<1>5. Len(down[p]) = gPos[p]
  BY <1>1, <1>2, <1>4 DEF GetInv
<1>6. \A s \in Segs : Written(s) = 3
  BY DEF EndInv, Written
<1>7. (Len(down[p]) - 2) % 3 = 0
  <2>1. Unfinished(p) = {}
    BY <1>6 DEF Unfinished
  <2>2. QED
    BY <1>3, <2>1 DEF SenderInv, TailInv, Sending
<1>8. gPc[p] = "n" /\ Len(down[p]) = 3 * gGot[p] + 2 /\ gGot[p] < WillGet(myNo[p])
  <2>1. CASE gPc[p] = "size"
    <3>1. Len(down[p]) - 2 = 3 * gGot[p] + 1
      BY <1>1, <1>2, <1>5, <2>1 DEF GetInv
    <3>2. (3 * gGot[p] + 1) % 3 = 1
      BY <1>2
    <3>3. (Len(down[p]) - 2) % 3 = 1
      BY <3>1, <3>2, Zenon
    <3>4. 0 = 1
      BY <1>7, <3>3, Zenon
    <3>5. QED
      BY <3>4
  <2>2. CASE gPc[p] = "data"
    <3>1. Len(down[p]) - 2 = 3 * gGot[p] + 2
      BY <1>1, <1>2, <1>5, <2>2 DEF GetInv
    <3>2. (3 * gGot[p] + 2) % 3 = 2
      BY <1>2
    <3>3. (Len(down[p]) - 2) % 3 = 2
      BY <3>1, <3>2, Zenon
    <3>4. 0 = 2
      BY <1>7, <3>3, Zenon
    <3>5. QED
      BY <3>4
  <2>3. QED
    BY <1>1, <1>5, <2>1, <2>2 DEF GetInv
<1>9. ASSUME NEW s \in Share(myNo[p])
      PROVE  s \in Got(p)
  <2>1. s \in Segs /\ s % MaxPeer = myNo[p]
    BY DEF Share
  <2>2. Peer(s % MaxPeer) = p
    BY <1>1, <2>1 DEF Peer
  <2>3. PICK j \in 3 .. Len(down[p]) : down[p][j].val = s
    BY <1>6, <2>1, <2>2 DEF EndInv, OnLog
  <2> DEFINE k == (j - 3) % 3
             i == (j - 3) \div 3
  <2>4. i \in Nat /\ k \in 0 .. 2 /\ j - 3 = 3 * i + k
    <3>1. j - 3 \in Nat /\ 3 \in Nat \ {0}
      BY <1>2
    <3>2. /\ (j - 3) \div 3 \in Nat /\ (j - 3) % 3 \in 0 .. 3 - 1
          /\ j - 3 = 3 * ((j - 3) \div 3) + ((j - 3) % 3)
      BY <3>1, DivMod, Zenon
    <3>3. QED
      BY <3>2
  <2>5. down[p][j - k].val = s
    BY <2>3 DEF SenderInv, FramesWhole
  <2> HIDE DEF k, i
  <2>6. j - k = 3 * i + 3 /\ i \in 0 .. gGot[p] - 1
    BY <1>2, <1>8, <2>4, SMTT(30)
  <2>7. QED
    BY <2>5, <2>6 DEF Got
<1>10. Got(p) = Share(myNo[p])
  BY <1>1, <1>9, GotShare
<1>11. QED
  BY <1>1, <1>2, <1>8, <1>10, GotShare, WillGetType

(* When the sender has ended, no receiver that it accepted reads from it   *)
(* in vain.                                                                *)
LEMMA SenderStreamLasts ==
    ASSUME SenderInv, ReceiverInv, EndInv, SenderEnded, NEW p \in Accepted
    PROVE  /\ rPc[p] = "info" => Len(down[p]) > 1
           /\ Running(p) /\ gPc[p] \in {"n", "size", "data"} => Len(down[p]) > gPos[p]
<1>1. p \in Peers /\ Len(down[p]) \in Nat
  BY DEF Accepted, SenderInv, SenderTypeOK
<1>2. sPc \in {"done", "killed"}
  BY DEF SenderEnded, EndInv
<1>3. Len(down[p]) >= 2
  BY <1>2 DEF SenderInv, GreetInv, Sending, Accepted
<1>4. ASSUME Running(p), gPc[p] \in {"n", "size", "data"}
      PROVE  Len(down[p]) > gPos[p]
  <2>1. sPc = "done"
    BY <1>1, <1>4, DeadSenderIsUnread
  <2>2. QED
    BY <1>1, <1>4, <2>1, RestIsSent
<1>5. QED
  BY <1>1, <1>3, <1>4

(* When a receiver has saved, no other one reads from it in vain.          *)
LEMMA PeerStreamLasts ==
    ASSUME SenderInv, ReceiverInv, CountInv, NEW p \in Peers, NEW q \in Peers,
           rPc[p] = "saved", Running(q), rtPc[q][p] \in {"n", "size", "data"}
    PROVE  Len(push[p][q]) > rtPos[q][p]
<1>1. ReadCount(q, p) /\ WillGet(myNo[p]) \in Nat /\ rtLeft[q][p] \in Int /\ rtPos[q][p] \in Nat
  BY WillGetType DEF CountInv, ReceiverInv, ReceiverTypeOK
<1>2. Joined(p) /\ gPc[p] = "done" /\ ConnectInv(p) /\ StageInv(p) /\ Informed(p)
  BY DEF ReceiverInv, Joined, Informed, SaveInv
<1>3. q \in Others(p)
  <2>1. q # p
    BY <1>1, <1>2 DEF ReadCount, ConnectInv
  <2>2. q \in Accepted
    BY RunningFacts, Directory
  <2>3. QED
    BY <1>2, <2>1, <2>2, Directory
<1>4. Len(push[p][q]) = 1 + 3 * WillGet(myNo[p])
  BY <1>2, <1>3, AllPushed
<1>5. rtPos[q][p] <= 3 * (WillGet(myNo[p]) - rtLeft[q][p]) + 3 /\ 1 <= rtLeft[q][p]
  BY <1>1 DEF ReadCount
<1>6. QED
  BY <1>1, <1>4, <1>5

-----------------------------------------------------------------------------
(* With at most one segment per receiver.                                  *)
(*                                                                         *)
(* Without it, two send_file_to_recv threads write to one connection with  *)
(* no lock, and what follows is false: the run P2POverlapCorrupts shows it.*)

LEMMA OneEach ==
    ASSUME OneSegmentEach, NEW n \in 0 .. MaxPeer - 1
    PROVE  /\ WillGet(n) = IF n \in Segs THEN 1 ELSE 0
           /\ \A s \in Share(n) : s = n
           /\ n \in Segs => n \in Share(n)
<1>1. MaxPeer \in Nat \ {0} /\ FileCount \in Nat /\ FileCount <= MaxPeer /\ WillGet(n) \in Nat
  BY SenderAssumption, WillGetType DEF OneSegmentEach
<1>2. n < FileCount <=> 0 < WillGet(n)
  <2>1. 0 \in Nat /\ MaxPeer * 0 + n = n
    BY <1>1
  <2>2. QED
    BY <2>1, WillGetBound
<1>3. ~(1 < WillGet(n))
  <2>1. 1 \in Nat /\ ~(MaxPeer * 1 + n < FileCount)
    BY <1>1
  <2>2. QED
    BY <2>1, WillGetBound
<1>4. \A s \in 0 .. MaxPeer - 1 : s % MaxPeer = s
  <2>1. SUFFICES ASSUME NEW s \in 0 .. MaxPeer - 1
                 PROVE  s % MaxPeer = s
    OBVIOUS
  <2>2. 0 \in Int /\ (MaxPeer * 0 + s) % MaxPeer = s
    BY <1>1, ModOfSum
  <2>3. MaxPeer * 0 + s = s
    BY <1>1
  <2>4. QED
    BY <2>2, <2>3, Zenon
<1>5. Segs \subseteq 0 .. MaxPeer - 1
  BY <1>1 DEF Segs
<1>6. WillGet(n) = IF n \in Segs THEN 1 ELSE 0
  BY <1>1, <1>2, <1>3 DEF Segs
<1>7. QED
  BY <1>4, <1>5, <1>6 DEF Share

(* What a connection carries: the frame of the one segment of p, in order, *)
(* as far as its one thread for q has written it.                          *)
SinglePush(p, q) ==
    push[p][q] # <<>> =>
        /\ Len(push[p][q]) = 1 + (IF myNo[p] \in Segs THEN PushWritten(p, q, myNo[p]) ELSE 0)
        /\ \A j \in 2 .. Len(push[p][q]) : push[p][q][j] = Item(Frame[j - 1], myNo[p])

(* And so its reader is never misled.                                      *)
SingleRead(q, p) ==
    /\ rtPc[q][p] \notin {"garbled", "spin"}
    /\ rtPc[q][p] \in {"size", "data"} => rtN[q][p] = myNo[p]
    /\ rtPc[q][p] = "done" => rtPos[q][p] = 1 + 3 * WillGet(myNo[p])

(* The segments q holds: the one the sender sent it, and those of the      *)
(* receivers whose connections it has read to the end.                     *)
Holds(q, s) == s \in Got(q) \/ \E p \in Peers : rtPc[q][p] = "done" /\ myNo[p] = s

SingleStore(q) == \A s \in Segs : fi[q][s] = IF Holds(q, s) THEN s ELSE Unset

SingleInv ==
    /\ \A p, q \in Peers : SinglePush(p, q) /\ SingleRead(q, p)
    /\ \A q \in Peers : SingleStore(q)

LEMMA SingleGot ==
    ASSUME OneSegmentEach, SenderInv, ReceiverInv, NEW p \in Peers, Joined(p), NEW s \in Got(p)
    PROVE  s = myNo[p] /\ s \in Segs
BY GotShare, OneEach DEF Share

LEMMA SinglePushInv ==
    ASSUME OneSegmentEach, SenderInv, SenderInv', ReceiverInv, ReceiverInv', [OrderlyNext]_vars,
           NEW p \in Peers, NEW q \in Peers, SinglePush(p, q)
    PROVE  SinglePush(p, q)'
<1>1. push[p][q] \in Seq(PushItem) /\ Len(push[p][q]) \in Nat
  BY DEF ReceiverInv, ReceiverTypeOK
<1>2. push[p][q] # <<>> => Joined(p) /\ myNo'[p] = myNo[p]
  BY FirstIsCount, NumberStays
<1>3. CASE Untouched(p, q)
  BY <1>2, <1>3 DEF SinglePush, Untouched
<1>4. CASE Opened(p, q)
  <2>1. Len(push'[p][q]) = 1
    BY <1>4 DEF Opened
  <2>2. myNo'[p] \in Segs => PushWritten(p, q, myNo[p])' = 0
    BY <1>4 DEF Opened, PushWritten
  <2>3. QED
    BY <2>1, <2>2 DEF SinglePush
<1>5. ASSUME NEW s \in Segs, NEW k \in 1 .. 3, Continued(p, q, s, k)
      PROVE  SinglePush(p, q)'
  <2>1. Joined(p) /\ s = myNo[p] /\ myNo'[p] = myNo[p] /\ push[p][q] # <<>>
    BY <1>2, <1>5, SingleGot DEF Continued
  <2>2. Len(push[p][q]) = k
    BY <1>5, <2>1 DEF SinglePush, Continued
  <2>3. Item(Frame[k], s) \in PushItem
    BY PushItemTypes DEF Frame
  <2>4. /\ Len(push'[p][q]) = k + 1
        /\ push'[p][q][k + 1] = Item(Frame[k], s)
        /\ \A j \in 1 .. k : push'[p][q][j] = push[p][q][j]
    BY <1>1, <1>5, <2>2, <2>3 DEF Continued
  <2>5. \A j \in 2 .. k + 1 : push'[p][q][j] = Item(Frame[j - 1], s)
    <3>1. \A j \in 2 .. k : push'[p][q][j] = Item(Frame[j - 1], s)
      BY <2>1, <2>2, <2>4 DEF SinglePush
    <3>2. \A j \in 2 .. k + 1 : j \in 2 .. k \/ (j = k + 1 /\ j - 1 = k)
      OBVIOUS
    <3>3. QED
      BY <2>4, <3>1, <3>2
  <2>6. PushWritten(p, q, myNo[p])' = k
    BY <1>5, <2>1 DEF Continued, PushWritten
  <2>7. QED
    BY <2>1, <2>4, <2>5, <2>6 DEF SinglePush
<1>6. QED
  BY <1>3, <1>4, <1>5, PushOutcomes

(* What the thread of q that reads from p finds next is what it expects.   *)
LEMMA NextRelayed ==
    ASSUME OneSegmentEach, SenderInv, ReceiverInv, NEW p \in Peers, NEW q \in Peers,
           SinglePush(p, q), ReadCount(q, p),
           rtPc[q][p] \in {"n", "size", "data"}, Len(push[p][q]) > rtPos[q][p]
    PROVE  /\ Joined(p) /\ myNo[p] \in Segs /\ myNo[p] \in Got(p)
           /\ WillGet(myNo[p]) = 1 /\ rtLeft[q][p] = 1
           /\ push[p][q][rtPos[q][p] + 1] = Item(rtPc[q][p], myNo[p])
           /\ rtPc[q][p] = "data" => rtPos[q][p] = 3
<1>1. rtLeft[q][p] \in Int /\ rtPos[q][p] \in Nat /\ Len(push[p][q]) \in Nat
  BY DEF ReceiverInv, ReceiverTypeOK
<1>2. push[p][q] # <<>> /\ Joined(p)
  BY FirstIsCount DEF ReadCount
<1>3. StageInv(p) /\ RelayInv(p) /\ Informed(p)
  BY <1>2 DEF ReceiverInv, Joined, Informed
<1>4. myNo[p] \in 0 .. MaxPeer - 1
  BY <1>3, Directory
<1>5. WillGet(myNo[p]) \in Nat /\ WillGet(myNo[p]) = IF myNo[p] \in Segs THEN 1 ELSE 0
  BY <1>4, OneEach, WillGetType
<1>6. 1 <= rtLeft[q][p] /\ rtLeft[q][p] <= WillGet(myNo[p])
  BY DEF ReadCount
<1>7. myNo[p] \in Segs /\ WillGet(myNo[p]) = 1 /\ rtLeft[q][p] = 1
  BY <1>1, <1>5, <1>6
<1>8. /\ rtPc[q][p] = "n" => rtPos[q][p] = 1
      /\ rtPc[q][p] = "size" => rtPos[q][p] = 2
      /\ rtPc[q][p] = "data" => rtPos[q][p] = 3
  BY <1>1, <1>7 DEF ReadCount
<1>9. Frame[rtPos[q][p]] = rtPc[q][p] /\ rtPos[q][p] \in 1 .. 3
  BY <1>8 DEF Frame
<1>10. push[p][q][rtPos[q][p] + 1] = Item(Frame[rtPos[q][p]], myNo[p])
  <2>1. \A j \in 2 .. Len(push[p][q]) : push[p][q][j] = Item(Frame[j - 1], myNo[p])
    BY <1>2 DEF SinglePush
  <2>2. rtPos[q][p] + 1 \in 2 .. Len(push[p][q]) /\ (rtPos[q][p] + 1) - 1 = rtPos[q][p]
    BY <1>1, <1>9
  <2>3. QED
    BY <2>1, <2>2
<1>11. myNo[p] \in Got(p)
  <2>1. PushWritten(p, q, myNo[p]) # 0
    BY <1>1, <1>2, <1>7, <1>9 DEF SinglePush
  <2>2. pushPc[p][q][myNo[p]] # "none"
    BY <2>1 DEF PushWritten
  <2>3. QED
    BY <1>3, <1>7, <2>2 DEF RelayInv
<1>12. QED
  BY <1>2, <1>7, <1>8, <1>9, <1>10, <1>11

LEMMA SingleReadInv ==
    ASSUME OneSegmentEach, SenderInv, SenderInv', ReceiverInv, ReceiverInv', [OrderlyNext]_vars,
           NEW p \in Peers, NEW q \in Peers,
           SinglePush(p, q), ReadCount(q, p), SingleRead(q, p)
    PROVE  SingleRead(q, p)'
<1>1. /\ rtPc \in [Peers -> [Peers -> {"accept", "n", "size", "data", "done", "garbled", "spin"}]]
      /\ rtLeft \in [Peers -> [Peers -> Int]]
      /\ rtPos \in [Peers -> [Peers -> Nat]]
      /\ rtN \in [Peers -> [Peers -> Segs \cup {NoSlot}]]
      /\ ReceiverTypeOK
  BY DEF ReceiverInv, ReceiverTypeOK
<1>2. ASSUME rtPc'[q][p] = rtPc[q][p], rtPos'[q][p] = rtPos[q][p], rtN'[q][p] = rtN[q][p]
      PROVE  SingleRead(q, p)'
  <2>1. rtPc[q][p] # "accept" => WillGet(myNo[p])' = WillGet(myNo[p]) /\ myNo'[p] = myNo[p]
    BY FirstIsCount, NumberStays DEF ReadCount
  <2>2. QED
    BY <1>2, <2>1 DEF SingleRead
<1>3. CASE OrderlyRead(q, p)
  <2>1. myNo' = myNo /\ WillGet(myNo[p])' = WillGet(myNo[p])
    BY <1>3 DEF OrderlyRead, RTAccept, Reads, RTReadN, RTReadSize, RTReadData, mainVars, WillGet
  <2>2. CASE RTAccept(q, p)
    <3>1. push[p][q] # <<>>
      BY <2>2 DEF RTAccept
    <3>2. push[p][q][1].val = WillGet(myNo[p])
      BY <3>1, FirstIsCount
    <3>3. rtPc'[q][p] = ReadOrEnd(WillGet(myNo[p])) /\ rtPos'[q][p] = 1
      BY <1>1, <2>2, <3>2 DEF RTAccept
    <3>4. rtPc'[q][p] = "n" \/ (rtPc'[q][p] = "done" /\ ~(WillGet(myNo[p]) > 0))
      BY <3>3 DEF ReadOrEnd
    <3>5. rtPc'[q][p] = "n" \/ (rtPc'[q][p] = "done" /\ WillGet(myNo[p]) = 0)
      BY <3>4, WillGetType
    <3>6. QED
      BY <2>1, <3>3, <3>5 DEF SingleRead
  <2>3. CASE RTReadN(q, p)
    <3>1. rtPc[q][p] = "n" /\ Len(push[p][q]) > rtPos[q][p]
      BY <2>3 DEF RTReadN, RTRead, Reads
    <3>2. push[p][q][rtPos[q][p] + 1] = Item("n", myNo[p])
      BY <3>1, NextRelayed
    <3>3. rtPc'[q][p] = "size" /\ rtN'[q][p] = myNo[p]
      BY <1>1, <2>3, <3>2 DEF RTReadN, RTRead, Reads, Item
    <3>4. QED
      BY <2>1, <3>3 DEF SingleRead
  <2>4. CASE RTReadSize(q, p)
    <3>1. rtPc[q][p] = "size" /\ Len(push[p][q]) > rtPos[q][p] /\ rtN' = rtN
      BY <2>4 DEF RTReadSize, RTRead, Reads
    <3>2. push[p][q][rtPos[q][p] + 1] = Item("size", myNo[p])
      BY <3>1, NextRelayed
    <3>3. rtPc'[q][p] = "data"
      BY <1>1, <2>4, <3>2 DEF RTReadSize, RTRead, Reads, Item
    <3>4. QED
      BY <2>1, <3>1, <3>3 DEF SingleRead
  <2>5. CASE RTReadData(q, p)
    <3>1. rtPc[q][p] = "data" /\ Len(push[p][q]) > rtPos[q][p]
      BY <2>5 DEF RTReadData, RTRead, Reads
    <3>2. /\ push[p][q][rtPos[q][p] + 1] = Item("data", myNo[p]) /\ rtLeft[q][p] = 1
          /\ rtPos[q][p] = 3 /\ WillGet(myNo[p]) = 1
      BY <3>1, NextRelayed
    <3>3. rtPc'[q][p] = ReadOrEnd(0) /\ rtPos'[q][p] = 4
      BY <1>1, <2>5, <3>2 DEF RTReadData, RTRead, Reads, Item
    <3>4. QED
      BY <2>1, <3>2, <3>3 DEF SingleRead, ReadOrEnd
  <2>6. QED
    BY <1>3, <2>2, <2>3, <2>4, <2>5 DEF OrderlyRead
<1>4. QED
  BY <1>1, <1>2, <1>3, ReadOutcomes

(* Only these steps change the file array of q, or which segments it holds.*)
LEMMA StoreOutcomes ==
    ASSUME ReceiverTypeOK, [OrderlyNext]_vars, NEW q \in Peers
    PROVE  \/ GReadData(q)
           \/ \E p \in Peers : OrderlyRead(q, p)
           \/ fi'[q] = fi[q] /\ gGot'[q] = gGot[q] /\ rtPc'[q] = rtPc[q]
<1> DEFINE Same == fi'[q] = fi[q] /\ gGot'[q] = gGot[q] /\ rtPc'[q] = rtPc[q]
<1>1. /\ fi \in [Peers -> [Segs -> Segs \cup {Unset, Garbage}]]
      /\ gGot \in [Peers -> Nat]
      /\ rtPc \in [Peers -> [Peers -> {"accept", "n", "size", "data", "done", "garbled", "spin"}]]
  BY DEF ReceiverTypeOK
<1>2. ASSUME NEW x \in Peers, OrderlyMain(x)
      PROVE  UNCHANGED <<fi, gGot, rtPc>>
  <2>1. CASE RConnect(x) \/ RConnectFails(x) \/ RHello(x) \/ RReset(x)
    BY <2>1 DEF RConnect, RConnectFails, RHello, RReset, getVars, readVars
  <2>2. CASE RInfo(x) \/ RListen(x) \/ RBindFails(x) \/ OrderlySave(x)
    BY <2>2 DEF RInfo, RListen, RBindFails, OrderlySave, RSave, getVars, readVars
  <2>3. QED
    BY <1>2, <2>1, <2>2 DEF OrderlyMain
<1>3. ASSUME NEW x \in Peers, OrderlyGet(x)
      PROVE  GReadData(q) \/ Same
  <2>1. CASE GSkipSelf(x) \/ OwnConnect(x) \/ GReadN(x) \/ GReadSize(x) \/ GJoin(x)
    BY <2>1 DEF GSkipSelf, OwnConnect, GConnect, GReadN, GReadSize, GJoin, readVars
  <2>2. CASE GReadData(x) /\ x # q
    BY <1>1, <2>2 DEF GReadData, readVars
  <2>3. QED
    BY <1>3, <2>1, <2>2 DEF OrderlyGet
<1>4. ASSUME NEW x \in Peers, NEW y \in Peers, NEW s \in Segs, OrderlyPush(x, y, s)
      PROVE  Same
  BY <1>4 DEF OrderlyPush, PushN, PushSize, PushData, PushWrite, getVars, readVars
<1>5. ASSUME NEW x \in Peers, NEW y \in Peers, OrderlyRead(y, x), y # q
      PROVE  Same
  <2>1. CASE RTAccept(y, x)
    BY <1>1, <1>5, <2>1 DEF RTAccept, Reads, getVars
  <2>2. CASE RTReadN(y, x)
    BY <1>1, <1>5, <2>2 DEF RTReadN, RTRead, Reads, getVars
  <2>3. CASE RTReadSize(y, x)
    BY <1>1, <1>5, <2>3 DEF RTReadSize, RTRead, Reads, getVars
  <2>4. CASE RTReadData(y, x)
    BY <1>1, <1>5, <2>4 DEF OrderlyRead, RTReadData, RTRead, Reads, getVars
  <2>5. QED
    BY <1>5, <2>1, <2>2, <2>3, <2>4 DEF OrderlyRead
<1>6. CASE OrderlySender \/ Terminated \/ ShortOfPeers \/ UNCHANGED vars
  BY <1>6 DEF OrderlySender, SenderStep, Terminated, ShortOfPeers, vars, receiverVars, getVars, readVars
<1>7. QED
  BY <1>2, <1>3, <1>4, <1>5, <1>6 DEF OrderlyNext

(* A thread that has ended read a connection to the end, and its peer had  *)
(* its number by then.                                                     *)
LEMMA ReaderKnows ==
    ASSUME SenderInv, SenderInv', ReceiverInv, ReceiverInv', CountInv, [OrderlyNext]_vars,
           NEW p \in Peers, NEW q \in Peers, rtPc[q][p] # "accept"
    PROVE  Joined(p) /\ myNo'[p] = myNo[p]
BY FirstIsCount, NumberStays DEF CountInv, ReadCount

(* The read of a segment from the sender, as far as the file array sees it.*)
LEMMA SenderSegment ==
    ASSUME SenderInv, ReceiverInv, NEW q \in Peers, GReadData(q)
    PROVE  /\ Joined(q) /\ gN[q] \in Segs /\ gN[q] \notin Got(q) /\ gN[q] \in Share(myNo[q])
           /\ Got(q)' = Got(q) \cup {gN[q]}
           /\ fi' = [fi EXCEPT ![q][gN[q]] = gN[q]]
           /\ UNCHANGED <<rPc, myNo, rtPc, ri>>
<1>1. Running(q) /\ gPc[q] = "data" /\ Len(down[q]) > gPos[q] /\ down' = down
      /\ UNCHANGED <<rPc, myNo, rtPc, ri>>
  BY DEF GReadData, GRead, senderVars, mainVars, readVars
<1>2. Joined(q) /\ GetInv(q) /\ StageInv(q) /\ Informed(q)
  BY <1>1, RunningFacts
<1>3. /\ gGot[q] \in Nat /\ down[q][gPos[q] + 1].kind = "data"
      /\ down[q][gPos[q] + 1].val = down[q][3 * gGot[q] + 3].val
      /\ down[q][3 * gGot[q] + 3].val \in Segs
      /\ gPos[q] \in Nat /\ gPos[q] + 1 <= Len(down[q]) /\ Len(down[q]) \in Nat
  BY <1>1, NextItem
<1>4. gN[q] = down[q][3 * gGot[q] + 3].val /\ 3 * gGot[q] + 3 <= Len(down[q])
  BY <1>1, <1>2, <1>3 DEF GetInv
<1>5. gN[q] \notin Got(q)
  <2>1. SUFFICES ASSUME NEW j \in 0 .. gGot[q] - 1, gN[q] = down[q][3 * j + 3].val
                 PROVE  FALSE
    BY DEF Got
  <2>2. j \in Nat /\ 3 * j + 3 <= Len(down[q]) /\ j # gGot[q]
    BY <1>2, <1>3, <1>4, <2>1, GotShare
  <2>3. QED
    BY <1>2, <1>3, <1>4, <2>1, <2>2, FrameHeads
<1>6. gGot'[q] = gGot[q] + 1
  BY DEF GReadData, ReceiverInv, ReceiverTypeOK
<1>7. Got(q)' = Got(q) \cup {gN[q]}
  BY <1>1, <1>3, <1>4, <1>6, GotOneMore
<1>8. fi' = [fi EXCEPT ![q][gN[q]] = gN[q]]
  BY <1>3, <1>4 DEF GReadData, Contents
<1>9. gN[q] \in Share(myNo[q])
  BY <1>2, <1>3, <1>4, FrameHeads
<1>10. QED
  BY <1>1, <1>2, <1>3, <1>4, <1>5, <1>7, <1>8, <1>9

(* The read of a segment from another receiver, likewise.                  *)
LEMMA RelayedSegment ==
    ASSUME OneSegmentEach, SenderInv, ReceiverInv, CountInv, SingleInv,
           NEW p \in Peers, NEW q \in Peers, OrderlyRead(q, p), RTReadData(q, p)
    PROVE  /\ Joined(p) /\ myNo[p] \in Segs /\ myNo[p] \in Got(p)
           /\ rtPc[q][p] = "data" /\ rtPc' = [rtPc EXCEPT ![q][p] = "done"]
           /\ fi' = [fi EXCEPT ![q][myNo[p]] = myNo[p]]
           /\ UNCHANGED <<rPc, myNo, gGot, down>>
<1>1. rtPc[q][p] = "data" /\ Len(push[p][q]) > rtPos[q][p] /\ UNCHANGED <<rPc, myNo, gGot, down>>
  BY DEF RTReadData, RTRead, Reads, mainVars, getVars, senderVars
<1>2. /\ Joined(p) /\ myNo[p] \in Segs /\ myNo[p] \in Got(p) /\ rtLeft[q][p] = 1
      /\ push[p][q][rtPos[q][p] + 1] = Item("data", myNo[p])
  BY <1>1, NextRelayed DEF CountInv, SingleInv
<1>3. rtN[q][p] = myNo[p]
  BY <1>1 DEF SingleInv, SingleRead
<1>4. fi' = [fi EXCEPT ![q][myNo[p]] = myNo[p]]
  BY <1>2, <1>3 DEF OrderlyRead, RTReadData, Contents, Item
<1>5. rtPc' = [rtPc EXCEPT ![q][p] = "done"]
  <2>1. ReadOrEnd(rtLeft[q][p] - 1) = "done"
    BY <1>2 DEF ReadOrEnd
  <2>2. push[p][q][rtPos[q][p] + 1].kind = "data"
    BY <1>2 DEF Item
  <2>3. QED
    BY <2>1, <2>2 DEF RTReadData, RTRead, Reads
<1>6. QED
  BY <1>1, <1>2, <1>4, <1>5

LEMMA SingleStoreInv ==
    ASSUME OneSegmentEach, SenderInv, SenderInv', ReceiverInv, ReceiverInv',
           CountInv, SingleInv, [OrderlyNext]_vars, NEW q \in Peers
    PROVE  SingleStore(q)'
<1>1. /\ fi \in [Peers -> [Segs -> Segs \cup {Unset, Garbage}]]
      /\ rtPc \in [Peers -> [Peers -> {"accept", "n", "size", "data", "done", "garbled", "spin"}]]
      /\ ReceiverTypeOK /\ SenderTypeOK
  BY DEF ReceiverInv, ReceiverTypeOK, SenderInv
<1>2. SingleStore(q)
  BY DEF SingleInv
<1>3. \A p \in Peers : rtPc[q][p] = "done" => myNo'[p] = myNo[p]
  BY ReaderKnows
<1>4. ASSUME gGot'[q] = gGot[q]
      PROVE  Got(q)' = Got(q)
  <2>1. CASE Joined(q)
    <3>1. GetInv(q) /\ LogsGrow
      BY <2>1, OrderlyRefines, SenderLogsGrow DEF ReceiverInv
    <3>2. QED
      BY <1>1, <1>4, <3>1, GotStays
  <2>2. CASE ~Joined(q)
    <3>1. gGot[q] = 0
      BY <2>2 DEF ReceiverInv, StageInv, Idle
    <3>2. QED
      BY <1>4, <3>1 DEF Got
  <2>3. QED
    BY <2>1, <2>2
<1>5. ASSUME fi'[q] = fi[q], gGot'[q] = gGot[q],
             \A p \in Peers : rtPc'[q][p] = "done" =>
                                rtPc[q][p] = "done" \/ myNo'[p] \notin Segs,
             \A p \in Peers : rtPc[q][p] = "done" => rtPc'[q][p] = "done"
      PROVE  SingleStore(q)'
  <2>1. \A s \in Segs : Holds(q, s)' <=> Holds(q, s)
    BY <1>3, <1>4, <1>5 DEF Holds
  <2>2. QED
    BY <1>2, <1>5, <2>1 DEF SingleStore
<1>6. CASE GReadData(q)
  <2>1. /\ gN[q] \in Segs /\ Got(q)' = Got(q) \cup {gN[q]} /\ UNCHANGED <<myNo, rtPc>>
        /\ fi' = [fi EXCEPT ![q][gN[q]] = gN[q]]
    BY <1>6, SenderSegment
  <2>2. \A s \in Segs : Holds(q, s)' <=> Holds(q, s) \/ s = gN[q]
    BY <2>1 DEF Holds
  <2>3. \A s \in Segs : fi'[q][s] = IF s = gN[q] THEN s ELSE fi[q][s]
    BY <1>1, <2>1
  <2>4. QED
    BY <1>2, <2>2, <2>3 DEF SingleStore
<1>7. ASSUME NEW p \in Peers, OrderlyRead(q, p)
      PROVE  SingleStore(q)'
  <2>1. myNo' = myNo /\ gGot' = gGot
    BY <1>7 DEF OrderlyRead, RTAccept, Reads, RTReadN, RTReadSize, RTReadData, mainVars, getVars
  <2>2. CASE RTAccept(q, p)
    <3>1. fi' = fi /\ push[p][q] # <<>> /\ rtPc[q][p] = "accept"
          /\ rtPc' = [rtPc EXCEPT ![q][p] = ReadOrEnd(push[p][q][1].val)]
      BY <2>2 DEF RTAccept
    <3>2. Joined(p) /\ rtPc' = [rtPc EXCEPT ![q][p] = ReadOrEnd(WillGet(myNo[p]))]
      BY <3>1, FirstIsCount
    <3>3. myNo[p] \in 0 .. MaxPeer - 1
      BY <3>2, Directory DEF ReceiverInv, Joined, Informed
    <3>4. ReadOrEnd(WillGet(myNo[p])) = "done" => myNo[p] \notin Segs
      BY <3>3, OneEach DEF ReadOrEnd
    <3>5. QED
      BY <1>1, <1>5, <2>1, <3>1, <3>2, <3>4
  <2>3. CASE RTReadN(q, p) \/ RTReadSize(q, p)
    <3>1. fi' = fi /\ rtPc[q][p] \in {"n", "size"}
          /\ \E pc \in {"size", "data", "garbled"} : rtPc' = [rtPc EXCEPT ![q][p] = pc]
      BY <2>3 DEF RTReadN, RTReadSize, RTRead, Reads
    <3>2. QED
      BY <1>1, <1>5, <2>1, <3>1
  <2>4. CASE RTReadData(q, p)
    <3>1. /\ myNo[p] \in Segs /\ rtPc' = [rtPc EXCEPT ![q][p] = "done"]
          /\ fi' = [fi EXCEPT ![q][myNo[p]] = myNo[p]]
      BY <1>7, <2>4, RelayedSegment
    <3>2. \A s \in Segs : Holds(q, s)' <=> Holds(q, s) \/ s = myNo[p]
      BY <1>1, <1>4, <2>1, <3>1 DEF Holds
    <3>3. \A s \in Segs : fi'[q][s] = IF s = myNo[p] THEN s ELSE fi[q][s]
      BY <1>1, <3>1
    <3>4. QED
      BY <1>2, <3>2, <3>3 DEF SingleStore
  <2>5. QED
    BY <1>7, <2>2, <2>3, <2>4 DEF OrderlyRead
<1>8. CASE fi'[q] = fi[q] /\ gGot'[q] = gGot[q] /\ rtPc'[q] = rtPc[q]
  BY <1>5, <1>8
<1>9. QED
  BY <1>1, <1>6, <1>7, <1>8, StoreOutcomes

LEMMA SingleInit == Init => SingleInv
<1>1. SUFFICES ASSUME RInit, NEW q \in Peers
               PROVE  /\ \A p \in Peers : SinglePush(p, q) /\ SingleRead(q, p)
                      /\ SingleStore(q)
  BY DEF Init, SingleInv
<1>2. \A p \in Peers : push[p][q] = <<>> /\ rtPc[q][p] = "accept"
  BY <1>1 DEF RInit
<1>3. gGot[q] = 0 /\ \A s \in Segs : fi[q][s] = Unset
  BY <1>1 DEF RInit
<1>4. \A s \in Segs : ~Holds(q, s)
  BY <1>2, <1>3 DEF Holds, Got
<1>5. QED
  BY <1>2, <1>3, <1>4 DEF SinglePush, SingleRead, SingleStore

(* With no more segments than receivers, each connection between receivers *)
(* carries one frame in its order, recv_file_from_recv (p2p.c:227-295)     *)
(* reads it as what it is, and a receiver holds exactly what it has read.  *)
LEMMA SingleNextInv ==
    ASSUME OneSegmentEach, SenderInv, SenderInv', ReceiverInv, ReceiverInv', CountInv, SingleInv,
           [OrderlyNext]_vars
    PROVE  SingleInv'
<1>1. \A p, q \in Peers : SinglePush(p, q)' /\ SingleRead(q, p)'
  BY SinglePushInv, SingleReadInv DEF CountInv, SingleInv
<1>2. \A q \in Peers : SingleStore(q)'
  BY SingleStoreInv
<1>3. QED
  BY <1>1, <1>2 DEF SingleInv

LEMMA SavedHasShare ==
    ASSUME SenderInv, ReceiverInv, NEW p \in Peers, rPc[p] = "saved"
    PROVE  /\ gPos[p] = Len(down[p])
           /\ \A s \in Segs : Peer(s % MaxPeer) = p => Written(s) = 3
<1>1. Joined(p) /\ Informed(p) /\ StageInv(p) /\ gPc[p] = "done"
  BY DEF ReceiverInv, SaveInv, Joined, Informed
<1>2. gPos[p] = Len(down[p]) /\ \A s \in Share(myNo[p]) : Written(s) = 3
  BY <1>1, AllRead
<1>3. ASSUME NEW s \in Segs, Peer(s % MaxPeer) = p
      PROVE  s \in Share(myNo[p])
  <2>1. MaxPeer \in Nat \ {0} /\ s \in Nat
    BY SenderAssumption DEF Segs
  <2>2. s % MaxPeer \in 0 .. MaxPeer - 1
    BY <2>1, DivMod
  <2>3. (s % MaxPeer) + 1 \in 1 .. MaxPeer /\ recvSock[(s % MaxPeer) + 1] = p
    BY <1>3, <2>1, <2>2 DEF Peer
  <2>4. (s % MaxPeer) + 1 = myNo[p] + 1 /\ myNo[p] \in 0 .. MaxPeer - 1
    BY <1>1, <2>3, Directory
  <2>5. QED
    BY <2>1, <2>2, <2>4 DEF Share
<1>4. QED
  BY <1>2, <1>3

(* A receiver that saves has read its connections from the others to the   *)
(* end, too.                                                               *)
LEMMA SavedHasRest ==
    ASSUME OneSegmentEach, SenderInv, ReceiverInv, CountInv, SingleInv,
           NEW p \in Peers, rPc[p] = "saved", NEW q \in Others(p)
    PROVE  rtPos[p][q] = Len(push[q][p])
<1>1. Informed(p) /\ StageInv(p) /\ rtPc[p][q] = "done"
  BY DEF ReceiverInv, SaveInv, Joined, Informed
<1>2. q \in Peers
  <2>1. Others(p) = Accepted \ {p}
    BY <1>1, Directory
  <2>2. Accepted \subseteq Peers
    BY DEF Accepted, SenderInv, SenderTypeOK
  <2>3. QED
    BY <2>1, <2>2
<1>3. rtPos[p][q] = 1 + 3 * WillGet(myNo[q]) /\ rtPos[p][q] <= Len(push[q][p]) /\ push[q][p] # <<>>
  BY <1>1, <1>2 DEF SingleInv, SingleRead, CountInv, ReadCount
<1>4. Joined(q) /\ Informed(q) /\ StageInv(q)
  BY <1>2, <1>3, FirstIsCount DEF ReceiverInv, Joined, Informed
<1>5. myNo[q] \in 0 .. MaxPeer - 1
  BY <1>2, <1>4, Directory
<1>6. WillGet(myNo[q]) = IF myNo[q] \in Segs THEN 1 ELSE 0
  BY <1>5, OneEach
<1>7. Len(push[q][p]) = 1 + (IF myNo[q] \in Segs THEN PushWritten(q, p, myNo[q]) ELSE 0)
  BY <1>2, <1>3 DEF SingleInv, SinglePush
<1>8. PushWritten(q, p, myNo[q]) \in 0 .. 3
  BY DEF PushWritten
<1>9. QED
  BY <1>3, <1>6, <1>7, <1>8

-----------------------------------------------------------------------------
(* The protocol implements the distribution of a file in pieces.           *)

LEMMA NumbersDiffer ==
    ASSUME SenderInv, ReceiverInv, NEW x \in Peers, NEW y \in Peers,
           Joined(x), Joined(y), myNo[x] = myNo[y]
    PROVE  x = y
<1>1. StageInv(x) /\ StageInv(y) /\ Informed(x) /\ Informed(y)
  BY DEF ReceiverInv, Joined, Informed
<1>2. myNo[x] \in 0 .. MaxPeer - 1 /\ \A j \in 1 .. MaxPeer : recvSock[j] = x <=> j = myNo[x] + 1
  BY <1>1, Directory
<1>3. \A j \in 1 .. MaxPeer : recvSock[j] = y <=> j = myNo[y] + 1
  BY <1>1, Directory
<1>4. myNo[x] + 1 \in 1 .. MaxPeer
  BY <1>2, SenderAssumption
<1>5. QED
  BY <1>2, <1>3, <1>4

(* Who holds a segment: its own receiver has it first.                     *)
LEMMA HoldsFrom ==
    ASSUME OneSegmentEach, SenderInv, ReceiverInv, CountInv, SingleInv,
           NEW q \in Peers, NEW p \in Peers, Joined(p), NEW s \in Segs, s = myNo[p], Holds(q, s)
    PROVE  s \in Got(p) /\ (q # p => rtPc[q][p] = "done")
<1>1. CASE s \in Got(q)
  <2>1. Joined(q)
    <3>1. gGot[q] # 0
      BY <1>1 DEF Got
    <3>2. QED
      BY <3>1 DEF ReceiverInv, StageInv, Idle
  <2>2. s = myNo[q]
    BY <1>1, <2>1, SingleGot
  <2>3. QED
    BY <1>1, <2>1, <2>2, NumbersDiffer
<1>2. ASSUME NEW x \in Peers, rtPc[q][x] = "done", myNo[x] = s
      PROVE  s \in Got(p) /\ (q # p => rtPc[q][p] = "done")
  <2>1. push[x][q] # <<>> /\ rtPos[q][x] <= Len(push[x][q])
    BY <1>2 DEF CountInv, ReadCount
  <2>2. x = p
    BY <1>2, <2>1, FirstIsCount, NumbersDiffer
  <2>3. StageInv(p) /\ Informed(p) /\ RelayInv(p)
    BY DEF ReceiverInv, Joined, Informed
  <2>4. WillGet(myNo[p]) = 1
    BY <2>3, Directory, OneEach
  <2>5. rtPos[q][p] = 4
    BY <1>2, <2>2, <2>4 DEF SingleInv, SingleRead
  <2>6. Len(push[p][q]) = 1 + PushWritten(p, q, s)
    BY <2>1, <2>2 DEF SingleInv, SinglePush
  <2>7. PushWritten(p, q, s) # 0
    BY <2>1, <2>2, <2>5, <2>6
  <2>8. pushPc[p][q][s] # "none"
    BY <2>7 DEF PushWritten
  <2>9. QED
    BY <1>2, <2>2, <2>3, <2>8 DEF RelayInv
<1>3. QED
  BY <1>1, <1>2 DEF Holds

(* In the file array only what is held.                                    *)
LEMMA HaveIsHolds ==
    ASSUME SingleInv, NEW q \in Peers, NEW s \in Segs
    PROVE  fi[q][s] = s <=> Holds(q, s)
BY ReceiverAssumption DEF SingleInv, SingleStore

(* Only these steps change what the specification of the distribution sees.*)
LEMMA DistOutcomes ==
    ASSUME ReceiverTypeOK, [OrderlyNext]_vars
    PROVE  \/ \E q \in Peers : GReadData(q) \/ OrderlySave(q)
           \/ \E p, q \in Peers : OrderlyRead(q, p) /\ RTReadData(q, p)
           \/ fi' = fi /\ \A p \in Peers : rPc'[p] = "saved" <=> rPc[p] = "saved"
<1> DEFINE Same == fi' = fi /\ \A p \in Peers : rPc'[p] = "saved" <=> rPc[p] = "saved"
<1>1. rPc \in [Peers -> {"start", "hello", "info", "listen", "join", "saved", "exited", "killed", "crashed"}]
  BY DEF ReceiverTypeOK
<1>2. ASSUME NEW x \in Peers, OrderlyMain(x), ~OrderlySave(x)
      PROVE  Same
  <2>1. fi' = fi /\ rPc[x] # "saved"
        /\ \E pc \in {"hello", "info", "listen", "join", "exited", "killed"} :
             rPc' = [rPc EXCEPT ![x] = pc]
    BY <1>2 DEF OrderlyMain, RConnect, RConnectFails, RHello, RReset, RInfo, RListen, RBindFails
  <2>2. QED
    BY <1>1, <2>1
<1>3. ASSUME NEW x \in Peers, OrderlyGet(x), ~GReadData(x)
      PROVE  Same
  BY <1>3 DEF OrderlyGet, GSkipSelf, OwnConnect, GConnect, GReadN, GReadSize, GJoin, mainVars
<1>4. ASSUME NEW x \in Peers, NEW y \in Peers, NEW s \in Segs, OrderlyPush(x, y, s)
      PROVE  Same
  BY <1>4 DEF OrderlyPush, PushN, PushSize, PushData, PushWrite, mainVars
<1>5. ASSUME NEW x \in Peers, NEW y \in Peers, OrderlyRead(y, x), ~RTReadData(y, x)
      PROVE  Same
  BY <1>5 DEF OrderlyRead, RTAccept, Reads, RTReadN, RTReadSize, mainVars
<1>6. CASE OrderlySender \/ Terminated \/ ShortOfPeers \/ UNCHANGED vars
  BY <1>6 DEF OrderlySender, SenderStep, Terminated, ShortOfPeers, vars, receiverVars, mainVars
<1>7. QED
  BY <1>2, <1>3, <1>4, <1>5, <1>6 DEF OrderlyNext

(* A receiver whose threads have returned holds every segment.             *)
LEMMA AllHeld ==
    ASSUME OneSegmentEach, SenderInv, ReceiverInv, CountInv, SingleInv, NEW p \in Peers,
           Running(p), gPc[p] = "done", \A q \in Others(p) : rtPc[p][q] = "done", NEW s \in Segs
    PROVE  Holds(p, s)
<1>1. /\ Others(p) = Accepted \ {p} /\ Len(recvSock) = MaxPeer /\ MaxPeer \in Nat \ {0}
      /\ \A j \in 1 .. MaxPeer : recvSock[j] \in Peers
      /\ myNo[p] \in 0 .. MaxPeer - 1
      /\ \A j \in 1 .. MaxPeer : recvSock[j] = p <=> j = myNo[p] + 1
  BY RunningFacts
<1>2. Got(p) = Share(myNo[p])
  BY AllRead
<1>3. s + 1 \in 1 .. MaxPeer /\ s \in 0 .. MaxPeer - 1
  BY <1>1, SenderAssumption DEF Segs, OneSegmentEach
<1> DEFINE q == recvSock[s + 1]
<1>4. q \in Peers /\ q \in Accepted
  BY <1>1, <1>3 DEF Accepted
<1>5. CASE q = p
  <2>1. s = myNo[p]
    BY <1>1, <1>3, <1>5
  <2>2. QED
    BY <1>1, <1>2, <2>1, OneEach DEF Holds
<1>6. CASE q # p
  <2>1. rtPc[p][q] = "done"
    BY <1>1, <1>4, <1>6
  <2>2. Joined(q)
    BY <1>4, <2>1, FirstIsCount DEF CountInv, ReadCount
  <2>3. /\ myNo[q] \in 0 .. MaxPeer - 1
        /\ \A j \in 1 .. MaxPeer : recvSock[j] = q <=> j = myNo[q] + 1
    BY <1>4, <2>2, Directory DEF ReceiverInv, Joined, Informed
  <2>4. myNo[q] = s
    BY <1>3, <2>3
  <2>5. QED
    BY <1>4, <2>1, <2>4 DEF Holds
<1>7. QED
  BY <1>5, <1>6

LEMMA StepDistributes ==
    ASSUME OneSegmentEach, SenderInv, ReceiverInv, CountInv, SingleInv, [OrderlyNext]_vars
    PROVE  [Dist!Next]_(Dist!distVars)
<1> DEFINE have == [p \in Peers |-> {s \in Segs : fi[p][s] = s}]
           finished == {p \in Peers : rPc[p] = "saved"}
<1>1. /\ fi \in [Peers -> [Segs -> Segs \cup {Unset, Garbage}]]
      /\ rPc \in [Peers -> {"start", "hello", "info", "listen", "join", "saved", "exited", "killed", "crashed"}]
      /\ ReceiverTypeOK
  BY DEF ReceiverInv, ReceiverTypeOK
<1>2. \A q \in Peers, s \in Segs : s \in have[q] <=> Holds(q, s)
  BY HaveIsHolds
<1>3. ASSUME NEW q \in Peers, NEW s \in Segs, fi' = [fi EXCEPT ![q][s] = s]
      PROVE  have' = [have EXCEPT ![q] = @ \cup {s}]
  <2>1. ASSUME NEW p \in Peers
        PROVE  have'[p] = IF p = q THEN have[p] \cup {s} ELSE have[p]
    <3>1. \A r \in Segs : fi'[p][r] = IF p = q /\ r = s THEN s ELSE fi[p][r]
      BY <1>1, <1>3
    <3>2. QED
      BY <3>1
  <2>2. QED
    BY <2>1
<1>4. CASE fi' = fi /\ \A p \in Peers : rPc'[p] = "saved" <=> rPc[p] = "saved"
  BY <1>4 DEF Dist!distVars
<1>5. ASSUME NEW q \in Peers, GReadData(q)
      PROVE  Dist!Next
  <2>1. PICK s \in Segs : s = gN[q]
    BY <1>5, SenderSegment
  <2>2. /\ Joined(q) /\ s \in Segs /\ s \notin Got(q) /\ s \in Share(myNo[q])
        /\ fi' = [fi EXCEPT ![q][s] = s] /\ rPc' = rPc
    BY <1>5, <2>1, SenderSegment
  <2>3. s = myNo[q]
    BY <2>2, OneEach, Directory DEF ReceiverInv, Joined, Informed
  <2>4. \A p \in Peers : s \notin have[p]
    BY <1>2, <2>2, <2>3, HoldsFrom
  <2>5. have' = [have EXCEPT ![q] = @ \cup {s}] /\ finished' = finished
    BY <1>3, <2>2
  <2>6. Dist!Seed(q, s)
    BY <2>4, <2>5 DEF Dist!Seed
  <2>7. QED
    BY <2>2, <2>6 DEF Dist!Next
<1>6. ASSUME NEW p \in Peers, NEW q \in Peers, OrderlyRead(q, p), RTReadData(q, p)
      PROVE  Dist!Next
  <2>1. PICK s \in Segs : s = myNo[p]
    BY <1>6, RelayedSegment
  <2>2. /\ Joined(p) /\ s \in Segs /\ s \in Got(p) /\ rtPc[q][p] = "data"
        /\ fi' = [fi EXCEPT ![q][s] = s] /\ rPc' = rPc
    BY <1>6, <2>1, RelayedSegment
  <2>3. q # p
    BY <2>2 DEF CountInv, ReadCount, ReceiverInv, ConnectInv
  <2>4. s \in have[p] \ have[q]
    <3>1. Holds(p, s)
      BY <2>2 DEF Holds
    <3>2. ~Holds(q, s)
      BY <2>2, <2>3, <2>1, HoldsFrom
    <3>3. QED
      BY <1>2, <2>2, <3>1, <3>2
  <2>5. have' = [have EXCEPT ![q] = @ \cup {s}] /\ finished' = finished
    BY <1>3, <2>2
  <2>6. Dist!Relay(p, q, s)
    BY <2>4, <2>5 DEF Dist!Relay
  <2>7. QED
    BY <2>2, <2>6 DEF Dist!Next
<1>8. ASSUME NEW p \in Peers, OrderlySave(p)
      PROVE  Dist!Next
  <2>1. /\ Running(p) /\ gPc[p] = "done" /\ \A q \in Others(p) : rtPc[p][q] = "done"
        /\ fi' = fi /\ rPc[p] = "join" /\ rPc' = [rPc EXCEPT ![p] = "saved"]
    BY <1>8 DEF OrderlySave, RSave, AllReturned, SaveFile, Running
  <2>2. have[p] = Segs
    BY <1>2, <2>1, AllHeld
  <2>3. have' = have /\ finished' = finished \cup {p} /\ p \notin finished
    BY <1>1, <2>1
  <2>4. Dist!Finish(p)
    BY <2>2, <2>3 DEF Dist!Finish
  <2>5. QED
    BY <2>4 DEF Dist!Next
<1>9. QED
  BY <1>1, <1>4, <1>5, <1>6, <1>8, DistOutcomes
-----------------------------------------------------------------------------
(* Undisturbed, every step is one of OrderlyNext.                          *)

(* Whoever connect() was to reach, it has reached.                         *)
AtOwn == \A p, q \in Peers : at[p][q] = q

OrderlyInv == ReceiverInv /\ EndInv /\ CountInv /\ SingleInv /\ AtOwn

LEMMA AcceptedSize ==
    ASSUME SenderInv, Len(recvSock) = MaxPeer
    PROVE  IsFiniteSet(Accepted) /\ Cardinality(Accepted) = MaxPeer
<1> DEFINE f == [j \in 1 .. MaxPeer |-> recvSock[j]]
<1>1. MaxPeer \in Nat
  BY SenderAssumption
<1>2. f \in Bijection(1 .. MaxPeer, Accepted)
  <2>1. \A i, j \in 1 .. MaxPeer : recvSock[i] = recvSock[j] => i = j
    BY DEF SenderInv, GreetInv
  <2>2. f \in [1 .. MaxPeer -> Accepted] /\ \A q \in Accepted : \E j \in 1 .. MaxPeer : f[j] = q
    BY DEF Accepted
  <2>3. f \in Injection(1 .. MaxPeer, Accepted)
    BY <2>1, <2>2 DEF Injection, IsInjective
  <2>4. f \in Surjection(1 .. MaxPeer, Accepted)
    BY <2>2 DEF Surjection
  <2>5. QED
    BY <2>3, <2>4 DEF Bijection
<1>3. IsFiniteSet(1 .. MaxPeer) /\ Cardinality(1 .. MaxPeer) = MaxPeer
  <2>1. /\ IsFiniteSet(1 .. MaxPeer)
        /\ Cardinality(1 .. MaxPeer) = IF 1 > MaxPeer THEN 0 ELSE MaxPeer - 1 + 1
    BY <1>1, FS_Interval
  <2>2. QED
    BY <1>1, <2>1
<1>4. ExistsBijection(1 .. MaxPeer, Accepted)
  BY <1>2 DEF ExistsBijection
<1>5. QED
  BY <1>3, <1>4, FS_Bijection

(* The threads that were counted are those that read from the others.      *)
LEMMA AllJoined ==
    ASSUME SenderInv, ReceiverInv, CountInv, AtOwn, NEW p \in Peers, Running(p), AllReturned(p)
    PROVE  gPc[p] = "done" /\ \A q \in Others(p) : rtPc[p][q] = "done"
<1> DEFINE D == {c \in AcceptedBy(p) : rtPc[c[2]][c[1]] = "done"}
           Returned == {q \in Others(p) : rtPc[p][q] = "done"}
<1>1. /\ Len(ri[p]) = MaxPeer /\ MaxPeer \in Nat \ {0} /\ Len(recvSock) = MaxPeer
      /\ p \in Accepted /\ Others(p) = Accepted \ {p}
  BY RunningFacts, Directory
<1>2. IsFiniteSet(Others(p)) /\ Cardinality(Others(p)) = MaxPeer - 1
  BY <1>1, AcceptedSize, FS_RemoveElement
<1>3. Cardinality(D) = MaxPeer - 1 /\ gPc[p] = "done"
  BY <1>1 DEF AllReturned
<1>4. D \subseteq Returned \X {p}
  <2>1. SUFFICES ASSUME NEW x \in Peers, NEW y \in Peers, at[x][y] = p, rtPc[y][x] = "done"
                 PROVE  y = p /\ x \in Returned
    BY DEF AcceptedBy
  <2>2. y = p
    BY <2>1 DEF AtOwn
  <2>3. push[x][p] # <<>>
    BY <2>1, <2>2 DEF CountInv, ReadCount
  <2>4. Joined(x)
    BY <2>3, FirstIsCount
  <2>5. x # p /\ StageInv(x) /\ Informed(x)
    BY <2>3, <2>4 DEF ReceiverInv, ConnectInv, Joined, Informed
  <2>6. x \in Accepted
    BY <2>5, Directory
  <2>7. QED
    BY <1>1, <2>1, <2>2, <2>5, <2>6
<1>5. IsFiniteSet(Returned) /\ Cardinality(Returned) <= MaxPeer - 1
      /\ (Cardinality(Returned) = MaxPeer - 1 => Returned = Others(p))
  <2>1. Returned \in SUBSET Others(p)
    OBVIOUS
  <2>2. QED
    BY <1>2, <2>1, FS_Subset
<1>6. Cardinality(D) <= Cardinality(Returned)
  <2>1. IsFiniteSet({p}) /\ Cardinality({p}) = 1
    BY FS_Singleton
  <2>2. IsFiniteSet(Returned \X {p}) /\ Cardinality(Returned \X {p}) = Cardinality(Returned) * 1
    BY <1>5, <2>1, FS_Product
  <2>3. Cardinality(D) <= Cardinality(Returned \X {p})
    BY <1>4, <2>2, FS_Subset
  <2>4. Cardinality(Returned) \in Nat
    BY <1>5, FS_CardinalityType
  <2>5. QED
    BY <2>2, <2>3, <2>4
<1>7. Returned = Others(p)
  <2>1. Cardinality(Returned) \in Nat
    BY <1>5, FS_CardinalityType
  <2>2. Cardinality(Returned) = MaxPeer - 1
    BY <1>1, <1>3, <1>5, <1>6, <2>1
  <2>3. QED
    BY <1>5, <2>2
<1>8. QED
  BY <1>3, <1>7

(* connect() reaches the one that the port is of, when that one listens.   *)
LEMMA ConnectsToOwn ==
    ASSUME OwnPort, SenderInv, ReceiverInv, AtOwn, NEW p \in Peers, GConnect(p)
    PROVE  OwnConnect(p)
<1> DEFINE q == ri[p][gIdx[p] + 1]
<1>1. Running(p) /\ gPc[p] = "connect"
  BY DEF GConnect
<1>2. /\ ri[p] = recvSock /\ Len(recvSock) = MaxPeer /\ MaxPeer \in Nat \ {0} /\ ConnectInv(p)
      /\ \A j \in 1 .. MaxPeer : recvSock[j] \in Peers
  BY <1>1, RunningFacts
<1>3. gIdx[p] \in Nat /\ at \in [Peers -> [Peers -> Peers \cup {Foreign}]]
  BY DEF ReceiverInv, ReceiverTypeOK
<1>4. q \in Peers
  BY <1>1, <1>2, <1>3 DEF ConnectInv
<1>5. PICK l \in Listeners(port[q]) : at' = [at EXCEPT ![p][q] = l]
  BY DEF GConnect
<1>6. l \in Peers /\ Running(l) /\ port[l] = port[q]
  BY <1>4, <1>5 DEF Listeners, OwnPort
<1>7. l = q
  BY <1>4, <1>6 DEF OwnPort
<1>8. at' = at
  BY <1>3, <1>4, <1>5, <1>7 DEF AtOwn
<1>9. QED
  BY <1>6, <1>7, <1>8 DEF OwnConnect

(* send_file_to_recv never writes to one that has saved.                   *)
LEMMA PipesAreWhole ==
    ASSUME OneSegmentEach, SenderInv, ReceiverInv, CountInv, SingleInv, AtOwn,
           NEW p \in Peers, NEW q \in Peers, NEW s \in Segs
    PROVE  ~PushBrokenPipe(p, q, s)
<1>1. SUFFICES ASSUME PushBrokenPipe(p, q, s)
               PROVE  FALSE
  OBVIOUS
<1>2. /\ Running(p) /\ pushPc[p][q][s] \in {"n", "size", "data"}
      /\ at[p][q] = q /\ at[p][q] \in {Foreign} \cup {l \in Peers : Ended(l)}
  BY <1>1 DEF PushBrokenPipe, AtOwn
<1>3. Ended(q)
  BY <1>2, ReceiverAssumption
<1>4. /\ Joined(p) /\ ConnectInv(p) /\ GetInv(p) /\ RelayInv(p) /\ StageInv(p) /\ Informed(p)
      /\ Len(recvSock) = MaxPeer /\ MaxPeer \in Nat \ {0} /\ Others(p) = Accepted \ {p}
  BY <1>2, RunningFacts
<1>5. s \in Got(p) /\ q \in Others(p)
  BY <1>2, <1>4 DEF RelayInv
<1>6. s = myNo[p]
  BY <1>4, <1>5, SingleGot
<1>7. gPc[p] # "connect" /\ gIdx[p] \in Nat
  BY <1>4, <1>5 DEF Got, GetInv, ReceiverInv, ReceiverTypeOK
<1>8. Joined(q)
  <2>1. PICK j \in 1 .. Len(recvSock) : q = recvSock[j] /\ q # p
    BY <1>4, <1>5 DEF Accepted
  <2>2. j <= gIdx[p]
    BY <1>4, <1>7, <2>1 DEF ConnectInv
  <2>3. QED
    BY <1>4, <2>1, <2>2 DEF ConnectInv
<1>9. rPc[q] = "saved" /\ StageInv(q) /\ Informed(q) /\ SaveInv(q)
  BY <1>3, <1>8 DEF Ended, Joined, Informed, ReceiverInv
<1>10. rtPc[q][p] = "done"
  <2>1. p \in Accepted /\ Others(q) = Accepted \ {q}
    BY <1>4, <1>9, Directory
  <2>2. QED
    BY <1>4, <1>5, <1>9, <2>1 DEF SaveInv
<1>11. WillGet(myNo[p]) = 1
  BY <1>4, <1>6, Directory, OneEach
<1>12. rtPos[q][p] = 4 /\ rtPos[q][p] <= Len(push[p][q]) /\ push[p][q] # <<>>
  BY <1>10, <1>11 DEF SingleInv, SingleRead, CountInv, ReadCount
<1>13. Len(push[p][q]) = 1 + PushWritten(p, q, s)
  BY <1>6, <1>12 DEF SingleInv, SinglePush
<1>14. PushWritten(p, q, s) \in 0 .. 2
  BY <1>2 DEF PushWritten
<1>15. QED
  BY <1>12, <1>13, <1>14

LEMMA OnlyOrderly ==
    ASSUME Undisturbed, SenderInv, OrderlyInv, [Next]_vars
    PROVE  [OrderlyNext]_vars
<1>1. /\ OneSegmentEach /\ OwnPort
      /\ ReceiverInv /\ EndInv /\ CountInv /\ SingleInv /\ AtOwn
  BY DEF Undisturbed, OrderlyInv
<1>2. SenderStep => OrderlySender
  <2>1. ~SBrokenPipe
    <3>1. SUFFICES ASSUME SBrokenPipe
                   PROVE  FALSE
      OBVIOUS
    <3>2. recvSock \in Seq(Peers) /\ gone \subseteq Peers /\ down \in [Peers -> Seq(DownItem)]
          /\ MaxPeer \in Nat \ {0} /\ idx \in Nat
      BY SenderAssumption DEF SenderInv, SenderTypeOK
    <3>3. ASSUME NEW q \in gone
          PROVE  q \in Accepted /\ Len(down[q]) > 1
      <4>1. StageInv(q) /\ Len(down[q]) > 1
        BY <1>1, <3>2, <3>3 DEF ReceiverInv, StageInv
      <4>2. QED
        BY <3>2, <3>3, <4>1, LongLog
    <3>4. sPc = "info" /\ Peer(idx) \in gone
      BY <3>1, <3>3 DEF SBrokenPipe
    <3>5. idx < MaxPeer /\ Len(recvSock) = MaxPeer
      BY <3>4 DEF SenderInv, MainInv, Joining
    <3>6. idx + 1 \in 1 .. Len(recvSock) /\ ~(idx + 1 <= idx)
      BY <3>2, <3>5
    <3>7. Len(down[Peer(idx)]) = 1
      BY <3>4, <3>6 DEF SenderInv, GreetInv, Peer
    <3>8. \A q \in gone : Len(down[q]) > 1
      BY <3>3
    <3>9. Len(down[Peer(idx)]) > 1
      BY <3>4, <3>8
    <3>10. QED
      BY <3>7, <3>9
  <2>2. ASSUME SenderStep, sPc' = "dead"
        PROVE  SBrokenPipe
    <3>1. ~(sPc = "dead")
      BY <1>1 DEF EndInv
    <3>2. ~\E s \in Segs : SenderThread(s)
      BY <2>2, <3>1 DEF SenderThread, TLock, TWriteN, TWriteSize, TWriteData, TWrite, TUnlock, TBrokenPipe
    <3>3. QED
      BY <2>2, <3>1, <3>2 DEF SenderStep, SenderMain, SListen, SAccept, SReadPort, SSendInfo, SSpawn,
                              SSpawned, SJoin
  <2>3. QED
    BY <2>1, <2>2 DEF OrderlySender
<1>3. ASSUME NEW p \in Peers, MainStep(p)
      PROVE  OrderlyMain(p)
  <2>1. ASSUME Running(p), AllReturned(p)
        PROVE  gPc[p] = "done" /\ \A q \in Others(p) : rtPc[p][q] = "done"
    BY <1>1, <2>1, AllJoined
  <2>2. RSave(p) => OrderlySave(p)
    BY <2>1 DEF RSave, OrderlySave
  <2>3. ~RSaveCrash(p)
    <3>1. SUFFICES ASSUME Running(p), AllReturned(p), NEW s \in Segs, fi[p][s] = Unset
                   PROVE  FALSE
      BY DEF RSaveCrash
    <3>2. Holds(p, s)
      BY <1>1, <2>1, <3>1, AllHeld
    <3>3. fi[p][s] = s
      BY <1>1, <3>2 DEF SingleInv, SingleStore
    <3>4. QED
      BY <3>1, <3>3, ReceiverAssumption
  <2>4. QED
    BY <1>3, <2>2, <2>3 DEF MainStep, OrderlyMain
<1>4. ASSUME NEW p \in Peers, GetStep(p)
      PROVE  OrderlyGet(p)
  <2>1. GConnect(p) => OwnConnect(p)
    BY <1>1, ConnectsToOwn
  <2>2. ~GReadEnd(p)
    <3>1. SUFFICES ASSUME Running(p), gPc[p] \in {"n", "size", "data"}, SenderEnded,
                          Len(down[p]) = gPos[p]
                   PROVE  FALSE
      BY DEF GReadEnd
    <3>2. p \in Accepted
      BY <1>1, <3>1, RunningFacts, Directory
    <3>3. Len(down[p]) > gPos[p]
      BY <1>1, <3>1, <3>2, SenderStreamLasts
    <3>4. gPos[p] \in Nat
      BY <1>1 DEF ReceiverInv, ReceiverTypeOK
    <3>5. QED
      BY <3>1, <3>3, <3>4
  <2>3. ~GLost(p) /\ ~GLostCrash(p)
    <3>1. Running(p) => gPc[p] # "lost"
      BY <1>1, RunningFacts DEF GetInv
    <3>2. QED
      BY <3>1 DEF GLost, GLostCrash
  <2>4. QED
    BY <1>4, <2>1, <2>2, <2>3 DEF GetStep, OrderlyGet
<1>5. ASSUME NEW p \in Peers, NEW q \in Peers, NEW s \in Segs, PushStep(p, q, s)
      PROVE  OrderlyPush(p, q, s)
  <2>1. ~PushBrokenPipe(p, q, s)
    BY <1>1, PipesAreWhole
  <2>2. QED
    BY <1>5, <2>1 DEF PushStep, OrderlyPush
<1>6. ASSUME NEW p \in Peers, NEW q \in Peers, ReadStep(q, p)
      PROVE  OrderlyRead(q, p)
  <2>1. at[p][q] = q /\ rtPc[q][p] # "garbled"
    BY <1>1 DEF AtOwn, SingleInv, SingleRead
  <2>2. ~RTReadEnd(q, p)
    <3>1. SUFFICES ASSUME Running(q), rtPc[q][p] \in {"n", "size", "data"}, Ended(p),
                          Len(push[p][q]) = rtPos[q][p]
                   PROVE  FALSE
      BY <2>1 DEF RTReadEnd, Reads
    <3>2. push[p][q] # <<>>
      BY <1>1, <3>1 DEF CountInv, ReadCount
    <3>3. Joined(p)
      BY <1>1, <3>2, FirstIsCount
    <3>4. rPc[p] = "saved"
      BY <3>1, <3>3 DEF Joined, Ended
    <3>5. Len(push[p][q]) > rtPos[q][p]
      BY <1>1, <3>1, <3>4, PeerStreamLasts
    <3>6. rtPos[q][p] \in Nat
      BY <1>1 DEF ReceiverInv, ReceiverTypeOK
    <3>7. QED
      BY <3>1, <3>5, <3>6
  <2>3. ~RTGarbled(q, p) /\ ~RTCrash(q, p)
    BY <2>1 DEF RTGarbled, RTCrash
  <2>4. QED
    BY <1>6, <2>1, <2>2, <2>3 DEF ReadStep, OrderlyRead
<1>7. QED
  BY <1>2, <1>3, <1>4, <1>5, <1>6 DEF Next, OrderlyNext

-----------------------------------------------------------------------------
(* What follows for every behaviour of the whole program.                  *)

LEMMA OrderlyInit == Init => OrderlyInv
<1>1. Init => AtOwn
  <2>1. SUFFICES ASSUME RInit, NEW p \in Peers, NEW q \in Peers
                 PROVE  at[p][q] = q
    BY DEF Init, AtOwn
  <2>2. at = [o \in Peers |-> [t \in Peers |-> t]]
    BY <2>1 DEF RInit
  <2>3. QED
    BY <2>2
<1>2. QED
  BY <1>1, ReceiverInitInv, EndInit, CountInit, SingleInit DEF OrderlyInv

LEMMA OrderlyStep ==
    ASSUME Undisturbed, SenderInv, SenderInv', BasicInv', OrderlyInv, [Next]_vars
    PROVE  OrderlyInv'
<1>1. [OrderlyNext]_vars
  BY OnlyOrderly
<1>2. /\ OneSegmentEach /\ ReceiverInv /\ EndInv /\ CountInv /\ SingleInv /\ AtOwn
      /\ ReceiverTypeOK'
  BY DEF Undisturbed, OrderlyInv, BasicInv
<1>3. ReceiverInv'
  BY <1>1, <1>2, ReceiverNextInv
<1>4. EndInv'
  BY <1>1, <1>2, EndNextInv
<1>5. CountInv'
  BY <1>1, <1>2, <1>3, CountNextInv
<1>6. SingleInv'
  BY <1>1, <1>2, <1>3, SingleNextInv
<1>7. at' = at
  <2>1. ASSUME NEW p \in Peers, OrderlyMain(p)
        PROVE  at' = at
    BY <2>1 DEF OrderlyMain, RConnect, RConnectFails, RHello, RReset, RInfo, RListen, RBindFails,
                OrderlySave, RSave, netVars
  <2>2. ASSUME NEW p \in Peers, OrderlyGet(p)
        PROVE  at' = at
    BY <2>2 DEF OrderlyGet, GSkipSelf, OwnConnect, GReadN, GReadSize, GReadData, GJoin, netVars
  <2>3. ASSUME NEW p \in Peers, NEW q \in Peers, NEW s \in Segs, OrderlyPush(p, q, s)
        PROVE  at' = at
    BY <2>3 DEF OrderlyPush, PushN, PushSize, PushData, PushWrite, netVars
  <2>4. ASSUME NEW p \in Peers, NEW q \in Peers, OrderlyRead(q, p)
        PROVE  at' = at
    BY <2>4 DEF OrderlyRead, RTAccept, RTReadN, RTReadSize, RTReadData, netVars
  <2>5. CASE OrderlySender \/ Terminated \/ ShortOfPeers \/ UNCHANGED vars
    BY <2>5 DEF OrderlySender, SenderStep, Terminated, ShortOfPeers, vars, receiverVars, netVars
  <2>6. QED
    BY <1>1, <2>1, <2>2, <2>3, <2>4, <2>5 DEF OrderlyNext
<1>8. AtOwn'
  BY <1>2, <1>7 DEF AtOwn
<1>9. QED
  BY <1>3, <1>4, <1>5, <1>6, <1>8 DEF OrderlyInv

(* The inductive invariant of the undisturbed program: with a port of its  *)
(* own for every receiver and at most one segment for each, what every     *)
(* receiver has read, stored and passed on follows from where its threads  *)
(* are, and the sender ends with all threads joined or by the SIGPIPE that *)
(* a receiver causes which could not bind its port (p2p.c:199, 523).       *)
THEOREM OrderlyInvariant == Spec => [](Undisturbed => OrderlyInv)
<1>1. Init => (Undisturbed => OrderlyInv)
  BY OrderlyInit
<1>2. ASSUME SenderInv, SenderInv', BasicInv, BasicInv', Undisturbed => OrderlyInv, [Next]_vars
      PROVE  (Undisturbed => OrderlyInv)'
  <2>1. SUFFICES ASSUME Undisturbed'
                 PROVE  OrderlyInv'
    OBVIOUS
  <2>2. port' = port
    BY <1>2, BasicNext
  <2>3. Undisturbed
    BY <2>1, <2>2 DEF Undisturbed, OwnPort, OneSegmentEach
  <2>4. QED
    BY <1>2, <2>3, OrderlyStep
<1>3. QED
  BY <1>1, <1>2, WholeInvariant, PTL DEF Spec

(* Every slot of the file array holds its own segment or nothing, never    *)
(* bytes of another one: recv_file_from_recv takes no item of a connection *)
(* for another (p2p.c:227-295).                                            *)
THEOREM SlotsStayIntact == Spec => [](Undisturbed => SlotsIntact)
<1>1. OrderlyInv => SlotsIntact
  BY DEF OrderlyInv, SingleInv, SingleStore, SlotsIntact
<1>2. QED
  BY <1>1, OrderlyInvariant, PTL

(* Nothing is left on any connection to a receiver that has saved: what    *)
(* will_get_f makes each receiver expect (p2p.c:512) and announce (370) is *)
(* what the round robin of the sender gives it.                            *)
THEOREM NothingIsUnread == Spec => []NothingUnread
<1>1. SenderInv /\ (Undisturbed => OrderlyInv) => NothingUnread
  BY SavedHasShare, SavedHasRest DEF NothingUnread, OrderlyInv, Undisturbed
<1>2. QED
  BY <1>1, WholeInvariant, OrderlyInvariant, PTL

(* No read() of a receiver meets the end of its connection, on which the   *)
(* loops of p2p.c:278 and 390 would spin.                                  *)
THEOREM ReadsMeetNoEnd == Spec => []NoReadAtEnd
<1>1. SenderInv /\ (Undisturbed => OrderlyInv) => NoReadAtEnd
  BY SenderStreamLasts, PeerStreamLasts DEF NoReadAtEnd, OrderlyInv
<1>2. QED
  BY <1>1, WholeInvariant, OrderlyInvariant, PTL

(* The sender dies only by a receiver that could not bind its port; then   *)
(* the others are waiting to connect to that one, none reads from the      *)
(* sender; and no receiver crashes: neither at a slot nobody stored        *)
(* (p2p.c:550) nor by a write to one that has saved (p2p.c:314).           *)
THEOREM NobodyIsDragged == Spec => []NobodyDragged
<1>1. SenderInv /\ (Undisturbed => OrderlyInv) => NobodyDragged
  <2>1. SUFFICES ASSUME SenderInv, ReceiverInv, EndInv
                 PROVE  /\ SenderEnded /\ sPc # "done"
                             => SomeBindFailed /\ \A p \in Peers : gPc[p] = "connect"
                        /\ \A p \in Peers : rPc[p] # "crashed"
    BY DEF NobodyDragged, OrderlyInv
  <2>2. \A p \in Peers : rPc[p] # "crashed"
    BY <2>1 DEF ReceiverInv, StageInv
  <2>3. ASSUME SenderEnded, sPc # "done"
        PROVE  SomeBindFailed /\ \A p \in Peers : gPc[p] = "connect"
    <3>1. \A p \in Peers : gPc[p] = "connect"
      BY <2>1, <2>3, DeadSenderIsUnread
    <3>2. SomeBindFailed
      BY <2>1, <2>3 DEF EndInv, SenderEnded
    <3>3. QED
      BY <3>1, <3>2
  <2>4. QED
    BY <2>2, <2>3
<1>2. QED
  BY <1>1, WholeInvariant, OrderlyInvariant, PTL

(* Each segment reaches one receiver from the sender, every other one from *)
(* that receiver, and a receiver saves only with all of them intact.       *)
THEOREM DistributesFile == Spec /\ Undisturbed => Distributes
<1>1. Init => Dist!Init
  <2>1. SUFFICES ASSUME RInit
                 PROVE  Dist!Init
    BY DEF Init
  <2>2. \A p \in Peers : {s \in Segs : fi[p][s] = s} = {}
    BY <2>1, ReceiverAssumption DEF RInit
  <2>3. {p \in Peers : rPc[p] = "saved"} = {}
    BY <2>1 DEF RInit
  <2>4. QED
    BY <2>2, <2>3 DEF Dist!Init
<1>2. SenderInv /\ BasicInv /\ SenderInv' /\ Undisturbed /\ [Next]_vars => Undisturbed'
  <2>1. SUFFICES ASSUME SenderInv, SenderInv', BasicInv, Undisturbed, [Next]_vars
                 PROVE  Undisturbed'
    OBVIOUS
  <2>2. port' = port
    BY <2>1, BasicNext
  <2>3. QED
    BY <2>1, <2>2 DEF Undisturbed, OwnPort, OneSegmentEach
<1>3. SenderInv /\ Undisturbed /\ (Undisturbed => OrderlyInv) /\ [Next]_vars
        => [Dist!Next]_(Dist!distVars)
  <2>1. SUFFICES ASSUME SenderInv, Undisturbed, OrderlyInv, [Next]_vars
                 PROVE  [Dist!Next]_(Dist!distVars)
    OBVIOUS
  <2>2. OneSegmentEach /\ ReceiverInv /\ CountInv /\ SingleInv /\ [OrderlyNext]_vars
    BY <2>1, OnlyOrderly DEF Undisturbed, OrderlyInv
  <2>3. QED
    BY <2>1, <2>2, StepDistributes
<1>4. QED
  BY <1>1, <1>2, <1>3, WholeInvariant, OrderlyInvariant, PTL DEF Spec, Distributes, Dist!Spec

=============================================================================
