---------------------------- MODULE P2PSenderProofs ----------------------------
(***************************************************************************)
(* Proofs about the sending peer of project/p2p.c, for any set of          *)
(* receiving peers, any MaxPeer and any number of segments.                *)
(***************************************************************************)
EXTENDS P2PSender, TLAPS

-----------------------------------------------------------------------------
(* Arithmetic.                                                             *)

LEMMA DivMod ==
    ASSUME NEW m \in Nat \ {0}, NEW a \in Nat
    PROVE  /\ a \div m \in Nat
           /\ a % m \in 0 .. m - 1
           /\ a = m * (a \div m) + (a % m)
PROOF OBVIOUS

LEMMA ModOfSum ==
    ASSUME NEW m \in Nat \ {0}, NEW q \in Int, NEW r \in 0 .. m - 1
    PROVE  (m * q + r) % m = r
PROOF OBVIOUS

(* The round-robin counter of sender(): incrementing it and wrapping it to *)
(* 0 at recv_count is incrementing modulo recv_count.                      *)
LEMMA WrapIsModulo ==
    ASSUME NEW m \in Nat \ {0}, NEW a \in Nat
    PROVE  (a + 1) % m = IF (a % m) + 1 = m THEN 0 ELSE (a % m) + 1
<1> DEFINE q == a \div m
           r == a % m
<1>1. q \in Nat /\ r \in 0 .. m - 1 /\ a = m * q + r
  BY DivMod
<1>2. CASE r + 1 = m
  <2>1. a + 1 = m * (q + 1) + 0
    BY <1>1, <1>2
  <2>2. (m * (q + 1) + 0) % m = 0
    <3> HIDE DEF q, r
    <3>1. q + 1 \in Int /\ 0 \in 0 .. m - 1
      BY <1>1
    <3>2. QED
      BY <3>1, ModOfSum
  <2>3. QED
    BY <2>1, <2>2, <1>2
<1>3. CASE r + 1 # m
  <2>1. a + 1 = m * q + (r + 1) /\ r + 1 \in 0 .. m - 1
    BY <1>1, <1>3
  <2>2. (a + 1) % m = r + 1
    <3> HIDE DEF q, r
    <3> QED BY <2>1, <1>1, ModOfSum
  <2>3. QED
    BY <2>2, <1>3
<1>4. QED
  BY <1>2, <1>3

LEMMA ModThree ==
    ASSUME NEW a \in Nat
    PROVE  /\ a % 3 \in {0, 1, 2}
           /\ (a + 1) % 3 = IF a % 3 = 2 THEN 0 ELSE (a % 3) + 1
PROOF OBVIOUS

-----------------------------------------------------------------------------
(* Type correctness.                                                       *)

LEMMA InitType == SInit => SenderTypeOK
BY SenderAssumption DEF SInit, SenderTypeOK, Slots, Segs, Free, NoSlot

(* What a receiver finds on its connection are items of these kinds.       *)
LEMMA ItemTypes ==
    /\ \A n \in Slots : Item("no", n) \in DownItem
    /\ Item("info", recvSock) \in DownItem <=> recvSock \in Seq(Peers)
    /\ \A s \in Segs, k \in {"n", "size", "data"} : Item(k, s) \in DownItem
BY DEF Item, DownItem

(* A write() extends the log of one connection by one item and leaves the  *)
(* rest of it, and every other connection, alone.                          *)
LEMMA LogGrows ==
    ASSUME down \in [Peers -> Seq(DownItem)], NEW q \in Peers, NEW it \in DownItem,
           down' = [down EXCEPT ![q] = Append(@, it)]
    PROVE  /\ down' \in [Peers -> Seq(DownItem)]
           /\ \A p \in Peers : Len(down[p]) \in Nat
           /\ \A p \in Peers \ {q} : down'[p] = down[p]
           /\ Len(down'[q]) = Len(down[q]) + 1
           /\ \A j \in 1 .. Len(down[q]) : down'[q][j] = down[q][j]
           /\ down'[q][Len(down[q]) + 1] = it
<1>1. down[q] \in Seq(DownItem) /\ down'[q] = Append(down[q], it)
  OBVIOUS
<1>2. Append(down[q], it) \in Seq(DownItem)
  BY <1>1
<1>3. down' \in [Peers -> Seq(DownItem)]
  BY <1>2
<1>4. \A p \in Peers : Len(down[p]) \in Nat
  OBVIOUS
<1>5. /\ Len(down'[q]) = Len(down[q]) + 1
      /\ \A j \in 1 .. Len(down[q]) : down'[q][j] = down[q][j]
      /\ down'[q][Len(down[q]) + 1] = it
  BY <1>1
<1>6. QED
  BY <1>3, <1>4, <1>5

(* recv_sock[n] is an accepted peer for every n below the count.           *)
LEMMA PeerAccepted ==
    ASSUME recvSock \in Seq(Peers), NEW n \in Nat, n < Len(recvSock)
    PROVE  Peer(n) \in Accepted /\ Peer(n) \in Peers
BY DEF Peer, Accepted

LEMMA LogType ==
    ASSUME down \in [Peers -> Seq(DownItem)], NEW q, NEW it \in DownItem
    PROVE  [down EXCEPT ![q] = Append(@, it)] \in [Peers -> Seq(DownItem)]
<1>1. \A p \in Peers : Append(down[p], it) \in Seq(DownItem)
  <2>1. SUFFICES ASSUME NEW p \in Peers
                 PROVE  Append(down[p], it) \in Seq(DownItem)
    OBVIOUS
  <2>2. down[p] \in Seq(DownItem)
    OBVIOUS
  <2>3. QED
    BY <2>2
<1>2. QED
  BY <1>1

LEMMA NextType == SenderTypeOK /\ [SenderNext]_senderVars => SenderTypeOK'
<1> SUFFICES ASSUME SenderTypeOK, [SenderNext]_senderVars
             PROVE  SenderTypeOK'
  OBVIOUS
<1> USE SenderAssumption DEF SenderTypeOK, linkVars, sVars
<1>1. CASE SListen
  BY <1>1 DEF SListen
<1>2. ASSUME NEW p \in Peers, SAccept(p)
      PROVE  SenderTypeOK'
  <2>1. Item("no", Len(recvSock)) \in DownItem
    BY <1>2, ItemTypes DEF SAccept, Slots
  <2>2. recvSock' \in Seq(Peers) /\ Len(recvSock') <= MaxPeer
    BY <1>2 DEF SAccept
  <2>3. down' \in [Peers -> Seq(DownItem)]
    BY <1>2, <2>1 DEF SAccept
  <2>4. QED
    BY <1>2, <2>2, <2>3 DEF SAccept
<1>3. CASE SReadPort
  BY <1>3 DEF SReadPort
<1>4. CASE SSendInfo
  <2>1. Item("info", recvSock) \in DownItem
    BY ItemTypes
  <2>2. down' \in [Peers -> Seq(DownItem)]
    BY <1>4, <2>1, LogType DEF SSendInfo
  <2>3. idx' \in Nat /\ sPc' \in {"info", "spawn"}
    BY <1>4 DEF SSendInfo
  <2>4. UNCHANGED <<recvSock, rb, thr, dest, mutex, linkVars>>
    BY <1>4 DEF SSendInfo
  <2>5. QED
    BY <2>2, <2>3, <2>4
<1>5. CASE SSpawn
  <2>1. idx \in Segs
    BY <1>5 DEF SSpawn, Segs
  <2>2. thr' \in [Segs -> {"none", "lock", "n", "size", "data", "unlock", "done"}]
    BY <1>5 DEF SSpawn
  <2>3. dest' \in [Segs -> Slots \cup {NoSlot}] /\ rb' \in 0 .. MaxPeer
    <3> DEFINE b == IF rb = MaxPeer THEN 0 ELSE rb
    <3>1. b \in Slots /\ b + 1 \in 0 .. MaxPeer
      BY DEF Slots
    <3>2. dest' = [dest EXCEPT ![idx] = b] /\ rb' = b + 1
      BY <1>5 DEF SSpawn
    <3>3. QED
      <4> HIDE DEF b
      <4> QED BY <3>1, <3>2
  <2>4. idx' \in Nat /\ UNCHANGED <<sPc, recvSock, mutex, down, linkVars>>
    BY <1>5 DEF SSpawn
  <2>5. QED
    BY <2>2, <2>3, <2>4
<1>6. CASE SSpawned
  BY <1>6 DEF SSpawned
<1>7. CASE SJoin
  BY <1>7 DEF SJoin
<1>8. ASSUME NEW s \in Segs, TLock(s)
      PROVE  SenderTypeOK'
  BY <1>8 DEF TLock
<1>9. ASSUME NEW s \in Segs, NEW k \in {"n", "size", "data"},
             NEW then \in {"size", "data", "unlock"}, TWrite(s, k, then)
      PROVE  SenderTypeOK'
  <2>1. Item(k, s) \in DownItem
    BY ItemTypes
  <2>2. down' \in [Peers -> Seq(DownItem)]
    BY <1>9, <2>1, LogType DEF TWrite
  <2>3. thr' \in [Segs -> {"none", "lock", "n", "size", "data", "unlock", "done"}]
    BY <1>9 DEF TWrite
  <2>4. UNCHANGED <<sPc, recvSock, idx, rb, dest, mutex, linkVars>>
    BY <1>9 DEF TWrite
  <2>5. QED
    BY <2>2, <2>3, <2>4
<1>10. ASSUME NEW s \in Segs, TUnlock(s)
       PROVE  SenderTypeOK'
  BY <1>10 DEF TUnlock, Free
<1>11. ASSUME NEW s \in Segs, TBrokenPipe(s)
       PROVE  SenderTypeOK'
  BY <1>11 DEF TBrokenPipe
<1>15. CASE SBrokenPipe
  BY <1>15 DEF SBrokenPipe
<1>12. ASSUME NEW p \in Peers, PeerStep(p)
       PROVE  SenderTypeOK'
  BY <1>12 DEF PeerStep, Dial, SendPort, HangUp
<1>13. CASE UNCHANGED senderVars
  BY <1>13 DEF senderVars
<1>14. QED
  BY <1>1, <1>2, <1>3, <1>4, <1>5, <1>6, <1>7, <1>8, <1>9, <1>10, <1>11, <1>12, <1>13, <1>15
  DEF SenderNext, SenderMain, SenderThread, TWriteN, TWriteSize, TWriteData

(* Type correctness of the sending peer.                                   *)
THEOREM SenderTypeCorrect == SenderSpec => []SenderTypeOK
<1>1. SInit => SenderTypeOK
  BY InitType
<1>2. SenderTypeOK /\ [SenderNext]_senderVars => SenderTypeOK'
  BY NextType
<1>3. QED
  BY <1>1, <1>2, PTL DEF SenderSpec

-----------------------------------------------------------------------------
(* SenderInv is inductive: one lemma for each action.                      *)

LEMMA InitInv == SInit => SenderInv
<1> SUFFICES ASSUME SInit
             PROVE  SenderInv
  OBVIOUS
<1> USE SenderAssumption DEF SInit
<1>1. SenderTypeOK
  BY InitType
<1>2. MainInv
  BY DEF MainInv, Joining, Sending
<1>3. Len(recvSock) = 0 /\ (\A p \in Peers : Len(down[p]) = 0) /\ ~Sending
  BY DEF Sending
<1>4. GreetInv
  BY <1>3 DEF GreetInv, Joining, Accepted
<1>5. MutexInv
  BY DEF MutexInv, InFrame, Free, Segs
<1>6. FramesWhole /\ RoundRobin /\ ItemInv
  BY <1>3 DEF FramesWhole, RoundRobin, ItemInv
<1>7. TailInv
  BY <1>3 DEF TailInv
<1>8. QED
  BY <1>1, <1>2, <1>4, <1>5, <1>6, <1>7 DEF SenderInv

(* A step that leaves the connections and the send threads alone.          *)
LEMMA Quiet ==
    ASSUME SenderInv, UNCHANGED <<recvSock, thr, dest, mutex, down>>, Sending' => Sending
    PROVE  MutexInv' /\ FramesWhole' /\ RoundRobin' /\ ItemInv' /\ TailInv'
<1>1. MutexInv'
  BY DEF SenderInv, MutexInv, InFrame
<1>2. FramesWhole'
  BY DEF SenderInv, FramesWhole
<1>3. RoundRobin'
  BY DEF SenderInv, RoundRobin, Peer
<1>4. ItemInv'
  BY DEF SenderInv, ItemInv, Written, Peer
<1>5. TailInv'
  <2>1. Accepted' = Accepted /\ \A p : Unfinished(p)' = Unfinished(p)
    BY DEF Accepted, Unfinished, Written, Peer
  <2>2. \A s \in Segs : Written(s)' = Written(s)
    BY DEF Written
  <2>3. QED
    <3> SUFFICES ASSUME Sending', NEW p \in Accepted'
                 PROVE  /\ (Len(down[p])' - 2) % 3 # 0 => Unfinished(p)' # {}
                        /\ \A s \in Unfinished(p)' :
                             /\ (Len(down[p])' - 2) % 3 = Written(s)'
                             /\ down'[p][Len(down[p])'] = down[p][Len(down[p])]
                             /\ down[p][Len(down[p])].val = s
      BY DEF TailInv
    <3>1. p \in Accepted /\ down'[p] = down[p] /\ Len(down[p])' = Len(down[p])
      BY <2>1
    <3>2. \A s \in Unfinished(p) : s \in Segs
      BY DEF Unfinished
    <3>3. QED
      BY <2>1, <2>2, <3>1, <3>2 DEF SenderInv, TailInv
<1>6. QED
  BY <1>1, <1>2, <1>3, <1>4, <1>5

LEMMA ListenInv == SenderInv /\ SListen => SenderInv'
<1> SUFFICES ASSUME SenderInv, SListen
             PROVE  SenderInv'
  OBVIOUS
<1> USE SenderAssumption
<1>1. SenderTypeOK'
  BY NextType DEF SenderInv, SenderNext, SenderMain
<1>2. MainInv'
  BY DEF SListen, SenderInv, SenderTypeOK, MainInv, Joining, Sending
<1>3. GreetInv'
  BY DEF SListen, SenderInv, GreetInv, Joining, Sending, Accepted, linkVars
<1>4. MutexInv' /\ FramesWhole' /\ RoundRobin' /\ ItemInv' /\ TailInv'
  BY Quiet DEF SListen, Sending
<1>5. QED
  BY <1>1, <1>2, <1>3, <1>4 DEF SenderInv

LEMMA ReadPortInv == SenderInv /\ SReadPort => SenderInv'
<1> SUFFICES ASSUME SenderInv, SReadPort
             PROVE  SenderInv'
  OBVIOUS
<1> USE SenderAssumption
<1>1. SenderTypeOK'
  BY NextType DEF SenderInv, SenderNext, SenderMain
<1>2. MainInv'
  BY DEF SReadPort, SenderInv, SenderTypeOK, MainInv, Joining, Sending
<1>3. GreetInv'
  <2>1. UNCHANGED <<recvSock, down, idx, portSent, gone>> /\ sPc = "port" /\ sPc' \in {"accept", "info"}
    BY DEF SReadPort, linkVars
  <2>2. idx = 0 /\ recvSock[Len(recvSock)] \in portSent \cup gone /\ gone' = gone
    BY <2>1 DEF SReadPort, SenderInv, MainInv, Joining
  <2>3. \A j \in 1 .. Len(recvSock) : recvSock[j] \in portSent \cup gone /\ Len(down[recvSock[j]]) = 1
    BY <2>1, <2>2 DEF SenderInv, GreetInv, Joining
  <2>4. Accepted' = Accepted
    BY <2>1 DEF Accepted
  <2>5. QED
    BY <2>1, <2>2, <2>3, <2>4 DEF SenderInv, GreetInv, Joining, Sending
<1>4. MutexInv' /\ FramesWhole' /\ RoundRobin' /\ ItemInv' /\ TailInv'
  BY Quiet DEF SReadPort, Sending
<1>5. QED
  BY <1>1, <1>2, <1>3, <1>4 DEF SenderInv

LEMMA EndOfLoopInv == SenderInv /\ (SSpawned \/ SJoin) => SenderInv'
<1> SUFFICES ASSUME SenderInv, SSpawned \/ SJoin
             PROVE  SenderInv'
  OBVIOUS
<1> USE SenderAssumption
<1>1. SenderTypeOK'
  BY NextType DEF SenderInv, SenderNext, SenderMain
<1>2. MainInv'
  BY DEF SSpawned, SJoin, SenderInv, SenderTypeOK, MainInv, Joining, Sending
<1>3. GreetInv'
  BY DEF SSpawned, SJoin, SenderInv, GreetInv, Joining, Sending, Accepted, linkVars
<1>4. MutexInv' /\ FramesWhole' /\ RoundRobin' /\ ItemInv' /\ TailInv'
  BY Quiet DEF SSpawned, SJoin, Sending
<1>5. QED
  BY <1>1, <1>2, <1>3, <1>4 DEF SenderInv

LEMMA PeerInv == ASSUME NEW q \in Peers, SenderInv, PeerStep(q) PROVE SenderInv'
<1> USE SenderAssumption
<1>0. UNCHANGED sVars /\ portSent \subseteq portSent' /\ gone \subseteq gone'
  BY DEF PeerStep, Dial, SendPort, HangUp
<1>1. SenderTypeOK'
  BY NextType DEF SenderInv, SenderNext
<1>2. MainInv'
  BY <1>0 DEF sVars, SenderInv, MainInv, Joining, Sending
<1>3. GreetInv'
  BY <1>0 DEF sVars, SenderInv, GreetInv, Joining, Sending, Accepted
<1>4. MutexInv' /\ FramesWhole' /\ RoundRobin' /\ ItemInv' /\ TailInv'
  BY <1>0, Quiet DEF sVars, Sending
<1>5. QED
  BY <1>1, <1>2, <1>3, <1>4 DEF SenderInv

LEMMA BrokenPipeInv == ASSUME NEW s \in Segs, SenderInv, TBrokenPipe(s) PROVE SenderInv'
<1> USE SenderAssumption
<1>1. SenderTypeOK'
  BY NextType DEF SenderInv, SenderNext, SenderThread
<1>2. MainInv'
  BY DEF TBrokenPipe, ThreadsRun, SenderInv, MainInv, Joining, Sending
<1>3. GreetInv'
  BY DEF TBrokenPipe, ThreadsRun, SenderInv, GreetInv, Joining, Sending, Accepted, linkVars
<1>4. MutexInv' /\ FramesWhole' /\ RoundRobin' /\ ItemInv' /\ TailInv'
  BY Quiet DEF TBrokenPipe, ThreadsRun, Sending
<1>5. QED
  BY <1>1, <1>2, <1>3, <1>4 DEF SenderInv

(* SIGPIPE in the main thread: no thread runs yet.                         *)
LEMMA MainPipeInv == SenderInv /\ SBrokenPipe => SenderInv'
<1> SUFFICES ASSUME SenderInv, SBrokenPipe
             PROVE  SenderInv'
  OBVIOUS
<1> USE SenderAssumption
<1>0. /\ sPc \in {"accept", "info"} /\ sPc' = "dead"
      /\ UNCHANGED <<recvSock, idx, rb, thr, dest, mutex, down, dialled, portSent, gone>>
  BY DEF SBrokenPipe, linkVars
<1>1. SenderTypeOK'
  BY NextType DEF SenderInv, SenderNext, SenderMain
<1>2. MainInv'
  BY <1>0 DEF SenderInv, MainInv, Joining, Sending
<1>3. GreetInv'
  BY <1>0 DEF SenderInv, GreetInv, Joining, Sending, Accepted
<1>4. MutexInv' /\ FramesWhole' /\ RoundRobin' /\ ItemInv' /\ TailInv'
  BY <1>0, Quiet DEF Sending
<1>5. QED
  BY <1>1, <1>2, <1>3, <1>4 DEF SenderInv

(* Where a connection with its advance information can be.                 *)
LEMMA LongLog ==
    ASSUME SenderInv, NEW p \in Peers, Len(down[p]) >= 2
    PROVE  p \in Accepted /\ ~Joining /\ Len(recvSock) = MaxPeer
<1>1. p \in Accepted
  <2>1. Len(<<>>) = 0
    OBVIOUS
  <2>2. QED
    BY <2>1 DEF SenderInv, GreetInv
<1>2. ~Joining
  BY <1>1 DEF SenderInv, GreetInv, Accepted
<1>3. QED
  BY <1>1, <1>2 DEF SenderInv, GreetInv

LEMMA AcceptInv == ASSUME NEW q \in Peers, SenderInv, SAccept(q) PROVE SenderInv'
<1> USE SenderAssumption
<1> DEFINE n == Len(recvSock)
           it == Item("no", n)
<1>1. SenderTypeOK'
  BY NextType DEF SenderInv, SenderNext, SenderMain
<1>2. /\ sPc = "accept" /\ sPc' = "port" /\ q \notin Accepted /\ n \in Nat /\ n < MaxPeer
      /\ UNCHANGED <<idx, rb, thr, dest, mutex, dialled, portSent, gone>>
  BY DEF SAccept, linkVars, SenderInv, SenderTypeOK
<1>3. /\ recvSock' \in Seq(Peers) /\ Len(recvSock') = n + 1
      /\ recvSock'[n + 1] = q
      /\ \A j \in 1 .. n : recvSock'[j] = recvSock[j]
      /\ Accepted' = Accepted \cup {q}
  BY DEF SAccept, SenderInv, SenderTypeOK, Accepted
<1>4. it \in DownItem
  BY <1>2, ItemTypes DEF Slots
<1>5. \A p \in Peers : Len(down[p]) \in Nat
  BY <1>4, LogGrows DEF SAccept, SenderInv, SenderTypeOK
<1>6. \A p \in Peers \ {q} : down'[p] = down[p]
  BY <1>4, LogGrows DEF SAccept, SenderInv, SenderTypeOK
<1>7. down[q] = <<>>
  BY <1>2 DEF SenderInv, GreetInv
<1>8. Len(down'[q]) = 1 /\ down'[q][1] = it
  <2>1. Len(down'[q]) = Len(down[q]) + 1 /\ down'[q][Len(down[q]) + 1] = it
    BY <1>4, LogGrows DEF SAccept, SenderInv, SenderTypeOK
  <2>2. QED
    BY <1>7, <2>1
<1>9. Len(down'[q]) = 1
  BY <1>8
<1>10. ASSUME NEW p \in Peers
       PROVE  Len(down'[p]) \in Nat /\ Len(down'[p]) < 2
  <2>1. CASE p = q
    <3>1. Len(down'[p]) = 1
      BY <1>9, <2>1, Zenon
    <3>2. QED
      BY <3>1
  <2>2. CASE p # q
    <3>1. Len(down[p]) < 2
      BY <1>2, <1>5, LongLog DEF Joining
    <3>2. QED
      BY <1>5, <1>6, <2>2, <3>1
  <2>3. QED
    BY <2>1, <2>2
<1>11. MainInv'
  BY <1>2, <1>3 DEF SenderInv, SenderTypeOK, MainInv, Joining, Sending
<1>12. GreetInv'
  <2>1. \A j \in 1 .. n : recvSock[j] \in Accepted /\ recvSock[j] \in Peers \ {q}
    BY <1>2 DEF SenderInv, SenderTypeOK, Accepted
  <2>2. \A i, j \in 1 .. n + 1 : recvSock'[i] = recvSock'[j] => i = j
    BY <1>2, <1>3, <2>1 DEF SenderInv, GreetInv
  <2>3. \A j \in 1 .. n + 1 : recvSock'[j] \in portSent \cup gone \/ j = n + 1
    BY <1>2, <1>3 DEF SenderInv, GreetInv
  <2>4. \A p \in Peers \ Accepted' : down'[p] = <<>>
    BY <1>3, <1>6 DEF SenderInv, GreetInv
  <2>5. \A j \in 1 .. n + 1 : Len(down'[recvSock'[j]]) = 1
    BY <1>2, <1>3, <1>6, <1>9, <2>1 DEF SenderInv, GreetInv, Joining
  <2>6. \A j \in 1 .. n + 1 : down'[recvSock'[j]][1] = Item("no", j - 1)
    BY <1>2, <1>3, <1>6, <1>8, <2>1 DEF SenderInv, GreetInv
  <2>7. \A p \in Peers : Len(down'[p]) >= 2 => Len(recvSock') = MaxPeer
    BY <1>10
  <2>8. \A j \in 1 .. n + 1 : Len(down'[recvSock'[j]]) >= 2 => FALSE
    <3>1. ASSUME NEW j \in 1 .. n + 1 PROVE ~(Len(down'[recvSock'[j]]) >= 2)
      <4>1. Len(down'[recvSock'[j]]) = 1
        BY <2>5
      <4>2. QED
        BY <4>1
    <3>2. QED
      BY <3>1
  <2>9. QED
    BY <1>2, <1>3, <2>2, <2>3, <2>4, <2>5, <2>6, <2>7, <2>8 DEF GreetInv, Joining, Sending
<1>13. MutexInv'
  BY <1>2 DEF SenderInv, MutexInv, InFrame
<1>14. FramesWhole' /\ RoundRobin' /\ ItemInv'
  BY <1>10 DEF FramesWhole, RoundRobin, ItemInv
<1>15. TailInv'
  BY <1>2 DEF TailInv, Sending
<1>16. QED
  BY <1>1, <1>11, <1>12, <1>13, <1>14, <1>15 DEF SenderInv

LEMMA SendInfoInv == SenderInv /\ SSendInfo => SenderInv'
<1> SUFFICES ASSUME SenderInv, SSendInfo
             PROVE  SenderInv'
  OBVIOUS
<1> USE SenderAssumption
<1> DEFINE it == Item("info", recvSock)
<1>1. SenderTypeOK'
  BY NextType DEF SenderInv, SenderNext, SenderMain
<1>2. /\ sPc = "info" /\ idx \in Nat /\ Len(recvSock) = MaxPeer /\ idx < MaxPeer
      /\ UNCHANGED <<recvSock, rb, thr, dest, mutex, dialled, portSent, gone>>
      /\ rb = 0 /\ \A s \in Segs : thr[s] = "none"
  BY DEF SSendInfo, linkVars, SenderInv, SenderTypeOK, MainInv, Joining, Sending
<1>3. \/ idx + 1 < MaxPeer /\ idx' = idx + 1 /\ sPc' = "info"
      \/ idx + 1 = MaxPeer /\ idx' = 0 /\ sPc' = "spawn"
  BY <1>2 DEF SSendInfo
<1>4. PICK q \in Peers : q = Peer(idx) /\ q \in Accepted /\ q = recvSock[idx + 1] /\ it \in DownItem
  BY <1>2, PeerAccepted, ItemTypes DEF SenderInv, SenderTypeOK, Peer
<1>5. /\ \A p \in Peers : Len(down[p]) \in Nat
      /\ \A p \in Peers \ {q} : down'[p] = down[p]
      /\ Len(down'[q]) = Len(down[q]) + 1
      /\ \A j \in 1 .. Len(down[q]) : down'[q][j] = down[q][j]
      /\ down'[q][Len(down[q]) + 1] = it
  <2>1. down' = [down EXCEPT ![q] = Append(@, it)]
    BY <1>4 DEF SSendInfo
  <2>2. QED
    BY <1>4, <2>1, LogGrows DEF SenderInv, SenderTypeOK
<1> HIDE DEF it
<1>6. idx \in Nat /\ idx < MaxPeer
  BY <1>2
<1>7. /\ \A i, j \in 1 .. MaxPeer : recvSock[i] = recvSock[j] => i = j
      /\ \A j \in 1 .. MaxPeer : recvSock[j] \in Peers
  BY <1>2 DEF SenderInv, SenderTypeOK, GreetInv
<1>8. \A j \in 1 .. MaxPeer : Len(down[recvSock[j]]) = IF j <= idx THEN 2 ELSE 1
  BY <1>2 DEF SenderInv, GreetInv
<1>9. \A j \in 1 .. MaxPeer : j # idx + 1 => down'[recvSock[j]] = down[recvSock[j]]
  <2>1. \A j \in 1 .. MaxPeer : j # idx + 1 => recvSock[j] \in Peers \ {q}
    BY <1>4, <1>6, <1>7
  <2>2. \A p \in Peers \ {q} : down'[p] = down[p]
    BY <1>5
  <2>3. QED
    BY <2>1, <2>2
<1>10. Len(down[q]) = 1 /\ Len(down'[q]) = 2 /\ q = recvSock[idx + 1]
  <2>1. Len(down[q]) = 1
    <3>1. Len(down[recvSock[idx + 1]]) = 1
      <4>1. idx + 1 \in 1 .. MaxPeer /\ ~(idx + 1 <= idx)
        BY <1>6
      <4>2. QED
        BY <1>8, <4>1, Zenon
    <3>2. q = recvSock[idx + 1]
      BY <1>4
    <3>3. QED
      BY <3>1, <3>2, Zenon
  <2>2. QED
    BY <1>4, <1>5, <2>1
<1>11. \A j \in 1 .. MaxPeer : Len(down'[recvSock[j]]) = IF j <= idx + 1 THEN 2 ELSE 1
  <2>1. SUFFICES ASSUME NEW j \in 1 .. MaxPeer
                 PROVE  Len(down'[recvSock[j]]) = IF j <= idx + 1 THEN 2 ELSE 1
    OBVIOUS
  <2>2. CASE j = idx + 1
    BY <1>6, <1>10, <2>2
  <2>3. CASE j # idx + 1
    BY <1>6, <1>8, <1>9, <2>3
  <2>4. QED
    BY <2>2, <2>3
<1>12. Accepted' = Accepted
  BY <1>2 DEF Accepted
<1>13. ASSUME NEW p \in Peers
       PROVE  Len(down'[p]) \in Nat /\ Len(down'[p]) <= 2
  <2>1. CASE p \in Accepted
    <3>1. PICK j \in 1 .. MaxPeer : p = recvSock[j]
      BY <1>2, <2>1 DEF Accepted
    <3>2. QED
      BY <1>6, <1>11, <3>1
  <2>2. CASE p \notin Accepted
    <3>1. down[p] = <<>> /\ down'[p] = down[p]
      BY <1>4, <1>5, <2>2 DEF SenderInv, GreetInv
    <3>2. QED
      BY <3>1
  <2>3. QED
    BY <2>1, <2>2
<1>14. MainInv'
  BY <1>2, <1>3 DEF SenderInv, SenderTypeOK, MainInv, Joining, Sending, Segs
<1>15. GreetInv'
  <2>1. \A j \in 1 .. MaxPeer : recvSock[j] \in portSent \cup gone
    BY <1>2 DEF SenderInv, GreetInv
  <2>2. \A p \in Peers \ Accepted : down'[p] = <<>>
    BY <1>4, <1>5 DEF SenderInv, GreetInv
  <2>3. ASSUME NEW j \in 1 .. MaxPeer
        PROVE  down'[recvSock[j]][1] = Item("no", j - 1)
    <3>1. down[recvSock[j]][1] = Item("no", j - 1)
      BY <1>2 DEF SenderInv, GreetInv
    <3>2. CASE j = idx + 1
      <4>1. down'[q][1] = down[q][1]
        BY <1>5, <1>10
      <4>2. QED
        BY <1>10, <3>1, <3>2, <4>1
    <3>3. CASE j # idx + 1
      BY <1>9, <3>1, <3>3
    <3>4. QED
      BY <3>2, <3>3
  <2>4. ASSUME NEW j \in 1 .. MaxPeer, Len(down'[recvSock[j]]) >= 2
        PROVE  down'[recvSock[j]][2] = it
    <3>1. CASE j = idx + 1
      <4>1. down'[q][2] = it
        BY <1>5, <1>10
      <4>2. QED
        BY <1>10, <3>1, <4>1
    <3>2. CASE j # idx + 1
      <4>1. down'[recvSock[j]] = down[recvSock[j]]
        BY <1>9, <3>2
      <4>2. QED
        BY <1>2, <2>4, <4>1 DEF SenderInv, GreetInv, it
    <3>3. QED
      BY <3>1, <3>2
  <2>5. CASE sPc' = "info"
    BY <1>2, <1>3, <1>7, <1>11, <1>12, <2>1, <2>2, <2>3, <2>4, <2>5 DEF GreetInv, Joining, Sending, it
  <2>6. CASE sPc' = "spawn"
    BY <1>2, <1>3, <1>7, <1>11, <1>12, <2>1, <2>2, <2>3, <2>4, <2>6 DEF GreetInv, Joining, Sending, it
  <2>7. QED
    BY <1>3, <2>5, <2>6
<1>16. MutexInv'
  BY <1>2 DEF SenderInv, MutexInv, InFrame
<1>17. FramesWhole' /\ RoundRobin' /\ ItemInv'
  BY <1>13 DEF FramesWhole, RoundRobin, ItemInv
<1>18. TailInv'
  <2>1. ASSUME sPc' = "spawn", NEW p \in Accepted
        PROVE  (Len(down'[p]) - 2) % 3 = 0 /\ Unfinished(p)' = {}
    <3>1. PICK j \in 1 .. MaxPeer : p = recvSock[j]
      BY <1>2 DEF Accepted
    <3>2. j <= idx + 1
      BY <1>3, <2>1
    <3>3. Len(down'[p]) = 2
      BY <1>11, <3>1, <3>2
    <3>4. Unfinished(p)' = {}
      BY <1>2 DEF Unfinished, Written
    <3>5. QED
      BY <3>3, <3>4
  <2>2. CASE sPc' = "spawn"
    BY <1>12, <2>1, <2>2 DEF TailInv
  <2>3. CASE sPc' = "info"
    BY <2>3 DEF TailInv, Sending
  <2>4. QED
    BY <1>3, <2>2, <2>3
<1>19. QED
  BY <1>1, <1>14, <1>15, <1>16, <1>17, <1>18 DEF SenderInv

LEMMA SpawnInv == SenderInv /\ SSpawn => SenderInv'
<1> SUFFICES ASSUME SenderInv, SSpawn
             PROVE  SenderInv'
  OBVIOUS
<1> USE SenderAssumption
<1> DEFINE b == IF rb = MaxPeer THEN 0 ELSE rb
<1>1. SenderTypeOK'
  BY NextType DEF SenderInv, SenderNext, SenderMain
<1>2. /\ sPc = "spawn" /\ idx \in Segs /\ idx \in Nat /\ thr[idx] = "none"
      /\ UNCHANGED <<sPc, recvSock, mutex, down, dialled, portSent, gone>>
      /\ idx' = idx + 1 /\ rb' = b + 1
  BY DEF SSpawn, linkVars, SenderInv, SenderTypeOK, MainInv, Segs
<1>3. /\ thr' = [thr EXCEPT ![idx] = "lock"] /\ DOMAIN thr = Segs
      /\ dest' = [dest EXCEPT ![idx] = b] /\ DOMAIN dest = Segs
  BY DEF SSpawn, SenderInv, SenderTypeOK
<1>4. b = idx % MaxPeer
  <2>1. rb = IF idx = 0 THEN 0 ELSE ((idx - 1) % MaxPeer) + 1
    BY <1>2 DEF SenderInv, MainInv
  <2>2. CASE idx = 0
    BY <2>1, <2>2
  <2>3. CASE idx # 0
    <3>1. idx - 1 \in Nat /\ (idx - 1) + 1 = idx
      BY <1>2, <2>3
    <3>2. idx % MaxPeer = IF ((idx - 1) % MaxPeer) + 1 = MaxPeer
                            THEN 0 ELSE ((idx - 1) % MaxPeer) + 1
      BY <3>1, WrapIsModulo
    <3>3. QED
      BY <2>1, <2>3, <3>2
  <2>4. QED
    BY <2>2, <2>3
<1> HIDE DEF b
<1>5. \A s \in Segs \ {idx} : thr'[s] = thr[s] /\ dest'[s] = dest[s]
  BY <1>3
<1>6. thr'[idx] = "lock" /\ dest'[idx] = idx % MaxPeer
  BY <1>2, <1>3, <1>4
<1>7. \A s \in Segs : Written(s)' = Written(s) /\ (InFrame(s)' <=> InFrame(s))
  <2>1. SUFFICES ASSUME NEW s \in Segs
                 PROVE  Written(s)' = Written(s) /\ (InFrame(s)' <=> InFrame(s))
    OBVIOUS
  <2>2. CASE s = idx
    BY <1>2, <1>6, <2>2 DEF Written, InFrame
  <2>3. CASE s # idx
    BY <1>5, <2>3 DEF Written, InFrame
  <2>4. QED
    BY <2>2, <2>3
<1>8. MainInv'
  <2>1. rb' = ((idx' - 1) % MaxPeer) + 1 /\ idx' # 0 /\ idx' <= FileCount
    BY <1>2, <1>4 DEF Segs
  <2>2. \A s \in Segs : thr'[s] = "none" <=> s >= idx'
    <3>1. \A s \in Segs : thr[s] = "none" <=> s >= idx
      BY <1>2 DEF SenderInv, MainInv
    <3>2. SUFFICES ASSUME NEW s \in Segs
                   PROVE  thr'[s] = "none" <=> s >= idx + 1
      BY <1>2
    <3>3. CASE s = idx
      BY <1>2, <1>6, <3>3
    <3>4. CASE s # idx
      BY <1>2, <1>5, <3>1, <3>4 DEF Segs
    <3>5. QED
      BY <3>3, <3>4
  <2>3. \A s \in Segs : thr'[s] # "none" => dest'[s] = s % MaxPeer
    BY <1>5, <1>6 DEF SenderInv, MainInv
  <2>4. Len(recvSock) = MaxPeer
    BY <1>2 DEF SenderInv, MainInv, Sending
  <2>5. QED
    BY <1>2, <2>1, <2>2, <2>3, <2>4 DEF MainInv, Joining, Sending
<1>9. GreetInv'
  BY <1>2 DEF SenderInv, GreetInv, Joining, Sending, Accepted
<1>10. MutexInv'
  BY <1>2, <1>7 DEF SenderInv, MutexInv
<1>11. FramesWhole' /\ RoundRobin'
  <2>1. FramesWhole'
    BY <1>2 DEF SenderInv, FramesWhole
  <2>2. RoundRobin'
    BY <1>2 DEF SenderInv, RoundRobin, Peer
  <2>3. QED
    BY <2>1, <2>2
<1>12. ItemInv'
  BY <1>2, <1>7 DEF SenderInv, ItemInv, Peer
<1>13. TailInv'
  <2>1. ASSUME NEW p
        PROVE  Unfinished(p)' = Unfinished(p)
    <3>1. ASSUME NEW s \in Segs
          PROVE  s \in Unfinished(p)' <=> s \in Unfinished(p)
      <4>1. CASE s = idx
        <5>1. Written(s) = 0 /\ Written(s)' = 0
          BY <1>2, <1>6, <4>1 DEF Written
        <5>2. QED
          BY <5>1 DEF Unfinished
      <4>2. CASE s # idx
        BY <1>2, <1>5, <1>7, <4>2 DEF Unfinished, Peer
      <4>3. QED
        BY <4>1, <4>2
    <3>2. QED
      BY <3>1 DEF Unfinished
  <2>2. Accepted' = Accepted /\ Sending
    BY <1>2 DEF Accepted, Sending
  <2>3. \A p : \A s \in Unfinished(p) : s \in Segs
    BY DEF Unfinished
  <2>4. QED
    BY <1>2, <1>7, <2>1, <2>2, <2>3 DEF SenderInv, TailInv
<1>14. QED
  BY <1>1, <1>8, <1>9, <1>10, <1>11, <1>12, <1>13 DEF SenderInv

(* Taking and releasing the mutex: neither starts nor continues a frame.   *)
LEMMA LockInv ==
    ASSUME NEW s \in Segs, SenderInv, TLock(s) \/ TUnlock(s)
    PROVE  SenderInv'
<1> USE SenderAssumption
<1>1. SenderTypeOK'
  BY NextType DEF SenderInv, SenderNext, SenderThread
<1>2. /\ ThreadsRun
      /\ UNCHANGED <<sPc, recvSock, idx, rb, dest, down, dialled, portSent, gone>>
  BY DEF TLock, TUnlock, linkVars
<1>3. /\ \A r \in Segs \ {s} : thr'[r] = thr[r]
      /\ \/ thr[s] = "lock" /\ thr'[s] = "n" /\ mutex = Free /\ mutex' = s
         \/ thr[s] = "unlock" /\ thr'[s] = "done" /\ mutex' = Free
  BY DEF TLock, TUnlock, SenderInv, SenderTypeOK
<1>4. s # Free /\ \A r \in Segs : r # Free
  BY DEF Segs, Free
<1>5. \A r \in Segs : Written(r)' = Written(r) /\ (thr'[r] = "none" <=> thr[r] = "none")
  <2>1. SUFFICES ASSUME NEW r \in Segs
                 PROVE  Written(r)' = Written(r) /\ (thr'[r] = "none" <=> thr[r] = "none")
    OBVIOUS
  <2>2. CASE r = s
    BY <1>3, <2>2 DEF Written
  <2>3. CASE r # s
    BY <1>3, <2>3 DEF Written
  <2>4. QED
    BY <2>2, <2>3
<1>6. MainInv'
  BY <1>2, <1>5 DEF SenderInv, MainInv, Joining, Sending
<1>7. GreetInv'
  BY <1>2 DEF SenderInv, GreetInv, Joining, Sending, Accepted
<1>8. MutexInv'
  <2>1. \A r \in Segs : InFrame(r) <=> mutex = r
    BY DEF SenderInv, MutexInv
  <2>2. SUFFICES ASSUME NEW r \in Segs
                 PROVE  InFrame(r)' <=> mutex' = r
    BY DEF MutexInv
  <2>3. CASE r = s
    BY <1>3, <1>4, <2>3 DEF InFrame
  <2>4. CASE r # s
    <3>1. InFrame(r)' <=> InFrame(r)
      BY <1>3, <2>4 DEF InFrame
    <3>2. CASE thr[s] = "lock" /\ mutex = Free /\ mutex' = s
      BY <1>4, <2>1, <2>4, <3>1, <3>2
    <3>3. CASE thr[s] = "unlock" /\ mutex' = Free
      <4>1. mutex = s
        BY <2>1, <3>3 DEF InFrame
      <4>2. QED
        BY <1>4, <2>1, <2>4, <3>1, <3>3, <4>1
    <3>4. QED
      BY <1>3, <3>2, <3>3
  <2>5. QED
    BY <2>3, <2>4
<1>9. FramesWhole' /\ RoundRobin'
  <2>1. FramesWhole'
    BY <1>2 DEF SenderInv, FramesWhole
  <2>2. RoundRobin'
    BY <1>2 DEF SenderInv, RoundRobin, Peer
  <2>3. QED
    BY <2>1, <2>2
<1>10. ItemInv'
  BY <1>2, <1>5 DEF SenderInv, ItemInv, Peer
<1>11. TailInv'
  <2>1. \A p : Unfinished(p)' = Unfinished(p)
    BY <1>2, <1>5 DEF Unfinished, Peer
  <2>2. Accepted' = Accepted /\ Sending
    BY <1>2 DEF Accepted, Sending, ThreadsRun
  <2>3. \A p : \A r \in Unfinished(p) : r \in Segs
    BY DEF Unfinished
  <2>4. QED
    BY <1>2, <1>5, <2>1, <2>2, <2>3 DEF SenderInv, TailInv
<1>12. QED
  BY <1>1, <1>6, <1>7, <1>8, <1>9, <1>10, <1>11 DEF SenderInv

(* FramesWhole and ItemInv at one position of one connection.              *)
LEMMA FrameAt ==
    ASSUME FramesWhole, NEW p \in Peers, NEW j \in 3 .. Len(down[p])
    PROVE  /\ down[p][j].kind = Frame[((j - 3) % 3) + 1]
           /\ down[p][j].val = down[p][j - ((j - 3) % 3)].val
BY DEF FramesWhole

LEMMA ItemAt ==
    ASSUME ItemInv, NEW p \in Peers, NEW j \in 3 .. Len(down[p])
    PROVE  \E s \in Segs : /\ down[p][j].val = s
                           /\ Written(s) > (j - 3) % 3
                           /\ p = Peer(s % MaxPeer)
BY DEF ItemInv

(* The writes of a send thread.  k is the number of items of its frame     *)
(* that the thread has written before.                                     *)
LEMMA WriteInv ==
    ASSUME NEW s \in Segs, NEW k \in {0, 1, 2}, NEW kind, NEW then, SenderInv,
           kind = Frame[k + 1], then = IF k = 0 THEN "size" ELSE IF k = 1 THEN "data" ELSE "unlock",
           TWrite(s, kind, then)
    PROVE  SenderInv'
<1> USE SenderAssumption
<1> DEFINE it == Item(kind, s)
<1>1. /\ kind \in {"n", "size", "data"} /\ then \in {"size", "data", "unlock"}
      /\ k = 0 => kind = "n" /\ then = "size"
      /\ k = 1 => kind = "size" /\ then = "data"
      /\ k = 2 => kind = "data" /\ then = "unlock"
  BY DEF Frame
<1>2. SenderTypeOK'
  <2>1. \/ TWriteN(s) \/ TWriteSize(s) \/ TWriteData(s)
    BY <1>1 DEF TWriteN, TWriteSize, TWriteData
  <2>2. QED
    BY <2>1, NextType DEF SenderInv, SenderNext, SenderThread
<1>3. /\ thr[s] = kind /\ thr'[s] = then /\ ThreadsRun
      /\ \A r \in Segs \ {s} : thr'[r] = thr[r]
      /\ UNCHANGED <<sPc, recvSock, idx, rb, dest, mutex, dialled, portSent, gone>>
  BY DEF TWrite, linkVars, SenderInv, SenderTypeOK
<1>4. /\ Written(s) = k /\ Written(s)' = k + 1 /\ InFrame(s) /\ InFrame(s)'
      /\ thr[s] # "none" /\ thr'[s] # "none"
  BY <1>1, <1>3 DEF Written, InFrame
<1>5. ASSUME NEW r \in Segs, r # s
      PROVE  /\ Written(r)' = Written(r) /\ (InFrame(r)' <=> InFrame(r))
             /\ ~InFrame(r) /\ Written(r) \notin {1, 2}
  <2>1. mutex = s /\ ~InFrame(r)
    BY <1>4, <1>5 DEF SenderInv, MutexInv
  <2>2. thr'[r] = thr[r]
    BY <1>3, <1>5
  <2>3. QED
    BY <2>1, <2>2 DEF Written, InFrame
<1>6. Len(recvSock) = MaxPeer /\ dest[s] = s % MaxPeer /\ s % MaxPeer \in 0 .. MaxPeer - 1
  <2>1. Len(recvSock) = MaxPeer
    BY <1>3 DEF SenderInv, MainInv, Sending, ThreadsRun
  <2>2. dest[s] = s % MaxPeer
    BY <1>4 DEF SenderInv, MainInv
  <2>3. s % MaxPeer \in 0 .. MaxPeer - 1
    BY DivMod DEF Segs
  <2>4. QED
    BY <2>1, <2>2, <2>3
<1>7. PICK p \in Peers : p = Peer(dest[s]) /\ p = Peer(s % MaxPeer) /\ p \in Accepted
  BY <1>6, PeerAccepted DEF SenderInv, SenderTypeOK
<1>8. PICK L \in Nat : L = Len(down[p])
  BY DEF SenderInv, SenderTypeOK
<1>9. L >= 2
  BY <1>3, <1>7, <1>8 DEF SenderInv, GreetInv, Accepted, ThreadsRun, Sending
<1>10. /\ \A q \in Peers \ {p} : down'[q] = down[q]
       /\ Len(down'[p]) = L + 1
       /\ \A j \in 1 .. L : down'[p][j] = down[p][j]
       /\ down'[p][L + 1] = it
  <2>1. down' = [down EXCEPT ![p] = Append(@, it)]
    BY <1>7 DEF TWrite
  <2>2. it \in DownItem
    BY <1>1, ItemTypes
  <2>3. QED
    BY <1>8, <2>1, <2>2, LogGrows DEF SenderInv, SenderTypeOK
<1>11. it.kind = kind /\ it.val = s
  BY DEF Item
<1> HIDE DEF it
<1>12. /\ (L - 2) % 3 = k
       /\ k # 0 => down[p][L].val = s
  <2>1. /\ (L - 2) % 3 # 0 => Unfinished(p) # {}
        /\ \A r \in Unfinished(p) : (L - 2) % 3 = Written(r) /\ down[p][L].val = r
    BY <1>3, <1>7, <1>8 DEF SenderInv, TailInv, ThreadsRun, Sending
  <2>2. \A r \in Unfinished(p) : r = s
    BY <1>5 DEF Unfinished
  <2>3. k # 0 => s \in Unfinished(p)
    BY <1>4, <1>7 DEF Unfinished
  <2>4. k = 0 => Unfinished(p) = {}
    BY <1>4, <2>2 DEF Unfinished
  <2>5. CASE k = 0
    BY <2>1, <2>4, <2>5
  <2>6. CASE k # 0
    BY <1>4, <2>1, <2>3, <2>6
  <2>7. QED
    BY <2>5, <2>6
<1>13. /\ (L + 1 - 3) % 3 = k
       /\ (L + 1 - 2) % 3 = IF k = 2 THEN 0 ELSE k + 1
  BY <1>9, <1>12, ModThree
<1>14. MainInv'
  <2>1. \A r \in Segs : thr'[r] = "none" <=> thr[r] = "none"
    BY <1>3, <1>4
  <2>2. QED
    BY <1>3, <2>1 DEF SenderInv, MainInv, Joining, Sending
<1>15. GreetInv'
  <2>1. ASSUME NEW j \in 1 .. MaxPeer
        PROVE  /\ Len(down'[recvSock[j]]) >= 2
               /\ down'[recvSock[j]][1] = Item("no", j - 1)
               /\ down'[recvSock[j]][2] = Item("info", recvSock)
    <3>1. /\ recvSock[j] \in Peers
          /\ Len(down[recvSock[j]]) >= 2
          /\ down[recvSock[j]][1] = Item("no", j - 1)
          /\ down[recvSock[j]][2] = Item("info", recvSock)
      BY <1>3, <1>6 DEF SenderInv, SenderTypeOK, GreetInv, ThreadsRun, Sending
    <3>2. CASE recvSock[j] = p
      <4>1. down'[p][1] = down[p][1] /\ down'[p][2] = down[p][2] /\ Len(down'[p]) >= 2
        BY <1>9, <1>10
      <4>2. QED
        BY <3>1, <3>2, <4>1, Zenon
    <3>3. CASE recvSock[j] # p
      BY <1>10, <3>1, <3>3
    <3>4. QED
      BY <3>2, <3>3
  <2>2. \A q \in Peers \ Accepted : down'[q] = <<>>
    BY <1>7, <1>10 DEF SenderInv, GreetInv
  <2>3. Accepted' = Accepted
    BY <1>3 DEF Accepted
  <2>4. QED
    BY <1>3, <1>6, <2>1, <2>2, <2>3 DEF SenderInv, GreetInv, ThreadsRun, Joining, Sending
<1>16. MutexInv'
  <2>1. SUFFICES ASSUME NEW r \in Segs
                 PROVE  InFrame(r)' <=> mutex' = r
    BY DEF MutexInv
  <2>2. InFrame(r)' <=> InFrame(r)
    BY <1>4, <1>5
  <2>3. QED
    BY <1>3, <2>2 DEF SenderInv, MutexInv
<1>17. FramesWhole'
  <2>1. ASSUME NEW j \in 3 .. L + 1
        PROVE  /\ down'[p][j].kind = Frame[((j - 3) % 3) + 1]
               /\ down'[p][j].val = down'[p][j - ((j - 3) % 3)].val
    <3>1. CASE j <= L
      <4>1. /\ down[p][j].kind = Frame[((j - 3) % 3) + 1]
            /\ down[p][j].val = down[p][j - ((j - 3) % 3)].val
        <5>1. j \in 3 .. Len(down[p])
          BY <1>8, <3>1
        <5>2. QED
          BY <5>1, FrameAt DEF SenderInv
      <4>2. j \in 1 .. L /\ j - ((j - 3) % 3) \in 1 .. L
        BY <3>1
      <4>3. down'[p][j] = down[p][j]
            /\ down'[p][j - ((j - 3) % 3)] = down[p][j - ((j - 3) % 3)]
        BY <1>10, <4>2
      <4>4. QED
        BY <4>1, <4>3, Zenon
    <3>2. CASE j = L + 1
      <4>1. (j - 3) % 3 = k
        BY <1>13, <3>2
      <4>2. down'[p][j].kind = Frame[k + 1] /\ down'[p][j].val = s
        BY <1>10, <1>11, <3>2
      <4>3. down'[p][j - k].val = s
        <5>1. CASE k = 0
          BY <4>2, <5>1
        <5>2. CASE k = 1
          <6>1. j - k = L /\ L \in 1 .. L
            BY <1>9, <3>2, <5>2
          <6>2. QED
            BY <1>10, <1>12, <5>2, <6>1
        <5>3. CASE k = 2
          <6>1. L \in 3 .. L /\ (L - 3) % 3 = 1 /\ j - k = L - 1 /\ L - 1 \in 1 .. L
            BY <1>9, <1>12, <3>2, <5>3
          <6>2. down[p][L].val = down[p][L - 1].val
            BY <1>8, <6>1 DEF SenderInv, FramesWhole
          <6>3. QED
            BY <1>10, <1>12, <5>3, <6>1, <6>2
        <5>4. QED
          BY <5>1, <5>2, <5>3
      <4>4. QED
        BY <4>1, <4>2, <4>3, Zenon
    <3>3. QED
      BY <3>1, <3>2
  <2>2. ASSUME NEW q \in Peers \ {p}, NEW j \in 3 .. Len(down[q])
        PROVE  /\ down'[q][j].kind = Frame[((j - 3) % 3) + 1]
               /\ down'[q][j].val = down'[q][j - ((j - 3) % 3)].val
    <3>1. /\ down[q][j].kind = Frame[((j - 3) % 3) + 1]
          /\ down[q][j].val = down[q][j - ((j - 3) % 3)].val
      BY FrameAt DEF SenderInv
    <3>2. down'[q] = down[q]
      BY <1>10
    <3>3. QED
      BY <3>1, <3>2, Zenon
  <2>3. QED
    BY <1>10, <2>1, <2>2 DEF FramesWhole
<1>18. ItemInv'
  <2>1. ASSUME NEW r \in Segs
        PROVE  /\ Written(r)' \in Nat /\ Written(r)' >= Written(r) /\ Written(r) \in Nat
               /\ Peer(r % MaxPeer)' = Peer(r % MaxPeer)
    BY <1>3, <1>4, <1>5 DEF Written, Peer
  <2>2. ASSUME NEW q \in Peers, NEW j \in 3 .. Len(down[q]), down'[q][j] = down[q][j]
        PROVE  \E r \in Segs : /\ down'[q][j].val = r
                               /\ Written(r)' > (j - 3) % 3
                               /\ q = Peer(r % MaxPeer)'
    <3>1. PICK r \in Segs : /\ down[q][j].val = r
                            /\ Written(r) > (j - 3) % 3
                            /\ q = Peer(r % MaxPeer)
      BY ItemAt DEF SenderInv
    <3>2. Written(r)' > (j - 3) % 3
      <4>1. (j - 3) % 3 \in Nat
        OBVIOUS
      <4>2. QED
        BY <2>1, <3>1, <4>1
    <3>3. QED
      BY <2>1, <2>2, <3>1, <3>2, Zenon
  <2>3. ASSUME NEW j \in 3 .. L + 1
        PROVE  \E r \in Segs : /\ down'[p][j].val = r
                               /\ Written(r)' > (j - 3) % 3
                               /\ p = Peer(r % MaxPeer)'
    <3>1. CASE j <= L
      <4>1. j \in 3 .. Len(down[p]) /\ down'[p][j] = down[p][j]
        BY <1>8, <1>10, <3>1
      <4>2. QED
        BY <2>2, <4>1
    <3>2. CASE j = L + 1
      <4>1. (j - 3) % 3 = k /\ down'[p][j].val = s
        BY <1>10, <1>11, <1>13, <3>2
      <4>2. Written(s)' > k
        BY <1>4
      <4>3. QED
        BY <1>7, <2>1, <4>1, <4>2, Zenon
    <3>3. QED
      BY <3>1, <3>2
  <2>4. ASSUME NEW q \in Peers \ {p}, NEW j \in 3 .. Len(down'[q])
        PROVE  \E r \in Segs : /\ down'[q][j].val = r
                               /\ Written(r)' > (j - 3) % 3
                               /\ q = Peer(r % MaxPeer)'
    <3>1. down'[q] = down[q]
      BY <1>10
    <3>2. j \in 3 .. Len(down[q]) /\ down'[q][j] = down[q][j]
      BY <3>1
    <3>3. QED
      BY <2>2, <3>2
  <2>5. ASSUME NEW q \in Peers, NEW j \in 3 .. Len(down'[q])
        PROVE  \E r \in Segs : /\ down'[q][j].val = r
                               /\ Written(r)' > (j - 3) % 3
                               /\ q = Peer(r % MaxPeer)'
    <3>1. CASE q = p
      BY <1>10, <2>3, <2>5, <3>1
    <3>2. CASE q # p
      BY <2>4, <2>5, <3>2
    <3>3. QED
      BY <3>1, <3>2
  <2>6. QED
    BY <2>5 DEF ItemInv
<1>19. RoundRobin'
  <2>1. ASSUME NEW j \in 3 .. L
        PROVE  down[p][j] # it
    <3>1. j \in 3 .. Len(down[p])
      BY <1>8
    <3>2. SUFFICES ASSUME down[p][j] = it
                   PROVE  FALSE
      OBVIOUS
    <3>3. k > (j - 3) % 3 /\ Frame[k + 1] = Frame[((j - 3) % 3) + 1]
      <4>1. PICK r \in Segs : down[p][j].val = r /\ Written(r) > (j - 3) % 3
        BY <3>1, ItemAt DEF SenderInv
      <4>2. down[p][j].kind = Frame[((j - 3) % 3) + 1]
        BY <3>1, FrameAt DEF SenderInv
      <4>3. r = s
        BY <1>11, <3>2, <4>1
      <4>4. QED
        BY <1>4, <1>11, <3>2, <4>1, <4>2, <4>3
    <3>4. (j - 3) % 3 \in {0, 1, 2}
      BY ModThree
    <3>5. QED
      BY <3>3, <3>4 DEF Frame
  <2>2. ASSUME NEW j \in 3 .. L + 1, NEW i \in 3 .. L + 1, down'[p][i] = down'[p][j]
        PROVE  i = j
    <3>1. CASE i <= L /\ j <= L
      <4>1. i \in 3 .. L /\ j \in 3 .. L /\ down[p][i] = down[p][j]
        BY <1>10, <2>2, <3>1
      <4>2. QED
        BY <1>8, <4>1 DEF SenderInv, RoundRobin
    <3>2. CASE i <= L /\ j = L + 1
      <4>1. i \in 3 .. L /\ down[p][i] = it
        BY <1>10, <2>2, <3>2
      <4>2. QED
        BY <2>1, <4>1
    <3>3. CASE i = L + 1 /\ j <= L
      <4>1. j \in 3 .. L /\ down[p][j] = it
        BY <1>10, <2>2, <3>3
      <4>2. QED
        BY <2>1, <4>1
    <3>4. CASE i = L + 1 /\ j = L + 1
      BY <3>4
    <3>5. QED
      BY <3>1, <3>2, <3>3, <3>4
  <2>3. ASSUME NEW q \in Peers, NEW j \in 3 .. Len(down'[q])
        PROVE  q = Peer(down[q][j].val % MaxPeer)'
    BY <1>18 DEF ItemInv, Peer
  <2>4. ASSUME NEW q \in Peers, NEW j \in 3 .. Len(down'[q]), NEW i \in 3 .. Len(down'[q]),
               down'[q][i] = down'[q][j]
        PROVE  i = j
    <3>1. CASE q = p
      <4>1. Len(down'[q]) = L + 1
        BY <1>10, <3>1, Zenon
      <4>2. i \in 3 .. L + 1 /\ j \in 3 .. L + 1 /\ down'[p][i] = down'[p][j]
        BY <2>4, <3>1, <4>1
      <4>3. QED
        BY <2>2, <4>2
    <3>2. CASE q # p
      <4>1. down'[q] = down[q]
        BY <1>10, <3>2
      <4>2. QED
        BY <2>4, <4>1 DEF SenderInv, RoundRobin
    <3>3. QED
      BY <3>1, <3>2
  <2>5. QED
    BY <1>3, <1>6, <2>3, <2>4 DEF RoundRobin
<1>20. TailInv'
  <2>1. ASSUME NEW q \in Accepted, q # p
        PROVE  (Len(down'[q]) - 2) % 3 = 0 /\ Unfinished(q)' = {}
    <3>1. q \in Peers /\ down'[q] = down[q]
      BY <1>10, <2>1 DEF Accepted, SenderInv, SenderTypeOK
    <3>2. Unfinished(q) = {} /\ Unfinished(q)' = {}
      BY <1>3, <1>5, <1>7, <2>1 DEF Unfinished, Peer
    <3>3. (Len(down[q]) - 2) % 3 = 0
      BY <1>3, <3>2 DEF SenderInv, TailInv, ThreadsRun, Sending
    <3>4. QED
      BY <3>1, <3>2, <3>3
  <2>2. /\ (Len(down'[p]) - 2) % 3 = IF k = 2 THEN 0 ELSE k + 1
        /\ down'[p][Len(down'[p])].val = s
    BY <1>10, <1>11, <1>13
  <2>3. Unfinished(p)' = IF k = 2 THEN {} ELSE {s}
    <3>1. \A r \in Segs : Written(r)' \in {1, 2} <=> r = s /\ k # 2
      BY <1>4, <1>5
    <3>2. p = Peer(dest[s])'
      BY <1>3, <1>7 DEF Peer
    <3>3. QED
      BY <3>1, <3>2 DEF Unfinished
  <2>4. Accepted' = Accepted
    BY <1>3 DEF Accepted
  <2>5. ASSUME NEW q \in Accepted
        PROVE  /\ (Len(down'[q]) - 2) % 3 # 0 => Unfinished(q)' # {}
               /\ \A r \in Unfinished(q)' :
                    /\ (Len(down'[q]) - 2) % 3 = Written(r)'
                    /\ down'[q][Len(down'[q])].val = r
    <3>1. CASE q # p
      BY <2>1, <3>1
    <3>2. CASE q = p
      BY <1>4, <2>2, <2>3, <3>2
    <3>3. QED
      BY <3>1, <3>2
  <2>6. QED
    BY <2>4, <2>5 DEF TailInv
<1>21. QED
  BY <1>2, <1>14, <1>15, <1>16, <1>17, <1>18, <1>19, <1>20 DEF SenderInv

-----------------------------------------------------------------------------
(* The promises of the sending peer.                                       *)

LEMMA NextInv == SenderInv /\ [SenderNext]_senderVars => SenderInv'
<1> SUFFICES ASSUME SenderInv, [SenderNext]_senderVars
             PROVE  SenderInv'
  OBVIOUS
<1>1. CASE SenderMain
  BY <1>1, ListenInv, AcceptInv, ReadPortInv, SendInfoInv, MainPipeInv, SpawnInv, EndOfLoopInv
  DEF SenderMain
<1>2. ASSUME NEW s \in Segs, SenderThread(s)
      PROVE  SenderInv'
  <2>1. CASE TLock(s) \/ TUnlock(s)
    BY <2>1, LockInv
  <2>2. CASE TWriteN(s)
    BY <2>2, WriteInv DEF TWriteN, Frame
  <2>3. CASE TWriteSize(s)
    BY <2>3, WriteInv DEF TWriteSize, Frame
  <2>4. CASE TWriteData(s)
    BY <2>4, WriteInv DEF TWriteData, Frame
  <2>5. CASE TBrokenPipe(s)
    BY <2>5, BrokenPipeInv
  <2>6. QED
    BY <1>2, <2>1, <2>2, <2>3, <2>4, <2>5 DEF SenderThread
<1>3. CASE \E p \in Peers : PeerStep(p)
  BY <1>3, PeerInv
<1>4. CASE UNCHANGED senderVars
  <2>1. UNCHANGED <<sPc, recvSock, idx, rb, thr, dest, mutex, down, dialled, portSent, gone>>
    BY <1>4 DEF senderVars
  <2>2. SenderTypeOK'
    BY NextType DEF SenderInv
  <2>3. MainInv' /\ GreetInv'
    BY <2>1 DEF SenderInv, MainInv, GreetInv, Joining, Sending, Accepted
  <2>4. MutexInv' /\ FramesWhole' /\ RoundRobin' /\ ItemInv' /\ TailInv'
    BY <2>1, Quiet DEF Sending
  <2>5. QED
    BY <2>2, <2>3, <2>4 DEF SenderInv
<1>5. QED
  BY <1>1, <1>2, <1>3, <1>4 DEF SenderNext

(* The inductive invariant holds for every number of peers and segments.   *)
THEOREM SenderInvariant == SenderSpec => []SenderInv
<1>1. SInit => SenderInv
  BY InitInv
<1>2. SenderInv /\ [SenderNext]_senderVars => SenderInv'
  BY NextInv
<1>3. QED
  BY <1>1, <1>2, PTL DEF SenderSpec

(* However the send threads are scheduled, every receiver finds a sequence *)
(* of whole frames on its connection.                                      *)
THEOREM FramesAlwaysWhole == SenderSpec => []FramesWhole
<1>1. SenderInv => FramesWhole
  BY DEF SenderInv
<1>2. QED
  BY <1>1, SenderInvariant, PTL

(* Segment s is sent to receiver s % MaxPeer only, each item of it once.   *)
THEOREM RoundRobinHolds == SenderSpec => []RoundRobin
<1>1. SenderInv => RoundRobin
  BY DEF SenderInv
<1>2. QED
  BY <1>1, SenderInvariant, PTL

(* Nothing but its number goes to a receiver before all of them joined and *)
(* have answered, or ended before they could.                              *)
THEOREM StartsOnlyWhenAllJoined == SenderSpec => []StartsWhenAllJoined
<1>1. SenderInv => StartsWhenAllJoined
  <2>1. SUFFICES ASSUME SenderInv, NEW p \in Peers, Len(down[p]) > 1
                 PROVE  Len(recvSock) = MaxPeer /\ Accepted \subseteq portSent \cup gone
    BY DEF StartsWhenAllJoined
  <2>2. Len(down[p]) >= 2
    BY <2>1 DEF SenderInv, SenderTypeOK
  <2>3. ~Joining /\ Len(recvSock) = MaxPeer
    BY <2>1, <2>2, LongLog
  <2>4. Accepted \subseteq portSent \cup gone
    BY <2>1, <2>3 DEF SenderInv, GreetInv, Joining, Accepted
  <2>5. QED
    BY <2>3, <2>4
<1>2. QED
  BY <1>1, SenderInvariant, PTL

=============================================================================
