------------------------------- MODULE P2PSender -------------------------------
(***************************************************************************)
(* The sending peer of project/p2p.c: the main thread of sender() and the  *)
(* send_file_from_sender threads it creates, one per file segment, which   *)
(* share one mutex.  The receiving peers are the environment here: they    *)
(* connect, answer with their listen port, and may end at any point.       *)
(* Module P2PReceiver replaces that environment with the real receivers.   *)
(*                                                                         *)
(* A TCP connection is a log of the items written to it, one item per      *)
(* write() (the recv_count, file_count and recv_info writes of one         *)
(* receiver's advance information are one item, "info").  What a reader    *)
(* has consumed is a position in the log, kept by the reader.              *)
(***************************************************************************)
EXTENDS Integers, Sequences

CONSTANTS
    Peers,      \* processes started as receiving peers (-r)
    MaxPeer,    \* -n: how many receivers the sender waits for
    FileCount   \* the number of segments split_file cut the file into

ASSUME SenderAssumption == MaxPeer \in Nat \ {0} /\ FileCount \in Nat

VARIABLES
    sPc,        \* where the sender's main thread is
    recvSock,   \* recv_sock[]: the accepted peers, in the order of accept()
    idx,        \* the loop counter i of the main thread
    rb,         \* the round-robin counter of the loop that creates threads
    thr,        \* where the thread of each segment is
    dest,       \* the recv_sock[] index the thread of each segment was given
    mutex,      \* the global mutex: Free, or the segment whose thread holds it
    down,       \* down[p]: what was written to the connection with peer p
    dialled,    \* peers whose connect() to the sender succeeded
    portSent,   \* peers that wrote their listen port
    gone        \* peers whose process ended with the connection open

sVars == <<sPc, recvSock, idx, rb, thr, dest, mutex, down>>
linkVars == <<dialled, portSent, gone>>
senderVars == <<sPc, recvSock, idx, rb, thr, dest, mutex, down, dialled, portSent, gone>>

Segs == 0 .. FileCount - 1
Slots == 0 .. MaxPeer - 1
Free == -1
NoSlot == -1

Item(kind, val) == [kind |-> kind, val |-> val]

(* The items that can be on a connection from the sender.                  *)
DownItem == [kind : {"no"}, val : Slots]
              \cup [kind : {"info"}, val : Seq(Peers)]
              \cup [kind : {"n", "size", "data"}, val : Segs]

Accepted == {recvSock[j] : j \in 1 .. Len(recvSock)}
Peer(n) == recvSock[n + 1]

(* The listening socket is open from listen() until close(send_sock).      *)
Listening == sPc \notin {"start", "done", "dead", "killed"}

(* Send threads run from their creation until main has joined them all.    *)
ThreadsRun == sPc \in {"spawn", "join"}

SInit ==
    /\ sPc = "start"
    /\ recvSock = <<>>
    /\ idx = 0
    /\ rb = 0
    /\ thr = [s \in Segs |-> "none"]
    /\ dest = [s \in Segs |-> NoSlot]
    /\ mutex = Free
    /\ down = [p \in Peers |-> <<>>]
    /\ dialled = {}
    /\ portSent = {}
    /\ gone = {}

-----------------------------------------------------------------------------
(* The main thread.                                                        *)

SListen ==
    /\ sPc = "start"
    /\ sPc' = "accept"
    /\ UNCHANGED <<recvSock, idx, rb, thr, dest, mutex, down, linkVars>>

(* accept() returns some connection of the backlog; its number is written  *)
(* to it at once.                                                          *)
SAccept(p) ==
    /\ sPc = "accept"
    /\ Len(recvSock) < MaxPeer
    /\ p \in dialled \ Accepted
    /\ recvSock' = Append(recvSock, p)
    /\ down' = [down EXCEPT ![p] = Append(@, Item("no", Len(recvSock)))]
    /\ sPc' = "port"
    /\ UNCHANGED <<idx, rb, thr, dest, mutex, linkVars>>

(* Mutant of SReadPort: the port is not waited for.                        *)
SReadPort_NoWait ==
    /\ sPc = "port"
    /\ sPc' = IF Len(recvSock) < MaxPeer THEN "accept" ELSE "info"
    /\ UNCHANGED <<recvSock, idx, rb, thr, dest, mutex, down, linkVars>>

(* read() of the listen port of the peer just accepted; recv_count++, also *)
(* if the peer has ended and the port stays what malloc() left there.      *)
SReadPort ==
    /\ sPc = "port"
    /\ recvSock[Len(recvSock)] \in portSent \cup gone
    /\ sPc' = IF Len(recvSock) < MaxPeer THEN "accept" ELSE "info"
    /\ UNCHANGED <<recvSock, idx, rb, thr, dest, mutex, down, linkVars>>

(* One round of the loop that sends the advance information: recv_count,   *)
(* file_count and the recv_info of every receiver.                         *)
SSendInfo ==
    /\ sPc = "info"
    /\ down' = [down EXCEPT ![Peer(idx)] = Append(@, Item("info", recvSock))]
    /\ IF idx + 1 < MaxPeer
         THEN idx' = idx + 1 /\ sPc' = "info"
         ELSE idx' = 0 /\ sPc' = "spawn"
    /\ UNCHANGED <<recvSock, rb, thr, dest, mutex, linkVars>>

(* A write() to a peer that has ended may, once the reset has arrived,     *)
(* raise SIGPIPE, which nothing catches: the sender dies.  This is that of *)
(* the number and that of the advance information.                         *)
SBrokenPipe ==
    /\ \/ /\ sPc = "accept"
          /\ Len(recvSock) < MaxPeer
          /\ gone \ Accepted # {}
       \/ /\ sPc = "info"
          /\ Peer(idx) \in gone
    /\ sPc' = "dead"
    /\ UNCHANGED <<recvSock, idx, rb, thr, dest, mutex, down, linkVars>>

(* Mutants of SSpawn: the counter wraps one too early, or the index is     *)
(* used after the increment.                                               *)
SSpawn_EarlyWrap ==
    /\ sPc = "spawn"
    /\ idx < FileCount
    /\ LET b == IF rb = MaxPeer - 1 THEN 0 ELSE rb
       IN  /\ dest' = [dest EXCEPT ![idx] = b]
           /\ rb' = b + 1
    /\ thr' = [thr EXCEPT ![idx] = "lock"]
    /\ idx' = idx + 1
    /\ UNCHANGED <<sPc, recvSock, mutex, down, linkVars>>

SSpawn_AfterIncrement ==
    /\ sPc = "spawn"
    /\ idx < FileCount
    /\ LET b == IF rb = MaxPeer THEN 0 ELSE rb
       IN  /\ dest' = [dest EXCEPT ![idx] = b + 1]
           /\ rb' = b + 1
    /\ thr' = [thr EXCEPT ![idx] = "lock"]
    /\ idx' = idx + 1
    /\ UNCHANGED <<sPc, recvSock, mutex, down, linkVars>>

(* One round of the loop that creates the send threads, round robin over   *)
(* recv_sock[].                                                            *)
SSpawn ==
    /\ sPc = "spawn"
    /\ idx < FileCount
    /\ LET b == IF rb = MaxPeer THEN 0 ELSE rb
       IN  /\ dest' = [dest EXCEPT ![idx] = b]
           /\ rb' = b + 1
    /\ thr' = [thr EXCEPT ![idx] = "lock"]
    /\ idx' = idx + 1
    /\ UNCHANGED <<sPc, recvSock, mutex, down, linkVars>>

SSpawned ==
    /\ sPc = "spawn"
    /\ idx = FileCount
    /\ sPc' = "join"
    /\ UNCHANGED <<recvSock, idx, rb, thr, dest, mutex, down, linkVars>>

(* All threads joined: close(send_sock), free everything, end of process.  *)
SJoin ==
    /\ sPc = "join"
    /\ \A s \in Segs : thr[s] = "done"
    /\ sPc' = "done"
    /\ UNCHANGED <<recvSock, idx, rb, thr, dest, mutex, down, linkVars>>

-----------------------------------------------------------------------------
(* send_file_from_sender, the thread of segment s.                         *)

(* Mutant of TLock: no lock is taken.                                      *)
TLock_Unlocked(s) ==
    /\ ThreadsRun
    /\ thr[s] = "lock"
    /\ mutex' = s
    /\ thr' = [thr EXCEPT ![s] = "n"]
    /\ UNCHANGED <<sPc, recvSock, idx, rb, dest, down, linkVars>>

TLock(s) ==
    /\ ThreadsRun
    /\ thr[s] = "lock"
    /\ mutex = Free
    /\ mutex' = s
    /\ thr' = [thr EXCEPT ![s] = "n"]
    /\ UNCHANGED <<sPc, recvSock, idx, rb, dest, down, linkVars>>

(* One write() of the thread of s to its connection.                       *)
TWrite(s, kind, then) ==
    /\ ThreadsRun
    /\ thr[s] = kind
    /\ down' = [down EXCEPT ![Peer(dest[s])] = Append(@, Item(kind, s))]
    /\ thr' = [thr EXCEPT ![s] = then]
    /\ UNCHANGED <<sPc, recvSock, idx, rb, dest, mutex, linkVars>>

TWriteN(s) == TWrite(s, "n", "size")
TWriteSize(s) == TWrite(s, "size", "data")
TWriteData(s) == TWrite(s, "data", "unlock")

(* Mutant of TUnlock: returns with the mutex locked.                       *)
TUnlock_Keeps(s) ==
    /\ ThreadsRun
    /\ thr[s] = "unlock"
    /\ thr' = [thr EXCEPT ![s] = "done"]
    /\ UNCHANGED <<sPc, recvSock, idx, rb, dest, mutex, down, linkVars>>

(* Unlock, free the segment and return.                                    *)
TUnlock(s) ==
    /\ ThreadsRun
    /\ thr[s] = "unlock"
    /\ mutex' = Free
    /\ thr' = [thr EXCEPT ![s] = "done"]
    /\ UNCHANGED <<sPc, recvSock, idx, rb, dest, down, linkVars>>

(* The same SIGPIPE in a thread.                                           *)
TBrokenPipe(s) ==
    /\ ThreadsRun
    /\ thr[s] \in {"n", "size", "data"}
    /\ Peer(dest[s]) \in gone
    /\ sPc' = "killed"
    /\ UNCHANGED <<recvSock, idx, rb, thr, dest, mutex, down, linkVars>>

-----------------------------------------------------------------------------
(* What the receiving peers do to the sender's connections.                *)

Dial(p) ==
    /\ Listening
    /\ p \notin dialled
    /\ dialled' = dialled \cup {p}
    /\ UNCHANGED <<sVars, portSent, gone>>

(* The peer has read its number and answers with its listen port.          *)
SendPort(p) ==
    /\ down[p] # <<>>
    /\ p \notin portSent \cup gone
    /\ portSent' = portSent \cup {p}
    /\ UNCHANGED <<sVars, dialled, gone>>

(* The process of the peer ends, whatever it has read and written.         *)
HangUp(p) ==
    /\ p \in dialled \ gone
    /\ gone' = gone \cup {p}
    /\ UNCHANGED <<sVars, dialled, portSent>>

SenderMain ==
    \/ SListen
    \/ \E p \in Peers : SAccept(p)
    \/ SReadPort
    \/ SSendInfo
    \/ SBrokenPipe
    \/ SSpawn
    \/ SSpawned
    \/ SJoin

SenderThread(s) ==
    \/ TLock(s)
    \/ TWriteN(s)
    \/ TWriteSize(s)
    \/ TWriteData(s)
    \/ TUnlock(s)
    \/ TBrokenPipe(s)

PeerStep(p) == Dial(p) \/ SendPort(p) \/ HangUp(p)

SenderNext ==
    \/ SenderMain
    \/ \E s \in Segs : SenderThread(s)
    \/ \E p \in Peers : PeerStep(p)

SenderSpec == SInit /\ [][SenderNext]_senderVars

-----------------------------------------------------------------------------
(* What the sender promises.                                               *)

Frame == <<"n", "size", "data">>

(* How many items of its frame the thread of s has written.                *)
Written(s) == CASE thr[s] = "size" -> 1
                [] thr[s] = "data" -> 2
                [] thr[s] \in {"unlock", "done"} -> 3
                [] OTHER -> 0

InFrame(s) == thr[s] \in {"n", "size", "data", "unlock"}

(* Type invariant of the sending peer.                                     *)
SenderTypeOK ==
    /\ sPc \in {"start", "accept", "port", "info", "spawn", "join", "done",
               "dead", "killed"}
    /\ recvSock \in Seq(Peers)
    /\ Len(recvSock) <= MaxPeer
    /\ idx \in Nat
    /\ rb \in 0 .. MaxPeer
    /\ thr \in [Segs -> {"none", "lock", "n", "size", "data", "unlock", "done"}]
    /\ dest \in [Segs -> Slots \cup {NoSlot}]
    /\ mutex \in Segs \cup {Free}
    /\ down \in [Peers -> Seq(DownItem)]
    /\ dialled \subseteq Peers
    /\ portSent \subseteq Peers
    /\ gone \subseteq Peers

(* A receiver parses its connection as n_th, file_size, contents, n_th, ... *)
(* whatever the order in which the send threads get the mutex: every group *)
(* of three items after the number and the advance information comes from  *)
(* one thread, and in that order; only the last group may be incomplete.   *)
FramesWhole ==
    \A p \in Peers : \A j \in 3 .. Len(down[p]) :
        LET k == (j - 3) % 3
        IN  /\ down[p][j].kind = Frame[k + 1]
            /\ down[p][j].val = down[p][j - k].val

(* README: the program starts once as many receiving peers as the sender   *)
(* asked for have connected.  No advance information and no segment is on  *)
(* any connection before MaxPeer peers are accepted and all of them have   *)
(* answered with their port or are gone (read() then returns 0).           *)
StartsWhenAllJoined ==
    (\E p \in Peers : Len(down[p]) > 1)
        => Len(recvSock) = MaxPeer /\ Accepted \subseteq portSent \cup gone

(* Segment s goes to receiver number s % MaxPeer, and to no other, once.   *)
RoundRobin ==
    \A p \in Peers : \A j \in 3 .. Len(down[p]) :
        /\ Len(recvSock) = MaxPeer
        /\ p = Peer(down[p][j].val % MaxPeer)
        /\ \A k \in 3 .. Len(down[p]) : down[p][k] = down[p][j] => k = j

-----------------------------------------------------------------------------
(* The inductive invariant behind the three properties above.              *)

Joining == sPc \in {"start", "accept", "port"}
Sending == sPc \in {"spawn", "join", "done", "killed"}

(* The main thread: its loops are at the round their counters say.         *)
MainInv ==
    /\ sPc = "start" => recvSock = <<>>
    /\ sPc = "accept" => Len(recvSock) < MaxPeer
    /\ sPc = "port" => Len(recvSock) > 0
    /\ Joining => idx = 0
    /\ Sending \/ sPc = "info" => Len(recvSock) = MaxPeer
    /\ sPc = "info" => idx < MaxPeer
    /\ sPc = "spawn" =>
         /\ idx <= FileCount
         /\ rb = IF idx = 0 THEN 0 ELSE ((idx - 1) % MaxPeer) + 1
         /\ \A s \in Segs : thr[s] = "none" <=> s >= idx
    /\ ~Sending => rb = 0 /\ \A s \in Segs : thr[s] = "none"
    /\ \A s \in Segs : thr[s] # "none" => dest[s] = s % MaxPeer

(* Every accepted peer is greeted with its number, and the advance         *)
(* information follows in the order of the numbers.                        *)
GreetInv ==
    /\ \A i, j \in 1 .. Len(recvSock) : recvSock[i] = recvSock[j] => i = j
    /\ \A j \in 1 .. Len(recvSock) :
         recvSock[j] \in portSent \cup gone \/ (sPc = "port" /\ j = Len(recvSock))
    /\ \A p \in Peers \ Accepted : down[p] = <<>>
    /\ \A p \in Peers : Len(down[p]) >= 2 => Len(recvSock) = MaxPeer
    /\ Joining => \A j \in 1 .. Len(recvSock) : Len(down[recvSock[j]]) = 1
    /\ sPc = "info" => \A j \in 1 .. Len(recvSock) :
                          Len(down[recvSock[j]]) = IF j <= idx THEN 2 ELSE 1
    /\ Sending => \A j \in 1 .. Len(recvSock) : Len(down[recvSock[j]]) >= 2
    /\ \A j \in 1 .. Len(recvSock) :
         /\ down[recvSock[j]][1] = Item("no", j - 1)
         /\ Len(down[recvSock[j]]) >= 2 => down[recvSock[j]][2] = Item("info", recvSock)

(* The mutex is held exactly by the thread that is inside a frame.         *)
MutexInv == \A s \in Segs : InFrame(s) <=> mutex = s

(* Every item of a frame was written by the thread it names, to the peer   *)
(* that thread was given, and no item was written twice.                   *)
ItemInv ==
    \A p \in Peers : \A j \in 3 .. Len(down[p]) : \E s \in Segs :
        /\ down[p][j].val = s
        /\ Written(s) > (j - 3) % 3
        /\ p = Peer(s % MaxPeer)

(* The segments of which a part is on the connection with p, not yet all.  *)
Unfinished(p) == {s \in Segs : Written(s) \in {1, 2} /\ Peer(dest[s]) = p}

(* A connection ends in the middle of a frame exactly if a thread is       *)
(* writing a frame to it, and there is one such thread.                    *)
TailInv ==
    Sending => \A p \in Accepted :
        /\ (Len(down[p]) - 2) % 3 # 0 => Unfinished(p) # {}
        /\ \A s \in Unfinished(p) :
             /\ (Len(down[p]) - 2) % 3 = Written(s)
             /\ down[p][Len(down[p])].val = s

(* Inductive: the property that proves the promises of the sender.         *)
SenderInv ==
    /\ SenderTypeOK
    /\ MainInv
    /\ GreetInv
    /\ MutexInv
    /\ FramesWhole
    /\ RoundRobin
    /\ ItemInv
    /\ TailInv

=============================================================================
