---------------------------- MODULE FileServerProofs ----------------------------
(***************************************************************************)
(* server.c and client.c of hw3, for any clients, files and commands.      *)
(*                                                                         *)
(* First, one client is served and no second: the main thread accepts only *)
(* in "epoll", where it is once (ServedInv).                               *)
(*                                                                         *)
(* Then the protocol between a client and its thread.  FlowInv says what   *)
(* may be on the three connections in every state of the thread, with      *)
(* whatever its reads swallowed; ClientInv what a client may hold.         *)
(* OrderInv pairs the states of the two over one command, while nothing    *)
(* went wrong; SoundInv says that what is asked for is there; EndInv why a *)
(* process has ended.                                                      *)
(***************************************************************************)
EXTENDS FileServer, FiniteSetTheorems, SequenceTheorems, TLAPS

Runs(c) == hPc[c] \notin {"none", "ended"}

(* Where a thread may be, and what may have gone wrong.                    *)
HPcs == {"none", "lspath", "count", "entries", "type", "dlpath", "dlname", "dlmore", "send",
         "port", "upath", "usize", "udata", "stuck", "ended"}
Faults == {"unlisted", "empty", "stale", "overrun", "swallowed"}

ServedInv ==
    /\ hPc = [c \in Clients |-> hPc[c]]
    /\ mPc = "epoll" => threads = 0 /\ \A c \in Clients : ~Served(c)
    /\ \A c, d \in Clients : Served(c) /\ Served(d) => c = d
    /\ threads = IF \E c \in Clients : Runs(c) THEN 1 ELSE 0

LEMMA ServedInitial == Init => ServedInv
  <1> SUFFICES ASSUME Init PROVE ServedInv
    OBVIOUS
  <1>1. mPc = "epoll" /\ threads = 0 /\ hPc = [c \in Clients |-> "none"]
    BY DEF Init
  <1> QED BY <1>1 DEF ServedInv, Served, Runs

LEMMA ServedCounts == ServedInv => OneServed
  <1> SUFFICES ASSUME ServedInv PROVE OneServed
    OBVIOUS
  <1> DEFINE running == {c \in Clients : hPc[c] \notin {"none", "ended"}}
  <1>1. threads = Cardinality(running)
    <2>1. CASE \E c \in Clients : Runs(c)
      <3>1. PICK c \in Clients : Runs(c)
        BY <2>1
      <3>2. running = {c}
        BY <3>1 DEF Runs, ServedInv, Served
      <3>3. Cardinality(running) = 1
        BY <3>2, FS_Singleton
      <3> QED BY <2>1, <3>3 DEF ServedInv
    <2>2. CASE ~\E c \in Clients : Runs(c)
      <3>1. running = {}
        BY <2>2 DEF Runs
      <3>2. Cardinality(running) = 0
        BY <3>1, FS_EmptySet
      <3> QED BY <2>2, <3>2 DEF ServedInv
    <2> QED BY <2>1, <2>2
  <1> QED BY <1>1 DEF ServedInv, OneServed

(* A thread that goes on.                                                  *)
LEMMA GoingOn ==
    ASSUME ServedInv, NEW c \in Clients, mPc = "serving", Runs(c),
           NEW pc, pc \notin {"none", "ended"}, Go(c, pc),
           UNCHANGED <<mPc, threads>>
    PROVE  ServedInv'
  BY DEF ServedInv, Served, Runs, Go

(* What changes neither the threads nor their number, and does not make    *)
(* the main thread watch the listening socket again.                       *)
LEMMA NoThreadMoves ==
    ASSUME ServedInv, UNCHANGED <<hPc, threads>>, mPc' # "epoll" \/ UNCHANGED mPc
    PROVE  ServedInv'
  BY DEF ServedInv, Served, Runs

LEMMA MainKeeps == ASSUME ServedInv, MainStep PROVE ServedInv'
  <1>1. CASE MLeave
    BY <1>1, NoThreadMoves DEF MLeave, threadVars
  <1>2. ASSUME NEW c \in Clients, MAccept(c) PROVE ServedInv'
    BY <1>2 DEF MAccept, ServedInv, Served, Runs
  <1> QED BY <1>1, <1>2 DEF MainStep

LEMMA UserKeeps == ASSUME ServedInv, NEW c \in Clients, UserStep(c) PROVE ServedInv'
  <1>1. UNCHANGED <<serverVars, threadVars>>
    BY DEF UserStep, CCd, CLs, CDownload, CUpload, CQuit, CVanish, Command
  <1> QED BY <1>1, NoThreadMoves DEF serverVars, threadVars

LEMMA ClientKeeps == ASSUME ServedInv, NEW c \in Clients, ClientStep(c) PROVE ServedInv'
  <1>1. UNCHANGED <<serverVars, threadVars>>
    BY DEF ClientStep, CConnect, CCount, CEntry, CData, ReadData, CPort, CLost
  <1> QED BY <1>1, NoThreadMoves DEF serverVars, threadVars

LEMMA DieKeeps == ASSUME ServedInv, Die PROVE ServedInv'
  BY NoThreadMoves DEF Die, threadVars

LEMMA ThreadKeeps == ASSUME ServedInv, NEW c \in Clients, ThreadStep(c) PROVE ServedInv'
  <1>1. CASE HLsPath(c) \/ HDownloadPath(c) \/ HUploadPath(c)
    <2>1. PICK pc \in {"count", "dlname", "usize"} : Go(c, pc)
      BY <1>1 DEF HLsPath, HDownloadPath, HUploadPath, ReadPath
    <2> QED BY <1>1, <2>1, GoingOn DEF HLsPath, HDownloadPath, HUploadPath, ReadPath, At, Runs, serverVars
  <1>2. CASE HCount(c) \/ HEntries(c)
    BY <1>2, GoingOn DEF HCount, HEntries, At, Runs, serverVars
  <1>3. CASE HType(c)
    <2>1. PICK type : /\ Go(c, NextPc(type))
                      /\ threads' = IF type = 4 THEN threads - 1 ELSE threads
      BY <1>3 DEF HType
    <2>2. mPc = "serving" /\ Runs(c) /\ threads = 1 /\ UNCHANGED mPc
      BY <1>3 DEF HType, At, Runs, ServedInv
    <2>3. CASE type = 4
      <3>1. hPc' = [hPc EXCEPT ![c] = "ended"] /\ threads' = 0
        BY <2>1, <2>2, <2>3 DEF Go, NextPc
      <3> QED BY <2>2, <3>1 DEF ServedInv, Served, Runs
    <2>4. CASE type # 4
      <3>1. NextPc(type) \notin {"none", "ended"}
        BY <2>4 DEF NextPc
      <3> QED BY <2>1, <2>2, <2>4, <3>1, GoingOn
    <2> QED BY <2>3, <2>4
  <1>4. CASE HDownloadName(c)
    <2>1. PICK pc \in {"send", "dlmore"} : Go(c, pc)
      BY <1>4 DEF HDownloadName
    <2> QED BY <1>4, <2>1, GoingOn DEF HDownloadName, At, Runs, serverVars
  <1>10. CASE HSend(c) \/ HSendNothing(c) \/ HPort(c)
    BY <1>10, GoingOn DEF HSend, HSendNothing, HPort, At, Runs, serverVars
  <1>5. CASE HUploadSize(c)
    BY <1>5, GoingOn DEF HUploadSize, At, Runs, serverVars
  <1>6. CASE HUploadData(c)
    BY <1>6, GoingOn DEF HUploadData, StoreData, At, Runs, serverVars
  <1>7. CASE HUploadEnd(c)
    BY <1>7, GoingOn DEF HUploadEnd, At, Runs, serverVars
  <1>8. CASE HOpenFails(c) \/ HCrash(c)
    BY <1>8, DieKeeps DEF HOpenFails, HCrash
  <1>9. CASE HEnd(c)
    BY <1>9, DieKeeps, GoingOn DEF HEnd, Runs, serverVars
  <1> QED BY <1>1, <1>2, <1>3, <1>4, <1>5, <1>6, <1>7, <1>8, <1>9, <1>10 DEF ThreadStep

LEMMA ServedInductive == ServedInv /\ [Next]_vars => ServedInv'
  <1> SUFFICES ASSUME ServedInv, [Next]_vars PROVE ServedInv'
    OBVIOUS
  <1>1. CASE MainStep
    BY <1>1, MainKeeps
  <1>2. CASE Outsider
    BY <1>2, NoThreadMoves DEF Outsider, serverVars, threadVars
  <1>3. ASSUME NEW c \in Clients,
               UserStep(c) \/ ClientStep(c) \/ ThreadStep(c) \/ HOverwritten(c)
        PROVE  ServedInv'
    BY <1>3, UserKeeps, ClientKeeps, ThreadKeeps, DieKeeps DEF HOverwritten
  <1>4. CASE UNCHANGED vars
    BY <1>4, NoThreadMoves DEF vars, serverVars, threadVars
  <1> QED BY <1>1, <1>2, <1>3, <1>4 DEF Next

(* server.c serves one client of all that connect, and thread_count is the *)
(* number of the threads that run.                                         *)
THEOREM ServesOneClient == Spec => []OneServed
  <1>1. Spec => []ServedInv
    BY ServedInitial, ServedInductive, PTL DEF Spec
  <1> QED BY <1>1, ServedCounts, PTL

-----------------------------------------------------------------------------
(* Sequences of writes: what is among them, and at most once.              *)

Has(s, W) == \E k \in 1 .. Len(s) : s[k] \in W
Once(s, W) == \A j, k \in 1 .. Len(s) : s[j] \in W /\ s[k] \in W => j = k

UpWrite ==
    [kind : {"path"}, val : Dirs \cup {Nowhere}] \cup [kind : {"name"}, val : Names]
        \cup [kind : {"type"}, val : 0 .. 4]
(* The write of type v.                                                    *)
TypeWrite(v) == {Write("type", v)}
CountWrite == [kind : {"count"}, val : Nat]
PortWrite == [kind : {"port"}, val : Clients]
DataWrite == [kind : {"data"}, val : Block]
DownWrite == CountWrite \cup PortWrite \cup DataWrite \cup [kind : {"entry"}, val : Entry]
UploadWrite ==
    [kind : {"path"}, val : Dirs \cup {Nowhere}] \cup [kind : {"size"}, val : Nat] \cup DataWrite

QueuesOK ==
    /\ up \in [Clients -> Seq(UpWrite)]
    /\ down \in [Clients -> Seq(DownWrite)]
    /\ upload \in [Clients -> Seq(UploadWrite)]

-----------------------------------------------------------------------------
(* A path follows the types that are followed by one, whatever a read has  *)
(* swallowed before them.                                                  *)

Commands(s) ==
    \A k \in 1 .. Len(s) :
        s[k].kind = "type" /\ s[k].val \in {1, 2} => k + 1 <= Len(s) /\ s[k + 1].kind = "path"

(* The thread reads from its client, or may again.                         *)
Reads(c) == hPc[c] \notin {"stuck", "ended"}

Starts(s, pc) == pc \in {"lspath", "dlpath"} => Len(s) >= 1 /\ s[1].kind = "path"

Parsed(c) ==
    /\ hPc[c] = "none" =>
        /\ hType[c] = 0 /\ cPc[c] \in {"start", "count", "vanished", "lost"}
        /\ IF cPc[c] \in {"start", "lost"} THEN Len(up[c]) <= 1 ELSE Len(up[c]) = 1
        /\ cPc[c] = "start" => up[c] = <<>>
        /\ \A k \in 1 .. Len(up[c]) : up[c][k].kind = "path"
        /\ down[c] = <<>>
    /\ hPc[c] = "entries" => hDir[c] \in Dirs
    /\ cPc[c] = "start" => hPc[c] = "none"
    /\ hPc[c] # "none" /\ Reads(c) => Commands(up[c]) /\ Starts(up[c], hPc[c])

-----------------------------------------------------------------------------
(* A client waits for one answer at a time.                                *)

Live(c) == cPc[c] \notin {"garbled", "vanished", "lost"}

Asked(c, t) == Has(up[c], TypeWrite(t))

Listing(c) ==
    /\ Asked(c, 1) \/ hPc[c] \in {"lspath", "count"} \/ Has(down[c], CountWrite) => cPc[c] = "count"
    /\ Asked(c, 1) => hPc[c] \notin {"none", "lspath", "count"}
    /\ Has(down[c], CountWrite) => ~Asked(c, 1) /\ hPc[c] \notin {"none", "lspath", "count"}
    /\ Once(up[c], TypeWrite(1)) /\ Once(down[c], CountWrite)

Uploading(c) ==
    /\ Asked(c, 3) \/ hPc[c] = "port" \/ Has(down[c], PortWrite) => cPc[c] = "port"
    /\ Asked(c, 3) => hPc[c] # "port" /\ ~Has(down[c], PortWrite)
    /\ Has(down[c], PortWrite) => hPc[c] = "upath" /\ upload[c] = <<>>
    /\ hPc[c] = "upath" /\ upload[c] = <<>> => Has(down[c], PortWrite)
    /\ Once(up[c], TypeWrite(3)) /\ Once(down[c], PortWrite)

Quitting(c) ==
    Asked(c, 4) \/ hPc[c] = "ended" => cPc[c] = "done"

-----------------------------------------------------------------------------
(* What is on the connection of an upload.                                 *)

IsData(s, first) == \A k \in first .. Len(s) : s[k].kind = "data"

Stored(c) ==
    /\ hPc[c] = "upath" =>
        /\ IsData(upload[c], 3)
        /\ Len(upload[c]) >= 1 => upload[c][1].kind = "path"
        /\ Len(upload[c]) >= 2 => upload[c][2].kind = "size" /\ Len(upload[c]) - 2 <= upload[c][2].val
        /\ cPc[c] # "vanished" /\ upload[c] # <<>> =>
            Len(upload[c]) >= 2 /\ upload[c][2].val = Len(upload[c]) - 2
    /\ hPc[c] = "usize" => IsData(upload[c], 2)
    /\ hPc[c] = "usize" /\ "swallowed" \notin faults[c] =>
        /\ Len(upload[c]) >= 1 => upload[c][1].kind = "size" /\ Len(upload[c]) - 1 <= upload[c][1].val
        /\ cPc[c] # "vanished" => Len(upload[c]) >= 1 /\ upload[c][1].val = Len(upload[c]) - 1
    /\ hPc[c] = "udata" =>
        /\ IsData(upload[c], 1)
        /\ Exists(hDir[c], Hello)
    /\ hPc[c] = "udata" /\ "swallowed" \notin faults[c] =>
        /\ Len(fs[hDir[c]][Hello]) + Len(upload[c]) <= hNum[c]
        /\ cPc[c] # "vanished" => Len(fs[hDir[c]][Hello]) + Len(upload[c]) = hNum[c]
    /\ hPc[c] \notin {"upath", "usize", "udata", "stuck"} /\ "swallowed" \notin faults[c] => upload[c] = <<>>

FlowInv ==
    /\ FileServerTypeOK
    /\ QueuesOK
    /\ \A c \in Clients :
        /\ Parsed(c)
        /\ Live(c) => Listing(c) /\ Uploading(c)
        /\ Quitting(c)
        /\ Stored(c)

-----------------------------------------------------------------------------
(* Lemmas about sequences of writes.                                       *)

LEMMA Popped ==
    ASSUME NEW S, NEW s \in Seq(S), NEW n \in 1 .. Len(s), NEW t, t = SubSeq(s, n + 1, Len(s))
    PROVE  /\ t \in Seq(S)
           /\ Len(t) = Len(s) - n
           /\ \A k \in 1 .. Len(t) : k + n \in 1 .. Len(s) /\ t[k] = s[k + n]
  OBVIOUS

LEMMA PoppedHas ==
    ASSUME NEW S, NEW s \in Seq(S), NEW n \in 1 .. Len(s), NEW t, t = SubSeq(s, n + 1, Len(s)),
           NEW W
    PROVE  /\ Has(t, W) => Has(s, W)
           /\ Once(s, W) => Once(t, W)
           /\ Once(s, W) /\ s[1] \in W => ~Has(t, W)
  <1>1. Len(t) \in Nat /\ Len(s) \in Nat /\ n \in Nat /\ n >= 1
        /\ \A k \in 1 .. Len(t) : k + n \in 1 .. Len(s) /\ t[k] = s[k + n]
    BY Popped
  <1>2. Has(t, W) => Has(s, W)
    BY <1>1 DEF Has
  <1>3. ASSUME Once(s, W), NEW j \in 1 .. Len(t), NEW k \in 1 .. Len(t), t[j] \in W, t[k] \in W
        PROVE  j = k
    <2>1. j + n \in 1 .. Len(s) /\ k + n \in 1 .. Len(s) /\ s[j + n] \in W /\ s[k + n] \in W
      BY <1>1, <1>3
    <2>2. j + n = k + n
      BY <1>3, <2>1 DEF Once
    <2> QED BY <1>1, <2>2
  <1>4. ASSUME Once(s, W), s[1] \in W, NEW k \in 1 .. Len(t), t[k] \in W
        PROVE  FALSE
    <2>1. k + n \in 1 .. Len(s) /\ s[k + n] \in W /\ 1 \in 1 .. Len(s)
      BY <1>1, <1>4
    <2>2. k + n = 1
      BY <1>4, <2>1 DEF Once
    <2> QED BY <1>1, <2>2
  <1> QED BY <1>2, <1>3, <1>4 DEF Has, Once

(* The reading of one write.                                               *)
LEMMA HeadPopped ==
    ASSUME NEW S, NEW s \in Seq(S), s # <<>>, NEW t, t = SubSeq(s, 2, Len(s))
    PROVE  /\ Head(s) = s[1] /\ s[1] \in S /\ Len(s) \in Nat /\ Len(s) >= 1
           /\ t \in Seq(S)
           /\ Len(t) = Len(s) - 1
           /\ \A k \in 1 .. Len(t) : k + 1 \in 1 .. Len(s) /\ t[k] = s[k + 1]
  <1>1. PICK n \in 1 .. Len(s) : n = 1
    OBVIOUS
  <1>2. t = SubSeq(s, n + 1, Len(s))
    BY <1>1
  <1>3. Head(s) = s[1] /\ s[1] \in S /\ Len(s) \in Nat /\ Len(s) >= 1
    BY <1>1
  <1>4. /\ t \in Seq(S)
        /\ Len(t) = Len(s) - n
        /\ \A k \in 1 .. Len(t) : k + n \in 1 .. Len(s) /\ t[k] = s[k + n]
    BY <1>2, Popped
  <1> QED BY <1>1, <1>3, <1>4

LEMMA HeadPoppedHas ==
    ASSUME NEW S, NEW s \in Seq(S), s # <<>>, NEW t, t = SubSeq(s, 2, Len(s)), NEW W
    PROVE  /\ Has(t, W) => Has(s, W)
           /\ Once(s, W) => Once(t, W)
           /\ s[1] \in W => Has(s, W)
           /\ Once(s, W) /\ s[1] \in W => ~Has(t, W)
  <1>1. PICK n \in 1 .. Len(s) : n = 1
    OBVIOUS
  <1>2. t = SubSeq(s, n + 1, Len(s))
    BY <1>1
  <1>3. s[1] \in W => Has(s, W)
    BY <1>1 DEF Has
  <1> QED BY <1>2, <1>3, PoppedHas

LEMMA Joined ==
    ASSUME NEW S, NEW s \in Seq(S), NEW w \in Seq(S), NEW t, t = s \o w
    PROVE  /\ t \in Seq(S)
           /\ Len(t) = Len(s) + Len(w)
           /\ \A k \in 1 .. Len(s) : t[k] = s[k]
           /\ \A k \in 1 .. Len(w) : t[Len(s) + k] = w[k]
           /\ \A k \in 1 .. Len(t) : k \notin 1 .. Len(s) => /\ k - Len(s) \in 1 .. Len(w)
                                                             /\ t[k] = w[k - Len(s)]
  OBVIOUS

LEMMA JoinedLength ==
    ASSUME NEW S, NEW s \in Seq(S), NEW w \in Seq(S)
    PROVE  s \o w \in Seq(S) /\ Len(s \o w) = Len(s) + Len(w)
  OBVIOUS

LEMMA JoinedHead ==
    ASSUME NEW S, NEW s \in Seq(S), NEW w \in Seq(S), s # <<>>
    PROVE  (s \o w)[1] = s[1] /\ <<>> \o (s \o w) = s \o w
  OBVIOUS

LEMMA JoinedHas ==
    ASSUME NEW S, NEW s \in Seq(S), NEW w \in Seq(S), NEW W
    PROVE  /\ Has(s \o w, W) <=> Has(s, W) \/ Has(w, W)
           /\ Once(s, W) /\ ~Has(w, W) => Once(s \o w, W)
           /\ ~Has(s, W) /\ Once(w, W) => Once(s \o w, W)
  <1> DEFINE t == s \o w
  <1>0. t = s \o w
    OBVIOUS
  <1> HIDE DEF t
  <1>1. Len(s) \in Nat /\ Len(w) \in Nat /\ Len(t) = Len(s) + Len(w)
    BY <1>0, Joined
  <1>2. /\ \A k \in 1 .. Len(s) : k \in 1 .. Len(t) /\ t[k] = s[k]
        /\ \A k \in 1 .. Len(w) : Len(s) + k \in 1 .. Len(t) /\ t[Len(s) + k] = w[k]
        /\ \A k \in 1 .. Len(t) : k \notin 1 .. Len(s) => /\ k - Len(s) \in 1 .. Len(w)
                                                          /\ t[k] = w[k - Len(s)]
    BY <1>0, <1>1, Joined
  <1>3. Has(t, W) <=> Has(s, W) \/ Has(w, W)
    BY <1>2 DEF Has
  <1>4. ASSUME Once(s, W), ~Has(w, W), NEW j \in 1 .. Len(t), NEW k \in 1 .. Len(t), t[j] \in W, t[k] \in W
        PROVE  j = k
    BY <1>2, <1>4 DEF Once, Has
  <1>5. ASSUME ~Has(s, W), Once(w, W), NEW j \in 1 .. Len(t), NEW k \in 1 .. Len(t), t[j] \in W, t[k] \in W
        PROVE  j = k
    <2>1. j \notin 1 .. Len(s) /\ k \notin 1 .. Len(s)
      BY <1>2, <1>5 DEF Has
    <2>2. j - Len(s) = k - Len(s)
      BY <1>2, <1>5, <2>1 DEF Once
    <2> QED BY <1>1, <2>2
  <1>6. /\ Once(s, W) /\ ~Has(w, W) => Once(t, W)
        /\ ~Has(s, W) /\ Once(w, W) => Once(t, W)
    BY <1>4, <1>5 DEF Once
  <1> QED BY <1>0, <1>3, <1>6

(* What is read leaves commands, what is written behind them adds one.     *)
LEMMA PoppedCommands ==
    ASSUME NEW s \in Seq(UpWrite), NEW n \in 1 .. Len(s), NEW t, t = SubSeq(s, n + 1, Len(s)),
           Commands(s)
    PROVE  Commands(t)
  <1>1. /\ Len(s) \in Nat /\ Len(t) = Len(s) - n /\ n \in Nat
        /\ \A k \in 1 .. Len(t) : k + n \in 1 .. Len(s) /\ t[k] = s[k + n]
    BY Popped
  <1>2. ASSUME NEW k \in 1 .. Len(t), t[k].kind = "type", t[k].val \in {1, 2}
        PROVE  k + 1 <= Len(t) /\ t[k + 1].kind = "path"
    <2>1. k + n \in 1 .. Len(s) /\ t[k] = s[k + n] /\ k \in Nat
      BY <1>1
    <2>2. (k + n) + 1 <= Len(s) /\ s[(k + n) + 1].kind = "path"
      BY <1>2, <2>1 DEF Commands
    <2>3. (k + n) + 1 = (k + 1) + n /\ k + 1 \in 1 .. Len(t)
      BY <1>1, <2>1, <2>2
    <2> QED BY <1>1, <2>2, <2>3
  <1> QED BY <1>2 DEF Commands

LEMMA JoinedCommands ==
    ASSUME NEW s \in Seq(UpWrite), NEW w \in Seq(UpWrite), NEW t, t = s \o w,
           Commands(s), Commands(w)
    PROVE  /\ Commands(t)
           /\ \A pc : Starts(s, pc) => Starts(t, pc)
  <1>1. /\ Len(s) \in Nat /\ Len(w) \in Nat /\ Len(t) = Len(s) + Len(w)
        /\ \A k \in 1 .. Len(s) : t[k] = s[k]
        /\ \A k \in 1 .. Len(w) : t[Len(s) + k] = w[k]
    BY Joined
  <1>2. ASSUME NEW k \in 1 .. Len(t), t[k].kind = "type", t[k].val \in {1, 2}
        PROVE  k + 1 <= Len(t) /\ t[k + 1].kind = "path"
    <2>1. CASE k \in 1 .. Len(s)
      <3>1. t[k] = s[k]
        BY <1>1, <2>1
      <3>2. k + 1 <= Len(s) /\ s[k + 1].kind = "path"
        BY <1>2, <2>1, <3>1 DEF Commands
      <3>3. k + 1 \in 1 .. Len(s) /\ k + 1 <= Len(t)
        BY <1>1, <2>1, <3>2
      <3> QED BY <1>1, <3>2, <3>3
    <2>2. CASE k \notin 1 .. Len(s)
      <3>1. PICK j \in 1 .. Len(w) : k = Len(s) + j
        <4>1. k - Len(s) \in 1 .. Len(w) /\ k = Len(s) + (k - Len(s))
          BY <1>1, <2>2
        <4> QED BY <4>1
      <3>2. t[k] = w[j]
        BY <1>1, <3>1
      <3>3. j + 1 <= Len(w) /\ w[j + 1].kind = "path"
        BY <1>2, <3>2 DEF Commands
      <3>4. j + 1 \in 1 .. Len(w) /\ k + 1 = Len(s) + (j + 1) /\ k + 1 <= Len(t)
        BY <1>1, <3>1, <3>3
      <3> QED BY <1>1, <3>3, <3>4
    <2> QED BY <2>1, <2>2
  <1>3. Len(s) >= 1 => Len(t) >= 1 /\ t[1] = s[1]
    BY <1>1
  <1> QED BY <1>2, <1>3 DEF Commands, Starts

-----------------------------------------------------------------------------
(* A step of one client, or of its thread, is not seen by the others.      *)

Others(c) ==
    \A d \in Clients : d # c =>
        /\ hPc'[d] = hPc[d] /\ hType'[d] = hType[d] /\ hDir'[d] = hDir[d]
        /\ hName'[d] = hName[d] /\ hNum'[d] = hNum[d]
        /\ cPc'[d] = cPc[d] /\ cDir'[d] = cDir[d] /\ cInfo'[d] = cInfo[d] /\ cListed'[d] = cListed[d]
        /\ cLeft'[d] = cLeft[d] /\ cWant'[d] = cWant[d] /\ local'[d] = local[d]
        /\ up'[d] = up[d] /\ down'[d] = down[d] /\ upload'[d] = upload[d] /\ faults'[d] = faults[d]

FlowOf(c) ==
    /\ Parsed(c)
    /\ Live(c) => Listing(c) /\ Uploading(c)
    /\ Quitting(c)
    /\ Stored(c)

LEMMA FlowOfOthers ==
    ASSUME FlowInv, NEW c \in Clients, Others(c), NEW d \in Clients, d # c,
           hPc[d] = "udata" => fs'[hDir[d]][Hello] = fs[hDir[d]][Hello]
    PROVE  FlowOf(d)'
  <1>1. /\ hPc'[d] = hPc[d] /\ hType'[d] = hType[d] /\ hDir'[d] = hDir[d] /\ hNum'[d] = hNum[d]
        /\ cPc'[d] = cPc[d] /\ up'[d] = up[d] /\ down'[d] = down[d] /\ upload'[d] = upload[d]
        /\ faults'[d] = faults[d]
    BY DEF Others
  <1>2. Parsed(d) /\ (Live(d) => Listing(d) /\ Uploading(d)) /\ Quitting(d) /\ Stored(d)
    BY DEF FlowInv
  <1>3. Parsed(d)'
    BY <1>1, <1>2 DEF Parsed, Reads
  <1>4. Live(d)' => Listing(d)' /\ Uploading(d)'
    BY <1>1, <1>2 DEF Live, Listing, Uploading, Asked
  <1>5. Quitting(d)'
    BY <1>1, <1>2 DEF Quitting, Asked
  <1>6. Stored(d)'
    BY <1>1, <1>2 DEF Stored, Exists
  <1> QED BY <1>3, <1>4, <1>5, <1>6 DEF FlowOf

LEMMA FlowStep ==
    ASSUME FlowInv, ServedInv, NEW c \in Clients, Others(c), Served(c) \/ UNCHANGED fs,
           FileServerTypeOK', QueuesOK', FlowOf(c)'
    PROVE  FlowInv'
  <1>1. ASSUME NEW d \in Clients PROVE FlowOf(d)'
    <2>1. CASE d # c
      <3>1. hPc[d] = "udata" => fs'[hDir[d]][Hello] = fs[hDir[d]][Hello]
        BY <2>1 DEF ServedInv, Served
      <3> QED BY <2>1, <3>1, FlowOfOthers
    <2> QED BY <2>1
  <1> QED BY <1>1 DEF FlowInv, FlowOf

(* thread_count, of which ServedInv says that it is one at most.           *)
LEMMA ThreadsCounted == ServedInv' => threads' \in 0 .. Cardinality(Clients)
  <1> SUFFICES ASSUME ServedInv' PROVE threads' \in 0 .. Cardinality(Clients)
    OBVIOUS
  <1>1. Cardinality(Clients) \in Nat /\ (Clients # {} => Cardinality(Clients) # 0)
    BY FileServerAssumption, FS_CardinalityType, FS_EmptySet
  <1>2. threads' = 0 \/ (threads' = 1 /\ Clients # {})
    BY DEF ServedInv
  <1> QED BY <1>1, <1>2

LEMMA FlowInitial == Init => FlowInv
  <1> SUFFICES ASSUME Init PROVE FlowInv
    OBVIOUS
  <1>1. Cardinality(Clients) \in Nat
    BY FileServerAssumption, FS_CardinalityType
  <1>2. FileServerTypeOK
    <2>1. fs \in [Dirs -> [Names -> File]]
      BY FileServerAssumption DEF Init, File
    <2>2. local \in [Clients -> [Names -> File]]
      BY FileServerAssumption DEF Init, File
    <2>3. cWant \in [Clients -> Entry]
      BY DEF Init, Entry
    <2> QED BY <1>1, <2>1, <2>2, <2>3, FileServerAssumption DEF Init, FileServerTypeOK, Dirs
  <1>3. QueuesOK
    BY DEF Init, QueuesOK
  <1>4. ASSUME NEW c \in Clients PROVE FlowOf(c)
    <2>1. /\ hPc[c] = "none" /\ hType[c] = 0 /\ cPc[c] = "start" /\ up[c] = <<>> /\ down[c] = <<>>
          /\ upload[c] = <<>>
      BY DEF Init
    <2>2. \A W : ~Has(<<>>, W) /\ Once(<<>>, W)
      BY DEF Has, Once
    <2>3. Parsed(c)
      BY <2>1 DEF Parsed
    <2>4. Listing(c) /\ Uploading(c) /\ Quitting(c)
      BY <2>1, <2>2 DEF Listing, Uploading, Quitting, Asked
    <2>5. Stored(c)
      BY <2>1 DEF Stored
    <2> QED BY <2>3, <2>4, <2>5 DEF FlowOf
  <1> QED BY <1>2, <1>3, <1>4 DEF FlowInv, FlowOf

-----------------------------------------------------------------------------
(* What the thread reads.                                                  *)

LEMMA WriteKinds ==
    ASSUME NEW w \in UpWrite
    PROVE  /\ w.kind = "path" => w.val \in Dirs \cup {Nowhere}
           /\ w.kind = "name" => w.val \in Names
           /\ w.kind = "type" => w.val \in 0 .. 4 /\ w = Write("type", w.val)
  BY DEF UpWrite, Write

LEMMA TypeParsed ==
    ASSUME NEW s \in Seq(UpWrite), s # <<>>, Commands(s), NEW t, t = SubSeq(s, 2, Len(s)),
           NEW type, type = IF Head(s).kind = "type" THEN Head(s).val ELSE 0
    PROVE  /\ type \in 0 .. 4 /\ (type # 0 => s[1] = Write("type", type))
           /\ Commands(t) /\ Starts(t, NextPc(type))
  <1>1. 1 \in 1 .. Len(s) /\ Head(s) = s[1] /\ s[1] \in UpWrite
    OBVIOUS
  <1>2. type \in 0 .. 4 /\ (type # 0 => s[1] = Write("type", type))
    BY <1>1, WriteKinds
  <1>3. t = SubSeq(s, 1 + 1, Len(s))
    OBVIOUS
  <1>4. Commands(t)
    BY <1>1, <1>3, PoppedCommands
  <1>5. /\ Len(t) = Len(s) - 1 /\ Len(s) \in Nat
        /\ \A k \in 1 .. Len(t) : t[k] = s[k + 1]
    BY ZenonT(40), HeadPopped
  <1>6. CASE type \in {1, 2}
    <2>1. s[1].kind = "type" /\ s[1].val = type
      BY <1>1, <1>6
    <2>2. 1 + 1 <= Len(s) /\ s[1 + 1].kind = "path"
      BY <1>1, <1>6, <2>1 DEF Commands
    <2>3. Len(t) >= 1 /\ t[1] = s[2]
      BY <1>5, <2>2
    <2> QED BY <1>2, <1>4, <2>2, <2>3 DEF Starts
  <1>7. CASE type \notin {1, 2}
    <2>1. NextPc(type) \notin {"lspath", "dlpath"}
      BY <1>7 DEF NextPc
    <2> QED BY <1>2, <1>4, <2>1 DEF Starts
  <1> QED BY <1>6, <1>7

LEMMA PathParsed ==
    ASSUME NEW s \in Seq(UpWrite), Len(s) >= 1
    PROVE  /\ Head(s) = s[1]
           /\ \A pc \in {"lspath", "dlpath"} : Starts(s, pc) => s[1].val \in Dirs \cup {Nowhere}
           /\ s[1].kind = "name" => s[1].val \in Names
  <1>1. Head(s) = s[1] /\ s[1] \in UpWrite
    OBVIOUS
  <1> QED BY <1>1, WriteKinds DEF Starts

(* The thread reads the next command.                                      *)
LEMMA FlowType == ASSUME FlowInv, ServedInv, ServedInv', NEW c \in Clients, HType(c) PROVE FlowInv'
  <1> DEFINE s == up[c]
             t == SubSeq(up[c], 2, Len(up[c]))
             type == IF Head(up[c]).kind = "type" THEN Head(up[c]).val ELSE 0
  <1>1. /\ hPc[c] = "type" /\ s # <<>> /\ s \in Seq(UpWrite)
        /\ UNCHANGED <<fs, links, outside, mPc, hDir, hName, hNum, clientVars, down, upload, faults>>
    BY DEF HType, At, FlowInv, QueuesOK
  <1>2. /\ hType' = [hType EXCEPT ![c] = type] /\ hPc' = [hPc EXCEPT ![c] = NextPc(type)]
        /\ up' = [up EXCEPT ![c] = t]
    BY DEF HType, Go, Pop
  <1>3. /\ hType'[c] = type /\ hPc'[c] = NextPc(type) /\ up'[c] = t /\ Others(c)
    BY <1>1, <1>2 DEF FlowInv, FileServerTypeOK, QueuesOK, Others, clientVars
  <1>4. Commands(s)
    BY <1>1 DEF FlowInv, Parsed, Reads
  <1>5. /\ type \in 0 .. 4 /\ (type # 0 => s[1] = Write("type", type))
        /\ Commands(t) /\ Starts(t, NextPc(type))
    BY <1>1, <1>4, TypeParsed
  <1>6. /\ type = 1 => NextPc(type) = "lspath"
        /\ type = 2 => NextPc(type) = "dlpath"
        /\ type = 3 => NextPc(type) = "port"
        /\ type = 4 => NextPc(type) = "ended"
        /\ type = 0 => NextPc(type) = "type"
    BY DEF NextPc
  <1>7. 1 \in 1 .. Len(s) /\ t = SubSeq(s, 1 + 1, Len(s))
    BY <1>1
  <1> HIDE DEF s, t, type
  <1>8. FileServerTypeOK' /\ QueuesOK'
    <2>1. t \in Seq(UpWrite)
      BY <1>1, <1>7, Popped
    <2>2. hType' \in [Clients -> 0 .. 4] /\ up' \in [Clients -> Seq(UpWrite)]
      BY <1>2, <1>5, <2>1 DEF FlowInv, FileServerTypeOK, QueuesOK
    <2>3. NextPc(type) \in {"lspath", "dlpath", "port", "ended", "type"}
      BY <1>5, <1>6
    <2>4. hPc' \in [Clients -> HPcs]
      BY <1>2, <2>3 DEF FlowInv, FileServerTypeOK, HPcs
    <2> QED BY <1>1, <2>2, <2>4, ThreadsCounted DEF FlowInv, FileServerTypeOK, QueuesOK, clientVars, HPcs
  <1>9. Parsed(c)'
    BY <1>1, <1>3, <1>5, <1>6 DEF FlowInv, Parsed, clientVars
  <1>10. ASSUME NEW v
         PROVE  /\ Has(t, TypeWrite(v)) => Has(s, TypeWrite(v))
                /\ Once(s, TypeWrite(v)) => Once(t, TypeWrite(v))
                /\ type = v /\ v # 0 => Has(s, TypeWrite(v))
                /\ type = v /\ v # 0 /\ Once(s, TypeWrite(v)) => ~Has(t, TypeWrite(v))
    <2>1. /\ Has(t, TypeWrite(v)) => Has(s, TypeWrite(v))
          /\ Once(s, TypeWrite(v)) => Once(t, TypeWrite(v))
          /\ s[1] \in TypeWrite(v) => Has(s, TypeWrite(v))
          /\ Once(s, TypeWrite(v)) /\ s[1] \in TypeWrite(v) => ~Has(t, TypeWrite(v))
      <3>1. t = SubSeq(s, 2, Len(s))
        BY DEF s, t
      <3> QED BY <1>1, <3>1, HeadPoppedHas
    <2>2. type = v /\ v # 0 => s[1] \in TypeWrite(v)
      BY <1>5 DEF TypeWrite
    <2> QED BY <2>1, <2>2
  <1>11. /\ s = up[c] /\ type \in {0, 1, 2, 3, 4} /\ cPc'[c] = cPc[c] /\ down'[c] = down[c] /\ upload'[c] = upload[c]
         /\ faults'[c] = faults[c] /\ NextPc(type) \in {"lspath", "dlpath", "port", "ended", "type"}
    BY <1>1, <1>5, <1>6 DEF s, clientVars
  <1>12. Live(c)' => Listing(c)' /\ Uploading(c)'
    <2>1. Live(c)' => Live(c) /\ Listing(c) /\ Uploading(c)
      BY <1>11 DEF FlowInv, Live
    <2>2. Live(c)' => Listing(c)'
      <3>1. /\ Has(t, TypeWrite(1)) => Has(s, TypeWrite(1))
            /\ Once(s, TypeWrite(1)) => Once(t, TypeWrite(1))
            /\ type = 1 => Has(s, TypeWrite(1))
            /\ type = 1 /\ Once(s, TypeWrite(1)) => ~Has(t, TypeWrite(1))
        BY <1>10
      <3> QED BY <1>1, <1>3, <1>6, <3>1, <1>11, <2>1 DEF Listing, Asked
    <2>3. Live(c)' => Uploading(c)'
      <3>1. /\ Has(t, TypeWrite(3)) => Has(s, TypeWrite(3))
            /\ Once(s, TypeWrite(3)) => Once(t, TypeWrite(3))
            /\ type = 3 => Has(s, TypeWrite(3))
            /\ type = 3 /\ Once(s, TypeWrite(3)) => ~Has(t, TypeWrite(3))
        BY <1>10
      <3> QED BY <1>1, <1>3, <1>6, <3>1, <1>11, <2>1 DEF Uploading, Asked
    <2> QED BY <2>2, <2>3
  <1>13. Quitting(c)'
    <2>1. /\ Has(t, TypeWrite(4)) => Has(s, TypeWrite(4))
          /\ type = 4 => Has(s, TypeWrite(4))
      BY <1>10
    <2> QED BY <1>1, <1>3, <1>6, <2>1, <1>11 DEF FlowInv, Quitting, Asked
  <1>14. Stored(c)'
    BY <1>1, <1>3, <1>11 DEF FlowInv, Stored
  <1> QED BY <1>1, <1>3, <1>8, <1>9, <1>12, <1>13, <1>14, FlowStep DEF FlowOf

(* The thread reads a path or a name, and what is behind it.               *)
LEMMA FlowRead ==
    ASSUME FlowInv, ServedInv, NEW c \in Clients, hPc[c] \in {"lspath", "dlpath", "dlname", "dlmore"},
           NEW n \in 1 .. Len(up[c]), NEW t, t = SubSeq(up[c], n + 1, Len(up[c])),
           hPc'[c] \in {"count", "dlname", "dlmore", "send"}, hPc'[c] = "count" => hPc[c] = "lspath",
           "swallowed" \in faults[c] => "swallowed" \in faults'[c],
           up'[c] = t, hType'[c] = hType[c], cPc'[c] = cPc[c], down'[c] = down[c],
           upload'[c] = upload[c],
           Others(c), UNCHANGED fs, FileServerTypeOK', QueuesOK'
    PROVE  FlowInv'
  <1>1. up[c] \in Seq(UpWrite) /\ Commands(up[c]) /\ cPc[c] # "start"
    BY DEF FlowInv, QueuesOK, Parsed, Reads
  <1>2. Commands(t)
    BY <1>1, PoppedCommands
  <1>3. Parsed(c)'
    BY <1>1, <1>2 DEF Parsed, Reads, Starts
  <1>4. ASSUME NEW v
        PROVE  /\ Asked(c, v)' => Asked(c, v)
               /\ Once(up[c], TypeWrite(v)) => Once(up'[c], TypeWrite(v))
    BY <1>1, PoppedHas DEF Asked
  <1>5. Live(c)' => Listing(c)' /\ Uploading(c)'
    <2>1. Live(c)' => Live(c) /\ Listing(c) /\ Uploading(c)
      BY DEF FlowInv, Live
    <2>2. Live(c)' => Listing(c)'
      <3>1. /\ Asked(c, 1)' => Asked(c, 1)
            /\ Once(up[c], TypeWrite(1)) => Once(up'[c], TypeWrite(1))
        BY <1>4
      <3> QED BY <2>1, <3>1 DEF Listing
    <2>3. Live(c)' => Uploading(c)'
      <3>1. /\ Asked(c, 3)' => Asked(c, 3)
            /\ Once(up[c], TypeWrite(3)) => Once(up'[c], TypeWrite(3))
        BY <1>4
      <3> QED BY <2>1, <3>1 DEF Uploading
    <2> QED BY <2>2, <2>3
  <1>6. Quitting(c)'
    <2>1. Asked(c, 4)' => Asked(c, 4)
      BY <1>4
    <2> QED BY <2>1 DEF FlowInv, Quitting
  <1>7. Stored(c)'
    BY DEF FlowInv, Stored
  <1> QED BY <1>3, <1>5, <1>6, <1>7, FlowStep DEF FlowOf

LEMMA FlowPath ==
    ASSUME FlowInv, ServedInv, NEW c \in Clients, NEW pc \in {"lspath", "dlpath"}, At(c, pc),
           NEW then \in {"count", "dlname"}, then = "count" => pc = "lspath",
           ReadPath(c, up, then, "overrun"), UNCHANGED <<down, upload>>
    PROVE  FlowInv'
  <1>1. PICK n \in 1 .. Len(up[c]) :
            /\ up' = [up EXCEPT ![c] = SubSeq(@, n + 1, Len(@))]
            /\ faults' = [faults EXCEPT ![c] = IF n > 1 THEN @ \cup {"overrun"} ELSE @]
    BY DEF ReadPath, Pop, Faulty
  <1>2. /\ hPc[c] = pc /\ up[c] # <<>> /\ up[c] \in Seq(UpWrite)
        /\ hPc' = [hPc EXCEPT ![c] = then]
        /\ hDir' = [hDir EXCEPT ![c] = Head(up[c]).val]
        /\ UNCHANGED <<fs, links, outside, mPc, threads, hType, hName, hNum, cPc, cDir, cInfo, cListed,
                       cLeft, cWant, cmds, local, down, upload>>
    BY DEF At, ReadPath, Go, FlowInv, QueuesOK, serverVars, clientVars
  <1>3. Head(up[c]).val \in Dirs \cup {Nowhere} /\ SubSeq(up[c], n + 1, Len(up[c])) \in Seq(UpWrite)
    <2>1. Starts(up[c], pc) /\ up[c] \in Seq(UpWrite) /\ Len(up[c]) >= 1
      BY <1>2 DEF FlowInv, Parsed, Reads
    <2> QED BY <2>1, PathParsed, Popped
  <1>4. FileServerTypeOK' /\ QueuesOK'
    <2>1. hDir' \in [Clients -> Dirs \cup {Nowhere}] /\ up' \in [Clients -> Seq(UpWrite)]
      BY <1>1, <1>2, <1>3 DEF FlowInv, FileServerTypeOK, QueuesOK
    <2>2. faults' \in [Clients -> SUBSET Faults]
      BY <1>1 DEF FlowInv, FileServerTypeOK, Faults
    <2>3. hPc' \in [Clients -> HPcs]
      BY <1>2 DEF FlowInv, FileServerTypeOK, HPcs
    <2> QED BY <1>2, <2>1, <2>2, <2>3 DEF FlowInv, FileServerTypeOK, QueuesOK, HPcs, Faults
  <1>5. /\ up'[c] = SubSeq(up[c], n + 1, Len(up[c])) /\ hPc'[c] = then
        /\ "swallowed" \in faults[c] => "swallowed" \in faults'[c]
    BY <1>1, <1>2 DEF FlowInv, FileServerTypeOK, QueuesOK
  <1>6. /\ hType'[c] = hType[c] /\ cPc'[c] = cPc[c] /\ down'[c] = down[c] /\ upload'[c] = upload[c]
        /\ Others(c) /\ UNCHANGED fs
    BY <1>1, <1>2 DEF FlowInv, FileServerTypeOK, QueuesOK, Others
  <1> QED BY <1>2, <1>4, <1>5, <1>6, FlowRead

LEMMA FlowLsPath == ASSUME FlowInv, ServedInv, NEW c \in Clients, HLsPath(c) PROVE FlowInv'
  BY FlowPath DEF HLsPath

LEMMA FlowDownloadPath == ASSUME FlowInv, ServedInv, NEW c \in Clients, HDownloadPath(c) PROVE FlowInv'
  BY FlowPath DEF HDownloadPath

LEMMA FlowDownloadName == ASSUME FlowInv, ServedInv, NEW c \in Clients, HDownloadName(c) PROVE FlowInv'
  <1>1. /\ hPc[c] \in {"dlname", "dlmore"} /\ up[c] \in Seq(UpWrite)
        /\ UNCHANGED <<fs, links, outside, mPc, threads, hType, hDir, hNum, cPc, cDir, cInfo, cListed,
                       cLeft, cWant, cmds, local, down, upload>>
    BY DEF HDownloadName, At, FlowInv, QueuesOK, serverVars, clientVars
  <1>2. PICK n \in 1 .. Len(up[c]) :
            /\ hName' = [hName EXCEPT ![c] = IF hPc[c] = "dlname" /\ Head(up[c]).kind = "name"
                                                THEN Head(up[c]).val ELSE NoName]
            /\ \E pc \in {"send", "dlmore"} : hPc' = [hPc EXCEPT ![c] = pc]
            /\ up' = [up EXCEPT ![c] = SubSeq(@, n + 1, Len(@))]
            /\ faults' = [faults EXCEPT ![c] = IF n > 1 THEN @ \cup {"overrun"} ELSE @]
    BY DEF HDownloadName, Pop, Go, Faulty
  <1>3. /\ Head(up[c]).kind = "name" => Head(up[c]).val \in Names
        /\ SubSeq(up[c], n + 1, Len(up[c])) \in Seq(UpWrite)
    <2>1. Len(up[c]) >= 1
      BY <1>1
    <2> QED BY <1>1, <2>1, PathParsed, Popped
  <1>4. FileServerTypeOK' /\ QueuesOK'
    <2>1. hName' \in [Clients -> Names \cup {NoName}] /\ up' \in [Clients -> Seq(UpWrite)]
      BY <1>2, <1>3 DEF FlowInv, FileServerTypeOK, QueuesOK
    <2>2. hPc' \in [Clients -> HPcs]
      BY <1>2 DEF FlowInv, FileServerTypeOK, HPcs
    <2>3. faults' \in [Clients -> SUBSET Faults]
      BY <1>2 DEF FlowInv, FileServerTypeOK, Faults
    <2> QED BY <1>1, <2>1, <2>2, <2>3 DEF FlowInv, FileServerTypeOK, QueuesOK, HPcs, Faults
  <1>5. /\ up'[c] = SubSeq(up[c], n + 1, Len(up[c])) /\ hPc'[c] \in {"send", "dlmore"}
        /\ "swallowed" \in faults[c] => "swallowed" \in faults'[c]
    BY <1>1, <1>2 DEF FlowInv, FileServerTypeOK, QueuesOK
  <1>6. /\ hType'[c] = hType[c] /\ cPc'[c] = cPc[c] /\ down'[c] = down[c] /\ upload'[c] = upload[c]
        /\ Others(c) /\ UNCHANGED fs
    BY <1>1, <1>2 DEF FlowInv, FileServerTypeOK, QueuesOK, Others
  <1> QED BY <1>1, <1>4, <1>5, <1>6, FlowRead

-----------------------------------------------------------------------------
(* What the thread answers.                                                *)

(* ls() sends every entry of the directory once.                           *)
LEMMA EntriesListed ==
    ASSUME fs \in [Dirs -> [Names -> File]], NEW d \in Dirs
    PROVE  /\ Entries(d) \subseteq Entry
           /\ IsFiniteSet(Entries(d)) /\ Cardinality(Entries(d)) \in Nat
           /\ SetToSeq(Entries(d)) \in Seq(Entries(d))
           /\ Len(SetToSeq(Entries(d))) = Cardinality(Entries(d))
  <1> DEFINE files == {m \in Names : fs[d][m] # None}
             listed == {FileEntry(d, n) : n \in files}
             E == Entries(d)
  <1>1. ASSUME NEW n \in files PROVE FileEntry(d, n) \in Entry
    <2>1. fs[d][n] \in Seq(Block)
      BY DEF File
    <2>2. Len(fs[d][n]) \in Nat
      BY <2>1
    <2> QED BY <2>2 DEF FileEntry, Entry
  <1>2. listed \subseteq Entry
    BY <1>1
  <1>3. E = listed \/ E = listed \cup {DirEntry}
    BY DEF Entries
  <1>4. IsFiniteSet(files)
    BY FileServerAssumption, FS_Subset
  <1>5. IsFiniteSet(listed)
    <2> DEFINE f == [n \in files |-> FileEntry(d, n)]
    <2>1. f \in Surjection(files, listed)
      BY DEF Surjection
    <2> QED BY <1>4, <2>1, FS_Surjection
  <1>6. IsFiniteSet(E)
    BY ZenonT(40), <1>3, <1>5, FS_AddElement
  <1>7. E \subseteq Entry
    BY <1>2, <1>3 DEF Entry
  <1> HIDE DEF E
  <1>8. SetToSeq(E) \in [1 .. Cardinality(E) -> E] /\ Cardinality(E) \in Nat
    <2>1. Cardinality(E) \in Nat /\ ExistsBijection(1 .. Cardinality(E), E)
      BY <1>6, FS_CardinalityType
    <2>2. PICK f : f \in Bijection(1 .. Cardinality(E), E)
      BY <2>1 DEF ExistsBijection
    <2>3. f \in [1 .. Cardinality(E) -> E] /\ IsInjective(f)
      BY <2>2 DEF Bijection, Injection
    <2> QED BY <2>1, <2>3 DEF SetToSeq
  <1>9. SetToSeq(E) \in Seq(E) /\ Len(SetToSeq(E)) = Cardinality(E)
    BY <1>8
  <1> QED BY <1>6, <1>7, <1>8, <1>9 DEF E

(* Writes of one kind hold none of another.                                *)
LEMMA KindHas ==
    ASSUME NEW w
    PROVE  /\ (\A k \in 1 .. Len(w) : w[k].kind # "count") => ~Has(w, CountWrite)
           /\ (\A k \in 1 .. Len(w) : w[k].kind # "port") => ~Has(w, PortWrite)
           /\ \A v : (\A k \in 1 .. Len(w) : w[k].kind # "type") => ~Has(w, TypeWrite(v))
  BY DEF Has, CountWrite, PortWrite, TypeWrite, Write

LEMMA OnceAlone == ASSUME NEW w, Len(w) = 1, NEW W PROVE Once(w, W)
  BY DEF Once

LEMMA FlowAnswer ==
    ASSUME FlowInv, ServedInv, NEW c \in Clients, hPc[c] \in {"count", "entries", "send", "port"},
           NEW w \in Seq(DownWrite), NEW then,
           Has(w, CountWrite) => hPc[c] = "count", Once(w, CountWrite),
           Has(w, PortWrite) <=> hPc[c] = "port", Once(w, PortWrite),
           hPc[c] = "port" => then = "upath",
           hPc[c] = "count" => then = "entries" /\ hDir[c] \in Dirs,
           hPc[c] \in {"entries", "send"} => then = "type",
           hPc[c] # "port" => upload'[c] = upload[c], hPc[c] = "port" => upload'[c] = <<>>,
           "swallowed" \in faults[c] => "swallowed" \in faults'[c],
           down'[c] = down[c] \o w, hPc'[c] = then, hType'[c] = hType[c], hDir'[c] = hDir[c],
           cPc'[c] = cPc[c], up'[c] = up[c],
           Others(c), UNCHANGED fs, FileServerTypeOK', QueuesOK'
    PROVE  FlowInv'
  <1>1. Parsed(c) /\ Quitting(c) /\ Stored(c) /\ down[c] \in Seq(DownWrite)
    BY DEF FlowInv, QueuesOK
  <1>2. Parsed(c)'
    BY <1>1 DEF Parsed, Reads, Starts
  <1>3. /\ Has(down'[c], CountWrite) <=> Has(down[c], CountWrite) \/ Has(w, CountWrite)
        /\ Once(down[c], CountWrite) /\ ~Has(w, CountWrite) => Once(down'[c], CountWrite)
        /\ ~Has(down[c], CountWrite) /\ Once(w, CountWrite) => Once(down'[c], CountWrite)
    BY <1>1, JoinedHas
  <1>4. /\ Has(down'[c], PortWrite) <=> Has(down[c], PortWrite) \/ Has(w, PortWrite)
        /\ Once(down[c], PortWrite) /\ ~Has(w, PortWrite) => Once(down'[c], PortWrite)
        /\ ~Has(down[c], PortWrite) /\ Once(w, PortWrite) => Once(down'[c], PortWrite)
    BY <1>1, JoinedHas
  <1>5. Asked(c, 1)' = Asked(c, 1) /\ Asked(c, 3)' = Asked(c, 3) /\ Asked(c, 4)' = Asked(c, 4)
    BY DEF Asked
  <1>6. Live(c)' => Listing(c)' /\ Uploading(c)'
    <2>1. Live(c)' => Live(c) /\ Listing(c) /\ Uploading(c)
      BY DEF FlowInv, Live
    <2>2. Live(c)' => Listing(c)'
      BY <1>3, <1>5, <2>1 DEF Listing
    <2>3. Live(c)' => Uploading(c)'
      BY <1>1, <1>4, <1>5, <2>1 DEF Uploading
    <2> QED BY <2>2, <2>3
  <1>7. Quitting(c)'
    BY <1>1, <1>5 DEF Quitting
  <1>8. Stored(c)'
    <2>1. CASE hPc[c] = "port"
      <3>1. hPc'[c] = "upath" /\ upload'[c] = <<>> /\ Len(<<>>) = 0 /\ IsData(<<>>, 3)
        BY <2>1 DEF IsData
      <3> QED BY <3>1 DEF Stored
    <2>2. CASE hPc[c] # "port"
      <3>1. hPc'[c] \in {"entries", "type"} /\ upload'[c] = upload[c]
        BY <2>2
      <3> QED BY <1>1, <2>2, <3>1 DEF Stored
    <2> QED BY <2>1, <2>2
  <1> QED BY <1>2, <1>6, <1>7, <1>8, FlowStep DEF FlowOf

LEMMA FlowCount == ASSUME FlowInv, ServedInv, NEW c \in Clients, HCount(c) PROVE FlowInv'
  <1> DEFINE n == Counted(hDir[c])
             w == <<Write("count", n)>>
  <1>1. /\ hPc[c] = "count" /\ hDir[c] \in Dirs /\ down[c] \in Seq(DownWrite)
        /\ hNum' = [hNum EXCEPT ![c] = n]
        /\ down' = [down EXCEPT ![c] = @ \o w]
        /\ hPc' = [hPc EXCEPT ![c] = "entries"]
        /\ UNCHANGED <<fs, links, outside, mPc, threads, hType, hDir, hName, cPc, cDir, cInfo, cListed,
                       cLeft, cWant, cmds, local, up, upload, faults>>
    BY DEF HCount, At, Put, Go, FlowInv, QueuesOK, serverVars, clientVars
  <1>2. n \in Nat
    <2>1. IsFiniteSet(Entries(hDir[c]))
      BY <1>1, EntriesListed DEF FlowInv, FileServerTypeOK
    <2>2. IsFiniteSet({e \in Entries(hDir[c]) : e.name \notin links})
      BY <2>1, FS_Subset
    <2> QED BY <2>2, FS_CardinalityType DEF Counted
  <1> HIDE DEF n
  <1>3. Write("count", n) \in CountWrite /\ CountWrite \subseteq DownWrite
    BY <1>2 DEF CountWrite, Write, DownWrite
  <1>4. w \in Seq(DownWrite) /\ Len(w) = 1 /\ w[1] = Write("count", n)
    BY <1>3
  <1>5. ~Has(w, PortWrite) /\ Once(w, CountWrite) /\ Once(w, PortWrite)
    <2>1. \A k \in 1 .. Len(w) : w[k].kind # "port"
      BY <1>4 DEF Write
    <2> QED BY <1>4, <2>1, KindHas, OnceAlone
  <1> HIDE DEF w
  <1>6. FileServerTypeOK' /\ QueuesOK'
    <2>1. down[c] \o w \in Seq(DownWrite)
      BY <1>1, <1>4
    <2>2. down' \in [Clients -> Seq(DownWrite)]
      BY <1>1, <2>1 DEF FlowInv, QueuesOK
    <2>3. hPc' \in [Clients -> HPcs] /\ hNum' \in [Clients -> Nat]
      BY <1>1, <1>2 DEF FlowInv, FileServerTypeOK, HPcs
    <2> QED BY <1>1, <2>2, <2>3 DEF FlowInv, FileServerTypeOK, QueuesOK, HPcs
  <1>7. /\ down'[c] = down[c] \o w /\ hPc'[c] = "entries" /\ hType'[c] = hType[c] /\ hDir'[c] = hDir[c]
        /\ cPc'[c] = cPc[c] /\ up'[c] = up[c] /\ upload'[c] = upload[c]
        /\ Others(c) /\ UNCHANGED fs
    BY <1>1 DEF FlowInv, FileServerTypeOK, QueuesOK, Others
  <1> QED BY <1>1, <1>4, <1>5, <1>6, <1>7, FlowAnswer

(* Answers of the other kinds than "count" and "port".                     *)
LEMMA FlowContent ==
    ASSUME FlowInv, ServedInv, NEW c \in Clients, hPc[c] \in {"entries", "send"},
           NEW w \in Seq(DownWrite), \A k \in 1 .. Len(w) : w[k].kind \notin {"count", "port"},
           down' = [down EXCEPT ![c] = @ \o w], hPc' = [hPc EXCEPT ![c] = "type"],
           faults' \in [Clients -> SUBSET Faults],
           \A d \in Clients : d # c => faults'[d] = faults[d],
           "swallowed" \in faults[c] => "swallowed" \in faults'[c],
           UNCHANGED <<fs, links, outside, mPc, threads, hType, hDir, hName, hNum, cPc, cDir, cInfo, cListed,
                       cLeft, cWant, cmds, local, up, upload>>
    PROVE  FlowInv'
  <1>1. FileServerTypeOK' /\ QueuesOK'
    <2>1. down[c] \o w \in Seq(DownWrite)
      BY DEF FlowInv, QueuesOK
    <2>2. down' \in [Clients -> Seq(DownWrite)]
      BY <2>1 DEF FlowInv, QueuesOK
    <2>3. hPc' \in [Clients -> HPcs]
      BY DEF FlowInv, FileServerTypeOK, HPcs
    <2> QED BY <2>2, <2>3 DEF FlowInv, FileServerTypeOK, QueuesOK, HPcs, Faults
  <1>2. ~Has(w, CountWrite) /\ ~Has(w, PortWrite) /\ Once(w, CountWrite) /\ Once(w, PortWrite)
    BY KindHas DEF Once, Has
  <1>3. /\ down'[c] = down[c] \o w /\ hPc'[c] = "type" /\ hType'[c] = hType[c] /\ hDir'[c] = hDir[c]
        /\ cPc'[c] = cPc[c] /\ up'[c] = up[c] /\ upload'[c] = upload[c]
        /\ Others(c) /\ UNCHANGED fs
    BY DEF FlowInv, FileServerTypeOK, QueuesOK, Others
  <1> QED BY <1>1, <1>2, <1>3, FlowAnswer

LEMMA FlowEntries == ASSUME FlowInv, ServedInv, NEW c \in Clients, HEntries(c) PROVE FlowInv'
  <1> DEFINE found == SetToSeq(Entries(hDir[c]))
             w == [k \in 1 .. Len(found) |-> Write("entry", found[k])]
  <1>1. /\ hPc[c] = "entries" /\ down' = [down EXCEPT ![c] = @ \o w] /\ hPc' = [hPc EXCEPT ![c] = "type"]
        /\ UNCHANGED <<fs, links, outside, mPc, threads, hType, hDir, hName, hNum, cPc, cDir, cInfo, cListed,
                       cLeft, cWant, cmds, local, up, upload, faults>>
    BY DEF HEntries, At, Put, Go, serverVars, clientVars
  <1>2. Entries(hDir[c]) \subseteq Entry /\ found \in Seq(Entries(hDir[c]))
    BY <1>1, EntriesListed DEF FlowInv, FileServerTypeOK, Parsed
  <1>3. w \in Seq(DownWrite) /\ \A k \in 1 .. Len(w) : w[k].kind \notin {"count", "port"}
    <2>1. Len(found) \in Nat /\ \A k \in 1 .. Len(found) : found[k] \in Entry
      BY <1>2
    <2> HIDE DEF found
    <2>2. \A k \in 1 .. Len(found) : Write("entry", found[k]) \in DownWrite
      BY <2>1 DEF Write, DownWrite
    <2>3. w \in Seq(DownWrite) /\ Len(w) = Len(found)
      BY <2>1, <2>2
    <2> QED BY <2>3 DEF Write
  <1>4. faults' \in [Clients -> SUBSET Faults]
    BY <1>1 DEF FlowInv, FileServerTypeOK, Faults
  <1> QED BY <1>1, <1>3, <1>4, FlowContent

(* The blocks of a file are writes of data.                                *)
LEMMA BlocksData ==
    ASSUME NEW s \in Seq(Block)
    PROVE  /\ Blocks(s) \in Seq(DataWrite) /\ Len(Blocks(s)) = Len(s)
           /\ \A k \in 1 .. Len(s) : Blocks(s)[k] = Write("data", s[k])
  <1>1. Len(s) \in Nat /\ \A k \in 1 .. Len(s) : Write("data", s[k]) \in DataWrite
    BY DEF Write, DataWrite
  <1> QED BY <1>1 DEF Blocks

LEMMA FlowSend == ASSUME FlowInv, ServedInv, NEW c \in Clients, HSend(c) PROVE FlowInv'
  <1> DEFINE content == fs[hDir[c]][hName[c]]
             w == Blocks(content)
  <1>1. /\ hPc[c] = "send" /\ Exists(hDir[c], hName[c])
        /\ down' = [down EXCEPT ![c] = @ \o w] /\ hPc' = [hPc EXCEPT ![c] = "type"]
        /\ UNCHANGED <<fs, links, outside, mPc, threads, hType, hDir, hName, hNum, cPc, cDir, cInfo, cListed,
                       cLeft, cWant, cmds, local, up, upload>>
    BY DEF HSend, At, Put, Go, serverVars, clientVars
  <1>2. content \in Seq(Block)
    BY <1>1 DEF FlowInv, FileServerTypeOK, Exists, File
  <1>3. w \in Seq(DownWrite) /\ \A k \in 1 .. Len(w) : w[k].kind \notin {"count", "port"}
    <2>1. w \in Seq(DataWrite)
      BY <1>2, BlocksData
    <2>2. DataWrite \subseteq DownWrite /\ \A x \in DataWrite : x.kind \notin {"count", "port"}
      BY DEF DataWrite, DownWrite
    <2> HIDE DEF w
    <2> QED BY <2>1, <2>2
  <1>4. /\ faults' \in [Clients -> SUBSET Faults]
        /\ \A d \in Clients : d # c => faults'[d] = faults[d]
        /\ "swallowed" \in faults[c] => "swallowed" \in faults'[c]
    <2>1. PICK bad \in BOOLEAN : faults' = [faults EXCEPT ![c] = IF bad THEN @ \cup {"stale"} ELSE @]
      BY DEF HSend, Faulty
    <2> QED BY <2>1 DEF FlowInv, FileServerTypeOK, Faults
  <1> QED BY <1>1, <1>3, <1>4, FlowContent

LEMMA FlowSendNothing == ASSUME FlowInv, ServedInv, NEW c \in Clients, HSendNothing(c) PROVE FlowInv'
  <1>1. /\ hPc[c] = "send" /\ hPc' = [hPc EXCEPT ![c] = "type"]
        /\ UNCHANGED <<fs, links, outside, mPc, threads, hType, hDir, hName, hNum, cPc, cDir, cInfo, cListed,
                       cLeft, cWant, cmds, local, up, down, upload, faults>>
    BY DEF HSendNothing, At, Go, serverVars, clientVars
  <1>2. down[c] \in Seq(DownWrite) /\ down' = [down EXCEPT ![c] = @ \o <<>>]
    BY <1>1 DEF FlowInv, QueuesOK
  <1>3. <<>> \in Seq(DownWrite) /\ \A k \in 1 .. Len(<<>>) : <<>>[k].kind \notin {"count", "port"}
    OBVIOUS
  <1>4. faults' \in [Clients -> SUBSET Faults]
    BY <1>1 DEF FlowInv, FileServerTypeOK, Faults
  <1> QED BY <1>1, <1>2, <1>3, <1>4, FlowContent

LEMMA FlowPort == ASSUME FlowInv, ServedInv, NEW c \in Clients, HPort(c) PROVE FlowInv'
  <1> DEFINE w == <<Write("port", c)>>
  <1>1. /\ hPc[c] = "port" /\ down[c] \in Seq(DownWrite)
        /\ down' = [down EXCEPT ![c] = @ \o w]
        /\ hPc' = [hPc EXCEPT ![c] = "upath"]
        /\ upload' = [upload EXCEPT ![c] = <<>>]
        /\ UNCHANGED <<fs, links, outside, mPc, threads, hType, hDir, hName, hNum, cPc, cDir, cInfo, cListed,
                       cLeft, cWant, cmds, local, up, faults>>
    BY DEF HPort, At, Put, Go, FlowInv, QueuesOK, serverVars, clientVars
  <1>2. Write("port", c) \in PortWrite /\ PortWrite \subseteq DownWrite
    BY DEF PortWrite, Write, DownWrite
  <1>3. w \in Seq(DownWrite) /\ Len(w) = 1 /\ w[1] = Write("port", c)
    BY <1>2
  <1>4. ~Has(w, CountWrite) /\ Has(w, PortWrite) /\ Once(w, CountWrite) /\ Once(w, PortWrite)
    <2>1. \A k \in 1 .. Len(w) : w[k].kind # "count"
      BY <1>3 DEF Write
    <2>2. Has(w, PortWrite)
      BY <1>2, <1>3 DEF Has
    <2> QED BY <1>3, <2>1, <2>2, KindHas, OnceAlone
  <1> HIDE DEF w
  <1>5. FileServerTypeOK' /\ QueuesOK'
    <2>1. down[c] \o w \in Seq(DownWrite)
      BY <1>1, <1>3
    <2>2. down' \in [Clients -> Seq(DownWrite)]
      BY <1>1, <2>1 DEF FlowInv, QueuesOK
    <2>3. hPc' \in [Clients -> HPcs]
      BY <1>1 DEF FlowInv, FileServerTypeOK, HPcs
    <2>4. upload' \in [Clients -> Seq(UploadWrite)]
      BY <1>1 DEF FlowInv, QueuesOK
    <2> QED BY <1>1, <2>2, <2>3, <2>4 DEF FlowInv, FileServerTypeOK, QueuesOK, HPcs
  <1>6. /\ down'[c] = down[c] \o w /\ hPc'[c] = "upath" /\ hType'[c] = hType[c] /\ hDir'[c] = hDir[c]
        /\ cPc'[c] = cPc[c] /\ up'[c] = up[c] /\ upload'[c] = <<>> /\ faults'[c] = faults[c]
        /\ Others(c) /\ UNCHANGED fs
    BY <1>1 DEF FlowInv, FileServerTypeOK, QueuesOK, Others
  <1> QED BY <1>1, <1>3, <1>4, <1>5, <1>6, FlowAnswer

-----------------------------------------------------------------------------
(* The thread reads an upload.                                             *)

LEMMA FlowUploads ==
    ASSUME FlowInv, ServedInv, NEW c \in Clients,
           hPc[c] \in {"upath", "usize", "udata"},
           hPc[c] = "upath" => upload[c] # <<>>,
           hPc'[c] \in {"usize", "udata", "type"}, hType'[c] = hType[c], cPc'[c] = cPc[c],
           up'[c] = up[c], down'[c] = down[c],
           Others(c), FileServerTypeOK', QueuesOK', Stored(c)'
    PROVE  FlowInv'
  <1>1. Parsed(c)'
    BY DEF FlowInv, Parsed, Reads, Starts
  <1>2. Asked(c, 1)' = Asked(c, 1) /\ Asked(c, 3)' = Asked(c, 3) /\ Asked(c, 4)' = Asked(c, 4)
    BY DEF Asked
  <1>3. Live(c)' => Listing(c)' /\ Uploading(c)'
    <2>1. Live(c)' => Live(c) /\ Listing(c) /\ Uploading(c)
      BY DEF FlowInv, Live
    <2>2. Live(c)' => Listing(c)'
      BY <1>2, <2>1 DEF Listing
    <2>3. Live(c)' => Uploading(c)'
      BY <1>2, <2>1 DEF Uploading
    <2> QED BY <2>2, <2>3
  <1>4. Quitting(c)'
    BY <1>2 DEF FlowInv, Quitting
  <1>5. Served(c)
    BY DEF Served
  <1> QED BY <1>1, <1>3, <1>4, <1>5, FlowStep DEF FlowOf

LEMMA UploadKinds ==
    ASSUME NEW w \in UploadWrite
    PROVE  /\ w.kind = "path" => w.val \in Dirs \cup {Nowhere}
           /\ w.kind = "size" => w.val \in Nat
           /\ w.kind = "data" => w.val \in Block
  BY DEF UploadWrite, DataWrite

LEMMA FlowUploadPath == ASSUME FlowInv, ServedInv, NEW c \in Clients, HUploadPath(c) PROVE FlowInv'
  <1> DEFINE s == upload[c]
  <1>1. PICK n \in 1 .. Len(s) :
            /\ upload' = [upload EXCEPT ![c] = SubSeq(@, n + 1, Len(@))]
            /\ faults' = [faults EXCEPT ![c] = IF n > 1 THEN @ \cup {"swallowed"} ELSE @]
    BY DEF HUploadPath, ReadPath, Pop, Faulty
  <1>2. /\ hPc[c] = "upath" /\ s # <<>> /\ s \in Seq(UploadWrite)
        /\ hPc' = [hPc EXCEPT ![c] = "usize"]
        /\ hDir' = [hDir EXCEPT ![c] = Head(s).val]
        /\ UNCHANGED <<fs, links, outside, mPc, threads, hType, hName, hNum, cPc, cDir, cInfo, cListed,
                       cLeft, cWant, cmds, local, up, down>>
    BY DEF HUploadPath, At, Go, ReadPath, FlowInv, QueuesOK, serverVars, clientVars
  <1> DEFINE t == SubSeq(s, n + 1, Len(s))
  <1>3. /\ t \in Seq(UploadWrite) /\ Len(t) = Len(s) - n /\ Len(s) \in Nat
        /\ \A k \in 1 .. Len(t) : k + n \in 1 .. Len(s) /\ t[k] = s[k + n]
    BY SMTT(30), <1>2, Popped
  <1>4. /\ IsData(s, 3)
        /\ Len(s) >= 1 => s[1].kind = "path"
        /\ Len(s) >= 2 => s[2].kind = "size" /\ Len(s) - 2 <= s[2].val
        /\ cPc[c] # "vanished" => Len(s) >= 2 /\ s[2].val = Len(s) - 2
    BY <1>2 DEF FlowInv, Stored
  <1>5. Head(s).val \in Dirs \cup {Nowhere}
    <2>1. Head(s) = s[1] /\ s[1] \in UploadWrite /\ Len(s) >= 1
      BY <1>2
    <2> QED BY <1>4, <2>1, UploadKinds
  <1>6. /\ upload'[c] = t /\ hPc'[c] = "usize" /\ cPc'[c] = cPc[c]
        /\ n # 1 => "swallowed" \in faults'[c]
    <2>1. n # 1 => n > 1
      OBVIOUS
    <2> QED BY <1>1, <1>2, <2>1 DEF FlowInv, QueuesOK, FileServerTypeOK
  <1>7. Stored(c)'
    <2>1. IsData(t, 2)
      <3>1. ASSUME NEW k \in 2 .. Len(t) PROVE t[k].kind = "data"
        <4>1. k \in 1 .. Len(t) /\ k + n \in 3 .. Len(s)
          BY <1>3, <3>1
        <4> QED BY <1>3, <1>4, <4>1 DEF IsData
      <3> QED BY <3>1 DEF IsData
    <2>2. CASE n = 1
      <3>1. /\ Len(t) = Len(s) - 1
            /\ \A k \in 1 .. Len(t) : t[k] = s[k + 1]
        BY <1>3, <2>2
      <3> HIDE DEF t, s
      <3>2. Len(t) >= 1 => t[1].kind = "size" /\ Len(t) - 1 <= t[1].val
        BY <1>3, <1>4, <3>1
      <3>3. cPc[c] # "vanished" => Len(t) >= 1 /\ t[1].val = Len(t) - 1
        BY <1>3, <1>4, <3>1
      <3> QED BY <1>6, <2>1, <3>2, <3>3 DEF Stored
    <2>3. CASE n # 1
      <3> HIDE DEF t
      <3> QED BY <1>6, <2>1, <2>3 DEF Stored
    <2> QED BY <2>2, <2>3
  <1>8. FileServerTypeOK' /\ QueuesOK'
    <2>1. hDir' \in [Clients -> Dirs \cup {Nowhere}]
      BY <1>2, <1>5 DEF FlowInv, FileServerTypeOK
    <2>2. upload' \in [Clients -> Seq(UploadWrite)]
      BY <1>1, <1>3 DEF FlowInv, QueuesOK
    <2>3. faults' \in [Clients -> SUBSET Faults]
      BY <1>1 DEF FlowInv, FileServerTypeOK, Faults
    <2>4. hPc' \in [Clients -> HPcs]
      BY <1>2 DEF FlowInv, FileServerTypeOK, HPcs
    <2> QED BY <1>2, <2>1, <2>2, <2>3, <2>4 DEF FlowInv, FileServerTypeOK, QueuesOK, HPcs, Faults
  <1>9. /\ hType'[c] = hType[c] /\ up'[c] = up[c] /\ down'[c] = down[c] /\ Others(c)
    BY <1>1, <1>2 DEF FlowInv, FileServerTypeOK, QueuesOK, Others
  <1> QED BY <1>2, <1>6, <1>7, <1>8, <1>9, FlowUploads

LEMMA FlowUploadSize == ASSUME FlowInv, ServedInv, NEW c \in Clients, HUploadSize(c) PROVE FlowInv'
  <1> DEFINE s == upload[c]
             t == SubSeq(s, 2, Len(s))
             d == hDir[c]
  <1>1. /\ hPc[c] = "usize" /\ d \in Dirs /\ s # <<>> /\ s \in Seq(UploadWrite)
        /\ fs' = [fs EXCEPT ![d][Hello] = <<>>]
        /\ upload' = [upload EXCEPT ![c] = t]
        /\ hPc' = [hPc EXCEPT ![c] = "udata"]
        /\ UNCHANGED <<links, outside, mPc, threads, hType, hDir, hName, cPc, cDir, cInfo, cListed,
                       cLeft, cWant, cmds, local, up, down, faults>>
    BY DEF HUploadSize, At, Pop, Go, FlowInv, QueuesOK, serverVars, clientVars
  <1>2. /\ Head(s) = s[1] /\ s[1] \in UploadWrite /\ Len(s) \in Nat /\ Len(s) >= 1
        /\ t \in Seq(UploadWrite) /\ Len(t) = Len(s) - 1
        /\ \A k \in 1 .. Len(t) : k + 1 \in 1 .. Len(s) /\ t[k] = s[k + 1]
    BY <1>1, HeadPopped
  <1>3. /\ IsData(s, 2)
        /\ "swallowed" \notin faults[c] =>
              /\ s[1].kind = "size" /\ Len(s) - 1 <= s[1].val
              /\ cPc[c] # "vanished" => s[1].val = Len(s) - 1
    BY <1>1, <1>2 DEF FlowInv, Stored
  <1>4. PICK size \in SizeIn(s[1]) : hNum' = [hNum EXCEPT ![c] = size]
    BY <1>2 DEF HUploadSize
  <1>5. size \in Nat /\ (s[1].kind = "size" => size = s[1].val)
    <2>1. CASE s[1].kind = "size"
      BY <1>2, <2>1, UploadKinds DEF SizeIn
    <2>2. CASE s[1].kind # "size"
      BY <2>2, FileServerAssumption DEF SizeIn
    <2> QED BY <2>1, <2>2
  <1>6. /\ fs' \in [Dirs -> [Names -> File]] /\ fs'[d][Hello] = <<>>
        /\ <<>> # None
    <2>1. fs \in [Dirs -> [Names -> File]] /\ Hello \in Names
      BY FileServerAssumption DEF FlowInv, FileServerTypeOK
    <2>2. <<>> \in File /\ <<>> # None
      <3>1. <<>> \in Seq(Block)
        OBVIOUS
      <3> QED BY <3>1, FileServerAssumption, Zenon DEF File
    <2> QED BY <1>1, <2>1, <2>2
  <1>7. /\ upload'[c] = t /\ hNum'[c] = size /\ hPc'[c] = "udata" /\ hDir'[c] = d /\ cPc'[c] = cPc[c]
        /\ hType'[c] = hType[c] /\ up'[c] = up[c] /\ down'[c] = down[c] /\ faults'[c] = faults[c]
        /\ Others(c)
    BY <1>1, <1>4 DEF FlowInv, FileServerTypeOK, QueuesOK, Others
  <1>8. FileServerTypeOK' /\ QueuesOK'
    <2>1. hNum' \in [Clients -> Nat] /\ hPc' \in [Clients -> HPcs]
      BY <1>1, <1>4, <1>5 DEF FlowInv, FileServerTypeOK, HPcs
    <2>2. upload' \in [Clients -> Seq(UploadWrite)]
      BY <1>1, <1>2 DEF FlowInv, QueuesOK
    <2> QED BY <1>1, <1>6, <2>1, <2>2 DEF FlowInv, FileServerTypeOK, QueuesOK, HPcs
  <1> HIDE DEF s, t
  <1>9. Stored(c)'
    <2>1. IsData(t, 1)
      BY <1>2, <1>3 DEF IsData
    <2>2. Exists(hDir[c], Hello)'
      BY <1>1, <1>6, <1>7, FileServerAssumption DEF Exists
    <2>3. Len(fs'[hDir'[c]][Hello]) = 0
      BY <1>6, <1>7
    <2>4. "swallowed" \notin faults[c] =>
            0 + Len(t) <= size /\ (cPc[c] # "vanished" => 0 + Len(t) = size)
      BY <1>2, <1>3, <1>5
    <2> QED BY <1>7, <2>1, <2>2, <2>3, <2>4 DEF Stored
  <1> QED BY <1>1, <1>7, <1>8, <1>9, FlowUploads

(* What a read of blocks takes.                                            *)
LEMMA ValuesRead ==
    ASSUME NEW S, NEW s \in Seq(S), \A k \in 1 .. Len(s) : s[k].val \in Block, NEW n \in 1 .. Len(s)
    PROVE  /\ Values(SubSeq(s, 1, n)) \in Seq(Block)
           /\ Len(Values(SubSeq(s, 1, n))) = n
           /\ \A k \in 1 .. n : Values(SubSeq(s, 1, n))[k] = s[k].val
  <1> DEFINE t == SubSeq(s, 1, n)
  <1>1. Len(t) = n /\ n \in Nat /\ \A k \in 1 .. n : k \in 1 .. Len(s) /\ t[k] = s[k]
    OBVIOUS
  <1> HIDE DEF t
  <1>2. \A k \in 1 .. Len(t) : t[k].val \in Block
    BY <1>1
  <1>3. /\ Values(t) \in Seq(Block) /\ Len(Values(t)) = n
        /\ \A k \in 1 .. n : Values(t)[k] = s[k].val
    BY <1>1, <1>2 DEF Values
  <1> QED BY <1>3 DEF t

LEMMA FlowUploadData == ASSUME FlowInv, ServedInv, NEW c \in Clients, HUploadData(c) PROVE FlowInv'
  <1> DEFINE s == upload[c]
             d == hDir[c]
             old == fs[d][Hello]
  <1>1. /\ hPc[c] = "udata" /\ s \in Seq(UploadWrite)
        /\ UNCHANGED <<links, outside, mPc, threads, hType, hDir, hName, hNum, cPc, cDir, cInfo, cListed,
                       cLeft, cWant, cmds, local, up, down, faults>>
    BY DEF HUploadData, StoreData, At, FlowInv, QueuesOK, serverVars, clientVars
  <1>2. PICK n \in 1 .. Len(s) :
            /\ fs' = [fs EXCEPT ![d][Hello] = old \o Values(SubSeq(s, 1, n))]
            /\ upload' = [upload EXCEPT ![c] = SubSeq(@, n + 1, Len(@))]
            /\ hPc' = [hPc EXCEPT ![c] = IF Len(old \o Values(SubSeq(s, 1, n))) >= hNum[c]
                                           THEN "type" ELSE "udata"]
    BY DEF HUploadData, StoreData, Pop, Go
  <1> DEFINE new == Values(SubSeq(s, 1, n))
             got == old \o new
             t == SubSeq(s, n + 1, Len(s))
  <1>3. /\ IsData(s, 1) /\ d \in Dirs /\ old # None
        /\ "swallowed" \notin faults[c] =>
              /\ Len(old) + Len(s) <= hNum[c]
              /\ cPc[c] # "vanished" => Len(old) + Len(s) = hNum[c]
    BY <1>1 DEF FlowInv, Stored, Exists
  <1>4. /\ t \in Seq(UploadWrite) /\ Len(t) = Len(s) - n /\ Len(s) \in Nat
        /\ \A k \in 1 .. Len(t) : k + n \in 1 .. Len(s) /\ t[k] = s[k + n]
    BY <1>1, Popped
  <1>5. new \in Seq(Block) /\ Len(new) = n
    <2>1. \A k \in 1 .. Len(s) : s[k].val \in Block
      BY <1>1, <1>3, UploadKinds DEF IsData
    <2> QED BY <1>1, <2>1, ValuesRead
  <1>6. old \in Seq(Block) /\ fs \in [Dirs -> [Names -> File]] /\ Hello \in Names /\ hNum[c] \in Nat
    BY <1>3, FileServerAssumption DEF FlowInv, FileServerTypeOK, File
  <1> HIDE DEF old, new, t
  <1>7. got \in Seq(Block) /\ Len(got) = Len(old) + n
    <2>1. old \in Seq(Block) /\ new \in Seq(Block)
      BY <1>5, <1>6
    <2>2. got \in Seq(Block) /\ Len(got) = Len(old) + Len(new)
      BY <2>1, Joined
    <2> QED BY <1>5, <2>2
  <1>8. got \in File /\ got # None
    BY <1>7, FileServerAssumption DEF File
  <1>9. /\ fs' = [fs EXCEPT ![d][Hello] = got] /\ upload' = [upload EXCEPT ![c] = t]
        /\ hPc' = [hPc EXCEPT ![c] = IF Len(got) >= hNum[c] THEN "type" ELSE "udata"]
    BY <1>2 DEF new, t
  <1> HIDE DEF got
  <1>10. /\ fs' \in [Dirs -> [Names -> File]] /\ fs'[d][Hello] = got
    BY <1>3, <1>6, <1>8, <1>9
  <1>11. /\ upload'[c] = t /\ hPc'[c] = (IF Len(got) >= hNum[c] THEN "type" ELSE "udata")
         /\ hNum'[c] = hNum[c] /\ hDir'[c] = d /\ cPc'[c] = cPc[c] /\ faults'[c] = faults[c]
         /\ hType'[c] = hType[c] /\ up'[c] = up[c] /\ down'[c] = down[c] /\ Others(c)
    BY <1>1, <1>9 DEF FlowInv, FileServerTypeOK, QueuesOK, Others
  <1>12. FileServerTypeOK' /\ QueuesOK'
    <2>1. hPc' \in [Clients -> HPcs]
      BY <1>9 DEF FlowInv, FileServerTypeOK, HPcs
    <2>2. upload' \in [Clients -> Seq(UploadWrite)]
      BY <1>4, <1>9 DEF FlowInv, QueuesOK
    <2> QED BY <1>1, <1>10, <2>1, <2>2 DEF FlowInv, FileServerTypeOK, QueuesOK, HPcs
  <1> HIDE DEF s, d
  <1>13. Stored(c)'
    <2>1. Len(old) \in Nat /\ Len(t) \in Nat /\ Len(s) \in Nat /\ n \in Nat /\ n <= Len(s) /\ hNum[c] \in Nat
      BY <1>4, <1>6
    <2>2. CASE Len(got) >= hNum[c]
      <3>1. "swallowed" \notin faults[c] => Len(t) = 0
        BY <1>3, <1>4, <1>7, <2>1, <2>2
      <3>2. "swallowed" \notin faults[c] => t = <<>>
        BY <1>4, <3>1
      <3> QED BY <1>11, <2>2, <3>2 DEF Stored
    <2>3. CASE ~(Len(got) >= hNum[c])
      <3>1. IsData(t, 1)
        BY <1>3, <1>4, <2>1 DEF IsData
      <3>2. Exists(hDir[c], Hello)'
        BY <1>3, <1>8, <1>10, <1>11, FileServerAssumption DEF Exists
      <3>3. "swallowed" \notin faults[c] =>
              Len(got) + Len(t) <= hNum[c] /\ (cPc[c] # "vanished" => Len(got) + Len(t) = hNum[c])
        BY <1>3, <1>4, <1>7, <2>1
      <3>4. fs'[hDir'[c]][Hello] = got /\ hPc'[c] = "udata"
        BY <1>10, <1>11, <2>3
      <3> QED BY <1>11, <3>1, <3>2, <3>3, <3>4 DEF Stored
    <2> QED BY <2>2, <2>3
  <1> QED BY <1>1, <1>11, <1>12, <1>13, FlowUploads

LEMMA FlowUploadEnd == ASSUME FlowInv, ServedInv, NEW c \in Clients, HUploadEnd(c) PROVE FlowInv'
  <1>1. /\ hPc[c] \in {"usize", "udata"}
        /\ hPc' = [hPc EXCEPT ![c] = "type"] /\ upload[c] = <<>>
        /\ fs' = fs \/ (hDir[c] \in Dirs /\ fs' = [fs EXCEPT ![hDir[c]][Hello] = <<>>])
        /\ UNCHANGED <<links, outside, mPc, threads, hType, hDir, hName, hNum, cPc, cDir, cInfo, cListed,
                       cLeft, cWant, cmds, local, up, down, upload, faults>>
    BY DEF HUploadEnd, At, Go, serverVars, clientVars
  <1>2. fs' \in [Dirs -> [Names -> File]]
    <2>1. fs \in [Dirs -> [Names -> File]] /\ Hello \in Names /\ <<>> \in File
      BY FileServerAssumption DEF FlowInv, FileServerTypeOK, File
    <2> QED BY <1>1, <2>1
  <1>3. FileServerTypeOK' /\ QueuesOK'
    <2>1. hPc' \in [Clients -> HPcs]
      BY <1>1 DEF FlowInv, FileServerTypeOK, HPcs
    <2> QED BY <1>1, <1>2, <2>1 DEF FlowInv, FileServerTypeOK, QueuesOK, HPcs
  <1>4. /\ upload'[c] = <<>> /\ hPc'[c] = "type" /\ cPc'[c] = cPc[c]
        /\ hType'[c] = hType[c] /\ up'[c] = up[c] /\ down'[c] = down[c] /\ Others(c)
    BY <1>1 DEF FlowInv, FileServerTypeOK, QueuesOK, Others
  <1>5. Stored(c)'
    BY <1>4 DEF Stored
  <1> QED BY <1>1, <1>3, <1>4, <1>5, FlowUploads

-----------------------------------------------------------------------------
(* What ends the process, or a thread, and how a thread begins.            *)

(* Only the main thread, or another program, does something.               *)
LEMMA FlowSame ==
    ASSUME FlowInv,
           fs' \in [Dirs -> [Names -> File]], \A d \in Dirs : fs'[d][Hello] = fs[d][Hello],
           outside' \in 0 .. MaxOutside, mPc' \in {"epoll", "serving", "ended", "died"},
           UNCHANGED <<links, threads, threadVars, clientVars, up, down, upload, faults>>
    PROVE  FlowInv'
  <1>1. UNCHANGED <<links, threads, hPc, hType, hDir, hName, hNum, cPc, cDir, cInfo, cListed,
                    cLeft, cWant, cmds, local, up, down, upload, faults>>
    BY DEF threadVars, clientVars
  <1>2. FileServerTypeOK' /\ QueuesOK'
    BY <1>1 DEF FlowInv, FileServerTypeOK, QueuesOK
  <1>3. ASSUME NEW c \in Clients
        PROVE  Parsed(c)' /\ (Live(c)' => Listing(c)' /\ Uploading(c)') /\ Quitting(c)' /\ Stored(c)'
    <2>1. Parsed(c) /\ (Live(c) => Listing(c) /\ Uploading(c)) /\ Quitting(c) /\ Stored(c)
      BY DEF FlowInv
    <2>2. Parsed(c)'
      BY <1>1, <2>1 DEF Parsed, Reads
    <2>3. Live(c)' => Listing(c)' /\ Uploading(c)'
      BY <1>1, <2>1 DEF Live, Listing, Uploading, Asked
    <2>4. Quitting(c)'
      BY <1>1, <2>1 DEF Quitting, Asked
    <2>5. hDir[c] \in Dirs => fs'[hDir[c]][Hello] = fs[hDir[c]][Hello]
      OBVIOUS
    <2>6. Stored(c)'
      BY <1>1, <2>1, <2>5 DEF Stored, Exists
    <2> QED BY <2>2, <2>3, <2>4, <2>6
  <1> QED BY <1>2, <1>3 DEF FlowInv

LEMMA FlowDie == ASSUME FlowInv, Die PROVE FlowInv'
  <1>1. /\ UNCHANGED <<fs, outside, links, threads, threadVars, clientVars, up, down, upload, faults>>
        /\ mPc' = "died"
    BY DEF Die
  <1>2. fs' \in [Dirs -> [Names -> File]] /\ outside' \in 0 .. MaxOutside
    BY <1>1 DEF FlowInv, FileServerTypeOK
  <1> QED BY <1>1, <1>2, FlowSame

LEMMA FlowMain == ASSUME FlowInv, ServedInv, ServedInv', MainStep PROVE FlowInv'
  <1>1. CASE MLeave
    <2>1. /\ UNCHANGED <<fs, outside, links, threads, threadVars, clientVars, up, down, upload, faults>>
          /\ mPc' = "ended"
      BY <1>1 DEF MLeave
    <2>2. fs' \in [Dirs -> [Names -> File]] /\ outside' \in 0 .. MaxOutside
      BY <2>1 DEF FlowInv, FileServerTypeOK
    <2> QED BY <2>1, <2>2, FlowSame
  <1>2. ASSUME NEW c \in Clients, MAccept(c) PROVE FlowInv'
    <2>1. /\ cPc[c] \notin {"start", "lost"} /\ hPc[c] = "none" /\ mPc' = "serving"
          /\ hPc' = [hPc EXCEPT ![c] = "lspath"]
          /\ UNCHANGED <<fs, links, outside, hType, hDir, hName, hNum, cPc, cDir, cInfo, cListed,
                         cLeft, cWant, cmds, local, up, down, upload, faults>>
      BY <1>2 DEF MAccept, clientVars
    <2>2. FileServerTypeOK' /\ QueuesOK'
      <3>1. hPc' \in [Clients -> HPcs]
        BY <2>1 DEF FlowInv, FileServerTypeOK, HPcs
      <3> QED BY <2>1, <3>1, ThreadsCounted DEF FlowInv, FileServerTypeOK, QueuesOK, HPcs
    <2>3. /\ hPc'[c] = "lspath" /\ hType'[c] = hType[c] /\ cPc'[c] = cPc[c] /\ up'[c] = up[c]
          /\ down'[c] = down[c] /\ upload'[c] = upload[c] /\ faults'[c] = faults[c]
          /\ Others(c) /\ UNCHANGED fs
      BY <2>1 DEF FlowInv, FileServerTypeOK, QueuesOK, Others
    <2>4. /\ hType[c] = 0 /\ cPc[c] \in {"count", "vanished"}
          /\ Len(up[c]) = 1 /\ \A k \in 1 .. Len(up[c]) : up[c][k].kind = "path"
          /\ down[c] = <<>> /\ ("swallowed" \notin faults[c] => upload[c] = <<>>)
      BY <2>1 DEF FlowInv, Parsed, Stored
    <2>5. Parsed(c)'
      BY <2>3, <2>4 DEF Parsed, Commands, Starts
    <2>6. ASSUME NEW v PROVE ~Asked(c, v)'
      BY <2>3, <2>4, KindHas DEF Asked
    <2>7. ~Has(down'[c], CountWrite) /\ ~Has(down'[c], PortWrite)
      BY <2>3, <2>4 DEF Has
    <2>8. Live(c)' => Listing(c)' /\ Uploading(c)'
      <3>1. Live(c)' => Live(c) /\ Listing(c) /\ Uploading(c) /\ cPc[c] = "count"
        BY <2>3, <2>4 DEF FlowInv, Live
      <3> QED BY <2>3, <2>6, <2>7, <3>1 DEF Listing, Uploading
    <2>9. Quitting(c)' /\ Stored(c)'
      BY <2>3, <2>4, <2>6 DEF Quitting, Stored
    <2> QED BY <2>2, <2>3, <2>5, <2>8, <2>9, FlowStep DEF FlowOf
  <1> QED BY <1>1, <1>2 DEF MainStep

LEMMA FlowOutsider == ASSUME FlowInv, Outsider PROVE FlowInv'
  <1>1. PICK d \in Dirs, n \in Names \ {Hello}, x \in Contents :
            fs' = [fs EXCEPT ![d][n] = IF @ = None THEN x ELSE None]
    BY DEF Outsider
  <1>2. x \in File /\ None \in File
    BY FileServerAssumption DEF File
  <1>3. fs' \in [Dirs -> [Names -> File]] /\ \A e \in Dirs : fs'[e][Hello] = fs[e][Hello]
    <2>1. fs \in [Dirs -> [Names -> File]] /\ Hello \in Names
      BY FileServerAssumption DEF FlowInv, FileServerTypeOK
    <2> QED BY <1>1, <1>2, <2>1
  <1>4. outside' \in 0 .. MaxOutside
    BY FileServerAssumption DEF Outsider, FlowInv, FileServerTypeOK
  <1>5. UNCHANGED <<mPc, links, threads, threadVars, clientVars, up, down, upload, faults>>
    BY DEF Outsider, serverVars
  <1>6. mPc' \in {"epoll", "serving", "ended", "died"}
    BY <1>5 DEF FlowInv, FileServerTypeOK
  <1> QED BY <1>3, <1>4, <1>5, <1>6, FlowSame

LEMMA FlowEnd == ASSUME FlowInv, ServedInv, NEW c \in Clients, HEnd(c) PROVE FlowInv'
  <1>1. CASE Die
    BY <1>1, FlowDie
  <1>2. CASE ~Die
    <2>1. /\ Gone(c) /\ hPc[c] # "none"
          /\ hPc[c] = "upath" => upload[c] = <<>>
          /\ hPc' = [hPc EXCEPT ![c] = "stuck"]
          /\ UNCHANGED <<fs, links, outside, mPc, threads, hType, hDir, hName, hNum, cPc, cDir, cInfo, cListed,
                         cLeft, cWant, cmds, local, up, down, upload, faults>>
      BY <1>2 DEF HEnd, Go, serverVars, clientVars
    <2>2. FileServerTypeOK' /\ QueuesOK'
      <3>1. hPc' \in [Clients -> HPcs]
        BY <2>1 DEF FlowInv, FileServerTypeOK, HPcs
      <3> QED BY <2>1, <3>1 DEF FlowInv, FileServerTypeOK, QueuesOK, HPcs
    <2>3. /\ hPc'[c] = "stuck" /\ hType'[c] = hType[c] /\ cPc'[c] = cPc[c] /\ up'[c] = up[c]
          /\ down'[c] = down[c] /\ upload'[c] = upload[c] /\ faults'[c] = faults[c]
          /\ Others(c) /\ UNCHANGED fs
      BY <2>1 DEF FlowInv, FileServerTypeOK, QueuesOK, Others
    <2>4. Parsed(c)' /\ Stored(c)'
      BY <2>1, <2>3 DEF FlowInv, Parsed, Stored, Reads
    <2>5. Asked(c, 1)' = Asked(c, 1) /\ Asked(c, 3)' = Asked(c, 3) /\ Asked(c, 4)' = Asked(c, 4)
      BY <2>3 DEF Asked
    <2>6. Live(c)' => Listing(c)' /\ Uploading(c)'
      <3>1. Live(c)' => Live(c) /\ Listing(c) /\ Uploading(c) /\ cPc[c] = "done"
        BY <2>1, <2>3 DEF FlowInv, Live, Gone
      <3> QED BY <2>1, <2>3, <2>5, <3>1 DEF Listing, Uploading
    <2>7. Quitting(c)'
      BY <2>3, <2>5 DEF FlowInv, Quitting
    <2> QED BY <2>2, <2>3, <2>4, <2>6, <2>7, FlowStep DEF FlowOf
  <1> QED BY <1>1, <1>2

LEMMA FlowThread == ASSUME FlowInv, ServedInv, ServedInv', NEW c \in Clients, ThreadStep(c) PROVE FlowInv'
  <1>1. CASE HLsPath(c) \/ HCount(c) \/ HEntries(c) \/ HType(c)
    BY <1>1, FlowLsPath, FlowCount, FlowEntries, FlowType
  <1>2. CASE HDownloadPath(c) \/ HDownloadName(c) \/ HSend(c) \/ HSendNothing(c)
    BY <1>2, FlowDownloadPath, FlowDownloadName, FlowSend, FlowSendNothing
  <1>3. CASE HPort(c) \/ HUploadPath(c) \/ HUploadSize(c) \/ HUploadData(c) \/ HUploadEnd(c)
    BY <1>3, FlowPort, FlowUploadPath, FlowUploadSize, FlowUploadData, FlowUploadEnd
  <1>4. CASE HOpenFails(c) \/ HCrash(c)
    BY <1>4, FlowDie DEF HOpenFails, HCrash
  <1>5. CASE HEnd(c)
    BY <1>5, FlowEnd
  <1> QED BY <1>1, <1>2, <1>3, <1>4, <1>5 DEF ThreadStep

-----------------------------------------------------------------------------
(* What a client holds: it counts the entries it reads, and writes no file *)
(* that it has not opened.                                                 *)

ClientInv ==
    \A c \in Clients :
        /\ cPc[c] = "entry" => cLeft[c] > 0
        /\ local[c][Hello] # None
        /\ cPc[c] = "data" => cWant[c].name \in Names /\ local[c][cWant[c].name] # None

LEMMA FlowConnect == ASSUME FlowInv, ServedInv, NEW c \in Clients, CConnect(c) PROVE FlowInv'
  <1> DEFINE w == <<Write("path", Root)>>
  <1>1. /\ cPc[c] = "start" /\ hPc[c] = "none" /\ hType[c] = 0 /\ up[c] = <<>> /\ down[c] = <<>>
        /\ cPc' = [cPc EXCEPT ![c] = "count"] /\ up' = [up EXCEPT ![c] = @ \o w]
        /\ UNCHANGED <<fs, links, outside, mPc, threads, hPc, hType, hDir, hName, hNum, cDir, cInfo, cListed,
                       cLeft, cWant, cmds, local, down, upload, faults>>
    BY DEF CConnect, Put, FlowInv, Parsed, serverVars, threadVars
  <1>2. w \in Seq(UpWrite) /\ <<>> \o w = w
    BY DEF Write, UpWrite, Dirs
  <1>3. Len(w) = 1 /\ \A k \in 1 .. Len(w) : w[k].kind = "path"
    BY DEF Write
  <1> HIDE DEF w
  <1>4. /\ up'[c] = w /\ cPc'[c] = "count" /\ hPc'[c] = "none" /\ hType'[c] = 0 /\ down'[c] = <<>>
        /\ upload'[c] = upload[c] /\ faults'[c] = faults[c] /\ Others(c) /\ UNCHANGED fs
    BY <1>1, <1>2 DEF FlowInv, FileServerTypeOK, QueuesOK, Others
  <1>5. FileServerTypeOK' /\ QueuesOK'
    <2>1. up' \in [Clients -> Seq(UpWrite)]
      BY <1>1, <1>2 DEF FlowInv, QueuesOK
    <2> QED BY <1>1, <2>1 DEF FlowInv, FileServerTypeOK, QueuesOK
  <1>6. Parsed(c)'
    BY <1>3, <1>4 DEF Parsed
  <1>7. ASSUME NEW v PROVE ~Asked(c, v)'
    BY <1>3, <1>4, KindHas DEF Asked
  <1>8. /\ ~Has(down'[c], CountWrite) /\ ~Has(down'[c], PortWrite)
        /\ Once(down'[c], CountWrite) /\ Once(down'[c], PortWrite)
    BY <1>4 DEF Has, Once
  <1>9. Once(up'[c], TypeWrite(1)) /\ Once(up'[c], TypeWrite(3))
    BY <1>3, <1>4, OnceAlone
  <1>10. Listing(c)' /\ Uploading(c)' /\ Quitting(c)'
    BY <1>4, <1>7, <1>8, <1>9 DEF Listing, Uploading, Quitting
  <1>11. Stored(c)'
    BY <1>1, <1>4 DEF FlowInv, Stored
  <1> QED BY <1>4, <1>5, <1>6, <1>10, <1>11, FlowStep DEF FlowOf

(* The client reads what is on its connection.                             *)
LEMMA FlowTakes ==
    ASSUME FlowInv, ServedInv, NEW c \in Clients, down[c] # <<>>,
           cPc[c] \in {"count", "entry", "data", "port"},
           NEW n \in 1 .. Len(down[c]), down'[c] = SubSeq(down[c], n + 1, Len(down[c])),
           cPc'[c] \in {"entry", "menu", "data", "garbled"},
           cPc[c] = "count" /\ cPc'[c] # "garbled" => down[c][1] \in CountWrite,
           cPc[c] = "port" /\ cPc'[c] # "garbled" => down[c][1] \in PortWrite /\ upload'[c] # <<>>,
           cPc[c] # "port" => upload'[c] = upload[c],
           UNCHANGED <<fs, hPc, hType, hDir, hName, hNum, up>>,
           Others(c), FileServerTypeOK', QueuesOK', Stored(c)'
    PROVE  FlowInv'
  <1>1. down[c] \in Seq(DownWrite) /\ 1 \in 1 .. Len(down[c])
    BY DEF FlowInv, QueuesOK
  <1>2. Parsed(c)'
    BY DEF FlowInv, Parsed, Reads, Starts
  <1>3. Asked(c, 1)' = Asked(c, 1) /\ Asked(c, 3)' = Asked(c, 3) /\ Asked(c, 4)' = Asked(c, 4)
    BY DEF Asked
  <1>4. ASSUME NEW W
        PROVE  /\ Has(down'[c], W) => Has(down[c], W)
               /\ Once(down[c], W) => Once(down'[c], W)
               /\ Once(down[c], W) /\ down[c][1] \in W => ~Has(down'[c], W)
               /\ down[c][1] \in W => Has(down[c], W)
    <2>1. down[c][1] \in W => Has(down[c], W)
      BY <1>1 DEF Has
    <2> QED BY <1>1, <2>1, PoppedHas
  <1>5. Live(c)' => Listing(c)' /\ Uploading(c)'
    <2>1. Live(c)' => Listing(c) /\ Uploading(c) /\ cPc'[c] # "garbled"
      BY DEF FlowInv, Live
    <2>2. Live(c)' => Listing(c)'
      <3>1. /\ Has(down'[c], CountWrite) => Has(down[c], CountWrite)
            /\ Once(down[c], CountWrite) => Once(down'[c], CountWrite)
            /\ Once(down[c], CountWrite) /\ down[c][1] \in CountWrite => ~Has(down'[c], CountWrite)
            /\ down[c][1] \in CountWrite => Has(down[c], CountWrite)
        BY <1>4
      <3> QED BY <1>3, <2>1, <3>1 DEF Listing
    <2>3. Live(c)' => Uploading(c)'
      <3>1. /\ Has(down'[c], PortWrite) => Has(down[c], PortWrite)
            /\ Once(down[c], PortWrite) => Once(down'[c], PortWrite)
            /\ Once(down[c], PortWrite) /\ down[c][1] \in PortWrite => ~Has(down'[c], PortWrite)
            /\ down[c][1] \in PortWrite => Has(down[c], PortWrite)
        BY <1>4
      <3> QED BY <1>3, <2>1, <3>1 DEF Uploading
    <2> QED BY <2>2, <2>3
  <1>6. Quitting(c)'
    BY <1>3 DEF FlowInv, Quitting
  <1> QED BY <1>2, <1>5, <1>6, FlowStep DEF FlowOf

CPcs == {"start", "count", "entry", "menu", "data", "port", "garbled", "done", "vanished", "lost"}

LEMMA DownKinds ==
    ASSUME NEW w \in DownWrite
    PROVE  /\ w.kind = "count" => w \in CountWrite /\ w.val \in Nat
           /\ w.kind = "port" => w \in PortWrite
           /\ w.kind = "entry" => w.val \in Entry
           /\ w.kind = "data" => w.val \in Block
           /\ w.kind \in {"count", "port", "entry", "data"}
  BY DEF DownWrite, CountWrite, PortWrite, DataWrite

LEMMA FlowCCount == ASSUME FlowInv, ServedInv, NEW c \in Clients, CCount(c) PROVE FlowInv'
  <1> DEFINE s == down[c]
             t == SubSeq(s, 2, Len(s))
  <1>1. /\ cPc[c] = "count" /\ s # <<>> /\ s \in Seq(DownWrite)
        /\ \/ /\ Head(s).kind = "count"
              /\ cLeft' = [cLeft EXCEPT ![c] = Head(s).val]
              /\ cPc' = [cPc EXCEPT ![c] = EntryOrMenu(Head(s).val)]
           \/ cPc' = [cPc EXCEPT ![c] = "garbled"] /\ UNCHANGED cLeft
        /\ cInfo' = [cInfo EXCEPT ![c] = {}]
        /\ cListed' = [cListed EXCEPT ![c] = cDir[c]]
        /\ down' = [down EXCEPT ![c] = t]
        /\ UNCHANGED <<fs, links, outside, mPc, threads, hPc, hType, hDir, hName, hNum, cDir, cWant, cmds, local,
                       up, upload, faults>>
    BY DEF CCount, Pop, FlowInv, QueuesOK, serverVars, threadVars
  <1>2. PICK n \in 1 .. Len(s) : n = 1
    BY <1>1
  <1>3. t = SubSeq(s, n + 1, Len(s))
    BY <1>2
  <1>4. Head(s) = s[1] /\ s[1] \in DownWrite /\ t \in Seq(DownWrite)
    BY <1>1, HeadPopped
  <1>5. /\ Head(s).kind = "count" => s[1] \in CountWrite /\ Head(s).val \in Nat
        /\ EntryOrMenu(Head(s).val) \in {"entry", "menu"}
    BY <1>4, DownKinds DEF EntryOrMenu
  <1> HIDE DEF t
  <1>6. /\ cPc'[c] \in {"entry", "menu", "garbled"}
        /\ cPc'[c] # "garbled" => s[1] \in CountWrite
        /\ cPc' \in [Clients -> CPcs] /\ cLeft' \in [Clients -> Nat]
    <2>1. PICK pc \in {"entry", "menu", "garbled"} :
              /\ cPc' = [cPc EXCEPT ![c] = pc]
              /\ pc # "garbled" => s[1] \in CountWrite
      BY <1>1, <1>5
    <2>2. PICK left \in Nat : cLeft' = [cLeft EXCEPT ![c] = left]
      <3>1. cLeft[c] \in Nat /\ cLeft = [cLeft EXCEPT ![c] = cLeft[c]]
        BY DEF FlowInv, FileServerTypeOK
      <3> QED BY <1>1, <1>5, <3>1
    <2>3. cPc'[c] = pc /\ cPc' \in [Clients -> CPcs]
      BY <2>1 DEF FlowInv, FileServerTypeOK, CPcs
    <2>4. cLeft' \in [Clients -> Nat]
      BY <2>2 DEF FlowInv, FileServerTypeOK
    <2> QED BY <2>1, <2>3, <2>4
  <1>7. FileServerTypeOK' /\ QueuesOK'
    <2>1. /\ cInfo' \in [Clients -> SUBSET Entry] /\ cListed' \in [Clients -> Dirs \cup {Nowhere}]
          /\ down' \in [Clients -> Seq(DownWrite)]
      BY <1>1, <1>4 DEF FlowInv, FileServerTypeOK, QueuesOK
    <2> QED BY <1>1, <1>6, <2>1 DEF FlowInv, FileServerTypeOK, QueuesOK, CPcs
  <1>8. /\ down'[c] = SubSeq(down[c], n + 1, Len(down[c])) /\ upload'[c] = upload[c] /\ Others(c)
    BY <1>1, <1>3 DEF FlowInv, FileServerTypeOK, QueuesOK, Others
  <1>9. Stored(c)'
    BY <1>1, <1>6 DEF FlowInv, Stored, Exists
  <1> QED BY <1>1, <1>6, <1>7, <1>8, <1>9, FlowTakes

LEMMA FlowCEntry == ASSUME FlowInv, ServedInv, ClientInv, NEW c \in Clients, CEntry(c) PROVE FlowInv'
  <1> DEFINE s == down[c]
             t == SubSeq(s, 2, Len(s))
  <1>1. /\ cPc[c] = "entry" /\ s # <<>> /\ s \in Seq(DownWrite) /\ cLeft[c] \in Nat /\ cLeft[c] > 0
        /\ \/ /\ Head(s).kind = "entry"
              /\ cInfo' = [cInfo EXCEPT ![c] = @ \cup {Head(s).val}]
              /\ cLeft' = [cLeft EXCEPT ![c] = @ - 1]
              /\ cPc' = [cPc EXCEPT ![c] = EntryOrMenu(cLeft[c] - 1)]
           \/ cPc' = [cPc EXCEPT ![c] = "garbled"] /\ UNCHANGED <<cInfo, cLeft>>
        /\ down' = [down EXCEPT ![c] = t]
        /\ UNCHANGED <<fs, links, outside, mPc, threads, hPc, hType, hDir, hName, hNum, cDir, cListed, cWant,
                       cmds, local, up, upload, faults>>
    BY DEF CEntry, Pop, FlowInv, FileServerTypeOK, QueuesOK, ClientInv, serverVars, threadVars
  <1>2. PICK n \in 1 .. Len(s) : n = 1
    BY <1>1
  <1>3. t = SubSeq(s, n + 1, Len(s))
    BY <1>2
  <1>4. Head(s) = s[1] /\ s[1] \in DownWrite /\ t \in Seq(DownWrite)
    BY <1>1, HeadPopped
  <1>5. /\ Head(s).kind = "entry" => Head(s).val \in Entry
        /\ EntryOrMenu(cLeft[c] - 1) \in {"entry", "menu"}
        /\ cLeft[c] - 1 \in Nat
    BY <1>1, <1>4, DownKinds DEF EntryOrMenu
  <1> HIDE DEF t
  <1>6. /\ cPc'[c] \in {"entry", "menu", "garbled"}
        /\ cPc' \in [Clients -> CPcs]
    <2>1. PICK pc \in {"entry", "menu", "garbled"} : cPc' = [cPc EXCEPT ![c] = pc]
      BY <1>1, <1>5
    <2> QED BY <2>1 DEF FlowInv, FileServerTypeOK, CPcs
  <1>7. FileServerTypeOK' /\ QueuesOK'
    <2>1. cInfo' \in [Clients -> SUBSET Entry] /\ cLeft' \in [Clients -> Nat]
      <3>1. cInfo \in [Clients -> SUBSET Entry] /\ cLeft \in [Clients -> Nat]
        BY DEF FlowInv, FileServerTypeOK
      <3>2. CASE UNCHANGED <<cInfo, cLeft>>
        BY <3>1, <3>2
      <3>3. CASE /\ Head(s).kind = "entry"
                 /\ cInfo' = [cInfo EXCEPT ![c] = @ \cup {Head(s).val}]
                 /\ cLeft' = [cLeft EXCEPT ![c] = @ - 1]
        <4>1. cLeft' \in [Clients -> Nat]
          BY <1>5, <3>1, <3>3
        <4>2. cInfo[c] \cup {Head(s).val} \in SUBSET Entry
          BY <1>5, <3>1, <3>3
        <4> QED BY <3>1, <3>3, <4>1, <4>2
      <3> QED BY <1>1, <3>2, <3>3
    <2>2. down' \in [Clients -> Seq(DownWrite)]
      BY <1>1, <1>4 DEF FlowInv, QueuesOK
    <2> QED BY <1>1, <1>6, <2>1, <2>2 DEF FlowInv, FileServerTypeOK, QueuesOK, CPcs
  <1>8. /\ down'[c] = SubSeq(down[c], n + 1, Len(down[c])) /\ upload'[c] = upload[c] /\ Others(c)
    BY <1>1, <1>3, SMTT(30) DEF FlowInv, FileServerTypeOK, QueuesOK, Others
  <1>9. Stored(c)'
    BY <1>1, <1>6 DEF FlowInv, Stored, Exists
  <1> QED BY <1>1, <1>6, <1>7, <1>8, <1>9, FlowTakes

(* A client that downloads reads blocks, or entries that it takes for      *)
(* blocks: no count and no port is under way.                              *)
LEMMA DownloadReads ==
    ASSUME FlowInv, NEW c \in Clients, cPc[c] = "data"
    PROVE  \A k \in 1 .. Len(down[c]) : down[c][k].val \in Block
  <1>1. ~Has(down[c], CountWrite) /\ ~Has(down[c], PortWrite) /\ down[c] \in Seq(DownWrite)
    BY DEF FlowInv, QueuesOK, Live, Listing, Uploading
  <1>2. \A k \in 1 .. Len(down[c]) : down[c][k] \in DownWrite \ (CountWrite \cup PortWrite)
    BY <1>1 DEF Has
  <1>3. \A w \in DownWrite \ (CountWrite \cup PortWrite) : w.val \in Block
    <2>1. Entry \subseteq Block
      <3>1. \A A : Entry \subseteq A \cup Entry
        OBVIOUS
      <3> QED BY <3>1 DEF Block
    <2> QED BY <2>1, DownKinds
  <1> QED BY <1>2, <1>3

LEMMA FlowCData == ASSUME FlowInv, ServedInv, ClientInv, NEW c \in Clients, CData(c) PROVE FlowInv'
  <1> DEFINE s == down[c]
             name == cWant[c].name
             old == local[c][name]
  <1>1. /\ cPc[c] = "data" /\ s \in Seq(DownWrite) /\ name \in Names /\ old # None
        /\ UNCHANGED <<fs, links, outside, mPc, threads, hPc, hType, hDir, hName, hNum, cDir, cInfo, cListed,
                       cLeft, cWant, cmds, up, upload, faults>>
    BY DEF CData, ReadData, FlowInv, QueuesOK, ClientInv, serverVars, threadVars
  <1>2. PICK n \in 1 .. Len(s) :
            LET got == old \o Values(SubSeq(s, 1, n))
            IN  /\ down' = [down EXCEPT ![c] = SubSeq(@, n + 1, Len(@))]
                /\ local' = [local EXCEPT ![c][name] = got]
                /\ cPc' = [cPc EXCEPT ![c] = IF Len(got) >= cWant[c].size THEN "menu" ELSE "data"]
    BY DEF CData, ReadData, Pop
  <1> DEFINE new == Values(SubSeq(s, 1, n))
             got == old \o new
  <1>3. new \in Seq(Block)
    BY <1>1, DownloadReads, ValuesRead
  <1>4. old \in Seq(Block) /\ local \in [Clients -> [Names -> File]]
    BY <1>1 DEF FlowInv, FileServerTypeOK, File
  <1>5. got \in Seq(Block)
    BY <1>3, <1>4
  <1>6. got \in File
    BY <1>5 DEF File
  <1>7. SubSeq(s, n + 1, Len(s)) \in Seq(DownWrite)
    BY <1>1, Popped
  <1> HIDE DEF got
  <1>8. /\ local' = [local EXCEPT ![c][name] = got]
        /\ cPc' = [cPc EXCEPT ![c] = IF Len(got) >= cWant[c].size THEN "menu" ELSE "data"]
        /\ down' = [down EXCEPT ![c] = SubSeq(@, n + 1, Len(@))]
    BY <1>2 DEF got
  <1>9. cPc'[c] \in {"menu", "data"} /\ cPc' \in [Clients -> CPcs]
    BY <1>8 DEF FlowInv, FileServerTypeOK, CPcs
  <1>10. FileServerTypeOK' /\ QueuesOK'
    <2>1. local' \in [Clients -> [Names -> File]]
      BY <1>1, <1>4, <1>6, <1>8
    <2>2. down' \in [Clients -> Seq(DownWrite)]
      BY <1>7, <1>8 DEF FlowInv, QueuesOK
    <2> QED BY <1>1, <1>9, <2>1, <2>2 DEF FlowInv, FileServerTypeOK, QueuesOK, CPcs
  <1>11. /\ down'[c] = SubSeq(down[c], n + 1, Len(down[c])) /\ upload'[c] = upload[c] /\ Others(c)
    BY <1>1, <1>8 DEF FlowInv, FileServerTypeOK, QueuesOK, Others
  <1>12. Stored(c)'
    BY <1>1, <1>9 DEF FlowInv, Stored, Exists
  <1>13. s # <<>>
    OBVIOUS
  <1> QED BY <1>1, <1>9, <1>10, <1>11, <1>12, <1>13, FlowTakes

LEMMA FlowCPort == ASSUME FlowInv, ServedInv, ClientInv, NEW c \in Clients, CPort(c) PROVE FlowInv'
  <1> DEFINE s == down[c]
             t == SubSeq(s, 2, Len(s))
             content == local[c][Hello]
             first == <<Write("path", cDir[c]), Write("size", Len(content))>>
             w == first \o Blocks(content)
  <1>1. /\ cPc[c] = "port" /\ s # <<>> /\ s \in Seq(DownWrite) /\ upload[c] \in Seq(UploadWrite)
        /\ down' = [down EXCEPT ![c] = t]
        /\ UNCHANGED <<fs, links, outside, mPc, threads, hPc, hType, hDir, hName, hNum, cDir, cInfo, cListed,
                       cLeft, cWant, cmds, local, up>>
    BY DEF CPort, Pop, FlowInv, QueuesOK, serverVars, threadVars
  <1>2. \/ /\ Head(s).kind = "port"
           /\ upload' = [upload EXCEPT ![c] = @ \o w]
           /\ cPc' = [cPc EXCEPT ![c] = "menu"]
           /\ faults' = [faults EXCEPT ![c] = IF content = <<>> THEN @ \cup {"empty"} ELSE @]
        \/ cPc' = [cPc EXCEPT ![c] = "garbled"] /\ UNCHANGED <<upload, faults>>
    BY DEF CPort, Put, Faulty
  <1>3. PICK n \in 1 .. Len(s) : n = 1
    BY <1>1
  <1>4. t = SubSeq(s, n + 1, Len(s))
    BY <1>3
  <1>5. Head(s) = s[1] /\ s[1] \in DownWrite /\ t \in Seq(DownWrite)
    BY <1>1, HeadPopped
  <1>6. content \in Seq(Block) /\ cDir[c] \in Dirs \cup {Nowhere}
    BY FileServerAssumption DEF FlowInv, FileServerTypeOK, ClientInv, File
  <1>7. /\ Blocks(content) \in Seq(DataWrite) /\ Len(Blocks(content)) = Len(content)
        /\ Len(content) \in Nat
    BY <1>6, BlocksData
  <1>8. /\ first \in Seq(UploadWrite) /\ Len(first) = 2
        /\ first[1].kind = "path" /\ first[2].kind = "size" /\ first[2].val = Len(content)
    <2>1. Write("path", cDir[c]) \in UploadWrite /\ Write("size", Len(content)) \in UploadWrite
      BY <1>6, <1>7 DEF Write, UploadWrite
    <2> QED BY <2>1 DEF Write
  <1>9. Blocks(content) \in Seq(UploadWrite)
    <2>1. DataWrite \subseteq UploadWrite
      BY DEF UploadWrite
    <2> QED BY <1>7, <2>1
  <1> DEFINE blocks == Blocks(content)
  <1>10. /\ w \in Seq(UploadWrite) /\ Len(w) = Len(content) + 2
         /\ w[1].kind = "path" /\ w[2].kind = "size" /\ w[2].val = Len(content)
         /\ \A k \in 3 .. Len(w) : w[k].kind = "data"
    <2>1. first \in Seq(UploadWrite) /\ blocks \in Seq(UploadWrite) /\ Len(blocks) = Len(content)
          /\ \A k \in 1 .. Len(blocks) : blocks[k].kind = "data"
      <3>1. \A x \in DataWrite : x.kind = "data"
        BY DEF DataWrite
      <3> QED BY <1>7, <1>8, <1>9, <3>1
    <2>0. w = first \o blocks
      OBVIOUS
    <2> HIDE DEF first, blocks, content, w
    <2>2. /\ w \in Seq(UploadWrite)
          /\ Len(w) = Len(first) + Len(blocks)
          /\ \A k \in 1 .. Len(first) : w[k] = first[k]
          /\ \A k \in 1 .. Len(w) : k \notin 1 .. Len(first) => /\ k - Len(first) \in 1 .. Len(blocks)
                                                                /\ w[k] = blocks[k - Len(first)]
      <3>1. w \in Seq(UploadWrite)
        BY <2>0, <2>1, Joined
      <3>2. Len(w) = Len(first) + Len(blocks)
        BY SMTT(30), <2>0, <2>1
      <3>3. \A k \in 1 .. Len(first) : w[k] = first[k]
        BY <2>0, <2>1, Joined
      <3>4. \A k \in 1 .. Len(w) : k \notin 1 .. Len(first) => /\ k - Len(first) \in 1 .. Len(blocks)
                                                                /\ w[k] = blocks[k - Len(first)]
        BY <2>0, <2>1, Joined
      <3> QED BY <3>1, <3>2, <3>3, <3>4
    <2>3. Len(w) = Len(content) + 2
      BY <1>7, <1>8, <2>1, <2>2
    <2>4. w[1] = first[1] /\ w[2] = first[2]
      BY <1>8, <2>2
    <2>5. ASSUME NEW k \in 3 .. Len(w) PROVE w[k].kind = "data"
      <3>1. k \in 1 .. Len(w) /\ k \notin 1 .. Len(first)
        BY <1>7, <1>8, <2>3
      <3> QED BY <2>1, <2>2, <3>1
    <2> QED BY <1>8, <2>2, <2>3, <2>4, <2>5
  <1> HIDE DEF t, content, w
  <1>11. CASE cPc' = [cPc EXCEPT ![c] = "garbled"] /\ UNCHANGED <<upload, faults>>
    <2>1. cPc'[c] = "garbled" /\ cPc' \in [Clients -> CPcs]
      BY <1>11 DEF FlowInv, FileServerTypeOK, CPcs
    <2>2. FileServerTypeOK' /\ QueuesOK'
      <3>1. down' \in [Clients -> Seq(DownWrite)]
        BY <1>1, <1>5 DEF FlowInv, QueuesOK
      <3> QED BY <1>1, <1>11, <2>1, <3>1 DEF FlowInv, FileServerTypeOK, QueuesOK, CPcs
    <2>3. /\ down'[c] = SubSeq(down[c], n + 1, Len(down[c])) /\ upload'[c] = upload[c] /\ Others(c)
      BY <1>1, <1>4, <1>11 DEF FlowInv, FileServerTypeOK, QueuesOK, Others
    <2>4. Stored(c)'
      BY <1>1, <1>11, <2>1 DEF FlowInv, Stored, Exists
    <2> QED BY <1>1, <2>1, <2>2, <2>3, <2>4, FlowTakes
  <1>12. CASE /\ Head(s).kind = "port"
              /\ upload' = [upload EXCEPT ![c] = @ \o w]
              /\ cPc' = [cPc EXCEPT ![c] = "menu"]
              /\ faults' = [faults EXCEPT ![c] = IF content = <<>> THEN @ \cup {"empty"} ELSE @]
    <2>1. s[1] \in PortWrite
      BY <1>5, <1>12, DownKinds
    <2>2. hPc[c] = "upath" /\ upload[c] = <<>>
      <3>1. Has(s, PortWrite)
        BY <1>1, <1>3, <2>1 DEF Has
      <3> QED BY <1>1, <3>1 DEF FlowInv, Live, Uploading
    <2>3. <<>> \o w = w
      BY <1>10
    <2>4. upload' = [upload EXCEPT ![c] = w]
      BY <1>12, <2>2, <2>3
    <2>5. cPc'[c] = "menu" /\ cPc' \in [Clients -> CPcs]
      BY <1>12 DEF FlowInv, FileServerTypeOK, CPcs
    <2>6. FileServerTypeOK' /\ QueuesOK'
      <3>1. down' \in [Clients -> Seq(DownWrite)] /\ upload' \in [Clients -> Seq(UploadWrite)]
        BY <1>1, <1>5, <1>10, <2>4 DEF FlowInv, QueuesOK
      <3>2. faults' \in [Clients -> SUBSET Faults]
        BY <1>12 DEF FlowInv, FileServerTypeOK, Faults
      <3> QED BY <1>1, <2>5, <3>1, <3>2 DEF FlowInv, FileServerTypeOK, QueuesOK, CPcs, Faults
    <2>7. /\ down'[c] = SubSeq(down[c], n + 1, Len(down[c])) /\ upload'[c] = w /\ Others(c)
          /\ hPc'[c] = "upath"
      BY <1>1, <1>4, <1>12, <2>2, <2>4 DEF FlowInv, FileServerTypeOK, QueuesOK, Others
    <2>8. Stored(c)'
      <3>1. /\ IsData(w, 3) /\ Len(w) >= 2 /\ w[2].val = Len(w) - 2 /\ Len(w) - 2 <= w[2].val
        BY <1>7, <1>10 DEF IsData
      <3> QED BY <1>10, <2>5, <2>7, <3>1 DEF Stored
    <2>9. upload'[c] # <<>>
      BY <1>7, <1>10, <2>7
    <2> QED BY <1>1, <2>1, <2>5, <2>6, <2>7, <2>8, <2>9, FlowTakes
  <1> QED BY <1>2, <1>11, <1>12

-----------------------------------------------------------------------------
(* The commands.                                                           *)

LEMMA FlowCommand ==
    ASSUME FlowInv, ServedInv, NEW c \in Clients, cPc[c] = "menu",
           NEW w \in Seq(UpWrite), Len(w) >= 1, w[1].kind = "type", Commands(w),
           \A k \in 1 .. Len(w) : w[k].kind = "type" => k = 1,
           NEW then \in {"menu", "count", "data", "port", "done"},
           w[1].val = 1 => then = "count", w[1].val = 3 => then = "port", w[1].val = 4 => then = "done",
           up'[c] = up[c] \o w, cPc'[c] = then,
           hPc'[c] = hPc[c], hType'[c] = hType[c], hDir'[c] = hDir[c], hNum'[c] = hNum[c],
           down'[c] = down[c], upload'[c] = upload[c], faults[c] \subseteq faults'[c],
           Others(c), UNCHANGED fs, FileServerTypeOK', QueuesOK'
    PROVE  FlowInv'
  <1>1. /\ up[c] \in Seq(UpWrite) /\ hPc[c] # "none" /\ hPc[c] # "ended"
        /\ Parsed(c) /\ Listing(c) /\ Uploading(c) /\ Quitting(c) /\ Stored(c)
    BY DEF FlowInv, QueuesOK, Parsed, Live, Quitting
  <1>2. Parsed(c)'
    <2>1. ASSUME Commands(up[c]), Starts(up[c], hPc[c])
          PROVE  Commands(up'[c]) /\ Starts(up'[c], hPc[c])
      BY <1>1, <2>1, JoinedCommands
    <2> QED BY <1>1, <2>1 DEF Parsed, Reads
  <1>3. ASSUME NEW v
        PROVE  /\ Asked(c, v)' => Asked(c, v) \/ w[1].val = v
               /\ ~Asked(c, v) => Once(up'[c], TypeWrite(v))
               /\ Once(up[c], TypeWrite(v)) /\ w[1].val # v => Once(up'[c], TypeWrite(v))
    <2>1. Has(w, TypeWrite(v)) => w[1].val = v
      BY DEF Has, TypeWrite, Write
    <2>2. Once(w, TypeWrite(v))
      BY DEF Once, TypeWrite, Write
    <2>3. /\ Has(up[c] \o w, TypeWrite(v)) <=> Has(up[c], TypeWrite(v)) \/ Has(w, TypeWrite(v))
          /\ Once(up[c], TypeWrite(v)) /\ ~Has(w, TypeWrite(v)) => Once(up[c] \o w, TypeWrite(v))
          /\ ~Has(up[c], TypeWrite(v)) /\ Once(w, TypeWrite(v)) => Once(up[c] \o w, TypeWrite(v))
      BY <1>1, JoinedHas
    <2> QED BY <2>1, <2>2, <2>3 DEF Asked
  <1>4. ~Asked(c, 1) /\ ~Asked(c, 3) /\ ~Asked(c, 4)
    BY <1>1 DEF Listing, Uploading, Quitting
  <1>5. Listing(c)'
    <2>1. Asked(c, 1)' => w[1].val = 1
      BY <1>3, <1>4
    <2>2. Once(up'[c], TypeWrite(1))
      BY <1>3, <1>4
    <2> QED BY <1>1, <2>1, <2>2 DEF Listing
  <1>6. Uploading(c)'
    <2>1. Asked(c, 3)' => w[1].val = 3
      BY <1>3, <1>4
    <2>2. Once(up'[c], TypeWrite(3))
      BY <1>3, <1>4
    <2> QED BY <1>1, <2>1, <2>2 DEF Uploading
  <1>7. Quitting(c)'
    <2>1. Asked(c, 4)' => w[1].val = 4
      BY <1>3, <1>4
    <2> QED BY <1>1, <2>1 DEF Quitting
  <1>8. Stored(c)'
    BY <1>1 DEF Stored, Exists
  <1> QED BY <1>2, <1>5, <1>6, <1>7, <1>8, FlowStep DEF FlowOf

(* The writes of a command are a command.                                  *)
LEMMA OneCommand ==
    ASSUME NEW dir \in Dirs \cup {Nowhere}, NEW name \in Names,
           NEW w \in {<<Write("type", 0)>>, <<Write("type", 1), Write("path", dir)>>,
                      <<Write("type", 2), Write("path", dir), Write("name", name)>>,
                      <<Write("type", 3)>>, <<Write("type", 4)>>}
    PROVE  /\ w \in Seq(UpWrite) /\ Len(w) >= 1 /\ w[1].kind = "type" /\ Commands(w)
           /\ \A k \in 1 .. Len(w) : w[k].kind = "type" => k = 1
  <1>1. /\ \A v \in 0 .. 4 : Write("type", v) \in UpWrite
        /\ Write("path", dir) \in UpWrite /\ Write("name", name) \in UpWrite
    BY DEF Write, UpWrite
  <1>2. CASE w = <<Write("type", 0)>> \/ w = <<Write("type", 3)>> \/ w = <<Write("type", 4)>>
    <2>1. w \in Seq(UpWrite) /\ Len(w) = 1 /\ w[1] \in {Write("type", 0), Write("type", 3), Write("type", 4)}
      <3>1. CASE w = <<Write("type", 0)>>
        BY <1>1, <3>1
      <3>2. CASE w = <<Write("type", 3)>>
        BY <1>1, <3>2
      <3>3. CASE w = <<Write("type", 4)>>
        BY <1>1, <3>3
      <3> QED BY <1>2, <3>1, <3>2, <3>3
    <2>2. w[1].kind = "type" /\ w[1].val \notin {1, 2}
      BY <2>1 DEF Write
    <2> QED BY <2>1, <2>2 DEF Commands
  <1>3. CASE w = <<Write("type", 1), Write("path", dir)>>
    <2>1. w \in Seq(UpWrite) /\ Len(w) = 2 /\ w[1] = Write("type", 1) /\ w[2] = Write("path", dir)
      BY <1>1, <1>3
    <2>2. w[1].kind = "type" /\ w[1].val = 1 /\ w[2].kind = "path"
      BY <2>1 DEF Write
    <2> QED BY <2>1, <2>2 DEF Commands
  <1>4. CASE w = <<Write("type", 2), Write("path", dir), Write("name", name)>>
    <2>1. /\ w \in Seq(UpWrite) /\ Len(w) = 3 /\ w[1] = Write("type", 2) /\ w[2] = Write("path", dir)
          /\ w[3] = Write("name", name)
      BY <1>1, <1>4
    <2>2. w[1].kind = "type" /\ w[1].val = 2 /\ w[2].kind = "path" /\ w[3].kind = "name"
      BY <2>1 DEF Write
    <2> QED BY <2>1, <2>2 DEF Commands
  <1> QED BY <1>2, <1>3, <1>4

(* The commands leave the types of the variables as they are.              *)
LEMMA CommandTypes ==
    ASSUME FlowInv, NEW c \in Clients, NEW w \in Seq(UpWrite),
           NEW then \in {"menu", "count", "data", "port", "done"},
           cPc[c] = "menu", cmds[c] < MaxCmds, cmds' = [cmds EXCEPT ![c] = @ + 1],
           up' = [up EXCEPT ![c] = @ \o w], cPc' = [cPc EXCEPT ![c] = then],
           UNCHANGED <<fs, links, outside, mPc, threads, hPc, hType, hDir, hName, hNum, cInfo, cListed, cLeft,
                       down, upload>>,
           cDir' \in [Clients -> Dirs \cup {Nowhere}], cWant' \in [Clients -> Entry],
           local' \in [Clients -> [Names -> File]],
           faults' \in [Clients -> SUBSET Faults], faults[c] \subseteq faults'[c],
           \A d \in Clients : d # c => /\ cDir'[d] = cDir[d] /\ cWant'[d] = cWant[d]
                                       /\ local'[d] = local[d] /\ faults'[d] = faults[d]
    PROVE  /\ FileServerTypeOK' /\ QueuesOK' /\ Others(c) /\ UNCHANGED fs
           /\ cPc[c] = "menu" /\ up'[c] = up[c] \o w /\ cPc'[c] = then
           /\ hPc'[c] = hPc[c] /\ hType'[c] = hType[c] /\ hDir'[c] = hDir[c] /\ hNum'[c] = hNum[c]
           /\ down'[c] = down[c] /\ upload'[c] = upload[c] /\ faults[c] \subseteq faults'[c]
  <1>1. UNCHANGED <<fs, links, outside, mPc, threads, hPc, hType, hDir, hName, hNum, cInfo, cListed, cLeft,
                    down, upload>>
    OBVIOUS
  <1>2. cmds' \in [Clients -> 0 .. MaxCmds]
    <2>1. cmds \in [Clients -> 0 .. MaxCmds] /\ MaxCmds \in Nat
      BY FileServerAssumption DEF FlowInv, FileServerTypeOK
    <2>2. cmds[c] + 1 \in 0 .. MaxCmds
      BY <1>1, <2>1
    <2> QED BY <1>1, <2>1, <2>2
  <1>3. up' \in [Clients -> Seq(UpWrite)]
    <2>1. up[c] \o w \in Seq(UpWrite)
      BY DEF FlowInv, QueuesOK
    <2> QED BY <1>1, <2>1 DEF FlowInv, QueuesOK
  <1>4. cPc' \in [Clients -> CPcs]
    BY <1>1 DEF FlowInv, FileServerTypeOK, CPcs
  <1>5. FileServerTypeOK' /\ QueuesOK'
    BY <1>1, <1>2, <1>3, <1>4 DEF FlowInv, FileServerTypeOK, QueuesOK, CPcs, Faults
  <1> QED BY <1>1, <1>5, SMTT(30) DEF FlowInv, FileServerTypeOK, QueuesOK, Others

LEMMA CommandFaults ==
    ASSUME FlowInv, NEW c \in Clients, NEW new \in SUBSET Faults,
           faults' = [faults EXCEPT ![c] = @ \cup new]
    PROVE  /\ faults' \in [Clients -> SUBSET Faults]
           /\ \A d \in Clients : d # c => faults'[d] = faults[d]
           /\ faults[c] \subseteq faults'[c]
  BY DEF FlowInv, FileServerTypeOK, Faults

LEMMA FlowUser == ASSUME FlowInv, ServedInv, NEW c \in Clients, UserStep(c), ~CVanish(c) PROVE FlowInv'
  <1> DEFINE Written(w) == /\ w \in Seq(UpWrite) /\ Len(w) >= 1 /\ w[1].kind = "type" /\ Commands(w)
                           /\ \A k \in 1 .. Len(w) : w[k].kind = "type" => k = 1
             Given(w, then) ==
                 /\ cPc[c] = "menu" /\ cmds[c] < MaxCmds /\ cmds' = [cmds EXCEPT ![c] = @ + 1]
                 /\ up' = [up EXCEPT ![c] = @ \o w] /\ cPc' = [cPc EXCEPT ![c] = then]
                 /\ UNCHANGED <<fs, links, outside, mPc, threads, hPc, hType, hDir, hName, hNum, cInfo, cListed,
                                cLeft, down, upload>>
             Typed ==
                 /\ cDir' \in [Clients -> Dirs \cup {Nowhere}] /\ cWant' \in [Clients -> Entry]
                 /\ local' \in [Clients -> [Names -> File]]
                 /\ faults' \in [Clients -> SUBSET Faults] /\ faults[c] \subseteq faults'[c]
                 /\ \A d \in Clients : d # c => /\ cDir'[d] = cDir[d] /\ cWant'[d] = cWant[d]
                                               /\ local'[d] = local[d] /\ faults'[d] = faults[d]
  <1>0. /\ cDir[c] \in Dirs \cup {Nowhere} /\ Hello \in Names
        /\ cDir \in [Clients -> Dirs \cup {Nowhere}] /\ cWant \in [Clients -> Entry]
        /\ local \in [Clients -> [Names -> File]]
        /\ faults \in [Clients -> SUBSET Faults]
    BY FileServerAssumption DEF FlowInv, FileServerTypeOK, Faults
  <1>1. ASSUME NEW w, Written(w), NEW then \in {"menu", "count", "data", "port", "done"},
               w[1].val = 1 => then = "count", w[1].val = 3 => then = "port", w[1].val = 4 => then = "done",
               Given(w, then), Typed
        PROVE  FlowInv'
    <2>1. /\ FileServerTypeOK' /\ QueuesOK' /\ Others(c) /\ UNCHANGED fs
          /\ cPc[c] = "menu" /\ up'[c] = up[c] \o w /\ cPc'[c] = then
          /\ hPc'[c] = hPc[c] /\ hType'[c] = hType[c] /\ hDir'[c] = hDir[c] /\ hNum'[c] = hNum[c]
          /\ down'[c] = down[c] /\ upload'[c] = upload[c] /\ faults[c] \subseteq faults'[c]
      BY ZenonT(40), <1>1, CommandTypes
    <2> QED BY <1>1, <2>1, FlowCommand
  <1>2. CASE CCd(c)
    <2>1. PICK w : w = <<Write("type", 0)>>
      OBVIOUS
    <2>2. Given(w, "menu")
      BY <1>2, <2>1 DEF CCd, Command, Put, serverVars, threadVars
    <2>3. /\ cDir' = [cDir EXCEPT ![c] = IF @ = Root THEN Sub ELSE Nowhere]
          /\ faults' = [faults EXCEPT ![c] = @ \cup (IF cListed[c] # cDir[c] THEN {"unlisted"} ELSE {})]
          /\ UNCHANGED <<cWant, local>>
      BY <1>0, <1>2 DEF CCd, Faulty
    <2>4. Written(w)
      BY <1>0, <2>1, OneCommand
    <2>5. w[1].val = 0
      BY <2>1 DEF Write
    <2>6. Typed
      <3>1. /\ cDir' \in [Clients -> Dirs \cup {Nowhere}]
            /\ \A d \in Clients : d # c => cDir'[d] = cDir[d]
        BY <1>0, <2>3 DEF Dirs
      <3>2. /\ faults' \in [Clients -> SUBSET Faults]
            /\ \A d \in Clients : d # c => faults'[d] = faults[d]
            /\ faults[c] \subseteq faults'[c]
        BY <2>3, CommandFaults DEF Faults
      <3> QED BY <1>0, <2>3, <3>1, <3>2
    <2> HIDE DEF Written, Given, Typed
    <2> QED BY <1>1, <2>2, <2>4, <2>5, <2>6
  <1>3. CASE CLs(c)
    <2>1. PICK w : w = <<Write("type", 1), Write("path", cDir[c])>>
      OBVIOUS
    <2>2. Given(w, "count") /\ UNCHANGED <<cDir, cWant, local, faults>>
      BY <1>3, <2>1 DEF CLs, Command, Put, serverVars, threadVars
    <2>3. Written(w)
      BY <1>0, <2>1, OneCommand
    <2>4. w[1].val = 1
      BY <2>1 DEF Write
    <2>5. Typed
      BY <1>0, <2>2
    <2> HIDE DEF Written, Given, Typed
    <2> QED BY <1>1, <2>2, <2>3, <2>4, <2>5
  <1>4. CASE CUpload(c)
    <2>1. PICK w : w = <<Write("type", 3)>>
      OBVIOUS
    <2>2. Given(w, "port") /\ UNCHANGED <<cDir, cWant, local, faults>>
      BY <1>4, <2>1 DEF CUpload, Command, Put, serverVars, threadVars
    <2>3. Written(w)
      BY <1>0, <2>1, OneCommand
    <2>4. w[1].val = 3
      BY <2>1 DEF Write
    <2>5. Typed
      BY <1>0, <2>2
    <2> HIDE DEF Written, Given, Typed
    <2> QED BY <1>1, <2>2, <2>3, <2>4, <2>5
  <1>5. CASE CQuit(c)
    <2>1. PICK w : w = <<Write("type", 4)>>
      OBVIOUS
    <2>2. Given(w, "done") /\ UNCHANGED <<cDir, cWant, local, faults>>
      BY <1>5, <2>1 DEF CQuit, Command, Put, serverVars, threadVars
    <2>3. Written(w)
      BY <1>0, <2>1, OneCommand
    <2>4. w[1].val = 4
      BY <2>1 DEF Write
    <2>5. Typed
      BY <1>0, <2>2
    <2> HIDE DEF Written, Given, Typed
    <2> QED BY <1>1, <2>2, <2>3, <2>4, <2>5
  <1>6. ASSUME NEW e \in cInfo[c], CDownload(c, e) PROVE FlowInv'
    <2>1. PICK w : w = <<Write("type", 2), Write("path", cDir[c]), Write("name", e.name)>>
      OBVIOUS
    <2>2. Given(w, "data")
      BY <1>6, <2>1 DEF CDownload, Command, Put, serverVars, threadVars
    <2>3. /\ cWant' = [cWant EXCEPT ![c] = e]
          /\ local' = [local EXCEPT ![c][e.name] = <<>>]
          /\ faults' = [faults EXCEPT ![c] = @ \cup ((IF cListed[c] # cDir[c] THEN {"unlisted"} ELSE {})
                                                     \cup (IF e.size = 0 THEN {"empty"} ELSE {}))]
          /\ UNCHANGED cDir
      BY <1>0, <1>6 DEF CDownload
    <2>4. e \in Entry /\ e.name \in Names
      BY <1>6 DEF FlowInv, FileServerTypeOK, CDownload, Entry, DirEntry
    <2>5. Written(w)
      BY <1>0, <2>1, <2>4, OneCommand
    <2>6. w[1].val = 2
      BY <2>1 DEF Write
    <2>7. Typed
      <3>1. /\ cWant' \in [Clients -> Entry] /\ \A d \in Clients : d # c => cWant'[d] = cWant[d]
        BY <1>0, <2>3, <2>4
      <3>2. /\ local' \in [Clients -> [Names -> File]] /\ \A d \in Clients : d # c => local'[d] = local[d]
        <4>1. <<>> \in File
          BY DEF File
        <4> QED BY <1>0, <2>3, <2>4, <4>1
      <3>3. /\ faults' \in [Clients -> SUBSET Faults]
            /\ \A d \in Clients : d # c => faults'[d] = faults[d]
            /\ faults[c] \subseteq faults'[c]
        BY <2>3, CommandFaults DEF Faults
      <3> QED BY <1>0, <2>3, <3>1, <3>2, <3>3
    <2> HIDE DEF Written, Given, Typed
    <2> QED BY <1>1, <2>2, <2>5, <2>6, <2>7
  <1> QED BY <1>2, <1>3, <1>4, <1>5, <1>6 DEF UserStep

-----------------------------------------------------------------------------
(* A client that is killed, or that finds the server gone.                 *)

LEMMA FlowVanish == ASSUME FlowInv, ServedInv, NEW c \in Clients, CVanish(c) PROVE FlowInv'
  <1> DEFINE s == upload[c]
  <1>1. PICK n \in 0 .. Len(s) : upload' = [upload EXCEPT ![c] = SubSeq(@, 1, n)]
    BY DEF CVanish
  <1>2. /\ cPc[c] \notin {"start", "done", "vanished", "lost"} /\ s \in Seq(UploadWrite)
        /\ cPc' = [cPc EXCEPT ![c] = "vanished"]
        /\ UNCHANGED <<fs, links, outside, mPc, threads, hPc, hType, hDir, hName, hNum, cDir, cInfo, cListed,
                       cLeft, cWant, cmds, local, up, down, faults>>
    BY DEF CVanish, FlowInv, QueuesOK, serverVars, threadVars
  <1> DEFINE t == SubSeq(s, 1, n)
  <1>3. /\ t \in Seq(UploadWrite) /\ Len(t) = n /\ n \in Nat /\ Len(s) \in Nat /\ n <= Len(s)
        /\ \A k \in 1 .. n : k \in 1 .. Len(s) /\ t[k] = s[k]
    BY <1>2
  <1> HIDE DEF t
  <1>4. /\ upload' = [upload EXCEPT ![c] = t]
    BY <1>1 DEF t
  <1>5. FileServerTypeOK' /\ QueuesOK'
    <2>1. cPc' \in [Clients -> CPcs]
      BY <1>2 DEF FlowInv, FileServerTypeOK, CPcs
    <2>2. upload' \in [Clients -> Seq(UploadWrite)]
      BY <1>3, <1>4 DEF FlowInv, QueuesOK
    <2> QED BY <1>2, <2>1, <2>2 DEF FlowInv, FileServerTypeOK, QueuesOK, CPcs
  <1>6. /\ cPc'[c] = "vanished" /\ upload'[c] = t /\ hPc'[c] = hPc[c] /\ hType'[c] = hType[c]
        /\ hDir'[c] = hDir[c] /\ hNum'[c] = hNum[c] /\ up'[c] = up[c] /\ down'[c] = down[c]
        /\ faults'[c] = faults[c] /\ Others(c) /\ UNCHANGED fs
    BY <1>2, <1>4 DEF FlowInv, FileServerTypeOK, QueuesOK, Others
  <1>7. Parsed(c)'
    BY <1>2, <1>6 DEF FlowInv, Parsed, Reads, Starts
  <1>8. ~Live(c)'
    BY <1>6 DEF Live
  <1>9. Quitting(c)'
    BY <1>2, <1>6 DEF FlowInv, Quitting, Asked
  <1>10. Stored(c)'
    <2>1. \A first \in Nat \ {0} : IsData(s, first) => IsData(t, first)
      BY <1>3 DEF IsData
    <2>2. CASE hPc[c] = "upath"
      <3>1. /\ IsData(s, 3)
            /\ Len(s) >= 1 => s[1].kind = "path"
            /\ Len(s) >= 2 => s[2].kind = "size" /\ Len(s) - 2 <= s[2].val
        BY <2>2 DEF FlowInv, Stored
      <3>2. /\ IsData(t, 3)
            /\ Len(t) >= 1 => t[1].kind = "path"
        BY <1>3, <2>1, <3>1
      <3>3. ASSUME Len(t) >= 2 PROVE t[2].kind = "size" /\ Len(t) - 2 <= t[2].val
        <4>1. t[2] = s[2] /\ s[2].kind = "size" /\ Len(s) - 2 <= s[2].val /\ s[2] \in UploadWrite
          BY <1>2, <1>3, <3>1, <3>3
        <4>2. s[2].val \in Nat
          BY <4>1, UploadKinds
        <4> QED BY <1>3, <4>1, <4>2
      <3> QED BY <1>6, <2>2, <3>2, <3>3 DEF Stored
    <2>3. CASE hPc[c] = "usize"
      <3>1. /\ IsData(s, 2)
            /\ "swallowed" \notin faults[c] /\ Len(s) >= 1 => s[1].kind = "size" /\ Len(s) - 1 <= s[1].val
        BY <2>3 DEF FlowInv, Stored
      <3>2. IsData(t, 2)
        BY <2>1, <3>1
      <3>3. ASSUME "swallowed" \notin faults[c], Len(t) >= 1
            PROVE  t[1].kind = "size" /\ Len(t) - 1 <= t[1].val
        <4>1. t[1] = s[1] /\ s[1].kind = "size" /\ Len(s) - 1 <= s[1].val /\ s[1] \in UploadWrite
          BY <1>2, <1>3, <3>1, <3>3
        <4>2. s[1].val \in Nat
          BY <4>1, UploadKinds
        <4> QED BY <1>3, <4>1, <4>2
      <3> QED BY <1>6, <2>3, <3>2, <3>3 DEF Stored
    <2>4. CASE hPc[c] = "udata"
      <3>1. /\ IsData(s, 1) /\ Exists(hDir[c], Hello)
            /\ "swallowed" \notin faults[c] => Len(fs[hDir[c]][Hello]) + Len(s) <= hNum[c]
        BY <2>4 DEF FlowInv, Stored
      <3>2. IsData(t, 1)
        BY <2>1, <3>1
      <3>3. Len(fs[hDir[c]][Hello]) \in Nat /\ hNum[c] \in Nat
        <4>1. fs[hDir[c]][Hello] \in Seq(Block) /\ hNum[c] \in Nat
          BY <3>1, FileServerAssumption DEF FlowInv, FileServerTypeOK, Exists, File
        <4> QED BY <4>1
      <3>4. ASSUME "swallowed" \notin faults[c]
            PROVE  Len(fs[hDir[c]][Hello]) + Len(t) <= hNum[c]
        <4>1. PICK old \in Nat : old = Len(fs[hDir[c]][Hello])
          BY <3>3
        <4>2. old + Len(s) <= hNum[c] /\ Len(s) \in Nat /\ Len(t) \in Nat /\ Len(t) <= Len(s) /\ hNum[c] \in Nat
          BY <1>3, <3>1, <3>3, <3>4, <4>1
        <4>3. old + Len(t) <= hNum[c]
          BY <4>2
        <4> QED BY <4>1, <4>3
      <3>5. Exists(hDir[c], Hello)'
        BY <1>6, <3>1 DEF Exists
      <3> QED BY <1>6, <2>4, <3>2, <3>4, <3>5 DEF Stored
    <2>5. CASE hPc[c] \notin {"upath", "usize", "udata"}
      <3>1. s = <<>> => t = <<>>
        BY <1>3
      <3> QED BY <1>6, <2>5, <3>1 DEF FlowInv, Stored
    <2> QED BY <2>2, <2>3, <2>4, <2>5
  <1> QED BY <1>5, <1>6, <1>7, <1>8, <1>9, <1>10, FlowStep DEF FlowOf

LEMMA FlowLost == ASSUME FlowInv, ServedInv, NEW c \in Clients, CLost(c) PROVE FlowInv'
  <1>1. /\ cPc[c] \notin {"done", "vanished", "lost"} /\ down[c] = <<>>
        /\ cPc' = [cPc EXCEPT ![c] = "lost"]
        /\ UNCHANGED <<fs, links, outside, mPc, threads, hPc, hType, hDir, hName, hNum, cDir, cInfo, cListed,
                       cLeft, cWant, cmds, local, up, down, upload, faults>>
    BY DEF CLost, serverVars, threadVars
  <1>2. FileServerTypeOK' /\ QueuesOK'
    <2>1. cPc' \in [Clients -> CPcs]
      BY <1>1 DEF FlowInv, FileServerTypeOK, CPcs
    <2> QED BY <1>1, <2>1 DEF FlowInv, FileServerTypeOK, QueuesOK, CPcs
  <1>3. /\ cPc'[c] = "lost" /\ upload'[c] = upload[c] /\ hPc'[c] = hPc[c] /\ hType'[c] = hType[c]
        /\ hDir'[c] = hDir[c] /\ hNum'[c] = hNum[c] /\ up'[c] = up[c] /\ down'[c] = down[c]
        /\ faults'[c] = faults[c] /\ Others(c) /\ UNCHANGED fs
    BY <1>1 DEF FlowInv, FileServerTypeOK, QueuesOK, Others
  <1>4. Parsed(c)'
    <2>1. cPc[c] = "start" => Len(up[c]) = 0
      BY DEF FlowInv, Parsed
    <2>2. hPc[c] = "none" => Len(up[c]) <= 1
      BY <1>1, <2>1 DEF FlowInv, Parsed
    <2> QED BY <1>1, <1>3, <2>2 DEF FlowInv, Parsed, Reads, Starts
  <1>5. ~Live(c)'
    BY <1>3 DEF Live
  <1>6. Quitting(c)'
    BY <1>1, <1>3 DEF FlowInv, Quitting, Asked
  <1>7. Stored(c)'
    BY <1>1, <1>3 DEF FlowInv, Stored, Exists
  <1> QED BY <1>2, <1>3, <1>4, <1>5, <1>6, <1>7, FlowStep DEF FlowOf

-----------------------------------------------------------------------------
(* What a client holds.                                                    *)

HoldsOf(c) ==
    /\ cPc[c] = "entry" => cLeft[c] > 0
    /\ local[c][Hello] # None
    /\ cPc[c] = "data" => cWant[c].name \in Names /\ local[c][cWant[c].name] # None

LEMMA HoldsStep ==
    ASSUME ClientInv, NEW c \in Clients,
           \A d \in Clients : d # c => /\ cPc'[d] = cPc[d] /\ cLeft'[d] = cLeft[d] /\ cWant'[d] = cWant[d]
                                       /\ local'[d] = local[d],
           HoldsOf(c)'
    PROVE  ClientInv'
  <1>1. ASSUME NEW d \in Clients PROVE HoldsOf(d)'
    <2>1. CASE d = c
      BY <2>1
    <2>2. CASE d # c
      BY <2>2 DEF HoldsOf, ClientInv
    <2> QED BY <2>1, <2>2
  <1> QED BY <1>1 DEF ClientInv, HoldsOf

LEMMA HoldsUser == ASSUME FlowInv, ClientInv, NEW c \in Clients, UserStep(c) PROVE ClientInv'
  <1>1. /\ cPc \in [Clients -> CPcs] /\ local \in [Clients -> [Names -> File]] /\ cWant \in [Clients -> Entry]
        /\ Hello \in Names /\ <<>> # None
    <2>1. <<>> \in Seq(Block)
      OBVIOUS
    <2>2. <<>> # None
      BY <2>1, FileServerAssumption
    <2> QED BY <2>2, FileServerAssumption DEF FlowInv, FileServerTypeOK, CPcs
  <1>2. CASE CCd(c) \/ CLs(c) \/ CUpload(c) \/ CQuit(c) \/ CVanish(c)
    <2>1. PICK then \in {"menu", "count", "port", "done", "vanished"} :
              cPc' = [cPc EXCEPT ![c] = then] /\ UNCHANGED <<cLeft, cWant, local>>
      BY <1>2 DEF CCd, CLs, CUpload, CQuit, CVanish, Command
    <2>2. HoldsOf(c)'
      BY <1>1, <2>1 DEF HoldsOf, ClientInv
    <2> QED BY <1>1, <2>1, <2>2, HoldsStep
  <1>3. ASSUME NEW e \in cInfo[c], CDownload(c, e) PROVE ClientInv'
    <2>1. /\ cPc' = [cPc EXCEPT ![c] = "data"] /\ cWant' = [cWant EXCEPT ![c] = e]
          /\ local' = [local EXCEPT ![c][e.name] = <<>>] /\ UNCHANGED cLeft
      BY <1>3 DEF CDownload, Command
    <2>2. e.name \in Names
      BY <1>3 DEF FlowInv, FileServerTypeOK, CDownload, Entry, DirEntry
    <2>3. cPc'[c] = "data" /\ cWant'[c] = e /\ local'[c] = [local[c] EXCEPT ![e.name] = <<>>]
      BY <1>1, <2>1
    <2>4. local'[c][e.name] = <<>> /\ local'[c][Hello] # None
      BY <1>1, <2>2, <2>3 DEF ClientInv
    <2>5. HoldsOf(c)'
      BY <1>1, <2>2, <2>3, <2>4 DEF HoldsOf
    <2> QED BY <1>1, <2>1, <2>5, HoldsStep
  <1> QED BY <1>2, <1>3 DEF UserStep

LEMMA HoldsClient == ASSUME FlowInv, ClientInv, NEW c \in Clients, ClientStep(c) PROVE ClientInv'
  <1>1. /\ cPc \in [Clients -> CPcs] /\ local \in [Clients -> [Names -> File]] /\ cLeft \in [Clients -> Nat]
        /\ down[c] \in Seq(DownWrite) /\ Hello \in Names
    BY FileServerAssumption DEF FlowInv, FileServerTypeOK, QueuesOK, CPcs
  <1>2. CASE CConnect(c) \/ CPort(c) \/ CLost(c)
    <2>1. PICK then \in {"menu", "count", "garbled", "lost"} :
              cPc' = [cPc EXCEPT ![c] = then] /\ UNCHANGED <<cLeft, cWant, local>>
      BY <1>2 DEF CConnect, CPort, CLost
    <2>2. HoldsOf(c)'
      BY <1>1, <2>1 DEF HoldsOf, ClientInv
    <2> QED BY <1>1, <2>1, <2>2, HoldsStep
  <1>3. CASE CCount(c)
    <2>1. UNCHANGED <<cWant, local>>
      BY <1>3 DEF CCount
    <2>2. CASE cPc' = [cPc EXCEPT ![c] = "garbled"] /\ UNCHANGED cLeft
      <3>1. HoldsOf(c)'
        BY <1>1, <2>1, <2>2 DEF HoldsOf, ClientInv
      <3> QED BY <1>1, <2>1, <2>2, <3>1, HoldsStep
    <2>3. CASE ~(cPc' = [cPc EXCEPT ![c] = "garbled"] /\ UNCHANGED cLeft)
      <3>1. PICK v : v = Head(down[c]).val
        OBVIOUS
      <3>2. /\ cLeft' = [cLeft EXCEPT ![c] = v]
            /\ cPc' = [cPc EXCEPT ![c] = EntryOrMenu(v)]
        BY <1>3, <2>3, <3>1 DEF CCount
      <3>3. HoldsOf(c)'
        BY <1>1, <2>1, <3>2 DEF HoldsOf, ClientInv, EntryOrMenu
      <3> QED BY <1>1, <2>1, <3>2, <3>3, HoldsStep
    <2> QED BY <2>2, <2>3
  <1>4. CASE CEntry(c)
    <2>1. UNCHANGED <<cWant, local>>
      BY <1>4 DEF CEntry
    <2>2. CASE cPc' = [cPc EXCEPT ![c] = "garbled"] /\ UNCHANGED cLeft
      <3>1. HoldsOf(c)'
        BY <1>1, <2>1, <2>2 DEF HoldsOf, ClientInv
      <3> QED BY <1>1, <2>1, <2>2, <3>1, HoldsStep
    <2>3. CASE ~(cPc' = [cPc EXCEPT ![c] = "garbled"] /\ UNCHANGED cLeft)
      <3>1. PICK v : v = cLeft[c] - 1
        OBVIOUS
      <3>2. /\ cLeft' = [cLeft EXCEPT ![c] = v]
            /\ cPc' = [cPc EXCEPT ![c] = EntryOrMenu(v)]
        BY <1>4, <2>3, <3>1 DEF CEntry
      <3>3. HoldsOf(c)'
        BY <1>1, <2>1, <3>2 DEF HoldsOf, ClientInv, EntryOrMenu
      <3> QED BY <1>1, <2>1, <3>2, <3>3, HoldsStep
    <2> QED BY <2>2, <2>3
  <1>5. CASE CData(c)
    <2> DEFINE name == cWant[c].name
    <2>1. cPc[c] = "data" /\ UNCHANGED <<cLeft, cWant>> /\ name \in Names /\ local[c][name] # None
      BY <1>5 DEF CData, ReadData, ClientInv
    <2>2. PICK n \in 1 .. Len(down[c]) :
              /\ local' = [local EXCEPT ![c][name] = local[c][name] \o Values(SubSeq(down[c], 1, n))]
              /\ \E pc \in {"menu", "data"} : cPc' = [cPc EXCEPT ![c] = pc]
      BY <1>5 DEF CData, ReadData
    <2>3. PICK got : got = local[c][name] \o Values(SubSeq(down[c], 1, n))
      OBVIOUS
    <2>4. got # None
      <3>1. Values(SubSeq(down[c], 1, n)) \in Seq(Block)
        BY <1>1, <2>1, DownloadReads, ValuesRead
      <3>2. local[c][name] \in Seq(Block)
        BY <1>1, <2>1 DEF File
      <3>3. got \in Seq(Block)
        BY <2>3, <3>1, <3>2
      <3> QED BY <3>3, FileServerAssumption
    <2>5. local' = [local EXCEPT ![c][name] = got]
      BY <2>2, <2>3
    <2>6. PICK pc \in {"menu", "data"} : cPc' = [cPc EXCEPT ![c] = pc]
      BY <2>2
    <2>7. local'[c] = [local[c] EXCEPT ![name] = got] /\ \A d \in Clients : d # c => local'[d] = local[d]
      BY <1>1, <2>5
    <2>8. local'[c][name] # None /\ local'[c][Hello] # None
      BY <1>1, <2>1, <2>4, <2>7 DEF ClientInv
    <2>9. HoldsOf(c)'
      BY <1>1, <2>1, <2>6, <2>8 DEF HoldsOf
    <2> QED BY <1>1, <2>1, <2>6, <2>7, <2>9, HoldsStep
  <1> QED BY <1>2, <1>3, <1>4, <1>5 DEF ClientStep

LEMMA HoldsInitial == Init => ClientInv
  <1> SUFFICES ASSUME Init, NEW c \in Clients PROVE HoldsOf(c)
    BY DEF ClientInv, HoldsOf
  <1>1. cPc[c] = "start"
    BY DEF Init
  <1>2. PICK x \in Contents : local[c] = [n \in Names |-> IF n = Hello THEN x ELSE None]
    BY DEF Init
  <1>3. local[c][Hello] = x
    BY <1>2, FileServerAssumption
  <1>4. x # None
    BY FileServerAssumption
  <1> QED BY <1>1, <1>3, <1>4 DEF HoldsOf

LEMMA HoldsKeeps == FlowInv /\ ClientInv /\ [Next]_vars => ClientInv'
  <1> SUFFICES ASSUME FlowInv, ClientInv, [Next]_vars PROVE ClientInv'
    OBVIOUS
  <1>1. ASSUME UNCHANGED clientVars PROVE ClientInv'
    BY <1>1 DEF clientVars, ClientInv
  <1>2. CASE MainStep \/ Outsider \/ UNCHANGED vars
    <2>1. UNCHANGED clientVars
      BY <1>2 DEF MainStep, MLeave, MAccept, Outsider, vars
    <2> QED BY <1>1, <2>1
  <1>3. ASSUME NEW c \in Clients, ThreadStep(c) PROVE ClientInv'
    <2>1. UNCHANGED clientVars
      BY <1>3 DEF ThreadStep, HLsPath, HDownloadPath, HUploadPath, ReadPath, HCount, HEntries, HType,
                  HDownloadName, HSend, HSendNothing, HPort, HUploadSize, HUploadData, StoreData,
                  HUploadEnd, HOpenFails, HCrash, HEnd, Die
    <2> QED BY <1>1, <2>1
  <1>4. ASSUME NEW c \in Clients, HOverwritten(c) PROVE ClientInv'
    BY <1>1, <1>4 DEF HOverwritten, Die
  <1> QED BY <1>2, <1>3, <1>4, HoldsUser, HoldsClient DEF Next

-----------------------------------------------------------------------------
(* The inductive invariant of the protocol.                                *)

LEMMA FlowClient == ASSUME FlowInv, ServedInv, ClientInv, NEW c \in Clients, ClientStep(c) PROVE FlowInv'
  BY FlowConnect, FlowCCount, FlowCEntry, FlowCData, FlowCPort, FlowLost DEF ClientStep

LEMMA FlowInductive == FlowInv /\ ServedInv /\ ClientInv /\ ServedInv' /\ [Next]_vars => FlowInv'
  <1> SUFFICES ASSUME FlowInv, ServedInv, ClientInv, ServedInv', [Next]_vars PROVE FlowInv'
    OBVIOUS
  <1>1. CASE MainStep \/ Outsider
    BY <1>1, FlowMain, FlowOutsider
  <1>2. ASSUME NEW c \in Clients,
               UserStep(c) \/ ClientStep(c) \/ ThreadStep(c) \/ HOverwritten(c)
        PROVE  FlowInv'
    <2>1. CASE UserStep(c)
      BY <2>1, FlowUser, FlowVanish
    <2>2. CASE HOverwritten(c)
      BY <2>2, FlowDie DEF HOverwritten
    <2> QED BY <1>2, <2>1, <2>2, FlowClient, FlowThread
  <1>3. CASE UNCHANGED vars
    <2>1. /\ UNCHANGED <<fs, outside, mPc>>
          /\ UNCHANGED <<links, threads, threadVars, clientVars, up, down, upload, faults>>
      BY <1>3 DEF vars, serverVars
    <2>2. /\ fs' \in [Dirs -> [Names -> File]] /\ outside' \in 0 .. MaxOutside
          /\ mPc' \in {"epoll", "serving", "ended", "died"}
      BY <2>1 DEF FlowInv, FileServerTypeOK
    <2> QED BY <2>1, <2>2, FlowSame
  <1> QED BY <1>1, <1>2, <1>3 DEF Next

LEMMA FlowHolds == Spec => [](FlowInv /\ ServedInv /\ ClientInv)
  <1>1. FlowInv /\ ServedInv /\ ClientInv /\ [Next]_vars => (FlowInv /\ ServedInv /\ ClientInv)'
    BY FlowInductive, ServedInductive, HoldsKeeps
  <1>2. Init => FlowInv /\ ServedInv /\ ClientInv
    BY FlowInitial, ServedInitial, HoldsInitial
  <1> QED BY <1>1, <1>2, PTL DEF Spec

(* Every variable keeps its type, whatever the clients, their files and    *)
(* their commands, and whatever of them is swallowed by other reads: a     *)
(* path is read only where a path is, no client counts below zero, and no  *)
(* block is written to a file that is not open.                            *)
THEOREM FileServerTypesHold == Spec => []FileServerTypeOK
  BY FlowHolds, PTL DEF FlowInv

(* f_upload() leaves its loop exactly when the file is as long as the      *)
(* client has announced, and nothing of it is left on the connection.      *)
LEMMA UploadStep ==
    ASSUME FlowInv, ServedInv, ServedInv', [Next]_vars, NEW c \in Clients,
           hPc[c] = "udata", hPc'[c] = "type", cPc[c] # "vanished", "swallowed" \notin faults[c]
    PROVE  Len(fs'[hDir[c]][Hello]) = hNum[c] /\ upload'[c] = <<>>
  <1>1. /\ hPc \in [Clients -> HPcs] /\ upload[c] \in Seq(UploadWrite) /\ up[c] \in Seq(UpWrite)
        /\ Stored(c) /\ Served(c)
    BY DEF FlowInv, FileServerTypeOK, QueuesOK, HPcs, Served
  <1>2. ASSUME NEW d \in Clients, ThreadStep(d) PROVE d = c
    <2>1. hPc[d] # "none"
      BY <1>2 DEF ThreadStep, HLsPath, HDownloadPath, HUploadPath, HCount, HEntries, HType,
                  HDownloadName, HSend, HSendNothing, HPort, HUploadSize, HUploadData, StoreData,
                  HUploadEnd, HOpenFails, HCrash, HEnd, At
    <2> QED BY <1>1, <2>1 DEF ServedInv, Served
  <1>3. ASSUME NEW d \in Clients, UserStep(d) \/ ClientStep(d) PROVE UNCHANGED hPc
    BY <1>3 DEF UserStep, CCd, CLs, CDownload, CUpload, CQuit, CVanish, Command, threadVars,
                ClientStep, CConnect, CCount, CEntry, CData, ReadData, CPort, CLost
  <1>4. ASSUME MainStep \/ Outsider \/ UNCHANGED vars PROVE hPc'[c] = hPc[c]
    BY <1>1, <1>4 DEF MainStep, MLeave, MAccept, Outsider, vars, threadVars
  <1>11. ASSUME NEW d \in Clients, HOverwritten(d) PROVE UNCHANGED hPc
    BY <1>11 DEF HOverwritten, Die, threadVars
  <1>5. ThreadStep(c)
    BY <1>2, <1>3, <1>4, <1>11 DEF Next
  <1>6. HUploadData(c) \/ HUploadEnd(c)
    BY <1>5 DEF ThreadStep, HLsPath, HDownloadPath, HUploadPath, HCount, HEntries, HType, HDownloadName,
                HSend, HSendNothing, HPort, HUploadSize, HOpenFails, HCrash, HEnd, At, Die, Go, threadVars
  <1> DEFINE s == upload[c]
             old == fs[hDir[c]][Hello]
  <1>7. /\ IsData(s, 1) /\ hDir[c] \in Dirs /\ old # None
        /\ Len(old) + Len(s) = hNum[c]
    BY <1>1 DEF Stored, Exists
  <1>8. old \in Seq(Block) /\ fs \in [Dirs -> [Names -> File]] /\ Hello \in Names /\ hNum[c] \in Nat
    BY <1>7, FileServerAssumption DEF FlowInv, FileServerTypeOK, File
  <1>9. CASE HUploadData(c)
    <2>1. PICK n \in 1 .. Len(s) :
              /\ fs' = [fs EXCEPT ![hDir[c]][Hello] = old \o Values(SubSeq(s, 1, n))]
              /\ upload' = [upload EXCEPT ![c] = SubSeq(@, n + 1, Len(@))]
              /\ hPc' = [hPc EXCEPT ![c] = IF Len(old \o Values(SubSeq(s, 1, n))) >= hNum[c]
                                             THEN "type" ELSE "udata"]
      BY <1>9 DEF HUploadData, StoreData, Pop, Go
    <2>2. Values(SubSeq(s, 1, n)) \in Seq(Block) /\ Len(Values(SubSeq(s, 1, n))) = n
      <3>1. \A k \in 1 .. Len(s) : s[k].val \in Block
        BY <1>1, <1>7, UploadKinds DEF IsData
      <3> QED BY <1>1, <3>1, ValuesRead
    <2>3. PICK got : got = old \o Values(SubSeq(s, 1, n))
      OBVIOUS
    <2> HIDE DEF old
    <2>4. Len(got) = Len(old) + n
      <3>1. PICK new : new = Values(SubSeq(s, 1, n))
        OBVIOUS
      <3>2. new \in Seq(Block) /\ Len(new) = n /\ old \in Seq(Block) /\ got = old \o new
        BY <1>8, <2>2, <2>3, <3>1
      <3>3. Len(old \o new) = Len(old) + Len(new)
        BY <3>2, JoinedLength, Zenon
      <3> QED BY <3>2, <3>3, Zenon
    <2>5. Len(got) >= hNum[c]
      BY <1>1, <2>1, <2>3
    <2>6. Len(old) \in Nat /\ Len(s) \in Nat /\ n \in Nat /\ n <= Len(s) /\ hNum[c] \in Nat
      BY <1>1, <1>8
    <2>7. n = Len(s) /\ Len(got) = hNum[c]
      BY <1>7, <2>4, <2>5, <2>6
    <2>8. fs'[hDir[c]][Hello] = got
      BY <1>7, <1>8, <2>1, <2>3
    <2>9. upload'[c] = SubSeq(s, n + 1, Len(s))
      BY <2>1 DEF FlowInv, QueuesOK
    <2>10. upload'[c] = <<>>
      BY <1>1, <2>7, <2>9
    <2> QED BY <2>7, <2>8, <2>10
  <1>10. CASE HUploadEnd(c)
    <2>1. upload[c] = <<>> /\ fs' = fs /\ upload' = upload
      BY <1>10 DEF HUploadEnd, At
    <2>2. Len(s) = 0 /\ Len(old) \in Nat /\ hNum[c] \in Nat
      BY <1>8, <2>1
    <2>3. Len(old) = hNum[c]
      BY <1>7, <2>2
    <2> QED BY <2>1, <2>3
  <1> QED BY <1>6, <1>9, <1>10

(* An upload whose client is not killed is stored to its last block, and   *)
(* with none of it left to be read for a command, unless the path of one   *)
(* of the client's uploads was read with what follows it.                  *)
THEOREM UploadsAreExact == Spec => UploadExact
  <1>1. FlowInv /\ ServedInv /\ ServedInv' /\ [Next]_vars =>
            [\A c \in Clients :
                hPc[c] = "udata" /\ hPc'[c] = "type" /\ cPc[c] # "vanished" /\ "swallowed" \notin faults[c]
                    => Len(fs'[hDir[c]][Hello]) = hNum[c] /\ upload'[c] = <<>>]_vars
    BY UploadStep
  <1> QED BY <1>1, FlowHolds, PTL DEF UploadExact, Spec

-----------------------------------------------------------------------------
(* What a client's command has come to, when nothing disturbs it.          *)

Clean(c) == "stale" \notin faults[c] /\ ~Disturbed

Zero == Write("type", 0)

(* The writes s end with w, behind changes of the directory only.          *)
Ends(s, w) ==
    /\ Len(w) <= Len(s)
    /\ \A k \in 1 .. Len(s) : k <= Len(s) - Len(w) => s[k] = Zero
    /\ \A k \in 1 .. Len(w) : s[(Len(s) - Len(w)) + k] = w[k]

(* The command that is under way.                                          *)
Pending(pc, dir, name) ==
    IF pc = "count" THEN <<Write("type", 1), Write("path", dir)>>
    ELSE IF pc = "data" THEN <<Write("type", 2), Write("path", dir), Write("name", name)>>
    ELSE IF pc = "port" THEN <<Write("type", 3)>>
    ELSE IF pc = "done" THEN <<Write("type", 4)>>
    ELSE <<>>

(* The thread is at the next command, or at what the client does not wait  *)
(* for: the entries of an empty directory, or an upload.                   *)
Busy(c) ==
    \/ hPc[c] = "type"
    \/ hPc[c] = "entries" /\ Entries(hDir[c]) = {}
    \/ hPc[c] = "upath" /\ upload[c] # <<>>
    \/ hPc[c] \in {"usize", "udata"}

Queued(c) ==
    /\ cPc[c] \in {"menu", "count", "data", "port", "done"}
    /\ Busy(c)
    /\ Ends(up[c], Pending(cPc[c], cDir[c], cWant[c].name))
    /\ down[c] = <<>>
    /\ cPc[c] = "data" => local[c][cWant[c].name] = <<>>

AsksListing(c) ==
    /\ cPc[c] = "count" /\ down[c] = <<>>
    /\ \/ hPc[c] \in {"none", "lspath"} /\ up[c] = <<Write("path", cDir[c])>>
       \/ hPc[c] = "count" /\ up[c] = <<>> /\ hDir[c] = cDir[c]

AsksFile(c) ==
    /\ cPc[c] = "data" /\ down[c] = <<>> /\ local[c][cWant[c].name] = <<>>
    /\ \/ hPc[c] = "dlpath" /\ up[c] = <<Write("path", cDir[c]), Write("name", cWant[c].name)>>
       \/ hPc[c] = "dlname" /\ up[c] = <<Write("name", cWant[c].name)>> /\ hDir[c] = cDir[c]
       \/ hPc[c] = "send" /\ up[c] = <<>> /\ hDir[c] = cDir[c] /\ hName[c] = cWant[c].name
       \/ hPc[c] = "dlname" /\ up[c] = <<>>

AreEntries(s, first, d) ==
    \A k \in first .. Len(s) : s[k].kind = "entry" /\ s[k].val \in Entries(d)

(* The count, and then the entries, are on the way to the client.          *)
GetsCount(c) ==
    /\ up[c] = <<>> /\ hDir[c] = cDir[c] /\ hDir[c] \in Dirs
    /\ cPc[c] = "count" /\ down[c] # <<>> /\ down[c][1].kind = "count"
    /\ AreEntries(down[c], 2, hDir[c])
    /\ \/ /\ hPc[c] = "entries" /\ Len(down[c]) = 1
          /\ down[c][1].val = Cardinality(Entries(hDir[c]))
       \/ hPc[c] = "type" /\ down[c][1].val = Len(down[c]) - 1

GetsEntries(c) ==
    /\ up[c] = <<>> /\ hDir[c] = cDir[c] /\ hDir[c] \in Dirs
    /\ cPc[c] = "entry" /\ cListed[c] = cDir[c] /\ cLeft[c] > 0
    /\ AreEntries(down[c], 1, hDir[c])
    /\ \/ hPc[c] = "entries" /\ down[c] = <<>> /\ cLeft[c] = Cardinality(Entries(hDir[c]))
       \/ hPc[c] = "type" /\ cLeft[c] = Len(down[c])

GetsFile(c) ==
    /\ cPc[c] = "data" /\ hPc[c] = "type" /\ up[c] = <<>>
    /\ IsData(down[c], 1)
    /\ hDir[c] = cDir[c] /\ Exists(cDir[c], cWant[c].name)
    /\ local[c][cWant[c].name] \o Values(down[c]) = fs[cDir[c]][cWant[c].name]
    /\ Len(fs[cDir[c]][cWant[c].name]) = cWant[c].size

GetsPort(c) ==
    /\ cPc[c] = "port" /\ up[c] = <<>>
    /\ \/ hPc[c] = "port" /\ down[c] = <<>>
       \/ hPc[c] = "upath" /\ upload[c] = <<>> /\ Len(down[c]) = 1 /\ down[c][1].kind = "port"

Leaves(c) ==
    \/ cPc[c] = "start" /\ hPc[c] = "none" /\ cDir[c] = Root
    \/ cPc[c] = "done" /\ hPc[c] = "ended" /\ down[c] = <<>>

Answering(c) ==
    \/ Queued(c) \/ AsksListing(c) \/ AsksFile(c) \/ GetsCount(c) \/ GetsEntries(c) \/ GetsFile(c)
    \/ GetsPort(c) \/ Leaves(c)

InOrder(c) == Clean(c) /\ cPc[c] \notin {"vanished", "lost"} => Answering(c)

OrderInv == \A c \in Clients : InOrder(c)

-----------------------------------------------------------------------------
(* What a client that has listed its directory asks for is there.          *)

Sound(c) == Clean(c) /\ "unlisted" \notin faults[c] /\ cPc[c] \notin {"vanished", "lost"}

Founded(c) ==
    /\ cDir[c] \in Dirs
    /\ \A e \in cInfo[c] :
        /\ e.type = 1 => cListed[c] = Root
        /\ e.type = 0 => Exists(cListed[c], e.name)
    /\ cPc[c] = "data" => Exists(cDir[c], cWant[c].name)
    /\ hPc[c] = "upath" /\ upload[c] # <<>> => upload[c][1].val \in Dirs
    /\ hPc[c] = "usize" => hDir[c] \in Dirs

SoundInv == \A c \in Clients : Sound(c) => Founded(c)

EndInv ==
    /\ mPc = "ended" => threads = 0
    /\ \A c \in Clients : cPc[c] = "lost" => ~Serving
    /\ mPc = "died" =>
        \/ Disturbed
        \/ \E c \in Clients :
              cPc[c] = "vanished" \/ faults[c] \cap {"unlisted", "overrun", "swallowed", "stale"} # {}

-----------------------------------------------------------------------------
(* Lemmas about what is on the way to the thread.                          *)

LEMMA EndsPopped ==
    ASSUME NEW s \in Seq(UpWrite), NEW w \in Seq(UpWrite), s # <<>>, Ends(s, w)
    PROVE  (s[1] = Zero /\ Ends(SubSeq(s, 2, Len(s)), w)) \/ s = w
  <1>0. PICK t : t = SubSeq(s, 2, Len(s))
    OBVIOUS
  <1>1. /\ Len(s) \in Nat /\ Len(s) >= 1 /\ Len(w) \in Nat /\ Len(w) <= Len(s)
        /\ t \in Seq(UpWrite) /\ Len(t) = Len(s) - 1
        /\ \A k \in 1 .. Len(t) : k + 1 \in 1 .. Len(s) /\ t[k] = s[k + 1]
    <2>1. Len(w) \in Nat /\ Len(w) <= Len(s)
      BY DEF Ends
    <2>2. /\ Len(s) \in Nat /\ Len(s) >= 1
          /\ t \in Seq(UpWrite) /\ Len(t) = Len(s) - 1
          /\ \A k \in 1 .. Len(t) : k + 1 \in 1 .. Len(s) /\ t[k] = s[k + 1]
      BY ZenonT(40), <1>0, HeadPopped
    <2> QED BY <2>1, <2>2
  <1>2. CASE Len(w) = Len(s)
    <2>1. \A k \in 1 .. Len(w) : s[k] = w[k]
      BY <1>1, <1>2 DEF Ends
    <2> QED BY <1>1, <1>2, <2>1
  <1>3. CASE Len(w) # Len(s)
    <2>1. s[1] = Zero
      BY <1>1, <1>3 DEF Ends
    <2>2. Len(w) <= Len(t)
      BY <1>1, <1>3
    <2>3. ASSUME NEW k \in 1 .. Len(t), k <= Len(t) - Len(w) PROVE t[k] = Zero
      <3>1. k + 1 \in 1 .. Len(s) /\ k + 1 <= Len(s) - Len(w)
        BY <1>1, <2>3
      <3> QED BY <1>1, <3>1 DEF Ends
    <2>4. ASSUME NEW k \in 1 .. Len(w) PROVE t[(Len(t) - Len(w)) + k] = w[k]
      <3>1. (Len(t) - Len(w)) + k \in 1 .. Len(t)
        BY <1>1, <2>2
      <3>2. t[(Len(t) - Len(w)) + k] = s[((Len(t) - Len(w)) + k) + 1]
        BY <1>1, <3>1
      <3>3. ((Len(t) - Len(w)) + k) + 1 = (Len(s) - Len(w)) + k
        BY <1>1
      <3> QED BY <3>2, <3>3 DEF Ends
    <2> QED BY <1>0, <2>1, <2>2, <2>3, <2>4 DEF Ends
  <1> QED BY <1>2, <1>3

LEMMA EndsJoined ==
    ASSUME NEW S, NEW s \in Seq(S), NEW w \in Seq(S), Ends(s, <<>>), NEW t, t = s \o w
    PROVE  Ends(t, w) /\ (w = <<Zero>> => Ends(t, <<>>))
  <1>1. /\ t \in Seq(S) /\ Len(s) \in Nat /\ Len(w) \in Nat
        /\ Len(t) = Len(s) + Len(w)
        /\ \A k \in 1 .. Len(s) : t[k] = s[k]
        /\ \A k \in 1 .. Len(w) : t[Len(s) + k] = w[k]
    BY Joined
  <1>2. \A k \in 1 .. Len(s) : t[k] = Zero
    BY <1>1 DEF Ends
  <1>3. Len(t) - Len(w) = Len(s)
    BY <1>1
  <1>4. Ends(t, w)
    BY <1>1, <1>2, <1>3 DEF Ends
  <1>5. ASSUME w = <<Zero>> PROVE Ends(t, <<>>)
    <2>1. Len(w) = 1 /\ w[1] = Zero
      BY <1>5
    <2>2. ASSUME NEW k \in 1 .. Len(t) PROVE t[k] = Zero
      <3>1. k \in 1 .. Len(s) \/ k = Len(s) + 1
        BY <1>1, <2>1
      <3> QED BY <1>1, <1>2, <2>1, <3>1
    <2> QED BY <1>1, <2>2 DEF Ends
  <1> QED BY <1>4, <1>5

LEMMA NothingEnds == Ends(<<>>, <<>>)
  BY DEF Ends

LEMMA Tails ==
    ASSUME NEW s \in Seq(UpWrite)
    PROVE  /\ Len(s) = 2 => SubSeq(s, 2, Len(s)) = <<s[2]>>
           /\ Len(s) = 3 => SubSeq(s, 2, Len(s)) = <<s[2], s[3]>>
  <1>0. PICK t : t = SubSeq(s, 2, Len(s))
    OBVIOUS
  <1>1. s # <<>> => /\ t \in Seq(UpWrite) /\ Len(t) = Len(s) - 1
                   /\ \A k \in 1 .. Len(t) : t[k] = s[k + 1]
    BY ZenonT(40), <1>0, HeadPopped
  <1>2. ASSUME Len(s) = 2 PROVE SubSeq(s, 2, Len(s)) = <<s[2]>>
    <2>1. PICK u : u = <<s[2]>>
      OBVIOUS
    <2>2. u \in Seq(UpWrite) /\ Len(u) = 1 /\ u[1] = s[2]
      <3>1. s[2] \in UpWrite
        BY <1>2
      <3> QED BY <2>1, <3>1
    <2>3. t \in Seq(UpWrite) /\ Len(t) = 1 /\ t[1] = s[2]
      BY <1>1, <1>2
    <2>4. Len(t) = Len(u) /\ \A k \in 1 .. Len(t) : t[k] = u[k]
      BY <2>2, <2>3
    <2>5. t = u
      BY <2>2, <2>3, <2>4, SeqEqual, Zenon
    <2> QED BY <1>0, <2>1, <2>5, Zenon
  <1>3. ASSUME Len(s) = 3 PROVE SubSeq(s, 2, Len(s)) = <<s[2], s[3]>>
    <2>1. PICK u : u = <<s[2], s[3]>>
      OBVIOUS
    <2>2. u \in Seq(UpWrite) /\ Len(u) = 2 /\ u[1] = s[2] /\ u[2] = s[3]
      <3>1. s[2] \in UpWrite
        BY <1>3
      <3>2. s[3] \in UpWrite
        BY <1>3
      <3> QED BY <2>1, <3>1, <3>2
    <2>3. t \in Seq(UpWrite) /\ Len(t) = 2 /\ t[1] = s[2] /\ t[2] = s[3]
      BY <1>1, <1>3
    <2>4. Len(t) = Len(u) /\ \A k \in 1 .. Len(t) : t[k] = u[k]
      BY <2>2, <2>3
    <2>5. t = u
      BY <2>2, <2>3, <2>4, SeqEqual, Zenon
    <2> QED BY <1>0, <2>1, <2>5, Zenon
  <1> QED BY <1>2, <1>3

LEMMA PendingIs ==
    ASSUME NEW pc \in CPcs, NEW dir \in Dirs \cup {Nowhere}, NEW name
    PROVE  /\ pc = "count" => Pending(pc, dir, name) = <<Write("type", 1), Write("path", dir)>>
           /\ pc = "data" => Pending(pc, dir, name)
                                = <<Write("type", 2), Write("path", dir), Write("name", name)>>
           /\ pc = "port" => Pending(pc, dir, name) = <<Write("type", 3)>>
           /\ pc = "done" => Pending(pc, dir, name) = <<Write("type", 4)>>
           /\ pc \notin {"count", "data", "port", "done"} => Pending(pc, dir, name) = <<>>
  BY DEF Pending

LEMMA PendingTyped ==
    ASSUME NEW pc \in CPcs, NEW dir \in Dirs \cup {Nowhere}, NEW name, pc = "data" => name \in Names
    PROVE  Pending(pc, dir, name) \in Seq(UpWrite)
  <1>1. Write("type", 1) \in UpWrite /\ Write("type", 2) \in UpWrite /\ Write("type", 3) \in UpWrite
        /\ Write("type", 4) \in UpWrite /\ Write("path", dir) \in UpWrite
        /\ (name \in Names => Write("name", name) \in UpWrite)
    BY DEF Write, UpWrite
  <1> QED BY <1>1 DEF Pending

(* Which part of its command a client is in, by where its thread and the   *)
(* client itself are.                                                      *)
LEMMA PhaseIs ==
    ASSUME NEW c \in Clients, Answering(c)
    PROVE  /\ hPc[c] = "none" => AsksListing(c) \/ Leaves(c)
           /\ hPc[c] \in {"lspath", "count"} => AsksListing(c)
           /\ hPc[c] \in {"dlpath", "dlname", "send"} => AsksFile(c)
           /\ hPc[c] = "entries" => Queued(c) \/ GetsCount(c) \/ GetsEntries(c)
           /\ hPc[c] = "type" => Queued(c) \/ GetsCount(c) \/ GetsEntries(c) \/ GetsFile(c)
           /\ hPc[c] = "port" => GetsPort(c)
           /\ hPc[c] = "upath" => Queued(c) \/ GetsPort(c)
           /\ hPc[c] \in {"usize", "udata"} => Queued(c)
           /\ hPc[c] \notin {"stuck", "dlmore"}
           /\ hPc[c] = "ended" => Leaves(c)
           /\ cPc[c] = "start" => Leaves(c)
           /\ cPc[c] = "count" => Queued(c) \/ AsksListing(c) \/ GetsCount(c)
           /\ cPc[c] = "entry" => GetsEntries(c)
           /\ cPc[c] = "menu" => Queued(c)
           /\ cPc[c] = "data" => Queued(c) \/ AsksFile(c) \/ GetsFile(c)
           /\ cPc[c] = "port" => Queued(c) \/ GetsPort(c)
           /\ cPc[c] # "garbled"
           /\ cPc[c] = "done" => Queued(c) \/ Leaves(c)
  <1>1. Queued(c) => /\ cPc[c] \in {"menu", "count", "data", "port", "done"}
                     /\ hPc[c] \in {"type", "entries", "upath", "usize", "udata"}
    BY DEF Queued, Busy
  <1>2. AsksListing(c) => cPc[c] = "count" /\ hPc[c] \in {"none", "lspath", "count"}
    BY DEF AsksListing
  <1>3. AsksFile(c) => cPc[c] = "data" /\ hPc[c] \in {"dlpath", "dlname", "send"}
    BY DEF AsksFile
  <1>4. GetsCount(c) => cPc[c] = "count" /\ hPc[c] \in {"entries", "type"}
    BY DEF GetsCount
  <1>5. GetsEntries(c) => cPc[c] = "entry" /\ hPc[c] \in {"entries", "type"}
    BY DEF GetsEntries
  <1>6. GetsFile(c) => cPc[c] = "data" /\ hPc[c] = "type"
    BY DEF GetsFile
  <1>7. GetsPort(c) => cPc[c] = "port" /\ hPc[c] \in {"port", "upath"}
    BY DEF GetsPort
  <1>8. Leaves(c) => (cPc[c] = "start" /\ hPc[c] = "none") \/ (cPc[c] = "done" /\ hPc[c] = "ended")
    BY DEF Leaves
  <1> QED BY <1>1, <1>2, <1>3, <1>4, <1>5, <1>6, <1>7, <1>8 DEF Answering

-----------------------------------------------------------------------------
(* A step of one client does not disturb what another's command has come   *)
(* to: whoever is served is alone, and only its steps change files.        *)

LEMMA OthersAnswer ==
    ASSUME FlowInv, NEW c \in Clients, Others(c), NEW d \in Clients, d # c, Answering(d),
           UNCHANGED fs \/ hPc[d] = "none"
    PROVE  Answering(d)'
  <1>1. /\ hPc'[d] = hPc[d] /\ hType'[d] = hType[d] /\ hDir'[d] = hDir[d] /\ hName'[d] = hName[d]
        /\ cPc'[d] = cPc[d] /\ cDir'[d] = cDir[d] /\ cListed'[d] = cListed[d] /\ cLeft'[d] = cLeft[d]
        /\ cWant'[d] = cWant[d] /\ local'[d] = local[d]
        /\ up'[d] = up[d] /\ down'[d] = down[d] /\ upload'[d] = upload[d]
    BY DEF Others
  <1>2. AsksListing(d) => AsksListing(d)'
    BY <1>1 DEF AsksListing
  <1>3. AsksFile(d) => AsksFile(d)'
    BY <1>1 DEF AsksFile
  <1>4. GetsPort(d) => GetsPort(d)'
    BY <1>1 DEF GetsPort
  <1>5. Leaves(d) => Leaves(d)'
    BY <1>1 DEF Leaves
  <1>6. CASE hPc[d] = "none"
    BY <1>2, <1>5, <1>6, PhaseIs DEF Answering
  <1>7. CASE UNCHANGED fs
    <2>2. Entries(hDir[d])' = Entries(hDir[d])
      BY <1>1, <1>7 DEF Entries, FileEntry
    <2>3. Queued(d) => Queued(d)'
      BY <1>1, <2>2 DEF Queued, Busy
    <2>4. GetsCount(d) => GetsCount(d)'
      BY <1>1, <2>2 DEF GetsCount, AreEntries
    <2>5. GetsEntries(d) => GetsEntries(d)'
      BY <1>1, <2>2 DEF GetsEntries, AreEntries
    <2>6. GetsFile(d) => GetsFile(d)'
      BY <1>1, <1>7 DEF GetsFile, Exists
    <2> QED BY <1>2, <1>3, <1>4, <1>5, <2>3, <2>4, <2>5, <2>6 DEF Answering
  <1> QED BY <1>6, <1>7

LEMMA Domains ==
    ASSUME FlowInv
    PROVE  /\ hPc = [d \in Clients |-> hPc[d]] /\ hType = [d \in Clients |-> hType[d]]
           /\ hDir = [d \in Clients |-> hDir[d]] /\ hName = [d \in Clients |-> hName[d]]
           /\ hNum = [d \in Clients |-> hNum[d]]
           /\ cPc = [d \in Clients |-> cPc[d]] /\ cDir = [d \in Clients |-> cDir[d]]
           /\ cInfo = [d \in Clients |-> cInfo[d]] /\ cListed = [d \in Clients |-> cListed[d]]
           /\ cLeft = [d \in Clients |-> cLeft[d]] /\ cWant = [d \in Clients |-> cWant[d]]
           /\ local = [d \in Clients |-> local[d]]
           /\ up = [d \in Clients |-> up[d]] /\ down = [d \in Clients |-> down[d]]
           /\ upload = [d \in Clients |-> upload[d]] /\ faults = [d \in Clients |-> faults[d]]
  BY DEF FlowInv, FileServerTypeOK, QueuesOK

(* What every step of a client, or of its thread, has in common.           *)
Framed(c) ==
    /\ Others(c)
    /\ faults[c] \subseteq faults'[c]
    /\ UNCHANGED <<links, outside>>
    /\ Served(c) \/ UNCHANGED fs
    /\ cPc[c] \in {"vanished", "lost"} => cPc'[c] \in {"vanished", "lost"}

LEMMA DieFrames == ASSUME NEW c \in Clients, Die PROVE Framed(c) /\ UNCHANGED <<fs, threadVars, clientVars, up, down, upload, faults>>
  BY DEF Die, Framed, Others, threadVars, clientVars

LEMMA UserFrames == ASSUME FlowInv, NEW c \in Clients, UserStep(c) PROVE Framed(c)
  <1>1. CASE CCd(c)
    BY <1>1, Domains DEF CCd, Command, Framed, Others, Put, Faulty, threadVars
  <1>2. CASE CLs(c) \/ CUpload(c) \/ CQuit(c)
    BY <1>2, Domains DEF CLs, CUpload, CQuit, Command, Framed, Others, Put, threadVars
  <1>3. ASSUME NEW e \in cInfo[c], CDownload(c, e) PROVE Framed(c)
    BY <1>3, Domains DEF CDownload, Command, Framed, Others, Put, threadVars
  <1>4. CASE CVanish(c)
    BY <1>4, Domains DEF CVanish, Framed, Others, threadVars
  <1> QED BY <1>1, <1>2, <1>3, <1>4 DEF UserStep

LEMMA ClientFrames == ASSUME FlowInv, NEW c \in Clients, ClientStep(c) PROVE Framed(c)
  <1>1. CASE CConnect(c)
    BY <1>1, Domains DEF CConnect, Framed, Others, Put, threadVars
  <1>2. CASE CCount(c)
    BY <1>2, Domains DEF CCount, Framed, Others, Pop, threadVars
  <1>3. CASE CEntry(c)
    BY <1>3, Domains DEF CEntry, Framed, Others, Pop, threadVars
  <1>4. CASE CData(c)
    BY <1>4, Domains DEF CData, ReadData, Framed, Others, Pop, threadVars
  <1>5. CASE CPort(c)
    BY <1>5, Domains DEF CPort, Framed, Others, Pop, Put, Faulty, threadVars
  <1>6. CASE CLost(c)
    BY <1>6, Domains DEF CLost, Framed, Others, threadVars
  <1> QED BY <1>1, <1>2, <1>3, <1>4, <1>5, <1>6 DEF ClientStep

LEMMA ThreadFrames == ASSUME FlowInv, NEW c \in Clients, ThreadStep(c) PROVE Framed(c) /\ UNCHANGED clientVars
  <1>1. ASSUME NEW queue, NEW then, NEW fault, ReadPath(c, queue, then, fault)
        PROVE  /\ faults[c] \subseteq faults'[c] /\ UNCHANGED <<fs, links, outside, clientVars>>
               /\ \A d \in Clients : d # c =>
                    /\ hPc'[d] = hPc[d] /\ hType'[d] = hType[d] /\ hDir'[d] = hDir[d]
                    /\ hName'[d] = hName[d] /\ hNum'[d] = hNum[d] /\ faults'[d] = faults[d]
    BY <1>1, Domains DEF ReadPath, Go, Faulty
  <1>2. CASE HLsPath(c) \/ HDownloadPath(c)
    <2>1. UNCHANGED <<down, upload>> /\ \A d \in Clients : d # c => up'[d] = up[d]
      BY <1>2, Domains DEF HLsPath, HDownloadPath, ReadPath, Pop
    <2> QED BY <1>1, <1>2, <2>1 DEF HLsPath, HDownloadPath, Framed, Others, clientVars
  <1>3. CASE HUploadPath(c)
    <2>1. UNCHANGED <<down, up>> /\ \A d \in Clients : d # c => upload'[d] = upload[d]
      BY <1>3, Domains DEF HUploadPath, ReadPath, Pop
    <2> QED BY <1>1, <1>3, <2>1 DEF HUploadPath, Framed, Others, clientVars
  <1>4. CASE HCount(c) \/ HEntries(c) \/ HPort(c)
    BY <1>4, Domains DEF HCount, HEntries, HPort, Framed, Others, Put, Go, clientVars
  <1>5. CASE HType(c)
    BY <1>5, Domains DEF HType, Framed, Others, Pop, Go, clientVars
  <1>11. CASE HDownloadName(c)
    BY <1>11, Domains DEF HDownloadName, Framed, Others, Pop, Go, Faulty, clientVars
  <1>6. CASE HSend(c) \/ HSendNothing(c)
    BY <1>6, Domains DEF HSend, HSendNothing, Framed, Others, Put, Go, Faulty, clientVars
  <1>7. CASE HUploadSize(c) \/ HUploadData(c)
    BY <1>7, Domains DEF HUploadSize, HUploadData, StoreData, Framed, Others, Pop, Go, At, Served, clientVars
  <1>8. CASE HUploadEnd(c)
    BY <1>8, Domains DEF HUploadEnd, Framed, Others, Go, Served, clientVars
  <1>9. CASE HOpenFails(c) \/ HCrash(c)
    BY <1>9, DieFrames DEF HOpenFails, HCrash
  <1>10. CASE HEnd(c)
    BY <1>10, Domains, DieFrames DEF HEnd, Framed, Others, Go, clientVars
  <1> QED BY <1>2, <1>3, <1>4, <1>5, <1>6, <1>7, <1>8, <1>9, <1>10, <1>11 DEF ThreadStep

LEMMA OrderStep ==
    ASSUME FlowInv, ServedInv, OrderInv, NEW c \in Clients, Framed(c),
           Clean(c) /\ Clean(c)' /\ Answering(c)
               /\ cPc[c] \notin {"vanished", "lost"} /\ cPc'[c] \notin {"vanished", "lost"}
             => Answering(c)'
    PROVE  OrderInv'
  <1>1. InOrder(c)'
    <2>1. Clean(c)' => Clean(c)
      BY DEF Framed, Clean, Disturbed
    <2> QED BY <2>1 DEF Framed, OrderInv, InOrder
  <1>2. ASSUME NEW d \in Clients, d # c PROVE InOrder(d)'
    <2>1. cPc'[d] = cPc[d] /\ faults'[d] = faults[d]
      BY <1>2 DEF Framed, Others
    <2>2. Clean(d)' => Clean(d)
      BY <2>1 DEF Framed, Clean, Disturbed
    <2>3. UNCHANGED fs \/ hPc[d] = "none"
      BY <1>2 DEF Framed, ServedInv, Served
    <2>4. Answering(d) => Answering(d)'
      BY <1>2, <2>3, OthersAnswer DEF Framed
    <2> QED BY <2>1, <2>2, <2>4 DEF OrderInv, InOrder
  <1> QED BY <1>1, <1>2 DEF OrderInv

-----------------------------------------------------------------------------
(* The steps of the client, from one part of its command to the next.      *)

LEMMA OrderConnect == ASSUME FlowInv, NEW c \in Clients, CConnect(c), Answering(c) PROVE Answering(c)'
  <1>1. /\ cPc[c] = "start" /\ hPc[c] = "none" /\ up[c] = <<>> /\ down[c] = <<>>
        /\ hPc'[c] = hPc[c] /\ cDir'[c] = cDir[c] /\ down'[c] = down[c]
        /\ cPc'[c] = "count"
    BY Domains DEF CConnect, threadVars, FlowInv, Parsed
  <1>2. cDir[c] = Root
    BY <1>1, PhaseIs DEF Leaves
  <1>3. up'[c] = <<>> \o <<Write("path", Root)>>
    BY <1>1, Domains DEF CConnect, Put
  <1> QED BY <1>1, <1>2, <1>3 DEF AsksListing, Answering

(* An answer is read: what is left is one write less.                      *)
LEMMA OrderCCount == ASSUME FlowInv, NEW c \in Clients, CCount(c), Answering(c) PROVE Answering(c)'
  <1> DEFINE s == down[c]
             t == SubSeq(s, 2, Len(s))
             v == s[1].val
  <1>1. /\ cPc[c] = "count" /\ s # <<>> /\ s \in Seq(DownWrite)
        /\ UNCHANGED <<fs, hPc, hType, hDir, hName, cDir, cWant, up, upload>>
    BY DEF CCount, threadVars, FlowInv, QueuesOK
  <1>2. GetsCount(c)
    BY <1>1, PhaseIs DEF Queued, AsksListing
  <1>3. /\ up[c] = <<>> /\ hDir[c] = cDir[c] /\ hDir[c] \in Dirs /\ s[1].kind = "count"
        /\ AreEntries(s, 2, hDir[c])
        /\ \/ hPc[c] = "entries" /\ Len(s) = 1 /\ v = Cardinality(Entries(hDir[c]))
           \/ hPc[c] = "type" /\ v = Len(s) - 1
    BY <1>2 DEF GetsCount
  <1>4. /\ Head(s) = s[1] /\ s[1] \in DownWrite /\ Len(s) \in Nat /\ Len(s) >= 1
        /\ t \in Seq(DownWrite) /\ Len(t) = Len(s) - 1
        /\ \A k \in 1 .. Len(t) : k + 1 \in 1 .. Len(s) /\ t[k] = s[k + 1]
    BY <1>1, HeadPopped
  <1>5. v \in Nat
    BY <1>3, <1>4, DownKinds
  <1>6. /\ down'[c] = t /\ cListed'[c] = cDir[c] /\ cLeft'[c] = v
        /\ cPc'[c] = IF v > 0 THEN "entry" ELSE "menu"
    BY <1>3, <1>4, Domains DEF CCount, Pop, EntryOrMenu
  <1>7. AreEntries(t, 1, hDir[c])
    <2>1. ASSUME NEW k \in 1 .. Len(t) PROVE t[k].kind = "entry" /\ t[k].val \in Entries(hDir[c])
      <3>1. k + 1 \in 2 .. Len(s) /\ t[k] = s[k + 1]
        BY <1>4
      <3> QED BY <1>3, <3>1 DEF AreEntries
    <2> QED BY <2>1 DEF AreEntries
  <1>8. Entries(hDir[c])' = Entries(hDir[c])
    BY <1>1 DEF Entries, FileEntry
  <1>9. Len(t) = 0 => t = <<>>
    BY <1>4
  <1> HIDE DEF t, v
  <1>10. CASE v > 0
    <2>1. \/ hPc[c] = "entries" /\ t = <<>> /\ v = Cardinality(Entries(hDir[c]))
          \/ hPc[c] = "type" /\ v = Len(t)
      BY <1>3, <1>4, <1>9
    <2> QED BY <1>1, <1>3, <1>6, <1>7, <1>8, <1>10, <2>1 DEF GetsEntries, AreEntries, Answering
  <1>11. CASE ~(v > 0)
    <2>1. v = 0
      BY <1>5, <1>11
    <2>2. \/ hPc[c] = "entries" /\ t = <<>> /\ Cardinality(Entries(hDir[c])) = 0
          \/ hPc[c] = "type" /\ t = <<>>
      BY <1>3, <1>4, <1>9, <2>1
    <2>3. hPc[c] = "type" \/ (hPc[c] = "entries" /\ Entries(hDir[c]) = {})
      <3>1. IsFiniteSet(Entries(hDir[c]))
        BY <1>3, EntriesListed DEF FlowInv, FileServerTypeOK
      <3> QED BY <2>2, <3>1, FS_EmptySet
    <2>4. cPc'[c] = "menu" /\ Pending(cPc'[c], cDir'[c], cWant'[c].name) = <<>>
      BY <1>6, <2>1 DEF Pending
    <2>5. Busy(c)'
      BY <1>1, <1>8, <2>3 DEF Busy
    <2> QED BY <1>1, <1>3, <1>6, <2>2, <2>4, <2>5, NothingEnds DEF Queued, Answering
  <1> QED BY <1>10, <1>11

LEMMA OrderCEntry == ASSUME FlowInv, NEW c \in Clients, CEntry(c), Answering(c) PROVE Answering(c)'
  <1> DEFINE s == down[c]
             t == SubSeq(s, 2, Len(s))
             v == cLeft[c]
  <1>1. /\ cPc[c] = "entry" /\ s # <<>> /\ s \in Seq(DownWrite) /\ v \in Nat
        /\ UNCHANGED <<fs, hPc, hType, hDir, hName, cDir, cListed, cWant, up, upload>>
    BY DEF CEntry, threadVars, FlowInv, QueuesOK, FileServerTypeOK
  <1>2. GetsEntries(c)
    BY <1>1, PhaseIs
  <1>3. /\ up[c] = <<>> /\ hDir[c] = cDir[c] /\ hDir[c] \in Dirs /\ cListed[c] = cDir[c] /\ v > 0
        /\ AreEntries(s, 1, hDir[c])
        /\ hPc[c] = "type" /\ v = Len(s)
    BY <1>1, <1>2 DEF GetsEntries
  <1>4. /\ Head(s) = s[1] /\ s[1] \in DownWrite /\ Len(s) \in Nat /\ Len(s) >= 1
        /\ t \in Seq(DownWrite) /\ Len(t) = Len(s) - 1
        /\ \A k \in 1 .. Len(t) : k + 1 \in 1 .. Len(s) /\ t[k] = s[k + 1]
    BY <1>1, HeadPopped
  <1>5. Head(s).kind = "entry"
    BY <1>3, <1>4 DEF AreEntries
  <1>6. /\ down'[c] = t /\ cLeft'[c] = v - 1
        /\ cPc'[c] = IF v - 1 > 0 THEN "entry" ELSE "menu"
    BY <1>5, Domains DEF CEntry, Pop, EntryOrMenu
  <1>7. AreEntries(t, 1, hDir[c])
    BY <1>3, <1>4 DEF AreEntries
  <1>8. Entries(hDir[c])' = Entries(hDir[c])
    BY <1>1 DEF Entries, FileEntry
  <1>9. v - 1 = Len(t) /\ (Len(t) = 0 => t = <<>>) /\ Len(t) \in Nat
    BY <1>3, <1>4
  <1> HIDE DEF t, v
  <1>10. CASE Len(t) > 0
    BY <1>1, <1>3, <1>6, <1>7, <1>8, <1>9, <1>10 DEF GetsEntries, AreEntries, Answering
  <1>11. CASE ~(Len(t) > 0)
    <2>1. cPc'[c] = "menu" /\ Pending(cPc'[c], cDir'[c], cWant'[c].name) = <<>> /\ t = <<>>
      BY <1>6, <1>9, <1>11 DEF Pending
    <2> QED BY <1>1, <1>3, <1>6, <2>1, NothingEnds DEF Queued, Busy, Answering
  <1> QED BY <1>10, <1>11

LEMMA Retyped ==
    ASSUME NEW S, NEW T, NEW s \in Seq(S), \A k \in 1 .. Len(s) : s[k] \in T
    PROVE  s \in Seq(T)
  OBVIOUS

(* What is read of a file and what is not read yet is what was on the      *)
(* connection.                                                             *)
LEMMA ValuesSplit ==
    ASSUME NEW S, NEW s \in Seq([kind : {"data"}, val : S]), NEW n \in 1 .. Len(s)
    PROVE  /\ Values(s) = Values(SubSeq(s, 1, n)) \o Values(SubSeq(s, n + 1, Len(s)))
           /\ Values(s) \in Seq(S) /\ Values(SubSeq(s, 1, n)) \in Seq(S)
           /\ Values(SubSeq(s, n + 1, Len(s))) \in Seq(S)
           /\ Len(Values(SubSeq(s, n + 1, Len(s)))) = Len(s) - n
  <1> DEFINE a == SubSeq(s, 1, n)
             b == SubSeq(s, n + 1, Len(s))
             va == Values(a)
             vb == Values(b)
             vs == Values(s)
             j == va \o vb
  <1>1. Len(s) \in Nat /\ n \in Nat /\ n <= Len(s) /\ \A k \in 1 .. Len(s) : s[k].val \in S
    <2> DEFINE D == [kind : {"data"}, val : S]
    <2>1. \A w \in D : w.val \in S
      OBVIOUS
    <2>2. s \in Seq(D)
      OBVIOUS
    <2> HIDE DEF D
    <2> QED BY <2>1, <2>2
  <1>2. Len(a) = n /\ \A k \in 1 .. n : a[k] = s[k] /\ k \in 1 .. Len(s)
    BY <1>1
  <1>3. Len(b) = Len(s) - n /\ Len(b) \in Nat /\ \A k \in 1 .. Len(b) : k + n \in 1 .. Len(s) /\ b[k] = s[k + n]
    BY <1>1, Popped
  <1> HIDE DEF a, b
  <1>4. va \in Seq(S) /\ Len(va) = n /\ \A k \in 1 .. n : va[k] = s[k].val
    BY <1>1, <1>2 DEF Values
  <1>5. vb \in Seq(S) /\ Len(vb) = Len(b) /\ \A k \in 1 .. Len(b) : vb[k] = s[k + n].val
    BY <1>1, <1>3, SMTT(30) DEF Values
  <1>6. vs \in Seq(S) /\ Len(vs) = Len(s) /\ \A k \in 1 .. Len(s) : vs[k] = s[k].val
    BY <1>1 DEF Values
  <1>0. j = va \o vb
    OBVIOUS
  <1> HIDE DEF va, vb, vs, j
  <1>7. j \in Seq(S) /\ Len(j) = Len(va) + Len(vb)
    BY <1>0, <1>4, <1>5, JoinedLength, Zenon
  <1>8. \A k \in 1 .. Len(va) : j[k] = va[k]
    BY <1>0, <1>4, <1>5, Joined
  <1>9. \A k \in 1 .. Len(j) : k \notin 1 .. Len(va) => /\ k - Len(va) \in 1 .. Len(vb)
                                                        /\ j[k] = vb[k - Len(va)]
    BY <1>0, <1>4, <1>5, Joined
  <1>10. Len(j) = Len(s)
    BY <1>1, <1>3, <1>4, <1>5, <1>7
  <1>11. ASSUME NEW k \in 1 .. Len(s) PROVE j[k] = s[k].val
    <2>1. CASE k \in 1 .. n
      BY <1>4, <1>8, <2>1
    <2>2. CASE k \notin 1 .. n
      <3>1. k - n \in 1 .. Len(b) /\ j[k] = vb[k - n]
        BY <1>4, <1>5, <1>9, <1>10, <2>2
      <3>2. (k - n) + n = k
        BY <1>1
      <3> QED BY <1>5, <3>1, <3>2
    <2> QED BY <2>1, <2>2
  <1>12. vs = j
    BY <1>6, <1>7, <1>10, <1>11
  <1> QED BY <1>3, <1>4, <1>5, <1>6, <1>12, <1>0 DEF a, b, va, vb, vs

(* A read of a file that is on its way: the rest is still to come, or the  *)
(* client has all of it.                                                   *)
LEMMA FileRead ==
    ASSUME FlowInv, ClientInv, NEW c \in Clients, CData(c), GetsFile(c)
    PROVE  /\ hPc[c] = "type" /\ up[c] = <<>>
           /\ UNCHANGED <<fs, hPc, hType, hDir, hName, cDir, cWant, up, upload>>
           /\ \/ cPc'[c] = "data" /\ GetsFile(c)'
              \/ /\ cPc'[c] = "menu" /\ down'[c] = <<>>
                 /\ local'[c][cWant[c].name] = fs[cDir[c]][cWant[c].name]
  <1> DEFINE s == down[c]
             name == cWant[c].name
             size == cWant[c].size
             old == local[c][name]
             content == fs[cDir[c]][name]
  <1>1. /\ cPc[c] = "data" /\ hPc[c] = "type" /\ up[c] = <<>> /\ s \in Seq(DownWrite) /\ name \in Names
        /\ old # None /\ local \in [Clients -> [Names -> File]]
        /\ IsData(s, 1) /\ hDir[c] = cDir[c] /\ Exists(cDir[c], name)
        /\ old \o Values(s) = content /\ Len(content) = size
        /\ UNCHANGED <<fs, hPc, hType, hDir, hName, cDir, cWant, up, upload>>
    BY DEF CData, ReadData, GetsFile, FlowInv, FileServerTypeOK, QueuesOK, ClientInv, threadVars
  <1>2. old \in Seq(Block)
    BY <1>1, ZenonT(40) DEF File
  <1>3. s \in Seq(DataWrite)
    <2>1. \A w \in DownWrite : w.kind = "data" => w \in DataWrite
      BY DEF DownWrite, CountWrite, PortWrite, DataWrite
    <2>2. \A k \in 1 .. Len(s) : s[k] \in DownWrite /\ s[k].kind = "data"
      <3>1. \A k \in 1 .. Len(s) : s[k] \in DownWrite
        BY <1>1
      <3>2. \A k \in 1 .. Len(s) : s[k].kind = "data"
        <4>1. IsData(s, 1)
          BY <1>1
        <4> QED BY <4>1 DEF IsData
      <3> QED BY <3>1, <3>2
    <2>3. \A k \in 1 .. Len(s) : s[k] \in DataWrite
      BY <2>1, <2>2
    <2> QED BY <1>1, <2>3, Retyped
  <1>4. PICK n \in 1 .. Len(s) :
            LET got == old \o Values(SubSeq(s, 1, n))
            IN  /\ down' = [down EXCEPT ![c] = SubSeq(@, n + 1, Len(@))]
                /\ local' = [local EXCEPT ![c][name] = got]
                /\ cPc' = [cPc EXCEPT ![c] = IF Len(got) >= size THEN "menu" ELSE "data"]
    BY DEF CData, ReadData, Pop
  <1> DEFINE new == Values(SubSeq(s, 1, n))
             t == SubSeq(s, n + 1, Len(s))
             rest == Values(t)
             got == old \o new
  <1>5. /\ Values(s) = new \o rest /\ new \in Seq(Block) /\ rest \in Seq(Block)
        /\ Len(rest) = Len(s) - n
    BY <1>3, ValuesSplit DEF DataWrite
  <1>6. t \in Seq(DataWrite) /\ Len(t) = Len(s) - n /\ \A k \in 1 .. Len(t) : t[k].kind = "data"
    <2>1. t \in Seq(DataWrite) /\ Len(t) = Len(s) - n
      BY <1>3, Popped
    <2>2. \A w \in DataWrite : w.kind = "data"
      BY DEF DataWrite
    <2> HIDE DEF t
    <2> QED BY <2>1, <2>2
  <1>7. /\ down'[c] = t /\ local'[c][name] = got
        /\ cPc'[c] = IF Len(got) >= size THEN "menu" ELSE "data"
    BY <1>1, <1>4, Domains
  <1>8. Len(s) \in Nat /\ n \in Nat /\ n <= Len(s)
    BY <1>3
  <1> HIDE DEF new, rest, t
  <1> HIDE DEF old, content, name, size, s
  <1>9. got \in Seq(Block) /\ got \o rest = content
    <2>1. got \in Seq(Block)
      BY <1>2, <1>5, JoinedLength, Zenon
    <2>2. (old \o new) \o rest = old \o (new \o rest)
      BY SMTT(30), <1>2, <1>5, ConcatAssociative
    <2> QED BY <1>1, <1>5, <2>1, <2>2
  <1> HIDE DEF got
  <1>10. Len(got) \in Nat /\ Len(rest) \in Nat /\ Len(got) + Len(rest) = size
    <2>1. Len(got \o rest) = Len(got) + Len(rest)
      BY <1>5, <1>9, JoinedLength, Zenon
    <2> QED BY <1>1, <1>5, <1>9, <2>1
  <1>11. CASE Len(got) >= size
    <2>1. Len(rest) = 0
      BY <1>10, <1>11
    <2>2. Len(t) = 0
      BY <1>5, <1>6, <2>1
    <2>3. rest = <<>> /\ t = <<>>
      BY <1>5, <1>6, <2>1, <2>2
    <2>4. got = content
      <3>1. got \o <<>> = got
        BY <1>9
      <3> QED BY <1>9, <2>3, <3>1
    <2> QED BY <1>1, <1>7, <1>11, <2>3, <2>4 DEF name, content
  <1>12. CASE ~(Len(got) >= size)
    <2>1. cPc'[c] = "data"
      BY <1>7, <1>12
    <2>2. IsData(t, 1)
      BY <1>6 DEF IsData
    <2>3. GetsFile(c)'
      <3>1. /\ cPc'[c] = "data" /\ hPc'[c] = "type" /\ up'[c] = <<>> /\ down'[c] = t /\ IsData(t, 1)
            /\ hDir'[c] = cDir'[c]
        BY <1>1, <1>7, <2>1, <2>2
      <3>2. cDir'[c] = cDir[c] /\ cWant'[c] = cWant[c] /\ fs' = fs
        BY <1>1
      <3>3. /\ local'[c][cWant[c].name] \o Values(t) = fs[cDir[c]][cWant[c].name]
            /\ Len(fs[cDir[c]][cWant[c].name]) = cWant[c].size
        BY <1>1, <1>7, <1>9 DEF name, content, size, rest
      <3>4. Exists(cDir[c], cWant[c].name)
        BY <1>1 DEF name
      <3> QED BY <3>1, <3>2, <3>3, <3>4 DEF GetsFile, Exists
    <2> QED BY <1>1, <2>1, <2>3
  <1> QED BY <1>11, <1>12

LEMMA OrderCData ==
    ASSUME FlowInv, ClientInv, NEW c \in Clients, CData(c), Answering(c)
    PROVE  Answering(c)'
  <1>1. cPc[c] = "data" /\ down[c] # <<>>
    BY DEF CData, ReadData, FlowInv, QueuesOK
  <1>2. GetsFile(c)
    BY <1>1, PhaseIs DEF Queued, AsksFile
  <1>3. CASE cPc'[c] = "data" /\ GetsFile(c)'
    BY <1>3 DEF Answering
  <1>4. CASE cPc'[c] = "menu" /\ down'[c] = <<>>
    <2>1. hPc'[c] = "type" /\ up'[c] = <<>>
      BY <1>2, FileRead
    <2>2. Pending(cPc'[c], cDir'[c], cWant'[c].name) = <<>>
      BY <1>4 DEF Pending
    <2> QED BY <1>4, <2>1, <2>2, NothingEnds DEF Queued, Busy, Answering
  <1> QED BY <1>2, <1>3, <1>4, FileRead

LEMMA OrderCPort ==
    ASSUME FlowInv, ServedInv, ClientInv, NEW c \in Clients, CPort(c), Answering(c)
    PROVE  Answering(c)'
  <1> DEFINE s == down[c]
             t == SubSeq(s, 2, Len(s))
  <1>1. /\ cPc[c] = "port" /\ s # <<>> /\ s \in Seq(DownWrite) /\ upload[c] \in Seq(UploadWrite)
        /\ down' = [down EXCEPT ![c] = t]
        /\ UNCHANGED <<fs, hPc, hType, hDir, hName, cDir, cWant, up>>
    BY DEF CPort, Pop, FlowInv, QueuesOK, threadVars
  <1>2. GetsPort(c)
    BY <1>1, PhaseIs DEF Queued
  <1>3. /\ up[c] = <<>> /\ hPc[c] = "upath" /\ upload[c] = <<>> /\ Len(s) = 1 /\ s[1].kind = "port"
    BY <1>1, <1>2 DEF GetsPort
  <1>4. t = <<>>
    BY <1>1, <1>3
  <1>5. Head(s).kind = "port"
    BY <1>1, <1>3, HeadPopped
  <1>6. cPc'[c] = "menu" /\ down'[c] = <<>>
    BY <1>1, <1>4, <1>5, Domains DEF CPort
  <1>7. upload'[c] # <<>>
    <2>1. Uploading(c)'
      BY <1>6, FlowCPort DEF FlowInv, Live
    <2>2. hPc'[c] = "upath" /\ ~Has(down'[c], PortWrite)
      BY <1>1, <1>3, <1>6 DEF Has
    <2> QED BY <2>1, <2>2 DEF Uploading
  <1>8. Pending(cPc'[c], cDir'[c], cWant'[c].name) = <<>>
    BY <1>6 DEF Pending
  <1> QED BY <1>1, <1>3, <1>6, <1>7, <1>8, NothingEnds DEF Queued, Busy, Answering

LEMMA OrderCommand ==
    ASSUME FlowInv, NEW c \in Clients, cPc[c] = "menu", Answering(c),
           NEW w \in Seq(UpWrite), NEW then \in {"menu", "count", "data", "port", "done"},
           NEW dir, dir = cDir'[c], NEW name, name = cWant'[c].name,
           w = Pending(then, dir, name) \/ (w = <<Zero>> /\ then = "menu"),
           then = "data" => local'[c][name] = <<>>,
           up'[c] = up[c] \o w, cPc'[c] = then, down'[c] = down[c],
           UNCHANGED <<fs, hPc, hType, hDir, upload>>
    PROVE  Answering(c)'
  <1>1. Queued(c)
    BY PhaseIs
  <1>2. Busy(c) /\ Ends(up[c], <<>>) /\ down[c] = <<>> /\ up[c] \in Seq(UpWrite)
    BY <1>1 DEF Queued, Pending, FlowInv, QueuesOK
  <1>3. Ends(up'[c], w) /\ (w = <<Zero>> => Ends(up'[c], <<>>))
    BY <1>2, EndsJoined
  <1>4. then = "menu" => Pending(then, dir, name) = <<>>
    BY DEF Pending
  <1>5. Ends(up'[c], Pending(then, dir, name))
    BY <1>3, <1>4
  <1>6. Entries(hDir[c])' = Entries(hDir[c])
    BY DEF Entries, FileEntry
  <1>7. Busy(c)'
    BY <1>2, <1>6 DEF Busy
  <1> QED BY <1>2, <1>5, <1>7 DEF Queued, Answering

LEMMA OrderUser ==
    ASSUME FlowInv, NEW c \in Clients, UserStep(c), ~CVanish(c), Answering(c)
    PROVE  Answering(c)'
  <1> DEFINE Given(w, then) ==
                 /\ cPc[c] = "menu" /\ up'[c] = up[c] \o w /\ cPc'[c] = then /\ down'[c] = down[c]
                 /\ UNCHANGED <<fs, hPc, hType, hDir, upload>>
  <1>1. /\ cDir[c] \in Dirs \cup {Nowhere} /\ cWant[c].name = cWant[c].name
        /\ "menu" \in CPcs /\ "count" \in CPcs /\ "port" \in CPcs /\ "done" \in CPcs /\ "data" \in CPcs
        /\ local \in [Clients -> [Names -> File]]
    BY DEF FlowInv, FileServerTypeOK, CPcs
  <1>2. CASE CCd(c)
    <2>1. PICK w : w = <<Write("type", 0)>>
      OBVIOUS
    <2>2. Given(w, "menu")
      BY <1>2, <2>1, Domains DEF CCd, Command, Put, threadVars
    <2>3. w \in Seq(UpWrite) /\ w = <<Zero>>
      BY <2>1 DEF Zero, Write, UpWrite
    <2> QED BY <2>2, <2>3, OrderCommand
  <1>3. CASE CLs(c)
    <2>1. PICK w : w = <<Write("type", 1), Write("path", cDir[c])>>
      OBVIOUS
    <2>2. Given(w, "count") /\ UNCHANGED <<cDir, cWant, local>>
      BY <1>3, <2>1, Domains DEF CLs, Command, Put, threadVars
    <2>3. w \in Seq(UpWrite)
      BY <1>1, <2>1 DEF Write, UpWrite
    <2>4. w = Pending("count", cDir'[c], cWant'[c].name)
      BY <2>1, <2>2 DEF Pending
    <2> QED BY <2>2, <2>3, <2>4, OrderCommand
  <1>4. CASE CUpload(c)
    <2>1. PICK w : w = <<Write("type", 3)>>
      OBVIOUS
    <2>2. Given(w, "port")
      BY <1>4, <2>1, Domains DEF CUpload, Command, Put, threadVars
    <2>3. w \in Seq(UpWrite)
      BY <1>1, <2>1 DEF Write, UpWrite
    <2>4. w = Pending("port", cDir'[c], cWant'[c].name)
      BY <2>1 DEF Pending
    <2> QED BY <2>2, <2>3, <2>4, OrderCommand
  <1>5. CASE CQuit(c)
    <2>1. PICK w : w = <<Write("type", 4)>>
      OBVIOUS
    <2>2. Given(w, "done")
      BY <1>5, <2>1, Domains DEF CQuit, Command, Put, threadVars
    <2>3. w \in Seq(UpWrite)
      BY <1>1, <2>1 DEF Write, UpWrite
    <2>4. w = Pending("done", cDir'[c], cWant'[c].name)
      BY <2>1 DEF Pending
    <2> QED BY <2>2, <2>3, <2>4, OrderCommand
  <1>6. ASSUME NEW e \in cInfo[c], CDownload(c, e) PROVE Answering(c)'
    <2>1. PICK w : w = <<Write("type", 2), Write("path", cDir[c]), Write("name", e.name)>>
      OBVIOUS
    <2>2. Given(w, "data") /\ UNCHANGED cDir
      BY <1>6, <2>1, Domains DEF CDownload, Command, Put, threadVars
    <2>3. e.name \in Names
      BY <1>6 DEF FlowInv, FileServerTypeOK, CDownload, Entry, DirEntry
    <2>4. cWant'[c] = e /\ local'[c][e.name] = <<>>
      BY <1>1, <1>6, <2>3, Domains DEF CDownload
    <2>5. w \in Seq(UpWrite)
      BY <1>1, <2>1, <2>3 DEF Write, UpWrite
    <2>6. w = Pending("data", cDir'[c], cWant'[c].name)
      BY <2>1, <2>2, <2>4 DEF Pending
    <2> QED BY <2>2, <2>4, <2>5, <2>6, OrderCommand
  <1> QED BY <1>2, <1>3, <1>4, <1>5, <1>6 DEF UserStep

-----------------------------------------------------------------------------
(* The steps of the thread.                                                *)

LEMMA OrderAccept == ASSUME FlowInv, NEW c \in Clients, MAccept(c), Answering(c) PROVE Answering(c)'
  <1>1. /\ cPc[c] \notin {"start", "lost"} /\ hPc[c] = "none" /\ hPc'[c] = "lspath"
        /\ UNCHANGED <<cPc, cDir, up, down>>
    BY Domains DEF MAccept, clientVars
  <1>2. AsksListing(c)
    BY <1>1, PhaseIs DEF Leaves
  <1> QED BY <1>1, <1>2 DEF AsksListing, Answering

(* The path alone, or what is behind it with it.                           *)
LEMMA PathRead ==
    ASSUME FlowInv, NEW c \in Clients, NEW then, ReadPath(c, up, then, "overrun")
    PROVE  /\ hDir'[c] = up[c][1].val /\ up[c] # <<>> /\ hPc'[c] = then
           /\ \E n \in 1 .. Len(up[c]) : up'[c] = SubSeq(up[c], n + 1, Len(up[c]))
           /\ UNCHANGED <<fs, hType, hName, clientVars>>
  <1>1. up[c] # <<>> /\ UNCHANGED <<fs, hType, hName, clientVars>>
    BY DEF ReadPath
  <1>2. Head(up[c]) = up[c][1]
    BY <1>1, HeadPopped DEF FlowInv, QueuesOK
  <1>3. PICK n \in 1 .. Len(up[c]) : up' = [up EXCEPT ![c] = SubSeq(@, n + 1, Len(@))]
    BY DEF ReadPath, Pop
  <1>4. hDir'[c] = up[c][1].val /\ hPc'[c] = then
    BY <1>2, Domains DEF ReadPath, Go
  <1>5. up'[c] = SubSeq(up[c], n + 1, Len(up[c]))
    BY <1>3, Domains
  <1> QED BY <1>1, <1>4, <1>5

LEMMA OrderLsPath == ASSUME FlowInv, NEW c \in Clients, HLsPath(c), Answering(c) PROVE Answering(c)'
  <1>1. /\ hPc[c] = "lspath" /\ ReadPath(c, up, "count", "overrun") /\ UNCHANGED <<down, upload>>
    BY DEF HLsPath, At
  <1>2. cPc[c] = "count" /\ down[c] = <<>> /\ up[c] = <<Write("path", cDir[c])>>
    BY <1>1, PhaseIs DEF AsksListing
  <1>3. /\ hDir'[c] = up[c][1].val /\ hPc'[c] = "count"
        /\ \E n \in 1 .. Len(up[c]) : up'[c] = SubSeq(up[c], n + 1, Len(up[c]))
        /\ UNCHANGED clientVars
    BY <1>1, PathRead
  <1>4. Len(up[c]) = 1 /\ up[c][1].val = cDir[c]
    BY <1>2 DEF Write
  <1>5. up'[c] = <<>>
    BY <1>2, <1>3, <1>4
  <1> QED BY <1>1, <1>2, <1>3, <1>4, <1>5 DEF AsksListing, Answering, clientVars

LEMMA OrderDownloadPath ==
    ASSUME FlowInv, NEW c \in Clients, HDownloadPath(c), Answering(c)
    PROVE  Answering(c)'
  <1>1. /\ hPc[c] = "dlpath" /\ ReadPath(c, up, "dlname", "overrun") /\ UNCHANGED <<down, upload>>
    BY DEF HDownloadPath, At
  <1>2. /\ cPc[c] = "data" /\ down[c] = <<>> /\ local[c][cWant[c].name] = <<>>
        /\ up[c] = <<Write("path", cDir[c]), Write("name", cWant[c].name)>>
    BY <1>1, PhaseIs DEF AsksFile
  <1>3. /\ hDir'[c] = up[c][1].val /\ hPc'[c] = "dlname"
        /\ \E n \in 1 .. Len(up[c]) : up'[c] = SubSeq(up[c], n + 1, Len(up[c]))
        /\ UNCHANGED clientVars
    BY <1>1, PathRead
  <1>4. Len(up[c]) = 2 /\ up[c][1].val = cDir[c] /\ up[c][2] = Write("name", cWant[c].name)
    BY <1>2 DEF Write
  <1>5. up'[c] \in {<<Write("name", cWant[c].name)>>, <<>>}
    <2>1. PICK n \in 1 .. Len(up[c]) : up'[c] = SubSeq(up[c], n + 1, Len(up[c]))
      BY <1>3
    <2>2. PICK t : t = SubSeq(up[c], n + 1, Len(up[c]))
      OBVIOUS
    <2>3. /\ t \in Seq(UpWrite) /\ Len(t) = Len(up[c]) - n
          /\ \A k \in 1 .. Len(t) : t[k] = up[c][k + n]
      BY <2>2, Popped DEF FlowInv, QueuesOK
    <2>4. CASE n = 1
      <3>1. Len(t) = 1 /\ t[1] = up[c][2]
        BY <1>4, <2>3, <2>4
      <3>2. t = <<up[c][2]>>
        BY <2>3, <3>1
      <3> QED BY <1>4, <2>1, <2>2, <3>2
    <2>5. CASE n = 2
      <3>1. t = <<>>
        BY <1>4, <2>3, <2>5
      <3> QED BY <2>1, <2>2, <3>1
    <2> QED BY <1>4, <2>4, <2>5
  <1>6. UNCHANGED <<cPc, cDir, cWant, local>>
    BY <1>3 DEF clientVars
  <1> QED BY <1>1, <1>2, <1>3, <1>4, <1>5, <1>6 DEF AsksFile, Answering

LEMMA OrderDownloadName ==
    ASSUME FlowInv, NEW c \in Clients, HDownloadName(c), Answering(c)
    PROVE  Answering(c)'
  <1> DEFINE w == Write("name", cWant[c].name)
  <1>1. /\ hPc[c] = "dlname" /\ cPc[c] = "data" /\ down[c] = <<>> /\ local[c][cWant[c].name] = <<>>
        /\ up[c] = <<w>> \/ up[c] = <<>>
    <2>1. hPc[c] = "dlname"
      BY PhaseIs DEF HDownloadName, At
    <2> QED BY <2>1, PhaseIs DEF AsksFile
  <1>2. PICK n \in 1 .. Len(up[c]) :
            /\ hName' = [hName EXCEPT ![c] = IF hPc[c] = "dlname" /\ Head(up[c]).kind = "name"
                                                THEN Head(up[c]).val ELSE NoName]
            /\ hPc' = [hPc EXCEPT ![c] = IF \E k \in 1 .. n : up[c][k].kind # "type"
                                            THEN "send" ELSE "dlmore"]
            /\ up' = [up EXCEPT ![c] = SubSeq(@, n + 1, Len(@))]
    BY DEF HDownloadName, Go, Pop
  <1>3. up[c] = <<w>> /\ Len(up[c]) = 1
    <2>1. up[c] # <<>>
      <3>1. n \in 1 .. Len(up[c])
        OBVIOUS
      <3> QED BY <3>1
    <2> HIDE DEF w
    <2>2. Len(<<w>>) = 1
      OBVIOUS
    <2> QED BY <1>1, <2>1, <2>2, Zenon
  <1>4. Head(up[c]) = w /\ up[c][1] = w /\ w.kind = "name" /\ w.val = cWant[c].name
    BY <1>3 DEF Write
  <1>5. hName'[c] = cWant[c].name
    BY <1>1, <1>2, <1>4, Domains
  <1>6. n = 1
    BY <1>3
  <1>7. \E k \in 1 .. n : up[c][k].kind # "type"
    BY <1>4, <1>6
  <1>8. hPc'[c] = "send"
    BY <1>2, <1>7, Domains
  <1>9. up'[c] = <<>>
    BY <1>2, <1>3, <1>6, Domains
  <1>10. UNCHANGED <<hDir, cPc, cDir, cWant, local, down>>
    BY DEF HDownloadName, clientVars
  <1>11. hDir[c] = cDir[c]
    BY <1>1, <1>3, PhaseIs DEF AsksFile
  <1> QED BY <1>1, <1>5, <1>8, <1>9, <1>10, <1>11 DEF AsksFile, Answering

LEMMA OrderCount ==
    ASSUME FlowInv, NEW c \in Clients, HCount(c), Answering(c), Clean(c)
    PROVE  Answering(c)'
  <1> DEFINE n == Counted(hDir[c])
             w == <<Write("count", n)>>
  <1>1. /\ hPc[c] = "count" /\ hDir[c] \in Dirs /\ hPc'[c] = "entries" /\ down'[c] = down[c] \o w
        /\ UNCHANGED <<fs, hDir, cPc, cDir, up>>
    BY Domains DEF HCount, At, Go, Put, clientVars
  <1>2. cPc[c] = "count" /\ down[c] = <<>> /\ up[c] = <<>> /\ hDir[c] = cDir[c]
    BY <1>1, PhaseIs DEF AsksListing
  <1>3. n = Cardinality(Entries(hDir[c]))
    <2>1. links = {}
      BY DEF Clean, Disturbed
    <2>2. {e \in Entries(hDir[c]) : e.name \notin links} = Entries(hDir[c])
      BY <2>1
    <2> QED BY <2>2 DEF Counted
  <1>4. Entries(hDir[c])' = Entries(hDir[c])
    BY <1>1 DEF Entries, FileEntry
  <1> HIDE DEF n
  <1>5. <<>> \o w = w /\ Len(w) = 1 /\ w[1].kind = "count" /\ w[1].val = n /\ w # <<>>
    BY DEF Write
  <1> HIDE DEF w
  <1>6. down'[c] = w
    BY <1>1, <1>2, <1>5
  <1>7. AreEntries(down[c], 2, hDir[c])'
    BY <1>5, <1>6 DEF AreEntries
  <1> QED BY <1>1, <1>2, <1>3, <1>4, <1>5, <1>6, <1>7 DEF GetsCount, Answering

(* The listing that is written.                                            *)
LEMMA ListingWritten ==
    ASSUME FlowInv, NEW c \in Clients, hDir[c] \in Dirs, HEntries(c)
    PROVE  \E w \in Seq(DownWrite) :
              /\ down'[c] = down[c] \o w /\ hPc'[c] = "type"
              /\ Len(w) = Cardinality(Entries(hDir[c])) /\ AreEntries(w, 1, hDir[c])
              /\ IsFiniteSet(Entries(hDir[c])) /\ Len(w) \in Nat
              /\ UNCHANGED <<fs, hType, hDir, clientVars, up, upload>>
  <1> DEFINE found == SetToSeq(Entries(hDir[c]))
             w == [k \in 1 .. Len(found) |-> Write("entry", found[k])]
  <1>1. /\ down'[c] = down[c] \o w /\ hPc'[c] = "type"
        /\ UNCHANGED <<fs, hType, hDir, clientVars, up, upload>>
    BY Domains DEF HEntries, Go, Put
  <1>2. /\ Entries(hDir[c]) \subseteq Entry /\ IsFiniteSet(Entries(hDir[c]))
        /\ Cardinality(Entries(hDir[c])) \in Nat
        /\ found \in Seq(Entries(hDir[c])) /\ Len(found) = Cardinality(Entries(hDir[c]))
    BY EntriesListed DEF FlowInv, FileServerTypeOK
  <1>3. \A k \in 1 .. Len(found) : /\ Write("entry", found[k]) \in DownWrite
                                   /\ found[k] \in Entries(hDir[c])
    <2> HIDE DEF found
    <2>1. \A k \in 1 .. Len(found) : found[k] \in Entries(hDir[c]) /\ found[k] \in Entry
      BY <1>2
    <2>2. \A e \in Entry : Write("entry", e) \in DownWrite
      BY DEF Write, DownWrite
    <2> QED BY <2>1, <2>2
  <1> HIDE DEF found
  <1>4. w \in Seq(DownWrite) /\ Len(w) = Len(found) /\ \A k \in 1 .. Len(w) : w[k] = Write("entry", found[k])
    BY <1>2, <1>3
  <1> HIDE DEF w
  <1>5. AreEntries(w, 1, hDir[c])
    <2>1. \A e : Write("entry", e).kind = "entry" /\ Write("entry", e).val = e
      BY DEF Write
    <2>2. ASSUME NEW k \in 1 .. Len(w) PROVE w[k].kind = "entry" /\ w[k].val \in Entries(hDir[c])
      BY <1>3, <1>4, <2>1
    <2> QED BY <2>2 DEF AreEntries
  <1> QED BY <1>1, <1>2, <1>4, <1>5

LEMMA OrderEntries == ASSUME FlowInv, NEW c \in Clients, HEntries(c), Answering(c) PROVE Answering(c)'
  <1>1. hPc[c] = "entries" /\ hDir[c] \in Dirs /\ down[c] \in Seq(DownWrite)
    BY DEF HEntries, At, FlowInv, Parsed, QueuesOK
  <1>2. PICK w \in Seq(DownWrite) :
              /\ down'[c] = down[c] \o w /\ hPc'[c] = "type"
              /\ Len(w) = Cardinality(Entries(hDir[c])) /\ AreEntries(w, 1, hDir[c])
              /\ IsFiniteSet(Entries(hDir[c])) /\ Len(w) \in Nat
              /\ UNCHANGED <<fs, hType, hDir, clientVars, up, upload>>
    BY <1>1, ListingWritten
  <1>3. UNCHANGED <<cPc, cDir, cListed, cLeft, cWant, local>> /\ Entries(hDir[c])' = Entries(hDir[c])
    BY <1>2 DEF clientVars, Entries, FileEntry
  <1>4. CASE Queued(c)
    <2>1. Entries(hDir[c]) = {} /\ down[c] = <<>>
      BY <1>1, <1>4 DEF Queued, Busy
    <2>2. Len(w) = 0
      BY <1>2, <2>1, FS_EmptySet
    <2>3. down'[c] = <<>>
      BY <1>2, <2>1, <2>2
    <2> QED BY <1>2, <1>3, <1>4, <2>1, <2>3 DEF Queued, Busy, Answering
  <1>5. CASE GetsCount(c)
    <2>1. /\ up[c] = <<>> /\ hDir[c] = cDir[c] /\ cPc[c] = "count" /\ down[c][1].kind = "count"
          /\ Len(down[c]) = 1 /\ down[c][1].val = Cardinality(Entries(hDir[c]))
      BY <1>1, <1>5 DEF GetsCount
    <2>2. PICK t : t = down[c] \o w
      OBVIOUS
    <2>3. /\ t \in Seq(DownWrite) /\ Len(t) = Len(down[c]) + Len(w)
          /\ \A k \in 1 .. Len(down[c]) : t[k] = down[c][k]
          /\ \A k \in 1 .. Len(t) : k \notin 1 .. Len(down[c]) => /\ k - Len(down[c]) \in 1 .. Len(w)
                                                                 /\ t[k] = w[k - Len(down[c])]
      BY <1>1, <2>2, Joined
    <2>4. Len(t) = 1 + Len(w) /\ t[1] = down[c][1] /\ t # <<>>
      BY <1>2, <2>1, <2>3
    <2>5. ASSUME NEW k \in 2 .. Len(t) PROVE t[k].kind = "entry" /\ t[k].val \in Entries(hDir[c])
      <3>1. k \in 1 .. Len(t) /\ k \notin 1 .. Len(down[c])
        BY <1>2, <2>1, <2>4
      <3>2. k - 1 \in 1 .. Len(w) /\ t[k] = w[k - 1]
        BY <2>1, <2>3, <3>1
      <3> QED BY <1>2, <3>2 DEF AreEntries
    <2>6. t[1].val = Len(t) - 1
      BY <1>2, <2>1, <2>4
    <2>7. down'[c] = t /\ AreEntries(down[c], 2, hDir[c])'
      BY <1>2, <1>3, <2>2, <2>5 DEF AreEntries
    <2> QED BY <1>1, <1>2, <1>3, <2>1, <2>4, <2>6, <2>7 DEF GetsCount, Answering
  <1>6. CASE GetsEntries(c)
    <2>1. down[c] = <<>> /\ cLeft[c] = Cardinality(Entries(hDir[c]))
      BY <1>1, <1>6 DEF GetsEntries
    <2>2. down'[c] = w
      <3>1. <<>> \o w = w
        OBVIOUS
      <3> QED BY <1>2, <2>1, <3>1
    <2>3. AreEntries(down[c], 1, hDir[c])'
      BY <1>2, <1>3, <2>2 DEF AreEntries
    <2> QED BY <1>2, <1>3, <1>6, <2>1, <2>2, <2>3 DEF GetsEntries, Answering
  <1> QED BY <1>1, <1>4, <1>5, <1>6, PhaseIs

LEMMA OrderType == ASSUME FlowInv, ClientInv, NEW c \in Clients, HType(c), Answering(c) PROVE Answering(c)'
  <1> DEFINE s == up[c]
             t == SubSeq(s, 2, Len(s))
             type == IF Head(s).kind = "type" THEN Head(s).val ELSE 0
             name == cWant[c].name
             w == Pending(cPc[c], cDir[c], name)
  <1>1. /\ hPc[c] = "type" /\ s # <<>> /\ s \in Seq(UpWrite)
        /\ hType'[c] = type /\ hPc'[c] = NextPc(type) /\ up'[c] = t
        /\ UNCHANGED <<fs, hDir, hName, cPc, cDir, cWant, local, down, upload>>
    BY Domains DEF HType, At, Go, Pop, clientVars, FlowInv, QueuesOK
  <1>2. Queued(c)
    BY <1>1, PhaseIs DEF GetsCount, GetsEntries, GetsFile
  <1>3. /\ cPc[c] \in {"menu", "count", "data", "port", "done"} /\ Ends(s, w) /\ down[c] = <<>>
        /\ (cPc[c] = "data" => local[c][name] = <<>>)
    BY <1>2 DEF Queued
  <1>4. cPc[c] \in CPcs /\ cDir[c] \in Dirs \cup {Nowhere} /\ (cPc[c] = "data" => name \in Names)
    BY DEF FlowInv, FileServerTypeOK, CPcs, ClientInv
  <1>5. /\ cPc[c] = "count" => w = <<Write("type", 1), Write("path", cDir[c])>>
        /\ cPc[c] = "data" => w = <<Write("type", 2), Write("path", cDir[c]), Write("name", name)>>
        /\ cPc[c] = "port" => w = <<Write("type", 3)>>
        /\ cPc[c] = "done" => w = <<Write("type", 4)>>
        /\ cPc[c] = "menu" => w = <<>>
    BY <1>4, PendingIs
  <1>6. w \in Seq(UpWrite)
    BY <1>4, PendingTyped
  <1>0. t = SubSeq(s, 2, Len(s)) /\ w = Pending(cPc[c], cDir[c], name)
    OBVIOUS
  <1>10. /\ Head(s).kind = "type" => type = Head(s).val
         /\ Head(s).kind # "type" => type = 0
    OBVIOUS
  <1> HIDE DEF s, t, type, w
  <1>7. /\ Head(s) = s[1]
        /\ (s[1] = Zero /\ Ends(t, w)) \/ s = w
    <2>1. s \in Seq(UpWrite) /\ s # <<>> /\ Ends(s, w)
      BY <1>1, <1>3
    <2>2. Head(s) = s[1]
      BY <1>0, <2>1, HeadPopped
    <2>3. (s[1] = Zero /\ Ends(t, w)) \/ s = w
      BY <1>0, <1>6, <2>1, EndsPopped
    <2> QED BY <2>2, <2>3
  <1>8. CASE s[1] = Zero /\ Ends(t, w)
    <2>1. type = 0 /\ NextPc(type) = "type"
      BY <1>7, <1>8, <1>10 DEF Zero, Write, NextPc
    <2>2. Ends(up'[c], Pending(cPc'[c], cDir'[c], cWant'[c].name))
      BY <1>0, <1>1, <1>8
    <2> QED BY <1>1, <1>3, <2>1, <2>2 DEF Queued, Busy, Answering
  <1>9. CASE s = w
    <2>1. CASE cPc[c] = "menu"
      BY <1>1, <1>5, <1>9, <2>1
    <2>2. CASE cPc[c] = "count"
      <3>1. s = <<Write("type", 1), Write("path", cDir[c])>>
        BY <1>5, <1>9, <2>2
      <3>2. t = <<Write("path", cDir[c])>>
        <4>1. Len(s) = 2 /\ s[2] = Write("path", cDir[c])
          BY <3>1
        <4> QED BY <1>0, <1>1, <4>1, Tails
      <3>3. NextPc(type) = "lspath"
        BY <1>7, <1>10, <3>1 DEF NextPc, Write
      <3> QED BY <1>1, <1>3, <2>2, <3>2, <3>3 DEF AsksListing, Answering
    <2>3. CASE cPc[c] = "data"
      <3>1. s = <<Write("type", 2), Write("path", cDir[c]), Write("name", name)>>
        BY <1>5, <1>9, <2>3
      <3>2. t = <<Write("path", cDir[c]), Write("name", name)>>
        <4>1. Len(s) = 3 /\ s[2] = Write("path", cDir[c]) /\ s[3] = Write("name", name)
          BY <3>1
        <4> QED BY <1>0, <1>1, <4>1, Tails
      <3>3. type = 2 /\ NextPc(type) = "dlpath"
        BY <1>7, <1>10, <3>1 DEF NextPc, Write
      <3> QED BY <1>1, <1>3, <2>3, <3>2, <3>3 DEF AsksFile, Answering
    <2>4. CASE cPc[c] = "port"
      <3>1. s = <<Write("type", 3)>>
        BY <1>5, <1>9, <2>4
      <3>2. type = 3 /\ t = <<>>
        BY <1>0, <1>7, <1>10, <3>1 DEF Write
      <3>3. NextPc(type) = "port"
        BY <3>2 DEF NextPc
      <3> QED BY <1>1, <1>3, <2>4, <3>2, <3>3 DEF GetsPort, Answering
    <2>5. CASE cPc[c] = "done"
      <3>1. s = <<Write("type", 4)>>
        BY <1>5, <1>9, <2>5
      <3>2. type = 4
        BY <1>7, <1>10, <3>1 DEF Write
      <3>3. NextPc(type) = "ended"
        BY <3>2 DEF NextPc
      <3> QED BY <1>1, <1>3, <2>5, <3>2, <3>3 DEF Leaves, Answering
    <2> QED BY <1>3, <2>1, <2>2, <2>3, <2>4, <2>5
  <1> QED BY <1>7, <1>8, <1>9

LEMMA OrderSend ==
    ASSUME FlowInv, NEW c \in Clients, HSend(c), Answering(c), Clean(c)'
    PROVE  Answering(c)'
  <1> DEFINE content == fs[hDir[c]][hName[c]]
             w == Blocks(content)
  <1>1. /\ hPc[c] = "send" /\ Exists(hDir[c], hName[c]) /\ hPc'[c] = "type" /\ down'[c] = down[c] \o w
        /\ UNCHANGED <<fs, hType, hDir, cPc, cDir, cWant, local, up>>
        /\ faults'[c] = IF Len(content) # cWant[c].size THEN faults[c] \cup {"stale"} ELSE faults[c]
        /\ hName[c] \in Names
    BY Domains DEF HSend, At, Go, Put, Faulty, clientVars, FlowInv, FileServerTypeOK, Exists
  <1>2. /\ cPc[c] = "data" /\ down[c] = <<>> /\ local[c][cWant[c].name] = <<>>
        /\ up[c] = <<>> /\ hDir[c] = cDir[c] /\ hName[c] = cWant[c].name
    BY <1>1, PhaseIs DEF AsksFile
  <1>3. Len(content) = cWant[c].size
    BY <1>1 DEF Clean
  <1>4. content \in Seq(Block)
    BY <1>1 DEF FlowInv, FileServerTypeOK, Exists, File
  <1> HIDE DEF content
  <1>5. w \in Seq(DataWrite) /\ Len(w) = Len(content) /\ \A k \in 1 .. Len(content) : w[k] = Write("data", content[k])
    BY <1>4, BlocksData
  <1> HIDE DEF w
  <1>6. Values(w) = content
    <2>1. \A x : Write("data", x).val = x
      BY DEF Write
    <2>2. \A k \in 1 .. Len(content) : w[k].val = content[k]
      BY <1>5, <2>1
    <2>3. Values(w) = [k \in 1 .. Len(content) |-> content[k]]
      BY <1>5, <2>2 DEF Values
    <2> QED BY <1>4, <2>3
  <1>7. IsData(w, 1)
    <2>1. \A x \in DataWrite : x.kind = "data"
      BY DEF DataWrite
    <2> QED BY <1>5, <2>1 DEF IsData
  <1>8. <<>> \o w = w /\ <<>> \o content = content
    BY <1>4, <1>5
  <1>9. down'[c] = w
    BY <1>1, <1>2, <1>8
  <1>10. fs[cDir[c]][cWant[c].name] = content
    BY <1>2 DEF content
  <1>11. Exists(cDir[c], cWant[c].name)
    BY <1>1, <1>2
  <1> QED BY <1>1, <1>2, <1>3, <1>6, <1>7, <1>8, <1>9, <1>10, <1>11 DEF GetsFile, Exists, Answering

(* What is named is the file the client asks for.                          *)
LEMMA OrderSendNothing ==
    ASSUME FlowInv, ClientInv, NEW c \in Clients, Answering(c)
    PROVE  ~HSendNothing(c)
  <1> SUFFICES ASSUME HSendNothing(c) PROVE FALSE
    OBVIOUS
  <1>1. hPc[c] = "send" /\ hName[c] = NoName
    BY DEF HSendNothing, At
  <1>2. hName[c] = cWant[c].name /\ cPc[c] = "data"
    BY <1>1, PhaseIs DEF AsksFile
  <1>3. cWant[c].name \in Names
    BY <1>2 DEF ClientInv
  <1> QED BY <1>1, <1>2, <1>3, FileServerAssumption

LEMMA OrderPort == ASSUME FlowInv, NEW c \in Clients, HPort(c), Answering(c) PROVE Answering(c)'
  <1> DEFINE w == <<Write("port", c)>>
  <1>1. /\ hPc[c] = "port" /\ hPc'[c] = "upath" /\ down'[c] = down[c] \o w
        /\ UNCHANGED <<cPc, up>> /\ upload'[c] = <<>>
    BY Domains DEF HPort, At, Go, Put, clientVars
  <1>2. cPc[c] = "port" /\ up[c] = <<>> /\ down[c] = <<>>
    BY <1>1, PhaseIs DEF GetsPort
  <1>3. <<>> \o w = w /\ Len(w) = 1 /\ w[1].kind = "port"
    BY DEF Write
  <1> QED BY <1>1, <1>2, <1>3 DEF GetsPort, Answering

(* An upload, which the client does not wait for.                          *)
LEMMA OrderUploads ==
    ASSUME FlowInv, NEW c \in Clients, Answering(c),
           \/ hPc[c] = "upath" /\ upload[c] # <<>>
           \/ hPc[c] \in {"usize", "udata"},
           hPc'[c] \in {"usize", "udata", "type"},
           UNCHANGED <<cPc, cDir, cWant, local, up, down>>
    PROVE  Answering(c)'
  <1>1. Queued(c)
    BY PhaseIs DEF GetsPort
  <1> QED BY <1>1 DEF Queued, Busy, Answering

LEMMA OrderUpload ==
    ASSUME FlowInv, NEW c \in Clients, HUploadPath(c) \/ HUploadSize(c) \/ HUploadData(c) \/ HUploadEnd(c),
           Answering(c)
    PROVE  Answering(c)'
  <1>1. CASE HUploadPath(c)
    <2>1. hPc[c] = "upath" /\ upload[c] # <<>>
      BY <1>1 DEF HUploadPath, At, ReadPath
    <2>2. hPc'[c] = "usize" /\ UNCHANGED <<cPc, cDir, cWant, local, up, down>>
      BY <1>1, Domains DEF HUploadPath, ReadPath, Go, clientVars
    <2> QED BY <2>1, <2>2, OrderUploads
  <1>2. CASE HUploadSize(c)
    <2>1. hPc[c] = "usize" /\ hPc'[c] = "udata" /\ UNCHANGED <<cPc, cDir, cWant, local, up, down>>
      BY <1>2, Domains DEF HUploadSize, At, Go, clientVars
    <2> QED BY <2>1, OrderUploads
  <1>3. CASE HUploadData(c)
    <2>1. /\ hPc[c] = "udata" /\ hPc'[c] \in {"udata", "type"}
          /\ UNCHANGED <<cPc, cDir, cWant, local, up, down>>
      BY <1>3, Domains DEF HUploadData, StoreData, At, Go, clientVars
    <2> QED BY <2>1, OrderUploads
  <1>4. CASE HUploadEnd(c)
    <2>1. /\ hPc[c] \in {"usize", "udata"}
          /\ hPc'[c] = "type" /\ UNCHANGED <<cPc, cDir, cWant, local, up, down>>
      BY <1>4, Domains DEF HUploadEnd, At, Go, clientVars
    <2> QED BY <2>1, OrderUploads
  <1> QED BY <1>1, <1>2, <1>3, <1>4

LEMMA OrderStays ==
    ASSUME NEW c \in Clients, Answering(c),
           UNCHANGED <<fs, threadVars, clientVars, up, down, upload>>
    PROVE  Answering(c)'
  <1>1. UNCHANGED <<fs, hPc, hType, hDir, hName, cPc, cDir, cListed, cLeft, cWant, local, up, down, upload>>
    BY DEF threadVars, clientVars
  <1>2. Entries(hDir[c])' = Entries(hDir[c])
    BY <1>1 DEF Entries, FileEntry
  <1>3. Queued(c) => Queued(c)'
    BY <1>1, <1>2 DEF Queued, Busy
  <1>4. AsksListing(c) => AsksListing(c)'
    BY <1>1 DEF AsksListing
  <1>5. AsksFile(c) => AsksFile(c)'
    BY <1>1 DEF AsksFile
  <1>6. GetsCount(c) => GetsCount(c)'
    BY <1>1, <1>2 DEF GetsCount, AreEntries
  <1>7. GetsEntries(c) => GetsEntries(c)'
    BY <1>1, <1>2 DEF GetsEntries, AreEntries
  <1>8. GetsFile(c) => GetsFile(c)'
    BY <1>1 DEF GetsFile, Exists
  <1>9. GetsPort(c) => GetsPort(c)'
    BY <1>1 DEF GetsPort
  <1>10. Leaves(c) => Leaves(c)'
    BY <1>1 DEF Leaves
  <1> QED BY <1>3, <1>4, <1>5, <1>6, <1>7, <1>8, <1>9, <1>10 DEF Answering

(* The end of the connection is not found while the client waits for an    *)
(* answer: a client that has quit has written the last command before.     *)
LEMMA NoEndFound ==
    ASSUME FlowInv, NEW c \in Clients, Answering(c), cPc[c] # "vanished"
    PROVE  ~HEnd(c)
  <1> SUFFICES ASSUME HEnd(c) PROVE FALSE
    OBVIOUS
  <1>1. cPc[c] = "done"
    BY DEF HEnd, Gone
  <1>2. \/ hPc[c] \in {"type", "dlname", "dlmore"} /\ up[c] = <<>>
        \/ hPc[c] = "upath" /\ upload[c] = <<>>
    BY DEF HEnd
  <1>3. Queued(c) \/ Leaves(c)
    BY <1>1, PhaseIs
  <1>4. CASE Leaves(c)
    BY <1>1, <1>2, <1>4 DEF Leaves
  <1>5. CASE Queued(c)
    <2>1. Ends(up[c], <<Write("type", 4)>>)
      BY <1>1, <1>5 DEF Queued, Pending
    <2>2. up[c] # <<>>
      BY <2>1 DEF Ends
    <2> QED BY <1>2, <1>5, <2>2 DEF Queued, Busy
  <1> QED BY <1>3, <1>4, <1>5

LEMMA OrderClient ==
    ASSUME FlowInv, ServedInv, ClientInv, OrderInv, NEW c \in Clients, UserStep(c) \/ ClientStep(c)
    PROVE  OrderInv'
  <1>1. Framed(c)
    BY UserFrames, ClientFrames
  <1>2. ASSUME Answering(c), cPc'[c] \notin {"vanished", "lost"} PROVE Answering(c)'
    <2>1. CASE UserStep(c)
      <3>1. ~CVanish(c)
        BY <1>2, Domains DEF CVanish
      <3> QED BY <1>2, <2>1, <3>1, OrderUser
    <2>2. CASE ClientStep(c)
      <3>1. ~CLost(c)
        BY <1>2, Domains DEF CLost
      <3> QED BY <1>2, <2>2, <3>1, OrderConnect, OrderCCount, OrderCEntry, OrderCData, OrderCPort DEF ClientStep
    <2> QED BY <2>1, <2>2
  <1> QED BY <1>1, <1>2, OrderStep

LEMMA OrderThread ==
    ASSUME FlowInv, ServedInv, ClientInv, OrderInv, NEW c \in Clients, ThreadStep(c)
    PROVE  OrderInv'
  <1>1. Framed(c)
    BY ThreadFrames
  <1>2. ASSUME Answering(c), Clean(c), Clean(c)', cPc[c] \notin {"vanished", "lost"} PROVE Answering(c)'
    <2>1. CASE HLsPath(c) \/ HCount(c) \/ HEntries(c) \/ HType(c) \/ HDownloadPath(c) \/ HDownloadName(c)
      BY <1>2, <2>1, OrderLsPath, OrderCount, OrderEntries, OrderType, OrderDownloadPath, OrderDownloadName
    <2>2. CASE HSend(c) \/ HPort(c)
      BY <1>2, <2>2, OrderSend, OrderPort
    <2>6. ~HSendNothing(c)
      BY <1>2, OrderSendNothing
    <2>3. CASE HUploadPath(c) \/ HUploadSize(c) \/ HUploadData(c) \/ HUploadEnd(c)
      BY <1>2, <2>3, OrderUpload
    <2>4. CASE HOpenFails(c) \/ HCrash(c)
      BY <1>2, <2>4, DieFrames, OrderStays DEF HOpenFails, HCrash
    <2>5. ~HEnd(c)
      BY <1>2, NoEndFound
    <2> QED BY <2>1, <2>2, <2>3, <2>4, <2>5, <2>6 DEF ThreadStep
  <1> QED BY <1>1, <1>2, OrderStep

LEMMA OrderOverwritten ==
    ASSUME FlowInv, ServedInv, OrderInv, NEW c \in Clients, HOverwritten(c)
    PROVE  OrderInv'
  <1>1. Framed(c) /\ UNCHANGED <<fs, threadVars, clientVars, up, down, upload, faults>>
    BY DieFrames DEF HOverwritten
  <1>2. Answering(c) => Answering(c)'
    BY <1>1, OrderStays
  <1> QED BY <1>1, <1>2, OrderStep

LEMMA OrderMain == ASSUME FlowInv, ServedInv, OrderInv, MainStep PROVE OrderInv'
  <1>1. CASE MLeave
    <2>1. UNCHANGED <<fs, links, outside, threadVars, clientVars, up, down, upload, faults>>
      BY <1>1 DEF MLeave
    <2>2. ASSUME NEW c \in Clients PROVE InOrder(c)'
      <3>1. Answering(c) => Answering(c)'
        BY <2>1, OrderStays
      <3> QED BY <2>1, <3>1 DEF OrderInv, InOrder, Clean, Disturbed, clientVars
    <2> QED BY <2>2 DEF OrderInv
  <1>2. ASSUME NEW c \in Clients, MAccept(c) PROVE OrderInv'
    <2>1. Framed(c)
      BY <1>2, Domains DEF MAccept, Framed, Others, clientVars
    <2>2. Answering(c) => Answering(c)'
      BY <1>2, OrderAccept
    <2> QED BY <2>1, <2>2, OrderStep
  <1> QED BY <1>1, <1>2 DEF MainStep

LEMMA OrderInductive == FlowInv /\ ServedInv /\ ClientInv /\ OrderInv /\ [Next]_vars => OrderInv'
  <1> SUFFICES ASSUME FlowInv, ServedInv, ClientInv, OrderInv, [Next]_vars PROVE OrderInv'
    OBVIOUS
  <1>1. CASE MainStep
    BY <1>1, OrderMain
  <1>2. CASE Outsider
    <2>1. outside \in Nat /\ outside' = outside + 1
      BY <1>2, FileServerAssumption DEF Outsider, FlowInv, FileServerTypeOK
    <2>2. Disturbed'
      BY <2>1 DEF Disturbed
    <2> QED BY <2>2 DEF OrderInv, InOrder, Clean
  <1>3. ASSUME NEW c \in Clients, UserStep(c) \/ ClientStep(c) \/ ThreadStep(c) PROVE OrderInv'
    BY <1>3, OrderClient, OrderThread
  <1>5. ASSUME NEW c \in Clients, HOverwritten(c) PROVE OrderInv'
    BY <1>5, OrderOverwritten
  <1>4. CASE UNCHANGED vars
    <2>1. UNCHANGED <<fs, links, outside, threadVars, clientVars, up, down, upload, faults>>
      BY <1>4 DEF vars
    <2>2. ASSUME NEW c \in Clients PROVE InOrder(c)'
      <3>1. Answering(c) => Answering(c)'
        BY <2>1, OrderStays
      <3> QED BY <2>1, <3>1 DEF OrderInv, InOrder, Clean, Disturbed, clientVars
    <2> QED BY <2>2 DEF OrderInv
  <1> QED BY <1>1, <1>2, <1>3, <1>4, <1>5 DEF Next

LEMMA OrderInitial == Init => OrderInv
  BY DEF Init, OrderInv, InOrder, Answering, Leaves

LEMMA OrderHolds == Spec => [](FlowInv /\ ServedInv /\ ClientInv /\ OrderInv)
  <1>1. Spec => []OrderInv
    <2>1. (FlowInv /\ ServedInv /\ ClientInv) /\ OrderInv /\ [Next]_vars => OrderInv'
      BY OrderInductive
    <2> QED BY <2>1, OrderInitial, FlowHolds, PTL DEF Spec
  <1> QED BY <1>1, FlowHolds, PTL

LEMMA MenusDrained == FlowInv /\ OrderInv => MenuDrained
  <1> SUFFICES ASSUME FlowInv, OrderInv, NEW c \in Clients, Clean(c),
                      (cPc[c] = "menu" /\ down[c] # <<>>) \/ cPc[c] = "garbled"
               PROVE  FALSE
    BY DEF MenuDrained, Clean
  <1>1. Answering(c)
    BY DEF OrderInv, InOrder
  <1> QED BY <1>1, PhaseIs DEF Queued

(* Without a file whose size was not the listed one, and with directories  *)
(* as count_dir() counts them, no answer of the server is left over when   *)
(* the menu is shown, or taken for another: whatever is read at once.      *)
THEOREM MenusAreDrained == Spec => []MenuDrained
  BY OrderHolds, MenusDrained, PTL

LEMMA DownloadStep ==
    ASSUME FlowInv, ServedInv, ClientInv, OrderInv, [Next]_vars, NEW c \in Clients,
           cPc[c] = "data", cPc'[c] = "menu", faults[c] = {}, ~Disturbed
    PROVE  local'[c][cWant[c].name] = fs[cDir[c]][cWant[c].name]
  <1>1. Answering(c)
    BY DEF OrderInv, InOrder, Clean
  <1>2. ~(UNCHANGED clientVars)
    BY DEF clientVars
  <1>3. PICK d \in Clients : UserStep(d) \/ ClientStep(d) \/ ThreadStep(d)
    BY <1>2 DEF Next, MainStep, MLeave, MAccept, Outsider, HOverwritten, Die, vars
  <1>4. ~ThreadStep(d)
    BY <1>2, ThreadFrames
  <1>5. d = c
    BY <1>3, <1>4, UserFrames, ClientFrames DEF Framed, Others
  <1>6. ~UserStep(c)
    BY Domains DEF UserStep, CCd, CLs, CDownload, CUpload, CQuit, CVanish, Command
  <1>7. CData(c)
    BY <1>3, <1>4, <1>5, <1>6, Domains DEF ClientStep, CConnect, CCount, CEntry, CPort, CLost
  <1>8. GetsFile(c)
    BY <1>1, <1>7, PhaseIs DEF CData, ReadData, Queued, AsksFile
  <1> QED BY <1>7, <1>8, FileRead

(* A client that was told the size of the file, and that nothing went      *)
(* wrong with, has at its menu exactly the file of the server's directory  *)
(* it is in, in whatever parts the blocks were read.                       *)
THEOREM DownloadsAreExact == Spec => DownloadExact
  <1>1. (FlowInv /\ ServedInv /\ ClientInv /\ OrderInv) /\ [Next]_vars =>
            [\A c \in Clients :
                cPc[c] = "data" /\ cPc'[c] = "menu" /\ faults[c] = {} /\ ~Disturbed
                    => local'[c][cWant[c].name] = fs[cDir[c]][cWant[c].name]]_vars
    BY DownloadStep
  <1> QED BY <1>1, OrderHolds, PTL DEF DownloadExact, Spec

-----------------------------------------------------------------------------
(* What ends the process.                                                  *)

LEMMA UploadGets ==
    ASSUME FlowInv, NEW c \in Clients, HUploadData(c)
    PROVE  hDir[c] \in Dirs /\ \E got \in Seq(Block) : fs' = [fs EXCEPT ![hDir[c]][Hello] = got]
  <1> DEFINE s == upload[c]
             d == hDir[c]
             old == fs[d][Hello]
  <1>1. hPc[c] = "udata" /\ s \in Seq(UploadWrite)
    BY DEF HUploadData, StoreData, At, FlowInv, QueuesOK
  <1>2. PICK n \in 1 .. Len(s) : fs' = [fs EXCEPT ![d][Hello] = old \o Values(SubSeq(s, 1, n))]
    BY DEF HUploadData, StoreData
  <1>3. IsData(s, 1) /\ d \in Dirs /\ old # None
    BY <1>1 DEF FlowInv, Stored, Exists
  <1> DEFINE new == Values(SubSeq(s, 1, n))
  <1>4. new \in Seq(Block)
    <2>1. \A k \in 1 .. Len(s) : s[k].val \in Block
      BY <1>1, <1>3, UploadKinds DEF IsData
    <2> QED BY <1>1, <2>1, ValuesRead
  <1>5. old \in Seq(Block)
    BY <1>3, FileServerAssumption DEF FlowInv, FileServerTypeOK, File
  <1> HIDE DEF old, new
  <1>6. old \o new \in Seq(Block)
    BY <1>4, <1>5, JoinedLength, Zenon
  <1>7. fs' = [fs EXCEPT ![d][Hello] = old \o new]
    BY <1>2 DEF new
  <1> QED BY <1>3, <1>6, <1>7

(* No file of the server goes away, unless another program removes it.     *)
LEMMA FilesStay ==
    ASSUME FlowInv, NEW c \in Clients, UserStep(c) \/ ClientStep(c) \/ ThreadStep(c),
           NEW d, NEW n \in Names, Exists(d, n)
    PROVE  Exists(d, n)'
  <1>1. CASE UNCHANGED fs
    BY <1>1 DEF Exists
  <1>2. ASSUME NEW dir \in Dirs, NEW got \in Seq(Block), fs' = [fs EXCEPT ![dir][Hello] = got]
        PROVE  Exists(d, n)'
    <2>1. got # None /\ fs \in [Dirs -> [Names -> File]] /\ Hello \in Names
      BY FileServerAssumption DEF FlowInv, FileServerTypeOK
    <2> QED BY <1>2, <2>1 DEF Exists
  <1>3. <<>> \in Seq(Block)
    OBVIOUS
  <1>4. CASE HUploadSize(c)
    BY <1>2, <1>3, <1>4 DEF HUploadSize
  <1>5. CASE HUploadData(c)
    BY <1>2, <1>5, UploadGets
  <1>6. CASE HUploadEnd(c)
    BY <1>1, <1>2, <1>3, <1>6 DEF HUploadEnd
  <1>7. CASE UserStep(c)
    BY <1>1, <1>7 DEF UserStep, CCd, CLs, CDownload, CUpload, CQuit, CVanish, Command
  <1>8. CASE ClientStep(c)
    BY <1>1, <1>8 DEF ClientStep, CConnect, CCount, CEntry, CData, ReadData, CPort, CLost
  <1>9. CASE HLsPath(c) \/ HCount(c) \/ HEntries(c) \/ HType(c) \/ HDownloadPath(c) \/ HDownloadName(c)
             \/ HSend(c) \/ HSendNothing(c) \/ HPort(c) \/ HUploadPath(c)
    BY <1>1, <1>9 DEF HLsPath, HCount, HEntries, HType, HDownloadPath, HDownloadName, HSend, HSendNothing,
                      HPort, HUploadPath, ReadPath
  <1>10. CASE HOpenFails(c) \/ HCrash(c) \/ HEnd(c)
    BY <1>1, <1>10 DEF HOpenFails, HCrash, HEnd, Die
  <1> QED BY <1>4, <1>5, <1>6, <1>7, <1>8, <1>9, <1>10 DEF ThreadStep

LEMMA InfoNames ==
    ASSUME FlowInv, NEW c \in Clients, NEW e \in cInfo[c]
    PROVE  e \in Entry /\ (e.type = 0 => e.name \in Names) /\ (e.type = 1 => e = DirEntry)
  <1>1. e \in Entry
    BY DEF FlowInv, FileServerTypeOK
  <1> QED BY <1>1 DEF Entry, DirEntry

(* A step that changes neither the listing nor the client's path, and      *)
(* starts neither a download nor the reading of an upload's path.          *)
LEMMA FoundedStays ==
    ASSUME FlowInv, ClientInv, NEW c \in Clients, Founded(c),
           \A d : \A n \in Names : Exists(d, n) => Exists(d, n)',
           cDir'[c] = cDir[c], cInfo'[c] = cInfo[c], cListed'[c] = cListed[c],
           cPc'[c] = "data" => cPc[c] = "data" /\ cWant'[c] = cWant[c],
           hPc'[c] = "upath" /\ upload'[c] # <<>> => hPc[c] = "upath" /\ upload'[c] = upload[c],
           hPc'[c] = "usize" => hPc[c] = "usize" /\ hDir'[c] = hDir[c]
    PROVE  Founded(c)'
  <1>1. cDir'[c] \in Dirs
    BY DEF Founded
  <1>2. ASSUME NEW e \in cInfo'[c]
        PROVE  (e.type = 1 => cListed'[c] = Root) /\ (e.type = 0 => Exists(cListed[c], e.name)')
    <2>1. /\ e.type = 1 => cListed[c] = Root
          /\ e.type = 0 => e.name \in Names /\ Exists(cListed[c], e.name)
      BY <1>2, InfoNames DEF Founded
    <2>2. PICK l : l = cListed[c]
      OBVIOUS
    <2>3. e.type = 0 => Exists(l, e.name)'
      BY <2>1, <2>2
    <2> QED BY <2>1, <2>2, <2>3 DEF Exists
  <1>3. ASSUME cPc'[c] = "data" PROVE Exists(cDir[c], cWant[c].name)'
    <2>1. cWant[c].name \in Names /\ Exists(cDir[c], cWant[c].name)
      BY <1>3 DEF Founded, ClientInv
    <2>2. PICK l, n : l = cDir[c] /\ n = cWant[c].name
      OBVIOUS
    <2>3. Exists(l, n)'
      BY <2>1, <2>2
    <2> QED BY <1>3, <2>2, <2>3 DEF Exists
  <1>4. hPc'[c] = "upath" /\ upload'[c] # <<>> => upload'[c][1].val \in Dirs
    BY DEF Founded
  <1>5. hPc'[c] = "usize" => hDir'[c] \in Dirs
    BY DEF Founded
  <1> QED BY <1>1, <1>2, <1>3, <1>4, <1>5 DEF Founded

LEMMA SoundStep ==
    ASSUME FlowInv, ClientInv, SoundInv, NEW c \in Clients, Framed(c),
           \A d : \A n \in Names : Exists(d, n) => Exists(d, n)',
           Sound(c) /\ Sound(c)' /\ Founded(c) => Founded(c)'
    PROVE  SoundInv'
  <1>1. Sound(c)' => Founded(c)'
    <2>1. Sound(c)' => Sound(c)
      BY DEF Framed, Sound, Clean, Disturbed
    <2> QED BY <2>1 DEF SoundInv
  <1>2. ASSUME NEW d \in Clients, d # c, Sound(d)' PROVE Founded(d)'
    <2>1. /\ hPc'[d] = hPc[d] /\ hDir'[d] = hDir[d] /\ cPc'[d] = cPc[d] /\ cDir'[d] = cDir[d]
          /\ cInfo'[d] = cInfo[d] /\ cListed'[d] = cListed[d] /\ cWant'[d] = cWant[d]
          /\ upload'[d] = upload[d] /\ faults'[d] = faults[d]
      BY <1>2 DEF Framed, Others
    <2>2. Sound(d)
      BY <1>2, <2>1 DEF Framed, Sound, Clean, Disturbed
    <2>3. Founded(d)
      BY <2>2 DEF SoundInv
    <2> QED BY <2>1, <2>3, FoundedStays
  <1> QED BY <1>1, <1>2 DEF SoundInv

LEMMA SoundUser ==
    ASSUME FlowInv, ClientInv, NEW c \in Clients, UserStep(c), Sound(c)', Founded(c),
           \A d : \A n \in Names : Exists(d, n) => Exists(d, n)'
    PROVE  Founded(c)'
  <1>0. /\ cDir[c] \in Dirs
        /\ \A e \in cInfo[c] : /\ e.type = 1 => cListed[c] = Root
                               /\ e.type = 0 => Exists(cListed[c], e.name)
        /\ hPc[c] = "upath" /\ upload[c] # <<>> => upload[c][1].val \in Dirs
        /\ hPc[c] = "usize" => hDir[c] \in Dirs
    BY DEF Founded
  <1>1. ~CVanish(c)
    BY Domains DEF CVanish, Sound
  <1>2. CASE CLs(c) \/ CUpload(c) \/ CQuit(c)
    <2>1. /\ UNCHANGED <<cDir, cInfo, cListed, hPc, hDir, upload>> /\ cPc'[c] # "data"
      BY <1>2, Domains DEF CLs, CUpload, CQuit, Command, threadVars
    <2> QED BY <2>1, FoundedStays
  <1>3. CASE CCd(c)
    <2>1. /\ UNCHANGED <<fs, cInfo, cListed, hPc, hDir, upload>> /\ cPc'[c] = "menu"
          /\ cDir'[c] = IF cDir[c] = Root THEN Sub ELSE Nowhere
          /\ DirEntry \in cInfo[c]
          /\ faults'[c] = IF cListed[c] # cDir[c] THEN faults[c] \cup {"unlisted"} ELSE faults[c]
      BY <1>3, Domains DEF CCd, Command, Faulty, threadVars
    <2>2. cListed[c] = cDir[c]
      BY <2>1 DEF Sound
    <2>3. cListed[c] = Root
      BY <1>0, <2>1 DEF DirEntry
    <2>4. cDir'[c] \in Dirs
      BY <2>1, <2>2, <2>3 DEF Dirs
    <2>5. cInfo'[c] = cInfo[c] /\ cListed'[c] = cListed[c]
      BY <2>1
    <2>6. \A e \in cInfo'[c] : /\ e.type = 1 => cListed'[c] = Root
                               /\ e.type = 0 => Exists(cListed[c], e.name)'
      BY <1>0, <2>1, <2>5 DEF Exists
    <2> QED BY <1>0, <2>1, <2>4, <2>6 DEF Founded
  <1>4. ASSUME NEW e \in cInfo[c], CDownload(c, e) PROVE Founded(c)'
    <2>1. /\ UNCHANGED <<fs, cDir, cInfo, cListed, hPc, hDir, upload>>
          /\ cWant'[c] = e /\ e.type = 0
          /\ faults'[c] = (faults[c] \cup (IF cListed[c] # cDir[c] THEN {"unlisted"} ELSE {}))
                             \cup (IF e.size = 0 THEN {"empty"} ELSE {})
      BY <1>4, Domains DEF CDownload, Command, threadVars
    <2>2. cListed[c] = cDir[c]
      BY <2>1 DEF Sound
    <2>3. Exists(cDir[c], e.name)
      BY <1>0, <2>1, <2>2
    <2>4. Exists(cDir[c], cWant[c].name)'
      BY <2>1, <2>3 DEF Exists
    <2>5. \A f \in cInfo'[c] : /\ f.type = 1 => cListed'[c] = Root
                               /\ f.type = 0 => Exists(cListed[c], f.name)'
      BY <1>0, <2>1 DEF Exists
    <2> QED BY <1>0, <2>1, <2>4, <2>5 DEF Founded
  <1> QED BY <1>1, <1>2, <1>3, <1>4 DEF UserStep

LEMMA SoundClient ==
    ASSUME FlowInv, ServedInv, ClientInv, NEW c \in Clients, ClientStep(c), Sound(c)', Founded(c), Answering(c),
           \A d : \A n \in Names : Exists(d, n) => Exists(d, n)'
    PROVE  Founded(c)'
  <1>0. /\ cDir[c] \in Dirs
        /\ \A e \in cInfo[c] : /\ e.type = 1 => cListed[c] = Root
                               /\ e.type = 0 => Exists(cListed[c], e.name)
        /\ hPc[c] = "upath" /\ upload[c] # <<>> => upload[c][1].val \in Dirs
        /\ hPc[c] = "usize" => hDir[c] \in Dirs
    BY DEF Founded
  <1>1. ~CLost(c)
    BY Domains DEF CLost, Sound
  <1>2. CASE CConnect(c)
    <2>1. UNCHANGED <<cDir, cInfo, cListed, hPc, hDir, upload>> /\ cPc'[c] # "data"
      BY <1>2, Domains DEF CConnect, threadVars
    <2> QED BY <2>1, FoundedStays
  <1>3. CASE CCount(c)
    <2>1. /\ UNCHANGED <<cDir, hPc, hDir, upload>> /\ cInfo'[c] = {}
          /\ cPc'[c] \in {"entry", "menu", "garbled"}
      BY <1>3, Domains DEF CCount, EntryOrMenu, threadVars
    <2> QED BY <1>0, <2>1 DEF Founded
  <1>4. CASE CEntry(c)
    <2> DEFINE w == Head(down[c])
    <2>1. /\ UNCHANGED <<fs, cDir, cListed, hPc, hDir, upload>>
          /\ cPc'[c] \in {"entry", "menu", "garbled"}
          /\ cInfo'[c] \in {cInfo[c], cInfo[c] \cup {w.val}}
          /\ cPc[c] = "entry" /\ down[c] # <<>> /\ down[c] \in Seq(DownWrite)
      BY <1>4, Domains DEF CEntry, EntryOrMenu, threadVars, FlowInv, QueuesOK
    <2>2. GetsEntries(c)
      BY <2>1, PhaseIs
    <2>3. AreEntries(down[c], 1, hDir[c]) /\ hDir[c] = cDir[c] /\ cListed[c] = cDir[c] /\ cDir[c] \in Dirs
      BY <2>2 DEF GetsEntries
    <2>4. w = down[c][1] /\ 1 \in 1 .. Len(down[c])
      BY <2>1, HeadPopped
    <2>5. w.val \in Entries(cDir[c])
      BY <2>3, <2>4 DEF AreEntries
    <2> HIDE DEF w
    <2>6. (w.val.type = 1 => cListed[c] = Root) /\ (w.val.type = 0 => Exists(cListed[c], w.val.name))
      BY <2>3, <2>5, FileServerAssumption DEF Entries, FileEntry, DirEntry, Exists
    <2>7. \A e \in cInfo'[c] : /\ e.type = 1 => cListed'[c] = Root
                               /\ e.type = 0 => Exists(cListed[c], e.name)'
      BY <1>0, <2>1, <2>6 DEF Exists
    <2> QED BY <1>0, <2>1, <2>7 DEF Founded
  <1>5. CASE CData(c)
    <2>1. UNCHANGED <<cDir, cInfo, cListed, cWant, hPc, hDir, upload>> /\ cPc[c] = "data"
      BY <1>5 DEF CData, ReadData, threadVars
    <2> QED BY <2>1, FoundedStays
  <1>6. CASE CPort(c)
    <2>1. /\ UNCHANGED <<fs, cDir, cInfo, cListed, hPc, hDir>> /\ cPc'[c] \in {"menu", "garbled"}
          /\ cPc[c] = "port" /\ down[c] # <<>>
      BY <1>6, Domains DEF CPort, threadVars
    <2>2. GetsPort(c)
      BY <2>1, PhaseIs DEF Queued
    <2>3. hPc[c] = "upath" /\ upload[c] = <<>>
      BY <2>1, <2>2 DEF GetsPort
    <2> DEFINE first == <<Write("path", cDir[c]), Write("size", Len(local[c][Hello]))>>
               rest == Blocks(local[c][Hello])
    <2>4. upload'[c] = upload[c] \/ upload'[c] = upload[c] \o (first \o rest)
      BY <1>6, Domains DEF CPort, Put
    <2>5. /\ first \in Seq(UploadWrite) /\ rest \in Seq(UploadWrite) /\ Len(first) = 2
          /\ first[1].val = cDir[c]
      <3>1. local[c][Hello] \in Seq(Block) /\ cDir[c] \in Dirs \cup {Nowhere}
        BY FileServerAssumption DEF FlowInv, FileServerTypeOK, ClientInv, File
      <3>2. Len(local[c][Hello]) \in Nat
        BY <3>1
      <3>3. Write("path", cDir[c]) \in UploadWrite /\ Write("size", Len(local[c][Hello])) \in UploadWrite
        BY <3>1, <3>2 DEF Write, UploadWrite
      <3>4. rest \in Seq(DataWrite)
        BY <3>1, BlocksData
      <3>5. DataWrite \subseteq UploadWrite
        BY DEF UploadWrite
      <3>6. rest \in Seq(UploadWrite)
        BY <3>4, <3>5
      <3> HIDE DEF rest
      <3> QED BY <3>3, <3>6 DEF Write
    <2> HIDE DEF first, rest
    <2>6. first \in Seq(UploadWrite) /\ rest \in Seq(UploadWrite) /\ first # <<>>
      <3>1. Len(first) # Len(<<>>)
        BY <2>5
      <3> QED BY <2>5, <3>1, Zenon
    <2>7. (first \o rest)[1] = first[1] /\ <<>> \o (first \o rest) = first \o rest
      BY <2>6, JoinedHead, Zenon
    <2> DEFINE t == first \o rest
    <2>8. t[1].val = cDir[c] /\ <<>> \o t = t
      BY <2>5, <2>7
    <2>9. upload'[c] # <<>> => upload'[c][1].val \in Dirs
      <3>1. upload'[c] = <<>> \/ upload'[c] = t
        BY <2>3, <2>4, <2>8
      <3> HIDE DEF t
      <3> QED BY <1>0, <2>3, <2>8, <3>1
    <2>10. \A e \in cInfo'[c] : /\ e.type = 1 => cListed'[c] = Root
                                /\ e.type = 0 => Exists(cListed[c], e.name)'
      BY <1>0, <2>1 DEF Exists
    <2> QED BY <1>0, <2>1, <2>3, <2>9, <2>10 DEF Founded
  <1> QED BY <1>1, <1>2, <1>3, <1>4, <1>5, <1>6 DEF ClientStep

LEMMA SoundThread ==
    ASSUME FlowInv, ClientInv, NEW c \in Clients, ThreadStep(c), Founded(c),
           \A d : \A n \in Names : Exists(d, n) => Exists(d, n)'
    PROVE  Founded(c)'
  <1>1. UNCHANGED <<cDir, cInfo, cListed, cPc, cWant>>
    BY ThreadFrames DEF clientVars
  <1>2. CASE HUploadPath(c)
    <2>1. /\ hPc[c] = "upath" /\ upload[c] # <<>> /\ upload[c] \in Seq(UploadWrite)
          /\ hDir'[c] = Head(upload[c]).val /\ hPc'[c] = "usize" /\ UNCHANGED fs
      BY <1>2, Domains DEF HUploadPath, At, ReadPath, Go, FlowInv, QueuesOK
    <2>2. Head(upload[c]) = upload[c][1]
      BY <2>1, HeadPopped
    <2>3. hDir'[c] \in Dirs
      BY <2>1, <2>2 DEF Founded
    <2> QED BY <1>1, <2>1, <2>3 DEF Founded, Exists
  <1>3. CASE HPort(c)
    <2>1. upload'[c] = <<>> /\ hPc'[c] = "upath"
      BY <1>3, Domains DEF HPort, Go
    <2> QED BY <1>1, <2>1, FoundedStays
  <1>4. ASSUME hPc'[c] \notin {"upath", "usize"} \/ UNCHANGED <<hPc, hDir, upload>> PROVE Founded(c)'
    BY <1>1, <1>4, FoundedStays
  <1>5. CASE HLsPath(c) \/ HDownloadPath(c)
    BY <1>4, <1>5, Domains DEF HLsPath, HDownloadPath, ReadPath, Go
  <1>6. CASE HType(c)
    <2>1. \A type : NextPc(type) \notin {"upath", "usize"}
      BY DEF NextPc
    <2> QED BY <1>4, <1>6, <2>1, Domains DEF HType, Go
  <1>7. CASE HCount(c) \/ HEntries(c) \/ HDownloadName(c) \/ HSend(c) \/ HSendNothing(c)
    BY <1>4, <1>7, Domains DEF HCount, HEntries, HDownloadName, HSend, HSendNothing, Go
  <1>8. CASE HUploadSize(c) \/ HUploadData(c) \/ HUploadEnd(c)
    BY <1>4, <1>8, Domains DEF HUploadSize, HUploadData, StoreData, HUploadEnd, Go
  <1>9. CASE Die
    BY <1>4, <1>9 DEF Die, threadVars
  <1>10. CASE HEnd(c) /\ ~Die
    BY <1>4, <1>10, Domains DEF HEnd, Go
  <1> QED BY <1>2, <1>3, <1>5, <1>6, <1>7, <1>8, <1>9, <1>10 DEF ThreadStep, HOpenFails, HCrash

LEMMA SoundInductive == FlowInv /\ ServedInv /\ ClientInv /\ OrderInv /\ SoundInv /\ [Next]_vars => SoundInv'
  <1> SUFFICES ASSUME FlowInv, ServedInv, ClientInv, OrderInv, SoundInv, [Next]_vars PROVE SoundInv'
    OBVIOUS
  <1>1. ASSUME NEW c \in Clients, UserStep(c) \/ ClientStep(c) \/ ThreadStep(c) PROVE SoundInv'
    <2>1. Framed(c)
      BY <1>1, UserFrames, ClientFrames, ThreadFrames
    <2>2. \A d : \A n \in Names : Exists(d, n) => Exists(d, n)'
      BY <1>1, FilesStay
    <2>3. ASSUME Sound(c), Sound(c)', Founded(c) PROVE Founded(c)'
      <3>1. Answering(c)
        BY <2>3 DEF Sound, OrderInv, InOrder
      <3> QED BY <1>1, <2>2, <2>3, <3>1, SoundUser, SoundClient, SoundThread
    <2> QED BY <2>1, <2>2, <2>3, SoundStep
  <1>2. CASE Outsider
    <2>1. outside \in Nat /\ outside' = outside + 1
      BY <1>2, FileServerAssumption DEF Outsider, FlowInv, FileServerTypeOK
    <2>2. Disturbed'
      BY <2>1 DEF Disturbed
    <2> QED BY <2>2 DEF SoundInv, Sound, Clean
  <1>3. ASSUME UNCHANGED <<fs, links, outside, hDir, clientVars, upload, faults>>,
               \A c \in Clients : hPc'[c] = hPc[c] \/ hPc'[c] = "lspath"
        PROVE  SoundInv'
    <2>1. ASSUME NEW c \in Clients, Sound(c)' PROVE Founded(c)'
      <3>1. Sound(c)
        BY <1>3, <2>1 DEF Sound, Clean, Disturbed, clientVars
      <3>2. \A d : \A n \in Names : Exists(d, n) => Exists(d, n)'
        BY <1>3 DEF Exists
      <3>3. UNCHANGED <<cDir, cInfo, cListed, cPc, cWant, hDir, upload>>
        BY <1>3 DEF clientVars
      <3>4. hPc'[c] = hPc[c] \/ hPc'[c] = "lspath"
        BY <1>3
      <3>5. Founded(c)
        BY <3>1 DEF SoundInv
      <3> QED BY <3>2, <3>3, <3>4, <3>5, FoundedStays
    <2> QED BY <2>1 DEF SoundInv
  <1>4. CASE UNCHANGED vars
    BY <1>3, <1>4 DEF vars, threadVars
  <1>5. CASE MainStep
    BY <1>3, <1>5, Domains DEF MainStep, MLeave, MAccept, threadVars
  <1>6. ASSUME NEW c \in Clients, HOverwritten(c) PROVE SoundInv'
    BY <1>3, <1>6 DEF HOverwritten, Die, threadVars
  <1> QED BY <1>1, <1>2, <1>4, <1>5, <1>6 DEF Next

LEMMA SoundInitial == Init => SoundInv
  BY DEF Init, SoundInv, Founded, Dirs, Root

LEMMA SoundHolds == Spec => [](FlowInv /\ ServedInv /\ ClientInv /\ OrderInv /\ SoundInv)
  <1>1. Spec => []SoundInv
    <2>1. (FlowInv /\ ServedInv /\ ClientInv /\ OrderInv) /\ SoundInv /\ [Next]_vars => SoundInv'
      BY SoundInductive
    <2> QED BY <2>1, SoundInitial, OrderHolds, PTL DEF Spec
  <1> QED BY <1>1, OrderHolds, PTL

Blamed(c) == cPc[c] = "vanished" \/ faults[c] \cap {"unlisted", "overrun", "swallowed", "stale"} # {}

(* error_handling() and SIGPIPE are not met without a reason.              *)
LEMMA DiesForAReason ==
    ASSUME FlowInv, OrderInv, SoundInv, EndInv, NEW c \in Clients,
           HOpenFails(c) \/ HCrash(c) \/ HEnd(c), mPc = "serving"
    PROVE  Disturbed \/ Blamed(c)
  <1> SUFFICES ASSUME ~Disturbed, ~Blamed(c) PROVE FALSE
    OBVIOUS
  <1>1. cPc[c] \notin {"vanished", "lost"}
    BY DEF EndInv, Serving, Blamed
  <1>2. Clean(c) /\ "unlisted" \notin faults[c]
    BY DEF Clean, Blamed
  <1>3. Answering(c) /\ Founded(c)
    BY <1>1, <1>2 DEF OrderInv, InOrder, SoundInv, Sound
  <1>5. hPc[c] = "count" => hDir[c] \in Dirs /\ cPc[c] = "count"
    BY <1>3, PhaseIs DEF AsksListing, Founded
  <1>6. hPc[c] = "send" => Exists(hDir[c], hName[c]) /\ cPc[c] = "data"
    BY <1>3, PhaseIs DEF AsksFile, Founded
  <1>7. hPc[c] = "usize" => hDir[c] \in Dirs
    BY <1>3 DEF Founded
  <1>8. hPc[c] = "port" => cPc[c] = "port"
    BY <1>3, PhaseIs DEF GetsPort
  <1>9. hPc[c] = "entries" /\ Entries(hDir[c]) # {} => cPc[c] # "done"
    BY <1>3, PhaseIs DEF Queued, Busy, GetsCount, GetsEntries
  <1>10. ~HOpenFails(c)
    BY <1>5, <1>6, <1>7 DEF HOpenFails, At
  <1>11. ~HCrash(c)
    BY <1>1, <1>5, <1>6, <1>8, <1>9 DEF HCrash, At, Gone
  <1>12. ~HEnd(c)
    BY <1>1, <1>3, NoEndFound
  <1> QED BY <1>10, <1>11, <1>12

LEMMA BlameStays ==
    ASSUME FlowInv, NEW c \in Clients, UserStep(c) \/ ClientStep(c) \/ ThreadStep(c), NEW d \in Clients,
           Blamed(d)
    PROVE  Blamed(d)'
  <1>1. Framed(c)
    BY UserFrames, ClientFrames, ThreadFrames
  <1>2. cPc[c] = "vanished" => cPc'[c] = "vanished"
    BY ThreadFrames
       DEF UserStep, CCd, CLs, CDownload, CUpload, CQuit, CVanish, Command,
           ClientStep, CConnect, CCount, CEntry, CData, ReadData, CPort, CLost, clientVars
  <1>3. CASE d = c
    BY <1>1, <1>2, <1>3 DEF Framed, Blamed
  <1>4. CASE d # c
    BY <1>1, <1>4 DEF Framed, Others, Blamed
  <1> QED BY <1>3, <1>4

Excused == Disturbed \/ \E c \in Clients : Blamed(c)

LEMMA EndStep ==
    ASSUME FlowInv, ServedInv, OrderInv, SoundInv, EndInv, NEW c \in Clients,
           UserStep(c) \/ ClientStep(c) \/ ThreadStep(c)
    PROVE  EndInv'
  <1>1. Framed(c)
    BY UserFrames, ClientFrames, ThreadFrames
  <1>2. CASE UserStep(c) \/ ClientStep(c)
    <2>1. UNCHANGED <<mPc, threads>>
      BY <1>2 DEF UserStep, CCd, CLs, CDownload, CUpload, CQuit, CVanish, Command,
                  ClientStep, CConnect, CCount, CEntry, CData, ReadData, CPort, CLost, serverVars, threadVars
    <2>2. cPc'[c] = "lost" => cPc[c] = "lost" \/ ~Serving
      BY <1>2, Domains DEF UserStep, CCd, CLs, CDownload, CUpload, CQuit, CVanish, Command,
                  ClientStep, CConnect, CCount, CEntry, CData, ReadData, CPort, CLost, EntryOrMenu
    <2>3. ASSUME NEW d \in Clients PROVE cPc'[d] = "lost" => ~Serving'
      BY <1>1, <2>1, <2>2 DEF EndInv, Framed, Others, Serving
    <2>4. Excused => Excused'
      BY <1>2, <1>1, BlameStays DEF Excused, Framed, Disturbed
    <2> QED BY <2>1, <2>3, <2>4 DEF EndInv, Excused, Blamed
  <1>3. CASE ThreadStep(c)
    <2>1. mPc = "serving" /\ (mPc' = "serving" \/ Die)
      BY <1>3 DEF ThreadStep, HLsPath, HDownloadPath, HUploadPath, ReadPath, HCount, HEntries, HType,
                  HDownloadName, HSend, HSendNothing, HPort, HUploadSize, HUploadData, StoreData, HUploadEnd, HOpenFails,
                  HCrash, HEnd, At, serverVars
    <2>2. UNCHANGED cPc
      BY <1>3, ThreadFrames DEF clientVars
    <2>4. ASSUME NEW d \in Clients PROVE cPc'[d] = "lost" => ~Serving'
      BY <1>1, <2>1, <2>2 DEF EndInv, Framed, Others, Serving
    <2>5. mPc' = "died" => Excused'
      <3>1. ASSUME mPc' = "died" PROVE Excused
        <4>1. HOpenFails(c) \/ HCrash(c) \/ HEnd(c)
          BY <1>3, <2>1, <3>1
             DEF ThreadStep, HLsPath, HDownloadPath, HUploadPath, ReadPath, HCount, HEntries, HType,
                  HDownloadName, HSend, HSendNothing, HPort, HUploadSize, HUploadData, StoreData, HUploadEnd, serverVars
        <4> QED BY <2>1, <4>1, DiesForAReason DEF Excused
      <3>2. Excused => Excused'
        BY <1>3, <1>1, BlameStays DEF Excused, Framed, Disturbed
      <3> QED BY <3>1, <3>2
    <2>6. mPc' # "ended"
      BY <2>1 DEF Die
    <2> QED BY <2>4, <2>5, <2>6 DEF EndInv, Excused, Blamed
  <1> QED BY <1>2, <1>3

LEMMA EndInductive == FlowInv /\ ServedInv /\ OrderInv /\ SoundInv /\ EndInv /\ [Next]_vars => EndInv'
  <1> SUFFICES ASSUME FlowInv, ServedInv, OrderInv, SoundInv, EndInv, [Next]_vars PROVE EndInv'
    OBVIOUS
  <1>1. ASSUME NEW c \in Clients, UserStep(c) \/ ClientStep(c) \/ ThreadStep(c) PROVE EndInv'
    BY <1>1, EndStep
  <1>2. CASE MLeave
    BY <1>2 DEF MLeave, EndInv, Serving, threadVars, clientVars
  <1>3. ASSUME NEW c \in Clients, MAccept(c) PROVE EndInv'
    <2>1. mPc = "epoll" /\ mPc' = "serving" /\ UNCHANGED <<cPc, faults>>
      BY <1>3 DEF MAccept, clientVars
    <2> QED BY <2>1 DEF EndInv, Serving
  <1>4. CASE Outsider
    <2>1. outside \in Nat /\ outside' = outside + 1 /\ UNCHANGED <<mPc, threads, cPc, faults>>
      BY <1>4, FileServerAssumption
         DEF Outsider, FlowInv, FileServerTypeOK, serverVars, threadVars, clientVars
    <2>2. Disturbed'
      BY <2>1 DEF Disturbed
    <2> QED BY <2>1, <2>2 DEF EndInv, Serving
  <1>5. CASE UNCHANGED vars
    BY <1>5 DEF vars, serverVars, threadVars, clientVars, EndInv, Serving, Disturbed
  <1>6. ASSUME NEW c \in Clients, HOverwritten(c) PROVE EndInv'
    <2>1. mPc = "serving" /\ mPc' = "died" /\ UNCHANGED <<cPc, faults>>
      BY <1>6 DEF HOverwritten, Die, clientVars
    <2>2. faults'[c] \cap {"unlisted", "overrun", "swallowed", "stale"} # {}
      BY <1>6, <2>1 DEF HOverwritten
    <2> QED BY <2>1, <2>2 DEF EndInv, Serving
  <1> QED BY <1>1, <1>2, <1>3, <1>4, <1>5, <1>6 DEF Next, MainStep

LEMMA EndInitial == Init => EndInv
  BY DEF Init, EndInv

(* The main thread has left when thread_count was zero, and it had served  *)
(* somebody: that handler has ended, on the type 4 of a client that quits. *)
LEMMA EndsExplained == FlowInv /\ ServedInv /\ EndInv => EndsForAReason
  <1> SUFFICES ASSUME FlowInv, ServedInv, EndInv PROVE EndsForAReason
    OBVIOUS
  <1>1. ASSUME mPc = "ended", NEW c \in Clients, Served(c) PROVE cPc[c] = "done"
    <2>1. threads = 0
      BY <1>1 DEF EndInv
    <2>2. hPc[c] = "ended"
      BY <1>1, <2>1 DEF ServedInv, Runs, Served
    <2> QED BY <2>2 DEF FlowInv, Quitting
  <1> QED BY <1>1 DEF EndsForAReason, EndInv

(* The server leaves its loop only after its client has quit, and dies     *)
(* before only of a client that vanished, a name used without a listing, a *)
(* path or a name read with what follows it, a size that was not the       *)
(* listed one, or directories changed by others: whatever is read at once  *)
(* and however the threads are scheduled.                                  *)
THEOREM EndsAreExplained == Spec => []EndsForAReason
  <1>1. (FlowInv /\ ServedInv /\ ClientInv /\ OrderInv /\ SoundInv) /\ EndInv /\ [Next]_vars => EndInv'
    BY EndInductive
  <1>2. Spec => []EndInv
    BY <1>1, EndInitial, SoundHolds, PTL DEF Spec
  <1> QED BY <1>2, EndsExplained, SoundHolds, PTL

=============================================================================
