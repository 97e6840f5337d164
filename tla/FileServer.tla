------------------------------- MODULE FileServer -------------------------------
(***************************************************************************)
(* The file server of hw3 and its clients: ls, cd, download, upload and    *)
(* quit.  server.c starts a thread per connection it accepts; a file is    *)
(* uploaded over a second connection.                                      *)
(*                                                                         *)
(* A connection is the sequence of the writes not read yet.  A write of a  *)
(* type, size, count or port is read by itself; a path and a name are read *)
(* with read(1024), which takes as many writes as have arrived.  A block   *)
(* is a part of a file that no read divides.                               *)
(***************************************************************************)
EXTENDS Integers, Sequences, FiniteSets, SequencesExt

CONSTANTS
    Clients,
    MayVanish,      \* the clients that may be killed
    Names,          \* the names of files
    Hello,          \* "hello.txt", the only name that is uploaded
    None,           \* the content of a file that does not exist
    Contents,       \* the contents a file may have before it is sent
    Layouts,        \* the server's files at the start
    Sizes,          \* the sizes that other bytes are taken for
    MaxCmds,        \* bound on the commands of a client
    MaxOutside      \* bound on the changes made by other programs

(* The server's directory "." and the one directory in it; any longer path *)
(* names nothing.                                                          *)
Root == "."
Sub == "./sub"
Nowhere == "./sub/sub"
Dirs == {Root, Sub}

DirEntry == [type |-> 1, name |-> Sub, size |-> 0]
Entry == [type : {0}, name : Names, size : Nat] \cup {DirEntry}

(* What is read for a name and is none of a file.                          *)
NoName == ""

(* A file is blocks, or what a client has taken for blocks.                *)
Block == (UNION {Range(x) : x \in Contents}) \cup Entry
File == Seq(Block) \cup {None}

ASSUME FileServerAssumption ==
    /\ MayVanish \subseteq Clients
    /\ IsFiniteSet(Clients) /\ IsFiniteSet(Names)
    /\ Hello \in Names
    /\ Contents \subseteq Seq(Block)
    /\ None \notin Seq(Block)
    /\ Layouts \subseteq [Dirs -> [Names -> Contents \cup {None}]]
    /\ Sizes \subseteq Nat
    /\ NoName \notin Names
    /\ MaxCmds \in Nat /\ MaxOutside \in Nat

VARIABLES
    fs,         \* the server's files, by directory and name
    links,      \* the names that are symbolic links (to files)
    outside,    \* how often another program changed the server's files
    mPc,        \* the main thread, or how the process ended
    threads,    \* thread_count
    hPc,        \* where the thread of a client is
    hType,      \* type: the last command it read
    hDir,       \* path
    hName,      \* file_name
    hNum,       \* count in ls(), file_size in f_upload()
    cPc,        \* where a client is
    cDir,       \* its path
    cInfo,      \* info[]: the entries of its last listing
    cListed,    \* the path that listing is of
    cLeft,      \* how many entries are still to be read
    cWant,      \* the entry it downloads
    cmds,       \* how many commands it has given
    local,      \* its files
    up,         \* from each client to its thread
    down,       \* from the thread to the client
    upload,     \* on the connection of f_upload()
    faults      \* what has gone wrong for a client: history, for the properties

serverVars == <<mPc, threads>>
threadVars == <<hPc, hType, hDir, hName, hNum>>
clientVars == <<cPc, cDir, cInfo, cListed, cLeft, cWant, cmds, local>>
vars == <<fs, links, outside, serverVars, threadVars, clientVars, up, down, upload, faults>>

Write(kind, val) == [kind |-> kind, val |-> val]
Blocks(content) == [k \in 1 .. Len(content) |-> Write("data", content[k])]
Values(writes) == [k \in 1 .. Len(writes) |-> writes[k].val]

FileEntry(d, n) == [type |-> 0, name |-> n, size |-> Len(fs[d][n])]
(* What ls() sends: it follows symbolic links.                             *)
Entries(d) ==
    {FileEntry(d, n) : n \in {m \in Names : fs[d][m] # None}}
        \cup (IF d = Root THEN {DirEntry} ELSE {})

(* Mutant of Counted: "." is counted.                                      *)
Counted_Dot(d) == Cardinality({e \in Entries(d) : e.name \notin links}) + 1

(* What count_dir() counts: regular files and directories, not links.      *)
Counted(d) == Cardinality({e \in Entries(d) : e.name \notin links})

Init ==
    /\ fs \in Layouts
    /\ links \in SUBSET (Names \ {Hello})
    /\ outside = 0
    /\ mPc = "epoll"
    /\ threads = 0
    /\ hPc = [c \in Clients |-> "none"]
    /\ hType = [c \in Clients |-> 0]
    /\ hDir = [c \in Clients |-> Root]
    /\ hName = [c \in Clients |-> Hello]
    /\ hNum = [c \in Clients |-> 0]
    /\ cPc = [c \in Clients |-> "start"]
    /\ cDir = [c \in Clients |-> Root]
    /\ cInfo = [c \in Clients |-> {}]
    /\ cListed = [c \in Clients |-> Root]
    /\ cLeft = [c \in Clients |-> 0]
    /\ cWant = [c \in Clients |-> DirEntry]
    /\ cmds = [c \in Clients |-> 0]
    /\ local \in [Clients -> {[n \in Names |-> IF n = Hello THEN x ELSE None] : x \in Contents}]
    /\ up = [c \in Clients |-> <<>>]
    /\ down = [c \in Clients |-> <<>>]
    /\ upload = [c \in Clients |-> <<>>]
    /\ faults = [c \in Clients |-> {}]

Faulty(c, fault, bad) == faults' = [faults EXCEPT ![c] = IF bad THEN @ \cup {fault} ELSE @]

Serving == mPc \in {"epoll", "serving"}
Gone(c) == cPc[c] \in {"done", "vanished"}

Pop(queue, c, n) == queue' = [queue EXCEPT ![c] = SubSeq(@, n + 1, Len(@))]
Put(queue, c, writes) == queue' = [queue EXCEPT ![c] = @ \o writes]

-----------------------------------------------------------------------------
(* The client.                                                             *)

(* connect(), and the path "." for the first listing.                      *)
CConnect(c) ==
    /\ cPc[c] = "start"
    /\ Serving
    /\ cPc' = [cPc EXCEPT ![c] = "count"]
    /\ Put(up, c, <<Write("path", Root)>>)
    /\ UNCHANGED <<fs, links, outside, serverVars, threadVars, cDir, cInfo, cListed, cLeft,
                   cWant, cmds, local, down, upload, faults>>

(* Where a client goes that has n more entries to read.                    *)
EntryOrMenu(n) == IF n > 0 THEN "entry" ELSE "menu"

(* The number of entries, or bytes of something else.                      *)
CCount(c) ==
    /\ cPc[c] = "count"
    /\ down[c] # <<>>
    /\ IF Head(down[c]).kind = "count"
         THEN /\ cLeft' = [cLeft EXCEPT ![c] = Head(down[c]).val]
              /\ cPc' = [cPc EXCEPT ![c] = EntryOrMenu(Head(down[c]).val)]
         ELSE /\ cPc' = [cPc EXCEPT ![c] = "garbled"]
              /\ UNCHANGED cLeft
    /\ cInfo' = [cInfo EXCEPT ![c] = {}]
    /\ cListed' = [cListed EXCEPT ![c] = cDir[c]]
    /\ Pop(down, c, 1)
    /\ UNCHANGED <<fs, links, outside, serverVars, threadVars, cDir, cWant, cmds, local,
                   up, upload, faults>>

CEntry(c) ==
    /\ cPc[c] = "entry"
    /\ down[c] # <<>>
    /\ IF Head(down[c]).kind = "entry"
         THEN /\ cInfo' = [cInfo EXCEPT ![c] = @ \cup {Head(down[c]).val}]
              /\ cLeft' = [cLeft EXCEPT ![c] = @ - 1]
              /\ cPc' = [cPc EXCEPT ![c] = EntryOrMenu(cLeft[c] - 1)]
         ELSE /\ cPc' = [cPc EXCEPT ![c] = "garbled"]
              /\ UNCHANGED <<cInfo, cLeft>>
    /\ Pop(down, c, 1)
    /\ UNCHANGED <<fs, links, outside, serverVars, threadVars, cDir, cListed, cWant, cmds,
                   local, up, upload, faults>>

Command(c, writes, then) ==
    /\ cPc[c] = "menu"
    /\ cmds[c] < MaxCmds
    /\ cmds' = [cmds EXCEPT ![c] = @ + 1]
    /\ Put(up, c, writes)
    /\ cPc' = [cPc EXCEPT ![c] = then]
    /\ UNCHANGED <<fs, links, outside, serverVars, threadVars, cInfo, cListed, cLeft, down, upload>>

(* The client appends the name to its path; the server does nothing.       *)
CCd(c) ==
    /\ DirEntry \in cInfo[c]
    /\ Command(c, <<Write("type", 0)>>, "menu")
    /\ cDir' = [cDir EXCEPT ![c] = IF @ = Root THEN Sub ELSE Nowhere]
    /\ Faulty(c, "unlisted", cListed[c] # cDir[c])
    /\ UNCHANGED <<cWant, local>>

CLs(c) ==
    /\ Command(c, <<Write("type", 1), Write("path", cDir[c])>>, "count")
    /\ UNCHANGED <<cDir, cWant, local, faults>>

(* Path and name are two writes, with the user's choice between them.      *)
CDownload(c, e) ==
    /\ e \in cInfo[c] /\ e.type = 0
    /\ Command(c, <<Write("type", 2), Write("path", cDir[c]), Write("name", e.name)>>, "data")
    /\ cWant' = [cWant EXCEPT ![c] = e]
    /\ local' = [local EXCEPT ![c][e.name] = <<>>]
    /\ faults' = [faults EXCEPT ![c] = @
                    \cup (IF cListed[c] # cDir[c] THEN {"unlisted"} ELSE {})
                    \cup (IF e.size = 0 THEN {"empty"} ELSE {})]
    /\ UNCHANGED cDir

(* A read of file_download(), which is over with enough blocks.            *)
ReadData(c, enough) ==
    /\ cPc[c] = "data"
    /\ \E n \in 1 .. Len(down[c]) :
        LET got == local[c][cWant[c].name] \o Values(SubSeq(down[c], 1, n))
        IN  /\ Pop(down, c, n)
            /\ local' = [local EXCEPT ![c][cWant[c].name] = got]
            /\ cPc' = [cPc EXCEPT ![c] = IF Len(got) >= enough THEN "menu" ELSE "data"]
    /\ UNCHANGED <<fs, links, outside, serverVars, threadVars, cDir, cInfo, cListed, cLeft,
                   cWant, cmds, up, upload, faults>>

(* Mutant of CData: one block short of the listed size is enough.          *)
CData_Short(c) == ReadData(c, cWant[c].size - 1)

CData(c) == ReadData(c, cWant[c].size)

CUpload(c) ==
    /\ Command(c, <<Write("type", 3)>>, "port")
    /\ UNCHANGED <<cDir, cWant, local, faults>>

(* The new connection, and all that is written to it.                      *)
CPort(c) ==
    /\ cPc[c] = "port"
    /\ down[c] # <<>>
    /\ LET content == local[c][Hello]
       IN  IF Head(down[c]).kind = "port"
             THEN /\ Put(upload, c, <<Write("path", cDir[c]), Write("size", Len(content))>>
                                      \o Blocks(content))
                  /\ Faulty(c, "empty", content = <<>>)
                  /\ cPc' = [cPc EXCEPT ![c] = "menu"]
             ELSE /\ cPc' = [cPc EXCEPT ![c] = "garbled"]
                  /\ UNCHANGED <<upload, faults>>
    /\ Pop(down, c, 1)
    /\ UNCHANGED <<fs, links, outside, serverVars, threadVars, cDir, cInfo, cListed, cLeft,
                   cWant, cmds, local, up>>

CQuit(c) ==
    /\ Command(c, <<Write("type", 4)>>, "done")
    /\ UNCHANGED <<cDir, cWant, local, faults>>

(* The client is killed, which may be before all of a file is written.     *)
CVanish(c) ==
    /\ c \in MayVanish
    /\ cPc[c] \notin {"start", "done", "vanished", "lost"}
    /\ cPc' = [cPc EXCEPT ![c] = "vanished"]
    /\ \E n \in 0 .. Len(upload[c]) : upload' = [upload EXCEPT ![c] = SubSeq(@, 1, n)]
    /\ UNCHANGED <<fs, links, outside, serverVars, threadVars, cDir, cInfo, cListed, cLeft,
                   cWant, cmds, local, up, down, faults>>

(* The server has ended: connect() fails, a read finds the end and leaves  *)
(* its variable unset, a write raises SIGPIPE.                             *)
CLost(c) ==
    /\ ~Serving
    /\ cPc[c] \notin {"done", "vanished", "lost"}
    /\ down[c] = <<>>
    /\ cPc' = [cPc EXCEPT ![c] = "lost"]
    /\ UNCHANGED <<fs, links, outside, serverVars, threadVars, cDir, cInfo, cListed, cLeft,
                   cWant, cmds, local, up, down, upload, faults>>

-----------------------------------------------------------------------------
(* The main thread.                                                        *)

(* Mutant of MAccept: the thread is not counted.                           *)
MAccept_Uncounted(c) ==
    /\ mPc = "epoll"
    /\ cPc[c] \notin {"start", "lost"}
    /\ hPc[c] = "none"
    /\ mPc' = "serving"
    /\ hPc' = [hPc EXCEPT ![c] = "lspath"]
    /\ UNCHANGED <<fs, links, outside, threads, hType, hDir, hName, hNum, clientVars, up, down,
                   upload, faults>>

(* Only the listening socket is watched, so epoll_wait() returns one event *)
(* and one connection is accepted; its thread is created.                  *)
MAccept(c) ==
    /\ mPc = "epoll"
    /\ cPc[c] \notin {"start", "lost"}
    /\ hPc[c] = "none"
    /\ mPc' = "serving"
    /\ threads' = threads + 1
    /\ hPc' = [hPc EXCEPT ![c] = "lspath"]
    /\ UNCHANGED <<fs, links, outside, hType, hDir, hName, hNum, clientVars, up, down, upload, faults>>

(* Mutant of MLeave: the loop goes on.                                     *)
MLeave_GoesOn ==
    /\ mPc = "serving"
    /\ threads = 0
    /\ mPc' = "epoll"
    /\ UNCHANGED <<fs, links, outside, threads, threadVars, clientVars, up, down, upload, faults>>

(* pthread_cond_wait() until no thread is left; then the loop is left.     *)
MLeave ==
    /\ mPc = "serving"
    /\ threads = 0
    /\ mPc' = "ended"
    /\ UNCHANGED <<fs, links, outside, threads, threadVars, clientVars, up, down, upload, faults>>

-----------------------------------------------------------------------------
(* handle_clnt() and what it calls.                                        *)

At(c, pc) == mPc = "serving" /\ hPc[c] = pc

Go(c, pc) == hPc' = [hPc EXCEPT ![c] = pc]

(* error_handling(), or a signal: the process ends.                        *)
Die ==
    /\ mPc' = "died"
    /\ UNCHANGED <<fs, links, outside, threads, threadVars, clientVars, up, down, upload, faults>>

(* read(1024) until 256 bytes are there: the path alone, or with it what   *)
(* was written behind it, which is copied behind path[] and never read     *)
(* again.  The thread goes on with what follows.                           *)
ReadPath(c, queue, then, fault) ==
    /\ queue[c] # <<>>
    /\ hDir' = [hDir EXCEPT ![c] = Head(queue[c]).val]
    /\ Go(c, then)
    /\ \E n \in 1 .. Len(queue[c]) :
        /\ Pop(queue, c, n)
        /\ Faulty(c, fault, n > 1)
    /\ UNCHANGED <<fs, links, outside, serverVars, hType, hName, hNum, clientVars>>

HLsPath(c) ==
    At(c, "lspath") /\ ReadPath(c, up, "count", "overrun") /\ UNCHANGED <<down, upload>>
HDownloadPath(c) ==
    At(c, "dlpath") /\ ReadPath(c, up, "dlname", "overrun") /\ UNCHANGED <<down, upload>>
HUploadPath(c) ==
    At(c, "upath") /\ ReadPath(c, upload, "usize", "swallowed") /\ UNCHANGED <<up, down>>

(* count_dir(), and its result is written.                                 *)
HCount(c) ==
    /\ At(c, "count")
    /\ hDir[c] \in Dirs
    /\ hNum' = [hNum EXCEPT ![c] = Counted(hDir[c])]
    /\ Put(down, c, <<Write("count", Counted(hDir[c]))>>)
    /\ Go(c, "entries")
    /\ UNCHANGED <<fs, links, outside, serverVars, hType, hDir, hName, clientVars, up, upload, faults>>

(* The rest of ls().                                                       *)
HEntries(c) ==
    /\ At(c, "entries")
    /\ LET found == SetToSeq(Entries(hDir[c]))
       IN  Put(down, c, [k \in 1 .. Len(found) |-> Write("entry", found[k])])
    /\ Go(c, "type")
    /\ UNCHANGED <<fs, links, outside, serverVars, hType, hDir, hName, hNum, clientVars, up, upload, faults>>

NextPc(type) ==
    CASE type = 1 -> "lspath"
      [] type = 2 -> "dlpath"
      [] type = 3 -> "port"
      [] type = 4 -> "ended"
      [] OTHER -> "type"

(* The next command; a thread that reads the last one counts itself out.   *)
(* The bytes of a path or a name, four at a time, are no command, and the  *)
(* last of them are zero.                                                  *)
HType(c) ==
    /\ At(c, "type")
    /\ up[c] # <<>>
    /\ LET type == IF Head(up[c]).kind = "type" THEN Head(up[c]).val ELSE 0
       IN  /\ hType' = [hType EXCEPT ![c] = type]
           /\ Go(c, NextPc(type))
           /\ threads' = IF type = 4 THEN threads - 1 ELSE threads
    /\ Pop(up, c, 1)
    /\ UNCHANGED <<fs, links, outside, mPc, hDir, hName, hNum, clientVars, down, upload, faults>>

(* read(1024) until 64 bytes are there, which a path or a name is enough   *)
(* for: the name, and with it what was written behind it; or, when a read  *)
(* has swallowed the name, what was written later.                         *)
HDownloadName(c) ==
    /\ At(c, "dlname") \/ At(c, "dlmore")
    /\ \E n \in 1 .. Len(up[c]) :
        /\ hName' = [hName EXCEPT ![c] = IF hPc[c] = "dlname" /\ Head(up[c]).kind = "name"
                                            THEN Head(up[c]).val ELSE NoName]
        /\ Go(c, IF \E k \in 1 .. n : up[c][k].kind # "type" THEN "send" ELSE "dlmore")
        /\ Pop(up, c, n)
        /\ Faulty(c, "overrun", n > 1)
    /\ UNCHANGED <<fs, links, outside, serverVars, hType, hDir, hNum, clientVars, down, upload>>

Exists(d, n) == d \in Dirs /\ n # NoName /\ fs[d][n] # None

(* The file is sent until its end, whatever size the client expects.       *)
HSend(c) ==
    /\ At(c, "send")
    /\ Exists(hDir[c], hName[c])
    /\ Put(down, c, Blocks(fs[hDir[c]][hName[c]]))
    /\ Faulty(c, "stale", Len(fs[hDir[c]][hName[c]]) # cWant[c].size)
    /\ Go(c, "type")
    /\ UNCHANGED <<fs, links, outside, serverVars, hType, hDir, hName, hNum, clientVars, up, upload>>

(* No file, but perhaps the name of a directory: it is opened, and there   *)
(* is nothing in it to send.                                               *)
HSendNothing(c) ==
    /\ At(c, "send")
    /\ hDir[c] \in Dirs /\ hName[c] = NoName
    /\ Go(c, "type")
    /\ UNCHANGED <<fs, links, outside, serverVars, hType, hDir, hName, hNum, clientVars, up, down,
                   upload, faults>>

(* f_upload_handler(): a free port, listen(), the port to the client; and  *)
(* a new connection, from which accept() waits for what comes first.       *)
HPort(c) ==
    /\ At(c, "port")
    /\ Put(down, c, <<Write("port", c)>>)
    /\ upload' = [upload EXCEPT ![c] = <<>>]
    /\ Go(c, "upath")
    /\ UNCHANGED <<fs, links, outside, serverVars, hType, hDir, hName, hNum, clientVars, up, faults>>

SizeIn(write) == IF write.kind = "size" THEN {write.val} ELSE Sizes

(* The size is read, from the first bytes of the file if the size has been *)
(* swallowed, and the file opened.                                         *)
HUploadSize(c) ==
    /\ At(c, "usize")
    /\ hDir[c] \in Dirs
    /\ upload[c] # <<>>
    /\ \E size \in SizeIn(Head(upload[c])) : hNum' = [hNum EXCEPT ![c] = size]
    /\ fs' = [fs EXCEPT ![hDir[c]][Hello] = <<>>]
    /\ Pop(upload, c, 1)
    /\ Go(c, "udata")
    /\ UNCHANGED <<links, outside, serverVars, hType, hDir, hName, clientVars, up, down, faults>>

(* A read of f_upload(), which is over with enough blocks.                 *)
StoreData(c, enough) ==
    /\ At(c, "udata")
    /\ \E n \in 1 .. Len(upload[c]) :
        LET got == fs[hDir[c]][Hello] \o Values(SubSeq(upload[c], 1, n))
        IN  /\ fs' = [fs EXCEPT ![hDir[c]][Hello] = got]
            /\ Pop(upload, c, n)
            /\ Go(c, IF Len(got) >= enough THEN "type" ELSE "udata")
    /\ UNCHANGED <<links, outside, serverVars, hType, hDir, hName, hNum, clientVars, up, down, faults>>

(* Mutant of HUploadData: one read is enough.                              *)
HUploadData_Once(c) == StoreData(c, 1)

HUploadData(c) == StoreData(c, hNum[c])

(* count_dir(), fopen() in f_download() or in f_upload() fails.            *)
HOpenFails(c) ==
    /\ \/ At(c, "count") /\ hDir[c] \notin Dirs
       \/ At(c, "send") /\ ~Exists(hDir[c], hName[c])
       \/ At(c, "usize") /\ hDir[c] \notin Dirs /\ (upload[c] # <<>> \/ Gone(c))
    /\ Die

(* A write to a client that is gone raises SIGPIPE.                        *)
HCrash(c) ==
    /\ Gone(c)
    /\ \/ At(c, "count") \/ At(c, "port")
       \/ At(c, "entries") /\ Entries(hDir[c]) # {}
       \/ At(c, "send") /\ Exists(hDir[c], hName[c]) /\ fs[hDir[c]][hName[c]] # <<>>
    /\ Die

(* What was copied behind path[] or file_name[] ends the process.          *)
HOverwritten(c) ==
    /\ mPc = "serving" /\ hPc[c] \notin {"none", "ended"}
    /\ faults[c] \cap {"overrun", "swallowed"} # {}
    /\ Die

(* Mutant of HEnd: the end of the connection is taken for type 4.          *)
HEnd_Quits(c) ==
    /\ mPc = "serving"
    /\ Gone(c)
    /\ hPc[c] = "type" /\ up[c] = <<>>
    /\ Go(c, "ended")
    /\ threads' = threads - 1
    /\ UNCHANGED <<fs, links, outside, mPc, hType, hDir, hName, hNum, clientVars, up, down, upload, faults>>

(* The end of the client's first connection, which no read looks for: the  *)
(* thread does what it did last, for ever, with what happens to be in its  *)
(* variables.  Sooner or later it waits in accept(), or is caught in the   *)
(* loop, or a file it cannot open or a write ends the process, or          *)
(* handle_clnt() itself when the client left something unread and its end  *)
(* is a reset.                                                             *)
HEnd(c) ==
    /\ mPc = "serving"
    /\ Gone(c)
    /\ \/ hPc[c] \in {"type", "dlname", "dlmore"} /\ up[c] = <<>>
       \/ hPc[c] = "upath" /\ upload[c] = <<>>
    /\ \/ /\ Go(c, "stuck")
          /\ UNCHANGED <<fs, links, outside, serverVars, hType, hDir, hName, hNum, clientVars,
                         up, down, upload, faults>>
       \/ (hPc[c] # "type" \/ hType[c] # 0 \/ down[c] # <<>>) /\ Die

(* The end of the connection of an upload: the thread stops reading, and   *)
(* handle_clnt() goes on.                                                  *)
HUploadEnd(c) ==
    /\ At(c, "usize") \/ At(c, "udata")
    /\ Gone(c)
    /\ upload[c] = <<>> /\ hDir[c] \in Dirs
    /\ fs' = IF hPc[c] = "usize" THEN [fs EXCEPT ![hDir[c]][Hello] = <<>>] ELSE fs
    /\ Go(c, "type")
    /\ UNCHANGED <<links, outside, serverVars, hType, hDir, hName, hNum, clientVars,
                   up, down, upload, faults>>

(* Another program creates or removes a file of the server, while it runs. *)
Outsider ==
    /\ Serving
    /\ outside < MaxOutside
    /\ outside' = outside + 1
    /\ \E d \in Dirs, n \in Names \ {Hello}, x \in Contents :
        fs' = [fs EXCEPT ![d][n] = IF @ = None THEN x ELSE None]
    /\ UNCHANGED <<links, serverVars, threadVars, clientVars, up, down, upload, faults>>

-----------------------------------------------------------------------------

UserStep(c) ==
    \/ CCd(c)
    \/ CLs(c)
    \/ \E e \in cInfo[c] : CDownload(c, e)
    \/ CUpload(c)
    \/ CQuit(c)
    \/ CVanish(c)

ClientStep(c) ==
    \/ CConnect(c)
    \/ CCount(c)
    \/ CEntry(c)
    \/ CData(c)
    \/ CPort(c)
    \/ CLost(c)

ThreadStep(c) ==
    \/ HLsPath(c)
    \/ HCount(c)
    \/ HEntries(c)
    \/ HType(c)
    \/ HDownloadPath(c)
    \/ HDownloadName(c)
    \/ HSend(c)
    \/ HSendNothing(c)
    \/ HPort(c)
    \/ HUploadPath(c)
    \/ HUploadSize(c)
    \/ HUploadData(c)
    \/ HUploadEnd(c)
    \/ HOpenFails(c)
    \/ HCrash(c)
    \/ HEnd(c)

MainStep == MLeave \/ \E c \in Clients : MAccept(c)

Next ==
    \/ MainStep
    \/ Outsider
    \/ \E c \in Clients : UserStep(c) \/ ClientStep(c) \/ ThreadStep(c) \/ HOverwritten(c)

Spec == Init /\ [][Next]_vars

(* The threads and the clients are scheduled; the user owes nothing.       *)
FairSpec ==
    /\ Spec
    /\ WF_vars(MainStep)
    /\ \A c \in Clients : WF_vars(ClientStep(c)) /\ WF_vars(ThreadStep(c))

-----------------------------------------------------------------------------
(* What the file server promises.                                          *)

(* Every variable has its type.                                            *)
FileServerTypeOK ==
    /\ fs \in [Dirs -> [Names -> File]]
    /\ links \subseteq Names
    /\ outside \in 0 .. MaxOutside
    /\ mPc \in {"epoll", "serving", "ended", "died"}
    /\ threads \in 0 .. Cardinality(Clients)
    /\ hPc \in [Clients -> {"none", "lspath", "count", "entries", "type", "dlpath", "dlname", "dlmore",
                            "send", "port", "upath", "usize", "udata", "stuck", "ended"}]
    /\ hType \in [Clients -> 0 .. 4]
    /\ hDir \in [Clients -> Dirs \cup {Nowhere}]
    /\ hName \in [Clients -> Names \cup {NoName}]
    /\ hNum \in [Clients -> Nat]
    /\ cPc \in [Clients -> {"start", "count", "entry", "menu", "data", "port", "garbled", "done",
                            "vanished", "lost"}]
    /\ cDir \in [Clients -> Dirs \cup {Nowhere}]
    /\ cInfo \in [Clients -> SUBSET Entry]
    /\ cListed \in [Clients -> Dirs \cup {Nowhere}]
    /\ cLeft \in [Clients -> Nat]
    /\ cWant \in [Clients -> Entry]
    /\ cmds \in [Clients -> 0 .. MaxCmds]
    /\ local \in [Clients -> [Names -> File]]
    /\ faults \in [Clients -> SUBSET {"unlisted", "empty", "stale", "overrun", "swallowed"}]

Served(c) == hPc[c] # "none"

(* The program is called a server of many clients, with a thread and a     *)
(* place in thread_count for each; it never has more than one: the main    *)
(* thread waits for the end of the first and then leaves its loop.         *)
OneServed ==
    /\ \A c, d \in Clients : Served(c) /\ Served(d) => c = d
    /\ threads = Cardinality({c \in Clients : hPc[c] \notin {"none", "ended"}})

(* What ls() sends need not be what count_dir() has counted: ls() follows  *)
(* symbolic links, and other programs create and remove files.             *)
Disturbed == links # {} \/ outside > 0

(* Nothing of an answer is left on a connection when the client shows its  *)
(* menu, and no answer is taken for another, unless a file's size was not  *)
(* the listed one, or the directories are not as count_dir() counts them.  *)
MenuDrained ==
    \A c \in Clients :
        (cPc[c] = "menu" /\ down[c] # <<>>) \/ cPc[c] = "garbled" =>
            "stale" \in faults[c] \/ Disturbed

(* The server leaves by itself only when the client it served has quit: a  *)
(* client that vanishes does not end it.  What ends the process for every  *)
(* client before that is a client that vanished, a name used without a     *)
(* listing of its directory, a path or a name read with what follows it, a *)
(* file or a listing that left the client with more than it counted: it    *)
(* can quit before its last download is sent.                              *)
EndsForAReason ==
    /\ mPc = "ended" => \A c \in Clients : Served(c) => cPc[c] = "done"
    /\ mPc = "died" =>
        \/ Disturbed
        \/ \E c \in Clients : cPc[c] = "vanished" \/ faults[c] \cap {"unlisted", "overrun", "swallowed", "stale"} # {}

(* A download that nothing went wrong with leaves the client with the      *)
(* server's file, however its blocks were read.                            *)
DownloadExact ==
    [][\A c \in Clients :
        cPc[c] = "data" /\ cPc'[c] = "menu" /\ faults[c] = {} /\ ~Disturbed
            => local'[c][cWant[c].name] = fs[cDir[c]][cWant[c].name]]_vars

(* f_upload() leaves its loop with all the announced bytes and has left    *)
(* none, unless the client was killed, or the path of one of its uploads   *)
(* was read with what follows it: then the size is any, and the file what  *)
(* is left of it.                                                          *)
UploadExact ==
    [][\A c \in Clients :
        hPc[c] = "udata" /\ hPc'[c] = "type" /\ cPc[c] # "vanished" /\ "swallowed" \notin faults[c]
            => Len(fs'[hDir[c]][Hello]) = hNum[c] /\ upload'[c] = <<>>]_vars

(* A command of a client that is served is over at some time: client and   *)
(* thread wait for each other only because of an empty file, a file that   *)
(* is no longer as it was listed, a count that the entries need not match, *)
(* or a path or a name read with what follows it.                          *)
CommandsFinish ==
    \A c \in Clients :
        Served(c) /\ cPc[c] \in {"count", "entry", "data", "port"}
            ~> \/ cPc[c] \notin {"count", "entry", "data", "port"}
               \/ faults[c] \cap {"empty", "stale", "overrun", "swallowed"} # {} \/ Disturbed

=============================================================================
