------------------------------- MODULE TcpFile -------------------------------
(***************************************************************************)
(* The TCP file server of hw1 and its client.  The server sends its list   *)
(* of files before every number it reads; the client reads the list once.  *)
(*                                                                         *)
(* The connection to the client is a sequence of units that are read any   *)
(* number at a time, as they arrive: a struct finfo is InfoLen of them, a  *)
(* file is Size of them.                                                   *)
(***************************************************************************)
EXTENDS Integers, Sequences, FiniteSets

CONSTANTS
    Files,          \* what file_count() counts
    Size,           \* the size of each file when it is sent
    Listings,       \* what get_file_list() may have found as the sizes
    Removed,        \* the files that cannot be opened when they are sent
    InfoLen,        \* units of a struct finfo
    BufSize,        \* BUF_SIZE, in units
    MaxDownloads    \* bound on the files a client asks for

(* What the user enters to quit, and num before any number was read.       *)
Last == "-1"
NoFile == "unset"

ASSUME TcpFileAssumption ==
    /\ Last \notin Files
    /\ Size \in [Files -> Nat]
    /\ Listings \subseteq [Files -> Nat]
    /\ IsFiniteSet(Files)
    /\ InfoLen \in Nat \ {0}
    /\ BufSize \in Nat \ {0}

VARIABLES
    listed,     \* the sizes in the list
    sPc,        \* where the server is
    sNum,       \* num, the file it sends
    cPc,        \* where the client is
    cLeft,      \* how many entries of the list the client still has to read
    cWant,      \* the file it downloads
    cFile,      \* what it has of it
    exact,      \* history: for each download, whether it was the file
    down,       \* from the server to the client
    up          \* from the client to the server

serverVars == <<sPc, sNum>>
clientVars == <<cPc, cLeft, cWant, cFile, exact>>
vars == <<listed, serverVars, clientVars, down, up>>

ListUnit == [kind |-> "list"]
FileUnit(f, k) == [kind |-> "file", file |-> f, at |-> k]

(* The count, and an entry for each file.                                  *)
ListLen == 1 + InfoLen * Cardinality(Files)
List == [k \in 1 .. ListLen |-> ListUnit]
Content(f) == [k \in 1 .. Size[f] |-> FileUnit(f, k)]

Init ==
    /\ listed \in Listings
    /\ sPc = "accept"
    /\ sNum = NoFile
    /\ cPc = "start"
    /\ cLeft = 0
    /\ cWant = NoFile
    /\ cFile = <<>>
    /\ exact = <<>>
    /\ down = <<>>
    /\ up = <<>>

Gone == cPc \in {"quit", "vanished"}
ServerGone == sPc \in {"ended", "died"}

Least(m, n) == IF m <= n THEN m ELSE n
Rest(n) == SubSeq(down, n + 1, Len(down))

-----------------------------------------------------------------------------
(* The client.                                                             *)

CConnect ==
    /\ cPc = "start"
    /\ cPc' = "count"
    /\ UNCHANGED <<listed, serverVars, cLeft, cWant, cFile, exact, down, up>>

EntryOrMenu(n) == IF n > 0 THEN "entry" ELSE "menu"

CCount ==
    /\ cPc = "count"
    /\ down # <<>>
    /\ down' = Rest(1)
    /\ cLeft' = Cardinality(Files)
    /\ cPc' = EntryOrMenu(cLeft')
    /\ UNCHANGED <<listed, serverVars, cWant, cFile, exact, up>>

(* An entry that does not come in one piece is torn: its second piece is   *)
(* written offset entries further, not offset bytes.                       *)
CEntry ==
    /\ cPc = "entry"
    /\ \E n \in 1 .. Least(InfoLen, Len(down)) :
        /\ down' = Rest(n)
        /\ IF n = InfoLen
             THEN cLeft' = cLeft - 1 /\ cPc' = EntryOrMenu(cLeft - 1)
             ELSE cPc' = "torn" /\ UNCHANGED cLeft
    /\ UNCHANGED <<listed, serverVars, cWant, cFile, exact, up>>

CChoose(f) ==
    /\ cPc = "menu"
    /\ Len(exact) < MaxDownloads
    /\ up' = Append(up, f)
    /\ cWant' = f
    /\ cFile' = <<>>
    /\ cPc' = "file"
    /\ UNCHANGED <<listed, serverVars, cLeft, exact, down>>

(* A read of recv_file(), which ends with at least the listed size.        *)
CRead ==
    /\ cPc = "file"
    /\ \E n \in 1 .. Least(BufSize, Len(down)) :
        LET got == cFile \o SubSeq(down, 1, n)
        IN  /\ down' = Rest(n)
            /\ cFile' = got
            /\ IF Len(got) >= listed[cWant]
                 THEN cPc' = "menu" /\ exact' = Append(exact, got = Content(cWant))
                 ELSE UNCHANGED <<cPc, exact>>
    /\ UNCHANGED <<listed, serverVars, cLeft, cWant, up>>

CQuit ==
    /\ cPc = "menu"
    /\ up' = Append(up, Last)
    /\ cPc' = "quit"
    /\ UNCHANGED <<listed, serverVars, cLeft, cWant, cFile, exact, down>>

(* The client is killed, or ended by what it wrote of a torn entry.        *)
CVanish ==
    /\ cPc \notin {"start", "quit", "vanished", "lost"}
    /\ cPc' = "vanished"
    /\ UNCHANGED <<listed, serverVars, cLeft, cWant, cFile, exact, down, up>>

(* The server is gone: a read finds the end, a later send raises SIGPIPE.  *)
CLost ==
    /\ ServerGone /\ down = <<>>
    /\ cPc \in {"start", "count", "entry", "menu", "file"}
    /\ cPc' = "lost"
    /\ UNCHANGED <<listed, serverVars, cLeft, cWant, cFile, exact, down, up>>

-----------------------------------------------------------------------------
(* The server.                                                             *)

SAccept ==
    /\ sPc = "accept"
    /\ cPc # "start"
    /\ sPc' = "list"
    /\ UNCHANGED <<listed, sNum, clientVars, down, up>>

(* What is sent to a client that is gone is dropped, or ends the process.  *)
Send(units, then) ==
    \/ /\ sPc' = then
       /\ down' = IF Gone THEN down ELSE down \o units
    \/ Gone /\ sPc' = "died" /\ UNCHANGED down

(* The count and the list, at the start of every round.                    *)
SList ==
    /\ sPc = "list"
    /\ Send(List, "num")
    /\ UNCHANGED <<listed, sNum, clientVars, up>>

(* Mutant of SNum: the last number is not recognised.                      *)
SNum_NoLast ==
    /\ sPc = "num"
    /\ up # <<>>
    /\ up' = Tail(up)
    /\ IF Head(up) = Last
         THEN sPc' = "died" /\ UNCHANGED sNum
         ELSE sPc' = "file" /\ sNum' = Head(up)
    /\ UNCHANGED <<listed, clientVars, down>>

SNum ==
    /\ sPc = "num"
    /\ up # <<>>
    /\ up' = Tail(up)
    /\ IF Head(up) = Last
         THEN sPc' = "ended" /\ UNCHANGED sNum
         ELSE sPc' = "file" /\ sNum' = Head(up)
    /\ UNCHANGED <<listed, clientVars, down>>

(* Mutant of SEnd: the file is sent without any number read.               *)
SEnd_Unset ==
    /\ sPc = "num"
    /\ up = <<>>
    /\ Gone
    /\ sPc' = "file"
    /\ UNCHANGED <<listed, sNum, clientVars, down, up>>

(* recv() finds the end of the connection, which nothing tests: num stays  *)
(* what it was, the last number or none yet.  recv() fails, too, when the  *)
(* client has left something unread.                                       *)
SEnd ==
    /\ sPc = "num"
    /\ up = <<>>
    /\ Gone
    /\ \/ sPc' = "died" /\ UNCHANGED sNum
       \/ sNum \in Files /\ sPc' = "file" /\ UNCHANGED sNum
       \/ sNum = NoFile /\ sPc' = "ended" /\ UNCHANGED sNum
       \/ sNum = NoFile /\ sPc' = "file" /\ sNum' \in Files
    /\ UNCHANGED <<listed, clientVars, down, up>>

(* Mutant of SFile: the next number is read without another list.          *)
SFile_NoList ==
    /\ sPc = "file"
    /\ IF sNum \in Removed
         THEN sPc' = "died" /\ UNCHANGED down
         ELSE Send(Content(sNum), "num")
    /\ UNCHANGED <<listed, sNum, clientVars, up>>

(* send_file(), and back to the list.                                      *)
SFile ==
    /\ sPc = "file"
    /\ IF sNum \in Removed
         THEN sPc' = "died" /\ UNCHANGED down
         ELSE Send(Content(sNum), "list")
    /\ UNCHANGED <<listed, sNum, clientVars, up>>

-----------------------------------------------------------------------------

UserStep == CConnect \/ CQuit \/ CVanish \/ \E f \in Files : CChoose(f)
ClientStep == CCount \/ CEntry \/ CRead \/ CLost
ServerStep == SAccept \/ SList \/ SNum \/ SEnd \/ SFile

Next == UserStep \/ ClientStep \/ ServerStep

Spec == Init /\ [][Next]_vars

(* Both programs run; the user owes nothing.                               *)
FairSpec == Spec /\ WF_vars(ClientStep) /\ WF_vars(ServerStep)

-----------------------------------------------------------------------------
(* What the code of hw1 promises.                                          *)

Unit == {ListUnit} \cup [kind : {"file"}, file : Files, at : Nat \ {0}]

(* Every variable has its type.                                            *)
TcpFileTypeOK ==
    /\ listed \in Listings
    /\ sPc \in {"accept", "list", "num", "file", "ended", "died"}
    /\ sNum \in Files \cup {NoFile}
    /\ cPc \in {"start", "count", "entry", "torn", "menu", "file", "quit", "vanished", "lost"}
    /\ cLeft \in 0 .. Cardinality(Files)
    /\ cWant \in Files \cup {NoFile}
    /\ exact \in Seq(BOOLEAN)
    /\ up \in Seq(Files \cup {Last})
    /\ sPc = "file" => sNum \in Files
    /\ cPc = "file" => cWant \in Files
    /\ down \in Seq(Unit)
    /\ cFile \in Seq(Unit)

(* A client gets no two files in a row as they are: the list that follows  *)
(* the first is in it, or is at the start of the second.                   *)
NoTwoExact ==
    \A k \in 2 .. Len(exact) : ~(exact[k - 1] /\ exact[k])

(* When the sizes are right, a download takes a read's worth more than the *)
(* file at most, and leaves the rest of the list: what the client has not  *)
(* read grows with every download if a list is longer than a read.         *)
BacklogGrows ==
    listed = Size /\ cPc = "menu" /\ sPc = "num" /\ up = <<>>
        => Len(down) >= Len(exact) * (ListLen - BufSize)

(* A client that quits before any download leaves a server that ends; only *)
(* one that does so after a download can meet a server that is sending the *)
(* next list and dies of it.                                               *)
QuitEndsServer ==
    cPc = "quit" /\ exact = <<>> => sPc # "died"

(* Every download comes to its end, but for the files above.               *)
DownloadsFinish ==
    cPc = "file" ~> (cPc # "file" \/ listed[cWant] > Size[cWant] + ListLen)

=============================================================================
