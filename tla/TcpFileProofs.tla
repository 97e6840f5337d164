----------------------------- MODULE TcpFileProofs -----------------------------
(***************************************************************************)
(* The file server of hw1 and its client, for any files, sizes, lengths of *)
(* the list and of a read: their types, a client that quits before any     *)
(* download leaves a server that ends, no two downloads in a row are       *)
(* exact, and what is left on the connection grows with every download.    *)
(***************************************************************************)
EXTENDS TcpFile, FiniteSetTheorems, TLAPS

USE TcpFileAssumption

LEMMA ListNotEmpty == ListLen \in Nat \ {0}
  <1>1. Cardinality(Files) \in Nat
    BY FS_CardinalityType
  <1>2. InfoLen * Cardinality(Files) \in Nat
    BY <1>1
  <1> QED BY <1>2 DEF ListLen

-----------------------------------------------------------------------------
(* Until the end of the first download the two programs go hand in hand.   *)

QuitInv ==
    /\ exact \in Seq(BOOLEAN)
    /\ exact = <<>> =>
        /\ cPc = "start" => sPc = "accept"
        /\ cPc \in {"start", "count"} => up = <<>>
        /\ cPc \in {"start", "count"} =>
            (sPc \in {"accept", "list"} /\ down = <<>>) \/ sPc = "num"
        /\ cPc \in {"entry", "torn", "menu"} => sPc = "num" /\ up = <<>>
        /\ cPc = "quit" => (sPc = "num" /\ up = <<Last>>) \/ sPc = "ended"

LEMMA QuitInitial == Init => QuitInv
  BY DEF Init, QuitInv

LEMMA QuitClient ==
    ASSUME QuitInv, UserStep \/ ClientStep
    PROVE  QuitInv'
  <1>1. CASE CConnect
    BY <1>1 DEF CConnect, QuitInv, serverVars
  <1>2. CASE CQuit
    <2>1. up = <<>> => up' = <<Last>>
      BY <1>2 DEF CQuit
    <2> QED BY <1>2, <2>1 DEF CQuit, QuitInv, serverVars
  <1>3. CASE CVanish
    BY <1>3 DEF CVanish, QuitInv, serverVars
  <1>4. ASSUME NEW f \in Files, CChoose(f) PROVE QuitInv'
    BY <1>4 DEF CChoose, QuitInv, serverVars
  <1>5. CASE CCount
    BY <1>5 DEF CCount, QuitInv, serverVars, EntryOrMenu
  <1>6. CASE CEntry
    BY <1>6 DEF CEntry, QuitInv, serverVars, EntryOrMenu
  <1>7. CASE CRead
    <2>1. cPc = "file" /\ UNCHANGED <<sPc, up>>
      BY <1>7 DEF CRead, serverVars
    <2>2. (UNCHANGED exact /\ cPc' = "file") \/ \E b \in BOOLEAN : exact' = Append(exact, b)
      BY <1>7 DEF CRead
    <2>3. exact' \in Seq(BOOLEAN) /\ (exact' = <<>> => exact = <<>> /\ cPc' = "file")
      BY <2>2 DEF QuitInv
    <2> QED BY <2>1, <2>3 DEF QuitInv
  <1>8. CASE CLost
    BY <1>8 DEF CLost, QuitInv, serverVars
  <1> QED BY <1>1, <1>2, <1>3, <1>4, <1>5, <1>6, <1>7, <1>8 DEF UserStep, ClientStep

LEMMA QuitServer ==
    ASSUME QuitInv, ServerStep
    PROVE  QuitInv'
  <1>1. CASE SAccept
    BY <1>1 DEF SAccept, QuitInv, clientVars
  <1>2. CASE SList
    BY <1>2 DEF SList, Send, Gone, QuitInv, clientVars
  <1>3. CASE SNum
    BY <1>3 DEF SNum, QuitInv, clientVars
  <1>4. CASE SEnd
    BY <1>4 DEF SEnd, Gone, QuitInv, clientVars
  <1>5. CASE SFile
    BY <1>5 DEF SFile, Send, Gone, QuitInv, clientVars
  <1> QED BY <1>1, <1>2, <1>3, <1>4, <1>5 DEF ServerStep

LEMMA QuitInductive == QuitInv /\ [Next]_vars => QuitInv'
  <1> SUFFICES ASSUME QuitInv, [Next]_vars PROVE QuitInv'
    OBVIOUS
  <1>1. CASE UNCHANGED vars
    BY <1>1 DEF vars, serverVars, clientVars, QuitInv
  <1> QED BY <1>1, QuitClient, QuitServer DEF Next

(* A client that quits before any download leaves a server that ends: it   *)
(* does not die of the quit, whatever the list and the files are.          *)
THEOREM QuitIsClean == Spec => []QuitEndsServer
  <1>1. QuitInv => QuitEndsServer
    BY DEF QuitInv, QuitEndsServer
  <1> QED BY QuitInitial, QuitInductive, <1>1, PTL DEF Spec

-----------------------------------------------------------------------------
(* Behind the last unit of a file comes the list.                          *)

EndsFile(u) == u.kind = "file" /\ u.at = Size[u.file]

(* The list is what the client reads next.                                 *)
ListNext == IF down = <<>> THEN sPc = "list" ELSE down[1] = ListUnit

LastExact == exact # <<>> /\ exact[Len(exact)]

StreamInv ==
    /\ down \in Seq(Unit)
    /\ cFile \in Seq(Unit)
    /\ exact \in Seq(BOOLEAN)
    /\ sPc = "file" => sNum \in Files
    /\ cPc = "file" => cWant \in Files
    /\ up \in Seq(Files \cup {Last})
    /\ cPc \in {"start", "count", "entry"} => exact = <<>>

EndsInv ==
    /\ \A k \in 1 .. Len(down) - 1 : EndsFile(down[k]) => down[k + 1] = ListUnit
    /\ ~Gone /\ down # <<>> /\ EndsFile(down[Len(down)]) => sPc = "list"

NextInv ==
    /\ cPc = "menu" /\ LastExact => ListNext
    /\ cPc = "file" /\ LastExact =>
        IF cFile = <<>> THEN ListNext ELSE cFile[1] = ListUnit

ExactInv == StreamInv /\ EndsInv /\ NextInv /\ NoTwoExact

LEMMA ListUnits == List \in Seq(Unit) /\ Len(List) = ListLen /\ \A k \in 1 .. ListLen : List[k] = ListUnit
  BY ListNotEmpty DEF List, Unit

LEMMA FileUnits ==
    ASSUME NEW f \in Files
    PROVE  /\ Content(f) \in Seq(Unit)
           /\ Len(Content(f)) = Size[f]
           /\ \A k \in 1 .. Size[f] : Content(f)[k] = FileUnit(f, k)
  BY DEF Content, Unit, FileUnit

LEMMA ListDoesNotEndFile == ~EndsFile(ListUnit)
  BY DEF EndsFile, ListUnit

LEMMA OnlyLastEndsFile ==
    ASSUME NEW f \in Files, NEW k \in 1 .. Size[f]
    PROVE  EndsFile(FileUnit(f, k)) <=> k = Size[f]
  BY DEF EndsFile, FileUnit

LEMMA ExactInitial == Init => ExactInv
  BY DEF Init, ExactInv, StreamInv, EndsInv, NextInv, LastExact, NoTwoExact

(* What neither end of the stream sees.                                    *)
LEMMA ExactQuiet ==
    ASSUME ExactInv, UNCHANGED <<down, cFile, exact>>,
           Gone => Gone', sPc' = sPc \/ sPc # "list",
           cPc' \in {"menu", "file"} => cPc' = cPc,
           StreamInv'
    PROVE  ExactInv'
  BY DEF ExactInv, EndsInv, NextInv, ListNext, LastExact, NoTwoExact, Gone

LEMMA ExactUser == ASSUME ExactInv, UserStep PROVE ExactInv'
  <1>1. CASE CConnect \/ CQuit \/ CVanish
    <2>1. StreamInv'
      <3>1. CASE CQuit
        <4>1. up' \in Seq(Files \cup {Last})
          BY <3>1 DEF CQuit, ExactInv, StreamInv
        <4> QED BY <3>1, <4>1 DEF CQuit, ExactInv, StreamInv, serverVars
      <3>2. CASE CConnect \/ CVanish
        BY <3>2 DEF CConnect, CVanish, ExactInv, StreamInv, serverVars
      <3> QED BY <1>1, <3>1, <3>2
    <2> QED BY <1>1, <2>1, ExactQuiet DEF CConnect, CQuit, CVanish, Gone, serverVars
  <1>2. ASSUME NEW f \in Files, CChoose(f) PROVE ExactInv'
    BY <1>2 DEF CChoose, ExactInv, StreamInv, EndsInv, NextInv, ListNext, LastExact, NoTwoExact,
                Gone, serverVars
  <1> QED BY <1>1, <1>2 DEF UserStep

(* The rest of the stream is as good as the stream.                        *)
LEMMA RestEnds ==
    ASSUME StreamInv, EndsInv, NEW n \in 1 .. Len(down), down' = Rest(n), UNCHANGED sPc, ~Gone, ~Gone'
    PROVE  /\ down' \in Seq(Unit) /\ EndsInv'
           /\ EndsFile(down[n]) => ListNext'
  <1>1. /\ down' \in Seq(Unit)
        /\ Len(down') = Len(down) - n
        /\ \A k \in 1 .. Len(down) - n : down'[k] = down[k + n]
    BY DEF StreamInv, Rest
  <1>2. EndsInv'
    <2>1. ASSUME NEW k \in 1 .. Len(down') - 1, EndsFile(down'[k])
          PROVE  down'[k + 1] = ListUnit
      <3>1. k + n \in 1 .. Len(down) - 1 /\ (k + n) + 1 = (k + 1) + n /\ k + 1 \in 1 .. Len(down) - n
        BY <1>1 DEF StreamInv
      <3>2. down[(k + n) + 1] = ListUnit
        BY <1>1, <2>1, <3>1 DEF EndsInv
      <3> QED BY <1>1, <3>1, <3>2
    <2>2. ASSUME down' # <<>>, EndsFile(down'[Len(down')])
          PROVE  sPc' = "list"
      <3>1. Len(down') \in 1 .. Len(down) - n /\ Len(down') + n = Len(down) /\ down # <<>>
        BY <1>1, <2>2 DEF StreamInv
      <3>2. EndsFile(down[Len(down)])
        BY <1>1, <2>2, <3>1
      <3> QED BY <3>1, <3>2 DEF EndsInv
    <2> QED BY <2>1, <2>2 DEF EndsInv
  <1>3. EndsFile(down[n]) => ListNext'
    <2> SUFFICES ASSUME EndsFile(down[n]) PROVE ListNext'
      OBVIOUS
    <2>1. CASE n = Len(down)
      <3>1. down' = <<>>
        BY <1>1, <2>1 DEF StreamInv
      <3>2. sPc = "list"
        BY <2>1 DEF EndsInv, StreamInv
      <3> QED BY <3>1, <3>2 DEF ListNext
    <2>2. CASE n < Len(down)
      <3>1. down[n + 1] = ListUnit
        BY <2>2 DEF EndsInv, StreamInv
      <3>2. down' # <<>> /\ down'[1] = down[1 + n]
        BY <1>1, <2>2 DEF StreamInv
      <3> QED BY <3>1, <3>2 DEF ListNext
    <2> QED BY <2>1, <2>2 DEF StreamInv
  <1> QED BY <1>1, <1>2, <1>3

LEMMA ExactRead == ASSUME ExactInv, CRead PROVE ExactInv'
  <1>1. PICK n \in 1 .. Least(BufSize, Len(down)) :
          LET got == cFile \o SubSeq(down, 1, n)
          IN  /\ down' = Rest(n)
              /\ cFile' = got
              /\ IF Len(got) >= listed[cWant]
                   THEN cPc' = "menu" /\ exact' = Append(exact, got = Content(cWant))
                   ELSE UNCHANGED <<cPc, exact>>
    BY DEF CRead
  <1>2. n \in 1 .. Len(down) /\ cPc = "file" /\ UNCHANGED <<sPc, sNum, cWant, up>> /\ ~Gone /\ ~Gone'
    <2>1. n \in 1 .. Len(down)
      BY <1>1 DEF Least, ExactInv, StreamInv
    <2>2. cPc = "file" /\ UNCHANGED <<sPc, sNum, cWant, up>> /\ cPc' \in {"menu", "file"}
      BY DEF CRead, serverVars
    <2> QED BY <2>1, <2>2 DEF Gone
  <1>3. /\ down' \in Seq(Unit) /\ EndsInv'
        /\ EndsFile(down[n]) => ListNext'
    BY <1>1, <1>2, RestEnds DEF ExactInv
  <1>4. /\ cFile' \in Seq(Unit)
        /\ Len(cFile') = Len(cFile) + n
        /\ cFile'[Len(cFile')] = down[n]
        /\ cFile'[1] = IF cFile = <<>> THEN down[1] ELSE cFile[1]
    <2>1. /\ SubSeq(down, 1, n) \in Seq(Unit)
          /\ Len(SubSeq(down, 1, n)) = n
          /\ \A k \in 1 .. n : SubSeq(down, 1, n)[k] = down[k]
      BY <1>2 DEF ExactInv, StreamInv
    <2>2. cFile' = cFile \o SubSeq(down, 1, n) /\ cFile \in Seq(Unit) /\ n \in Nat \ {0}
      BY <1>1, <1>2 DEF ExactInv, StreamInv
    <2> HIDE DEF Unit
    <2>3. cFile' \in Seq(Unit) /\ Len(cFile') = Len(cFile) + n
      BY <2>1, <2>2
    <2>4. cFile'[Len(cFile) + n] = down[n]
      BY <2>1, <2>2
    <2>5. cFile'[1] = IF cFile = <<>> THEN down[1] ELSE cFile[1]
      BY <2>1, <2>2
    <2> QED BY <2>3, <2>4, <2>5
  <1>5. LastExact => cFile'[1] = ListUnit
    BY <1>2, <1>4 DEF ExactInv, NextInv, ListNext
  <1>6. CASE cPc' = "file" /\ UNCHANGED exact
    BY <1>2, <1>3, <1>4, <1>5, <1>6 DEF ExactInv, StreamInv, NextInv, LastExact, NoTwoExact
  <1>7. CASE cPc' = "menu" /\ exact' = Append(exact, cFile' = Content(cWant))
    <2>1. cWant \in Files
      BY <1>2 DEF ExactInv, StreamInv
    <2>2. CASE cFile' = Content(cWant)
      <3>1. Size[cWant] >= 1 /\ Size[cWant] = Len(cFile')
        <4>1. Size[cWant] = Len(cFile')
          BY <2>1, <2>2, FileUnits
        <4>2. Len(cFile') >= 1
          BY <1>2, <1>4 DEF ExactInv, StreamInv
        <4> QED BY <4>1, <4>2
      <3>2. cFile'[1] = FileUnit(cWant, 1) /\ down[n] = FileUnit(cWant, Size[cWant])
        BY <1>4, <2>1, <2>2, <3>1, FileUnits
      <3>3. cFile'[1] # ListUnit
        BY <3>2 DEF FileUnit, ListUnit
      <3>4. ListNext'
        BY <1>3, <2>1, <3>1, <3>2, OnlyLastEndsFile
      <3>5. exact' = Append(exact, TRUE) /\ ~LastExact
        BY <1>5, <1>7, <2>2, <3>3
      <3>6. NoTwoExact' /\ exact' \in Seq(BOOLEAN)
        BY <3>5 DEF ExactInv, StreamInv, NoTwoExact, LastExact
      <3> QED BY <1>2, <1>3, <1>4, <1>7, <3>4, <3>6 DEF ExactInv, StreamInv, NextInv
    <2>3. CASE cFile' # Content(cWant)
      <3>1. exact' = Append(exact, FALSE)
        BY <1>7, <2>3
      <3>2. /\ exact \in Seq(BOOLEAN) /\ exact' \in Seq(BOOLEAN) /\ Len(exact') = Len(exact) + 1
            /\ ~exact'[Len(exact) + 1]
            /\ \A k \in 1 .. Len(exact) : exact'[k] = exact[k]
        BY <3>1 DEF ExactInv, StreamInv
      <3>3. NoTwoExact'
        <4>1. ASSUME NEW k \in 2 .. Len(exact') PROVE ~(exact'[k - 1] /\ exact'[k])
          <5>1. CASE k = Len(exact) + 1
            BY <3>2, <5>1
          <5>2. CASE k # Len(exact) + 1
            <6>1. k \in 2 .. Len(exact) /\ k - 1 \in 1 .. Len(exact) /\ k \in 1 .. Len(exact)
              BY <3>2, <5>2
            <6>2. exact'[k] = exact[k] /\ exact'[k - 1] = exact[k - 1]
              BY <3>2, <6>1
            <6> QED BY <6>1, <6>2 DEF ExactInv, NoTwoExact
          <5> QED BY <5>1, <5>2
        <4> QED BY <4>1 DEF NoTwoExact
      <3>4. ~LastExact'
        BY <3>2 DEF LastExact
      <3> QED BY <1>2, <1>3, <1>4, <1>7, <3>2, <3>3, <3>4 DEF ExactInv, StreamInv, NextInv
    <2> QED BY <2>2, <2>3
  <1> QED BY <1>1, <1>2, <1>6, <1>7

(* Every read of the first list takes something.                           *)
LEMMA FirstRead ==
    ASSUME ExactInv, CCount \/ CEntry
    PROVE  \E n \in 1 .. Len(down) : down' = Rest(n)
  <1>1. CASE CCount
    <2>1. 1 \in 1 .. Len(down)
      BY <1>1 DEF CCount, ExactInv, StreamInv
    <2> QED BY <1>1, <2>1 DEF CCount
  <1>2. CASE CEntry
    BY <1>2 DEF CEntry, Least, ExactInv, StreamInv
  <1> QED BY <1>1, <1>2

LEMMA ExactClient == ASSUME ExactInv, ClientStep PROVE ExactInv'
  <1>1. CASE CRead
    BY <1>1, ExactRead
  <1>2. CASE CLost
    <2>1. StreamInv'
      BY <1>2 DEF CLost, ExactInv, StreamInv, serverVars
    <2> QED BY <1>2, <2>1, ExactQuiet DEF CLost, Gone, serverVars
  <1>3. CASE CCount \/ CEntry
    <2>1. PICK n \in 1 .. Len(down) : down' = Rest(n)
      BY <1>3, FirstRead
    <2>2. /\ cPc \in {"count", "entry"} /\ ~Gone /\ ~Gone'
          /\ cPc' \in {"entry", "menu", "torn"}
          /\ UNCHANGED <<sPc, sNum, cWant, cFile, exact, up>>
      BY <1>3 DEF CCount, CEntry, EntryOrMenu, Gone, serverVars
    <2>3. exact = <<>> /\ exact' = <<>>
      BY <2>2 DEF ExactInv, StreamInv
    <2>4. down' \in Seq(Unit) /\ EndsInv'
      BY <2>1, <2>2, RestEnds DEF ExactInv
    <2> QED BY <2>2, <2>3, <2>4 DEF ExactInv, StreamInv, NextInv, LastExact, NoTwoExact
  <1> QED BY <1>1, <1>2, <1>3 DEF ClientStep

(* A unit more is sent: the list, or a file.                               *)
LEMMA SentEnds ==
    ASSUME ExactInv, ~Gone, ~Gone', NEW units \in Seq(Unit), down' = down \o units,
           \A k \in 1 .. Len(units) - 1 : ~EndsFile(units[k]),
           sPc = "list" => units # <<>> /\ units[1] = ListUnit /\ ~EndsFile(units[Len(units)]),
           sPc' = "list" \/ (sPc = "list" /\ units # <<>>),
           sPc \in {"list", "file"}
    PROVE  down' \in Seq(Unit) /\ EndsInv' /\ (ListNext => ListNext')
  <1>1. /\ down' \in Seq(Unit)
        /\ Len(down') = Len(down) + Len(units)
        /\ \A k \in 1 .. Len(down) : down'[k] = down[k]
        /\ \A k \in 1 .. Len(units) : down'[Len(down) + k] = units[k]
    BY DEF ExactInv, StreamInv
  <1>2. ASSUME NEW k \in 1 .. Len(down') - 1, EndsFile(down'[k])
        PROVE  down'[k + 1] = ListUnit
    <2>1. CASE k < Len(down)
      <3>1. k \in 1 .. Len(down) - 1 /\ k + 1 \in 1 .. Len(down) /\ k \in 1 .. Len(down)
        BY <2>1 DEF ExactInv, StreamInv
      <3> QED BY <1>1, <1>2, <3>1 DEF ExactInv, EndsInv
    <2>2. CASE k = Len(down)
      <3>1. down # <<>> /\ EndsFile(down[Len(down)])
        BY <1>1, <1>2, <2>2 DEF ExactInv, StreamInv
      <3>2. sPc = "list"
        BY <3>1 DEF ExactInv, EndsInv
      <3>3. 1 \in 1 .. Len(units) /\ units[1] = ListUnit
        BY <1>1, <2>2, <3>2 DEF ExactInv, StreamInv
      <3> QED BY <1>1, <2>2, <3>3
    <2>3. CASE k > Len(down)
      <3>1. PICK j \in 1 .. Len(units) - 1 : k = Len(down) + j
        <4>1. k - Len(down) \in 1 .. Len(units) - 1 /\ k = Len(down) + (k - Len(down))
          BY <1>1, <2>3 DEF ExactInv, StreamInv
        <4> QED BY <4>1
      <3>2. down'[k] = units[j]
        BY <1>1, <3>1
      <3> QED BY <1>2, <3>1, <3>2
    <2> QED BY <2>1, <2>2, <2>3 DEF ExactInv, StreamInv
  <1>3. ASSUME down' # <<>>, EndsFile(down'[Len(down')])
        PROVE  sPc' = "list"
    <2> SUFFICES ASSUME sPc = "list", units # <<>> PROVE FALSE
      OBVIOUS
    <2>1. Len(units) \in 1 .. Len(units) /\ Len(down') = Len(down) + Len(units)
      BY <1>1 DEF ExactInv, StreamInv
    <2>2. down'[Len(down')] = units[Len(units)]
      BY <1>1, <2>1
    <2> QED BY <1>3, <2>2
  <1>4. ListNext => ListNext'
    <2> SUFFICES ASSUME ListNext PROVE ListNext'
      OBVIOUS
    <2>1. CASE down = <<>>
      <3>1. sPc = "list" /\ units # <<>> /\ units[1] = ListUnit
        BY <2>1 DEF ListNext
      <3>2. down' # <<>> /\ down'[1] = ListUnit
        BY <1>1, <2>1, <3>1 DEF ExactInv, StreamInv
      <3> QED BY <3>2 DEF ListNext
    <2>2. CASE down # <<>>
      <3>1. down' # <<>> /\ down'[1] = down[1]
        BY <1>1, <2>2 DEF ExactInv, StreamInv
      <3> QED BY <2>2, <3>1 DEF ListNext
    <2> QED BY <2>1, <2>2
  <1> QED BY <1>1, <1>2, <1>3, <1>4 DEF EndsInv

(* The server sends to a client that is there.                             *)
LEMMA SentKeeps ==
    ASSUME ExactInv, UNCHANGED <<sNum, clientVars, up>>, sPc' \in {"list", "num"},
           down' \in Seq(Unit), EndsInv', ListNext => ListNext'
    PROVE  ExactInv'
  BY DEF ExactInv, StreamInv, NextInv, LastExact, NoTwoExact, clientVars

(* The server does what the client does not see.                           *)
LEMMA ServerQuiet ==
    ASSUME ExactInv, UNCHANGED <<clientVars, down>>, sPc' = sPc \/ sPc # "list" \/ Gone,
           sPc' = "file" => sNum' \in Files, up' \in Seq(Files \cup {Last})
    PROVE  ExactInv'
  <1>1. CASE ~Gone
    BY <1>1 DEF ExactInv, StreamInv, EndsInv, NextInv, ListNext, LastExact, NoTwoExact, Gone,
                clientVars
  <1>2. CASE Gone
    BY <1>2 DEF ExactInv, StreamInv, EndsInv, NextInv, ListNext, LastExact, NoTwoExact, Gone,
                clientVars
  <1> QED BY <1>1, <1>2

LEMMA ExactServer == ASSUME ExactInv, ServerStep PROVE ExactInv'
  <1>1. CASE SAccept
    BY <1>1, ServerQuiet DEF SAccept, ExactInv, StreamInv
  <1>2. CASE SList
    <2>1. CASE Gone
      BY <1>2, <2>1, ServerQuiet DEF SList, Send, ExactInv, StreamInv
    <2>2. CASE ~Gone
      <3>1. /\ sPc = "list" /\ sPc' = "num" /\ down' = down \o List /\ ~Gone'
            /\ UNCHANGED <<sNum, clientVars, up>>
        BY <1>2, <2>2 DEF SList, Send, Gone, clientVars
      <3>2. /\ List \in Seq(Unit) /\ List # <<>> /\ List[1] = ListUnit
            /\ \A k \in 1 .. Len(List) - 1 : ~EndsFile(List[k])
            /\ ~EndsFile(List[Len(List)])
        BY ListUnits, ListNotEmpty, ListDoesNotEndFile
      <3>3. down' \in Seq(Unit) /\ EndsInv' /\ (ListNext => ListNext')
        BY <2>2, <3>1, <3>2, SentEnds
      <3> QED BY <3>1, <3>3, SentKeeps
    <2> QED BY <2>1, <2>2
  <1>3. CASE SNum
    <2>1. up' \in Seq(Files \cup {Last}) /\ (sPc' = "file" => sNum' \in Files)
      BY <1>3 DEF SNum, ExactInv, StreamInv
    <2> QED BY <1>3, <2>1, ServerQuiet DEF SNum
  <1>4. CASE SEnd
    BY <1>4, ServerQuiet DEF SEnd, ExactInv, StreamInv
  <1>5. CASE SFile
    <2>1. CASE Gone \/ sNum \in Removed
      BY <1>5, <2>1, ServerQuiet DEF SFile, Send, ExactInv, StreamInv
    <2>2. CASE ~Gone /\ sNum \notin Removed
      <3>1. /\ sPc = "file" /\ sPc' = "list" /\ down' = down \o Content(sNum) /\ ~Gone'
            /\ UNCHANGED <<sNum, clientVars, up>>
        BY <1>5, <2>2 DEF SFile, Send, Gone, clientVars
      <3>2. sNum \in Files
        BY <3>1 DEF ExactInv, StreamInv
      <3>3. /\ Content(sNum) \in Seq(Unit)
            /\ \A k \in 1 .. Len(Content(sNum)) - 1 : ~EndsFile(Content(sNum)[k])
        <4>1. Size[sNum] \in Nat
          BY <3>2
        <4> QED BY <3>2, <4>1, FileUnits, OnlyLastEndsFile
      <3>4. down' \in Seq(Unit) /\ EndsInv' /\ (ListNext => ListNext')
        BY <2>2, <3>1, <3>3, SentEnds
      <3> QED BY <3>1, <3>4, SentKeeps
    <2> QED BY <2>1, <2>2
  <1> QED BY <1>1, <1>2, <1>3, <1>4, <1>5 DEF ServerStep

LEMMA ExactInductive == ExactInv /\ [Next]_vars => ExactInv'
  <1> SUFFICES ASSUME ExactInv, [Next]_vars PROVE ExactInv'
    OBVIOUS
  <1>1. CASE UNCHANGED vars
    BY <1>1 DEF vars, serverVars, clientVars, ExactInv, StreamInv, EndsInv, NextInv, ListNext,
                LastExact, NoTwoExact, Gone
  <1> QED BY <1>1, ExactUser, ExactClient, ExactServer DEF Next

(* No two downloads in a row are exact: the list that is sent after every  *)
(* file and read only once spoils the one or the other.                    *)
THEOREM ListSpoilsDownloads == Spec => []NoTwoExact
  <1>1. ExactInv => NoTwoExact
    BY DEF ExactInv
  <1> QED BY ExactInitial, ExactInductive, <1>1, PTL DEF Spec

-----------------------------------------------------------------------------
(* The types.  Given the streams above, what is left is the client's count *)
(* of the entries: it reads another only while one is missing.             *)

TypeInv == TcpFileTypeOK /\ (cPc = "entry" => cLeft > 0)

LEMMA TypesInitial == Init => TypeInv
  <1>1. Cardinality(Files) \in Nat
    BY FS_CardinalityType
  <1> QED BY <1>1 DEF Init, TypeInv, TcpFileTypeOK

LEMMA TypesUser == ASSUME TypeInv, StreamInv', UserStep PROVE TypeInv'
  <1>1. CASE CConnect
    BY <1>1 DEF CConnect, TypeInv, TcpFileTypeOK, serverVars
  <1>2. CASE CQuit
    BY <1>2 DEF CQuit, TypeInv, TcpFileTypeOK, StreamInv, serverVars
  <1>3. CASE CVanish
    BY <1>3 DEF CVanish, TypeInv, TcpFileTypeOK, serverVars
  <1>4. ASSUME NEW f \in Files, CChoose(f) PROVE TypeInv'
    BY <1>4 DEF CChoose, TypeInv, TcpFileTypeOK, StreamInv, serverVars
  <1> QED BY <1>1, <1>2, <1>3, <1>4 DEF UserStep

LEMMA TypesClient == ASSUME TypeInv, StreamInv', ClientStep PROVE TypeInv'
  <1>1. Cardinality(Files) \in Nat
    BY FS_CardinalityType
  <1>2. CASE CCount
    <2>1. cLeft' \in 0 .. Cardinality(Files) /\ cPc' = EntryOrMenu(cLeft')
      BY <1>1, <1>2 DEF CCount
    <2>2. cPc' \in {"entry", "menu"} /\ (cPc' = "entry" => cLeft' > 0)
      BY <2>1 DEF EntryOrMenu
    <2> QED BY <1>2, <2>1, <2>2 DEF CCount, TypeInv, TcpFileTypeOK, StreamInv, serverVars
  <1>3. CASE CEntry
    <2>1. cLeft \in 0 .. Cardinality(Files) /\ cLeft > 0
      BY <1>3 DEF CEntry, TypeInv, TcpFileTypeOK
    <2>2. \/ cLeft' = cLeft - 1 /\ cPc' = EntryOrMenu(cLeft - 1)
          \/ cPc' = "torn" /\ UNCHANGED cLeft
      BY <1>3 DEF CEntry
    <2>3. /\ cLeft' \in 0 .. Cardinality(Files) /\ cPc' \in {"entry", "menu", "torn"}
          /\ cPc' = "entry" => cLeft' > 0
      BY <1>1, <2>1, <2>2 DEF EntryOrMenu
    <2> QED BY <1>3, <2>3 DEF CEntry, TypeInv, TcpFileTypeOK, StreamInv, serverVars
  <1>4. CASE CRead
    <2>1. cPc = "file" /\ cPc' \in {"file", "menu"}
          /\ UNCHANGED <<listed, sPc, sNum, cLeft, cWant, up>>
      BY <1>4 DEF CRead, serverVars
    <2> QED BY <2>1 DEF TypeInv, TcpFileTypeOK, StreamInv
  <1>5. CASE CLost
    BY <1>5 DEF CLost, TypeInv, TcpFileTypeOK, serverVars
  <1> QED BY <1>2, <1>3, <1>4, <1>5 DEF ClientStep

LEMMA TypesServer == ASSUME TypeInv, StreamInv', ServerStep PROVE TypeInv'
  <1>1. CASE SAccept
    BY <1>1 DEF SAccept, TypeInv, TcpFileTypeOK, clientVars
  <1>2. CASE SList
    BY <1>2 DEF SList, Send, TypeInv, TcpFileTypeOK, StreamInv, clientVars
  <1>3. CASE SNum
    BY <1>3 DEF SNum, TypeInv, TcpFileTypeOK, StreamInv, clientVars
  <1>4. CASE SEnd
    BY <1>4 DEF SEnd, TypeInv, TcpFileTypeOK, StreamInv, clientVars
  <1>5. CASE SFile
    BY <1>5 DEF SFile, Send, TypeInv, TcpFileTypeOK, StreamInv, clientVars
  <1> QED BY <1>1, <1>2, <1>3, <1>4, <1>5 DEF ServerStep

LEMMA TypesInductive == TypeInv /\ StreamInv' /\ [Next]_vars => TypeInv'
  <1> SUFFICES ASSUME TypeInv, StreamInv', [Next]_vars PROVE TypeInv'
    OBVIOUS
  <1>1. CASE UNCHANGED vars
    BY <1>1 DEF vars, serverVars, clientVars, TypeInv, TcpFileTypeOK
  <1> QED BY <1>1, TypesUser, TypesClient, TypesServer DEF Next

(* Both programs' variables keep their types; what the two send each other *)
(* is files and lists one way, and numbers and the last one the other.     *)
THEOREM TcpTypesHold == Spec => []TcpFileTypeOK
  <1>1. ExactInv => StreamInv
    BY DEF ExactInv
  <1>2. TypeInv => TcpFileTypeOK
    BY DEF TypeInv
  <1> QED BY TypesInitial, TypesInductive, ExactInitial, ExactInductive, <1>1, <1>2, PTL DEF Spec

-----------------------------------------------------------------------------
(* The backlog, when the listed sizes are right.  For every number it gets *)
(* the server sends a file and a list; for every download the client takes *)
(* at most the file and one read.  What is between the two is counted in   *)
(* units: those in the stream, those the server owes for the number it     *)
(* works on and for the numbers under way, less those the client expects.  *)

Owed(f) == Size[f] + ListLen

(* The sums of what is owed for the first numbers under way.               *)
Sums(w, numbers) ==
    /\ w \in [0 .. Len(numbers) -> Int]
    /\ w[0] = 0
    /\ \A i \in 1 .. Len(numbers) : w[i] = w[i - 1] + Owed(numbers[i])

ToCome == IF sPc = "file" THEN Owed(sNum) ELSE IF sPc = "list" THEN ListLen ELSE 0

Expected == IF cPc = "file" THEN Owed(cWant) - Len(cFile) ELSE 0

Downloading == listed = Size /\ cPc \in {"menu", "file"} /\ sPc \notin {"ended", "died"}

Surplus == Len(exact) * (ListLen - BufSize)

BackInv ==
    Downloading =>
        /\ sPc # "accept"
        /\ up \in Seq(Files)
        /\ cPc = "file" => Len(cFile) <= Size[cWant]
        /\ \E w : Sums(w, up) /\ (Len(down) + ToCome + w[Len(up)]) - Expected >= Surplus

LEMMA OwedSize == \A f \in Files : Owed(f) \in Nat /\ Owed(f) = Size[f] + ListLen /\ Size[f] \in Nat
  BY ListNotEmpty DEF Owed

LEMMA LengthOfBoth ==
    ASSUME NEW S, NEW s \in Seq(S), NEW t \in Seq(S)
    PROVE  Len(s \o t) = Len(s) + Len(t)
  OBVIOUS

(* Nothing is owed for no number.                                          *)
LEMMA NoSums == \E w : Sums(w, <<>>) /\ w[Len(<<>>)] = 0
  <1> DEFINE w == [i \in 0 .. 0 |-> 0]
  <1>1. Sums(w, <<>>) /\ w[Len(<<>>)] = 0
    BY DEF Sums
  <1> QED BY <1>1

(* A number more adds what is owed for it.                                 *)
LEMMA SumsAppended ==
    ASSUME NEW numbers \in Seq(Files), NEW f \in Files, NEW w, Sums(w, numbers)
    PROVE  \E v : /\ Sums(v, Append(numbers, f))
                  /\ v[Len(Append(numbers, f))] = w[Len(numbers)] + Owed(f)
  <1> DEFINE n == Len(numbers)
             v == [i \in 0 .. n + 1 |-> IF i = n + 1 THEN w[n] + Owed(f) ELSE w[i]]
  <1>1. n \in Nat /\ Len(Append(numbers, f)) = n + 1
        /\ Append(numbers, f)[n + 1] = f
        /\ \A i \in 1 .. n : Append(numbers, f)[i] = numbers[i]
    OBVIOUS
  <1>2. w \in [0 .. n -> Int] /\ Owed(f) \in Nat
    BY OwedSize DEF Sums
  <1>3. v \in [0 .. n + 1 -> Int] /\ v[0] = w[0]
    BY <1>1, <1>2
  <1>4. ASSUME NEW i \in 1 .. n + 1
        PROVE  v[i] = v[i - 1] + Owed(Append(numbers, f)[i])
    <2>1. CASE i = n + 1
      <3>1. i - 1 = n /\ n \in 0 .. n + 1 /\ n # n + 1 /\ i \in 0 .. n + 1
        BY <1>1, <2>1
      <3>2. v[i] = w[n] + Owed(f) /\ v[i - 1] = w[n]
        BY <2>1, <3>1
      <3> QED BY <1>1, <2>1, <3>2
    <2>2. CASE i # n + 1
      <3>1. i \in 1 .. n /\ i - 1 \in 0 .. n + 1 /\ i - 1 # n + 1
        BY <1>1, <2>2
      <3>2. v[i] = w[i] /\ v[i - 1] = w[i - 1]
        BY <2>2, <3>1
      <3>3. w[i] = w[i - 1] + Owed(numbers[i])
        BY <3>1 DEF Sums
      <3> QED BY <1>1, <3>1, <3>2, <3>3
    <2> QED BY <2>1, <2>2
  <1>5. v[n + 1] = w[n] + Owed(f)
    BY <1>1
  <1> HIDE DEF v
  <1>6. Sums(v, Append(numbers, f))
    BY <1>1, <1>3, <1>4 DEF Sums
  <1> QED BY <1>1, <1>5, <1>6

(* The first number takes with it what is owed for it.                     *)
LEMMA SumsShifted ==
    ASSUME NEW numbers \in Seq(Files), numbers # <<>>, NEW w, Sums(w, numbers)
    PROVE  \E v : /\ Sums(v, Tail(numbers))
                  /\ v[Len(Tail(numbers))] = w[Len(numbers)] - Owed(Head(numbers))
  <1> DEFINE n == Len(numbers)
             v == [i \in 0 .. n - 1 |-> w[i + 1] - Owed(Head(numbers))]
  <1>1. /\ n \in Nat /\ n >= 1 /\ Len(Tail(numbers)) = n - 1
        /\ Head(numbers) = numbers[1] /\ Head(numbers) \in Files
        /\ \A i \in 1 .. n - 1 : Tail(numbers)[i] = numbers[i + 1]
    OBVIOUS
  <1>2. w \in [0 .. n -> Int] /\ Owed(Head(numbers)) \in Nat
    BY <1>1, OwedSize DEF Sums
  <1>3. w[1] = Owed(Head(numbers))
    <2>1. 1 \in 1 .. n /\ 1 - 1 = 0
      BY <1>1
    <2>2. w[1] = w[1 - 1] + Owed(numbers[1]) /\ w[0] = 0
      BY <2>1 DEF Sums
    <2> QED BY <1>1, <1>2, <2>1, <2>2
  <1>4. v \in [0 .. n - 1 -> Int] /\ v[0] = 0
    <2>1. \A i \in 0 .. n - 1 : i + 1 \in 0 .. n
      BY <1>1
    <2>2. \A i \in 0 .. n - 1 : w[i + 1] - Owed(Head(numbers)) \in Int
      BY <1>2, <2>1
    <2>3. 0 \in 0 .. n - 1 /\ 0 + 1 = 1
      BY <1>1
    <2>4. v[0] = w[1] - Owed(Head(numbers))
      BY <2>3
    <2> QED BY <1>2, <1>3, <2>2, <2>4
  <1>5. ASSUME NEW i \in 1 .. n - 1
        PROVE  v[i] = v[i - 1] + Owed(Tail(numbers)[i])
    <2>1. i \in 0 .. n - 1 /\ i - 1 \in 0 .. n - 1 /\ i + 1 \in 1 .. n /\ (i - 1) + 1 = i /\ (i + 1) - 1 = i
          /\ i \in 0 .. n /\ i + 1 \in 0 .. n
      BY <1>1
    <2>2. v[i] = w[i + 1] - Owed(Head(numbers)) /\ v[i - 1] = w[i] - Owed(Head(numbers))
      BY <2>1
    <2>3. w[i + 1] = w[i] + Owed(numbers[i + 1])
      BY <2>1 DEF Sums
    <2>4. Tail(numbers)[i] = numbers[i + 1] /\ Owed(numbers[i + 1]) \in Nat
      BY <1>1, <2>1, OwedSize
    <2>5. w[i] \in Int /\ w[i + 1] \in Int
      BY <1>2, <2>1
    <2> HIDE DEF v
    <2> QED BY <1>2, <2>2, <2>3, <2>4, <2>5
  <1>6. v[n - 1] = w[n] - Owed(Head(numbers))
    BY <1>1
  <1> HIDE DEF v
  <1>7. Sums(v, Tail(numbers))
    BY <1>1, <1>4, <1>5 DEF Sums
  <1> QED BY <1>1, <1>6, <1>7

LEMMA BackInitial == Init => BackInv
  BY DEF Init, BackInv, Downloading

(* What leaves the client no download, or the server no number to read.    *)
LEMMA BackOver == ASSUME ~Downloading' PROVE BackInv'
  BY DEF BackInv

(* The numbers under way are sums of naturals.                             *)
LEMMA BackTypes ==
    ASSUME BackInv, Downloading, TypeInv
    PROVE  /\ ToCome \in Nat /\ Expected \in Int /\ Len(down) \in Nat /\ Len(cFile) \in Nat
           /\ Surplus \in Int /\ Len(exact) \in Nat /\ Len(up) \in Nat
           /\ \A w : Sums(w, up) => w[Len(up)] \in Int
  <1>1. ToCome \in Nat
    BY OwedSize, ListNotEmpty DEF ToCome, TypeInv, TcpFileTypeOK
  <1>2. Len(down) \in Nat /\ Len(cFile) \in Nat /\ Len(exact) \in Nat /\ Len(up) \in Nat
    BY DEF TypeInv, TcpFileTypeOK
  <1>3. Expected \in Int
    BY <1>2, OwedSize DEF Expected, TypeInv, TcpFileTypeOK
  <1>4. Surplus \in Int
    <2>1. ListLen - BufSize \in Int
      BY ListNotEmpty
    <2> HIDE DEF ListLen
    <2> QED BY <1>2, <2>1 DEF Surplus
  <1>5. \A w : Sums(w, up) => w[Len(up)] \in Int
    BY <1>2 DEF Sums
  <1> QED BY <1>1, <1>2, <1>3, <1>4, <1>5

(* The first list is read: nothing was downloaded or is owed.              *)
LEMMA BackStarts ==
    ASSUME QuitInv', TypeInv', cPc' = "menu", exact' = <<>>
    PROVE  BackInv'
  <1>1. sPc' = "num" /\ up' = <<>>
    BY DEF QuitInv
  <1>2. PICK w : Sums(w, <<>>) /\ w[Len(<<>>)] = 0
    BY NoSums
  <1>3. Surplus' = 0 /\ ToCome' = 0 /\ Expected' = 0 /\ Len(down') \in Nat
    <2>1. ListLen - BufSize \in Int
      BY ListNotEmpty
    <2>2. Len(exact') = 0
      OBVIOUS
    <2>3. Surplus' = 0
      BY <2>1, <2>2 DEF Surplus, ListLen
    <2> QED BY <1>1, <2>3 DEF ToCome, Expected, TypeInv, TcpFileTypeOK
  <1>4. Sums(w, up') /\ (Len(down') + ToCome' + w[Len(up')]) - Expected' >= Surplus'
    BY <1>1, <1>2, <1>3
  <1>5. up' \in Seq(Files)
    BY <1>1
  <1> HIDE DEF Surplus, ToCome, Expected
  <1> QED BY <1>1, <1>4, <1>5 DEF BackInv, Sums, Owed, ListLen

(* What changes neither side of the account.                               *)
LEMMA BackQuiet ==
    ASSUME BackInv, UNCHANGED <<listed, sPc, sNum, cPc, cWant, cFile, exact, down, up>>
    PROVE  BackInv'
  BY DEF BackInv, Downloading, ToCome, Expected, Surplus

LEMMA BackChoose ==
    ASSUME BackInv, TypeInv, NEW f \in Files, CChoose(f)
    PROVE  BackInv'
  <1> SUFFICES ASSUME Downloading' PROVE BackInv'
    BY BackOver
  <1>1. /\ cPc = "menu" /\ cPc' = "file" /\ cWant' = f /\ cFile' = <<>> /\ up' = Append(up, f)
        /\ UNCHANGED <<listed, sPc, sNum, exact, down>>
    BY DEF CChoose, serverVars
  <1>2. Downloading
    BY <1>1 DEF Downloading
  <1>3. PICK w : Sums(w, up) /\ (Len(down) + ToCome + w[Len(up)]) - Expected >= Surplus
    BY <1>2 DEF BackInv
  <1>4. up \in Seq(Files) /\ sPc # "accept"
    BY <1>2 DEF BackInv
  <1>5. PICK v : Sums(v, up') /\ v[Len(up')] = w[Len(up)] + Owed(f)
    BY <1>1, <1>3, <1>4, SumsAppended
  <1>6. ToCome' = ToCome /\ Surplus' = Surplus /\ Expected = 0 /\ Expected' = Owed(f)
    BY <1>1, OwedSize DEF ToCome, Surplus, Expected
  <1>7. (Len(down') + ToCome' + v[Len(up')]) - Expected' >= Surplus'
    BY <1>1, <1>2, <1>3, <1>5, <1>6, BackTypes, OwedSize
  <1>8. up' \in Seq(Files) /\ sPc' # "accept" /\ Len(cFile') <= Size[cWant']
    BY <1>1, <1>4, OwedSize
  <1> QED BY <1>5, <1>7, <1>8 DEF BackInv

(* The account of a read: of a part of the file, and of its end with up to *)
(* a read beyond it.                                                       *)
LEMMA PartTaken ==
    ASSUME NEW sent \in Int, NEW come \in Int, NEW owed \in Int, NEW file \in Int,
           NEW got \in Int, NEW n \in Int, NEW least \in Int,
           (sent + come + owed) - (file - got) >= least
    PROVE  ((sent - n) + come + owed) - (file - (got + n)) >= least
  OBVIOUS

LEMMA LastTaken ==
    ASSUME NEW sent \in Int, NEW come \in Int, NEW owed \in Int, NEW size \in Int,
           NEW list \in Int, NEW got \in Int, NEW n \in Int, NEW least \in Int, NEW read \in Int,
           (sent + come + owed) - ((size + list) - got) >= least, got <= size, n <= read
    PROVE  ((sent - n) + come + owed) - 0 >= least + (list - read)
  OBVIOUS

LEMMA BackRead == ASSUME BackInv, TypeInv, CRead PROVE BackInv'
  <1> SUFFICES ASSUME Downloading' PROVE BackInv'
    BY BackOver
  <1>1. PICK n \in 1 .. Least(BufSize, Len(down)) :
          LET got == cFile \o SubSeq(down, 1, n)
          IN  /\ down' = Rest(n)
              /\ cFile' = got
              /\ IF Len(got) >= listed[cWant]
                   THEN cPc' = "menu" /\ exact' = Append(exact, got = Content(cWant))
                   ELSE UNCHANGED <<cPc, exact>>
    BY DEF CRead
  <1>2. cPc = "file" /\ UNCHANGED <<listed, sPc, sNum, cWant, up>>
    BY DEF CRead, serverVars
  <1>3. Downloading
    BY <1>2 DEF Downloading
  <1>4. PICK w : Sums(w, up) /\ (Len(down) + ToCome + w[Len(up)]) - Expected >= Surplus
    BY <1>3 DEF BackInv
  <1>5. /\ down \in Seq(Unit) /\ cFile \in Seq(Unit) /\ exact \in Seq(BOOLEAN) /\ cWant \in Files
        /\ n \in 1 .. Len(down) /\ n <= BufSize
    BY <1>1, <1>2 DEF TypeInv, TcpFileTypeOK, Least
  <1>6. Len(down') = Len(down) - n /\ Len(cFile') = Len(cFile) + n
    <2>1. SubSeq(down, 1, n) \in Seq(Unit) /\ Len(SubSeq(down, 1, n)) = n
      BY <1>5
    <2>2. Len(down') = Len(down) - n
      BY <1>1, <1>5 DEF Rest
    <2>3. cFile' = cFile \o SubSeq(down, 1, n)
      BY <1>1
    <2> QED BY <1>5, <2>1, <2>2, <2>3
  <1>7. ToCome' = ToCome /\ Expected = (Size[cWant] + ListLen) - Len(cFile) /\ Size[cWant] \in Nat
    <2>1. ToCome' = ToCome
      BY <1>2 DEF ToCome
    <2>2. Expected = Owed(cWant) - Len(cFile)
      BY <1>2 DEF Expected
    <2> QED BY <1>5, <2>1, <2>2, OwedSize, ListNotEmpty
  <1>8. listed = Size
    BY <1>3 DEF Downloading
  <1>9. /\ ToCome \in Nat /\ Surplus \in Int /\ Len(down) \in Nat /\ Len(cFile) \in Nat
         /\ w[Len(up)] \in Int /\ n \in Nat /\ ListLen \in Nat
    BY <1>3, <1>4, <1>5, BackTypes, ListNotEmpty
  <1>10. CASE Len(cFile') < Size[cWant]
    <2>1. cPc' = "file" /\ exact' = exact
      BY <1>1, <1>2, <1>5, <1>6, <1>7, <1>8, <1>10
    <2>2. Expected' = (Size[cWant] + ListLen) - Len(cFile') /\ Surplus' = Surplus
      <3>1. Expected' = Owed(cWant) - Len(cFile')
        BY <1>2, <2>1 DEF Expected
      <3>2. Surplus' = Surplus
        BY <2>1 DEF Surplus
      <3> QED BY <1>5, <3>1, <3>2, OwedSize, ListNotEmpty
    <2>3. (Len(down') + ToCome' + w[Len(up')]) - Expected' >= Surplus'
      <3>1. w[Len(up')] = w[Len(up)]
        BY <1>2
      <3>2. (Len(down) + ToCome + w[Len(up)]) - ((Size[cWant] + ListLen) - Len(cFile)) >= Surplus
        BY <1>4, <1>7, Zenon
      <3>3. ((Len(down) - n) + ToCome + w[Len(up)]) - ((Size[cWant] + ListLen) - (Len(cFile) + n))
              >= Surplus
        <4>1. /\ Size[cWant] + ListLen \in Int /\ Len(down) \in Int /\ ToCome \in Int /\ n \in Int
              /\ w[Len(up)] \in Int /\ Len(cFile) \in Int /\ Surplus \in Int
          BY <1>7, <1>9
        <4> QED BY <3>2, <4>1, PartTaken, Zenon
      <3> QED BY <1>6, <1>7, <2>2, <3>1, <3>3, Zenon
    <2> QED BY <1>2, <1>3, <1>4, <1>7, <1>10, <2>3 DEF BackInv
  <1>11. CASE Len(cFile') >= Size[cWant]
    <2>1. cPc' = "menu" /\ exact' = Append(exact, cFile' = Content(cWant))
      BY <1>1, <1>8, <1>11
    <2>2. Len(exact') = Len(exact) + 1 /\ Expected' = 0
      BY <1>5, <2>1 DEF Expected
    <2>3. Surplus' = Surplus + (ListLen - BufSize)
      <3>1. ListLen - BufSize \in Int /\ Len(exact) \in Nat
        BY <1>5, ListNotEmpty
      <3>2. \A k \in Nat, x \in Int : (k + 1) * x = k * x + x
        OBVIOUS
      <3>3. Surplus' = Len(exact') * (ListLen - BufSize)
        BY DEF Surplus, ListLen
      <3> QED BY <2>2, <3>1, <3>2, <3>3 DEF Surplus
    <2>4. Len(cFile) <= Size[cWant]
      BY <1>2, <1>3 DEF BackInv
    <2>5. (Len(down') + ToCome' + w[Len(up')]) - Expected' >= Surplus'
      <3>1. w[Len(up')] = w[Len(up)]
        BY <1>2
      <3>2. (Len(down) + ToCome + w[Len(up)]) - ((Size[cWant] + ListLen) - Len(cFile)) >= Surplus
        BY <1>4, <1>7, Zenon
      <3>3. n <= BufSize /\ BufSize \in Nat /\ Size[cWant] \in Nat
        BY <1>5, <1>7
      <3>4. ((Len(down) - n) + ToCome + w[Len(up)]) - 0 >= Surplus + (ListLen - BufSize)
        <4>1. /\ Size[cWant] \in Int /\ ListLen \in Int /\ Len(down) \in Int /\ ToCome \in Int
              /\ n \in Int /\ w[Len(up)] \in Int /\ Len(cFile) \in Int /\ Surplus \in Int
              /\ BufSize \in Int
          BY <1>7, <1>9, <3>3
        <4> QED BY <2>4, <3>2, <3>3, <4>1, LastTaken, Zenon
      <3> QED BY <1>6, <1>7, <2>2, <2>3, <3>1, <3>4, Zenon
    <2> QED BY <1>2, <1>3, <1>4, <2>1, <2>5 DEF BackInv
  <1> QED BY <1>5, <1>6, <1>7, <1>10, <1>11

LEMMA BackClient ==
    ASSUME BackInv, TypeInv, QuitInv', StreamInv, TypeInv', UserStep \/ ClientStep
    PROVE  BackInv'
  <1>1. CASE CConnect
    BY <1>1, BackOver DEF CConnect, Downloading
  <1>2. CASE CQuit
    BY <1>2, BackOver DEF CQuit, Downloading
  <1>3. CASE CVanish
    BY <1>3, BackOver DEF CVanish, Downloading
  <1>4. ASSUME NEW f \in Files, CChoose(f) PROVE BackInv'
    BY <1>4, BackChoose
  <1>5. CASE CCount \/ CEntry
    <2>1. cPc' \in {"entry", "menu", "torn"} /\ exact' = exact /\ cPc \in {"count", "entry"}
      BY <1>5 DEF CCount, CEntry, EntryOrMenu
    <2>2. exact' = <<>>
      BY <2>1 DEF StreamInv
    <2>3. CASE cPc' = "menu"
      BY <2>2, <2>3, BackStarts
    <2>4. CASE cPc' # "menu"
      BY <2>1, <2>4, BackOver DEF Downloading
    <2> QED BY <2>3, <2>4
  <1>6. CASE CRead
    BY <1>6, BackRead
  <1>7. CASE CLost
    BY <1>7, BackOver DEF CLost, Downloading
  <1> QED BY <1>1, <1>2, <1>3, <1>4, <1>5, <1>6, <1>7 DEF UserStep, ClientStep

(* The server sends part of what it owes, or takes on another number.      *)
LEMMA BackServed ==
    ASSUME BackInv, TypeInv, Downloading, Downloading', UNCHANGED clientVars, sPc' # "accept",
           up' \in Seq(Files),
           \A w : Sums(w, up) =>
               \E v : /\ Sums(v, up')
                      /\ Len(down') + ToCome' + v[Len(up')] = Len(down) + ToCome + w[Len(up)]
    PROVE  BackInv'
  <1>1. PICK w : Sums(w, up) /\ (Len(down) + ToCome + w[Len(up)]) - Expected >= Surplus
    BY DEF BackInv
  <1>2. PICK v : /\ Sums(v, up')
                 /\ Len(down') + ToCome' + v[Len(up')] = Len(down) + ToCome + w[Len(up)]
    BY <1>1
  <1>3. Expected' = Expected /\ Surplus' = Surplus
    BY DEF Expected, Surplus, clientVars
  <1>4. (Len(down') + ToCome' + v[Len(up')]) - Expected' = (Len(down) + ToCome + w[Len(up)]) - Expected
    BY <1>2, <1>3, Zenon
  <1>5. cPc' = "file" => Len(cFile') <= Size[cWant']
    BY DEF BackInv, clientVars
  <1>6. (Len(down') + ToCome' + v[Len(up')]) - Expected' >= Surplus'
    BY <1>1, <1>3, <1>4, Zenon
  <1> QED BY <1>2, <1>5, <1>6 DEF BackInv

LEMMA BackServer == ASSUME BackInv, TypeInv, ServerStep PROVE BackInv'
  <1> SUFFICES ASSUME Downloading' PROVE BackInv'
    BY BackOver
  <1>1. UNCHANGED <<listed, clientVars>>
    BY DEF ServerStep, SAccept, SList, SNum, SEnd, SFile
  <1>2. ~Gone
    BY <1>1 DEF Downloading, Gone, clientVars
  <1>3. Downloading
    BY <1>1 DEF Downloading, ServerStep, SAccept, SList, SNum, SEnd, SFile, clientVars
  <1>4. /\ down \in Seq(Unit) /\ up \in Seq(Files) /\ sPc # "accept"
        /\ (sPc = "file" => sNum \in Files)
    BY <1>3 DEF BackInv, TypeInv, TcpFileTypeOK
  <1>5. \A w : Sums(w, up) => w[Len(up)] \in Int
    BY <1>3, BackTypes
  <1>6. CASE SAccept
    BY <1>4, <1>6 DEF SAccept
  <1>7. CASE SList
    <2>1. sPc = "list" /\ sPc' = "num" /\ down' = down \o List /\ up' = up
      BY <1>2, <1>7 DEF SList, Send
    <2>2. Len(down') = Len(down) + ListLen
      <3>1. List \in Seq(Unit) /\ Len(List) = ListLen
        BY ListUnits
      <3> QED BY <1>4, <2>1, <3>1, LengthOfBoth
    <2>3. ToCome = ListLen /\ ToCome' = 0
      BY <2>1 DEF ToCome
    <2>4. ASSUME NEW w, Sums(w, up)
          PROVE  Len(down') + ToCome' + w[Len(up')] = Len(down) + ToCome + w[Len(up)]
      BY <1>4, <1>5, <2>1, <2>2, <2>3, <2>4, ListNotEmpty
    <2> QED BY <1>1, <1>3, <1>4, <2>1, <2>4, BackServed
  <1>8. CASE SNum
    <2>1. sPc = "num" /\ up # <<>> /\ up' = Tail(up) /\ UNCHANGED down
      BY <1>8 DEF SNum
    <2>2. Head(up) \in Files /\ up' \in Seq(Files)
      BY <1>4, <2>1
    <2>3. sPc' = "file" /\ sNum' = Head(up)
      BY <1>8, <2>2 DEF SNum
    <2>4. ToCome = 0 /\ ToCome' = Owed(Head(up))
      BY <2>1, <2>3, OwedSize DEF ToCome, Owed, ListLen
    <2>5. ASSUME NEW w, Sums(w, up)
          PROVE  \E v : /\ Sums(v, up')
                        /\ Len(down') + ToCome' + v[Len(up')] = Len(down) + ToCome + w[Len(up)]
      <3>1. PICK v : Sums(v, up') /\ v[Len(up')] = w[Len(up)] - Owed(Head(up))
        BY <1>4, <2>1, <2>5, SumsShifted
      <3>2. Len(down') + ToCome' + v[Len(up')] = Len(down) + ToCome + w[Len(up)]
        BY <1>4, <1>5, <2>1, <2>2, <2>4, <2>5, <3>1, OwedSize
      <3> QED BY <3>1, <3>2
    <2> QED BY <1>1, <1>3, <2>2, <2>3, <2>5, BackServed
  <1>9. CASE SEnd
    BY <1>2, <1>9 DEF SEnd
  <1>10. CASE SFile
    <2>1. sPc = "file" /\ sPc' = "list" /\ down' = down \o Content(sNum) /\ up' = up
      BY <1>2, <1>10 DEF SFile, Send, Downloading
    <2>2. Len(down') = Len(down) + Size[sNum] /\ Size[sNum] \in Nat
      <3>1. Content(sNum) \in Seq(Unit) /\ Len(Content(sNum)) = Size[sNum] /\ Size[sNum] \in Nat
        BY <1>4, <2>1, FileUnits, OwedSize
      <3> QED BY ZenonT(40), <1>4, <2>1, <3>1, LengthOfBoth
    <2>3. ToCome = Size[sNum] + ListLen /\ ToCome' = ListLen
      BY <2>1 DEF ToCome, Owed, ListLen
    <2>4. ASSUME NEW w, Sums(w, up)
          PROVE  Len(down') + ToCome' + w[Len(up')] = Len(down) + ToCome + w[Len(up)]
      BY <1>4, <1>5, <2>1, <2>2, <2>3, <2>4, ListNotEmpty
    <2> QED BY <1>1, <1>3, <1>4, <2>1, <2>4, BackServed
  <1> QED BY <1>6, <1>7, <1>8, <1>9, <1>10 DEF ServerStep

LEMMA BackInductive ==
    BackInv /\ TypeInv /\ TypeInv' /\ StreamInv /\ QuitInv' /\ [Next]_vars => BackInv'
  <1> SUFFICES ASSUME BackInv, TypeInv, TypeInv', StreamInv, QuitInv', [Next]_vars
               PROVE  BackInv'
    OBVIOUS
  <1>1. CASE UNCHANGED vars
    BY <1>1, BackQuiet DEF vars, serverVars, clientVars
  <1> QED BY <1>1, BackClient, BackServer DEF Next

LEMMA BackShows == BackInv /\ TypeInv => BacklogGrows
  <1> SUFFICES ASSUME BackInv, TypeInv, listed = Size, cPc = "menu", sPc = "num", up = <<>>
               PROVE  Len(down) >= Surplus
    BY DEF BacklogGrows, Surplus
  <1>1. Downloading
    BY DEF Downloading
  <1>2. PICK w : Sums(w, up) /\ (Len(down) + ToCome + w[Len(up)]) - Expected >= Surplus
    BY <1>1 DEF BackInv
  <1>3. ToCome = 0 /\ Expected = 0 /\ w[Len(up)] = 0
    BY <1>2 DEF ToCome, Expected, Sums
  <1> QED BY <1>1, <1>2, <1>3, BackTypes

(* When the listed sizes are right, what the client leaves unread grows    *)
(* with every download by a list less a read at least: it takes no more    *)
(* than a read beyond the file, and the server sends a list with each.     *)
THEOREM EveryDownloadLeavesList == Spec => []BacklogGrows
  <1>1. ExactInv => StreamInv
    BY DEF ExactInv
  <1> QED BY QuitInitial, QuitInductive, ExactInitial, ExactInductive, TypesInitial, TypesInductive,
             BackInitial, BackInductive, BackShows, <1>1, PTL DEF Spec

=============================================================================
