--------------------------- MODULE StopAndWaitProofs ---------------------------
(***************************************************************************)
(* Proofs about the UDP file transfer of hw2, for any set of clients, any  *)
(* files, and a network that loses, repeats and reorders datagrams.        *)
(***************************************************************************)
EXTENDS StopAndWait, TLAPS

(* The datagrams that can be on the network.                               *)
NetType == [kind : {"SEQ", "FIN", "ACK"}, client : Clients, no : Nat]
             \cup [kind : {"REPLY"}, client : Clients, no : {Junk}]

LEMMA DatagramType ==
    ASSUME NEW c \in Clients
    PROVE  /\ \A n \in Nat, k \in {"SEQ", "FIN", "ACK"} : Datagram(k, c, n) \in NetType
           /\ Datagram("REPLY", c, Junk) \in NetType
BY DEF Datagram, NetType

LEMMA DatagramFields ==
    ASSUME NEW k, NEW c, NEW n
    PROVE  /\ Datagram(k, c, n).kind = k
           /\ Datagram(k, c, n).client = c
           /\ Datagram(k, c, n).no = n
BY DEF Datagram

(* Receiving a datagram brings no new one.                                 *)
LEMMA ReceivedSubset == \A m : \A rest \in Received(m) : rest \subseteq net
BY DEF Received

LEMMA InitInv == Init => TransferInv
<1> SUFFICES ASSUME Init
             PROVE  TransferInv
  OBVIOUS
<1> USE StopAndWaitAssumption DEF Init
<1>1. TypeOK
  BY DEF TypeOK, SendOrFin
<1>2. CountInv
  BY DEF CountInv, Started, SendOrFin
<1>3. DatagramInv
  BY DEF DatagramInv
<1>4. QED
  BY <1>1, <1>2, <1>3 DEF TransferInv

-----------------------------------------------------------------------------
(* A client sends, times out, rejects a datagram or ends: no counter       *)
(* changes.                                                                *)
LEMMA ClientInv ==
    ASSUME NEW c \in Clients, TransferInv,
           CSend(c) \/ CTimeout(c) \/ CReject(c) \/ CSendFin(c) \/ CFinished(c)
    PROVE  TransferInv'
<1> USE StopAndWaitAssumption
<1>1. /\ UNCHANGED <<cFrame, sPc, sFrame, out>>
      /\ \A d \in Clients \ {c} : cPc'[d] = cPc[d]
      /\ cPc' \in [Clients -> {"send", "wait", "fin", "finwait", "done"}]
  BY DEF CSend, CTimeout, CReject, CSendFin, CFinished, TransferInv, TypeOK
<1>2. \/ cPc[c] \in {"send", "wait"} /\ cPc'[c] \in {"send", "wait"}
      \/ cPc[c] = "fin" /\ cPc'[c] = "finwait"
      \/ cPc[c] = "finwait" /\ cPc'[c] = "done"
  BY DEF CSend, CTimeout, CReject, CSendFin, CFinished, TransferInv, TypeOK
<1>3. \/ net' \subseteq net
      \/ cPc[c] = "send" /\ net' = net \cup {Datagram("SEQ", c, cFrame[c])}
      \/ cPc[c] = "fin" /\ net' = net \cup {Datagram("FIN", c, cFrame[c])}
  BY ReceivedSubset DEF CSend, CTimeout, CReject, CSendFin, CFinished
<1>4. cFrame[c] \in Nat /\ \A d \in Clients : cFrame[d] \in Nat
  BY DEF TransferInv, TypeOK
<1>5. TypeOK'
  <2>1. net \subseteq NetType
    BY DEF TransferInv, TypeOK, NetType
  <2>2. net' \subseteq NetType
    BY <1>3, <1>4, <2>1, DatagramType
  <2>3. QED
    BY <1>1, <2>2 DEF TransferInv, TypeOK, NetType
<1>6. CountInv'
  <2>1. ASSUME NEW d \in Clients
        PROVE  IF cPc'[d] \in {"send", "wait"} THEN cFrame[d] < Frames[d] ELSE cFrame[d] = Frames[d]
    <3>1. CASE d = c
      BY <1>2, <3>1 DEF TransferInv, CountInv
    <3>2. CASE d # c
      BY <1>1, <3>2 DEF TransferInv, CountInv
    <3>3. QED
      BY <3>1, <3>2
  <2>2. QED
    BY <1>1, <2>1 DEF TransferInv, CountInv, Started, Source
<1>7. DatagramInv'
  <2>1. ASSUME NEW m \in net'
        PROVE  /\ m.kind = "SEQ" => m.no <= cFrame[m.client] /\ m.no < Frames[m.client]
               /\ m.kind = "ACK" => Started /\ Source = m.client /\ m.no \in 1 .. Len(out)
               /\ m.kind = "FIN" => cPc'[m.client] \in {"finwait", "done"}
    <3>1. CASE m \in net
      <4>1. m.client \in Clients
        BY <3>1 DEF TransferInv, TypeOK
      <4>2. cPc[m.client] \in {"finwait", "done"} => cPc'[m.client] \in {"finwait", "done"}
        BY <1>1, <1>2, <4>1
      <4>3. QED
        BY <3>1, <4>2 DEF TransferInv, DatagramInv
    <3>2. CASE cPc[c] = "send" /\ m = Datagram("SEQ", c, cFrame[c])
      <4>1. m.kind = "SEQ" /\ m.client = c /\ m.no = cFrame[c]
        BY <3>2, DatagramFields
      <4>2. cFrame[c] < Frames[c]
        BY <3>2 DEF TransferInv, CountInv
      <4>3. QED
        BY <1>4, <4>1, <4>2
    <3>3. CASE cPc[c] = "fin" /\ m = Datagram("FIN", c, cFrame[c])
      <4>1. m.kind = "FIN" /\ m.client = c
        BY <3>3, DatagramFields
      <4>2. cPc'[c] = "finwait"
        BY <1>2, <3>3
      <4>3. QED
        BY <4>1, <4>2
    <3>4. QED
      BY <1>3, <3>1, <3>2, <3>3
  <2>2. QED
    BY <1>1, <2>1 DEF DatagramInv, Started, Source
<1>8. QED
  BY <1>5, <1>6, <1>7 DEF TransferInv

LEMMA AckInv == ASSUME NEW c \in Clients, TransferInv, CAck(c) PROVE TransferInv'
<1> USE StopAndWaitAssumption
<1>1. /\ cPc[c] = "wait"
      /\ UNCHANGED <<sPc, sFrame, out>>
      /\ net' \subseteq net
      /\ \A d \in Clients \ {c} : cFrame'[d] = cFrame[d] /\ cPc'[d] = cPc[d]
      /\ cFrame' = [cFrame EXCEPT ![c] = cFrame[c] + 1]
      /\ cPc' = [cPc EXCEPT ![c] = SendOrFin(c, cFrame[c] + 1)]
  BY ReceivedSubset DEF CAck, TransferInv, TypeOK
<1>2. /\ cFrame[c] \in Nat /\ Frames[c] \in Nat /\ cFrame[c] < Frames[c]
      /\ cFrame'[c] = cFrame[c] + 1 /\ cPc'[c] = SendOrFin(c, cFrame[c] + 1)
  BY <1>1 DEF TransferInv, TypeOK, CountInv
<1>3. Started /\ Source = c /\ cFrame[c] + 1 <= Len(out)
  BY <1>2 DEF CAck, TransferInv, DatagramInv
<1>4. TypeOK'
  <2>1. cPc' \in [Clients -> {"send", "wait", "fin", "finwait", "done"}]
    BY <1>1 DEF TransferInv, TypeOK, SendOrFin
  <2>2. cFrame' \in [Clients -> Nat]
    BY <1>1, <1>2 DEF TransferInv, TypeOK
  <2>3. \A d \in Clients : cFrame'[d] <= Frames[d]
    BY <1>1, <1>2 DEF TransferInv, TypeOK
  <2>4. net' \subseteq NetType
    BY <1>1 DEF TransferInv, TypeOK, NetType
  <2>5. QED
    BY <1>1, <2>1, <2>2, <2>3, <2>4 DEF TransferInv, TypeOK, NetType
<1>5. CountInv'
  <2>1. sFrame = Len(out) /\ Len(out) \in Nat
    BY DEF TransferInv, CountInv, TypeOK
  <2>2. Len(out) <= Frames[c] /\ Len(out) <= cFrame[c] + 1
    BY <1>3 DEF TransferInv, CountInv
  <2>3. \A d \in Clients : cFrame'[d] > 0 => c = d /\ cFrame'[d] <= Len(out)
    BY <1>1, <1>2, <1>3 DEF TransferInv, CountInv
  <2>4. ASSUME NEW d \in Clients
        PROVE  IF cPc'[d] \in {"send", "wait"} THEN cFrame'[d] < Frames[d] ELSE cFrame'[d] = Frames[d]
    <3>1. CASE d = c
      BY <1>2, <3>1 DEF SendOrFin
    <3>2. CASE d # c
      BY <1>1, <3>2 DEF TransferInv, CountInv
    <3>3. QED
      BY <3>1, <3>2
  <2>5. \A i \in 1 .. Len(out) : out[i] = [from |-> Source, no |-> i - 1]
    BY DEF TransferInv, CountInv
  <2>6. Started' = Started /\ Source' = Source
    BY <1>1 DEF Started, Source
  <2>7. QED
    BY <1>1, <1>2, <1>3, <2>1, <2>2, <2>3, <2>4, <2>5, <2>6 DEF CountInv
<1>6. DatagramInv'
  <2>1. ASSUME NEW m \in net
        PROVE  /\ m.kind = "SEQ" => m.no <= cFrame'[m.client] /\ m.no < Frames[m.client]
               /\ m.kind = "FIN" => cPc'[m.client] \in {"finwait", "done"}
    <3>1. m.client \in Clients /\ (m.kind = "SEQ" => m.no \in Nat)
      BY DEF TransferInv, TypeOK
    <3>2. cFrame[m.client] \in Nat /\ cFrame'[m.client] >= cFrame[m.client] /\ cFrame'[m.client] \in Nat
      BY <1>1, <1>2, <3>1 DEF TransferInv, TypeOK
    <3>3. cPc[m.client] \in {"finwait", "done"} => cPc'[m.client] = cPc[m.client]
      BY <1>1, <3>1
    <3>4. QED
      BY <3>1, <3>2, <3>3 DEF TransferInv, DatagramInv
  <2>2. QED
    BY <1>1, <2>1 DEF TransferInv, DatagramInv, Started, Source
<1>7. QED
  BY <1>4, <1>5, <1>6 DEF TransferInv

(* The steps that only take a datagram from the network, or end the server. *)
LEMMA DropInv ==
    ASSUME TransferInv, SIgnore \/ SFin \/ Lose
    PROVE  TransferInv'
<1>1. UNCHANGED <<cPc, cFrame, sFrame, out>> /\ sPc' \in {"recv", "done"}
  BY DEF SIgnore, SFin, Lose, TransferInv, TypeOK
<1>2. \/ net' \subseteq net
      \/ \E c \in Clients : net' \subseteq net \cup {Datagram("REPLY", c, Junk)}
  BY ReceivedSubset DEF SIgnore, SFin, Lose, TransferInv, TypeOK
<1>3. TypeOK'
  <2>1. net \subseteq NetType
    BY DEF TransferInv, TypeOK, NetType
  <2>2. net' \subseteq NetType
    BY <1>2, <2>1, DatagramType
  <2>3. QED
    BY <1>1, <2>2 DEF TransferInv, TypeOK, NetType
<1>4. CountInv'
  BY <1>1 DEF TransferInv, CountInv, Started, Source
<1>5. DatagramInv'
  <2>1. \A m \in net' : m \in net \/ m.kind = "REPLY"
    BY <1>2, DatagramFields
  <2>2. QED
    BY <1>1, <2>1 DEF TransferInv, DatagramInv, Started, Source
<1>6. QED
  BY <1>3, <1>4, <1>5 DEF TransferInv

(* What SWrite does, with the datagram it receives named.                  *)
LEMMA WriteStep ==
    ASSUME TransferInv, SWrite
    PROVE  \E m \in net :
             /\ m.kind = "SEQ" /\ m.client \in Clients /\ m.no = Len(out)
             /\ m.no <= cFrame[m.client] /\ m.no < Frames[m.client]
             /\ Started => Source = m.client
             /\ out' = Append(out, [from |-> m.client, no |-> m.no])
             /\ net' \subseteq net \cup {Datagram("ACK", m.client, m.no + 1)}
<1>1. PICK m \in net :
        /\ m.kind = "SEQ" /\ m.no = sFrame
        /\ out' = Append(out, [from |-> m.client, no |-> m.no])
        /\ net' \subseteq net \cup {Datagram("ACK", m.client, m.no + 1)}
  BY ReceivedSubset DEF SWrite
<1>2. m.client \in Clients /\ m.no = Len(out) /\ Len(out) \in Nat
  BY <1>1 DEF TransferInv, TypeOK, CountInv
<1>3. m.no <= cFrame[m.client] /\ m.no < Frames[m.client]
  BY <1>1 DEF TransferInv, DatagramInv
<1>4. Started => Source = m.client
  <2>1. SUFFICES ASSUME Started
                 PROVE  Source = m.client
    OBVIOUS
  <2>2. cFrame[m.client] > 0
    BY <1>2, <1>3, <2>1 DEF Started, TransferInv, TypeOK
  <2>3. QED
    BY <1>2, <2>2 DEF TransferInv, CountInv
<1>5. QED
  BY <1>1, <1>2, <1>3, <1>4

LEMMA WriteInv == TransferInv /\ SWrite => TransferInv'
<1> SUFFICES ASSUME TransferInv, SWrite
             PROVE  TransferInv'
  OBVIOUS
<1> USE StopAndWaitAssumption
<1>1. PICK m \in net :
        /\ m.kind = "SEQ" /\ m.client \in Clients /\ m.no = Len(out)
        /\ m.no <= cFrame[m.client] /\ m.no < Frames[m.client]
        /\ Started => Source = m.client
        /\ out' = Append(out, [from |-> m.client, no |-> m.no])
        /\ net' \subseteq net \cup {Datagram("ACK", m.client, m.no + 1)}
  BY WriteStep
<1>2. PICK n \in Nat : n = Len(out)
  BY DEF TransferInv, TypeOK
<1>3. UNCHANGED <<cPc, cFrame, sPc>> /\ sFrame = n /\ sFrame' = n + 1
  BY <1>2 DEF SWrite, TransferInv, CountInv
<1>4. /\ out' \in Seq([from : Clients, no : Nat])
      /\ Len(out') = n + 1
      /\ out'[n + 1] = [from |-> m.client, no |-> n]
      /\ \A i \in 1 .. n : out'[i] = out[i]
  BY <1>1, <1>2 DEF TransferInv, TypeOK
<1>5. Started' /\ Source' = m.client
  <2>1. CASE n = 0
    BY <1>4, <2>1 DEF Started, Source
  <2>2. CASE n # 0
    <3>1. Started /\ 1 \in 1 .. n
      BY <1>2, <2>2 DEF Started
    <3>2. out'[1] = out[1]
      BY <1>4, <3>1
    <3>3. QED
      BY <1>1, <1>4, <3>1, <3>2 DEF Started, Source
  <2>3. QED
    BY <2>1, <2>2
<1>6. TypeOK'
  <2>1. net \subseteq NetType
    BY DEF TransferInv, TypeOK, NetType
  <2>2. net' \subseteq NetType
    BY <1>1, <1>2, <2>1, DatagramType
  <2>3. QED
    BY <1>3, <1>4, <2>2 DEF TransferInv, TypeOK, NetType
<1>7. CountInv'
  <2>1. ASSUME NEW i \in 1 .. n + 1
        PROVE  out'[i] = [from |-> m.client, no |-> i - 1]
    <3>1. CASE i = n + 1
      BY <1>4, <3>1
    <3>2. CASE i # n + 1
      <4>1. i \in 1 .. n /\ Started
        BY <1>2, <3>2 DEF Started
      <4>2. out[i] = [from |-> Source, no |-> i - 1]
        BY <1>2, <4>1 DEF TransferInv, CountInv
      <4>3. QED
        BY <1>1, <1>4, <4>1, <4>2
    <3>3. QED
      BY <3>1, <3>2
  <2>2. n + 1 <= Frames[m.client] /\ n + 1 <= cFrame[m.client] + 1
    BY <1>1, <1>2 DEF TransferInv, TypeOK
  <2>3. ASSUME NEW c \in Clients, cFrame[c] > 0
        PROVE  m.client = c /\ cFrame[c] <= n + 1
    <3>1. Started /\ Source = c /\ cFrame[c] <= n /\ cFrame[c] \in Nat
      BY <1>2, <2>3 DEF TransferInv, CountInv, TypeOK
    <3>2. QED
      BY <1>1, <3>1
  <2>4. QED
    BY <1>3, <1>4, <1>5, <2>1, <2>2, <2>3 DEF TransferInv, CountInv
<1>8. DatagramInv'
  <2>1. ASSUME NEW d \in net'
        PROVE  /\ d.kind = "SEQ" => d.no <= cFrame[d.client] /\ d.no < Frames[d.client]
               /\ d.kind = "ACK" => m.client = d.client /\ d.no \in 1 .. n + 1
               /\ d.kind = "FIN" => cPc[d.client] \in {"finwait", "done"}
    <3>1. CASE d \in net
      <4>1. d.kind = "ACK" => Started /\ Source = d.client /\ d.no \in 1 .. n
        BY <1>2, <3>1 DEF TransferInv, DatagramInv
      <4>2. d.kind = "ACK" => m.client = d.client /\ d.no \in 1 .. n + 1
        BY <1>1, <4>1
      <4>3. QED
        BY <3>1, <4>2 DEF TransferInv, DatagramInv
    <3>2. CASE d = Datagram("ACK", m.client, m.no + 1)
      BY <1>1, <1>2, <3>2, DatagramFields
    <3>3. QED
      BY <1>1, <3>1, <3>2
  <2>2. QED
    BY <1>3, <1>4, <1>5, <2>1 DEF DatagramInv
<1>9. QED
  BY <1>6, <1>7, <1>8 DEF TransferInv

LEMMA NextInv == TransferInv /\ [Next]_vars => TransferInv'
<1> SUFFICES ASSUME TransferInv, [Next]_vars
             PROVE  TransferInv'
  OBVIOUS
<1>1. ASSUME NEW c \in Clients,
             CSend(c) \/ CTimeout(c) \/ CAck(c) \/ CReject(c) \/ CSendFin(c) \/ CFinished(c)
      PROVE  TransferInv'
  BY <1>1, ClientInv, AckInv
<1>2. CASE SWrite
  BY <1>2, WriteInv
<1>3. CASE SIgnore \/ SFin \/ Lose
  BY <1>3, DropInv
<1>4. CASE UNCHANGED vars
  BY <1>4 DEF vars, TransferInv, TypeOK, CountInv, DatagramInv, Started, Source
<1>5. QED
  BY <1>1, <1>2, <1>3, <1>4 DEF Next

(* The counters of both ends agree with the datagrams under way.           *)
THEOREM TransferInvariant == Spec => []TransferInv
<1>1. Init => TransferInv
  BY InitInv
<1>2. TransferInv /\ [Next]_vars => TransferInv'
  BY NextInv
<1>3. QED
  BY <1>1, <1>2, PTL DEF Spec

(* What a client counts as acknowledged is in the file of the server.      *)
THEOREM AckedFramesWritten == Spec => []AckedIsWritten
<1>1. TransferInv => AckedIsWritten
  <2>1. SUFFICES ASSUME TransferInv, NEW c \in Clients, cFrame[c] > 0
                 PROVE  /\ cFrame[c] <= Len(out) /\ Len(out) <= cFrame[c] + 1
                        /\ \A i \in 1 .. Len(out) : out[i].from = c
    BY DEF AckedIsWritten
  <2>2. Started /\ Source = c /\ cFrame[c] <= Len(out)
    BY <2>1 DEF TransferInv, CountInv
  <2>3. Len(out) <= cFrame[c] + 1
    <3>1. Len(out) <= cFrame[Source] + 1
      BY <2>1, <2>2 DEF TransferInv, CountInv
    <3>2. QED
      BY <2>2, <3>1
  <2>4. ASSUME NEW i \in 1 .. Len(out)
        PROVE  out[i].from = c
    <3>1. out[i] = [from |-> Source, no |-> i - 1]
      BY <2>1 DEF TransferInv, CountInv
    <3>2. out[i].from = Source
      BY <3>1
    <3>3. QED
      BY <2>2, <3>2
  <2>5. QED
    BY <2>2, <2>3, <2>4
<1>2. QED
  BY <1>1, TransferInvariant, PTL

-----------------------------------------------------------------------------
(* Refinement: the server receives the frames of one client in order.      *)

LEMMA WriteIsTake ==
    ASSUME TransferInv, SWrite
    PROVE  \E c \in Clients : Transfer!Take(c)
<1>1. PICK m \in net :
        /\ m.client \in Clients /\ m.no = Len(out)
        /\ m.no < Frames[m.client]
        /\ Started => Source = m.client
        /\ out' = Append(out, [from |-> m.client, no |-> m.no])
  BY WriteStep
<1>2. out \in Seq([from : Clients, no : Nat]) /\ Len(out) \in Nat
  BY DEF TransferInv, TypeOK
<1>3. out = Transfer!FirstFrames(m.client, Len(out))
  <2>1. ASSUME NEW i \in 1 .. Len(out)
        PROVE  out[i] = [from |-> m.client, no |-> i - 1]
    <3>1. Started
      BY <1>2 DEF Started
    <3>2. QED
      BY <1>1, <3>1 DEF TransferInv, CountInv
  <2>2. out = [i \in 1 .. Len(out) |-> out[i]]
    BY <1>2
  <2>3. QED
    BY <2>1, <2>2 DEF Transfer!FirstFrames
<1>4. out' = Transfer!FirstFrames(m.client, Len(out) + 1)
  <2>1. /\ Len(out') = Len(out) + 1 /\ out' \in Seq([from : Clients, no : Nat])
        /\ out'[Len(out) + 1] = [from |-> m.client, no |-> Len(out)]
        /\ \A i \in 1 .. Len(out) : out'[i] = out[i]
    BY <1>1, <1>2
  <2>2. ASSUME NEW i \in 1 .. Len(out)
        PROVE  out[i] = [from |-> m.client, no |-> i - 1]
    BY <1>3 DEF Transfer!FirstFrames
  <2>3. ASSUME NEW i \in 1 .. Len(out) + 1
        PROVE  out'[i] = [from |-> m.client, no |-> i - 1]
    <3>1. CASE i = Len(out) + 1
      BY <1>2, <2>1, <3>1
    <3>2. CASE i # Len(out) + 1
      <4>1. i \in 1 .. Len(out)
        BY <1>2, <3>2
      <4>2. out'[i] = out[i]
        BY <2>1, <4>1
      <4>3. QED
        BY <2>2, <4>1, <4>2
    <3>3. QED
      BY <3>1, <3>2
  <2>4. out' = [i \in 1 .. Len(out) + 1 |-> out'[i]]
    BY <2>1
  <2>5. QED
    BY <2>3, <2>4 DEF Transfer!FirstFrames
<1>5. sPc = "recv" /\ sPc' = sPc
  BY DEF SWrite
<1>6. QED
  BY <1>1, <1>3, <1>4, <1>5 DEF Transfer!Take

LEMMA FinIsClose ==
    ASSUME TransferInv, SFin
    PROVE  Transfer!Close
<1>1. PICK m \in net : m.kind = "FIN"
  BY DEF SFin
<1>2. m.client \in Clients /\ cPc[m.client] \in {"finwait", "done"}
  BY <1>1 DEF TransferInv, TypeOK, DatagramInv
<1>3. cFrame[m.client] = Frames[m.client] /\ Frames[m.client] \in Nat
  BY <1>2, StopAndWaitAssumption DEF TransferInv, CountInv
<1>4. Transfer!Complete(m.client)
  <2>1. SUFFICES ASSUME Frames[m.client] # 0
                 PROVE  out = Transfer!FirstFrames(m.client, Frames[m.client])
    BY DEF Transfer!Complete
  <2>2. Started /\ Source = m.client /\ Frames[m.client] <= Len(out)
    BY <1>2, <1>3, <2>1 DEF TransferInv, CountInv
  <2>3. Len(out) = Frames[m.client] /\ Len(out) \in Nat
    BY <1>3, <2>2 DEF TransferInv, CountInv, TypeOK
  <2>4. ASSUME NEW i \in 1 .. Len(out)
        PROVE  out[i] = [from |-> m.client, no |-> i - 1]
    BY <2>2 DEF TransferInv, CountInv
  <2>5. out = [i \in 1 .. Len(out) |-> out[i]]
    BY DEF TransferInv, TypeOK
  <2>6. QED
    BY <2>3, <2>4, <2>5 DEF Transfer!FirstFrames
<1>5. sPc = "recv" /\ sPc' = "done" /\ out' = out
  BY DEF SFin
<1>6. QED
  BY <1>2, <1>4, <1>5 DEF Transfer!Close

(* The transfer takes the frames of one client, each once and in order,    *)
(* and ends with a complete file.                                          *)
THEOREM ImplementsTransfer == Spec => TransfersInOrder
<1>1. Init => Transfer!Init
  BY DEF Init, Transfer!Init
<1>2. TransferInv /\ [Next]_vars => [Transfer!Next]_(Transfer!transferVars)
  <2> SUFFICES ASSUME TransferInv, [Next]_vars
               PROVE  [Transfer!Next]_(Transfer!transferVars)
    OBVIOUS
  <2>1. CASE SWrite
    BY <2>1, WriteIsTake DEF Transfer!Next
  <2>2. CASE SFin
    BY <2>2, FinIsClose DEF Transfer!Next
  <2>3. CASE SIgnore \/ Lose \/ UNCHANGED vars
    BY <2>3 DEF SIgnore, Lose, vars, Transfer!transferVars
  <2>4. ASSUME NEW c \in Clients,
               CSend(c) \/ CTimeout(c) \/ CAck(c) \/ CReject(c) \/ CSendFin(c) \/ CFinished(c)
        PROVE  UNCHANGED Transfer!transferVars
    BY <2>4 DEF CSend, CTimeout, CAck, CReject, CSendFin, CFinished, Transfer!transferVars
  <2>5. QED
    BY <2>1, <2>2, <2>3, <2>4 DEF Next
<1>3. QED
  BY <1>1, <1>2, TransferInvariant, PTL DEF Spec, TransfersInOrder, Transfer!Spec

-----------------------------------------------------------------------------
(* A lost acknowledgement, FIN or reply is never made up for.              *)

LEMMA StaysStarved ==
    ASSUME NEW c \in Clients, TransferInv, [Next]_vars, Starved(c)
    PROVE  Starved(c)'
<1> DEFINE a == Datagram("ACK", c, cFrame[c] + 1)
<1>1. sFrame \in Nat /\ cFrame[c] \in Nat /\ a \notin net
  BY DEF TransferInv, TypeOK, Starved
<1>2. a.kind = "ACK" /\ a.client = c /\ a.no = cFrame[c] + 1
  BY DatagramFields
<1>3. \A d \in Clients : \A n : Datagram("SEQ", d, n) # a /\ Datagram("FIN", d, n) # a /\ Datagram("REPLY", d, n) # a
  BY DEF Datagram
<1> HIDE DEF a
<1>4. SUFFICES /\ cPc'[c] \in {"send", "wait"} /\ cFrame'[c] = cFrame[c]
               /\ sFrame' > cFrame[c] \/ sPc' = "done"
               /\ a \notin net'
  BY DEF Starved, a
<1>5. ASSUME NEW d \in Clients, d # c,
             CSend(d) \/ CTimeout(d) \/ CAck(d) \/ CReject(d) \/ CSendFin(d) \/ CFinished(d)
      PROVE  /\ cPc'[c] = cPc[c] /\ cFrame'[c] = cFrame[c]
             /\ UNCHANGED <<sPc, sFrame>>
             /\ a \notin net'
  BY <1>1, <1>3, <1>5, ReceivedSubset
  DEF CSend, CTimeout, CAck, CReject, CSendFin, CFinished, TransferInv, TypeOK
<1>6. CASE CSend(c) \/ CTimeout(c) \/ CReject(c)
  BY <1>1, <1>3, <1>6, ReceivedSubset DEF CSend, CTimeout, CReject, Starved, TransferInv, TypeOK
<1>7. ~CAck(c)
  <2>1. SUFFICES ASSUME NEW m \in net, m.kind = "ACK", m.client = c, m.no = cFrame[c] + 1
                 PROVE  FALSE
    BY DEF CAck
  <2>2. m = a
    BY <2>1 DEF TransferInv, TypeOK, a, Datagram
  <2>3. QED
    BY <1>1, <2>2
<1>8. ~(CSendFin(c) \/ CFinished(c))
  BY DEF CSendFin, CFinished, Starved
<1>9. CASE SWrite
  <2>1. PICK m \in net : m.no = sFrame /\ net' \subseteq net \cup {Datagram("ACK", m.client, m.no + 1)}
    BY <1>9, ReceivedSubset DEF SWrite
  <2>2. sFrame > cFrame[c] /\ sFrame' = sFrame + 1 /\ UNCHANGED <<cPc, cFrame>>
    BY <1>9 DEF SWrite, Starved
  <2>3. a # Datagram("ACK", m.client, m.no + 1)
    <3>1. m.no + 1 # cFrame[c] + 1
      BY <1>1, <2>1, <2>2
    <3>2. QED
      BY <1>2, <3>1, DatagramFields
  <2>4. QED
    BY <1>1, <2>1, <2>2, <2>3 DEF Starved
<1>10. CASE SIgnore \/ SFin \/ Lose
  <2>1. UNCHANGED <<cPc, cFrame, sFrame>> /\ (sPc = "done" => sPc' = "done")
    BY <1>10 DEF SIgnore, SFin, Lose
  <2>2. a \notin net'
    <3>1. CASE SIgnore \/ Lose
      BY <1>1, <3>1, ReceivedSubset DEF SIgnore, Lose
    <3>2. CASE SFin
      <4>1. PICK m \in net : net' \subseteq net \cup {Datagram("REPLY", m.client, Junk)}
        BY <3>2, ReceivedSubset DEF SFin
      <4>2. Datagram("REPLY", m.client, Junk).kind = "REPLY"
        BY DatagramFields
      <4>3. QED
        BY <1>1, <1>2, <4>1, <4>2
    <3>3. QED
      BY <1>10, <3>1, <3>2
  <2>3. QED
    BY <2>1, <2>2 DEF Starved
<1>11. CASE UNCHANGED vars
  BY <1>1, <1>11 DEF vars, Starved
<1>12. QED
  <2>1. ASSUME NEW d \in Clients,
               CSend(d) \/ CTimeout(d) \/ CAck(d) \/ CReject(d) \/ CSendFin(d) \/ CFinished(d)
        PROVE  /\ cPc'[c] \in {"send", "wait"} /\ cFrame'[c] = cFrame[c]
               /\ sFrame' > cFrame[c] \/ sPc' = "done"
               /\ a \notin net'
    <3>1. CASE d = c
      BY <1>6, <1>7, <1>8, <2>1, <3>1
    <3>2. CASE d # c
      BY <1>1, <1>5, <2>1, <3>2 DEF Starved
    <3>3. QED
      BY <3>1, <3>2
  <2>2. QED
    BY <1>9, <1>10, <1>11, <2>1 DEF Next

LEMMA StaysHung ==
    ASSUME NEW c \in Clients, TransferInv, [Next]_vars, Hung(c)
    PROVE  Hung(c)'
<1> DEFINE Useless(m) == m.kind = "SEQ" \/ (m.kind = "FIN" /\ sPc = "done")
<1>1. \A m \in net : m.client = c => Useless(m)
  BY DEF Hung
<1>2. SUFFICES /\ cPc'[c] = "finwait"
               /\ \A m \in net' : m.client = c => Useless(m)'
  BY DEF Hung
<1>3. ASSUME NEW d \in Clients,
             CSend(d) \/ CTimeout(d) \/ CAck(d) \/ CReject(d) \/ CSendFin(d) \/ CFinished(d)
      PROVE  /\ cPc'[c] = "finwait"
             /\ \A m \in net' : m.client = c => Useless(m)'
  <2>1. d # c
    BY <1>1, <1>3 DEF Hung, CSend, CTimeout, CAck, CReject, CSendFin, CFinished
  <2>2. cPc'[c] = "finwait"
    BY <1>3, <2>1 DEF Hung, CSend, CTimeout, CAck, CReject, CSendFin, CFinished, TransferInv, TypeOK
  <2>3. \A m \in net' : m \in net \/ m.client = d
    BY <1>3, ReceivedSubset, DatagramFields DEF CSend, CTimeout, CAck, CReject, CSendFin, CFinished
  <2>4. sPc' = sPc
    BY <1>3 DEF CSend, CTimeout, CAck, CReject, CSendFin, CFinished
  <2>5. QED
    BY <1>1, <2>1, <2>2, <2>3, <2>4
<1>4. CASE SWrite
  <2>1. PICK m \in net :
          /\ m.kind = "SEQ" /\ m.client \in Clients /\ m.no = Len(out) /\ m.no < Frames[m.client]
          /\ net' \subseteq net \cup {Datagram("ACK", m.client, m.no + 1)}
    BY <1>4, WriteStep
  <2>2. m.client # c
    <3>1. SUFFICES ASSUME m.client = c
                   PROVE  FALSE
      OBVIOUS
    <3>2. cFrame[c] = Frames[c] /\ cFrame[c] \in Nat /\ m.no \in Nat
      BY <2>1 DEF Hung, TransferInv, CountInv, TypeOK
    <3>3. cFrame[c] > 0
      BY <2>1, <3>1, <3>2
    <3>4. cFrame[c] <= Len(out)
      BY <3>3 DEF TransferInv, CountInv
    <3>5. QED
      BY <2>1, <3>1, <3>2, <3>4
  <2>3. cPc' = cPc /\ sPc' = sPc
    BY <1>4 DEF SWrite
  <2>4. QED
    BY <1>1, <2>1, <2>2, <2>3, DatagramFields DEF Hung
<1>5. CASE SFin
  <2>1. PICK m \in net : m.kind = "FIN" /\ net' \subseteq net \cup {Datagram("REPLY", m.client, Junk)}
    BY <1>5, ReceivedSubset DEF SFin
  <2>2. sPc = "recv" /\ sPc' = "done" /\ m.client # c
    BY <1>1, <1>5, <2>1 DEF SFin
  <2>3. QED
    BY <1>1, <1>5, <2>1, <2>2, DatagramFields DEF SFin, Hung
<1>6. CASE SIgnore \/ Lose \/ UNCHANGED vars
  BY <1>1, <1>6, ReceivedSubset DEF SIgnore, Lose, vars, Hung
<1>7. QED
  BY <1>3, <1>4, <1>5, <1>6 DEF Next

(* A client whose acknowledgement, FIN or reply is lost never ends.        *)
THEOREM LossIsAlwaysFinal == Spec => LossIsFinal
<1>1. TransferInv /\ [Next]_vars
        => [\A c \in Clients : /\ Starved(c) => Starved(c)'
                               /\ Hung(c) => Hung(c)']_vars
  BY StaysStarved, StaysHung
<1>2. QED
  BY <1>1, TransferInvariant, PTL DEF Spec, LossIsFinal

=============================================================================
