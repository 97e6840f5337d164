----------------------------- MODULE SearchServer -----------------------------
(***************************************************************************)
(* The search engine of hw4: search_server.c loads the search tree and     *)
(* runs one handle_client thread per connection, search_client.c sends     *)
(* each key as it is typed and shows what the server answers.              *)
(*                                                                         *)
(* up[c] holds the keys on their way to the server, down[c] the answers on *)
(* their way back.  Both sides keep the search word of their own.          *)
(***************************************************************************)
EXTENDS Trie

CONSTANTS
    Clients,    \* the client processes
    MayVanish,  \* the clients that may be killed while they are connected
    Keys,       \* the bytes the user of each client may type
    Limit,      \* how many results are sent at most: 10
    Garbage,    \* what is left of a word whose bytes were permuted
    MaxWord,    \* bound: how long a search word gets
    MaxUnread   \* bound: how many keys the server may be behind

Quit == -1      \* '=' (61): ends the connection
Reset == -2     \* '\' (92): starts a new search word
Nul == -3       \* 0: strncat() adds nothing to the word
Other == -4     \* any other byte that is neither a letter nor the space ('{'
                \* selects the child of the space): it indexes past children[]

(* A byte, as what the server does with it.                                *)
Bytes == (0 .. Alpha - 1) \cup {Quit, Reset, Nul, Other}

ASSUME SearchAssumption ==
    /\ MayVanish \subseteq Clients
    /\ Keys \in [Clients -> SUBSET Bytes]
    /\ Limit \in Nat
    /\ Garbage \notin Seq(0 .. Alpha - 1)
    /\ MaxWord \in Nat
    /\ MaxUnread \in Nat

VARIABLES
    cPc,        \* where each client is
    cWord,      \* its search_word
    shown,      \* the results it shows
    up, down,
    hPc,        \* where its handle_client thread is
    hWord,      \* the search_word of the thread
    found,      \* results[]
    scrambled,  \* the struct data whose word has been written over
    alive       \* the server process

clientVars == <<cPc, cWord, shown>>
handlerVars == <<hPc, hWord, found>>
serverVars == <<scrambled, alive>>
vars == <<trieVars, clientVars, up, down, handlerVars, serverVars>>

Open(c) == alive /\ hPc[c] # "closed"
Ended(c) == cPc[c] \in {"closed", "gone", "killed"}

(* strncat(search_word, &c, 1), on both sides.                             *)
Added(word, key) == IF key = Nul THEN word ELSE Append(word, key)

(* A word with a byte for which the tree has no index.                     *)
Wild(word) == \E k \in DOMAIN word : word[k] = Other

(* write() by the client and by the thread: what is written to a           *)
(* connection the other side has closed is dropped.                        *)
Send(c, key) ==
    up' = IF Open(c) THEN [up EXCEPT ![c] = Append(@, key)] ELSE up

Answer(c, results) ==
    down' = IF Ended(c) THEN down ELSE [down EXCEPT ![c] = Append(@, results)]

Init ==
    /\ TrieInit
    /\ cPc = [c \in Clients |-> "start"]
    /\ cWord = [c \in Clients |-> <<>>]
    /\ shown = [c \in Clients |-> <<>>]
    /\ up = [c \in Clients |-> <<>>]
    /\ down = [c \in Clients |-> <<>>]
    /\ hPc = [c \in Clients |-> "none"]
    /\ hWord = [c \in Clients |-> <<>>]
    /\ found = [c \in Clients |-> <<>>]
    /\ scrambled = {}
    /\ alive = TRUE

-----------------------------------------------------------------------------
(* The client.                                                             *)

(* The server listens before it loads the tree.                            *)
CConnect(c) ==
    /\ cPc[c] = "start"
    /\ alive
    /\ cPc' = [cPc EXCEPT ![c] = "type"]
    /\ UNCHANGED <<trieVars, cWord, shown, up, down, handlerVars, serverVars>>

(* A key is added to the word and sent, whatever it is.                    *)
CType(c) ==
    /\ cPc[c] = "type"
    /\ Len(cWord[c]) < MaxWord
    /\ Len(up[c]) < MaxUnread
    /\ \E key \in Keys[c] :
        /\ cWord' = [cWord EXCEPT ![c] = Added(@, key)]
        /\ Send(c, key)
    /\ cPc' = [cPc EXCEPT ![c] = "reply"]
    /\ UNCHANGED <<trieVars, shown, down, handlerVars, serverVars>>

CReply(c) ==
    /\ cPc[c] = "reply"
    /\ down[c] # <<>>
    /\ shown' = [shown EXCEPT ![c] = Head(down[c])]
    /\ down' = [down EXCEPT ![c] = Tail(@)]
    /\ cPc' = [cPc EXCEPT ![c] = "type"]
    /\ UNCHANGED <<trieVars, cWord, up, handlerVars, serverVars>>

(* colored(): strstr() does not find the word in what was scrambled, or in *)
(* an answer to a word that went astray, and the NULL it returns is used.  *)
CColorFault(c) ==
    /\ cPc[c] = "reply"
    /\ down[c] # <<>>
    /\ Garbage \in ToSet(Head(down[c])) \/ (Wild(cWord[c]) /\ Head(down[c]) # <<>>)
    /\ cPc' = [cPc EXCEPT ![c] = "gone"]
    /\ UNCHANGED <<trieVars, cWord, shown, up, down, handlerVars, serverVars>>

(* read() returns 0: result_count is what it was, the results are blank.   *)
CReadEnd(c) ==
    /\ cPc[c] = "reply"
    /\ down[c] = <<>>
    /\ ~Open(c)
    /\ shown' = [shown EXCEPT ![c] = <<>>]
    /\ cPc' = [cPc EXCEPT ![c] = "type"]
    /\ UNCHANGED <<trieVars, cWord, up, down, handlerVars, serverVars>>

(* The Enter key.                                                          *)
CEnter(c) ==
    /\ cPc[c] = "type"
    /\ cWord' = [cWord EXCEPT ![c] = <<>>]
    /\ cPc' = [cPc EXCEPT ![c] = "menu"]
    /\ UNCHANGED <<trieVars, shown, up, down, handlerVars, serverVars>>

(* Mutant of CQuit: the connection is closed without a word.               *)
CQuit_Silent(c) ==
    /\ cPc[c] = "menu"
    /\ cPc' = [cPc EXCEPT ![c] = "closed"]
    /\ UNCHANGED <<trieVars, cWord, shown, up, down, handlerVars, serverVars>>

CQuit(c) ==
    /\ cPc[c] = "menu"
    /\ Send(c, Quit)
    /\ cPc' = [cPc EXCEPT ![c] = "closed"]
    /\ UNCHANGED <<trieVars, cWord, shown, down, handlerVars, serverVars>>

(* Any other key than q after Enter.                                       *)
CAgain(c) ==
    /\ cPc[c] = "menu"
    /\ Len(up[c]) < MaxUnread
    /\ Send(c, Reset)
    /\ cPc' = [cPc EXCEPT ![c] = "type"]
    /\ UNCHANGED <<trieVars, cWord, shown, down, handlerVars, serverVars>>

(* write() to a connection the server has closed: SIGPIPE.                 *)
CBrokenPipe(c) ==
    /\ cPc[c] \in {"type", "menu"}
    /\ ~Open(c)
    /\ cPc' = [cPc EXCEPT ![c] = "killed"]
    /\ UNCHANGED <<trieVars, cWord, shown, up, down, handlerVars, serverVars>>

CVanish(c) ==
    /\ c \in MayVanish
    /\ cPc[c] \in {"type", "reply", "menu"}
    /\ cPc' = [cPc EXCEPT ![c] = "gone"]
    /\ UNCHANGED <<trieVars, cWord, shown, up, down, handlerVars, serverVars>>

-----------------------------------------------------------------------------
(* The server: main() loads the tree, then accepts.                        *)

SLoad ==
    /\ alive
    /\ LoadLine
    /\ UNCHANGED <<clientVars, up, down, handlerVars, serverVars>>

SAccept(c) ==
    /\ alive
    /\ Loaded
    /\ hPc[c] = "none"
    /\ cPc[c] # "start"
    /\ hPc' = [hPc EXCEPT ![c] = "read"]
    /\ UNCHANGED <<trieVars, clientVars, up, down, hWord, found, serverVars>>

(* Mutant of TakeKey: the word is not cleared.                             *)
TakeKey_NoReset(c, key) ==
    \/ /\ key = Quit
       /\ hPc' = [hPc EXCEPT ![c] = "closed"]
       /\ UNCHANGED hWord
    \/ /\ key = Reset
       /\ UNCHANGED <<hWord, hPc>>
    \/ /\ key \notin {Quit, Reset}
       /\ hWord' = [hWord EXCEPT ![c] = Added(@, key)]
       /\ hPc' = [hPc EXCEPT ![c] = "search"]

(* What the thread does with the character it has read.                    *)
TakeKey(c, key) ==
    \/ /\ key = Quit
       /\ hPc' = [hPc EXCEPT ![c] = "closed"]
       /\ UNCHANGED hWord
    \/ /\ key = Reset
       /\ hWord' = [hWord EXCEPT ![c] = <<>>]
       /\ UNCHANGED hPc
    \/ /\ key \notin {Quit, Reset}
       /\ hWord' = [hWord EXCEPT ![c] = Added(@, key)]
       /\ hPc' = [hPc EXCEPT ![c] = "search"]

HRead(c) ==
    /\ alive
    /\ hPc[c] = "read"
    /\ up[c] # <<>>
    /\ TakeKey(c, Head(up[c]))
    /\ up' = [up EXCEPT ![c] = Tail(@)]
    /\ UNCHANGED <<trieVars, clientVars, down, found, serverVars>>

(* The client is gone: read() returns 0, nobody looks, and the character   *)
(* is whatever the uninitialised variable holds.                           *)
HReadEnd(c) ==
    /\ alive
    /\ hPc[c] = "read"
    /\ up[c] = <<>>
    /\ Ended(c)
    /\ Len(hWord[c]) < MaxWord
    /\ \E key \in Keys[c] \cup {Quit, Reset} : TakeKey(c, key)
    /\ UNCHANGED <<trieVars, clientVars, up, down, found, serverVars>>

(* search() gets from the tree to children[idx] of an index out of bounds.  *)
Astray(word) ==
    \E k \in DOMAIN word : word[k] = Other /\ Search(trie, SubSeq(word, 1, k - 1))

(* The nodes search() may return: that of the word; or, gone astray, any   *)
(* node a pointer lies around for (or NULL, in HMiss, or none: HFault).    *)
Reached(word) == {n \in DOMAIN trie : Astray(word) \/ (n = word /\ Search(trie, word))}

(* Mutant of HMiss: nothing is sent if nothing is found.                   *)
HMiss_Silent(c) ==
    /\ alive
    /\ hPc[c] = "search"
    /\ ~Search(trie, hWord[c])
    /\ hPc' = [hPc EXCEPT ![c] = "read"]
    /\ UNCHANGED <<trieVars, clientVars, up, down, hWord, found, serverVars>>

(* search() returns NULL: a result_count of 0 is sent.                     *)
HMiss(c) ==
    /\ alive
    /\ hPc[c] = "search"
    /\ ~Search(trie, hWord[c])
    /\ Answer(c, <<>>)
    /\ hPc' = [hPc EXCEPT ![c] = "read"]
    /\ UNCHANGED <<trieVars, clientVars, up, hWord, found, serverVars>>

(* collect() the results and "sort" them: qsort() is given the first       *)
(* struct data, where the array of pointers to them should be, and         *)
(* permutes the bytes of its word by what lies in memory behind it.  The   *)
(* tree is shared by all threads.  Without a result the assertion in       *)
(* vector_get() fails.                                                     *)
HFind(c) ==
    /\ alive
    /\ hPc[c] = "search"
    /\ \E n \in Reached(hWord[c]) :
       LET results == Collect(trie, n)
       IN  /\ found' = [found EXCEPT ![c] = results]
           /\ alive' = (results # <<>>)
           /\ scrambled' \in IF Len(results) > 1
                               THEN {scrambled, scrambled \cup {results[1]}}
                               ELSE {scrambled}
    /\ hPc' = [hPc EXCEPT ![c] = "answer"]
    /\ UNCHANGED <<trieVars, clientVars, up, down, hWord>>

(* What lies at the index out of bounds is no pointer, or points to what   *)
(* is no node.                                                             *)
HFault(c) ==
    /\ alive
    /\ hPc[c] = "search"
    /\ Astray(hWord[c])
    /\ alive' = FALSE
    /\ UNCHANGED <<trieVars, clientVars, up, down, handlerVars, scrambled>>

FewerOf(m, n) == IF m < n THEN m ELSE n

(* Mutant of HAnswer: the number of results is not limited.                *)
HAnswer_All(c) ==
    /\ alive
    /\ hPc[c] = "answer"
    /\ Answer(c, [k \in DOMAIN found[c] |->
                    IF found[c][k] \in scrambled THEN Garbage ELSE found[c][k].word])
    /\ found' = [found EXCEPT ![c] = <<>>]
    /\ hPc' = [hPc EXCEPT ![c] = "read"]
    /\ UNCHANGED <<trieVars, clientVars, up, hWord, serverVars>>

(* The number of results and their words, as they are by now;              *)
(* vector_destroy(results).                                                *)
HAnswer(c) ==
    /\ alive
    /\ hPc[c] = "answer"
    /\ Answer(c, [k \in 1 .. FewerOf(Limit, Len(found[c])) |->
                    IF found[c][k] \in scrambled THEN Garbage ELSE found[c][k].word])
    /\ found' = [found EXCEPT ![c] = <<>>]
    /\ hPc' = [hPc EXCEPT ![c] = "read"]
    /\ UNCHANGED <<trieVars, clientVars, up, hWord, serverVars>>

(* write() to a client that has closed its end: SIGPIPE, the server dies.  *)
HBrokenPipe(c) ==
    /\ alive
    /\ \/ hPc[c] = "search" /\ ~Search(trie, hWord[c])
       \/ hPc[c] = "answer"
    /\ Ended(c)
    /\ alive' = FALSE
    /\ UNCHANGED <<trieVars, clientVars, up, down, handlerVars, scrambled>>

ClientStep(c) ==
    \/ CConnect(c)
    \/ CType(c)
    \/ CReply(c)
    \/ CColorFault(c)
    \/ CReadEnd(c)
    \/ CEnter(c)
    \/ CQuit(c)
    \/ CAgain(c)
    \/ CBrokenPipe(c)
    \/ CVanish(c)

ThreadStep(c) ==
    \/ HRead(c)
    \/ HReadEnd(c)
    \/ HMiss(c)
    \/ HFind(c)
    \/ HFault(c)
    \/ HAnswer(c)
    \/ HBrokenPipe(c)

Next ==
    \/ SLoad
    \/ \E c \in Clients : ClientStep(c) \/ SAccept(c) \/ ThreadStep(c)

Spec == Init /\ [][Next]_vars

(* main() and the threads are scheduled, a blocked read() returns when     *)
(* there is something to read; nobody has to type anything.                *)
FairSpec ==
    /\ Spec
    /\ WF_vars(SLoad)
    /\ \A c \in Clients :
        /\ WF_vars(SAccept(c))
        /\ WF_vars(ThreadStep(c))
        /\ WF_vars(CReply(c) \/ CReadEnd(c))

-----------------------------------------------------------------------------
(* Type invariant of clients, connections and threads.                     *)
Results == {r \in Seq(Seq(0 .. Alpha - 1) \cup {Garbage}) : Len(r) <= Limit}

SearchTypeOK ==
    /\ TrieTypeOK
    /\ cPc \in [Clients -> {"start", "type", "reply", "menu", "closed", "gone", "killed"}]
    /\ cWord \in [Clients -> Seq(Bytes)]
    /\ shown \in [Clients -> Results]
    /\ up \in [Clients -> Seq(Bytes)]
    /\ down \in [Clients -> Seq(Results)]
    /\ hPc \in [Clients -> {"none", "read", "search", "answer", "closed"}]
    /\ hWord \in [Clients -> Seq((0 .. Alpha - 1) \cup {Other})]
    /\ \A c \in Clients : \A k \in DOMAIN found[c] : found[c][k].word \in Seq(0 .. Alpha - 1)
    /\ \A d \in scrambled : d.word \in Seq(0 .. Alpha - 1)
    /\ alive \in BOOLEAN

(* While its user types, a client shows the answer to the word it shows,   *)
(* neither that of an earlier key nor that of another client: as many      *)
(* results as there are (Limit at most), each of them a line that has the  *)
(* word as prefix, or the bytes of one that was scrambled.  A word that    *)
(* has a byte without an index may be shown anything.                      *)
AnswersWord ==
    \A c \in Clients : cPc[c] = "type" /\ cWord[c] # <<>> /\ ~Wild(cWord[c]) /\ Open(c) =>
        /\ Len(shown[c]) = FewerOf(Limit, Cardinality(Hits(cWord[c])))
        /\ \A k \in DOMAIN shown[c] :
             \/ shown[c][k] = Garbage
             \/ \E h \in Hits(cWord[c]) : shown[c][k] = text[h[1]].word

(* What takes the server process down: a client that is killed while it is *)
(* connected (SIGPIPE), a byte for which the tree has no index in the word *)
(* of a search, or a search for the empty word in an empty file (the       *)
(* assertion that there is a result).  No other word does, nor a client    *)
(* that quits, nor one that starts a new word.                             *)
SurvivesQuit ==
    ~alive => \E c \in Clients :
                \/ cPc[c] = "gone"
                \/ Wild(hWord[c])
                \/ hWord[c] = <<>> /\ text = <<>>

(* "Sort by frequency" (search_server.c:71, trie.c:77: "sort freq in       *)
(* descending order").                                                     *)
SortedByFreq ==
    \A c \in Clients : hPc[c] = "answer" =>
        \A i, j \in DOMAIN found[c] : i < j => found[c][i].freq >= found[c][j].freq

(* Every key is answered, or the connection ends, however the threads of   *)
(* several clients are scheduled; but for the backslash.                   *)
Answered ==
    \A c \in Clients :
        (cPc[c] = "reply" /\ ~IsSuffix(<<Reset>>, cWord[c])) ~> (cPc[c] # "reply")

=============================================================================
