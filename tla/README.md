# TLA+ models of the capstone1_study network programs

The repository holds small C programs: a peer-to-peer file distributor
(`project/`), a TCP file server (`hw1/`), a UDP stop-and-wait file transfer
(`hw2/`), a multi-client file server (`hw3/`) and an auto-completing search
engine (`hw4/`). This directory models their concurrent and distributed cores in
TLA+, checks them with TLC on small instances, and proves the central results with
TLAPS for every value of the constants.

    tlc -workers 2 -config P2PSender.cfg MCP2PSender     # one run; see the table
    tlapm P2PSenderProofs.tla                            # one proof module

## 1. Inventory

| Component | State | Operations | Hard behaviour | Status |
|---|---|---|---|---|
| P2P sending peer (`p2p.c:135-224`, threads `108-133`) | `recv_sock[]`, `ri[]`, loop counters, `mutex`, what is on each connection | accept and greet a peer, send the advance information, create one thread per segment round robin, lock / three writes / unlock, join | threads share sockets; peers answer in any order or vanish; SIGPIPE | `P2PSender` |
| P2P receiving peer (`461-560`, threads `227-432`) | `my_no`, `recv_info[]`, `fi[]`, positions in every stream | dial, greet, listen, connect to all others, read segments from the sender and push each to all others, read from all others, join, save | three kinds of threads, all-to-all connections, shared `fi[]`, unlocked pushes, a port that somebody else listens on, readers that lose the framing, failure of one receiver | `P2PReceiver`, composed in `P2P` |
| `split_file`, `main` of p2p | the vector of segments | cut a file, parse options | `seg_size *= 1024` overflows an `int` | `SplitFile`; `main`'s option parsing not modelled |
| UDP client and server (`hw2`) | `frame_id` on both sides, the output file, datagrams under way | send, time out, take or reject an acknowledgement, FIN; write and acknowledge, ignore, reply to FIN | loss, duplication, reordering, several clients at one server, a time-out racing its answer | `StopAndWait` |
| Search tree (`hw4/trie.c`) | nodes, `word_list`s | `insert`, `search`, `collect`, `set_data` | what is inserted depends on what was there before | `Trie` |
| Search server and client (`hw4`) | search word on both sides, shared tree, `results` | type a key, Enter, quit, again; read a key, search, collect, "sort", answer | a thread per client on shared data; keys that are also commands, bytes that are no letters; clients that vanish | `SearchServer` |
| vector (`project`, `hw4`) | `elems`, `capacity`, `size` | insert, push, remove, pop, get, set, the failed assertion | growth by doubling at the limit; a negative index | `Vector` |
| TCP file server (`hw1`) | file list, `num`, connection; the client's copy of the list | accept, list, choose, download, quit | list sent again after each file but read once; sizes as of the start of the server; `recv` that returns 0 | `TcpFile` |
| Multi-client file server (`hw3`) | files, `thread_count` and its condition variable, `type` and `path` of each thread; the client's path and listing | ls, cd, download, upload on a second port, quit | reads that swallow the next message, stale listings, a thread whose client is gone, a main thread that waits for one client and then stops | `FileServer` |

Interactions: the P2P processes talk over TCP only (sender to receiver: one
connection each; receiver to receiver: one in each direction); inside a process the
threads share `fi[]` (receiver) or the mutex and the sockets (sender). The UDP
programs share nothing but datagrams. The search server's threads share the tree, those
of the hw3 server its directories, `thread_count` and the process itself, which any of
them may end.

What makes each component correct:

* sender: frames are never torn, every segment goes to exactly one receiver, nothing
  starts before as many peers as asked for are accepted and have answered or are gone;
* receiver: a slot holds its own segment or nothing, is stored once, the file is
  saved only when complete, the counts computed in different processes agree;
* UDP: the output is a prefix of one client's file; acknowledged means written;
* tree: a search lists the lines it should, as often as it should;
* search server: the answer on screen belongs to the word on screen; no word of letters,
  and no client that quits, ends the server for the others;
* vector: it acts as a list, and nothing is touched outside the array;
* file servers: a download or an upload leaves the file and nothing else, what is
  left on the connection belongs to the next answer, client and server do not wait for
  each other, and the server ends when its client has quit.

`PROJECT.json` lists each hazard at its source line with the properties that
cover it, or the reason why none does.

## 2. Modules

| Module | What it is |
|---|---|
| `P2PSender` | the sending peer; the receivers are an environment that may dial, answer, stall or end at any point, also before they have sent their port |
| `P2PReceiver` | EXTENDS `P2PSender`: main thread, `get_file_from_sender`, `recv_file_from_recv`, `send_file_to_recv` of every receiver |
| `P2P` | the composition: `Next`, `Spec`, `FairSpec`, properties |
| `FileDistribution` | abstract: pieces are seeded to one peer, copied between peers, and a peer finishes with all of them |
| `StopAndWait`, `InOrderTransfer` | the UDP transfer, and what it promises |
| `Trie`, `SearchServer` | the tree and its loading; the server and clients on top of it |
| `Vector`, `List` | the growing array of `vector.c`, and the list it promises to be |
| `SplitFile` | EXTENDS `Vector`: `split_file` of `p2p.c`, and a caller of the vector afterwards |
| `FileServer` | server, threads and clients of `hw3` |
| `TcpFile` | server and client of `hw1` |
| `P2PSenderProofs`, `P2PProofs`, `P2PReceiverProofs`, `StopAndWaitProofs`, `VectorProofs`, `FileServerProofs`, `TcpFileProofs`, `SearchServerProofs` | theorems |
| `MC*` | symmetry sets and the values of constants for TLC |

Operators named `Action_Something` ("mutant of ...") are plausible bugs of the
action: each property has one that breaks it, listed under `mutants`.

### P2P: how the model relates to the code

* **A connection is a log** of items plus the position of its reader. An item is one
  `write()`: `no` (the receiver's number), `info` (the three kinds of writes of
  `p2p.c:185-190`, which one thread writes and one thread reads without anything in
  between, are one item), then `n`, `size`, `data` per segment. Pushing connections
  start with `count`.
* **Peers that end early.** `HangUp` needs nothing but a connection. `read()` of the port
  returns 0 then and is not looked at (`SReadPort`): the peer is counted, gets a number,
  a place in `recv_info[]` and its share of the segments. A write to a process that has
  gone **may** raise SIGPIPE and kill the writer, or be dropped: `SBrokenPipe` (number and
  advance information), `TBrokenPipe` (a segment), `PushBrokenPipe` (between receivers).
* **Ports.** `port[p]` is the address a receiver was given, one of `PortChoices`; another
  program (`Foreign`) listens on those in `Taken`. `bind()` fails if somebody listens
  there (`SO_REUSEADDR` is set), and `BindFails` are peers for which it may fail for
  another reason. `connect()` reaches whoever listens: `Listeners(port[q])` may be `q`,
  another receiver, the caller itself or the other program; `at[p][q]` is who it was. The
  `recv_file_from_recv` thread that reads the connection then belongs to `at[p][q]`.
* **A lost framing.** If a reader finds another item than it expects it is `garbled`:
  it takes payload for headers, stores anything in any slot and goes on (`RTGarbled`), waits
  or spins (no step), or crashes (`RTCrash`: an index out of range, a `malloc` that fails).
  At the end of a connection `read()` returns 0, which nobody looks at (`GReadEnd`,
  `RTReadEnd`): in the loop over the contents, or with the size of an earlier segment, the
  thread spins; before the first segment its variables are what the stack held, so it stores
  and passes on anything (`GLost`) or crashes (`GLostCrash`). `save_file()` may follow a
  pointer nobody stored (`RSaveCrash`).
* **Atomicity.** One action per `write()` of the threads that share a connection
  (`TWriteN/Size/Data`, `PushN/Size/Data`), one per `read()` of a header, one for
  the loop that reads a payload. Accept and the write of the number are one step, as
  are bind, listen and the creation of the threads, and `connect()` and the write of the count
  (another peer's connection made between them waits in the backlog).
* `recv_file_from_recv` threads are interchangeable until `accept()` returns; the
  model names them by the peer they accept.
* Process ends: `saved` (normal), `exited` (an error path), `killed` (SIGPIPE of a peer
  that was never accepted), `crashed` (any signal later). `gone` is what the sender can notice.
* The mutex is `mutex` (`Free` or the segment of the holder). Round robin uses the
  real counter `rb`; `dest` is the socket index handed to a thread.
* Left out: short reads and writes (a `read()` of a 4-byte header returns 4 bytes), memory that
  is overwritten without a crash, and, in the composition only, receivers that are killed from
  outside. Errors before `listen()` of the sender (file not found, port in use) end the program
  before it does anything.

`Undisturbed` (at most one segment for each receiver, `OneSegmentEach`; a port of its own for each
receiver, `OwnPort`) is the case in which nobody loses a framing or reaches the wrong process.
It is a precondition about the constants and the ports, never about what happens: a `bind()` may still fail,
the sender may still die. `NothingUnread`, `NoReadAtEnd` and `NobodyDragged` name it, `SlotsIntact`, `Distributes`
and `Completes` are checked in an instance that satisfies it, all others hold without
(`SaveNeedsEveryPeer` with `OwnPort` alone).

### UDP

`net` is the set of datagrams that may still arrive. Receiving one may leave a copy
(duplication), any element may be next (reordering), `Lose` removes one of the kinds
in `MayLose`. The client's time-out may happen at any moment, so its adaptation
(`client.c:111-115`) is not modelled. `if(timeout>0)` at `client.c:150` compares the
address of a function: the client always blocks in `recvfrom()`, which is what
`CFinished` does. The reply to a FIN is an uninitialised struct (`Junk`) that nobody
compares. Several clients may send to the one server, which never checks from whom a
frame is.

### Search tree and server

A node is its path; characters are child indices, so upper and lower case coincide as
they do in `insert` and `search`. `LoadLine` is the body of the loop of `set_data`; `WithLine` is the tree after the
sentence and every word but the first of it have been inserted, in the order of `strtok`.
Lines are well formed (a non-empty sentence, a tab, a number). `collect` is the
pre-order walk of the code. In the server each thread reads a key (`HRead`), searches
and collects (`HFind`, `HMiss`) and answers (`HAnswer`); between these steps other
threads run. `qsort()` gets the wrong array: it permutes eight-byte groups of the
first result's word, by an order read from memory behind the struct. The model lets
it scramble that word or not (`scrambled`), with two results or more (one element is never
moved; up to 128 results stay inside the word). A key is any byte (`Keys`, as what the server does with it): a letter or the space, the two
commands, 0, which `strncat` does not add to the word (`Nul`), and all the others (`Other`). For
those `tolower(c) - 'a'` is no index of `children[]` and nobody checks it: `search` goes `Astray`,
reads a pointer from whatever lies there, and returns NULL (`HMiss`), any node of the tree
(`Reached`), or crashes (`HFault`). An answer to such a word, or a scrambled one, makes
`strstr` in `colored` return NULL, and the client may die of it (`CColorFault`). Reading from a
vanished client returns 0 and leaves an uninitialised character: any key. What the client does with an
answer is one step, as `read()` is assumed to return a whole answer.

### Vector and split_file

`capacity`, `size` and `elems` are the fields of the struct; `elems` is a function on
`0 .. capacity - 1`, so that a step that touches another index has no value TLC can
compute, and `VectorTypeOK` says there is none. Slots that `malloc` or `realloc` gave and nobody
has stored to hold `Unset`. A call with a wrong index ends the process (`BadCall`); a
negative index is wrong because `i < (size_t) v->size` compares it as a huge number. `vector_create`
asks `malloc` for `sizeof(vector)`, the size of a pointer, and uses it for a struct of
twice that size: `malloc` rounds up, and the model has the struct.

`SplitFile` keeps ints at a width of `IntRange` values: `SegSize` is what `seg_size *=
1024` leaves. With a size of 0, and with a negative one (as `size_t` so large that
`malloc` and `fread` fail), `split_file` returns no segment. `Cut` is the real `Push` of
`Vector`, not an append to a sequence.

### File servers

**`FileServer` (hw3).** A connection is the sequence of the writes that are not read
yet. Types, sizes, counts and ports are read by themselves (`read` asks for four
bytes). A path is read by `read(1024)` until 256 bytes are there (`ReadPath`): it may
take the writes that follow, which are copied behind the array and never read again. The thread then goes on
with what comes next: `f_download` takes a type or a path for the name, or waits for more (`dlmore`);
such a name is `NoName`, and the path with it is no file (`HOpenFails`) or a directory, which can be opened and
gives nothing (`HSendNothing`). `f_upload` takes bytes of the file for the size (`SizeIn`, any of `Sizes`), truncates
`hello.txt` and stores what is left. The name, too, is read with what follows it (`HDownloadName`).
At any time after that the process may die of what was overwritten (`HOverwritten`). `faults`
remembers it: "overrun" for the first connection, "swallowed" for that of an upload. The client's
program counter has a state for each answer it waits for; `garbled` is that of a client
that took something else for a count, an entry or a port. Which entries are counted
(`Counted`, by `d_type`) and which are sent (`Entries`, by `stat`) differ in symbolic
links and in what other programs did in between (`Outsider`); `Disturbed` says that one
of the two is there.
The server watches the listening socket only, so it accepts one connection, waits in
`pthread_cond_wait` for the end of its thread and leaves the loop (`MAccept`, `MLeave`).
The other clients' `connect()` succeeds and they wait for their first listing. So there
is never a second thread, and the mutex around downloads and the process-wide
`chdir` of `ls` have nobody to disturb; they are left out, and `OneServed`, which is
proved, is the reason. `HEnd` is a thread whose client is gone: `read` returns 0, the code
looks for -1 only, `type` keeps its value and the last command is repeated for ever with
what is in the variables; if the client left something unread its end is a reset, which
`handle_clnt` does look for, and the process ends.

**`TcpFile` (hw1).** Here reads do take parts of a write, so a connection is a sequence
of units: `InfoLen` of them are a `struct finfo`, a read takes up to `BufSize`.
An entry that does not come in one piece is `torn`, since the client adds the offset to
a struct pointer; what it then overwrites is undefined and the client does nothing more in the model
(it may vanish). `exact` remembers for each download whether it was the file. The sizes in `listed` were taken when
the server started, from files that may have changed since, or from a directory, whose
"size" is huge.

**Left out of both**: numbers the user enters that are not of the list, write errors other
than SIGPIPE, errors before `listen()`, dangling links.

## 3. Runs

| Run (cfg) | Instance | Shows | states |
|---|---|---|---|
| `p2p_sender` | 3 peers, 2 places, 4 segments, free environment, symmetry | whole frames, round robin, start condition: `FramesWhole`, `StartsWhenAllJoined`, `RoundRobin` | 16 thousand |
| `p2p_swarm` | 3 peers, 2 places, 2 segments, own ports, one peer whose `bind()` may fail, fair | who is accepted ends with the whole, intact file unless that peer exits; a sender that dies of it is not being read, no receiver crashes; refinement of `FileDistribution`: `TypeOK` (with `SenderTypeOK`), `SlotsIntact`, `NobodyDragged`, `Distributes`, `Completes` | 184 thousand |
| `p2p_three` | 3 receivers, 1 segment, ports their own, one taken by another program, or all the same, symmetry | counts agree; nobody reads at the end of a connection; nobody saves without a peer it did not mistake: `NothingUnread`, `NoReadAtEnd`, `SaveNeedsEveryPeer` | 424 thousand |
| `p2p_overlap` | 2 receivers, 3 segments, ports their own or one taken, symmetry | two segments over one connection, lost framings, crashes, SIGPIPE between receivers: sender streams parsed, no thread outlives its data: `SenderStreamParsed`, `NoUseAfterFree` | 1.2 million |
| `p2p_overlap_corrupts` | 2 receivers, 3 segments, own ports | **violated** `SlotsIntact` | |
| `stop_and_wait` | 3 clients with files of 3, 2 and 0 frames, all kinds lost, fair | in-order transfer, invariant, loss is final, and nothing else keeps a client from its end: `AckedIsWritten`, `TransferInv` (with `TypeOK`), `TransfersInOrder`, `LossIsFinal`, `Completes` | 36 thousand |
| `trie` | all files of up to 3 of 8 lines | search and collect agree with the reference; only later words of earlier lines are missing: `FoundIsListed`, `CollectsHits` | 2.3 thousand |
| `search_server` | 2 clients, one may vanish and types a letter and the two commands, the other 0 and bytes that are no letters; an empty file and one with one line; fair | answers belong to words; every key but the backslash is answered; the server dies only of a client that is killed, a byte without an index, or the empty word in an empty file: `SearchTypeOK` (with `TrieTypeOK`), `AnswersWord`, `SurvivesQuit`, `Answered` | 448 thousand |
| `search_server_order` | 1 client | **violated** `SortedByFreq` | |
| `file_server` | 2 clients, one may be killed, 3 commands each, files of 0 and 2 blocks in two directories, links, one change from outside, fair | one client is served; its transfers are exact, its commands end and the server lives, but for named reasons: `FileServerTypeOK`, `OneServed`, `EndsForAReason`, `MenuDrained`, `DownloadExact`, `UploadExact`, `CommandsFinish` | 530 thousand |
| `tcp_file` | 3 downloads of an empty, a short and a removed file, four listings, fair | the repeated list spoils downloads and piles up; hangs and deaths only as stated: `TcpFileTypeOK`, `NoTwoExact`, `BacklogGrows`, `QuitEndsServer`, `DownloadsFinish` | 46 thousand |
| `split_file` | files of 0 and 7 bytes, `-g` 0, 1, 2, 4, 9 with a "K" of 2 and 4-bit ints, then any calls up to 5 elements | the vector is a list; the segments are the file: `VectorTypeOK`, `ActsAsList`, `CutsWholeFile` | 36 thousand |

**Why these bounds.** The P2P hazards need: a peer too many (3 peers, 2 places), a
receiver with two segments (3 segments, 2 receivers: the smallest case in which two
pushing threads share a connection and the share of the remainder matters), a
receiver with none (3 receivers, 1 segment), a port that is taken or shared (then `connect()` reaches
the caller itself, another receiver or another program), and a wrap of the round robin (4
segments, 2 receivers). Each run has one of these; all of them at once is out of
reach for TLC, and the proofs of section 4 cover them at once. For UDP, files of
different lengths let the server be ahead of, behind and equal to a client, and an
empty file sends only a FIN. `MaxWord` (length of a search word) and `MaxUnread` (keys
the server is behind) bound `SearchServer`; a letter and the two keys that are commands reach a
miss, a hit with more results than `Limit`, a reset that the server
has not read yet when the next key is typed, and a connection the user closes by accident;
the other client's keys reach a word that does not change, and one that goes astray.
The lines used in `Trie` include one that is a later word of another, one that repeats a
word, one that is only a space, and two with the same sentence. In `FileServer` three commands are enough for a
cd without ls, a download from a listing that an upload has made stale, and one more
command that finds what was left; two clients for one that is never served. The
lists of `TcpFile` (7 units) are longer than a read (4), which is longer than an entry (2)
and than a file (2): the client can fall behind, tear an entry, and find the list in a file
or before it; three downloads are one more than `NoTwoExact` needs. `SplitFile` has a size that divides
the file, one that does not, one larger than the file, a zero, a negative one (`-g 4`) and one that
wraps round to a small one (`-g 9`); five elements take the array through three doublings.

**Deadlock** is checked where the code may not stop before its end. It is switched off where the code really may stop: a receiver that cannot bind, or whose port another
program has, leaves the others connecting for ever or spinning, an environment that never
answers, a lost FIN, a typed backslash, a user who gives no command, a client and a server that both
read, a failed assertion. In `p2p_swarm` `Completes` says more: everybody ends.
`Terminated` (all processes have ended) and `ShortOfPeers` (the sender waits for peers and none is left)
are the regular ends.

**Fairness.** `P2P!FairSpec` is `WF_vars(Next)`: some thread runs if any can. Every
step of the protocol is progress and none is ever undone, so nothing stronger is
needed; the busy loops of the code (`connect`) are modelled as waiting.
`StopAndWait!FairSpec`: weak fairness of the client's own steps (it is scheduled and its
time-outs come), strong fairness of the arrival of a frame, its acknowledgement and
the FIN: what is sent again and again arrives at last, the usual assumption on a lossy
channel, and the weakest under which a retransmission protocol can be live. `Completes`
holds of it with every kind of loss, because it leaves out the clients of which
`LossIsFinal` says that they cannot end. In
`SearchServer` the threads, `main` and the clients' reads are weakly fair; users owe
nothing. The same in `FileServer` (threads, main thread, each client) and `TcpFile` (both
programs): commands are the user's and are not fair.

**Findings** (runs that find a violation).

1. `p2p.c:314`: pushes to one peer take no lock. With more segments than receivers
   frames mix and the saved file is corrupt.
2. `search_server.c:72`: results are not sorted by frequency, and the word of the first one
   is overwritten in the shared tree.

Some properties that hold state what a user of the programs would not expect:

* `LossIsFinal`: the UDP server does not acknowledge a frame again, and the client does
  not send its FIN again, so a single lost acknowledgement, FIN or reply leaves a client
  running for ever.
* `CollectsHits`: `insert` (`trie.c:63`) adds a sentence only to an empty list, so a
  one-word sentence that is a later word of an earlier line is in no result (`Repeated`); the
  property says that no other sentence is ever lost.
* `OneServed`: the "multi-client" server of hw3 serves one client and ends with it.
* `NoTwoExact`, `BacklogGrows`: of two downloads in a row from the hw1 server one is
  not the file, and the unread rest of the lists grows with every download.
* `CommandsFinish`, `DownloadsFinish`: an empty file hangs a download or an upload of hw3;
  a file that has become shorter hangs a download of either.
* `StartsWhenAllJoined`: a peer that ends before it has sent its port counts as joined.
* `SaveNeedsEveryPeer`: without ports of their own, a receiver may take itself or a stranger for a peer.
* `SurvivesQuit`: a digit in the search word may end the search server for everybody.
* `EndsForAReason`: a cd that no ls follows, then a download, ends the hw3 server; so does a client that
  quits with a download of a file that has become longer still to be sent.
* `CutsWholeFile`: `-g 0`, and a `-g` whose 1024-fold is negative as an `int`, give a file
  of no segments.

## 4. Proofs

All are checked by `tlapm` to the last leaf; they assume only the named assumptions on the constants of
each module (`SenderAssumption`, `ReceiverAssumption`, ...), which TLC evaluates in the runs.

* **Sender** (`P2PSenderProofs`). `SenderSpec => []FramesWhole` is not inductive:
  whether the next write continues a frame depends on who holds the mutex and on which
  thread wrote the last item. `SenderInv` adds: the loops are where their counters say
  (`MainInv`, with `rb` tied to `(idx - 1) % MaxPeer`), numbers are distinct and
  greetings ordered (`GreetInv`), the mutex is held exactly inside a frame
  (`MutexInv`), every item on a connection was written by the thread it names, at the
  right position and to the right receiver (`ItemInv`), and a connection ends inside a
  frame exactly if one thread is inside one (`TailInv`). One lemma per action;
  `WriteInv` is the heart. `FramesWhole`, `RoundRobin` and `StartsWhenAllJoined` follow.
* **Composition** (`P2PProofs`). Every step of the whole program is a step of
  `SenderNext` or leaves its variables alone (`ImplementsSender`: the receivers are
  built of the environment's steps, so this says little by itself), and the sender's promises carry over to
  the real receivers (`SenderPromises`).

  `BasicInv` is what holds of the receivers in **every** run, whatever the number of segments and the
  ports: where the threads of a process are, what it knows of the others, and that its position
  on the connection from the sender follows from its counter and the read to come. It is inductive
  only relative to `SenderInv`, since the reader relies on what the sender promises to write; both hold
  together (`WholeInvariant`). `TypeOK`, `SenderStreamParsed`, `NoUseAfterFree` and
  `SaveNeedsEveryPeer` follow, with crashes, lost framings, ends of connections and shared ports
  among the steps.
* **Receivers** (`P2PReceiverProofs`). `OrderlyInv` holds in the runs that are `Undisturbed`
  (`OrderlyInvariant`); ports never change and the number of segments is a constant, so that it can be assumed of
  every state. It has five parts. `ReceiverInv` says of each receiver where its threads are, whom
  it has connected to, and that there is one pushing thread for each segment it got and each other
  receiver, all ended when it saves. `AtOwn` says that connections reach whom they should. `EndInv` says why the
  sender may die. `CountInv` says how long each connection between receivers is and how far it is read, as cardinalities
  of what the threads at both ends have done. `SingleInv` says that a connection carries the frame of one segment in its order, that its
  reader is never misled, and that a receiver holds exactly what it has read. The five need each other: that no
  receiver crashes or meets the end of a connection rests on the counts, and the counts on that nobody crashes.

  The counts need one fact of arithmetic: `will_get_f`, which each receiver computes from
  quotient and remainder, is the number of `s` with `s % MaxPeer` its number. It is
  proved with a bijection from `0 .. WillGet(n) - 1` to those segments (`Share`), not by
  induction: sender and receiver agree where a stream ends.

  Hence `SlotsIntact`, `NothingUnread`, `NoReadAtEnd`, `NobodyDragged` and the refinement `Distributes`,
  of which each step is `Seed`, `Relay`, `Finish` or a stutter of `FileDistribution`. Without
  `OneSegmentEach`, `p2p_overlap_corrupts` is the counterexample.
* **UDP** (`StopAndWaitProofs`). `TransferInv` relates the counters on both ends, the
  file and every datagram under way; from it `AckedIsWritten`, the refinement
  `Spec => TransfersInOrder` and the action property `LossIsFinal`.
* **Vector** (`VectorProofs`). `VectorInv` is `VectorTypeOK` and `AllStored`, which is
  inductive: `CapacityFits` is the arithmetic of doubling (with `size <= capacity` before,
  one doubling is always enough). With it each call is a step of `List`, in
  `InsertActs`, `RemoveActs` and so on, for any elements and any number of calls (`MaxElems` is
  any number). `split_file` only makes such calls (`SplitFillsList`), of segments
  for which `SplitAssumption` says that they may be stored. `CutInv` says how far the
  file is cut: every element is the part it should be (`Part`), and what is left is the rest; with
  the arithmetic of the rounded-up quotient (`HowMany`) `CutsWholeFile` follows.
* **hw3** (`FileServerProofs`). `ServedInv`: before the first accept nobody is served and
  the count is 0; afterwards there is one client whose thread runs and the count is 1, or has ended and
  the count is 0. Accepting takes `epoll`, to which the main thread never returns.

  Every other property is about the three connections of a client, and none of them is
  inductive: what the thread takes for a path must be one. `FlowInv` says what may be
  there in each state of the thread: `Parsed` that the commands not yet read begin with
  what the thread reads next, whatever a client has typed ahead; `Listing` and
  `Uploading` that a client waits for one count and one port at a time; `Quitting` that a
  type 4 comes from a client that has left; `Stored` that the writes of an upload are the
  path, the size and as many blocks as the size says, however many of them were read at
  once, and, if the path was read with what follows it ("swallowed"), blocks all the same. It holds together with `ClientInv` (what a client may have in hand), and gives
  `FileServerTypeOK` and `UploadExact`.

  While nothing went wrong with a client (`Clean`: no stale size, no links, no other
  program) client and thread go through a command in step. `OrderInv` lists the eight pairs of
  states there are, from `Queued` (typed, but the thread is at an earlier command, or
  still busy with an upload the client has forgotten) over `AsksListing`, `AsksFile`,
  `GetsCount`, `GetsEntries`, `GetsFile`, `GetsPort` to `Leaves`, with what each
  has on the connections; in `GetsFile` what the client has and what is under way are
  the server's file. `MenuDrained` and `DownloadExact` follow. `SoundInv` adds that what a client asks
  for is there if it listed its directory, and `EndInv` blames each end of the process: every place
  where it may die (`HOpenFails`, `HCrash`, `HEnd`) is excluded by the two for a client with
  which nothing went wrong, so `EndsForAReason` holds.

  That proof corrected the property. It used to name four reasons for a death; the case of a client
  that quits while a download with a stale size is queued could not be closed, and TLC then
  found it with four commands and files of one and two blocks: the client
  has as many blocks as it counted, leaves, and the server writes the next ones to a closed connection.
  The run (three commands) cannot show it; "stale" is now among the reasons.
* **hw1** (`TcpFileProofs`). `QuitInv` follows both programs to the end of the first
  download: the client is at its menu only when the server waits for a number, so nothing is
  being sent when it quits. For `NoTwoExact`, `ExactInv` says that behind the last unit of a
  file comes the list (`EndsInv`), and that after an exact download the list is what the
  client reads next (`NextInv`): the next download starts with it. `TypeInv` needs of the
  streams (`StreamInv`) only their types, and that a client reads another entry while
  one is missing. For `BacklogGrows`, `BackInv` counts units while the client is
  downloading: those on the connection, those the server still owes for the number it
  works on (`ToCome`) and for the numbers under way (`Sums`, a function of prefix sums, so that no
  induction is needed), less those the client expects, are never fewer than the number of downloads times
  what a list is longer than a read.

* **Search** (`SearchServerProofs`). The invariant of the tree is that it has the nodes on the
  paths of what was inserted and nothing else, and that the list of a node matches what was
  inserted there, one for one (`Tree`, `Matches`); `Events` are the insertions of the lines read so
  far, less the sentences that were there already. `InsertTree` says what one `insert` does,
  `WithLineTree` goes through the words of a line, and `CollectTree` shows that what `collect` lists
  below a node matches the insertions that have the node as prefix: those at the node and, disjoint
  (`ChildPrefix`), those below each child. From it `FoundIsListed` and, by
  counting, `CollectsHits`, for any file. These are inductions over data: over the words, the
  children, and the height below a node. The library's induction theorem takes an operator, which
  no installed prover can instantiate; `AllNumbers` takes a set instead (the numbers of which the fact holds),
  and rests on the least element that `WellFoundedInduction` gives for a set.

  For the server, `FlowInv` relates both ends of a connection: the thread has the
  client's word, or will have it when it has read what is under way, of which only the last
  key may be another than the one that starts a new word (`Resets`, `Asked`). A client that waits is in one of four
  situations: its key is under way (`Sent`), searched for (`Working`), answered (`Replied`), or was
  the backslash that nobody answers (`Stuck`). `ThreadInv`: what a thread has found is what the tree lists,
  which no longer changes once a thread runs. `Kept` is what each action is shown to
  preserve. The words may hold bytes for which the tree has no index (`Word`); an answer to any other is
  `Good` by the theorems of the tree, so `AnswersWord` holds; a write meets a closed
  connection only when its client was killed, `search` goes astray only on such a byte, and
  `vector_get` has an element unless the file is empty, so `SurvivesQuit` holds.

  Proving it corrected the model of the file: a line of which the sentence is only spaces has no words, and is
  inserted all the same. `Hits` had left it out; no line of the run was like that, and one is now.

The theorems, by name:

| Module | Theorem | Run property | States |
|---|---|---|---|
| `P2PSenderProofs` | `SenderTypeCorrect` |  | The type invariant of the sending peer, for every number of peers, receivers and segments. |
| `P2PSenderProofs` | `SenderInvariant` |  | The inductive invariant of the sending peer, against peers that may answer, stall or end at any point, also before they have sent their port. |
| `P2PSenderProofs` | `FramesAlwaysWhole` | `FramesWhole` | The frames of concurrent threads never mix on a connection. |
| `P2PSenderProofs` | `RoundRobinHolds` | `RoundRobin` | Segment s goes to receiver s % MaxPeer and to no other, once. |
| `P2PSenderProofs` | `StartsOnlyWhenAllJoined` | `StartsWhenAllJoined` | Nothing but a number is sent before MaxPeer peers are accepted and each of them has answered or is gone. |
| `P2PProofs` | `SenderPromises` | `RoundRobin` | The whole program keeps the promises of the sender: whole frames, round robin, no early start. |
| `P2PProofs` | `WholeInvariant` |  | The inductive invariant of sender and receivers together, for any number of peers, receivers and segments and any ports: crashes, lost framings and shared ports included. |
| `P2PProofs` | `TypesHold` | `TypeOK` | Every variable of sender and receivers has its type, and no index of ri[], fi[] or the threads that still follow the protocol leaves its range. |
| `P2PProofs` | `SenderStreamIsParsed` | `SenderStreamParsed` | No receiver takes a number, a header or a payload from the sender for another, however the sender's threads interleave and whatever happens between receivers. |
| `P2PProofs` | `NoThreadOutlivesSave` | `NoUseAfterFree` | No pushing thread is left when save_file() frees what it reads, for any number of segments and any ports. |
| `P2PProofs` | `SavingNeedsEveryPeer` | `SaveNeedsEveryPeer` | Where every receiver has a port of its own, one saves only after every accepted peer has come to listen, for any number of segments. |
| `P2PReceiverProofs` | `OrderlyInvariant` |  | The inductive invariant of the undisturbed run, with at most one segment for each receiver and ports of their own: how far every connection is written and read, counted by the threads at both ends, what each frame carries, and how the sender ends. |
| `P2PReceiverProofs` | `SlotsStayIntact` | `SlotsIntact` | Undisturbed, a slot of fi[] holds nothing or its own segment, never bytes of another. |
| `P2PReceiverProofs` | `NothingIsUnread` | `NothingUnread` | Undisturbed, a receiver that saves has read all its connections to their end, and they brought all that was for it. |
| `P2PReceiverProofs` | `ReadsMeetNoEnd` | `NoReadAtEnd` | Undisturbed, no thread waits for more than its connection will bring: the counts computed in different processes agree. |
| `P2PReceiverProofs` | `NobodyIsDragged` | `NobodyDragged` | Undisturbed, the sender dies only of a receiver that could not bind, while nobody reads from it, and no receiver crashes. |
| `P2PReceiverProofs` | `DistributesFile` | `Distributes` | Undisturbed, the whole program implements FileDistribution, step by step: who saves has every segment. |
| `StopAndWaitProofs` | `TransferInvariant` | `TransferInv` | The inductive invariant of the UDP transfer, for any clients, files and losses. |
| `StopAndWaitProofs` | `AckedFramesWritten` | `AckedIsWritten` | What a client counts as acknowledged is written, and only one client gets beyond its first frame. |
| `StopAndWaitProofs` | `ImplementsTransfer` | `TransfersInOrder` | The UDP transfer implements InOrderTransfer. |
| `StopAndWaitProofs` | `LossIsAlwaysFinal` | `LossIsFinal` | A client whose acknowledgement, FIN or reply is lost never recovers. |
| `VectorProofs` | `VectorTypeCorrect` | `VectorTypeOK` | Every index that memmove() and the stores touch is inside the array, for every sequence of calls. |
| `VectorProofs` | `NothingUnsetReturned` |  | No slot in use is one that realloc() left unset. |
| `VectorProofs` | `VectorIsList` | `ActsAsList` | A vector implements List: inserts, removals, growth and wrong indices. |
| `VectorProofs` | `SplitFillsList` | `ActsAsList` | split_file keeps to the calls of the vector, so that the list it fills is one. |
| `VectorProofs` | `WholeFileIsCut` | `CutsWholeFile` | split_file cuts the whole file, in order, into segments of the size that is left of -g, for any length, any -g and any width of an int. |
| `FileServerProofs` | `ServesOneClient` | `OneServed` | The hw3 server serves at most one client in its life, and thread_count is exact, for any number of clients. |
| `FileServerProofs` | `FileServerTypesHold` | `FileServerTypeOK` | Every variable of hw3 keeps its type, for any clients, files, sizes and commands, whatever the reads of paths and names swallow. |
| `FileServerProofs` | `UploadsAreExact` | `UploadExact` | An upload of hw3 is stored to its last block, with none of it left on the connection, unless its client is killed or the path of one of its uploads was read with what followed it. |
| `FileServerProofs` | `MenusAreDrained` | `MenuDrained` | In hw3 no answer is left when the menu is shown, or taken for another, unless a size was stale or the directories are not as counted. |
| `FileServerProofs` | `DownloadsAreExact` | `DownloadExact` | A download of hw3 that nothing went wrong with leaves the server's file, in whatever parts it was read. |
| `FileServerProofs` | `EndsAreExplained` | `EndsForAReason` | The hw3 server ends by itself only after its client has quit, and dies only because a client vanished, a name was used without a listing of its directory, a path or a name was read with what followed it, a size was stale, or the directories are not as counted. |
| `TcpFileProofs` | `QuitIsClean` | `QuitEndsServer` | A client of hw1 that quits before any download leaves a server that ends, for any files, sizes and list. |
| `TcpFileProofs` | `ListSpoilsDownloads` | `NoTwoExact` | No two downloads in a row are exact, for any files, sizes and read sizes. |
| `TcpFileProofs` | `TcpTypesHold` | `TcpFileTypeOK` | The types of both programs of hw1: a client reads another entry of the list only while one is missing. |
| `TcpFileProofs` | `EveryDownloadLeavesList` | `BacklogGrows` | With right sizes the backlog grows with every download by a list less a read, for any files, lists and reads. |
| `SearchServerProofs` | `TreeIsLoaded` |  | After any number of lines of any file the tree holds exactly the sentences and later words those lines insert, each with its lines. |
| `SearchServerProofs` | `FoundListed` | `FoundIsListed` | What search() finds has something to list, for any file: the assertion of vector_get() never fails. |
| `SearchServerProofs` | `SearchListsHits` | `CollectsHits` | search() and collect() list the lines they should, as often as they should, for a tree of any file, depth and alphabet. |
| `SearchServerProofs` | `SearchInvariant` |  | The inductive invariant of search server and clients: the tree, and the search words on both sides of every connection. |
| `SearchServerProofs` | `SearchTypeCorrect` | `SearchTypeOK` | What the tree, the clients, the connections and the threads hold, for any clients, keys and file. |
| `SearchServerProofs` | `ShownAnswersWord` | `AnswersWord` | While its user types, a client shows the answer to the word it shows, however many clients and threads there are, but for words with a byte the tree has no index for. |
| `SearchServerProofs` | `SearchSurvivesQuit` | `SurvivesQuit` | The search server dies only of a client that is killed, a byte for which the tree has no index, or the empty word in an empty file: never of another word, nor of a client that quits or resets. |

Only model-checked: liveness (`Completes` twice, `Answered`, `CommandsFinish`,
`DownloadsFinish`), because liveness under fairness is outside what the installed provers can do. Every
invariant, action property and refinement of the passing runs is proved. `SlotsIntact` and `Distributes` are
proved under the hypothesis `Undisturbed`, which the instance of `p2p_swarm` satisfies;
`NothingUnread`, `NoReadAtEnd` and `NobodyDragged` contain it.

The assumptions are those the code makes: what a run's constants are is checked by
TLC. `FileServerAssumption` says that clients and names are finitely many, that what a file
contains is a sequence of blocks, and that a name that is not there is told from one that is
empty.

## 5. Not modelled, and plan

Done, in order: `P2PSender`, `P2PReceiver`, `P2P`, `StopAndWait`, `Trie`,
`SearchServer`, proofs of the sender, the composition and the UDP transfer; then
`FileServer`, `TcpFile`, `Vector` with `List`, `SplitFile`, and their first proofs; then the
receivers with the refinement of `FileDistribution`, the protocols of hw1 and hw3, and the
search tree with its server.

Not modelled:

* `main` of `p2p.c` (`getopt` and usage texts), usage checks and `socket`/`bind` errors at the start
  of the other programs: sequential, and a failure ends the program before it does anything;
* short reads of headers in P2P; the UDP client's adaptation of its time-out, whose `int` total may overflow;
* the console of `search_client.c` (cursor, colours), and search words longer than its 128 bytes;
* `free_node` of `trie.c` and `vector_destroy`, which no server reaches while it serves;
* undefined behaviour beyond what is named: what a torn entry in hw1 overwrites, values that the bytes behind
  an overrun array of hw3, or in a garbled segment of P2P, give to other variables without ending the
  process, numbers outside a list.

Next theorems: the safety halves of the liveness properties, that is what a state in which somebody
waits and nobody can move must look like, in `FileServer`, `TcpFile` and `SearchServer`; and the parts of
`SlotsIntact` and `NothingUnread` that hold when segments share a connection.
