# RedNetwork in TLA+

RedNetwork is a network sniffer in C. A server (`src/src/server.c`, `sniffer.c`,
`process_server.c`, `common.c`) captures frames with libpcap and sends them to
the clients that asked for their protocol; the same server also sends files and
directory listings. A client (`client.c`, `process_client.c`) makes one request
and prints, counts and inspects what it is sent. Earlier versions of both are
under `src/trunk`: two mini-ftp programs that fork, an analysis of capture files,
a prototype that writes what it captures to files.

These modules model the server (the threads it is made of, the tables they share
and the connections they write to), the client program, the two together, the
transfer of a file in bytes, the analysis of frames, and the two mini-ftp
programs with their clients. TLC checks small instances; TLAPS proves the main
safety properties for any number of clients and any sizes.

## Inventory

| Component | Source | State | Operations | Model |
|---|---|---|---|---|
| accept loop | `server.c` `main` | the listening socket, the local variable `client`, the descriptors held | `accept`, `pthread_create`, `continue` on -1 | `Handlers` |
| request threads | `server.c` `handle_request`, `get_file`, `dir_file`, `sniff`; `common.c` `copy_all_bytes` | `f`, `r`, an open file, a position in it | `recv`, the switch, `open`, `write`, `execlp`, `exit` | `Handlers` |
| registration tables | `requests.h`, `common.c` `table_init`, `add_client` | seven arrays of `MAXCLIENTS` descriptors | read a slot, store in it | `Process`, `Handlers` |
| capture thread | `sniffer.c` `start_sniffing`; `process_server.c` `got_packet`, `send_packet_to_client` | the frame, the table and the slot being visited, the descriptor read from it | classify, visit a slot, write header, write frame | `Sniffer` |
| rate limit | `sniffer.c` lines 104-115 | `t1`, `t2`, the clock | read the clock, call `pcap_loop` | `Throttle` |
| vocabulary and decisions on data | `requests.h`, `check_protocole`, `sniff`, `got_packet` | none | which protocol is accepted, which table it is registered in, which tables a frame goes to, which size is announced | `Requests` |
| client | `client.c`; `common.c` `copy_n_bytes`, `copy_all_bytes` | the stream from the server, `nbbytes` or `taille`, a local file, `buffer` | connect, send a request, check the answer, get, list, sniff | `Client` |
| file transfer | `get_file` on both sides, `copy_all_bytes`, `copy_n_bytes` | the file, the position in it, `nbbytes`, the two buffers with their `p` | `fstat`, read, write, each of a part | `Transfer`, `Fifo` |
| analysis | `process_client.c`, called by `client.c` and by `filter.c`; `trunk/analyse/Optimisation` | `protocoles`, the place in a payload (`ch`, `offset`, `len_rem`) | `got_packet`, `print_payload`, `look_for_pswd`, statistics | `Analysis`; `Client` only knows that it is called on every buffer |
| mini-ftp, two programs | `trunk/protocol_client_serveur`, and its directory `yassine` | processes, the descriptors each holds, pending SIGCHLD | accept, fork, close, wait, get, list | `ForkServer`, `MiniFtp` |
| capture to rotating files | `trunk/serveur/programme.c`, `createFiles.c`, `time.c` | dump file, `FERME`, a timer | open, write, close on a timer | not modelled |
| experiments | `trunk/serveur/old` | | | not modelled |
| pages and samples | `doc`, generated pages, captures | | | not modelled |

How they interact: main hands each request thread the *address* of its own
variable `client`; the request threads store descriptors in the tables; the
capture thread reads the tables while they do so and writes to the same sockets;
any thread may call `exit`, which ends them all, or `execlp`, which replaces
them all. There is no lock anywhere. In the mini-ftp programs each connection has a
process instead: a child starts with a copy of its parent's descriptors, and the
end of a stream is seen only when the last process that holds the connection has
closed it.

What is hard about it: the interleaving of `accept` with the first read of
`client`; two unlocked `add_client` on one table; delivery concurrent with
registration; `dup2` onto descriptors 1 and 2 of a process whose threads all print;
descriptors of clients that left and stay in the tables; blocking
writes to clients that stop reading; `exit` from anywhere; `recv` returning 0;
and four decisions on data (byte order of a length, header length of a frame
that is not IP, the table of `rarp`, the time compared by the rate limit).
In the transfer: reads and writes of a part, a file that grows, is cut or written over, a size that is
none of an `int`. In the analysis: lengths taken from the frame, a search that
runs past the line it was given, sums that are zero. In the mini-ftp programs:
children that end, are stopped or continued before, during and after the signal handler, and closes that
one program has and the other has not. `PROJECT.json` lists these with the line
where each bites.

What makes each part correct:

- accept loop: every connection gets a thread that works on it;
- request threads: a request is served once, to its end, and nobody else writes
  to the client meanwhile, except that what the process prints may go to a client
  whose listing is under way or has failed;
- tables: a client is in the table it asked for, once, and stays there; a table
  refuses only when full;
- capture thread: a frame goes to every client registered for it and to no
  other, as one header and one frame, and the thread returns to capture;
- rate limit: no more than one frame a second;
- client: a file arrives whole, each chunk once and in order, or is reported
  missing; every buffer analysed is a frame; the program ends when its transfer
  has, and when the server has;
- file transfer: the local file is what was read, in order, and complete when the
  program says so; neither side waits for the other for ever;
- analysis: each port is counted once for each frame it is in, a payload is printed
  byte by byte, a word that announces a password ends the program before the
  payload is shown any further as text, and the program ends;
- mini-ftp: the signal handler does not stop the accept loop, no descriptor is left
  open, a child that is done with its client does no harm where it goes on, a client
  sees the end of its file or listing. The programs keep only a part of this: the
  properties below say which.

## Modules

```
Requests --- Process --+-- Handlers --+-- Server --+-- Delivery --- Claims --- MCServer (TLC)
                       +-- Sniffer  --+            +-- ServerProofs --- StreamProofs --- DeliveryProofs --+
                       |                           |                                                      |
                       +-- Client -----------------+-- RedNetwork --+-- MCNetwork (TLC)                   |
                                                                    +-- RedNetworkProofs -----------------+
PubSub --- Delivery --- DeliveryProofs
Throttle --- ThrottleProofs
Fifo --- Transfer --- TransferProofs
Analysis --+-- MCAnalysis (TLC)
           +-- AnalysisProofs
ForkServer --- MiniFtp --+-- MCMiniFtp (TLC)
                         +-- MiniFtpProofs
```

- `Requests`: constants of `requests.h`; `Protocols` (check_protocole), `TableOf`
  (the if/else chain of `sniff`), `Route` (got_packet), `SentSize` (the length with
  its bytes exchanged) and `Captured` (what pcap hands over at least, the frame cut at
  `SNAP_LEN`).
- `Process`: what the threads share. `proc` is the life of the process, `tab` the
  tables, `conn`, `asked`, `pending`, `outbox`, `backlog` the connections as the
  kernel holds them. `Write(c, item)` is `write`: it blocks while the buffer of a
  reading client is full; to a client that left it either succeeds or ends the
  process (SIGPIPE has no handler and every caller exits on -1). The clients are
  the environment of `Server`: connect, send a request, read, leave.
- `Handlers`: main (`mainpc`, `client`, `accepted`) and the request threads. A
  thread is named by the connection it was created *for* (its index); the
  descriptor it works *on* is `hfd[h]`, read from `client` in `Start`. `hpc[h]`
  is the program counter, `hreq[h]` the request, `hpos[h]` the chunks copied or
  the index of `add_client`. One action per system call and per access to a
  variable another thread accesses: `ScanFree` is the read `tab[i]==0` and
  `Store` the assignment. `std[n]` is the connection that `dup2` put at descriptor `n`
  (`DupOut`, `DupErr`), for the whole process; `ExecLs` replaces the process or
  fails and leaves `std` as it is, and `ls` writes to `std[1]`, whoever's it is by then.
- `Sniffer`: the capture thread. `route` is the list of tables a frame is still
  to be sent to, `si` the index in `send_packet_to_client`, `sfd` its `clientfd`.
  `WriteBody` goes on whatever the write returned but -1; that it may have returned
  less is in `Client`, where `Cuts` is what arrives of a frame.
- `Server`: the composition, its fairness and its properties. `PrintOn(n)` is a print
  of any thread that is at a place where it prints, onto a descriptor that `dup2` has
  made a client's; it may block, and may bring SIGPIPE.
- `Throttle`: the loop around `pcap_loop`, with a clock in ticks. It says when
  `Capture` of `Sniffer` may happen, and `LoopFails` that `pcap_loop` may return an
  error and no frame; `Server` lets a frame come at any time, so
  what holds of `Server` holds with the limit too.
- `PubSub`: what the server promises to those that ask for frames, without tables,
  slots and threads: subscriptions, the message being published, the readers it is
  still `due` to, the one it is being sent to with the parts still `ahead`, and the
  stream of each reader.
- `Delivery`: the server as that service, a refinement mapping. A client that is
  connected and in a table is subscribed to it; the message is `frame` while `spc` is
  in the delivery; `Due` are the connected clients in the slots the capture thread is
  still to come to, in the rest of its table and in the tables of `route` after it; a
  client that left is nobody, although its descriptor stays in the table.
- `Claims`: what comments and pages say that the server does not do.
- `Client`: the program `client.c`, one per connection. `cpc[c]` is its program
  counter, one state for each place it blocks in: `connect`, `ask` (the write of
  the request), `answer` (`check_answer`), `create` (the local `open`), `copy`
  (`copy_n_bytes`), `list` (`copy_all_bytes`), `sniff` (the read loop), and the two
  ends, `closed` for a return of 0 and `failed` for any other. `inbuf[c]` is what its
  kernel holds; `Transmit` moves what the server wrote into it, cut in the units
  `read` may stop between. `rest[c]` is what `copy_n_bytes` still waits for, or
  the `taille` of `sniff`. `buffer[c]` keeps the old content behind a shorter read, as
  the array does. `AtEof` is the read that returns 0 once the server is gone and
  everything it wrote was read; `MayBeReset` is the read that returns -1. `ReadNoAnswer` is
  the read of 0 bytes that `check_answer` does not tell from an answer: the
  structure it then tests was never written, so both outcomes are taken.
- `RedNetwork`: `Server` and `Client` together. Each step is one thread's or one
  client's; `exit` of any server thread ends the whole process, while clients go
  on and read what is left. `ClientsAsAssumed` says that the programs do
  nothing the environment of `Server` does not.
- `Transfer`: one `get`, in bytes. The server has read `at` bytes of the file
  `data` and still holds `sbuf`, what is left between `p` and the end of its buffer;
  `wire` is the connection; the client holds `cbuf` and waits for `rest` bytes. Reads
  and writes take any part. `Grow`, `Shrink` and `Overwrite` are other programs that
  append to the file, cut it and write over a byte of it, `happened` is a history variable that says which of these
  happened after `fstat`, and whether the size was none of an `int`.
- `Fifo`: what a copy promises, a queue whose receiver may close. `Transfer`
  implements it with `queue` the concatenation of the two buffers and the wire.
- `Analysis`: `got_packet` as the client, `filter.c` and the earlier `filter.c`
  call it (`caller`). One action analyses the headers of a frame and counts its
  ports. A line of its payload takes two more, in the order of `print_hex_ascii_line`:
  `PrintHex` shows its hex columns, then the search from that line either finds a word
  and ends the process (`PasswordFound`) or lets the line be shown as text. A byte is the
  beginning of such a word, the rest of a longer one, 0, or anything else.
- `ForkServer`: the processes of the two servers of the mini-ftp programs, which
  `version` tells apart. A child is named by the connection it was forked for;
  `fds[p]` are the connections it holds, `out[p]` the one `dup2` made its standard
  output, `parent[p]`, `sigchld[p]` and `handling[p]` what the kernel and
  the handler know of its children. `Halt` is a child that is stopped or continued,
  which signals too since `signal` sets no `SA_NOCLDSTOP`, and `halted[p]` remembers that it
  happened; what is stopped is continued. `CopyFails` is `read` failing on a directory
  that `open` let pass, `AnswerList` lets `opendir` fail for any reason, and `Prints` is
  what goes to a standard output that is still a connection. `End` is all that happens when a process ends:
  it becomes a zombie or is gone, its parent is signalled, its children pass to
  `Init1`, its descriptors are closed.
- `MiniFtp`: `ForkServer` with a client program for each connection. Here
  connections are closed, so `AtEof(c)` is defined by the processes that hold `c`.

Descriptors: the server never closes a client's socket, so a descriptor is never
reused, and the name of the client stands for it.

## Runs

| Run | Properties | What it shows |
|---|---|---|
| `server_all` | `TypeOK`, `ServedOnce`, `OneWriter`, `StreamFramed`, `RefusedOnlyWhenFull` | two clients, every kind of request, a table of one slot, two descriptors |
| `delivery` | `Inv`, `RegisteredOnce`, `PrefixFilled`, `SlotsNeverFreed`, `ServerIsService`, `DeliveryEnds`, `FrameReachesClients` | two clients that register while frames are delivered: the server implements `PubSub`, deliveries end and reach every registered client |
| `network` | `ClientTypeOK`, `TransferExact`, `FramesWhole` | server and two client programs that get and sniff |
| `network_live` | `ClientsAsAssumed`, `ClientsEndWithServer`, `TransferEnds`, `RequestEnds` | one client program, every request, a frame: the program is a client as `Server` supposes, it ends, the server's thread ends |
| `throttle` | `AverageRate`, `NoBurstOfThree` | the limit holds on average, and bursts are of two frames |
| `transfer` | `TransferTypeOK`, `CompleteMeansAll`, `KilledByGrowthOnly`, `CopyIsFifo`, `ReturnsUnlessCut` | a transfer in bytes: the refinement of the queue, and what a file that changes does to either side |
| `analysis` | `AnalysisTypeOK`, `PayloadCovered`, `WordsCaught`, `CountsExact`, `SharesAreShares`, `AnalysisEnds` | the three programs on captures of up to three frames |
| `mini_ftp` | `FtpTypeOK`, `WaitReturns`, `NoLeak`, `ChildAccepts`, `FileInOrder` | both mini-ftp programs with two clients: safety |
| `mini_ftp_live` | `RepliesEnd` | both, with smaller requests: what a client was promised ends, or is kept open |
| `lost_connection` | `ServesEveryConnection` | **violated**: accept, create, accept again before the first thread ran |
| `lost_registration` | `RegistrationKept` | **violated**: two threads see slot 0 free |
| `shifted_frames` | `BuffersAreFrames` | **violated**: the second frame's answer is read as part of a frame |

What the passing properties say together: although two threads may work on one
connection and none on another, a request is received by one thread only
(`ServedOnce`), because receiving consumes it; the second thread waits until the
client leaves. So a client that is there is registered once, no two threads
write to it, and its stream stays framed. The exception is a client that asked for a
listing: from `dup2` on, and for ever when `execlp` fails, what any thread prints goes
to it, and `OneWriter` and `StreamFramed` say that it goes to no other client, in no file
and between no frames. What the tables lose, they lose by
overwriting: a slot never becomes free again, so the capture thread misses only
clients whose slot was overwritten. `ServerIsService` puts all of this in one
statement, `PubSub`: a client is subscribed once and loses the subscription only by
leaving or to another registration for the same table; a frame goes to those
subscribed when it is published, to some that register meanwhile, to each once,
header first, to one after the other; and nothing else is put on their streams.
On the other side of the connection the
same holds of what arrives: nothing between the two ends doubles or
reorders a chunk or a frame (`TransferExact`, `FramesWhole`). A frame is cut only by the
server: announced longer than it was captured, its length being in the other byte
order, it is written from memory behind the frame, and that write may stop short
unnoticed. `FramesWhole` compares what arrives with the size announced and with that
captured; it does not say that the size announced is the frame's, which it is not.
What else goes wrong in a client is its own: how it reads what arrives
(`shifted_frames`, with a frame whose length is the same in both orders), and which
results it ignores: `get_file` prints that the transfer is finished whatever
`copy_n_bytes` returned, also when the server ended in the middle. In `Client` both ways
end in "closed", and no property says more of it than `CompleteMeansAll`, below, of the
result itself. Frames of ARP reach nobody: the test on the IP header length comes before
the ethertype (`process_server.c:81`, in `Route`).

What `Transfer` adds to that: the two copy loops are right, whatever part each read
and write takes (`CopyIsFifo`), so `copy_n_bytes` returns 0 only with as many bytes
as were announced (`CompleteMeansAll`), which are the beginning of the file as long as
nothing is cut from it or written over. What they cannot do is agree when the file
changes between `fstat` and the last read, since one counts and the other reads
to the end. A file that grew has the server write to a client that closed, and
SIGPIPE ends it with all its threads; so does a size of 2^31 bytes or more, which
wraps to a number smaller than the file (`KilledByGrowthOnly` names these as
the only ways for a client that completed). A file that was cut leaves the client
waiting until the server ends, the socket never being closed (`ReturnsUnlessCut`).

What `MiniFtp` shows of the two programs. A handler that calls `wait` once for each
SIGCHLD does not block as long as children only end, because signals that merge leave
too many zombies and never too few (`WaitReturns`; the zombies left over stay until the
server ends). A child that is stopped or continued breaks it: it signals as well, and
the handler waits for a child that goes on running, and keeps the accept loop waiting
(`halted` in `WaitReturns`; the manual of yassine tells its user to press Ctrl+z). The program of
yassine closes every connection it accepts before it accepts again, but for one: when
`execlp` has failed, the child is back at `accept` with the connection of its client as
standard output, and its own children inherit it (`NoLeak` says that only a listing
leaves one open). In the program of trunk the parent's close is a comment
(`server.c:322-324`), so descriptors run out; and a child whose `opendir` failed, for that
or any other reason, sends the refusal, returns into the accept loop and serves
connections meant for its parent, its own connection closed (`ChildAccepts`).
`RepliesEnd` says what a client may wait for: a file of which every byte can be
read ends whoever holds the connection, since the client counts. A listing, or a
directory that `open` took for a file so that a size was announced and no byte sent, ends
by the end of the connection only, and the cases where a process that lives on keeps it
open are named in `KeptOpen`: the parent of trunk, a child of yassine after a failed
`execlp`, a process kept in its handler by a stopped child.

What `Analysis` shows of passwords is less than the comments of the code hope for. The
hex columns of a line are printed before it is searched, and what `look_for_pswd` finds
it prints itself (`process_client.c:35`). `WordsCaught` says what the search does achieve:
it misses a word only behind a 0 in the word's own line, and any other is shown at
most in hex, in the line searched last.

Bounds. Two clients are enough for every race of two threads (same descriptor,
same slot, handler and capture thread); a third only repeats them, and the
safety properties are proved for any number. `MAXCLIENTS` 1 makes a table full,
2 lets a slot be overwritten while another is free. `SockBuf` of 1 or 2 items
makes writes block and lets a header and its frame be seen together.
`BacklogMax` 1 or 2 lets a second connection wait while the first is accepted.
`MaxFds` equal to the number of clients makes `accept` and `open` fail. Frames
are one TCP and one ARP frame, in `delivery` one that two tables take. In `Throttle` a second is two ticks and the clock
runs for nine. `PieceSize` is the number of bytes of a unit of a frame: the frame
of 54 bytes is announced with the bytes of its length exchanged (`SentSize`), as
10254, so units of 10000 bytes cut it in two, enough for a read, or the server's
write, to stop inside it. In `shifted_frames` the frame has 271 bytes, announced as 271, and
units of 200, so that the violation owes nothing to the byte order. `InBuf` of 2 units
holds an answer and the beginning of a frame or a frame, 3 or 4 an answer and a frame,
or a frame and the next answer. `network` uses a file of two chunks so that a transfer has a
middle, and no listings: what a listing brings to the streams is in `server_all` and the
proofs. `network_live` has one client: what reaches a client from the others' threads is
their writes, which `OneWriter` excludes, and their `exit`, which the capture
thread, failing to open its device at any time, stands for. Clients are symmetric in the safety runs; the liveness runs use no
symmetry. `CHECK_DEADLOCK` is off because the system stops: the process exits, or
every client is gone and no frame comes; a transfer, an analysis and a mini-ftp
server that lost its set-up end as well.

In `transfer` buffers have two bytes and `INT_MAX` is 2, so that a file of `MaxSize` 6
needs several turns of each loop, is announced as every number of an `int`, and
wraps to 0 at 6; the connection holds two bytes, so that either side waits for
the other. In `analysis` a line has two bytes, payloads have up to five, so that a
word may begin in a line, before it and behind the payload, with a 0 in between;
three frames make every counter that matters 1, 2 or 3 and leave remainders in the
shares. `num_packets` is none or 1. In `mini_ftp` two children are enough for two
SIGCHLD that merge, for a child that ends while the handler waits, and for a
child that accepts; a file of two reads has a middle, one name is a directory, one
cannot be opened, and two descriptors run out. `mini_ftp_live` can use no symmetry and
is smaller: the file has one read, in the program of yassine clients ask only for what ends by
the end of the connection, a directory or a listing (that a file ends is the same code in both
programs), and the clients start in one order (`LiveSpec`), which loses nothing,
since a behaviour with the other order is the same with the names exchanged.

Fairness. `ServerFairness` is weak fairness of each thread's steps: the kernel
runs every thread that can run. Choosing the device and the arrival of a frame
are not fair. `ReadersFairness` supposes that a client that stays connected keeps
reading: its loops do nothing else (`client.c`, `copy_n_bytes` and the loop of
`sniff`). Without it the capture thread may block in `write` for ever, which is
why `DeliveryEnds` is checked under `ReadersSpec`. `NetFairness` needs no such
supposition: it is weak fairness of the server's threads, of every client
program (`ClientRuns`) and of the delivery of what was written (`Transmit`).
Connecting and being interrupted by the user are not fair.
In `mini_ftp`, `transfer` and `analysis` fairness is that of the scheduler: weak
fairness of the set-up, of each process and of each client in `FairSpec` of
`MiniFtp`, of each side in `Transfer`, of the one program in `Analysis`. That a stopped process is
weakly fair supposes that it is continued. What is printed onto a connection (`PrintOn`,
`Prints`) and children being stopped (`Halt`) are not fair: they may happen, and nothing
waits for them but a print that blocks, which a reader ends. Interrupts, new
connections, changes of the file and the end of the server by another thread
are not fair.

What liveness does not say: a client of `sniff` is sent nothing before the first
frame of its protocol, so with none captured it waits in `check_answer` for ever;
and a client whose connection no thread works on (`lost_connection`) waits as
well. `TransferEnds` starts where a transfer has.

## Proofs

`ServerProofs` proves `Spec => []TypeOK`, then `Spec => []Inv`
and from it `ServedOnce`, `RegisteredOnce`, `OneWriter`, `PrefixFilled`,
`SlotsNeverFreed` and `RefusedOnlyWhenFull`. The assumptions are those the modules
name: `MAXCLIENTS`, `SockBuf` and `BacklogMax` are positive, the special values
are not clients, requests or frames, files have a length.

`ServedOnce` is not inductive: nothing in it forbids a second thread to receive a
request still pending. `Inv` adds

- `Received`: while a request of a connected client is not received, no thread is
  past `recv` on its connection, and the thread that is works on that request;
- `Registered`: a connected client is in a table, or in `sfd`, only when the
  thread that served it has returned, hence never while it writes (`OneWriter`)
  nor when it stores again (`RegisteredOnce`);
- `Redirected`: a connected client is at descriptor 1 or 2 only when the thread that
  serves it put it there, for a listing it had answered (`OneWriter`);
- `Known`: no variable names a client that has not connected, so that a
  connection starts with nobody serving it;
- `Created`: a connection is accepted once and its thread is created after that,
  so that creating a thread erases no thread that returned;
- `Rewound` and `PrefixFilled`: a scan starts at 0 and passes occupied slots only.

The proof of a step groups the actions of a handler that neither change a table
nor who has which connection (`Quiet`), and treats `Start`, `RecvRequest`,
`RecvEof`, `RecvError` and `Store` one by one. The scans are a separate half
(`Scanning`) that needs nothing of the first but `Created`.

`StreamProofs` proves `StreamFramed`: what a connected client was sent and has not read
is a piece of the stream its request calls for. Nothing in it says what the next
writer is about to write, so it is not inductive. `StreamInv` adds to `Inv`

- `Begun`: something was sent only once a thread answered the request, so that the
  first write of a handler finds an empty stream (`NothingSent`);
- `SniffEnd`, `CopyEnd`, `ListEnd`: what was sent last is what the thread that will
  write next has written last, the header of the frame it holds, the chunk before
  `hpos[h]`, the answer or what was printed before the output of `ls`;
- `Kinds`, `Routed`, `Delivering`: the request of a handler is of the kind its place
  in the code is for, and the capture thread holds the descriptor of a client only
  for a frame of the protocol that client asked for.

`OneWriter` is what lets these be about *the* thread that will write. All the
proofs of `Server` are for `AnyNext`, in which clients act also after the process
has exited, since in the whole system they do.

`DeliveryProofs` proves `Spec => ServerIsService`, the refinement of `PubSub`, from
`StreamInv` and one fact more, `Straight`: no table is twice in `route`, since the table
of the ethertype is none of those of the protocol (`RouteStraight`). The proof goes
through the steps of each thread:

- main shows nothing, and a handler shows nothing but by `Store` (`PrivateShown`): it
  writes only to clients that asked for no frames, which is `Kinds` with `TheRequest`;
- `Store` is `Replace` (`StoreReplaces`). By `Registered` the client was in no table before;
  by `RegisteredOnce` the one overwritten stood in no other slot, and so is no longer due;
- `Classify` is `Publish`, with everybody interested due, because the delivery begins at
  slot 0 of the first table; `NextTable` after the last table is `Finish`, with nobody
  due, and before that a shift of positions which leaves `Due` what it was;
- `TakeSlot` is `Begin`. That the client is due no more afterwards is where `RegisteredOnce`
  and `Straight` are needed: it stands in no other slot, and that slot is not met again;
- the two writes are `Put`, to a client that asked for frames by `Delivering`;
- clients read and leave; one that connects or asks has an empty stream (`Begun`), is in
  no table (`Known`), and no thread has returned from it (`Received`).

To a client that left a write is no step of the service, and neither is a slot
that is free or has the descriptor of such a client.

`RedNetworkProofs` proves first that server and programs fit: `NetSpec =>
ClientsAsAssumed` and `NetSpec => []Living`, where `Living` is `StreamInv` with
`Tied`: a program that talks has an open connection, has asked nothing before it asks,
and is sent nothing before it connects. `Tied` is what makes each step of the program
a step of the environment, `StreamInv` what keeps it so. So what is proved of
`Server` holds of the whole, the refinement included (`NetSpec => ServerIsService`).

Then it proves what arrives: `TransferExact`, `FramesWhole` and `ClientTypeOK`, from
`NetInv`, which adds to `Living` a `Link` for each open connection:

- `Copying`: from the answer on, and not only while the client copies, the local
  file, `inbuf`, `outbox` and what the thread has yet to read make up the file. It is
  needed from the answer on because the thread copies while the answer is on its way;
- `Joined`: what was delivered last fits what is delivered next. A read may stop inside
  a frame, so `FramesWhole` alone does not say how a frame half read goes on; and the
  body that the capture thread is about to write must fit a header that the client
  may already have;
- `Sorted`: only answers and frames are sent to a client of `sniff`, and no frame to
  any other, so that a frame is never cut in the middle of a file;
- `Opening`: what comes first is an answer, and nobody has begun to send to a client
  that neither has nor is sent anything. The second part is for `ReadNoAnswer`: a client
  that takes the end of the stream for an answer goes on as if it had one, and it
  must be known that no thread had copied anything to it;
- `Heard`: a client that was sent something, or goes on while the server lives, was
  served; with `ServedOnce` it is what makes `AnswerGet` write to an empty connection;
- `Framed` is `FramesWhole` of one connection, `Filed` says that only a file is
  received in a local file, which is empty until then.

The proof of a step names what each kind of step does to a connection: nothing
(`Unwritten` and `Still`, the greatest number), a write by its handler (`Posts`), a write
by the capture thread, a delivery (`TransmitLinks`, where a frame is cut in pieces),
and each step of the program. The lemmas on sequences it needs come first.

`TransferProofs` proves all that `transfer` checks but its liveness, for any sizes of the
file, the buffers, the connection and an `int`. The invariant: the local file with
what is on its way is the beginning of the file of the server up to `at`
(`Copied`, until something is cut or written over), has `at` bytes (`Conserved`, always), and what the
client stored, holds and waits for makes up `nbbytes` (`Counted`). `Announced` is
what `KilledByGrowthOnly` needs: a client that completed took the last byte of
a file that did not grow, so there is nothing left to write. `CopyIsFifo` is proved
step by step: a read of the file appends to the queue, a write to the local file
takes from its head, the end of the client closes it, and every other
step leaves the concatenation of the three buffers as it is.

`ThrottleProofs` proves `AverageRate` and `NoBurstOfThree` for any length of a
second: every call returned moved `t1` on by a second, and a `t2` later than `t1`
was read after the last call began.

`MiniFtpProofs` proves `WaitReturns`, `NoLeak`, `ChildAccepts`, `FileInOrder` and `FtpTypeOK`
for any number of connections. By itself `WaitReturns` is inductive but for `Fork`: a
child that began as a process already there, or was forked twice, could take a zombie
away. `Fresh` excludes it: a connection that waits in the backlog, or has not been made,
has no process and is being forked for by none (`Queued`, `Unused`), it waits once
(`Distinct`), and one process at most is about to fork for it (`ForkOnce`). It speaks of
processes none of whose children was stopped (`halted`), which `Halt` only takes away
from. `HoldsOne` is the half of `NoLeak` on `fds`: in the program of yassine a process
holds no connection but the one in its variable `client`, and none where it accepts, so
that a child inherits one descriptor and `close(client)` is all there is to close. Most
steps of a process change only its program counter (`Stays`) or end it (`Ends`); the
lemmas treat these two kinds once and `Accept`, `Fork`, `Close`, `Halt` and the handler one
by one.

A second invariant on top of that one, `FtpInv`, proves the rest. For the file, `Agreed`
ties the request the child read to what the client asked, `Answered` and `Copied` the
stream and the local file to `pos` of the child, before and after the client has read the
answer, and `Held` and `Own` say that the child of a connection is the only process that
serves it. For listings, `Printed` says that a connection that is the standard output of
a process is that of a client that asked for one and was answered (the other half of
`NoLeak`, and why nothing printed comes into a file), `Past` that nobody answers it
again, `LetGo` and `Refused` that a child of trunk back at `accept` has closed its own
connection, whose client, if it is there, has the refusal alone to read.

`AnalysisProofs` proves `AnalysisTypeOK`, `PayloadCovered` and `WordsCaught` for any
captures and any length of a line. The three together are inductive: that the frame
being printed is one of the capture is part of the types, and the memory behind a
payload is as long as its size by `AnalysisAssume`. The step that matters is that of
a full line: `16 % len_rem` is 16 while more than 16 bytes remain, and the words of
that line were searched for from its first byte, after its hex columns (`hexed`) and
before its text (`ch`).

`CountsExact` needs a second invariant, `Tally`: each counter is the number of
places where its port stands in the frames the loop has come past and that pass the
filter, and no more of these were analysed than `num_packets` allows. Where the loop
ends these are the frames asked for (`AllWanted`). `Wanted` is defined as a set of
indices and not with `SelectSeq`, whose recursion cannot be reasoned about here.

`SharesAreShares` follows from the types: each share times the sum is at most a hundred
times its counter and less than the sum below it (`RoundedDown`), and the nine counters
add up to the sum. `Total` writes their sum out, since a fold over the set would be a
recursion, and the prover has no induction over data.

Every safety property and both refinements that the passing runs check are thus
proved. Model-checked only: the liveness properties
(`DeliveryEnds`, `FrameReachesClients`, `RequestEnds`, `ClientsEndWithServer`,
`TransferEnds`, `ReturnsUnlessCut`, `AnalysisEnds`, `RepliesEnd`), which are
out of the prover's reach. The inductive invariants that no run lists (`StreamInv`, `Straight`, `NetInv`,
`FtpInv`, `Tally` and that of `TransferProofs`) were model-checked on the instances of
the runs before they were proved.

## What is abstracted

In `Server`, `RedNetwork` and `MiniFtp` a file is a number of chunks, one per `read`
of `copy_all_bytes`, and does not change; a write of a chunk, a header or a frame
is one item for the server. `Transfer` is the same copy in bytes. For the client a
frame is cut in pieces a read may stop between; a chunk, an answer and a listing
are not.
A frame is its ethertype, the nibble read as IP header length, its protocol and
its length; in `Analysis` the TCP header length, the ports and the payload as well.
`ls` writes one item, and so does each print that goes to a connection; what is printed
elsewhere is left out, and so are the peer's name lookup and the addresses the analysis
prints. A print is taken to be written at once, or not at all where it may stay in a
buffer of `stdio`. `recv` returns a whole request: it
is 260 bytes in one segment.

In `Analysis` the product `counter*100` does not overflow, and a `FILE*` kept in an
`int` (`process_client.c`, the statistics) either works or crashes. What a search
finds in the memory behind a payload is whatever the capture says is there.
In `MiniFtp` a host `connection()` does not find, for which it returns a descriptor that
was never set, is taken as a failure.

## Not modelled

The capture to rotating files (`trunk/serveur/programme.c`) is a prototype: main
opens the file in a local `dumpdesc` that hides the global one
(`programme.c:51`), so that after the first minute the other thread closes the file
under `pcap_dump`, which goes on writing to it, and when `FERME` is set it passes
`pcap_dump_close` a global nothing was stored in and then closes again. What
follows is undefined, and a model of it would be a choice of everything. The
programs under `trunk/serveur/old` are examples of libpcap, one loop that prints.
Pages, generated pages and sample captures are no program.

## Plan

Done: everything under "Modules", in the order `Requests`, `Process`, `Handlers`,
`Sniffer`, `Server`, `Throttle`, `Client`, `RedNetwork`, `ForkServer`, `MiniFtp`,
`Analysis`, `Transfer`, `PubSub`, `Delivery`, and the proofs above. Nothing that was
planned is left. What could follow are parts that are abstracted here: a
chunk of a file cut by a read in `RedNetwork` as it is in `Transfer`, so that the two
become one model, and the addresses `Analysis` prints.
