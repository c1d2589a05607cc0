------------------------------- MODULE Server -------------------------------
(***************************************************************************)
(* The server process: main and the request threads (Handlers), the thread *)
(* that captures (Sniffer), and the clients at the other end of the        *)
(* connections (Process).  Each step of one of them is atomic; they        *)
(* interleave freely, which is all that pthread_create promises.           *)
(***************************************************************************)
EXTENDS Handlers, Sniffer

vars == <<procVars, connVars, handlerVars, snifferVars>>

Init == ProcessInit /\ HandlersInit /\ SnifferInit

\* Before listen() a connection is refused.
Arrive(c) == mainpc # "setup" /\ Connect(c)

\* A thread is at a point where it prints: main around accept(), a handler before
\* recv(), in a failure, on its way to add_client and to execlp, the capture thread
\* at its start and in a delivery.
Prints ==
  \/ mainpc = "spawn" \/ (mainpc = "accept" /\ FdsInUse >= MaxFds)
  \/ \E h \in Clients : hpc[h] \in {"recv", "dispatch", "reject", "scan", "exec", "exit"}
  \/ spc # "capture"

\* What it prints goes to the client that dup2 put at 1 or 2, if there is one;
\* one that left may bring SIGPIPE.
PrintOn(n) ==
  /\ Running
  /\ Prints /\ std[n] # NoFd
  /\ \/ Write(std[n], Text) /\ UNCHANGED proc
     \/ WriteFails(std[n]) /\ UNCHANGED outbox
  /\ UNCHANGED <<tab, conn, asked, pending, backlog, handlerVars, snifferVars>>

Next ==
  \/ MainStep /\ UNCHANGED snifferVars
  \/ \E h \in Clients : HandlerStep(h) /\ UNCHANGED snifferVars
  \/ SnifferStep /\ UNCHANGED handlerVars
  \/ \E n \in {1, 2} : PrintOn(n)
  \/ \E c \in Clients : (Arrive(c) \/ ClientStep(c))
                        /\ UNCHANGED <<handlerVars, snifferVars>>

Spec == Init /\ [][Next]_vars

\* The scheduler runs every thread that can run.  OpenDevice waits for the
\* operator to choose a device and Capture for a frame: neither is promised.
ServerFairness ==
  /\ WF_vars(MainStep /\ UNCHANGED snifferVars)
  /\ \A h \in Clients : WF_vars(HandlerStep(h) /\ UNCHANGED snifferVars)
  /\ WF_vars(Deliver /\ UNCHANGED handlerVars)

\* A client that stays connected goes on reading what it is sent.
ReadersFairness ==
  \A c \in Clients :
    WF_vars(proc # "exited" /\ ReadItem(c)
            /\ UNCHANGED <<handlerVars, snifferVars>>)

FairSpec    == Spec /\ ServerFairness
ReadersSpec == FairSpec /\ ReadersFairness

-----------------------------------------------------------------------------
(* Safety *)

TypeOK == ProcessTypeOK /\ HandlersTypeOK /\ SnifferTypeOK

\* The thread h got through recv on the connection c.
Serves(h, c) == hfd[h] = c /\ hpc[h] \in HasRequest \cup {"exit", "done"}

\* However many threads read the same descriptor out of the shared variable
\* client, at most one of them obtains the request of a connected client.
ServedOnce ==
  \A c \in Clients : conn[c] = "open" =>
    \A g, h \in Clients : Serves(g, c) /\ Serves(h, c) => g = h

WritingPCs == {"reject", "answer", "copy", "list"}

Writes(h, c) == hfd[h] = c /\ hpc[h] \in WritingPCs

\* Never do two threads, a handler and the capture thread included, have a
\* write to the same connected client ahead of them: no lock protects a
\* socket, and an answer cut by another one could not be read.  What all of them
\* print reaches no connected client but one that asked for a listing and was
\* sent its answer.
OneWriter ==
  \A c \in Clients : conn[c] = "open" =>
    /\ \A g, h \in Clients : Writes(g, c) /\ Writes(h, c) => g = h
    /\ sfd = c => \A h \in Clients : ~Writes(h, c)
    /\ c \in {std[1], std[2]} =>
         /\ asked[c] # NoRequest /\ asked[c].kind = REQUEST_DIR
         /\ sfd # c /\ \A h \in Clients : ~Writes(h, c)

\* A connected client stands in one slot of one table at most, the table of
\* the protocol it asked for ("rarp" shares the table of "arp"): a frame is never
\* sent to it twice, nor a frame of another table.
RegisteredOnce ==
  \A c \in Clients : conn[c] = "open" =>
    \A t, u \in Tables : \A i, j \in Slots : tab[t][i] = c =>
      /\ asked[c] # NoRequest
      /\ asked[c].kind = REQUEST_SNIFF
      /\ t = TableOf[asked[c].path]
      /\ tab[u][j] = c => t = u /\ i = j

\* Whatever the interleaving of the unlocked read and write of add_client,
\* the occupied slots of a table form a prefix, and a handler at slot i has
\* only occupied slots behind it.
PrefixFilled ==
  /\ \A t \in Tables : \A i, j \in Slots :
       i < j /\ tab[t][j] # Empty => tab[t][i] # Empty
  /\ \A h \in Clients : hpc[h] \in {"scan", "store"} =>
       \A i \in Slots : i < hpos[h] => tab[MyTable(h)][i] # Empty

\* What follows an item on the stream of a client that asked r: an answer OK
\* and the chunks of the file in order; an answer, whatever the threads print,
\* and a listing at the end; or pairs of a header and a frame of the table of the
\* protocol asked for.
MayFollow(r, x, y) ==
  \/ /\ r.kind = REQUEST_GET
     /\ \/ x = Answer(ANSWER_OK, FileSize[r.path]) /\ y = Chunk(r.path, 0)
        \/ x.tag = "chunk" /\ y = Chunk(r.path, x.at + 1)
  \/ r.kind = REQUEST_DIR /\ x \in {Answer(ANSWER_OK, 0), Text} /\ y \in {Text, Listing}
  \/ /\ r.kind = REQUEST_SNIFF
     /\ \/ x.tag = "packet" /\ y.tag = "answer"
        \/ /\ y.tag = "packet"
           /\ x = Answer(ANSWER_OK, SentSize(y.frame))
           /\ \E i \in DOMAIN Route(y.frame) :
                Route(y.frame)[i] = TableOf[r.path]

\* What a connected client has been sent and has not read is a piece of the
\* stream its request calls for, and a header without its frame is the last
\* thing sent, the capture thread being about to write that frame.  What the
\* threads print after a listing failed enters no file and no frame.
StreamFramed ==
  \A c \in Clients :
    LET s == outbox[c] IN
    conn[c] = "open" /\ s # << >> =>
      /\ asked[c] # NoRequest
      /\ \A i \in 1..(Len(s) - 1) : MayFollow(asked[c], s[i], s[i + 1])
      /\ asked[c].kind = REQUEST_SNIFF /\ s[Len(s)].tag = "answer" =>
           spc = "body" /\ sfd = c

-----------------------------------------------------------------------------
(* Action properties *)

\* A slot once taken is never free again, so that the capture thread, which
\* reads a table slot by slot while handlers store in it, skips no client that
\* was registered before it began.
SlotsNeverFreed ==
  [][\A t \in Tables : \A i \in Slots : tab[t][i] # Empty => tab'[t][i] # Empty]_vars

\* A sniff request that got to add_client is refused only when the table it is
\* for is full.
RefusedOnlyWhenFull ==
  [][\A h \in Clients : hpc[h] = "scan" /\ hpc'[h] = "exit" =>
       \A i \in Slots : tab[MyTable(h)][i] # Empty]_vars

-----------------------------------------------------------------------------
(***************************************************************************)
(* The inductive invariant the proofs of module ServerProofs rest on.      *)
(***************************************************************************)

\* No variable names a client that has not connected yet.
Known ==
  /\ \A i \in DOMAIN backlog : conn[backlog[i]] # "idle"
  /\ \A c \in Clients : conn[c] = "idle" =>
       /\ client # c /\ sfd # c /\ c \notin accepted
       /\ \A h \in Clients : hfd[h] # c
       /\ \A t \in Tables : \A i \in Slots : tab[t][i] # c

\* A connection is accepted once, and has one thread, created after that.
Created ==
  /\ \A i, j \in DOMAIN backlog : backlog[i] = backlog[j] => i = j
  /\ \A i \in DOMAIN backlog : backlog[i] \notin accepted
  /\ \A h \in Clients : hpc[h] # "none" => h \in accepted
  /\ mainpc = "spawn" => client \in accepted /\ hpc[client] = "none"

\* While the request of a connected client is not received no thread is past
\* recv on its connection; the one that is afterwards works on that request.
Received ==
  \A c \in Clients : conn[c] = "open" =>
    \A h \in Clients : Serves(h, c) =>
      /\ c \notin pending /\ asked[c] # NoRequest
      /\ hpc[h] \in HasRequest => hreq[h] = asked[c]

\* A connected client is in a table, or in the hands of the capture thread,
\* only when the thread that served it has returned.
Registered ==
  \A c \in Clients : conn[c] = "open" =>
    /\ \A t \in Tables : \A i \in Slots : tab[t][i] = c =>
         \E h \in Clients : hfd[h] = c /\ hpc[h] = "done"
    /\ sfd = c => \E h \in Clients : hfd[h] = c /\ hpc[h] = "done"

\* A connected client is at 1 or 2 only when the thread that serves it put it
\* there, for a listing, and is about to run ls or has failed to.
Redirected ==
  \A c \in Clients : c \in {std[1], std[2]} =>
    /\ conn[c] # "idle"
    /\ conn[c] = "open" =>
         /\ sfd # c /\ asked[c] # NoRequest /\ asked[c].kind = REQUEST_DIR
         /\ \E h \in Clients : hfd[h] = c /\ hpc[h] \in {"duperr", "exec", "done"}

\* A handler begins to scan at slot 0.
Rewound ==
  \A h \in Clients : hpc[h] \in HandlerPCs \ {"copy", "scan", "store", "exit"}
                     => hpos[h] = 0

Inv == /\ TypeOK /\ Known /\ Created /\ Received /\ ServedOnce
       /\ Registered /\ RegisteredOnce /\ Redirected /\ Rewound /\ PrefixFilled

-----------------------------------------------------------------------------
(* Liveness *)

\* The delivery of a captured frame comes to its end, the clients that stay
\* reading what they are sent, or the process stops.
DeliveryEnds == spc = "classify" ~> spc = "capture" \/ ~Running

\* A thread that has a request finishes with it or the process stops.
RequestEnds ==
  \A h \in Clients : hpc[h] = "dispatch" ~> hpc[h] = "done" \/ ~Running

SlotsOf(c) == {s \in Tables \X Slots : tab[s[1]][s[2]] = c}

\* A captured frame is written to every client then registered in one of its
\* tables, unless the client leaves, another handler overwrites its slot, or
\* the process stops.
FrameReachesClients ==
  \A c \in Clients :
    /\ spc = "classify"
    /\ \E s \in SlotsOf(c), i \in DOMAIN Route(frame) : Route(frame)[i] = s[1]
    ~> \/ spc = "body" /\ sfd = c
       \/ conn[c] = "gone"
       \/ SlotsOf(c) = {}
       \/ ~Running
=============================================================================
