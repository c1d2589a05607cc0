------------------------------ MODULE Process -------------------------------
(***************************************************************************)
(* What the threads of the server process share: the life of the process,  *)
(* the registration tables, and the TCP connections as the kernel keeps    *)
(* them for it.  A connection is named by the client that opened it.  The  *)
(* server never closes the socket of a client, so the descriptor accept()  *)
(* returned for a client is never reused and the same name stands for it.  *)
(***************************************************************************)
EXTENDS Requests, FiniteSets

CONSTANTS
  Clients,       \* the connections that may be made
  MAXCLIENTS,    \* slots of a registration table
  SockBuf,       \* items a socket buffer holds before write() blocks
  BacklogMax,    \* the argument of listen()
  Asks,          \* the requests clients make in this instance
  Frames,        \* the frames captured in this instance
  NoFd,          \* -1, or a variable nothing was stored in yet
  Empty          \* 0, the content of a free slot

VARIABLES
  proc,          \* "run", "ls" once execlp replaced the image, or "exited"
  tab,           \* the tables: table -> slot -> descriptor or Empty
  conn,          \* client -> "idle", "open", or "gone" once it closed
  asked,         \* client -> the request it sent, or NoRequest
  pending,       \* clients whose request waits in the server's socket buffer
  outbox,        \* client -> what the server wrote and the client did not read
  backlog        \* connections waiting for accept()

procVars == <<proc, tab>>
connVars == <<conn, asked, pending, outbox, backlog>>

ProcessAssumption ==
  /\ MAXCLIENTS \in Nat \ {0}
  /\ SockBuf \in Nat \ {0}
  /\ BacklogMax \in Nat \ {0}
  /\ Asks \subseteq ClientRequests
  /\ Frames \subseteq Capturable
  /\ NoFd \notin Clients
  /\ Empty \notin Clients

ASSUME ProcessAssume == ProcessAssumption

Slots == 0..(MAXCLIENTS - 1)

\* What travels to a client: answers, chunks of a file, frames, the output of ls,
\* and what the server prints.  nbbytes counts chunks for GET and bytes for SNIFF.
Answer(ack, nbbytes)  == [tag |-> "answer", ack |-> ack, nbbytes |-> nbbytes]
Chunk(path, at)       == [tag |-> "chunk", path |-> path, at |-> at]
Packet(frame)         == [tag |-> "packet", frame |-> frame]
Listing               == [tag |-> "listing"]
Text                  == [tag |-> "text"]

Items == [tag : {"answer"}, ack : {ANSWER_OK, ANSWER_ERROR}, nbbytes : Nat]
         \cup [tag : {"chunk"}, path : Paths, at : Nat]
         \cup [tag : {"packet"}, frame : Frames]
         \cup {Listing, Text}

Running == proc = "run"

\* exit() by any thread, or a fatal signal, ends every thread of the process.
Exit == proc' = "exited"

(***************************************************************************)
(* write(c, item).  It blocks while the buffer of a reading client is full.*)
(* To a client that closed it may still succeed, the data going nowhere;   *)
(* WriteFails is the other outcome, SIGPIPE or -1, and both end the        *)
(* process: no handler is installed for the signal and each caller exits   *)
(* on -1.                                                                  *)
(***************************************************************************)
Write(c, item) ==
  \/ /\ conn[c] = "open"
     /\ Len(outbox[c]) < SockBuf
     /\ outbox' = [outbox EXCEPT ![c] = Append(@, item)]
  \/ /\ conn[c] = "gone"
     /\ UNCHANGED outbox

WriteFails(c) == conn[c] = "gone" /\ Exit

ProcessInit ==
  /\ proc = "run"
  /\ tab = [t \in Tables |-> [i \in Slots |-> Empty]]
  /\ conn = [c \in Clients |-> "idle"]
  /\ asked = [c \in Clients |-> NoRequest]
  /\ pending = {}
  /\ outbox = [c \in Clients |-> << >>]
  /\ backlog = << >>

\* The types of the shared state; only a client that sent a request has one
\* waiting.
ProcessTypeOK ==
  /\ proc \in {"run", "ls", "exited"}
  /\ tab \in [Tables -> [Slots -> Clients \cup {Empty}]]
  /\ conn \in [Clients -> {"idle", "open", "gone"}]
  /\ asked \in [Clients -> Asks \cup {NoRequest}]
  /\ pending \subseteq {c \in Clients : asked[c] # NoRequest}
  /\ outbox \in [Clients -> Seq(Items)]
  /\ backlog \in Seq(Clients)

-----------------------------------------------------------------------------
(***************************************************************************)
(* The clients as the server sees them: each connects at most once, sends  *)
(* at most one request, reads what it is sent, and leaves when it likes.   *)
(* The kernel completes a connection as soon as the port is listened on,   *)
(* which is for the composition (module Server) to say.                    *)
(***************************************************************************)
SendRequest(c) ==
  /\ conn[c] = "open"
  /\ asked[c] = NoRequest
  /\ \E r \in Asks : asked' = [asked EXCEPT ![c] = r]
  /\ pending' = pending \cup {c}
  /\ UNCHANGED <<procVars, conn, outbox, backlog>>

ReadItem(c) ==
  /\ conn[c] = "open"
  /\ outbox[c] # << >>
  /\ outbox' = [outbox EXCEPT ![c] = Tail(@)]
  /\ UNCHANGED <<procVars, conn, asked, pending, backlog>>

Leave(c) ==
  /\ conn[c] = "open"
  /\ conn' = [conn EXCEPT ![c] = "gone"]
  /\ outbox' = [outbox EXCEPT ![c] = << >>]
  /\ UNCHANGED <<procVars, asked, pending, backlog>>

Connect(c) ==
  /\ conn[c] = "idle"
  /\ proc # "exited"
  /\ Len(backlog) < BacklogMax
  /\ conn' = [conn EXCEPT ![c] = "open"]
  /\ backlog' = Append(backlog, c)
  /\ UNCHANGED <<procVars, asked, pending, outbox>>

\* Nothing they do once the process has exited matters to it.
ClientStep(c) == proc # "exited" /\ (SendRequest(c) \/ ReadItem(c) \/ Leave(c))
=============================================================================
