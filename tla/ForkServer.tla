----------------------------- MODULE ForkServer -----------------------------
(***************************************************************************)
(* The servers of the two earlier mini-ftp programs, the one kept in       *)
(* src/trunk/protocol_client_serveur ("trunk") and the one in its          *)
(* directory yassine ("yassine"): a process is forked for each connection, *)
(* and a handler of SIGCHLD waits for the children.  The two differ in who *)
(* closes a connection and in what a child does when it has answered.      *)
(* A child is named by the connection it was forked for.                   *)
(***************************************************************************)
EXTENDS Integers, Sequences, FiniteSets

CONSTANTS
  Clients,       \* the connections that may be made
  Main,          \* the process that was started
  Init1,         \* the process of the system that inherits orphans
  NoFd,          \* -1, or a variable nothing was stored in yet
  Versions,      \* the programs looked at, of {"trunk", "yassine"}
  Files,         \* what open() finds: name -> chunks the size stands for
  Directories,   \* those of them that read() fails on
  Paths,         \* the names clients ask for
  MaxFds,        \* descriptors a process may hold besides its own
  SockBuf,       \* items a connection holds before write() blocks
  BacklogMax     \* the argument of listen()

VARIABLES
  version,       \* the program that runs
  pc,            \* process -> program counter
  client,        \* process -> its variable client
  fds,           \* process -> the connections it holds a descriptor of
  out,           \* process -> the connection dup2 made its standard output
  parent,        \* process -> the process that waits for it
  sigchld,       \* process -> SIGCHLD is pending
  halted,        \* process -> a child of it was stopped or continued
  handling,      \* process -> it is in traitement_sig
  req,           \* process -> r of handle_request
  pos,           \* process -> chunks sent
  conn,          \* client -> "idle", "open", or "gone" once it closed
  asked,         \* client -> the request in the socket buffer, or << >>
  stream,        \* client -> what was written to it and it did not read
  backlog        \* connections waiting for accept()

Procs == Clients \cup {Main}

procVars   == <<version, pc, client, fds, out, parent, sigchld, halted, handling, req, pos>>
kernelVars == <<conn, asked, stream, backlog>>

ASSUME ForkAssume ==
  /\ Main \notin Clients /\ Init1 \notin Procs /\ NoFd \notin Clients
  /\ Versions \subseteq {"trunk", "yassine"}
  /\ DOMAIN Files \subseteq Paths /\ Files \in [DOMAIN Files -> Nat]
  /\ Directories \subseteq DOMAIN Files
  /\ MaxFds \in Nat \ {0} /\ SockBuf \in Nat \ {0} /\ BacklogMax \in Nat \ {0}

\* REQUEST_LIST of one program is REQUEST_DIR of the other.
Get(path) == [kind |-> "get", path |-> path]
List      == [kind |-> "list"]
Other     == [kind |-> "other"]

ClientRequests == {Get(path) : path \in Paths} \cup {List}
AnyRequest     == ClientRequests \cup {Other}

Answer(ok, nbbytes) == [tag |-> "answer", ok |-> ok, nbbytes |-> nbbytes]
Chunk(path, at)     == [tag |-> "chunk", path |-> path, at |-> at]
Listing             == [tag |-> "listing"]
Text                == [tag |-> "text"]

Items == [tag : {"answer"}, ok : BOOLEAN, nbbytes : Nat]
         \cup [tag : {"chunk"}, path : Paths, at : Nat]
         \cup {Listing, Text}

Dead    == {"none", "zombie", "gone"}
Writing == {"get", "copy", "list", "ls"}
Serving == {"recv", "dispatch", "exec"} \cup Writing
Alive(p) == pc[p] \notin Dead

\* The types of the server's variables.
ForkTypeOK ==
  /\ version \in Versions
  /\ pc \in [Procs -> Dead \cup Serving \cup {"setup", "accept", "fork", "close", "exit"}]
  /\ client \in [Procs -> Clients \cup {NoFd}]
  /\ fds \in [Procs -> SUBSET Clients]
  /\ out \in [Procs -> Clients \cup {NoFd}]
  /\ parent \in [Procs -> Procs \cup {Init1}]
  /\ sigchld \in [Procs -> BOOLEAN]
  /\ halted \in [Procs -> BOOLEAN]
  /\ handling \in [Procs -> BOOLEAN]
  /\ req \in [Procs -> AnyRequest]
  /\ pos \in [Procs -> Nat]
  /\ conn \in [Clients -> {"idle", "open", "gone"}]
  /\ asked \in [Clients -> Seq(ClientRequests)]
  /\ stream \in [Clients -> Seq(Items)]
  /\ backlog \in Seq(Clients)
  /\ \A p \in Procs : pc[p] \in Serving \cup {"fork", "close"} => client[p] \in fds[p]

ForkInit ==
  /\ version \in Versions
  /\ pc = [p \in Procs |-> IF p = Main THEN "setup" ELSE "none"]
  /\ client = [p \in Procs |-> NoFd]
  /\ fds = [p \in Procs |-> {}]
  /\ out = [p \in Procs |-> NoFd]
  /\ parent = [p \in Procs |-> Init1]
  /\ sigchld = [p \in Procs |-> FALSE]
  /\ halted = [p \in Procs |-> FALSE]
  /\ handling = [p \in Procs |-> FALSE]
  /\ req = [p \in Procs |-> Other]
  /\ pos = [p \in Procs |-> 0]
  /\ conn = [c \in Clients |-> "idle"]
  /\ asked = [c \in Clients |-> << >>]
  /\ stream = [c \in Clients |-> << >>]
  /\ backlog = << >>

-----------------------------------------------------------------------------
(* Processes *)

\* The process p is at the point at, and not in its signal handler.
At(p, at) == pc[p] = at /\ ~handling[p]

GoTo(p, at) == pc' = [pc EXCEPT ![p] = at]

Children(p) == {q \in Procs : parent[q] = p /\ pc[q] \notin {"none", "gone"}}
Zombies(p)  == {q \in Procs : parent[q] = p /\ pc[q] = "zombie"}

\* wait() of p returns at once: with a child that ended, or because it has none.
WaitEnds(p) == Zombies(p) # {} \/ Children(p) = {}

\* The process ends: it stays a zombie until its parent has waited for it, the
\* parent is sent SIGCHLD, and its own children pass to a process that waits for
\* them at once.  A signal already pending is not pending twice.
End(p) ==
  /\ pc' = [q \in Procs |->
              IF q = p THEN (IF parent[p] = Init1 THEN "gone" ELSE "zombie")
              ELSE IF q \in Zombies(p) THEN "gone" ELSE pc[q]]
  /\ parent' = [q \in Procs |-> IF parent[q] = p THEN Init1 ELSE parent[q]]
  /\ sigchld' = [q \in Procs |-> q # p /\ (sigchld[q] \/ q = parent[p])]
  /\ handling' = [handling EXCEPT ![p] = FALSE]
  /\ fds' = [fds EXCEPT ![p] = {}]
  /\ out' = [out EXCEPT ![p] = NoFd]
  /\ UNCHANGED <<version, client, halted, req, pos>>

\* A child is stopped, by Ctrl+z, and continued: either sends the parent SIGCHLD
\* too, signal() setting no SA_NOCLDSTOP, and ends no child.
Halt(p) ==
  /\ Alive(p) /\ parent[p] \in Procs
  /\ sigchld' = [sigchld EXCEPT ![parent[p]] = TRUE]
  /\ halted' = [halted EXCEPT ![parent[p]] = TRUE]
  /\ UNCHANGED <<version, pc, client, fds, out, parent, handling, req, pos, kernelVars>>

\* p keeps the connection c from ending, and may write to it.
Holds(p, c) == c \in fds[p] \/ out[p] = c

\* Room for one descriptor more.
Room(p) == Cardinality(fds[p]) < MaxFds

\* write(client, item): blocks while the buffer of a reading client is full, and
\* may succeed after the client has closed.
Write(p, item) ==
  LET c == client[p] IN
  \/ /\ conn[c] = "open"
     /\ Len(stream[c]) < SockBuf
     /\ stream' = [stream EXCEPT ![c] = Append(@, item)]
  \/ conn[c] = "gone" /\ UNCHANGED stream

-----------------------------------------------------------------------------
(* main *)

\* socket, setsockopt, bind, listen and signal, each of which may fail.
Setup ==
  /\ pc[Main] = "setup"
  /\ \/ /\ GoTo(Main, "accept")
        /\ UNCHANGED <<version, client, fds, out, parent, sigchld, halted, handling, req, pos>>
     \/ End(Main)
  /\ UNCHANGED kernelVars

Accept(p) ==
  /\ At(p, "accept")
  /\ Room(p)
  /\ backlog # << >>
  /\ client' = [client EXCEPT ![p] = Head(backlog)]
  /\ fds' = [fds EXCEPT ![p] = @ \cup {Head(backlog)}]
  /\ backlog' = Tail(backlog)
  /\ GoTo(p, "fork")
  /\ UNCHANGED <<version, out, parent, sigchld, halted, handling, req, pos,
                 conn, asked, stream>>

\* accept() finds no free descriptor, whether or not a connection waits; the
\* loop goes round.
AcceptFails(p) ==
  /\ At(p, "accept")
  /\ ~Room(p)
  /\ client' = [client EXCEPT ![p] = NoFd]
  /\ UNCHANGED <<version, pc, fds, out, parent, sigchld, halted, handling, req, pos,
                 kernelVars>>

\* Mutant: the comment of trunk in the other program too.
AfterForkNoClose == "accept"

\* Where the parent goes after fork(): the close of the one program is a comment
\* in the other.
AfterForkTrunk == "accept"

AfterForkYassine == "close"

AfterFork == IF version = "trunk" THEN AfterForkTrunk ELSE AfterForkYassine

\* The child gets a copy of every variable and of every descriptor, and no
\* pending signal.
Fork(p) ==
  /\ At(p, "fork")
  /\ LET c == client[p] IN
     /\ pc' = [pc EXCEPT ![p] = AfterFork, ![c] = "recv"]
     /\ client' = [client EXCEPT ![c] = c]
     /\ fds' = [fds EXCEPT ![c] = fds[p]]
     /\ out' = [out EXCEPT ![c] = out[p]]
     /\ parent' = [parent EXCEPT ![c] = p]
     /\ UNCHANGED <<version, sigchld, halted, handling, req, pos, kernelVars>>

ForkFails(p) == At(p, "fork") /\ End(p) /\ UNCHANGED kernelVars

\* close(client): by the parent after fork(), and by a child whose
\* handle_request() returned.  Either goes on to accept().
Close(p) ==
  /\ At(p, "close")
  /\ fds' = [fds EXCEPT ![p] = @ \ {client[p]}]
  /\ GoTo(p, "accept")
  /\ UNCHANGED <<version, client, out, parent, sigchld, halted, handling, req, pos,
                 kernelVars>>

-----------------------------------------------------------------------------
(* handle_request *)

Recv(p) ==
  /\ At(p, "recv")
  /\ asked[client[p]] # << >>
  /\ req' = [req EXCEPT ![p] = Head(asked[client[p]])]
  /\ asked' = [asked EXCEPT ![client[p]] = << >>]
  /\ GoTo(p, "dispatch")
  /\ UNCHANGED <<version, client, fds, out, parent, sigchld, halted, handling, pos,
                 conn, stream, backlog>>

\* The client left without asking: recv() returns 0, which only -1 is told from,
\* and r is what the stack held; or the connection was reset, and it returns -1.
RecvNothing(p) ==
  /\ At(p, "recv")
  /\ asked[client[p]] = << >> /\ conn[client[p]] = "gone"
  /\ \/ \E r \in AnyRequest : req' = [req EXCEPT ![p] = r] /\ GoTo(p, "dispatch")
     \/ GoTo(p, "exit") /\ UNCHANGED req
  /\ UNCHANGED <<version, client, fds, out, parent, sigchld, halted, handling, pos, kernelVars>>

NextPc == [get |-> "get", list |-> "list", other |-> "exit"]

Dispatch(p) ==
  /\ At(p, "dispatch")
  /\ GoTo(p, NextPc[req[p].kind])
  /\ pos' = [pos EXCEPT ![p] = 0]
  /\ UNCHANGED <<version, client, fds, out, parent, sigchld, halted, handling, req, kernelVars>>

-----------------------------------------------------------------------------
(* get_file *)

CanOpen(p) == req[p].path \in DOMAIN Files /\ Room(p)

\* Mutant: the file is sent without an answer before it.
AnswerGetNoHeader(p) ==
  /\ At(p, "get")
  /\ CanOpen(p) /\ GoTo(p, "copy")
  /\ UNCHANGED <<version, client, fds, out, parent, sigchld, halted, handling, req, pos,
                 kernelVars>>

AnswerGet(p) ==
  /\ At(p, "get")
  /\ IF CanOpen(p)
     THEN Write(p, Answer(TRUE, Files[req[p].path])) /\ GoTo(p, "copy")
     ELSE Write(p, Answer(FALSE, 0)) /\ GoTo(p, "exit")
  /\ UNCHANGED <<version, client, fds, out, parent, sigchld, halted, handling, req, pos,
                 conn, asked, backlog>>

\* Mutant: a write that was cut short is begun again.
CopyChunkRetries(p) ==
  /\ At(p, "copy")
  /\ req[p].path \notin Directories
  /\ pos[p] < Files[req[p].path]
  /\ Write(p, Chunk(req[p].path, pos[p]))
  /\ \E n \in {0, 1} : pos' = [pos EXCEPT ![p] = @ + n]
  /\ UNCHANGED <<version, pc, client, fds, out, parent, sigchld, halted, handling, req,
                 conn, asked, backlog>>

CopyChunk(p) ==
  /\ At(p, "copy")
  /\ req[p].path \notin Directories
  /\ pos[p] < Files[req[p].path]
  /\ Write(p, Chunk(req[p].path, pos[p]))
  /\ pos' = [pos EXCEPT ![p] = @ + 1]
  /\ UNCHANGED <<version, pc, client, fds, out, parent, sigchld, halted, handling, req,
                 conn, asked, backlog>>

\* Mutants: get_file() of trunk returns too; main of yassine does not close.
AfterGetReturns == "close"
AfterGetNoClose == "accept"

\* After the last chunk get_file() of trunk exits; that of yassine returns, and
\* so does handle_request().
AfterGetTrunk == "exit"

AfterGetYassine == "close"

CopyDone(p) ==
  /\ At(p, "copy")
  /\ req[p].path \notin Directories
  /\ pos[p] = Files[req[p].path]
  /\ GoTo(p, IF version = "trunk" THEN AfterGetTrunk ELSE AfterGetYassine)
  /\ UNCHANGED <<version, client, fds, out, parent, sigchld, halted, handling, req, pos, kernelVars>>

\* read() fails, and copy_all_bytes() returns -1: get_file() of yassine looks at
\* that and exits, and that of trunk exits all the same.
CopyFails(p) ==
  /\ At(p, "copy")
  /\ req[p].path \in Directories
  /\ GoTo(p, "exit")
  /\ UNCHANGED <<version, client, fds, out, parent, sigchld, halted, handling, req, pos,
                 kernelVars>>

-----------------------------------------------------------------------------
(* list, dir_file *)

\* opendir() takes a descriptor, and fails for other reasons too.  list() of
\* trunk then returns, and so does handle_request().
AnswerList(p) ==
  /\ version = "trunk"
  /\ At(p, "list")
  /\ \/ Room(p) /\ Write(p, Answer(TRUE, 0)) /\ GoTo(p, "exec")
     \/ Write(p, Answer(FALSE, 0)) /\ GoTo(p, "close")
  /\ UNCHANGED <<version, client, fds, out, parent, sigchld, halted, handling, req, pos,
                 conn, asked, backlog>>

\* dir_file() of yassine compares the address of its argument with that of an
\* empty string, and always answers OK.
AnswerDir(p) ==
  /\ version = "yassine"
  /\ At(p, "list")
  /\ Write(p, Answer(TRUE, 0))
  /\ GoTo(p, "exec")
  /\ UNCHANGED <<version, client, fds, out, parent, sigchld, halted, handling, req, pos,
                 conn, asked, backlog>>

\* dup2, in yassine a line printed that the client gets unless it stays in a
\* buffer, and execlp(), which keeps the descriptors; when it fails, list() exits
\* and dir_file() returns.
Exec(p) ==
  /\ At(p, "exec")
  /\ out' = [out EXCEPT ![p] = client[p]]
  /\ UNCHANGED stream \/ (version = "yassine" /\ Write(p, Text))
  /\ \/ GoTo(p, "ls")
     \/ GoTo(p, IF version = "trunk" THEN "exit" ELSE "close")
  /\ UNCHANGED <<version, client, fds, parent, sigchld, halted, handling, req, pos,
                 conn, asked, backlog>>

LsWrites(p) ==
  /\ At(p, "ls")
  /\ Write(p, Listing)
  /\ GoTo(p, "exit")
  /\ UNCHANGED <<version, client, fds, out, parent, sigchld, halted, handling, req, pos,
                 conn, asked, backlog>>

-----------------------------------------------------------------------------
(* Ends, and the handler of SIGCHLD *)

Exit(p) == At(p, "exit") /\ End(p) /\ UNCHANGED kernelVars

\* SIGPIPE, or -1 and exit().
WriteFails(p) ==
  /\ pc[p] \in Writing \cup {"exec"} /\ ~handling[p]
  /\ conn[client[p]] = "gone"
  /\ End(p)
  /\ UNCHANGED kernelVars

\* What p prints goes to the connection that dup2 made its standard output, once
\* execlp() has failed: around accept() and fork(), at the beginning of a request,
\* at exit(), and in the handler after wait().  The write may be ended by SIGPIPE.
Prints(p) ==
  /\ Alive(p) /\ out[p] # NoFd
  /\ IF handling[p] THEN WaitEnds(p) ELSE pc[p] \in {"accept", "fork", "recv", "exit"}
  /\ LET c == out[p] IN
     \/ /\ conn[c] = "open" /\ Len(stream[c]) < SockBuf
        /\ stream' = [stream EXCEPT ![c] = Append(@, Text)]
        /\ UNCHANGED <<procVars, conn, asked, backlog>>
     \/ conn[c] = "gone" /\ End(p) /\ UNCHANGED kernelVars

\* The program that execlp() started has no handler.
HandlerBegins(p) ==
  /\ Alive(p) /\ pc[p] # "ls" /\ ~handling[p]
  /\ sigchld[p]
  /\ sigchld' = [sigchld EXCEPT ![p] = FALSE]
  /\ handling' = [handling EXCEPT ![p] = TRUE]
  /\ UNCHANGED <<version, pc, client, fds, out, parent, halted, req, pos, kernelVars>>

\* Mutant: the handler waits as long as there are children.
HandlerWaitsForAll(p) ==
  /\ handling[p]
  /\ \/ \E q \in Zombies(p) : GoTo(q, "gone") /\ UNCHANGED handling
     \/ /\ Children(p) = {}
        /\ handling' = [handling EXCEPT ![p] = FALSE]
        /\ UNCHANGED pc
  /\ UNCHANGED <<version, client, fds, out, parent, sigchld, halted, req, pos, kernelVars>>

\* wait(): for one child, whichever ended.  It blocks while all are running or
\* stopped.
HandlerWaits(p) ==
  /\ handling[p]
  /\ \/ \E q \in Zombies(p) : GoTo(q, "gone")
     \/ Children(p) = {} /\ UNCHANGED pc
  /\ handling' = [handling EXCEPT ![p] = FALSE]
  /\ UNCHANGED <<version, client, fds, out, parent, sigchld, halted, req, pos, kernelVars>>

ProcStep(p) ==
  \/ Accept(p) \/ AcceptFails(p) \/ Fork(p) \/ ForkFails(p) \/ Close(p)
  \/ Recv(p) \/ RecvNothing(p) \/ Dispatch(p)
  \/ AnswerGet(p) \/ CopyChunk(p) \/ CopyDone(p) \/ CopyFails(p)
  \/ AnswerList(p) \/ AnswerDir(p) \/ Exec(p) \/ LsWrites(p)
  \/ Exit(p) \/ WriteFails(p)
  \/ HandlerBegins(p) \/ HandlerWaits(p)
=============================================================================
