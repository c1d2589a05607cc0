------------------------------ MODULE Handlers ------------------------------
(***************************************************************************)
(* src/src/server.c: the accept loop of main and the thread it creates for *)
(* every connection.  main hands each thread the address of its one local  *)
(* variable client; the thread reads the descriptor through that address   *)
(* when it first runs.  A thread is named by the connection it was created *)
(* for, the descriptor it works on is hfd.  Every access to a variable     *)
(* another thread also accesses, and every system call, is a step.         *)
(***************************************************************************)
EXTENDS Process

CONSTANTS
  MaxFds,        \* descriptors the process may hold for clients and files
  MaxThreads     \* threads pthread_create can make (none is ever joined)

VARIABLES
  mainpc,        \* "setup", "accept", or "spawn" between accept and create
  client,        \* main's local variable, shared with the threads
  accepted,      \* connections whose descriptor the process holds
  std,           \* 1 and 2 -> the connection dup2 put there, or NoFd
  hpc,           \* thread -> program counter, "none" before it is created
  hfd,           \* thread -> its f, NoFd before it read *fd
  hreq,          \* thread -> its r
  hpos           \* thread -> chunks copied (get_file), or i (add_client)

mainVars    == <<mainpc, client, accepted, std>>
threadVars  == <<hpc, hfd, hreq, hpos>>
handlerVars == <<mainVars, threadVars>>

ASSUME HandlersAssume == MaxFds \in Nat /\ MaxThreads \in Nat

HandlerPCs == {"none", "start", "recv", "dispatch", "reject", "exit", "answer",
               "copy", "list", "dupout", "duperr", "exec", "scan", "store", "done"}

Threads == {h \in Clients : hpc[h] # "none"}

\* Descriptors in use: the accepted sockets, none of which is ever closed, and
\* the files get_file has open.
FdsInUse == Cardinality(accepted)
            + Cardinality({h \in Clients : hpc[h] \in {"answer", "copy"}})

HandlersInit ==
  /\ mainpc = "setup"
  /\ client = NoFd
  /\ accepted = {}
  /\ std = [n \in {1, 2} |-> NoFd]
  /\ hpc  = [h \in Clients |-> "none"]
  /\ hfd  = [h \in Clients |-> NoFd]
  /\ hreq = [h \in Clients |-> NoRequest]
  /\ hpos = [h \in Clients |-> 0]

ListingPCs == {"list", "dupout", "duperr", "exec"}
HasRequest == {"dispatch", "reject", "answer", "copy", "scan", "store"}
              \cup ListingPCs

\* The types of main's and the threads' variables: a thread past recv has a
\* descriptor and a request, of the kind its program counter supposes.
HandlersTypeOK ==
  /\ mainpc \in {"setup", "accept", "spawn"}
  /\ client \in Clients \cup {NoFd}
  /\ mainpc = "spawn" => client \in Clients
  /\ accepted \subseteq Clients
  /\ std \in [{1, 2} -> Clients \cup {NoFd}]
  /\ hpc \in [Clients -> HandlerPCs]
  /\ hfd \in [Clients -> Clients \cup {NoFd}]
  /\ hreq \in [Clients -> AnyRequest \cup {NoRequest}]
  /\ hpos \in [Clients -> Nat]
  /\ \A h \in Clients :
       /\ hpc[h] \in HasRequest => hfd[h] \in Clients /\ hreq[h] \in AnyRequest
       /\ hpc[h] \in {"answer", "copy"} => hreq[h].path \in DOMAIN FileSize
       /\ hpc[h] \in {"scan", "store"} => /\ hreq[h].kind = REQUEST_SNIFF
                                         /\ hreq[h].path \in Protocols
       /\ hpc[h] = "store" => hpos[h] \in Slots
       /\ hpc[h] \in ListingPCs => hreq[h].kind = REQUEST_DIR
       /\ hpc[h] \in {"duperr", "exec"} => std[1] \in Clients

-----------------------------------------------------------------------------
(* main *)

\* socket, setsockopt, bind and listen; the process exits when one fails.
Setup ==
  /\ Running
  /\ mainpc = "setup"
  /\ \/ mainpc' = "accept" /\ UNCHANGED proc
     \/ Exit /\ UNCHANGED mainpc
  /\ UNCHANGED <<tab, connVars, client, accepted, std, threadVars>>

Accept ==
  /\ Running
  /\ mainpc = "accept"
  /\ backlog # << >>
  /\ FdsInUse < MaxFds
  /\ client' = Head(backlog)
  /\ backlog' = Tail(backlog)
  /\ accepted' = accepted \cup {Head(backlog)}
  /\ mainpc' = "spawn"
  /\ UNCHANGED <<procVars, conn, asked, pending, outbox, std, threadVars>>

\* Out of descriptors accept returns -1 into the same variable; the loop
\* continues and calls it again.
AcceptFails ==
  /\ Running
  /\ mainpc = "accept"
  /\ FdsInUse >= MaxFds
  /\ client' = NoFd
  /\ UNCHANGED <<procVars, connVars, mainpc, accepted, std, threadVars>>

\* pthread_create; its result is not looked at.
Spawn ==
  /\ Running
  /\ mainpc = "spawn"
  /\ mainpc' = "accept"
  /\ hpc' = IF Cardinality(Threads) < MaxThreads
            THEN [hpc EXCEPT ![client] = "start"]
            ELSE hpc
  /\ UNCHANGED <<procVars, connVars, client, accepted, std, hfd, hreq, hpos>>

MainStep == Setup \/ Accept \/ AcceptFails \/ Spawn

-----------------------------------------------------------------------------
(* handle_request *)

At(h, pc)   == Running /\ hpc[h] = pc
Goto(h, pc) == hpc' = [hpc EXCEPT ![h] = pc]

\* The thread returns and its locals are gone.
Return(h) ==
  /\ Goto(h, "done")
  /\ hreq' = [hreq EXCEPT ![h] = NoRequest]
  /\ hpos' = [hpos EXCEPT ![h] = 0]

\* f = *fd: whatever client holds now.
Start(h) ==
  /\ At(h, "start")
  /\ hfd' = [hfd EXCEPT ![h] = client]
  /\ Goto(h, "recv")
  /\ UNCHANGED <<procVars, connVars, mainVars, hreq, hpos>>

\* Mutant: recv with MSG_PEEK leaves the request to the next thread.
RecvPeeks(h) ==
  /\ At(h, "recv")
  /\ hfd[h] \in pending
  /\ hreq' = [hreq EXCEPT ![h] = asked[hfd[h]]]
  /\ Goto(h, "dispatch")
  /\ UNCHANGED <<procVars, connVars, mainVars, hfd, hpos>>

RecvRequest(h) ==
  /\ At(h, "recv")
  /\ hfd[h] \in pending
  /\ pending' = pending \ {hfd[h]}
  /\ hreq' = [hreq EXCEPT ![h] = asked[hfd[h]]]
  /\ Goto(h, "dispatch")
  /\ UNCHANGED <<procVars, conn, asked, outbox, backlog, mainVars, hfd, hpos>>

\* Mutant: recv with MSG_DONTWAIT goes on when no request is there yet.
RecvDoesNotWait(h) ==
  /\ At(h, "recv")
  /\ hfd[h] \in Clients \ pending
  /\ \E r \in AnyRequest : hreq' = [hreq EXCEPT ![h] = r]
  /\ Goto(h, "dispatch")
  /\ UNCHANGED <<procVars, connVars, mainVars, hfd, hpos>>

\* recv returns 0 at the end of the stream, which only -1 is told from: the
\* thread goes on with an uninitialized request.
RecvEof(h) ==
  /\ At(h, "recv")
  /\ hfd[h] \in Clients \ pending
  /\ conn[hfd[h]] = "gone"
  /\ \E r \in AnyRequest : hreq' = [hreq EXCEPT ![h] = r]
  /\ Goto(h, "dispatch")
  /\ UNCHANGED <<procVars, connVars, mainVars, hfd, hpos>>

\* recv returns -1: f is no descriptor, or the connection was reset.
RecvError(h) ==
  /\ At(h, "recv")
  /\ \/ hfd[h] = NoFd
     \/ hfd[h] \in Clients \ pending /\ conn[hfd[h]] = "gone"
  /\ Goto(h, "exit")
  /\ UNCHANGED <<procVars, connVars, mainVars, hfd, hreq, hpos>>

\* Mutant: no check_protocole before sniff().
NextPcUnchecked(r) ==
  CASE r.kind = REQUEST_GET /\ r.path \in DOMAIN FileSize -> "answer"
    [] r.kind = REQUEST_GET /\ r.path \notin DOMAIN FileSize -> "reject"
    [] r.kind = REQUEST_DIR -> "list"
    [] r.kind = REQUEST_SNIFF -> "scan"
    [] OTHER -> "exit"

\* Where the switch on r.kind goes: open() in get_file fails on an unknown name
\* or when no descriptor is left; check_protocole exits on an unknown protocol;
\* the default case exits without sending ANSWER_UNKNOWN.
NextPc(r) ==
  CASE r.kind = REQUEST_GET /\ r.path \in DOMAIN FileSize /\ FdsInUse < MaxFds
         -> "answer"
    [] r.kind = REQUEST_GET /\ ~(r.path \in DOMAIN FileSize /\ FdsInUse < MaxFds)
         -> "reject"
    [] r.kind = REQUEST_DIR -> "list"
    [] r.kind = REQUEST_SNIFF /\ r.path \in Protocols -> "scan"
    [] OTHER -> "exit"

Dispatch(h) ==
  /\ At(h, "dispatch")
  /\ Goto(h, NextPc(hreq[h]))
  /\ UNCHANGED <<procVars, connVars, mainVars, hfd, hreq, hpos>>

ExitProcess(h) ==
  /\ At(h, "exit")
  /\ Exit
  /\ UNCHANGED <<tab, connVars, handlerVars>>

-----------------------------------------------------------------------------
(* get_file *)

Reject(h) ==
  /\ At(h, "reject")
  /\ Write(hfd[h], Answer(ANSWER_ERROR, 0))
  /\ Goto(h, "exit")
  /\ UNCHANGED <<procVars, conn, asked, pending, backlog, mainVars, hfd, hreq, hpos>>

AnswerGet(h) ==
  /\ At(h, "answer")
  /\ Write(hfd[h], Answer(ANSWER_OK, FileSize[hreq[h].path]))
  /\ Goto(h, "copy")
  /\ UNCHANGED <<procVars, conn, asked, pending, backlog, mainVars, hfd, hreq, hpos>>

\* One turn of copy_all_bytes.
CopyChunk(h) ==
  /\ At(h, "copy")
  /\ hreq[h].path \notin Directories
  /\ hpos[h] < FileSize[hreq[h].path]
  /\ Write(hfd[h], Chunk(hreq[h].path, hpos[h]))
  /\ hpos' = [hpos EXCEPT ![h] = @ + 1]
  /\ UNCHANGED <<procVars, conn, asked, pending, backlog, mainVars, hpc, hfd, hreq>>

CopyFails(h) ==
  /\ At(h, "copy")
  /\ hreq[h].path \in Directories
  /\ Goto(h, "exit")
  /\ UNCHANGED <<procVars, connVars, mainVars, hfd, hreq, hpos>>

\* Mutant: a read of 0 bytes does not end the loop.
CopyGoesRound(h) ==
  /\ At(h, "copy")
  /\ hreq[h].path \notin Directories
  /\ hpos[h] >= FileSize[hreq[h].path]
  /\ UNCHANGED <<procVars, connVars, handlerVars>>

\* End of file: close(fd) and return, the socket staying open.
CopyDone(h) ==
  /\ At(h, "copy")
  /\ hreq[h].path \notin Directories
  /\ hpos[h] >= FileSize[hreq[h].path]
  /\ Return(h)
  /\ UNCHANGED <<procVars, connVars, mainVars, hfd>>

-----------------------------------------------------------------------------
(* dir_file *)

AnswerDir(h) ==
  /\ At(h, "list")
  /\ Write(hfd[h], Answer(ANSWER_OK, 0))
  /\ Goto(h, "dupout")
  /\ UNCHANGED <<procVars, conn, asked, pending, backlog, mainVars, hfd, hreq, hpos>>

\* dup2(clientfd, n): the descriptors 1 and 2 are those of the whole process, and
\* whatever any thread prints from now on goes to the client.
Dup(h, n) ==
  /\ std' = [std EXCEPT ![n] = hfd[h]]
  /\ UNCHANGED <<procVars, connVars, mainpc, client, accepted, hfd, hreq, hpos>>

DupOut(h) == At(h, "dupout") /\ Goto(h, "duperr") /\ Dup(h, 1)
DupErr(h) == At(h, "duperr") /\ Goto(h, "exec") /\ Dup(h, 2)

\* execlp replaces the image of the process: its other threads are gone.  When
\* it fails the thread returns, and 1 and 2 stay what they are.
ExecLs(h) ==
  /\ At(h, "exec")
  /\ \/ proc' = "ls" /\ UNCHANGED <<hpc, hreq, hpos>>
     \/ Return(h) /\ UNCHANGED proc
  /\ UNCHANGED <<tab, connVars, mainVars, hfd>>

\* ls writes to its standard output, which the dup2 of another thread may have
\* changed, and exits.
LsWrites(h) ==
  /\ proc = "ls"
  /\ hpc[h] = "exec"
  /\ Exit
  /\ Write(std[1], Listing)
  /\ UNCHANGED <<tab, conn, asked, pending, backlog, handlerVars>>

-----------------------------------------------------------------------------
(* sniff and add_client *)

MyTable(h) == TableOf[hreq[h].path]

\* tab[i] == 0 is read here and assigned in the next step.
ScanFree(h) ==
  /\ At(h, "scan")
  /\ hpos[h] < MAXCLIENTS
  /\ tab[MyTable(h)][hpos[h]] = Empty
  /\ Goto(h, "store")
  /\ UNCHANGED <<procVars, connVars, mainVars, hfd, hreq, hpos>>

ScanTaken(h) ==
  /\ At(h, "scan")
  /\ hpos[h] < MAXCLIENTS
  /\ tab[MyTable(h)][hpos[h]] # Empty
  /\ hpos' = [hpos EXCEPT ![h] = @ + 1]
  /\ UNCHANGED <<procVars, connVars, mainVars, hpc, hfd, hreq>>

\* Mutant: the last slot is never looked at.
ScanFullEarly(h) ==
  /\ At(h, "scan")
  /\ hpos[h] >= MAXCLIENTS - 1
  /\ Goto(h, "exit")
  /\ UNCHANGED <<procVars, connVars, mainVars, hfd, hreq, hpos>>

\* add_client returned -1.
ScanFull(h) ==
  /\ At(h, "scan")
  /\ hpos[h] = MAXCLIENTS
  /\ Goto(h, "exit")
  /\ UNCHANGED <<procVars, connVars, mainVars, hfd, hreq, hpos>>

\* Mutants of the assignment: it goes to the slot after the free one, the loop
\* goes on after it, or an answer is sent after it.
StoreNext(h) ==
  /\ At(h, "store")
  /\ tab' = [tab EXCEPT ![MyTable(h)][(hpos[h] + 1) % MAXCLIENTS] = hfd[h]]
  /\ Return(h)
  /\ UNCHANGED <<proc, connVars, mainVars, hfd>>

StoreInAll(h) ==
  /\ At(h, "store")
  /\ tab' = [tab EXCEPT ![MyTable(h)][hpos[h]] = hfd[h]]
  /\ Goto(h, "scan")
  /\ hpos' = [hpos EXCEPT ![h] = @ + 1]
  /\ UNCHANGED <<proc, connVars, mainVars, hfd, hreq>>

StoreThenAnswer(h) ==
  /\ At(h, "store")
  /\ tab' = [tab EXCEPT ![MyTable(h)][hpos[h]] = hfd[h]]
  /\ Goto(h, "list")
  /\ UNCHANGED <<proc, connVars, mainVars, hfd, hreq, hpos>>

Store(h) ==
  /\ At(h, "store")
  /\ tab' = [tab EXCEPT ![MyTable(h)][hpos[h]] = hfd[h]]
  /\ Return(h)
  /\ UNCHANGED <<proc, connVars, mainVars, hfd>>

\* A write to a client that left, at any of the places above.
HandlerWriteFails(h) ==
  /\ Running
  /\ \/ hpc[h] \in {"reject", "answer", "list"}
     \/ hpc[h] = "copy" /\ hreq[h].path \notin Directories
                        /\ hpos[h] < FileSize[hreq[h].path]
  /\ WriteFails(hfd[h])
  /\ UNCHANGED <<tab, connVars, handlerVars>>

HandlerStep(h) ==
  \/ Start(h) \/ RecvRequest(h) \/ RecvEof(h) \/ RecvError(h)
  \/ Dispatch(h) \/ ExitProcess(h)
  \/ Reject(h) \/ AnswerGet(h) \/ CopyChunk(h) \/ CopyFails(h) \/ CopyDone(h)
  \/ AnswerDir(h) \/ DupOut(h) \/ DupErr(h) \/ ExecLs(h) \/ LsWrites(h)
  \/ ScanFree(h) \/ ScanTaken(h) \/ ScanFull(h) \/ Store(h)
  \/ HandlerWriteFails(h)
=============================================================================
